------------------------------- MODULE TklQueue -------------------------------
(***************************************************************************)
(* The message queue of tuyaos_adapter/src/tkl_queue.c: a ring of buffer   *)
(* pointers behind one mutex and two condition variables, and the          *)
(* tkl_queue_* entry points that copy messages into and out of the heap.   *)
(*                                                                         *)
(* A critical section (pthread_mutex_lock up to pthread_mutex_unlock or to *)
(* the condition wait) is one step: every access to the ring is made under *)
(* one_big_mutex.  malloc/memcpy before the lock and memcpy/free after the *)
(* unlock are steps of their own.  `terminated' is never set by the code,  *)
(* so the tests on it are left out.  A call that fails before it changes   *)
(* any state (malloc returned NULL) is a stuttering step.                  *)
(***************************************************************************)
EXTENDS Integers, FiniteSets, Sequences

CONSTANTS Threads,      \* the threads that share the queue
          Capacities,   \* the msgcount values a queue may be created with
          Bufs,         \* heap blocks malloc can hand out
          Msgs,         \* message contents
          None          \* NULL; also "no content" for a block that is free

ASSUME QueueAssumption ==
    /\ IsFiniteSet(Threads)
    /\ Capacities \subseteq Nat \ {0}
    /\ None \notin Msgs
    /\ None \notin Bufs

VARIABLES
    bounds,                       \* capacity, 0 while no queue exists
    data, nelts, in, out,         \* the ring
    full_waiters, empty_waiters,  \* waiter counts kept by the code
    mem,                          \* heap: content of each block, None = free
    pc, wake,                     \* control state, state of a condition wait
    wait_ms,                      \* the call's timeout: "none", "timed", "forever"
    buf,                          \* the call's local variable buf
    msg                           \* the message last copied out to the caller

ring == <<bounds, data, nelts, in, out>>
waiters == <<full_waiters, empty_waiters>>
vars == <<bounds, data, nelts, in, out, full_waiters, empty_waiters, mem,
          pc, wake, wait_ms, buf, msg>>

WaitModes == {"none", "timed", "forever"}

Init ==
    /\ bounds = 0 /\ data = <<>>
    /\ nelts = 0 /\ in = 0 /\ out = 0
    /\ full_waiters = 0 /\ empty_waiters = 0
    /\ mem = [b \in Bufs |-> None]
    /\ pc = [t \in Threads |-> "idle"]
    /\ wake = [t \in Threads |-> "running"]
    /\ wait_ms = [t \in Threads |-> "none"]
    /\ buf = [t \in Threads |-> None]
    /\ msg = [t \in Threads |-> None]

-------------------------------------------------------------------------------
(* The deadline of a timed wait *)

NsPerMs == 1000000

CarryDropsSecond(ts, wait) ==
    LET ms == ts.tv_nsec \div NsPerMs + (wait % 1000)
        sec == ts.tv_sec + wait \div 1000
    IN  IF ms > 1000
        THEN [tv_sec |-> sec, tv_nsec |-> (ms - 1000) * NsPerMs]
        ELSE [tv_sec |-> sec, tv_nsec |-> ms * NsPerMs]

(* The struct timespec for a wait in milliseconds from the clock reading   *)
(* ts.  The loop runs at most once: its ms is a sum of two remainders.     *)
set_timeout(ts, wait) ==
    LET ms == ts.tv_nsec \div NsPerMs + (wait % 1000)
        sec == ts.tv_sec + wait \div 1000
    IN  IF ms > 1000
        THEN [tv_sec |-> sec + 1, tv_nsec |-> (ms - 1000) * NsPerMs]
        ELSE [tv_sec |-> sec, tv_nsec |-> ms * NsPerMs]

-------------------------------------------------------------------------------
(* Helpers *)

Alive == bounds # 0
rpa_queue_full == nelts = bounds
rpa_queue_empty == nelts = 0

WaitingFull == {t \in Threads : pc[t] = "waitFull"}
WaitingEmpty == {t \in Threads : pc[t] = "waitEmpty"}
Asleep(S) == {t \in S : wake[t] = "asleep"}
Signaled(S) == {t \in S : wake[t] = "signaled"}

AdvanceOffByOne(i) == IF i + 1 > bounds THEN i + 1 - bounds ELSE i + 1

(* in++ / out++ and the wrap around. *)
Advance(i) == IF i + 1 >= bounds THEN i + 1 - bounds ELSE i + 1

SignalOnlyFirstWaiter(count, S, w) ==
    IF count # 1 \/ S = {} THEN {w}
    ELSE {[w EXCEPT ![s] = "signaled"] : s \in S}

SignalSecondWaiter(count, S, w) ==
    IF count < 2 \/ S = {} THEN {w}
    ELSE {[w EXCEPT ![s] = "signaled"] : s \in S}

(* pthread_cond_signal, called only when the waiter count is not zero:     *)
(* one of the sleepers S, if there is any, is woken; w is the wake state   *)
(* otherwise.                                                              *)
Signal(count, S, w) ==
    IF count = 0 \/ S = {} THEN {w}
    ELSE {[w EXCEPT ![s] = "signaled"] : s \in S}

Return(t) ==
    /\ pc' = [pc EXCEPT ![t] = "idle"]
    /\ buf' = [buf EXCEPT ![t] = None]
    /\ wait_ms' = [wait_ms EXCEPT ![t] = "none"]

Awake(t) == [wake EXCEPT ![t] = "running"]

-------------------------------------------------------------------------------
(* tkl_queue_create_init and tkl_queue_free.  The caller creates the queue *)
(* before any thread uses it and frees it when no thread is inside a call. *)

rpa_queue_create(c) ==
    /\ bounds' = c
    /\ data' = [i \in 0..(c - 1) |-> None]
    /\ nelts' = 0 /\ in' = 0 /\ out' = 0
    /\ full_waiters' = 0 /\ empty_waiters' = 0

tkl_queue_create_init(t) ==
    /\ pc[t] = "idle" /\ ~Alive
    /\ \E c \in Capacities : rpa_queue_create(c)
    /\ UNCHANGED <<mem, pc, wake, wait_ms, buf, msg>>

(* The messages still queued are not freed. *)
rpa_queue_destroy ==
    bounds' = 0 /\ data' = <<>> /\ nelts' = 0 /\ in' = 0 /\ out' = 0

tkl_queue_free(t) ==
    /\ Alive
    /\ \A u \in Threads : pc[u] = "idle"
    /\ rpa_queue_destroy
    /\ UNCHANGED <<waiters, mem, pc, wake, wait_ms, buf, msg>>

-------------------------------------------------------------------------------
(* tkl_queue_post *)

(* malloc and memcpy of the message, before the queue is locked. *)
tkl_queue_post(t, m, w) ==
    /\ pc[t] = "idle" /\ Alive
    /\ \E b \in Bufs :
         /\ mem[b] = None
         /\ mem' = [mem EXCEPT ![b] = m]
         /\ buf' = [buf EXCEPT ![t] = b]
    /\ wait_ms' = [wait_ms EXCEPT ![t] = w]
    /\ pc' = [pc EXCEPT ![t] = "push"]
    /\ UNCHANGED <<ring, waiters, wake, msg>>

(* The tail of a push: store the pointer, signal a fetcher, unlock. *)
Store(t) ==
    /\ data' = [data EXCEPT ![in] = buf[t]]
    /\ in' = Advance(in)
    /\ nelts' = nelts + 1
    /\ wake' \in Signal(empty_waiters, Asleep(WaitingEmpty), Awake(t))
    /\ Return(t)
    /\ UNCHANGED <<bounds, out, empty_waiters, mem, msg>>

(* A push that gives up.  The copy made by tkl_queue_post is not freed. *)
PushFails(t) ==
    /\ Return(t)
    /\ wake' = Awake(t)
    /\ UNCHANGED <<ring, empty_waiters, mem, msg>>

rpa_queue_trypush(t) ==
    /\ pc[t] = "push" /\ wait_ms[t] = "none"
    /\ \/ ~rpa_queue_full /\ Store(t)
       \/ rpa_queue_full /\ PushFails(t)
    /\ UNCHANGED full_waiters

rpa_queue_timedpush(t) ==
    /\ pc[t] = "push" /\ wait_ms[t] # "none"
    /\ \/ ~rpa_queue_full /\ Store(t) /\ UNCHANGED full_waiters
       \/ /\ rpa_queue_full
          /\ full_waiters' = full_waiters + 1
          /\ pc' = [pc EXCEPT ![t] = "waitFull"]
          /\ wake' = [wake EXCEPT ![t] = "asleep"]
          /\ UNCHANGED <<ring, empty_waiters, mem, wait_ms, buf, msg>>
       \/ \* set_timeout gave an invalid timespec: EINVAL without waiting
          /\ rpa_queue_full /\ wait_ms[t] = "timed"
          /\ PushFails(t) /\ UNCHANGED full_waiters

PushResumeKeepsCount(t) ==
    /\ pc[t] = "waitFull" /\ wake[t] # "asleep"
    /\ \/ /\ wake[t] # "timedout" /\ ~rpa_queue_full /\ Store(t)
          /\ full_waiters' = full_waiters - 1
       \/ /\ wake[t] = "timedout" \/ rpa_queue_full
          /\ PushFails(t) /\ UNCHANGED full_waiters

(* The condition wait returns with the mutex held again. *)
PushResume(t) ==
    /\ pc[t] = "waitFull" /\ wake[t] # "asleep"
    /\ full_waiters' = full_waiters - 1
    /\ \/ wake[t] # "timedout" /\ ~rpa_queue_full /\ Store(t)
       \/ (wake[t] = "timedout" \/ rpa_queue_full) /\ PushFails(t)

-------------------------------------------------------------------------------
(* tkl_queue_fetch *)

tkl_queue_fetch(t, w) ==
    /\ pc[t] = "idle" /\ Alive
    /\ pc' = [pc EXCEPT ![t] = "pop"]
    /\ wait_ms' = [wait_ms EXCEPT ![t] = w]
    /\ UNCHANGED <<ring, waiters, mem, wake, buf, msg>>

LoadReleasesBlock(t) ==
    /\ buf' = [buf EXCEPT ![t] = data[out]]
    /\ mem' = [mem EXCEPT ![data[out]] = None]
    /\ out' = Advance(out)
    /\ nelts' = nelts - 1
    /\ wake' \in Signal(full_waiters, Asleep(WaitingFull), Awake(t))
    /\ pc' = [pc EXCEPT ![t] = "copy"]
    /\ UNCHANGED <<bounds, data, in, full_waiters, wait_ms, msg>>

(* The tail of a pop: take the pointer, signal a poster, unlock. *)
Load(t) ==
    /\ buf' = [buf EXCEPT ![t] = data[out]]
    /\ out' = Advance(out)
    /\ nelts' = nelts - 1
    /\ wake' \in Signal(full_waiters, Asleep(WaitingFull), Awake(t))
    /\ pc' = [pc EXCEPT ![t] = "copy"]
    /\ UNCHANGED <<bounds, data, in, full_waiters, mem, wait_ms, msg>>

PopFails(t) ==
    /\ Return(t)
    /\ wake' = Awake(t)
    /\ UNCHANGED <<ring, full_waiters, mem, msg>>

rpa_queue_trypop(t) ==
    /\ pc[t] = "pop" /\ wait_ms[t] = "none"
    /\ \/ ~rpa_queue_empty /\ Load(t)
       \/ rpa_queue_empty /\ PopFails(t)
    /\ UNCHANGED empty_waiters

rpa_queue_timedpop(t) ==
    /\ pc[t] = "pop" /\ wait_ms[t] # "none"
    /\ \/ ~rpa_queue_empty /\ Load(t) /\ UNCHANGED empty_waiters
       \/ /\ rpa_queue_empty
          /\ empty_waiters' = empty_waiters + 1
          /\ pc' = [pc EXCEPT ![t] = "waitEmpty"]
          /\ wake' = [wake EXCEPT ![t] = "asleep"]
          /\ UNCHANGED <<ring, full_waiters, mem, wait_ms, buf, msg>>
       \/ /\ rpa_queue_empty /\ wait_ms[t] = "timed"
          /\ PopFails(t) /\ UNCHANGED empty_waiters

PopResume(t) ==
    /\ pc[t] = "waitEmpty" /\ wake[t] # "asleep"
    /\ empty_waiters' = empty_waiters - 1
    /\ \/ wake[t] # "timedout" /\ ~rpa_queue_empty /\ Load(t)
       \/ (wake[t] = "timedout" \/ rpa_queue_empty) /\ PopFails(t)

FetchDoneNoFree(t) ==
    /\ pc[t] = "copy"
    /\ msg' = [msg EXCEPT ![t] = mem[buf[t]]]
    /\ Return(t)
    /\ UNCHANGED <<ring, waiters, mem, wake>>

(* Back in tkl_queue_fetch after the unlock: memcpy to the caller, free. *)
FetchDone(t) ==
    /\ pc[t] = "copy"
    /\ msg' = [msg EXCEPT ![t] = mem[buf[t]]]
    /\ mem' = [mem EXCEPT ![buf[t]] = None]
    /\ Return(t)
    /\ UNCHANGED <<ring, waiters, wake>>

-------------------------------------------------------------------------------
(* The condition variables' own steps. *)

Interrupt(t) ==
    /\ wake[t] = "asleep"
    /\ \/ wake' = [wake EXCEPT ![t] = "spurious"]
       \/ wait_ms[t] = "timed" /\ wake' = [wake EXCEPT ![t] = "timedout"]
    /\ UNCHANGED <<ring, waiters, mem, pc, wait_ms, buf, msg>>

-------------------------------------------------------------------------------
Post(t) == rpa_queue_trypush(t) \/ rpa_queue_timedpush(t) \/ PushResume(t)
Fetch(t) == rpa_queue_trypop(t) \/ rpa_queue_timedpop(t) \/ PopResume(t)
                \/ FetchDone(t)

Next == \E t \in Threads :
    \/ tkl_queue_create_init(t) \/ tkl_queue_free(t)
    \/ \E w \in WaitModes : \/ \E m \in Msgs : tkl_queue_post(t, m, w)
                            \/ tkl_queue_fetch(t, w)
    \/ Post(t) \/ Fetch(t)
    \/ Interrupt(t)

Spec == Init /\ [][Next]_vars

(* The scheduler runs a thread that is inside a call and not asleep. *)
FairSpec == Spec /\ \A t \in Threads : WF_vars(Post(t) \/ Fetch(t))

-------------------------------------------------------------------------------
(* Properties *)

(* Slot j of the ring holds an accepted message: it lies between out and   *)
(* in, going round.                                                        *)
Occupied(j) ==
    IF out + nelts <= bounds THEN out <= j /\ j < out + nelts
    ELSE out <= j \/ j < out + nelts - bounds

Slots == 0..(bounds - 1)
Queued == {data[j] : j \in {i \in Slots : Occupied(i)}}
Held == {buf[t] : t \in Threads} \ {None}

(* A heap block nobody can reach any more. *)
Leaked(b) == mem[b] # None /\ b \notin Queued \cup Held

(* Type invariant. *)
TypeOK ==
    /\ bounds \in Capacities \cup {0}
    /\ data \in [Slots -> Bufs \cup {None}]
    /\ nelts \in Nat /\ in \in Nat /\ out \in Nat
    /\ full_waiters \in Nat /\ empty_waiters \in Nat
    /\ mem \in [Bufs -> Msgs \cup {None}]
    /\ pc \in [Threads -> {"idle", "push", "waitFull",
                           "pop", "waitEmpty", "copy"}]
    /\ wake \in [Threads -> {"running", "asleep", "signaled",
                             "spurious", "timedout"}]
    /\ wait_ms \in [Threads -> WaitModes]
    /\ buf \in [Threads -> Bufs \cup {None}]
    /\ msg \in [Threads -> Msgs \cup {None}]

(* The two ring cursors and the element count that trypush, timedpush,     *)
(* trypop and timedpop update separately always describe the same segment: *)
(* in is nelts places after out, going round, and both stay inside data.   *)
RingConsistent ==
    /\ nelts <= bounds
    /\ Alive => in < bounds /\ out < bounds
    /\ in = (IF out + nelts < bounds THEN out + nelts ELSE out + nelts - bounds)

(* full_waiters and empty_waiters, which decide whether anybody is         *)
(* signaled, count exactly the threads inside a condition wait, through    *)
(* time-outs and spurious wake-ups.                                        *)
WaiterCounts ==
    /\ full_waiters = Cardinality(WaitingFull)
    /\ empty_waiters = Cardinality(WaitingEmpty)
    /\ \A t \in Threads :
         wake[t] = "running" <=> pc[t] \notin {"waitFull", "waitEmpty"}

(* No lost wake-up: while a fetcher sleeps, each queued message has a      *)
(* signaled fetcher of its own on its way, and while a poster sleeps each  *)
(* free slot has a signaled poster.  One pthread_cond_signal per push and  *)
(* per pop is enough, although the woken thread does not hold the mutex    *)
(* yet and others may take the message first.                              *)
NoLostWakeup ==
    /\ Asleep(WaitingEmpty) # {} =>
         nelts <= Cardinality(Signaled(WaitingEmpty))
    /\ Asleep(WaitingFull) # {} =>
         bounds - nelts <= Cardinality(Signaled(WaitingFull))

(* Posters and fetchers never all wait for each other: if both kinds sleep *)
(* on the two condition variables, some waiter has already been signaled.  *)
NoMutualSleep ==
    Asleep(WaitingEmpty) # {} /\ Asleep(WaitingFull) # {} =>
        Signaled(WaitingEmpty \cup WaitingFull) # {}

(* Every message copy has one owner: the copies in the ring and the copies *)
(* held by a call in progress are allocated and all different, so fetch    *)
(* never frees a block twice and never reads one that was freed.           *)
Ownership ==
    /\ \A t \in Threads :
         /\ buf[t] # None <=> pc[t] \in {"push", "waitFull", "copy"}
         /\ buf[t] # None => mem[buf[t]] # None
    /\ \A t, u \in Threads : t # u /\ buf[t] # None => buf[t] # buf[u]
    /\ \A j \in Slots : Occupied(j) =>
         /\ data[j] # None /\ mem[data[j]] # None
         /\ \A t \in Threads : buf[t] # data[j]
         /\ \A k \in Slots : Occupied(k) /\ k # j => data[k] # data[j]

(* A message copy becomes unreachable in two situations only: a post gives *)
(* up (tkl_queue_post does not free its copy), or the queue is freed with  *)
(* messages in it.  Every other copy is eventually freed by a fetch.       *)
LeakOnlyOnFailedPostOrFree ==
    [][(\E b \in Bufs : Leaked(b)' /\ ~Leaked(b)) =>
         \/ ~Alive'
         \/ nelts' = nelts /\ \E t \in Threads :
              pc[t] \in {"push", "waitFull"} /\ pc'[t] = "idle"]_vars

(* The ring with its heap copies implements the bounded FIFO channel.      *)
QueueContents ==
    [i \in 1..nelts |-> mem[data[IF out + i - 1 < bounds THEN out + i - 1
                                 ELSE out + i - 1 - bounds]]]
Fifo == INSTANCE BoundedFifo WITH
    q <- QueueContents,
    cap <- bounds,
    hand <- [t \in Threads |-> IF pc[t] = "copy" THEN mem[buf[t]] ELSE None],
    last <- msg
(* tkl_queue_post/fetch never lose, duplicate, reorder or alter a message  *)
(* that was accepted, whatever the interleaving of callers, time-outs and  *)
(* spurious wake-ups.                                                      *)
FifoSpec == Fifo!Spec

(* A message does not stay in the queue beside a sleeping fetcher, nor a   *)
(* free slot beside a sleeping poster: the signal sent by the push or pop  *)
(* resolves it.                                                            *)
NothingStranded ==
    /\ (nelts > 0 /\ Asleep(WaitingEmpty) # {})
         ~> (nelts = 0 \/ Asleep(WaitingEmpty) = {})
    /\ (nelts < bounds /\ Asleep(WaitingFull) # {})
         ~> (nelts = bounds \/ Asleep(WaitingFull) = {})
===============================================================================
