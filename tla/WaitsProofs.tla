----------------------------- MODULE WaitsProofs ------------------------------
(***************************************************************************)
(* Proofs about the waiting primitives.  TklQueue, for every set of        *)
(* threads, capacity, heap and set of messages: the inductive invariant    *)
(* IInv joins the properties TLC checks with the fact that no call is in   *)
(* progress while no queue exists.  TklSemaphore, for every set of threads *)
(* and count.  The deadlines, for every clock reading and timeout.         *)
(***************************************************************************)
EXTENDS MCTklWaits, FiniteSetTheorems, TLAPS

-------------------------------------------------------------------------------
(* The deadlines. *)

(* tkl_semaphore_wait adds the timeout exactly and leaves a normalised     *)
(* time.                                                                   *)
LEMMA SemDeadlineAdds ==
    ASSUME NEW ts \in Times, NEW ms \in Nat
    PROVE  LET d == sem_deadline(ts, ms)
           IN  /\ Valid(d)
               /\ Millis(d) = Millis(ts) + ms
               /\ d.tv_nsec % NsPerMs = ts.tv_nsec % NsPerMs
<1>1. PICK s \in Nat, n \in Nat : ts = [tv_sec |-> s, tv_nsec |-> n] /\ n < 1000000000
  BY SMT DEF Times, Valid, NsPerSec
<1>2. PICK q \in Nat, r \in Nat : n = q * 1000000 + r /\ q < 1000 /\ r < 1000000
  <2>1. /\ n \div 1000000 \in Nat /\ n \div 1000000 < 1000
        /\ n % 1000000 \in Nat /\ n % 1000000 < 1000000
        /\ n = (n \div 1000000) * 1000000 + (n % 1000000)
    BY SMT, <1>1
  <2> QED
    BY SMT, <2>1
<1>3. PICK b \in Nat, a \in Nat :
           ms = b * 1000 + a /\ a < 1000 /\ b = ms \div 1000 /\ a = ms % 1000
  BY SMT
<1>4. Millis(ts) = s * 1000 + q /\ ts.tv_nsec % NsPerMs = r
  BY SMT, <1>1, <1>2 DEF Millis, NsPerMs
<1>5. CASE q + a >= 1000
  <2>1. PICK m \in Nat : m = q + a - 1000 /\ m < 1000
    BY SMT, <1>2, <1>3, <1>5
  <2>2. /\ n + a * 1000000 = 1000000000 + (m * 1000000 + r)
        /\ m * 1000000 + r < 1000000000
    BY SMT, <1>2, <2>1
  <2>3. sem_deadline(ts, ms) = [tv_sec |-> s + b + 1, tv_nsec |-> m * 1000000 + r]
    <3>1. /\ (n + a * 1000000) \div 1000000000 = 1
          /\ (n + a * 1000000) % 1000000000 = m * 1000000 + r
      BY SMT, <2>2
    <3> QED
      BY SMT, <1>1, <1>3, <2>2, <3>1 DEF sem_deadline, NsPerSec
  <2>4. (m * 1000000 + r) \div 1000000 = m /\ (m * 1000000 + r) % 1000000 = r
    BY SMT, <1>2
  <2> QED
    BY SMT, <1>3, <1>4, <2>1, <2>2, <2>3, <2>4 DEF Valid, Millis, NsPerMs, NsPerSec
<1>6. CASE q + a < 1000
  <2>1. PICK m \in Nat : m = q + a /\ m < 1000
    BY SMT, <1>6
  <2>2. n + a * 1000000 = m * 1000000 + r /\ m * 1000000 + r < 1000000000
    BY SMT, <1>2, <2>1
  <2>3. sem_deadline(ts, ms) = [tv_sec |-> s + b, tv_nsec |-> m * 1000000 + r]
    BY SMT, <1>1, <1>3, <2>2 DEF sem_deadline, NsPerSec
  <2>4. (m * 1000000 + r) \div 1000000 = m /\ (m * 1000000 + r) % 1000000 = r
    BY SMT, <1>2
  <2> QED
    BY SMT, <1>3, <1>4, <2>1, <2>2, <2>3, <2>4 DEF Valid, Millis, NsPerMs, NsPerSec
<1> QED
  BY SMT, <1>5, <1>6

(* set_timeout adds the timeout to the whole milliseconds of the reading. *)
LEMMA QueueDeadlineAdds ==
    ASSUME NEW ts \in Times, NEW ms \in Nat
    PROVE  Millis(set_timeout(ts, ms)) =
             Millis(ts) + ms
  BY SMTT(30) DEF Times, set_timeout, Millis,
      NsPerSec, NsPerMs

(* The deadlines of tkl_semaphore_wait and set_timeout are right at every  *)
(* reading of the clock and for every timeout.                             *)
THEOREM DeadlinesNameTheMoment == DeadlineSpec => []DeadlinesOnTime
  <1> DEFINE Inv == now \in Times /\ timeout \in Nat /\ DeadlinesOnTime
  <1>1. DeadlineInit => Inv
    BY ClockAssumption DEF DeadlineInit, DeadlinesOnTime
  <1>2. Inv /\ [DeadlineNext]_deadline => Inv'
    <2> SUFFICES ASSUME Inv, [DeadlineNext]_deadline PROVE Inv'
      OBVIOUS
    <2> USE DEF DeadlinesOnTime
    <2>1. CASE SemWait
      BY <2>1, SemDeadlineAdds DEF SemWait
    <2>2. CASE QueueWait
      BY <2>2, QueueDeadlineAdds DEF QueueWait
    <2>3. CASE UNCHANGED deadline
      BY <2>3 DEF deadline
    <2> QED
      BY <2>1, <2>2, <2>3 DEF DeadlineNext
  <1> QED
    BY <1>1, <1>2, PTL DEF DeadlineSpec

-------------------------------------------------------------------------------
(* The queue. *)

(* No thread is inside a call unless a queue exists. *)
DeadMeansIdle == ~Alive => \A t \in Threads : pc[t] = "idle"

IInv == /\ TypeOK /\ RingConsistent /\ WaiterCounts
        /\ NoLostWakeup /\ Ownership /\ DeadMeansIdle

Pcs == {"idle", "push", "waitFull", "pop", "waitEmpty", "copy"}

(* Subsets of Threads are finite and have a natural cardinality. *)
LEMMA ThreadSets ==
    ASSUME NEW S, S \subseteq Threads
    PROVE  IsFiniteSet(S) /\ Cardinality(S) \in Nat
           /\ (Cardinality(S) = 0 <=> S = {})
  BY QueueAssumption, FS_Subset, FS_CardinalityType, FS_EmptySet

(* Adding one thread. *)
LEMMA CardAdd ==
    ASSUME NEW S, S \subseteq Threads, NEW t \in Threads
    PROVE  Cardinality(S \cup {t}) =
             IF t \in S THEN Cardinality(S) ELSE Cardinality(S) + 1
  BY ThreadSets, FS_AddElement

(* Removing one thread. *)
LEMMA CardRemove ==
    ASSUME NEW S, S \subseteq Threads, NEW t \in Threads
    PROVE  Cardinality(S \ {t}) =
             IF t \in S THEN Cardinality(S) - 1 ELSE Cardinality(S)
  BY ThreadSets, FS_RemoveElement

(* How the sets of waiting threads change when t moves to x. *)
LEMMA WaitingStep ==
    ASSUME NEW t \in Threads, NEW x, pc \in [Threads -> Pcs],
           pc' = [pc EXCEPT ![t] = x]
    PROVE  /\ WaitingFull' = IF x = "waitFull" THEN WaitingFull \cup {t}
                             ELSE WaitingFull \ {t}
           /\ WaitingEmpty' = IF x = "waitEmpty" THEN WaitingEmpty \cup {t}
                              ELSE WaitingEmpty \ {t}
  BY DEF WaitingFull, WaitingEmpty

(* The number of waiting threads after t moves to x. *)
LEMMA WaitingCard ==
    ASSUME NEW t \in Threads, NEW x, pc \in [Threads -> Pcs],
           pc' = [pc EXCEPT ![t] = x]
    PROVE  /\ Cardinality(WaitingFull') = Cardinality(WaitingFull)
                + (IF x = "waitFull" THEN 1 ELSE 0)
                - (IF pc[t] = "waitFull" THEN 1 ELSE 0)
           /\ Cardinality(WaitingEmpty') = Cardinality(WaitingEmpty)
                + (IF x = "waitEmpty" THEN 1 ELSE 0)
                - (IF pc[t] = "waitEmpty" THEN 1 ELSE 0)
           /\ Cardinality(WaitingFull) \in Nat
           /\ Cardinality(WaitingEmpty) \in Nat
           /\ pc[t] = "waitFull" => Cardinality(WaitingFull) > 0
           /\ pc[t] = "waitEmpty" => Cardinality(WaitingEmpty) > 0
  <1> DEFINE F == WaitingFull  E == WaitingEmpty
  <1>1. F \subseteq Threads /\ E \subseteq Threads
    BY DEF WaitingFull, WaitingEmpty
  <1>2. (t \in F <=> pc[t] = "waitFull") /\ (t \in E <=> pc[t] = "waitEmpty")
    BY DEF WaitingFull, WaitingEmpty
  <1>3. Cardinality(F) \in Nat /\ Cardinality(E) \in Nat
        /\ (Cardinality(F) = 0 <=> F = {}) /\ (Cardinality(E) = 0 <=> E = {})
    BY <1>1, ThreadSets
  <1>4. Cardinality(F \cup {t}) =
          IF t \in F THEN Cardinality(F) ELSE Cardinality(F) + 1
    BY <1>1, CardAdd
  <1>5. Cardinality(E \cup {t}) =
          IF t \in E THEN Cardinality(E) ELSE Cardinality(E) + 1
    BY <1>1, CardAdd
  <1>6. Cardinality(F \ {t}) =
          IF t \in F THEN Cardinality(F) - 1 ELSE Cardinality(F)
    BY <1>1, CardRemove
  <1>7. Cardinality(E \ {t}) =
          IF t \in E THEN Cardinality(E) - 1 ELSE Cardinality(E)
    BY <1>1, CardRemove
  <1>8. /\ F' = IF x = "waitFull" THEN F \cup {t} ELSE F \ {t}
        /\ E' = IF x = "waitEmpty" THEN E \cup {t} ELSE E \ {t}
    BY Zenon, WaitingStep
  <1> HIDE DEF F, E
  <1>9. /\ Cardinality(F') = Cardinality(F)
                + (IF x = "waitFull" THEN 1 ELSE 0)
                - (IF pc[t] = "waitFull" THEN 1 ELSE 0)
        /\ Cardinality(E') = Cardinality(E)
                + (IF x = "waitEmpty" THEN 1 ELSE 0)
                - (IF pc[t] = "waitEmpty" THEN 1 ELSE 0)
    BY <1>2, <1>3, <1>4, <1>5, <1>6, <1>7, <1>8
  <1>10. QED
    BY <1>2, <1>3, <1>9 DEF F, E


-------------------------------------------------------------------------------
(* Type correctness, the ring cursors and DeadMeansIdle. *)

(* A thread inside a condition wait is counted. *)
LEMMA CountedWaiter ==
    ASSUME WaiterCounts, NEW t \in Threads
    PROVE  /\ pc[t] = "waitFull" => full_waiters > 0
           /\ pc[t] = "waitEmpty" => empty_waiters > 0
  <1>1. WaitingFull \subseteq Threads /\ WaitingEmpty \subseteq Threads
    BY DEF WaitingFull, WaitingEmpty
  <1>2. /\ Cardinality(WaitingFull) \in Nat /\ Cardinality(WaitingEmpty) \in Nat
        /\ Cardinality(WaitingFull) = 0 <=> WaitingFull = {}
        /\ Cardinality(WaitingEmpty) = 0 <=> WaitingEmpty = {}
    BY <1>1, ThreadSets
  <1>3. /\ pc[t] = "waitFull" => WaitingFull # {}
        /\ pc[t] = "waitEmpty" => WaitingEmpty # {}
    BY DEF WaitingFull, WaitingEmpty
  <1> QED
    BY <1>2, <1>3 DEF WaiterCounts

(* The wake states Signal can produce. *)
LEMMA SignalType ==
    ASSUME NEW n, NEW S, S \subseteq Threads, NEW w,
           w \in [Threads -> {"running", "asleep", "signaled",
                              "spurious", "timedout"}],
           NEW v \in Signal(n, S, w)
    PROVE  v \in [Threads -> {"running", "asleep", "signaled",
                              "spurious", "timedout"}]
  BY DEF Signal

(* Every step keeps the types. *)
LEMMA TypeStep == IInv /\ [Next]_vars => TypeOK'
  <1> SUFFICES ASSUME IInv, [Next]_vars PROVE TypeOK'
    OBVIOUS
  <1> USE DEF TypeOK, Slots, WaitModes
  <1>0. CASE UNCHANGED vars
    BY <1>0 DEF IInv, vars
  <1>1. ASSUME NEW t \in Threads,
               tkl_queue_create_init(t) \/ tkl_queue_free(t)
        PROVE  TypeOK'
    <2>1. CASE tkl_queue_create_init(t)
      BY <2>1, QueueAssumption DEF IInv, tkl_queue_create_init, rpa_queue_create
    <2>2. CASE tkl_queue_free(t)
      <3>1. data' \in [{} -> Bufs \cup {None}] /\ 0..(bounds' - 1) = {}
        BY <2>2 DEF tkl_queue_free, rpa_queue_destroy
      <3> QED
        BY <2>2, <3>1 DEF IInv, tkl_queue_free, rpa_queue_destroy, waiters
    <2> QED
      BY <1>1, <2>1, <2>2
  <1>2. ASSUME NEW t \in Threads, NEW w \in WaitModes,
               (\E m \in Msgs : tkl_queue_post(t, m, w))
                 \/ tkl_queue_fetch(t, w)
        PROVE  TypeOK'
    BY <1>2 DEF IInv, tkl_queue_post, tkl_queue_fetch, ring, waiters
  <1>3. ASSUME NEW t \in Threads, Post(t)
        PROVE  TypeOK'
    <2>1. /\ full_waiters' \in Nat
          /\ pc' \in [Threads -> Pcs]
      <3>1. pc[t] = "waitFull" => full_waiters > 0
        BY CountedWaiter DEF IInv
      <3> QED
        BY SMTT(30), <1>3, <3>1 DEF IInv, Post, rpa_queue_trypush, rpa_queue_timedpush,
           PushResume, Store, PushFails, Return, Pcs
    <2>2. wake' \in [Threads -> {"running", "asleep", "signaled",
                                 "spurious", "timedout"}]
      <3>1. CASE Store(t)
        <4>1. Asleep(WaitingEmpty) \subseteq Threads
          BY DEF Asleep, WaitingEmpty
        <4>2. Awake(t) \in [Threads -> {"running", "asleep", "signaled",
                                        "spurious", "timedout"}]
          BY DEF Awake, IInv
        <4> QED
          BY Zenon, <3>1, <4>1, <4>2, SignalType DEF Store
      <3>2. CASE PushFails(t)
        BY <3>2 DEF PushFails, Awake, IInv
      <3>3. CASE wake' = [wake EXCEPT ![t] = "asleep"]
        BY <3>3 DEF IInv
      <3> QED
        BY <1>3, <3>1, <3>2, <3>3
        DEF Post, rpa_queue_trypush, rpa_queue_timedpush, PushResume
    <2>3. /\ bounds' = bounds /\ mem' = mem /\ msg' = msg
          /\ empty_waiters' = empty_waiters /\ out' = out
          /\ data' \in [Slots -> Bufs \cup {None}]
          /\ in' \in Nat /\ nelts' \in Nat
          /\ buf' \in [Threads -> Bufs \cup {None}]
          /\ wait_ms' \in [Threads -> WaitModes]
      <3>1. CASE Store(t)
        <4>1. bounds \in Nat /\ in \in Nat
          BY QueueAssumption DEF IInv
        <4>2. in' \in Nat
          BY <3>1, <4>1 DEF Store, Advance
        <4>3. data' \in [Slots -> Bufs \cup {None}]
          BY Zenon, <3>1, <1>3 DEF IInv, Store
        <4>4. buf' \in [Threads -> Bufs \cup {None}]
              /\ wait_ms' \in [Threads -> WaitModes]
          BY Zenon, <3>1, <1>3 DEF IInv, Store, Return
        <4> QED
          BY <3>1, <4>2, <4>3, <4>4 DEF IInv, Store
      <3>2. CASE PushFails(t)
        BY Zenon, <3>2, <1>3 DEF IInv, PushFails, Return, ring
      <3>3. CASE UNCHANGED <<ring, empty_waiters, mem, wait_ms, buf, msg>>
        BY Zenon, <3>3 DEF IInv, ring
      <3> QED
        BY Zenon, <1>3, <3>1, <3>2, <3>3
        DEF Post, rpa_queue_trypush, rpa_queue_timedpush, PushResume
    <2> QED
      BY Zenon, <2>1, <2>2, <2>3 DEF IInv, Pcs
  <1>4. ASSUME NEW t \in Threads,
               rpa_queue_trypop(t) \/ rpa_queue_timedpop(t) \/ PopResume(t)
        PROVE  TypeOK'
    <2>1. /\ empty_waiters' \in Nat
          /\ pc' \in [Threads -> Pcs]
      <3>1. pc[t] = "waitEmpty" => empty_waiters > 0
        BY Zenon, CountedWaiter DEF IInv
      <3> QED
        BY SMTT(30), <1>4, <3>1 DEF IInv, rpa_queue_trypop, rpa_queue_timedpop,
           PopResume, Load, PopFails, Return, Pcs
    <2>2. wake' \in [Threads -> {"running", "asleep", "signaled",
                                 "spurious", "timedout"}]
      <3>1. CASE Load(t)
        <4>1. Asleep(WaitingFull) \subseteq Threads
          BY Zenon DEF Asleep, WaitingFull
        <4>2. Awake(t) \in [Threads -> {"running", "asleep", "signaled",
                                        "spurious", "timedout"}]
          BY DEF Awake, IInv
        <4> QED
          BY Zenon, <3>1, <4>1, <4>2, SignalType DEF Load
      <3>2. CASE PopFails(t)
        BY <3>2 DEF PopFails, Awake, IInv
      <3>3. CASE wake' = [wake EXCEPT ![t] = "asleep"]
        BY <3>3 DEF IInv
      <3> QED
        BY Zenon, <1>4, <3>1, <3>2, <3>3
        DEF rpa_queue_trypop, rpa_queue_timedpop, PopResume
    <2>3. /\ bounds' = bounds /\ mem' = mem /\ msg' = msg
          /\ full_waiters' = full_waiters /\ in' = in /\ data' = data
          /\ out' \in Nat /\ nelts' \in Nat
          /\ buf' \in [Threads -> Bufs \cup {None}]
          /\ wait_ms' \in [Threads -> WaitModes]
      BY SMTT(30), <1>4, QueueAssumption
      DEF IInv, rpa_queue_trypop, rpa_queue_timedpop,
         PopResume, Load, PopFails, Return, ring, Advance, RingConsistent,
         rpa_queue_empty, Alive
    <2> QED
      BY Zenon, <2>1, <2>2, <2>3 DEF IInv, Pcs
  <1>5. ASSUME NEW t \in Threads, FetchDone(t) \/ Interrupt(t)
        PROVE  TypeOK'
    <2>1. CASE FetchDone(t)
      <3>1. buf[t] \in Bufs /\ mem[buf[t]] \in Msgs
        BY <2>1 DEF IInv, FetchDone, Ownership
      <3> QED
        BY Zenon, <2>1, <3>1 DEF IInv, FetchDone, Return, ring, waiters
    <2>2. CASE Interrupt(t)
      BY Zenon, <2>2 DEF IInv, Interrupt, ring, waiters
    <2> QED
      BY Zenon, <1>5, <2>1, <2>2
  <1> QED
    BY Zenon, <1>0, <1>1, <1>2, <1>3, <1>4, <1>5 DEF Next, Fetch

(* The cursors stay consistent: Store and Load move one end by one place. *)
LEMMA RingStep == IInv /\ [Next]_vars => RingConsistent'
  <1> SUFFICES ASSUME IInv, [Next]_vars PROVE RingConsistent'
    BY SMTT(30)
  <1> USE QueueAssumption DEF TypeOK, RingConsistent, Alive
  <1>1. ASSUME NEW t \in Threads,
               tkl_queue_create_init(t) \/ tkl_queue_free(t)
        PROVE  RingConsistent'
    BY <1>1 DEF IInv, tkl_queue_create_init, rpa_queue_create, tkl_queue_free,
       rpa_queue_destroy
  <1>2. ASSUME NEW t \in Threads, Store(t), ~rpa_queue_full, pc[t] # "idle"
        PROVE  RingConsistent'
    BY <1>2 DEF IInv, Store, rpa_queue_full, Advance, DeadMeansIdle
  <1>3. ASSUME NEW t \in Threads, Load(t), ~rpa_queue_empty, pc[t] # "idle"
        PROVE  RingConsistent'
    BY <1>3 DEF IInv, Load, rpa_queue_empty, Advance, DeadMeansIdle
  <1>4. CASE UNCHANGED <<bounds, nelts, in, out>>
    BY Zenon, <1>4 DEF IInv
  <1> QED
    BY ZenonT(30), <1>1, <1>2, <1>3, <1>4
    DEF Next, vars, ring, tkl_queue_post, tkl_queue_fetch, Post, Fetch,
        rpa_queue_trypush, rpa_queue_timedpush, PushResume, PushFails,
        rpa_queue_trypop, rpa_queue_timedpop, PopResume, PopFails,
        FetchDone, Interrupt

(* Calls only start on a queue, and a queue is freed between calls. *)
LEMMA DeadStep == IInv /\ [Next]_vars => DeadMeansIdle'
  <1> SUFFICES ASSUME IInv, [Next]_vars PROVE DeadMeansIdle'
    BY SMTT(30)
  <1> USE QueueAssumption DEF DeadMeansIdle, Alive
  <1>1. CASE \E t \in Threads :
               tkl_queue_create_init(t) \/ tkl_queue_free(t)
    BY <1>1 DEF tkl_queue_create_init, rpa_queue_create, tkl_queue_free, rpa_queue_destroy
  <1>2. CASE bounds' = bounds /\ bounds # 0
    BY <1>2
  <1>3. CASE UNCHANGED vars
    BY <1>3 DEF IInv, vars
  <1>4. CASE \E t \in Threads : Interrupt(t)
    BY <1>4 DEF IInv, Interrupt, ring
  <1> QED
    BY ZenonT(30), <1>1, <1>2, <1>3, <1>4
    DEF IInv, Next, ring, tkl_queue_post, tkl_queue_fetch, Post, Fetch,
        rpa_queue_trypush, rpa_queue_timedpush, PushResume, PushFails, Store,
        rpa_queue_trypop, rpa_queue_timedpop, PopResume, PopFails, Load,
        FetchDone

-------------------------------------------------------------------------------
(* The waiter counts. *)

Wakes == {"running", "asleep", "signaled", "spurious", "timedout"}

(* A step that moves t from one control state to another, counts t in and  *)
(* out of the waiters, and otherwise only wakes sleepers.                  *)
Moves(t, x) ==
    /\ pc' = [pc EXCEPT ![t] = x]
    /\ full_waiters' = full_waiters + (IF x = "waitFull" THEN 1 ELSE 0)
                         - (IF pc[t] = "waitFull" THEN 1 ELSE 0)
    /\ empty_waiters' = empty_waiters + (IF x = "waitEmpty" THEN 1 ELSE 0)
                         - (IF pc[t] = "waitEmpty" THEN 1 ELSE 0)
    /\ wake'[t] = "running" <=> x \notin {"waitFull", "waitEmpty"}
    /\ \A u \in Threads \ {t} :
         wake'[u] = "running" <=> wake[u] = "running"

(* Such a step keeps the counts exact. *)
LEMMA MoveCounts ==
    ASSUME TypeOK, WaiterCounts, NEW t \in Threads, NEW x, Moves(t, x)
    PROVE  WaiterCounts'
  <1>t. pc \in [Threads -> Pcs] /\ full_waiters \in Nat /\ empty_waiters \in Nat
    BY DEF TypeOK, Pcs
  <1>1. /\ full_waiters' = Cardinality(WaitingFull')
        /\ empty_waiters' = Cardinality(WaitingEmpty')
    BY Zenon, <1>t, WaitingCard DEF WaiterCounts, Moves
  <1>2. \A u \in Threads :
          wake'[u] = "running" <=> pc'[u] \notin {"waitFull", "waitEmpty"}
    BY <1>t DEF WaiterCounts, Moves
  <1> QED
    BY Zenon, <1>1, <1>2 DEF WaiterCounts, WaitingFull, WaitingEmpty

(* Every step keeps the waiter counts exact. *)
LEMMA CountStep == IInv /\ [Next]_vars => WaiterCounts'
  <1> SUFFICES ASSUME IInv, [Next]_vars PROVE WaiterCounts'
    OBVIOUS
  <1>t. /\ pc \in [Threads -> Pcs] /\ wake \in [Threads -> Wakes]
        /\ full_waiters \in Nat /\ empty_waiters \in Nat
        /\ WaiterCounts
    BY DEF IInv, TypeOK, Pcs, Wakes
  <1>e. Asleep(WaitingEmpty) \subseteq Threads
        /\ Asleep(WaitingFull) \subseteq Threads
    BY Zenon DEF Asleep, WaitingEmpty, WaitingFull
  <1>0. CASE UNCHANGED <<pc, full_waiters, empty_waiters>>
             /\ (wake' = wake \/ \E t \in Threads : Interrupt(t))
    BY <1>0, <1>t DEF WaiterCounts, WaitingFull, WaitingEmpty, Interrupt, Wakes
  <1>1. ASSUME NEW t \in Threads, tkl_queue_create_init(t)
        PROVE  WaiterCounts'
    <2>1. WaitingFull' = {} /\ WaitingEmpty' = {}
      BY <1>1 DEF IInv, DeadMeansIdle, tkl_queue_create_init, rpa_queue_create, WaitingFull,
         WaitingEmpty
    <2> QED
      BY Zenon, <1>1, <1>t, <2>1, FS_EmptySet DEF tkl_queue_create_init,
         rpa_queue_create, WaiterCounts
  <1>3. ASSUME NEW t \in Threads, NEW w \in WaitModes,
               (\E m \in Msgs : tkl_queue_post(t, m, w))
                 \/ tkl_queue_fetch(t, w)
        PROVE  WaiterCounts'
    <2>1. pc[t] = "idle" /\ wake' = wake
          /\ (pc' = [pc EXCEPT ![t] = "push"] \/ pc' = [pc EXCEPT ![t] = "pop"])
          /\ full_waiters' = full_waiters /\ empty_waiters' = empty_waiters
      BY Zenon, <1>3 DEF tkl_queue_post, tkl_queue_fetch, waiters
    <2>2. wake[t] = "running"
      BY Zenon, <1>t, <2>1 DEF WaiterCounts
    <2>3. Moves(t, "push") \/ Moves(t, "pop")
      BY <2>1, <2>2, <1>t DEF Moves
    <2> QED
      BY <2>3, MoveCounts DEF IInv
  <1>4. ASSUME NEW t \in Threads, Post(t)
        PROVE  WaiterCounts'
    <2>1. CASE Store(t)
      <3>1. pc' = [pc EXCEPT ![t] = "idle"] /\ empty_waiters' = empty_waiters
            /\ pc[t] \in {"push", "waitFull"}
            /\ full_waiters' = full_waiters
                 - (IF pc[t] = "waitFull" THEN 1 ELSE 0)
        BY SMTT(30), <2>1, <1>4, <1>t DEF Post, Store, Return, rpa_queue_trypush,
           rpa_queue_timedpush, PushResume
      <3>2. Awake(t) \in [Threads -> Wakes]
        BY <1>t DEF Awake, Wakes
      <3>3. wake'[t] = "running" /\ \A u \in Threads \ {t} :
               wake'[u] = "running" <=> wake[u] = "running"
        <4>1. t \notin Asleep(WaitingEmpty)
          BY <3>1 DEF Asleep, WaitingEmpty
        <4>2. \A u \in Asleep(WaitingEmpty) : wake[u] = "asleep"
          BY DEF Asleep
        <4>3. /\ \A u \in Threads : u \notin Asleep(WaitingEmpty) =>
                   wake'[u] = Awake(t)[u]
              /\ \A u \in Threads : wake'[u] = Awake(t)[u]
                   \/ wake'[u] = "signaled"
          BY Zenon, <2>1, <3>2 DEF Store, Signal, Asleep, WaitingEmpty, Wakes
        <4> QED
          BY Zenon, <4>1, <4>2, <4>3, <1>t DEF Awake
      <3>9. Moves(t, "idle")
        BY <3>1, <3>3, <1>t DEF Moves
      <3> QED
        BY <3>9, MoveCounts DEF IInv
    <2>2. CASE PushFails(t)
      <3>1. pc' = [pc EXCEPT ![t] = "idle"] /\ empty_waiters' = empty_waiters
            /\ pc[t] \in {"push", "waitFull"}
            /\ full_waiters' = full_waiters
                 - (IF pc[t] = "waitFull" THEN 1 ELSE 0)
            /\ wake' = [wake EXCEPT ![t] = "running"]
        BY SMTT(30), <2>2, <1>4, <1>t DEF Post, PushFails, Return, rpa_queue_trypush,
           rpa_queue_timedpush, PushResume, Store, rpa_queue_full, Awake
      <3>9. Moves(t, "idle")
        BY <3>1, <1>t DEF Moves
      <3> QED
        BY <3>9, MoveCounts DEF IInv
    <2>3. CASE rpa_queue_timedpush(t) /\ ~Store(t) /\ ~PushFails(t)
      <3>1. pc' = [pc EXCEPT ![t] = "waitFull"]
            /\ empty_waiters' = empty_waiters
            /\ pc[t] = "push" /\ full_waiters' = full_waiters + 1
            /\ wake' = [wake EXCEPT ![t] = "asleep"]
        BY Zenon, <2>3 DEF rpa_queue_timedpush
      <3>9. Moves(t, "waitFull")
        BY <3>1, <1>t DEF Moves
      <3> QED
        BY Zenon, <3>9, MoveCounts DEF IInv
    <2> QED
      BY Zenon, <1>4, <2>1, <2>2, <2>3 DEF Post, rpa_queue_trypush, PushResume
  <1>5. ASSUME NEW t \in Threads,
               rpa_queue_trypop(t) \/ rpa_queue_timedpop(t) \/ PopResume(t)
        PROVE  WaiterCounts'
    <2>1. CASE Load(t)
      <3>1. pc' = [pc EXCEPT ![t] = "copy"] /\ full_waiters' = full_waiters
            /\ pc[t] \in {"pop", "waitEmpty"}
            /\ empty_waiters' = empty_waiters
                 - (IF pc[t] = "waitEmpty" THEN 1 ELSE 0)
        BY SMTT(30), <2>1, <1>5, <1>t DEF Load, rpa_queue_trypop,
           rpa_queue_timedpop, PopResume
      <3>2. Awake(t) \in [Threads -> Wakes]
        BY <1>t DEF Awake, Wakes
      <3>3. wake'[t] = "running" /\ \A u \in Threads \ {t} :
               wake'[u] = "running" <=> wake[u] = "running"
        <4>1. t \notin Asleep(WaitingFull)
          BY Zenon, <3>1 DEF Asleep, WaitingFull
        <4>2. \A u \in Asleep(WaitingFull) : wake[u] = "asleep"
          BY DEF Asleep
        <4>3. /\ \A u \in Threads : u \notin Asleep(WaitingFull) =>
                   wake'[u] = Awake(t)[u]
              /\ \A u \in Threads : wake'[u] = Awake(t)[u]
                   \/ wake'[u] = "signaled"
          BY Zenon, <2>1, <3>2 DEF Load, Signal, Asleep, WaitingFull, Wakes
        <4> QED
          BY <4>1, <4>2, <4>3, <1>t DEF Awake
      <3>9. Moves(t, "copy")
        BY <3>1, <3>3, <1>t DEF Moves
      <3> QED
        BY Zenon, <3>9, MoveCounts DEF IInv
    <2>2. CASE PopFails(t)
      <3>1. pc' = [pc EXCEPT ![t] = "idle"] /\ full_waiters' = full_waiters
            /\ pc[t] \in {"pop", "waitEmpty"}
            /\ empty_waiters' = empty_waiters
                 - (IF pc[t] = "waitEmpty" THEN 1 ELSE 0)
            /\ wake' = [wake EXCEPT ![t] = "running"]
        BY SMTT(30), <2>2, <1>5, <1>t DEF PopFails, Return, rpa_queue_trypop,
           rpa_queue_timedpop, PopResume, Load, rpa_queue_empty, Awake
      <3>9. Moves(t, "idle")
        BY <3>1, <1>t DEF Moves
      <3> QED
        BY <3>9, MoveCounts DEF IInv
    <2>3. CASE rpa_queue_timedpop(t) /\ ~Load(t) /\ ~PopFails(t)
      <3>1. pc' = [pc EXCEPT ![t] = "waitEmpty"]
            /\ full_waiters' = full_waiters
            /\ pc[t] = "pop" /\ empty_waiters' = empty_waiters + 1
            /\ wake' = [wake EXCEPT ![t] = "asleep"]
        BY Zenon, <2>3 DEF rpa_queue_timedpop
      <3>9. Moves(t, "waitEmpty")
        BY <3>1, <1>t DEF Moves
      <3> QED
        BY <3>9, MoveCounts DEF IInv
    <2> QED
      BY Zenon, <1>5, <2>1, <2>2, <2>3 DEF rpa_queue_trypop, PopResume
  <1>6. ASSUME NEW t \in Threads, FetchDone(t)
        PROVE  WaiterCounts'
    <2>1. pc' = [pc EXCEPT ![t] = "idle"] /\ pc[t] = "copy" /\ wake' = wake
          /\ full_waiters' = full_waiters /\ empty_waiters' = empty_waiters
      BY Zenon, <1>6 DEF FetchDone, Return, waiters
    <2>2. wake[t] = "running"
      BY <1>t, <2>1 DEF WaiterCounts
    <2>9. Moves(t, "idle")
      BY <2>1, <2>2, <1>t DEF Moves
    <2> QED
      BY <2>9, MoveCounts DEF IInv
  <1> QED
    BY Zenon, <1>0, <1>1, <1>3, <1>4, <1>5, <1>6
    DEF Next, Fetch, vars, tkl_queue_free, rpa_queue_destroy, Interrupt, waiters

-------------------------------------------------------------------------------
(* No lost wake-up. *)

NoLostFetcher ==
    Asleep(WaitingEmpty) # {} => nelts <= Cardinality(Signaled(WaitingEmpty))
NoLostPoster ==
    Asleep(WaitingFull) # {} =>
        bounds - nelts <= Cardinality(Signaled(WaitingFull))

(* The sets of sleeping and of signaled waiters are finite. *)
LEMMA WakeSets ==
    /\ Asleep(WaitingEmpty) \subseteq Threads
    /\ Signaled(WaitingEmpty) \subseteq Threads
    /\ Asleep(WaitingFull) \subseteq Threads
    /\ Signaled(WaitingFull) \subseteq Threads
    /\ Cardinality(Signaled(WaitingEmpty)) \in Nat
    /\ Cardinality(Signaled(WaitingFull)) \in Nat
  <1>1. /\ Asleep(WaitingEmpty) \subseteq Threads
        /\ Signaled(WaitingEmpty) \subseteq Threads
        /\ Asleep(WaitingFull) \subseteq Threads
        /\ Signaled(WaitingFull) \subseteq Threads
    BY DEF Asleep, Signaled, WaitingEmpty, WaitingFull
  <1> QED
    BY <1>1, ThreadSets

(* A push stores one more message and signals one sleeping fetcher, if any. *)
LEMMA StoreWakesFetcher ==
    ASSUME TypeOK, WaiterCounts, NoLostFetcher, NEW t \in Threads,
           pc[t] \in {"push", "waitFull"}, Store(t)
    PROVE  NoLostFetcher'
  <1>t. /\ pc \in [Threads -> Pcs] /\ wake \in [Threads -> Wakes]
        /\ nelts \in Nat
    BY Zenon DEF TypeOK, Pcs, Wakes
  <1>p. pc' = [pc EXCEPT ![t] = "idle"] /\ nelts' = nelts + 1
    BY DEF Store, Return
  <1>e. WaitingEmpty' = WaitingEmpty /\ t \notin WaitingEmpty
    BY <1>t, <1>p DEF WaitingEmpty
  <1>1. CASE Asleep(WaitingEmpty) = {}
    <2>1. wake' = Awake(t)
      BY Zenon, <1>1 DEF Store, Signal
    <2>2. Asleep(WaitingEmpty)' = {}
      BY <2>1, <1>1, <1>e, <1>t DEF Asleep, Awake
    <2> QED
      BY Zenon, <2>2 DEF NoLostFetcher
  <1>2. CASE Asleep(WaitingEmpty) # {}
    <2>1. empty_waiters # 0
      <3>1. PICK u \in Threads : pc[u] = "waitEmpty"
        BY Zenon, <1>2 DEF Asleep, WaitingEmpty
      <3> QED
        BY <3>1, CountedWaiter DEF TypeOK
    <2>2. PICK s \in Asleep(WaitingEmpty) :
             wake' = [Awake(t) EXCEPT ![s] = "signaled"]
      BY Zenon, <1>2, <2>1 DEF Store, Signal
    <2>3. /\ s \in Threads /\ s # t /\ wake[s] = "asleep"
          /\ s \in WaitingEmpty
      BY Zenon, <2>2, <1>e DEF Asleep, WaitingEmpty
    <2>4. Signaled(WaitingEmpty)' = Signaled(WaitingEmpty) \cup {s}
      BY Zenon, <2>2, <2>3, <1>e, <1>t DEF Signaled, Awake, WaitingEmpty
    <2>5. s \notin Signaled(WaitingEmpty)
      BY Zenon, <2>3 DEF Signaled
    <2>6. Cardinality(Signaled(WaitingEmpty)')
            = Cardinality(Signaled(WaitingEmpty)) + 1
      BY Zenon, <2>3, <2>4, <2>5, WakeSets, CardAdd
    <2>7. nelts <= Cardinality(Signaled(WaitingEmpty))
      BY <1>2 DEF NoLostFetcher
    <2> QED
      BY <2>6, <2>7, <1>p, <1>t, WakeSets DEF NoLostFetcher
  <1> QED
    BY <1>1, <1>2

(* The push uses up one free slot and at most its own signal. *)
LEMMA StoreKeepsPosters ==
    ASSUME TypeOK, WaiterCounts, NoLostPoster, NEW t \in Threads,
           pc[t] \in {"push", "waitFull"}, wake[t] # "asleep", Store(t)
    PROVE  NoLostPoster'
  <1>t. /\ pc \in [Threads -> Pcs] /\ wake \in [Threads -> Wakes]
        /\ nelts \in Nat /\ bounds \in Nat
    BY QueueAssumption DEF TypeOK, Pcs, Wakes
  <1>p. pc' = [pc EXCEPT ![t] = "idle"] /\ nelts' = nelts + 1
        /\ bounds' = bounds
    BY Zenon DEF Store, Return
  <1>f. WaitingFull' = WaitingFull \ {t}
    BY <1>t, <1>p DEF WaitingFull
  <1>1. \A u \in WaitingFull \ {t} : wake'[u] = wake[u]
    <2>1. \A u \in WaitingFull : u \in Threads /\ u \notin WaitingEmpty
      BY Zenon DEF WaitingFull, WaitingEmpty
    <2> QED
      BY Zenon, <2>1, <1>t DEF Store, Signal, Awake, Asleep
  <1>2. Asleep(WaitingFull)' = Asleep(WaitingFull)
    BY Zenon, <1>1, <1>f DEF Asleep
  <1>3. Signaled(WaitingFull)' = Signaled(WaitingFull) \ {t}
    BY Zenon, <1>1, <1>f DEF Signaled
  <1>4. Cardinality(Signaled(WaitingFull)')
          >= Cardinality(Signaled(WaitingFull)) - 1
    BY SMTT(30), <1>3, WakeSets, CardRemove
  <1>5. Cardinality(Signaled(WaitingFull)') \in Nat
    BY Zenon, <1>3, WakeSets, ThreadSets
  <1> QED
    BY <1>2, <1>4, <1>5, <1>p, <1>t, WakeSets DEF NoLostPoster

(* A pop frees one slot and signals one sleeping poster, if any. *)
LEMMA LoadWakesPoster ==
    ASSUME TypeOK, WaiterCounts, NoLostPoster, NEW t \in Threads,
           pc[t] \in {"pop", "waitEmpty"}, Load(t)
    PROVE  NoLostPoster'
  <1>t. /\ pc \in [Threads -> Pcs] /\ wake \in [Threads -> Wakes]
        /\ nelts \in Nat /\ bounds \in Nat
    BY QueueAssumption DEF TypeOK, Pcs, Wakes
  <1>p. pc' = [pc EXCEPT ![t] = "copy"] /\ nelts' = nelts - 1
        /\ bounds' = bounds
    BY Zenon DEF Load
  <1>e. WaitingFull' = WaitingFull /\ t \notin WaitingFull
    BY <1>t, <1>p DEF WaitingFull
  <1>1. CASE Asleep(WaitingFull) = {}
    <2>1. wake' = Awake(t)
      BY Zenon, <1>1 DEF Load, Signal
    <2>2. Asleep(WaitingFull)' = {}
      BY <2>1, <1>1, <1>e, <1>t DEF Asleep, Awake
    <2> QED
      BY Zenon, <2>2 DEF NoLostPoster
  <1>2. CASE Asleep(WaitingFull) # {}
    <2>1. full_waiters # 0
      <3>1. PICK u \in Threads : pc[u] = "waitFull"
        BY Zenon, <1>2 DEF Asleep, WaitingFull
      <3> QED
        BY <3>1, CountedWaiter DEF TypeOK
    <2>2. PICK s \in Asleep(WaitingFull) :
             wake' = [Awake(t) EXCEPT ![s] = "signaled"]
      BY Zenon, <1>2, <2>1 DEF Load, Signal
    <2>3. /\ s \in Threads /\ s # t /\ wake[s] = "asleep"
          /\ s \in WaitingFull
      BY Zenon, <2>2, <1>e DEF Asleep, WaitingFull
    <2>4. Signaled(WaitingFull)' = Signaled(WaitingFull) \cup {s}
      BY Zenon, <2>2, <2>3, <1>e, <1>t DEF Signaled, Awake, WaitingFull
    <2>5. s \notin Signaled(WaitingFull)
      BY Zenon, <2>3 DEF Signaled
    <2>6. Cardinality(Signaled(WaitingFull)')
            = Cardinality(Signaled(WaitingFull)) + 1
      BY Zenon, <2>3, <2>4, <2>5, WakeSets, CardAdd
    <2>7. bounds - nelts <= Cardinality(Signaled(WaitingFull))
      BY <1>2 DEF NoLostPoster
    <2> QED
      BY <2>6, <2>7, <1>p, <1>t, WakeSets DEF NoLostPoster
  <1> QED
    BY <1>1, <1>2

(* The pop uses up one message and at most its own signal. *)
LEMMA LoadKeepsFetchers ==
    ASSUME TypeOK, WaiterCounts, NoLostFetcher, NEW t \in Threads,
           pc[t] \in {"pop", "waitEmpty"}, wake[t] # "asleep", Load(t)
    PROVE  NoLostFetcher'
  <1>t. /\ pc \in [Threads -> Pcs] /\ wake \in [Threads -> Wakes]
        /\ nelts \in Nat
    BY Zenon DEF TypeOK, Pcs, Wakes
  <1>p. pc' = [pc EXCEPT ![t] = "copy"] /\ nelts' = nelts - 1
    BY Zenon DEF Load
  <1>f. WaitingEmpty' = WaitingEmpty \ {t}
    BY <1>t, <1>p DEF WaitingEmpty
  <1>1. \A u \in WaitingEmpty \ {t} : wake'[u] = wake[u]
    <2>1. \A u \in WaitingEmpty : u \in Threads /\ u \notin WaitingFull
      BY Zenon DEF WaitingFull, WaitingEmpty
    <2> QED
      BY Zenon, <2>1, <1>t DEF Load, Signal, Awake, Asleep
  <1>2. Asleep(WaitingEmpty)' = Asleep(WaitingEmpty)
    BY Zenon, <1>1, <1>f DEF Asleep
  <1>3. Signaled(WaitingEmpty)' = Signaled(WaitingEmpty) \ {t}
    BY Zenon, <1>1, <1>f DEF Signaled
  <1>4. Cardinality(Signaled(WaitingEmpty)')
          >= Cardinality(Signaled(WaitingEmpty)) - 1
    BY SMTT(30), <1>3, WakeSets, CardRemove
  <1>5. Cardinality(Signaled(WaitingEmpty)') \in Nat
    BY Zenon, <1>3, WakeSets, ThreadSets
  <1> QED
    BY <1>2, <1>4, <1>5, <1>p, <1>t, WakeSets DEF NoLostFetcher

(* A step after which no more threads sleep and the same threads are       *)
(* signaled, the ring being unchanged.                                     *)
LEMMA QuietStep ==
    ASSUME NoLostWakeup, UNCHANGED <<bounds, nelts>>,
           Asleep(WaitingEmpty)' \subseteq Asleep(WaitingEmpty),
           Asleep(WaitingFull)' \subseteq Asleep(WaitingFull),
           Signaled(WaitingEmpty)' = Signaled(WaitingEmpty),
           Signaled(WaitingFull)' = Signaled(WaitingFull)
    PROVE  NoLostWakeup'
  BY Zenon DEF NoLostWakeup

(* Every step keeps a signal in flight for each message or slot that has a *)
(* sleeper waiting for it.                                                 *)
LEMMA WakeStep == IInv /\ [Next]_vars => NoLostWakeup'
  <1> SUFFICES ASSUME IInv, [Next]_vars PROVE NoLostWakeup'
    OBVIOUS
  <1>t. /\ pc \in [Threads -> Pcs] /\ wake \in [Threads -> Wakes]
        /\ nelts \in Nat /\ bounds \in Nat
        /\ TypeOK /\ WaiterCounts /\ NoLostWakeup
        /\ NoLostFetcher /\ NoLostPoster
    BY QueueAssumption
    DEF IInv, TypeOK, Pcs, Wakes, NoLostWakeup, NoLostFetcher, NoLostPoster
  <1>n. NoLostFetcher' /\ NoLostPoster' => NoLostWakeup'
    BY Zenon DEF NoLostFetcher, NoLostPoster, NoLostWakeup
  <1>0. CASE UNCHANGED vars
    BY Zenon, <1>0, <1>t, QuietStep
    DEF vars, Asleep, Signaled, WaitingEmpty, WaitingFull
  <1>1. ASSUME NEW t \in Threads,
               tkl_queue_create_init(t) \/ tkl_queue_free(t)
        PROVE  NoLostWakeup'
    <2>1. \A u \in Threads : pc'[u] = "idle"
      BY Zenon, <1>1
      DEF IInv, DeadMeansIdle, tkl_queue_create_init, rpa_queue_create,
          tkl_queue_free, rpa_queue_destroy
    <2>2. Asleep(WaitingEmpty)' = {} /\ Asleep(WaitingFull)' = {}
      BY Zenon, <2>1 DEF Asleep, WaitingEmpty, WaitingFull
    <2> QED
      BY Zenon, <2>2 DEF NoLostWakeup
  <1>2. ASSUME NEW t \in Threads,
               \/ \E w \in WaitModes :
                    (\E m \in Msgs : tkl_queue_post(t, m, w))
                      \/ tkl_queue_fetch(t, w)
               \/ FetchDone(t)
        PROVE  NoLostWakeup'
    <2>1. /\ wake' = wake /\ UNCHANGED <<bounds, nelts>>
          /\ pc[t] \in {"idle", "copy"}
          /\ \E x \in {"push", "pop", "idle"} : pc' = [pc EXCEPT ![t] = x]
      BY Zenon, <1>2 DEF tkl_queue_post, tkl_queue_fetch, FetchDone, Return, ring
    <2>2. WaitingEmpty' = WaitingEmpty /\ WaitingFull' = WaitingFull
      BY Zenon, <2>1, <1>t DEF WaitingEmpty, WaitingFull
    <2> QED
      BY Zenon, <2>1, <2>2, <1>t, QuietStep DEF Asleep, Signaled
  <1>3. ASSUME NEW t \in Threads, Post(t)
        PROVE  NoLostWakeup'
    <2>0. pc[t] \in {"push", "waitFull"} /\ wake[t] # "asleep"
      BY Zenon, <1>3, <1>t DEF Post, rpa_queue_trypush, rpa_queue_timedpush,
         PushResume, WaiterCounts
    <2>1. CASE Store(t)
      BY Zenon, <2>0, <2>1, <1>t, <1>n, StoreWakesFetcher, StoreKeepsPosters
    <2>2. CASE PushFails(t)
      <3>1. /\ pc' = [pc EXCEPT ![t] = "idle"] /\ UNCHANGED <<bounds, nelts>>
            /\ wake' = [wake EXCEPT ![t] = "running"]
        BY Zenon, <2>2 DEF PushFails, Return, ring, Awake
      <3>2. WaitingEmpty' = WaitingEmpty /\ t \notin WaitingEmpty
            /\ WaitingFull' = WaitingFull \ {t}
        BY Zenon, <2>0, <3>1, <1>t DEF WaitingEmpty, WaitingFull
      <3>3. /\ Asleep(WaitingEmpty)' = Asleep(WaitingEmpty)
            /\ Signaled(WaitingEmpty)' = Signaled(WaitingEmpty)
            /\ Asleep(WaitingFull)' = Asleep(WaitingFull)
            /\ Signaled(WaitingFull)' = Signaled(WaitingFull) \ {t}
        BY Zenon, <2>0, <3>1, <3>2, <1>t DEF Asleep, Signaled, WaitingEmpty, WaitingFull
      <3>4. CASE wake[t] = "signaled"
        <4>1. nelts = bounds
          <5>1. pc[t] = "waitFull"
            BY Zenon, <2>0, <3>4, <1>t DEF WaiterCounts
          <5>2. PushResume(t)
            BY Zenon, <5>1, <1>3 DEF Post, rpa_queue_trypush, rpa_queue_timedpush
          <5>3. ~Store(t)
            BY <3>1, <1>t DEF Store
          <5> QED
            BY Zenon, <5>2, <5>3, <3>4 DEF PushResume, rpa_queue_full
        <4>2. Cardinality(Signaled(WaitingFull)') \in Nat
          BY Zenon, <3>3, WakeSets, ThreadSets
        <4> QED
          BY SMTT(30), <4>1, <4>2, <3>1, <3>3, <1>t DEF NoLostWakeup
      <3>5. CASE wake[t] # "signaled"
        <4>1. Signaled(WaitingFull)' = Signaled(WaitingFull)
          BY Zenon, <3>3, <3>5 DEF Signaled
        <4> QED
          BY Zenon, <4>1, <3>1, <3>3, <1>t, QuietStep
      <3> QED
        BY <3>4, <3>5
    <2>3. CASE rpa_queue_timedpush(t) /\ ~Store(t) /\ ~PushFails(t)
      <3>1. /\ pc' = [pc EXCEPT ![t] = "waitFull"]
            /\ UNCHANGED <<bounds, nelts>> /\ nelts = bounds
            /\ wake' = [wake EXCEPT ![t] = "asleep"] /\ pc[t] = "push"
        BY Zenon, <2>3 DEF rpa_queue_timedpush, ring, rpa_queue_full
      <3>2. WaitingEmpty' = WaitingEmpty /\ t \notin WaitingEmpty
        BY Zenon, <3>1, <1>t DEF WaitingEmpty
      <3>3. /\ Asleep(WaitingEmpty)' = Asleep(WaitingEmpty)
            /\ Signaled(WaitingEmpty)' = Signaled(WaitingEmpty)
        BY Zenon, <3>1, <3>2, <1>t DEF Asleep, Signaled, WaitingEmpty
      <3>4. Cardinality(Signaled(WaitingFull)') \in Nat
        <4>1. Signaled(WaitingFull)' \subseteq Threads
          BY Zenon DEF Signaled, WaitingFull
        <4> QED
          BY Zenon, <4>1, ThreadSets
      <3> QED
        BY <3>1, <3>3, <3>4, <1>t DEF NoLostWakeup
    <2> QED
      BY ZenonT(30), <1>3, <2>1, <2>2, <2>3 DEF Post, rpa_queue_trypush, PushResume
  <1>4. ASSUME NEW t \in Threads,
               rpa_queue_trypop(t) \/ rpa_queue_timedpop(t) \/ PopResume(t)
        PROVE  NoLostWakeup'
    <2>0. pc[t] \in {"pop", "waitEmpty"} /\ wake[t] # "asleep"
      BY Zenon, <1>4, <1>t DEF rpa_queue_trypop, rpa_queue_timedpop,
         PopResume, WaiterCounts
    <2>1. CASE Load(t)
      BY Zenon, <2>0, <2>1, <1>t, <1>n, LoadWakesPoster, LoadKeepsFetchers
    <2>2. CASE PopFails(t)
      <3>1. /\ pc' = [pc EXCEPT ![t] = "idle"] /\ UNCHANGED <<bounds, nelts>>
            /\ wake' = [wake EXCEPT ![t] = "running"]
        BY <2>2 DEF PopFails, Return, ring, Awake
      <3>2. WaitingFull' = WaitingFull /\ t \notin WaitingFull
            /\ WaitingEmpty' = WaitingEmpty \ {t}
        BY Zenon, <2>0, <3>1, <1>t DEF WaitingEmpty, WaitingFull
      <3>3. /\ Asleep(WaitingFull)' = Asleep(WaitingFull)
            /\ Signaled(WaitingFull)' = Signaled(WaitingFull)
            /\ Asleep(WaitingEmpty)' = Asleep(WaitingEmpty)
            /\ Signaled(WaitingEmpty)' = Signaled(WaitingEmpty) \ {t}
        BY Zenon, <2>0, <3>1, <3>2, <1>t DEF Asleep, Signaled, WaitingEmpty, WaitingFull
      <3>4. CASE wake[t] = "signaled"
        <4>1. nelts = 0
          <5>1. pc[t] = "waitEmpty"
            BY Zenon, <2>0, <3>4, <1>t DEF WaiterCounts
          <5>2. PopResume(t)
            BY Zenon, <5>1, <1>4 DEF rpa_queue_trypop, rpa_queue_timedpop
          <5>3. ~Load(t)
            BY Zenon, <3>1, <1>t DEF Load
          <5> QED
            BY Zenon, <5>2, <5>3, <3>4 DEF PopResume, rpa_queue_empty
        <4>2. Cardinality(Signaled(WaitingEmpty)') \in Nat
          BY Zenon, <3>3, WakeSets, ThreadSets
        <4> QED
          BY <4>1, <4>2, <3>1, <3>3, <1>t DEF NoLostWakeup
      <3>5. CASE wake[t] # "signaled"
        <4>1. Signaled(WaitingEmpty)' = Signaled(WaitingEmpty)
          BY Zenon, <3>3, <3>5 DEF Signaled
        <4> QED
          BY Zenon, <4>1, <3>1, <3>3, <1>t, QuietStep
      <3> QED
        BY <3>4, <3>5
    <2>3. CASE rpa_queue_timedpop(t) /\ ~Load(t) /\ ~PopFails(t)
      <3>1. /\ pc' = [pc EXCEPT ![t] = "waitEmpty"]
            /\ UNCHANGED <<bounds, nelts>> /\ nelts = 0
            /\ wake' = [wake EXCEPT ![t] = "asleep"] /\ pc[t] = "pop"
        BY Zenon, <2>3 DEF rpa_queue_timedpop, ring, rpa_queue_empty
      <3>2. WaitingFull' = WaitingFull /\ t \notin WaitingFull
        BY Zenon, <3>1, <1>t DEF WaitingFull
      <3>3. /\ Asleep(WaitingFull)' = Asleep(WaitingFull)
            /\ Signaled(WaitingFull)' = Signaled(WaitingFull)
        BY Zenon, <3>1, <3>2, <1>t DEF Asleep, Signaled, WaitingFull
      <3>4. Cardinality(Signaled(WaitingEmpty)') \in Nat
        <4>1. Signaled(WaitingEmpty)' \subseteq Threads
          BY Zenon DEF Signaled, WaitingEmpty
        <4> QED
          BY <4>1, ThreadSets
      <3> QED
        BY <3>1, <3>3, <3>4, <1>t DEF NoLostWakeup
    <2> QED
      BY <1>4, <2>1, <2>2, <2>3 DEF rpa_queue_trypop, PopResume
  <1>5. ASSUME NEW t \in Threads, Interrupt(t)
        PROVE  NoLostWakeup'
    <2>1. /\ wake[t] = "asleep" /\ UNCHANGED <<bounds, nelts, pc>>
          /\ \E x \in {"spurious", "timedout"} :
               wake' = [wake EXCEPT ![t] = x]
      BY Zenon, <1>5 DEF Interrupt, ring
    <2>2. WaitingEmpty' = WaitingEmpty /\ WaitingFull' = WaitingFull
      BY Zenon, <2>1 DEF WaitingEmpty, WaitingFull
    <2>3. /\ Asleep(WaitingEmpty)' \subseteq Asleep(WaitingEmpty)
          /\ Asleep(WaitingFull)' \subseteq Asleep(WaitingFull)
      BY Zenon, <2>1, <2>2, <1>t DEF Asleep, WaitingEmpty, WaitingFull
    <2>4. /\ Signaled(WaitingEmpty)' = Signaled(WaitingEmpty)
          /\ Signaled(WaitingFull)' = Signaled(WaitingFull)
      BY <2>1, <2>2, <1>t DEF Signaled, WaitingEmpty, WaitingFull
    <2> QED
      BY Zenon, <2>1, <2>3, <2>4, <1>t, QuietStep
  <1> QED
    BY Zenon, <1>0, <1>1, <1>2, <1>3, <1>4, <1>5 DEF Next, Fetch

-------------------------------------------------------------------------------
(* Ownership of the message copies. *)

(* A push adds the slot at in to the occupied ones. *)
LEMMA OccupiedStore ==
    ASSUME TypeOK, RingConsistent, nelts < bounds, nelts' = nelts + 1,
           UNCHANGED <<bounds, out>>
    PROVE  /\ in \in Slots /\ ~Occupied(in)
           /\ \A j \in Slots : Occupied(j)' <=> Occupied(j) \/ j = in
  <1>t. bounds \in Nat /\ nelts \in Nat /\ out \in Nat /\ in \in Nat
        /\ Alive
    BY QueueAssumption DEF TypeOK, Alive
  <1> QED
    BY <1>t DEF RingConsistent, Occupied, Slots

(* A pop removes the slot at out. *)
LEMMA OccupiedLoad ==
    ASSUME TypeOK, RingConsistent, nelts # 0, nelts' = nelts - 1,
           out' = Advance(out), UNCHANGED bounds
    PROVE  /\ out \in Slots /\ Occupied(out)
           /\ \A j \in Slots : Occupied(j)' <=> Occupied(j) /\ j # out
  <1>t. bounds \in Nat /\ nelts \in Nat /\ out \in Nat /\ in \in Nat
        /\ Alive
    BY QueueAssumption DEF TypeOK, Alive, RingConsistent
  <1> QED
    BY <1>t DEF RingConsistent, Occupied, Slots, Advance

(* Every step leaves each message copy with one owner. *)
LEMMA OwnStep == IInv /\ [Next]_vars => Ownership'
  <1> SUFFICES ASSUME IInv, [Next]_vars PROVE Ownership'
    OBVIOUS
  <1>t. /\ pc \in [Threads -> Pcs] /\ buf \in [Threads -> Bufs \cup {None}]
        /\ mem \in [Bufs -> Msgs \cup {None}]
        /\ data \in [Slots -> Bufs \cup {None}]
        /\ nelts \in Nat /\ bounds \in Nat /\ None \notin Bufs
        /\ None \notin Msgs
        /\ TypeOK /\ RingConsistent /\ Ownership
    BY QueueAssumption DEF IInv, TypeOK, Pcs
  <1>0. CASE UNCHANGED <<bounds, data, nelts, out, mem, buf>>
             /\ \A t \in Threads : pc'[t] = pc[t]
                   \/ {pc[t], pc'[t]} \subseteq {"push", "waitFull"}
                   \/ {pc[t], pc'[t]} \subseteq {"idle", "pop", "waitEmpty"}
    <2>1. Slots' = Slots /\ \A j : Occupied(j)' <=> Occupied(j)
      BY Zenon, <1>0 DEF Slots, Occupied
    <2>2. \A t \in Threads : pc'[t] \in {"push", "waitFull", "copy"} <=>
                             pc[t] \in {"push", "waitFull", "copy"}
      BY Zenon, <1>0
    <2> QED
      BY Zenon, <1>0, <2>1, <2>2, <1>t DEF Ownership
  <1>1. ASSUME NEW t \in Threads,
               tkl_queue_create_init(t) \/ tkl_queue_free(t)
        PROVE  Ownership'
    <2>1. /\ UNCHANGED <<pc, buf, mem>> /\ nelts' = 0 /\ out' = 0
          /\ bounds' \in Nat
      BY <1>1, QueueAssumption DEF tkl_queue_create_init, rpa_queue_create,
         tkl_queue_free, rpa_queue_destroy
    <2>2. \A j \in Slots' : ~Occupied(j)'
      BY <2>1 DEF Slots, Occupied
    <2> QED
      BY Zenon, <2>1, <2>2, <1>t DEF Ownership
  <1>2. ASSUME NEW t \in Threads, NEW m \in Msgs, NEW w \in WaitModes,
               tkl_queue_post(t, m, w)
        PROVE  Ownership'
    <2>1. PICK b \in Bufs : /\ mem[b] = None /\ mem' = [mem EXCEPT ![b] = m]
                            /\ buf' = [buf EXCEPT ![t] = b]
      BY Zenon, <1>2 DEF tkl_queue_post
    <2>2. /\ pc[t] = "idle" /\ pc' = [pc EXCEPT ![t] = "push"]
          /\ UNCHANGED <<bounds, data, nelts, out>>
      BY Zenon, <1>2 DEF tkl_queue_post, ring
    <2>3. Slots' = Slots /\ \A j : Occupied(j)' <=> Occupied(j)
      BY Zenon, <2>2 DEF Slots, Occupied
    <2>4. /\ \A u \in Threads : buf[u] # b
          /\ \A j \in Slots : Occupied(j) => data[j] # b
      BY Zenon, <2>1, <1>t DEF Ownership
    <2>5. /\ \A u \in Threads :
               /\ buf'[u] # None <=> pc'[u] \in {"push", "waitFull", "copy"}
               /\ buf'[u] # None => mem'[buf'[u]] # None
          /\ \A u, v \in Threads : u # v /\ buf'[u] # None => buf'[u] # buf'[v]
      BY SMTT(30), <2>1, <2>2, <2>4, <1>t DEF Ownership
    <2>6. \A j \in Slots : Occupied(j) =>
            /\ data[j] # None /\ mem'[data[j]] # None
            /\ \A u \in Threads : buf'[u] # data[j]
            /\ \A k \in Slots : Occupied(k) /\ k # j => data[k] # data[j]
      BY Zenon, <2>1, <2>4, <1>t DEF Ownership
    <2> QED
      BY Zenon, <2>2, <2>3, <2>5, <2>6 DEF Ownership
  <1>3. ASSUME NEW t \in Threads, pc[t] \in {"push", "waitFull"},
               nelts # bounds, Store(t)
        PROVE  Ownership'
    <2>1. /\ pc' = [pc EXCEPT ![t] = "idle"]
          /\ buf' = [buf EXCEPT ![t] = None]
          /\ data' = [data EXCEPT ![in] = buf[t]]
          /\ nelts' = nelts + 1 /\ UNCHANGED <<bounds, out, mem>>
      BY Zenon, <1>3 DEF Store, Return
    <2>2. /\ in \in Slots /\ ~Occupied(in) /\ Slots' = Slots
          /\ \A j \in Slots : Occupied(j)' <=> Occupied(j) \/ j = in
      BY SMTT(30), <1>3, <2>1, <1>t, OccupiedStore DEF RingConsistent, Slots
    <2>3. buf[t] \in Bufs /\ mem[buf[t]] # None
      BY Zenon, <1>3, <1>t DEF Ownership
    <2>4. /\ \A u \in Threads :
               /\ buf'[u] # None <=> pc'[u] \in {"push", "waitFull", "copy"}
               /\ buf'[u] # None => mem'[buf'[u]] # None
          /\ \A u, v \in Threads : u # v /\ buf'[u] # None => buf'[u] # buf'[v]
      BY Zenon, <2>1, <1>t DEF Ownership
    <2>5. \A j \in Slots : Occupied(j) \/ j = in =>
            /\ data'[j] # None /\ mem[data'[j]] # None
            /\ \A u \in Threads : buf'[u] # data'[j]
      BY Zenon, <2>1, <2>2, <2>3, <1>t DEF Ownership
    <2>6. \A j, k \in Slots : (Occupied(j) \/ j = in) /\ (Occupied(k) \/ k = in)
             /\ k # j => data'[k] # data'[j]
      BY Zenon, <2>1, <2>2, <2>3, <1>t DEF Ownership
    <2> QED
      BY Zenon, <2>1, <2>2, <2>4, <2>5, <2>6 DEF Ownership
  <1>4. ASSUME NEW t \in Threads, PushFails(t) \/ PopFails(t)
        PROVE  Ownership'
    <2>1. /\ pc' = [pc EXCEPT ![t] = "idle"]
          /\ buf' = [buf EXCEPT ![t] = None]
          /\ UNCHANGED <<bounds, data, nelts, out, mem>>
      BY Zenon, <1>4 DEF PushFails, PopFails, Return, ring
    <2>2. Slots' = Slots /\ \A j : Occupied(j)' <=> Occupied(j)
      BY Zenon, <2>1 DEF Slots, Occupied
    <2>3. /\ \A u \in Threads :
               /\ buf'[u] # None <=> pc'[u] \in {"push", "waitFull", "copy"}
               /\ buf'[u] # None => mem'[buf'[u]] # None
          /\ \A u, v \in Threads : u # v /\ buf'[u] # None => buf'[u] # buf'[v]
      BY Zenon, <2>1, <1>t DEF Ownership
    <2>4. \A j \in Slots : Occupied(j) =>
            /\ data[j] # None /\ mem[data[j]] # None
            /\ \A u \in Threads : buf'[u] # data[j]
            /\ \A k \in Slots : Occupied(k) /\ k # j => data[k] # data[j]
      BY Zenon, <2>1, <1>t DEF Ownership
    <2> QED
      BY ZenonT(30), <2>1, <2>2, <2>3, <2>4 DEF Ownership
  <1>5. ASSUME NEW t \in Threads, pc[t] \in {"pop", "waitEmpty"},
               nelts # 0, Load(t)
        PROVE  Ownership'
    <2>1. /\ pc' = [pc EXCEPT ![t] = "copy"]
          /\ buf' = [buf EXCEPT ![t] = data[out]]
          /\ nelts' = nelts - 1 /\ out' = Advance(out)
          /\ UNCHANGED <<bounds, data, mem>>
      BY Zenon, <1>5 DEF Load
    <2>2. /\ out \in Slots /\ Occupied(out) /\ Slots' = Slots
          /\ \A j \in Slots : Occupied(j)' <=> Occupied(j) /\ j # out
      BY Zenon, <1>5, <2>1, <1>t, OccupiedLoad DEF Slots
    <2>3. /\ data[out] \in Bufs /\ mem[data[out]] # None
          /\ \A u \in Threads : buf[u] # data[out]
          /\ \A j \in Slots : Occupied(j) /\ j # out => data[j] # data[out]
      BY Zenon, <2>2, <1>t DEF Ownership
    <2>4. /\ \A u \in Threads :
               /\ buf'[u] # None <=> pc'[u] \in {"push", "waitFull", "copy"}
               /\ buf'[u] # None => mem'[buf'[u]] # None
          /\ \A u, v \in Threads : u # v /\ buf'[u] # None => buf'[u] # buf'[v]
      BY Zenon, <2>1, <2>3, <1>t DEF Ownership
    <2>5. \A j \in Slots : Occupied(j) /\ j # out =>
            /\ data[j] # None /\ mem[data[j]] # None
            /\ \A u \in Threads : buf'[u] # data[j]
            /\ \A k \in Slots : Occupied(k) /\ k # j => data[k] # data[j]
      BY Zenon, <2>1, <2>3, <1>t DEF Ownership
    <2> QED
      BY ZenonT(30), <2>1, <2>2, <2>4, <2>5 DEF Ownership
  <1>6. ASSUME NEW t \in Threads, FetchDone(t)
        PROVE  Ownership'
    <2>1. /\ pc' = [pc EXCEPT ![t] = "idle"] /\ pc[t] = "copy"
          /\ buf' = [buf EXCEPT ![t] = None]
          /\ mem' = [mem EXCEPT ![buf[t]] = None]
          /\ UNCHANGED <<bounds, data, nelts, out>>
      BY Zenon, <1>6 DEF FetchDone, Return, ring
    <2>2. Slots' = Slots /\ \A j : Occupied(j)' <=> Occupied(j)
      BY Zenon, <2>1 DEF Slots, Occupied
    <2>3. buf[t] \in Bufs
      BY Zenon, <2>1, <1>t DEF Ownership
    <2>4. /\ \A u \in Threads :
               /\ buf'[u] # None <=> pc'[u] \in {"push", "waitFull", "copy"}
               /\ buf'[u] # None => mem'[buf'[u]] # None
          /\ \A u, v \in Threads : u # v /\ buf'[u] # None => buf'[u] # buf'[v]
      BY SMTT(30), <2>1, <2>3, <1>t DEF Ownership
    <2>5. \A j \in Slots : Occupied(j) =>
            /\ data[j] # None /\ mem'[data[j]] # None
            /\ \A u \in Threads : buf'[u] # data[j]
            /\ \A k \in Slots : Occupied(k) /\ k # j => data[k] # data[j]
      BY Zenon, <2>1, <2>3, <1>t DEF Ownership
    <2> QED
      BY ZenonT(30), <2>1, <2>2, <2>4, <2>5 DEF Ownership
  <1>7. ASSUME NEW t \in Threads, Post(t) PROVE Ownership'
    <2> DEFINE Sleeps == /\ pc[t] = "push" /\ pc' = [pc EXCEPT ![t] = "waitFull"]
                         /\ UNCHANGED <<ring, mem, buf>>
    <2>1. CASE Sleeps
      BY Zenon, <2>1, <1>0, <1>t DEF ring
    <2>2. CASE PushFails(t)
      BY <2>2, <1>4
    <2>3. CASE ~Sleeps /\ ~PushFails(t)
      <3>1. pc[t] \in {"push", "waitFull"} /\ nelts # bounds /\ Store(t)
        BY Zenon, <2>3, <1>7
        DEF Post, rpa_queue_trypush, rpa_queue_timedpush, PushResume,
            rpa_queue_full
      <3> QED
        BY Zenon, <3>1, <1>3
    <2> QED
      BY Zenon, <2>1, <2>2, <2>3
  <1>8. ASSUME NEW t \in Threads, Fetch(t) PROVE Ownership'
    <2> DEFINE Sleeps == /\ pc[t] = "pop" /\ pc' = [pc EXCEPT ![t] = "waitEmpty"]
                         /\ UNCHANGED <<ring, mem, buf>>
    <2>1. CASE Sleeps
      BY Zenon, <2>1, <1>0, <1>t DEF ring
    <2>2. CASE PopFails(t)
      BY Zenon, <2>2, <1>4
    <2>3. CASE ~Sleeps /\ ~PopFails(t) /\ ~FetchDone(t)
      <3>1. pc[t] \in {"pop", "waitEmpty"} /\ nelts # 0 /\ Load(t)
        BY Zenon, <2>3, <1>8
        DEF Fetch, rpa_queue_trypop, rpa_queue_timedpop, PopResume,
            rpa_queue_empty
      <3> QED
        BY Zenon, <3>1, <1>5
    <2> QED
      BY Zenon, <2>1, <2>2, <2>3, <1>6
  <1>9. ASSUME NEW t \in Threads,
               Interrupt(t) \/ \E w \in WaitModes : tkl_queue_fetch(t, w)
        PROVE  Ownership'
    BY Zenon, <1>9, <1>0, <1>t DEF Interrupt, tkl_queue_fetch, ring
  <1> QED
    BY Zenon, <1>0, <1>1, <1>2, <1>7, <1>8, <1>9 DEF Next, vars

-------------------------------------------------------------------------------
(* The invariants. *)

(* The initial state, with no queue, satisfies the inductive invariant. *)
LEMMA InitInv == Init => IInv
  <1> SUFFICES ASSUME Init PROVE IInv
    BY Zenon
  <1>1. TypeOK
    BY DEF Init, TypeOK, Slots, WaitModes
  <1>2. WaitingFull = {} /\ WaitingEmpty = {}
    BY Zenon DEF Init, WaitingFull, WaitingEmpty
  <1>3. WaiterCounts
    BY Zenon, <1>2, FS_EmptySet DEF Init, WaiterCounts
  <1>4. NoLostWakeup
    BY Zenon, <1>2 DEF NoLostWakeup, Asleep
  <1>5. RingConsistent /\ DeadMeansIdle
    BY DEF Init, RingConsistent, DeadMeansIdle, Alive
  <1>6. Ownership
    BY DEF Init, Ownership, Slots
  <1> QED
    BY Zenon, <1>1, <1>3, <1>4, <1>5, <1>6 DEF IInv

(* Every step of every thread preserves the inductive invariant. *)
LEMMA StepInv == IInv /\ [Next]_vars => IInv'
  BY Zenon, TypeStep, RingStep, DeadStep, CountStep, WakeStep, OwnStep DEF IInv

(* The inductive invariant holds in every reachable state. *)
THEOREM Invariance == Spec => []IInv
  BY InitInv, StepInv, PTL DEF Spec

(* The variables of tkl_queue.c keep their types; the unsigned counts never *)
(* go below zero.                                                          *)
THEOREM TypeCorrect == Spec => []TypeOK
  <1>1. IInv => TypeOK
    BY Zenon DEF IInv
  <1> QED
    BY <1>1, Invariance, PTL

(* in, out and nelts always describe the same segment of the ring, for     *)
(* every capacity and every number of threads.                             *)
THEOREM RingSafe == Spec => []RingConsistent
  <1>1. IInv => RingConsistent
    BY Zenon DEF IInv
  <1> QED
    BY <1>1, Invariance, PTL

(* full_waiters and empty_waiters are exact. *)
THEOREM WaiterCountsExact == Spec => []WaiterCounts
  <1>1. IInv => WaiterCounts
    BY Zenon DEF IInv
  <1> QED
    BY <1>1, Invariance, PTL

(* One pthread_cond_signal per push and per pop loses no wake-up, for      *)
(* every number of posters and fetchers.                                   *)
THEOREM WakeupsNotLost == Spec => []NoLostWakeup
  <1>1. IInv => NoLostWakeup
    BY Zenon DEF IInv
  <1> QED
    BY <1>1, Invariance, PTL

(* Posters and fetchers are never all asleep waiting for each other. *)
THEOREM NoCyclicWait == Spec => []NoMutualSleep
  <1>1. IInv => NoMutualSleep
    <2> SUFFICES ASSUME IInv, Asleep(WaitingEmpty) # {},
                        Asleep(WaitingFull) # {},
                        Signaled(WaitingEmpty \cup WaitingFull) = {}
                 PROVE  FALSE
      BY Zenon DEF NoMutualSleep
    <2>1. Signaled(WaitingEmpty) = {} /\ Signaled(WaitingFull) = {}
      BY Zenon DEF Signaled
    <2>2. nelts \in Nat /\ bounds \in Nat
      BY QueueAssumption DEF IInv, TypeOK
    <2>3. nelts <= 0 /\ bounds - nelts <= 0
      BY Zenon, <2>1, FS_EmptySet DEF IInv, NoLostWakeup
    <2>4. ~Alive
      BY <2>2, <2>3 DEF Alive
    <2> QED
      BY Zenon, <2>4 DEF IInv, DeadMeansIdle, Asleep, WaitingEmpty
  <1> QED
    BY <1>1, Invariance, PTL

(* Every message copy in the ring or held by a call has exactly one owner  *)
(* and is allocated: no double free and no use after free.                 *)
THEOREM CopiesOwned == Spec => []Ownership
  <1>1. IInv => Ownership
    BY Zenon DEF IInv
  <1> QED
    BY <1>1, Invariance, PTL

-------------------------------------------------------------------------------
(* The ring with its heap copies implements the bounded FIFO channel. *)

(* The slot of the i-th message, and the messages taken out. *)
Slot(i) == IF out + i - 1 < bounds THEN out + i - 1 ELSE out + i - 1 - bounds
Hand == [t \in Threads |-> IF pc[t] = "copy" THEN mem[buf[t]] ELSE None]

(* The messages are in occupied slots, and their copies are allocated. *)
LEMMA ContentsTyped ==
    ASSUME IInv
    PROVE  /\ nelts \in Nat /\ bounds \in Nat /\ out \in Nat /\ in \in Nat
           /\ nelts <= bounds
           /\ QueueContents = [i \in 1..nelts |-> mem[data[Slot(i)]]]
           /\ \A i \in 1..nelts : /\ Slot(i) \in Slots /\ Occupied(Slot(i))
                                  /\ data[Slot(i)] \in Bufs
                                  /\ mem[data[Slot(i)]] \in Msgs
                                  /\ \A t \in Threads : buf[t] # data[Slot(i)]
           /\ QueueContents \in Seq(Msgs) /\ Len(QueueContents) = nelts
  <1>1. /\ nelts \in Nat /\ bounds \in Nat /\ out \in Nat /\ in \in Nat
        /\ nelts <= bounds /\ (bounds # 0 => out < bounds)
    BY SMTT(30), QueueAssumption DEF IInv, TypeOK, RingConsistent, Alive
  <1>2. \A i \in 1..nelts : Slot(i) \in Slots /\ Occupied(Slot(i))
    BY <1>1 DEF Slot, Slots, Occupied
  <1>3. \A j \in Slots : Occupied(j) =>
           /\ data[j] \in Bufs /\ mem[data[j]] \in Msgs
           /\ \A t \in Threads : buf[t] # data[j]
    <2>1. data \in [Slots -> Bufs \cup {None}] /\ mem \in [Bufs -> Msgs \cup {None}]
      BY Zenon DEF IInv, TypeOK
    <2>2. \A j \in Slots : Occupied(j) =>
             /\ data[j] # None /\ mem[data[j]] # None
             /\ \A t \in Threads : buf[t] # data[j]
      BY Zenon DEF IInv, Ownership
    <2> QED
      BY <2>1, <2>2
  <1>4. QueueContents = [i \in 1..nelts |-> mem[data[Slot(i)]]]
    BY Zenon DEF QueueContents, Slot
  <1>5. \A i \in 1..nelts : /\ data[Slot(i)] \in Bufs /\ mem[data[Slot(i)]] \in Msgs
                            /\ \A t \in Threads : buf[t] # data[Slot(i)]
    BY Zenon, <1>2, <1>3
  <1>6. QueueContents \in Seq(Msgs) /\ Len(QueueContents) = nelts
    BY SMTT(30), <1>1, <1>4, <1>5
  <1> QED
    BY Zenon, <1>1, <1>2, <1>4, <1>5, <1>6

(* A store appends the message of the thread. *)
LEMMA StorePuts ==
    ASSUME IInv, IInv', NEW t \in Threads, pc[t] \in {"push", "waitFull"},
           ~rpa_queue_full, Store(t)
    PROVE  /\ mem[buf[t]] \in Msgs /\ Len(QueueContents) < bounds
           /\ QueueContents' = Append(QueueContents, mem[buf[t]])
           /\ UNCHANGED <<bounds, Hand, msg>>
  <1>1. /\ buf[t] \in Bufs /\ mem[buf[t]] \in Msgs
        /\ pc \in [Threads -> Pcs] /\ buf \in [Threads -> Bufs \cup {None}]
        /\ data \in [Slots -> Bufs \cup {None}]
    BY SMTT(30) DEF IInv, TypeOK, Ownership, Pcs
  <1>2. nelts < bounds /\ Len(QueueContents) = nelts
    <2>1. /\ nelts \in Nat /\ bounds \in Nat /\ nelts <= bounds
          /\ Len(QueueContents) = nelts
      BY Zenon, ContentsTyped
    <2> QED
      BY <2>1 DEF rpa_queue_full
  <1>3. /\ nelts' = nelts + 1 /\ data' = [data EXCEPT ![in] = buf[t]]
        /\ UNCHANGED <<bounds, out, mem, msg>>
        /\ pc' = [pc EXCEPT ![t] = "idle"] /\ buf' = [buf EXCEPT ![t] = None]
    BY Zenon DEF Store, Return
  <1>4. UNCHANGED Hand
    BY Zenon, <1>1, <1>3 DEF Hand
  <1>5. in \in Slots /\ ~Occupied(in) /\ in = Slot(nelts + 1)
    <2>1. in \in Slots /\ ~Occupied(in)
      BY Zenon, <1>2, <1>3, OccupiedStore DEF IInv
    <2>2. nelts \in Nat /\ out \in Nat /\ bounds \in Nat
      BY Zenon, ContentsTyped
    <2>3. in = IF out + nelts < bounds THEN out + nelts ELSE out + nelts - bounds
      BY Zenon DEF IInv, RingConsistent
    <2>4. Slot(nelts + 1) = IF out + (nelts + 1) - 1 < bounds THEN out + (nelts + 1) - 1
                            ELSE out + (nelts + 1) - 1 - bounds
      BY Zenon DEF Slot
    <2>5. in = Slot(nelts + 1)
      BY <2>2, <2>3, <2>4
    <2> QED
      BY Zenon, <2>1, <2>5
  <1>6. \A i : Slot(i)' = Slot(i)
    BY Zenon, <1>3 DEF Slot
  <1>7. \A i \in 1..nelts : data'[Slot(i)] = data[Slot(i)]
    BY Zenon, <1>1, <1>3, <1>5, ContentsTyped
  <1>8. data'[Slot(nelts + 1)] = buf[t]
    BY Zenon, <1>1, <1>3, <1>5
  <1>9. /\ QueueContents = [i \in 1..nelts |-> mem[data[Slot(i)]]]
        /\ QueueContents \in Seq(Msgs) /\ nelts \in Nat
    BY Zenon, ContentsTyped
  <1>10. QueueContents' = [i \in 1..(nelts + 1) |-> mem[data'[Slot(i)]]]
    <2>1. QueueContents' = [i \in 1..nelts |-> mem[data[Slot(i)]]]'
      BY Zenon DEF QueueContents, Slot
    <2> QED
      BY SMTT(30), <1>3, <1>6, <2>1
  <1>11. QueueContents' = Append(QueueContents, mem[buf[t]])
    <2>1. Append(QueueContents, mem[buf[t]])
            = [i \in 1..(nelts + 1) |-> IF i = nelts + 1 THEN mem[buf[t]]
                                        ELSE QueueContents[i]]
      BY SMTT(30), <1>1, <1>2, <1>9
    <2>2. \A i \in 1..(nelts + 1) :
             mem[data'[Slot(i)]] = IF i = nelts + 1 THEN mem[buf[t]] ELSE QueueContents[i]
      BY SMTT(30), <1>7, <1>8, <1>9
    <2> QED
      BY Zenon, <1>10, <2>1, <2>2
  <1> QED
    BY Zenon, <1>1, <1>2, <1>3, <1>4, <1>11

(* A load takes the head, which is then in the hands of the thread. *)
LEMMA LoadTakes ==
    ASSUME IInv, IInv', NEW t \in Threads, pc[t] \in {"pop", "waitEmpty"},
           ~rpa_queue_empty, Load(t)
    PROVE  /\ QueueContents # <<>> /\ Hand[t] = None
           /\ Hand' = [Hand EXCEPT ![t] = Head(QueueContents)]
           /\ QueueContents' = Tail(QueueContents)
           /\ UNCHANGED <<bounds, msg>>
  <1>1. /\ pc \in [Threads -> Pcs] /\ buf \in [Threads -> Bufs \cup {None}]
        /\ nelts \in Nat /\ nelts # 0 /\ nelts <= bounds /\ bounds \in Nat
        /\ out \in Nat /\ out < bounds
    <2>1. nelts \in Nat /\ nelts <= bounds /\ bounds \in Nat /\ out \in Nat
      BY Zenon, ContentsTyped
    <2>2. pc \in [Threads -> Pcs] /\ buf \in [Threads -> Bufs \cup {None}]
      BY Zenon DEF IInv, TypeOK, Pcs
    <2>3. nelts # 0 /\ (Alive => out < bounds)
      BY Zenon DEF rpa_queue_empty, IInv, RingConsistent
    <2>4. bounds # 0
      BY <2>1, <2>3
    <2> QED
      BY Zenon, <2>1, <2>2, <2>3, <2>4 DEF Alive
  <1>2. /\ nelts' = nelts - 1 /\ out' = Advance(out)
        /\ UNCHANGED <<bounds, data, mem, msg>>
        /\ pc' = [pc EXCEPT ![t] = "copy"] /\ buf' = [buf EXCEPT ![t] = data[out]]
    BY Zenon DEF Load
  <1>3. /\ QueueContents = [i \in 1..nelts |-> mem[data[Slot(i)]]]
        /\ QueueContents \in Seq(Msgs) /\ Len(QueueContents) = nelts
    BY Zenon, ContentsTyped
  <1>4. Slot(1) = out /\ \A i \in 1..nelts' : Slot(i)' = Slot(i + 1)
    BY SMTT(30), <1>1, <1>2 DEF Slot, Advance
  <1>5. Head(QueueContents) = mem[data[out]] /\ QueueContents # <<>>
    BY SMTT(30), <1>1, <1>3, <1>4
  <1>6. Hand[t] = None /\ Hand' = [Hand EXCEPT ![t] = Head(QueueContents)]
    <2>1. Hand[t] = None
      BY Zenon DEF Hand
    <2>2. \A u \in Threads : Hand'[u] = IF u = t THEN mem[data[out]] ELSE Hand[u]
      BY Zenon, <1>1, <1>2 DEF Hand
    <2>3. Hand' = [u \in Threads |-> Hand'[u]] /\ Hand = [u \in Threads |-> Hand[u]]
      BY Zenon DEF Hand
    <2> QED
      BY Zenon, <1>5, <2>1, <2>2, <2>3
  <1>7. QueueContents' = [i \in 1..nelts' |-> mem[data[Slot(i + 1)]]]
    <2>1. QueueContents' = [i \in 1..nelts |-> mem[data[Slot(i)]]]'
      BY Zenon DEF QueueContents, Slot
    <2> QED
      BY Zenon, <1>2, <1>4, <2>1
  <1>8. QueueContents' = Tail(QueueContents)
    <2>1. Tail(QueueContents) = [i \in 1..(nelts - 1) |-> QueueContents[i + 1]]
      BY SMTT(30), <1>1, <1>3, <1>5
    <2>2. \A i \in 1..(nelts - 1) : QueueContents[i + 1] = mem[data[Slot(i + 1)]]
      BY <1>1, <1>3
    <2> QED
      BY Zenon, <1>2, <1>7, <2>1, <2>2
  <1> QED
    BY Zenon, <1>2, <1>5, <1>6, <1>8

(* A fetch copies to its caller what it had taken out. *)
LEMMA CopyReceives ==
    ASSUME IInv, NEW t \in Threads, FetchDone(t)
    PROVE  /\ Hand[t] # None
           /\ msg' = [msg EXCEPT ![t] = Hand[t]]
           /\ Hand' = [Hand EXCEPT ![t] = None]
           /\ UNCHANGED <<QueueContents, bounds>>
  <1>1. /\ pc \in [Threads -> Pcs] /\ buf \in [Threads -> Bufs \cup {None}]
        /\ mem \in [Bufs -> Msgs \cup {None}]
        /\ pc[t] = "copy" /\ buf[t] \in Bufs /\ mem[buf[t]] # None
    BY Zenon DEF IInv, TypeOK, Ownership, FetchDone, Pcs
  <1>2. /\ msg' = [msg EXCEPT ![t] = mem[buf[t]]]
        /\ mem' = [mem EXCEPT ![buf[t]] = None]
        /\ pc' = [pc EXCEPT ![t] = "idle"] /\ buf' = [buf EXCEPT ![t] = None]
        /\ UNCHANGED <<bounds, data, nelts, out>>
    BY Zenon DEF FetchDone, Return, ring
  <1>3. Hand[t] = mem[buf[t]]
    BY Zenon, <1>1 DEF Hand
  <1>4. \A u \in Threads : pc[u] = "copy" /\ u # t =>
           buf[u] \in Bufs /\ buf[u] # buf[t]
    BY Zenon, <1>1 DEF IInv, Ownership
  <1>5. Hand' = [Hand EXCEPT ![t] = None]
    <2>1. \A u \in Threads : Hand'[u] = IF u = t THEN None ELSE Hand[u]
      BY Zenon, <1>1, <1>2, <1>4 DEF Hand
    <2>2. Hand' = [u \in Threads |-> Hand'[u]] /\ Hand = [u \in Threads |-> Hand[u]]
      BY Zenon DEF Hand
    <2> QED
      BY Zenon, <2>1, <2>2
  <1>6. UNCHANGED QueueContents
    <2>1. \A i \in 1..nelts : mem'[data[Slot(i)]] = mem[data[Slot(i)]]
      BY Zenon, <1>1, <1>2, ContentsTyped
    <2> QED
      BY Zenon, <1>2, <2>1 DEF QueueContents, Slot
  <1> QED
    BY Zenon, <1>1, <1>2, <1>3, <1>5, <1>6

(* A post that has only made its copy is not seen in the channel. *)
LEMMA CopyUnseen ==
    ASSUME IInv, NEW t \in Threads, NEW m \in Msgs, NEW w \in WaitModes,
           tkl_queue_post(t, m, w)
    PROVE  UNCHANGED <<QueueContents, bounds, Hand, msg>>
  <1>1. PICK b \in Bufs : /\ mem[b] = None
                          /\ mem' = [mem EXCEPT ![b] = m]
                          /\ buf' = [buf EXCEPT ![t] = b]
    BY Zenon DEF tkl_queue_post
  <1>2. /\ pc[t] = "idle" /\ pc' = [pc EXCEPT ![t] = "push"]
        /\ UNCHANGED <<bounds, data, nelts, out, msg>>
    BY Zenon DEF tkl_queue_post, ring
  <1>3. /\ pc \in [Threads -> Pcs] /\ buf \in [Threads -> Bufs \cup {None}]
        /\ mem \in [Bufs -> Msgs \cup {None}]
    BY Zenon DEF IInv, TypeOK, Pcs
  <1>4. \A u \in Threads : pc[u] = "copy" =>
           buf[u] \in Bufs /\ buf[u] # b
    BY Zenon, <1>1, <1>3 DEF IInv, Ownership
  <1>5. UNCHANGED Hand
    BY Zenon, <1>1, <1>2, <1>3, <1>4 DEF Hand
  <1>6. \A i \in 1..nelts : mem'[data[Slot(i)]] = mem[data[Slot(i)]]
    BY Zenon, <1>1, <1>3, ContentsTyped, QueueAssumption
  <1> QED
    BY Zenon, <1>2, <1>5, <1>6 DEF QueueContents, Slot

(* A thread that moves between states other than "copy" and touches        *)
(* neither ring nor heap is not seen either.                               *)
LEMMA MoveUnseen ==
    ASSUME IInv, NEW t \in Threads, pc[t] # "copy",
           NEW x \in Pcs \ {"copy"}, pc' = [pc EXCEPT ![t] = x],
           \A u \in Threads \ {t} : buf'[u] = buf[u],
           UNCHANGED <<ring, mem, msg>>
    PROVE  UNCHANGED <<QueueContents, bounds, Hand, msg>>
  <1>1. pc \in [Threads -> Pcs]
    BY Zenon DEF IInv, TypeOK, Pcs
  <1>2. UNCHANGED <<bounds, data, nelts, out, mem, msg>>
    BY Zenon DEF ring
  <1>3. UNCHANGED Hand
    BY Zenon, <1>1, <1>2 DEF Hand
  <1> QED
    BY Zenon, <1>2, <1>3 DEF QueueContents

(* Every step of the queue is a step of the channel or is not seen in it. *)
LEMMA FifoStep == IInv /\ [Next]_vars => [Fifo!Next]_(Fifo!fifoVars)
  <1> SUFFICES ASSUME IInv, [Next]_vars PROVE [Fifo!Next]_(Fifo!fifoVars)
    BY Zenon
  <1> DEFINE Unseen == UNCHANGED <<QueueContents, bounds, Hand, msg>>
  <1>i. IInv'
    BY StepInv
  <1>t. /\ pc \in [Threads -> Pcs] /\ buf \in [Threads -> Bufs \cup {None}]
    BY Zenon DEF IInv, TypeOK, Pcs
  <1>u. ASSUME Unseen PROVE [Fifo!Next]_(Fifo!fifoVars)
    BY Zenon, <1>u DEF Fifo!fifoVars, Hand
  <1>0. CASE UNCHANGED vars
    <2>1. Unseen
      BY Zenon, <1>0 DEF vars, QueueContents, Hand
    <2> QED
      BY Zenon, <2>1, <1>u
  <1>1. ASSUME NEW t \in Threads, tkl_queue_create_init(t)
        PROVE  Fifo!Next
    <2>1. /\ bounds = 0 /\ bounds' \in Capacities /\ nelts' = 0
          /\ UNCHANGED <<mem, pc, buf, msg>>
      BY Zenon, <1>1 DEF tkl_queue_create_init, rpa_queue_create, Alive
    <2>2. nelts = 0
      BY <2>1 DEF IInv, RingConsistent, TypeOK
    <2>3. QueueContents' = QueueContents
      BY <2>1, <2>2 DEF QueueContents
    <2>4. Fifo!Open
      BY Zenon, <2>1, <2>3 DEF Fifo!Open
    <2> QED
      BY Zenon, <2>4 DEF Fifo!Next
  <1>2. ASSUME NEW t \in Threads, tkl_queue_free(t)
        PROVE  Fifo!Next
    <2>1. /\ bounds # 0 /\ bounds' = 0 /\ nelts' = 0
          /\ UNCHANGED <<mem, pc, buf, msg>>
      BY Zenon, <1>2 DEF tkl_queue_free, rpa_queue_destroy, Alive
    <2>2. QueueContents' = <<>>
      BY <2>1 DEF QueueContents
    <2>3. Fifo!Close
      BY Zenon, <2>1, <2>2 DEF Fifo!Close
    <2> QED
      BY Zenon, <2>3 DEF Fifo!Next
  <1>3. ASSUME NEW t \in Threads, NEW w \in WaitModes, NEW m \in Msgs,
               tkl_queue_post(t, m, w)
        PROVE  Unseen
    BY Zenon, <1>3, CopyUnseen
  <1>4. ASSUME NEW t \in Threads, NEW w \in WaitModes, tkl_queue_fetch(t, w)
        PROVE  Unseen
    <2>1. /\ pc[t] = "idle" /\ pc' = [pc EXCEPT ![t] = "pop"]
          /\ UNCHANGED <<ring, mem, buf, msg>>
      BY Zenon, <1>4 DEF tkl_queue_fetch
    <2> QED
      BY <2>1, MoveUnseen, Zenon DEF Pcs
  <1>5. ASSUME NEW t \in Threads, Interrupt(t) PROVE Unseen
    BY Zenon, <1>5 DEF Interrupt, ring, QueueContents, Hand
  <1>6. ASSUME NEW t \in Threads, pc[t] # "copy", PushFails(t) \/ PopFails(t)
        PROVE  Unseen
    <2>1. /\ pc' = [pc EXCEPT ![t] = "idle"] /\ buf' = [buf EXCEPT ![t] = None]
          /\ UNCHANGED <<ring, mem, msg>>
      BY Zenon, <1>6 DEF PushFails, PopFails, Return
    <2>2. \A u \in Threads \ {t} : buf'[u] = buf[u]
      BY Zenon, <2>1, <1>t
    <2> QED
      BY <1>6, <2>1, <2>2, MoveUnseen, Zenon DEF Pcs
  <1>7. ASSUME NEW t \in Threads, NEW x \in {"waitFull", "waitEmpty"},
               pc[t] # "copy", pc' = [pc EXCEPT ![t] = x],
               UNCHANGED <<ring, mem, buf, msg>>
        PROVE  Unseen
    BY <1>7, MoveUnseen, Zenon DEF Pcs
  <1>8. ASSUME NEW t \in Threads, pc[t] \in {"push", "waitFull"},
               ~rpa_queue_full, Store(t)
        PROVE  Fifo!Next
    <2>1. /\ mem[buf[t]] \in Msgs /\ Len(QueueContents) < bounds
          /\ QueueContents' = Append(QueueContents, mem[buf[t]])
          /\ UNCHANGED <<bounds, Hand, msg>>
      BY Zenon, <1>8, <1>i, StorePuts
    <2>2. Fifo!Put(mem[buf[t]])
      BY Zenon, <2>1 DEF Fifo!Put, Hand
    <2> QED
      BY Zenon, <2>1, <2>2 DEF Fifo!Next
  <1>9. ASSUME NEW t \in Threads, pc[t] \in {"pop", "waitEmpty"},
               ~rpa_queue_empty, Load(t)
        PROVE  Fifo!Next
    <2>1. /\ QueueContents # <<>> /\ Hand[t] = None
          /\ Hand' = [Hand EXCEPT ![t] = Head(QueueContents)]
          /\ QueueContents' = Tail(QueueContents)
          /\ UNCHANGED <<bounds, msg>>
      BY Zenon, <1>9, <1>i, LoadTakes
    <2>2. Fifo!Take(t)
      BY Zenon, <2>1 DEF Fifo!Take, Hand
    <2> QED
      BY Zenon, <2>2 DEF Fifo!Next
  <1>10. ASSUME NEW t \in Threads, FetchDone(t) PROVE Fifo!Next
    <2>1. /\ Hand[t] # None
          /\ msg' = [msg EXCEPT ![t] = Hand[t]]
          /\ Hand' = [Hand EXCEPT ![t] = None]
          /\ UNCHANGED <<QueueContents, bounds>>
      BY Zenon, <1>10, CopyReceives
    <2>2. Fifo!Receive(t)
      BY Zenon, <2>1 DEF Fifo!Receive, Hand
    <2> QED
      BY Zenon, <2>2 DEF Fifo!Next
  <1>11. ASSUME NEW t \in Threads, Post(t) PROVE Unseen \/ Fifo!Next
    <2>1. \/ pc[t] \in {"push", "waitFull"} /\ ~rpa_queue_full /\ Store(t)
          \/ pc[t] # "copy" /\ PushFails(t)
          \/ /\ pc[t] # "copy" /\ pc' = [pc EXCEPT ![t] = "waitFull"]
             /\ UNCHANGED <<ring, mem, buf, msg>>
      BY Zenon, <1>11 DEF Post, rpa_queue_trypush, rpa_queue_timedpush, PushResume
    <2> QED
      BY Zenon, <2>1, <1>6, <1>7, <1>8
  <1>12. ASSUME NEW t \in Threads, Fetch(t) PROVE Unseen \/ Fifo!Next
    <2>1. \/ pc[t] \in {"pop", "waitEmpty"} /\ ~rpa_queue_empty /\ Load(t)
          \/ pc[t] # "copy" /\ PopFails(t)
          \/ /\ pc[t] # "copy" /\ pc' = [pc EXCEPT ![t] = "waitEmpty"]
             /\ UNCHANGED <<ring, mem, buf, msg>>
          \/ FetchDone(t)
      BY Zenon, <1>12 DEF Fetch, rpa_queue_trypop, rpa_queue_timedpop, PopResume
    <2> QED
      BY Zenon, <2>1, <1>6, <1>7, <1>9, <1>10
  <1>13. CASE Next
    <2> HIDE DEF Unseen
    <2>1. Unseen \/ Fifo!Next
      BY Zenon, <1>13, <1>1, <1>2, <1>3, <1>4, <1>5, <1>11, <1>12 DEF Next
    <2> QED
      BY Zenon, <2>1, <1>u
  <1> QED
    BY Zenon, <1>0, <1>13

(* tkl_queue.c is a bounded FIFO channel for every number of threads, every *)
(* capacity and every heap: no accepted message is lost, duplicated,       *)
(* reordered or altered.                                                   *)
THEOREM QueueImplementsFifo == Spec => FifoSpec
  <1>1. Init => Fifo!Init
    BY DEF Init, Fifo!Init, QueueContents
  <1> QED
    BY <1>1, FifoStep, Invariance, PTL DEF Spec, FifoSpec, Fifo!Spec

-------------------------------------------------------------------------------
(* What becomes unreachable. *)

(* A step that makes a message copy unreachable is that of a post giving   *)
(* up, or it leaves no queue.                                              *)
LEMMA LeakStep ==
    ASSUME IInv, Next, NEW b \in Bufs, Leaked(b)', ~Leaked(b)
    PROVE  \/ ~Alive'
           \/ nelts' = nelts /\ \E t \in Threads :
                pc[t] \in {"push", "waitFull"} /\ pc'[t] = "idle"
  <1> DEFINE GivesUp == nelts' = nelts /\ \E t \in Threads :
                           pc[t] \in {"push", "waitFull"} /\ pc'[t] = "idle"
  <1>t. /\ pc \in [Threads -> Pcs] /\ buf \in [Threads -> Bufs \cup {None}]
        /\ mem \in [Bufs -> Msgs \cup {None}]
        /\ data \in [Slots -> Bufs \cup {None}]
        /\ nelts \in Nat /\ bounds \in Nat /\ None \notin Bufs
        /\ None \notin Msgs
        /\ TypeOK /\ RingConsistent /\ Ownership
    BY SMTT(30), QueueAssumption DEF IInv, TypeOK, Pcs
  <1>l. /\ mem'[b] # None
        /\ \A j \in Slots' : Occupied(j)' => data'[j] # b
        /\ \A u \in Threads : buf'[u] # b
    BY Zenon, <1>t DEF Leaked, Queued, Held
  <1>r. mem[b] = None \/ (\E j \in Slots : Occupied(j) /\ data[j] = b)
          \/ (\E u \in Threads : buf[u] = b)
    BY Zenon, <1>t DEF Leaked, Queued, Held
  <1>0. ASSUME UNCHANGED <<bounds, data, nelts, out, mem, buf>> PROVE FALSE
    <2>1. Slots' = Slots /\ \A j : Occupied(j)' <=> Occupied(j)
      BY Zenon, <1>0 DEF Slots, Occupied
    <2> QED
      BY Zenon, <1>0, <2>1, <1>l, <1>r
  <1>1. ASSUME NEW t \in Threads, tkl_queue_create_init(t) PROVE FALSE
    <2>1. bounds = 0 /\ UNCHANGED <<mem, buf>>
      BY Zenon, <1>1 DEF tkl_queue_create_init, Alive
    <2>2. Slots = {}
      BY <2>1 DEF Slots
    <2> QED
      BY Zenon, <2>1, <2>2, <1>l, <1>r
  <1>2. ASSUME NEW t \in Threads, tkl_queue_free(t) PROVE ~Alive'
    BY Zenon, <1>2 DEF tkl_queue_free, rpa_queue_destroy, Alive
  <1>3. ASSUME NEW t \in Threads, NEW m \in Msgs, NEW w \in WaitModes,
               tkl_queue_post(t, m, w)
        PROVE  FALSE
    <2>1. PICK c \in Bufs : /\ mem[c] = None /\ mem' = [mem EXCEPT ![c] = m]
                            /\ buf' = [buf EXCEPT ![t] = c]
      BY Zenon, <1>3 DEF tkl_queue_post
    <2>2. pc[t] = "idle" /\ UNCHANGED <<bounds, data, nelts, out>>
      BY Zenon, <1>3 DEF tkl_queue_post, ring
    <2>3. Slots' = Slots /\ \A j : Occupied(j)' <=> Occupied(j)
      BY Zenon, <2>2 DEF Slots, Occupied
    <2>4. buf[t] = None
      BY Zenon, <2>2, <1>t DEF Ownership
    <2>5. b # c
      BY Zenon, <2>1, <1>l, <1>t
    <2> QED
      BY Zenon, <2>1, <2>2, <2>3, <2>4, <2>5, <1>l, <1>r, <1>t
  <1>4. ASSUME NEW t \in Threads, pc[t] \in {"push", "waitFull"},
               nelts # bounds, Store(t)
        PROVE  FALSE
    <2>1. /\ buf' = [buf EXCEPT ![t] = None]
          /\ data' = [data EXCEPT ![in] = buf[t]]
          /\ nelts' = nelts + 1 /\ UNCHANGED <<bounds, out, mem>>
      BY Zenon, <1>4 DEF Store, Return
    <2>2. /\ in \in Slots /\ ~Occupied(in) /\ Slots' = Slots
          /\ \A j \in Slots : Occupied(j)' <=> Occupied(j) \/ j = in
      BY SMTT(30), <1>4, <2>1, <1>t, OccupiedStore DEF RingConsistent, Slots
    <2>3. data'[in] = buf[t] /\ \A j \in Slots : j # in => data'[j] = data[j]
      BY Zenon, <2>1, <2>2, <1>t
    <2>4. \A u \in Threads : u # t => buf'[u] = buf[u]
      BY Zenon, <2>1, <1>t
    <2> QED
      BY Zenon, <2>1, <2>2, <2>3, <2>4, <1>l, <1>r
  <1>5. ASSUME NEW t \in Threads, pc[t] \in {"push", "waitFull"}, PushFails(t)
        PROVE  GivesUp
    BY Zenon, <1>5, <1>t DEF PushFails, Return, ring
  <1>6. ASSUME NEW t \in Threads, pc[t] \in {"pop", "waitEmpty"}, PopFails(t)
        PROVE  FALSE
    <2>1. buf[t] = None
      BY Zenon, <1>6, <1>t DEF Ownership
    <2> QED
      BY Zenon, <2>1, <1>6, <1>0, <1>t DEF PopFails, Return, ring
  <1>7. ASSUME NEW t \in Threads, pc[t] \in {"pop", "waitEmpty"},
               nelts # 0, Load(t)
        PROVE  FALSE
    <2>1. /\ buf' = [buf EXCEPT ![t] = data[out]]
          /\ nelts' = nelts - 1 /\ out' = Advance(out)
          /\ UNCHANGED <<bounds, data, mem>>
      BY Zenon, <1>7 DEF Load
    <2>2. /\ out \in Slots /\ Occupied(out) /\ Slots' = Slots
          /\ \A j \in Slots : Occupied(j)' <=> Occupied(j) /\ j # out
      BY Zenon, <1>7, <2>1, <1>t, OccupiedLoad DEF Slots
    <2>3. buf[t] = None /\ buf'[t] = data[out]
      BY Zenon, <2>1, <1>7, <1>t DEF Ownership
    <2>4. \A u \in Threads : u # t => buf'[u] = buf[u]
      BY Zenon, <2>1, <1>t
    <2> QED
      BY Zenon, <2>1, <2>2, <2>3, <2>4, <1>l, <1>r, <1>t
  <1>8. ASSUME NEW t \in Threads, FetchDone(t) PROVE FALSE
    <2>1. /\ pc[t] = "copy" /\ buf' = [buf EXCEPT ![t] = None]
          /\ mem' = [mem EXCEPT ![buf[t]] = None]
          /\ UNCHANGED <<bounds, data, nelts, out>>
      BY Zenon, <1>8 DEF FetchDone, Return, ring
    <2>2. Slots' = Slots /\ \A j : Occupied(j)' <=> Occupied(j)
      BY Zenon, <2>1 DEF Slots, Occupied
    <2>3. buf[t] \in Bufs /\ b # buf[t] /\ mem'[b] = mem[b]
      BY Zenon, <2>1, <1>l, <1>t DEF Ownership
    <2>4. \A u \in Threads : u # t => buf'[u] = buf[u]
      BY Zenon, <2>1, <1>t
    <2> QED
      BY Zenon, <2>1, <2>2, <2>3, <2>4, <1>l, <1>r
  <1>9. ASSUME NEW t \in Threads, Post(t) PROVE GivesUp
    <2>1. \/ pc[t] \in {"push", "waitFull"} /\ nelts # bounds /\ Store(t)
          \/ pc[t] \in {"push", "waitFull"} /\ PushFails(t)
          \/ UNCHANGED <<bounds, data, nelts, out, mem, buf>>
      BY Zenon, <1>9
      DEF Post, rpa_queue_trypush, rpa_queue_timedpush, PushResume,
          rpa_queue_full, ring
    <2> QED
      BY Zenon, <2>1, <1>0, <1>4, <1>5
  <1>10. ASSUME NEW t \in Threads, Fetch(t) PROVE FALSE
    <2>1. \/ pc[t] \in {"pop", "waitEmpty"} /\ nelts # 0 /\ Load(t)
          \/ pc[t] \in {"pop", "waitEmpty"} /\ PopFails(t)
          \/ FetchDone(t)
          \/ UNCHANGED <<bounds, data, nelts, out, mem, buf>>
      BY Zenon, <1>10
      DEF Fetch, rpa_queue_trypop, rpa_queue_timedpop, PopResume,
          rpa_queue_empty, ring
    <2> QED
      BY Zenon, <2>1, <1>0, <1>6, <1>7, <1>8
  <1>11. ASSUME NEW t \in Threads,
                Interrupt(t) \/ \E w \in WaitModes : tkl_queue_fetch(t, w)
         PROVE  FALSE
    BY Zenon, <1>11, <1>0 DEF Interrupt, tkl_queue_fetch, ring
  <1> QED
    BY Zenon, <1>1, <1>2, <1>3, <1>9, <1>10, <1>11 DEF Next

(* tkl_queue_post loses the copy of a post that gives up, tkl_queue_free   *)
(* the messages still queued, and no other step loses one: for every       *)
(* number of threads and every capacity.                                   *)
THEOREM LeaksAreTheTwoKnown == Spec => LeakOnlyOnFailedPostOrFree
  <1> DEFINE LeakExcused ==
        (\E b \in Bufs : Leaked(b)' /\ ~Leaked(b)) =>
           \/ ~Alive'
           \/ nelts' = nelts /\ \E t \in Threads :
                pc[t] \in {"push", "waitFull"} /\ pc'[t] = "idle"
  <1>1. IInv /\ Next => LeakExcused
    BY Zenon, LeakStep
  <1>2. IInv /\ [Next]_vars => [LeakExcused]_vars
    BY Zenon, <1>1
  <1> QED
    BY <1>2, Invariance, PTL DEF Spec, LeakOnlyOnFailedPostOrFree

-------------------------------------------------------------------------------
(* The semaphore. *)

(* A semaphore is released only when nobody waits for it, so nobody waits  *)
(* for one that does not exist.                                            *)
SemInv == EveryOkHasAUnit /\ (handle = "none" => NoneWaits)

(* tkl_semaphore_wait answers OPRT_OK once per unit of the count, for      *)
(* every number of threads, count and sequence of posts and signals.       *)
THEOREM SemaphoreCounts == SemSpec => []EveryOkHasAUnit
  <1> USE SemAssumption DEF SemInv, EveryOkHasAUnit, SemTypeOK,
          NoneWaits
  <1>1. SemInit => SemInv
    BY DEF SemInit
  <1>2. SemInv /\ [SemNext]_semvars => SemInv'
    <2> SUFFICES ASSUME SemInv, [SemNext]_semvars PROVE SemInv'
      BY Zenon
    <2>1. CASE CreateInit
      BY <2>1 DEF CreateInit
    <2>2. CASE SemPost
      BY <2>2 DEF SemPost
    <2>3. CASE SemRelease
      BY Zenon, <2>3 DEF SemRelease
    <2>4. ASSUME NEW t \in Waiters,
                 \/ WaitForever(t) \/ WaitTimed(t) \/ SemInterrupt(t)
                 \/ Expire(t) \/ Timeout(t)
          PROVE  SemInv'
      BY Zenon, <2>4 DEF WaitForever, WaitTimed, SemInterrupt, Expire,
                  Timeout, SemReturn, semvars
    <2>5. ASSUME NEW t \in Waiters, Take(t) PROVE SemInv'
      BY <2>5 DEF Take, SemReturn
    <2>6. CASE UNCHANGED semvars
      BY Zenon, <2>6 DEF semvars
    <2> QED
      BY Zenon, <2>1, <2>2, <2>3, <2>4, <2>5, <2>6 DEF SemNext
  <1>3. SemInv => EveryOkHasAUnit
    BY Zenon
  <1> QED
    BY <1>1, <1>2, <1>3, PTL DEF SemSpec

===============================================================================
