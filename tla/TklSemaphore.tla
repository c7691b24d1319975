----------------------------- MODULE TklSemaphore -----------------------------
(***************************************************************************)
(* tuyaos_adapter/src/tkl_semaphore.c: one semaphore, threads that wait    *)
(* for it forever or until a deadline, posts, and signals that interrupt   *)
(* the waits.  sem_timedwait is called again after a signal, with the same *)
(* absolute deadline; sem_wait is not called again.                        *)
(***************************************************************************)
EXTENDS Integers

CONSTANTS Waiters,       \* the threads that use the semaphore
          sem_cnt,       \* its initial count
          MaxPosts       \* bound on the posts of a behaviour

(* The count is unsigned. *)
ASSUME SemAssumption == sem_cnt \in Nat /\ MaxPosts \in Nat

VARIABLES handle,   \* "none" or "open"
          sem,      \* the count of the semaphore
          sem_pc,   \* "idle", "forever", "timed": where a thread is
          expired,  \* the deadline of a timed wait has passed
          posts,    \* history: posts so far
          oks       \* history: waits that returned OPRT_OK

semvars == <<handle, sem, sem_pc, expired, posts, oks>>

NoneWaits == \A t \in Waiters : sem_pc[t] = "idle"

SemInit ==
    /\ handle = "none" /\ sem = 0
    /\ sem_pc = [t \in Waiters |-> "idle"]
    /\ expired = [t \in Waiters |-> FALSE]
    /\ posts = 0 /\ oks = 0

NsPerSec == 1000000000

(* The absolute deadline tkl_semaphore_wait computes for a timeout of ms   *)
(* milliseconds from the clock reading ts.                                 *)
sem_deadline(ts, ms) ==
    LET nsec == ts.tv_nsec + (ms % 1000) * (NsPerSec \div 1000)
        sec == ts.tv_sec + ms \div 1000
    IN  IF nsec >= NsPerSec
        THEN [tv_sec |-> sec + nsec \div NsPerSec, tv_nsec |-> nsec % NsPerSec]
        ELSE [tv_sec |-> sec, tv_nsec |-> nsec]

(* sem_max is not used. *)
CreateInit ==
    /\ handle = "none"
    /\ handle' = "open" /\ sem' = sem_cnt /\ posts' = 0 /\ oks' = 0
    /\ UNCHANGED <<sem_pc, expired>>

WaitForever(t) ==
    /\ handle = "open" /\ sem_pc[t] = "idle"
    /\ sem_pc' = [sem_pc EXCEPT ![t] = "forever"]
    /\ UNCHANGED <<handle, sem, expired, posts, oks>>

WaitTimed(t) ==
    /\ handle = "open" /\ sem_pc[t] = "idle"
    /\ sem_pc' = [sem_pc EXCEPT ![t] = "timed"]
    /\ expired' = [expired EXCEPT ![t] = FALSE]
    /\ UNCHANGED <<handle, sem, posts, oks>>

SemReturn(t) ==
    /\ sem_pc' = [sem_pc EXCEPT ![t] = "idle"]
    /\ expired' = [expired EXCEPT ![t] = FALSE]

Take(t) ==
    /\ sem_pc[t] # "idle" /\ sem > 0
    /\ sem' = sem - 1 /\ oks' = oks + 1
    /\ SemReturn(t)
    /\ UNCHANGED <<handle, posts>>

(* A signal handler ran: both calls fail with EINTR. *)
InterruptedIsOk(t) ==
    \/ /\ sem_pc[t] = "forever" /\ SemReturn(t) /\ oks' = oks + 1
       /\ UNCHANGED <<handle, sem, posts>>
    \/ sem_pc[t] = "timed" /\ UNCHANGED semvars

InterruptRestartsClock(t) ==
    \/ sem_pc[t] = "forever" /\ SemReturn(t) /\ UNCHANGED <<handle, sem, posts, oks>>
    \/ /\ sem_pc[t] = "timed"
       /\ expired' = [expired EXCEPT ![t] = FALSE]
       /\ UNCHANGED <<handle, sem, sem_pc, posts, oks>>

SemInterrupt(t) ==
    \/ sem_pc[t] = "forever" /\ SemReturn(t) /\ UNCHANGED <<handle, sem, posts, oks>>
    \/ sem_pc[t] = "timed" /\ UNCHANGED semvars

Expire(t) ==
    /\ sem_pc[t] = "timed" /\ ~expired[t]
    /\ expired' = [expired EXCEPT ![t] = TRUE]
    /\ UNCHANGED <<handle, sem, sem_pc, posts, oks>>

(* ETIMEDOUT: only with a count of 0. *)
Timeout(t) ==
    /\ sem_pc[t] = "timed" /\ expired[t] /\ sem = 0
    /\ SemReturn(t)
    /\ UNCHANGED <<handle, sem, posts, oks>>

SemPost ==
    /\ handle = "open" /\ posts < MaxPosts
    /\ sem' = sem + 1 /\ posts' = posts + 1
    /\ UNCHANGED <<handle, sem_pc, expired, oks>>

(* Callers release a semaphore nobody waits for. *)
SemRelease ==
    /\ handle = "open" /\ NoneWaits
    /\ handle' = "none"
    /\ UNCHANGED <<sem, sem_pc, expired, posts, oks>>

SemNext ==
    \/ CreateInit \/ SemPost \/ SemRelease
    \/ \E t \in Waiters : \/ WaitForever(t) \/ WaitTimed(t) \/ Take(t)
                          \/ SemInterrupt(t) \/ Expire(t) \/ Timeout(t)

(* Time passes, and the kernel wakes a thread that can return. *)
Fairness == \A t \in Waiters : /\ WF_semvars(Expire(t))
                               /\ WF_semvars(Timeout(t) \/ Take(t))

SemSpec == SemInit /\ [][SemNext]_semvars /\ Fairness

SemTypeOK ==
    /\ handle \in {"none", "open"}
    /\ sem \in Nat
    /\ sem_pc \in [Waiters -> {"idle", "forever", "timed"}]
    /\ expired \in [Waiters -> BOOLEAN]
    /\ posts \in 0..MaxPosts /\ oks \in 0..(sem_cnt + MaxPosts)

(* A wait answers OPRT_OK once for each unit of the count: signals and     *)
(* deadlines that end a wait neither take a unit nor pass for one, and the *)
(* semaphore never counts more units than were posted.                     *)
EveryOkHasAUnit ==
    SemTypeOK /\ (handle # "none" => sem + oks = sem_cnt + posts)

(* A wait with a timeout ends, however often signals interrupt it: the loop*)
(* on EINTR keeps the deadline computed before it.                         *)
TimedWaitEnds ==
    \A t \in Waiters : sem_pc[t] = "timed" ~> sem_pc[t] = "idle"
===============================================================================
