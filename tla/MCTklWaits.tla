------------------------------ MODULE MCTklWaits ------------------------------
(***************************************************************************)
(* The waiting primitives for TLC: a queue shared by threads, a semaphore  *)
(* shared by threads, and the deadlines both compute.  They share no       *)
(* state, so a behaviour exercises one of them, the subject.               *)
(***************************************************************************)
EXTENDS TklQueue, TklSemaphore, TLC

CONSTANTS ClockReadings,   \* readings [tv_sec, tv_nsec] of CLOCK_REALTIME
          Timeouts         \* timeouts in milliseconds

(* Clock readings and timeouts on both sides of every carry, for TLC. *)
CarryReadings ==
    {[tv_sec |-> 7, tv_nsec |-> n] :
        n \in {0, 1, 999999, 1000000, 1000001, 500000000, 500999999,
               998999999, 999000000, 999999999}}
CarryTimeouts == {0, 1, 2, 499, 500, 501, 998, 999, 1000, 1001, 1500,
                  1999, 2000, 59999, 60000}

VARIABLES subject,
          now, timeout, semDeadline, queueDeadline

(* A struct timespec the kernel accepts. *)
Valid(d) == 0 <= d.tv_nsec /\ d.tv_nsec < NsPerSec
Times == {d \in [tv_sec : Nat, tv_nsec : Nat] : Valid(d)}
NoTime == [tv_sec |-> 0, tv_nsec |-> 0]
Millis(d) == d.tv_sec * 1000 + d.tv_nsec \div NsPerMs

(* The timeouts are unsigned, the clock is normalised. *)
ASSUME ClockAssumption == ClockReadings \subseteq Times /\ Timeouts \subseteq Nat

deadline == <<now, timeout, semDeadline, queueDeadline>>
all == <<subject, vars, semvars, deadline>>

(* A clock reading, a timeout, and the deadline of either wait. *)
DeadlineInit == /\ now \in ClockReadings /\ timeout \in Timeouts
                /\ semDeadline = NoTime /\ queueDeadline = NoTime

SemWait == /\ semDeadline' = sem_deadline(now, timeout)
           /\ UNCHANGED <<now, timeout, queueDeadline>>
QueueWait == /\ queueDeadline' = set_timeout(now, timeout)
             /\ UNCHANGED <<now, timeout, semDeadline>>

DeadlineNext == SemWait \/ QueueWait
DeadlineSpec == DeadlineInit /\ [][DeadlineNext]_deadline

NoDeadline == now = NoTime /\ timeout = 0 /\ semDeadline = NoTime /\ queueDeadline = NoTime

WaitsInit ==
    /\ Init /\ SemInit
    /\ \/ subject = "deadline" /\ DeadlineInit
       \/ subject \in {"queue", "semaphore"} /\ NoDeadline

OfQueue == subject = "queue" /\ UNCHANGED <<subject, semvars, deadline>>
OfSemaphore == subject = "semaphore" /\ UNCHANGED <<subject, vars, deadline>>
OfDeadline == subject = "deadline" /\ UNCHANGED <<subject, vars, semvars>>

WaitsNext == \/ Next /\ OfQueue
             \/ SemNext /\ OfSemaphore
             \/ DeadlineNext /\ OfDeadline

(* The fairness of each subject. *)
WaitsSpec ==
    /\ WaitsInit /\ [][WaitsNext]_all
    /\ \A t \in Threads : WF_all((Post(t) \/ Fetch(t)) /\ OfQueue)
    /\ \A t \in Waiters :
         /\ WF_all(Expire(t) /\ OfSemaphore)
         /\ WF_all((Timeout(t) \/ Take(t)) /\ OfSemaphore)

(* The queue alone, with more threads. *)
QueueInit == subject = "queue" /\ Init /\ SemInit /\ NoDeadline
QueueNext == Next /\ OfQueue
QueueSpec == QueueInit /\ [][QueueNext]_all

Symmetry == Permutations(Threads) \cup Permutations(Bufs) \cup Permutations(Msgs)

(* The deadlines tkl_semaphore_wait and set_timeout of tkl_queue.c compute *)
(* name the moment the timeout ends, whatever has to be carried: the       *)
(* semaphore's exactly and as a time the kernel accepts, the queue's less  *)
(* the part of a millisecond that set_timeout drops.                       *)
DeadlinesOnTime ==
    /\ semDeadline # NoTime =>
         /\ Valid(semDeadline)
         /\ Millis(semDeadline) = Millis(now) + timeout
         /\ semDeadline.tv_nsec % NsPerMs = now.tv_nsec % NsPerMs
    /\ queueDeadline # NoTime => Millis(queueDeadline) = Millis(now) + timeout
===============================================================================
