----------------------------- MODULE BoundedFifo -----------------------------
(***************************************************************************)
(* What tkl_queue promises its callers: a bounded first-in first-out       *)
(* channel.  A message that was accepted is handed to one thread, in order, *)
(* and what that thread receives is what was posted.  Failed calls leave   *)
(* no trace here: they are stuttering steps.                               *)
(***************************************************************************)
EXTENDS Integers, Sequences

CONSTANTS Threads, Capacities, Msgs, None

VARIABLES q,      \* the accepted messages, oldest first
          cap,    \* capacity, 0 while no queue exists
          hand,   \* the message a thread has taken out and not yet received
          last    \* the message a thread received last

fifoVars == <<q, cap, hand, last>>

Init ==
    /\ q = <<>>
    /\ cap = 0
    /\ hand = [t \in Threads |-> None]
    /\ last = [t \in Threads |-> None]

Open ==
    /\ cap = 0
    /\ cap' \in Capacities
    /\ UNCHANGED <<q, hand, last>>

Close ==
    /\ cap # 0
    /\ q' = <<>>
    /\ cap' = 0
    /\ UNCHANGED <<hand, last>>

Put(m) ==
    /\ Len(q) < cap
    /\ q' = Append(q, m)
    /\ UNCHANGED <<cap, hand, last>>

Take(t) ==
    /\ q # <<>>
    /\ hand[t] = None
    /\ hand' = [hand EXCEPT ![t] = Head(q)]
    /\ q' = Tail(q)
    /\ UNCHANGED <<cap, last>>

Receive(t) ==
    /\ hand[t] # None
    /\ last' = [last EXCEPT ![t] = hand[t]]
    /\ hand' = [hand EXCEPT ![t] = None]
    /\ UNCHANGED <<q, cap>>

Next ==
    \/ Open
    \/ Close
    \/ \E m \in Msgs : Put(m)
    \/ \E t \in Threads : Take(t) \/ Receive(t)

Spec == Init /\ [][Next]_fifoVars
==============================================================================
