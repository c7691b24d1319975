------------------------------- MODULE ByteFifo -------------------------------
(* What the ring buffer promises: a bounded first-in first-out sequence of *)
(* bytes that stores as much of a write as fits and returns as much of a   *)
(* read as there is.                                                       *)
EXTENDS Sequences, Naturals

CONSTANT Bytes
VARIABLES q,       \* the stored bytes
          room,    \* capacity, 0 while there is no buffer
          xfer     \* what the last write stored, or read or peek returned

vars == <<q, room, xfer>>

Init == q = <<>> /\ room = 0 /\ xfer = <<>>

Prefix(s, n) == SubSeq(s, 1, n)

Write == \E k \in 1..(room - Len(q)) :
            /\ xfer' \in [1..k -> Bytes]
            /\ q' = q \o xfer'
            /\ UNCHANGED room
Read == \E k \in 1..Len(q) : /\ xfer' = Prefix(q, k)
                             /\ q' = SubSeq(q, k + 1, Len(q))
                             /\ UNCHANGED room
Peek == \E k \in 1..Len(q) : xfer' = Prefix(q, k) /\ UNCHANGED <<q, room>>
Discard == \E k \in 1..Len(q) :
              q' = SubSeq(q, k + 1, Len(q)) /\ UNCHANGED <<room, xfer>>
Reset == q' = <<>> /\ UNCHANGED <<room, xfer>>
Create == room = 0 /\ room' \in Nat /\ q' = <<>> /\ UNCHANGED xfer
Free == room' = 0 /\ q' = <<>> /\ UNCHANGED xfer

Next == Write \/ Read \/ Peek \/ Discard \/ Reset \/ Create \/ Free

Step == [Next]_vars
Spec == Init /\ [][Step]_vars
===============================================================================
