----------------------------- MODULE BoundedDeque -----------------------------
(* What tuya_queue promises: a bounded sequence of items that grows at     *)
(* either end, shrinks at the front, and is emptied in one step.           *)
EXTENDS Sequences, Naturals

CONSTANTS Values
VARIABLES q, cap

vars == <<q, cap>>

Init == q = <<>> /\ cap = 0

Create == cap = 0 /\ q' = <<>> /\ cap' \in Nat \ {0}
PushBack(v) == Len(q) < cap /\ q' = Append(q, v) /\ UNCHANGED cap
PushFront(v) == Len(q) < cap /\ q' = <<v>> \o q /\ UNCHANGED cap
Pop == q # <<>> /\ q' = Tail(q) /\ UNCHANGED cap
Clear == q' = <<>> /\ UNCHANGED cap
Release == q' = <<>> /\ cap' = 0

Next == \/ Create
        \/ \E v \in Values : PushBack(v) \/ PushFront(v)
        \/ Pop \/ Clear \/ Release

Step == [Next]_vars
Spec == Init /\ [][Step]_vars
===============================================================================
