------------------------------- MODULE ListSpec -------------------------------
(* What tuya_list promises: each list head stands for a sequence of nodes. *)
EXTENDS Sequences, Naturals

CONSTANTS Heads, Nodes
VARIABLES seqs,   \* the nodes of each head
          op      \* the last call

vars == <<seqs, op>>

Free(n) == \A h \in Heads : \A i \in DOMAIN seqs[h] : seqs[h][i] # n
Without(s, n) == SelectSeq(s, LAMBDA m : m # n)

Init == seqs = [h \in Heads |-> <<>>] /\ op = "none"

Add(n, h) ==
    /\ op' = "add" /\ Free(n)
    /\ seqs' = [seqs EXCEPT ![h] = <<n>> \o @]
AddTail(n, h) ==
    /\ op' = "add_tail" /\ Free(n)
    /\ seqs' = [seqs EXCEPT ![h] = Append(@, n)]
Del(n) ==
    /\ op' = "del" /\ ~Free(n)
    /\ seqs' = [h \in Heads |-> Without(seqs[h], n)]
Splice(from, to) ==
    /\ op' = "splice" /\ from # to
    /\ seqs' = [seqs EXCEPT ![from] = <<>>, ![to] = seqs[from] \o @]

Next == \/ \E n \in Nodes : \/ \E h \in Heads : Add(n, h) \/ AddTail(n, h)
                            \/ Del(n)
        \/ \E from, to \in Heads : Splice(from, to)

Step == [Next]_vars
Spec == Init /\ [][Step]_vars
===============================================================================
