------------------------------- MODULE TuyaList -------------------------------
(***************************************************************************)
(* The doubly linked circular lists of include/utilities/src/tuya_list.c.  *)
(* An operator takes the pointers of all nodes, a record of the functions  *)
(* next and prev, and returns them after the call, with the assignments in *)
(* the order of the code: nodes may be the same one (an empty list's head  *)
(* is its own neighbour), so the order matters.                            *)
(***************************************************************************)
EXTENDS Naturals, Sequences, FiniteSets

SetNext(l, n, m) == [l EXCEPT !.next[n] = m]
SetPrev(l, n, m) == [l EXCEPT !.prev[n] = m]

INIT_LIST_HEAD(l, h) == SetPrev(SetNext(l, h, h), h, h)

list_add(l, new, prev, next) ==
    SetNext(SetPrev(SetNext(SetPrev(l, next, new), new, next), new, prev),
            prev, new)

list_del(l, prev, next) == SetNext(SetPrev(l, next, prev), prev, next)

tuya_list_empty(l, h) == l.next[h] = h

tuya_list_add(l, n, h) == list_add(l, n, h, l.next[h])

tuya_list_add_tail(l, n, h) == list_add(l, n, l.prev[h], h)

(* The source head keeps its pointers into the nodes. *)
tuya_list_splice(l, list, h) ==
    IF tuya_list_empty(l, list) THEN l
    ELSE LET first == l.next[list]
             last == l.prev[list]
             at == l.next[h]
         IN  SetPrev(SetNext(SetNext(SetPrev(l, first, h), h, first),
                             last, at), at, last)

tuya_list_del(l, n) == list_del(l, l.prev[n], l.next[n])

tuya_list_del_init(l, n) == INIT_LIST_HEAD(tuya_list_del(l, n), n)

(* The nodes tuya_list_for_each visits from head h, in order; at most max, *)
(* so that the walk over damaged pointers ends.                            *)
Chain(l, h, max) ==
    LET walk[k \in 0..max] ==
            IF k = 0 THEN <<>>
            ELSE LET s == walk[k - 1]
                     at == IF s = <<>> THEN h ELSE s[Len(s)]
                 IN  IF Len(s) < k - 1 \/ l.next[at] = h THEN s
                     ELSE Append(s, l.next[at])
    IN  walk[max]
===============================================================================
