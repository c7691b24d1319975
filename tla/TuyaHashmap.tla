------------------------------ MODULE TuyaHashmap ------------------------------
(***************************************************************************)
(* The hash map of include/utilities/src/tuya_hashmap.c on the singly      *)
(* linked hash lists of include/utilities/include/tuya_hlist.h.            *)
(*                                                                         *)
(* A link is a cell that holds the next element: link[b] is the first      *)
(* pointer of bucket b, link[n] the next pointer of element n, and         *)
(* pprev[n] the cell that points to n.  elem[n] is NULL when the memory of *)
(* element n is not allocated.  trav is a caller's loop of                 *)
(* TUYA_HASHMAP_FOR_EACH_DATA, whose body may change the map; stay and     *)
(* seen are history: what the loop owes, what it has visited.              *)
(***************************************************************************)
EXTENDS Naturals, Sequences, FiniteSetsExt

CONSTANTS Keys, Data, Nodes, Buckets, NULL,
          Hash,               \* the bucket of each key
          RemoveAbsent        \* callers may remove what a filled bucket lacks

VARIABLES alive, link, pprev, elem, size, trav, out

vars == <<alive, link, pprev, elem, size, trav, out>>

Live == {n \in Nodes : elem[n] # NULL}
NoTrav == [iter |-> NULL, seen |-> {}, stay |-> {}]

hashmap_hash_int(k) == Hash[k]

(* The elements HLIST_FOR_EACH_ENTRY visits from the cell c on, in order.  *)
Chain(c) ==
    LET walk[i \in 0..Cardinality(Nodes)] ==
            IF i = 0 THEN <<>>
            ELSE LET s == walk[i - 1]
                     n == link[IF s = <<>> THEN c ELSE s[Len(s)]]
                 IN  IF Len(s) < i - 1 \/ n = NULL THEN s ELSE Append(s, n)
    IN  walk[Cardinality(Nodes)]

(* The first element after the cell c with the key k, or NULL. *)
FindFrom(c, k) ==
    LET s == Chain(c)
        hits == {i \in DOMAIN s : elem[s[i]].key = k}
    IN  IF hits = {} THEN NULL ELSE s[Min(hits)]

hash_find(k) == FindFrom(hashmap_hash_int(k), k)

NextSkipsTwins(curr) ==
    LET s == Chain(curr)
        hits == {i \in DOMAIN s : elem[s[i]].key = elem[curr].key}
    IN  IF hits = {} THEN NULL ELSE s[Max(hits)]

hash_find_next_element(curr) == FindFrom(curr, elem[curr].key)

RemoveAnyData(k, d) == FindFrom(hashmap_hash_int(k), k)

(* The element the loop of tuya_hashmap_remove leaves in tmp_element: the  *)
(* first match, and when nothing matches the last element of the bucket.   *)
TmpElement(k, d) ==
    LET s == Chain(hashmap_hash_int(k))
        hits == {i \in DOMAIN s : /\ elem[s[i]].key = k
                                  /\ d = NULL \/ elem[s[i]].data = d}
    IN  IF hits = {} THEN s[Len(s)] ELSE s[Min(hits)]

hlist_add_head(n, b) ==
    /\ link' = [link EXCEPT ![n] = link[b], ![b] = n]
    /\ pprev' = [m \in Nodes |-> IF m = n THEN b
                                 ELSE IF m = link[b] THEN n ELSE pprev[m]]

(* The removed element is freed at once: its own pointers are cleared,     *)
(* since memory that is not allocated has no contents.                     *)
hlist_del(n) ==
    /\ link' = [link EXCEPT ![pprev[n]] = link[n], ![n] = NULL]
    /\ pprev' = [m \in Nodes |-> IF m = n THEN NULL
                                 ELSE IF m = link[n] THEN pprev[n]
                                 ELSE pprev[m]]

Init == /\ alive = FALSE
        /\ link = [c \in Nodes \cup Buckets |-> NULL]
        /\ pprev = [n \in Nodes |-> NULL]
        /\ elem = [n \in Nodes |-> NULL]
        /\ size = 0
        /\ trav = NoTrav
        /\ out = <<"none">>

New ==
    /\ ~alive
    /\ alive' = TRUE
    /\ link' = [c \in Nodes \cup Buckets |-> IF c \in Buckets THEN NULL
                                             ELSE link[c]]
    /\ size' = 0
    /\ UNCHANGED <<pprev, elem, trav, out>>

Put(k, d) ==
    /\ alive
    /\ \/ /\ \E n \in Nodes \ Live :
                /\ elem' = [elem EXCEPT ![n] = [key |-> k, data |-> d]]
                /\ hlist_add_head(n, hashmap_hash_int(k))
          /\ size' = size + 1
          /\ out' = <<"put", k, d, "MAP_OK">>
       \/ /\ out' = <<"put", k, d, "MAP_OMEM">>
          /\ UNCHANGED <<elem, link, pprev, size>>
    /\ UNCHANGED <<alive, trav>>

Get(k) ==
    /\ alive
    /\ out' = LET n == hash_find(k)
              IN  IF n = NULL THEN <<"get", k, NULL, "MAP_MISSING">>
                  ELSE <<"get", k, elem[n].data, "MAP_OK">>
    /\ UNCHANGED <<alive, link, pprev, elem, size, trav>>

(* Callers do not remove the element their iterator stands on: the         *)
(* iterator is the address of its data.                                    *)
Remove(k, d) ==
    /\ alive
    /\ \/ RemoveAbsent
       \/ link[hashmap_hash_int(k)] = NULL
       \/ \E n \in Live : elem[n].key = k /\ d \in {NULL, elem[n].data}
    /\ IF link[hashmap_hash_int(k)] = NULL
       THEN /\ out' = <<"remove", k, d, "MAP_MISSING">>
            /\ UNCHANGED <<link, pprev, elem, size, trav>>
       ELSE LET n == TmpElement(k, d)
            IN  /\ n # trav.iter
                /\ hlist_del(n)
                /\ elem' = [elem EXCEPT ![n] = NULL]
                /\ size' = size - 1
                /\ trav' = [trav EXCEPT !.seen = @ \ {n}, !.stay = @ \ {n}]
                /\ out' = <<"remove", k, d, "MAP_OK">>
    /\ UNCHANGED alive

Length ==
    alive /\ out' = <<"length", size>>
          /\ UNCHANGED <<alive, link, pprev, elem, size, trav>>

(* The callers' rule of the header: all elements are removed first. *)
Free ==
    /\ alive /\ size = 0 /\ trav = NoTrav
    /\ alive' = FALSE
    /\ UNCHANGED <<link, pprev, elem, size, trav, out>>

TraversalFirst(k) ==
    /\ alive /\ trav = NoTrav
    /\ LET n == hash_find(k)
       IN  trav' = IF n = NULL THEN NoTrav
                   ELSE [iter |-> n, seen |-> {n},
                         stay |-> {m \in Live : elem[m].key = k}]
    /\ UNCHANGED <<alive, link, pprev, elem, size, out>>

TraversalNext ==
    /\ trav # NoTrav
    /\ LET n == hash_find_next_element(trav.iter)
       IN  trav' = IF n = NULL THEN NoTrav
                   ELSE [trav EXCEPT !.iter = n, !.seen = @ \cup {n}]
    /\ UNCHANGED <<alive, link, pprev, elem, size, out>>

Next == \/ New \/ Free \/ Length \/ TraversalNext
        \/ \E k \in Keys : \/ Get(k) \/ TraversalFirst(k)
                           \/ \E d \in Data : Put(k, d)
                           \/ \E d \in Data \cup {NULL} : Remove(k, d)

Spec == Init /\ [][Next]_vars

TypeOK ==
    /\ alive \in BOOLEAN
    /\ link \in [Nodes \cup Buckets -> Nodes \cup {NULL}]
    /\ pprev \in [Nodes -> Nodes \cup Buckets \cup {NULL}]
    /\ elem \in [Nodes -> [key : Keys, data : Data] \cup {NULL}]
    /\ size \in 0..Cardinality(Nodes)
    /\ trav \in [iter : Nodes \cup {NULL}, seen : SUBSET Nodes,
                 stay : SUBSET Nodes]

(* The pprev of every element in the map is the cell that points to it, so *)
(* that __tuya_hlist_del unlinks it, and only it, without a search.        *)
BackLinksRight ==
    alive => \A n \in Live : link[pprev[n]] = n

(* A loop of TUYA_HASHMAP_FOR_EACH_DATA visits no element twice, and when  *)
(* it ends it has visited every element of its key that was in the map the *)
(* whole time, also when its body puts and removes others.                 *)
TraversalExact ==
    [][trav # NoTrav =>
          /\ trav'.iter \notin {NULL, trav.iter} => trav'.iter \notin trav.seen
          /\ trav' = NoTrav => trav.stay \subseteq trav.seen]_vars

(* tuya_hashmap_remove removes an element of the key it was given, and of  *)
(* the data when data is not NULL; the header says it does.                *)
RemovesOnlyMatching ==
    [][\A n \in Live : elem'[n] = NULL =>
          /\ elem[n].key = out'[2]
          /\ out'[3] \in {NULL, elem[n].data}]_vars

(* The hash map is a map from keys to stacks of values: what every call    *)
(* answers is what the stacks say, whatever keys share a bucket.           *)
Stacks == INSTANCE MultiMap WITH
    values <- [k \in Keys |->
                 LET s == Chain(Hash[k])
                     own == SelectSeq(s, LAMBDA n : elem[n].key = k)
                 IN  [i \in DOMAIN own |-> elem[own[i]].data]]
ImplementsMultiMap == Stacks!Spec
===============================================================================
