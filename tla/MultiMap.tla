------------------------------- MODULE MultiMap -------------------------------
(* What tuya_hashmap promises: a map from keys to the stack of values put   *)
(* under each.  out is the last call with its answer.                       *)
EXTENDS Naturals, Sequences, FiniteSetsExt

CONSTANTS Keys, Data, NULL
VARIABLES alive, values, out

Total == FoldSet(LAMBDA k, n : Len(values[k]) + n, 0, Keys)
Matches(k, d) ==
    {i \in DOMAIN values[k] : d = NULL \/ values[k][i] = d}
RemoveAt(s, i) == SubSeq(s, 1, i - 1) \o SubSeq(s, i + 1, Len(s))

Init == /\ alive = FALSE
        /\ values = [k \in Keys |-> <<>>]
        /\ out = <<"none">>

New == ~alive /\ alive' = TRUE /\ UNCHANGED <<values, out>>
Free == alive /\ alive' = FALSE /\ Total = 0 /\ UNCHANGED <<values, out>>

Put(k, d) ==
    /\ alive /\ UNCHANGED alive
    /\ \/ /\ out' = <<"put", k, d, "MAP_OK">>
          /\ values' = [values EXCEPT ![k] = <<d>> \o @]
       \/ out' = <<"put", k, d, "MAP_OMEM">> /\ UNCHANGED values

Get(k) ==
    /\ alive /\ UNCHANGED alive
    /\ \/ \E d \in Data : /\ out' = <<"get", k, d, "MAP_OK">>
                          /\ values[k] # <<>> /\ Head(values[k]) = d
       \/ out' = <<"get", k, NULL, "MAP_MISSING">> /\ values[k] = <<>>
    /\ UNCHANGED values

Remove(k, d) ==
    /\ alive /\ UNCHANGED alive
    /\ \/ /\ out' = <<"remove", k, d, "MAP_OK">>
          /\ Matches(k, d) # {}
          /\ values' = [values EXCEPT ![k] = RemoveAt(@, Min(Matches(k, d)))]
       \/ /\ out' = <<"remove", k, d, "MAP_MISSING">>
          /\ Matches(k, d) = {}
          /\ UNCHANGED values

Length ==
    /\ alive /\ UNCHANGED alive
    /\ out'[1] = "length"
    /\ out' = <<"length", Total>>
    /\ UNCHANGED values

Next == \/ New \/ Free \/ Length
        \/ \E k \in Keys : \/ Get(k)
                           \/ \E d \in Data : Put(k, d)
                           \/ \E d \in Data \cup {NULL} : Remove(k, d)

Step == [Next]_<<alive, values, out>>
Spec == Init /\ [][Step]_<<alive, values, out>>
===============================================================================
