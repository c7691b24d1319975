--------------------------- MODULE TuyaSmartpointer ---------------------------
(***************************************************************************)
(* The reference counted data of include/utilities/src/tuya_smartpointer.c *)
(* shared by threads.  A thread holds references: those it was created     *)
(* with, those it got, those another thread handed over; it uses the       *)
(* pointer only while it holds one.  A get or a put reads the count and    *)
(* stores it again, under the mutex when the mutex exists.                 *)
(***************************************************************************)
EXTENDS Integers, Sequences, FiniteSetsExt

CONSTANTS Threads, MaxRefs,
          MalkValues,     \* the values of malk callers create with
          MutexMayFail    \* tkl_mutex_create_init may fail; it is not checked

VARIABLES sp,      \* "none", "live" or "freed": the block of SMARTPOINTER_T
          data,    \* "none", "live", "freed", "inside" (part of the block)
          mutex,   \* the mutex exists
          owner,   \* the thread that holds it, or NoOne
          rfc, malk,
          pc, tmp, \* a thread's step inside a call and the count it read
          hold,    \* history: the references each thread holds
          frees    \* history: the addresses given to tkl_system_free

vars == <<sp, data, mutex, owner, rfc, malk, pc, tmp, hold, frees>>
obj == <<sp, data, mutex, malk>>

NoOne == "no one"
Held == FoldSet(LAMBDA t, n : hold[t] + n, 0, Threads)
AllIdle == \A t \in Threads : pc[t] = "idle"

Init == /\ sp = "none" /\ data = "none" /\ mutex = FALSE /\ owner = NoOne
        /\ rfc = 0 /\ malk = FALSE
        /\ pc = [t \in Threads |-> "idle"] /\ tmp = [t \in Threads |-> 0]
        /\ hold = [t \in Threads |-> 0]
        /\ frees = <<>>

(* sp_data->malk keeps the FALSE of memset: the parameter is not stored. *)
Create(t, m, cnt, ok) ==
    /\ sp # "live" /\ AllIdle /\ Held = 0
    /\ ok \/ MutexMayFail
    /\ sp' = "live"
    /\ data' = IF m THEN "inside" ELSE "live"
    /\ mutex' = ok
    /\ malk' = FALSE
    /\ rfc' = cnt
    /\ hold' = [hold EXCEPT ![t] = cnt]
    /\ frees' = <<>>
    /\ UNCHANGED <<owner, pc, tmp>>

(* The callers hand a reference to another thread. *)
HandOver(t, u) ==
    /\ t # u /\ pc[t] = "idle" /\ hold[t] > 0
    /\ hold' = [hold EXCEPT ![t] = @ - 1, ![u] = @ + 1]
    /\ UNCHANGED <<obj, owner, rfc, pc, tmp, frees>>

Lock(t) == /\ mutex => owner = NoOne
           /\ owner' = IF mutex THEN t ELSE owner
Unlock(t) == owner' = IF mutex THEN NoOne ELSE owner

GetLock(t) ==
    /\ pc[t] = "idle" /\ hold[t] > 0
    /\ Held + Cardinality({u \in Threads : pc[u] = "get"}) < MaxRefs
    /\ Lock(t)
    /\ pc' = [pc EXCEPT ![t] = "get"] /\ tmp' = [tmp EXCEPT ![t] = rfc]
    /\ UNCHANGED <<obj, rfc, hold, frees>>

GetUnlock(t) ==
    /\ pc[t] = "get"
    /\ rfc' = tmp[t] + 1
    /\ Unlock(t)
    /\ pc' = [pc EXCEPT ![t] = "idle"] /\ tmp' = [tmp EXCEPT ![t] = 0]
    /\ hold' = [hold EXCEPT ![t] = @ + 1]
    /\ UNCHANGED <<obj, frees>>

PutLock(t) ==
    /\ pc[t] = "idle" /\ hold[t] > 0
    /\ Lock(t)
    /\ pc' = [pc EXCEPT ![t] = "put"] /\ tmp' = [tmp EXCEPT ![t] = rfc]
    /\ UNCHANGED <<obj, rfc, hold, frees>>

PutUnlock(t) ==
    /\ pc[t] = "put"
    /\ rfc' = tmp[t] - 1
    /\ Unlock(t)
    /\ pc' = [pc EXCEPT ![t] = "test"] /\ tmp' = [tmp EXCEPT ![t] = rfc']
    /\ hold' = [hold EXCEPT ![t] = @ - 1]
    /\ UNCHANGED <<obj, frees>>

(* SP_RELEASE_LOCK and the frees of put and del. *)
Release ==
    /\ frees' = (IF malk THEN frees ELSE Append(frees, data))
                \o <<sp>>
    /\ data' = "freed" /\ sp' = "freed" /\ mutex' = FALSE

TestSharedCount(t) ==
    /\ pc[t] = "test"
    /\ IF rfc = 0 THEN Release ELSE UNCHANGED <<sp, data, mutex, frees>>
    /\ pc' = [pc EXCEPT ![t] = "idle"] /\ tmp' = [tmp EXCEPT ![t] = 0]
    /\ UNCHANGED <<owner, rfc, malk, hold>>

PutTest(t) ==
    /\ pc[t] = "test"
    /\ IF tmp[t] = 0 THEN Release ELSE UNCHANGED <<sp, data, mutex, frees>>
    /\ pc' = [pc EXCEPT ![t] = "idle"] /\ tmp' = [tmp EXCEPT ![t] = 0]
    /\ UNCHANGED <<owner, rfc, malk, hold>>

(* The only holder deletes the data, whatever the count. *)
Del(t) ==
    /\ AllIdle /\ hold[t] > 0 /\ hold[t] = Held
    /\ Release
    /\ hold' = [hold EXCEPT ![t] = 0]
    /\ UNCHANGED <<owner, rfc, malk, pc, tmp>>

Next == \E t \in Threads :
          \/ \E m \in MalkValues, cnt \in 1..MaxRefs, ok \in BOOLEAN :
                Create(t, m, cnt, ok)
          \/ \E u \in Threads : HandOver(t, u)
          \/ GetLock(t) \/ GetUnlock(t)
          \/ PutLock(t) \/ PutUnlock(t) \/ PutTest(t) \/ Del(t)

Spec == Init /\ [][Next]_vars

TypeOK ==
    /\ sp \in {"none", "live", "freed"}
    /\ data \in {"none", "live", "freed", "inside"}
    /\ mutex \in BOOLEAN /\ owner \in Threads \cup {NoOne}
    /\ rfc \in 0..MaxRefs /\ malk \in BOOLEAN
    /\ pc \in [Threads -> {"idle", "get", "put", "test"}]
    /\ tmp \in [Threads -> 0..MaxRefs]
    /\ hold \in [Threads -> 0..MaxRefs]

(* While a thread holds a reference, or waits inside put to release it, the *)
(* block has not been freed.                                                *)
HeldIsLive == \A t \in Threads : hold[t] > 0 => sp = "live"

(* The block and its data are freed once: of the threads whose puts race,   *)
(* one alone sees the count reach 0.  (Data that lies inside the block is   *)
(* given to free as well.)                                                  *)
FreedOnce == frees \in {<<>>, <<"live", "live">>, <<"inside", "live">>}

(* The reference data is released when the reference is 0 (the note of      *)
(* tuya_smartpointer_put): once no thread holds a reference and no call is  *)
(* running, the block is no longer allocated.                               *)
NoLeak == AllIdle /\ Held = 0 => sp # "live"
===============================================================================
