------------------------------ MODULE TklWired ------------------------------
(***************************************************************************)
(* Link status of the wired interfaces (tkl_wired.c): a polling thread and *)
(* tkl_wired_set_status_cb, which both read the status of the interfaces   *)
(* one after the other and then call the application's callback.  Nothing  *)
(* is locked.  Interfaces other than the loopback are numbered from 1.     *)
(***************************************************************************)
EXTENDS Integers

CONSTANTS
    Interfaces,    \* number of interfaces
    MaxChanges,    \* bound: changes of an interface
    MaxCalls,      \* bound: calls of tkl_wired_set_status_cb
    MaxFails       \* bound: failing system calls

VARIABLES
    up,            \* external: interface -> IFF_UP is set
    scan,          \* actor -> its loop: next interface (0: none), status found
    last_stat,     \* the thread's last_stat
    thread,        \* wired_event_thread is set
    told,          \* the status of the last callback, "none" before the first
    changes, calls, fails

vars == <<up, scan, last_stat, thread, told, changes, calls, fails>>

Actors == {"thread", "caller"}
Ifs == 1..Interfaces
NoScan == [next |-> 0, stat |-> "DOWN"]

Init ==
    /\ up \in [Ifs -> BOOLEAN]
    /\ scan = [a \in Actors |-> NoScan]
    /\ last_stat = "none" /\ thread = FALSE /\ told = "none"
    /\ changes = 0 /\ calls = 0 /\ fails = 0

(* An interface is set up or down (external). *)
Change(i) ==
    /\ changes < MaxChanges /\ changes' = changes + 1
    /\ up' = [up EXCEPT ![i] = ~@]
    /\ UNCHANGED <<scan, last_stat, thread, told, calls, fails>>

Begin(a) == scan' = [scan EXCEPT ![a] = [next |-> 1, stat |-> "DOWN"]]

(* __tkl_wired_get_status_by_name: IFF_UP, with or without a cable.        *)
StatusByName(i) == IF up[i] THEN "UP" ELSE "DOWN"

(* The loop of tkl_wired_get_status: the first interface that is up ends   *)
(* it, one that cannot be asked is passed over.                            *)
Look(a) ==
    /\ scan[a].next \in Ifs
    /\ LET s == StatusByName(scan[a].next) IN
       \/ /\ scan' = [scan EXCEPT ![a] =
                [next |-> IF s = "UP" THEN Interfaces + 1 ELSE @.next + 1, stat |-> s]]
          /\ UNCHANGED fails
       \/ /\ fails < MaxFails /\ fails' = fails + 1
          /\ scan' = [scan EXCEPT ![a].next = @ + 1]
    /\ UNCHANGED <<up, last_stat, thread, told, changes, calls>>

Found(a) == scan[a].next = Interfaces + 1

-----------------------------------------------------------------------------
(* The thread: every three seconds a scan, and a callback on a change.     *)
(* When the interfaces cannot be listed the status is DOWN.                *)
ThreadBegin ==
    /\ thread /\ scan["thread"].next = 0
    /\ \/ Begin("thread") /\ UNCHANGED fails
       \/ /\ fails < MaxFails /\ fails' = fails + 1
          /\ scan' = [scan EXCEPT !["thread"] = [next |-> Interfaces + 1, stat |-> "DOWN"]]
    /\ UNCHANGED <<up, last_stat, thread, told, changes, calls>>

wifi_status_event_cb ==
    /\ Found("thread")
    /\ IF scan["thread"].stat # last_stat
       THEN told' = scan["thread"].stat /\ last_stat' = scan["thread"].stat
       ELSE UNCHANGED <<told, last_stat>>
    /\ scan' = [scan EXCEPT !["thread"] = NoScan]
    /\ UNCHANGED <<up, thread, changes, calls, fails>>

(* tkl_wired_set_status_cb: scan, store the callback, start the thread if  *)
(* there is none, and call the callback with what the scan found.          *)
SetBegin ==
    /\ calls < MaxCalls /\ calls' = calls + 1
    /\ scan["caller"].next = 0
    /\ Begin("caller")
    /\ UNCHANGED <<up, last_stat, thread, told, changes, fails>>

(* If pthread_create fails the call returns without a callback.            *)
SetStartsThread ==
    /\ Found("caller") /\ ~thread
    /\ \/ thread' = TRUE /\ UNCHANGED <<scan, fails>>
       \/ /\ fails < MaxFails /\ fails' = fails + 1
          /\ scan' = [scan EXCEPT !["caller"] = NoScan]
          /\ UNCHANGED thread
    /\ UNCHANGED <<up, last_stat, told, changes, calls>>

tkl_wired_set_status_cb ==
    /\ Found("caller") /\ thread
    /\ told' = scan["caller"].stat
    /\ scan' = [scan EXCEPT !["caller"] = NoScan]
    /\ UNCHANGED <<up, last_stat, thread, changes, calls, fails>>

Thread == ThreadBegin \/ Look("thread") \/ wifi_status_event_cb
Caller == Look("caller") \/ SetStartsThread \/ tkl_wired_set_status_cb

Next ==
    \/ \E i \in Ifs : Change(i)
    \/ SetBegin
    \/ Thread
    \/ Caller

Spec == Init /\ [][Next]_vars

-----------------------------------------------------------------------------
Link == IF \E i \in Ifs : up[i] THEN "UP" ELSE "DOWN"

(* A scan is under way only where there is an actor for it, and the thread *)
(* reports nothing before it exists.                                       *)
TypeOK ==
    /\ \A a \in Actors : scan[a].next \in 0..(Interfaces + 1)
    /\ ~thread => scan["thread"] = NoScan /\ last_stat = "none" /\ told = "none"

(* Once the interfaces stay as they are, the thread's own view of the link *)
(* becomes right and stays right, also after failed system calls and after *)
(* an interface changed behind the scan.  (There are at most MaxChanges    *)
(* changes, so in every behaviour the interfaces stay as they are in the   *)
(* end.)                                                                   *)
ThreadCatchesUp == <>[]thread => <>[](last_stat = Link)
=============================================================================
