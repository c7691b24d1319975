---------------------------- MODULE TklWifiCapture ----------------------------
(***************************************************************************)
(* Frame capture of tuyaos_adapter/src/tkl_wifi/tkl_wifi.c: a thread reads *)
(* frames from a raw socket and hands them to the application's callback.  *)
(* There are two of these with the same shape: the sniffer, whose thread   *)
(* detaches itself, tests the callback, clears it when it leaves and       *)
(* closes its socket; and the receiver of management frames, which does    *)
(* none of this.  Flag, callback and thread handle have no lock.           *)
(*                                                                         *)
(* A thread is a slot of Threads, free again once the thread is detached   *)
(* and over, or joined: as with pthread_t, a new thread may get the handle *)
(* of an old one.  Joining a thread that is gone is undefined: the join    *)
(* returns or the process crashes, and then it is started again.  Channel  *)
(* and up/down state of the interfaces are left out.                       *)
(***************************************************************************)
EXTENDS Naturals

CONSTANTS Sniffer,     \* TRUE: sniffer_process, FALSE: mgnt_process
          Callbacks,   \* the application's callbacks
          Threads,     \* bound: threads at a time
          BindMayFail  \* wifi_bind_rawsocket may fail

Null == "null"

VARIABLES cb, flag, handle,  \* s_tkl_wifi.snifffer_cb, snifffer_flag, snifffer
                             \* or mgnt_cb, mgnt_flag, mgnt
          th,          \* thread -> where it is
          detached,    \* thread -> it has detached itself
          target,      \* thread -> the callback it has loaded
          sock,        \* thread -> a raw socket it opened is still open
          user,        \* "idle", or where the application is in a disable
          mode,        \* mode of the interface
          clean,       \* history: the last enable found no thread and made one
          late         \* history: thread -> callbacks since disable returned

threads == <<th, detached, target, sock>>
captureVars == <<cb, flag, handle, threads, user, mode, clean, late>>

CaptureInit ==
    /\ cb = Null /\ flag = FALSE /\ handle = Null
    /\ th = [t \in Threads |-> "gone"]
    /\ detached = [t \in Threads |-> FALSE]
    /\ target = [t \in Threads |-> Null]
    /\ sock = [t \in Threads |-> FALSE]
    /\ user = "idle" /\ mode = "Managed"
    /\ clean = TRUE /\ late = [t \in Threads |-> 0]

(* The process has crashed: in a join, or calling through NULL. *)
Crashed == user \in {"badJoin", "nullCall"}

Live(t) == th[t] \notin {"gone", "ended"}

-------------------------------------------------------------------------------
(* tkl_wifi_set_sniffer(TRUE, c), tkl_wifi_register_recv_mgnt_callback     *)
(* (TRUE, c).  Nothing looks at the results of the ioctl and of            *)
(* pthread_create.                                                         *)
Enable(c) ==
    /\ user = "idle"
    /\ mode' \in {mode, "Monitor"}
    /\ cb' = c /\ flag' = TRUE
    /\ late' = [t \in Threads |-> 0]
    /\ \/ \E t \in Threads :
             /\ th[t] = "gone"
             /\ th' = [th EXCEPT ![t] = "start"]
             /\ detached' = [detached EXCEPT ![t] = FALSE]
             /\ handle' = t
             /\ clean' = \A u \in Threads : ~Live(u)
             /\ UNCHANGED <<target, sock>>
       \/ clean' = FALSE /\ UNCHANGED <<handle, threads>>
    /\ UNCHANGED user

(* tkl_wifi_set_sniffer(FALSE, _), tkl_wifi_register_recv_mgnt_callback    *)
(* (FALSE, _) up to pthread_join.                                          *)
Disable ==
    /\ user = "idle" /\ flag
    /\ flag' = FALSE /\ user' = "join"
    /\ UNCHANGED <<cb, handle, threads, mode, clean, late>>

(* The rest of a disable after pthread_join. *)
DisableRest ==
    /\ user' = "idle"
    /\ mode' \in IF Sniffer THEN {mode, "Managed"} ELSE {mode}
    /\ cb' = IF Sniffer THEN cb ELSE Null

(* pthread_join gives up at once on a detached thread, waits for another   *)
(* one, and is undefined for one that is gone.                             *)
JoinCall ==
    /\ user = "join"
    /\ IF handle = Null \/ th[handle] = "gone"
       THEN (user' = "badJoin" /\ UNCHANGED <<cb, mode>>) \/ DisableRest
       ELSE IF detached[handle] THEN DisableRest
       ELSE user' = "joining" /\ UNCHANGED <<cb, mode>>
    /\ UNCHANGED <<flag, handle, threads, clean, late>>

JoinReturn ==
    /\ user = "joining" /\ th[handle] = "ended"
    /\ th' = [th EXCEPT ![handle] = "gone"]
    /\ DisableRest
    /\ UNCHANGED <<flag, handle, detached, target, sock, clean, late>>

-------------------------------------------------------------------------------
(* sniffer_process, mgnt_process *)

Step(t, from, to) == th[t] = from /\ th' = [th EXCEPT ![t] = to]

(* How a thread is over: joinable until joined. *)
Over(t) == IF detached'[t] THEN "gone" ELSE "ended"

(* pthread_detach does nothing once a join waits for the thread. *)
ThreadDetach(t) ==
    /\ Sniffer /\ Step(t, "start", "open")
    /\ detached' = [detached EXCEPT ![t] = ~(user = "joining" /\ handle = t)]
    /\ UNCHANGED <<cb, flag, handle, target, sock, user, mode, clean, late>>

(* wifi_create_rawsocket and wifi_bind_rawsocket; a thread whose bind      *)
(* fails ends without closing the socket.                                  *)
ThreadOpen(t) ==
    /\ th[t] = (IF Sniffer THEN "open" ELSE "start")
    /\ UNCHANGED detached
    /\ \/ th' = [th EXCEPT ![t] = Over(t)] /\ UNCHANGED sock
       \/ /\ BindMayFail
          /\ th' = [th EXCEPT ![t] = Over(t)] /\ sock' = [sock EXCEPT ![t] = TRUE]
       \/ th' = [th EXCEPT ![t] = "test"] /\ sock' = [sock EXCEPT ![t] = TRUE]
    /\ UNCHANGED <<cb, flag, handle, target, user, mode, clean, late>>

(* The loop's condition. *)
GoesOn == flag /\ (Sniffer => cb # Null)

ThreadTest(t) ==
    /\ UNCHANGED detached
    /\ Step(t, "test", IF GoesOn THEN "recv" ELSE IF Sniffer THEN "exit" ELSE Over(t))
    /\ UNCHANGED <<cb, flag, handle, target, sock, user, mode, clean, late>>

(* A frame: one with no more than its radiotap header is skipped. *)
ThreadRecv(t) ==
    /\ Step(t, "recv", "test") \/ Step(t, "recv", "load")
    /\ UNCHANGED <<cb, flag, handle, detached, target, sock, user, mode,
                   clean, late>>

ThreadLoad(t) ==
    /\ Step(t, "load", "call")
    /\ target' = [target EXCEPT ![t] = cb]
    /\ UNCHANGED <<cb, flag, handle, detached, sock, user, mode, clean, late>>

CallRepeats(t) ==
    /\ th[t] = "call" /\ target[t] # Null
    /\ th' = [th EXCEPT ![t] = "recv"]
    /\ target' = [target EXCEPT ![t] = Null]
    /\ late' = [late EXCEPT ![t] = IF user = "idle" /\ ~flag THEN @ + 1 ELSE @]
    /\ UNCHANGED <<cb, flag, handle, detached, sock, user, mode, clean>>

(* The callback is called; a call through NULL ends the process. *)
ThreadCall(t) ==
    /\ Step(t, "call", "test")
    /\ target' = [target EXCEPT ![t] = Null]
    /\ late' = [late EXCEPT ![t] = IF user = "idle" /\ ~flag THEN @ + 1 ELSE @]
    /\ IF target[t] = Null THEN user' = "nullCall" ELSE UNCHANGED user
    /\ UNCHANGED <<cb, flag, handle, detached, sock, mode, clean>>

ThreadExit(t) ==
    /\ Step(t, "exit", "close")
    /\ cb' = Null
    /\ UNCHANGED <<flag, handle, detached, target, sock, user, mode, clean, late>>

ThreadClose(t) ==
    /\ UNCHANGED detached
    /\ Step(t, "close", Over(t))
    /\ sock' = [sock EXCEPT ![t] = FALSE]
    /\ UNCHANGED <<cb, flag, handle, target, user, mode, clean, late>>

Thread(t) ==
    /\ ~Crashed
    /\ \/ ThreadDetach(t) \/ ThreadOpen(t) \/ ThreadTest(t) \/ ThreadRecv(t)
       \/ ThreadLoad(t) \/ ThreadCall(t) \/ ThreadExit(t) \/ ThreadClose(t)

(* The process is started again. *)
Restart ==
    /\ Crashed
    /\ cb' = Null /\ flag' = FALSE /\ handle' = Null
    /\ th' = [t \in Threads |-> "gone"]
    /\ detached' = [t \in Threads |-> FALSE]
    /\ target' = [t \in Threads |-> Null]
    /\ sock' = [t \in Threads |-> FALSE]
    /\ user' = "idle"
    /\ clean' = TRUE /\ late' = [t \in Threads |-> 0]
    /\ UNCHANGED mode

-------------------------------------------------------------------------------
CaptureNext ==
    \/ \E c \in Callbacks : Enable(c)
    \/ Disable \/ JoinCall \/ JoinReturn
    \/ \E t \in Threads : Thread(t)
    \/ Restart

CaptureSpec == CaptureInit /\ [][CaptureNext]_captureVars

-------------------------------------------------------------------------------
(* Properties *)

(* Type invariant. *)
CaptureTypeOK ==
    /\ cb \in Callbacks \cup {Null} /\ flag \in BOOLEAN
    /\ handle \in Threads \cup {Null}
    /\ th \in [Threads -> {"gone", "start", "open", "test", "recv", "load", "call",
                           "exit", "close", "ended"}]
    /\ detached \in [Threads -> BOOLEAN]
    /\ target \in [Threads -> Callbacks \cup {Null}]
    /\ sock \in [Threads -> BOOLEAN]
    /\ user \in {"idle", "join", "joining", "badJoin", "nullCall"}
    /\ mode \in {"Managed", "Monitor"}
    /\ clean \in BOOLEAN /\ late \in [Threads -> Nat]

(* tkl_wifi_set_sniffer(FALSE) returns while its thread may still be in    *)
(* recvfrom, but each thread hands over at most one more frame before the  *)
(* next enable.  The receiver of management frames is joined: no frame at  *)
(* all comes after its disable, unless it was enabled over a live thread.  *)
FewLateFrames ==
    \A t \in Threads : late[t] <= IF ~Sniffer /\ clean THEN 0 ELSE 1

(* As long as each enable comes after the thread of the one before is      *)
(* over, no thread calls through NULL and none clears the callback of a    *)
(* session that is not its own; the receiver of management frames is then  *)
(* also never joined after it is gone, as the sniffer may be.              *)
CleanSessionKept ==
    clean => /\ user # "nullCall" /\ (~Sniffer => user # "badJoin")
             /\ flag => cb # Null
             /\ \A t, u \in Threads : Live(t) /\ Live(u) => t = u

(* The disable has returned and each thread is over, the sniffer's sockets *)
(* closed unless a bind failed; or the capture was enabled again.          *)
Quiet ==
    \/ flag \/ Crashed
    \/ /\ user = "idle"
       /\ \A t \in Threads : ~Live(t) /\ (Sniffer /\ ~BindMayFail => ~sock[t])
===============================================================================
