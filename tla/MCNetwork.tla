------------------------------ MODULE MCNetwork -------------------------------
(***************************************************************************)
(* Network status and Bluetooth for TLC.  A behaviour is in one of seven   *)
(* scenarios:                                                              *)
(*   wired   two wired interfaces, polled and asked                        *)
(*   wifi    the event thread of tkl_wifi_init, every ioctl succeeds       *)
(*   flaky   the same, ioctls may fail                                     *)
(*   sniffer the capture of all frames                                     *)
(*   mgnt    the capture of management frames; the socket's bind may fail  *)
(*   gap     Bluetooth advertising and one central; HCI commands may fail  *)
(*   gatt    Bluetooth services added twice, tables of 3 and 4 entries     *)
(***************************************************************************)
EXTENDS TklWifiEvents, TklWifiCapture, TklBleGap, TklBleGatt

CONSTANTS t1, s1, s2, c1, c2, c3

VARIABLES scenario,
          up, scan, wired_stat, wired_thread, told, changes, calls, fails

wired == <<up, scan, wired_stat, wired_thread, told, changes, calls, fails>>
all == <<scenario, wired, eventsVars, captureVars, gapVars, gattVars>>

(* Two services with three characteristics; a service added again under    *)
(* other characteristics; the same characteristic in two services.         *)
Service(u, cs) == [uuid |-> u, chars |-> cs]
Offered == {<<Service(s1, <<c1, c2>>), Service(s2, <<c3>>)>>,
            <<Service(s2, <<c3, c1>>)>>,
            <<Service(s1, <<c1>>), Service(s2, <<c1, c2>>)>>}

Wired == INSTANCE TklWired WITH
    Interfaces <- 2, MaxChanges <- 2, MaxCalls <- 2, MaxFails <- 1,
    last_stat <- wired_stat, thread <- wired_thread
Wifi == INSTANCE TklWifiEvents WITH ReadsMayFail <- FALSE
Mgnt == INSTANCE TklWifiCapture WITH Sniffer <- FALSE, BindMayFail <- TRUE

NoWired == Wired!Init /\ up = [i \in Wired!Ifs |-> FALSE]

NetworkInit ==
    /\ EventsInit /\ CaptureInit /\ GapInit /\ GattInit
    /\ \/ scenario = "wired" /\ Wired!Init
       \/ scenario \in {"wifi", "flaky", "sniffer", "mgnt", "gap", "gatt"} /\ NoWired

Only(s, others) == scenario = s /\ UNCHANGED <<scenario, others>>
OfWired == Only("wired", <<eventsVars, captureVars, gapVars, gattVars>>)
OfWifi == Only("wifi", <<wired, captureVars, gapVars, gattVars>>)
OfFlaky == Only("flaky", <<wired, captureVars, gapVars, gattVars>>)
OfSniff == Only("sniffer", <<wired, eventsVars, gapVars, gattVars>>)
OfMgnt == Only("mgnt", <<wired, eventsVars, gapVars, gattVars>>)
OfGap == Only("gap", <<wired, eventsVars, captureVars, gattVars>>)
OfGatt == Only("gatt", <<wired, eventsVars, captureVars, gapVars>>)

NetworkNext ==
    \/ OfWired /\ Wired!Next
    \/ OfWifi /\ Wifi!EventsNext
    \/ OfFlaky /\ EventsNext
    \/ OfSniff /\ CaptureNext
    \/ OfMgnt /\ Mgnt!CaptureNext
    \/ OfGap /\ GapNext
    \/ OfGatt /\ GattNext

(* The polling threads and the main loop run for ever, frames go on        *)
(* arriving, a call that has begun returns, and bluetoothd answers.  A     *)
(* behaviour stays in one scenario, so the fair actions of different       *)
(* scenarios can share a condition.                                        *)
Capture(t) == (OfSniff /\ Thread(t)) \/ (OfMgnt /\ Mgnt!Thread(t))

NetworkSpec ==
    /\ NetworkInit /\ [][NetworkNext]_all
    /\ WF_all(\/ OfWired /\ Wired!Thread
              \/ OfWifi /\ \E t \in EventThreads : Wifi!wifi_status_event_cb(t)
              \/ OfSniff /\ (JoinCall \/ JoinReturn)
              \/ OfMgnt /\ (Mgnt!JoinCall \/ Mgnt!JoinReturn)
              \/ OfGap /\ MainLoop)
    /\ WF_all((OfWired /\ Wired!Caller) \/ Capture(t1) \/ (OfGap /\ Daemon))
    /\ \A t \in Threads \ {t1} : WF_all(Capture(t))

In(s, P) == scenario = s => P

-------------------------------------------------------------------------------
(* TklWifiEvents: a poll that ends in "connected" has seen the access      *)
(* point, and each polling thread calls back at most once after a          *)
(* disconnect has returned.  TklWifiCapture: no more than one frame of a   *)
(* thread comes after a disable, and a session whose predecessor is over   *)
(* keeps its callback.  TklBleGap: once nothing is under way the last      *)
(* event says whether a central is connected.                              *)
EventsTruthful ==
    /\ EventsTypeOK /\ ConnectedWasSeen /\ AtMostOneLateEvent
    /\ CaptureTypeOK
    /\ In("sniffer", FewLateFrames /\ CleanSessionKept)
    /\ In("mgnt", Mgnt!FewLateFrames /\ Mgnt!CleanSessionKept)
    /\ GapTypeOK /\ CentralReported
    /\ GattTypeOK

(* TklWired: the thread's view of the link becomes right and stays right.  *)
(* TklWifiEvents: a link that stays up is reported in the end.             *)
(* TklWifiCapture: a capture disabled for good ends.                       *)
NetworkSettles ==
    /\ []Wired!TypeOK /\ Wired!ThreadCatchesUp
    /\ (scenario # "flaky" => ConnectionReported)
    /\ []<>(IF scenario = "sniffer" THEN Quiet ELSE Mgnt!Quiet)
===============================================================================
