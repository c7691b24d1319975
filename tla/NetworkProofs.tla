----------------------------- MODULE NetworkProofs -----------------------------
(***************************************************************************)
(* Wi-Fi and Bluetooth advertising for any number of threads, callbacks    *)
(* and configurations: status events are true and few come late, few       *)
(* captured frames come late, a session that found no thread keeps its     *)
(* callback, no DHCP server is left beside an access point of another      *)
(* configuration, the device advertises only when it was asked to, and a   *)
(* central that is connected has been reported.                            *)
(***************************************************************************)
EXTENDS TklWifiEvents, TklWifiCapture, TklWifiAp, TklBleGap, TLAPS

-------------------------------------------------------------------------------
(* Wi-Fi status events. *)

(* A thread that was late waits with the flag cleared. *)
LateWaits ==
    \A t \in EventThreads : late_events[t] > 0 =>
        late_events[t] = 1 /\ ~sta_conn_flag /\ pc[t] = "wait"

EventsInv == EventsTypeOK /\ ConnectedWasSeen /\ LateWaits

(* What the application and the interface do. *)
LEMMA LinkStep ==
    ASSUME EventsInv,
           \/ tkl_wifi_init \/ tkl_wifi_station_connect \/ tkl_wifi_station_fast_connect
           \/ tkl_wifi_station_disconnect \/ DisconnectReturns \/ LinkChanges
    PROVE  EventsInv'
<1> USE DEF EventsInv, EventsTypeOK, ConnectedWasSeen, LateWaits, pollVars, linkVars
<1>1. CASE tkl_wifi_init
  BY <1>1 DEF tkl_wifi_init
<1>2. CASE tkl_wifi_station_connect
  <2>1. EventsTypeOK'
    <3>1. 0 \in Nat
      OBVIOUS
    <3> QED
      BY Zenon, <1>2, <3>1 DEF tkl_wifi_station_connect
  <2>2. /\ pc' = pc /\ stat' = stat /\ ap_mac' = ap_mac
        /\ \A t \in EventThreads : late_events'[t] = 0
    BY <1>2 DEF tkl_wifi_station_connect
  <2> QED
    BY <2>1, <2>2
<1>3. CASE tkl_wifi_station_fast_connect
  BY Zenon, <1>3 DEF tkl_wifi_station_fast_connect
<1>4. CASE tkl_wifi_station_disconnect
  BY Zenon, <1>4 DEF tkl_wifi_station_disconnect
<1>5. CASE DisconnectReturns
  BY Zenon, <1>5 DEF DisconnectReturns
<1>6. CASE LinkChanges
  BY Zenon, <1>6 DEF LinkChanges
<1> QED
  BY Zenon, <1>1, <1>2, <1>3, <1>4, <1>5, <1>6

(* A poll, read by read. *)
LEMMA PollStep ==
    ASSUME EventsInv, NEW t \in EventThreads, wifi_status_event_cb(t)
    PROVE  EventsInv'
<1> USE DEF EventsInv, EventsTypeOK, ConnectedWasSeen, LateWaits, pollVars, linkVars
<1>1. CASE ThreadCheckFlag(t)
  BY <1>1 DEF ThreadCheckFlag
<1>2. CASE StatusMode(t)
  BY <1>2 DEF StatusMode
<1>3. CASE StatusBssid(t)
  <2>1. PICK mac \in BOOLEAN : ap_mac' = [ap_mac EXCEPT ![t] = mac]
    BY Zenon, <1>3 DEF StatusBssid
  <2> QED
    BY <1>3, <2>1 DEF StatusBssid
<1>4. CASE StatusIp(t)
  BY <1>4 DEF StatusIp
<1>5. CASE StatusEssid(t)
  BY <1>5 DEF StatusEssid, Connected
<1>6. CASE ThreadReport(t)
  BY <1>6 DEF ThreadReport, Report, Event, Connected
<1> QED
  BY Zenon, <1>1, <1>2, <1>3, <1>4, <1>5, <1>6 DEF wifi_status_event_cb

(* EventsInv is inductive: every step of a thread, a call or the link keeps it. *)
LEMMA EventsInductive ==
    (EventsInit => EventsInv) /\ (EventsInv /\ [EventsNext]_eventsVars => EventsInv')
<1>1. ASSUME EventsInit PROVE EventsInv
  <2>1. EventsTypeOK
    <3>1. 0 \in Nat /\ {FALSE} \subseteq BOOLEAN
      OBVIOUS
    <3> QED
      BY Zenon, <1>1, <3>1 DEF EventsInit, EventsTypeOK
  <2>2. \A t \in EventThreads : pc[t] = "none" /\ late_events[t] = 0
    BY <1>1 DEF EventsInit
  <2> QED
    BY <2>1, <2>2 DEF EventsInv, ConnectedWasSeen, LateWaits
<1>2. ASSUME EventsInv, [EventsNext]_eventsVars PROVE EventsInv'
  <2>1. CASE UNCHANGED eventsVars
    BY Zenon, <1>2, <2>1 DEF eventsVars, pollVars, linkVars, EventsInv, EventsTypeOK,
       ConnectedWasSeen, LateWaits
  <2> QED
    BY <1>2, <2>1, LinkStep, PollStep DEF EventsNext
<1> QED
  BY <1>1, <1>2

(* A poll that ends in "connected" has seen the access point. *)
THEOREM WifiConnectedWasSeen == EventsSpec => []ConnectedWasSeen
  BY EventsInductive, PTL DEF EventsSpec, EventsInv

(* Each thread reports at most once after a disconnect has returned. *)
THEOREM WifiAtMostOneLateEvent == EventsSpec => []AtMostOneLateEvent
<1>1. EventsInv => AtMostOneLateEvent
  <2> SUFFICES ASSUME EventsInv, NEW t \in EventThreads PROVE late_events[t] <= 1
    BY DEF AtMostOneLateEvent
  <2>1. late_events[t] \in Nat /\ (late_events[t] > 0 => late_events[t] = 1)
    BY Zenon DEF EventsInv, EventsTypeOK, LateWaits
  <2> QED
    BY <2>1
<1> QED
  BY <1>1, EventsInductive, PTL DEF EventsSpec

-------------------------------------------------------------------------------
(* Frame capture. *)

(* NULL is neither a thread nor a callback. *)
CaptureConstants ==
    /\ Null \notin Threads /\ Null \notin Callbacks
    /\ Sniffer \in BOOLEAN /\ BindMayFail \in BOOLEAN

(* A thread that was late is on its way out, until the next enable. *)
LateLeaves ==
    \A t \in Threads : late[t] > 0 =>
        late[t] = 1 /\ ~flag /\ th[t] \in {"test", "exit", "close", "gone", "ended"}

(* Steps only the sniffer takes, and where the application may be. *)
CaptureShape ==
    /\ \A t \in Threads :
          ~Sniffer => ~detached[t] /\ th[t] \notin {"open", "exit", "close"}
    /\ user \in {"join", "joining"} => ~flag
    /\ user = "joining" => handle \in Threads

(* In a clean session a thread meets a callback wherever it needs one. *)
OwnSession ==
    /\ user # "nullCall"
    /\ flag => cb # Null
    /\ \A t, u \in Threads : Live(t) /\ Live(u) => t = u
    /\ \A t \in Threads : /\ th[t] \in {"exit", "close"} => ~flag
                          /\ th[t] \in {"recv", "load"} => cb # Null
                          /\ th[t] = "call" => target[t] # Null

(* The receiver's handle is that of its thread until the join is over. *)
Joinable ==
    /\ user # "badJoin"
    /\ \A t \in Threads : late[t] = 0 /\ (Live(t) => handle = t /\ cb # Null)
    /\ user = "idle" /\ ~flag => \A t \in Threads : ~Live(t)
    /\ flag \/ user \in {"join", "joining"} => handle \in Threads /\ th[handle] # "gone"

CaptureInv ==
    /\ CaptureTypeOK /\ LateLeaves /\ CaptureShape
    /\ clean => OwnSession
    /\ clean /\ ~Sniffer => Joinable

-------------------------------------------------------------------------------
(* An enable forgets what was late, and is clean only without a thread. *)
LEMMA EnableStep ==
    ASSUME CaptureConstants, CaptureInv, NEW c \in Callbacks, Enable(c)
    PROVE  CaptureInv'
<1> USE DEF CaptureConstants, CaptureInv, Enable, Live
<1>1. CaptureTypeOK'
  BY Zenon DEF CaptureTypeOK, threads
<1>2. LateLeaves'
  BY DEF LateLeaves
<1>3. CaptureShape'
  BY Zenon DEF CaptureShape, CaptureTypeOK, threads
<1>4. clean' => OwnSession'
  BY DEF OwnSession, CaptureTypeOK
<1>5. clean' /\ ~Sniffer => Joinable'
  BY Zenon DEF Joinable, CaptureTypeOK
<1> QED
  BY <1>1, <1>2, <1>3, <1>4, <1>5

(* A disable and its join: of a clean receiver the thread is over then. *)
LEMMA DisableStep ==
    ASSUME CaptureConstants, CaptureInv, Disable \/ JoinCall \/ JoinReturn
    PROVE  CaptureInv'
<1> USE DEF CaptureConstants, CaptureInv, Live
<1>1. CASE Disable
  <2> USE <1>1 DEF Disable, threads
  <2>1. CaptureTypeOK' /\ LateLeaves' /\ CaptureShape'
    BY Zenon DEF CaptureTypeOK, LateLeaves, CaptureShape
  <2>2. clean' => OwnSession'
    BY Zenon DEF OwnSession
  <2>3. clean' /\ ~Sniffer => Joinable'
    BY Zenon DEF Joinable
  <2> QED
    BY Zenon, <2>1, <2>2, <2>3
<1>2. CASE JoinCall
  <2> USE <1>2 DEF JoinCall, DisableRest, threads
  <2>1. CaptureTypeOK'
    BY Zenon DEF CaptureTypeOK
  <2>2. LateLeaves' /\ CaptureShape'
    BY Zenon DEF LateLeaves, CaptureShape, CaptureTypeOK
  <2>3. clean' => OwnSession'
    BY Zenon DEF OwnSession, CaptureShape, Joinable, CaptureTypeOK
  <2>4. clean' /\ ~Sniffer => Joinable'
    BY Zenon DEF Joinable, CaptureShape, CaptureTypeOK
  <2> QED
    BY Zenon, <2>1, <2>2, <2>3, <2>4
<1>3. CASE JoinReturn
  <2> USE <1>3 DEF JoinReturn, DisableRest
  <2>1. CaptureTypeOK'
    BY Zenon DEF CaptureTypeOK, CaptureShape
  <2>2. LateLeaves' /\ CaptureShape'
    BY Zenon DEF LateLeaves, CaptureShape, CaptureTypeOK
  <2>3. clean' => OwnSession'
    BY Zenon DEF OwnSession, CaptureShape, Joinable, CaptureTypeOK
  <2>4. clean' /\ ~Sniffer => Joinable'
    BY Zenon DEF Joinable, CaptureShape, CaptureTypeOK
  <2> QED
    BY Zenon, <2>1, <2>2, <2>3, <2>4
<1> QED
  BY <1>1, <1>2, <1>3

(* A thread at work: no other one is there in a clean session. *)
LEMMA ThreadStep ==
    ASSUME CaptureConstants, CaptureInv, NEW t \in Threads, Thread(t)
    PROVE  CaptureInv'
<1> USE DEF CaptureConstants, CaptureInv, Live
<1>1. CASE ThreadDetach(t)
  <2> USE <1>1 DEF ThreadDetach, Step
  <2>1. CaptureTypeOK'
    BY Zenon DEF CaptureTypeOK
  <2>2. LateLeaves' /\ CaptureShape'
    BY Zenon DEF LateLeaves, CaptureShape, CaptureTypeOK
  <2>3. clean' => OwnSession'
    BY Zenon DEF OwnSession, CaptureShape, Joinable, CaptureTypeOK
  <2>4. clean' /\ ~Sniffer => Joinable'
    BY Zenon DEF Joinable, OwnSession, CaptureShape, CaptureTypeOK
  <2> QED
    BY Zenon, <2>1, <2>2, <2>3, <2>4
<1>2. CASE ThreadOpen(t)
  <2> USE <1>2 DEF ThreadOpen, Over
  <2>1. CaptureTypeOK'
    BY Zenon DEF CaptureTypeOK
  <2>2. LateLeaves' /\ CaptureShape'
    BY DEF LateLeaves, CaptureShape, CaptureTypeOK
  <2>3. clean' => OwnSession'
    BY DEF OwnSession, CaptureShape, Joinable, CaptureTypeOK
  <2>4. clean' /\ ~Sniffer => Joinable'
    BY Zenon DEF Joinable, OwnSession, CaptureShape, CaptureTypeOK
  <2> QED
    BY Zenon, <2>1, <2>2, <2>3, <2>4
<1>3. CASE ThreadTest(t)
  <2> USE <1>3 DEF ThreadTest, Step, Over, GoesOn
  <2>1. CaptureTypeOK'
    BY Zenon DEF CaptureTypeOK
  <2>2. LateLeaves' /\ CaptureShape'
    BY Zenon DEF LateLeaves, CaptureShape, CaptureTypeOK
  <2>3. clean' => OwnSession'
    BY Zenon DEF OwnSession, CaptureShape, Joinable, CaptureTypeOK
  <2>4. clean' /\ ~Sniffer => Joinable'
    BY Zenon DEF Joinable, OwnSession, CaptureShape, CaptureTypeOK
  <2> QED
    BY Zenon, <2>1, <2>2, <2>3, <2>4
<1>4. CASE ThreadRecv(t)
  <2> USE <1>4 DEF ThreadRecv, Step
  <2>1. CaptureTypeOK'
    BY DEF CaptureTypeOK
  <2>2. LateLeaves' /\ CaptureShape'
    BY Zenon DEF LateLeaves, CaptureShape, CaptureTypeOK
  <2>3. clean' => OwnSession'
    BY DEF OwnSession, CaptureShape, Joinable, CaptureTypeOK
  <2>4. clean' /\ ~Sniffer => Joinable'
    BY Zenon DEF Joinable, OwnSession, CaptureShape, CaptureTypeOK
  <2> QED
    BY <2>1, <2>2, <2>3, <2>4
<1>5. CASE ThreadLoad(t)
  <2> USE <1>5 DEF ThreadLoad, Step
  <2>1. CaptureTypeOK'
    BY DEF CaptureTypeOK
  <2>2. LateLeaves' /\ CaptureShape'
    BY Zenon DEF LateLeaves, CaptureShape, CaptureTypeOK
  <2>3. clean' => OwnSession'
    BY Zenon DEF OwnSession, CaptureShape, Joinable, CaptureTypeOK
  <2>4. clean' /\ ~Sniffer => Joinable'
    BY Zenon DEF Joinable, OwnSession, CaptureShape, CaptureTypeOK
  <2> QED
    BY Zenon, <2>1, <2>2, <2>3, <2>4
<1>6. CASE ThreadCall(t)
  <2> USE <1>6 DEF ThreadCall, Step
  <2>1. CaptureTypeOK'
    BY DEF CaptureTypeOK
  <2>2. LateLeaves' /\ CaptureShape'
    BY DEF LateLeaves, CaptureShape, CaptureTypeOK
  <2>3. clean' => OwnSession'
    BY Zenon DEF OwnSession, CaptureShape, Joinable, CaptureTypeOK
  <2>4. clean' /\ ~Sniffer => Joinable'
    BY Zenon DEF Joinable, OwnSession, CaptureShape, CaptureTypeOK
  <2> QED
    BY Zenon, <2>1, <2>2, <2>3, <2>4
<1>7. CASE ThreadExit(t)
  <2> USE <1>7 DEF ThreadExit, Step
  <2>1. CaptureTypeOK'
    BY Zenon DEF CaptureTypeOK
  <2>2. LateLeaves' /\ CaptureShape'
    BY Zenon DEF LateLeaves, CaptureShape, CaptureTypeOK
  <2>3. clean' => OwnSession'
    BY Zenon DEF OwnSession, CaptureShape, Joinable, CaptureTypeOK
  <2>4. clean' /\ ~Sniffer => Joinable'
    BY Zenon DEF Joinable, OwnSession, CaptureShape, CaptureTypeOK
  <2> QED
    BY Zenon, <2>1, <2>2, <2>3, <2>4
<1>8. CASE ThreadClose(t)
  <2> USE <1>8 DEF ThreadClose, Step, Over
  <2>1. CaptureTypeOK'
    BY DEF CaptureTypeOK
  <2>2. LateLeaves' /\ CaptureShape'
    BY Zenon DEF LateLeaves, CaptureShape, CaptureTypeOK
  <2>3. clean' => OwnSession'
    BY DEF OwnSession, CaptureShape, Joinable, CaptureTypeOK
  <2>4. clean' /\ ~Sniffer => Joinable'
    BY Zenon DEF Joinable, OwnSession, CaptureShape, CaptureTypeOK
  <2> QED
    BY Zenon, <2>1, <2>2, <2>3, <2>4
<1> QED
  BY Zenon, <1>1, <1>2, <1>3, <1>4, <1>5, <1>6, <1>7, <1>8 DEF Thread

(* The invariant is inductive. *)
LEMMA CaptureInductive ==
    ASSUME CaptureConstants
    PROVE  /\ CaptureInit => CaptureInv
           /\ CaptureInv /\ [CaptureNext]_captureVars => CaptureInv'
<1>1. ASSUME CaptureInit PROVE CaptureInv
  <2>1. CaptureTypeOK
    BY Zenon, <1>1 DEF CaptureInit, CaptureTypeOK
  <2>2. /\ ~flag /\ user = "idle"
        /\ \A t \in Threads : th[t] = "gone" /\ ~detached[t] /\ late[t] = 0
    BY <1>1 DEF CaptureInit
  <2> QED
    BY <2>1, <2>2 DEF CaptureInv, LateLeaves, CaptureShape, OwnSession, Joinable, Live
<1>2. ASSUME CaptureInv, [CaptureNext]_captureVars PROVE CaptureInv'
  <2>1. CASE \E c \in Callbacks : Enable(c)
    BY <1>2, <2>1, EnableStep
  <2>2. CASE Disable \/ JoinCall \/ JoinReturn
    BY <1>2, <2>2, DisableStep
  <2>3. CASE \E t \in Threads : Thread(t)
    BY <1>2, <2>3, ThreadStep
  <2>4. CASE Restart
    <3>1. CaptureTypeOK'
      BY Zenon, <1>2, <2>4 DEF Restart, CaptureInv, CaptureTypeOK
    <3>2. /\ ~flag' /\ user' = "idle"
          /\ \A t \in Threads : th'[t] = "gone" /\ ~detached'[t] /\ late'[t] = 0
      BY <2>4 DEF Restart
    <3> QED
      BY <3>1, <3>2 DEF CaptureInv, LateLeaves, CaptureShape, OwnSession, Joinable, Live
  <2>5. CASE UNCHANGED captureVars
    BY Zenon, <1>2, <2>5 DEF captureVars, threads, CaptureInv, CaptureTypeOK, LateLeaves,
                      CaptureShape, OwnSession, Joinable, Live
  <2> QED
    BY <1>2, <2>1, <2>2, <2>3, <2>4, <2>5 DEF CaptureNext
<1> QED
  BY <1>1, <1>2

(* A disable of the sniffer is followed by at most one frame of each       *)
(* thread, one of the receiver of management frames by none, for any       *)
(* number of threads left over by earlier sessions.                        *)
THEOREM CaptureFewLateFrames ==
    ASSUME CaptureConstants
    PROVE  CaptureSpec => []FewLateFrames
<1>1. CaptureInv => FewLateFrames
  BY DEF CaptureConstants, CaptureInv, CaptureTypeOK, LateLeaves, Joinable, FewLateFrames
<1> QED
  BY <1>1, CaptureInductive, PTL DEF CaptureSpec

(* A session enabled after the threads of earlier ones were over keeps its *)
(* callback and its thread, and never calls through NULL.                  *)
THEOREM CaptureCleanSessionKept ==
    ASSUME CaptureConstants
    PROVE  CaptureSpec => []CleanSessionKept
<1>1. CaptureInv => CleanSessionKept
  BY Zenon DEF CaptureConstants, CaptureInv, OwnSession, Joinable, CleanSessionKept
<1> QED
  BY <1>1, CaptureInductive, PTL DEF CaptureSpec

-------------------------------------------------------------------------------
(* The access point.  Once no kill came too early,     *)
(* nothing runs between the kill and the start of hostapd, and from then   *)
(* on only hostapd, with the configuration of this start.                  *)
Stages ==
    /\ \A p \in procs : p.prog \in {"hostapd", "udhcpd"}
    /\ ap_missed \in BOOLEAN
    /\ ServerMatches
    /\ ap_at \in {"hostapd_conf", "hostapd"} /\ ~ap_missed => procs = {}
    /\ ap_at = "hostapd" => hostapd_conf \in {cfg, Blank}
    /\ ap_at \in {"ip", "udhcpd_conf", "udhcpd"} /\ ~ap_missed =>
          /\ hostapd_conf \in {cfg, Blank}
          /\ \A p \in procs : /\ p.prog = "hostapd"
                              /\ ConfOf(p) = cfg \/ hostapd_conf = Blank
    /\ ap_at = "udhcpd" => udhcpd_conf = cfg

(* When both programs were killed and none was too young, none is left;    *)
(* when one kind was killed, what was missed before stays so.              *)
LEMMA KillLeaves ==
    ASSUME NEW progs, Stages, Kill(progs)
    PROVE  /\ procs' \subseteq procs /\ ap_missed' \in BOOLEAN
           /\ progs = {"hostapd", "udhcpd"} /\ ~ap_missed' => procs' = {}
           /\ progs = {"hostapd"} /\ ~ap_missed' => ~ap_missed
<1>1. procs' = Left(progs) /\ Left(progs) \subseteq procs
  BY Zenon DEF Kill, Left
<1>2. ap_missed' = ((ap_missed /\ progs # {"hostapd", "udhcpd"})
                    \/ \E p \in Left(progs) : p.prog \in progs)
  BY DEF Kill
<1>3. ASSUME progs = {"hostapd", "udhcpd"}, ~ap_missed' PROVE procs' = {}
  BY Zenon, <1>1, <1>2, <1>3 DEF Stages
<1>4. ASSUME progs = {"hostapd"}, ~ap_missed' PROVE ~ap_missed
  <2>1. {"hostapd"} # {"hostapd", "udhcpd"}
    OBVIOUS
  <2> QED
    BY Zenon, <1>2, <1>4, <2>1
<1> QED
  BY Zenon, <1>1, <1>2, <1>3, <1>4

(* A process that starts or ends changes no configuration. *)
LEMMA ProgramKeepsStages ==
    ASSUME NEW p \in procs, Exec(p) \/ Exit(p), Stages
    PROVE  Stages'
<1>1. UNCHANGED <<ap_at, cfg, apcfg, hostapd_conf, udhcpd_conf, ap_missed>>
  BY Zenon DEF Exec, Exit
<1>2. \A q \in procs' : \E r \in procs : q.prog = r.prog /\ ConfOf(q)' = ConfOf(r)
  <2>1. CASE Exit(p)
    BY Zenon, <1>1, <2>1 DEF Exit, ConfOf
  <2>2. CASE Exec(p)
    <3> DEFINE conf == IF p.prog = "hostapd" THEN hostapd_conf ELSE udhcpd_conf
    <3> TAKE q \in procs'
    <3>1. CASE q \in procs
      BY Zenon, <1>1, <3>1 DEF ConfOf
    <3>2. CASE q \notin procs
      <4>1. q = Proc(p.prog, conf) /\ p.conf = NotYet
        BY Zenon, <2>2, <3>2 DEF Exec
      <4>2. q.prog = p.prog /\ q.conf = conf
        BY Zenon, <4>1 DEF Proc
      <4> QED
        BY Zenon, <1>1, <4>1, <4>2 DEF ConfOf
    <3> QED
      BY Zenon, <3>1, <3>2
  <2> QED
    BY Zenon, <2>1, <2>2
<1>3. ServerMatches'
  BY Zenon, <1>1, <1>2 DEF Stages, ServerMatches
<1> QED
  BY Zenon, <1>1, <1>2, <1>3 DEF Stages

(* Every step of a start, of a stop and of the programs keeps it. *)
LEMMA StagesStep == Stages /\ [ApNext]_apVars => Stages'
<1> SUFFICES ASSUME Stages, [ApNext]_apVars PROVE Stages'
  OBVIOUS
<1>1. ASSUME NEW c \in Cfgs, tkl_wifi_start_ap(c) PROVE Stages'
  BY Zenon, <1>1 DEF tkl_wifi_start_ap, Stages, ServerMatches, ConfOf
<1>2. CASE KillBoth
  BY Zenon, <1>2, KillLeaves DEF KillBoth, Stages, ServerMatches
<1>3. CASE PrepareHostapd
  <2>1. /\ procs' = procs /\ ap_missed' = ap_missed /\ cfg' = cfg
        /\ ap_at = "hostapd_conf" /\ ap_at' \in {"hostapd", "idle"}
        /\ ap_at' = "hostapd" => hostapd_conf' \in {cfg, Blank}
    BY Zenon, <1>3 DEF PrepareHostapd
  <2> QED
    BY Zenon, <2>1 DEF Stages, ServerMatches
<1>4. CASE StartHostapd
  BY <1>4 DEF StartHostapd, Fork, Proc, Stages, ServerMatches, ConfOf
<1>5. CASE SetIp
  BY Zenon, <1>5 DEF SetIp, Stages, ServerMatches, ConfOf
<1>6. CASE PrepareUdhcpd
  <2>1. CASE ap_at' = "udhcpd"
    BY Zenon, <1>6, <2>1 DEF PrepareUdhcpd, Stages, ServerMatches, ConfOf
  <2>2. CASE ap_at' # "udhcpd"
    <3>1. ap_at = "udhcpd_conf" /\ ap_at' = "idle" /\ Kill({"hostapd"})
      BY Zenon, <1>6, <2>2 DEF PrepareUdhcpd
    <3> QED
      BY Zenon, <3>1, KillLeaves DEF Stages, ServerMatches
  <2> QED
    BY <2>1, <2>2
<1>7. CASE StartUdhcpd
  BY <1>7 DEF StartUdhcpd, Fork, Proc, Stages, ServerMatches, ConfOf
<1>8. CASE tkl_wifi_stop_ap
  BY Zenon, <1>8, KillLeaves DEF tkl_wifi_stop_ap, Stages, ServerMatches
<1>9. CASE \E p \in procs : Exec(p) \/ Exit(p)
  BY Zenon, <1>9, ProgramKeepsStages
<1>10. CASE UNCHANGED apVars
  BY Zenon, <1>10 DEF apVars, Stages, ServerMatches, ConfOf
<1> QED
  BY Zenon, <1>1, <1>2, <1>3, <1>4, <1>5, <1>6, <1>7, <1>8, <1>9, <1>10 DEF ApNext

(* The types, for any configurations. *)
LEMMA ApTypeStep == ApTypeOK /\ [ApNext]_apVars => ApTypeOK'
<1> SUFFICES ASSUME ApTypeOK, [ApNext]_apVars PROVE ApTypeOK'
  OBVIOUS
<1> USE DEF ApTypeOK
<1>1. ASSUME NEW c \in Cfgs, tkl_wifi_start_ap(c) PROVE ApTypeOK'
  BY Zenon, <1>1 DEF tkl_wifi_start_ap
<1>2. CASE KillBoth
  BY Zenon, <1>2 DEF KillBoth, Kill, Left
<1>3. CASE PrepareHostapd
  BY Zenon, <1>3 DEF PrepareHostapd
<1>4. CASE StartHostapd \/ StartUdhcpd
  BY <1>4 DEF StartHostapd, StartUdhcpd, Fork, Proc
<1>5. CASE SetIp
  BY Zenon, <1>5 DEF SetIp
<1>6. CASE PrepareUdhcpd
  BY Zenon, <1>6 DEF PrepareUdhcpd, Kill, Left
<1>7. CASE tkl_wifi_stop_ap
  BY Zenon, <1>7 DEF tkl_wifi_stop_ap, Kill, Left
<1>8. ASSUME NEW p \in procs, Exec(p) PROVE ApTypeOK'
  BY <1>8 DEF Exec, Proc
<1>9. ASSUME NEW p \in procs, Exit(p) PROVE ApTypeOK'
  BY Zenon, <1>9 DEF Exit
<1>10. CASE UNCHANGED apVars
  BY Zenon, <1>10 DEF apVars
<1> QED
  BY Zenon, <1>1, <1>2, <1>3, <1>4, <1>5, <1>6, <1>7, <1>8, <1>9, <1>10 DEF ApNext

(* Whatever configurations are asked for, wherever wifi_ap_start fails and *)
(* whenever the programs start or end: between calls no DHCP server runs   *)
(* beside an access point of another configuration.                        *)
THEOREM ApNeverMixed == ApSpec => []DhcpMatchesAp
<1>1. ApInit => Stages
  BY Zenon DEF ApInit, Stages, ServerMatches
<1>2. ApInit => ApTypeOK
  BY Zenon DEF ApInit, ApTypeOK
<1>3. Stages /\ ApTypeOK => DhcpMatchesAp
  BY Zenon DEF Stages, DhcpMatchesAp
<1> QED
  BY <1>1, <1>2, <1>3, StagesStep, ApTypeStep, PTL DEF ApSpec

-------------------------------------------------------------------------------
(* Bluetooth advertising and the link to a central. *)

(* The empty sequence, and what is not empty. *)
LEMMA SeqEmpty ==
    ASSUME NEW S
    PROVE  /\ <<>> \in Seq(S) /\ Len(<<>>) = 0
           /\ \A s \in Seq(S) : s # <<>> => Len(s) \in Nat \ {0}
  OBVIOUS

(* A sequence is a function on 1 .. its length. *)
LEMMA SeqTyped ==
    ASSUME NEW S, NEW s \in Seq(S)
    PROVE  Len(s) \in Nat /\ s \in [1..Len(s) -> S] /\ DOMAIN s = 1..Len(s)
  OBVIOUS

(* The first element and the rest. *)
LEMMA SeqTail ==
    ASSUME NEW S, NEW s \in Seq(S), s # <<>>
    PROVE  /\ Head(s) \in S /\ Tail(s) \in Seq(S)
           /\ Len(Tail(s)) = Len(s) - 1
           /\ \A i \in 1..Len(Tail(s)) : Tail(s)[i] = s[i + 1]
  OBVIOUS

(* A sequence with one more element. *)
LEMMA SeqAppended ==
    ASSUME NEW S, NEW s \in Seq(S), NEW e \in S
    PROVE  /\ Append(s, e) \in Seq(S) /\ Append(s, e) # <<>>
           /\ Len(Append(s, e)) = Len(s) + 1
           /\ \A i \in 1..Len(s) : Append(s, e)[i] = s[i]
           /\ Append(s, e)[Len(s) + 1] = e
  <1>1. Len(Append(s, e)) = Len(s) + 1 /\ Len(s) \in Nat /\ Len(<<>>) = 0
    OBVIOUS
  <1> QED
    BY <1>1
(* Bluetooth advertising and the link to a central. *)

(* A message is in a queue after the queue grew or shrank. *)
LEMMA HoldsAppended ==
    ASSUME NEW S, NEW s \in Seq(S), NEW m \in S, NEW x
    PROVE  Holds(Append(s, m), x) <=> Holds(s, x) \/ m = x
<1>1. /\ Len(Append(s, m)) = Len(s) + 1 /\ Append(s, m)[Len(s) + 1] = m
      /\ \A i \in 1..Len(s) : Append(s, m)[i] = s[i]
      /\ Append(s, m) \in Seq(S)
  BY SeqAppended
<1>2. /\ DOMAIN Append(s, m) = 1..(Len(s) + 1) /\ DOMAIN s = 1..Len(s) /\ Len(s) \in Nat
  BY Zenon, <1>1, SeqTyped
<1> QED
  BY <1>1, <1>2 DEF Holds

(* Taking the head takes no other element. *)
LEMMA HoldsTaken ==
    ASSUME NEW S, NEW s \in Seq(S), s # <<>>, NEW x
    PROVE  /\ Holds(s, x) <=> Head(s) = x \/ Holds(Tail(s), x)
           /\ Tail(s) \in Seq(S) /\ Head(s) \in S
<1>1. /\ Head(s) \in S /\ Head(s) = s[1] /\ Tail(s) \in Seq(S) /\ Len(Tail(s)) = Len(s) - 1
      /\ \A i \in 1..(Len(s) - 1) : Tail(s)[i] = s[i + 1]
  BY SeqTail
<1>2. /\ DOMAIN Tail(s) = 1..(Len(s) - 1) /\ DOMAIN s = 1..Len(s) /\ Len(s) \in Nat \ {0}
  BY <1>1, SeqTyped, SeqEmpty
<1>3. ASSUME Holds(s, x) PROVE Head(s) = x \/ Holds(Tail(s), x)
  <2>1. PICK k \in 1..Len(s) : s[k] = x
    BY <1>2, <1>3 DEF Holds
  <2>2. CASE k = 1
    BY Zenon, <1>1, <2>1, <2>2
  <2>3. CASE k # 1
    <3>1. k - 1 \in 1..(Len(s) - 1) /\ Tail(s)[k - 1] = s[(k - 1) + 1] /\ (k - 1) + 1 = k
      BY <1>1, <1>2, <2>1, <2>3
    <3> QED
      BY Zenon, <1>2, <2>1, <3>1 DEF Holds
  <2> QED
    BY <2>2, <2>3
<1>4. ASSUME Head(s) = x PROVE Holds(s, x)
  BY <1>1, <1>2, <1>4 DEF Holds
<1>5. ASSUME Holds(Tail(s), x) PROVE Holds(s, x)
  <2>1. PICK k \in 1..(Len(s) - 1) : Tail(s)[k] = x
    BY Zenon, <1>2, <1>5 DEF Holds
  <2>2. k + 1 \in 1..Len(s) /\ s[k + 1] = x
    BY <1>1, <1>2, <2>1
  <2> QED
    BY <1>2, <2>2 DEF Holds
<1> QED
  BY Zenon, <1>1, <1>3, <1>4, <1>5

Messages == Signals \union Replies

(* The queues grow and shrink by calls and messages. *)
LEMMA QueuesTyped ==
    ASSUME GapTypeOK, GapNext
    PROVE  bus' \in Seq(Calls) /\ inbox' \in Seq(Messages)
<1>1. bus \in Seq(Calls) /\ inbox \in Seq(Messages)
  BY Zenon DEF GapTypeOK, Messages
<1>2. ASSUME NEW m \in Calls PROVE Append(bus, m) \in Seq(Calls)
  BY Zenon, <1>1, SeqAppended
<1>3. ASSUME NEW m \in Messages PROVE Append(inbox, m) \in Seq(Messages)
  BY Zenon, <1>1, SeqAppended
<1>4. bus # <<>> => Tail(bus) \in Seq(Calls)
  BY <1>1, SeqTail
<1>5. inbox # <<>> => Tail(inbox) \in Seq(Messages)
  BY <1>1, SeqTail
<1>6. Append(Append(inbox, "Down"), "DiscOk") \in Seq(Messages)
  BY Zenon, <1>3, SeqAppended DEF Messages, Signals, Replies
<1>7. \/ bus' = bus \/ \E m \in Calls : bus' = Append(bus, m)
      \/ bus # <<>> /\ bus' = Tail(bus)
  BY Zenon DEF GapNext, Application, MainLoop, Daemon, Central, Aborted, AdvStartMin,
     AdvStartMax, bluez_inc_start_adv, tkl_ble_gap_adv_stop, DisconnectTest,
     binc_device_disconnect, Answer, DeviceSignal, DeviceChanged,
     on_central_state_changed, binc_start_adv_success_cb, DaemonRegister,
     DaemonUnregister, DaemonDisconnect, CentralConnects, CentralLeaves, OtherProperty,
     Calls, gapVars
<1>8. \/ inbox' = inbox \/ \E m \in Messages : inbox' = Append(inbox, m)
      \/ inbox # <<>> /\ inbox' = Tail(inbox)
      \/ inbox' = Append(Append(inbox, "Down"), "DiscOk")
  BY Zenon DEF GapNext, Application, MainLoop, Daemon, Central, Aborted, AdvStartMin,
     AdvStartMax, bluez_inc_start_adv, tkl_ble_gap_adv_stop, DisconnectTest,
     binc_device_disconnect, Answer, DeviceSignal, DeviceChanged,
     binc_start_adv_success_cb, DaemonRegister,
     DaemonUnregister, DaemonDisconnect, CentralConnects, CentralLeaves, OtherProperty,
     Sends, Messages, Signals, Replies, gapVars
<1> QED
  BY Zenon, <1>1, <1>2, <1>3, <1>4, <1>5, <1>6, <1>7, <1>8

(* Whoever may still switch the controller on does so for a start. *)
StartIsAsked == (ctl.on => may) /\ (Outstanding => may)

(* Every step keeps the types of the Bluetooth state. *)
LEMMA GapTyped ==
    ASSUME GapTypeOK, GapNext
    PROVE  GapTypeOK'
<1>1. bus' \in Seq(Calls) /\ inbox' \in Seq(Signals \union Replies)
  BY QueuesTyped DEF Messages
<1>2. ctl' \in [on : BOOLEAN, min : Intervals \union {Own}, max : Intervals \union {Own}]
  <2>1. \/ ctl' = ctl
        \/ \E e \in BOOLEAN : tuya_hci_le_set_adv_enable(e)
        \/ tuya_hci_le_set_adv_params(sg_min, sg_max)
        \/ ctl' = [on |-> TRUE, min |-> Own, max |-> Own]
    BY Zenon DEF GapNext, Application, MainLoop, Daemon, Central, Aborted, AdvStartMin,
       AdvStartMax, bluez_inc_start_adv, tkl_ble_gap_adv_stop, DisconnectTest,
       binc_device_disconnect, Answer, DeviceSignal, DeviceChanged,
       binc_start_adv_success_cb, SuccessOff, SuccessParams, SuccessOn, Hci, HciFails,
       DaemonRegister, DaemonUnregister, DaemonDisconnect, CentralConnects,
       CentralLeaves, OtherProperty, tuya_hci_le_set_adv_enable, gapVars, airVars
  <2>2. /\ ctl \in [on : BOOLEAN, min : Intervals \union {Own}, max : Intervals \union {Own}]
        /\ sg_min \in Intervals \union {Own} /\ sg_max \in Intervals \union {Own}
    BY Zenon DEF GapTypeOK
  <2>3. CASE \E e \in BOOLEAN : tuya_hci_le_set_adv_enable(e)
    BY <2>2, <2>3 DEF tuya_hci_le_set_adv_enable
  <2>4. CASE tuya_hci_le_set_adv_params(sg_min, sg_max)
    BY Zenon, <2>2, <2>4 DEF tuya_hci_le_set_adv_params
  <2>5. CASE ctl' = [on |-> TRUE, min |-> Own, max |-> Own]
    BY Zenon, <2>5
  <2> QED
    BY Zenon, <2>1, <2>2, <2>3, <2>4, <2>5
<1>3. /\ {sg_min', sg_max', want'} \subseteq Intervals \union {Own}
      /\ caller' \in {"idle", "max", "start", "disconnect", "abort"}
  BY Zenon DEF GapTypeOK, GapNext, Application, MainLoop, Daemon, Central, Aborted,
     AdvStartMin,
     AdvStartMax, bluez_inc_start_adv, tkl_ble_gap_adv_stop, DisconnectTest,
     binc_device_disconnect, Answer, DeviceSignal, DeviceChanged,
     binc_start_adv_success_cb, DaemonRegister, DaemonUnregister, DaemonDisconnect,
     CentralConnects, CentralLeaves, OtherProperty, gapVars, callVars
<1>4. {advertising', object', sg_device', reg', link'} \subseteq BOOLEAN
  BY Zenon DEF GapTypeOK, GapNext, Application, MainLoop, Daemon, Central, Aborted,
     AdvStartMin,
     AdvStartMax, bluez_inc_start_adv, tkl_ble_gap_adv_stop, DisconnectTest,
     binc_device_disconnect, Answer, Answered, DeviceSignal, DeviceChanged,
     on_central_state_changed,
     binc_start_adv_success_cb, DaemonRegister, DaemonUnregister, DaemonDisconnect,
     CentralConnects, CentralLeaves, OtherProperty, gapVars, hostVars, airVars
<1>5. {asked', may', fault', notConnected'} \subseteq BOOLEAN
  BY Zenon DEF GapTypeOK, GapNext, Application, MainLoop, Daemon, Central, Aborted,
     AdvStartMin,
     AdvStartMax, bluez_inc_start_adv, tkl_ble_gap_adv_stop, DisconnectTest,
     binc_device_disconnect, Answer, DeviceSignal, DeviceChanged, Hci, HciFails,
     SuccessOff, SuccessParams, SuccessOn,
     binc_start_adv_success_cb, DaemonRegister, DaemonUnregister, DaemonDisconnect,
     CentralConnects, CentralLeaves, OtherProperty, gapVars, history
<1>6. /\ {conn_state', old'} \subseteq States /\ evt' \in States
      /\ mainloop' \in {"poll", "off", "params", "on"} \union Signals
  BY Zenon DEF GapTypeOK, GapNext, Application, MainLoop, Daemon, Central, Aborted,
     AdvStartMin,
     AdvStartMax, bluez_inc_start_adv, tkl_ble_gap_adv_stop, DisconnectTest,
     binc_device_disconnect, Answer, Answered, DeviceSignal, DeviceChanged,
     on_central_state_changed, SuccessOff, SuccessParams, SuccessOn, States,
     binc_start_adv_success_cb, DaemonRegister, DaemonUnregister, DaemonDisconnect,
     CentralConnects, CentralLeaves, OtherProperty, gapVars, hostVars, loopVars
<1> QED
  BY Zenon, <1>1, <1>2, <1>3, <1>4, <1>5, <1>6 DEF GapTypeOK

(* What is outstanding, after the queues have moved. *)
LEMMA StartStep ==
    ASSUME GapTypeOK, StartIsAsked, GapNext
    PROVE  StartIsAsked'
<1>0. bus \in Seq(Calls) /\ inbox \in Seq(Messages)
  BY Zenon DEF GapTypeOK, Messages
<1>1. ASSUME NEW m \in Calls PROVE Holds(Append(bus, m), "Register") <=> Holds(bus,
"Register") \/ m = "Register"
  BY Zenon, <1>0, HoldsAppended
<1>2. ASSUME NEW m \in Messages
      PROVE Holds(Append(inbox, m), "RegOk") <=> Holds(inbox, "RegOk") \/ m = "RegOk"
  BY Zenon, <1>0, HoldsAppended
<1>3. bus # <<>> => (Holds(bus,
"Register") <=> Head(bus) = "Register" \/ Holds(Tail(bus), "Register"))
  BY Zenon, <1>0, HoldsTaken
<1>4. inbox # <<>> => (Holds(inbox,
"RegOk") <=> Head(inbox) = "RegOk" \/ Holds(Tail(inbox), "RegOk"))
  BY Zenon, <1>0, HoldsTaken
<1>5. CASE \E i \in Intervals : AdvStartMin(i)
  BY <1>5 DEF AdvStartMin, StartIsAsked, Outstanding, Holds, loopVars, airVars
<1>6. CASE AdvStartMax \/ DisconnectTest
  BY Zenon, <1>6 DEF AdvStartMax, DisconnectTest, StartIsAsked, Outstanding, Holds,
     loopVars, airVars, history
<1>7. CASE bluez_inc_start_adv
  BY Zenon, <1>7 DEF bluez_inc_start_adv, StartIsAsked, Outstanding, Holds, loopVars,
     airVars, history, hostVars
<1>8. CASE tkl_ble_gap_adv_stop
  <2>1. Outstanding' = Outstanding
    BY Zenon, <1>8 DEF tkl_ble_gap_adv_stop, Outstanding, Holds, loopVars
  <2> QED
  BY <1>8, <2>1 DEF tkl_ble_gap_adv_stop, tuya_hci_le_set_adv_enable, StartIsAsked,
     HciFails, GapTypeOK
<1>9. CASE binc_device_disconnect
  <2>1. "Disconnect" \in Calls /\ "Disconnect" # "Register"
    BY DEF Calls
  <2> QED
  BY Zenon, <1>1, <2>1, <1>9 DEF binc_device_disconnect, StartIsAsked, Outstanding,
     loopVars, airVars, history
<1>10. CASE Answer
  BY Zenon, <1>4, <1>10 DEF Answer, Answered, StartIsAsked, Outstanding, airVars, history
<1>11. CASE DeviceSignal
  BY Zenon, <1>4, <1>11 DEF DeviceSignal, StartIsAsked, Outstanding, airVars, history,
     Signals
<1>12. CASE DeviceChanged
  <2>1. "Unregister" \in Calls /\ "Unregister" # "Register"
    BY DEF Calls
  <2>2. bus' = bus \/ bus' = Append(bus, "Unregister")
    BY <1>12 DEF DeviceChanged, on_central_state_changed
  <2>3. Holds(bus', "Register") <=> Holds(bus, "Register")
    BY Zenon, <1>1, <2>1, <2>2
  <2> QED
    BY <2>3, <1>12 DEF DeviceChanged, StartIsAsked, Outstanding, airVars, history
<1>13. CASE binc_start_adv_success_cb
  BY <1>13 DEF binc_start_adv_success_cb, SuccessOff, SuccessParams, SuccessOn, Hci,
     HciFails,
     tuya_hci_le_set_adv_enable, tuya_hci_le_set_adv_params, StartIsAsked, Outstanding,
     GapTypeOK, Holds
<1>14. CASE DaemonRegister
  BY Zenon, <1>2, <1>3, <1>14 DEF DaemonRegister, Sends, StartIsAsked, Outstanding,
     loopVars, Messages, Replies
<1>15. CASE DaemonUnregister
  BY Zenon, <1>2, <1>3, <1>15 DEF DaemonUnregister, Sends, StartIsAsked, Outstanding,
     loopVars, history, Messages, Replies, GapTypeOK
<1>16. CASE DaemonDisconnect
  <2>1. Holds(inbox', "RegOk") <=> Holds(inbox, "RegOk")
    <3>1. Append(inbox, "Down") \in Seq(Messages)
             /\ {"Down", "DiscOk", "DiscErr"} \subseteq Messages
      BY Zenon, <1>0, SeqAppended DEF Messages, Signals, Replies
    <3>2. Holds(Append(Append(inbox, "Down"), "DiscOk"), "RegOk") <=> Holds(Append(inbox,
    "Down"), "RegOk")
      BY Zenon, <3>1, HoldsAppended
    <3> QED
      BY Zenon, <1>2, <1>16, <3>1, <3>2 DEF DaemonDisconnect, Sends
  <2> QED
    BY Zenon, <2>1, <1>3, <1>16 DEF DaemonDisconnect, StartIsAsked, Outstanding, loopVars
<1>17. CASE CentralConnects
  <2>1. Outstanding' <=> Outstanding
    BY <1>2, <1>17 DEF CentralConnects, Sends, Outstanding, loopVars, Messages, Signals
  <2> QED
    BY <1>17, <2>1 DEF CentralConnects, StartIsAsked, GapTypeOK
<1>18. CASE CentralLeaves \/ OtherProperty
  <2>1. Outstanding' <=> Outstanding
    <3>1. PICK m \in {"Down", "Other"} : inbox' = Append(inbox, m)
      BY Zenon, <1>18 DEF CentralLeaves, OtherProperty, Sends
    <3>2. Holds(inbox', "RegOk") <=> Holds(inbox, "RegOk")
      BY <1>2, <3>1 DEF Messages, Signals
    <3>3. bus' = bus /\ mainloop' = mainloop
      BY Zenon, <1>18 DEF CentralLeaves, OtherProperty, loopVars
    <3> QED
      BY <3>2, <3>3 DEF Outstanding
  <2>2. ctl' = ctl /\ may' = may
    BY Zenon, <1>18 DEF CentralLeaves, OtherProperty, airVars, history
  <2> QED
    BY <2>1, <2>2 DEF StartIsAsked
<1>19. CASE Aborted
  BY Zenon, <1>19 DEF Aborted, StartIsAsked, Outstanding, gapVars, loopVars, airVars,
     history, Holds
<1> QED
  BY Zenon, <1>5, <1>6, <1>7, <1>8, <1>9, <1>10, <1>11, <1>12, <1>13, <1>14, <1>15, <1>16,
     <1>17, <1>18, <1>19 DEF GapNext, Application, MainLoop, Daemon, Central

AskedInv == GapTypeOK /\ StartIsAsked

(* At start nobody has asked, and the controller is off. *)
LEMMA GapStarts == GapInit => AskedInv
<1> SUFFICES ASSUME GapInit PROVE AskedInv
  OBVIOUS
<1>1. bus \in Seq(Calls) /\ inbox \in Seq(Signals \union Replies)
  BY Zenon, SeqEmpty DEF GapInit
<1>2. ctl \in [on : BOOLEAN, min : Intervals \union {Own}, max : Intervals \union {Own}]
  BY Zenon DEF GapInit
<1>3. ~Outstanding /\ ~ctl.on
  BY DEF GapInit, Outstanding, Holds
<1>4. /\ {sg_min, sg_max, want} \subseteq Intervals \union {Own}
      /\ {advertising, object, sg_device, reg, link} \subseteq BOOLEAN
      /\ {asked, may, fault, notConnected} \subseteq BOOLEAN
  BY Zenon DEF GapInit
<1>5. /\ {conn_state, old} \subseteq States
      /\ caller \in {"idle", "max", "start", "disconnect", "abort"}
      /\ mainloop \in {"poll", "off", "params", "on"} \union Signals
      /\ evt \in States
  BY Zenon DEF GapInit, States
<1> QED
  BY Zenon, <1>1, <1>2, <1>3, <1>4, <1>5 DEF GapTypeOK, AskedInv, StartIsAsked

(* The same with stuttering. *)
LEMMA GapTypedStep == GapTypeOK /\ [GapNext]_gapVars => GapTypeOK'
<1> SUFFICES ASSUME GapTypeOK, [GapNext]_gapVars PROVE GapTypeOK'
  OBVIOUS
<1>1. CASE UNCHANGED gapVars
  BY Zenon, <1>1 DEF GapTypeOK, gapVars, hostVars, callVars, loopVars, airVars, history
<1> QED
  BY <1>1, GapTyped

(* The controller advertises only on behalf of a start, whatever bluetoothd *)
(* has still to answer and whichever HCI commands fail.                    *)
THEOREM GapAdvertisesOnlyWhenAsked == GapSpec => []AdvertisesOnlyWhenAsked
<1>1. AskedInv /\ [GapNext]_gapVars => AskedInv'
  <2> SUFFICES ASSUME AskedInv, [GapNext]_gapVars PROVE AskedInv'
    OBVIOUS
  <2>1. CASE UNCHANGED gapVars
    <3>1. UNCHANGED <<ctl, may, bus, inbox, mainloop>>
      BY Zenon, <2>1 DEF gapVars, loopVars, airVars, history
    <3> QED
      BY Zenon, <3>1, GapTypedStep DEF AskedInv, StartIsAsked, Outstanding, Holds
  <2> QED
    BY <2>1, GapTypedStep, StartStep DEF AskedInv
<1>2. AskedInv => AdvertisesOnlyWhenAsked
  BY DEF AskedInv, StartIsAsked, AdvertisesOnlyWhenAsked
<1> QED
  BY <1>1, <1>2, GapStarts, PTL DEF GapSpec

-------------------------------------------------------------------------------
(* The link as the application was told of it. *)

(* The events given so far fit a connection state. *)
Fits(state) ==
    \/ state = "DISCONNECTED" /\ evt = "DISCONNECTED" /\ sg_device = FALSE
    \/ state = "CONNECTED" /\ evt = "CONNECTED" /\ sg_device = TRUE
    \/ state = "DISCONNECTING" /\ evt \in {"CONNECTED", "DISCONNECTING"} /\ sg_device = TRUE

(* Between the two halves of binc_internal_device_changed the application  *)
(* thread may have begun to disconnect.                                    *)
Told ==
    IF mainloop \in Signals
    THEN /\ Fits(old)
         /\ conn_state = old \/ (old = "CONNECTED" /\ conn_state = "DISCONNECTING")
    ELSE Fits(conn_state)

(* The last signal about the link that is pending, or else what the main   *)
(* loop believes, is how the link is.                                      *)
Link == IF link THEN "Up" ELSE "Down"
Believed ==
    IF mainloop \in {"Up", "Down"} THEN mainloop
    ELSE IF conn_state = "DISCONNECTED" THEN "Down" ELSE "Up"
LastSignal ==
    \E i \in 0..Len(inbox) :
        /\ (IF i = 0 THEN Believed ELSE inbox[i]) = Link
        /\ \A j \in (i + 1)..Len(inbox) : inbox[j] \notin {"Up", "Down"}

(* A disconnect that was begun will be answered by a signal. *)
Leaving ==
    conn_state = "DISCONNECTING" =>
        Holds(bus, "Disconnect") \/ Holds(inbox, "Down") \/ mainloop = "Down"

ReportInv ==
    /\ GapTypeOK
    /\ Holds(inbox, "DiscErr") => notConnected
    /\ ~notConnected => Told /\ LastSignal /\ Leaving

(* With both queues empty only the last signal is left to go by. *)
LEMMA ReportInvImplies == ReportInv => CentralReported
<1> SUFFICES ASSUME ReportInv, mainloop = "poll", inbox = <<>>, bus = <<>>, ~notConnected
             PROVE  /\ evt = IF link THEN "CONNECTED" ELSE "DISCONNECTED"
                    /\ sg_device = link
  BY DEF CentralReported
<1>1. Told /\ LastSignal /\ Leaving
  BY DEF ReportInv
<1>2. conn_state # "DISCONNECTING"
  BY <1>1 DEF Leaving, Holds
<1>3. Believed = Link
  <2>1. Len(inbox) = 0
    OBVIOUS
  <2> QED
    BY <1>1, <2>1 DEF LastSignal
<1>4. Fits(conn_state)
  BY <1>1 DEF Told, Signals
<1>5. link \in BOOLEAN
  BY Zenon DEF ReportInv, GapTypeOK
<1> QED
  BY Zenon, <1>2, <1>3, <1>4, <1>5 DEF Fits, Believed, Link

(* A new message at the end, about the link or not. *)
LEMMA SignalSent ==
    ASSUME inbox \in Seq(Messages), NEW m \in Messages, inbox' = Append(inbox, m),
           \/ m = Link' /\ m \in {"Up", "Down"}
           \/ m \notin {"Up", "Down"} /\ LastSignal /\ Link' = Link /\ Believed' = Believed
    PROVE  LastSignal'
<1>1. /\ Len(inbox') = Len(inbox) + 1 /\ inbox'[Len(inbox) + 1] = m
      /\ \A i \in 1..Len(inbox) : inbox'[i] = inbox[i]
      /\ Len(inbox) \in Nat
  BY SeqAppended, SeqTyped
<1>2. CASE m = Link' /\ m \in {"Up", "Down"}
  <2>1. /\ Len(inbox) + 1 \in 0..Len(inbox') /\ Len(inbox) + 1 # 0
        /\ \A j \in ((Len(inbox) + 1) + 1)..Len(inbox') : inbox'[j] \notin {"Up", "Down"}
    BY <1>1
  <2> QED
    BY <1>1, <1>2, <2>1 DEF LastSignal
<1>3. CASE m \notin {"Up", "Down"} /\ LastSignal /\ Link' = Link /\ Believed' = Believed
  <2>1. PICK i \in 0..Len(inbox) :
            /\ (IF i = 0 THEN Believed ELSE inbox[i]) = Link
            /\ \A j \in (i + 1)..Len(inbox) : inbox[j] \notin {"Up", "Down"}
    BY Zenon, <1>3 DEF LastSignal
  <2>2. i \in 0..Len(inbox') /\ (IF i = 0 THEN Believed' ELSE inbox'[i]) = Link'
    BY <1>1, <1>3, <2>1
  <2>3. ASSUME NEW j \in (i + 1)..Len(inbox') PROVE inbox'[j] \notin {"Up", "Down"}
    BY <1>1, <1>3, <2>1
  <2> QED
    BY Zenon, <2>2, <2>3 DEF LastSignal
<1> QED
  BY <1>2, <1>3

(* The first message is taken: it becomes what the main loop believes when *)
(* it is about the link.                                                   *)
LEMMA SignalTaken ==
    ASSUME inbox \in Seq(Messages), inbox # <<>>, inbox' = Tail(inbox), LastSignal,
           Link' = Link, Link \in {"Up", "Down"},
           \/ Head(inbox) \in {"Up", "Down"} /\ Believed' = Head(inbox)
           \/ Head(inbox) \notin {"Up", "Down"} /\ Believed' = Believed
    PROVE  LastSignal'
<1>1. /\ Len(inbox') = Len(inbox) - 1 /\ Head(inbox) = inbox[1]
      /\ \A i \in 1..(Len(inbox) - 1) : inbox'[i] = inbox[i + 1]
      /\ Len(inbox) \in Nat /\ Len(inbox) # 0
  BY SeqTail, SeqTyped, SeqEmpty
<1>2. PICK i \in 0..Len(inbox) :
          /\ (IF i = 0 THEN Believed ELSE inbox[i]) = Link
          /\ \A j \in (i + 1)..Len(inbox) : inbox[j] \notin {"Up", "Down"}
  BY DEF LastSignal
<1>3. CASE i = 0
  <2>1. 1 \in (i + 1)..Len(inbox)
    BY <1>1, <1>3
  <2>2. Believed' = Link'
    BY <1>1, <1>2, <1>3, <2>1
  <2>3. \A j \in 1..(Len(inbox) - 1) : j + 1 \in (i + 1)..Len(inbox)
    BY <1>1, <1>3
  <2>4. \A j \in 1..(Len(inbox) - 1) : inbox'[j] \notin {"Up", "Down"}
    BY <1>1, <1>2, <2>3
  <2>5. 0 \in 0..Len(inbox') /\ 0 + 1 = 1
    BY <1>1
  <2> QED
    BY Zenon, <1>1, <2>2, <2>4, <2>5 DEF LastSignal
<1>4. CASE i # 0
  <2>1. /\ i - 1 \in 0..Len(inbox')
        /\ \A j \in ((i - 1) + 1)..Len(inbox') : j \in 1..(Len(inbox) - 1)
           /\ j + 1 \in (i + 1)..Len(inbox)
    BY <1>1, <1>2, <1>4
  <2>2. \A j \in ((i - 1) + 1)..Len(inbox') : inbox'[j] \notin {"Up", "Down"}
    BY <1>1, <1>2, <2>1
  <2>3. (IF i - 1 = 0 THEN Believed' ELSE inbox'[i - 1]) = Link'
    <3>1. CASE i = 1
      BY <1>1, <1>2, <3>1
    <3>2. CASE i # 1
      <4>1. i - 1 \in 1..(Len(inbox) - 1) /\ (i - 1) + 1 = i /\ i - 1 # 0
        BY <1>1, <1>2, <1>4, <3>2
      <4>2. inbox'[i - 1] = inbox[i]
        BY <1>1, <4>1
      <4> QED
        BY <1>2, <1>4, <4>1, <4>2
    <3> QED
      BY Zenon, <3>1, <3>2
  <2> QED
    BY Zenon, <2>1, <2>2, <2>3 DEF LastSignal
<1> QED
  BY <1>3, <1>4

(* Steps that touch neither the link nor what is known of it. *)
LEMMA LinkUntouched ==
    ASSUME ReportInv, GapTypeOK',
           UNCHANGED <<inbox, conn_state, old, evt, sg_device, link, notConnected>>,
           \/ mainloop' = mainloop
           \/ {mainloop, mainloop'} \subseteq {"poll", "off", "params", "on"},
           Holds(bus, "Disconnect") => Holds(bus', "Disconnect")
    PROVE  ReportInv'
<1>1. Holds(inbox, "DiscErr")' = Holds(inbox, "DiscErr")
         /\ Holds(inbox, "Down")' = Holds(inbox, "Down")
  BY DEF Holds
<1>2. Holds(bus, "Disconnect")' = Holds(bus', "Disconnect")
  BY Zenon DEF Holds
<1>3. Told => Told'
  BY Zenon DEF Told, Fits, Signals
<1>4. LastSignal => LastSignal'
  BY DEF LastSignal, Believed, Link
<1>5. Leaving => Leaving'
  BY Zenon, <1>1, <1>2 DEF Leaving
<1> QED
  BY Zenon, <1>1, <1>3, <1>4, <1>5 DEF ReportInv

(* A message that is not about the link is added. *)
LEMMA ReplySent ==
    ASSUME ReportInv, GapTypeOK', NEW m \in Messages \ {"Up", "Down", "DiscErr"},
           inbox' = Append(inbox, m),
           UNCHANGED <<conn_state, old, evt, sg_device, link, notConnected, mainloop>>,
           Holds(bus, "Disconnect") => Holds(bus', "Disconnect")
    PROVE  ReportInv'
<1>0. inbox \in Seq(Messages)
  BY Zenon DEF ReportInv, GapTypeOK, Messages
<1>1. /\ Holds(inbox', "DiscErr") <=> Holds(inbox, "DiscErr")
      /\ Holds(inbox', "Down") <=> Holds(inbox, "Down")
  BY <1>0, HoldsAppended
<1>2. /\ Holds(inbox, "DiscErr")' = Holds(inbox', "DiscErr")
         /\ Holds(inbox, "Down")' = Holds(inbox', "Down")
      /\ Holds(bus, "Disconnect")' = Holds(bus', "Disconnect")
  BY DEF Holds
<1>3. Told => Told'
  BY Zenon DEF Told, Fits, Signals
<1>4. LastSignal => LastSignal'
  BY Zenon, <1>0, SignalSent DEF Believed, Link
<1>5. Leaving => Leaving'
  BY Zenon, <1>1, <1>2 DEF Leaving
<1> QED
  BY Zenon, <1>1, <1>2, <1>3, <1>4, <1>5 DEF ReportInv

(* A message about the link follows the change of the link. *)
LEMMA SignalFollows ==
    ASSUME ReportInv, GapTypeOK', NEW m \in {"Up", "Down"}, m = Link',
           inbox' = Append(inbox, m),
           UNCHANGED <<conn_state, old, evt, sg_device, notConnected, mainloop>>,
           Holds(bus, "Disconnect") => Holds(bus', "Disconnect")
    PROVE  ReportInv'
<1>0. inbox \in Seq(Messages) /\ m \in Messages
  BY Zenon DEF ReportInv, GapTypeOK, Messages, Signals
<1>1. /\ Holds(inbox', "DiscErr") <=> Holds(inbox, "DiscErr")
      /\ Holds(inbox, "Down") => Holds(inbox', "Down")
  BY <1>0, HoldsAppended
<1>2. /\ Holds(inbox, "DiscErr")' = Holds(inbox', "DiscErr")
         /\ Holds(inbox, "Down")' = Holds(inbox', "Down")
      /\ Holds(bus, "Disconnect")' = Holds(bus', "Disconnect")
  BY DEF Holds
<1>3. Told => Told'
  BY Zenon DEF Told, Fits, Signals
<1>4. LastSignal'
  BY Zenon, <1>0, SignalSent
<1>5. Leaving => Leaving'
  BY Zenon, <1>1, <1>2 DEF Leaving
<1> QED
  BY Zenon, <1>1, <1>2, <1>3, <1>4, <1>5 DEF ReportInv

(* The application thread begins to disconnect. *)
LEMMA DisconnectReport ==
    ASSUME ReportInv, GapTypeOK', binc_device_disconnect
    PROVE  ReportInv'
<1>1. CASE ~(sg_device /\ conn_state = "CONNECTED")
  BY Zenon, <1>1, LinkUntouched DEF binc_device_disconnect, loopVars, airVars, history
<1>2. CASE sg_device /\ conn_state = "CONNECTED"
  <2>1. /\ conn_state' = "DISCONNECTING" /\ bus' = Append(bus, "Disconnect")
        /\ UNCHANGED <<inbox, old, evt, sg_device, link, notConnected, mainloop>>
    BY <1>2 DEF binc_device_disconnect, loopVars, airVars, history
  <2>2. Holds(bus', "Disconnect")
    <3>1. bus \in Seq(Calls) /\ "Disconnect" \in Calls
      BY Zenon DEF ReportInv, GapTypeOK, Calls
    <3> QED
      BY Zenon, <2>1, <3>1, HoldsAppended
  <2>3. Holds(inbox, "DiscErr")' = Holds(inbox, "DiscErr")
           /\ Holds(bus, "Disconnect")' = Holds(bus', "Disconnect")
    BY <2>1 DEF Holds
  <2>4. Told => Told'
    BY Zenon, <1>2, <2>1 DEF Told, Fits, Signals
  <2>5. LastSignal => LastSignal'
    BY <1>2, <2>1 DEF LastSignal, Believed, Link
  <2>6. Leaving'
    BY <2>2, <2>3 DEF Leaving
  <2> QED
    BY Zenon, <2>1, <2>3, <2>4, <2>5, <2>6 DEF ReportInv
<1> QED
  BY <1>1, <1>2

(* bluetoothd drops the link, or finds none. *)
LEMMA DropReport ==
    ASSUME ReportInv, GapTypeOK', DaemonDisconnect
    PROVE  ReportInv'
<1>0. inbox \in Seq(Messages) /\ {"Down", "DiscOk", "DiscErr"} \subseteq Messages
  BY Zenon DEF ReportInv, GapTypeOK, Messages, Signals, Replies
<1>1. CASE notConnected'
  BY <1>1 DEF ReportInv
<1>2. CASE ~notConnected'
  <2> DEFINE half == Append(inbox, "Down")
  <2>1. /\ link' = FALSE /\ inbox' = Append(half, "DiscOk")
        /\ UNCHANGED <<conn_state, old, evt, sg_device, notConnected, mainloop>>
    BY Zenon, <1>2 DEF DaemonDisconnect, hostVars, loopVars
  <2>2. half \in Seq(Messages) /\ Holds(half, "Down")
           /\ (Holds(half, "DiscErr") <=> Holds(inbox, "DiscErr"))
    BY Zenon, <1>0, HoldsAppended, SeqAppended
  <2>3. Holds(inbox', "Down") /\ (Holds(inbox', "DiscErr") <=> Holds(inbox, "DiscErr"))
    BY Zenon, <1>0, <2>1, <2>2, HoldsAppended
  <2>4. Holds(inbox, "DiscErr")' = Holds(inbox', "DiscErr")
           /\ Holds(inbox, "Down")' = Holds(inbox', "Down")
    BY DEF Holds
  <2>5. Told => Told'
    BY Zenon, <2>1 DEF Told, Fits, Signals
  <2>6. Leaving'
    BY <2>3, <2>4 DEF Leaving
  <2>7. LastSignal'
    <3> DEFINE n == Len(inbox)
    <3>1. Len(half) = n + 1 /\ half[n + 1] = "Down" /\ n \in Nat
      BY <1>0, SeqAppended, SeqTyped
    <3>2. /\ Len(inbox') = (n + 1) + 1 /\ inbox'[(n + 1) + 1] = "DiscOk"
             /\ inbox'[n + 1] = "Down"
      BY <1>0, <2>1, <2>2, <3>1, SeqAppended
    <3>3. Link' = "Down"
      BY Zenon, <2>1 DEF Link
    <3>4. n + 1 \in 0..Len(inbox') /\ n + 1 # 0
      BY <3>1, <3>2
    <3>5. \A j \in ((n + 1) + 1)..Len(inbox') : inbox'[j] \notin {"Up", "Down"}
      BY <3>1, <3>2
    <3> QED
      BY <3>2, <3>3, <3>4, <3>5 DEF LastSignal
  <2> QED
    BY <2>1, <2>3, <2>4, <2>5, <2>6, <2>7 DEF ReportInv
<1> QED
  BY <1>1, <1>2

(* The main loop takes an answer or a signal. *)
LEMMA TakenReport ==
    ASSUME ReportInv, GapTypeOK', Answer \/ DeviceSignal
    PROVE  ReportInv'
<1>0. inbox \in Seq(Messages) /\ inbox # <<>> /\ inbox' = Tail(inbox)
  BY Zenon DEF Answer, DeviceSignal, ReportInv, GapTypeOK, Messages
<1>1. /\ Holds(inbox, "DiscErr") <=> Head(inbox) = "DiscErr" \/ Holds(inbox', "DiscErr")
      /\ Holds(inbox, "Down") <=> Head(inbox) = "Down" \/ Holds(inbox', "Down")
  BY Zenon, <1>0, HoldsTaken
<1>2. /\ Holds(inbox, "DiscErr")' = Holds(inbox', "DiscErr")
         /\ Holds(inbox, "Down")' = Holds(inbox', "Down")
      /\ bus' = bus
  BY Zenon DEF Holds, Answer, DeviceSignal
<1>3. /\ mainloop = "poll" /\ UNCHANGED <<evt, sg_device, link, notConnected>>
      /\ Link' = Link /\ Link \in {"Up", "Down"}
  BY DEF Answer, DeviceSignal, Link, hostVars, airVars, history
<1>4. CASE notConnected
  BY Zenon, <1>3, <1>4 DEF ReportInv
<1>5. CASE ~notConnected
  <2>0. Told /\ LastSignal /\ Leaving /\ Head(inbox) # "DiscErr" /\ ~Holds(inbox', "DiscErr")
    BY Zenon, <1>1, <1>5 DEF ReportInv
  <2>1. conn_state' = conn_state
    BY Zenon, <2>0 DEF Answer, Answered, DeviceSignal, hostVars
  <2>2. CASE Answer
    <3>1. Head(inbox) \notin {"Up", "Down"} /\ mainloop' \in {"poll", "off"}
      BY Zenon, <2>2 DEF Answer, Answered, Replies
    <3>2. Told'
      BY Zenon, <1>3, <2>0, <2>1, <3>1 DEF Told, Fits, Signals
    <3>3. Believed' = Believed
      BY Zenon, <1>3, <2>1, <3>1 DEF Believed
    <3>4. LastSignal'
      BY Zenon, <1>0, <1>3, <2>0, <3>1, <3>3, SignalTaken
    <3>5. Leaving'
      BY Zenon, <1>1, <1>2, <1>3, <2>0, <2>1, <3>1 DEF Leaving, Holds
    <3> QED
      BY Zenon, <1>2, <2>0, <3>2, <3>4, <3>5 DEF ReportInv
  <2>3. CASE DeviceSignal
    <3>1. Head(inbox) \in Signals /\ mainloop' = Head(inbox) /\ old' = conn_state
      BY Zenon, <2>3 DEF DeviceSignal
    <3>2. Told'
      BY Zenon, <1>3, <2>0, <2>1, <3>1 DEF Told, Fits, Signals
    <3>3. \/ Head(inbox) \in {"Up", "Down"} /\ Believed' = Head(inbox)
          \/ Head(inbox) \notin {"Up", "Down"} /\ Believed' = Believed
      BY Zenon, <1>3, <2>1, <3>1 DEF Believed
    <3>4. LastSignal'
      BY Zenon, <1>0, <1>3, <2>0, <3>3, SignalTaken
    <3>5. Leaving'
      BY Zenon, <1>1, <1>2, <1>3, <2>0, <2>1, <3>1 DEF Leaving, Holds
    <3> QED
      BY <1>2, <2>0, <3>2, <3>4, <3>5 DEF ReportInv
  <2> QED
    BY <2>2, <2>3
<1> QED
  BY <1>4, <1>5

(* The rest of binc_internal_device_changed gives the event. *)
LEMMA ChangedReport ==
    ASSUME ReportInv, GapTypeOK', DeviceChanged
    PROVE  ReportInv'
<1>1. /\ mainloop \in Signals /\ mainloop' = "poll"
      /\ UNCHANGED <<inbox, link, notConnected>>
  BY DEF DeviceChanged, airVars, history
<1>2. /\ Holds(inbox, "DiscErr")' = Holds(inbox, "DiscErr")
         /\ Holds(inbox, "Down")' = Holds(inbox, "Down")
  BY Zenon, <1>1 DEF Holds
<1>3. CASE notConnected
  BY Zenon, <1>1, <1>3 DEF ReportInv
<1>4. CASE ~notConnected
  <2>0. Told /\ LastSignal /\ Leaving
    BY <1>4 DEF ReportInv
  <2>1. conn_state' = CASE mainloop = "Up" -> "CONNECTED"
                        [] mainloop = "Down" -> "DISCONNECTED"
                        [] OTHER -> conn_state
    BY DEF DeviceChanged
  <2>2. /\ mainloop = "Up" => conn_state' = "CONNECTED"
        /\ mainloop = "Down" => conn_state' = "DISCONNECTED"
        /\ mainloop = "Other" => conn_state' = conn_state
    BY <2>1
  <2>3. \/ old # conn_state' /\ on_central_state_changed(conn_state')
        \/ old = conn_state' /\ UNCHANGED <<sg_device, bus, evt>>
    BY DEF DeviceChanged
  <2>4. conn_state' \in States /\ Fits(old)
    BY Zenon, <1>1, <2>0 DEF GapTypeOK, Told
  <2>5. Fits(conn_state)'
    <3>1. CASE old = conn_state'
      BY Zenon, <2>3, <2>4, <3>1 DEF Fits
    <3>2. CASE old # conn_state'
      <4>1. /\ sg_device' = IF conn_state' = "DISCONNECTING" THEN sg_device ELSE conn_state' = "CONNECTED"
            /\ evt' = conn_state'
        BY Zenon, <2>3, <3>2 DEF on_central_state_changed
      <4>2. CASE conn_state' = "DISCONNECTING"
        <5>1. mainloop = "Other" /\ old = "CONNECTED"
          BY Zenon, <1>1, <2>0, <2>2, <3>2, <4>2 DEF Signals, Told
        <5> QED
          BY Zenon, <2>4, <4>1, <4>2, <5>1 DEF Fits
      <4>3. CASE conn_state' # "DISCONNECTING"
        <5>1. sg_device' = (conn_state' = "CONNECTED")
          BY Zenon, <4>1, <4>3
        <5>2. conn_state' \in {"CONNECTED", "DISCONNECTED"}
          BY <2>4, <4>3 DEF States
        <5> QED
          BY Zenon, <4>1, <5>1, <5>2 DEF Fits
      <4> QED
        BY Zenon, <4>2, <4>3
    <3> QED
      BY Zenon, <3>1, <3>2
  <2>6. Told'
    BY Zenon, <1>1, <2>5 DEF Told, Signals
  <2>7. LastSignal'
    <3>1. Believed' = Believed
      BY Zenon, <1>1, <2>2 DEF Believed, Signals
    <3> QED
      BY Zenon, <1>1, <2>0, <3>1 DEF LastSignal, Link
  <2>8. Leaving'
    <3> SUFFICES ASSUME conn_state' = "DISCONNECTING"
                 PROVE  Holds(bus, "Disconnect")' \/ Holds(inbox, "Down")'
      BY Zenon DEF Leaving
    <3>1. mainloop = "Other" /\ conn_state = "DISCONNECTING"
      BY Zenon, <1>1, <2>2 DEF Signals
    <3>2. bus' = bus
      BY Zenon, <2>3 DEF on_central_state_changed
    <3> QED
      BY Zenon, <1>2, <2>0, <3>1, <3>2 DEF Leaving, Holds
  <2> QED
    BY Zenon, <1>1, <1>2, <2>6, <2>7, <2>8 DEF ReportInv
<1> QED
  BY Zenon, <1>3, <1>4

(* Every step keeps what the application was told in line with the link. *)
LEMMA ReportStep ==
    ASSUME ReportInv, GapTypeOK', [GapNext]_gapVars
    PROVE  ReportInv'
<1>0. bus \in Seq(Calls)
  BY Zenon DEF ReportInv, GapTypeOK
<1>1. ASSUME \/ \E i \in Intervals : AdvStartMin(i)
             \/ AdvStartMax \/ tkl_ble_gap_adv_stop \/ DisconnectTest
             \/ Aborted \/ UNCHANGED gapVars
      PROVE  ReportInv'
  <2>1. UNCHANGED <<inbox, conn_state, old, evt, sg_device, link, notConnected, mainloop,
  bus>>
    BY Zenon, <1>1 DEF AdvStartMin, AdvStartMax, tkl_ble_gap_adv_stop, DisconnectTest,
       Aborted,
                gapVars, hostVars, loopVars, airVars, history
  <2> QED
    BY Zenon, <2>1, LinkUntouched
<1>2. CASE bluez_inc_start_adv
  <2>1. /\ UNCHANGED <<inbox, conn_state, old, evt, sg_device, link, notConnected, mainloop>>
        /\ bus' = bus \/ bus' = Append(bus, "Register")
    BY Zenon, <1>2 DEF bluez_inc_start_adv, hostVars, loopVars, airVars, history
  <2>2. Holds(bus, "Disconnect") => Holds(bus', "Disconnect")
    <3>1. "Register" \in Calls
      BY DEF Calls
    <3>2. Holds(bus, "Disconnect") => Holds(Append(bus, "Register"), "Disconnect")
      BY Zenon, <1>0, <3>1, HoldsAppended
    <3> QED
      BY Zenon, <2>1, <3>2
  <2> QED
    BY Zenon, <2>1, <2>2, LinkUntouched
<1>3. CASE binc_start_adv_success_cb
  <2>1. /\ UNCHANGED <<inbox, conn_state, old, evt, sg_device, link, notConnected, bus>>
        /\ {mainloop, mainloop'} \subseteq {"poll", "off", "params", "on"}
    BY Zenon, <1>3 DEF binc_start_adv_success_cb, SuccessOff, SuccessParams, SuccessOn,
       hostVars
  <2> QED
    BY Zenon, <2>1, LinkUntouched
<1>4. CASE DaemonRegister \/ DaemonUnregister
  <2>1. /\ bus # <<>> /\ Head(bus) # "Disconnect" /\ bus' = Tail(bus)
        /\ UNCHANGED <<conn_state, old, evt, sg_device, link, notConnected, mainloop>>
    BY <1>4 DEF DaemonRegister, DaemonUnregister, hostVars, loopVars, history
  <2>2. Holds(bus, "Disconnect") => Holds(bus', "Disconnect")
    BY Zenon, <1>0, <2>1, HoldsTaken
  <2>3. PICK m \in {"RegOk", "RegErr", "UnregOk", "UnregErr"} : inbox' = Append(inbox, m)
    BY <1>4 DEF DaemonRegister, DaemonUnregister, Sends
  <2>4. m \in Messages \ {"Up", "Down", "DiscErr"}
    BY Zenon DEF Messages, Signals, Replies
  <2> QED
    BY Zenon, <2>1, <2>2, <2>3, <2>4, ReplySent
<1>5. CASE OtherProperty
  <2>1. /\ inbox' = Append(inbox, "Other")
        /\ UNCHANGED <<conn_state, old, evt, sg_device, link, notConnected, mainloop, bus>>
    BY Zenon, <1>5 DEF OtherProperty, Sends, hostVars, loopVars, airVars, history
  <2>2. "Other" \in Messages \ {"Up", "Down", "DiscErr"}
    BY DEF Messages, Signals, Replies
  <2> QED
    BY Zenon, <2>1, <2>2, ReplySent
<1>6. CASE CentralConnects \/ CentralLeaves
  <2>1. PICK m \in {"Up", "Down"} : m = Link' /\ inbox' = Append(inbox, m)
    BY <1>6 DEF CentralConnects, CentralLeaves, Sends, Link
  <2>2. UNCHANGED <<conn_state, old, evt, sg_device, notConnected, mainloop, bus>>
    BY <1>6 DEF CentralConnects, CentralLeaves, hostVars, loopVars, history
  <2> QED
    BY Zenon, <2>1, <2>2, SignalFollows
<1> QED
  BY Zenon, <1>1, <1>2, <1>3, <1>4, <1>5, <1>6, DisconnectReport, DropReport,
     TakenReport, ChangedReport
  DEF GapNext, Application, MainLoop, Daemon, Central

(* Once nothing is under way, the application knows whether a central is   *)
(* connected, however its disconnects and the central's comings and goings *)
(* crossed, unless bluetoothd refused a disconnect.                        *)
THEOREM GapCentralReported == GapSpec => []CentralReported
<1>1. GapInit => ReportInv
  <2> SUFFICES ASSUME GapInit PROVE ReportInv
    OBVIOUS
  <2>1. GapTypeOK
    BY GapStarts DEF AskedInv
  <2>2. ~Holds(inbox, "DiscErr")
    BY DEF GapInit, Holds
  <2>3. Told
    BY Zenon DEF GapInit, Told, Fits, Signals
  <2>4. LastSignal
    BY DEF GapInit, LastSignal, Believed, Link
  <2>5. Leaving
    BY Zenon DEF GapInit, Leaving
  <2> QED
    BY <2>1, <2>2, <2>3, <2>4, <2>5 DEF ReportInv
<1>2. ReportInv /\ [GapNext]_gapVars => ReportInv'
  BY Zenon, GapTypedStep, ReportStep DEF ReportInv
<1> QED
  BY <1>1, <1>2, ReportInvImplies, PTL DEF GapSpec

===============================================================================
