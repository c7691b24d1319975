---------------------------- MODULE TklWifiEvents ----------------------------
(***************************************************************************)
(* Station status reporting of tuyaos_adapter/src/tkl_wifi/tkl_wifi.c: the *)
(* thread tkl_wifi_init starts polls the interface piece by piece while    *)
(* sta_conn_flag is set, and calls event_cb; the application connects and  *)
(* disconnects meanwhile.  The interface, wpa_supplicant and the DHCP      *)
(* client are external: the link comes and goes as it likes.               *)
(***************************************************************************)
EXTENDS Integers

CONSTANTS EventThreads,  \* the event threads the calls of tkl_wifi_init make
          ReadsMayFail   \* the mode and essid ioctls and the BSSID may fail

Connected == {"CONN_SUCCESS", "GOT_IP"}

VARIABLES sta_conn_flag,
          pc,                     \* step of each wifi_status_event_cb
          stat, last_stat,        \* its locals
          last_state,
          ap_mac, got_ip,         \* what this poll has read so far (FALSE when not needed)
          calling,                \* station_disconnect is in wifi_disconnect
          ready,                  \* managed mode and control socket present
          wanted,                 \* wpa_supplicant was told to connect
          assoc, ip,              \* the link
          late_events             \* history: events after disconnect returned

pollVars == <<pc, stat, last_stat, last_state, ap_mac, got_ip>>
linkVars == <<ready, wanted, assoc, ip>>
eventsVars == <<sta_conn_flag, pollVars, calling, linkVars, late_events>>

EventsInit ==
    /\ sta_conn_flag = FALSE /\ calling = FALSE
    /\ pc = [t \in EventThreads |-> "none"]
    /\ stat = [t \in EventThreads |-> "IDLE"]
    /\ last_stat = [t \in EventThreads |-> "IDLE"]
    /\ last_state = [t \in EventThreads |-> "none"]
    /\ ap_mac = [t \in EventThreads |-> FALSE] /\ got_ip = [t \in EventThreads |-> FALSE]
    /\ ready = FALSE /\ wanted = FALSE /\ assoc = FALSE /\ ip = FALSE
    /\ late_events = [t \in EventThreads |-> 0]

-------------------------------------------------------------------------------
(* The application. *)

(* Each call creates a thread. *)
tkl_wifi_init ==
    /\ \E t \in EventThreads : pc[t] = "none" /\ pc' = [pc EXCEPT ![t] = "wait"]
    /\ UNCHANGED <<sta_conn_flag, stat, last_stat, last_state, ap_mac, got_ip,
                   calling, linkVars, late_events>>

(* The call may still fail after it has set the flag; the link then stays  *)
(* as it is.                                                               *)
tkl_wifi_station_connect ==
    /\ ~calling
    /\ sta_conn_flag' = TRUE
    /\ wanted' \in {wanted, TRUE}
    /\ late_events' = [t \in EventThreads |-> 0]
    /\ UNCHANGED <<pollVars, calling, ready, assoc, ip>>

(* Does not set the flag. *)
tkl_wifi_station_fast_connect ==
    /\ ~calling
    /\ wanted' = TRUE
    /\ UNCHANGED <<sta_conn_flag, pollVars, calling, ready, assoc, ip, late_events>>

tkl_wifi_station_disconnect ==
    /\ ~calling /\ calling' = TRUE
    /\ sta_conn_flag' = FALSE
    /\ UNCHANGED <<pollVars, linkVars, late_events>>

(* wifi_disconnect fails and leaves the link, or the interface goes down   *)
(* and up; wpa_supplicant may not have heard of it (see TklWifiStation).   *)
DisconnectReturns ==
    /\ calling /\ calling' = FALSE
    /\ \/ UNCHANGED linkVars
       \/ wanted' \in {FALSE, wanted} /\ assoc' = FALSE /\ ip' = FALSE /\ UNCHANGED ready
    /\ UNCHANGED <<sta_conn_flag, pollVars, late_events>>

-------------------------------------------------------------------------------
(* The interface (external). *)
LinkChanges ==
    /\ \/ ready' = ~ready /\ UNCHANGED <<assoc, ip>>
       \/ wanted /\ ~assoc /\ assoc' = TRUE /\ UNCHANGED <<ready, ip>>
       \/ assoc /\ assoc' = FALSE /\ ip' \in {ip, FALSE} /\ UNCHANGED ready
       \/ assoc /\ ~ip /\ ip' = TRUE /\ UNCHANGED <<ready, assoc>>
       \/ ip /\ ip' = FALSE /\ UNCHANGED <<ready, assoc>>
    /\ UNCHANGED <<sta_conn_flag, pollVars, calling, wanted, late_events>>

-------------------------------------------------------------------------------
(* wifi_status_event_cb *)
ThreadCheckFlag(t) ==
    /\ pc[t] = "wait"
    /\ pc' = [pc EXCEPT ![t] = IF sta_conn_flag THEN "mode" ELSE "wait"]
    /\ UNCHANGED <<sta_conn_flag, stat, last_stat, last_state, ap_mac, got_ip,
                   calling, linkVars, late_events>>

(* Mode and control socket; a failed wifi_get_mode leaves mode unset. *)
StatusMode(t) ==
    /\ pc[t] = "mode"
    /\ \E managed \in IF ReadsMayFail THEN BOOLEAN ELSE {ready} :
          IF managed
          THEN pc' = [pc EXCEPT ![t] = "bssid"] /\ UNCHANGED stat
          ELSE /\ pc' = [pc EXCEPT ![t] = "wait"]
               /\ stat' = [stat EXCEPT ![t] = "IDLE"]
    /\ UNCHANGED <<sta_conn_flag, last_stat, last_state, ap_mac, got_ip,
                   calling, linkVars, late_events>>

(* wifi_get_bssid and is_valid_mac; the answer may be lost, never made up  *)
(* (see TklWifiStation).                                                   *)
StatusBssid(t) ==
    /\ pc[t] = "bssid"
    /\ \E mac \in {assoc} \cup (IF ReadsMayFail THEN {FALSE} ELSE {}) :
          ap_mac' = [ap_mac EXCEPT ![t] = mac]
    /\ pc' = [pc EXCEPT ![t] = "ip"]
    /\ UNCHANGED <<sta_conn_flag, stat, last_stat, last_state, got_ip, calling,
                   linkVars, late_events>>

(* wifi_get_ip *)
StatusIp(t) ==
    /\ pc[t] = "ip"
    /\ got_ip' = [got_ip EXCEPT ![t] = ip]
    /\ pc' = [pc EXCEPT ![t] = "essid"]
    /\ UNCHANGED <<sta_conn_flag, stat, last_stat, last_state, ap_mac, calling,
                   linkVars, late_events>>

(* wifi_check_essid_on gives 1, 0, or -1; with -1 and an access point the  *)
(* status keeps the value of an earlier poll.                              *)
StatusEssid(t) ==
    /\ pc[t] = "essid"
    /\ \E essid_on \in {IF assoc THEN 1 ELSE 0} \cup
                       (IF ReadsMayFail THEN {-1} ELSE {}) :
          LET s == IF ~ap_mac[t] \/ essid_on = 0 THEN "CONN_FAIL"
                   ELSE IF essid_on = -1 THEN stat[t]
                   ELSE IF got_ip[t] THEN "GOT_IP" ELSE "CONN_SUCCESS"
          IN  /\ stat' = [stat EXCEPT ![t] = s]
              /\ pc' = [pc EXCEPT ![t] = IF s = "IDLE" THEN "wait" ELSE "report"]
    /\ got_ip' = [got_ip EXCEPT ![t] = FALSE]
    /\ UNCHANGED <<sta_conn_flag, last_stat, last_state, ap_mac, calling,
                   linkVars, late_events>>

Event(t) == IF stat[t] \in Connected THEN "CONNECTED" ELSE "CONNECT_FAILED"

ChangedStatusOnly(t) ==
    IF stat[t] \in Connected THEN last_stat[t] # stat[t] ELSE last_state[t] # Event(t)

(* A new kind of connection, or another event than the last one. *)
Changed(t) ==
    \/ stat[t] \in Connected /\ last_stat[t] # stat[t]
    \/ last_state[t] # Event(t)

(* What a report leaves behind; last_stat stays as it is on a failure. *)
Report(t) ==
    IF Changed(t)
    THEN /\ last_state' = [last_state EXCEPT ![t] = Event(t)]
         /\ last_stat' = [last_stat EXCEPT ![t] = IF stat[t] \in Connected THEN stat[t] ELSE @]
         /\ late_events' = [late_events EXCEPT ![t] =
                              IF sta_conn_flag \/ calling THEN @ ELSE @ + 1]
    ELSE UNCHANGED <<last_state, last_stat, late_events>>

(* event_cb is called, or the poll repeats what was said. *)
ThreadReport(t) ==
    /\ pc[t] = "report" /\ Report(t)
    /\ pc' = [pc EXCEPT ![t] = "wait"]
    /\ ap_mac' = [ap_mac EXCEPT ![t] = FALSE]
    /\ UNCHANGED <<sta_conn_flag, stat, got_ip, calling, linkVars>>

wifi_status_event_cb(t) ==
    \/ ThreadCheckFlag(t) \/ StatusMode(t) \/ StatusBssid(t) \/ StatusIp(t)
    \/ StatusEssid(t) \/ ThreadReport(t)

-------------------------------------------------------------------------------
EventsNext ==
    \/ tkl_wifi_init
    \/ tkl_wifi_station_connect \/ tkl_wifi_station_fast_connect
    \/ tkl_wifi_station_disconnect \/ DisconnectReturns
    \/ LinkChanges
    \/ \E t \in EventThreads : wifi_status_event_cb(t)

EventsSpec == EventsInit /\ [][EventsNext]_eventsVars

-------------------------------------------------------------------------------
(* Properties *)

(* Type invariant. *)
EventsTypeOK ==
    /\ {sta_conn_flag, calling, ready, wanted, assoc, ip} \subseteq BOOLEAN
    /\ pc \in [EventThreads -> {"none", "wait", "mode", "bssid", "ip", "essid", "report"}]
    /\ stat \in [EventThreads -> {"IDLE", "CONN_FAIL"} \cup Connected]
    /\ last_stat \in [EventThreads -> {"IDLE"} \cup Connected]
    /\ last_state \in [EventThreads -> {"none", "CONNECTED", "CONNECT_FAILED"}]
    /\ ap_mac \in [EventThreads -> BOOLEAN] /\ got_ip \in [EventThreads -> BOOLEAN]
    /\ late_events \in [EventThreads -> Nat]

(* A poll that ends in "connected" has seen the access point in this very  *)
(* poll, also when the essid could not be read and the status is the one   *)
(* of an earlier poll, and however the link changed between the reads.     *)
ConnectedWasSeen ==
    \A t \in EventThreads : pc[t] = "report" /\ stat[t] \in Connected => ap_mac[t]

(* A poll under way when tkl_wifi_station_disconnect clears the flag may   *)
(* still call event_cb after the disconnect has returned, but each thread  *)
(* does so at most once before the next connect.                           *)
AtMostOneLateEvent == \A t \in EventThreads : late_events[t] <= 1

Settled(t) == pc[t] # "none" /\ sta_conn_flag /\ ready /\ assoc /\ ip

(* A link that stays up while reporting is on is in the end what each      *)
(* polling thread has reported last, whatever failures it reported before. *)
ConnectionReported ==
    \A t \in EventThreads : <>[]Settled(t) => <>[](last_state[t] = "CONNECTED")
=============================================================================
