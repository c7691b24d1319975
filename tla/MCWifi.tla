-------------------------------- MODULE MCWifi --------------------------------
(***************************************************************************)
(* Wi-Fi stations and access points for TLC.  A behaviour is in one of     *)
(* four scenarios:                                                         *)
(*   alone  connects of every kind and disconnects, no event thread        *)
(*   slow   two calls of a station whose wpa_supplicant may be slow or die *)
(*   polled one call of a station beside the event thread                  *)
(*   ap     starts and stops of the access point                           *)
(***************************************************************************)
EXTENDS TklWifiAp, Sequences

VARIABLES scenario,
          reply, counter, at, cmd, path, todo, asked, id, res, mac, sta_conn_flag,
          dhcp, result, supp, owner, inbox, requests, nets, selected, connecting,
          assoc, missed, mixed, collided, before, was, calls, links

station == <<reply, counter, at, cmd, path, todo, asked, id, res, mac, sta_conn_flag,
             dhcp, result, supp, owner, inbox, requests, nets, selected, connecting,
             assoc, missed, mixed, collided, before, was, calls, links>>
all == <<scenario, station, apVars>>

Net(s, k, w) == [ssid |-> s, key |-> k, wep |-> w]
Psk == Net("a", "PSK", "no")
Kinds == {Psk, Net("b", "NONE", "no"), Net("c", "PSK", "yes"), Net("d", "PSK", "16 or 32")}

Alone == INSTANCE TklWifiStation WITH
    Nets <- Kinds, ScanTimeout <- 1, Polls <- FALSE, MayDie <- FALSE,
    MaxLate <- 0, MaxNets <- 2, MaxCalls <- 2, MaxLinks <- 0
Slow == INSTANCE TklWifiStation WITH
    Nets <- {Psk}, ScanTimeout <- 0, Polls <- FALSE, MayDie <- TRUE,
    MaxLate <- 1, MaxNets <- 2, MaxCalls <- 2, MaxLinks <- 1
Polled == INSTANCE TklWifiStation WITH
    Nets <- {Psk}, ScanTimeout <- 0, Polls <- TRUE, MayDie <- FALSE,
    MaxLate <- 0, MaxNets <- 2, MaxCalls <- 1, MaxLinks <- 0

Stations == {"alone", "slow", "polled"}

WifiInit ==
    /\ scenario \in Stations \cup {"ap"}
    /\ ApInit
    /\ Slow!Init
    /\ scenario = "ap" => supp = "none"

WifiNext ==
    \/ scenario = "alone" /\ Alone!Next /\ UNCHANGED <<scenario, apVars>>
    \/ scenario = "slow" /\ Slow!Next /\ UNCHANGED <<scenario, apVars>>
    \/ scenario = "polled" /\ Polled!Next /\ UNCHANGED <<scenario, apVars>>
    \/ scenario = "ap" /\ ApNext /\ UNCHANGED <<scenario, station>>

WifiSpec == WifiInit /\ [][WifiNext]_all

In(s, P) == scenario = s => P

-------------------------------------------------------------------------------
(* A connect or a disconnect that returned OK, having got an answer to     *)
(* each request, has made wpa_supplicant select what was asked for or give *)
(* up, also beside the event thread; a connect that failed, or is not done *)
(* yet, has left the selected network alone.                               *)
CallsDoAsAsked ==
    /\ In("alone", /\ Alone!TypeOK /\ Alone!ConnectedAsAsked
                   /\ Alone!FailedConnectHarmless /\ Alone!DisconnectedIsDone)
    /\ In("slow", /\ Slow!TypeOK /\ Slow!ConnectedAsAsked
                  /\ Slow!FailedConnectHarmless /\ Slow!DisconnectedIsDone)
    /\ In("polled", /\ Polled!ConnectedAsAsked
                    /\ Polled!FailedConnectHarmless /\ Polled!DisconnectedIsDone)

(* An answer that is late is not taken for that to a later request, and a  *)
(* BSSID is given only if there was one.                                   *)
AnswersTruthful ==
    /\ In("slow", Slow!LateNotTaken)
    /\ In("polled", Polled!LateNotTaken /\ Polled!BssidWasTrue)
===============================================================================
