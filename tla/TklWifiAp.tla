------------------------------- MODULE TklWifiAp -------------------------------
(***************************************************************************)
(* The access point: tkl_wifi_start_ap and tkl_wifi_stop_ap of tkl_wifi.c, *)
(* with wifi_ap_start and wifi_ap_stop of linux_wifi.c.  A start kills the *)
(* programs of an earlier one, writes hostapd's configuration and has the  *)
(* shell start hostapd in the background, sets the address, and does the   *)
(* same for the DHCP server udhcpd; each step may fail, and the failure    *)
(* paths do not undo the same things.  The programs are external: the      *)
(* shell's child becomes the program and reads its configuration when it   *)
(* gets to run, and until then killall does not know it by that name.      *)
(***************************************************************************)
EXTENDS Integers

CONSTANTS Cfgs,          \* configurations asked for
          ChanOk, IpOk,  \* those with a channel in 1..14; with a usable address
          Known, Wpa3    \* those with a mode hostapd_conf_prepare knows; WPA3

NoCfg == "none"
Blank == "blank"         \* the empty file WPA3 gets

VARIABLES ap_at,         \* step of wifi_ap_start
          cfg,           \* its argument
          apcfg,         \* s_tkl_wifi.apcfg
          hostapd_conf, udhcpd_conf,   \* the files
          procs,         \* [prog, conf]: running, or with conf NotYet forked
          up,            \* the interface
          ap_missed      \* history: since the last kill that got all, one got
                         \* to a child of the shell too early
apVars == <<ap_at, cfg, apcfg, hostapd_conf, udhcpd_conf, procs, up, ap_missed>>

NotYet == "forked"
Proc(prog, conf) == [prog |-> prog, conf |-> conf]

ApInit ==
    /\ ap_at = "idle" /\ cfg = NoCfg /\ apcfg = NoCfg
    /\ hostapd_conf = NoCfg /\ udhcpd_conf = NoCfg
    /\ procs = {} /\ up = FALSE /\ ap_missed = FALSE

-------------------------------------------------------------------------------
(* killall -9; process_kill_if_running only asks first. *)
Left(progs) == {p \in procs : p.prog \in progs => p.conf = NotYet}
Kill(progs) ==
    /\ procs' = Left(progs)
    /\ ap_missed' = ((ap_missed /\ progs # {"hostapd", "udhcpd"})
                     \/ \E p \in Left(progs) : p.prog \in progs)

(* system("... &") *)
Fork(prog) == procs' = procs \cup {Proc(prog, NotYet)}

(* tkl_wifi_start_ap: a wrong channel changes nothing but the interface.   *)
(* An empty address is replaced in the copy kept, not in the one used.     *)
tkl_wifi_start_ap(c) ==
    /\ ap_at = "idle"
    /\ up' = TRUE
    /\ IF c \in ChanOk THEN ap_at' = "kill" /\ cfg' = c ELSE UNCHANGED <<ap_at, cfg>>
    /\ UNCHANGED <<apcfg, hostapd_conf, udhcpd_conf, procs, ap_missed>>

KillHostapdOnly ==
    /\ ap_at = "kill" /\ ap_at' = "hostapd_conf"
    /\ Kill({"hostapd"})
    /\ UNCHANGED <<cfg, apcfg, hostapd_conf, udhcpd_conf, up>>

(* wifi_ap_start *)
KillBoth ==
    /\ ap_at = "kill" /\ ap_at' = "hostapd_conf"
    /\ Kill({"hostapd", "udhcpd"})
    /\ UNCHANGED <<cfg, apcfg, hostapd_conf, udhcpd_conf, up>>

(* hostapd_conf_prepare; the file may not be opened or written. *)
PrepareHostapd ==
    /\ ap_at = "hostapd_conf"
    /\ \/ /\ cfg \in Known /\ ap_at' = "hostapd"
          /\ hostapd_conf' = IF cfg \in Wpa3 THEN Blank ELSE cfg
       \/ cfg \in Known /\ ap_at' = "idle" /\ hostapd_conf' = NoCfg
       \/ cfg \notin Known /\ ap_at' = "idle" /\ UNCHANGED hostapd_conf
    /\ UNCHANGED <<cfg, apcfg, udhcpd_conf, procs, up, ap_missed>>

StartHostapd ==
    /\ ap_at = "hostapd" /\ ap_at' = "ip"
    /\ Fork("hostapd")
    /\ UNCHANGED <<cfg, apcfg, hostapd_conf, udhcpd_conf, up, ap_missed>>

(* wifi_set_ip and ip_prepare; hostapd goes on if they fail. *)
SetIp ==
    /\ ap_at = "ip"
    /\ ap_at' \in (IF cfg \in IpOk THEN {"udhcpd_conf"} ELSE {}) \cup {"idle"}
    /\ UNCHANGED <<cfg, apcfg, hostapd_conf, udhcpd_conf, procs, up, ap_missed>>

(* udhcpd_conf_prepare; hostapd is killed if it fails. *)
PrepareUdhcpd ==
    /\ ap_at = "udhcpd_conf"
    /\ \/ ap_at' = "udhcpd" /\ udhcpd_conf' = cfg /\ UNCHANGED <<procs, ap_missed>>
       \/ ap_at' = "idle" /\ udhcpd_conf' = NoCfg /\ Kill({"hostapd"})
    /\ UNCHANGED <<cfg, apcfg, hostapd_conf, up>>

(* The end of wifi_ap_start and of tkl_wifi_start_ap *)
StartUdhcpd ==
    /\ ap_at = "udhcpd" /\ ap_at' = "idle"
    /\ Fork("udhcpd")
    /\ apcfg' = cfg
    /\ UNCHANGED <<cfg, hostapd_conf, udhcpd_conf, up, ap_missed>>

tkl_wifi_stop_ap ==
    /\ ap_at = "idle"
    /\ Kill({"hostapd", "udhcpd"})
    /\ up' = FALSE
    /\ UNCHANGED <<ap_at, cfg, apcfg, hostapd_conf, udhcpd_conf>>

-------------------------------------------------------------------------------
(* The programs (external) *)

Exec(p) ==
    /\ p \in procs /\ p.conf = NotYet
    /\ LET conf == IF p.prog = "hostapd" THEN hostapd_conf ELSE udhcpd_conf
       IN  procs' = (procs \ {p}) \cup
                       (IF conf \in {NoCfg, Blank} THEN {} ELSE {Proc(p.prog, conf)})
    /\ UNCHANGED <<ap_at, cfg, apcfg, hostapd_conf, udhcpd_conf, up, ap_missed>>

Exit(p) ==
    /\ p \in procs /\ procs' = procs \ {p}
    /\ UNCHANGED <<ap_at, cfg, apcfg, hostapd_conf, udhcpd_conf, up, ap_missed>>

-------------------------------------------------------------------------------
ApNext ==
    \/ \E c \in Cfgs : tkl_wifi_start_ap(c)
    \/ KillBoth \/ PrepareHostapd \/ StartHostapd \/ SetIp \/ PrepareUdhcpd
    \/ StartUdhcpd
    \/ tkl_wifi_stop_ap
    \/ \E p \in procs : Exec(p) \/ Exit(p)

ApSpec == ApInit /\ [][ApNext]_apVars

-------------------------------------------------------------------------------
(* Properties *)

(* Type invariant. *)
ApTypeOK ==
    /\ ap_at \in {"idle", "kill", "hostapd_conf", "hostapd", "ip", "udhcpd_conf", "udhcpd"}
    /\ {cfg, apcfg, hostapd_conf, udhcpd_conf} \subseteq Cfgs \cup {NoCfg, Blank}
    /\ procs \subseteq [prog : {"hostapd", "udhcpd"}, conf : Cfgs \cup {NotYet}]
    /\ {up, ap_missed} \subseteq BOOLEAN

(* The configuration a process has, or will find. *)
ConfOf(p) ==
    IF p.conf # NotYet THEN p.conf
    ELSE IF p.prog = "hostapd" THEN hostapd_conf ELSE udhcpd_conf

ServerMatches ==
    ap_at = "idle" /\ ~ap_missed /\ (\E p \in procs : p.prog = "udhcpd") =>
        \A p \in procs : ConfOf(p) = apcfg \/ (p.prog = "hostapd" /\ hostapd_conf = Blank)

(* Between calls, a DHCP server that runs or is about to run, and an       *)
(* access point beside it, have the configuration of the last start that   *)
(* succeeded, the one whose address tkl_wifi_get_ip gives: no failed start *)
(* leaves a server of an earlier one with an access point of its own.      *)
(* (A kill that came before the program had its name is the exception.)    *)
DhcpMatchesAp == ApTypeOK /\ ServerMatches
===============================================================================
