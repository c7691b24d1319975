---------------------------- MODULE TklWifiStation ----------------------------
(***************************************************************************)
(* The station's conversation with wpa_supplicant: tkl_wifi.c and          *)
(* linux_wifi.c start it or have it join a network, wpa_s/wpa_command.c    *)
(* sends one command at a time over a socket of its own, and               *)
(* wpa_cli/wpa_ctrl.c opens, uses and closes that socket.  Two threads do  *)
(* this, without a lock: the application, which connects and disconnects,  *)
(* and the event thread, which asks for the BSSID.  They share the reply   *)
(* buffer and the counter that names the sockets, so one thread may wipe   *)
(* or overwrite the other's answer, and, with the same name, take the      *)
(* socket file from under it.                                              *)
(*                                                                         *)
(* wpa_supplicant is external: it carries out one request after the other, *)
(* when it likes, and sends the answer to the name the request came from.  *)
(* A reply is copied or parsed in one step.                                *)
(***************************************************************************)
EXTENDS Integers, Sequences, SequencesExt

CONSTANTS
    Nets,          \* what connect is asked for: [ssid, key, wep], key "NONE" or
                   \* "PSK", wep: the key is not as long as a WEP key ("no"), it
                   \* is ("yes"), or its length is one that only the first test
                   \* of wifi_join_network takes for one ("16 or 32")
    ScanTimeout,   \* seconds wifi_get_block_scan_result waits (3 in the code)
    Polls,         \* the event thread runs
    MayDie,        \* wpa_supplicant may end by itself
    MaxLate,       \* bound: requests that wait when one is given up (0: none is
                   \* given up before it is carried out)
    MaxNets,       \* bound: networks wpa_supplicant takes
    MaxCalls,      \* bound: calls of the application until the device reboots
    MaxLinks       \* bound: times the link comes or goes by itself until then

Threads == {"app", "poll"}
Paths == 0..MaxLate + 4      \* names of sockets
None == -1
NoOne == "nobody"

VARIABLES
    reply,         \* the static buffer
    counter,       \* wpa_ctrl_open: the name counted last
    at,            \* thread -> step of wifi_send_command
    cmd,           \* thread -> its command
    path,          \* thread -> name of its socket
    todo,          \* the application's commands after this one
    asked,         \* the network of the call, or of the call before
    id, res, mac,  \* net->id and res of wifi_join_network; the BSSID is valid
    sta_conn_flag, dhcp,
    result,        \* of the application's last call
    supp,          \* wpa_supplicant: "none", "mute" (no control interface), "up"
    owner,         \* socket name -> thread whose socket has it, or NoOne
    inbox,         \* thread -> answers its socket has received
    requests,      \* what wpa_supplicant has to do
    nets, selected, connecting, assoc,  \* its networks, and its link
    missed,        \* history: an answer of this call did not come
    mixed,         \* history: a reply of this call was not the answer, or a
                   \* request of an earlier one was still to be carried out
    collided,      \* history: two sockets had one name in this call, or before
                   \* it in a poll that overlaps it
    before,        \* history: selected network when the call began
    was,           \* history: associated at some time since the two threads
                   \* were last idle together
    calls, links   \* calls of the application and changes of the link so far

client == <<reply, counter, at, cmd, path, todo, asked, id, res, mac,
            sta_conn_flag, dhcp, result>>
daemon == <<supp, owner, inbox, requests, nets, selected, connecting, assoc>>
history == <<missed, mixed, collided, before, was, calls, links>>
vars == <<client, daemon, history>>

-------------------------------------------------------------------------------
(* Commands.  A network is a function from the parameters SET_NETWORK has  *)
(* given it to their values.                                               *)

Cmd(op) == [op |-> op, param |-> "", val |-> ""]
SetCmd(p, v) == [op |-> "SET", param |-> p, val |-> v]

(* wifi_join_network after the scan. *)
KeyCmds(net, kind) ==
    CASE kind = "NONE" -> <<SetCmd("key_mgmt", "NONE")>>
      [] kind = "WEP" -> <<SetCmd("key_mgmt", "NONE"), SetCmd("auth_alg", "SHARED OPEN"),
                           IF net.wep = "yes" THEN SetCmd("wep_key0", net.ssid)
                           ELSE Cmd("EMPTY"),
                           SetCmd("wep_tx_keyidx", "0")>>
      [] kind = "PSK" -> <<SetCmd("psk", net.ssid)>>

JoinCmds(net, kind) ==
    <<Cmd("BLACKLIST"), Cmd("ADD"), SetCmd("ssid", net.ssid)>>
       \o KeyCmds(net, kind) \o <<SetCmd("scan_ssid", "1"), Cmd("SELECT")>>

(* A key as long as a WEP key is looked up in a scan first. *)
ConnectCmds(net) ==
    IF net.wep # "no"
    THEN <<Cmd("SCAN")>> \o [i \in 1..ScanTimeout + 1 |-> Cmd("GET_STATUS")]
            \o <<Cmd("SCAN_R")>>
    ELSE JoinCmds(net, net.key)

(* wpa_config_prepare *)
ConfNet(net) ==
    [p \in {"ssid", "key_mgmt"} \cup (IF net.key = "NONE" THEN {} ELSE {"psk"}) |->
        IF p = "key_mgmt" THEN IF net.key = "NONE" THEN "NONE" ELSE "WPA-PSK"
        ELSE net.ssid]

NoNet == [ssid |-> "", key |-> "NONE", wep |-> "no"]

(* A reply; to what; whether a line of a longer one it overwrote may      *)
(* still follow it with a BSSID.                                           *)
Reply(type, n, for) == [type |-> type, n |-> n, for |-> for, old |-> FALSE]
Empty == Reply("empty", 0, Cmd("NONE"))

Init ==
    /\ reply = Empty /\ counter = 0
    /\ at = [t \in Threads |-> "idle"]
    /\ cmd = [t \in Threads |-> Cmd("NONE")]
    /\ path = [t \in Threads |-> None]
    /\ todo = <<>> /\ asked = NoNet /\ id = 0 /\ res = 0 /\ mac = FALSE
    /\ sta_conn_flag = FALSE /\ dhcp = FALSE /\ result = "none"
    /\ owner = [p \in Paths |-> NoOne]
    /\ inbox = [t \in Threads |-> <<>>] /\ requests = <<>>
    /\ supp \in {"none", "mute", "up"}
    /\ nets = IF supp = "none" THEN <<>> ELSE <<[ssid |-> "home"]>>
    /\ selected = IF supp = "none" THEN None ELSE 0
    /\ connecting = (supp # "none")
    /\ assoc \in {FALSE, supp = "up"}
    /\ missed = FALSE /\ mixed = FALSE /\ collided = FALSE
    /\ before = <<>> /\ was = FALSE /\ calls = 0 /\ links = 0

-------------------------------------------------------------------------------
(* wifi_send_command, in thread t *)

Goto(t, step) == at' = [at EXCEPT ![t] = step]

Clear(t) ==
    /\ at[t] = "clear" /\ Goto(t, "count")
    /\ reply' = Empty
    /\ UNCHANGED <<counter, cmd, path, todo, asked, id, res, mac, sta_conn_flag,
                   dhcp, result, daemon, history>>

Used == {path[t] : t \in Threads} \cup {requests[i].from : i \in DOMAIN requests}

CountStays(t) ==
    /\ at[t] = "count" /\ Goto(t, "bind")
    /\ UNCHANGED <<reply, counter, cmd, path, todo, asked, id, res, mac, sta_conn_flag,
                   dhcp, result, daemon, history>>

(* wpa_ctrl_open: counter++ gives a name never used before, for which a    *)
(* name out of use stands.                                                 *)
Count(t) ==
    /\ at[t] = "count" /\ Goto(t, "bind")
    /\ counter' = CHOOSE p \in Paths : p \notin Used
    /\ UNCHANGED <<reply, cmd, path, todo, asked, id, res, mac, sta_conn_flag,
                   dhcp, result, daemon, history>>

(* What the end of a command means to its caller. *)
Fail ==
    /\ result' = "failed" /\ todo' = <<>>
    /\ UNCHANGED <<sta_conn_flag, dhcp, connecting, assoc>>

NextCmd(c, rest) ==
    /\ cmd' = [cmd EXCEPT !["app"] = c] /\ todo' = rest
    /\ Goto("app", "clear")
    /\ UNCHANGED <<result, sta_conn_flag, dhcp, connecting, assoc>>

(* The application's call is over. *)
Return ==
    /\ cmd' = [cmd EXCEPT !["app"] = Cmd("NONE")]
    /\ Goto("app", "idle")

(* Commands whose answer is OK or not, and whose caller looks at it. *)
AckOk == {"SET", "EMPTY", "SELECT", "DISCONNECT"}

IgnoresKeyResult(ret) ==
    \/ cmd["app"].op = "ADD" /\ ret < 0
    \/ /\ cmd["app"].op \in AckOk
       /\ ret < 0 \/ (res # 0 /\ cmd["app"].param # "psk")

(* The command failed as far as wifi_join_network or                       *)
(* wifi_disconnect_network can tell.                                       *)
Rejected(ret) ==
    \/ cmd["app"].op = "ADD" /\ ret < 0
    \/ cmd["app"].op \in AckOk /\ (ret < 0 \/ res # 0)

(* wifi_get_block_scan_result, wifi_join_network, wifi_station_connect and *)
(* wifi_disconnect after a command of theirs.  The scan's results are on   *)
(* the stack of wifi_get_scan_result, which has returned: whether the      *)
(* network is found in them, with WEP, is anybody's guess.                 *)
AppDone(ret) ==
    LET op == cmd["app"].op
    IN  CASE op = "SCAN" -> NextCmd(Head(todo), Tail(todo))
          [] op = "GET_STATUS" /\ ret >= 0 ->
                NextCmd(Head(todo), Tail(todo)) \/ NextCmd(Last(todo), <<>>)
          [] op = "SCAN_R" \/ (op = "GET_STATUS" /\ ret < 0) ->
                \E kind \in {"PSK"} \cup (IF ret >= 0 THEN {"WEP"} ELSE {}) :
                   LET cs == JoinCmds(asked, kind) IN NextCmd(Head(cs), Tail(cs))
          [] Rejected(ret) -> Return /\ Fail
          [] op = "DISCONNECT" /\ ~Rejected(ret) ->
                /\ Return /\ result' = "disconnected" /\ dhcp' = FALSE
                /\ assoc' = FALSE /\ UNCHANGED <<todo, sta_conn_flag, connecting>>
          [] op = "SELECT" /\ ~Rejected(ret) ->
                /\ Return /\ result' = "connected" /\ dhcp' = TRUE
                /\ UNCHANGED <<todo, sta_conn_flag, connecting, assoc>>
          [] OTHER -> NextCmd(Head(todo), Tail(todo))

(* wifi_get_bssid returns; the event thread asks again, or waits.          *)
PollDone ==
    /\ Goto("poll", "idle") /\ mac' = FALSE
    /\ cmd' = [cmd EXCEPT !["poll"] = Cmd("NONE")]
    /\ UNCHANGED <<todo, result, sta_conn_flag, dhcp, connecting, assoc>>

Done(t, ret) ==
    /\ path' = [path EXCEPT ![t] = None]
    /\ IF t = "app" THEN AppDone(ret) /\ UNCHANGED mac ELSE PollDone

Unlink(p) == owner' = [owner EXCEPT ![p] = NoOne]

(* wpa_ctrl_open: the name is read now, after another thread may have      *)
(* counted; a file with that name is removed and the bind tried again.     *)
(* connect fails if nobody listens.                                        *)
Bind(t) ==
    /\ at[t] = "bind"
    /\ IF supp = "up"
       THEN /\ path' = [path EXCEPT ![t] = counter]
            /\ owner' = [owner EXCEPT ![counter] = t]
            /\ Goto(t, "send")
            /\ collided' = (collided \/ \E u \in Threads : path[u] = counter)
            /\ UNCHANGED <<cmd, todo, result, sta_conn_flag, dhcp, connecting, assoc,
                           mac>>
       ELSE Unlink(counter) /\ Done(t, -1) /\ UNCHANGED collided
    /\ UNCHANGED <<reply, counter, asked, id, res, supp, inbox, requests,
                   nets, selected, missed, mixed, before, was, calls, links>>

Miss(t) == missed' = (missed \/ t = "app")

(* wpa_ctrl_request: send *)
Send(t) ==
    /\ at[t] = "send"
    /\ \/ /\ supp = "up" /\ Goto(t, "recv")
          /\ requests' = Append(requests,
                [from |-> path[t], cmd |-> cmd[t], id |-> id])
          /\ UNCHANGED missed
       \/ supp # "up" /\ Goto(t, "close") /\ Miss(t) /\ UNCHANGED requests
    /\ UNCHANGED <<reply, counter, cmd, path, todo, asked, id, res, mac,
                   sta_conn_flag, dhcp, result, supp, owner, inbox, nets, selected,
                   connecting, assoc, mixed, collided, before, was, calls, links>>

(* wpa_ctrl_request: select and recv *)
Recv(t) ==
    /\ at[t] = "recv" /\ inbox[t] # <<>>
    /\ reply' = [Head(inbox[t]) EXCEPT !.old = reply.old \/ reply.type = "BSSID"]
    /\ inbox' = [inbox EXCEPT ![t] = Tail(@)]
    /\ Goto(t, "parse")
    /\ UNCHANGED <<counter, cmd, path, todo, asked, id, res, mac, sta_conn_flag,
                   dhcp, result, supp, owner, requests, nets, selected, connecting,
                   assoc, history>>

(* No answer in 10 seconds; wifi_send_command goes on as if all were well. *)
TimeOut(t) ==
    /\ at[t] = "recv" /\ inbox[t] = <<>>
    /\ \/ supp # "up" \/ Len(requests) <= MaxLate
       \/ ~\E i \in DOMAIN requests : requests[i].from = path[t]
    /\ Goto(t, "close") /\ Miss(t)
    /\ UNCHANGED <<reply, counter, cmd, path, todo, asked, id, res, mac,
                   sta_conn_flag, dhcp, result, daemon, mixed, collided, before, was, calls, links>>

(* wifi_reply_analyse: a number, OK, or a line of the status.  An empty    *)
(* reply leaves the number as it is.                                       *)
Parse(t) ==
    LET c == cmd[t].op
    IN
    /\ at[t] = "parse" /\ Goto(t, "close")
    /\ id' = IF c # "ADD" \/ reply.type = "empty" THEN id
             ELSE IF reply.type = "ID" THEN reply.n ELSE -1
    /\ res' = IF c \in AckOk
              THEN IF reply.type = "OK" THEN 0 ELSE -1 ELSE res
    /\ IF t = "poll" THEN mac' \in {reply.type = "BSSID", reply.type = "BSSID" \/ reply.old}
       ELSE UNCHANGED mac
    /\ mixed' = (mixed \/ (t = "app" /\ reply.for # cmd[t]))
    /\ UNCHANGED <<reply, counter, cmd, path, todo, asked, sta_conn_flag, dhcp,
                   result, daemon, missed, collided, before, was, calls, links>>

(* wpa_ctrl_close removes the name, whoever has it now. *)
Close(t) ==
    /\ at[t] = "close"
    /\ Unlink(path[t])
    /\ inbox' = [inbox EXCEPT ![t] = <<>>]
    /\ Done(t, 0)
    /\ UNCHANGED <<reply, counter, asked, id, res, supp, requests, nets,
                   selected, history>>

wifi_send_command(t) ==
    \/ Clear(t) \/ Count(t) \/ Bind(t) \/ Send(t) \/ Recv(t) \/ TimeOut(t)
    \/ Parse(t) \/ Close(t)

-------------------------------------------------------------------------------
(* The application and the event thread *)

(* A request of an earlier call that got another answer, or none in time. *)
Leftover == \E i \in DOMAIN requests : requests[i].cmd.op # "STATUS"

NewCall ==
    /\ at["app"] = "idle" /\ calls < MaxCalls /\ calls' = calls + 1 /\ UNCHANGED links
    /\ missed' = FALSE /\ mixed' = Leftover
    /\ collided' = (collided /\ at["poll"] # "idle")
    /\ was' = (assoc \/ (was /\ at["poll"] # "idle"))
    /\ before' = IF selected = None THEN <<>> ELSE <<selected, nets[selected + 1]>>

Begin(first, rest) ==
    /\ cmd' = [cmd EXCEPT !["app"] = first] /\ todo' = rest
    /\ Goto("app", "clear")
    /\ id' = 0 /\ res' = 0 /\ result' = "none"
    /\ NewCall

(* tkl_wifi_station_connect, wpa_supplicant running: wifi_join_network. *)
ConnectJoins(net) ==
    /\ supp = "up"
    /\ sta_conn_flag' = TRUE /\ asked' = net
    /\ Begin(Head(ConnectCmds(net)), Tail(ConnectCmds(net)))
    /\ UNCHANGED <<reply, counter, path, mac, dhcp, daemon>>

(* tkl_wifi_station_connect, wpa_supplicant absent or without control      *)
(* interface: a configuration is written, it is started again, and after   *)
(* at most 5 seconds all goes on as if it were up.                         *)
ConnectStarts(net) ==
    /\ supp # "up" /\ NewCall
    /\ sta_conn_flag' = TRUE /\ asked' = net
    /\ id' = 0 /\ res' = 0
    /\ dhcp' = TRUE /\ result' = "connected"
    /\ requests' = <<>> /\ assoc' = FALSE
    /\ \/ /\ supp' = "up"
          /\ nets' = <<ConfNet(net)>> /\ selected' = 0 /\ connecting' = TRUE
       \/ supp' = "none" /\ nets' = <<>> /\ selected' = None /\ connecting' = FALSE
    /\ UNCHANGED <<reply, counter, at, cmd, path, todo, mac, owner, inbox>>

(* More than one wpa_supplicant, or the configuration cannot be written. *)
ConnectFails(net) ==
    /\ NewCall
    /\ sta_conn_flag' = TRUE /\ asked' = net /\ result' = "failed"
    /\ UNCHANGED <<reply, counter, at, cmd, path, todo, id, res, mac, dhcp, daemon>>

tkl_wifi_station_connect(net) ==
    ConnectJoins(net) \/ ConnectStarts(net) \/ ConnectFails(net)

tkl_wifi_station_disconnect ==
    /\ sta_conn_flag' = FALSE
    /\ Begin(Cmd("DISCONNECT"), <<>>)
    /\ UNCHANGED <<reply, counter, path, asked, mac, dhcp, daemon>>

(* The event thread's wifi_get_bssid *)
PollBegin ==
    /\ Polls /\ at["poll"] = "idle" /\ sta_conn_flag /\ supp = "up"
    /\ Goto("poll", "clear")
    /\ cmd' = [cmd EXCEPT !["poll"] = Cmd("STATUS")]
    /\ was' = (assoc \/ (was /\ at["app"] # "idle"))
    /\ UNCHANGED <<reply, counter, path, todo, asked, id, res, mac, sta_conn_flag, dhcp,
                   result, daemon, missed, mixed, collided, before, calls, links>>

-------------------------------------------------------------------------------
(* wpa_supplicant (external) *)

Answer(r, type, n) ==
    /\ requests' = Tail(requests)
    /\ LET t == owner[r.from]
       IN  inbox' = IF t = NoOne THEN inbox
                    ELSE [inbox EXCEPT ![t] = Append(@, Reply(type, n, r.cmd))]

HasNet(n) == 0 <= n /\ n < Len(nets)

Supplicant ==
    /\ supp = "up" /\ requests # <<>>
    /\ LET r == Head(requests)
           op == r.cmd.op
       IN  \/ /\ op = "ADD"
              /\ \/ /\ Len(nets) < MaxNets
                    /\ nets' = Append(nets, [p \in {} |-> ""])
                    /\ Answer(r, "ID", Len(nets))
                 \/ Answer(r, "FAIL", 0) /\ UNCHANGED nets
              /\ UNCHANGED <<selected, connecting>>
           \/ /\ op = "SET"
              /\ \/ /\ HasNet(r.id)
                    /\ nets' = [nets EXCEPT ![r.id + 1] =
                          [p \in DOMAIN @ \cup {r.cmd.param} |->
                             IF p = r.cmd.param THEN r.cmd.val ELSE @[p]]]
                    /\ Answer(r, "OK", 0)
                 \/ Answer(r, "FAIL", 0) /\ UNCHANGED nets
              /\ UNCHANGED <<selected, connecting>>
           \/ /\ op = "SELECT"
              /\ \/ HasNet(r.id) /\ selected' = r.id /\ connecting' = TRUE
                    /\ Answer(r, "OK", 0)
                 \/ /\ ~HasNet(r.id) /\ Answer(r, "FAIL", 0)
                    /\ UNCHANGED <<selected, connecting>>
              /\ UNCHANGED nets
           \/ /\ op = "DISCONNECT" /\ connecting' = FALSE /\ Answer(r, "OK", 0)
              /\ UNCHANGED <<nets, selected>>
           \/ /\ op = "EMPTY" /\ Answer(r, "FAIL", 0)
              /\ UNCHANGED <<nets, selected, connecting>>
           \/ /\ op \in {"BLACKLIST", "SCAN"} /\ Answer(r, "OK", 0)
              /\ UNCHANGED <<nets, selected, connecting>>
           \/ /\ op \in {"STATUS", "GET_STATUS", "SCAN_R"}
              /\ Answer(r, IF assoc THEN "BSSID" ELSE "TEXT", 0)
              /\ UNCHANGED <<nets, selected, connecting>>
    /\ assoc' = (assoc /\ connecting' /\ selected' = selected)
    /\ UNCHANGED <<client, supp, owner, history>>

Link ==
    /\ links < MaxLinks /\ links' = links + 1
    /\ supp = "up" /\ assoc' = ~assoc /\ (assoc' => connecting)
    /\ was' = (was \/ assoc')
    /\ UNCHANGED <<client, supp, owner, inbox, requests, nets, selected, connecting,
                   missed, mixed, collided, before, calls>>

Die ==
    /\ MayDie /\ supp # "none" /\ supp' = "none"
    /\ requests' = <<>> /\ nets' = <<>> /\ selected' = None
    /\ connecting' = FALSE /\ assoc' = FALSE /\ before' = <<>>
    /\ UNCHANGED <<client, owner, inbox, missed, mixed, collided, was, calls, links>>

(* The device starts again. *)
Reboot ==
    /\ calls = MaxCalls /\ \A t \in Threads : at[t] = "idle"
    /\ reply' = Empty /\ counter' = 0
    /\ at' = [t \in Threads |-> "idle"]
    /\ cmd' = [t \in Threads |-> Cmd("NONE")]
    /\ path' = [t \in Threads |-> None]
    /\ todo' = <<>> /\ asked' = NoNet /\ id' = 0 /\ res' = 0 /\ mac' = FALSE
    /\ sta_conn_flag' = FALSE /\ dhcp' = FALSE /\ result' = "none"
    /\ owner' = [p \in Paths |-> NoOne]
    /\ inbox' = [t \in Threads |-> <<>>] /\ requests' = <<>>
    /\ supp' \in {"none", "mute", "up"}
    /\ nets' = IF supp' = "none" THEN <<>> ELSE <<[ssid |-> "home"]>>
    /\ selected' = IF supp' = "none" THEN None ELSE 0
    /\ connecting' = (supp' # "none")
    /\ assoc' \in {FALSE, supp' = "up"}
    /\ missed' = FALSE /\ mixed' = FALSE /\ collided' = FALSE
    /\ before' = <<>> /\ was' = FALSE /\ calls' = 0 /\ links' = 0

-------------------------------------------------------------------------------
Next ==
    \/ \E net \in Nets : tkl_wifi_station_connect(net)
    \/ tkl_wifi_station_disconnect
    \/ PollBegin
    \/ \E t \in Threads : wifi_send_command(t)
    \/ Supplicant \/ Link \/ Die \/ Reboot

Spec == Init /\ [][Next]_vars

-------------------------------------------------------------------------------
(* Properties *)

Ops == {"NONE", "SCAN", "GET_STATUS", "SCAN_R", "BLACKLIST", "ADD", "STATUS"} \cup AckOk
IsReply(r) ==
    /\ r.type \in {"empty", "ID", "OK", "FAIL", "BSSID", "TEXT"} /\ r.n \in 0..MaxNets
    /\ r.for.op \in Ops /\ r.old \in BOOLEAN

(* Type invariant; one request of a thread is under way at most unless its *)
(* predecessor went unanswered.                                            *)
TypeOK ==
    /\ IsReply(reply) /\ counter \in Paths
    /\ at \in [Threads -> {"idle", "clear", "count", "bind", "send", "recv", "parse",
                           "close"}]
    /\ \A t \in Threads : cmd[t].op \in Ops
    /\ path \in [Threads -> Paths \cup {None}]
    /\ asked \in Nets \cup {NoNet} /\ id \in -1..MaxNets /\ res \in {-1, 0}
    /\ {mac, sta_conn_flag, dhcp, connecting, assoc, missed, mixed, collided,
         was} \subseteq BOOLEAN
    /\ result \in {"none", "failed", "connected", "disconnected"}
    /\ supp \in {"none", "mute", "up"}
    /\ \A t \in Threads : at[t] # "idle" <=> cmd[t].op # "NONE"
    /\ \A t \in Threads : \A i \in DOMAIN inbox[t] : IsReply(inbox[t][i])

(* If the connect that returned OK got an answer to each of its requests,  *)
(* wpa_supplicant has selected a network with the ssid and the key of the  *)
(* call, however the event thread's commands fell between those of         *)
(* wifi_join_network, and though they may have wiped or overwritten its    *)
(* replies.  (A socket of the same name could also keep an old OK of its   *)
(* own and bring it up later, in place of a FAIL.)                         *)
ConnectedAsAsked ==
    result = "connected" /\ ~missed /\ ~collided /\ supp = "up" =>
        LET net == nets[selected + 1]
        IN  /\ "ssid" \in DOMAIN net /\ net["ssid"] = asked.ssid
            /\ asked.key = "NONE" => "key_mgmt" \in DOMAIN net /\ net["key_mgmt"] = "NONE"
            /\ asked.key = "PSK" =>
                  \E p \in {"psk", "wep_key0"} : p \in DOMAIN net /\ net[p] = asked.ssid

(* A connect that has not succeeded leaves the selected network as it was, *)
(* provided each reply it read was the answer to its own request, and no   *)
(* request of an earlier call was left.                                    *)
FailedConnectHarmless ==
    before # <<>> /\ result \in {"none", "failed"} /\ ~missed /\ ~mixed
       /\ cmd["app"].op # "SELECT" =>
        selected = before[1] /\ nets[selected + 1] = before[2]

(* wifi_get_bssid gives a BSSID only if the station was associated at some *)
(* time since this call, or the call of the other thread that overlaps it, *)
(* began, whoever's reply it has read.                                     *)
BssidWasTrue == mac => was

(* An answer that comes too late is never taken for the answer to a later  *)
(* request of the application: each request has a socket of its own.       *)
LateNotTaken ==
    ~collided /\ at["app"] = "parse" =>
        reply.for \in {cmd["app"], Cmd("STATUS"), Cmd("NONE")}

(* When the disconnect that got its answer returns OK, wpa_supplicant has  *)
(* given up the network.  (wifi_disconnect_network also returns 0 without  *)
(* an answer, though it promises "0:ok, -1:error".)                        *)
DisconnectedIsDone == result = "disconnected" /\ ~missed /\ ~collided => ~connecting
===============================================================================
