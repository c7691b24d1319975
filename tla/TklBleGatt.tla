------------------------------ MODULE TklBleGatt ------------------------------
(***************************************************************************)
(* Bluetooth services and their handles: the GATT part of                  *)
(* tkl_bt/tkl_bluetooth.c and bt_dbus_api.c.                               *)
(*                                                                         *)
(* tkl_ble_gatts_service_add builds an application of services and         *)
(* characteristics and gives each characteristic a handle: the number of   *)
(* characteristics so far plus Base times the number of services so far.   *)
(* Two tables that only grow, serv_map and char_map, take a handle back to *)
(* the UUIDs when the application notifies, and a UUID to a handle when a  *)
(* central reads or writes; the main loop looks things up while the        *)
(* application thread is still adding.                                     *)
(***************************************************************************)
EXTENDS Integers, Sequences

CONSTANTS Base,        \* 10 in the source: characteristics that fit a service's handles
          MAX_SERVS,   \* entries of serv_map
          MAX_CHARS,   \* entries of char_map
          Offers,      \* what the application may add: sequences of services
          MaxAdds      \* bound: calls of service_add

VARIABLES serv_map, char_map,   \* sequences of [uuid, index]; the counts are their lengths
          app,                  \* [servs, chars] of the application object `app`
          published,            \* characteristics bluetoothd knows of
          todo, open,           \* services still to add; the first one has been added
          adds,                 \* calls made
          given,                \* history: every handle given, with what it was given for
          notified, event       \* the last notification and the last GATT event

gattVars == <<serv_map, char_map, app, published, todo, open, adds, given, notified, event>>

NoHandle == 65535   \* 0xFFFF
Nothing == <<>>

Servs == UNION {{o[k].uuid : k \in DOMAIN o} : o \in Offers}
Chars ==
    UNION {UNION {{o[k].chars[i] : i \in DOMAIN o[k].chars} : k \in DOMAIN o} : o \in Offers}
ASSUME GattAssumption ==
    /\ Base \in Nat \ {0} /\ MAX_SERVS \in Nat /\ MAX_CHARS \in Nat
    /\ Offers \subseteq Seq([uuid : Servs, chars : Seq(Chars)])

Handles == 0 .. (MAX_CHARS + MAX_SERVS * Base) \union {NoHandle}

GattTypeOK ==
    /\ serv_map \in Seq([uuid : Servs, index : Nat]) /\ Len(serv_map) <= MAX_SERVS
    /\ char_map \in Seq([uuid : Chars, index : Nat]) /\ Len(char_map) <= MAX_CHARS
    /\ app.servs \subseteq Servs /\ app.chars \subseteq Servs \X Chars
    /\ published \subseteq Servs \X Chars
    /\ open \in BOOLEAN /\ (open => todo # <<>>)
    /\ given \subseteq [handle : Handles, serv : Servs, char : Chars, n : Nat, s : Nat]

GattInit ==
    /\ serv_map = <<>> /\ char_map = <<>>
    /\ app = [servs |-> {}, chars |-> {}] /\ published = {}
    /\ todo = <<>> /\ open = FALSE /\ adds = 0
    /\ given = {} /\ notified = Nothing /\ event = Nothing

-------------------------------------------------------------------------------
(* The tables.                                                             *)

IndexFromOne(chars, servs) == chars + (servs + 1) * Base

CharIndex(chars, servs) == chars + servs * Base

(* _add_char_info: the handle, or NoHandle when the table is full.         *)
HandleFor == IF Len(char_map) < MAX_CHARS
             THEN CharIndex(Len(char_map), Len(serv_map)) ELSE NoHandle

_add_char_info(c) ==
    char_map' = IF Len(char_map) < MAX_CHARS
                THEN Append(char_map, [uuid |-> c, index |-> HandleFor]) ELSE char_map

_add_serv_info(s) ==
    serv_map' = IF Len(serv_map) < MAX_SERVS
                THEN Append(serv_map, [uuid |-> s, index |-> Len(serv_map)]) ELSE serv_map

(* The loops stop at the first entry that matches; 0 when none does.       *)
First(I) == IF I = {} THEN 0 ELSE CHOOSE k \in I : \A i \in I : k <= i

_get_char_index_by_uuid(c) ==
    LET k == First({i \in DOMAIN char_map : char_map[i].uuid = c})
    IN IF k = 0 THEN NoHandle ELSE char_map[k].index

_get_serv_uuid_by_char_index(h) ==
    LET k == First({i \in DOMAIN serv_map : serv_map[i].index = h \div Base})
    IN IF k = 0 THEN Nothing ELSE <<serv_map[k].uuid>>

_get_char_uuid_by_char_index(h) ==
    LET k == First({i \in DOMAIN char_map : char_map[i].index = h})
    IN IF k = 0 THEN Nothing ELSE <<char_map[k].uuid>>

-------------------------------------------------------------------------------
(* tkl_ble_gatts_service_add, in the application thread.                   *)

(* bluez_inc_add_gatt replaces `app`; the one before stays registered.     *)
AddGatt(o) ==
    /\ todo = <<>> /\ adds < MaxAdds
    /\ adds' = adds + 1
    /\ app' = [servs |-> {}, chars |-> {}]
    /\ todo' = o
    /\ UNCHANGED <<serv_map, char_map, published, open, given, notified, event>>

(* A service with an invalid UUID, or one the D-Bus refuses, is left out   *)
(* with all its characteristics.                                           *)
AddService ==
    /\ todo # <<>> /\ ~open
    /\ \/ /\ open' = TRUE
          /\ app' = [app EXCEPT !.servs = @ \union {Head(todo).uuid}]
          /\ UNCHANGED <<todo, published>>
       \/ /\ todo' = Tail(todo)
          /\ published' = IF todo' = <<>> THEN published \union app.chars ELSE published
          /\ UNCHANGED <<open, app>>
    /\ UNCHANGED <<serv_map, char_map, adds, given, notified, event>>

(* So is a characteristic; its handle field keeps what it was.             *)
AddChar ==
    /\ open /\ Head(todo).chars # <<>>
    /\ LET s == Head(todo).uuid
           c == Head(Head(todo).chars)
       IN /\ todo' = [todo EXCEPT ![1] = [uuid |-> s, chars |-> Tail(Head(todo).chars)]]
          /\ \/ /\ app' = [app EXCEPT !.chars = @ \union {<<s, c>>}]
                /\ _add_char_info(c)
                /\ given' = given \union {[handle |-> HandleFor, serv |-> s, char |-> c,
                                           n |-> Len(char_map), s |-> Len(serv_map)]}
             \/ UNCHANGED <<app, char_map, given>>
    /\ UNCHANGED <<serv_map, published, open, adds, notified, event>>

(* After its characteristics the service is recorded; after the last       *)
(* service the application is registered with bluetoothd.                  *)
CloseService ==
    /\ open /\ Head(todo).chars = <<>>
    /\ _add_serv_info(Head(todo).uuid)
    /\ open' = FALSE /\ todo' = Tail(todo)
    /\ published' = IF todo' = <<>> THEN published \union app.chars ELSE published
    /\ UNCHANGED <<char_map, app, adds, given, notified, event>>

-------------------------------------------------------------------------------
(* Where bluez_inc_gatt_value_notify sends: it finds both UUIDs or returns *)
(* OPRT_INVALID_PARM; binc_application_notify then sends only what the     *)
(* current application has, and its result is not looked at.               *)
Target(h) ==
    LET found == _get_serv_uuid_by_char_index(h) \o _get_char_uuid_by_char_index(h)
    IN IF Len(found) = 2 /\ found \in app.chars THEN found ELSE Nothing

bluez_inc_gatt_value_notify(h) ==
    /\ todo = <<>>
    /\ notified' = [handle |-> h, sent |-> Target(h)]
    /\ UNCHANGED <<serv_map, char_map, app, published, todo, open, adds, given, event>>

(* on_local_char_read and on_local_char_write, in the main loop.           *)
on_local_char_access(p) ==
    /\ p \in published
    /\ event' = [char |-> p[2], handle |-> _get_char_index_by_uuid(p[2])]
    /\ UNCHANGED <<serv_map, char_map, app, published, todo, open, adds, given, notified>>

GattNext ==
    \/ \E o \in Offers : AddGatt(o)
    \/ AddService \/ AddChar \/ CloseService
    \/ \E h \in {g.handle : g \in given} \union {NoHandle} : bluez_inc_gatt_value_notify(h)
    \/ \E p \in published : on_local_char_access(p)

GattSpec == GattInit /\ [][GattNext]_gattVars

-------------------------------------------------------------------------------
(* No two characteristics are given the same handle. *)
HandlesDiffer ==
    \A g, h \in given : g.handle = h.handle /\ g # h => g.handle = NoHandle

(* Notifying with a handle that was given within the first Base reaches    *)
(* the very characteristic it was given for, as long as the current        *)
(* application has it.                                                     *)
ReachesItsOwn ==
    todo = <<>> => \A g \in given :
        g.n < Base /\ g.s < MAX_SERVS /\ <<g.serv, g.char>> \in app.chars /\ g.handle # NoHandle
            => Target(g.handle) = <<g.serv, g.char>>

(* Beyond, and after a table is full, it reaches that one or nothing,      *)
(* unless two services have a characteristic of its UUID.                  *)
InOneService(c) == \A g, h \in given : g.char = c /\ h.char = c => g.serv = h.serv

NotifiesNoOther ==
    notified = Nothing \/ notified.sent = Nothing \/ \E g \in given :
        /\ g.handle = notified.handle
        /\ notified.sent = <<g.serv, g.char>> \/ ~InOneService(g.char)

(* An event about a characteristic carries a handle given for its UUID.    *)
EventFits ==
    event = Nothing \/ event.handle = NoHandle \/ \E g \in given :
        g.handle = event.handle /\ g.char = event.char

(* A handle names one characteristic, whatever the main loop looks up      *)
(* while the application thread adds to the tables.                        *)
HandlesReachTheirOwn == HandlesDiffer /\ ReachesItsOwn /\ NotifiesNoOther /\ EventFits
===============================================================================
