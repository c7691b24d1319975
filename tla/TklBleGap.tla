------------------------------ MODULE TklBleGap -------------------------------
(***************************************************************************)
(* Bluetooth advertising and the link to a central: tkl_bt/tkl_bluetooth.c *)
(* on top of bt_dbus_api.c, bt_hci_adv_api.c and the adapter and device    *)
(* objects of bluez_inc.                                                   *)
(*                                                                         *)
(* Two threads run this code.  The application thread makes the tkl_ble_   *)
(* calls; the thread of bluez_inc_init runs the GLib main loop, which      *)
(* dispatches, in the order bluetoothd sent them, the answers to           *)
(* asynchronous D-Bus calls and the signals about the central's device     *)
(* object.  Both also talk to the controller directly through HCI          *)
(* commands, which do not go through bluetoothd.  Nothing is locked.       *)
(*                                                                         *)
(* The application calls after bluez_inc_init has found an adapter:        *)
(* without one the assertions of adapter.c end the process.                *)
(***************************************************************************)
EXTENDS Integers, Sequences

CONSTANTS Intervals,   \* the advertising intervals the application asks for
          MaxInbox,    \* bound: messages not yet dispatched when the central acts
          MaxBus,      \* bound: calls bluetoothd has not yet answered
          HciMayFail   \* hci_open_dev and hci_send_req may fail

VARIABLES sg_min, sg_max,   \* sg_min_adv_interval, sg_max_adv_interval
          advertising,      \* adapter->advertising
          object,           \* the advertisement object is on the D-Bus
          sg_device,        \* sg_device # NULL
          conn_state,       \* connection_state of the central's Device
          caller, want,     \* where the application thread is, and for which interval
          mainloop, old,    \* where the main loop is, and oldState
          bus, inbox,       \* calls to bluetoothd; its answers and signals
          reg, ctl, link,   \* bluetoothd's registration, the controller, the link
          evt,              \* the last event given to the GAP callback
          asked, may, fault, notConnected   \* history, for the properties

loopVars == <<mainloop, old>>
hostVars == <<advertising, object, sg_device, conn_state>>
callVars == <<sg_min, sg_max, caller, want>>
airVars == <<reg, ctl, link>>
history == <<asked, may, fault, notConnected>>
gapVars == <<hostVars, callVars, loopVars, bus, inbox, airVars, evt, history>>

(* bluetoothd advertises with intervals of its own until HCI changes them. *)
Own == 0
Signals == {"Up", "Down", "Other"}
Calls == {"Register", "Unregister", "Disconnect"}
Replies == {"RegOk", "RegErr", "UnregOk", "UnregErr", "DiscOk", "DiscErr"}
States == {"CONNECTED", "DISCONNECTED", "DISCONNECTING"}

GapTypeOK ==
    /\ {sg_min, sg_max, want} \subseteq Intervals \union {Own}
    /\ {advertising, object, sg_device, reg, link} \subseteq BOOLEAN
    /\ {asked, may, fault, notConnected} \subseteq BOOLEAN
    /\ {conn_state, old} \subseteq States
    /\ caller \in {"idle", "max", "start", "disconnect", "abort"}
    /\ mainloop \in {"poll", "off", "params", "on"} \union Signals
    /\ bus \in Seq(Calls)
    /\ inbox \in Seq(Signals \union Replies)
    /\ ctl \in [on : BOOLEAN, min : Intervals \union {Own}, max : Intervals \union {Own}]
    /\ evt \in States

GapInit ==
    /\ sg_min = Own /\ sg_max = Own /\ want = Own
    /\ advertising = FALSE /\ object = FALSE /\ sg_device = FALSE
    /\ conn_state = "DISCONNECTED" /\ old = "DISCONNECTED" /\ evt = "DISCONNECTED"
    /\ caller = "idle" /\ mainloop = "poll"
    /\ bus = <<>> /\ inbox = <<>>
    /\ reg = FALSE /\ link = FALSE
    /\ ctl = [on |-> FALSE, min |-> Own, max |-> Own]
    /\ asked = FALSE /\ may = FALSE /\ fault = FALSE /\ notConnected = FALSE

Holds(s, x) == \E k \in DOMAIN s : s[k] = x

(* A start whose registration bluetoothd has not answered, or whose answer *)
(* the main loop has not finished with.                                    *)
Outstanding ==
    Holds(bus, "Register") \/ Holds(inbox, "RegOk") \/ mainloop \in {"off", "params", "on"}

-------------------------------------------------------------------------------
(* HCI commands (bt_hci_adv_api.c): open the device, send, close.  Nobody  *)
(* looks at their results.  The controller refuses new parameters while it *)
(* is advertising.                                                         *)

tuya_hci_le_set_adv_enable(enable) == ctl' = [ctl EXCEPT !.on = enable]

tuya_hci_le_set_adv_params(min, max) ==
    ctl' = IF ctl.on THEN ctl ELSE [ctl EXCEPT !.min = min, !.max = max]

HciFails == HciMayFail /\ fault' = TRUE /\ UNCHANGED ctl

Hci(command) == (command /\ UNCHANGED fault) \/ HciFails

-------------------------------------------------------------------------------
(* The application thread.                                                 *)

(* tkl_ble_gap_adv_start stores the two intervals one after the other.     *)
AdvStartMin(i) ==
    /\ caller = "idle" /\ caller' = "max"
    /\ want' = i /\ sg_min' = i
    /\ asked' = FALSE
    /\ UNCHANGED <<sg_max, hostVars, loopVars, bus, inbox, airVars, evt, may, fault, notConnected>>

AdvStartMax ==
    /\ caller = "max" /\ caller' = "start"
    /\ sg_max' = want
    /\ UNCHANGED <<sg_min, want, hostVars, loopVars, bus, inbox, airVars, evt, history>>

(* bluez_inc_start_adv takes or creates the advertisement, and             *)
(* binc_adapter_start_advertising returns at once while `advertising` is   *)
(* set.                                                                    *)
bluez_inc_start_adv ==
    /\ caller = "start" /\ caller' = "idle"
    /\ \/ advertising /\ UNCHANGED <<hostVars, bus, history>>
       \/ /\ ~advertising
          /\ advertising' = TRUE /\ object' = TRUE
          /\ bus' = Append(bus, "Register")
          /\ asked' = TRUE /\ may' = TRUE /\ fault' = FALSE
          /\ UNCHANGED <<sg_device, conn_state, notConnected>>
    /\ UNCHANGED <<sg_min, sg_max, want, loopVars, inbox, airVars, evt>>

(* tkl_ble_gap_adv_stop switches the controller off and leaves bluetoothd  *)
(* and `advertising` as they are.                                          *)
tkl_ble_gap_adv_stop ==
    /\ caller = "idle"
    /\ \/ tuya_hci_le_set_adv_enable(FALSE) /\ may' = (may /\ Outstanding) /\ UNCHANGED fault
       \/ HciFails /\ UNCHANGED may
    /\ asked' = FALSE
    /\ UNCHANGED <<hostVars, callVars, loopVars, bus, inbox, reg, link, evt, notConnected>>

(* bluez_inc_disconnect loads sg_device for the test and again for the     *)
(* call; the main loop may clear it in between, and then the assertion of  *)
(* binc_device_disconnect ends the process.                                *)
DisconnectTest ==
    /\ caller = "idle" /\ sg_device /\ Len(bus) < MaxBus
    /\ caller' = "disconnect"
    /\ UNCHANGED <<sg_min, sg_max, want, hostVars, loopVars, bus, inbox, airVars, evt, history>>

binc_device_disconnect ==
    /\ caller = "disconnect"
    /\ caller' = IF sg_device THEN "idle" ELSE "abort"
    /\ \/ /\ sg_device /\ conn_state = "CONNECTED"
          /\ conn_state' = "DISCONNECTING"
          /\ bus' = Append(bus, "Disconnect")
       \/ ~(sg_device /\ conn_state = "CONNECTED") /\ UNCHANGED <<conn_state, bus>>
    /\ UNCHANGED <<sg_min, sg_max, want, advertising, object, sg_device,
                   loopVars, inbox, airVars, evt, history>>

-------------------------------------------------------------------------------
(* The main loop.                                                          *)

(* binc_internal_start_advertising_cb, binc_internal_stop_advertising_cb   *)
(* and binc_internal_device_disconnect_cb, up to their first HCI command.  *)
Answered(m) ==
    /\ advertising' = IF m = "RegOk" THEN TRUE
                      ELSE IF m \in {"RegErr", "UnregOk", "UnregErr"} THEN FALSE
                      ELSE advertising
    /\ object' = (object /\ m # "UnregOk")
    /\ conn_state' = IF m = "DiscErr" THEN "CONNECTED" ELSE conn_state
    /\ mainloop' = IF m = "RegOk" THEN "off" ELSE "poll"

Answer ==
    /\ mainloop = "poll" /\ inbox # <<>> /\ Head(inbox) \in Replies
    /\ inbox' = Tail(inbox)
    /\ Answered(Head(inbox))
    /\ UNCHANGED <<sg_device, callVars, old, bus, airVars, evt, history>>

(* binc_internal_device_changed reads the old state first.                 *)
DeviceSignal ==
    /\ mainloop = "poll" /\ inbox # <<>> /\ Head(inbox) \in Signals
    /\ inbox' = Tail(inbox)
    /\ mainloop' = Head(inbox) /\ old' = conn_state
    /\ UNCHANGED <<hostVars, callVars, bus, airVars, evt, history>>

CentralRestarts(state) ==
    /\ bus' = CASE state = "CONNECTED" -> Append(bus, "Unregister")
                [] state = "DISCONNECTED" -> Append(bus, "Register")
                [] OTHER -> bus
    /\ sg_device' = IF state = "DISCONNECTING" THEN sg_device ELSE state = "CONNECTED"
    /\ evt' = state

(* on_central_state_changed drops the advertisement when a central is      *)
(* there, and leaves it to the application to advertise again.             *)
on_central_state_changed(state) ==
    /\ bus' = IF state = "CONNECTED" THEN Append(bus, "Unregister") ELSE bus
    /\ sg_device' = IF state = "DISCONNECTING" THEN sg_device ELSE state = "CONNECTED"
    /\ evt' = state

(* The rest of binc_internal_device_changed: the properties are stored and *)
(* the callback is made when the state is another one than before.  While  *)
(* the application thread disconnects, the state it set may be seen here;  *)
(* the event then has no type.                                             *)
DeviceChanged ==
    /\ mainloop \in Signals /\ mainloop' = "poll"
    /\ LET new == CASE mainloop = "Up" -> "CONNECTED"
                    [] mainloop = "Down" -> "DISCONNECTED"
                    [] OTHER -> conn_state
       IN /\ conn_state' = new
          /\ \/ old # new /\ on_central_state_changed(new)
             \/ old = new /\ UNCHANGED <<sg_device, bus, evt>>
    /\ UNCHANGED <<advertising, object, callVars, old, inbox, airVars, history>>

SuccessLeavesOn ==
    mainloop = "off" /\ mainloop' = "params" /\ UNCHANGED <<ctl, fault>>

(* binc_start_adv_success_cb: off, the parameters last asked for, on.      *)
SuccessOff ==
    /\ mainloop = "off" /\ mainloop' = "params"
    /\ Hci(tuya_hci_le_set_adv_enable(FALSE))

SuccessParams ==
    /\ mainloop = "params" /\ mainloop' = "on"
    /\ Hci(tuya_hci_le_set_adv_params(sg_min, sg_max))

SuccessOn ==
    /\ mainloop = "on" /\ mainloop' = "poll"
    /\ Hci(tuya_hci_le_set_adv_enable(TRUE))

binc_start_adv_success_cb ==
    /\ SuccessOff \/ SuccessParams \/ SuccessOn
    /\ UNCHANGED <<hostVars, callVars, old, bus, inbox, reg, link, evt, asked, may, notConnected>>

-------------------------------------------------------------------------------
(* bluetoothd and the air (external).                                      *)

Sends(m) == inbox' = Append(inbox, m)

(* RegisterAdvertisement: bluetoothd sets intervals of its own, switches   *)
(* the controller on and answers; or it refuses.                           *)
DaemonRegister ==
    /\ bus # <<>> /\ Head(bus) = "Register" /\ bus' = Tail(bus)
    /\ \/ /\ object /\ ~reg
          /\ reg' = TRUE /\ ctl' = [on |-> TRUE, min |-> Own, max |-> Own]
          /\ Sends("RegOk") /\ UNCHANGED fault
       \/ Sends("RegErr") /\ fault' = TRUE /\ UNCHANGED <<reg, ctl>>
    /\ UNCHANGED <<hostVars, callVars, loopVars, link, evt, asked, may, notConnected>>

DaemonUnregister ==
    /\ bus # <<>> /\ Head(bus) = "Unregister" /\ bus' = Tail(bus)
    /\ \/ reg /\ reg' = FALSE /\ ctl' = [ctl EXCEPT !.on = FALSE] /\ Sends("UnregOk")
       \/ ~reg /\ Sends("UnregErr") /\ UNCHANGED <<reg, ctl>>
    /\ UNCHANGED <<hostVars, callVars, loopVars, link, evt, history>>

DaemonDisconnect ==
    /\ bus # <<>> /\ Head(bus) = "Disconnect" /\ bus' = Tail(bus)
    /\ \/ /\ link /\ link' = FALSE
          /\ inbox' = Append(Append(inbox, "Down"), "DiscOk")
          /\ UNCHANGED notConnected
       \/ ~link /\ Sends("DiscErr") /\ notConnected' = TRUE /\ UNCHANGED link
    /\ UNCHANGED <<hostVars, callVars, loopVars, reg, ctl, evt, asked, may, fault>>

Daemon ==
    /\ caller # "abort"
    /\ DaemonRegister \/ DaemonUnregister \/ DaemonDisconnect

(* A central connects, which ends advertising, and leaves; other           *)
(* properties of its device object change.                                 *)
CentralConnects ==
    /\ ctl.on /\ ~link /\ Len(inbox) < MaxInbox /\ Len(bus) < MaxBus
    /\ link' = TRUE /\ ctl' = [ctl EXCEPT !.on = FALSE]
    /\ Sends("Up")
    /\ asked' = FALSE /\ may' = (may /\ Outstanding)
    /\ UNCHANGED <<hostVars, callVars, loopVars, bus, reg, evt, fault, notConnected>>

CentralLeaves ==
    /\ link /\ Len(inbox) < MaxInbox
    /\ link' = FALSE /\ Sends("Down")
    /\ UNCHANGED <<hostVars, callVars, loopVars, bus, reg, ctl, evt, history>>

OtherProperty ==
    /\ link /\ Len(inbox) < MaxInbox
    /\ Sends("Other")
    /\ UNCHANGED <<hostVars, callVars, loopVars, bus, airVars, evt, history>>

Aborted == caller = "abort" /\ UNCHANGED gapVars

Application ==
    \/ \E i \in Intervals : AdvStartMin(i)
    \/ AdvStartMax \/ bluez_inc_start_adv
    \/ tkl_ble_gap_adv_stop
    \/ DisconnectTest \/ binc_device_disconnect

MainLoop ==
    /\ caller # "abort"
    /\ Answer \/ DeviceSignal \/ DeviceChanged \/ binc_start_adv_success_cb

Central ==
    /\ caller # "abort"
    /\ CentralConnects \/ CentralLeaves \/ OtherProperty

GapNext == Application \/ MainLoop \/ Daemon \/ Central \/ Aborted

-------------------------------------------------------------------------------
(* The controller advertises only on behalf of a start: a stop or a        *)
(* connection that finds no start under way is final until the next one    *)
(* (bluetoothd's answer to an earlier start may still undo it).            *)
AdvertisesOnlyWhenAsked == ctl.on => may

(* Once nothing is under way, the last event the application was given     *)
(* says whether a central is connected, unless a disconnect came too late  *)
(* and bluetoothd answered that there is no connection: the answer's       *)
(* handler then takes the device for connected.                            *)
CentralReported ==
    mainloop = "poll" /\ inbox = <<>> /\ bus = <<>> /\ ~notConnected =>
        /\ evt = IF link THEN "CONNECTED" ELSE "DISCONNECTED"
        /\ sg_device = link

(* A start that reaches bluetoothd, and is neither stopped nor answered by *)
(* a central, ends with the controller advertising at the interval asked   *)
(* for, although bluetoothd first sets another one.                        *)
Steady(i) == asked /\ caller = "idle" /\ want = i /\ ~fault
AdvertisesAsAsked ==
    \A i \in Intervals :
        <>[]Steady(i) => <>[](ctl = [on |-> TRUE, min |-> i, max |-> i])

GapSpec == GapInit /\ [][GapNext]_gapVars /\ WF_gapVars(MainLoop) /\ WF_gapVars(Daemon)
===============================================================================
