-------------------------------- MODULE TklGpio --------------------------------
(***************************************************************************)
(* One pin of the GPIO driver tuyaos_adapter/src/tkl_gpio.c: its callers,  *)
(* whose calls hold g_gpio_lock and are one step, and the interrupt thread *)
(* that tkl_gpio_irq_init starts.  The kernel (external) gives a line to   *)
(* one file at a time, a line handle or an event file.                     *)
(***************************************************************************)
EXTENDS Integers

CONSTANTS MaxPending,     \* bound on the edges the event file holds
          MaxLate,        \* bound on the callbacks counted in late
          ThreadMayFail,  \* pthread_create may fail
          PollKeepsFile   \* an event file that is being polled outlives its
                          \* close until the poll returns

ASSUME GpioAssumption == MaxPending \in Nat /\ MaxLate \in Nat

VARIABLES direct,             \* base_cfg.direct: "in", "out"
          handle,             \* line handle: "none", "in", "out"
          event,              \* event_fd is open
          irq_enabled, irq_thread_started,
          mode,               \* irq_cfg.mode: "edge", "level", "none"
          irq_file,               \* event file: "none", "open", "orphan"
          irqs,            \* edges it holds
          irq_thread,             \* step of gpio_irq_thread
          enabled, irq_mode,  \* what the thread copied under the lock
          rt,                 \* result of the last tkl_gpio_irq_init
          late                \* history: callbacks since irq_disable

pin == <<direct, handle, event, irq_enabled, irq_thread_started, mode>>
local == <<enabled, irq_mode>>
gpio == <<pin, irq_file, irqs, irq_thread, local, rt, late>>

GpioInit ==
    /\ direct = "in" /\ handle = "none" /\ event = FALSE
    /\ irq_enabled = FALSE /\ irq_thread_started = FALSE /\ mode = "none"
    /\ irq_file = "none" /\ irqs = 0
    /\ irq_thread = "none" /\ enabled = FALSE /\ irq_mode = "none"
    /\ rt = "none" /\ late = 0

-------------------------------------------------------------------------------
(* ensure_line_handle_locked: the handle after it; it is refused while an  *)
(* event file holds the line or when the chip cannot be opened.            *)
LineHandles(d) ==
    IF handle # "none" THEN {handle}
    ELSE {"none"} \cup (IF irq_file = "none" THEN {d} ELSE {})

tkl_gpio_init(d) ==
    /\ direct' = d
    /\ handle' \in IF d = "out"
                   THEN {"none"} \cup (IF irq_file = "none" THEN {d} ELSE {})
                   ELSE {"none"}
    /\ UNCHANGED <<event, irq_enabled, irq_thread_started, mode, irq_file, irqs,
                   irq_thread, local, rt, late>>

(* close_event_fd_locked *)
CloseEvent ==
    /\ event' = FALSE
    /\ IF irq_file = "open" /\ irq_thread = "poll" /\ PollKeepsFile
       THEN irq_file' = "orphan" /\ UNCHANGED irqs
       ELSE IF irq_file = "open" THEN irq_file' = "none" /\ irqs' = 0
            ELSE UNCHANGED <<irq_file, irqs>>

tkl_gpio_deinit ==
    /\ irq_enabled' = FALSE
    /\ late' = IF irq_enabled THEN 0 ELSE late
    /\ CloseEvent
    /\ handle' = "none"
    /\ UNCHANGED <<direct, irq_thread_started, mode, irq_thread, local, rt>>

(* tkl_gpio_write and tkl_gpio_read; the level itself is left out. *)
tkl_gpio_access ==
    /\ handle' \in LineHandles(direct)
    /\ UNCHANGED <<direct, event, irq_enabled, irq_thread_started, mode, irq_file,
                   irqs, irq_thread, local, rt, late>>

(* request_event_fd_locked can succeed: there is a file, or the line is   *)
(* free once the handle is closed.                                         *)
EventAvailable == event \/ irq_file = "none"

tkl_gpio_irq_init(m) ==
    /\ mode' = m /\ handle' = "none"
    /\ \/ /\ EventAvailable
          /\ event' = TRUE /\ irq_file' = "open" /\ rt' = "ok"
          /\ \/ irq_thread_started /\ UNCHANGED <<irq_thread_started, irq_thread>>
             \/ ~irq_thread_started /\ irq_thread_started' = TRUE /\ irq_thread' = "load"
             \/ ThreadMayFail /\ UNCHANGED <<irq_thread_started, irq_thread>>
       \/ /\ ~event
          /\ rt' = IF irq_file = "none" THEN "error" ELSE "busy"
          /\ UNCHANGED <<event, irq_file, irq_thread_started, irq_thread>>
    /\ UNCHANGED <<direct, irq_enabled, irqs, local, late>>

tkl_gpio_irq_enable ==
    /\ irq_enabled' = TRUE
    /\ UNCHANGED <<direct, handle, event, irq_thread_started, mode, irq_file,
                   irqs, irq_thread, local, rt, late>>

tkl_gpio_irq_disable ==
    /\ irq_enabled' = FALSE
    /\ late' = IF irq_enabled THEN 0 ELSE late
    /\ UNCHANGED <<direct, handle, event, irq_thread_started, mode, irq_file,
                   irqs, irq_thread, local, rt>>

-------------------------------------------------------------------------------
(* The kernel records an edge of the line. *)
Edge ==
    /\ irq_file # "none" /\ irqs < MaxPending
    /\ irqs' = irqs + 1
    /\ UNCHANGED <<pin, irq_file, irq_thread, local, rt, late>>

ThreadLoadsOnce ==
    /\ irq_thread = "load"
    /\ irq_thread' = IF event THEN "poll" ELSE "exited"
    /\ IF irq_mode = "none" THEN enabled' = irq_enabled /\ irq_mode' = mode
       ELSE UNCHANGED local
    /\ UNCHANGED <<pin, irq_file, irqs, rt, late>>

(* gpio_irq_thread copies the pin's state under the lock. *)
ThreadLoad ==
    /\ irq_thread = "load"
    /\ irq_thread' = IF event THEN "poll" ELSE "exited"
    /\ enabled' = irq_enabled /\ irq_mode' = mode
    /\ UNCHANGED <<pin, irq_file, irqs, rt, late>>

(* poll returns with an event, or for a closed file without one. *)
ThreadPoll ==
    /\ irq_thread = "poll"
    /\ \/ irqs > 0 /\ irq_thread' = "read"
       \/ irq_file = "none" /\ irq_thread' = "load"
    /\ irq_file' = IF irq_file = "orphan" THEN "none" ELSE irq_file
    /\ irqs' = IF irq_file = "orphan" THEN 0 ELSE irqs
    /\ UNCHANGED <<pin, local, rt, late>>

ReadKeepsCopy ==
    /\ irq_thread = "read"
    /\ IF event
       THEN /\ irqs > 0 /\ irqs' = irqs - 1
            /\ irq_thread' = IF enabled THEN "level" ELSE "poll"
       ELSE irq_thread' = "exited" /\ UNCHANGED irqs
    /\ UNCHANGED <<pin, irq_file, local, rt, late>>

(* read takes one event, waits for one, or fails on a closed file. *)
ThreadRead ==
    /\ irq_thread = "read"
    /\ IF event
       THEN /\ irqs > 0 /\ irqs' = irqs - 1
            /\ irq_thread' = IF enabled THEN "level" ELSE "load"
       ELSE irq_thread' = "exited" /\ UNCHANGED irqs
    /\ UNCHANGED <<pin, irq_file, local, rt, late>>

(* In a level mode the pin is read, which fails while the event file holds *)
(* the line; only a level that was read can hold the callback back.        *)
ThreadLevel ==
    /\ irq_thread = "level"
    /\ IF irq_mode = "level"
       THEN /\ handle' \in LineHandles(direct)
            /\ irq_thread' \in {"callback"} \cup
                 (IF handle' # "none" THEN {"load"} ELSE {})
       ELSE irq_thread' = "callback" /\ UNCHANGED handle
    /\ UNCHANGED <<direct, event, irq_enabled, irq_thread_started, mode, irq_file,
                   irqs, local, rt, late>>

(* irq_cfg.cb *)
ThreadCallback ==
    /\ irq_thread = "callback"
    /\ irq_thread' = "load"
    /\ late' = IF irq_enabled \/ late = MaxLate THEN late ELSE late + 1
    /\ UNCHANGED <<pin, irq_file, irqs, local, rt>>

gpio_irq_thread ==
    ThreadLoad \/ ThreadPoll \/ ThreadRead \/ ThreadLevel \/ ThreadCallback

-------------------------------------------------------------------------------
GpioNext ==
    \/ \E d \in {"in", "out"} : tkl_gpio_init(d)
    \/ \E m \in {"edge", "level"} : tkl_gpio_irq_init(m)
    \/ tkl_gpio_deinit \/ tkl_gpio_access
    \/ tkl_gpio_irq_enable \/ tkl_gpio_irq_disable
    \/ Edge \/ gpio_irq_thread

GpioSpec == GpioInit /\ [][GpioNext]_gpio

-------------------------------------------------------------------------------
(* Properties *)

(* Type invariant. *)
GpioTypeOK ==
    /\ direct \in {"in", "out"} /\ handle \in {"none", "in", "out"}
    /\ event \in BOOLEAN /\ irq_enabled \in BOOLEAN
    /\ irq_thread_started \in BOOLEAN
    /\ mode \in {"none", "edge", "level"} /\ irq_mode \in {"none", "edge", "level"}
    /\ irq_file \in {"none", "open", "orphan"} /\ (event <=> irq_file = "open")
    /\ irqs \in 0..MaxPending /\ late \in 0..MaxLate /\ enabled \in BOOLEAN
    /\ irq_thread \in {"none", "load", "poll", "read", "level", "callback", "exited"}
    /\ rt \in {"none", "ok", "busy", "error"}

(* Whatever was done with the pin before, also by the thread, requesting   *)
(* its interrupt does not fail because the driver itself holds the line.   *)
IrqInitNeverBusy == rt # "busy"

(* The thread decides on a copy of irq_enabled that is as old as its poll. *)
(* After irq_disable, until irq_enable, that lets through one callback and *)
(* no more.                                                                *)
AtMostOneLateCallback == GpioTypeOK /\ late <= 1

(* An interrupt that stays enabled on a pin whose thread lives goes on     *)
(* calling back as edges go on coming, although the thread misses edges    *)
(* that it reads with an old copy of irq_enabled.                          *)
GoesOnCalling ==
    (/\ <>[](irq_enabled /\ event /\ mode = "edge" /\ irq_thread # "exited" /\ irq_thread # "none")
     /\ []<>(irqs > 0))
        => []<>(irq_thread = "callback")
===============================================================================
