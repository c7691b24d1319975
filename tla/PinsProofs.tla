---------------------------- MODULE PinsProofs -----------------------------
(***************************************************************************)
(* Proofs about the pins: the GPIO interrupt of TklGpio and the channels   *)
(* of TklPwm.                                                              *)
(***************************************************************************)
EXTENDS TklGpio, TklPwm, TLAPS

-----------------------------------------------------------------------------

(* The empty sequence, and what is not empty. *)
LEMMA SeqEmpty ==
    ASSUME NEW S
    PROVE  /\ <<>> \in Seq(S) /\ Len(<<>>) = 0
           /\ \A s \in Seq(S) : s # <<>> => Len(s) \in Nat \ {0}
  OBVIOUS

(* A sequence is a function on 1 .. its length. *)
LEMMA SeqTyped ==
    ASSUME NEW S, NEW s \in Seq(S)
    PROVE  Len(s) \in Nat /\ s \in [1..Len(s) -> S] /\ DOMAIN s = 1..Len(s)
  OBVIOUS

(* The first element and the rest. *)
LEMMA SeqTail ==
    ASSUME NEW S, NEW s \in Seq(S), s # <<>>
    PROVE  /\ Head(s) \in S /\ Tail(s) \in Seq(S)
           /\ Len(Tail(s)) = Len(s) - 1
           /\ \A i \in 1..Len(Tail(s)) : Tail(s)[i] = s[i + 1]
  OBVIOUS
(* GPIO *)

(* AtMostOneLateCallback for any bounds.  Once a callback came late, the   *)
(* thread is not on its way to another one, and its copy of irq_enabled,   *)
(* where it has one, is not the old one.                                   *)
LateOnce ==
    /\ late \in {0, 1}
    /\ ~irq_enabled /\ late = 1 =>
          /\ irq_thread \notin {"level", "callback"}
          /\ irq_thread \in {"poll", "read"} => ~enabled

(* The counters of edges and of late callbacks stay within their bounds. *)
LEMMA GpioCounters ==
    GpioTypeOK /\ [GpioNext]_gpio => irqs' \in 0..MaxPending /\ late' \in 0..MaxLate
<1> SUFFICES ASSUME GpioTypeOK, [GpioNext]_gpio
             PROVE  irqs' \in 0..MaxPending /\ late' \in 0..MaxLate
  OBVIOUS
<1>1. irqs \in 0..MaxPending /\ late \in 0..MaxLate
  BY DEF GpioTypeOK
<1>2. \/ irqs' \in {0, irqs} \/ (irqs < MaxPending /\ irqs' = irqs + 1)
      \/ (irqs > 0 /\ irqs' = irqs - 1)
  BY Zenon DEF GpioNext, gpio, gpio_irq_thread, tkl_gpio_init, tkl_gpio_irq_init,
     tkl_gpio_deinit,
     CloseEvent, tkl_gpio_access, tkl_gpio_irq_enable, tkl_gpio_irq_disable, Edge,
     ThreadLoad, ThreadPoll, ThreadRead, ThreadLevel, ThreadCallback
<1>3. late' \in {0, late} \/ (late # MaxLate /\ late' = late + 1)
  BY DEF GpioNext, gpio, gpio_irq_thread, tkl_gpio_init, tkl_gpio_irq_init, tkl_gpio_deinit,
     tkl_gpio_access, tkl_gpio_irq_enable, tkl_gpio_irq_disable, Edge,
     ThreadLoad, ThreadPoll, ThreadRead, ThreadLevel, ThreadCallback
<1> QED
  BY <1>1, <1>2, <1>3, GpioAssumption

(* The types hold at start. *)
LEMMA GpioInitTyped == GpioInit => GpioTypeOK
<1>1. 0 \in 0..MaxPending /\ 0 \in 0..MaxLate
  BY GpioAssumption
<1> QED
  BY Zenon, <1>1 DEF GpioInit, GpioTypeOK

(* Every step keeps the types of the GPIO state. *)
LEMMA GpioTyped == GpioTypeOK /\ [GpioNext]_gpio => GpioTypeOK'
<1> SUFFICES ASSUME GpioTypeOK, [GpioNext]_gpio PROVE GpioTypeOK'
  OBVIOUS
<1>0. irqs' \in 0..MaxPending /\ late' \in 0..MaxLate
  BY GpioCounters
<1> USE <1>0 DEF GpioTypeOK
<1>h. LineHandles(direct) \subseteq {"none", "in", "out"}
  BY DEF LineHandles
<1>1. CASE UNCHANGED gpio
  BY <1>1 DEF gpio, pin, local
<1>2. ASSUME NEW d \in {"in", "out"}, tkl_gpio_init(d) PROVE GpioTypeOK'
  BY <1>2 DEF tkl_gpio_init, local
<1>3. ASSUME NEW m \in {"edge", "level"}, tkl_gpio_irq_init(m) PROVE GpioTypeOK'
  <2>1. CASE event' = TRUE /\ irq_file' = "open"
    <3>1. /\ irq_thread_started' \in BOOLEAN
          /\ irq_thread' \in {"none", "load", "poll", "read", "level", "callback", "exited"}
          /\ rt' \in {"ok", "busy", "error"} /\ mode' \in {"edge", "level"} /\ handle' = "none"
          /\ UNCHANGED <<direct, irq_enabled, local>>
      BY Zenon, <1>3 DEF tkl_gpio_irq_init
    <3> QED
      BY Zenon, <2>1, <3>1 DEF local
  <2>2. CASE UNCHANGED <<event, irq_file, irq_thread_started, irq_thread>>
    <3>1. /\ rt' \in {"ok", "busy", "error"} /\ mode' \in {"edge", "level"} /\ handle' = "none"
          /\ UNCHANGED <<direct, irq_enabled, local>>
      BY Zenon, <1>3 DEF tkl_gpio_irq_init
    <3> QED
      BY <2>2, <3>1 DEF local
  <2> QED
    BY Zenon, <1>3, <2>1, <2>2 DEF tkl_gpio_irq_init
<1>4. CASE tkl_gpio_deinit
  <2>1. /\ event' = FALSE /\ irq_file' \in {"none", "orphan"} /\ irq_enabled' = FALSE
        /\ handle' = "none"
           /\ UNCHANGED <<direct, irq_thread_started, mode, irq_thread, local, rt>>
    BY <1>4 DEF tkl_gpio_deinit, CloseEvent
  <2>2. /\ (event' <=> irq_file' = "open") /\ event' \in BOOLEAN /\ irq_enabled' \in BOOLEAN
        /\ irq_file' \in {"none", "open", "orphan"} /\ handle' \in {"none", "in", "out"}
    BY Zenon, <2>1
  <2>3. UNCHANGED <<direct, irq_thread_started, mode, irq_thread, enabled, irq_mode, rt>>
    BY <2>1 DEF local
  <2> QED
    BY <2>2, <2>3
<1>5. CASE tkl_gpio_access
  BY <1>h, <1>5 DEF tkl_gpio_access, local
<1>6. CASE tkl_gpio_irq_enable
  BY <1>6 DEF tkl_gpio_irq_enable, local
<1>7. CASE tkl_gpio_irq_disable
  <2>1. irq_enabled' \in BOOLEAN
    BY Zenon, <1>7 DEF tkl_gpio_irq_disable
  <2>2. UNCHANGED <<direct, handle, event, irq_thread_started, mode, irq_file, irq_thread,
                    enabled, irq_mode, rt>>
    BY <1>7 DEF tkl_gpio_irq_disable, local
  <2> QED
    BY <2>1, <2>2
<1>8. CASE Edge
  BY <1>8 DEF Edge, pin, local
<1>9. CASE ThreadLoad
  BY <1>9 DEF ThreadLoad, pin
<1>10. CASE ThreadPoll
  BY <1>10 DEF ThreadPoll, pin, local
<1>11. CASE ThreadRead
  BY <1>11 DEF ThreadRead, pin, local
<1>12. CASE ThreadLevel
  BY <1>h, <1>12 DEF ThreadLevel, local
<1>13. CASE ThreadCallback
  BY <1>13 DEF ThreadCallback, pin, local
<1> QED
  BY Zenon, <1>1, <1>2, <1>3, <1>4, <1>5, <1>6, <1>7, <1>8, <1>9, <1>10, <1>11, <1>12, <1>13
     DEF GpioNext, gpio_irq_thread

(* However the pin is initialised, closed and requested between, from any  *)
(* callers, a disabled interrupt calls back at most once more.             *)
THEOREM GpioAtMostOneLate == GpioSpec => []AtMostOneLateCallback
<1>1. GpioInit => LateOnce
  BY DEF GpioInit, LateOnce
<1>2. LateOnce /\ [GpioNext]_gpio => LateOnce'
  <2> SUFFICES ASSUME LateOnce, [GpioNext]_gpio PROVE LateOnce'
    OBVIOUS
  <2>1. CASE \/ \E d \in {"in", "out"} : tkl_gpio_init(d)
             \/ tkl_gpio_access \/ Edge \/ UNCHANGED gpio
    <3>1. UNCHANGED <<late, irq_enabled, irq_thread, enabled>>
      BY <2>1 DEF tkl_gpio_init, tkl_gpio_access, Edge, gpio, pin, local
    <3> QED
      BY <3>1 DEF LateOnce
  <2>2. CASE \E m \in {"edge", "level"} : tkl_gpio_irq_init(m)
    <3>1. UNCHANGED <<late, irq_enabled, enabled>> /\ irq_thread' \in {irq_thread, "load"}
      BY <2>2 DEF tkl_gpio_irq_init, local
    <3> QED
      BY <3>1 DEF LateOnce
  <2>3. CASE tkl_gpio_deinit \/ tkl_gpio_irq_disable
    <3>1. /\ UNCHANGED <<irq_thread, enabled>>
          /\ late' = IF irq_enabled THEN 0 ELSE late
      BY <2>3 DEF tkl_gpio_deinit, tkl_gpio_irq_disable, local
    <3> QED
      BY <3>1 DEF LateOnce
  <2>4. CASE tkl_gpio_irq_enable
    BY <2>4 DEF tkl_gpio_irq_enable, LateOnce
  <2>5. CASE ThreadLoad
    BY <2>5 DEF ThreadLoad, LateOnce, pin
  <2>6. CASE ThreadPoll
    BY <2>6 DEF ThreadPoll, LateOnce, pin, local
  <2>7. CASE ThreadRead
    BY <2>7 DEF ThreadRead, LateOnce, pin, local
  <2>8. CASE ThreadLevel
    BY <2>8 DEF ThreadLevel, LateOnce, local
  <2>9. CASE ThreadCallback
    BY <2>9 DEF ThreadCallback, LateOnce, pin, local
  <2> QED
    BY <2>1, <2>2, <2>3, <2>4, <2>5, <2>6, <2>7, <2>8, <2>9 DEF GpioNext, gpio_irq_thread
<1>3. GpioInit => GpioTypeOK
  BY GpioInitTyped
<1>4. GpioTypeOK /\ LateOnce => AtMostOneLateCallback
  BY DEF LateOnce, AtMostOneLateCallback
<1> QED
  BY <1>1, <1>2, <1>3, <1>4, GpioTyped, PTL DEF GpioSpec

(* Where the kernel drops an event file at its close, even one that is     *)
(* being polled, the driver never holds the line against itself: the       *)
(* request for an interrupt is not refused because of its own files.       *)
THEOREM GpioIrqInitNeverBusy ==
    ASSUME ~PollKeepsFile PROVE GpioSpec => []IrqInitNeverBusy
<1> DEFINE Own == rt # "busy" /\ irq_file # "orphan"
<1>1. GpioInit => GpioTypeOK /\ Own
  BY GpioInitTyped DEF GpioInit
<1>2. GpioTypeOK /\ Own /\ [GpioNext]_gpio => Own'
  <2> SUFFICES ASSUME GpioTypeOK, Own, [GpioNext]_gpio PROVE Own'
    OBVIOUS
  <2>1. CASE \E m \in {"edge", "level"} : tkl_gpio_irq_init(m)
    BY <2>1 DEF tkl_gpio_irq_init, GpioTypeOK
  <2>2. CASE tkl_gpio_deinit
    BY <2>2 DEF tkl_gpio_deinit, CloseEvent
  <2>3. CASE \/ \E d \in {"in", "out"} : tkl_gpio_init(d)
             \/ tkl_gpio_access \/ tkl_gpio_irq_enable \/ tkl_gpio_irq_disable
             \/ Edge \/ gpio_irq_thread \/ UNCHANGED gpio
    <3>1. UNCHANGED rt /\ irq_file' \in {irq_file, "none"}
      BY <2>3 DEF tkl_gpio_init, tkl_gpio_access, tkl_gpio_irq_enable, tkl_gpio_irq_disable,
         Edge, gpio_irq_thread, ThreadLoad, ThreadPoll, ThreadRead, ThreadLevel,
         ThreadCallback, gpio
    <3> QED
      BY <3>1
  <2> QED
    BY <2>1, <2>2, <2>3 DEF GpioNext
<1>3. Own => IrqInitNeverBusy
  BY DEF IrqInitNeverBusy
<1> QED
  BY <1>1, <1>2, <1>3, GpioTyped, PTL DEF GpioSpec

-----------------------------------------------------------------------------
(* PWM *)

(* What the kernel has for a channel, and what the driver has. *)
Kernel == [exported : BOOLEAN, enable : BOOLEAN, period : Nat, duty : Nat,
           polarity : Polarities \cup {"normal"}]
Context == [inited : BOOLEAN, enabled : BOOLEAN, cfg : Cfgs \cup {NoCfg}]

(* Off(h) differs from h in that the channel is off. *)
LEMMA OffKernel ==
    ASSUME NEW h \in Kernel
    PROVE  /\ Off(h) \in Kernel /\ ~Off(h).enable /\ Off(h).exported = h.exported
           /\ Off(h).period = h.period /\ Off(h).duty = h.duty /\ Off(h).polarity = h.polarity
BY Zenon DEF Kernel, Off

(* A write to one of the files changes its field, or fails and changes     *)
(* nothing.                                                                *)
LEMMA WriteEnable ==
    ASSUME NEW h \in Kernel, NEW o \in Write(h, "enable", TRUE)
    PROVE  /\ o[1] \in Kernel /\ o[2] \in BOOLEAN
           /\ o[1].exported = h.exported /\ o[1].period = h.period
           /\ o[1].duty = h.duty /\ o[1].polarity = h.polarity
           /\ o[2] => o[1].enable = TRUE
           /\ ~o[2] => o[1] = h
<1>1. CASE o = <<[h EXCEPT !["enable"] = TRUE], TRUE>>
  BY Zenon, <1>1 DEF Kernel
<1>2. CASE o = <<h, FALSE>>
  BY <1>2 DEF Kernel
<1> QED
  BY Zenon, <1>1, <1>2 DEF Write

(* A write of the period changes that attribute or, failing, nothing. *)
LEMMA WritePeriod ==
    ASSUME NEW h \in Kernel, NEW v \in Nat, NEW o \in Write(h, "period", v)
    PROVE  /\ o[1] \in Kernel /\ o[2] \in BOOLEAN
           /\ o[1].exported = h.exported /\ o[1].enable = h.enable
           /\ o[1].duty = h.duty /\ o[1].polarity = h.polarity
           /\ o[2] => o[1].period = v
           /\ ~o[2] => o[1] = h
<1>1. CASE o = <<[h EXCEPT !["period"] = v], TRUE>>
  BY <1>1 DEF Kernel
<1>2. CASE o = <<h, FALSE>>
  BY <1>2 DEF Kernel
<1> QED
  BY Zenon, <1>1, <1>2 DEF Write

(* The same for the duty cycle. *)
LEMMA WriteDuty ==
    ASSUME NEW h \in Kernel, NEW v \in Nat, NEW o \in Write(h, "duty", v)
    PROVE  /\ o[1] \in Kernel /\ o[2] \in BOOLEAN
           /\ o[1].exported = h.exported /\ o[1].enable = h.enable
           /\ o[1].period = h.period /\ o[1].polarity = h.polarity
           /\ o[2] => o[1].duty = v
           /\ ~o[2] => o[1] = h
<1>1. CASE o = <<[h EXCEPT !["duty"] = v], TRUE>>
  BY <1>1 DEF Kernel
<1>2. CASE o = <<h, FALSE>>
  BY <1>2 DEF Kernel
<1> QED
  BY Zenon, <1>1, <1>2 DEF Write

(* The same for the polarity. *)
LEMMA WritePolarity ==
    ASSUME NEW h \in Kernel, NEW v \in Polarities, NEW o \in Write(h, "polarity", v)
    PROVE  /\ o[1] \in Kernel /\ o[2] \in BOOLEAN
           /\ o[1].exported = h.exported /\ o[1].enable = h.enable
           /\ o[1].period = h.period /\ o[1].duty = h.duty
           /\ o[2] => o[1].polarity = v
           /\ ~o[2] => o[1] = h
<1>1. CASE o = <<[h EXCEPT !["polarity"] = v], TRUE>>
  BY <1>1 DEF Kernel
<1>2. CASE o = <<h, FALSE>>
  BY <1>2 DEF Kernel
<1> QED
  BY Zenon, <1>1, <1>2 DEF Write

(* A quotient of naturals is a natural. *)
LEMMA QuotientNat ==
    ASSUME NEW a \in Nat, NEW b \in Nat \ {0}
    PROVE  a \div b \in Nat
OBVIOUS

(* The period and the duty computed for a configuration are naturals. *)
LEMMA DutyNat ==
    ASSUME NEW cfg \in Cfgs
    PROVE  period_ns_from_frequency(cfg.frequency) \in Nat /\ Duty(cfg) \in Nat
<1>1. cfg.frequency \in Nat /\ cfg.duty \in Nat /\ cfg.cycle \in Nat
  BY Zenon, PwmAssumption DEF Cfgs
<1>2. PICK n : n = period_ns_from_frequency(cfg.frequency)
  OBVIOUS
<1>3. n \in Nat
  BY <1>1, <1>2, PwmAssumption, QuotientNat DEF period_ns_from_frequency
<1>4. PICK d : d = IF cfg.duty > TUYA_PWM_DUTY_SCALE THEN TUYA_PWM_DUTY_SCALE ELSE cfg.duty
  OBVIOUS
<1>5. d \in Nat /\ n * d \in Nat /\ n * cfg.duty \in Nat
  BY <1>1, <1>3, <1>4, PwmAssumption
<1>6. (n * d) \div TUYA_PWM_DUTY_SCALE \in Nat
  BY <1>5, PwmAssumption, QuotientNat
<1>7. cfg.cycle # 0 => (n * cfg.duty) \div cfg.cycle \in Nat
  BY <1>1, <1>5, QuotientNat
<1>8. duty_ns_from_cfg(n, cfg) \in Nat
  BY <1>4, <1>6, <1>7 DEF duty_ns_from_cfg
<1> QED
  BY <1>2, <1>3, <1>8 DEF Duty

(* The driver knows of the signal of a channel. *)
Known(x, h) ==
    /\ x.inited => h.exported /\ x.cfg \in Cfgs
    /\ x.enabled => x.inited
    /\ x.inited /\ h.enable => x.enabled
    /\ ~x.inited => ~h.enable

Applied(cfg, h) ==
    /\ h.polarity = cfg.polarity
    /\ h.period = period_ns_from_frequency(cfg.frequency)
    /\ h.duty = Duty(cfg)

(* Driver and kernel agree. *)
Steady(x, h) == (x.inited => Applied(x.cfg, h)) /\ (h.enable <=> x.enabled)

(* What a call makes of a channel, x of its context and h of the kernel's  *)
(* part; ok is what it returns.                                            *)
Result(c, x, h, ok) ==
    /\ x \in Context /\ h \in Kernel
    /\ pwm_ctx' = [pwm_ctx EXCEPT ![c] = x] /\ hw' = [hw EXCEPT ![c] = h]
    /\ Known(x, h)
    /\ ok /\ Steady(pwm_ctx[c], hw[c]) => Steady(x, h)
    /\ ~ok => x = pwm_ctx[c]

PwmShape ==
    /\ pwm_ctx \in [Channels -> Context] /\ hw \in [Channels -> Kernel]
    /\ \A c \in Channels : Known(pwm_ctx[c], hw[c])

(* Calls on a channel that return an error at once. *)
LEMMA RefusedResult ==
    ASSUME PwmShape, NEW c \in Channels, NEW ok \in BOOLEAN, Refused(ok)
    PROVE  ~ok /\ Result(c, pwm_ctx[c], hw[c], ok)
BY DEF Refused, PwmShape, Result

(* Calls that end with one of some outcomes. *)
LEMMA DoneResult ==
    ASSUME PwmShape, NEW c \in Channels, NEW ok \in BOOLEAN, NEW os, NEW new \in Context,
           Done(c, os, new, ok),
           \A o \in os :
              /\ o[1] \in Kernel
              /\ o[2] => Known(new, o[1])
              /\ o[2] /\ Steady(pwm_ctx[c], hw[c]) => Steady(new, o[1])
              /\ ~o[2] => Known(pwm_ctx[c], o[1])
    PROVE  \E o \in os : /\ ok <=> o[2]
                         /\ Result(c, IF ok THEN new ELSE pwm_ctx[c], o[1], ok)
<1>1. PICK o \in os :
        /\ ok = o[2]
        /\ hw' = [hw EXCEPT ![c] = o[1]]
        /\ pwm_ctx' = IF ok THEN [pwm_ctx EXCEPT ![c] = new] ELSE pwm_ctx
  BY Zenon DEF Done
<1>2. CASE ok
  BY Zenon, <1>1, <1>2 DEF Result
<1>3. CASE ~ok
  <2>1. pwm_ctx' = [pwm_ctx EXCEPT ![c] = pwm_ctx[c]] /\ pwm_ctx[c] \in Context
    BY <1>1, <1>3 DEF PwmShape
  <2> QED
    BY Zenon, <1>1, <1>3, <2>1 DEF Result
<1> QED
  BY <1>1, <1>2, <1>3

(* The period, then the duty: both were written, or the call stopped. *)
LEMMA SetCfgOutcome ==
    ASSUME NEW h \in Kernel, NEW cfg \in Cfgs, NEW o \in SetCfg(h, cfg)
    PROVE  /\ o[1] \in Kernel /\ o[2] \in BOOLEAN
           /\ o[1].exported = h.exported /\ o[1].enable = h.enable
           /\ o[1].polarity = h.polarity
           /\ o[2] => /\ o[1].period = period_ns_from_frequency(cfg.frequency)
                      /\ o[1].duty = Duty(cfg)
<1>1. PICK q \in Write(h, "period", period_ns_from_frequency(cfg.frequency)) :
         IF q[2] THEN o \in Write(q[1], "duty", Duty(cfg)) ELSE o = q
  BY DEF SetCfg, Then
<1>2. period_ns_from_frequency(cfg.frequency) \in Nat /\ Duty(cfg) \in Nat
  BY DutyNat
<1>3. /\ q[1] \in Kernel /\ q[2] \in BOOLEAN
      /\ q[1].exported = h.exported /\ q[1].enable = h.enable /\ q[1].polarity = h.polarity
      /\ q[2] => q[1].period = period_ns_from_frequency(cfg.frequency)
  BY <1>2, WritePeriod
<1>4. CASE q[2]
  <2>1. /\ o[1] \in Kernel /\ o[2] \in BOOLEAN
        /\ o[1].exported = q[1].exported /\ o[1].enable = q[1].enable
        /\ o[1].period = q[1].period /\ o[1].polarity = q[1].polarity
        /\ o[2] => o[1].duty = Duty(cfg)
    BY <1>1, <1>2, <1>3, <1>4, WriteDuty
  <2> QED
    BY <1>3, <1>4, <2>1
<1>5. CASE ~q[2]
  BY Zenon, <1>1, <1>3, <1>5
<1> QED
  BY <1>4, <1>5

(* An initialisation turns the channel off; if it succeeds the kernel has  *)
(* the configuration.                                                      *)
LEMMA InitOutcome ==
    ASSUME NEW h \in Kernel, NEW cfg \in Cfgs, NEW o \in InitWrites(h, cfg)
    PROVE  /\ o[1] \in Kernel /\ o[2] \in BOOLEAN
           /\ o[1].exported = h.exported /\ ~o[1].enable
           /\ o[2] => Applied(cfg, o[1])
<1>1. PICK q \in Write(Off(h), "polarity", cfg.polarity) :
         IF q[2]
         THEN o \in IF period_ns_from_frequency(cfg.frequency) = 0 THEN {<<q[1], FALSE>>}
                    ELSE SetCfg(q[1], cfg)
         ELSE o = q
  BY Zenon DEF InitWrites, Then
<1>2. /\ Off(h) \in Kernel /\ ~Off(h).enable /\ Off(h).exported = h.exported
      /\ cfg.polarity \in Polarities
  BY OffKernel DEF Cfgs
<1>3. /\ q[1] \in Kernel /\ q[2] \in BOOLEAN
      /\ q[1].exported = h.exported /\ ~q[1].enable
      /\ q[2] => q[1].polarity = cfg.polarity
  BY <1>2, WritePolarity
<1>4. CASE q[2] /\ period_ns_from_frequency(cfg.frequency) = 0
  <2>1. o = <<q[1], FALSE>>
    BY Zenon, <1>1, <1>4
  <2>2. o[1] = q[1] /\ o[2] = FALSE
    BY <2>1
  <2> QED
    BY Zenon, <1>3, <2>2
<1>5. CASE q[2] /\ period_ns_from_frequency(cfg.frequency) # 0
  <2>1. o \in SetCfg(q[1], cfg)
    BY <1>1, <1>5
  <2>2. /\ o[1] \in Kernel /\ o[2] \in BOOLEAN
        /\ o[1].exported = q[1].exported /\ o[1].enable = q[1].enable
        /\ o[1].polarity = q[1].polarity
        /\ o[2] => /\ o[1].period = period_ns_from_frequency(cfg.frequency)
                   /\ o[1].duty = Duty(cfg)
    BY Zenon, <1>3, <2>1, SetCfgOutcome
  <2> QED
    BY Zenon, <1>3, <1>5, <2>2 DEF Applied
<1>6. CASE ~q[2]
  BY <1>1, <1>3, <1>6
<1> QED
  BY <1>4, <1>5, <1>6

(* A channel that was off during os is on after it exactly when the driver *)
(* had it on and every write succeeded.                                    *)
LEMMA RestartedOutcome ==
    ASSUME PwmShape, NEW c \in Channels, NEW os, NEW o \in Restarted(c, os),
           \A q \in os : q[1] \in Kernel /\ q[2] \in BOOLEAN /\ ~q[1].enable
    PROVE  /\ o[1] \in Kernel /\ o[2] \in BOOLEAN
           /\ o[1].enable => pwm_ctx[c].enabled
           /\ o[2] => (o[1].enable <=> pwm_ctx[c].enabled)
           /\ \E q \in os : /\ o[1].exported = q[1].exported /\ o[1].polarity = q[1].polarity
                            /\ o[1].period = q[1].period /\ o[1].duty = q[1].duty
                            /\ o[2] => q[2]
<1>1. CASE ~pwm_ctx[c].enabled
  <2>1. o \in os
    BY <1>1 DEF Restarted
  <2> QED
    BY <1>1, <2>1
<1>2. CASE pwm_ctx[c].enabled
  <2>1. PICK q \in os : IF q[2] THEN o \in Write(q[1], "enable", TRUE) ELSE o = q
    BY Zenon, <1>2 DEF Restarted, Then
  <2>2. CASE q[2]
    <3>1. /\ o[1] \in Kernel /\ o[2] \in BOOLEAN
          /\ o[1].exported = q[1].exported /\ o[1].period = q[1].period
          /\ o[1].duty = q[1].duty /\ o[1].polarity = q[1].polarity
          /\ o[2] => o[1].enable = TRUE
      BY Zenon, <2>1, <2>2, WriteEnable
    <3> QED
      BY Zenon, <1>2, <2>2, <3>1
  <2>3. CASE ~q[2]
    BY <1>2, <2>1, <2>3
  <2> QED
    BY Zenon, <2>2, <2>3
<1> QED
  BY Zenon, <1>1, <1>2

(* A successful init leaves the channel steady and off. *)
LEMMA InitResult ==
    ASSUME PwmShape, NEW c \in Channels, NEW cfg \in Cfgs, NEW ok \in BOOLEAN,
           tkl_pwm_init(c, cfg, ok)
    PROVE  \E x, h : Result(c, x, h, ok) /\ (ok => Steady(x, h) /\ ~x.enabled)
<1>0. pwm_ctx[c] \in Context /\ hw[c] \in Kernel /\ Known(pwm_ctx[c], hw[c])
  BY DEF PwmShape
<1>1. CASE ~ok /\ EnsureExportedFails(c) /\ UNCHANGED pwm_ctx
  <2>1. PICK e \in BOOLEAN : hw' = [hw EXCEPT ![c].exported = e]
    BY Zenon, <1>1 DEF EnsureExportedFails
  <2>2. PICK h : h = [hw[c] EXCEPT !.exported = e]
    BY Zenon
  <2>3. h \in Kernel /\ h.enable = hw[c].enable
    BY <1>0, <2>2 DEF Kernel
  <2>4. ~pwm_ctx[c].inited
    BY <1>0, <1>1 DEF EnsureExportedFails, Known
  <2>5. Known(pwm_ctx[c], h)
    BY Zenon, <1>0, <2>3, <2>4 DEF Known
  <2>6. hw' = [hw EXCEPT ![c] = h] /\ pwm_ctx' = [pwm_ctx EXCEPT ![c] = pwm_ctx[c]]
    BY <1>1, <2>1, <2>2 DEF PwmShape
  <2>7. Result(c, pwm_ctx[c], h, ok)
    BY Zenon, <1>0, <1>1, <2>3, <2>5, <2>6 DEF Result
  <2> QED
    BY <1>1, <2>7
<1>2. CASE ~(~ok /\ EnsureExportedFails(c) /\ UNCHANGED pwm_ctx)
  <2>1. PICK g : g = [hw[c] EXCEPT !.exported = TRUE]
    BY Zenon
  <2>2. PICK new : new = [inited |-> TRUE, enabled |-> FALSE, cfg |-> cfg]
    BY Zenon
  <2>3. Done(c, InitWrites(g, cfg), new, ok)
    BY <1>2, <2>1, <2>2 DEF tkl_pwm_init
  <2>4. g \in Kernel /\ g.exported
    BY Zenon, <1>0, <2>1 DEF Kernel
  <2>5. new \in Context /\ new.inited /\ ~new.enabled /\ new.cfg = cfg
    BY <2>2 DEF Context
  <2>6. ASSUME NEW o \in InitWrites(g, cfg)
        PROVE  /\ o[1] \in Kernel
               /\ o[2] => Known(new, o[1]) /\ Steady(new, o[1])
               /\ ~o[2] => Known(pwm_ctx[c], o[1])
    <3>1. /\ o[1] \in Kernel /\ o[2] \in BOOLEAN
          /\ o[1].exported = g.exported /\ ~o[1].enable
          /\ o[2] => Applied(cfg, o[1])
      BY Zenon, <2>4, InitOutcome
    <3>2. Known(new, o[1])
      BY <2>4, <2>5, <3>1 DEF Known
    <3>3. o[2] => Steady(new, o[1])
      BY Zenon, <2>5, <3>1 DEF Steady
    <3>4. Known(pwm_ctx[c], o[1])
      BY Zenon, <1>0, <2>4, <3>1 DEF Known
    <3> QED
      BY Zenon, <3>1, <3>2, <3>3, <3>4
  <2>7. PICK o \in InitWrites(g, cfg) :
           /\ ok <=> o[2]
           /\ Result(c, IF ok THEN new ELSE pwm_ctx[c], o[1], ok)
    BY Zenon, <2>3, <2>5, <2>6, DoneResult
  <2> QED
    BY Zenon, <2>5, <2>6, <2>7
<1> QED
  BY <1>1, <1>2

(* What a deinit leaves. *)
LEMMA DeinitResult ==
    ASSUME PwmShape, NEW c \in Channels, tkl_pwm_deinit(c)
    PROVE  \E x, h : Result(c, x, h, TRUE) /\ ~x.enabled
<1>0. pwm_ctx[c] \in Context /\ hw[c] \in Kernel /\ Known(pwm_ctx[c], hw[c])
  BY DEF PwmShape
<1>1. PICK g : g = IF pwm_ctx[c].enabled THEN Off(hw[c]) ELSE hw[c]
  BY Zenon
<1>2. PICK e \in Unexported(c) : hw' = [hw EXCEPT ![c] = [g EXCEPT !.exported = e]]
  BY Zenon, <1>1 DEF tkl_pwm_deinit
<1>3. e \in BOOLEAN
  BY Zenon, <1>0 DEF Unexported, Kernel
<1>4. g \in Kernel /\ ~g.enable
  BY Zenon, <1>0, <1>1, OffKernel DEF Known
<1>5. PICK h : h = [g EXCEPT !.exported = e]
  BY Zenon
<1>6. h \in Kernel /\ ~h.enable
  BY <1>3, <1>4, <1>5 DEF Kernel
<1>7. NoPwm \in Context /\ ~NoPwm.inited /\ ~NoPwm.enabled
  BY DEF NoPwm, Context
<1>8. Known(NoPwm, h) /\ Steady(NoPwm, h)
  BY <1>6, <1>7 DEF Known, Steady
<1>9. pwm_ctx' = [pwm_ctx EXCEPT ![c] = NoPwm]
  BY DEF tkl_pwm_deinit
<1>10. Result(c, NoPwm, h, TRUE)
  BY <1>2, <1>5, <1>6, <1>7, <1>8, <1>9 DEF Result
<1> QED
  BY Zenon, <1>7, <1>10

(* What a start leaves. *)
LEMMA StartResult ==
    ASSUME PwmShape, NEW c \in Channels, NEW ok \in BOOLEAN, tkl_pwm_start(c, ok)
    PROVE  \E x, h : Result(c, x, h, ok) /\ (ok => x.enabled)
<1>0. pwm_ctx[c] \in Context /\ hw[c] \in Kernel /\ Known(pwm_ctx[c], hw[c])
  BY DEF PwmShape
<1>1. CASE ~pwm_ctx[c].inited
  <2>1. Refused(ok)
    BY <1>1 DEF tkl_pwm_start, Update
  <2> QED
    BY <2>1, RefusedResult
<1>2. CASE pwm_ctx[c].inited
  <2>1. PICK new : new = [pwm_ctx[c] EXCEPT !.enabled = TRUE]
    BY Zenon
  <2>2. PICK os : os = Write(hw[c], "enable", TRUE)
    BY Zenon
  <2>3. Done(c, os, new, ok)
    BY Zenon, <1>2, <2>1, <2>2 DEF tkl_pwm_start, Update
  <2>4. new \in Context /\ new.inited /\ new.enabled /\ new.cfg = pwm_ctx[c].cfg
    BY Zenon, <1>0, <1>2, <2>1 DEF Context
  <2>5. ASSUME NEW o \in os
        PROVE  /\ o[1] \in Kernel
               /\ o[2] => Known(new, o[1])
               /\ o[2] /\ Steady(pwm_ctx[c], hw[c]) => Steady(new, o[1])
               /\ ~o[2] => Known(pwm_ctx[c], o[1])
    <3>1. /\ o[1] \in Kernel /\ o[2] \in BOOLEAN
          /\ o[1].exported = hw[c].exported /\ o[1].period = hw[c].period
          /\ o[1].duty = hw[c].duty /\ o[1].polarity = hw[c].polarity
          /\ o[2] => o[1].enable = TRUE
          /\ ~o[2] => o[1] = hw[c]
      BY Zenon, <1>0, <2>2, WriteEnable
    <3>2. Known(new, o[1])
      BY Zenon, <1>0, <1>2, <2>4, <3>1 DEF Known
    <3>3. o[2] /\ Steady(pwm_ctx[c], hw[c]) => Steady(new, o[1])
      BY Zenon, <1>2, <2>4, <3>1 DEF Steady, Applied
    <3> QED
      BY Zenon, <1>0, <3>1, <3>2, <3>3
  <2>6. \E o \in os : (ok <=> o[2]) /\ Result(c, IF ok THEN new ELSE pwm_ctx[c], o[1], ok)
    BY Zenon, <2>3, <2>4, <2>5, DoneResult
  <2> QED
    BY <2>4, <2>6
<1> QED
  BY <1>1, <1>2

(* What a stop leaves. *)
LEMMA StopResult ==
    ASSUME PwmShape, NEW c \in Channels, NEW ok \in BOOLEAN, tkl_pwm_stop(c, ok)
    PROVE  \E x, h : Result(c, x, h, ok) /\ (ok => ~x.enabled)
<1>0. pwm_ctx[c] \in Context /\ hw[c] \in Kernel /\ Known(pwm_ctx[c], hw[c])
  BY DEF PwmShape
<1>1. CASE ~pwm_ctx[c].inited
  <2>1. Refused(ok)
    BY <1>1 DEF tkl_pwm_stop, Update
  <2> QED
    BY <2>1, RefusedResult
<1>2. CASE pwm_ctx[c].inited
  <2>1. PICK new : new = [pwm_ctx[c] EXCEPT !.enabled = FALSE]
    BY Zenon
  <2>2. PICK os : os = {<<Off(hw[c]), TRUE>>}
    BY Zenon
  <2>3. Done(c, os, new, ok)
    BY <1>2, <2>1, <2>2 DEF tkl_pwm_stop, Update
  <2>4. new \in Context /\ new.inited /\ ~new.enabled /\ new.cfg = pwm_ctx[c].cfg
    BY Zenon, <1>0, <1>2, <2>1 DEF Context
  <2>5. ASSUME NEW o \in os
        PROVE  /\ o[1] \in Kernel
               /\ o[2] => Known(new, o[1])
               /\ o[2] /\ Steady(pwm_ctx[c], hw[c]) => Steady(new, o[1])
               /\ ~o[2] => Known(pwm_ctx[c], o[1])
    <3>0. o = <<Off(hw[c]), TRUE>>
      BY Zenon, <2>2
    <3>1. o[1] = Off(hw[c]) /\ o[2] = TRUE
      BY <3>0
    <3>2. /\ o[1] \in Kernel /\ ~o[1].enable /\ o[1].exported = hw[c].exported
          /\ o[1].period = hw[c].period /\ o[1].duty = hw[c].duty
          /\ o[1].polarity = hw[c].polarity
      BY <1>0, <3>1, OffKernel
    <3>3. Known(new, o[1])
      BY Zenon, <1>0, <1>2, <2>4, <3>2 DEF Known
    <3>4. Steady(pwm_ctx[c], hw[c]) => Steady(new, o[1])
      BY Zenon, <1>2, <2>4, <3>2 DEF Steady, Applied
    <3> QED
      BY Zenon, <3>1, <3>2, <3>3, <3>4
  <2>6. \E o \in os : (ok <=> o[2]) /\ Result(c, IF ok THEN new ELSE pwm_ctx[c], o[1], ok)
    BY Zenon, <2>3, <2>4, <2>5, DoneResult
  <2> QED
    BY <2>4, <2>6
<1> QED
  BY <1>1, <1>2

(* A configuration with one field changed. *)
LEMMA ChangedCfg ==
    ASSUME NEW cfg \in Cfgs
    PROVE  /\ \A d \in Duties : LET new == [cfg EXCEPT !.duty = d]
                                IN  /\ new \in Cfgs /\ new.polarity = cfg.polarity
                                    /\ new.frequency = cfg.frequency
           /\ \A f \in Frequencies : LET new == [cfg EXCEPT !.frequency = f]
                                     IN  new \in Cfgs /\ new.polarity = cfg.polarity
           /\ \A p \in Polarities : LET new == [cfg EXCEPT !.polarity = p]
                                    IN  /\ new \in Cfgs /\ new.polarity = p
                                        /\ new.frequency = cfg.frequency
                                           /\ Duty(new) = Duty(cfg)
<1>1. \A d \in Duties : LET new == [cfg EXCEPT !.duty = d]
                        IN  /\ new \in Cfgs /\ new.polarity = cfg.polarity
                            /\ new.frequency = cfg.frequency
  BY DEF Cfgs
<1>2. \A f \in Frequencies : LET new == [cfg EXCEPT !.frequency = f]
                             IN  new \in Cfgs /\ new.polarity = cfg.polarity
  BY DEF Cfgs
<1>3. ASSUME NEW p \in Polarities
      PROVE  LET new == [cfg EXCEPT !.polarity = p]
             IN  /\ new \in Cfgs /\ new.polarity = p
                 /\ new.frequency = cfg.frequency /\ Duty(new) = Duty(cfg)
  <2>1. PICK new : new = [cfg EXCEPT !.polarity = p]
    BY Zenon
  <2>2. /\ new \in Cfgs /\ new.polarity = p /\ new.frequency = cfg.frequency
        /\ new.duty = cfg.duty /\ new.cycle = cfg.cycle
    BY <2>1 DEF Cfgs
  <2>3. Duty(new) = Duty(cfg)
    BY Zenon, <2>2 DEF Duty, duty_ns_from_cfg
  <2> QED
    BY <2>1, <2>2, <2>3
<1> QED
  BY <1>1, <1>2, <1>3

(* A change of duty leaves the output on or off as it was. *)
LEMMA DutyResult ==
    ASSUME PwmShape, NEW c \in Channels, NEW ok \in BOOLEAN, NEW d \in Duties,
           tkl_pwm_duty_set(c, d, ok)
    PROVE  \E x, h : Result(c, x, h, ok) /\ (x.enabled <=> pwm_ctx[c].enabled)
<1>0. pwm_ctx[c] \in Context /\ hw[c] \in Kernel /\ Known(pwm_ctx[c], hw[c])
  BY DEF PwmShape
<1>1. CASE ~pwm_ctx[c].inited
  <2>1. Refused(ok)
    BY <1>1 DEF tkl_pwm_duty_set, Update
  <2> QED
    BY Zenon, <2>1, RefusedResult
<1>2. CASE pwm_ctx[c].inited
  <2>0. PICK cfg : cfg = [pwm_ctx[c].cfg EXCEPT !.duty = d]
    BY Zenon
  <2>1. PICK new : new = [pwm_ctx[c] EXCEPT !.cfg = cfg]
    BY Zenon
  <2>2. PICK os : os = Write(hw[c], "duty", Duty(cfg))
    OBVIOUS
  <2>3. Done(c, os, new, ok)
    BY <1>2, <2>0, <2>1, <2>2 DEF tkl_pwm_duty_set, Update
  <2>4. /\ cfg \in Cfgs /\ cfg.polarity = pwm_ctx[c].cfg.polarity
        /\ cfg.frequency = pwm_ctx[c].cfg.frequency
    BY <1>0, <1>2, <2>0, ChangedCfg DEF Known
  <2>5. /\ new \in Context /\ new.inited /\ new.cfg = cfg
        /\ new.enabled = pwm_ctx[c].enabled
    BY SMTT(30), <1>0, <1>2, <2>1, <2>4 DEF Context
  <2>6. ASSUME NEW o \in os
        PROVE  /\ o[1] \in Kernel
               /\ o[2] => Known(new, o[1])
               /\ o[2] /\ Steady(pwm_ctx[c], hw[c]) => Steady(new, o[1])
               /\ ~o[2] => Known(pwm_ctx[c], o[1])
    <3>1. /\ o[1] \in Kernel /\ o[2] \in BOOLEAN
          /\ o[1].exported = hw[c].exported /\ o[1].enable = hw[c].enable
          /\ o[1].period = hw[c].period /\ o[1].polarity = hw[c].polarity
          /\ o[2] => o[1].duty = Duty(cfg)
          /\ ~o[2] => o[1] = hw[c]
      BY Zenon, <1>0, <2>2, <2>4, DutyNat, WriteDuty
    <3>2. Known(new, o[1])
      BY Zenon, <1>0, <1>2, <2>4, <2>5, <3>1 DEF Known
    <3>3. o[2] /\ Steady(pwm_ctx[c], hw[c]) => Steady(new, o[1])
      BY Zenon, <1>2, <2>4, <2>5, <3>1 DEF Steady, Applied
    <3> QED
      BY Zenon, <1>0, <3>1, <3>2, <3>3
  <2>7. \E o \in os : (ok <=> o[2]) /\ Result(c, IF ok THEN new ELSE pwm_ctx[c], o[1], ok)
    BY Zenon, <2>3, <2>5, <2>6, DoneResult
  <2> QED
    BY <2>5, <2>7
<1> QED
  BY <1>1, <1>2

(* A setter that turns the channel off for its writes os. *)
LEMMA RewriteResult ==
    ASSUME PwmShape, NEW c \in Channels, NEW ok \in BOOLEAN, NEW cfg, NEW os,
           Rewrite(c, os, cfg, ok),
           pwm_ctx[c].inited =>
              /\ cfg \in Cfgs
              /\ \A q \in os :
                    /\ q[1] \in Kernel /\ q[2] \in BOOLEAN /\ ~q[1].enable
                    /\ q[1].exported = hw[c].exported
                    /\ q[2] /\ Applied(pwm_ctx[c].cfg, hw[c]) => Applied(cfg, q[1])
    PROVE  \E x, h : Result(c, x, h, ok) /\ (x.enabled <=> pwm_ctx[c].enabled)
<1>0. pwm_ctx[c] \in Context /\ hw[c] \in Kernel /\ Known(pwm_ctx[c], hw[c])
  BY DEF PwmShape
<1>1. CASE ~pwm_ctx[c].inited
  <2>1. Refused(ok)
    BY SMTT(30), <1>1 DEF Rewrite, Update
  <2> QED
    BY Zenon, <2>1, RefusedResult
<1>2. CASE pwm_ctx[c].inited
  <2>1. PICK new : new = [pwm_ctx[c] EXCEPT !.cfg = cfg]
    BY Zenon
  <2>2. Done(c, Restarted(c, os), new, ok)
    BY <1>2, <2>1 DEF Rewrite, Update
  <2>3. /\ new \in Context /\ new.inited /\ new.cfg = cfg /\ cfg \in Cfgs
        /\ new.enabled = pwm_ctx[c].enabled
    BY <1>0, <1>2, <2>1 DEF Context
  <2>4. ASSUME NEW o \in Restarted(c, os)
        PROVE  /\ o[1] \in Kernel
               /\ o[2] => Known(new, o[1])
               /\ o[2] /\ Steady(pwm_ctx[c], hw[c]) => Steady(new, o[1])
               /\ ~o[2] => Known(pwm_ctx[c], o[1])
    <3>1. /\ o[1] \in Kernel /\ o[2] \in BOOLEAN
          /\ o[1].enable => pwm_ctx[c].enabled
          /\ o[2] => (o[1].enable <=> pwm_ctx[c].enabled)
          /\ \E q \in os : /\ o[1].exported = q[1].exported /\ o[1].polarity = q[1].polarity
                           /\ o[1].period = q[1].period /\ o[1].duty = q[1].duty
                           /\ o[2] => q[2]
      BY Zenon, <1>2, RestartedOutcome
    <3>2. PICK q \in os : /\ o[1].exported = q[1].exported /\ o[1].polarity = q[1].polarity
                          /\ o[1].period = q[1].period /\ o[1].duty = q[1].duty
                          /\ o[2] => q[2]
      BY Zenon, <3>1
    <3>3. o[1].exported = hw[c].exported
      BY Zenon, <1>2, <3>2
    <3>4. Known(new, o[1]) /\ Known(pwm_ctx[c], o[1])
      BY Zenon, <1>0, <1>2, <2>3, <3>1, <3>3 DEF Known
    <3>5. o[2] /\ Applied(pwm_ctx[c].cfg, hw[c]) => Applied(cfg, o[1])
      BY Zenon, <1>2, <3>2 DEF Applied
    <3>6. o[2] /\ Steady(pwm_ctx[c], hw[c]) => Steady(new, o[1])
      BY Zenon, <1>2, <2>3, <3>1, <3>5 DEF Steady
    <3> QED
      BY Zenon, <3>1, <3>4, <3>6
  <2>5. \E o \in Restarted(c, os) :
           (ok <=> o[2]) /\ Result(c, IF ok THEN new ELSE pwm_ctx[c], o[1], ok)
    BY Zenon, <2>2, <2>3, <2>4, DoneResult
  <2> QED
    BY Zenon, <2>3, <2>5
<1> QED
  BY Zenon, <1>1, <1>2

(* So does a change of frequency. *)
LEMMA FrequencyResult ==
    ASSUME PwmShape, NEW c \in Channels, NEW ok \in BOOLEAN, NEW f \in Frequencies,
           tkl_pwm_frequency_set(c, f, ok)
    PROVE  \E x, h : Result(c, x, h, ok) /\ (x.enabled <=> pwm_ctx[c].enabled)
<1>0. pwm_ctx[c] \in Context /\ hw[c] \in Kernel /\ Known(pwm_ctx[c], hw[c])
  BY DEF PwmShape
<1>1. CASE f = 0
  <2>1. Refused(ok)
    BY SMTT(30), <1>1 DEF tkl_pwm_frequency_set
  <2> QED
    BY <2>1, RefusedResult
<1>2. CASE f # 0
  <2>1. PICK cfg : cfg = [pwm_ctx[c].cfg EXCEPT !.frequency = f]
    BY Zenon
  <2>2. PICK os : os = SetCfg(Off(hw[c]), cfg)
    OBVIOUS
  <2>3. Rewrite(c, os, cfg, ok)
    BY SMTT(30), <1>2, <2>1, <2>2 DEF tkl_pwm_frequency_set
  <2>4. ASSUME pwm_ctx[c].inited
        PROVE  /\ cfg \in Cfgs
               /\ \A q \in os :
                     /\ q[1] \in Kernel /\ q[2] \in BOOLEAN /\ ~q[1].enable
                     /\ q[1].exported = hw[c].exported
                     /\ q[2] /\ Applied(pwm_ctx[c].cfg, hw[c]) => Applied(cfg, q[1])
    <3>1. cfg \in Cfgs /\ cfg.polarity = pwm_ctx[c].cfg.polarity
      BY <1>0, <2>1, <2>4, ChangedCfg DEF Known
    <3>2. /\ Off(hw[c]) \in Kernel /\ ~Off(hw[c]).enable /\ Off(hw[c]).exported = hw[c].exported
          /\ Off(hw[c]).polarity = hw[c].polarity
      BY Zenon, <1>0, OffKernel
    <3>3. \A q \in os :
             /\ q[1] \in Kernel /\ q[2] \in BOOLEAN
             /\ q[1].exported = Off(hw[c]).exported /\ q[1].enable = Off(hw[c]).enable
             /\ q[1].polarity = Off(hw[c]).polarity
             /\ q[2] => /\ q[1].period = period_ns_from_frequency(cfg.frequency)
                        /\ q[1].duty = Duty(cfg)
      BY Zenon, <2>2, <3>1, <3>2, SetCfgOutcome
    <3> QED
      BY Zenon, <3>1, <3>2, <3>3 DEF Applied
  <2> QED
    BY Zenon, <2>3, <2>4, RewriteResult
<1> QED
  BY Zenon, <1>1, <1>2

(* And a change of polarity, which restarts the output. *)
LEMMA PolarityResult ==
    ASSUME PwmShape, NEW c \in Channels, NEW ok \in BOOLEAN, NEW p \in Polarities,
           tkl_pwm_polarity_set(c, p, ok)
    PROVE  \E x, h : Result(c, x, h, ok) /\ (x.enabled <=> pwm_ctx[c].enabled)
<1>0. pwm_ctx[c] \in Context /\ hw[c] \in Kernel /\ Known(pwm_ctx[c], hw[c])
  BY DEF PwmShape
<1>1. PICK cfg : cfg = [pwm_ctx[c].cfg EXCEPT !.polarity = p]
  BY Zenon
<1>2. PICK os : os = Write(Off(hw[c]), "polarity", p)
  OBVIOUS
<1>3. Rewrite(c, os, cfg, ok)
  BY SMTT(30), <1>1, <1>2 DEF tkl_pwm_polarity_set
<1>4. ASSUME pwm_ctx[c].inited
      PROVE  /\ cfg \in Cfgs
             /\ \A q \in os :
                   /\ q[1] \in Kernel /\ q[2] \in BOOLEAN /\ ~q[1].enable
                   /\ q[1].exported = hw[c].exported
                   /\ q[2] /\ Applied(pwm_ctx[c].cfg, hw[c]) => Applied(cfg, q[1])
  <2>1. /\ cfg \in Cfgs /\ cfg.polarity = p /\ cfg.frequency = pwm_ctx[c].cfg.frequency
        /\ Duty(cfg) = Duty(pwm_ctx[c].cfg)
    BY <1>0, <1>1, <1>4, ChangedCfg DEF Known
  <2>2. /\ Off(hw[c]) \in Kernel /\ ~Off(hw[c]).enable /\ Off(hw[c]).exported = hw[c].exported
        /\ Off(hw[c]).period = hw[c].period /\ Off(hw[c]).duty = hw[c].duty
    BY Zenon, <1>0, OffKernel
  <2>3. \A q \in os :
           /\ q[1] \in Kernel /\ q[2] \in BOOLEAN
           /\ q[1].exported = Off(hw[c]).exported /\ q[1].enable = Off(hw[c]).enable
           /\ q[1].period = Off(hw[c]).period /\ q[1].duty = Off(hw[c]).duty
           /\ q[2] => q[1].polarity = p
    BY <1>2, <2>2, WritePolarity
  <2> QED
    BY Zenon, <2>1, <2>2, <2>3 DEF Applied
<1> QED
  BY SMTT(30), <1>3, <1>4, RewriteResult

(* The compound calls a thread can be in. *)
InfoSteps == {"init", "stop", "polarity", "frequency", "duty", "cfg", "start"}
InfoCalls == [op : {"info"}, c : Channels, info : Cfgs, was : BOOLEAN, step : InfoSteps]
MultiCalls == [op : {"multi"}, cs : Seq(Channels) \ {<<>>}, on : BOOLEAN]
PwmCalls == {NotInCall} \cup InfoCalls \cup MultiCalls

PwmInv ==
    /\ PwmShape
    /\ call \in [Threads -> PwmCalls]
    /\ wanted \in [Channels -> BOOLEAN] /\ steady \in [Channels -> BOOLEAN]
    /\ \A c \in Channels : steady[c] => /\ Steady(pwm_ctx[c], hw[c])
                                        /\ hw[c].enable <=> wanted[c]

(* The kinds of call in progress. *)
LEMMA CallOps ==
    ASSUME NEW k \in PwmCalls
    PROVE  (k.op = "info" => k \in InfoCalls) /\ (k.op = "multi" => k \in MultiCalls)
BY SMTT(30) DEF PwmCalls, InfoCalls, MultiCalls, NotInCall

(* One channel changes and the history with it. *)
LEMMA ChannelChanges ==
    ASSUME PwmInv, NEW c \in Channels, NEW x, NEW h, NEW ok, Result(c, x, h, ok),
           NEW w \in BOOLEAN, NEW s \in BOOLEAN,
           wanted' = [wanted EXCEPT ![c] = w], steady' = [steady EXCEPT ![c] = s],
           s => Steady(x, h) /\ (h.enable <=> w),
           call' \in [Threads -> PwmCalls]
    PROVE  PwmInv'
<1>1. /\ pwm_ctx' \in [Channels -> Context] /\ hw' \in [Channels -> Kernel]
      /\ wanted' \in [Channels -> BOOLEAN] /\ steady' \in [Channels -> BOOLEAN]
  BY Zenon DEF PwmInv, PwmShape, Result
<1>2. /\ pwm_ctx'[c] = x /\ hw'[c] = h /\ wanted'[c] = w /\ steady'[c] = s /\ Known(x, h)
      /\ \A d \in Channels \ {c} : /\ pwm_ctx'[d] = pwm_ctx[d] /\ hw'[d] = hw[d]
                                   /\ wanted'[d] = wanted[d] /\ steady'[d] = steady[d]
  BY Zenon DEF PwmInv, PwmShape, Result
<1>3. PwmShape'
  <2>1. \A d \in Channels : Known(pwm_ctx'[d], hw'[d])
    BY Zenon, <1>2 DEF PwmInv, PwmShape
  <2> QED
    BY SMTT(30), <1>1, <2>1 DEF PwmShape
<1>4. \A d \in Channels : steady'[d] => /\ Steady(pwm_ctx'[d], hw'[d])
                                        /\ hw'[d].enable <=> wanted'[d]
  BY Zenon, <1>2 DEF PwmInv
<1> QED
  BY Zenon, <1>1, <1>3, <1>4 DEF PwmInv

(* A call that succeeds leaves the output as the history has it then, one  *)
(* that fails does not touch the history.                                  *)
LEMMA FollowKeeps ==
    ASSUME PwmInv, NEW c \in Channels, NEW x, NEW h, NEW ok \in BOOLEAN, Result(c, x, h,
    ok),
           NEW w \in BOOLEAN, wanted' = [wanted EXCEPT ![c] = w],
           ok => (w <=> x.enabled), ~ok => (w <=> wanted[c]),
           Follow(c, ok), call' \in [Threads -> PwmCalls]
    PROVE  PwmInv'
<1>1. PICK s : s = (steady[c] /\ (ok \/ hw'[c] = hw[c]))
  BY Zenon
<1>2. s \in BOOLEAN /\ steady' = [steady EXCEPT ![c] = s]
  BY Zenon, <1>1 DEF Follow
<1>3. hw'[c] = h
  BY Zenon DEF Result, PwmInv, PwmShape
<1>4. s => Steady(x, h) /\ (h.enable <=> w)
  <2> SUFFICES ASSUME s PROVE Steady(x, h) /\ (h.enable <=> w)
    OBVIOUS
  <2>1. steady[c] /\ (ok \/ h = hw[c])
    BY Zenon, <1>1, <1>3
  <2>2. Steady(pwm_ctx[c], hw[c]) /\ (hw[c].enable <=> wanted[c])
    BY Zenon, <2>1 DEF PwmInv
  <2>3. CASE ok
    <3>1. Steady(x, h)
      BY Zenon, <2>2, <2>3 DEF Result
    <3> QED
      BY <2>3, <3>1 DEF Steady
  <2>4. CASE ~ok
    <3>1. x = pwm_ctx[c] /\ h = hw[c]
      BY Zenon, <2>1, <2>4 DEF Result
    <3> QED
      BY Zenon, <2>2, <2>4, <3>1
  <2> QED
    BY <2>3, <2>4
<1> QED
  BY Zenon, <1>2, <1>4, ChannelChanges

(* A call on one channel keeps the invariant. *)
LEMMA SimpleKeeps ==
    ASSUME PwmInv, NEW c \in Channels, NEW ok \in BOOLEAN, Simple(c, ok),
           call' \in [Threads -> PwmCalls]
    PROVE  PwmInv'
<1>0. PwmShape /\ wanted[c] \in BOOLEAN /\ steady[c] \in BOOLEAN
  BY Zenon DEF PwmInv
<1>1. ASSUME NEW cfg \in Cfgs, tkl_pwm_init(c, cfg, ok),
             wanted' = [wanted EXCEPT ![c] = @ /\ ~ok],
             steady' = [steady EXCEPT ![c] = ok \/ (@ /\ hw'[c] = hw[c])]
      PROVE  PwmInv'
  <2>1. PICK x, h : Result(c, x, h, ok) /\ (ok => Steady(x, h) /\ ~x.enabled)
    BY Zenon, <1>0, <1>1, InitResult
  <2>2. PICK w : w = (wanted[c] /\ ~ok)
    OBVIOUS
  <2>3. PICK s : s = (ok \/ (steady[c] /\ hw'[c] = hw[c]))
    BY Zenon
  <2>4. w \in BOOLEAN /\ wanted' = [wanted EXCEPT ![c] = w]
    BY Zenon, <1>1, <2>2
  <2>5. s \in BOOLEAN /\ steady' = [steady EXCEPT ![c] = s]
    BY Zenon, <1>1, <2>3
  <2>6. hw'[c] = h
    BY Zenon, <2>1 DEF Result, PwmInv, PwmShape
  <2>7. CASE ok
    <3>1. Steady(x, h) /\ ~x.enabled /\ ~w
      BY Zenon, <2>1, <2>2, <2>7
    <3>2. h.enable <=> w
      BY Zenon, <3>1 DEF Steady
    <3> QED
      BY Zenon, <2>1, <2>4, <2>5, <3>1, <3>2, ChannelChanges
  <2>8. CASE ~ok
    <3>1. x = pwm_ctx[c] /\ (w <=> wanted[c])
      BY Zenon, <2>1, <2>2, <2>8 DEF Result
    <3>2. s => steady[c] /\ h = hw[c]
      BY Zenon, <2>3, <2>6, <2>8
    <3>3. s => Steady(x, h) /\ (h.enable <=> w)
      BY Zenon, <3>1, <3>2 DEF PwmInv
    <3> QED
      BY Zenon, <2>1, <2>4, <2>5, <3>3, ChannelChanges
  <2> QED
    BY SMTT(30), <2>7, <2>8
<1>2. ASSUME (tkl_pwm_deinit(c) /\ ok) \/ tkl_pwm_stop(c, ok),
             wanted' = [wanted EXCEPT ![c] = @ /\ ~ok], Follow(c, ok)
      PROVE  PwmInv'
  <2>1. PICK x, h : Result(c, x, h, ok) /\ (ok => ~x.enabled)
    <3>1. CASE tkl_pwm_deinit(c) /\ ok
      <4>1. ok = TRUE
        BY <3>1
      <4> QED
        BY Zenon, <1>0, <3>1, <4>1, DeinitResult
    <3>2. CASE tkl_pwm_stop(c, ok)
      BY Zenon, <1>0, <3>2, StopResult
    <3> QED
      BY Zenon, <1>2, <3>1, <3>2
  <2>2. PICK w : w = (wanted[c] /\ ~ok)
    OBVIOUS
  <2>3. w \in BOOLEAN /\ wanted' = [wanted EXCEPT ![c] = w]
    BY Zenon, <1>2, <2>2
  <2>4. (ok => (w <=> x.enabled)) /\ (~ok => (w <=> wanted[c]))
    BY Zenon, <2>1, <2>2
  <2> QED
    BY ZenonT(30), <1>2, <2>1, <2>3, <2>4, FollowKeeps
<1>3. ASSUME tkl_pwm_start(c, ok), wanted' = [wanted EXCEPT ![c] = @ \/ ok], Follow(c, ok)
      PROVE  PwmInv'
  <2>1. PICK x, h : Result(c, x, h, ok) /\ (ok => x.enabled)
    BY Zenon, <1>0, <1>3, StartResult
  <2>2. PICK w : w = (wanted[c] \/ ok)
    OBVIOUS
  <2>3. w \in BOOLEAN /\ wanted' = [wanted EXCEPT ![c] = w]
    BY Zenon, <1>3, <2>2
  <2>4. (ok => (w <=> x.enabled)) /\ (~ok => (w <=> wanted[c]))
    BY Zenon, <2>1, <2>2
  <2> QED
    BY ZenonT(30), <1>3, <2>1, <2>3, <2>4, FollowKeeps
<1>4. ASSUME \/ \E d \in Duties : tkl_pwm_duty_set(c, d, ok)
             \/ \E f \in Frequencies : tkl_pwm_frequency_set(c, f, ok)
             \/ \E p \in Polarities : tkl_pwm_polarity_set(c, p, ok),
             Follow(c, ok), UNCHANGED wanted
      PROVE  PwmInv'
  <2>1. PICK x, h : Result(c, x, h, ok) /\ (x.enabled <=> pwm_ctx[c].enabled)
    BY Zenon, <1>0, <1>4, DutyResult, FrequencyResult, PolarityResult
  <2>2. PICK s : s = (steady[c] /\ (ok \/ hw'[c] = hw[c]))
    BY Zenon
  <2>3. s \in BOOLEAN /\ steady' = [steady EXCEPT ![c] = s]
    BY Zenon, <1>4, <2>2 DEF Follow
  <2>4. wanted' = [wanted EXCEPT ![c] = wanted[c]]
    BY Zenon, <1>4 DEF PwmInv
  <2>5. hw'[c] = h
    BY Zenon, <2>1 DEF Result, PwmInv, PwmShape
  <2>6. ASSUME s PROVE Steady(x, h) /\ (h.enable <=> wanted[c])
    <3>1. /\ steady[c] /\ (ok \/ h = hw[c])
          /\ Steady(pwm_ctx[c], hw[c]) /\ (hw[c].enable <=> wanted[c])
      BY Zenon, <2>2, <2>5, <2>6 DEF PwmInv
    <3>2. pwm_ctx[c].enabled <=> wanted[c]
      BY Zenon, <3>1 DEF Steady
    <3>3. Steady(x, h)
      BY Zenon, <2>1, <3>1 DEF Result
    <3>4. h.enable <=> x.enabled
      BY <3>3 DEF Steady
    <3> QED
      BY Zenon, <2>1, <3>2, <3>3, <3>4
  <2> QED
    BY Zenon, <1>0, <2>1, <2>3, <2>4, <2>6, ChannelChanges
<1> QED
  BY Zenon, <1>1, <1>2, <1>3, <1>4 DEF Simple

(* So does each step of tkl_pwm_info_set. *)
LEMMA InfoStepKeeps == ASSUME PwmInv, NEW t \in Threads, InfoStep(t) PROVE PwmInv'
<1> DEFINE c == call[t].c
           info == call[t].info
<1>1. call[t] \in InfoCalls /\ PwmShape
  BY Zenon, CallOps DEF InfoStep, PwmInv
<1>2. /\ c \in Channels /\ info \in Cfgs /\ info.duty \in Duties
      /\ info.frequency \in Frequencies /\ info.polarity \in Polarities
  BY Zenon, <1>1 DEF InfoCalls, Cfgs
<1>3. call' \in [Threads -> PwmCalls]
  <2>1. \/ call' = [call EXCEPT ![t] = NotInCall]
        \/ \E step \in InfoSteps : call' = [call EXCEPT ![t].step = step]
    BY Zenon DEF InfoStep, InfoSteps
  <2>2. NotInCall \in PwmCalls
    BY DEF PwmCalls
  <2>3. \A step \in InfoSteps : [call[t] EXCEPT !.step = step] \in PwmCalls
    BY <1>1 DEF InfoCalls, PwmCalls
  <2>4. call \in [Threads -> PwmCalls]
    BY Zenon DEF PwmInv
  <2> QED
    BY <2>1, <2>2, <2>3, <2>4
<1>4. wanted' = [wanted EXCEPT ![c] = wanted[c]] /\ steady' = [steady EXCEPT ![c] = FALSE]
      /\ wanted[c] \in BOOLEAN
  BY Zenon, <1>2 DEF InfoStep, PwmInv
<1>5. ASSUME NEW ok, NEW x, NEW h, Result(c, x, h, ok) PROVE PwmInv'
  <2>1. FALSE \in BOOLEAN
    OBVIOUS
  <2> HIDE DEF c
  <2> QED
    BY Zenon, <1>2, <1>3, <1>4, <1>5, <2>1, ChannelChanges
<1>6. PICK ok \in BOOLEAN :
         \/ tkl_pwm_init(c, info, ok)
         \/ tkl_pwm_stop(c, ok)
         \/ tkl_pwm_polarity_set(c, info.polarity, ok)
         \/ tkl_pwm_frequency_set(c, info.frequency, ok)
         \/ tkl_pwm_duty_set(c, info.duty, ok)
         \/ pwm_ctx' = [pwm_ctx EXCEPT ![c].cfg = info] /\ UNCHANGED hw
         \/ tkl_pwm_start(c, ok)
  BY Zenon DEF InfoStep
<1> HIDE DEF c, info
<1>7. CASE pwm_ctx' = [pwm_ctx EXCEPT ![c].cfg = info] /\ UNCHANGED hw
  <2>1. pwm_ctx[c] \in Context /\ hw[c] \in Kernel /\ Known(pwm_ctx[c], hw[c])
    BY Zenon, <1>1, <1>2 DEF PwmShape
  <2>2. PICK x : x = [pwm_ctx[c] EXCEPT !.cfg = info]
    BY Zenon
  <2>3. /\ x \in Context /\ x.inited = pwm_ctx[c].inited /\ x.enabled = pwm_ctx[c].enabled
        /\ x.cfg = info
    BY SMTT(30), <1>2, <2>1, <2>2 DEF Context
  <2>4. Known(x, hw[c])
    BY Zenon, <1>2, <2>1, <2>3 DEF Known
  <2>5. pwm_ctx' \in [Channels -> Context] /\ hw' = hw
        /\ \A d \in Channels : pwm_ctx'[d] = IF d = c THEN x ELSE pwm_ctx[d]
    BY Zenon, <1>1, <1>7, <2>2, <2>3 DEF PwmShape
  <2>6. PwmShape'
    BY Zenon, <1>1, <2>4, <2>5 DEF PwmShape
  <2>7. /\ wanted' \in [Channels -> BOOLEAN] /\ steady' \in [Channels -> BOOLEAN]
        /\ \A d \in Channels : /\ wanted'[d] = wanted[d]
                               /\ steady'[d] => d # c /\ steady[d]
    BY Zenon, <1>2, <1>4 DEF PwmInv
  <2>8. \A d \in Channels : steady'[d] => /\ Steady(pwm_ctx'[d], hw'[d])
                                          /\ hw'[d].enable <=> wanted'[d]
    BY Zenon, <2>5, <2>7 DEF PwmInv
  <2> QED
    BY Zenon, <1>3, <2>6, <2>7, <2>8 DEF PwmInv
<1>8. CASE ~(pwm_ctx' = [pwm_ctx EXCEPT ![c].cfg = info] /\ UNCHANGED hw)
  <2>1. \E x, h : Result(c, x, h, ok)
    BY SMTT(30), <1>1, <1>2, <1>6, <1>8, InitResult, StopResult, PolarityResult,
       FrequencyResult,
       DutyResult, StartResult
  <2> QED
    BY <1>5, <2>1 DEF c
<1> QED
  BY <1>7, <1>8

(* And each channel of a start or stop of several. *)
LEMMA MultiStepKeeps == ASSUME PwmInv, NEW t \in Threads, MultiStep(t) PROVE PwmInv'
<1> DEFINE c == Head(call[t].cs)
           on == call[t].on
<1>1. call[t] \in MultiCalls /\ PwmShape /\ call \in [Threads -> PwmCalls]
  BY Zenon, CallOps DEF MultiStep, PwmInv
<1>2. call[t].cs \in Seq(Channels) /\ call[t].cs # <<>> /\ on \in BOOLEAN
  BY <1>1 DEF MultiCalls
<1>3. c \in Channels /\ Tail(call[t].cs) \in Seq(Channels)
      /\ (Len(call[t].cs) > 1 => Tail(call[t].cs) # <<>>)
  BY SMTT(30), <1>2, SeqTail, SeqEmpty, SeqTyped
<1>4. PICK ok \in BOOLEAN :
        /\ IF on THEN tkl_pwm_start(c, ok) ELSE tkl_pwm_stop(c, ok)
        /\ wanted' = IF ok THEN [wanted EXCEPT ![c] = on] ELSE wanted
        /\ Follow(c, ok)
        /\ call' = [call EXCEPT ![t] =
                      IF ok /\ Len(@.cs) > 1
                      THEN [op |-> "multi", cs |-> Tail(@.cs), on |-> on]
                      ELSE NotInCall]
  BY Zenon DEF MultiStep
<1>5. call' \in [Threads -> PwmCalls]
  <2>1. NotInCall \in PwmCalls
    BY DEF PwmCalls
  <2>2. Len(call[t].cs) > 1 => [op |-> "multi", cs |-> Tail(call[t].cs),
  on |-> on] \in PwmCalls
    BY Zenon, <1>2, <1>3 DEF MultiCalls, PwmCalls
  <2>3. \/ call' = [call EXCEPT ![t] = NotInCall]
        \/ /\ Len(call[t].cs) > 1
           /\ call' = [call EXCEPT ![t] = [op |-> "multi", cs |-> Tail(call[t].cs), on |-> on]]
    <3>1. CASE ok /\ Len(call[t].cs) > 1
      BY Zenon, <1>4, <3>1
    <3>2. CASE ~(ok /\ Len(call[t].cs) > 1)
      BY Zenon, <1>4, <3>2
    <3> QED
      BY Zenon, <3>1, <3>2
  <2> QED
    BY Zenon, <1>1, <2>1, <2>2, <2>3
<1> HIDE DEF c, on
<1>6. PICK x, h : Result(c, x, h, ok) /\ (ok => (x.enabled <=> on))
  BY Zenon, <1>1, <1>3, <1>4, StartResult, StopResult
<1>7. PICK w : w = IF ok THEN on ELSE wanted[c]
  OBVIOUS
<1>8. w \in BOOLEAN /\ wanted' = [wanted EXCEPT ![c] = w]
  BY Zenon, <1>2, <1>3, <1>4, <1>7 DEF PwmInv
<1>9. (ok => (w <=> x.enabled)) /\ (~ok => (w <=> wanted[c]))
  BY Zenon, <1>6, <1>7
<1>10. Follow(c, ok)
  BY Zenon, <1>4
<1> QED
  BY Zenon, <1>3, <1>5, <1>6, <1>8, <1>9, <1>10, FollowKeeps

(* Every step keeps the invariant. *)
LEMMA PwmStep == PwmInv /\ [PwmNext]_pwm => PwmInv'
<1> SUFFICES ASSUME PwmInv, [PwmNext]_pwm PROVE PwmInv'
  OBVIOUS
<1>0. call \in [Threads -> PwmCalls]
  BY Zenon DEF PwmInv
<1>1. ASSUME NEW c \in Channels, NEW ok \in BOOLEAN, Simple(c, ok),
UNCHANGED call PROVE PwmInv'
  BY <1>0, <1>1, SimpleKeeps
<1>u. ASSUME UNCHANGED <<pwm_ctx, hw, wanted, steady>>, call' \in [Threads -> PwmCalls]
      PROVE  PwmInv'
  BY Zenon, <1>u DEF PwmInv, PwmShape
<1>2. ASSUME NEW t \in Threads, NEW c \in Channels, NEW info \in Cfgs, InfoStart(t, c, info)
      PROVE  PwmInv'
  <2>1. PICK k : k = [op |-> "info", c |-> c, info |-> info, was |-> pwm_ctx[c].enabled,
                      step |-> IF ~pwm_ctx[c].inited THEN "init"
                               ELSE IF pwm_ctx[c].enabled THEN "stop" ELSE "polarity"]
    BY Zenon
  <2>2. pwm_ctx[c].enabled \in BOOLEAN
    BY Zenon DEF PwmInv, PwmShape, Context
  <2>3. k \in PwmCalls
    BY Zenon, <2>1, <2>2 DEF PwmCalls, InfoCalls, InfoSteps
  <2>4. call' = [call EXCEPT ![t] = k] /\ UNCHANGED <<pwm_ctx, hw, wanted, steady>>
    BY Zenon, <1>2, <2>1 DEF InfoStart
  <2>5. call' \in [Threads -> PwmCalls]
    BY <1>0, <2>3, <2>4
  <2> QED
    BY <1>u, <2>4, <2>5
<1>3. ASSUME NEW t \in Threads, InfoStep(t) \/ MultiStep(t) PROVE PwmInv'
  BY <1>3, InfoStepKeeps, MultiStepKeeps
<1>4. ASSUME NEW t \in Threads, NEW on \in BOOLEAN, NEW cs \in ChannelLists,
MultiStart(t, cs, on)
      PROVE  PwmInv'
  <2>1. [op |-> "multi", cs |-> cs, on |-> on] \in PwmCalls
    BY Zenon, PwmAssumption DEF PwmCalls, MultiCalls
  <2>2. call' = [call EXCEPT ![t] = [op |-> "multi", cs |-> cs, on |-> on]]
        /\ UNCHANGED <<pwm_ctx, hw, wanted, steady>>
    BY Zenon, <1>4 DEF MultiStart
  <2>3. call' \in [Threads -> PwmCalls]
    BY Zenon, <1>0, <2>1, <2>2
  <2> QED
    BY Zenon, <1>u, <2>2, <2>3
<1>5. CASE UNCHANGED pwm
  BY <1>0, <1>5, <1>u DEF pwm
<1> QED
  BY Zenon, <1>1, <1>2, <1>3, <1>4, <1>5 DEF PwmNext

(* Every channel starts unexported, unwanted and steady. *)
LEMMA PwmInitially == PwmInit => PwmInv
<1> SUFFICES ASSUME PwmInit PROVE PwmInv
  OBVIOUS
<1>1. NoPwm \in Context /\ ~NoPwm.inited /\ ~NoPwm.enabled
  BY DEF NoPwm, Context
<1>2. hw \in [Channels -> Kernel] /\ \A c \in Channels : ~hw[c].enable
  <2> DEFINE K == [exported : BOOLEAN, enable : {FALSE}, period : {0}, duty : {0},
                   polarity : {"normal"}]
  <2>1. \A k \in K : k \in Kernel /\ ~k.enable
    <3> SUFFICES ASSUME NEW k \in K PROVE k \in Kernel /\ ~k.enable
      BY Zenon
    <3>1. /\ k.exported \in BOOLEAN /\ k.enable \in {FALSE} /\ k.period \in {0}
          /\ k.duty \in {0} /\ k.polarity \in {"normal"}
      BY Zenon
    <3>2. k.enable = FALSE
      BY Zenon, <3>1
    <3>3. k = [exported |-> k.exported, enable |-> k.enable, period |-> k.period,
               duty |-> k.duty, polarity |-> k.polarity]
      BY Zenon
    <3>4. k.enable \in BOOLEAN
      BY Zenon, <3>2
    <3>5. k.period \in Nat /\ k.duty \in Nat
      BY <3>1
    <3> HIDE DEF K
    <3> QED
      BY Zenon, <3>1, <3>2, <3>3, <3>4, <3>5 DEF Kernel
  <2>2. hw \in [Channels -> K]
    BY Zenon DEF PwmInit
  <2> HIDE DEF K
  <2> QED
    BY <2>1, <2>2
<1>3. pwm_ctx \in [Channels -> Context] /\ \A c \in Channels : pwm_ctx[c] = NoPwm
  BY <1>1 DEF PwmInit
<1>4. PwmShape
  BY Zenon, <1>1, <1>2, <1>3 DEF PwmShape, Known
<1>5. call \in [Threads -> PwmCalls]
  BY DEF PwmInit, PwmCalls
<1>6. wanted \in [Channels -> BOOLEAN] /\ steady \in [Channels -> BOOLEAN]
      /\ \A c \in Channels : ~wanted[c]
  BY DEF PwmInit
<1> QED
  BY Zenon, <1>1, <1>2, <1>3, <1>4, <1>5, <1>6 DEF PwmInv, Steady

(* Whatever channels, threads, configurations and failing files there are, *)
(* and however the calls of the threads interleave, the driver knows of    *)
(* every signal it puts out.                                               *)
THEOREM PwmNoHiddenOutput == PwmSpec => []NoHiddenOutput
<1>1. PwmInv => NoHiddenOutput
  <2> SUFFICES ASSUME PwmInv PROVE NoHiddenOutput
    OBVIOUS
  <2>1. \A c \in Channels : Known(pwm_ctx[c], hw[c]) /\ hw[c] \in Kernel
    BY DEF PwmInv, PwmShape
  <2>2. SignalKnown /\ SilentWhenReleased
    BY Zenon, <2>1 DEF SignalKnown, SilentWhenReleased, Known
  <2>3. PwmTypeOK
    BY Zenon, <2>1 DEF PwmTypeOK, PwmInv, PwmShape, Known, Kernel, Context
  <2> QED
    BY <2>2, <2>3 DEF NoHiddenOutput
<1> QED
  BY <1>1, PwmInitially, PwmStep, PTL DEF PwmSpec

(* As long as no call failed half-way and no tkl_pwm_info_set was made on  *)
(* a channel, the kernel has the configuration the driver remembers, and   *)
(* the output is on exactly when a caller last asked for it.               *)
THEOREM PwmOutputAsAsked == PwmSpec => []OutputAsAsked
<1>1. PwmInv => OutputAsAsked
  BY Zenon DEF PwmInv, OutputAsAsked, ConfigApplied, EnableAsAsked, Steady, Applied
<1> QED
  BY <1>1, PwmInitially, PwmStep, PTL DEF PwmSpec
=============================================================================
