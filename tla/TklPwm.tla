-------------------------------- MODULE TklPwm --------------------------------
(***************************************************************************)
(* The PWM driver tuyaos_adapter/src/tkl_pwm.c on the kernel's sysfs files.*)
(* A call holds g_pwm_lock and is one step, except tkl_pwm_info_set and    *)
(* the multichannel calls, which are made of such calls.  The kernel       *)
(* (external) applies the writes in order; any write but the one that      *)
(* turns a channel off may fail, and the call then stops there.            *)
(***************************************************************************)
EXTENDS Integers, Sequences

CONSTANTS Threads, Channels,
          Polarities, Frequencies, Duties, Cycles,  \* field values of a cfg
          NS_PER_SECOND, TUYA_PWM_DUTY_SCALE,
          Failing,      \* the sysfs files whose writes may fail
          InfoSetters,  \* the threads that use tkl_pwm_info_set
          ChannelLists  \* the arguments of multichannel calls

ASSUME PwmAssumption ==
    /\ NS_PER_SECOND \in Nat /\ TUYA_PWM_DUTY_SCALE \in Nat \ {0}
    /\ Frequencies \subseteq Nat /\ Duties \subseteq Nat /\ Cycles \subseteq Nat
    /\ ChannelLists \subseteq Seq(Channels) \ {<<>>}

VARIABLES pwm_ctx,     \* g_pwm_ctx
          hw,      \* what the kernel has for each channel
          call,    \* the compound call a thread is in
          wanted,  \* history: the output was last asked to be on
          steady   \* history: since the channel's initialisation no call that
                   \* failed changed it and no tkl_pwm_info_set

pwm == <<pwm_ctx, hw, call, wanted, steady>>

Cfgs == [polarity : Polarities, frequency : Frequencies,
         duty : Duties, cycle : Cycles]

period_ns_from_frequency(f) == IF f = 0 THEN 0 ELSE NS_PER_SECOND \div f

duty_ns_from_cfg(period_ns, cfg) ==
    LET duty == IF cfg.duty > TUYA_PWM_DUTY_SCALE
                THEN TUYA_PWM_DUTY_SCALE ELSE cfg.duty
    IN  IF period_ns = 0 THEN 0
        ELSE IF cfg.cycle # 0 /\ cfg.duty <= cfg.cycle
             THEN (period_ns * cfg.duty) \div cfg.cycle
             ELSE (period_ns * duty) \div TUYA_PWM_DUTY_SCALE

(* The duty a call writes; the callers cut it off at the period. *)
Duty(cfg) ==
    LET period_ns == period_ns_from_frequency(cfg.frequency)
        duty_ns == duty_ns_from_cfg(period_ns, cfg)
    IN  IF duty_ns > period_ns THEN period_ns ELSE duty_ns

NoCfg == [polarity |-> "none", frequency |-> 0, duty |-> 0, cycle |-> 0]
NoPwm == [inited |-> FALSE, enabled |-> FALSE, cfg |-> NoCfg]
NotInCall == [op |-> "idle"]

PwmInit ==
    /\ pwm_ctx = [c \in Channels |-> NoPwm]
    /\ hw \in [Channels -> [exported : BOOLEAN, enable : {FALSE},
                            period : {0}, duty : {0}, polarity : {"normal"}]]
    /\ call = [t \in Threads |-> NotInCall]
    /\ wanted = [c \in Channels |-> FALSE] /\ steady = [c \in Channels |-> TRUE]

-------------------------------------------------------------------------------
(* Outcomes of writes to a channel: pairs of what the kernel then has and  *)
(* whether all of them succeeded.                                          *)

(* write_text_file *)
Write(h, f, v) ==
    {<<[h EXCEPT ![f] = v], TRUE>>} \cup {<<h, FALSE>> : x \in {f} \cap Failing}

(* Further writes, unless one has failed. *)
Then(os, W(_)) == UNION {IF o[2] THEN W(o[1]) ELSE {o} : o \in os}

(* Turning a channel off. *)
Off(h) == [h EXCEPT !.enable = FALSE]

(* The period, then the duty. *)
SetCfg(h, cfg) ==
    Then(Write(h, "period", period_ns_from_frequency(cfg.frequency)),
         LAMBDA g : Write(g, "duty", Duty(cfg)))

(* The writes of tkl_pwm_init.  A frequency without a period is refused    *)
(* after the polarity has been written.                                    *)
InitWrites(h, cfg) ==
    Then(Write(Off(h), "polarity", cfg.polarity),
         LAMBDA g : IF period_ns_from_frequency(cfg.frequency) = 0 THEN {<<g, FALSE>>}
                    ELSE SetCfg(g, cfg))

(* On again after os, if the channel was on. *)
Restarted(c, os) ==
    IF pwm_ctx[c].enabled THEN Then(os, LAMBDA g : Write(g, "enable", TRUE)) ELSE os

(* The export fails, or the channel appears too late. *)
EnsureExportedFails(c) ==
    /\ ~hw[c].exported /\ "export" \in Failing
    /\ \E appears \in BOOLEAN : hw' = [hw EXCEPT ![c].exported = appears]

(* What unexport_locked makes of exported. *)
Unexported(c) ==
    IF "export" \in Failing THEN {FALSE, hw[c].exported} ELSE {FALSE}

(* One of the outcomes os, and the context new if it is a success. *)
Done(c, os, new, ok) ==
    \E o \in os :
        /\ ok = o[2]
        /\ hw' = [hw EXCEPT ![c] = o[1]]
        /\ pwm_ctx' = IF ok THEN [pwm_ctx EXCEPT ![c] = new] ELSE pwm_ctx

(* In every call ok says whether it returns OPRT_OK. *)
tkl_pwm_init(c, cfg, ok) ==
    \/ ~ok /\ EnsureExportedFails(c) /\ UNCHANGED pwm_ctx
    \/ Done(c, InitWrites([hw[c] EXCEPT !.exported = TRUE], cfg),
            [inited |-> TRUE, enabled |-> FALSE, cfg |-> cfg], ok)

(* The result of unexport is ignored. *)
tkl_pwm_deinit(c) ==
    /\ LET h == IF pwm_ctx[c].enabled THEN Off(hw[c]) ELSE hw[c]
       IN  \E e \in Unexported(c) : hw' = [hw EXCEPT ![c] = [h EXCEPT !.exported = e]]
    /\ pwm_ctx' = [pwm_ctx EXCEPT ![c] = NoPwm]

(* A call on a channel that was not initialised returns an error. *)
Refused(ok) == ~ok /\ UNCHANGED <<pwm_ctx, hw>>

Update(c, os, new, ok) ==
    IF pwm_ctx[c].inited THEN Done(c, os, new, ok) ELSE Refused(ok)

StartForgetsEnabled(c, ok) ==
    Update(c, Write(hw[c], "enable", TRUE), pwm_ctx[c], ok)

tkl_pwm_start(c, ok) ==
    Update(c, Write(hw[c], "enable", TRUE), [pwm_ctx[c] EXCEPT !.enabled = TRUE], ok)
tkl_pwm_stop(c, ok) ==
    Update(c, {<<Off(hw[c]), TRUE>>}, [pwm_ctx[c] EXCEPT !.enabled = FALSE], ok)

tkl_pwm_duty_set(c, duty, ok) ==
    LET cfg == [pwm_ctx[c].cfg EXCEPT !.duty = duty]
    IN  Update(c, Write(hw[c], "duty", Duty(cfg)), [pwm_ctx[c] EXCEPT !.cfg = cfg], ok)

RewriteWithoutRestart(c, os, cfg, ok) ==
    Update(c, os, [pwm_ctx[c] EXCEPT !.cfg = cfg], ok)

(* The writes os to a channel that was turned off, and on again if it was  *)
(* on; a failure leaves the channel off and the context as it was.         *)
Rewrite(c, os, cfg, ok) ==
    Update(c, Restarted(c, os), [pwm_ctx[c] EXCEPT !.cfg = cfg], ok)

tkl_pwm_frequency_set(c, f, ok) ==
    LET cfg == [pwm_ctx[c].cfg EXCEPT !.frequency = f] IN
    IF f = 0 THEN Refused(ok) ELSE Rewrite(c, SetCfg(Off(hw[c]), cfg), cfg, ok)

tkl_pwm_polarity_set(c, p, ok) ==
    LET cfg == [pwm_ctx[c].cfg EXCEPT !.polarity = p]
    IN  Rewrite(c, Write(Off(hw[c]), "polarity", p), cfg, ok)

-------------------------------------------------------------------------------
(* tkl_pwm_info_set, call by call.  What it read first decides how it goes *)
(* on; a call of its own that fails ends it.                               *)
InfoStart(t, c, info) ==
    /\ call[t] = NotInCall /\ t \in InfoSetters
    /\ call' = [call EXCEPT ![t] =
         [op |-> "info", c |-> c, info |-> info, was |-> pwm_ctx[c].enabled,
          step |-> IF ~pwm_ctx[c].inited THEN "init"
                   ELSE IF pwm_ctx[c].enabled THEN "stop" ELSE "polarity"]]
    /\ UNCHANGED <<pwm_ctx, hw, wanted, steady>>

InfoStep(t) ==
    LET c == call[t].c
        info == call[t].info
        end == call' = [call EXCEPT ![t] = NotInCall]
        goto(step) == call' = [call EXCEPT ![t].step = step]
        restart == IF call[t].was THEN goto("start") ELSE end
    IN
    /\ call[t].op = "info"
    /\ \E ok \in BOOLEAN :
       \/ /\ call[t].step = "init"
          /\ tkl_pwm_init(c, info, ok)
          /\ IF ok THEN restart ELSE end
       \/ /\ call[t].step = "stop"
          /\ tkl_pwm_stop(c, ok) /\ goto("polarity")
       \/ /\ call[t].step = "polarity"
          /\ tkl_pwm_polarity_set(c, info.polarity, ok)
          /\ IF ok THEN goto("frequency") ELSE end
       \/ /\ call[t].step = "frequency"
          /\ tkl_pwm_frequency_set(c, info.frequency, ok)
          /\ IF ok THEN goto("duty") ELSE end
       \/ /\ call[t].step = "duty"
          /\ tkl_pwm_duty_set(c, info.duty, ok)
          /\ IF ok THEN goto("cfg") ELSE end
       \/ /\ call[t].step = "cfg" /\ ok
          /\ pwm_ctx' = [pwm_ctx EXCEPT ![c].cfg = info] /\ UNCHANGED hw
          /\ restart
       \/ /\ call[t].step = "start"
          /\ tkl_pwm_start(c, ok) /\ end
    /\ steady' = [steady EXCEPT ![c] = FALSE]
    /\ UNCHANGED wanted

(* The history of a call that failed without effect, or succeeded. *)
Follow(c, ok) == steady' = [steady EXCEPT ![c] = @ /\ (ok \/ hw'[c] = hw[c])]

(* tkl_pwm_multichannel_start and _stop switch one channel after another   *)
(* and stop at the first failure.                                          *)
MultiStart(t, cs, on) ==
    /\ call[t] = NotInCall
    /\ call' = [call EXCEPT ![t] = [op |-> "multi", cs |-> cs, on |-> on]]
    /\ UNCHANGED <<pwm_ctx, hw, wanted, steady>>

MultiStep(t) ==
    LET c == Head(call[t].cs)
        on == call[t].on
    IN
    /\ call[t].op = "multi"
    /\ \E ok \in BOOLEAN :
        /\ IF on THEN tkl_pwm_start(c, ok) ELSE tkl_pwm_stop(c, ok)
        /\ wanted' = IF ok THEN [wanted EXCEPT ![c] = on] ELSE wanted
        /\ Follow(c, ok)
        /\ call' = [call EXCEPT ![t] =
                      IF ok /\ Len(@.cs) > 1
                      THEN [op |-> "multi", cs |-> Tail(@.cs), on |-> on]
                      ELSE NotInCall]

-------------------------------------------------------------------------------
(* Calls that turn the output off or on; the history follows the ones that *)
(* succeed.                                                                *)
Simple(c, ok) ==
    \/ /\ \E cfg \in Cfgs : tkl_pwm_init(c, cfg, ok)
       /\ wanted' = [wanted EXCEPT ![c] = @ /\ ~ok]
       /\ steady' = [steady EXCEPT ![c] = ok \/ (@ /\ hw'[c] = hw[c])]
    \/ /\ (tkl_pwm_deinit(c) /\ ok) \/ tkl_pwm_stop(c, ok)
       /\ wanted' = [wanted EXCEPT ![c] = @ /\ ~ok]
       /\ Follow(c, ok)
    \/ /\ tkl_pwm_start(c, ok)
       /\ wanted' = [wanted EXCEPT ![c] = @ \/ ok]
       /\ Follow(c, ok)
    \/ /\ \/ \E d \in Duties : tkl_pwm_duty_set(c, d, ok)
          \/ \E f \in Frequencies : tkl_pwm_frequency_set(c, f, ok)
          \/ \E p \in Polarities : tkl_pwm_polarity_set(c, p, ok)
       /\ Follow(c, ok) /\ UNCHANGED wanted

PwmNext ==
    \/ \E t \in Threads, c \in Channels, ok \in BOOLEAN :
         call[t] = NotInCall /\ Simple(c, ok) /\ UNCHANGED call
    \/ \E t \in Threads, c \in Channels, info \in Cfgs : InfoStart(t, c, info)
    \/ \E t \in Threads : InfoStep(t) \/ MultiStep(t)
    \/ \E t \in Threads, on \in BOOLEAN, cs \in ChannelLists : MultiStart(t, cs, on)

PwmSpec == PwmInit /\ [][PwmNext]_pwm

-------------------------------------------------------------------------------
(* Properties *)

(* Type invariant; a channel that is on is initialised and exported. *)
PwmTypeOK ==
    /\ pwm_ctx \in [Channels -> [inited : BOOLEAN, enabled : BOOLEAN,
                             cfg : Cfgs \cup {NoCfg}]]
    /\ \A c \in Channels :
         /\ hw[c].period \in Nat /\ hw[c].duty \in Nat
         /\ pwm_ctx[c].inited => hw[c].exported
         /\ pwm_ctx[c].enabled => pwm_ctx[c].inited
    /\ wanted \in [Channels -> BOOLEAN] /\ steady \in [Channels -> BOOLEAN]

NoInfoSet(c) == \A t \in Threads : call[t].op # "info" \/ call[t].c # c

(* Whichever writes fail, a channel in use never puts out a signal the     *)
(* driver believes to be off, so that stop and deinit can always turn it   *)
(* off.                                                                    *)
SignalKnown ==
    \A c \in Channels : pwm_ctx[c].inited /\ hw[c].enable => pwm_ctx[c].enabled

(* Deinit, or a failed init, leaves no signal behind. *)
SilentWhenReleased ==
    \A c \in Channels : ~pwm_ctx[c].inited => ~hw[c].enable

(* The PWM driver knows of every signal it puts out; tkl_pwm_deinit and a  *)
(* failed init leave none behind.                                          *)
NoHiddenOutput == PwmTypeOK /\ SignalKnown /\ SilentWhenReleased

(* As long as no call fails half-way, the configuration the driver         *)
(* remembers is the one the kernel was given, whatever setters came        *)
(* between.                                                                *)
ConfigApplied ==
    \A c \in Channels : steady[c] /\ pwm_ctx[c].inited =>
        /\ hw[c].polarity = pwm_ctx[c].cfg.polarity
        /\ hw[c].period = period_ns_from_frequency(pwm_ctx[c].cfg.frequency)
        /\ hw[c].duty = Duty(pwm_ctx[c].cfg)

(* The output is on exactly when a caller last asked for it, through every *)
(* setter that turns it off and on again.                                  *)
EnableAsAsked ==
    \A c \in Channels : steady[c] => (hw[c].enable <=> wanted[c])

(* While calls do not fail half-way, context and kernel agree on the       *)
(* configuration, and the output is on exactly when a caller last asked    *)
(* for it.                                                                 *)
OutputAsAsked == ConfigApplied /\ EnableAsAsked

(* tkl_pwm_info_set is a full update: when it is over, the kernel has what *)
(* tkl_pwm_info_get reports.                                               *)
FullUpdate ==
    \A c \in Channels : NoInfoSet(c) /\ pwm_ctx[c].inited => hw[c].duty = Duty(pwm_ctx[c].cfg)
===============================================================================
