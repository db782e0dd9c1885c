----------------------------- MODULE ControlFsm -----------------------------
(***************************************************************************)
(* The control state machine in operation: Control_Step called once per    *)
(* iteration of ControlTask, with the latest sensor message, whatever user *)
(* events have been raised since, and the clock.                           *)
(*                                                                         *)
(* The variables below the line are history: they measure real time and    *)
(* real readings beside the code, never steer it, and let the properties   *)
(* speak of what happened instead of what the context remembers.           *)
(***************************************************************************)
EXTENDS AcControl

CONSTANTS
    Samples,     \* readings of the sensor: [temperature_c, humidity_pct]
    EventSets,   \* the sets of user events one call may receive
    StepMs       \* milliseconds from one call of Control_Step to the next

ASSUME FsmAssumption ==
    /\ Samples \subseteq [temperature_c : Int, humidity_pct : Nat]
    /\ EventSets \subseteq SUBSET UserEvents
    /\ StepMs \subseteq Nat
    /\ \A d \in StepMs : d + RecoveryWaitMs < ClockMod
    /\ \A d \in StepMs : d + WindowPauseMs < ClockMod

VARIABLES
    ctx,         \* the ControlContext of ControlTask
    latest,      \* the last message taken from SensorQ, NoSensor before it
    output,      \* the ControlOutput of the last call
    now          \* App_Millis()

VARIABLES
    openMs,      \* how long the window has been reported open
    autoOpenMs,  \* the same, while powered and not manual
    closedMs,    \* time since the window was last reported closed
    measured,    \* humidities measured from just before the opening on
    blind        \* the window was reported open before any reading

history == <<openMs, autoOpenMs, closedMs, measured, blind>>
vars    == <<ctx, latest, output, now, history>>

-----------------------------------------------------------------------------
(* The messages SensorTask may deliver next.  After a failed read its      *)
(* message has the fields of the last reading it took, or the zeros of     *)
(* memset before any.  That reading is in latest, unless SensorQ was full  *)
(* when it was posted.                                                     *)
ValidMessages ==
    {[temperature_c |-> s.temperature_c, humidity_pct |-> s.humidity_pct,
      window_open |-> w, valid |-> TRUE] : s \in Samples, w \in BOOLEAN}

LastFields ==
    IF latest = NoSensor THEN [temperature_c |-> 0, humidity_pct |-> 0]
    ELSE [temperature_c |-> latest.temperature_c, humidity_pct |-> latest.humidity_pct]

InvalidMessages ==
    {[temperature_c |-> s.temperature_c, humidity_pct |-> s.humidity_pct,
      window_open |-> w, valid |-> FALSE] :
        s \in Samples \cup {LastFields}, w \in BOOLEAN}

AutoOpen == ctx.powered /\ ~ctx.manual /\ WindowOpen(latest)

Capped(n, cap) == IF n < cap THEN n ELSE cap

(* History: what a stopwatch and a notebook beside the device would show   *)
(* after a call with message m, d milliseconds after the previous one.     *)
Observe(m, d) ==
    /\ openMs' = IF WindowOpen(m) /\ WindowOpen(latest)
                 THEN Capped(openMs + d, WindowPauseMs) ELSE 0
    /\ autoOpenMs' = IF AutoOpen' /\ AutoOpen
                     THEN Capped(autoOpenMs + d, WindowPauseMs) ELSE 0
    /\ closedMs' = IF WindowOpen(latest) /\ ~WindowOpen(m)
                   THEN 0 ELSE Capped(closedMs + d, RecoveryWaitMs)
    /\ measured' = IF WindowOpen(m)
                   THEN measured \cup (IF m.valid THEN {m.humidity_pct} ELSE {})
                   ELSE IF ctx'.have_sensor THEN {ctx'.humidity_pct} ELSE {}
    /\ blind' = (WindowOpen(m) /\ IF WindowOpen(latest) THEN blind
                                                        ELSE measured' = {})

Step(m, events, d) ==
    /\ now' = (now + d) % ClockMod
    /\ latest' = m
    /\ ctx' = Control_Step(ctx, m, events, now')
    /\ output' = Output(ctx')
    /\ Observe(m, d)

(* OSQPend returned a message. *)
StepOnMessage(events, d) ==
    \E m \in ValidMessages \cup InvalidMessages : Step(m, events, d)

(* OSQPend timed out: the step is repeated on the message already held. *)
StepOnTimeout(events, d) == Step(latest, events, d)

Init ==
    /\ ctx = Control_Init
    /\ latest = NoSensor
    /\ output = Output(Control_Init)
    /\ now = 0
    /\ openMs = 0
    /\ autoOpenMs = 0
    /\ closedMs = RecoveryWaitMs
    /\ measured = {}
    /\ blind = FALSE

Next == \E events \in EventSets, d \in StepMs :
            StepOnMessage(events, d) \/ StepOnTimeout(events, d)

Spec == Init /\ [][Next]_vars

-----------------------------------------------------------------------------
(* The context, the output and the clock stay within their C types, the    *)
(* set-point within its limits whatever the order of the button events.    *)
TypeOK ==
    /\ ctx \in ControlContext
    /\ latest \in SensorMsg \cup {NoSensor}
    /\ output \in ControlOutput
    /\ now \in Millis
    /\ openMs \in 0 .. WindowPauseMs
    /\ autoOpenMs \in 0 .. WindowPauseMs
    /\ closedMs \in 0 .. RecoveryWaitMs
    /\ measured \subseteq Nat
    /\ blind \in BOOLEAN

(* The pause latch outlives neither the pause nor the opening that set it: *)
(* a later opening, a power cycle or a spell of manual operation starts    *)
(* from an unlatched context.                                              *)
LatchIsThePause ==
    ctx.pause_latched <=> /\ ctx.state = "AC_PAUSED"
                          /\ ctx.powered /\ ~ctx.manual
                          /\ WindowOpen(latest)

(* With the window reported open the compressor runs only if the user has  *)
(* overridden the automatic mode.                                          *)
NoCoolingThroughOpenWindow ==
    WindowOpen(latest) /\ output.cooling_level > 0
        => ctx.powered /\ ctx.manual

(* Nothing is cooled on a temperature nobody has measured: not in manual   *)
(* mode either, although that has no have_sensor test of its own.          *)
NoCoolingBeforeReading ==
    output.cooling_level > 0 => ctx.have_sensor

(* A window open for WindowPauseMs of uninterrupted automatic operation    *)
(* has paused the cooling, whatever power cycles, manual spells or clock   *)
(* wrap-around came before.                                                *)
PausedInTime ==
    autoOpenMs >= WindowPauseMs => ctx.state = "AC_PAUSED"

(* RECOVERY_WAIT lasts from the closing for less than RecoveryWaitMs.      *)
RecoveryIsBounded ==
    ctx.state = "RECOVERY_WAIT" => closedMs < RecoveryWaitMs

(* Unless the user intervenes, operation resumes no sooner than that.      *)
RecoveryIsWaited ==
    [][ctx.state = "RECOVERY_WAIT" /\ ctx'.state \in {"IDLE", "COOLING"}
            => closedMs' >= RecoveryWaitMs]_vars

(* The two grounds for a pause the README gives: the window has been open  *)
(* for WindowPauseMs, or the humidity has surged above a measured one.     *)
PauseGrounds ==
    \/ openMs >= WindowPauseMs
    \/ \E h \in measured : FloatRise(latest.humidity_pct, h)

EntersPause == ctx.state # "AC_PAUSED" /\ ctx'.state = "AC_PAUSED"

(* A pause has one of them ... *)
PauseIsJustified == [][EntersPause => PauseGrounds']_vars

(* ... provided some reading had been taken when the window opened.        *)
PauseIsJustifiedOnceMeasured == [][EntersPause /\ ~blind' => PauseGrounds']_vars

(* A sensor that delivers no valid reading is shown as such.               *)
InvalidReadingIsShown ==
    latest # NoSensor /\ ~latest.valid => ~output.temperature_valid

(* The state machine does what the README's state table promises.          *)
Policy == INSTANCE AcPolicy WITH mode <- ctx.state,
                                 windowOpen <- ctx.window_was_open
FollowsPolicy == Policy!Spec

-----------------------------------------------------------------------------
(* The inductive invariant behind the safety properties, by subject.       *)

(* The output is that of the context; the context knows the window as the  *)
(* last message reported it, whatever a power cycle cleared in between.    *)
UpToDate ==
    /\ output = Output(ctx)
    /\ ctx.window_was_open = WindowOpen(latest)

(* The state names what the flags and the window say. *)
StateMatchesFlags ==
    /\ (ctx.state = "OFF") <=> ~ctx.powered
    /\ (ctx.state = "MANUAL_OVERRIDE") <=> (ctx.powered /\ ctx.manual)
    /\ ctx.state \in {"WINDOW_SUSPECT", "AC_PAUSED"}
            <=> (ctx.powered /\ ~ctx.manual /\ WindowOpen(latest))
    /\ ~ctx.powered => ~ctx.manual

(* Without a reading the temperature is the zero of Control_Init. *)
ReadingIsKept ==
    /\ ~ctx.have_sensor => ctx.temperature_c = 0
    /\ ctx.state = "COOLING" => ctx.have_sensor

(* The time stamps agree with the stopwatches while they are in use. *)
StampsMatchStopwatches ==
    /\ ~AutoOpen => autoOpenMs = 0
    /\ ctx.state = "WINDOW_SUSPECT" =>
            /\ autoOpenMs <= Elapsed(now, ctx.window_open_since_ms)
            /\ Elapsed(now, ctx.window_open_since_ms) < WindowPauseMs
    /\ WindowOpen(latest) =>
            \/ openMs = WindowPauseMs
            \/ Elapsed(now, ctx.window_open_since_ms) <= openMs
    /\ ctx.state = "RECOVERY_WAIT" =>
            /\ closedMs = Elapsed(now, ctx.recovery_since_ms)
            /\ closedMs < RecoveryWaitMs

(* The humidity baseline is a measured one, unless there was none. *)
BaselineIsMeasured ==
    /\ ctx.have_sensor <=> measured # {}
    /\ ctx.have_sensor => ctx.humidity_pct \in measured
    /\ WindowOpen(latest) /\ measured = {} => blind
    /\ WindowOpen(latest) /\ ~blind
            => ctx.humidity_before_window_pct \in measured

IndInv ==
    /\ TypeOK
    /\ UpToDate
    /\ StateMatchesFlags
    /\ LatchIsThePause
    /\ ReadingIsKept
    /\ StampsMatchStopwatches
    /\ BaselineIsMeasured
=============================================================================
