------------------------------ MODULE Actuator ------------------------------
(***************************************************************************)
(* ActuatorTask and Actuator_SetOutputs: every 25 ms the task takes at     *)
(* most one message from ActuatorQ, and drives three lamps and the buzzer. *)
(* The end of a click is compared with the clock through a signed          *)
(* difference, the lamps blink by the clock modulo a period; both meet the *)
(* wrap-around of the clock.                                               *)
(***************************************************************************)
EXTENDS Integers, AcMessages

CONSTANTS
    HalfTurn,        \* the clock counts modulo 2 * HalfTurn (2^31 in the code)
    BuzzerClickMs,   \* APP_BUZZER_CLICK_MS
    SuspectHalfMs,   \* LD3 in WINDOW_SUSPECT: half a period, 500 ms
    PausedHalfMs,    \* LD3 in AC_PAUSED: half a period, 125 ms
    States,          \* the states ControlTask may send
    MaxGapMs         \* the longest time between two iterations

ASSUME ActuatorAssumption ==
    /\ HalfTurn \in Nat \ {0}
    /\ BuzzerClickMs \in 1 .. HalfTurn
    /\ SuspectHalfMs \in Nat \ {0}
    /\ PausedHalfMs \in Nat \ {0}
    /\ States \subseteq AcState
    /\ MaxGapMs \in 1 .. BuzzerClickMs

ClockMod == 2 * HalfTurn

(* No phase of a blinking lamp is missed, and the clock holds a period.    *)
ASSUME BlinkAssumption ==
    \A half \in {SuspectHalfMs, PausedHalfMs} :
        MaxGapMs <= half /\ 2 * half <= ClockMod

VARIABLES
    current,          \* the ActuatorMsg last taken
    buzzer_until_ms,
    now,              \* App_Millis()
    pins              \* the outputs, TRUE when active

(* History: a stopwatch on the buzzer and one on LD3. *)
VARIABLES
    clicked,          \* a click has been taken at some time
    quietMs,          \* time since the last click was taken, or since the start
    steadyMs          \* how long a blinking LD3 has shown one level

history == <<clicked, quietMs, steadyMs>>
vars == <<current, buzzer_until_ms, now, pins, history>>

ActuatorMsg == [state : States \cup {"OFF"}, buzzer_click : BOOLEAN]

(* A slip: the times are compared, not their difference. *)
BeforeUnsigned(a, b) == a < b

(* (int32_t)(a - b) < 0 *)
Before(a, b) == (a - b) % ClockMod >= HalfTurn

BlinkHalf(state) ==
    IF state = "WINDOW_SUSPECT" THEN SuspectHalfMs ELSE PausedHalfMs

Blinks(state) == state \in {"WINDOW_SUSPECT", "AC_PAUSED"}

(* A slip: LD3 is lit while the window suspends the cooling. *)
SetOutputsSteady(message, t, buzzer_click_active) ==
    [ld1 |-> message.state = "COOLING", ld2 |-> message.state = "MANUAL_OVERRIDE",
     ld3 |-> Blinks(message.state), buzzer |-> buzzer_click_active]

SetOutputs(message, t, buzzer_click_active) ==
    [ld1    |-> message.state = "COOLING",
     ld2    |-> message.state = "MANUAL_OVERRIDE",
     ld3    |-> /\ Blinks(message.state)
                /\ t % (2 * BlinkHalf(message.state)) < BlinkHalf(message.state),
     buzzer |-> buzzer_click_active]

Capped(n, cap) == IF n < cap THEN n ELSE cap

Observe(click, gap) ==
    /\ clicked' = (clicked \/ click)
    /\ quietMs' = IF click THEN 0 ELSE Capped(quietMs + gap, HalfTurn + BuzzerClickMs)
    /\ steadyMs' = IF /\ Blinks(current.state) /\ current'.state = current.state
                      /\ pins'.ld3 = pins.ld3
                   THEN Capped(steadyMs + gap, ClockMod) ELSE 0

(* The rest of an iteration once the queue has been asked. *)
Drive(click, gap) ==
    /\ now' = (now + gap) % ClockMod
    /\ buzzer_until_ms' = IF click THEN (now' + BuzzerClickMs) % ClockMod
                          ELSE buzzer_until_ms
    /\ pins' = SetOutputs(current', now', Before(now', buzzer_until_ms'))
    /\ Observe(click, gap)

TakeMessage(m, gap) ==
    /\ current' = m
    /\ Drive(m.buzzer_click, gap)

QueueEmpty(gap) ==
    /\ current' = current
    /\ Drive(FALSE, gap)

Init ==
    /\ current = [state |-> "OFF", buzzer_click |-> FALSE]
    /\ buzzer_until_ms = 0
    /\ now = 0
    /\ pins = [ld1 |-> FALSE, ld2 |-> FALSE, ld3 |-> FALSE, buzzer |-> FALSE]
    /\ clicked = FALSE
    /\ quietMs = 0
    /\ steadyMs = 0

Next ==
    \E gap \in 1 .. MaxGapMs :
        \/ \E m \in [state : States, buzzer_click : BOOLEAN] : TakeMessage(m, gap)
        \/ QueueEmpty(gap)

Spec == Init /\ [][Next]_vars

-----------------------------------------------------------------------------
TypeOK ==
    /\ current \in ActuatorMsg
    /\ buzzer_until_ms \in 0 .. ClockMod - 1
    /\ now \in 0 .. ClockMod - 1
    /\ pins \in [ld1 : BOOLEAN, ld2 : BOOLEAN, ld3 : BOOLEAN, buzzer : BOOLEAN]
    /\ clicked \in BOOLEAN
    /\ quietMs \in 0 .. HalfTurn + BuzzerClickMs
    /\ steadyMs \in 0 .. ClockMod

(* What is to be heard: BuzzerClickMs of sound after a click was taken,    *)
(* not cut short by the messages that follow it.                           *)
ClickIsDue == clicked /\ quietMs < BuzzerClickMs

(* The buzzer sounds exactly then, if the last click is less than half a   *)
(* turn of the clock old; so it is across a wrap-around.                   *)
BuzzerIsExactForHalfATurn ==
    quietMs < HalfTurn + (IF clicked THEN BuzzerClickMs ELSE 0)
        => (pins.buzzer <=> ClickIsDue)

(* The buzzer sounds for a click of B1 and for nothing else.               *)
BuzzerIsAClick == pins.buzzer => ClickIsDue

(* LD3 is seen to blink while the window suspends the cooling: even where  *)
(* the clock wraps in mid-period, no phase lasts for a period and a poll.  *)
LampBlinks ==
    Blinks(current.state) =>
        steadyMs < 2 * BlinkHalf(current.state) + MaxGapMs
=============================================================================
