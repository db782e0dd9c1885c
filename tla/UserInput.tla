------------------------------ MODULE UserInput ------------------------------
(***************************************************************************)
(* UserInputTask: the buttons are polled, UP and DOWN through a counting   *)
(* debouncer, B1 as it is; the events found are OR-ed into the flag group  *)
(* UserEventFlags, from which ControlTask takes them all at once.          *)
(*                                                                         *)
(* The levels the pins show are arbitrary at every poll: a bounce is a     *)
(* level like any other.  A debounced button is named by its event.        *)
(***************************************************************************)
EXTENDS Integers, AcMessages

CONSTANTS
    Buttons,          \* the debounced buttons
    DebounceSamples,  \* APP_DEBOUNCE_SAMPLES
    LongPressMs,      \* APP_LONG_PRESS_MS
    ClockMod,         \* App_Millis counts modulo this
    PollGaps,         \* milliseconds from one poll to the next
    LagPolls          \* polls that may pass before ControlTask takes the flags

ASSUME InputAssumption ==
    /\ Buttons \subseteq {"SETPOINT_UP", "SETPOINT_DOWN"}
    /\ DebounceSamples \in 1 .. 255
    /\ ClockMod \in Nat \ {0}
    /\ LongPressMs \in 1 .. ClockMod - 1
    /\ PollGaps \subseteq 1 .. ClockMod - 1
    /\ LagPolls \in Nat \ {0}

(* ControlTask waits for no more than 10 ticks before it takes the flags,  *)
(* UserInputTask sleeps for 10 ms.                                         *)
ASSUME LagAssumption == LagPolls <= 2

VARIABLES
    db,                \* the ButtonDebounce of every debounced button
    b1_was_pressed,
    b1_pressed_since,
    now,               \* App_Millis()
    events,            \* the events found by the last poll
    flags              \* UserEventFlags

(* History: the levels as seen by an observer of the pins.                 *)
VARIABLES
    run,               \* level and length of the current run of equal polls
    stable,            \* level of the last run of DebounceSamples polls
    heldMs,            \* how long B1 has been pressed
    lag                \* polls since ControlTask took the flags

history == <<run, stable, heldMs, lag>>
vars == <<db, b1_was_pressed, b1_pressed_since, now, events, flags, history>>

ButtonDebounce == [pressed : BOOLEAN, count : 0 .. DebounceSamples - 1]

DebounceButton(d, raw) ==
    IF raw = d.pressed THEN [d EXCEPT !.count = 0]
    ELSE IF d.count + 1 < DebounceSamples THEN [d EXCEPT !.count = @ + 1]
    ELSE [pressed |-> raw, count |-> 0]

(* Slips: a release is an event too; a button held down repeats. *)
ChangeAccepted(d, raw) ==
    raw # d.pressed /\ d.count + 1 >= DebounceSamples

PressRepeated(d, raw) ==
    raw /\ (d.pressed \/ d.count + 1 >= DebounceSamples)

(* The value DebounceButton returns: a change to pressed was accepted.     *)
PressAccepted(d, raw) ==
    raw /\ ~d.pressed /\ d.count + 1 >= DebounceSamples

(* A slip: times are compared without regard to the wrap-around. *)
B1EventsUnwrapped(b1, t) ==
    IF ~b1 /\ b1_was_pressed
    THEN {"BUZZER_CLICK",
          IF t >= b1_pressed_since + LongPressMs THEN "POWER" ELSE "MANUAL"}
    ELSE {}

(* B1: the click and the long or short press are told on release.          *)
B1Events(b1, t) ==
    IF ~b1 /\ b1_was_pressed
    THEN {"BUZZER_CLICK",
          IF (t - b1_pressed_since) % ClockMod >= LongPressMs
          THEN "POWER" ELSE "MANUAL"}
    ELSE {}

Capped(n, cap) == IF n < cap THEN n ELSE cap

Observe(raw, b1, gap) ==
    /\ run' = [b \in Buttons |->
                 [level  |-> raw[b],
                  length |-> IF raw[b] = run[b].level
                             THEN Capped(run[b].length + 1, DebounceSamples)
                             ELSE 1]]
    /\ stable' = [b \in Buttons |->
                    IF run'[b].length = DebounceSamples THEN raw[b] ELSE stable[b]]
    /\ heldMs' = IF b1_was_pressed THEN heldMs + gap ELSE 0
    /\ lag' = lag + 1

(* One iteration of UserInputTask.  Nobody holds B1 for a whole turn of    *)
(* the clock (49 days), and ControlTask is at most LagPolls polls behind.  *)
Poll(raw, b1, gap) ==
    /\ b1_was_pressed => heldMs + gap < ClockMod
    /\ lag < LagPolls
    /\ now' = (now + gap) % ClockMod
    /\ db' = [b \in Buttons |-> DebounceButton(db[b], raw[b])]
    /\ b1_pressed_since' = IF b1 /\ ~b1_was_pressed THEN now' ELSE b1_pressed_since
    /\ b1_was_pressed' = b1
    /\ events' = {b \in Buttons : PressAccepted(db[b], raw[b])} \cup B1Events(b1, now')
    /\ flags' = flags \cup events'
    /\ Observe(raw, b1, gap)

(* ControlTask: OSFlagPend(any, consume, non-blocking).                    *)
TakeFlags ==
    /\ flags' = {}
    /\ lag' = 0
    /\ UNCHANGED <<db, b1_was_pressed, b1_pressed_since, now, events,
                   run, stable, heldMs>>

Init ==
    /\ db = [b \in Buttons |-> [pressed |-> FALSE, count |-> 0]]
    /\ b1_was_pressed = FALSE
    /\ b1_pressed_since = 0
    /\ now = 0
    /\ events = {}
    /\ flags = {}
    /\ run = [b \in Buttons |-> [level |-> FALSE, length |-> 0]]
    /\ stable = [b \in Buttons |-> FALSE]
    /\ heldMs = 0
    /\ lag = 0

Next ==
    \/ \E raw \in [Buttons -> BOOLEAN], b1 \in BOOLEAN, gap \in PollGaps :
            Poll(raw, b1, gap)
    \/ TakeFlags

Spec == Init /\ [][Next]_vars

-----------------------------------------------------------------------------
TypeOK ==
    /\ db \in [Buttons -> ButtonDebounce]
    /\ b1_was_pressed \in BOOLEAN
    /\ b1_pressed_since \in 0 .. ClockMod - 1
    /\ now \in 0 .. ClockMod - 1
    /\ events \subseteq UserEvents
    /\ flags \subseteq UserEvents
    /\ run \in [Buttons -> [level : BOOLEAN, length : 0 .. DebounceSamples]]
    /\ stable \in [Buttons -> BOOLEAN]
    /\ heldMs \in 0 .. ClockMod - 1
    /\ lag \in 0 .. LagPolls

(* The accepted level is the last one the pin has kept for DebounceSamples *)
(* polls in a row, and the counter says how far the present run has come.  *)
LevelIsStable ==
    \A b \in Buttons :
        /\ db[b].pressed = stable[b]
        /\ db[b].count = IF run[b].level = db[b].pressed THEN 0 ELSE run[b].length

(* One physical press, however it bounces, is one event: there is an event *)
(* exactly when the stable level goes from released to pressed.            *)
OneEventPerPress ==
    [][\A b \in Buttons :
          lag' # 0 => (b \in events' <=> ~stable[b] /\ stable'[b])]_vars

(* B1 held for LongPressMs or more toggles the power, otherwise the manual *)
(* mode, also when the clock wraps around during the press.                *)
PressLengthDecides ==
    [][b1_was_pressed /\ ~b1_was_pressed' =>
          IF heldMs' >= LongPressMs
          THEN "POWER" \in events' /\ "MANUAL" \notin events'
          ELSE "MANUAL" \in events' /\ "POWER" \notin events']_vars

(* No event is posted while the previous one of its kind is still in the   *)
(* flag group, where the two would become one.                             *)
NoEventMerged == [][lag' # 0 => events' \cap flags = {}]_vars
=============================================================================
