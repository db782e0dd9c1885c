------------------------------- MODULE Display -------------------------------
(***************************************************************************)
(* DisplayTask and Tm1637_BuildSegments: every 100 ms at most one message  *)
(* is taken from DisplayQ and turned into four bytes of segments.  The     *)
(* seconds shown while the window matters are not sent by ControlTask: the *)
(* renderer keeps, in static variables, when the state it shows began.     *)
(*                                                                         *)
(* A character is the byte of its segments; several share one, '0' and 'O' *)
(* or '5' and 'S'.                                                         *)
(***************************************************************************)
EXTENDS Integers, Sequences, AcMessages

CONSTANTS
    Messages,         \* the messages ControlTask may send
    SetpointDefault,  \* APP_SETPOINT_DEFAULT_C
    HalfSecondMs,     \* 500
    RecoveryWaitMs,   \* APP_RECOVERY_WAIT_MS
    ClockMod,         \* App_Millis counts modulo this
    PollGaps          \* milliseconds from one iteration to the next

SecondMs == 2 * HalfSecondMs

DisplayMsg ==
    [state : AcState, cooling_level : 0 .. 3, current_temperature_c : -128 .. 127,
     setpoint_c : 0 .. 127, temperature_valid : BOOLEAN]

ASSUME DisplayAssumption ==
    /\ Messages \subseteq DisplayMsg
    /\ SetpointDefault \in 0 .. 127
    /\ HalfSecondMs \in Nat \ {0}
    /\ RecoveryWaitMs \in Nat
    /\ ClockMod \in Nat \ {0}
    /\ PollGaps \subseteq 1 .. ClockMod - 1

VARIABLES
    current,                 \* DisplayTask's
    last_display_state,      \* the statics of Tm1637_BuildSegments
    display_state_since_ms,
    now                      \* App_Millis()

(* History: how long the display has been told the state it shows.         *)
VARIABLE toldMs

displayVars == <<current, last_display_state, display_state_since_ms, now, toldMs>>

-----------------------------------------------------------------------------
DigitSegment == [d \in 0 .. 9 |->
    CASE d = 0 -> 63  [] d = 1 -> 6   [] d = 2 -> 91 [] d = 3 -> 79  [] d = 4 -> 102
      [] d = 5 -> 109 [] d = 6 -> 125 [] d = 7 -> 7  [] d = 8 -> 127 [] d = 9 -> 111]

CharSegment ==
    [O |-> 63, E |-> 121, F |-> 113, L |-> 56, P |-> 115, S |-> 109,
     A |-> 119, U |-> 62, dash |-> 64, blank |-> 0]

Dp == 128   \* the decimal point or colon

AtMost(n, limit) == IF n > limit THEN limit ELSE n

(* A slip: the sign is lost. *)
PutTwoDigitsUnsigned(value, leading) ==
    LET v == AtMost(IF value < 0 THEN -value ELSE value, 99)
    IN  <<IF v >= 10 THEN DigitSegment[v \div 10] ELSE leading, DigitSegment[v % 10]>>

PutTwoDigits(value, leading) ==
    IF value < 0
    THEN <<CharSegment.dash, DigitSegment[AtMost(-value, 9)]>>
    ELSE LET v == AtMost(value, 99)
         IN  <<IF v >= 10 THEN DigitSegment[v \div 10] ELSE leading,
               DigitSegment[v % 10]>>

PutTemperature(m) ==
    IF m.temperature_valid
    THEN PutTwoDigits(m.current_temperature_c, CharSegment.blank)
    ELSE <<CharSegment.dash, CharSegment.dash>>

Zero == DigitSegment[0]

TempAndLevel(m, prefix) ==
    PutTemperature(m) \o <<prefix, DigitSegment[m.cooling_level % 10]>>

CodeAndSeconds(c0, c1, seconds) ==
    <<c0, c1>> \o PutTwoDigits(AtMost(seconds, 99), Zero)

(* A slip: no point between the numbers. *)
TempAndSetpointPlain(m) ==
    PutTwoDigits(m.current_temperature_c, CharSegment.blank)
        \o PutTwoDigits(m.setpoint_c, Zero)

TempAndSetpoint(m) ==
    LET left == PutTwoDigits(m.current_temperature_c, CharSegment.blank)
    IN  <<left[1], left[2] + Dp>> \o PutTwoDigits(m.setpoint_c, Zero)

Blank    == <<0, 0, 0, 0>>
Dashes   == [i \in 1 .. 4 |-> CharSegment.dash]
OffText  == <<CharSegment.O, CharSegment.F, CharSegment.F, CharSegment.blank>>
PausText == <<CharSegment.P, CharSegment.A, CharSegment.U, CharSegment.S>>

(* A slip: a second begun is not counted. *)
RemainingSecondsRounded(elapsed) ==
    (IF elapsed >= RecoveryWaitMs THEN 0 ELSE RecoveryWaitMs - elapsed) \div SecondMs

(* Whole seconds still to wait, the last one begun counted. *)
RemainingSeconds(elapsed) ==
    LET remaining == IF elapsed >= RecoveryWaitMs THEN 0 ELSE RecoveryWaitMs - elapsed
    IN  (remaining + SecondMs - 1) \div SecondMs

(* The switch of Tm1637_BuildSegments, t and elapsed being the time and    *)
(* how long the state has been shown.                                      *)
BuildSegments(m, t, elapsed) ==
    CASE m.state = "OFF" ->
            IF t % SecondMs < HalfSecondMs THEN OffText ELSE Blank
      [] m.state = "IDLE" ->
            IF m.temperature_valid THEN TempAndSetpoint(m) ELSE Dashes
      [] m.state = "COOLING"         -> TempAndLevel(m, CharSegment.L)
      [] m.state = "WINDOW_SUSPECT"  ->
            CodeAndSeconds(CharSegment.O, CharSegment.P, elapsed \div SecondMs)
      [] m.state = "AC_PAUSED"       -> PausText
      [] m.state = "RECOVERY_WAIT"   ->
            CodeAndSeconds(CharSegment.E, CharSegment.S, RemainingSeconds(elapsed))
      [] m.state = "MANUAL_OVERRIDE" -> TempAndLevel(m, CharSegment.A)

-----------------------------------------------------------------------------
(* One iteration of DisplayTask, showing m from now on. *)
Render(m, gap) ==
    /\ current' = m
    /\ now' = (now + gap) % ClockMod
    /\ last_display_state' = m.state
    /\ display_state_since_ms' =
            IF m.state # last_display_state THEN now' ELSE display_state_since_ms
    /\ toldMs' = IF m.state # current.state THEN 0
                 ELSE IF toldMs + gap < ClockMod THEN toldMs + gap ELSE ClockMod

(* What Tm1637_BuildSegments makes of it. *)
Text == BuildSegments(current, now, (now - display_state_since_ms) % ClockMod)

TakeMessage(gap) == \E m \in Messages : Render(m, gap)

QueueEmpty(gap) == Render(current, gap)

NothingToShow ==
    [state |-> "OFF", cooling_level |-> 0, current_temperature_c |-> 0,
     setpoint_c |-> SetpointDefault, temperature_valid |-> FALSE]

DisplayInit ==
    /\ current = NothingToShow
    /\ last_display_state = "OFF"
    /\ display_state_since_ms = 0
    /\ now = 0
    /\ toldMs = 0

DisplayReset ==
    /\ current' = NothingToShow
    /\ last_display_state' = "OFF"
    /\ display_state_since_ms' = 0
    /\ now' = 0
    /\ toldMs' = 0

-----------------------------------------------------------------------------
(* What somebody makes of a text who knows only the README's table.        *)
LooksLike(state, s) ==
    CASE state = "OFF"             -> s \in {OffText, Blank}
      [] state = "IDLE"            -> s[2] >= Dp \/ s = Dashes
      [] state = "COOLING"         -> s[3] = CharSegment.L
      [] state = "WINDOW_SUSPECT"  -> s[1] = CharSegment.O /\ s[2] = CharSegment.P
      [] state = "AC_PAUSED"       -> s = PausText
      [] state = "RECOVERY_WAIT"   -> s[1] = CharSegment.E /\ s[2] = CharSegment.S
      [] state = "MANUAL_OVERRIDE" -> s[3] = CharSegment.A

(* The two-digit numbers a pair of digits may stand for. *)
NumbersRead(hi, lo, leading) ==
    {n \in -9 .. 99 : PutTwoDigits(n, leading) = <<hi, lo>>}
=============================================================================
