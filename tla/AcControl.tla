----------------------------- MODULE AcControl ------------------------------
(***************************************************************************)
(* Control_Step of app_control.c as a function on the control context.     *)
(*                                                                         *)
(* The C function mutates *ctx in the order: power, set-point, manual,     *)
(* opening edge, sample, state decision, window history.  Each of these is *)
(* one operator below that returns the context after it, and Control_Step  *)
(* is their composition.  Temperatures and humidities are in tenths, as    *)
(* DhtRead delivers them; set-points and rounded temperatures are in       *)
(* degrees.  Milliseconds are a counter modulo ClockMod (2^32 in the code).*)
(***************************************************************************)
EXTENDS SinglePrecision, AcMessages

CONSTANTS
    SetpointMin,      \* APP_SETPOINT_MIN_C
    SetpointMax,      \* APP_SETPOINT_MAX_C
    SetpointDefault,  \* APP_SETPOINT_DEFAULT_C
    WindowPauseMs,    \* APP_WINDOW_PAUSE_MS
    RecoveryWaitMs,   \* APP_RECOVERY_WAIT_MS
    ClockMod,         \* App_Millis counts modulo this
    NoSensor          \* the NULL sensor pointer: no message received yet

ASSUME ControlAssumption ==
    /\ SetpointMin \in 0 .. 127
    /\ SetpointMax \in 0 .. 127
    /\ SetpointDefault \in SetpointMin .. SetpointMax
    /\ ClockMod \in Nat \ {0}
    /\ WindowPauseMs \in 1 .. ClockMod - 1
    /\ RecoveryWaitMs \in 1 .. ClockMod - 1

Millis == 0 .. ClockMod - 1
Int8   == -128 .. 127

SensorMsg == [temperature_c : Int, humidity_pct : Nat,
              window_open : BOOLEAN, valid : BOOLEAN]

ASSUME NoSensorAssumption == NoSensor \notin SensorMsg

ControlContext ==
    [powered : BOOLEAN, manual : BOOLEAN, have_sensor : BOOLEAN,
     window_was_open : BOOLEAN, pause_latched : BOOLEAN,
     setpoint_c : SetpointMin .. SetpointMax,
     temperature_c : Int, humidity_pct : Nat,
     humidity_before_window_pct : Nat,
     window_open_since_ms : Millis, recovery_since_ms : Millis,
     state : AcState]

(* A slip: the context starts from a plausible temperature. *)
Control_InitAtThirty ==
    [powered |-> FALSE, manual |-> FALSE, have_sensor |-> FALSE,
     window_was_open |-> FALSE, pause_latched |-> FALSE,
     setpoint_c |-> SetpointDefault,
     temperature_c |-> 300, humidity_pct |-> 0,
     humidity_before_window_pct |-> 0,
     window_open_since_ms |-> 0, recovery_since_ms |-> 0,
     state |-> "OFF"]

Control_Init ==
    [powered |-> FALSE, manual |-> FALSE, have_sensor |-> FALSE,
     window_was_open |-> FALSE, pause_latched |-> FALSE,
     setpoint_c |-> SetpointDefault,
     temperature_c |-> 0, humidity_pct |-> 0,
     humidity_before_window_pct |-> 0,
     window_open_since_ms |-> 0, recovery_since_ms |-> 0,
     state |-> "OFF"]

(* Slips: a time before the stamp counts as none, or as its distance. *)
ElapsedSaturated(now, since) == IF now >= since THEN now - since ELSE 0
ElapsedAbsolute(now, since)  == IF now >= since THEN now - since ELSE since - now

(* The unsigned difference now_ms - since_ms. *)
Elapsed(now, since) == (now - since) % ClockMod

(* (int8_t) of a value rounded half away from zero.  Beyond the int8 range *)
(* C leaves the cast undefined; the software-float build converts to int32 *)
(* and keeps the low byte.                                                 *)
RoundTemperature(t) ==
    LET r == IF t >= 0 THEN (t + 5) \div 10 ELSE -((5 - t) \div 10)
    IN  ((r + 128) % 256) - 128

CoolingLevel(t, setpoint, manual) ==
    LET delta == t - 10 * setpoint
    IN  IF delta <= (IF manual THEN 0 ELSE 10) THEN 0
        ELSE IF delta <= 20 THEN 1
        ELSE IF delta <= 40 THEN 2
        ELSE 3

-----------------------------------------------------------------------------
(* The stages of Control_Step, in the order of the code. *)

TogglePower(c, events) ==
    IF "POWER" \notin events THEN c
    ELSE IF c.powered
    THEN [c EXCEPT !.powered = FALSE, !.manual = FALSE,
                   !.pause_latched = FALSE, !.window_was_open = FALSE]
    ELSE [c EXCEPT !.powered = TRUE]

AdjustSetpoint(c, events) ==
    LET up   == IF "SETPOINT_UP" \in events /\ c.setpoint_c < SetpointMax
                THEN c.setpoint_c + 1 ELSE c.setpoint_c
        down == IF "SETPOINT_DOWN" \in events /\ up > SetpointMin
                THEN up - 1 ELSE up
    IN  [c EXCEPT !.setpoint_c = down]

ToggleManual(c, events) ==
    IF "MANUAL" \in events /\ c.powered
    THEN [c EXCEPT !.manual = ~c.manual,
                   !.pause_latched = c.manual /\ c.pause_latched]
    ELSE c

ApplyEvents(c, events) ==
    ToggleManual(AdjustSetpoint(TogglePower(c, events), events), events)

WindowOpen(sensor) == sensor # NoSensor /\ sensor.window_open
Measured(sensor)   == sensor # NoSensor /\ sensor.valid

(* A slip: the humidity before the opening is not kept. *)
ObserveWindowTimeOnly(c, sensor, now) ==
    IF WindowOpen(sensor) /\ ~c.window_was_open
    THEN [c EXCEPT !.window_open_since_ms = now]
    ELSE c

(* On an opening edge the time and the humidity before it are remembered.  *)
ObserveWindow(c, sensor, now) ==
    IF WindowOpen(sensor) /\ ~c.window_was_open
    THEN [c EXCEPT !.window_open_since_ms = now,
                   !.humidity_before_window_pct =
                        IF c.have_sensor THEN c.humidity_pct
                                         ELSE sensor.humidity_pct]
    ELSE c

ObserveSample(c, sensor) ==
    IF Measured(sensor)
    THEN [c EXCEPT !.temperature_c = sensor.temperature_c,
                   !.humidity_pct = sensor.humidity_pct,
                   !.have_sensor = TRUE]
    ELSE c

(* A slip: the pause is decided anew at every step. *)
PauseDueUnlatched(c, sensor, now) ==
    \/ Elapsed(now, c.window_open_since_ms) >= WindowPauseMs
    \/ /\ sensor.valid
       /\ FloatRise(sensor.humidity_pct, c.humidity_before_window_pct)

PauseDue(c, sensor, now) ==
    \/ Elapsed(now, c.window_open_since_ms) >= WindowPauseMs
    \/ /\ sensor.valid
       /\ FloatRise(sensor.humidity_pct, c.humidity_before_window_pct)
    \/ c.pause_latched

DecideState(c, sensor, now) ==
    IF ~c.powered THEN [c EXCEPT !.state = "OFF"]
    ELSE IF c.manual THEN [c EXCEPT !.state = "MANUAL_OVERRIDE"]
    ELSE IF WindowOpen(sensor) /\ PauseDue(c, sensor, now)
    THEN [c EXCEPT !.state = "AC_PAUSED", !.pause_latched = TRUE]
    ELSE IF WindowOpen(sensor) THEN [c EXCEPT !.state = "WINDOW_SUSPECT"]
    ELSE IF c.window_was_open
    THEN [c EXCEPT !.state = "RECOVERY_WAIT", !.pause_latched = FALSE,
                   !.recovery_since_ms = now]
    ELSE IF /\ c.state = "RECOVERY_WAIT"
            /\ Elapsed(now, c.recovery_since_ms) < RecoveryWaitMs
    THEN c
    ELSE IF c.have_sensor /\ CoolingLevel(c.temperature_c, c.setpoint_c, FALSE) > 0
    THEN [c EXCEPT !.state = "COOLING"]
    ELSE [c EXCEPT !.state = "IDLE"]

(* A slip: the window of a message without a reading is forgotten. *)
RememberWindowIfMeasured(c, sensor) ==
    IF Measured(sensor) THEN [c EXCEPT !.window_was_open = sensor.window_open] ELSE c

RememberWindow(c, sensor) ==
    IF sensor = NoSensor THEN c
    ELSE [c EXCEPT !.window_was_open = sensor.window_open]

Control_Step(c, sensor, events, now) ==
    LET e == ApplyEvents(c, events)
        o == ObserveSample(ObserveWindow(e, sensor, now), sensor)
    IN  RememberWindow(DecideState(o, sensor, now), sensor)

(* A slip: the level follows the temperature in every state but OFF. *)
OutputWhilePowered(c) ==
    [state |-> c.state,
     cooling_level |-> IF c.powered THEN CoolingLevel(c.temperature_c, c.setpoint_c, c.manual)
                       ELSE 0,
     current_temperature_c |->
        IF c.have_sensor THEN RoundTemperature(c.temperature_c) ELSE 0,
     setpoint_c |-> c.setpoint_c,
     temperature_valid |-> c.have_sensor]

(* The ControlOutput returned beside the new context. *)
Output(c) ==
    [state |-> c.state,
     cooling_level |->
        IF c.state = "COOLING"
        THEN CoolingLevel(c.temperature_c, c.setpoint_c, FALSE)
        ELSE IF c.state = "MANUAL_OVERRIDE"
        THEN CoolingLevel(c.temperature_c, c.setpoint_c, TRUE)
        ELSE 0,
     current_temperature_c |->
        IF c.have_sensor THEN RoundTemperature(c.temperature_c) ELSE 0,
     setpoint_c |-> c.setpoint_c,
     temperature_valid |-> c.have_sensor]

ControlOutput ==
    [state : AcState, cooling_level : 0 .. 3, current_temperature_c : Int8,
     setpoint_c : SetpointMin .. SetpointMax, temperature_valid : BOOLEAN]
=============================================================================
