---------------------------- MODULE ControlProofs ----------------------------
(***************************************************************************)
(* Proofs about ControlFsm: its safety properties for every value of the   *)
(* constants, by the inductive invariant IndInv, and the refinement of     *)
(* AcPolicy.                                                               *)
(*                                                                         *)
(* Control_Step is a composition of stages, and so is the proof: one lemma *)
(* per stage says which fields it touches and how; the lemmas on Step use  *)
(* only those, never the records themselves.                               *)
(***************************************************************************)
EXTENDS ControlFsm, TLAPS

-----------------------------------------------------------------------------
(* The stages of Control_Step *)

(* Fields the handling of the buttons leaves alone, and the readings and   *)
(* time stamps the later stages leave alone.                               *)
SameReading(c, d) ==
    /\ d.have_sensor = c.have_sensor
    /\ d.temperature_c = c.temperature_c
    /\ d.humidity_pct = c.humidity_pct

SameOpening(c, d) ==
    /\ d.window_open_since_ms = c.window_open_since_ms
    /\ d.humidity_before_window_pct = c.humidity_before_window_pct

SameSwitches(c, d) ==
    /\ d.powered = c.powered
    /\ d.manual = c.manual

(* Buttons change the set-point within its limits and the switches; the    *)
(* latch and the remembered window only ever go down, with the automatic   *)
(* mode and the power.                                                     *)
LEMMA ButtonsApplied ==
    ASSUME NEW c \in ControlContext, NEW events \in SUBSET UserEvents
    PROVE  /\ ApplyEvents(c, events) \in ControlContext
           /\ SameReading(c, ApplyEvents(c, events))
           /\ SameOpening(c, ApplyEvents(c, events))
           /\ ApplyEvents(c, events).recovery_since_ms = c.recovery_since_ms
           /\ ApplyEvents(c, events).state = c.state
           /\ ApplyEvents(c, events).window_was_open
                  => c.window_was_open
           /\ ApplyEvents(c, events).powered
                  => ApplyEvents(c, events).window_was_open = c.window_was_open
           /\ (~c.powered => ~c.manual) =>
                  (~ApplyEvents(c, events).powered
                        => ~ApplyEvents(c, events).manual)
           /\ ApplyEvents(c, events).pause_latched => c.pause_latched
           /\ (c.pause_latched => c.powered /\ ~c.manual) =>
                  (ApplyEvents(c, events).pause_latched
                        => /\ ApplyEvents(c, events).powered
                           /\ ~ApplyEvents(c, events).manual)
           /\ c.powered /\ ~c.manual /\ ApplyEvents(c, events).powered
                        /\ ~ApplyEvents(c, events).manual
                  => ApplyEvents(c, events).pause_latched = c.pause_latched
  <1> DEFINE p == TogglePower(c, events)
             s == AdjustSetpoint(p, events)
             e == ToggleManual(s, events)
  <1>1. /\ p \in ControlContext
        /\ SameReading(c, p) /\ SameOpening(c, p)
        /\ p.recovery_since_ms = c.recovery_since_ms
        /\ p.state = c.state
        /\ IF "POWER" \notin events
           THEN p = c
           ELSE /\ p.powered = ~c.powered
                /\ p.powered => /\ p.window_was_open = c.window_was_open
                                /\ p.manual = c.manual
                                /\ p.pause_latched = c.pause_latched
                /\ ~p.powered => ~p.window_was_open /\ ~p.manual /\ ~p.pause_latched
    BY DEF TogglePower, ControlContext, SameReading, SameOpening
  <1>2. /\ s \in ControlContext
        /\ SameReading(p, s) /\ SameOpening(p, s) /\ SameSwitches(p, s)
        /\ s.recovery_since_ms = p.recovery_since_ms
        /\ s.state = p.state
        /\ s.window_was_open = p.window_was_open
        /\ s.pause_latched = p.pause_latched
    <2> HIDE DEF p
    <2> QED
      BY <1>1, ControlAssumption
         DEF AdjustSetpoint, ControlContext, SameReading, SameOpening, SameSwitches
  <1>3. /\ e \in ControlContext
        /\ SameReading(s, e) /\ SameOpening(s, e)
        /\ e.recovery_since_ms = s.recovery_since_ms
        /\ e.state = s.state
        /\ e.window_was_open = s.window_was_open
        /\ e.powered = s.powered
        /\ IF "MANUAL" \in events /\ s.powered
           THEN /\ e.manual = ~s.manual
                /\ e.pause_latched = (s.manual /\ s.pause_latched)
           ELSE e = s
    <2> HIDE DEF s
    <2> QED
      BY <1>2 DEF ToggleManual, ControlContext, SameReading, SameOpening
  <1>4. ApplyEvents(c, events) = e
    BY DEF ApplyEvents
  <1> HIDE DEF e, s, p
  <1>5. c.powered \in BOOLEAN /\ c.manual \in BOOLEAN /\ c.pause_latched \in BOOLEAN
    BY DEF ControlContext
  <1>6. s.powered \in BOOLEAN /\ s.manual \in BOOLEAN /\ s.pause_latched \in BOOLEAN
    BY <1>2 DEF ControlContext
  <1> QED
    BY <1>1, <1>2, <1>3, <1>4, <1>5, <1>6 DEF SameReading, SameOpening, SameSwitches

(* An opening edge records the time and the humidity before it, no more.   *)
LEMMA WindowObserved ==
    ASSUME NEW c \in ControlContext, NEW m \in SensorMsg \cup {NoSensor},
           NEW t \in Millis
    PROVE  /\ ObserveWindow(c, m, t) \in ControlContext
           /\ SameReading(c, ObserveWindow(c, m, t))
           /\ SameSwitches(c, ObserveWindow(c, m, t))
           /\ ObserveWindow(c, m, t).recovery_since_ms = c.recovery_since_ms
           /\ ObserveWindow(c, m, t).state = c.state
           /\ ObserveWindow(c, m, t).window_was_open = c.window_was_open
           /\ ObserveWindow(c, m, t).pause_latched = c.pause_latched
           /\ IF WindowOpen(m) /\ ~c.window_was_open
              THEN /\ ObserveWindow(c, m, t).window_open_since_ms = t
                   /\ ObserveWindow(c, m, t).humidity_before_window_pct =
                        IF c.have_sensor THEN c.humidity_pct ELSE m.humidity_pct
              ELSE SameOpening(c, ObserveWindow(c, m, t))
  BY DEF ObserveWindow, WindowOpen, ControlContext, SensorMsg,
         SameReading, SameOpening, SameSwitches

(* A valid message replaces the reading; nothing else does. *)
LEMMA SampleObserved ==
    ASSUME NEW c \in ControlContext, NEW m \in SensorMsg \cup {NoSensor}
    PROVE  /\ ObserveSample(c, m) \in ControlContext
           /\ SameOpening(c, ObserveSample(c, m))
           /\ SameSwitches(c, ObserveSample(c, m))
           /\ ObserveSample(c, m).recovery_since_ms = c.recovery_since_ms
           /\ ObserveSample(c, m).state = c.state
           /\ ObserveSample(c, m).window_was_open = c.window_was_open
           /\ ObserveSample(c, m).pause_latched = c.pause_latched
           /\ IF Measured(m)
              THEN /\ ObserveSample(c, m).have_sensor
                   /\ ObserveSample(c, m).humidity_pct = m.humidity_pct
              ELSE SameReading(c, ObserveSample(c, m))
  BY DEF ObserveSample, Measured, ControlContext, SensorMsg,
         SameReading, SameOpening, SameSwitches

(* The state decision changes the state, the latch and the recovery time   *)
(* stamp.  Its branches, in the order of the code:                         *)
Decided(c, m, t, d) ==
    /\ ~c.powered => d.state = "OFF" /\ d.pause_latched = c.pause_latched
    /\ c.powered /\ c.manual =>
            d.state = "MANUAL_OVERRIDE" /\ d.pause_latched = c.pause_latched
    /\ c.powered /\ ~c.manual /\ WindowOpen(m) =>
            IF PauseDue(c, m, t)
            THEN d.state = "AC_PAUSED" /\ d.pause_latched
            ELSE d.state = "WINDOW_SUSPECT" /\ d.pause_latched = c.pause_latched
    /\ c.powered /\ ~c.manual /\ ~WindowOpen(m) /\ c.window_was_open =>
            /\ d.state = "RECOVERY_WAIT"
            /\ ~d.pause_latched
            /\ d.recovery_since_ms = t
    /\ c.powered /\ ~c.manual /\ ~WindowOpen(m) /\ ~c.window_was_open =>
            /\ d.pause_latched = c.pause_latched
            /\ \/ /\ d.state = "RECOVERY_WAIT"
                  /\ c.state = "RECOVERY_WAIT"
                  /\ d.recovery_since_ms = c.recovery_since_ms
                  /\ Elapsed(t, c.recovery_since_ms) < RecoveryWaitMs
               \/ /\ d.state \in {"IDLE", "COOLING"}
                  /\ d.state = "COOLING" => c.have_sensor
                  /\ c.state = "RECOVERY_WAIT"
                        => ~(Elapsed(t, c.recovery_since_ms) < RecoveryWaitMs)

LEMMA StateDecided ==
    ASSUME NEW c \in ControlContext, NEW m \in SensorMsg \cup {NoSensor},
           NEW t \in Millis
    PROVE  /\ DecideState(c, m, t) \in ControlContext
           /\ SameReading(c, DecideState(c, m, t))
           /\ SameOpening(c, DecideState(c, m, t))
           /\ SameSwitches(c, DecideState(c, m, t))
           /\ DecideState(c, m, t).window_was_open = c.window_was_open
           /\ Decided(c, m, t, DecideState(c, m, t))
  <1>1. CASE ~c.powered
    BY <1>1 DEF DecideState, ControlContext, AcState, Decided,
                SameReading, SameOpening, SameSwitches
  <1>2. CASE c.powered /\ c.manual
    BY <1>2 DEF DecideState, ControlContext, AcState, Decided,
                SameReading, SameOpening, SameSwitches
  <1>3. CASE c.powered /\ ~c.manual /\ WindowOpen(m) /\ PauseDue(c, m, t)
    BY <1>3 DEF DecideState, ControlContext, AcState, Decided,
                SameReading, SameOpening, SameSwitches
  <1>4. CASE c.powered /\ ~c.manual /\ WindowOpen(m) /\ ~PauseDue(c, m, t)
    BY <1>4 DEF DecideState, ControlContext, AcState, Decided,
                SameReading, SameOpening, SameSwitches
  <1>5. CASE c.powered /\ ~c.manual /\ ~WindowOpen(m) /\ c.window_was_open
    BY <1>5 DEF DecideState, ControlContext, AcState, Decided,
                SameReading, SameOpening, SameSwitches
  <1>6. CASE c.powered /\ ~c.manual /\ ~WindowOpen(m) /\ ~c.window_was_open
    BY <1>6 DEF DecideState, ControlContext, AcState, Decided,
                SameReading, SameOpening, SameSwitches
  <1> QED
    BY <1>1, <1>2, <1>3, <1>4, <1>5, <1>6

LEMMA WindowRemembered ==
    ASSUME NEW c \in ControlContext, NEW m \in SensorMsg \cup {NoSensor}
    PROVE  /\ RememberWindow(c, m) \in ControlContext
           /\ SameReading(c, RememberWindow(c, m))
           /\ SameOpening(c, RememberWindow(c, m))
           /\ SameSwitches(c, RememberWindow(c, m))
           /\ RememberWindow(c, m).state = c.state
           /\ RememberWindow(c, m).pause_latched = c.pause_latched
           /\ RememberWindow(c, m).recovery_since_ms = c.recovery_since_ms
           /\ RememberWindow(c, m).window_was_open =
                 IF m = NoSensor THEN c.window_was_open ELSE WindowOpen(m)
  BY NoSensorAssumption
     DEF RememberWindow, WindowOpen, ControlContext, SensorMsg,
         SameReading, SameOpening, SameSwitches

-----------------------------------------------------------------------------
(* The output *)

LEMMA RoundingType == ASSUME NEW t \in Int PROVE RoundTemperature(t) \in Int8
  <1>1. \A r \in Int : ((r + 128) % 256) - 128 \in -128 .. 127
    OBVIOUS
  <1>2. (IF t >= 0 THEN (t + 5) \div 10 ELSE -((5 - t) \div 10)) \in Int
    OBVIOUS
  <1> QED
    BY <1>1, <1>2 DEF RoundTemperature, Int8

LEMMA LevelType ==
    ASSUME NEW t \in Int, NEW s \in Int, NEW manual \in BOOLEAN
    PROVE  CoolingLevel(t, s, manual) \in 0 .. 3
  BY DEF CoolingLevel

LEMMA OutputType ==
    ASSUME NEW c \in ControlContext
    PROVE  Output(c) \in ControlOutput
  <1> DEFINE auto == CoolingLevel(c.temperature_c, c.setpoint_c, FALSE)
             user == CoolingLevel(c.temperature_c, c.setpoint_c, TRUE)
             rounded == RoundTemperature(c.temperature_c)
  <1>1. /\ c.temperature_c \in Int
        /\ c.setpoint_c \in SetpointMin .. SetpointMax
        /\ c.setpoint_c \in Int
        /\ c.state \in AcState
        /\ c.have_sensor \in BOOLEAN
    BY ControlAssumption DEF ControlContext
  <1>2. auto \in 0 .. 3 /\ user \in 0 .. 3
    BY <1>1, LevelType
  <1>3. rounded \in Int8 /\ 0 \in Int8
    BY <1>1, RoundingType DEF Int8
  <1>4. Output(c) = [state |-> c.state,
                     cooling_level |-> IF c.state = "COOLING" THEN auto
                                       ELSE IF c.state = "MANUAL_OVERRIDE"
                                       THEN user ELSE 0,
                     current_temperature_c |->
                        IF c.have_sensor THEN rounded ELSE 0,
                     setpoint_c |-> c.setpoint_c,
                     temperature_valid |-> c.have_sensor]
    BY DEF Output
  <1> HIDE DEF auto, user, rounded
  <1> QED
    BY <1>1, <1>2, <1>3, <1>4 DEF ControlOutput

(* The compressor runs in two states only. *)
LEMMA CoolingStates ==
    ASSUME NEW c \in ControlContext
    PROVE  /\ c.state \notin {"COOLING", "MANUAL_OVERRIDE"}
                => Output(c).cooling_level = 0
           /\ c.state = "MANUAL_OVERRIDE"
                => Output(c).cooling_level =
                        CoolingLevel(c.temperature_c, c.setpoint_c, TRUE)
  <1> DEFINE auto == CoolingLevel(c.temperature_c, c.setpoint_c, FALSE)
             user == CoolingLevel(c.temperature_c, c.setpoint_c, TRUE)
             level == IF c.state = "COOLING" THEN auto
                      ELSE IF c.state = "MANUAL_OVERRIDE" THEN user ELSE 0
  <1>1. Output(c) = [state |-> c.state,
                     cooling_level |-> level,
                     current_temperature_c |->
                        IF c.have_sensor THEN RoundTemperature(c.temperature_c)
                                         ELSE 0,
                     setpoint_c |-> c.setpoint_c,
                     temperature_valid |-> c.have_sensor]
    BY DEF Output
  <1>2. Output(c).cooling_level = level
    <2> HIDE DEF level
    <2> QED BY <1>1
  <1> HIDE DEF auto, user
  <1>3. /\ c.state \notin {"COOLING", "MANUAL_OVERRIDE"} => level = 0
        /\ c.state = "MANUAL_OVERRIDE" => level = user
    OBVIOUS
  <1> HIDE DEF level
  <1>4. /\ c.state \notin {"COOLING", "MANUAL_OVERRIDE"} => Output(c).cooling_level = 0
        /\ c.state = "MANUAL_OVERRIDE" => Output(c).cooling_level = user
    BY <1>2, <1>3
  <1> QED
    BY <1>4 DEF user

-----------------------------------------------------------------------------
(* The clock *)

(* Arithmetic modulo M within one turn. *)
LEMMA ModOneTurn ==
    ASSUME NEW M \in Nat \ {0}, NEW x \in Int, -M <= x, x < 2 * M
    PROVE  x % M = IF x < 0 THEN x + M ELSE IF x < M THEN x ELSE x - M
  OBVIOUS

(* Time passes for an elapsed time as it does for the clock, as long as it *)
(* does not make a whole turn.                                             *)
LEMMA ElapsedAdvances ==
    ASSUME NEW t \in Millis, NEW since \in Millis, NEW d \in Nat,
           Elapsed(t, since) + d < ClockMod
    PROVE  /\ (t + d) % ClockMod \in Millis
           /\ Elapsed((t + d) % ClockMod, since) = Elapsed(t, since) + d
  <1> ClockMod \in Nat \ {0} /\ t \in Nat /\ since \in Nat
      /\ t < ClockMod /\ since < ClockMod
    BY ControlAssumption DEF Millis
  <1> DEFINE e == Elapsed(t, since)
             n == (t + d) % ClockMod
  <1>1. e = IF t >= since THEN t - since ELSE t - since + ClockMod
    <2>1. t - since \in Int /\ -ClockMod <= t - since /\ t - since < 2 * ClockMod
      OBVIOUS
    <2>2. (t - since) % ClockMod = IF t - since < 0 THEN t - since + ClockMod
                                   ELSE IF t - since < ClockMod THEN t - since
                                   ELSE t - since - ClockMod
      BY <2>1, ModOneTurn
    <2> QED
      BY <2>2 DEF Elapsed
  <1>2. e \in 0 .. ClockMod - 1 /\ d < ClockMod
    BY <1>1 DEF Millis
  <1>3. n = IF t + d < ClockMod THEN t + d ELSE t + d - ClockMod
    <2>1. t + d \in Int /\ -ClockMod <= t + d /\ t + d < 2 * ClockMod
      BY <1>2
    <2>2. \A x \in Int : -ClockMod <= x /\ x < 2 * ClockMod =>
            x % ClockMod = IF x < 0 THEN x + ClockMod
                           ELSE IF x < ClockMod THEN x ELSE x - ClockMod
      BY ModOneTurn
    <2> QED
      BY <2>1, <2>2
  <1>4. n \in Millis
    BY <1>2, <1>3 DEF Millis
  <1>5. Elapsed(n, since) = IF n >= since THEN n - since ELSE n - since + ClockMod
    <2> HIDE DEF n
    <2> n \in Nat /\ n < ClockMod
      BY <1>4 DEF Millis
    <2>1. n - since \in Int /\ -ClockMod <= n - since /\ n - since < 2 * ClockMod
      OBVIOUS
    <2>2. (n - since) % ClockMod = IF n - since < 0 THEN n - since + ClockMod
                                   ELSE IF n - since < ClockMod THEN n - since
                                   ELSE n - since - ClockMod
      BY <2>1, ModOneTurn
    <2> QED
      BY <2>2 DEF Elapsed
  <1>6. Elapsed(n, since) = e + d
    BY <1>1, <1>2, <1>3, <1>4, <1>5 DEF Millis
  <1> QED
    BY <1>4, <1>6

LEMMA ElapsedType ==
    ASSUME NEW t \in Millis, NEW since \in Millis
    PROVE  /\ Elapsed(t, since) \in Nat
           /\ Elapsed(t, t) = 0
  BY ControlAssumption, ModOneTurn DEF Elapsed, Millis

LEMMA ClockType ==
    ASSUME NEW t \in Millis, NEW d \in Nat
    PROVE  (t + d) % ClockMod \in Millis
  BY ControlAssumption DEF Millis

-----------------------------------------------------------------------------
(* One call of Control_Step: the stages put together.  e is the context    *)
(* after the buttons, o the one the decision is taken on, r the result.    *)
Effect(c, e, o, r, m, t) ==
    /\ e \in ControlContext /\ o \in ControlContext /\ r \in ControlContext
    /\ SameSwitches(e, o) /\ SameSwitches(e, r)
    /\ o.state = c.state
    /\ o.recovery_since_ms = c.recovery_since_ms
    /\ o.pause_latched = e.pause_latched
    /\ o.window_was_open = e.window_was_open
    /\ SameReading(o, r) /\ SameOpening(o, r)
    /\ r.window_was_open = IF m = NoSensor THEN e.window_was_open ELSE WindowOpen(m)
    /\ IF Measured(m)
       THEN r.have_sensor /\ r.humidity_pct = m.humidity_pct
       ELSE SameReading(c, r)
    /\ IF WindowOpen(m) /\ ~e.window_was_open
       THEN /\ r.window_open_since_ms = t
            /\ r.humidity_before_window_pct =
                    IF c.have_sensor THEN c.humidity_pct ELSE m.humidity_pct
       ELSE SameOpening(c, r)
    /\ Decided(o, m, t, r)

Considered(c, m, events, t) ==
    ObserveSample(ObserveWindow(ApplyEvents(c, events), m, t), m)

LEMMA ControlStepEffect ==
    ASSUME NEW c \in ControlContext, NEW m \in SensorMsg \cup {NoSensor},
           NEW events \in SUBSET UserEvents, NEW t \in Millis
    PROVE  Effect(c, ApplyEvents(c, events), Considered(c, m, events, t),
                  Control_Step(c, m, events, t), m, t)
  <1> DEFINE e == ApplyEvents(c, events)
             w == ObserveWindow(e, m, t)
             o == ObserveSample(w, m)
             k == DecideState(o, m, t)
             r == RememberWindow(k, m)
  <1>1. /\ e \in ControlContext
        /\ SameReading(c, e) /\ SameOpening(c, e)
        /\ e.recovery_since_ms = c.recovery_since_ms
        /\ e.state = c.state
    BY ButtonsApplied
  <1> HIDE DEF e
  <1>2. /\ w \in ControlContext
        /\ SameReading(e, w) /\ SameSwitches(e, w)
        /\ w.recovery_since_ms = e.recovery_since_ms
        /\ w.state = e.state
        /\ w.window_was_open = e.window_was_open
        /\ w.pause_latched = e.pause_latched
        /\ IF WindowOpen(m) /\ ~e.window_was_open
           THEN /\ w.window_open_since_ms = t
                /\ w.humidity_before_window_pct =
                     IF e.have_sensor THEN e.humidity_pct ELSE m.humidity_pct
           ELSE SameOpening(e, w)
    BY <1>1, WindowObserved
  <1> HIDE DEF w
  <1>3. /\ o \in ControlContext
        /\ SameOpening(w, o) /\ SameSwitches(w, o)
        /\ o.recovery_since_ms = w.recovery_since_ms
        /\ o.state = w.state
        /\ o.window_was_open = w.window_was_open
        /\ o.pause_latched = w.pause_latched
        /\ IF Measured(m)
           THEN o.have_sensor /\ o.humidity_pct = m.humidity_pct
           ELSE SameReading(w, o)
    BY <1>2, SampleObserved
  <1> HIDE DEF o
  <1>4. /\ k \in ControlContext
        /\ SameReading(o, k) /\ SameOpening(o, k) /\ SameSwitches(o, k)
        /\ k.window_was_open = o.window_was_open
        /\ Decided(o, m, t, k)
    BY <1>3, StateDecided
  <1> HIDE DEF k
  <1>5. /\ r \in ControlContext
        /\ SameReading(k, r) /\ SameOpening(k, r) /\ SameSwitches(k, r)
        /\ r.state = k.state
        /\ r.pause_latched = k.pause_latched
        /\ r.recovery_since_ms = k.recovery_since_ms
        /\ r.window_was_open = IF m = NoSensor THEN k.window_was_open ELSE WindowOpen(m)
    BY <1>4, WindowRemembered
  <1> HIDE DEF r
  <1>6. Decided(o, m, t, r)
    BY <1>4, <1>5 DEF Decided
  <1>7. Effect(c, e, o, r, m, t)
    <2>1. SameSwitches(e, o) /\ SameSwitches(e, r)
      BY <1>2, <1>3, <1>4, <1>5 DEF SameSwitches
    <2>2. SameReading(o, r) /\ SameOpening(o, r)
      BY <1>4, <1>5 DEF SameReading, SameOpening
    <2>3. IF Measured(m)
          THEN r.have_sensor /\ r.humidity_pct = m.humidity_pct
          ELSE SameReading(c, r)
      BY <1>1, <1>2, <1>3, <2>2 DEF SameReading
    <2>4. IF WindowOpen(m) /\ ~e.window_was_open
          THEN /\ r.window_open_since_ms = t
               /\ r.humidity_before_window_pct =
                    IF c.have_sensor THEN c.humidity_pct ELSE m.humidity_pct
          ELSE SameOpening(c, r)
      BY <1>1, <1>2, <1>3, <2>2 DEF SameReading, SameOpening
    <2> QED
      BY <1>1, <1>2, <1>3, <1>4, <1>5, <1>6, <2>1, <2>2, <2>3, <2>4 DEF Effect
  <1> QED
    BY <1>7 DEF e, w, o, k, r, Considered, Control_Step

-----------------------------------------------------------------------------
(* Init and Next in terms of Step *)

LEMMA InitInv == Init => IndInv
  <1> SUFFICES ASSUME Init PROVE IndInv
    OBVIOUS
  <1>1. Control_Init \in ControlContext
    BY ControlAssumption DEF Control_Init, ControlContext, Millis, AcState
  <1>2. Output(ctx) \in ControlOutput
    BY <1>1, OutputType DEF Init
  <1>3. ~WindowOpen(latest)
    BY DEF Init, WindowOpen
  <1>4. TypeOK
    <2>1. 0 \in Millis /\ 0 \in 0 .. WindowPauseMs
          /\ RecoveryWaitMs \in 0 .. RecoveryWaitMs
      BY ControlAssumption DEF Millis
    <2> QED
      BY <1>1, <1>2, <2>1 DEF Init, TypeOK
  <1>5. UpToDate /\ StateMatchesFlags /\ LatchIsThePause /\ ReadingIsKept
    <2>1. /\ ctx.state = "OFF"
          /\ ctx.powered = FALSE /\ ctx.manual = FALSE
          /\ ctx.pause_latched = FALSE /\ ctx.window_was_open = FALSE
          /\ ctx.temperature_c = 0
          /\ output = Output(ctx)
      BY DEF Init, Control_Init
    <2>2. WindowOpen(latest) = FALSE
      BY <1>3 DEF WindowOpen
    <2> QED
      BY <2>1, <2>2 DEF UpToDate, StateMatchesFlags, LatchIsThePause, ReadingIsKept
  <1>6. StampsMatchStopwatches
    BY <1>3 DEF Init, Control_Init, StampsMatchStopwatches, AutoOpen
  <1>7. BaselineIsMeasured
    BY <1>3 DEF Init, Control_Init, BaselineIsMeasured
  <1> QED
    BY <1>4, <1>5, <1>6, <1>7 DEF IndInv

(* Every step is a call of Control_Step on a message of the right type. *)
Call(m, events, d) ==
    /\ m \in SensorMsg \cup {NoSensor}
    /\ m = NoSensor => latest = NoSensor
    /\ events \in SUBSET UserEvents
    /\ d \in StepMs
    /\ Step(m, events, d)

LEMMA NextIsCall ==
    ASSUME TypeOK, Next
    PROVE  \E m, events, d : Call(m, events, d)
  <1>1. PICK events \in EventSets, d \in StepMs :
            StepOnMessage(events, d) \/ StepOnTimeout(events, d)
    BY DEF Next
  <1>2. events \in SUBSET UserEvents
    BY FsmAssumption
  <1>3. \A t \in Int, h \in Nat, w \in BOOLEAN, v \in BOOLEAN :
            [temperature_c |-> t, humidity_pct |-> h,
             window_open |-> w, valid |-> v] \in SensorMsg
    BY DEF SensorMsg
  <1>4. ASSUME NEW m \in ValidMessages \cup InvalidMessages
        PROVE  m \in SensorMsg /\ m # NoSensor
    <2>1. CASE m \in ValidMessages
      <3>1. PICK s \in Samples, w \in BOOLEAN :
              m = [temperature_c |-> s.temperature_c,
                   humidity_pct |-> s.humidity_pct,
                   window_open |-> w, valid |-> TRUE]
        BY <2>1 DEF ValidMessages
      <3>2. s.temperature_c \in Int /\ s.humidity_pct \in Nat
        BY FsmAssumption
      <3> QED
        BY <1>3, <3>1, <3>2, NoSensorAssumption
    <2>2. CASE m \in InvalidMessages
      <3>1. PICK s \in Samples \cup {LastFields}, w \in BOOLEAN :
              m = [temperature_c |-> s.temperature_c,
                   humidity_pct |-> s.humidity_pct,
                   window_open |-> w, valid |-> FALSE]
        BY <2>2 DEF InvalidMessages
      <3>2. s.temperature_c \in Int /\ s.humidity_pct \in Nat
        <4>1. LastFields.temperature_c \in Int /\ LastFields.humidity_pct \in Nat
          BY DEF LastFields, TypeOK, SensorMsg
        <4> QED
          BY <4>1, FsmAssumption
      <3> QED
        BY <1>3, <3>1, <3>2, NoSensorAssumption
    <2> QED
      BY <2>1, <2>2
  <1>5. CASE StepOnMessage(events, d)
    <2>1. PICK m \in ValidMessages \cup InvalidMessages : Step(m, events, d)
      BY <1>5 DEF StepOnMessage
    <2> QED
      BY <1>2, <1>4, <2>1 DEF Call
  <1>6. CASE StepOnTimeout(events, d)
    BY <1>2, <1>6 DEF StepOnTimeout, Call, TypeOK
  <1> QED
    BY <1>1, <1>5, <1>6

-----------------------------------------------------------------------------
(* What a call does to the variables, as the proofs below use it. *)
LEMMA CallEffect ==
    ASSUME IndInv, NEW m, NEW events, NEW d, Call(m, events, d)
    PROVE  LET e == ApplyEvents(ctx, events)
               o == Considered(ctx, m, events, now')
           IN  /\ d \in Nat
               /\ now \in Millis /\ now' \in Millis
               /\ ctx \in ControlContext /\ ctx' \in ControlContext
               /\ latest' = m
               /\ output' = Output(ctx')
               /\ Effect(ctx, e, o, ctx', m, now')
               /\ e.window_was_open => WindowOpen(latest)
               /\ e.powered => (e.window_was_open <=> WindowOpen(latest))
               /\ ~e.powered => ~e.manual
               /\ e.pause_latched => e.powered /\ ~e.manual
               /\ e.pause_latched => ctx.pause_latched
               /\ (e.powered /\ ~e.manual /\ ctx.pause_latched) => e.pause_latched
               /\ m = NoSensor => latest = NoSensor
               /\ Measured(m) <=> (m # NoSensor /\ m.valid)
  <1> DEFINE e == ApplyEvents(ctx, events)
             o == Considered(ctx, m, events, now')
  <1>1. /\ ctx \in ControlContext
        /\ now \in Millis
        /\ d \in Nat
        /\ m \in SensorMsg \cup {NoSensor}
        /\ events \in SUBSET UserEvents
        /\ m = NoSensor => latest = NoSensor
    BY FsmAssumption DEF IndInv, TypeOK, Call
  <1>2. /\ now' = (now + d) % ClockMod
        /\ latest' = m
        /\ ctx' = Control_Step(ctx, m, events, now')
        /\ output' = Output(ctx')
    BY DEF Call, Step
  <1>3. now' \in Millis
    BY <1>1, <1>2, ClockType
  <1>4. Effect(ctx, e, o, ctx', m, now')
    BY <1>1, <1>2, <1>3, ControlStepEffect
  <1>5. ctx' \in ControlContext /\ e \in ControlContext
    BY <1>4 DEF Effect
  <1>6. /\ ctx.window_was_open = WindowOpen(latest)
        /\ ~ctx.powered => ~ctx.manual
        /\ ctx.pause_latched => ctx.powered /\ ~ctx.manual
    BY DEF IndInv, UpToDate, StateMatchesFlags, LatchIsThePause
  <1>7. /\ e.window_was_open => WindowOpen(latest)
        /\ e.powered => (e.window_was_open <=> WindowOpen(latest))
        /\ ~e.powered => ~e.manual
        /\ e.pause_latched => e.powered /\ ~e.manual
        /\ e.pause_latched => ctx.pause_latched
    BY <1>1, <1>6, ButtonsApplied
  <1>8. (e.powered /\ ~e.manual /\ ctx.pause_latched) => e.pause_latched
    BY <1>1, <1>6, ButtonsApplied
  <1> HIDE DEF e, o
  <1>9. /\ d \in Nat
        /\ now \in Millis /\ now' \in Millis
        /\ ctx \in ControlContext /\ ctx' \in ControlContext
        /\ latest' = m
        /\ output' = Output(ctx')
        /\ Effect(ctx, e, o, ctx', m, now')
        /\ e.window_was_open => WindowOpen(latest)
        /\ e.powered => (e.window_was_open <=> WindowOpen(latest))
        /\ ~e.powered => ~e.manual
        /\ e.pause_latched => e.powered /\ ~e.manual
        /\ e.pause_latched => ctx.pause_latched
        /\ (e.powered /\ ~e.manual /\ ctx.pause_latched) => e.pause_latched
        /\ m = NoSensor => latest = NoSensor
        /\ Measured(m) <=> (m # NoSensor /\ m.valid)
    BY <1>1, <1>2, <1>3, <1>4, <1>5, <1>7, <1>8 DEF Measured
  <1> QED
    BY <1>9 DEF e, o

-----------------------------------------------------------------------------
(* The inductive invariant, one lemma per conjunct *)

LEMMA CallPreservesType ==
    ASSUME IndInv, NEW m, NEW events, NEW d, Call(m, events, d)
    PROVE  TypeOK'
  <1>1. /\ d \in Nat
        /\ now' \in Millis
        /\ ctx' \in ControlContext
        /\ latest' = m
        /\ output' = Output(ctx')
    BY CallEffect
  <1>2. output' \in ControlOutput
    BY <1>1, OutputType
  <1>3. m \in SensorMsg \cup {NoSensor}
    BY DEF Call
  <1>4. /\ openMs \in 0 .. WindowPauseMs
        /\ autoOpenMs \in 0 .. WindowPauseMs
        /\ closedMs \in 0 .. RecoveryWaitMs
        /\ measured \subseteq Nat
        /\ blind \in BOOLEAN
    BY DEF IndInv, TypeOK
  <1>5. Observe(m, d)
    BY DEF Call, Step
  <1>6. WindowPauseMs \in Nat /\ RecoveryWaitMs \in Nat
    BY ControlAssumption
  <1>7. openMs' \in 0 .. WindowPauseMs /\ autoOpenMs' \in 0 .. WindowPauseMs
    BY <1>1, <1>4, <1>5, <1>6 DEF Observe, Capped
  <1>8. closedMs' \in 0 .. RecoveryWaitMs
    BY <1>1, <1>4, <1>5, <1>6 DEF Observe, Capped
  <1>9. measured' \subseteq Nat
    <2>1. ctx'.humidity_pct \in Nat
      BY <1>1 DEF ControlContext
    <2>2. WindowOpen(m) => m.humidity_pct \in Nat
      BY <1>3 DEF WindowOpen, SensorMsg
    <2> QED
      BY <1>4, <1>5, <2>1, <2>2 DEF Observe
  <1>10. blind' \in BOOLEAN
    BY <1>5 DEF Observe
  <1> QED
    BY <1>1, <1>2, <1>3, <1>7, <1>8, <1>9, <1>10 DEF TypeOK

(* The part of IndInv about the states and the latch needs no history. *)
LEMMA CallPreservesModes ==
    ASSUME IndInv, NEW m, NEW events, NEW d, Call(m, events, d)
    PROVE  /\ UpToDate'
           /\ StateMatchesFlags'
           /\ LatchIsThePause'
           /\ ReadingIsKept'
  <1> DEFINE e == ApplyEvents(ctx, events)
             o == Considered(ctx, m, events, now')
  <1>1. /\ ctx' \in ControlContext
        /\ latest' = m
        /\ output' = Output(ctx')
        /\ Effect(ctx, e, o, ctx', m, now')
        /\ e.window_was_open => WindowOpen(latest)
        /\ e.powered => (e.window_was_open <=> WindowOpen(latest))
        /\ ~e.powered => ~e.manual
        /\ e.pause_latched => e.powered /\ ~e.manual
        /\ e.pause_latched => ctx.pause_latched
        /\ m = NoSensor => latest = NoSensor
    BY CallEffect
  <1>2. e \in ControlContext /\ o \in ControlContext
    BY <1>1 DEF Effect
  <1> HIDE DEF e, o
  <1>3. /\ ctx.pause_latched => WindowOpen(latest)
        /\ ~ctx.have_sensor => ctx.temperature_c = 0
    BY DEF IndInv, LatchIsThePause, ReadingIsKept
  <1>4. ctx'.window_was_open = WindowOpen(m)
    <2>1. CASE m = NoSensor
      <3>1. ~WindowOpen(m) /\ ~WindowOpen(latest)
        BY <1>1, <2>1 DEF WindowOpen
      <3>2. ctx'.window_was_open = e.window_was_open
        BY <1>1, <2>1 DEF Effect
      <3> QED
        BY <1>1, <1>2, <3>1, <3>2 DEF ControlContext, WindowOpen
    <2>2. CASE m # NoSensor
      BY <1>1, <2>2 DEF Effect
    <2> QED
      BY <2>1, <2>2
  <1>5. /\ ctx'.powered = o.powered /\ ctx'.manual = o.manual
        /\ o.powered = e.powered /\ o.manual = e.manual
        /\ o.pause_latched = e.pause_latched
        /\ o.window_was_open = e.window_was_open
        /\ o.have_sensor = ctx'.have_sensor
        /\ Decided(o, m, now', ctx')
    BY <1>1 DEF Effect, SameSwitches, SameReading
  <1>6. StateMatchesFlags'
    BY <1>1, <1>5 DEF StateMatchesFlags, Decided
  <1>7. LatchIsThePause'
    <2>1. CASE ~o.powered \/ o.manual
      BY <1>1, <1>5, <2>1 DEF LatchIsThePause, Decided
    <2>2. CASE o.powered /\ ~o.manual /\ WindowOpen(m)
      <3>1. ~PauseDue(o, m, now') => ~o.pause_latched
        BY DEF PauseDue
      <3> QED
        BY <1>1, <1>5, <2>2, <3>1 DEF LatchIsThePause, Decided
    <2>3. CASE o.powered /\ ~o.manual /\ ~WindowOpen(m)
      <3>1. o.window_was_open \/ ~o.pause_latched
        BY <1>1, <1>3, <1>5, <2>3
      <3> QED
        BY <1>1, <1>5, <2>3, <3>1 DEF LatchIsThePause, Decided
    <2> QED
      BY <2>1, <2>2, <2>3
  <1>8. ReadingIsKept'
    <2>1. ctx'.state = "COOLING" => ctx'.have_sensor
      BY <1>5 DEF Decided
    <2>2. ~ctx'.have_sensor => ctx'.temperature_c = 0
      BY <1>1, <1>3 DEF Effect, SameReading
    <2> QED
      BY <2>1, <2>2 DEF ReadingIsKept
  <1> QED
    BY <1>1, <1>4, <1>6, <1>7, <1>8 DEF UpToDate

LEMMA CallPreservesStamps ==
    ASSUME IndInv, NEW m, NEW events, NEW d, Call(m, events, d), TypeOK'
    PROVE  StampsMatchStopwatches'
  <1> DEFINE e == ApplyEvents(ctx, events)
             o == Considered(ctx, m, events, now')
             since == ctx.window_open_since_ms
             closing == ctx.recovery_since_ms
  <1>1. /\ d \in Nat
        /\ now \in Millis /\ now' \in Millis
        /\ ctx \in ControlContext /\ ctx' \in ControlContext
        /\ latest' = m
        /\ Effect(ctx, e, o, ctx', m, now')
        /\ e.window_was_open => WindowOpen(latest)
        /\ e.powered => (e.window_was_open <=> WindowOpen(latest))
        /\ (e.powered /\ ~e.manual /\ ctx.pause_latched) => e.pause_latched
    BY CallEffect
  <1> HIDE DEF e, o
  <1>2. /\ ctx'.powered = o.powered /\ ctx'.manual = o.manual
        /\ o.powered = e.powered /\ o.manual = e.manual
        /\ o.pause_latched = e.pause_latched
        /\ o.window_was_open = e.window_was_open
        /\ o.state = ctx.state
        /\ o.recovery_since_ms = closing
        /\ o.window_open_since_ms = ctx'.window_open_since_ms
        /\ IF WindowOpen(m) /\ ~e.window_was_open
           THEN ctx'.window_open_since_ms = now'
           ELSE ctx'.window_open_since_ms = since
        /\ Decided(o, m, now', ctx')
    BY <1>1 DEF Effect, SameSwitches, SameReading, SameOpening
  <1>3. /\ since \in Millis /\ closing \in Millis
        /\ ctx'.window_open_since_ms \in Millis
        /\ ctx'.recovery_since_ms \in Millis
    BY <1>1 DEF ControlContext
  <1>4. /\ WindowPauseMs \in Nat /\ 0 < WindowPauseMs
        /\ RecoveryWaitMs \in Nat /\ 0 < RecoveryWaitMs
        /\ ClockMod \in Nat
        /\ d + WindowPauseMs < ClockMod
        /\ d + RecoveryWaitMs < ClockMod
    BY ControlAssumption, FsmAssumption DEF Call
  <1>5. now' = (now + d) % ClockMod /\ Observe(m, d)
    BY DEF Call, Step
  <1>6. /\ openMs \in 0 .. WindowPauseMs
        /\ autoOpenMs \in 0 .. WindowPauseMs
        /\ closedMs \in 0 .. RecoveryWaitMs
        /\ openMs' \in 0 .. WindowPauseMs
    BY DEF IndInv, TypeOK
  <1>7. /\ StampsMatchStopwatches
        /\ ctx.state \in {"WINDOW_SUSPECT", "AC_PAUSED"}
                <=> (ctx.powered /\ ~ctx.manual /\ WindowOpen(latest))
        /\ ctx.state = "AC_PAUSED" => ctx.pause_latched
    BY DEF IndInv, StateMatchesFlags, LatchIsThePause
  <1>8. /\ Elapsed(now, since) \in Nat
        /\ Elapsed(now, closing) \in Nat
        /\ Elapsed(now', ctx'.window_open_since_ms) \in Nat
        /\ Elapsed(now', now') = 0
    BY <1>1, <1>3, ElapsedType
  <1>9. Elapsed(now, since) < WindowPauseMs
            => Elapsed(now', since) = Elapsed(now, since) + d
    <2>1. Elapsed(now, since) < WindowPauseMs => Elapsed(now, since) + d < ClockMod
      BY <1>1, <1>4, <1>8
    <2> QED
      BY <1>1, <1>3, <1>5, <2>1, ElapsedAdvances
  <1>10. Elapsed(now, closing) < RecoveryWaitMs
            => Elapsed(now', closing) = Elapsed(now, closing) + d
    <2>1. Elapsed(now, closing) < RecoveryWaitMs => Elapsed(now, closing) + d < ClockMod
      BY <1>1, <1>4, <1>8
    <2> QED
      BY <1>1, <1>3, <1>5, <2>1, ElapsedAdvances
  <1>11. ASSUME ctx'.state = "WINDOW_SUSPECT"
         PROVE  /\ autoOpenMs' <= Elapsed(now', ctx'.window_open_since_ms)
                /\ Elapsed(now', ctx'.window_open_since_ms) < WindowPauseMs
    <2>1. /\ o.powered /\ ~o.manual /\ WindowOpen(m)
          /\ ~PauseDue(o, m, now')
      BY <1>11, <1>2 DEF Decided
    <2>2. /\ ~(Elapsed(now', o.window_open_since_ms) >= WindowPauseMs)
          /\ ~o.pause_latched
      BY <2>1 DEF PauseDue
    <2>3. Elapsed(now', ctx'.window_open_since_ms) < WindowPauseMs
      BY <2>2, <1>2, <1>4, <1>8
    <2>4. CASE AutoOpen
      <3>1. ctx.state = "WINDOW_SUSPECT" /\ WindowOpen(latest)
        BY <2>1, <2>2, <2>4, <1>1, <1>2, <1>7 DEF AutoOpen
      <3>2. ctx'.window_open_since_ms = since
        BY <2>1, <3>1, <1>1, <1>2
      <3>3. /\ autoOpenMs <= Elapsed(now, since)
            /\ Elapsed(now', since) = Elapsed(now, since) + d
        BY <3>1, <1>7, <1>9 DEF StampsMatchStopwatches
      <3>4. autoOpenMs' <= autoOpenMs + d
        BY <1>1, <1>4, <1>5, <1>6 DEF Observe, Capped
      <3>5. autoOpenMs' \in Int
        BY DEF TypeOK
      <3> QED
        BY <2>3, <3>2, <3>3, <3>4, <3>5, <1>1, <1>6, <1>8
    <2>5. CASE ~AutoOpen
      <3>1. autoOpenMs' = 0
        BY <2>5, <1>5 DEF Observe
      <3> QED
        BY <2>3, <3>1, <1>8
    <2> QED
      BY <2>4, <2>5
  <1>12. ASSUME WindowOpen(m)
         PROVE  \/ openMs' = WindowPauseMs
                \/ Elapsed(now', ctx'.window_open_since_ms) <= openMs'
    <2>1. CASE ~e.window_was_open
      BY <2>1, <1>12, <1>2, <1>6, <1>8
    <2>2. CASE e.window_was_open
      <3>1. WindowOpen(latest) /\ ctx'.window_open_since_ms = since
        BY <2>2, <1>1, <1>2
      <3>2. openMs' = IF openMs + d < WindowPauseMs THEN openMs + d ELSE WindowPauseMs
        BY <3>1, <1>12, <1>5 DEF Observe, Capped
      <3>3. openMs = WindowPauseMs \/ Elapsed(now, since) <= openMs
        BY <3>1, <1>7 DEF StampsMatchStopwatches
      <3> QED
        BY <3>1, <3>2, <3>3, <1>1, <1>4, <1>6, <1>8, <1>9
    <2> QED
      BY <2>1, <2>2
  <1>13. ASSUME ctx'.state = "RECOVERY_WAIT"
         PROVE  /\ closedMs' = Elapsed(now', ctx'.recovery_since_ms)
                /\ closedMs' < RecoveryWaitMs
    <2>1. o.powered /\ ~o.manual /\ ~WindowOpen(m)
      BY <1>13, <1>2 DEF Decided
    <2>2. CASE o.window_was_open
      <3>1. ctx'.recovery_since_ms = now' /\ WindowOpen(latest)
        BY <2>1, <2>2, <1>1, <1>2 DEF Decided
      <3>2. closedMs' = 0
        BY <2>1, <3>1, <1>5 DEF Observe
      <3> QED
        BY <3>1, <3>2, <1>4, <1>8
    <2>3. CASE ~o.window_was_open
      <3>1. /\ ctx.state = "RECOVERY_WAIT"
            /\ ctx'.recovery_since_ms = closing
            /\ Elapsed(now', closing) < RecoveryWaitMs
            /\ ~WindowOpen(latest)
        BY <2>1, <2>3, <1>13, <1>1, <1>2 DEF Decided
      <3>2. closedMs = Elapsed(now, closing) /\ closedMs < RecoveryWaitMs
        BY <3>1, <1>7 DEF StampsMatchStopwatches
      <3>3. closedMs' = IF closedMs + d < RecoveryWaitMs
                        THEN closedMs + d ELSE RecoveryWaitMs
        BY <3>1, <1>5 DEF Observe, Capped
      <3> QED
        BY <3>1, <3>2, <3>3, <1>1, <1>4, <1>6, <1>8, <1>10
    <2> QED
      BY <2>2, <2>3
  <1>14. ~AutoOpen' => autoOpenMs' = 0
    BY <1>5 DEF Observe
  <1> QED
    BY <1>1, <1>11, <1>12, <1>13, <1>14 DEF StampsMatchStopwatches

LEMMA CallPreservesBaseline ==
    ASSUME IndInv, NEW m, NEW events, NEW d, Call(m, events, d)
    PROVE  BaselineIsMeasured'
  <1> DEFINE e == ApplyEvents(ctx, events)
             o == Considered(ctx, m, events, now')
             new == IF m.valid THEN {m.humidity_pct} ELSE {}
  <1>1. /\ latest' = m
        /\ Effect(ctx, e, o, ctx', m, now')
        /\ e.window_was_open => WindowOpen(latest)
        /\ Measured(m) <=> (m # NoSensor /\ m.valid)
    BY CallEffect
  <1> HIDE DEF e, o
  <1>2. /\ IF Measured(m)
           THEN ctx'.have_sensor /\ ctx'.humidity_pct = m.humidity_pct
           ELSE /\ ctx'.have_sensor = ctx.have_sensor
                /\ ctx'.humidity_pct = ctx.humidity_pct
        /\ IF WindowOpen(m) /\ ~e.window_was_open
           THEN ctx'.humidity_before_window_pct =
                    IF ctx.have_sensor THEN ctx.humidity_pct ELSE m.humidity_pct
           ELSE ctx'.humidity_before_window_pct = ctx.humidity_before_window_pct
    BY <1>1 DEF Effect, SameReading, SameOpening
  <1>3. BaselineIsMeasured
    BY DEF IndInv
  <1>4. /\ measured' = IF WindowOpen(m) THEN measured \cup new
                       ELSE IF ctx'.have_sensor THEN {ctx'.humidity_pct} ELSE {}
        /\ blind' = (WindowOpen(m) /\ IF WindowOpen(latest) THEN blind
                                      ELSE measured' = {})
    BY DEF Call, Step, Observe
  <1>5. CASE ~WindowOpen(m)
    BY <1>1, <1>4, <1>5 DEF BaselineIsMeasured
  <1>6. CASE WindowOpen(m)
    <2>1. m # NoSensor
      BY <1>6 DEF WindowOpen
    <2>2. measured' = measured \cup new
      BY <1>4, <1>6
    <2>3. CASE m.valid
      <3>1. /\ ctx'.have_sensor /\ ctx'.humidity_pct = m.humidity_pct
            /\ m.humidity_pct \in measured'
        BY <1>1, <1>2, <2>1, <2>2, <2>3
      <3>2. ~blind' => ctx'.humidity_before_window_pct \in measured'
        BY <1>1, <1>2, <1>3, <1>4, <1>6, <2>2, <3>1 DEF BaselineIsMeasured
      <3> QED
        BY <3>1, <3>2 DEF BaselineIsMeasured
    <2>4. CASE ~m.valid
      <3>1. measured' = measured
        BY <2>2, <2>4
      <3>2. /\ ctx'.have_sensor = ctx.have_sensor
            /\ ctx'.humidity_pct = ctx.humidity_pct
        BY <1>1, <1>2, <2>4
      <3>3. measured' = {} => blind'
        BY <1>3, <1>4, <1>6, <3>1 DEF BaselineIsMeasured
      <3>4. ~blind' => ctx'.humidity_before_window_pct \in measured'
        <4>1. CASE e.window_was_open
          BY <4>1, <1>1, <1>2, <1>3, <1>4, <1>6, <3>1 DEF BaselineIsMeasured
        <4>2. CASE ~e.window_was_open
          BY <4>2, <1>2, <1>3, <1>6, <3>1, <3>3 DEF BaselineIsMeasured
        <4> QED
          BY <4>1, <4>2
      <3> QED
        BY <1>3, <3>1, <3>2, <3>3, <3>4 DEF BaselineIsMeasured
    <2> QED
      BY <2>3, <2>4
  <1> QED
    BY <1>5, <1>6

LEMMA NextPreservesInv == IndInv /\ [Next]_vars => IndInv'
  <1> SUFFICES ASSUME IndInv, [Next]_vars PROVE IndInv'
    OBVIOUS
  <1>1. CASE Next
    <2>1. PICK m, events, d : Call(m, events, d)
      BY <1>1, NextIsCall DEF IndInv
    <2>2. TypeOK'
      BY <2>1, CallPreservesType
    <2>3. UpToDate' /\ StateMatchesFlags' /\ LatchIsThePause' /\ ReadingIsKept'
      BY <2>1, CallPreservesModes
    <2>4. StampsMatchStopwatches'
      BY <2>1, <2>2, CallPreservesStamps
    <2>5. BaselineIsMeasured'
      BY <2>1, CallPreservesBaseline
    <2> QED
      BY <2>2, <2>3, <2>4, <2>5 DEF IndInv
  <1>2. CASE UNCHANGED vars
    BY <1>2 DEF vars, history, IndInv, TypeOK, UpToDate, StateMatchesFlags,
                LatchIsThePause, ReadingIsKept, StampsMatchStopwatches,
                BaselineIsMeasured, AutoOpen
  <1> QED
    BY <1>1, <1>2

(* IndInv holds in every reachable state, for every pause, recovery time,  *)
(* clock modulus, set of readings and schedule of calls.                   *)
THEOREM InductiveInvariant == Spec => []IndInv
  <1>1. IndInv /\ [Next]_vars => IndInv'
    BY NextPreservesInv
  <1> QED
    BY InitInv, <1>1, PTL DEF Spec

-----------------------------------------------------------------------------
(* The safety properties *)

(* The context, the output and the clock keep their types. *)
THEOREM TypeCorrect == Spec => []TypeOK
  <1>1. IndInv => TypeOK
    BY DEF IndInv
  <1> QED
    BY InductiveInvariant, <1>1, PTL

(* The pause latch is set exactly while the cooling is paused. *)
THEOREM LatchCorrect == Spec => []LatchIsThePause
  <1>1. IndInv => LatchIsThePause
    BY DEF IndInv
  <1> QED
    BY InductiveInvariant, <1>1, PTL

(* With the window open only the user's override cools. *)
THEOREM WindowStopsCooling == Spec => []NoCoolingThroughOpenWindow
  <1>1. ASSUME IndInv
        PROVE  NoCoolingThroughOpenWindow
    <2>1. ctx \in ControlContext /\ output = Output(ctx)
      BY <1>1 DEF IndInv, TypeOK, UpToDate
    <2>2. CASE ctx.state \notin {"COOLING", "MANUAL_OVERRIDE"}
      <3>1. output.cooling_level = 0
        BY <2>1, <2>2, CoolingStates
      <3> QED
        BY <3>1 DEF NoCoolingThroughOpenWindow
    <2>3. CASE ctx.state = "MANUAL_OVERRIDE"
      BY <1>1, <2>3 DEF IndInv, StateMatchesFlags, NoCoolingThroughOpenWindow
    <2>4. CASE ctx.state = "COOLING"
      <3>1. ctx.powered /\ (WindowOpen(latest) => ctx.manual)
        BY <1>1, <2>4 DEF IndInv, StateMatchesFlags
      <3> QED
        BY <3>1 DEF NoCoolingThroughOpenWindow
    <2> QED
      BY <2>2, <2>3, <2>4
  <1> QED
    BY InductiveInvariant, <1>1, PTL

(* Nothing is cooled before the first valid reading, since no set-point is *)
(* below zero.                                                             *)
THEOREM ReadingPrecedesCooling == Spec => []NoCoolingBeforeReading
  <1>1. ASSUME IndInv
        PROVE  NoCoolingBeforeReading
    <2>1. ctx \in ControlContext /\ output = Output(ctx)
      BY <1>1 DEF IndInv, TypeOK, UpToDate
    <2>2. CASE ctx.state \notin {"COOLING", "MANUAL_OVERRIDE"}
      <3>1. output.cooling_level = 0
        BY <2>1, <2>2, CoolingStates
      <3> QED
        BY <3>1 DEF NoCoolingBeforeReading
    <2>3. CASE ctx.state = "MANUAL_OVERRIDE"
      <3>1. output.cooling_level = CoolingLevel(ctx.temperature_c, ctx.setpoint_c, TRUE)
        BY <2>1, <2>3, CoolingStates
      <3>2. ctx.setpoint_c \in Nat
        BY <2>1, ControlAssumption DEF ControlContext
      <3>3. \A s \in Nat : CoolingLevel(0, s, TRUE) = 0
        BY DEF CoolingLevel
      <3>4. ~ctx.have_sensor => ctx.temperature_c = 0
        BY <1>1 DEF IndInv, ReadingIsKept
      <3>5. ~ctx.have_sensor => output.cooling_level = 0
        BY <3>1, <3>2, <3>3, <3>4
      <3> QED
        BY <3>5 DEF NoCoolingBeforeReading
    <2>4. CASE ctx.state = "COOLING"
      BY <1>1, <2>4 DEF IndInv, ReadingIsKept, NoCoolingBeforeReading
    <2> QED
      BY <2>2, <2>3, <2>4
  <1> QED
    BY InductiveInvariant, <1>1, PTL

(* A window open throughout WindowPauseMs of automatic operation has       *)
(* paused the cooling.                                                     *)
THEOREM WindowPausesInTime == Spec => []PausedInTime
  <1>1. ASSUME IndInv
        PROVE  PausedInTime
    <2>1. /\ ~AutoOpen => autoOpenMs = 0
          /\ ctx.state = "WINDOW_SUSPECT" =>
                /\ autoOpenMs <= Elapsed(now, ctx.window_open_since_ms)
                /\ Elapsed(now, ctx.window_open_since_ms) < WindowPauseMs
          /\ AutoOpen => ctx.state \in {"WINDOW_SUSPECT", "AC_PAUSED"}
      BY <1>1 DEF IndInv, StampsMatchStopwatches, StateMatchesFlags, AutoOpen
    <2>2. /\ autoOpenMs \in Nat
          /\ Elapsed(now, ctx.window_open_since_ms) \in Nat
          /\ WindowPauseMs \in Nat \ {0}
      BY <1>1, ControlAssumption, ElapsedType
         DEF IndInv, TypeOK, ControlContext
    <2> QED
      BY <2>1, <2>2 DEF PausedInTime
  <1> QED
    BY InductiveInvariant, <1>1, PTL

(* RECOVERY_WAIT never outlasts RecoveryWaitMs. *)
THEOREM RecoveryBounded == Spec => []RecoveryIsBounded
  <1>1. IndInv => RecoveryIsBounded
    BY DEF IndInv, StampsMatchStopwatches, RecoveryIsBounded
  <1> QED
    BY InductiveInvariant, <1>1, PTL

-----------------------------------------------------------------------------
(* The action properties *)

(* The decision of a call that leaves the context in automatic operation,  *)
(* as the action properties speak of it.                                   *)
LEMMA DecisionTaken ==
    ASSUME IndInv, NEW m, NEW events, NEW d, Call(m, events, d)
    PROVE  \E o \in ControlContext :
             /\ Decided(o, m, now', ctx')
             /\ o.powered = ctx'.powered /\ o.manual = ctx'.manual
             /\ o.state = ctx.state
             /\ o.recovery_since_ms = ctx.recovery_since_ms
             /\ SameOpening(o, ctx')
             /\ o.powered => (o.window_was_open <=> WindowOpen(latest))
             /\ o.pause_latched => ctx.pause_latched
             /\ (o.powered /\ ~o.manual /\ ctx.pause_latched) => o.pause_latched
  <1> DEFINE e == ApplyEvents(ctx, events)
             o == Considered(ctx, m, events, now')
  <1>1. /\ Effect(ctx, e, o, ctx', m, now')
        /\ e.powered => (e.window_was_open <=> WindowOpen(latest))
        /\ e.pause_latched => ctx.pause_latched
        /\ (e.powered /\ ~e.manual /\ ctx.pause_latched) => e.pause_latched
    BY CallEffect
  <1> HIDE DEF e, o
  <1>2. /\ o \in ControlContext
        /\ Decided(o, m, now', ctx')
        /\ o.powered = ctx'.powered /\ o.manual = ctx'.manual
        /\ o.state = ctx.state
        /\ o.recovery_since_ms = ctx.recovery_since_ms
        /\ SameOpening(o, ctx')
        /\ o.powered => (o.window_was_open <=> WindowOpen(latest))
        /\ o.pause_latched => ctx.pause_latched
        /\ (o.powered /\ ~o.manual /\ ctx.pause_latched) => o.pause_latched
    BY <1>1 DEF Effect, SameSwitches
  <1> QED
    BY <1>2

(* Unless the user intervenes, RECOVERY_WAIT is left for automatic         *)
(* operation no sooner than RecoveryWaitMs after the closing.              *)
THEOREM RecoveryWaited == Spec => RecoveryIsWaited
  <1> DEFINE Waited == ctx.state = "RECOVERY_WAIT" /\ ctx'.state \in {"IDLE", "COOLING"}
                            => closedMs' >= RecoveryWaitMs
  <1>1. IndInv /\ [Next]_vars => [Waited]_vars
    <2> SUFFICES ASSUME IndInv, Next,
                        ctx.state = "RECOVERY_WAIT",
                        ctx'.state \in {"IDLE", "COOLING"}
                 PROVE  closedMs' >= RecoveryWaitMs
      BY DEF vars
    <2>1. PICK m, events, d : Call(m, events, d)
      BY NextIsCall DEF IndInv
    <2> DEFINE closing == ctx.recovery_since_ms
    <2>2. /\ d \in Nat
          /\ now \in Millis /\ now' \in Millis
          /\ closing \in Millis
      BY <2>1, CallEffect DEF ControlContext
    <2>3. PICK o \in ControlContext :
             /\ Decided(o, m, now', ctx')
             /\ o.state = ctx.state
             /\ o.recovery_since_ms = closing
             /\ o.powered => (o.window_was_open <=> WindowOpen(latest))
      BY <2>1, DecisionTaken
    <2>4. ~(Elapsed(now', closing) < RecoveryWaitMs)
      BY <2>3 DEF Decided
    <2>5. /\ ~WindowOpen(latest)
          /\ closedMs = Elapsed(now, closing)
          /\ closedMs < RecoveryWaitMs
      BY DEF IndInv, StateMatchesFlags, StampsMatchStopwatches
    <2>6. /\ RecoveryWaitMs \in Nat /\ ClockMod \in Nat
          /\ d + RecoveryWaitMs < ClockMod
      BY <2>1, ControlAssumption, FsmAssumption DEF Call
    <2>7. Elapsed(now, closing) \in Nat
      BY <2>2, ElapsedType
    <2>8. now' = (now + d) % ClockMod /\ Observe(m, d)
      BY <2>1 DEF Call, Step
    <2>9. Elapsed(now', closing) = closedMs + d
      <3>1. Elapsed(now, closing) + d < ClockMod
        BY <2>2, <2>5, <2>6, <2>7
      <3> QED
        BY <2>2, <2>5, <2>8, <3>1, ElapsedAdvances
    <2>10. closedMs' = RecoveryWaitMs
      BY <2>2, <2>4, <2>5, <2>6, <2>7, <2>8, <2>9 DEF Observe, Capped
    <2> QED
      BY <2>6, <2>10
  <1> QED
    BY InductiveInvariant, <1>1, PTL DEF Spec, RecoveryIsWaited

(* Once a reading had been taken when the window opened, cooling is paused *)
(* only for one of the two reasons given.                                  *)
THEOREM PauseJustified == Spec => PauseIsJustifiedOnceMeasured
  <1>1. IndInv /\ IndInv' /\ [Next]_vars
            => [EntersPause /\ ~blind' => PauseGrounds']_vars
    <2> SUFFICES ASSUME IndInv, IndInv', Next, EntersPause, ~blind'
                 PROVE  PauseGrounds'
      BY DEF vars
    <2>1. PICK m, events, d : Call(m, events, d)
      BY NextIsCall DEF IndInv
    <2>2. /\ latest' = m
          /\ now' \in Millis
          /\ ctx' \in ControlContext
      BY <2>1, CallEffect
    <2>3. PICK o \in ControlContext :
             /\ Decided(o, m, now', ctx')
             /\ SameOpening(o, ctx')
             /\ o.pause_latched => ctx.pause_latched
      BY <2>1, DecisionTaken
    <2>4. ~o.pause_latched
      BY <2>3 DEF IndInv, LatchIsThePause, EntersPause
    <2>5. WindowOpen(m) /\ PauseDue(o, m, now')
      BY <2>3 DEF EntersPause, Decided
    <2>6. \/ Elapsed(now', ctx'.window_open_since_ms) >= WindowPauseMs
          \/ FloatRise(m.humidity_pct, ctx'.humidity_before_window_pct)
      BY <2>3, <2>4, <2>5 DEF PauseDue, SameOpening
    <2>7. CASE Elapsed(now', ctx'.window_open_since_ms) >= WindowPauseMs
      <3>1. \/ openMs' = WindowPauseMs
            \/ Elapsed(now', ctx'.window_open_since_ms) <= openMs'
        BY <2>2, <2>5 DEF IndInv, StampsMatchStopwatches
      <3>2. /\ openMs' \in Int
            /\ WindowPauseMs \in Int
            /\ Elapsed(now', ctx'.window_open_since_ms) \in Int
        BY <2>2, ElapsedType, ControlAssumption DEF IndInv, TypeOK, ControlContext
      <3>3. openMs' >= WindowPauseMs
        BY <2>7, <3>1, <3>2
      <3> QED
        BY <3>3 DEF PauseGrounds
    <2>8. CASE FloatRise(m.humidity_pct, ctx'.humidity_before_window_pct)
      <3>1. ctx'.humidity_before_window_pct \in measured'
        BY <2>2, <2>5 DEF IndInv, BaselineIsMeasured
      <3> QED
        BY <2>2, <2>8, <3>1 DEF PauseGrounds
    <2> QED
      BY <2>6, <2>7, <2>8
  <1> QED
    BY InductiveInvariant, <1>1, PTL DEF Spec, PauseIsJustifiedOnceMeasured

-----------------------------------------------------------------------------
(* The code's state machine implements the state table.                    *)
THEOREM PolicyFollowed == Spec => FollowsPolicy
  <1>1. Init => Policy!Init
    BY DEF Init, Control_Init, Policy!Init
  <1>2. IndInv /\ IndInv' /\ [Next]_vars => [Policy!Next]_(Policy!policyVars)
    <2>1. CASE UNCHANGED vars
      BY <2>1 DEF vars, Policy!policyVars
    <2>2. ASSUME IndInv, IndInv', Next
          PROVE  Policy!Next
      <3>1. PICK m, events, d : Call(m, events, d)
        BY <2>2, NextIsCall DEF IndInv
      <3>2. /\ latest' = m
            /\ ctx.window_was_open = WindowOpen(latest)
            /\ ctx'.window_was_open = WindowOpen(latest')
            /\ ctx.window_was_open \in BOOLEAN
            /\ ctx'.window_was_open \in BOOLEAN
        BY <2>2, <3>1, CallEffect DEF IndInv, UpToDate, ControlContext
      <3>3. PICK o \in ControlContext :
             /\ Decided(o, m, now', ctx')
             /\ o.state = ctx.state
             /\ o.powered => (o.window_was_open <=> WindowOpen(latest))
             /\ (o.powered /\ ~o.manual /\ ctx.pause_latched) => o.pause_latched
        BY <2>2, <3>1, DecisionTaken
      <3>4. /\ ctx.state = "AC_PAUSED" => ctx.pause_latched
            /\ ctx.state \in {"WINDOW_SUSPECT", "AC_PAUSED"} => WindowOpen(latest)
        BY <2>2 DEF IndInv, LatchIsThePause, StateMatchesFlags
      <3>5. CASE ~o.powered
        BY <3>2, <3>3, <3>5 DEF Decided, Policy!Next, Policy!SwitchOff
      <3>6. CASE o.powered /\ o.manual
        BY <3>2, <3>3, <3>6 DEF Decided, Policy!Next, Policy!Override
      <3>7. CASE o.powered /\ ~o.manual /\ WindowOpen(m)
        <4>1. o.pause_latched => PauseDue(o, m, now')
          BY DEF PauseDue
        <4>2. Policy!Watch
          BY <3>2, <3>3, <3>4, <3>7, <4>1
             DEF Decided, Policy!Watch, Policy!Interrupted
        <4> QED
          BY <4>2 DEF Policy!Next
      <3>8. CASE o.powered /\ ~o.manual /\ ~WindowOpen(m) /\ o.window_was_open
        BY <3>2, <3>3, <3>8 DEF Decided, Policy!Next, Policy!BeginRecovery
      <3>9. CASE o.powered /\ ~o.manual /\ ~WindowOpen(m) /\ ~o.window_was_open
        <4>1. /\ ~ctx.window_was_open /\ ~ctx'.window_was_open
              /\ ctx.state \notin {"WINDOW_SUSPECT", "AC_PAUSED"}
          BY <3>2, <3>3, <3>4, <3>9
        <4>2. \/ ctx.state = "RECOVERY_WAIT" /\ ctx'.state = "RECOVERY_WAIT"
              \/ ctx'.state \in {"IDLE", "COOLING"}
          BY <3>3, <3>9 DEF Decided
        <4> QED
          BY <4>1, <4>2 DEF Policy!Next, Policy!StayInRecovery, Policy!Run,
                            Policy!Interrupted, Policy!Running
      <3> QED
        BY <3>5, <3>6, <3>7, <3>8, <3>9
    <2> QED
      BY <2>1, <2>2
  <1> QED
    BY InductiveInvariant, <1>1, <1>2, PTL DEF Spec, FollowsPolicy, Policy!Spec
=============================================================================
