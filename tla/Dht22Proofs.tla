----------------------------- MODULE Dht22Proofs -----------------------------
(***************************************************************************)
(* Theorems about Dht22, for every size of a byte, every set of times the  *)
(* assumptions allow and every place where the timer may stop.             *)
(***************************************************************************)
EXTENDS Dht22, ModularClock

LEMMA Constants ==
    /\ ByteMod \in Nat /\ ByteMod > 0 /\ UsMod \in Nat \ {0}
    /\ MaxLoopUs \in Nat /\ MaxLoopUs > 0
    /\ \A dt \in LoopUs : dt \in Nat /\ 1 <= dt /\ dt <= MaxLoopUs
    /\ PullUs \in Nat /\ PullUs > 0 /\ ReadTimeoutUs \in Nat /\ PulseTimeoutUs \in Nat
    /\ PullUs + MaxLoopUs < ReadTimeoutUs
    /\ LoopGuard \in Nat /\ LoopGuard > 0 /\ BusyGuard \in Nat /\ BusyGuard > 0
    /\ Pulses \in Nat /\ Pulses >= 12 /\ Pulses % 2 = 0
    /\ ThresholdUs \in Nat
  BY DhtAssumption DEF Pulses

LEMMA ShiftedType ==
    ASSUME NEW bytes \in Bytes, NEW p, NEW bit \in {0, 1}
    PROVE  Shifted(bytes, p, bit) \in Bytes
  <1>1. \A i \in 0 .. 4 : (2 * bytes[i] + bit) % ByteMod \in 0 .. ByteMod - 1
    BY Constants DEF Bytes
  <1> QED
    BY <1>1 DEF Shifted, Bytes

LEMMA ZerosType == Zeros \in Bytes
  BY Constants DEF Zeros, Bytes

(* The sensor's part of a step.                                            *)
LEMMA SensorType ==
    ASSUME TypeOK, NEW dt \in LoopUs, NEW high \in BOOLEAN, Reads(dt, high)
    PROVE  /\ phase' \in 0 .. LastPhase /\ left' \in Int
           /\ sent' \in Bytes /\ broken' \in BOOLEAN
           /\ us' \in 0 .. UsMod - 1 /\ frozen' \in BOOLEAN
           /\ UsTimerReady' \in BOOLEAN
           /\ offFor' \in Nat
  <1>1. /\ us' \in 0 .. UsMod - 1 /\ frozen' \in BOOLEAN
        /\ UsTimerReady' \in BOOLEAN /\ broken' \in BOOLEAN /\ offFor' \in Nat
    BY Constants DEF Reads, Passes, TypeOK
  <1>2. \A d \in WaitUs \cup RespUs \cup LowUs \cup ZeroUs \cup OneUs : d \in Int
    BY SensorAssumption, Constants
  <1>3. CASE NextPhase(dt - left) /\ phase # LastPhase
    <2>1. phase' \in 0 .. LastPhase
      BY <1>3, Constants DEF NextPhase, TypeOK, LastPhase
    <2>2. left' \in Int
      BY <1>2, <1>3, Constants DEF NextPhase, Duration, TypeOK
    <2>3. sent' \in Bytes
      BY <1>3, ShiftedType DEF NextPhase, TypeOK
    <2> QED
      BY <1>1, <2>1, <2>2, <2>3
  <1>4. CASE ~(NextPhase(dt - left) /\ phase # LastPhase)
    BY <1>1, <1>4, Constants DEF Reads, SensorRuns, TypeOK
  <1> QED
    BY <1>3, <1>4

LEMMA InitIsTyped == Init => DhtInv
  <1> SUFFICES ASSUME Init PROVE DhtInv
    OBVIOUS
  <1>1. 0 \in 0 .. LastPhase /\ 0 \in 0 .. UsMod - 1 /\ 0 \in 0 .. Pulses
    BY Constants DEF LastPhase
  <1>2. broken \in BOOLEAN /\ frozen \in BOOLEAN /\ UsTimerReady \in BOOLEAN
    BY Zenon DEF Init
  <1>3. TypeOK
    BY <1>1, <1>2, ZerosType DEF Init, TypeOK, DhtErrorCode, DhtStage
  <1> QED
    BY <1>3 DEF Init, DhtInv

LEMMA PullIsTyped ==
    ASSUME DhtInv, NEW dt \in LoopUs, Pull(dt)
    PROVE  DhtInv'
  <1>1. PICK high \in BOOLEAN : Reads(dt, high)
    BY DEF Pull
  <1> QED
    BY <1>1, SensorType, Constants DEF Pull, DhtInv, TypeOK, result

(* Both waits of DhtMeasurePulse.                                          *)
LEMMA WaitIsTyped ==
    ASSUME DhtInv, NEW dt \in LoopUs, NEW high \in BOOLEAN,
           Find(dt, high) \/ Measure(dt, high)
    PROVE  DhtInv'
  <1>1. Reads(dt, high)
    BY DEF Find, Measure
  <1>2. /\ phase' \in 0 .. LastPhase /\ left' \in Int
        /\ sent' \in Bytes /\ broken' \in BOOLEAN
        /\ us' \in 0 .. UsMod - 1 /\ frozen' \in BOOLEAN
        /\ UsTimerReady' \in BOOLEAN
        /\ offFor' \in Nat
    BY <1>1, SensorType DEF DhtInv
  <1>3. /\ deadline_start_us' \in 0 .. UsMod - 1
        /\ DhtLastError' = "NONE" /\ out' = Unwritten
        /\ pulse \in 0 .. Pulses - 1 /\ guard \in Nat
        /\ last_error = "NONE"
    BY Constants DEF Find, Measure, DhtInv, TypeOK
  <1>4. CASE Found
    BY <1>2, <1>3, <1>4, Constants
       DEF Found, Find, Measure, DhtInv, TypeOK, DhtErrorCode
  <1>5. CASE GivesUp
    BY <1>2, <1>3, <1>5, Constants
       DEF GivesUp, Find, Measure, DhtInv, TypeOK, DhtErrorCode
  <1>6. CASE TurnsOn
    BY <1>2, <1>3, <1>6, Constants
       DEF TurnsOn, Find, Measure, DhtInv, TypeOK, DhtErrorCode
  <1>7. CASE Measured
    <2>1. data' \in Bytes
      BY <1>7, ShiftedType DEF Measured, DhtInv, TypeOK
    <2>2. DhtStageValue' \in DhtStage
      BY <1>7 DEF Measured, DhtInv, TypeOK, DhtStage
    <2>3. /\ pulse' \in 0 .. Pulses /\ guard' = 0
          /\ pulse_start_us' \in 0 .. UsMod - 1 /\ last_error' = "NONE"
          /\ pc' = IF pulse' = Pulses THEN "exit" ELSE "find"
      BY <1>3, <1>7, Constants DEF Measured, DhtInv, TypeOK
    <2> QED
      BY <1>2, <1>3, <2>1, <2>2, <2>3, Constants DEF DhtInv, TypeOK, DhtErrorCode
  <1> QED
    BY <1>4, <1>5, <1>6, <1>7 DEF Find, Measure

LEMMA StepIsTyped == DhtInv /\ [Next]_vars => DhtInv'
  <1> SUFFICES ASSUME DhtInv, [Next]_vars PROVE DhtInv'
    OBVIOUS
  <1>1. CASE Break
    BY <1>1, ZerosType, Constants
       DEF Break, DhtInv, TypeOK, timer, driver, result, LastPhase
  <1>2. CASE Freeze
    BY <1>2 DEF Freeze, DhtInv, TypeOK, wire, driver, result
  <1>3. CASE NotReady
    BY <1>3 DEF NotReady, DhtInv, TypeOK, wire, timer, driver, DhtErrorCode
  <1>4. CASE Begin
    <2>1. us' \in 0 .. UsMod - 1
      BY <1>4, DhtAssumption DEF Begin, DhtInv, TypeOK
    <2>2. broken' \in BOOLEAN
      BY <1>4, Zenon DEF Begin
    <2> QED
      BY <1>4, <2>1, <2>2, ZerosType DEF Begin, DhtInv, TypeOK, DhtErrorCode, DhtStage
  <1>5. CASE Release
    <2>1. broken' \in BOOLEAN
      BY <1>5, Zenon DEF Release, DhtInv, TypeOK, wire
    <2>2. phase' \in 0 .. LastPhase /\ left' \in Int /\ sent' \in Bytes
      BY <1>5, ZerosType, Constants, SensorAssumption
         DEF Release, DhtInv, TypeOK, wire, LastPhase
    <2> QED
      BY <1>5, <2>1, <2>2 DEF Release, DhtInv, TypeOK, timer, DhtStage
  <1>6. ASSUME NEW dt \in LoopUs, Pull(dt) PROVE DhtInv'
    BY <1>6, PullIsTyped
  <1>7. ASSUME NEW dt \in LoopUs, NEW high \in BOOLEAN,
               Find(dt, high) \/ Measure(dt, high)
        PROVE  DhtInv'
    BY <1>7, WaitIsTyped
  <1>8. CASE Return
    BY <1>8, ZerosType, Constants
       DEF Return, EndsCall, DhtInv, TypeOK, timer, DhtErrorCode, DhtStage, LastPhase
  <1>9. CASE UNCHANGED vars
    BY <1>9 DEF vars, wire, timer, driver, result, DhtInv, TypeOK
  <1> QED
    BY <1>1, <1>2, <1>3, <1>4, <1>5, <1>6, <1>7, <1>8, <1>9 DEF Next

(* The driver's variables fit together at every point of a call: an error  *)
(* or a reading appears only when the call ends, and a wait that failed    *)
(* ends it at once.                                                        *)
THEOREM DriverInvariant == Spec => []DhtInv
  <1>1. DhtInv /\ [Next]_vars => DhtInv'
    BY StepIsTyped
  <1> QED
    BY InitIsTyped, <1>1, PTL DEF Spec

-----------------------------------------------------------------------------
(* How long interrupts are off.  Turns counts the turns the loops may have *)
(* made when all before the current wait were used up.                     *)
Driving == pc \in {"find", "measure"}

Turns == BusyGuard + LoopGuard * Waits + guard

TurnLimit ==
    /\ pc \in {"pull", "find", "measure"} => guard < BusyGuard \/ guard < LoopGuard
    /\ pc = "pull" => guard < BusyGuard /\ offFor <= MaxLoopUs * guard
    /\ Driving => guard < LoopGuard /\ offFor <= MaxLoopUs * Turns
    /\ pc = "exit" => offFor <= MaxLoopUs * (BusyGuard + LoopGuard * (Waits + 1))

(* What the counter shows is the time that has passed.                     *)
CounterIsTrue ==
    ~frozen =>
      /\ pc = "pull" => offFor < PullUs
      /\ Driving => offFor < ReadTimeoutUs + MaxLoopUs * Waits
      /\ pc = "exit" => offFor < ReadTimeoutUs + MaxLoopUs * (Waits + 1)
      /\ pc = "pull" \/ Driving => (us - deadline_start_us) % UsMod = offFor
      /\ pc = "measure" => (us - pulse_start_us) % UsMod <= offFor

LEMMA WaitsType ==
    ASSUME DhtInv
    PROVE  /\ Waits \in Nat
           /\ Driving => Waits <= 20 * ByteBits + 3
  BY DhtAssumption, Constants DEF Waits, DhtInv, TypeOK, Pulses, Driving

(* The calls of TimerElapsedUs in a turn of a loop return the time.        *)
LEMMA ElapsedIsTime ==
    ASSUME DhtInv, CounterIsTrue, ~frozen, NEW dt \in LoopUs, Passes(dt),
           pc = "pull" \/ Driving
    PROVE  /\ TimerElapsedUs(deadline_start_us) = offFor + dt
           /\ offFor + dt < UsMod
           /\ pc = "measure" =>
                TimerElapsedUs(pulse_start_us) = ((us - pulse_start_us) % UsMod) + dt
  <1>1. /\ dt \in Nat /\ dt <= MaxLoopUs /\ offFor \in Nat
        /\ us' = (us + dt) % UsMod
        /\ us \in 0 .. UsMod - 1
        /\ deadline_start_us \in 0 .. UsMod - 1
        /\ pulse_start_us \in 0 .. UsMod - 1
    BY Constants DEF Passes, DhtInv, TypeOK
  <1>2. offFor + dt < UsMod
    <2> DEFINE most == 20 * ByteBits + 6
    <2>1. /\ most \in Nat /\ 1 \in Nat /\ 1 <= most
          /\ ReadTimeoutUs + MaxLoopUs * most < UsMod
      BY DhtAssumption
    <2>2. MaxLoopUs * most \in Nat /\ MaxLoopUs <= MaxLoopUs * most
      BY <2>1, Constants, TimesGrows, TimesNext
    <2>3. CASE pc = "pull"
      BY <1>1, <2>1, <2>2, <2>3, DhtAssumption DEF CounterIsTrue
    <2>4. CASE Driving
      <3>1. Waits \in Nat /\ Waits + 1 \in Nat /\ Waits + 1 <= most
        BY <2>4, WaitsType, DhtAssumption
      <3>2. MaxLoopUs * Waits + MaxLoopUs <= MaxLoopUs * most
        BY <2>1, <3>1, Constants, TimesGrows, TimesNext
      <3>3. MaxLoopUs * Waits \in Nat
        BY <3>1, Constants, TimesNext
      <3> HIDE DEF most
      <3> QED
        BY <1>1, <2>1, <2>2, <2>4, <3>2, <3>3, Constants DEF CounterIsTrue
    <2> QED
      BY <2>3, <2>4
  <1>3. (us' - deadline_start_us) % UsMod = offFor + dt
    <2>1. (us - deadline_start_us) % UsMod = offFor
      BY DEF CounterIsTrue
    <2> QED
      BY <1>1, <1>2, <2>1, Constants, DifferenceAdvances
  <1>4. ASSUME pc = "measure"
        PROVE  (us' - pulse_start_us) % UsMod = ((us - pulse_start_us) % UsMod) + dt
    <2>1. (us - pulse_start_us) % UsMod <= offFor
      BY <1>4 DEF CounterIsTrue
    <2>2. (us - pulse_start_us) % UsMod \in 0 .. UsMod - 1
      BY <1>1, Constants, ModType
    <2>3. ((us - pulse_start_us) % UsMod) + dt < UsMod
      BY <1>1, <1>2, <2>1, <2>2, Constants
    <2> QED
      BY <1>1, <2>3, Constants, DifferenceAdvances
  <1> QED
    BY <1>2, <1>3, <1>4 DEF TimerElapsedUs

LEMMA PullKeepsLimits ==
    ASSUME DhtInv, TurnLimit, CounterIsTrue, NEW dt \in LoopUs, Pull(dt)
    PROVE  TurnLimit' /\ CounterIsTrue'
  <1>1. Passes(dt)
    BY DEF Pull, Reads
  <1>2. /\ dt \in Nat /\ dt <= MaxLoopUs /\ offFor \in Nat /\ guard \in Nat
        /\ offFor' = offFor + dt
        /\ pc = "pull" /\ pulse = 0 /\ pulse' = 0
        /\ frozen' = frozen
        /\ deadline_start_us' = deadline_start_us
        /\ pc' \in {"pull", "find"}
    BY <1>1, Constants DEF Passes, Pull, DhtInv, TypeOK
  <1>3. MaxLoopUs * (guard + 1) = MaxLoopUs * guard + MaxLoopUs
        /\ MaxLoopUs * guard \in Nat
    BY <1>2, Constants, TimesNext
  <1>4. guard < BusyGuard /\ offFor <= MaxLoopUs * guard
    BY <1>2 DEF TurnLimit
  <1>5. offFor' <= MaxLoopUs * (guard + 1)
    BY <1>2, <1>3, <1>4, Constants
  <1>6. CASE pc' = "find"
    <2>1. guard' = 0 /\ Waits' = 0
      BY <1>2, <1>6 DEF Pull, Waits
    <2>2. Turns' = BusyGuard
      BY <2>1, Constants DEF Turns
    <2>3. MaxLoopUs * (guard + 1) <= MaxLoopUs * BusyGuard
      BY <1>2, <1>4, Constants, TimesGrows
    <2>4. MaxLoopUs * BusyGuard \in Nat
      BY Constants, TimesNext
    <2>5. offFor' <= MaxLoopUs * Turns'
      BY <1>2, <1>3, <1>5, <2>2, <2>3, <2>4, Constants
    <2>6. TurnLimit'
      BY <1>6, <2>1, <2>5, Constants DEF TurnLimit, Driving
    <2>7. ASSUME ~frozen PROVE CounterIsTrue'
      <3>1. /\ TimerElapsedUs(deadline_start_us) = offFor + dt
        BY <1>1, <1>2, <2>7, ElapsedIsTime
      <3>2. offFor' < ReadTimeoutUs
        BY <1>2, <2>7, DhtAssumption DEF CounterIsTrue
      <3>3. MaxLoopUs * Waits' = 0
        BY <2>1, Constants
      <3> QED
        BY <1>2, <1>6, <3>1, <3>2, <3>3, Constants
           DEF CounterIsTrue, Driving, TimerElapsedUs
    <2> QED
      BY <1>2, <2>6, <2>7 DEF CounterIsTrue
  <1>7. CASE pc' = "pull"
    <2>1. guard' = guard + 1 /\ guard' < BusyGuard
          /\ ~(TimerElapsedUs(deadline_start_us) >= PullUs)
      BY <1>2, <1>7, Constants DEF Pull
    <2>2. TurnLimit'
      BY <1>5, <1>7, <2>1 DEF TurnLimit, Driving
    <2>3. ASSUME ~frozen PROVE CounterIsTrue'
      <3>1. TimerElapsedUs(deadline_start_us) = offFor + dt
        BY <1>1, <1>2, <2>3, ElapsedIsTime
      <3> QED
        BY <1>2, <1>7, <2>1, <3>1, Constants
           DEF CounterIsTrue, Driving, TimerElapsedUs
    <2> QED
      BY <1>2, <2>2, <2>3 DEF CounterIsTrue
  <1> QED
    BY <1>2, <1>6, <1>7

(* The turns: every turn of a loop is one of those Turns counts.           *)
LEMMA WaitKeepsTurns ==
    ASSUME DhtInv, TurnLimit, NEW dt \in LoopUs, NEW high \in BOOLEAN,
           Find(dt, high) \/ Measure(dt, high)
    PROVE  TurnLimit'
  <1>1. /\ dt \in Nat /\ dt <= MaxLoopUs
        /\ offFor \in Nat /\ guard \in Nat /\ pulse \in Nat
        /\ offFor' = offFor + dt
        /\ guard < LoopGuard /\ offFor <= MaxLoopUs * Turns
        /\ pc \in {"find", "measure"}
    BY Constants DEF Find, Measure, Reads, Passes, DhtInv, TypeOK, TurnLimit, Driving
  <1>2. /\ Waits \in Nat /\ LoopGuard * Waits \in Nat
        /\ LoopGuard * (Waits + 1) = LoopGuard * Waits + LoopGuard
    BY WaitsType, Constants, TimesNext
  <1>3. Turns \in Nat /\ Turns + 1 \in Nat
    BY <1>1, <1>2, Constants DEF Turns
  <1>4. offFor' <= MaxLoopUs * (Turns + 1) /\ offFor' \in Nat
    <2>1. MaxLoopUs * (Turns + 1) = MaxLoopUs * Turns + MaxLoopUs
          /\ MaxLoopUs * Turns \in Nat
      BY <1>3, Constants, TimesNext
    <2> QED
      BY <1>1, <2>1, Constants
  <1>5. ASSUME NEW n \in Nat, Turns + 1 <= n PROVE offFor' <= MaxLoopUs * n
    <2>1. MaxLoopUs * (Turns + 1) <= MaxLoopUs * n
      BY <1>3, <1>5, Constants, TimesGrows
    <2>2. MaxLoopUs * (Turns + 1) \in Nat /\ MaxLoopUs * n \in Nat
      BY <1>3, <1>5, Constants, TimesNext
    <2> QED
      BY <1>4, <2>1, <2>2
  <1>6. ASSUME NEW w \in Nat, Waits <= w
        PROVE  /\ offFor' <= MaxLoopUs * (BusyGuard + LoopGuard * (w + 1))
               /\ BusyGuard + LoopGuard * (w + 1) \in Nat
    <2>1. LoopGuard * (Waits + 1) <= LoopGuard * (w + 1)
      BY <1>2, <1>6, Constants, TimesGrows
    <2>2. LoopGuard * (w + 1) \in Nat /\ LoopGuard * (Waits + 1) \in Nat
      BY <1>2, <1>6, Constants, TimesNext
    <2>3. /\ BusyGuard + LoopGuard * (w + 1) \in Nat
          /\ Turns + 1 <= BusyGuard + LoopGuard * (w + 1)
      BY <1>1, <1>2, <2>1, <2>2, Constants DEF Turns
    <2> QED
      BY <1>5, <2>3
  <1>7. ASSUME guard' = 0, pc' \in {"find", "measure"}, Waits' = Waits + 1
        PROVE  TurnLimit'
    <2>1. Turns' = BusyGuard + LoopGuard * (Waits + 1)
      BY <1>2, <1>7, Constants DEF Turns
    <2> QED
      BY <1>2, <1>6, <1>7, <2>1, Constants DEF TurnLimit, Driving
  <1>8. ASSUME pc' = "exit", Waits' \in Nat, Waits <= Waits'
        PROVE  TurnLimit'
    BY <1>6, <1>8 DEF TurnLimit, Driving
  <1>9. CASE GivesUp
    BY <1>1, <1>8, <1>9 DEF GivesUp, Waits
  <1>10. CASE TurnsOn /\ ~TurnsUsed
    <2>1. guard' = guard + 1 /\ guard' < LoopGuard /\ pc' = pc /\ Waits' = Waits
      BY <1>1, <1>10, Constants DEF TurnsOn, TurnsUsed, Waits
    <2>2. Turns' = Turns + 1
      BY <1>1, <1>2, <2>1, Constants DEF Turns
    <2> QED
      BY <1>1, <1>4, <2>1, <2>2 DEF TurnLimit, Driving
  <1>11. CASE pc = "find" /\ Found
    BY <1>1, <1>7, <1>11 DEF Found, Waits
  <1>12. CASE pc = "measure" /\ Measured
    <2>1. CASE pc' = "find"
      BY <1>1, <1>7, <1>12, <2>1 DEF Measured, Waits
    <2>2. CASE pc' = "exit"
      BY <1>1, <1>8, <1>12, <2>2 DEF Measured, Waits
    <2> QED
      BY <1>12, <2>1, <2>2 DEF Measured
  <1> QED
    BY <1>9, <1>10, <1>11, <1>12 DEF Find, Measure

(* The counter: a wait that goes on has read the deadline as not passed.   *)
LEMMA WaitKeepsTime ==
    ASSUME DhtInv, CounterIsTrue, NEW dt \in LoopUs, NEW high \in BOOLEAN,
           Find(dt, high) \/ Measure(dt, high)
    PROVE  CounterIsTrue'
  <1> SUFFICES ASSUME ~frozen' PROVE CounterIsTrue'
    BY DEF CounterIsTrue
  <1>1. /\ dt \in Nat /\ dt <= MaxLoopUs
        /\ offFor \in Nat /\ pulse \in Nat
        /\ offFor' = offFor + dt
        /\ pc \in {"find", "measure"}
        /\ Passes(dt) /\ ~frozen
        /\ deadline_start_us' = deadline_start_us
    BY Constants DEF Find, Measure, Reads, Passes, DhtInv, TypeOK
  <1>2. /\ (us' - deadline_start_us) % UsMod = offFor'
        /\ TimerElapsedUs(deadline_start_us) = offFor'
        /\ pc = "measure" => /\ (us' - pulse_start_us) % UsMod
                                   = ((us - pulse_start_us) % UsMod) + dt
                             /\ (us - pulse_start_us) % UsMod <= offFor
                             /\ (us - pulse_start_us) % UsMod \in Int
    <2>1. /\ TimerElapsedUs(deadline_start_us) = offFor + dt
          /\ pc = "measure" =>
                TimerElapsedUs(pulse_start_us) = ((us - pulse_start_us) % UsMod) + dt
      BY <1>1, ElapsedIsTime DEF Driving
    <2>2. (us - pulse_start_us) % UsMod \in Int
      BY Constants, ModType DEF DhtInv, TypeOK
    <2> QED
      BY <1>1, <2>1, <2>2 DEF TimerElapsedUs, CounterIsTrue
  <1>3. offFor < ReadTimeoutUs + MaxLoopUs * Waits
    BY <1>1 DEF CounterIsTrue, Driving
  <1>4. /\ Waits \in Nat /\ MaxLoopUs * Waits \in Nat
        /\ MaxLoopUs * (Waits + 1) = MaxLoopUs * Waits + MaxLoopUs
    BY WaitsType, Constants, TimesNext
  <1>5. ASSUME NEW w \in Nat, Waits + 1 <= w
        PROVE  offFor' < ReadTimeoutUs + MaxLoopUs * w
    <2>1. MaxLoopUs * (Waits + 1) <= MaxLoopUs * w /\ MaxLoopUs * w \in Nat
      BY <1>4, <1>5, Constants, TimesGrows, TimesNext
    <2> QED
      BY <1>1, <1>3, <1>4, <2>1, Constants
  <1>6. CASE GivesUp
    <2>1. pc' = "exit" /\ Waits' \in Nat /\ Waits' + 1 \in Nat /\ Waits + 1 <= Waits' + 1
      BY <1>1, <1>6 DEF GivesUp, Waits
    <2> QED
      BY <1>5, <2>1 DEF CounterIsTrue, Driving
  <1>7. CASE TurnsOn /\ ~DeadlinePassed
    <2>1. offFor' < ReadTimeoutUs /\ pc' = pc /\ Waits' = Waits
          /\ pulse_start_us' = pulse_start_us
      BY <1>1, <1>2, <1>7, Constants DEF TurnsOn, DeadlinePassed, Waits
    <2>2. offFor' < ReadTimeoutUs + MaxLoopUs * Waits'
      BY <1>1, <1>4, <2>1, Constants
    <2> QED
      BY <1>1, <1>2, <2>1, <2>2 DEF CounterIsTrue, Driving
  <1>8. CASE pc = "find" /\ Found
    <2>1. pc' = "measure" /\ Waits' = Waits + 1 /\ pulse_start_us' = us'
      BY <1>1, <1>8 DEF Found, Waits
    <2>2. (us' - pulse_start_us') % UsMod = 0
      <3>1. us' \in 0 .. UsMod - 1
        BY <1>1, Constants DEF Passes, DhtInv, TypeOK
      <3> QED
        BY <2>1, <3>1, Constants, DifferenceToItself
    <2> QED
      BY <1>1, <1>2, <1>4, <1>5, <2>1, <2>2 DEF CounterIsTrue, Driving
  <1>9. CASE pc = "measure" /\ Measured
    <2>1. /\ pc' \in {"find", "exit"} /\ Waits' \in Nat /\ Waits + 1 <= Waits'
          /\ Waits' + 1 \in Nat /\ Waits + 1 <= Waits' + 1
      BY <1>1, <1>9 DEF Measured, Waits
    <2> QED
      BY <1>1, <1>2, <1>5, <2>1 DEF CounterIsTrue, Driving
  <1> QED
    BY <1>6, <1>7, <1>8, <1>9 DEF Find, Measure

LimitInv == TurnLimit /\ CounterIsTrue

LEMMA ReleaseKeepsLimits ==
    ASSUME DhtInv, Release
    PROVE  LimitInv'
  <1>1. /\ pc' = "pull" /\ guard' = 0 /\ offFor' = 0
        /\ us' = us /\ deadline_start_us' = us /\ us \in 0 .. UsMod - 1
    BY DEF Release, DhtInv, TypeOK, timer
  <1>2. TurnLimit'
    BY <1>1, Constants DEF TurnLimit, Driving
  <1>3. (us' - deadline_start_us') % UsMod = 0
    BY <1>1, Constants, DifferenceToItself
  <1>4. CounterIsTrue'
    BY <1>1, <1>3, Constants DEF CounterIsTrue, Driving
  <1> QED
    BY <1>2, <1>4 DEF LimitInv

LEMMA StepKeepsLimits == DhtInv /\ LimitInv /\ [Next]_vars => LimitInv'
  <1> SUFFICES ASSUME DhtInv, LimitInv, [Next]_vars PROVE LimitInv'
    OBVIOUS
  <1>1. CASE Break
    BY <1>1 DEF Break, timer, driver, LimitInv, TurnLimit, CounterIsTrue,
                Driving, Turns, Waits
  <1>2. CASE Freeze
    BY <1>2 DEF Freeze, driver, LimitInv, TurnLimit, CounterIsTrue,
                Driving, Turns, Waits
  <1>3. CASE NotReady \/ Begin
    BY <1>3 DEF NotReady, Begin, driver, LimitInv, TurnLimit, CounterIsTrue, Driving
  <1>4. CASE Release
    BY <1>4, ReleaseKeepsLimits
  <1>5. ASSUME NEW dt \in LoopUs, Pull(dt) PROVE LimitInv'
    BY <1>5, PullKeepsLimits DEF LimitInv
  <1>6. ASSUME NEW dt \in LoopUs, NEW high \in BOOLEAN,
               Find(dt, high) \/ Measure(dt, high)
        PROVE  LimitInv'
    BY <1>6, WaitKeepsTurns, WaitKeepsTime DEF LimitInv
  <1>7. CASE Return
    BY <1>7 DEF Return, EndsCall, LimitInv, TurnLimit, CounterIsTrue, Driving
  <1>8. CASE UNCHANGED vars
    BY <1>8 DEF vars, timer, driver, LimitInv, TurnLimit, CounterIsTrue,
                Driving, Turns, Waits
  <1> QED
    BY <1>1, <1>2, <1>3, <1>4, <1>5, <1>6, <1>7, <1>8 DEF Next

LEMMA LimitsBoundIrqsOff == DhtInv /\ LimitInv => IrqsOffAreBounded
  <1> SUFFICES ASSUME DhtInv, LimitInv PROVE IrqsOffAreBounded
    OBVIOUS
  <1>1. /\ Waits \in Nat /\ offFor \in Nat /\ guard \in Nat
        /\ pc \in {"idle", "start", "pull", "find", "measure", "exit"}
    BY WaitsType DEF DhtInv, TypeOK
  <1> DEFINE n == BusyGuard + LoopGuard * (Waits + 1)
  <1>2. /\ LoopGuard * Waits \in Nat
        /\ LoopGuard * (Waits + 1) = LoopGuard * Waits + LoopGuard
        /\ n \in Nat
    BY <1>1, Constants, TimesNext
  <1>3. ASSUME NEW k \in Nat, k <= n, offFor <= MaxLoopUs * k
        PROVE  offFor <= MaxLoopUs * n
    <2>1. MaxLoopUs * k <= MaxLoopUs * n
          /\ MaxLoopUs * k \in Nat /\ MaxLoopUs * n \in Nat
      BY <1>2, <1>3, Constants, TimesGrows, TimesNext
    <2> HIDE DEF n
    <2> QED
      BY <1>1, <1>3, <2>1
  <1>4. MaxLoopUs * 0 = 0 /\ n \in Nat /\ 0 <= n
    BY <1>2, Constants
  <1>5. offFor <= MaxLoopUs * n
    <2>1. CASE pc \in {"idle", "start"}
      BY <1>3, <1>4, <2>1 DEF DhtInv
    <2>2. CASE pc = "pull"
      <3>1. guard <= n /\ offFor <= MaxLoopUs * guard
        BY <1>1, <1>2, <2>2, Constants DEF LimitInv, TurnLimit
      <3> QED
        BY <1>1, <1>3, <3>1
    <2>3. CASE Driving
      <3>1. Turns \in Nat /\ Turns <= n
        BY <1>1, <1>2, <2>3, Constants DEF Turns, LimitInv, TurnLimit
      <3> QED
        BY <1>3, <2>3, <3>1 DEF LimitInv, TurnLimit
    <2>4. CASE pc = "exit"
      BY <2>4 DEF LimitInv, TurnLimit
    <2> QED
      BY <1>1, <2>1, <2>2, <2>3, <2>4 DEF Driving
  <1>6. ASSUME ~frozen PROVE offFor < ReadTimeoutUs + MaxLoopUs * (Waits + 1)
    <2>1. /\ MaxLoopUs * (Waits + 1) = MaxLoopUs * Waits + MaxLoopUs
          /\ MaxLoopUs * Waits \in Nat
      BY <1>1, Constants, TimesNext
    <2>2. CASE pc \in {"idle", "start", "pull"}
      <3>1. offFor < ReadTimeoutUs
        BY <1>1, <1>6, <2>2, Constants DEF LimitInv, CounterIsTrue, DhtInv
      <3> QED
        BY <1>1, <2>1, <3>1, Constants
    <2>3. CASE pc \in {"find", "measure", "exit"}
      BY <1>1, <1>6, <2>1, <2>3, Constants DEF LimitInv, CounterIsTrue, Driving
    <2> QED
      BY <1>1, <2>2, <2>3
  <1> QED
    BY <1>5, <1>6 DEF IrqsOffAreBounded

(* Interrupts are off no longer than the deadline and a turn for every     *)
(* wait, and by the number of turns with a timer that has stopped.         *)
THEOREM IrqsOffBounded == Spec => []IrqsOffAreBounded
  <1>1. Init => LimitInv
    BY DEF Init, LimitInv, TurnLimit, CounterIsTrue, Driving
  <1>2. DhtInv /\ LimitInv /\ [Next]_vars => LimitInv'
    BY StepKeepsLimits
  <1>3. DhtInv /\ LimitInv => IrqsOffAreBounded
    BY LimitsBoundIrqsOff
  <1> QED
    BY DriverInvariant, <1>1, <1>2, <1>3, PTL DEF Spec

-----------------------------------------------------------------------------
(* A frame from a sensor and a timer that work.  The driver is never more  *)
(* than a turn behind the sensor: wait p of DhtMeasurePulse looks at phase *)
(* p + 1.  While it measures the high of a bit, sent is one bit ahead of   *)
(* data, and the length still to come already tells which.                 *)
SincePulse == (us - pulse_start_us) % UsMod

Carries(shortest, longest) ==
    IF pulse > 1 /\ pulse % 2 = 1
    THEN \E bit \in {0, 1} :
            /\ sent = Shifted(data, pulse, bit)
            /\ bit = 1 => shortest > ThresholdUs
            /\ bit = 0 => longest + MaxLoopUs - 1 <= ThresholdUs
    ELSE data = sent

SensorIsInTime ==
    pc \in {"pull", "find", "measure"} =>
        /\ phase <= Pulses /\ left > 0
        /\ offFor + left <= MaxPulseUs * (phase + 1)

FirstWait ==
    pc = "pull" \/ (pc = "find" /\ pulse = 0) =>
        /\ phase \in {0, 1} /\ data = sent
        /\ guard <= offFor
        /\ phase = 0 => offFor + left \in WaitUs
        /\ phase = 1 => /\ offFor + left >= PullUs + 2 * MaxLoopUs
                        /\ left <= MaxPulseUs
        /\ pc = "find" /\ phase = 1 => left > MaxLoopUs

LaterWait ==
    pc = "find" /\ pulse > 0 =>
        /\ phase = pulse + 1
        /\ left > MaxLoopUs /\ left <= MaxPulseUs
        /\ Carries(left - MaxLoopUs, left - 1)

Measuring ==
    pc = "measure" =>
        /\ phase = pulse + 1
        /\ guard <= SincePulse
        /\ SincePulse + left <= MaxPulseUs
        /\ Carries(SincePulse + left, SincePulse + left)

FrameInv ==
    ~broken /\ ~frozen =>
        /\ SensorIsInTime
        /\ FirstWait
        /\ LaterWait
        /\ Measuring
        /\ FrameIsReceived

LEMMA SensorStays ==
    ASSUME DhtInv, NEW dt \in LoopUs, SensorRuns(dt), dt < left, phase <= Pulses
    PROVE  phase' = phase /\ left' = left - dt /\ sent' = sent
  BY Constants DEF SensorRuns, DhtInv, TypeOK, LastPhase

LEMMA SensorTurns ==
    ASSUME DhtInv, NEW dt \in LoopUs, SensorRuns(dt), dt >= left, left > 0,
           phase <= Pulses
    PROVE  /\ phase' = phase + 1
           /\ left' > MaxLoopUs /\ left' <= MaxPulseUs
           /\ \E d \in Nat : /\ left' = d - (dt - left) /\ d <= MaxPulseUs
                             /\ phase = 0 => d \in RespUs
           /\ IF IsBit(phase')
              THEN \E bit \in {0, 1} :
                      /\ sent' = Shifted(sent, phase, bit)
                      /\ bit = 1 => left' - MaxLoopUs > ThresholdUs
                      /\ bit = 0 => left' + MaxLoopUs - 2 <= ThresholdUs
              ELSE sent' = sent
  <1>1. /\ dt \in Nat /\ 1 <= dt /\ dt <= MaxLoopUs /\ left \in Int
        /\ dt - left >= 0 /\ dt - left < MaxLoopUs
        /\ phase \in Nat
    BY Constants DEF DhtInv, TypeOK, LastPhase
  <1>2. NextPhase(dt - left)
    BY <1>1, Constants DEF SensorRuns, LastPhase
  <1>3. phase' = phase + 1
    BY <1>2 DEF NextPhase
  <1>4. ASSUME NEW d \in RespUs \cup LowUs \cup ZeroUs \cup OneUs,
               left' = d - (dt - left)
        PROVE  /\ d \in Nat /\ d <= MaxPulseUs
               /\ left' > MaxLoopUs /\ left' <= MaxPulseUs
    BY <1>1, <1>4, SensorAssumption, Constants
  <1>5. CASE IsBit(phase')
    <2>1. PICK bit \in {0, 1} :
              /\ sent' = Shifted(sent, phase, bit)
              /\ \E d \in IF bit = 1 THEN OneUs ELSE ZeroUs :
                    left' = d - (dt - left)
      BY <1>2, <1>3, <1>5 DEF NextPhase
    <2>2. PICK d \in IF bit = 1 THEN OneUs ELSE ZeroUs : left' = d - (dt - left)
      BY <2>1
    <2>3. /\ d \in Nat /\ d <= MaxPulseUs
          /\ left' > MaxLoopUs /\ left' <= MaxPulseUs
      BY <1>4, <2>2
    <2>4. bit = 1 => left' - MaxLoopUs > ThresholdUs
      <3>1. bit = 1 => d - 2 * MaxLoopUs >= ThresholdUs
        BY <2>2, SensorAssumption
      <3> QED
        BY <1>1, <2>2, <2>3, <3>1, Constants
    <2>5. bit = 0 => left' + MaxLoopUs - 2 <= ThresholdUs
      <3>1. bit = 0 => d + MaxLoopUs - 2 <= ThresholdUs
        BY <2>2, SensorAssumption
      <3> QED
        BY <1>1, <2>2, <2>3, <3>1, Constants
    <2>6. phase # 0
      BY <1>3, <1>5 DEF IsBit
    <2> QED
      BY <1>3, <1>5, <2>1, <2>2, <2>3, <2>4, <2>5, <2>6
  <1>6. CASE ~IsBit(phase')
    <2>1. sent' = sent /\ \E d \in Duration(phase + 1) : left' = d - (dt - left)
      BY <1>2, <1>3, <1>6 DEF NextPhase
    <2>2. PICK d \in Duration(phase + 1) : left' = d - (dt - left)
      BY <2>1
    <2>3. d \in RespUs \cup LowUs /\ (phase = 0 => d \in RespUs)
      BY <1>1, <2>2 DEF Duration
    <2>4. /\ d \in Nat /\ d <= MaxPulseUs
          /\ left' > MaxLoopUs /\ left' <= MaxPulseUs
      BY <1>4, <2>2, <2>3
    <2> QED
      BY <1>3, <1>6, <2>1, <2>2, <2>3, <2>4
  <1> QED
    BY <1>5, <1>6

LEMMA SensorKeepsTime ==
    ASSUME DhtInv, NEW dt \in LoopUs, SensorRuns(dt), offFor' = offFor + dt,
           phase <= Pulses, left > 0, offFor + left <= MaxPulseUs * (phase + 1)
    PROVE  /\ left' > 0
           /\ offFor' + left' <= MaxPulseUs * (phase' + 1)
  <1>1. /\ phase \in Nat /\ phase + 1 \in Nat /\ left \in Int /\ offFor \in Nat
        /\ dt \in Nat /\ MaxPulseUs \in Nat
    BY Constants, SensorAssumption DEF DhtInv, TypeOK, LastPhase
  <1>2. CASE dt < left
    BY <1>1, <1>2, SensorStays
  <1>3. CASE dt >= left
    <2>1. PICK d \in Nat : left' = d - (dt - left) /\ d <= MaxPulseUs
      BY <1>3, SensorTurns
    <2>2. phase' + 1 = (phase + 1) + 1 /\ left' > 0
      BY <1>1, <1>3, SensorTurns, Constants
    <2>3. /\ MaxPulseUs * ((phase + 1) + 1) = MaxPulseUs * (phase + 1) + MaxPulseUs
          /\ MaxPulseUs * (phase + 1) \in Nat
      BY <1>1, TimesNext
    <2> QED
      BY <1>1, <2>1, <2>2, <2>3
  <1> QED
    BY <1>1, <1>2, <1>3

LEMMA SensorMeetsDeadline ==
    ASSUME DhtInv, phase <= Pulses, offFor + left <= MaxPulseUs * (phase + 1)
    PROVE  offFor + left < ReadTimeoutUs
  <1> DEFINE most == 10 * ByteBits + 5
  <1>1. /\ phase + 1 \in Nat /\ most \in Nat /\ phase + 1 <= most
        /\ left \in Int /\ offFor \in Nat
    BY DhtAssumption DEF DhtInv, TypeOK, LastPhase, Pulses
  <1>2. MaxPulseUs * most < ReadTimeoutUs /\ MaxPulseUs \in Nat
    BY SensorAssumption
  <1> HIDE DEF most
  <1>3. /\ MaxPulseUs * (phase + 1) <= MaxPulseUs * most
        /\ MaxPulseUs * (phase + 1) \in Nat /\ MaxPulseUs * most \in Nat
    BY <1>1, <1>2, TimesGrows, TimesNext
  <1> QED
    BY <1>1, <1>2, <1>3, Constants

LEMMA FirstLevels == HighIn(0) /\ ~HighIn(1)
  BY DEF HighIn

LEMMA NextIsOther ==
    ASSUME NEW p \in Nat
    PROVE  /\ HighIn(p + 1) <=> p % 2 = 1
           /\ HighIn(p + 2) <=> p % 2 # 1
           /\ p % 2 = 1 <=> (p + 1) % 2 # 1
  BY DEF HighIn

(* A turn of the loop with wire and timer at work.                         *)
LEMMA TurnAtWork ==
    ASSUME DhtInv, LimitInv, FrameInv, ~broken, ~frozen,
           NEW dt \in LoopUs, NEW high \in BOOLEAN, Reads(dt, high),
           pc \in {"pull", "find", "measure"}
    PROVE  /\ ~broken' /\ ~frozen' /\ SensorRuns(dt) /\ Passes(dt)
           /\ high = HighIn(phase')
           /\ dt \in Nat /\ 1 <= dt /\ dt <= MaxLoopUs
           /\ offFor \in Nat /\ offFor' = offFor + dt
           /\ left \in Int /\ left > 0 /\ phase \in Nat /\ phase <= Pulses
           /\ guard \in Nat /\ pulse \in Nat
           /\ left' > 0 /\ offFor' + left' <= MaxPulseUs * (phase' + 1)
           /\ TimerElapsedUs(deadline_start_us) = offFor + dt
           /\ pc = "measure" => /\ TimerElapsedUs(pulse_start_us) = SincePulse + dt
                                /\ SincePulse \in Nat
           /\ dt < left => offFor + dt < ReadTimeoutUs
  <1>1. /\ ~broken' /\ ~frozen' /\ SensorRuns(dt) /\ Passes(dt)
        /\ high = HighIn(phase')
    BY DEF Reads, Passes
  <1>2. /\ dt \in Nat /\ 1 <= dt /\ dt <= MaxLoopUs
        /\ offFor \in Nat /\ offFor' = offFor + dt
        /\ left \in Int /\ phase \in Nat /\ guard \in Nat /\ pulse \in Nat
    BY <1>1, Constants DEF Passes, DhtInv, TypeOK, LastPhase
  <1>3. /\ left > 0 /\ phase <= Pulses
        /\ offFor + left <= MaxPulseUs * (phase + 1)
    BY DEF FrameInv, SensorIsInTime
  <1>4. left' > 0 /\ offFor' + left' <= MaxPulseUs * (phase' + 1)
    BY <1>1, <1>2, <1>3, SensorKeepsTime
  <1>5. /\ TimerElapsedUs(deadline_start_us) = offFor + dt
        /\ pc = "measure" =>
              TimerElapsedUs(pulse_start_us) = ((us - pulse_start_us) % UsMod) + dt
    BY <1>1, ElapsedIsTime DEF Driving, LimitInv
  <1>6. SincePulse \in Nat
    <2>1. us - pulse_start_us \in Int
      BY Constants DEF DhtInv, TypeOK
    <2> QED
      BY <2>1, Constants, ModType DEF SincePulse
  <1>7. offFor + left < ReadTimeoutUs
    BY <1>3, SensorMeetsDeadline
  <1> QED
    BY <1>1, <1>2, <1>3, <1>4, <1>5, <1>6, <1>7, Constants DEF SincePulse

LEMMA PullKeepsFrame ==
    ASSUME DhtInv, LimitInv, FrameInv, ~broken, ~frozen,
           NEW dt \in LoopUs, Pull(dt)
    PROVE  FrameInv'
  <1>1. PICK high \in BOOLEAN : Reads(dt, high)
    BY DEF Pull
  <1>2. /\ ~broken' /\ ~frozen' /\ SensorRuns(dt)
        /\ dt \in Nat /\ 1 <= dt /\ dt <= MaxLoopUs
        /\ offFor \in Nat /\ offFor' = offFor + dt
        /\ left \in Int /\ left > 0 /\ phase \in Nat /\ phase <= Pulses
        /\ guard \in Nat
        /\ left' > 0 /\ offFor' + left' <= MaxPulseUs * (phase' + 1)
    BY <1>1, TurnAtWork DEF Pull
  <1>3. /\ pc = "pull" /\ pulse = 0 /\ pulse' = 0 /\ data' = data
        /\ pc' \in {"pull", "find"}
        /\ guard' \in {0, guard + 1}
    BY DEF Pull, DhtInv
  <1>4. /\ phase \in {0, 1} /\ data = sent /\ guard <= offFor
        /\ phase = 0 => offFor + left \in WaitUs
        /\ phase = 1 => /\ offFor + left >= PullUs + 2 * MaxLoopUs
                        /\ left <= MaxPulseUs
        /\ offFor < PullUs
    BY <1>3 DEF FrameInv, FirstWait, LimitInv, CounterIsTrue
  <1>5. guard' <= offFor'
    BY <1>2, <1>3, <1>4
  <1>6. CASE dt < left
    <2>1. phase' = phase /\ left' = left - dt /\ sent' = sent
      BY <1>2, <1>6, SensorStays
    <2>2. offFor' + left' = offFor + left
      BY <1>2, <2>1
    <2>3. phase = 1 => left' > MaxLoopUs /\ left' <= MaxPulseUs
      BY <1>2, <1>4, <2>1, Constants, SensorAssumption
    <2>4. FirstWait'
      BY <1>3, <1>4, <1>5, <2>1, <2>2, <2>3 DEF FirstWait
    <2>5. SensorIsInTime'
      BY <1>2, <2>1 DEF SensorIsInTime
    <2> QED
      BY <1>3, <2>4, <2>5 DEF FrameInv, LaterWait, Measuring, FrameIsReceived
  <1>7. CASE dt >= left
    <2>1. phase = 0
      BY <1>2, <1>4, <1>7, Constants
    <2>2. /\ phase' = 1 /\ left' > MaxLoopUs /\ left' <= MaxPulseUs
      BY <1>2, <1>7, <2>1, SensorTurns
    <2>3. sent' = sent
      BY <1>2, <1>7, <2>1, <2>2, SensorTurns DEF IsBit
    <2>4. PICK d \in RespUs : left' = d - (dt - left) /\ d \in Nat
      BY <1>2, <1>7, <2>1, SensorTurns
    <2>5. PullUs + 2 * MaxLoopUs <= (offFor + left) + d
      BY <1>4, <2>1, SensorAssumption
    <2>6. offFor' + left' >= PullUs + 2 * MaxLoopUs
      BY <1>2, <2>4, <2>5, Constants
    <2>7. FirstWait'
      BY <1>3, <1>4, <1>5, <2>2, <2>3, <2>6 DEF FirstWait
    <2>8. SensorIsInTime'
      BY <1>2, <2>2, Constants DEF SensorIsInTime
    <2> QED
      BY <1>3, <2>7, <2>8 DEF FrameInv, LaterWait, Measuring, FrameIsReceived
  <1> QED
    BY <1>2, <1>6, <1>7

(* The level a wait looks for is found.                                    *)
LEMMA FoundKeepsFrame ==
    ASSUME DhtInv, LimitInv, FrameInv, ~broken, ~frozen,
           NEW dt \in LoopUs, NEW high \in BOOLEAN, Find(dt, high), Found,
           phase' = pulse + 1, left' <= MaxPulseUs, Carries(left, left)'
    PROVE  FrameInv'
  <1>1. /\ left' > 0 /\ offFor' + left' <= MaxPulseUs * (phase' + 1)
        /\ Passes(dt) /\ left' \in Int
    <2>1. pc = "find" /\ Reads(dt, high)
      BY DEF Find
    <2>2. left' \in Int
      BY <2>1, SensorType DEF DhtInv
    <2> QED
      BY <2>1, <2>2, TurnAtWork
  <1>2. /\ pc' = "measure" /\ guard' = 0 /\ pulse' = pulse /\ data' = data
        /\ pulse_start_us' = us'
        /\ pulse \in 0 .. Pulses - 1
    BY Constants DEF Found, Find, DhtInv, TypeOK
  <1>3. SincePulse' = 0
    <2>1. us' \in 0 .. UsMod - 1
      BY <1>1, Constants DEF Passes, DhtInv, TypeOK
    <2> QED
      BY <1>2, <2>1, Constants, DifferenceToItself DEF SincePulse
  <1>4. PICK l \in Int : left' = l /\ SincePulse' + left' = l
    <2>1. PICK l \in Int : left' = l
      BY <1>1
    <2>2. 0 + l = l
      OBVIOUS
    <2> QED
      BY <1>3, <2>1, <2>2
  <1>5. Carries(SincePulse + left, SincePulse + left)'
    BY <1>4 DEF Carries
  <1>6. Measuring'
    BY <1>2, <1>3, <1>4, <1>5 DEF Measuring
  <1>7. SensorIsInTime'
    BY <1>1, <1>2, Constants DEF SensorIsInTime
  <1> QED
    BY <1>2, <1>6, <1>7 DEF FrameInv, FirstWait, LaterWait, FrameIsReceived

LEMMA FindKeepsFrame ==
    ASSUME DhtInv, LimitInv, FrameInv, ~broken, ~frozen,
           NEW dt \in LoopUs, NEW high \in BOOLEAN, Find(dt, high)
    PROVE  FrameInv'
  <1>1. pc = "find" /\ Reads(dt, high) /\ pulse \in 0 .. Pulses - 1
    BY Constants DEF Find, DhtInv, TypeOK
  <1>2. /\ ~broken' /\ ~frozen' /\ SensorRuns(dt)
        /\ high = HighIn(phase')
        /\ dt \in Nat /\ 1 <= dt /\ dt <= MaxLoopUs
        /\ offFor \in Nat /\ offFor' = offFor + dt
        /\ left \in Int /\ left > 0 /\ phase \in Nat /\ phase <= Pulses
        /\ guard \in Nat /\ pulse \in Nat
        /\ left' > 0 /\ offFor' + left' <= MaxPulseUs * (phase' + 1)
        /\ TimerElapsedUs(deadline_start_us) = offFor + dt
        /\ dt < left => offFor + dt < ReadTimeoutUs
    BY <1>1, TurnAtWork
  <1>3. CASE pulse > 0
    <2>1. /\ phase = pulse + 1
          /\ left > MaxLoopUs /\ left <= MaxPulseUs
          /\ Carries(left - MaxLoopUs, left - 1)
      BY <1>1, <1>3 DEF FrameInv, LaterWait
    <2>2. phase' = phase /\ left' = left - dt /\ sent' = sent
      BY <1>2, <2>1, Constants, SensorStays
    <2>3. high = Wanted
      BY <1>2, <2>1, <2>2, NextIsOther DEF Wanted
    <2>4. Found
      BY <2>3 DEF Find
    <2>5. left' <= MaxPulseUs /\ phase' = pulse + 1
      BY <1>2, <2>1, <2>2, SensorAssumption
    <2>6. left' >= left - MaxLoopUs /\ left' <= left - 1
          /\ left - MaxLoopUs \in Int /\ left - 1 \in Int /\ left - dt \in Int
      BY <1>2, <2>2, Constants
    <2>7. pulse' = pulse /\ data' = data
      BY <2>4 DEF Found
    <2>8. Carries(left, left)'
      BY <2>1, <2>2, <2>6, <2>7, Constants DEF Carries
    <2> QED
      BY <2>4, <2>5, <2>8, FoundKeepsFrame
  <1>4. CASE pulse = 0
    <2>1. /\ phase \in {0, 1} /\ data = sent /\ guard <= offFor
          /\ phase = 0 => offFor + left \in WaitUs
          /\ phase = 1 => left > MaxLoopUs /\ left <= MaxPulseUs
      BY <1>1, <1>4 DEF FrameInv, FirstWait
    <2>2. ~Wanted
      BY <1>4 DEF Wanted
    <2>3. CASE phase = 0 /\ dt < left
      <3>1. phase' = 0 /\ left' = left - dt /\ sent' = sent
        BY <1>2, <2>3, SensorStays
      <3>2. high
        BY <1>2, <3>1, FirstLevels, Zenon
      <3>3. offFor + left <= MaxPulseUs /\ offFor + left < LoopGuard
        BY <1>2, <2>1, <2>3, SensorAssumption, Constants
      <3>4. ~DeadlinePassed /\ ~TurnsUsed
        BY <1>2, <2>1, <2>3, <3>3, Constants DEF DeadlinePassed, TurnsUsed
      <3>5. TurnsOn
        BY <2>2, <3>2, <3>4 DEF Find
      <3>6. /\ pc' = "find" /\ pulse' = 0 /\ guard' = guard + 1 /\ data' = data
        BY <1>1, <1>4, <3>5 DEF TurnsOn
      <3>7. offFor' + left' = offFor + left /\ guard' <= offFor'
        BY <1>2, <2>1, <3>1, <3>6
      <3>8. FirstWait'
        BY <2>1, <2>3, <3>1, <3>6, <3>7 DEF FirstWait
      <3>9. SensorIsInTime'
        BY <1>2, <3>1, Constants DEF SensorIsInTime
      <3> QED
        BY <3>6, <3>8, <3>9 DEF FrameInv, LaterWait, Measuring, FrameIsReceived
    <2>4. ASSUME phase' = 1, left' <= MaxPulseUs, sent' = sent PROVE FrameInv'
      <3>1. ~high
        BY <1>2, <2>4, FirstLevels, Zenon
      <3>2. high = Wanted
        BY <2>2, <3>1, Zenon DEF Wanted
      <3>3. Found
        BY <3>2 DEF Find
      <3>4. pulse' = pulse /\ data' = data /\ phase' = pulse + 1
        BY <1>4, <2>4, <3>3 DEF Found
      <3>5. Carries(left, left)'
        BY <1>4, <2>1, <2>4, <3>4 DEF Carries
      <3> QED
        BY <2>4, <3>3, <3>4, <3>5, FoundKeepsFrame
    <2>5. CASE phase = 0 /\ dt >= left
      <3>1. phase' = 1 /\ left' <= MaxPulseUs
        BY <1>2, <2>5, SensorTurns
      <3>2. sent' = sent
        BY <1>2, <2>5, <3>1, SensorTurns DEF IsBit
      <3> QED
        BY <2>4, <3>1, <3>2
    <2>6. CASE phase = 1
      <3>1. phase' = 1 /\ left' = left - dt /\ sent' = sent
        BY <1>2, <2>1, <2>6, Constants, SensorStays
      <3>2. left' <= MaxPulseUs
        BY <1>2, <2>1, <2>6, <3>1, SensorAssumption
      <3> QED
        BY <2>4, <3>1, <3>2
    <2> QED
      BY <1>2, <2>1, <2>3, <2>5, <2>6
  <1> QED
    BY <1>2, <1>3, <1>4

(* The bit the driver makes of a length is the one the sensor sent.        *)
LEMMA BitIsRecognised ==
    ASSUME DhtInv, NEW elapsed \in Nat, NEW dt \in LoopUs, left \in Int,
           left > 0, dt >= left, Carries(elapsed + left, elapsed + left),
           pulse > 1, pulse % 2 = 1
    PROVE  sent = Shifted(data, pulse, IF elapsed + dt > ThresholdUs THEN 1 ELSE 0)
  <1>1. PICK bit \in {0, 1} :
            /\ sent = Shifted(data, pulse, bit)
            /\ bit = 1 => elapsed + left > ThresholdUs
            /\ bit = 0 => elapsed + left + MaxLoopUs - 1 <= ThresholdUs
    BY DEF Carries
  <1>2. bit = IF elapsed + dt > ThresholdUs THEN 1 ELSE 0
    BY <1>1, Constants
  <1> QED
    BY <1>1, <1>2

LEMMA MeasureKeepsFrame ==
    ASSUME DhtInv, LimitInv, FrameInv, ~broken, ~frozen,
           NEW dt \in LoopUs, NEW high \in BOOLEAN, Measure(dt, high)
    PROVE  FrameInv'
  <1>1. pc = "measure" /\ Reads(dt, high) /\ pulse \in 0 .. Pulses - 1
        /\ last_error = "NONE"
    BY Constants DEF Measure, DhtInv, TypeOK
  <1>2. /\ ~broken' /\ ~frozen' /\ SensorRuns(dt) /\ Passes(dt)
        /\ high = HighIn(phase')
        /\ dt \in Nat /\ 1 <= dt /\ dt <= MaxLoopUs
        /\ offFor \in Nat /\ offFor' = offFor + dt
        /\ left \in Int /\ left > 0 /\ phase \in Nat /\ phase <= Pulses
        /\ guard \in Nat /\ pulse \in Nat
        /\ left' > 0 /\ offFor' + left' <= MaxPulseUs * (phase' + 1)
        /\ TimerElapsedUs(deadline_start_us) = offFor + dt
        /\ TimerElapsedUs(pulse_start_us) = SincePulse + dt
        /\ SincePulse \in Nat
        /\ dt < left => offFor + dt < ReadTimeoutUs
    BY <1>1, TurnAtWork
  <1>3. /\ phase = pulse + 1
        /\ guard <= SincePulse
        /\ SincePulse + left <= MaxPulseUs
        /\ Carries(SincePulse + left, SincePulse + left)
    BY <1>1 DEF FrameInv, Measuring
  <1>4. CASE dt < left
    <2>1. phase' = phase /\ left' = left - dt /\ sent' = sent
      BY <1>2, <1>4, SensorStays
    <2>2. high = Wanted
      BY <1>2, <1>3, <2>1, NextIsOther DEF Wanted
    <2>3. ~DeadlinePassed
      BY <1>2, <1>4, Constants DEF DeadlinePassed
    <2>4. ~(TimerElapsedUs(pulse_start_us) >= PulseTimeoutUs) /\ ~TurnsUsed
      BY <1>2, <1>3, <1>4, Constants, SensorAssumption DEF TurnsUsed
    <2>5. TurnsOn
      BY <2>2, <2>3, <2>4 DEF Measure
    <2>6. /\ pc' = "measure" /\ guard' = guard + 1 /\ pulse' = pulse
          /\ data' = data /\ pulse_start_us' = pulse_start_us
      BY <1>1, <2>5 DEF TurnsOn
    <2>7. SincePulse' = SincePulse + dt
      BY <1>2, <2>6 DEF SincePulse, TimerElapsedUs
    <2>8. SincePulse' + left' = SincePulse + left
      BY <1>2, <2>1, <2>7
    <2>9. Carries(SincePulse + left, SincePulse + left)'
      BY <1>3, <2>1, <2>6, <2>8 DEF Carries
    <2>10. guard' <= SincePulse'
      BY <1>2, <1>3, <2>6, <2>7
    <2>11. Measuring'
      BY <1>3, <2>1, <2>6, <2>8, <2>9, <2>10 DEF Measuring
    <2>12. SensorIsInTime'
      BY <1>2, <2>1, <2>6 DEF SensorIsInTime
    <2> QED
      BY <2>6, <2>11, <2>12 DEF FrameInv, FirstWait, LaterWait, FrameIsReceived
  <1>5. CASE dt >= left
    <2>1. /\ phase' = pulse + 2
          /\ left' > MaxLoopUs /\ left' <= MaxPulseUs
          /\ IF IsBit(phase')
             THEN \E bit \in {0, 1} :
                     /\ sent' = Shifted(sent, phase, bit)
                     /\ bit = 1 => left' - MaxLoopUs > ThresholdUs
                     /\ bit = 0 => left' + MaxLoopUs - 2 <= ThresholdUs
             ELSE sent' = sent
      BY <1>2, <1>3, <1>5, SensorTurns
    <2>2. high # Wanted
      BY <1>2, <2>1, NextIsOther DEF Wanted
    <2>3. Measured
      BY <2>2 DEF Measure
    <2>4. /\ pulse' = pulse + 1
          /\ pc' = IF pulse' = Pulses THEN "exit" ELSE "find"
          /\ last_error' = "NONE"
      BY <1>1, <2>3 DEF Measured
    <2>5. CASE pulse % 2 = 1
      <3>1. ~IsBit(phase')
        BY <1>2, <2>1, <2>5, NextIsOther DEF IsBit
      <3>2. data' = IF pulse > 1
                    THEN Shifted(data, pulse,
                           IF SincePulse + dt > ThresholdUs THEN 1 ELSE 0)
                    ELSE data
        BY <1>2, <2>3, <2>5 DEF Measured, Wanted
      <3>3. pulse > 1 => sent = Shifted(data, pulse,
                           IF SincePulse + dt > ThresholdUs THEN 1 ELSE 0)
        BY <1>2, <1>3, <1>5, <2>5, BitIsRecognised
      <3>4. ~(pulse > 1) => data = sent
        BY <1>3 DEF Carries
      <3>5. data' = sent'
        BY <2>1, <3>1, <3>2, <3>3, <3>4
      <3>6. pulse' % 2 # 1
        BY <1>2, <2>4, <2>5, NextIsOther
      <3>7. Carries(left - MaxLoopUs, left - 1)'
        BY <3>5, <3>6 DEF Carries
      <3>8. LaterWait'
        BY <1>2, <2>1, <2>4, <3>7 DEF LaterWait
      <3>9. FrameIsReceived'
        BY <2>4, <3>5 DEF FrameIsReceived
      <3>10. SensorIsInTime'
        BY <1>1, <1>2, <2>1, <2>4, Constants DEF SensorIsInTime
      <3> QED
        BY <1>2, <2>4, <3>8, <3>9, <3>10 DEF FrameInv, FirstWait, Measuring
    <2>6. CASE pulse % 2 # 1
      <3>1. data = sent /\ data' = data
        BY <1>3, <2>3, <2>6 DEF Carries, Measured, Wanted
      <3>2. pulse' # Pulses /\ pulse' < Pulses
        BY <1>1, <2>4, <2>6, Constants, NextIsOther
      <3>3. IsBit(phase') <=> pulse' > 1
        <4>1. HighIn(phase')
          BY <1>2, <2>1, <2>6, NextIsOther DEF HighIn
        <4>2. phase' > 3 <=> pulse' > 1
          BY <1>2, <2>1, <2>4, <2>6
        <4>3. phase' < LastPhase
          BY <1>2, <2>1, <2>4, <3>2, Constants DEF LastPhase
        <4> QED
          BY <4>1, <4>2, <4>3 DEF IsBit
      <3>4. Carries(left - MaxLoopUs, left - 1)'
        <4>1. PICK l \in Int : left' = l
          BY <1>1, SensorType DEF DhtInv
        <4>2. CASE pulse' > 1
          <5>1. PICK bit \in {0, 1} :
                   /\ sent' = Shifted(sent, phase, bit)
                   /\ bit = 1 => l - MaxLoopUs > ThresholdUs
                   /\ bit = 0 => (l - 1) + MaxLoopUs - 1 <= ThresholdUs
            BY <2>1, <3>3, <4>1, <4>2, Constants
          <5>2. sent' = Shifted(data', pulse', bit)
            BY <1>3, <2>4, <3>1, <5>1
          <5>3. /\ bit = 1 => left' - MaxLoopUs > ThresholdUs
                /\ bit = 0 => (left' - 1) + MaxLoopUs - 1 <= ThresholdUs
            BY <4>1, <5>1
          <5>4. pulse' > 1 /\ pulse' % 2 = 1
            BY <1>2, <2>4, <2>6, <4>2, NextIsOther
          <5> QED
            BY <5>1, <5>2, <5>3, <5>4, Zenon DEF Carries
        <4>3. CASE ~(pulse' > 1)
          BY <2>1, <3>1, <3>3, <4>3 DEF Carries
        <4> QED
          BY <4>2, <4>3
      <3>5. LaterWait'
        BY <1>2, <2>1, <2>4, <3>4 DEF LaterWait
      <3>6. SensorIsInTime'
        BY <1>1, <1>2, <2>1, <2>4, Constants DEF SensorIsInTime
      <3> QED
        BY <1>2, <2>4, <3>2, <3>5, <3>6
           DEF FrameInv, FirstWait, Measuring, FrameIsReceived
    <2> QED
      BY <2>5, <2>6
  <1> QED
    BY <1>2, <1>4, <1>5

LEMMA StepKeepsFrame == DhtInv /\ LimitInv /\ FrameInv /\ [Next]_vars => FrameInv'
  <1> SUFFICES ASSUME DhtInv, LimitInv, FrameInv, [Next]_vars PROVE FrameInv'
    OBVIOUS
  <1>1. CASE Break
    BY <1>1, Zenon DEF Break, FrameInv
  <1>2. CASE Freeze
    BY <1>2, Zenon DEF Freeze, FrameInv
  <1>3. CASE NotReady \/ Begin \/ Return
    <2>1. pc' \in {"idle", "start"}
      BY <1>3 DEF NotReady, Begin, Return, EndsCall, driver
    <2> QED
      BY <2>1 DEF FrameInv, SensorIsInTime, FirstWait, LaterWait, Measuring,
                  FrameIsReceived
  <1>4. CASE Release
    <2>1. /\ pc' = "pull" /\ data' = data /\ offFor' = offFor /\ guard' = guard
      BY <1>4 DEF Release
    <2>2. data = Zeros /\ offFor = 0 /\ guard = 0
      BY <1>4 DEF Release, DhtInv
    <2>3. CASE broken
      <3>1. broken'
        BY <1>4, <2>3 DEF Release, wire
      <3> QED
        BY <3>1, Zenon DEF FrameInv
    <2>4. CASE ~broken
      <3>1. PICK w \in WaitUs : left' = w
        BY <1>4, <2>4 DEF Release
      <3>2. phase' = 0 /\ sent' = Zeros
        BY <1>4, <2>4 DEF Release
      <3>3. w \in Nat /\ 1 <= w /\ w <= MaxPulseUs /\ MaxPulseUs \in Nat
        BY SensorAssumption
      <3>4. 0 + w = w /\ MaxPulseUs * (0 + 1) = MaxPulseUs
        BY <3>3
      <3>5. FirstWait'
        BY <2>1, <2>2, <3>1, <3>2, <3>4 DEF FirstWait
      <3>6. SensorIsInTime'
        BY <2>1, <2>2, <3>1, <3>2, <3>3, <3>4, Constants DEF SensorIsInTime
      <3> QED
        BY <2>1, <3>5, <3>6
           DEF FrameInv, LaterWait, Measuring, FrameIsReceived
    <2> QED
      BY <2>3, <2>4
  <1>5. ASSUME NEW dt \in LoopUs, NEW high \in BOOLEAN,
               Pull(dt) \/ Find(dt, high) \/ Measure(dt, high)
        PROVE  FrameInv'
    <2>1. broken' = broken /\ frozen' = frozen
      BY <1>5 DEF Pull, Find, Measure, Reads, Passes
    <2>2. CASE broken \/ frozen
      BY <2>1, <2>2, Zenon DEF FrameInv
    <2>3. CASE ~broken /\ ~frozen
      BY <1>5, <2>3, PullKeepsFrame, FindKeepsFrame, MeasureKeepsFrame
    <2> QED
      BY <2>2, <2>3
  <1>6. CASE UNCHANGED vars
    BY <1>6 DEF vars, wire, timer, driver, FrameInv, SensorIsInTime, FirstWait,
                LaterWait, Measuring, FrameIsReceived, Carries, SincePulse
  <1> QED
    BY <1>1, <1>2, <1>3, <1>4, <1>5, <1>6 DEF Next

(* FrameIsReceived in every reachable state: the driver gives back the     *)
(* frame of a sensor and a timer that worked, for every length of the      *)
(* sensor's pulses and of the loop's turns within the assumptions.         *)
THEOREM WorkingFrameReceived == Spec => []FrameIsReceived
  <1>1. Init => LimitInv /\ FrameInv
    BY DEF Init, LimitInv, TurnLimit, CounterIsTrue, Driving, FrameInv,
           SensorIsInTime, FirstWait, LaterWait, Measuring, FrameIsReceived
  <1>2. DhtInv /\ LimitInv /\ [Next]_vars => LimitInv'
    BY StepKeepsLimits
  <1>3. DhtInv /\ LimitInv /\ FrameInv /\ [Next]_vars => FrameInv'
    BY StepKeepsFrame
  <1>4. FrameInv => FrameIsReceived
    BY Zenon DEF FrameInv, FrameIsReceived
  <1> QED
    BY DriverInvariant, <1>1, <1>2, <1>3, <1>4, PTL DEF Spec

-----------------------------------------------------------------------------
(* Each step of the driver is one of the contract's, or none of them.      *)
LEMMA ReturnKeepsContract ==
    ASSUME DhtInv, FrameIsReceived, Return
    PROVE  Contract!Succeeds \/ Contract!Fails
  <1>1. /\ pc = "exit" /\ pc' = "idle" /\ broken' = broken /\ frozen' = frozen
        /\ sent' = Zeros
    BY DEF Return, EndsCall, timer
  <1>2. data \in Bytes /\ last_error \in DhtErrorCode
    BY DEF DhtInv, TypeOK
  <1>3. sent' \in Bytes
    BY <1>1, ZerosType
  <1>4. CASE last_error = "NONE" /\ Checksum(data)
    <2>1. out' = Decode(data) /\ DhtLastError' = "NONE"
      BY <1>4 DEF Return
    <2>2. ~broken /\ ~frozen => data = sent
      BY <1>1, Zenon DEF FrameIsReceived
    <2>3. [bytes \in Bytes |-> Decode(bytes)][data] = Decode(data)
      BY <1>2
    <2> QED
      BY <1>1, <1>2, <1>3, <1>4, <2>1, <2>2, <2>3 DEF Contract!Succeeds
  <1>5. CASE ~(last_error = "NONE" /\ Checksum(data))
    <2>1. /\ out' = out
          /\ DhtLastError' = IF last_error = "NONE" THEN "CHECKSUM" ELSE last_error
      BY <1>5 DEF Return
    <2>2. DhtLastError' \in DhtErrorCode \ {"NONE"}
      BY <1>2, <2>1 DEF DhtErrorCode
    <2>3. ~broken /\ ~frozen => ~Checksum(sent)
      BY <1>1, <1>5 DEF FrameIsReceived
    <2> QED
      BY <1>1, <1>3, <2>1, <2>2, <2>3 DEF Contract!Fails
  <1> QED
    BY <1>4, <1>5

LEMMA BusyStepProceeds ==
    ASSUME DhtInv, DhtInv', pc # "idle", pc' # "idle", out' = out,
           DhtLastError' = DhtLastError, broken => broken', frozen => frozen'
    PROVE  Contract!Proceeds
  BY DEF Contract!Proceeds, DhtInv, TypeOK

LEMMA StepKeepsContract ==
    ASSUME DhtInv, DhtInv', FrameIsReceived, [Next]_vars
    PROVE  [Contract!Next]_(Contract!vars)
  <1> SUFFICES Contract!Next \/ UNCHANGED <<pc, out, DhtLastError, broken, frozen, sent>>
    BY DEF Contract!vars
  <1>1. CASE Break
    <2>1. pc # "idle" /\ pc' = pc /\ out' = out /\ DhtLastError' = DhtLastError
          /\ broken' /\ frozen' = frozen
      BY <1>1 DEF Break, driver, result, timer
    <2> QED
      BY <2>1, BusyStepProceeds DEF Contract!Next
  <1>2. CASE Freeze
    <2>1. pc' = pc /\ out' = out /\ DhtLastError' = DhtLastError
          /\ broken' = broken /\ frozen' /\ sent' = sent
      BY <1>2 DEF Freeze, driver, result, wire
    <2>2. CASE pc = "idle"
      BY <2>1, <2>2 DEF Contract!Next, Contract!BreaksInBetween
    <2>3. CASE pc # "idle"
      BY <2>1, <2>3, BusyStepProceeds DEF Contract!Next
    <2> QED
      BY <2>2, <2>3
  <1>3. CASE NotReady
    <2>1. /\ pc = "idle" /\ pc' = "idle" /\ DhtLastError' = "TIMER_NOT_READY"
          /\ out' = Unwritten
          /\ broken' = broken /\ frozen' = frozen /\ sent' = sent
      BY <1>3 DEF NotReady, wire, timer, driver
    <2> QED
      BY <2>1 DEF Contract!Next, Contract!NotReady, DhtErrorCode
  <1>4. CASE Begin
    <2>1. /\ pc = "idle" /\ pc' = "start" /\ DhtLastError' = "NONE"
          /\ out' = Unwritten
      BY <1>4 DEF Begin
    <2>2. sent' \in Bytes
      BY DEF DhtInv, TypeOK
    <2> QED
      BY <2>1, <2>2 DEF Contract!Next, Contract!Call
  <1>5. CASE Release
    <2>1. /\ pc = "start" /\ pc' = "pull" /\ out' = out
          /\ DhtLastError' = DhtLastError
          /\ (broken => broken') /\ (frozen => frozen')
      BY <1>5 DEF Release, wire, timer
    <2> QED
      BY <2>1, BusyStepProceeds DEF Contract!Next
  <1>6. ASSUME NEW dt \in LoopUs, NEW high \in BOOLEAN,
               Pull(dt) \/ Find(dt, high) \/ Measure(dt, high)
        PROVE  Contract!Next
    <2>1. /\ pc # "idle" /\ pc' # "idle" /\ out' = out
          /\ DhtLastError' = DhtLastError
      BY <1>6 DEF Pull, Find, Measure, Found, Measured, GivesUp, TurnsOn, result
    <2>2. broken' = broken /\ frozen' = frozen
      BY <1>6 DEF Pull, Find, Measure, Reads, Passes
    <2> QED
      BY <2>1, <2>2, BusyStepProceeds DEF Contract!Next
  <1>7. CASE Return
    BY <1>7, ReturnKeepsContract DEF Contract!Next
  <1>8. CASE UNCHANGED vars
    BY <1>8 DEF vars, wire, timer, driver, result
  <1> QED
    BY <1>1, <1>2, <1>3, <1>4, <1>5, <1>6, <1>7, <1>8 DEF Next

(* DhtRead keeps its contract, with whatever the wire and the timer do.    *)
THEOREM ReadKeepsContract == Spec => ImplementsContract
  <1>1. Init => Contract!Init
    BY ZerosType, Zenon DEF Init, Contract!Init
  <1>2. DhtInv /\ DhtInv' /\ FrameIsReceived /\ [Next]_vars
            => [Contract!Next]_(Contract!vars)
    BY StepKeepsContract
  <1> QED
    BY DriverInvariant, WorkingFrameReceived, <1>1, <1>2, PTL
       DEF Spec, ImplementsContract, Contract!Spec
=============================================================================
