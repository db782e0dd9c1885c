------------------------------- MODULE Dht22 -------------------------------
(***************************************************************************)
(* DhtRead against a DHT22 on one wire.  The driver polls the level in two *)
(* nested waits of DhtMeasurePulse, with interrupts off and three limits   *)
(* on every wait; the sensor answers the start pulse with a frame of five  *)
(* bytes, each bit a low of fixed length and a high whose length is the    *)
(* value.                                                                  *)
(*                                                                         *)
(* One step is one turn of a polling loop: it takes some of LoopUs, reads  *)
(* the level and tests the limits.  The wire may break, which makes every  *)
(* later level arbitrary, and the timer may stop.                          *)
(***************************************************************************)
EXTENDS Integers

CONSTANTS
    ByteBits, ByteMod,     \* 8 and 256
    LoopUs, MaxLoopUs,     \* one turn of a polling loop
    UsMod,                 \* the microsecond counter counts modulo this
    UsStarts,              \* where it may stand when the start pulse is over
    PullUs,                \* APP_DHT22_PULL_US
    ThresholdUs,           \* APP_DHT_BIT_ONE_THRESHOLD_US
    PulseTimeoutUs,        \* APP_DHT_PULSE_TIMEOUT_US
    ReadTimeoutUs,         \* APP_DHT_READ_TIMEOUT_US
    LoopGuard,             \* APP_DHT_LOOP_GUARD
    BusyGuard,             \* APP_BUSY_WAIT_GUARD
    WaitUs, RespUs, LowUs, ZeroUs, OneUs,  \* the sensor's pulses
    MaxPulseUs,            \* ... are no longer than this
    FreezeIn               \* the timer may stop in these places of the driver

ASSUME DhtAssumption ==
    /\ ByteBits \in Nat \ {0} /\ ByteMod \in Nat \ {0}
    /\ MaxLoopUs \in Nat \ {0} /\ LoopUs \subseteq 1 .. MaxLoopUs
    /\ UsMod \in Nat \ {0} /\ UsStarts \subseteq 0 .. UsMod - 1
    /\ PullUs \in Nat \ {0} /\ ThresholdUs \in Nat
    /\ PulseTimeoutUs \in Nat /\ ReadTimeoutUs \in Nat
    /\ PullUs + MaxLoopUs < ReadTimeoutUs
    /\ ReadTimeoutUs + MaxLoopUs * (20 * ByteBits + 6) < UsMod
    /\ LoopGuard \in Nat \ {0} /\ BusyGuard \in Nat \ {0}

(* The sensor's pulses are long enough for two turns of the loop and short *)
(* enough for the limits; the threshold lies between the two values.       *)
ASSUME SensorAssumption ==
    /\ MaxPulseUs \in Nat
    /\ \A d \in WaitUs : d \in 1 .. MaxPulseUs
    /\ \A d \in RespUs \cup LowUs \cup ZeroUs \cup OneUs :
        d \in 2 * MaxLoopUs .. MaxPulseUs
    /\ MaxPulseUs < PulseTimeoutUs /\ MaxPulseUs < LoopGuard
    /\ MaxPulseUs * (10 * ByteBits + 5) < ReadTimeoutUs
    /\ \A w \in WaitUs, r \in RespUs : PullUs + 2 * MaxLoopUs <= w + r
    /\ \A d \in ZeroUs : d + MaxLoopUs - 2 <= ThresholdUs
    /\ \A d \in OneUs : d - 2 * MaxLoopUs >= ThresholdUs

VARIABLES
    phase,                 \* of the sensor's answer; the wire is high in even ones
    left,                  \* ... and this long it lasts
    sent,                  \* the bytes the sensor has sent so far
    broken

VARIABLES us, frozen, UsTimerReady

VARIABLES
    pc,                    \* "idle", "start", "pull", "find", "measure", "exit"
    pulse,                 \* calls of DhtMeasurePulse that are over
    guard, pulse_start_us, deadline_start_us,
    data, last_error

VARIABLES
    DhtLastError,          \* "NONE" until this call stores it: an earlier call's is forgotten
    DhtStageValue,
    out                    \* *temperature_c and *humidity_pct

VARIABLE offFor            \* history: interrupts have been off this long

wire   == <<phase, left, sent, broken>>
timer  == <<us, frozen, UsTimerReady>>
driver == <<pc, pulse, guard, pulse_start_us, deadline_start_us, data, last_error>>
result == <<DhtLastError, DhtStageValue, out>>
vars   == <<wire, timer, driver, result, offFor>>

Bytes  == [0 .. 4 -> 0 .. ByteMod - 1]
Zeros  == [i \in 0 .. 4 |-> 0]
Pulses == 2 + 10 * ByteBits

DhtErrorCode == {"NONE", "TIMER_NOT_READY", "RESPONSE_LOW_TIMEOUT",
                 "RESPONSE_HIGH_TIMEOUT", "DATA_LOW_TIMEOUT",
                 "DATA_HIGH_TIMEOUT", "CHECKSUM"}
DhtStage == {"IDLE", "ENTER", "CRITICAL_ENTER", "RESP_LOW", "RESP_HIGH",
             "DATA_DONE", "CRITICAL_EXIT", "DONE"}

(* Pulse 0 and 1 are the sensor's response, then a bit is two pulses.      *)
BitOf(p)  == (p - 2) \div 2
ByteOf(p) == BitOf(p) \div ByteBits
Shifted(bytes, p, bit) ==
    [bytes EXCEPT ![ByteOf(p)] = (2 * @ + bit) % ByteMod]

-----------------------------------------------------------------------------
(* The frame                                                               *)

Checksum(bytes) ==
    (bytes[0] + bytes[1] + bytes[2] + bytes[3]) % ByteMod = bytes[4]

(* Tenths; the first bit of the temperature is its sign.                   *)
Decode(bytes) ==
    LET raw  == bytes[2] * ByteMod + bytes[3]
        half == (ByteMod * ByteMod) \div 2
    IN  [humidity    |-> bytes[0] * ByteMod + bytes[1],
         negative    |-> raw >= half,
         temperature |-> raw % half]

Unwritten == [humidity |-> -1, negative |-> FALSE, temperature |-> -1]

-----------------------------------------------------------------------------
(* The sensor                                                              *)

LastPhase == Pulses + 2
HighIn(p) == p % 2 = 0
IsBit(p)  == p > 3 /\ p < LastPhase /\ HighIn(p)

Duration(p) == IF p = 0 THEN WaitUs
               ELSE IF p <= 2 THEN RespUs
               ELSE LowUs

(* The next phase begins, over was already spent of it.                    *)
NextPhase(over) ==
    /\ phase' = phase + 1
    /\ IF IsBit(phase + 1)
       THEN \E bit \in {0, 1} :
                /\ sent' = Shifted(sent, phase, bit)
                /\ \E d \in IF bit = 1 THEN OneUs ELSE ZeroUs : left' = d - over
       ELSE /\ sent' = sent
            /\ \E d \in Duration(phase + 1) : left' = d - over

SensorRuns(dt) ==
    \/ phase = LastPhase /\ UNCHANGED <<phase, left, sent>>
    \/ phase # LastPhase /\ dt < left /\ left' = left - dt
                         /\ UNCHANGED <<phase, sent>>
    \/ phase # LastPhase /\ dt >= left /\ NextPhase(dt - left)

(* dt passes, then the level of the wire is read.                          *)
Passes(dt) ==
    /\ us' = IF frozen THEN us ELSE (us + dt) % UsMod
    /\ offFor' = offFor + dt
    /\ UNCHANGED <<frozen, UsTimerReady, broken>>

Reads(dt, high) ==
    /\ Passes(dt)
    /\ IF broken THEN UNCHANGED <<phase, left, sent>>
                 ELSE SensorRuns(dt) /\ high = HighIn(phase')

Break ==
    /\ pc # "idle" /\ ~broken /\ broken' = TRUE
    /\ sent' = Zeros /\ phase' = 0 /\ left' = 0
    /\ UNCHANGED <<timer, driver, result, offFor>>

Freeze ==
    /\ pc \in FreezeIn /\ ~frozen /\ frozen' = TRUE
    /\ UNCHANGED <<us, UsTimerReady, wire, driver, result, offFor>>

-----------------------------------------------------------------------------
(* The driver                                                              *)

(* A slip: no regard to the wrap-around. *)
TimerElapsedUsUnwrapped(start) == IF us' >= start THEN us' - start ELSE 0

TimerElapsedUs(start) == (us' - start) % UsMod

NotReady ==
    /\ pc = "idle" /\ ~UsTimerReady
    /\ DhtLastError' = "TIMER_NOT_READY"
    /\ out' = Unwritten
    /\ UNCHANGED <<wire, timer, driver, DhtStageValue, offFor>>

Begin ==
    /\ pc = "idle" /\ UsTimerReady
    /\ pc' = "start"
    /\ DhtStageValue' = "ENTER"
    /\ data' = Zeros /\ last_error' = "NONE"
    /\ out' = Unwritten
    /\ DhtLastError' = "NONE"
    /\ broken' = FALSE          \* the wire may have been mended
    /\ us' \in IF frozen THEN {us} ELSE UsStarts
    /\ UNCHANGED <<phase, left, sent, frozen, UsTimerReady, pulse, guard,
                   pulse_start_us, deadline_start_us, offFor>>

(* The start pulse is over, the wire is released with interrupts off; the  *)
(* stage START_PULSE is over as soon as it is set.                         *)
Release ==
    /\ pc = "start"
    /\ pc' = "pull"
    /\ DhtStageValue' = "CRITICAL_ENTER"
    /\ deadline_start_us' = us
    /\ IF broken THEN UNCHANGED wire
       ELSE /\ phase' = 0 /\ left' \in WaitUs
            /\ sent' = Zeros /\ broken' = FALSE
    /\ UNCHANGED <<timer, pulse, guard, pulse_start_us, data, last_error,
                   DhtLastError, out, offFor>>

(* Board_DelayUs(APP_DHT22_PULL_US); the level is not looked at.           *)
Pull(dt) ==
    /\ pc = "pull"
    /\ \E high \in BOOLEAN : Reads(dt, high)
    /\ IF TimerElapsedUs(deadline_start_us) >= PullUs \/ guard + 1 >= BusyGuard
       THEN pc' = "find" /\ guard' = 0
       ELSE pc' = pc /\ guard' = guard + 1
    /\ UNCHANGED <<pulse, pulse_start_us, deadline_start_us, data, last_error, result>>

Wanted == pulse % 2 = 1

(* A slip: each pulse has its limits, the measurement as a whole has none. *)
DeadlineIsNever == FALSE

DeadlinePassed == TimerElapsedUs(deadline_start_us) >= ReadTimeoutUs

TurnsUsed == guard + 1 >= LoopGuard

(* A slip: the break leaves the loop over the bits only. *)
GivesUpTheByte ==
    /\ pc' = IF pulse > 1 /\ pulse + 1 < Pulses THEN "find" ELSE "exit"
    /\ pulse' = IF pc' = "find" THEN pulse + 1 ELSE pulse
    /\ guard' = 0
    /\ last_error' = "DATA_LOW_TIMEOUT"
    /\ UNCHANGED <<pulse_start_us, data, DhtStageValue>>

GivesUp ==
    /\ pc' = "exit"
    /\ last_error' = CASE pulse = 0     -> "RESPONSE_LOW_TIMEOUT"
                       [] pulse = 1     -> "RESPONSE_HIGH_TIMEOUT"
                       [] pulse % 2 = 0 -> "DATA_LOW_TIMEOUT"
                       [] OTHER         -> "DATA_HIGH_TIMEOUT"
    /\ UNCHANGED <<pulse, guard, pulse_start_us, data, DhtStageValue>>

TurnsOn == /\ guard' = guard + 1
           /\ UNCHANGED <<pc, pulse, pulse_start_us, data, last_error, DhtStageValue>>

Found ==
    /\ pc' = "measure"
    /\ pulse_start_us' = us'
    /\ guard' = 0
    /\ UNCHANGED <<pulse, data, last_error, DhtStageValue>>

Find(dt, high) ==
    /\ pc = "find"
    /\ Reads(dt, high)
    /\ IF high = Wanted THEN Found
       ELSE IF DeadlinePassed \/ TurnsUsed THEN GivesUp
       ELSE TurnsOn
    /\ UNCHANGED <<deadline_start_us, DhtLastError, out>>

(* DhtMeasurePulse returns true.                                           *)
Measured ==
    LET duration == TimerElapsedUs(pulse_start_us)
        bit      == IF duration > ThresholdUs THEN 1 ELSE 0
    IN  /\ pulse' = pulse + 1
        /\ guard' = 0
        /\ pc' = IF pulse' = Pulses THEN "exit" ELSE "find"
        /\ data' = IF pulse > 1 /\ Wanted THEN Shifted(data, pulse, bit) ELSE data
        /\ DhtStageValue' = CASE pulse = 0       -> "RESP_LOW"
                              [] pulse = 1       -> "RESP_HIGH"
                              [] pulse' = Pulses -> "DATA_DONE"
                              [] OTHER           -> DhtStageValue
        /\ UNCHANGED <<pulse_start_us, last_error>>

Measure(dt, high) ==
    /\ pc = "measure"
    /\ Reads(dt, high)
    /\ IF high # Wanted THEN Measured
       ELSE IF \/ DeadlinePassed
               \/ TimerElapsedUs(pulse_start_us) >= PulseTimeoutUs
               \/ TurnsUsed
            THEN GivesUp
       ELSE TurnsOn
    /\ UNCHANGED <<deadline_start_us, DhtLastError, out>>

(* The locals are out of scope, the sensor is at rest.                     *)
EndsCall ==
    /\ pc' = "idle"
    /\ pulse' = 0 /\ guard' = 0 /\ pulse_start_us' = 0 /\ deadline_start_us' = 0
    /\ data' = Zeros /\ last_error' = "NONE" /\ offFor' = 0
    /\ phase' = 0 /\ left' = 0 /\ sent' = Zeros /\ broken' = broken
    /\ UNCHANGED timer

(* A slip: only a timeout is an error. *)
ReturnWithoutChecksum ==
    /\ pc = "exit"
    /\ DhtLastError' = last_error
    /\ out' = IF last_error = "NONE" THEN Decode(data) ELSE out
    /\ DhtStageValue' = IF last_error = "NONE" THEN "DONE" ELSE "CRITICAL_EXIT"
    /\ EndsCall

(* Interrupts are enabled, then the checksum is tested.                    *)
Return ==
    /\ pc = "exit"
    /\ IF last_error = "NONE" /\ Checksum(data)
       THEN /\ out' = Decode(data)
            /\ DhtLastError' = "NONE"
            /\ DhtStageValue' = "DONE"
       ELSE /\ out' = out
            /\ DhtLastError' = IF last_error = "NONE" THEN "CHECKSUM" ELSE last_error
            /\ DhtStageValue' = "CRITICAL_EXIT"
    /\ EndsCall

Init ==
    /\ phase = 0 /\ left = 0 /\ sent = Zeros /\ broken = FALSE
    /\ us = 0 /\ frozen = FALSE /\ UsTimerReady \in BOOLEAN
    /\ pc = "idle" /\ pulse = 0 /\ guard = 0
    /\ pulse_start_us = 0 /\ deadline_start_us = 0
    /\ data = Zeros /\ last_error = "NONE"
    /\ DhtLastError = "NONE" /\ DhtStageValue = "IDLE" /\ out = Unwritten
    /\ offFor = 0

Next ==
    \/ Break \/ Freeze
    \/ NotReady \/ Begin \/ Release
    \/ \E dt \in LoopUs : Pull(dt)
    \/ \E dt \in LoopUs, high \in BOOLEAN : Find(dt, high) \/ Measure(dt, high)
    \/ Return

Spec == Init /\ [][Next]_vars

-----------------------------------------------------------------------------
TypeOK ==
    /\ phase \in 0 .. LastPhase /\ left \in Int
    /\ sent \in Bytes /\ broken \in BOOLEAN
    /\ us \in 0 .. UsMod - 1 /\ frozen \in BOOLEAN /\ UsTimerReady \in BOOLEAN
    /\ pc \in {"idle", "start", "pull", "find", "measure", "exit"}
    /\ pulse \in 0 .. Pulses /\ guard \in Nat
    /\ pulse_start_us \in 0 .. UsMod - 1
    /\ deadline_start_us \in 0 .. UsMod - 1
    /\ data \in Bytes /\ last_error \in DhtErrorCode
    /\ DhtLastError \in DhtErrorCode /\ DhtStageValue \in DhtStage
    /\ offFor \in Nat

(* Where the driver stands and what it has noted so far fit together:      *)
(* only the end of the call brings an error or a reading, and a wait that  *)
(* failed ends the call at once.                                           *)
DhtInv ==
    /\ TypeOK
    /\ pc \in {"idle", "start"} => guard = 0 /\ offFor = 0
    /\ pc \in {"idle", "start", "pull"} => pulse = 0 /\ data = Zeros
    /\ pc \in {"find", "measure"} => pulse < Pulses
    /\ last_error # "NONE" => pc = "exit"
    /\ pc = "exit" /\ last_error = "NONE" => pulse = Pulses
    /\ pc # "idle" => out = Unwritten /\ DhtLastError = "NONE"

(* A wire and a timer that work through the call give the frame the sensor *)
(* sent, bit for bit, wherever the counter stands and however the polling  *)
(* falls between the edges.                                                *)
FrameIsReceived ==
    pc = "exit" /\ ~broken /\ ~frozen => last_error = "NONE" /\ data = sent

Waits == 2 * pulse + (IF pc \in {"pull", "find"} THEN 0 ELSE 1)

(* Interrupts, and with them the tick of the system, are off no longer     *)
(* than the deadline and a turn for every wait; with a timer that stops    *)
(* the turns of the loops are the limit.                                   *)
IrqsOffAreBounded ==
    /\ ~frozen => offFor < ReadTimeoutUs + MaxLoopUs * (Waits + 1)
    /\ offFor <= MaxLoopUs * (BusyGuard + LoopGuard * (Waits + 1))

Contract == INSTANCE DhtContract WITH
    Frames <- Bytes,
    Fitting <- {bytes \in Bytes : Checksum(bytes)},
    Reading <- [bytes \in Bytes |-> Decode(bytes)],
    Errors <- DhtErrorCode \ {"NONE"},
    busy <- pc # "idle", error <- DhtLastError,
    works <- ~broken /\ ~frozen

(* DhtRead keeps its contract: a reading is written only with a checksum   *)
(* that fits and without an error, and by a sensor that works it is the    *)
(* one that was sent.                                                      *)
ImplementsContract == Contract!Spec
=============================================================================
