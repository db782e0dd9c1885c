# Verification of the Smart AC control firmware

TLA+ models of the firmware in this repository (STM32F439ZI, uC/OS-III), the
TLC runs that check them on small instances and the TLAPS proofs that lift the
most important results to every value of the constants. Source lines are given
as `file:line`; every model definition is tied to its lines in `PROJECT.json`
("map").

## 1. The system

| part | state it keeps | operations | talks to |
|---|---|---|---|
| Control state machine (`app_control.c`) | `ControlContext`: power, manual, set-point, last reading, opening time and humidity before it, recovery time, pause latch, state | `Control_Init`, `Control_Step` | called by ControlTask |
| ControlTask (`app_tasks.c:237`) | context, latest sensor message, last output posted | wait for a message or 10 ticks, take the user flags, step, post what changed | SensorQ, flags in; DisplayQ, ActuatorQ out |
| SensorTask (`app_tasks.c:112`) | last window, last validity, time of the last read | every 100 ms: reed switch; every 2500 ms: DHT22; post | reed interrupt, DHT22 driver, SensorQ |
| UserInputTask (`app_tasks.c:195`) | two counting debouncers, B1 level and time | every 10 ms: poll, post flags | UserEventFlags |
| DisplayTask and TM1637 driver (`app_tasks.c:288`, `app_tm1637.c`) | message shown, state shown and since when, ack count | every 100 ms: take at most one message, render, clock out 7 bytes | DisplayQ, the chip |
| ActuatorTask (`app_tasks.c:317`, `app_actuator.c`) | message, end of the buzzer click | every 25 ms: take at most one message, drive three lamps and the buzzer | ActuatorQ, pins |
| Message paths (`app_tasks.c:61-110`) | per queue: ring of 10 slots, slot index, uC/OS-III queue of 8 addresses | write slot, post its address, advance on success | all of the above |
| DHT22 driver (`app_dht22.c`) | last reading, error code, stage, pulse lengths | `DhtRead` (interrupts off up to 20 ms), `Dht_RecordSample`, `Dht_GetDiagnostics` | SensorTask, MonitorTask |
| MonitorTask, logging (`app_monitor.c`) | none of its own | once a second: copy the diagnostics, one line of them | UartMutex, the statics of the DHT22 driver, UART |
| Fault handler (`app_fault.c`) | none | one dump, then an endless loop | UART, without the mutex |
| Start-up (`app.c`, `app_tasks.c:386-427`) | which objects and tasks exist | create queues, mutex, flags, tasks; log what failed | everything |
| Board (`app_board.c`) | pin and timer set-up, edge flags, microsecond timer | clocks, ISRs, delays, UART | hardware |

Priorities, high to low: Monitor 4, Sensor 5, User 6, Control 7, Display 8,
Actuator 9. All models but one allow every interleaving, and their properties
hold without the priorities. `Diagnostics` needs that MonitorTask is above
SensorTask: without it a report could be of a measurement that has been
replaced meanwhile. The priority of the start task is a macro of a file that is
not in the repository and is left open.

Hard behaviours: clocks that wrap (`App_Millis` and the microsecond counter are
32 bits, and all times are differences of them); a sensor that is received by
polling, with interrupts off, and may fall silent anywhere; a line of
diagnostics put together from variables another task is storing one by one;
messages passed by address while the receiver may be preempted in mid-copy; queues that drop; an edge flag set by an interrupt
between two reads; a state machine with several flags cleared in several
places and events that arrive together; a display chip that keeps its supply
when the board is reset in mid-byte. `PROJECT.json` ("hazards") lists each at
its line with the properties that cover it.

## 2. Modules

| module | models | main definitions and the code |
|---|---|---|
| `AcMessages` | `app_messages.h` | states and user events |
| `SinglePrecision` | the float comparison of `app_control.c:86-88` | `FloatRise`: exact mantissas of `(float)t * 0.1f`, one rounded subtraction |
| `AcControl` | `Control_Step`, as a function | one operator per stage of the C function, composed in its order |
| `AcPolicy` | the README's state table, abstractly | which mode may follow which, given the window |
| `ControlFsm` | `Control_Step` in the loop of ControlTask | `StepOnMessage`, `StepOnTimeout`; history variables are stopwatches and a notebook that never steer |
| `MCControlFsm` | instances for TLC | |
| `ControlProofs` | theorems on `ControlFsm` | |
| `LossyFifo` | what a message path promises | a message that is offered is accepted, handed over, or lost if the queue is full (`Accept`, `HandOver`, `Lose`) |
| `SlotQueue` | ring of slots, queue of addresses, OSQPost/OSQPend | writing and copying are two steps each, so a slot can be torn |
| `UserInput` | UserInputTask and the flag group | `Poll`, `TakeFlags`; pins show any level at any poll |
| `UserInputProofs` | theorems on `UserInput` | |
| `SensorTask` | SensorTask, reed switch, EXTI, SensorQ | an iteration is cut where others can come between; DhtRead by its two outcomes |
| `SensorTaskProofs` | theorems on `SensorTask` | |
| `DhtContract` | what DhtRead promises to SensorTask | `Call`, `Succeeds`, `Fails` |
| `Dht22` | `DhtRead`, `DhtMeasurePulse`, the sensor (external) | one step is one turn of a polling loop: `Pull`, `Find`, `Measure`; `Break` and `Freeze` are a broken wire and a stopped timer |
| `Dht22Proofs` | theorems on `Dht22` | |
| `Diagnostics` | MonitorTask, logging, the stores of the DHT22 driver one by one, start task, fault handler, UART | `Pend`, `WritePiece`, `Post` for all writers; `Start`, `Sensor`, `Monitor`, `App_Fault_ISR` |
| `DiagnosticsProofs` | theorems on `Diagnostics` | |
| `OutputPath` | publishing half of ControlTask, both output queues, the periods of the tasks | `ControlStep`, `DisplayStep`, `ActuatorStep`, `Tick` |
| `Actuator` | ActuatorTask, `Actuator_SetOutputs` | `TakeMessage`, `QueueEmpty` |
| `ActuatorProofs` | theorems on `Actuator` | |
| `Display` | DisplayTask's message, `Tm1637_BuildSegments` | `BuildSegments` is its switch, segments are the bytes of the code |
| `Tm1637Bus` | `Tm1637_SetSegments` on two wires; the chip (external) | `Script` is the list of the driver's pin operations, one step (`NextOperation`) is one of them; `Reset` cuts it anywhere, and `Board_InitGpio`, the pulse on both wires while the board boots, comes before the first call |
| `Panel`, `MCPanel` | `Display` and `Tm1637Bus` composed | `Iterate`, `Transfer`, `Restart` |
| `MessagePathProofs` | theorems on `SlotQueue`, `OutputPath` and `Panel` | |
| `ModularClock` | lemmas on wrapping counters, phases of a period and products | |

Operators introduced as "a slip" are what a plausible mistake in that place
would look like; no specification uses them. Each property of a passing run is
paired with one that breaks it (`PROJECT.json`, "mutants"), so that a property
nothing could violate does not go unnoticed.

External parts, modelled from how the firmware uses them: OSQPost/OSQPend, the
OS tick, OSMutexPend/OSMutexPost, the reed switch, the DHT22, the TM1637 chip.

`SensorTask` sees a measurement as DhtContract states it (an error, or a
reading), `Dht22` shows that the driver keeps that contract, and `Diagnostics`
takes the same call apart at its stores, which only MonitorTask can observe.

## 3. Runs

| run | question | bounds, and why they are enough |
|---|---|---|
| control | cooling, latch, grounds for a pause, policy; pause and recovery take their time | pause 3, recovery 2, clock modulo 6, steps of 1 or 2 units: a step may jump past a deadline and the clock wraps in every phase of a stay; two readings (cool and dry, hot and humid, ten points apart), invalid messages with either reading or with the fields kept from the last one, one set-point at both of its limits, so that a step past one would show, two buttons at once |
| control_baseline, control_stale | findings 1, 2 | smaller: one reading and invalid ones, one step, clock modulo 7 |
| slot_queue | slots, torn copies, lossy FIFO, every accepted message read | depth 3 (5 slots), two messages, blocking receiver; polling is the same without `PendBlocks` |
| user_input | debouncing, press length, flags | 5 samples as in the code; long press 3 units, clock modulo 7; one button, as the two do not interact |
| sensor_task | what ControlTask knows of window and sensor | two readings, so that an old one can be told from the last; queue of 1 (any depth is proved), read period 2, polls 1 or 2 apart (`MaxGapMs`), clock modulo 5: the queue overflows and the clock wraps |
| dht22 | the frame that is received, how long interrupts are off, the contract | the driver's times in units of about 13 us; five bytes of one bit, so that every pulse of the protocol and the checksum occur (12 pulses); a turn of the loop takes 1 or 2; the counter starts so that it wraps in mid-frame; the wire may break anywhere, the timer be stopped before the frame or never started |
| diagnostics | lines, their contents, liveness of the reports, the dump | two readings, two pieces to a line: a line can be cut in the middle and two measurements can be told apart |
| output_path | display and lamps catch up, no click is lost | queues of 4, display period 2 ticks, actuator 1, two sources each at most once in 2 ticks: as many sources, and as often, as `RateAssumption` lets this queue take |
| actuator, actuator_wrap | buzzer and lamps; finding 3 | clock of 26 units, click 3, blink periods 8 and 4: 26 is a multiple of neither, as 2^32 is not of 250 or 1000 |
| panel | what the chip stores, shows and acknowledges; what can be read on four digits | a message of each state, temperatures -10, 9, 100 and none; wait 3, clock modulo 5, so that it wraps in every state; resets between two calls and after the five operations of `MCCutPoints`: in the first command, in the last bit of a digit with CLK low, in an acknowledgement, in a start condition and in the last answer (that a reset after any other operation is no worse is proved) |

The unit of time differs per run; what matters are the ratios above. The frame
of `dht22` is short because TLC visits every way the polling can fall between
the edges; that nothing depends on its length is what `Dht22Proofs` shows.

Deadlock is checked everywhere but in `diagnostics`: the fault handler ends in
an endless loop (`app_fault.c:34`), and the other tasks with it.

History variables saturate at a named bound (`Capped`), so the state spaces are
finite without a bound on the length of a behaviour. The bounds that do limit
behaviours are `LagPolls` in `UserInput` (ControlTask takes the flags within
two polls: its wait is 10 ticks, a poll 10 ms, at a 1 kHz tick), B1 not being
held for a whole turn of the clock, `SourceGap` in `OutputPath` (one source
does not act more often: with N sources `RateAssumption` has N iterations of
ActuatorTask fit into the gap and N + 2 messages into the queue; only
`NoClickIsDropped` needs it, see section 4), `MaxGapMs` in
`SensorTask` (a poll comes no later than a read period) and in `Actuator` (an
iteration is no later than a click is long, nor than half a blink period), and
in `Dht22` `MaxLoopUs` (a turn of a polling loop, interrupts being off) with the
sensor's data-sheet pulses, for a sensor that works. Each is an `ASSUME` of its
module, and the proofs cite it by name.

### Fairness

- `SlotQueue!FairSpec`: the receiver goes on. Every task blocks in each of its
  iterations, so those of lower priority run.
- `SensorTask!FairSpec`: SensorTask and ControlTask come round again; DhtRead
  gives up after 20 ms. Nothing is assumed of the reed switch or its interrupt:
  the window becomes known by the periodic message even if no edge is seen.
- `Diagnostics!FairSpec`: weak fairness for the start task and the fault
  handler; strong fairness for MonitorTask and SensorTask, which are interrupted
  again and again. MonitorTask sleeps for a second after each line
  (`app_tasks.c:369`), which leaves SensorTask time, and a tick that comes
  while interrupts are off is served when they are on again, so a window of
  masked interrupts cannot keep MonitorTask from waking for good. Nothing is
  assumed of the UART: it may be stuck for ever.

## 4. Findings

1. `app_control.c:70-71`: a window reported open before the first valid reading
   gets a humidity baseline that was not measured (0); the first valid reading
   then pauses the cooling. Run control_baseline.
2. `app_control.c:119`: `temperature_valid` never becomes false again, where
   `README.md:115` shows an error for an invalid sensor. Run control_stale.
3. `app_tasks.c:342`: 24.8 days after the last click, or after boot if B1 was
   never pressed (`buzzer_until_ms` is 0 then), the buzzer sounds on its own.
   Run actuator_wrap.

Observed while modelling, not made into a run:

- A humidity rise of exactly 10.0 points is not one in single precision for
  some baselines (`app_control.c:87`); `MCControlFsm` states as an assumption,
  which TLC evaluates, that everywhere else from 9.0 to 11.0 points the
  comparison is the decimal one.
- `last_dht_ms == 0` means "never" (`app_tasks.c:145`), so a measurement begun
  when the clock shows 0 is followed by another one 100 ms later.
  `PeriodIsKeptSinceNonZero` excepts exactly that.
- An output that DisplayQ drops counts as posted (`app_tasks.c:87`, `280`) and
  is not posted again until the output changes; `PostDisplay` has no drop
  counter, unlike its siblings. `OutputsCatchUp` says what holds all the same:
  once a full queue has had time to drain, display and lamps show the last
  output posted unless just that post was dropped.
- `NoClickIsDropped` holds for as long as the buttons, the sensor and the window
  let ActuatorTask keep up: no source twice in the time of as many of its
  iterations as there are sources. For B1 nothing in the code sees to that: it is not
  debounced, so a contact that chatters can click at every other poll, every
  20 ms, while ActuatorTask takes a message every 25 ms, and a chatter as
  long as it takes to fill the queue would lose clicks. That display and lamps
  catch up afterwards is proved without any such assumption.
- MonitorTask can copy the diagnostics between `DhtRead` and
  `Dht_RecordSample`, which waits for the log line of SensorTask: it then
  prints `dht22=1` beside the error of the read that has just failed, or the
  reverse. The code does that, and `LineTellsOneRead` says how far it goes: a
  valid measurement beside an error is shown from the store of the error until
  `Dht_RecordSample` and never after it, and a line whose stage is DONE is of
  one measurement, except that its temperature may still be the previous one.
- `app_board.c:281-290`: while the board boots, CLK and then DIO go low, and high
  again in that order. For the chip, which keeps its supply, that is at the most
  a stop condition; but the falling CLK makes it store a byte that a reset has
  cut in its last bit, if that bit was sent as a one or DIO floated high before
  CLK did: a digit then shows the seven segments that were sent, and the dot
  lit, until the first call puts it right, some milliseconds later. `DigitsAreOldOrNew` excepts
  that and the 64 taken for a digit, both before the end of the first call only.
- Five zero bytes have a checksum that fits. A timer that stops after start-up
  (it is only tested once, `app_tasks.c:390`) measures every pulse as 0 us, and
  the read succeeds with 0.0 degrees and 0.0 %. `FrameIsReceived` and the last
  clause of the contract except a stopped timer for that reason.
- No vector table that would install `App_Fault_ISR` is in the repository; the
  model takes it that the BSP installs it.
- Two presses of B1, manual on and off, skip the recovery wait. `AcPolicy` and
  `RecoveryIsWaited` take a spell of manual operation for the user's
  intervention, after which no wait is owed; neither would call this wrong.
- B1 is not debounced, and its click sounds on release, not on press.
- The seconds shown beside `OP` count from the entry into the state shown, so a
  spell of manual operation restarts them.

## 5. Properties and proofs

Proved with TLAPS, for every value of the constants:

- **Control state machine** (`ControlProofs`), from `ControlAssumption`,
  `NoSensorAssumption` and `FsmAssumption`: a step takes less than the clock's
  turn minus each wait (10 ms against 49 days). `IndInv` is needed because the
  properties speak of stopwatches, the code of time stamps: it says that the
  stamps agree with the stopwatches while they are in use (`StampsMatchStopwatches`),
  that the flags and the state tell the same (`StateMatchesFlags`), that the
  context knows the window of the last message (`UpToDate`) and that the
  baseline was measured (`BaselineIsMeasured`). One lemma per stage of
  `Control_Step` says what it changes, `ControlStepEffect` puts them together,
  and one lemma per part of `IndInv` shows that a call preserves it. The
  modular arithmetic is in `ElapsedAdvances`: the difference to a stamp grows
  with the clock as long as it stays below a turn. From `IndInv` follow
  `LatchIsThePause`, `NoCoolingThroughOpenWindow`, `NoCoolingBeforeReading`,
  `PausedInTime`, `RecoveryIsBounded`, the action properties `RecoveryIsWaited`
  and `PauseIsJustifiedOnceMeasured`, and that `ControlFsm` implements
  `AcPolicy`. `FloatRise` stays closed in all of this: the results hold for any
  comparison.
- **Message path** (`MessagePathProofs`, on `SlotQueue`), for every depth: `SlotInv` says that the
  queue holds the slots just behind the one to be written, in order, and the
  one being read is just behind those; two more slots than the depth make the
  ring long enough. From it: no slot is written while it waits or is copied, no
  copy is torn, and the path implements `LossyFifo`: the message being written
  (`Offered`) waits behind those posted before it, goes to a blocked receiver,
  or is lost, and the last only with as many waiting as the queue holds.
- **Output path** (`MessagePathProofs`, on `OutputPath`), for every depth, set of
  sources and pair of periods: that display and lamps catch up is not
  inductive by itself, as nothing in it says how long the queue is. `CatchUpInv`
  adds that the ticks the backlog still needs and the ticks since the last post
  are together no more than a full queue takes, and that the newest message is
  the last output unless it was dropped. These two make `QueuesInv`, which knows
  nothing of how often the sources act, and from which `OutputsCatchUp` follows.
  `RateInv` adds that from any place of
  ActuatorQ behind the first on there wait no more messages than there are
  sources that have acted lately and must still rest, so that the queue is never
  longer than their number and two. It needs `RateAssumption`, and gives
  `NoClickIsDropped`.
- **Panel** (`MessagePathProofs`, on `Panel`), for every message, clock,
  recovery time and brightness, and a reset after any pin operation:
  `BusInv` says for each kind of part (`Starts`, `Stops`, `Bytes`) at which
  levels the pins are (`LevelsInv`), how far the chip is in the same part
  (`FrameInv`), what it takes the byte for and where it will put it
  (`ContentInv`), and how many answers have been counted (`AckInv`). After a
  reset the chip may be anywhere in a transfer. The pulse of `Board_InitGpio`
  (CLK down, DIO down, CLK up, DIO up) makes the chip take and acknowledge a byte
  of eight bits that was cut, ends an earlier acknowledgement, and gives up everything else by its stop condition.
  That a byte ends in the pulse only with its last bit set is why `FrameInv` has
  `Receives(8) => chip.value >= 128`: behind a 0 the floating DIO rises under a
  high CLK, which is a stop condition of its own. That both lines float high
  while the pins are inputs is what the pull-ups of the module see to, and is
  assumed. After the pulse the one thing that can keep the chip
  from seeing the first start condition is that it holds DIO low itself, and
  then the falling edge of CLK that ends the start ends the acknowledgement,
  so that it takes the 64 that follows as a command or as one digit, and is
  where it should be at the next start. The chip is described by one lemma per
  thing it can see (`SeesStart`, `SeesBit`, `SeesDigit`, ...), the driver by one
  per kind of part, and `StoresOnlyDigits` says what a pin operation may change
  of the chip's memory. From these `OneCallIsEnough`, `DigitsAreOldOrNew`
  and `AckTellsThePlug`.
  The text is a matter of the segments: `TextIs` has what each state puts on the
  four digits, `TellingTells` that the tell-tale segments of two states exclude
  each other, `NumberIsReadAlone` that a pair of digits stands for one number
  only. From these `StateCanBeRead`, `SecondsAreRight` and
  `TemperatureCanBeRead`. The attempt to prove `SecondsAreRight` showed that it
  had been false beyond 99 seconds, where the display stands still and which
  the small instance never reached; it now says that 99 stands for all that is more.
- **User input** (`UserInputProofs`), for every number of samples, long-press
  time and clock: the debouncer counts the present run exactly; one press, one
  event; the length of a press decides. `NoEventMerged` needs `LagAssumption`
  (two polls): `FlagsAreFresh` says that the button of a flag still waiting
  after one poll is down, or B1 up, so that the next poll cannot find the same
  event again.
- **SensorTask** (`SensorTaskProofs`), for every queue depth, read period, poll
  gap and clock: `SensorInv` adds to the types what the task, the message being
  built and the newest message on its way (`Told`) say of the window
  (`WindowInv`) and of the last measurement and the last reading (`MeasureInv`), and that stopwatch
  and time stamp agree unless the stamp is the 0 of "never" (`PeriodInv`). From
  it: `ToldOfTheWindow`, `ToldOfTheMeasurement`, `NoReadIsSkipped`,
  `PeriodIsKeptSinceNonZero`.
- **DHT22 driver** (`Dht22Proofs`), for every frame size, limit, counter and
  speed of the loop: `DhtInv` ties what the driver has noted to where it stands;
  `LimitInv` (the counter shows the time that has passed, the turns are those
  the guards allow) gives `IrqsOffAreBounded`; `FrameInv` says that the driver
  is never more than a turn behind the sensor and that the length still to come
  of a pulse already decides the bit it will be taken for, which gives
  `FrameIsReceived`. From these, that DhtRead implements `DhtContract`.
  `SensorAssumption` is what the protocol needs of the numbers: pulses of at
  least two turns of the loop, a threshold between the two lengths with the
  error of one turn on either side.
- **Diagnostics** (`DiagnosticsProofs`), for every set of readings and number of
  pieces: `DiagInv` (the mutex belongs to the one writer that has begun a line;
  MonitorTask is not active while interrupts are off), from which lines are
  whole and a report is of the last measurement; `StoreOrder`, which follows the
  stores of a measurement one by one up to `Dht_RecordSample`, gives
  `LineTellsOneRead`.
- **Actuator** (`ActuatorProofs`), for every clock, length of a click and blink
  period: `ClickInv` says that time stamp and stopwatch agree until half a turn
  after a click, from which the buzzer is exact for that long (finding 3 is what
  comes after it). `LampInv` says how long a blinking lamp can have shown its
  level at each phase of its period, also in the period that the wrap-around
  of the clock cuts short, from which `LampBlinks`.

Lemmas on wrapping counters are in `ModularClock`.

With TLC only: all liveness (`AcceptedIsRead`, `WindowBecomesKnown`,
`ReportsGoOn`, `FaultIsDumped`), as fairness and ENABLED are beyond the prover;
the arithmetic of `SinglePrecision`, which is evaluated number by number; and
the three counterexamples of section 4. Every invariant and every action
property of a passing run, and each of the three refinements (`AcPolicy`,
`LossyFifo`, `DhtContract`), is the statement of a theorem. The type
invariants of `UserInput`, `SensorTask` and `Actuator` and the inductive
invariants `InputInv`, `SensorInv`, `ClickInv` and `PanelInv` are proved and are
not part of a run.

## 6. Not modelled

- Register set-up of clocks, pins, timers, UART and EXTI (`app_board.c`,
  `app_board.h`): accesses to hardware whose effect is outside the program.
  Modelled of it are the clocks, the reed flag, the pins of the display with
  their initial levels and the UART's bounded busy wait.
- The digits of a logged number, `AppFloatToTenths`, the registers of
  a fault dump: no property is about their wording.
- The counter of failures, the GPIO levels in the line of MonitorTask and the
  pulse lengths that are only printed.
- Delays between pin operations of the display, and `App_DelayMs`: time passes
  freely between steps.
- `main` and the start of the OS. Of AppTasks_CreateAll the creation of the
  two tasks that log is modelled, with its failure; the error codes
  of queues, flags and mutex are not looked at there, and the model takes it that
  those are created.
- The tick rate of the OS is not in the repository; a rate that does not divide
  1000 would make `App_Millis` jump where the tick counter wraps.

## 7. Plan

Done in this order: control state machine and its proof; message path and its
proof; user input and its proof; sensor task; output path; actuator; panel;
DHT22 driver with its contract and proof; diagnostics with MonitorTask, start
task and fault handler, and their proof; proofs of sensor task and actuator;
proofs of output path, panel, lamps and flags.

Next:

1. `Firmware`: `ControlFsm`, `OutputPath` and `Panel` composed, with the
   promise that an open window is followed by the `PAUS` text.
2. The rounding of `AppFloatToTenths`, should a property come to rest on the
   printed digits.
