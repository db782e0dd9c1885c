---------------------------- MODULE Diagnostics ----------------------------
(***************************************************************************)
(* What the program says of itself over the serial line: the log lines of  *)
(* the start task and of SensorTask, the line MonitorTask writes every     *)
(* second about the last measurement, and the dump of the fault handler.   *)
(*                                                                         *)
(* A line is written in pieces under UartMutex, a piece that the UART does *)
(* not take is given up.  MonitorTask has the highest priority of the      *)
(* tasks that run on, but it cannot run while SensorTask receives with     *)
(* interrupts off; the order in which SensorTask stores the parts of a     *)
(* measurement is kept, and MonitorTask may copy them in between.  The     *)
(* priority of the start task is left open.                                *)
(***************************************************************************)
EXTENDS Naturals

CONSTANTS
    Readings,       \* what a measurement may yield
    NoReading,      \* the zeros before the first one
    Partial,        \* the bytes of one that failed
    Pieces          \* calls of Board_UartWriteBytes for one line

ASSUME DiagnosticsAssumption ==
    /\ NoReading \notin Readings /\ Partial \notin Readings
    /\ Pieces \in Nat \ {0}

VARIABLES
    boot,           \* the start task
    UsTimerReady,
    spc, read,      \* SensorTask, its measurement
    diag,           \* the static variables of app_dht22.c
    mpc, copy,      \* MonitorTask, its DhtDiagnostics
    UartMutex,      \* its owner
    uart_stuck,     \* TXE does not come
    left,           \* pieces each writer has yet to write of its line
    fault           \* the handler

VARIABLES begun, last_writer   \* history: what has reached the wire

uart == <<UartMutex, left, begun, last_writer>>
vars == <<boot, UsTimerReady, spc, read, diag, mpc, copy, uart, uart_stuck, fault>>

Tasks   == {"start", "sensor", "monitor"}
Writers == Tasks \cup {"handler"}
Raw     == Readings \cup {NoReading, Partial}
DhtErrorCode == {"NONE", "TIMER_NOT_READY", "FAILED"}
DhtStage == {"IDLE", "ENTER", "START_PULSE", "CRITICAL_ENTER", "RESP_LOW",
             "RESP_HIGH", "DATA_DONE", "CRITICAL_EXIT", "DONE"}

(* raw is stored byte by byte, first and last stand for all of it.         *)
DhtDiagnostics == [valid : BOOLEAN, temperature : Raw, humidity : Raw,
                   last_error : DhtErrorCode, stage : DhtStage,
                   first : Raw, last : Raw]
NoDiagnostics == [valid |-> FALSE, temperature |-> NoReading, humidity |-> NoReading,
                  last_error |-> "NONE", stage |-> "IDLE",
                  first |-> NoReading, last |-> NoReading]

-----------------------------------------------------------------------------
(* Lines                                                                   *)

BootLogs   == {"sensor_failed", "monitor_failed", "started"}
SensorLogs == {"timer", "probe", "before", "after"}

Logging(t) == CASE t = "start"  -> boot \in BootLogs
                [] t = "sensor" -> spc \in SensorLogs
                [] OTHER        -> mpc = "line"

(* A slip: SensorTask has the higher priority. *)
SensorMayAlwaysRun == TRUE

(* SensorTask runs only while MonitorTask sleeps, or waits for the mutex   *)
(* SensorTask has; a start task that has it inherits the priority.         *)
SensorMayRun == mpc # "line" \/ UartMutex = "sensor"

MayRun(t) == fault = "none" /\ (t = "sensor" => SensorMayRun)

(* A slip: as if with Monitor_WriteStringUnlocked. *)
MutexIsIgnored == TRUE

MutexIsFree == UartMutex = "free"

Pend(t) ==
    /\ MayRun(t) /\ Logging(t) /\ MutexIsFree
    /\ UartMutex' = t
    /\ UNCHANGED <<boot, UsTimerReady, spc, read, diag, mpc, copy, left, begun,
                   last_writer, uart_stuck, fault>>

(* A slip: waits for TXE as long as it takes. *)
WriteBytesForever(w) ==
    /\ left[w] > 0 /\ ~uart_stuck
    /\ left' = [left EXCEPT ![w] = @ - 1]
    /\ last_writer' = w /\ begun' = begun \cup {w}
    /\ UNCHANGED <<boot, UsTimerReady, spc, read, diag, mpc, copy, UartMutex, uart_stuck>>

WriteBytes(w) ==
    /\ left[w] > 0
    /\ left' = [left EXCEPT ![w] = @ - 1]
    /\ IF uart_stuck THEN UNCHANGED <<last_writer, begun>>
       ELSE last_writer' = w /\ begun' = begun \cup {w}
    /\ UNCHANGED <<boot, UsTimerReady, spc, read, diag, mpc, copy, UartMutex, uart_stuck>>

WritePiece(t) ==
    /\ MayRun(t) /\ UartMutex = t
    /\ WriteBytes(t)
    /\ UNCHANGED fault

(* The mutex goes to a task that waits for it, of the two that run on to   *)
(* MonitorTask first.                                                      *)
Heirs(t) == {u \in Tasks \ {t} : Logging(u) /\ (u = "sensor" => mpc # "line")}

Post(t) ==
    /\ MayRun(t) /\ UartMutex = t /\ left[t] = 0
    /\ IF Heirs(t) = {} THEN UartMutex' = "free" ELSE UartMutex' \in Heirs(t)
    /\ left' = [left EXCEPT ![t] = Pieces]
    /\ begun' = begun \ {t}
    /\ UNCHANGED <<UsTimerReady, read, diag, last_writer, uart_stuck, fault>>

UartSticks ==
    /\ uart_stuck' = ~uart_stuck
    /\ UNCHANGED <<boot, UsTimerReady, spc, read, diag, mpc, copy, uart, fault>>

-----------------------------------------------------------------------------
(* The start task                                                          *)

(* AppTasks_CreateAll up to the tasks.                                     *)
CreateObjects ==
    /\ fault = "none" /\ boot = "objects" /\ boot' = "sensor"
    /\ UsTimerReady' \in BOOLEAN
    /\ UNCHANGED <<spc, read, diag, mpc, copy, uart, uart_stuck, fault>>

CreateSensorTask ==
    /\ fault = "none" /\ boot = "sensor"
    /\ \/ boot' = "monitor" /\ spc' = "boot"
       \/ boot' = "sensor_failed" /\ spc' = spc
    /\ UNCHANGED <<UsTimerReady, read, diag, mpc, copy, uart, uart_stuck, fault>>

CreateMonitorTask ==
    /\ fault = "none" /\ boot = "monitor"
    /\ \/ boot' = "started" /\ mpc' = "delay"
       \/ boot' = "monitor_failed" /\ mpc' = mpc
    /\ UNCHANGED <<UsTimerReady, spc, read, diag, copy, uart, uart_stuck, fault>>

StartPosts ==
    /\ Post("start")
    /\ boot' = CASE boot = "sensor_failed"  -> "monitor"
                 [] boot = "monitor_failed" -> "started"
                 [] OTHER                   -> "over"
    /\ UNCHANGED <<spc, mpc, copy>>

-----------------------------------------------------------------------------
(* SensorTask                                                              *)

SensorStep(from, to) ==
    /\ MayRun("sensor") /\ spc = from /\ spc' = to
    /\ UNCHANGED <<boot, UsTimerReady, mpc, copy, uart, uart_stuck, fault>>

SensorStarts ==
    /\ SensorStep("boot", IF UsTimerReady THEN "probe" ELSE "timer")
    /\ UNCHANGED <<read, diag>>

ReadIsDue == SensorStep("idle", "before") /\ UNCHANGED <<read, diag>>

SensorPosts ==
    /\ Post("sensor")
    /\ spc' = CASE spc = "timer"  -> "probe"
                [] spc = "probe"  -> "idle"
                [] spc = "before" -> "read"
                [] OTHER          -> "valid"
    /\ UNCHANGED <<boot, mpc, copy>>

Failed == [ok |-> FALSE, raw |-> Partial]

TimerNotReady ==
    /\ ~UsTimerReady /\ SensorStep("read", "after")
    /\ diag' = [diag EXCEPT !.last_error = "TIMER_NOT_READY"]
    /\ read' = Failed

Stage(s) == diag' = [diag EXCEPT !.stage = s] /\ UNCHANGED read

(* DhtRead up to the frame; interrupts go off after the last of these.     *)
DhtStarts ==
    \/ UsTimerReady /\ SensorStep("read", "pull") /\ Stage("ENTER")
    \/ SensorStep("pull", "pulse") /\ Stage("START_PULSE")
    \/ SensorStep("pulse", "masking") /\ Stage("CRITICAL_ENTER")
    \/ SensorStep("masking", "critical") /\ UNCHANGED <<read, diag>>

Receives ==
    /\ SensorStep("critical", "critical")
    /\ \/ diag.stage = "CRITICAL_ENTER" /\ Stage("RESP_LOW")
       \/ diag.stage = "RESP_LOW"       /\ Stage("RESP_HIGH")
       \/ diag.stage = "RESP_HIGH"      /\ Stage("DATA_DONE")

(* A frame with a checksum that fits, or a time-out or a bad checksum.     *)
Unmasks ==
    /\ SensorStep("critical", "unmasked")
    /\ \/ /\ diag.stage = "DATA_DONE"
          /\ \E r \in Readings : read' = [ok |-> TRUE, raw |-> r]
       \/ read' = Failed
    /\ UNCHANGED diag

(* A slip: DONE as soon as the checksum fits. *)
ExitsDone ==
    /\ SensorStep("unmasked", "first")
    /\ Stage(IF read.ok THEN "DONE" ELSE "CRITICAL_EXIT")

Exits == SensorStep("unmasked", "first") /\ Stage("CRITICAL_EXIT")

StoresFirst ==
    /\ SensorStep("first", "last")
    /\ diag' = [diag EXCEPT !.first = read.raw] /\ UNCHANGED read

StoresLast ==
    /\ SensorStep("last", "error")
    /\ diag' = [diag EXCEPT !.last = read.raw] /\ UNCHANGED read

StoresError ==
    /\ SensorStep("error", "result")
    /\ diag' = [diag EXCEPT !.last_error = IF read.ok THEN "NONE" ELSE "FAILED"]
    /\ UNCHANGED read

StoresStage ==
    /\ SensorStep("result", "after")
    /\ Stage(IF read.ok THEN "DONE" ELSE diag.stage)

(* Dht_RecordSample; the counter of failures is left out.                  *)
RecordsValid ==
    /\ SensorStep("valid", IF read.ok THEN "temperature" ELSE "idle")
    /\ diag' = [diag EXCEPT !.valid = read.ok]
    /\ UNCHANGED read

RecordsTemperature ==
    /\ SensorStep("temperature", "humidity")
    /\ diag' = [diag EXCEPT !.temperature = read.raw] /\ UNCHANGED read

RecordsHumidity ==
    /\ SensorStep("humidity", "idle")
    /\ diag' = [diag EXCEPT !.humidity = read.raw]
    /\ read' = Failed   \* no longer of use

DhtRead == \/ TimerNotReady \/ DhtStarts \/ Receives \/ Unmasks \/ Exits
           \/ StoresFirst \/ StoresLast \/ StoresError \/ StoresStage

Sensor == \/ SensorStarts \/ ReadIsDue
          \/ Pend("sensor") \/ WritePiece("sensor") \/ SensorPosts
          \/ DhtRead
          \/ RecordsValid \/ RecordsTemperature \/ RecordsHumidity

-----------------------------------------------------------------------------
(* MonitorTask                                                             *)

(* A slip: APP_DHT_DISABLE_IRQ is 0. *)
InterruptsAreOn == TRUE

InterruptsOn == spc # "critical"

(* Dht_GetDiagnostics comes before OSMutexPend.                            *)
MonitorWakes ==
    /\ fault = "none" /\ mpc = "delay" /\ InterruptsOn
    /\ mpc' = "line" /\ copy' = diag
    /\ UNCHANGED <<boot, UsTimerReady, spc, read, diag, uart, uart_stuck, fault>>

MonitorPosts ==
    /\ Post("monitor")
    /\ mpc' = "delay" /\ copy' = NoDiagnostics   \* out of scope
    /\ UNCHANGED <<boot, spc>>

Monitor == MonitorWakes \/ Pend("monitor") \/ WritePiece("monitor") \/ MonitorPosts

Start == \/ CreateObjects \/ CreateSensorTask \/ CreateMonitorTask
         \/ Pend("start") \/ WritePiece("start") \/ StartPosts

-----------------------------------------------------------------------------
(* The fault handler                                                       *)

Fault ==
    /\ fault = "none" /\ fault' = "dumping"
    /\ UNCHANGED <<boot, UsTimerReady, spc, read, diag, mpc, copy, uart, uart_stuck>>

(* A slip: the dump waits for the mutex as every other line does. *)
App_Fault_ISRLocked ==
    /\ fault = "dumping" /\ UartMutex = "free"
    /\ WriteBytes("handler")
    /\ fault' = IF left'["handler"] = 0 THEN "over" ELSE fault

(* App_Fault_ISR takes no mutex and never returns.                         *)
App_Fault_ISR ==
    /\ fault = "dumping"
    /\ WriteBytes("handler")
    /\ fault' = IF left'["handler"] = 0 THEN "over" ELSE fault

Init ==
    /\ boot = "objects" /\ UsTimerReady = FALSE
    /\ spc = "none" /\ read = Failed
    /\ diag = NoDiagnostics
    /\ mpc = "none" /\ copy = NoDiagnostics
    /\ UartMutex = "free" /\ uart_stuck = FALSE
    /\ left = [w \in Writers |-> Pieces]
    /\ fault = "none"
    /\ begun = {} /\ last_writer = "start"

Next == Start \/ Sensor \/ Monitor \/ UartSticks \/ Fault \/ App_Fault_ISR

Spec == Init /\ [][Next]_vars

(* Each task goes on when it may run.  MonitorTask takes the processor     *)
(* again and again but sleeps for a second after every line, which leaves  *)
(* SensorTask time; and a tick that came while interrupts were off is      *)
(* served when they are on: strong fairness for the two.                   *)
FairSpec ==
    /\ Spec /\ WF_vars(Start) /\ SF_vars(Monitor) /\ SF_vars(Sensor)
    /\ WF_vars(App_Fault_ISR)

-----------------------------------------------------------------------------
TypeOK ==
    /\ boot \in {"objects", "sensor", "monitor", "over"} \cup BootLogs
    /\ UsTimerReady \in BOOLEAN
    /\ spc \in SensorLogs \cup {"none", "boot", "idle", "read", "pull", "pulse",
                   "masking", "critical", "unmasked", "first", "last", "error",
                   "result", "valid", "temperature", "humidity"}
    /\ read \in [ok : BOOLEAN, raw : Raw]
    /\ diag \in DhtDiagnostics /\ copy \in DhtDiagnostics
    /\ mpc \in {"none", "delay", "line"}
    /\ UartMutex \in Tasks \cup {"free"}
    /\ uart_stuck \in BOOLEAN
    /\ left \in [Writers -> 0 .. Pieces] /\ begun \subseteq Writers
    /\ fault \in {"none", "dumping", "over"}
    /\ last_writer \in Writers

(* The mutex belongs to a task that writes a line, no other has begun one; *)
(* a task is idle before it is created, and MonitorTask is not active      *)
(* while interrupts are off.                                               *)
DiagInv ==
    /\ TypeOK
    /\ UartMutex = "start"   => boot \in BootLogs
    /\ UartMutex = "sensor"  => spc \in SensorLogs
    /\ UartMutex = "monitor" => mpc = "line"
    /\ \A t \in Tasks : UartMutex # t => left[t] = Pieces /\ t \notin begun
    /\ boot \in {"objects", "sensor"} => spc = "none"
    /\ mpc # "none" => boot \in {"started", "over"}
    /\ spc = "critical" => mpc # "line"

(* Until there is a fault a line on the wire is whole: what reaches it     *)
(* after the first piece of a line is the next piece of that line.         *)
LinesAreWhole ==
    fault = "none" => \A t \in Tasks \cap begun : last_writer = t

(* The measurement a line is about was copied before the mutex was waited  *)
(* for, and yet it is the last one when the line is written: a task that   *)
(* holds the mutex stores nothing, and no other runs.                      *)
LineIsCurrent == mpc = "line" => copy = diag

(* A line whose stage is DONE tells of a measurement without an error and  *)
(* shows all of its bytes, however the stores and the copy interleave; and *)
(* the temperature is of the same one, unless it has not yet been recorded.*)
(* Any other line calls the last measurement valid beside an error only    *)
(* from the store of the error until Dht_RecordSample, where SensorTask    *)
(* may have to wait for the mutex.                                         *)
LineTellsOneRead ==
    mpc = "line" =>
        /\ copy.stage = "DONE" =>
              /\ copy.last_error = "NONE"
              /\ copy.first = copy.last /\ copy.first \in Readings
              /\ spc \in {"idle", "before", "read"} =>
                    /\ copy.valid
                    /\ copy.temperature = copy.first /\ copy.humidity = copy.first
        /\ copy.valid /\ copy.last_error # "NONE" =>
              spc \in {"result", "after", "valid"}

(* As long as there is no fault MonitorTask, once created, reports again   *)
(* and again: neither a UART that is stuck nor the task that has the mutex *)
(* stops it.                                                               *)
ReportsGoOn ==
    [](fault = "none") /\ <>(mpc # "none") =>
        []<>(mpc = "delay") /\ []<>(mpc = "line")

(* A fault is reported to the end, whoever has the mutex.                  *)
FaultIsDumped == fault = "dumping" ~> fault = "over"
=============================================================================
