------------------------- MODULE DiagnosticsProofs -------------------------
(***************************************************************************)
(* Theorems about Diagnostics, for every number of pieces of a line and    *)
(* all readings of the sensor.                                             *)
(***************************************************************************)
EXTENDS Diagnostics, TLAPS

LEMMA LoggingIs ==
    /\ Logging("start") <=> boot \in BootLogs
    /\ Logging("sensor") <=> spc \in SensorLogs
    /\ Logging("monitor") <=> mpc = "line"
  BY DEF Logging

LEMMA InitIsTyped == Init => DiagInv
  <1> SUFFICES ASSUME Init PROVE DiagInv
    OBVIOUS
  <1>1. NoDiagnostics \in DhtDiagnostics /\ Failed \in [ok : BOOLEAN, raw : Raw]
    BY DEF NoDiagnostics, DhtDiagnostics, DhtErrorCode, DhtStage, Raw, Failed
  <1>2. left \in [Writers -> 0 .. Pieces] /\ \A t \in Tasks : left[t] = Pieces
    BY DiagnosticsAssumption DEF Init, Tasks, Writers
  <1>3. TypeOK
    BY <1>1, <1>2 DEF Init, TypeOK, Tasks, Writers, BootLogs, SensorLogs
  <1> QED
    BY <1>2, <1>3 DEF Init, DiagInv

(* What the three tasks share of their way through a log line.             *)
LEMMA LogSteps ==
    ASSUME DiagInv, NEW t \in Tasks,
           Pend(t) \/ WritePiece(t)
    PROVE  DiagInv'
  <1>1. CASE Pend(t)
    <2>1. /\ UartMutex = "free" /\ UartMutex' = t /\ Logging(t)
          /\ UNCHANGED <<boot, UsTimerReady, spc, read, diag, mpc, copy, left,
                         begun, last_writer, uart_stuck, fault>>
      BY <1>1 DEF Pend, MutexIsFree
    <2>2. TypeOK'
      BY <2>1 DEF DiagInv, TypeOK
    <2>3. \A u \in Tasks : left[u] = Pieces /\ u \notin begun
      BY <2>1 DEF DiagInv, Tasks
    <2>4. /\ t = "start" => boot \in BootLogs
          /\ t = "sensor" => spc \in SensorLogs
          /\ t = "monitor" => mpc = "line"
      BY <2>1, LoggingIs
    <2> QED
      BY <2>1, <2>2, <2>3, <2>4 DEF DiagInv
  <1>2. CASE WritePiece(t)
    <2>1. /\ UartMutex = t /\ left[t] > 0
          /\ left' = [left EXCEPT ![t] = @ - 1]
          /\ begun' \in {begun, begun \cup {t}} /\ last_writer' \in {last_writer, t}
          /\ UNCHANGED <<boot, UsTimerReady, spc, read, diag, mpc, copy, UartMutex,
                         uart_stuck, fault>>
      BY <1>2 DEF WritePiece, WriteBytes
    <2>2. left' \in [Writers -> 0 .. Pieces]
      BY <2>1, DiagnosticsAssumption DEF DiagInv, TypeOK, Writers
    <2>3. TypeOK'
      BY <2>1, <2>2 DEF DiagInv, TypeOK, Writers
    <2>4. \A u \in Tasks : u # t => left'[u] = Pieces /\ u \notin begun'
      BY <2>1 DEF DiagInv, TypeOK, Writers
    <2> QED
      BY <2>1, <2>3, <2>4 DEF DiagInv
  <1> QED
    BY <1>1, <1>2

LEMMA PostSteps ==
    ASSUME DiagInv, NEW t \in Tasks, Post(t),
           boot' \in {"monitor", "started", "over", boot}, t # "start" => boot' = boot,
           boot' = "monitor" => mpc = "none",
           spc' \in {"idle", "read", "valid", "probe", spc}, t # "sensor" => spc' = spc,
           mpc' \in {"delay", mpc}, t # "monitor" => mpc' = mpc,
           copy' \in DhtDiagnostics
    PROVE  DiagInv'
  <1>1. /\ UartMutex = t /\ UartMutex' \in {"free"} \cup Heirs(t)
        /\ left' = [left EXCEPT ![t] = Pieces] /\ begun' = begun \ {t}
        /\ UNCHANGED <<UsTimerReady, read, diag, last_writer, uart_stuck, fault>>
    BY DEF Post
  <1>2. left' \in [Writers -> 0 .. Pieces]
    <2>1. Pieces \in 0 .. Pieces
      BY DiagnosticsAssumption
    <2> QED
      BY <1>1, <2>1 DEF DiagInv, TypeOK
  <1>3. UartMutex' \in Tasks \cup {"free"}
    BY <1>1 DEF Heirs
  <1>4. TypeOK'
    BY <1>1, <1>2, <1>3 DEF DiagInv, TypeOK, SensorLogs, BootLogs
  <1>5. /\ UartMutex' = "start" => boot' \in BootLogs
        /\ UartMutex' = "sensor" => spc' \in SensorLogs
        /\ UartMutex' = "monitor" => mpc' = "line"
    BY <1>1, LoggingIs DEF Heirs
  <1>6. \A u \in Tasks : left'[u] = Pieces /\ u \notin begun'
    BY <1>1 DEF DiagInv, TypeOK, Writers
  <1>7. /\ boot' \in {"objects", "sensor"} => spc' = "none"
        /\ mpc' # "none" => boot' \in {"started", "over"}
        /\ spc' = "critical" => mpc' # "line"
    <2>1. /\ t = "start"   => spc' = spc /\ mpc' = mpc
          /\ t = "sensor"  => spc # "none" /\ spc \in SensorLogs /\ mpc' = mpc
          /\ t = "monitor" => mpc = "line" /\ spc' = spc
      BY <1>1 DEF DiagInv, SensorLogs
    <2>2. t \in {"start", "sensor", "monitor"}
      BY DEF Tasks
    <2>3. boot' \in {"objects", "sensor"} => spc' = "none"
      BY <2>1, <2>2 DEF DiagInv
    <2>4. mpc' # "none" => boot' \in {"started", "over"}
      BY <2>1, <2>2 DEF DiagInv
    <2>5. spc' = "critical" => mpc' # "line"
      BY <2>1, <2>2 DEF DiagInv
    <2> QED
      BY <2>3, <2>4, <2>5
  <1> QED
    BY <1>4, <1>5, <1>6, <1>7 DEF DiagInv

(* Steps of SensorTask outside of its lines.                               *)
LEMMA StoreSteps ==
    ASSUME DiagInv, NEW from, NEW to, SensorStep(from, to),
           from \notin SensorLogs, from # "none",
           to \in SensorLogs \cup {"idle", "pull", "pulse", "masking", "critical",
                     "unmasked", "first", "last", "error", "result",
                     "temperature", "humidity"},
           read' \in [ok : BOOLEAN, raw : Raw], diag' \in DhtDiagnostics
    PROVE  DiagInv' /\ mpc # "line"
  <1>1. /\ spc = from /\ spc' = to /\ SensorMayRun
        /\ UNCHANGED <<boot, UsTimerReady, mpc, copy, UartMutex, left, begun,
                        last_writer, uart_stuck, fault>>
    BY DEF SensorStep, MayRun, uart
  <1>2. mpc # "line" /\ UartMutex # "sensor"
    BY <1>1 DEF SensorMayRun, DiagInv
  <1>3. TypeOK'
    BY <1>1 DEF DiagInv, TypeOK, SensorLogs
  <1> QED
    BY <1>1, <1>2, <1>3 DEF DiagInv

LEMMA Typed ==
    ASSUME DiagInv
    PROVE  /\ read.ok \in BOOLEAN /\ read.raw \in Raw
           /\ \A s \in DhtStage : [diag EXCEPT !.stage = s] \in DhtDiagnostics
           /\ \A e \in DhtErrorCode : [diag EXCEPT !.last_error = e] \in DhtDiagnostics
           /\ \A r \in Raw : /\ [diag EXCEPT !.first = r] \in DhtDiagnostics
                              /\ [diag EXCEPT !.last = r] \in DhtDiagnostics
                              /\ [diag EXCEPT !.temperature = r] \in DhtDiagnostics
                              /\ [diag EXCEPT !.humidity = r] \in DhtDiagnostics
           /\ \A b \in BOOLEAN : [diag EXCEPT !.valid = b] \in DhtDiagnostics
           /\ Failed \in [ok : BOOLEAN, raw : Raw]
           /\ diag.stage \in DhtStage
  BY DEF DiagInv, TypeOK, DhtDiagnostics, Failed, Raw

(* A measurement of SensorTask, and its record.                            *)
Stores == \/ SensorStarts \/ ReadIsDue \/ DhtRead
          \/ RecordsValid \/ RecordsTemperature \/ RecordsHumidity

LEMMA StoresAreTyped == ASSUME DiagInv, Stores PROVE DiagInv' /\ mpc # "line"
  <1> USE DEF SensorLogs
  <1>0. read \in [ok : BOOLEAN, raw : Raw] /\ diag \in DhtDiagnostics
    BY DEF DiagInv, TypeOK
  <1>1. CASE SensorStarts
    BY <1>0, <1>1, StoreSteps DEF SensorStarts
  <1>2. CASE ReadIsDue
    BY <1>0, <1>2, StoreSteps DEF ReadIsDue
  <1>3. CASE TimerNotReady
    BY <1>3, StoreSteps, Typed DEF TimerNotReady, DhtErrorCode
  <1>4. CASE DhtStarts
    BY <1>0, <1>4, StoreSteps, Typed DEF DhtStarts, Stage, DhtStage
  <1>5. CASE Receives
    BY <1>0, <1>5, StoreSteps, Typed DEF Receives, Stage, DhtStage
  <1>6. CASE Unmasks
    <2>1. read' \in [ok : BOOLEAN, raw : Raw]
      <3>1. CASE read' = Failed
        BY <3>1, Typed
      <3>2. ASSUME NEW r \in Readings, read' = [ok |-> TRUE, raw |-> r]
            PROVE  read' \in [ok : BOOLEAN, raw : Raw]
        BY <3>2 DEF Raw
      <3> QED
        BY <1>6, <3>1, <3>2 DEF Unmasks
    <2> QED
      BY <1>0, <1>6, <2>1, StoreSteps DEF Unmasks
  <1>7. CASE Exits
    BY <1>0, <1>7, StoreSteps, Typed DEF Exits, Stage, DhtStage
  <1>8. CASE StoresFirst
    BY <1>0, <1>8, StoreSteps, Typed DEF StoresFirst
  <1>9. CASE StoresLast
    BY <1>0, <1>9, StoreSteps, Typed DEF StoresLast
  <1>10. CASE StoresError
    BY <1>0, <1>10, StoreSteps, Typed DEF StoresError, DhtErrorCode
  <1>11. CASE StoresStage
    BY <1>0, <1>11, StoreSteps, Typed DEF StoresStage, Stage, DhtStage
  <1>12. CASE RecordsValid
    BY <1>0, <1>12, StoreSteps, Typed DEF RecordsValid
  <1>13. CASE RecordsTemperature
    BY <1>0, <1>13, StoreSteps, Typed DEF RecordsTemperature
  <1>14. CASE RecordsHumidity
    BY <1>0, <1>14, StoreSteps, Typed DEF RecordsHumidity
  <1> QED
    BY <1>1, <1>2, <1>3, <1>4, <1>5, <1>6, <1>7, <1>8, <1>9, <1>10, <1>11,
       <1>12, <1>13, <1>14 DEF Stores, DhtRead

LEMMA StartIsTyped == ASSUME DiagInv, Start PROVE DiagInv'
  <1>1. CASE CreateObjects \/ CreateSensorTask \/ CreateMonitorTask
    <2>1. /\ UNCHANGED <<read, diag, copy, UartMutex, left, begun, last_writer,
                          uart_stuck, fault>>
          /\ boot \in {"objects", "sensor", "monitor"}
          /\ spc' \in {spc, "boot"} /\ mpc' \in {mpc, "delay"}
          /\ UsTimerReady' \in BOOLEAN
          /\ boot' \in {"sensor", "monitor"} \cup BootLogs
      <3> USE DEF BootLogs, uart
      <3>1. CASE CreateObjects
        BY <3>1 DEF CreateObjects, DiagInv, TypeOK
      <3>2. CASE CreateSensorTask
        BY <3>2 DEF CreateSensorTask, DiagInv, TypeOK
      <3>3. CASE CreateMonitorTask
        BY <3>3 DEF CreateMonitorTask, DiagInv, TypeOK
      <3> QED
        BY <1>1, <3>1, <3>2, <3>3
    <2>2. TypeOK'
      BY <2>1 DEF DiagInv, TypeOK
    <2>3. UartMutex # "start"
      BY <2>1 DEF DiagInv, Logging, BootLogs
    <2>4. /\ UartMutex = "sensor" => spc' = spc
          /\ UartMutex = "monitor" => mpc' = mpc
      BY <1>1 DEF CreateObjects, CreateSensorTask, CreateMonitorTask, DiagInv, SensorLogs
    <2> QED
      BY <1>1, <2>1, <2>2, <2>3, <2>4
         DEF DiagInv, CreateObjects, CreateSensorTask, CreateMonitorTask
  <1>2. CASE Pend("start") \/ WritePiece("start")
    BY <1>2, LogSteps DEF Tasks
  <1>3. CASE StartPosts
    BY <1>3, PostSteps DEF StartPosts, Tasks, DiagInv, TypeOK, BootLogs
  <1> QED
    BY <1>1, <1>2, <1>3 DEF Start

LEMMA SensorPostsTyped == ASSUME DiagInv, SensorPosts PROVE DiagInv'
  BY PostSteps DEF SensorPosts, Tasks, DiagInv, TypeOK

LEMMA MonitorIsTyped == ASSUME DiagInv, Monitor PROVE DiagInv'
  <1>1. CASE MonitorWakes
    BY <1>1 DEF MonitorWakes, InterruptsOn, uart, DiagInv, TypeOK
  <1>2. CASE Pend("monitor") \/ WritePiece("monitor")
    BY <1>2, LogSteps DEF Tasks
  <1>3. CASE MonitorPosts
    <2>1. NoDiagnostics \in DhtDiagnostics
      BY DEF NoDiagnostics, DhtDiagnostics, DhtErrorCode, DhtStage, Raw
    <2> QED
      BY <1>3, <2>1, PostSteps DEF MonitorPosts, Tasks, DiagInv
  <1> QED
    BY <1>1, <1>2, <1>3 DEF Monitor

LEMMA HandlerIsTyped == ASSUME DiagInv, Fault \/ App_Fault_ISR PROVE DiagInv'
  <1>1. CASE Fault
    BY <1>1 DEF Fault, uart, DiagInv, TypeOK
  <1>2. CASE App_Fault_ISR
    <2>1. /\ left' = [left EXCEPT !["handler"] = @ - 1] /\ left["handler"] > 0
          /\ begun' \in {begun, begun \cup {"handler"}}
          /\ last_writer' \in {last_writer, "handler"}
          /\ fault' \in {"over", fault}
          /\ UNCHANGED <<boot, UsTimerReady, spc, read, diag, mpc, copy, UartMutex,
                         uart_stuck>>
      BY <1>2 DEF App_Fault_ISR, WriteBytes
    <2>2. left' \in [Writers -> 0 .. Pieces]
      BY <2>1, DiagnosticsAssumption DEF DiagInv, TypeOK, Writers
    <2>3. TypeOK'
      BY <2>1, <2>2 DEF DiagInv, TypeOK, Writers
    <2>4. \A t \in Tasks : left'[t] = left[t] /\ (t \in begun' => t \in begun)
      BY <2>1 DEF DiagInv, TypeOK, Writers, Tasks
    <2> QED
      BY <2>1, <2>3, <2>4 DEF DiagInv
  <1> QED
    BY <1>1, <1>2

LEMMA StepIsTyped == ASSUME DiagInv, [Next]_vars PROVE DiagInv'
  <1>1. CASE Start
    BY <1>1, StartIsTyped
  <1>2. CASE Sensor
    <2>1. CASE Pend("sensor") \/ WritePiece("sensor")
      BY <2>1, LogSteps DEF Tasks
    <2> QED
      BY <1>2, <2>1, SensorPostsTyped, StoresAreTyped DEF Sensor, Stores
  <1>3. CASE Monitor
    BY <1>3, MonitorIsTyped
  <1>4. CASE UartSticks
    BY <1>4 DEF UartSticks, uart, DiagInv, TypeOK
  <1>5. CASE Fault \/ App_Fault_ISR
    BY <1>5, HandlerIsTyped
  <1>6. CASE UNCHANGED vars
    BY <1>6 DEF vars, uart, DiagInv, TypeOK
  <1> QED
    BY <1>1, <1>2, <1>3, <1>4, <1>5, <1>6 DEF Next

(* DiagInv is inductive.                                                   *)
THEOREM DiagnosticsInvariant == Spec => []DiagInv
  BY InitIsTyped, StepIsTyped, PTL DEF Spec

-----------------------------------------------------------------------------
(* Lines on the wire.                                                      *)
LEMMA StepsKeepLines ==
    ASSUME DiagInv, LinesAreWhole, [Next]_vars PROVE LinesAreWhole'
  <1>1. ASSUME NEW t \in Tasks, WritePiece(t) PROVE LinesAreWhole'
    <2>1. UartMutex = t /\ fault' = fault
          /\ \/ last_writer' = last_writer /\ begun' = begun
             \/ last_writer' = t /\ begun' = begun \cup {t}
      BY <1>1 DEF WritePiece, WriteBytes
    <2>2. \A u \in Tasks : u # t => u \notin begun
      BY <2>1 DEF DiagInv
    <2> QED
      BY <2>1, <2>2 DEF LinesAreWhole
  <1>2. ASSUME NEW t \in Tasks, Post(t) PROVE LinesAreWhole'
    BY <1>2 DEF Post, LinesAreWhole
  <1>3. ASSUME NEW t \in Tasks, Pend(t) PROVE LinesAreWhole'
    BY <1>3 DEF Pend, LinesAreWhole
  <1>4. CASE Fault \/ App_Fault_ISR
    BY <1>4 DEF Fault, App_Fault_ISR, LinesAreWhole
  <1>5. CASE UNCHANGED <<last_writer, begun, fault>>
    BY <1>5 DEF LinesAreWhole
  <1>6. CASE Stores
    <2>1. PICK from, to : SensorStep(from, to)
      BY <1>6 DEF Stores, SensorStarts, ReadIsDue, DhtRead, TimerNotReady, DhtStarts,
                  Receives, Unmasks, Exits, StoresFirst, StoresLast, StoresError,
                  StoresStage, RecordsValid, RecordsTemperature, RecordsHumidity
    <2> QED
      BY <1>5, <2>1 DEF SensorStep, uart
  <1>7. CASE CreateObjects \/ CreateSensorTask \/ CreateMonitorTask
             \/ MonitorWakes \/ UartSticks \/ UNCHANGED vars
    BY <1>5, <1>7 DEF CreateObjects, CreateSensorTask, CreateMonitorTask, MonitorWakes,
                      UartSticks, vars, uart
  <1> QED
    BY <1>1, <1>2, <1>3, <1>4, <1>6, <1>7
       DEF Next, Start, StartPosts, Sensor, SensorPosts, Monitor, MonitorPosts,
           Stores, Tasks

(* LinesAreWhole in every reachable state: no task writes into another's   *)
(* line, with any number of pieces and a UART that sticks at any of them.  *)
THEOREM NoLineIsMixed == Spec => []LinesAreWhole
  <1>1. Init => LinesAreWhole
    BY DEF Init, LinesAreWhole
  <1> QED
    BY DiagnosticsInvariant, <1>1, StepsKeepLines, PTL DEF Spec

-----------------------------------------------------------------------------
(* The copy MonitorTask writes from.                                       *)
LEMMA StepsKeepCurrent ==
    ASSUME DiagInv, LineIsCurrent, [Next]_vars PROVE LineIsCurrent'
  <1>1. CASE Stores
    <2>1. mpc # "line"
      BY <1>1, StoresAreTyped
    <2>2. PICK from, to : SensorStep(from, to)
      BY <1>1 DEF Stores, SensorStarts, ReadIsDue, DhtRead, TimerNotReady, DhtStarts,
                  Receives, Unmasks, Exits, StoresFirst, StoresLast, StoresError,
                  StoresStage, RecordsValid, RecordsTemperature, RecordsHumidity
    <2> QED
      BY <2>1, <2>2 DEF SensorStep, LineIsCurrent
  <1>2. CASE UNCHANGED <<mpc, copy, diag>>
    BY <1>2 DEF LineIsCurrent
  <1>3. CASE CreateMonitorTask \/ MonitorWakes \/ MonitorPosts
    BY <1>3 DEF CreateMonitorTask, MonitorWakes, MonitorPosts, LineIsCurrent
  <1> QED
    BY <1>1, <1>2, <1>3
       DEF Next, Start, CreateObjects, CreateSensorTask, Pend, WritePiece, WriteBytes,
           StartPosts, Post, Sensor, SensorPosts, Stores, Monitor, UartSticks,
           Fault, App_Fault_ISR, vars

(* LineIsCurrent in every reachable state: with these priorities the copy  *)
(* is not stale when its line is written, however long the mutex was       *)
(* waited for.                                                             *)
THEOREM LinesAreCurrent == Spec => []LineIsCurrent
  <1>1. Init => LineIsCurrent
    BY DEF Init, LineIsCurrent
  <1> QED
    BY DiagnosticsInvariant, <1>1, StepsKeepCurrent, PTL DEF Spec

-----------------------------------------------------------------------------
(* The order of the stores.  Whole: diag holds all of the measurement read *)
(* is about.                                                               *)
Whole == diag.first = read.raw /\ diag.last = read.raw

AtRest == spc \in {"idle", "before", "read"}

StoreOrder ==
    /\ boot = "objects" => diag.stage = "IDLE" /\ spc = "none"
    /\ spc \in {"pull", "pulse", "masking", "critical", "unmasked", "first",
                "last", "error", "result"} => UsTimerReady
    /\ ~UsTimerReady => diag.stage = "IDLE" /\ ~read.ok
    /\ spc \in {"none", "boot", "timer", "probe"} => diag.stage = "IDLE"
    /\ read.ok => /\ read.raw \in Readings
                  /\ spc \in {"unmasked", "first", "last", "error", "result", "after",
                              "valid", "temperature", "humidity"}
    /\ spc = "last" => diag.first = read.raw
    /\ spc \in {"error", "result"} => Whole
    /\ spc = "result" /\ read.ok => diag.last_error = "NONE"
    /\ diag.stage = "DONE" =>
          /\ diag.last_error = "NONE"
          /\ diag.first = diag.last /\ diag.first \in Readings
          /\ \/ AtRest /\ diag.valid /\ diag.temperature = diag.first
                        /\ diag.humidity = diag.first
             \/ spc \in {"after", "valid", "temperature", "humidity"} /\ Whole /\ read.ok
    /\ diag.valid /\ diag.last_error # "NONE" => spc \in {"result", "after", "valid"}
    /\ spc \in {"temperature", "humidity"} => read.ok /\ diag.valid
    /\ spc = "humidity" => diag.temperature = read.raw
    /\ spc \in {"after", "valid", "temperature", "humidity"} /\ read.ok =>
          diag.stage = "DONE"

LEMMA StoresKeepOrder ==
    ASSUME DiagInv, StoreOrder, Stores PROVE StoreOrder'
  <1> USE DEF StoreOrder, SensorStep, Whole, AtRest
  <1>0. diag \in DhtDiagnostics /\ read \in [ok : BOOLEAN, raw : Raw]
    BY DEF DiagInv, TypeOK
  <1>1. CASE SensorStarts
    BY <1>0, <1>1 DEF SensorStarts
  <1>2. CASE ReadIsDue
    BY <1>0, <1>2 DEF ReadIsDue
  <1>3. CASE TimerNotReady
    BY <1>0, <1>3 DEF TimerNotReady, DhtDiagnostics, Failed
  <1>4. CASE DhtStarts
    BY <1>0, <1>4 DEF DhtStarts, Stage, DhtDiagnostics
  <1>5. CASE Receives
    BY <1>0, <1>5 DEF Receives, Stage, DhtDiagnostics
  <1>6. CASE Unmasks
    <2>1. CASE read' = Failed
      BY <1>0, <1>6, <2>1 DEF Unmasks, Failed
    <2>2. ASSUME NEW r \in Readings, diag.stage = "DATA_DONE",
                 read' = [ok |-> TRUE, raw |-> r]
          PROVE  StoreOrder'
      BY <1>0, <1>6, <2>2 DEF Unmasks
    <2> QED
      BY <1>6, <2>1, <2>2 DEF Unmasks
  <1>7. CASE Exits
    BY <1>0, <1>7 DEF Exits, Stage, DhtDiagnostics
  <1>8. CASE StoresFirst
    BY <1>0, <1>8 DEF StoresFirst, DhtDiagnostics
  <1>9. CASE StoresLast
    BY <1>0, <1>9 DEF StoresLast, DhtDiagnostics
  <1>10. CASE StoresError
    BY <1>0, <1>10 DEF StoresError, DhtDiagnostics
  <1>11. CASE StoresStage
    BY <1>0, <1>11 DEF StoresStage, Stage, DhtDiagnostics
  <1>12. CASE RecordsValid
    BY <1>0, <1>12 DEF RecordsValid, DhtDiagnostics
  <1>13. CASE RecordsTemperature
    BY <1>0, <1>13 DEF RecordsTemperature, DhtDiagnostics
  <1>14. CASE RecordsHumidity
    BY <1>0, <1>14 DEF RecordsHumidity, DhtDiagnostics, Failed
  <1> QED
    BY <1>1, <1>2, <1>3, <1>4, <1>5, <1>6, <1>7, <1>8, <1>9, <1>10, <1>11,
       <1>12, <1>13, <1>14 DEF Stores, DhtRead

LEMMA StepsKeepOrder ==
    ASSUME DiagInv, StoreOrder, [Next]_vars PROVE StoreOrder'
  <1> USE DEF Whole, AtRest
  <1>1. CASE Stores
    BY <1>1, StoresKeepOrder
  <1>2. CASE SensorPosts
    <2>1. spc \in SensorLogs
      BY <1>2 DEF SensorPosts, Post, DiagInv
    <2> QED
      BY <1>2, <2>1 DEF SensorPosts, Post, StoreOrder, SensorLogs
  <1>3. CASE CreateObjects
    BY <1>3 DEF CreateObjects, StoreOrder, DiagInv
  <1>4. CASE CreateSensorTask
    BY <1>4 DEF CreateSensorTask, StoreOrder, DiagInv
  <1>5. CASE CreateMonitorTask \/ StartPosts
    BY <1>5 DEF CreateMonitorTask, StartPosts, Post, StoreOrder, DiagInv
  <1>6. CASE UNCHANGED <<boot, UsTimerReady, spc, read, diag>>
    BY <1>6 DEF StoreOrder
  <1> QED
    BY <1>1, <1>2, <1>3, <1>4, <1>5, <1>6
       DEF Next, Start, Pend, WritePiece, WriteBytes, Post, Sensor, Stores, Monitor,
           MonitorWakes, MonitorPosts, UartSticks, Fault, App_Fault_ISR, vars

(* LineTellsOneRead in every reachable state.  StoreOrder says how far     *)
(* each store has come at every point of SensorTask, LinesAreCurrent that  *)
(* the line shows no older state.                                          *)
THEOREM DoneLineIsOneRead == Spec => []LineTellsOneRead
  <1>1. Init => StoreOrder
    BY DEF Init, StoreOrder, Failed, NoDiagnostics
  <1>2. LineIsCurrent /\ StoreOrder => LineTellsOneRead
    BY DEF LineIsCurrent, StoreOrder, AtRest, LineTellsOneRead
  <1> QED
    BY DiagnosticsInvariant, LinesAreCurrent, <1>1, <1>2, StepsKeepOrder, PTL DEF Spec
=============================================================================
