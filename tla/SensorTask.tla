----------------------------- MODULE SensorTask -----------------------------
(***************************************************************************)
(* SensorTask: every 100 ms the reed switch is looked at, every            *)
(* DhtReadPeriodMs the DHT22 is read, and what is new goes to ControlTask  *)
(* through SensorQ.  Beside the task run the interrupt of the reed switch  *)
(* and ControlTask.                                                        *)
(*                                                                         *)
(* An iteration is cut where the others can come between: after the level  *)
(* was read, during the measurement (interrupts are off, edges wait in     *)
(* EXTI), and before Dht_RecordSample, where the task may wait for         *)
(* UartMutex to log the result.                                            *)
(***************************************************************************)
EXTENDS Integers, Sequences, SequencesExt

CONSTANTS
    Readings,          \* what a successful measurement may yield
    NoReading,         \* the zeros of memset
    NoMessage,         \* ControlTask has received nothing yet
    Depth,             \* APP_QUEUE_DEPTH
    DhtReadPeriodMs,   \* APP_DHT_READ_PERIOD_MS
    StartMs,           \* when the loop is entered
    MaxGapMs,          \* the longest time from one iteration to the next
    ClockMod           \* App_Millis counts modulo this

SensorMsg == [reading : Readings \cup {NoReading},
              window_open : BOOLEAN, valid : BOOLEAN]

ASSUME SensorAssumption ==
    /\ NoReading \notin Readings
    /\ NoMessage \notin SensorMsg
    /\ Depth \in Nat \ {0}
    /\ ClockMod \in Nat \ {0}
    /\ DhtReadPeriodMs \in 1 .. ClockMod - 1
    /\ StartMs \in 1 .. ClockMod - 1
    /\ MaxGapMs \in Nat \ {0}
    /\ DhtReadPeriodMs + MaxGapMs < ClockMod

VARIABLES
    reed_open,         \* the level of the reed switch
    exti_pending,      \* an edge the interrupt controller has latched
    ReedEdgePending    \* set by App_EXTI3_ISR

VARIABLES
    pc, now, window_open, publish, message,
    last_window, last_dht_valid, last_dht_ms

VARIABLES
    SensorQ,
    latest,            \* ControlTask's
    DhtValid,          \* Dht_RecordSample
    DhtLastError       \* DhtRead, "NONE" or "FAILED" of any kind

(* History *)
VARIABLES
    measured,          \* the last reading DhtRead has returned
    sinceRead,         \* time since the last measurement began
    readAtZero,        \* ... which was when the clock showed 0
    lost,              \* the last PostSensor was dropped
    moved              \* the reed switch has moved since its level was read

reed    == <<reed_open, exti_pending, ReedEdgePending>>
task    == <<pc, now, window_open, publish, message,
             last_window, last_dht_valid, last_dht_ms>>
shared  == <<SensorQ, latest, DhtValid, DhtLastError>>
history == <<measured, sinceRead, readAtZero, lost, moved>>
vars    == <<reed, task, shared, history>>

Errors == {"NONE", "FAILED"}

Capped(n, cap) == IF n < cap THEN n ELSE cap

-----------------------------------------------------------------------------
ReedMoves ==
    /\ reed_open' = ~reed_open
    /\ exti_pending' = TRUE
    /\ moved' = TRUE
    /\ UNCHANGED <<ReedEdgePending, task, shared, measured, sinceRead,
                   readAtZero, lost>>

(* Interrupts are off while the 40 bits are received.  They are on in the  *)
(* 2 ms before, but the flag is not looked at until the next iteration.    *)
ReedInterrupt ==
    /\ exti_pending /\ pc # "reading"
    /\ exti_pending' = FALSE
    /\ ReedEdgePending' = TRUE
    /\ UNCHANGED <<reed_open, task, shared, history>>

(* App_DelayMs is over; the clock and the level are read.                  *)
Wake(gap) ==
    /\ pc = "sleep"
    /\ now' = (now + gap) % ClockMod
    /\ window_open' = reed_open
    /\ moved' = FALSE
    /\ sinceRead' = Capped(sinceRead + gap, DhtReadPeriodMs + MaxGapMs)
    /\ pc' = "edge"
    /\ UNCHANGED <<reed, publish, message, last_window, last_dht_valid,
                   last_dht_ms, shared, measured, readAtZero, lost>>

(* A slip: the edges are trusted to tell every change. *)
WindowChangedByEdgeOnly == FALSE

WindowChanged == window_open # last_window

(* Slips: no regard to the wrap-around; a millisecond too early. *)
ReadIsDueUnwrapped == now >= last_dht_ms + DhtReadPeriodMs \/ last_dht_ms = 0

ReadIsDueEarly == \/ (now - last_dht_ms) % ClockMod >= DhtReadPeriodMs - 1
                  \/ last_dht_ms = 0

ReadIsDue == \/ (now - last_dht_ms) % ClockMod >= DhtReadPeriodMs
             \/ last_dht_ms = 0

(* Board_TakeReedEdge is not called when the level alone says to publish.  *)
TakeEdge ==
    /\ pc = "edge"
    /\ publish' = (WindowChanged \/ ReedEdgePending)
    /\ ReedEdgePending' = (WindowChanged /\ ReedEdgePending)
    /\ IF ReadIsDue
       THEN /\ pc' = "reading"
            /\ sinceRead' = 0
            /\ readAtZero' = (now = 0)
            /\ UNCHANGED message
       ELSE /\ pc' = "post"
            /\ message' = IF publish'
                          THEN [message EXCEPT !.window_open = window_open,
                                               !.valid = last_dht_valid]
                          ELSE message
            /\ UNCHANGED <<sinceRead, readAtZero>>
    /\ UNCHANGED <<reed_open, exti_pending, now, window_open, last_window,
                   last_dht_valid, last_dht_ms, shared, measured, lost, moved>>

(* DhtRead returns; only a success writes the reading.                     *)
ReadSucceeds(r) ==
    /\ pc = "reading"
    /\ message' = [message EXCEPT !.reading = r, !.valid = TRUE]
    /\ DhtLastError' = "NONE"
    /\ measured' = r
    /\ pc' = "record"
    /\ UNCHANGED <<reed, now, window_open, publish, last_window, last_dht_valid,
                   last_dht_ms, SensorQ, latest, DhtValid, sinceRead, readAtZero,
                   lost, moved>>

ReadFails ==
    /\ pc = "reading"
    /\ message' = [message EXCEPT !.valid = FALSE]
    /\ DhtLastError' = "FAILED"
    /\ pc' = "record"
    /\ UNCHANGED <<reed, now, window_open, publish, last_window, last_dht_valid,
                   last_dht_ms, SensorQ, latest, DhtValid, history>>

(* Slips: only an edge publishes; the window of the message is left as it  *)
(* was.                                                                    *)
RecordSampleQuietly ==
    /\ pc = "record"
    /\ last_dht_valid' = message.valid /\ DhtValid' = message.valid
    /\ message' = [message EXCEPT !.window_open = window_open]
    /\ last_dht_ms' = now
    /\ pc' = "post"
    /\ UNCHANGED <<reed, now, window_open, publish, last_window, SensorQ, latest,
                   DhtLastError, history>>

RecordSampleAlone ==
    /\ pc = "record"
    /\ last_dht_valid' = message.valid /\ DhtValid' = message.valid
    /\ publish' = TRUE
    /\ last_dht_ms' = now
    /\ pc' = "post"
    /\ UNCHANGED <<reed, now, window_open, message, last_window, SensorQ, latest,
                   DhtLastError, history>>

(* The log is written, then the rest of the branch.                        *)
RecordSample ==
    /\ pc = "record"
    /\ last_dht_valid' = message.valid
    /\ DhtValid' = message.valid
    /\ message' = [message EXCEPT !.window_open = window_open]
    /\ publish' = TRUE
    /\ last_dht_ms' = now
    /\ pc' = "post"
    /\ UNCHANGED <<reed, now, window_open, last_window, SensorQ, latest,
                   DhtLastError, history>>

(* last_window is updated whether or not the queue had room.               *)
PostSensor ==
    /\ lost' = (Len(SensorQ) = Depth)
    /\ SensorQ' = IF lost' THEN SensorQ ELSE Append(SensorQ, message)
    /\ last_window' = window_open

EndIteration ==
    /\ pc = "post"
    /\ pc' = "sleep"
    /\ IF publish THEN PostSensor ELSE UNCHANGED <<SensorQ, last_window, lost>>
    /\ publish' = FALSE /\ window_open' = FALSE   \* out of scope
    /\ UNCHANGED <<reed, now, message, last_dht_valid, last_dht_ms, latest,
                   DhtValid, DhtLastError, measured, sinceRead, readAtZero, moved>>

(* ControlTask: OSQPend returns a message.                                 *)
ControlTakes ==
    /\ SensorQ # <<>>
    /\ latest' = Head(SensorQ)
    /\ SensorQ' = Tail(SensorQ)
    /\ UNCHANGED <<reed, task, DhtValid, DhtLastError, history>>

Init ==
    /\ reed_open \in BOOLEAN
    /\ exti_pending = FALSE
    /\ ReedEdgePending \in BOOLEAN
    /\ pc = "sleep"
    /\ now = StartMs
    /\ window_open = FALSE
    /\ publish = FALSE
    /\ message = [reading |-> NoReading, window_open |-> FALSE, valid |-> FALSE]
    /\ last_window = FALSE
    /\ last_dht_valid = FALSE
    /\ last_dht_ms = 0
    /\ SensorQ = <<>>
    /\ latest = NoMessage
    /\ DhtValid = FALSE
    /\ DhtLastError = "NONE"
    /\ measured = NoReading
    /\ sinceRead = DhtReadPeriodMs
    /\ readAtZero = FALSE
    /\ lost = FALSE
    /\ moved = TRUE

Iterate ==
    \/ \E gap \in 1 .. MaxGapMs : Wake(gap)
    \/ TakeEdge
    \/ \E r \in Readings : ReadSucceeds(r)
    \/ ReadFails
    \/ RecordSample
    \/ EndIteration

Next ==
    \/ ReedMoves
    \/ ReedInterrupt
    \/ Iterate
    \/ ControlTakes

Spec == Init /\ [][Next]_vars

(* Both tasks wait only for time or for a message, and DhtRead gives up    *)
(* after APP_DHT_READ_TIMEOUT_US, so each comes round again.               *)
FairSpec == Spec /\ WF_vars(Iterate) /\ WF_vars(ControlTakes)

-----------------------------------------------------------------------------
TypeOK ==
    /\ reed_open \in BOOLEAN /\ exti_pending \in BOOLEAN
    /\ ReedEdgePending \in BOOLEAN
    /\ pc \in {"sleep", "edge", "reading", "record", "post"}
    /\ now \in 0 .. ClockMod - 1
    /\ window_open \in BOOLEAN /\ publish \in BOOLEAN
    /\ message \in SensorMsg
    /\ last_window \in BOOLEAN /\ last_dht_valid \in BOOLEAN
    /\ last_dht_ms \in 0 .. ClockMod - 1
    /\ SensorQ \in Seq(SensorMsg) /\ Len(SensorQ) <= Depth
    /\ latest \in SensorMsg \cup {NoMessage}
    /\ DhtValid \in BOOLEAN /\ DhtLastError \in Errors
    /\ measured \in Readings \cup {NoReading}
    /\ sinceRead \in 0 .. DhtReadPeriodMs + MaxGapMs
    /\ readAtZero \in BOOLEAN /\ lost \in BOOLEAN /\ moved \in BOOLEAN

StartsReading == pc # "reading" /\ pc' = "reading"

(* The sensor is left alone for DhtReadPeriodMs between two measurements,  *)
(* but after one begun when the clock showed 0, the value of last_dht_ms   *)
(* that stands for "never".                                                *)
PeriodIsKeptSinceNonZero ==
    [][StartsReading => readAtZero \/ sinceRead >= DhtReadPeriodMs]_vars

(* Measurements go on through every wrap-around of the clock: the next one *)
(* is at most one poll late.                                               *)
NoReadIsSkipped ==
    pc \in {"sleep", "post"} => sinceRead < DhtReadPeriodMs + MaxGapMs

Told == IF SensorQ = <<>> THEN latest ELSE Last(SensorQ)

(* Between two iterations ControlTask has been told how the window stands, *)
(* unless it has moved since or the last message found the queue full.     *)
ToldOfTheWindow ==
    pc = "sleep" /\ ~moved /\ ~lost => Told.window_open = reed_open

(* What ControlTask was told last is the outcome of the last measurement   *)
(* and the last reading there was, whichever comes after which: a message  *)
(* about the window alone repeats both, a failure keeps the reading.       *)
ToldOfTheMeasurement ==
    pc = "sleep" /\ ~lost /\ Told # NoMessage =>
        /\ Told.valid = (DhtLastError = "NONE")
        /\ Told.reading = measured
        /\ measured = NoReading => ~Told.valid

(* A window left alone is known to ControlTask in the end: neither a full  *)
(* queue nor an edge that was overlooked makes it stay wrong.              *)
WindowBecomesKnown ==
    \A w \in BOOLEAN :
        <>[](reed_open = w) =>
            <>[](latest # NoMessage /\ latest.window_open = w)
=============================================================================
