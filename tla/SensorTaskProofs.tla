-------------------------- MODULE SensorTaskProofs --------------------------
(***************************************************************************)
(* What ControlTask is told of window and sensor, and how often the sensor *)
(* is read, for every queue depth, every period and every clock.           *)
(***************************************************************************)
EXTENDS SensorTask, ModularClock, SequenceTheorems

(* Before the first message: nothing is queued, the first measurement is   *)
(* due at once, and it will be published.                                  *)
FirstIsToCome ==
    /\ SensorQ = <<>>
    /\ pc = "sleep" => moved
    /\ pc \in {"sleep", "edge"} => last_dht_ms = 0
    /\ pc = "post" => publish

(* What the task, the message and ControlTask know of the window.          *)
WindowInv ==
    /\ pc # "sleep" /\ ~moved => window_open = reed_open
    /\ pc = "sleep" /\ ~moved => last_window = reed_open
    /\ pc = "post" /\ ~publish => window_open = last_window
    /\ pc = "post" /\ publish => message.window_open = window_open
    /\ ~lost /\ Told # NoMessage => Told.window_open = last_window
    /\ Told = NoMessage => FirstIsToCome

(* What they know of the last measurement.                                 *)
MeasureInv ==
    /\ pc = "record" => (message.valid <=> DhtLastError = "NONE")
    /\ pc # "record" /\ (pc = "post" \/ last_dht_ms # 0 \/ Told # NoMessage)
           => (last_dht_valid <=> DhtLastError = "NONE")
    /\ pc = "post" /\ publish => (message.valid <=> last_dht_valid)
    /\ last_dht_valid \/ message.valid => measured # NoReading
    /\ message.reading = measured
    /\ ~lost /\ Told # NoMessage /\ ~(pc = "post" /\ publish)
           => (Told.valid <=> last_dht_valid)
    /\ ~lost /\ Told # NoMessage /\ pc # "record" /\ ~(pc = "post" /\ publish)
           => Told.reading = measured

(* The stopwatch and the clock agree on when the last measurement began,   *)
(* except where 0 stands for "never".                                      *)
PeriodInv ==
    /\ pc \in {"sleep", "post"} => sinceRead <= DhtReadPeriodMs
    /\ pc \in {"sleep", "post"} /\ last_dht_ms # 0 => sinceRead < DhtReadPeriodMs
    /\ pc \in {"sleep", "edge", "post"} /\ last_dht_ms # 0 =>
           (now - last_dht_ms) % ClockMod = sinceRead
    /\ pc \in {"sleep", "edge", "post"} /\ last_dht_ms = 0 =>
           readAtZero \/ sinceRead >= DhtReadPeriodMs
    /\ pc \in {"reading", "record"} => sinceRead = 0 /\ (readAtZero <=> now = 0)

SensorInv ==
    /\ TypeOK
    /\ WindowInv
    /\ MeasureInv
    /\ PeriodInv

-----------------------------------------------------------------------------
(* The newest message on its way to ControlTask.                           *)

LEMMA ToldKept ==
    ASSUME UNCHANGED <<SensorQ, latest>>
    PROVE  Told' = Told
  BY DEF Told, Last

LEMMA ToldType ==
    ASSUME TypeOK
    PROVE  Told \in SensorMsg \cup {NoMessage}
  <1>1. SensorQ \in Seq(SensorMsg) /\ latest \in SensorMsg \cup {NoMessage}
    BY DEF TypeOK
  <1> HIDE DEF SensorMsg
  <1>2. CASE SensorQ = <<>>
    BY <1>1, <1>2 DEF Told
  <1>3. CASE SensorQ # <<>>
    BY <1>1, <1>3 DEF Told, Last
  <1> QED
    BY <1>2, <1>3

LEMMA ToldOnTake ==
    ASSUME TypeOK, ControlTakes
    PROVE  /\ Told' = Told
           /\ Told # NoMessage
           /\ SensorQ' \in Seq(SensorMsg) /\ Len(SensorQ') <= Depth
           /\ latest' \in SensorMsg
  <1>1. SensorQ \in Seq(SensorMsg) /\ Len(SensorQ) <= Depth
    BY DEF TypeOK
  <1>2. /\ SensorQ # <<>>
        /\ SensorQ' = Tail(SensorQ)
        /\ latest' = Head(SensorQ)
    BY DEF ControlTakes
  <1>3. Depth \in Nat /\ NoMessage \notin SensorMsg
    BY SensorAssumption
  <1>4. Len(SensorQ) \in Nat \ {0}
    BY <1>1, <1>2
  <1>5. SensorQ' \in Seq(SensorMsg) /\ Len(SensorQ') = Len(SensorQ) - 1
    BY <1>1, <1>2
  <1>6. latest' \in SensorMsg
    BY <1>1, <1>2
  <1>7. Told = SensorQ[Len(SensorQ)]
    BY <1>2 DEF Told, Last
  <1>8. SensorQ[Len(SensorQ)] \in SensorMsg
    BY <1>1, <1>4
  <1>9. Told' = Told
    <2>1. CASE Len(SensorQ) = 1
      <3>1. SensorQ' = <<>>
        BY <1>1, <1>2, <1>5, <2>1
      <3>2. Told' = Head(SensorQ)
        BY <1>2, <3>1 DEF Told
      <3> QED
        BY <1>1, <1>7, <2>1, <3>2
    <2>2. CASE Len(SensorQ) # 1
      <3>1. Len(SensorQ') >= 1 /\ Len(SensorQ') \in Nat
        BY <1>4, <1>5, <2>2
      <3>2. SensorQ' # <<>>
        BY <3>1
      <3>3. Told' = SensorQ'[Len(SensorQ')]
        BY <3>2 DEF Told, Last
      <3>4. Tail(SensorQ)[Len(SensorQ) - 1] = SensorQ[Len(SensorQ)]
        <4>1. /\ Len(Tail(SensorQ)) = Len(SensorQ) - 1
              /\ \A i \in 1 .. Len(Tail(SensorQ)) : Tail(SensorQ)[i] = SensorQ[i + 1]
          BY <1>1, <1>2, HeadTailProperties
        <4> DEFINE n == Len(SensorQ) - 1
        <4>2. n \in 1 .. Len(Tail(SensorQ)) /\ n + 1 = Len(SensorQ)
          BY <1>4, <2>2, <4>1
        <4> HIDE DEF n
        <4>3. Tail(SensorQ)[n] = SensorQ[n + 1]
          BY <4>1, <4>2
        <4> QED
          BY <4>2, <4>3 DEF n
      <3> QED
        BY <1>2, <1>5, <1>7, <3>3, <3>4
    <2> QED
      BY <2>1, <2>2
  <1> QED
    BY <1>1, <1>3, <1>4, <1>5, <1>6, <1>7, <1>8, <1>9

LEMMA ToldOnPost ==
    ASSUME TypeOK, SensorQ' = Append(SensorQ, message)
    PROVE  /\ Told' = message
           /\ SensorQ' # <<>>
           /\ SensorQ' \in Seq(SensorMsg)
           /\ Len(SensorQ') = Len(SensorQ) + 1
  <1>1. SensorQ \in Seq(SensorMsg) /\ message \in SensorMsg
    BY DEF TypeOK
  <1> HIDE DEF SensorMsg
  <1>2. /\ SensorQ' \in Seq(SensorMsg)
        /\ Len(SensorQ') = Len(SensorQ) + 1
        /\ SensorQ'[Len(SensorQ) + 1] = message
    BY <1>1
  <1>3. Len(SensorQ) \in Nat
    BY <1>1
  <1>4. SensorQ' # <<>>
    BY <1>2, <1>3
  <1> QED
    BY <1>2, <1>4 DEF Told, Last

LEMMA MessagesAreTyped ==
    ASSUME NEW r \in Readings \cup {NoReading}, NEW w \in BOOLEAN, NEW v \in BOOLEAN,
           NEW m \in SensorMsg
    PROVE  /\ [m EXCEPT !.reading = r, !.valid = v] \in SensorMsg
           /\ [m EXCEPT !.valid = v] \in SensorMsg
           /\ [m EXCEPT !.window_open = w, !.valid = v] \in SensorMsg
           /\ [m EXCEPT !.window_open = w] \in SensorMsg
           /\ [m EXCEPT !.reading = r, !.valid = v].reading = r
           /\ [m EXCEPT !.reading = r, !.valid = v].valid = v
           /\ [m EXCEPT !.valid = v].valid = v
           /\ [m EXCEPT !.valid = v].reading = m.reading
           /\ [m EXCEPT !.window_open = w, !.valid = v].window_open = w
           /\ [m EXCEPT !.window_open = w, !.valid = v].valid = v
           /\ [m EXCEPT !.window_open = w, !.valid = v].reading = m.reading
           /\ [m EXCEPT !.window_open = w].window_open = w
           /\ [m EXCEPT !.window_open = w].valid = m.valid
           /\ [m EXCEPT !.window_open = w].reading = m.reading
  BY DEF SensorMsg

LEMMA CappedType ==
    ASSUME NEW n \in Nat, NEW cap \in Nat
    PROVE  /\ Capped(n, cap) \in 0 .. cap
           /\ Capped(n, cap) = n \/ Capped(n, cap) = cap
           /\ n <= cap => Capped(n, cap) = n
  BY DEF Capped

LEMMA Numbers ==
    /\ DhtReadPeriodMs \in Nat \ {0}
    /\ MaxGapMs \in Nat \ {0}
    /\ ClockMod \in Nat \ {0}
    /\ DhtReadPeriodMs + MaxGapMs < ClockMod
    /\ StartMs \in 1 .. ClockMod - 1
    /\ Depth \in Nat \ {0}
  BY SensorAssumption

-----------------------------------------------------------------------------
(* Types.                                                                  *)

LEMMA InitTypeOK == Init => TypeOK
  <1> SUFFICES ASSUME Init PROVE TypeOK
    OBVIOUS
  <1>1. message \in SensorMsg
    BY DEF Init, SensorMsg
  <1>2. SensorQ \in Seq(SensorMsg) /\ Len(SensorQ) <= Depth
    BY Numbers DEF Init
  <1>3. /\ now \in 0 .. ClockMod - 1 /\ last_dht_ms \in 0 .. ClockMod - 1
        /\ sinceRead \in 0 .. DhtReadPeriodMs + MaxGapMs
    BY Numbers DEF Init
  <1> QED
    BY <1>1, <1>2, <1>3 DEF Init, TypeOK, Errors

LEMMA WakeTypeOK ==
    ASSUME TypeOK, NEW gap \in 1 .. MaxGapMs, Wake(gap)
    PROVE  TypeOK'
  <1>1. now' \in 0 .. ClockMod - 1
    <2>1. now + gap \in Int
      BY DEF TypeOK
    <2>2. now' = (now + gap) % ClockMod
      BY DEF Wake
    <2> QED
      BY <2>1, <2>2, Numbers, ModType
  <1>2. sinceRead' \in 0 .. DhtReadPeriodMs + MaxGapMs
    <2>1. sinceRead + gap \in Nat /\ DhtReadPeriodMs + MaxGapMs \in Nat
      BY Numbers DEF TypeOK
    <2>2. sinceRead' = Capped(sinceRead + gap, DhtReadPeriodMs + MaxGapMs)
      BY DEF Wake
    <2> QED
      BY <2>1, <2>2, CappedType
  <1> QED
    BY <1>1, <1>2 DEF TypeOK, Wake, reed, shared

LEMMA OthersTypeOK ==
    ASSUME TypeOK, ReedMoves \/ ReedInterrupt \/ ControlTakes
    PROVE  TypeOK'
  <1>1. CASE ReedMoves
    BY <1>1 DEF TypeOK, ReedMoves, task, shared
  <1>2. CASE ReedInterrupt
    <2>1. exti_pending' \in BOOLEAN /\ ReedEdgePending' \in BOOLEAN
      BY <1>2 DEF ReedInterrupt
    <2>2. UNCHANGED <<reed_open, task, shared, history>>
      BY <1>2 DEF ReedInterrupt
    <2> QED
      BY <2>1, <2>2 DEF TypeOK, task, shared, history
  <1>3. CASE ControlTakes
    <2>1. /\ SensorQ' \in Seq(SensorMsg) /\ Len(SensorQ') <= Depth
          /\ latest' \in SensorMsg
      BY <1>3, ToldOnTake
    <2> QED
      BY <1>3, <2>1 DEF TypeOK, ControlTakes, reed, task, history
  <1> QED
    BY <1>1, <1>2, <1>3

LEMMA TakeEdgeTypeOK ==
    ASSUME TypeOK, TakeEdge
    PROVE  TypeOK'
  <1>1. publish' \in BOOLEAN /\ ReedEdgePending' \in BOOLEAN
    BY DEF TakeEdge
  <1>2. /\ message' \in SensorMsg
        /\ pc' \in {"reading", "post"}
        /\ sinceRead' \in 0 .. DhtReadPeriodMs + MaxGapMs
        /\ readAtZero' \in BOOLEAN
    <2>1. CASE ReadIsDue
      BY <2>1, Numbers DEF TakeEdge, TypeOK
    <2>2. CASE ~ReadIsDue
      BY <2>2 DEF TakeEdge, TypeOK, SensorMsg
    <2> QED
      BY <2>1, <2>2
  <1> QED
    BY <1>1, <1>2 DEF TypeOK, TakeEdge, shared

LEMMA ReadTypeOK ==
    ASSUME TypeOK, ReadFails \/ (\E r \in Readings : ReadSucceeds(r))
    PROVE  TypeOK'
  <1>1. CASE ReadFails
    <2>1. message' \in SensorMsg
      BY <1>1 DEF ReadFails, TypeOK, SensorMsg
    <2>2. pc' = "record" /\ DhtLastError' \in Errors
      BY <1>1 DEF ReadFails, Errors
    <2>3. UNCHANGED <<reed, now, window_open, publish, last_window, last_dht_valid,
                      last_dht_ms, SensorQ, latest, DhtValid, history>>
      BY <1>1 DEF ReadFails
    <2> QED
      BY <2>1, <2>2, <2>3 DEF TypeOK, reed, history
  <1>2. ASSUME NEW r \in Readings, ReadSucceeds(r)
        PROVE  TypeOK'
    <2>1. message' \in SensorMsg
      BY <1>2 DEF ReadSucceeds, TypeOK, SensorMsg
    <2>2. pc' = "record" /\ DhtLastError' \in Errors /\ measured' = r
      BY <1>2 DEF ReadSucceeds, Errors
    <2>3. UNCHANGED <<reed, now, window_open, publish, last_window, last_dht_valid,
                      last_dht_ms, SensorQ, latest, DhtValid, sinceRead,
                      readAtZero, lost, moved>>
      BY <1>2 DEF ReadSucceeds
    <2> QED
      BY <2>1, <2>2, <2>3 DEF TypeOK, reed
  <1> QED
    BY <1>1, <1>2

LEMMA RecordTypeOK ==
    ASSUME TypeOK, RecordSample
    PROVE  TypeOK'
  <1>1. message' \in SensorMsg /\ message.valid \in BOOLEAN
    BY DEF RecordSample, TypeOK, SensorMsg
  <1> QED
    BY <1>1 DEF TypeOK, RecordSample, reed, history

LEMMA EndTypeOK ==
    ASSUME TypeOK, EndIteration
    PROVE  TypeOK'
  <1>1. SensorQ' \in Seq(SensorMsg) /\ Len(SensorQ') <= Depth
    <2>1. SensorQ \in Seq(SensorMsg) /\ Len(SensorQ) <= Depth /\ Len(SensorQ) \in Nat
      BY DEF TypeOK
    <2>2. CASE SensorQ' = SensorQ
      BY <2>1, <2>2
    <2>3. CASE Len(SensorQ) # Depth /\ SensorQ' = Append(SensorQ, message)
      BY <2>1, <2>3, ToldOnPost, Numbers
    <2> QED
      BY <2>2, <2>3 DEF EndIteration, PostSensor
  <1>2. last_window' \in BOOLEAN /\ lost' \in BOOLEAN
    BY DEF EndIteration, PostSensor, TypeOK
  <1> QED
    BY <1>1, <1>2 DEF TypeOK, EndIteration, reed

-----------------------------------------------------------------------------
(* The window.                                                             *)

LEMMA InitWindowInv == Init => WindowInv
  <1> SUFFICES ASSUME Init PROVE WindowInv
    OBVIOUS
  <1>1. Told = NoMessage /\ FirstIsToCome
    BY DEF Init, Told, FirstIsToCome
  <1>2. pc = "sleep" /\ moved
    BY DEF Init
  <1> QED
    BY <1>1, <1>2 DEF WindowInv

LEMMA ReedWindowInv ==
    ASSUME TypeOK, WindowInv, ReedMoves \/ ReedInterrupt
    PROVE  WindowInv'
  <1>1. CASE ReedMoves
    <2>1. Told' = Told
      BY <1>1, ToldKept DEF ReedMoves, shared
    <2>2. moved' /\ UNCHANGED <<pc, window_open, publish, message, last_window,
                                last_dht_ms, SensorQ, lost>>
      BY <1>1 DEF ReedMoves, task, shared
    <2> QED
      BY <2>1, <2>2 DEF WindowInv, FirstIsToCome
  <1>2. CASE ReedInterrupt
    <2>1. Told' = Told
      BY <1>2, ToldKept DEF ReedInterrupt, shared
    <2>2. UNCHANGED <<pc, window_open, publish, message, last_window,
                      last_dht_ms, SensorQ, lost, moved, reed_open>>
      BY <1>2 DEF ReedInterrupt, task, shared, history
    <2> QED
      BY <2>1, <2>2 DEF WindowInv, FirstIsToCome
  <1> QED
    BY <1>1, <1>2

LEMMA WakeWindowInv ==
    ASSUME TypeOK, WindowInv, NEW gap \in 1 .. MaxGapMs, Wake(gap)
    PROVE  WindowInv'
  <1>1. Told' = Told
    BY ToldKept DEF Wake, shared
  <1>2. /\ pc = "sleep" /\ pc' = "edge"
        /\ window_open' = reed_open /\ reed_open' = reed_open
        /\ UNCHANGED <<last_window, last_dht_ms, SensorQ, lost>>
    BY DEF Wake, reed, shared
  <1> QED
    BY <1>1, <1>2 DEF WindowInv, FirstIsToCome

LEMMA TakeEdgeWindowInv ==
    ASSUME TypeOK, WindowInv, TakeEdge
    PROVE  WindowInv'
  <1>1. Told' = Told
    BY ToldKept DEF TakeEdge, shared
  <1>2. /\ pc = "edge" /\ pc' \in {"reading", "post"}
        /\ UNCHANGED <<window_open, reed_open, moved, last_window, last_dht_ms,
                       SensorQ, lost>>
    BY DEF TakeEdge, shared
  <1>3. ~publish' => window_open = last_window
    BY DEF TakeEdge, WindowChanged
  <1>4. pc' = "post" => last_dht_ms # 0
    BY DEF TakeEdge, ReadIsDue
  <1>5. pc' = "post" /\ publish' => message'.window_open = window_open
    <2> SUFFICES ASSUME pc' = "post", publish'
                 PROVE  message'.window_open = window_open
      OBVIOUS
    <2>1. message' = [message EXCEPT !.window_open = window_open,
                                     !.valid = last_dht_valid]
      BY DEF TakeEdge
    <2>2. message \in SensorMsg
      BY DEF TypeOK
    <2> QED
      BY <2>1, <2>2 DEF SensorMsg
  <1> QED
    BY <1>1, <1>2, <1>3, <1>4, <1>5 DEF WindowInv, FirstIsToCome

LEMMA ReadWindowInv ==
    ASSUME TypeOK, WindowInv, ReadFails \/ (\E r \in Readings : ReadSucceeds(r))
    PROVE  WindowInv'
  <1>1. /\ pc = "reading" /\ pc' = "record"
        /\ UNCHANGED <<window_open, reed_open, moved, last_window, SensorQ,
                       latest, lost>>
    BY DEF ReadFails, ReadSucceeds, reed, history
  <1>2. Told' = Told
    BY <1>1, ToldKept
  <1> QED
    BY <1>1, <1>2 DEF WindowInv, FirstIsToCome

LEMMA RecordWindowInv ==
    ASSUME TypeOK, WindowInv, RecordSample
    PROVE  WindowInv'
  <1>1. /\ pc = "record" /\ pc' = "post" /\ publish'
        /\ UNCHANGED <<window_open, reed_open, moved, last_window, SensorQ,
                       latest, lost>>
    BY DEF RecordSample, reed, history
  <1>2. Told' = Told
    BY <1>1, ToldKept
  <1>3. message'.window_open = window_open
    BY DEF RecordSample, TypeOK, SensorMsg
  <1> QED
    BY <1>1, <1>2, <1>3 DEF WindowInv, FirstIsToCome

LEMMA EndWindowInv ==
    ASSUME TypeOK, WindowInv, EndIteration
    PROVE  WindowInv'
  <1>1. /\ pc = "post" /\ pc' = "sleep"
        /\ UNCHANGED <<reed_open, moved, latest>>
    BY DEF EndIteration, reed
  <1>2. CASE ~publish
    <2>1. UNCHANGED <<SensorQ, last_window, lost>>
      BY <1>2 DEF EndIteration
    <2>2. Told' = Told
      BY <1>1, <2>1, ToldKept
    <2>3. Told # NoMessage
      BY <1>1, <1>2 DEF WindowInv, FirstIsToCome
    <2> QED
      BY <1>1, <1>2, <2>1, <2>2, <2>3 DEF WindowInv
  <1>3. CASE publish /\ Len(SensorQ) = Depth
    <2>1. /\ SensorQ' = SensorQ /\ lost' /\ last_window' = window_open
      BY <1>3 DEF EndIteration, PostSensor
    <2>2. Told' = Told
      BY <1>1, <2>1, ToldKept
    <2>3. SensorQ # <<>>
      BY <1>3, Numbers
    <2>4. Told # NoMessage
      BY <2>3 DEF WindowInv, FirstIsToCome
    <2> QED
      BY <1>1, <2>1, <2>2, <2>4 DEF WindowInv
  <1>4. CASE publish /\ Len(SensorQ) # Depth
    <2>1. SensorQ' = Append(SensorQ, message) /\ last_window' = window_open
      BY <1>4 DEF EndIteration, PostSensor
    <2>2. Told' = message
      BY <2>1, ToldOnPost
    <2>3. Told' # NoMessage
      BY <2>2, SensorAssumption DEF TypeOK
    <2>4. message.window_open = window_open
      BY <1>1, <1>4 DEF WindowInv
    <2>5. ~moved => window_open = reed_open
      BY <1>1 DEF WindowInv
    <2> QED
      BY <1>1, <2>1, <2>2, <2>3, <2>4, <2>5 DEF WindowInv
  <1> QED
    BY <1>2, <1>3, <1>4

LEMMA ControlWindowInv ==
    ASSUME TypeOK, WindowInv, ControlTakes
    PROVE  WindowInv'
  <1>1. Told' = Told /\ Told # NoMessage
    BY ToldOnTake
  <1>2. UNCHANGED <<pc, window_open, publish, message, last_window, reed_open,
                    lost, moved>>
    BY DEF ControlTakes, reed, task, history
  <1> QED
    BY <1>1, <1>2 DEF WindowInv

-----------------------------------------------------------------------------
(* The measurement.                                                        *)

LEMMA InitMeasureInv == Init => MeasureInv
  <1> SUFFICES ASSUME Init PROVE MeasureInv
    OBVIOUS
  <1>1. /\ Told = NoMessage /\ pc = "sleep" /\ last_dht_ms = 0
        /\ ~last_dht_valid /\ ~message.valid
        /\ message.reading = NoReading /\ measured = NoReading
    BY DEF Init, Told
  <1> QED
    BY <1>1 DEF MeasureInv

LEMMA OthersMeasureInv ==
    ASSUME TypeOK, MeasureInv, ReedMoves \/ ReedInterrupt \/ ControlTakes
    PROVE  MeasureInv'
  <1>1. UNCHANGED <<pc, publish, message, last_dht_valid, last_dht_ms,
                    DhtLastError, measured, lost>>
    BY DEF ReedMoves, ReedInterrupt, ControlTakes, task, shared, history
  <1>2. Told' = Told
    <2>1. CASE ControlTakes
      BY <2>1, ToldOnTake
    <2>2. CASE ReedMoves \/ ReedInterrupt
      BY <2>2, ToldKept DEF ReedMoves, ReedInterrupt, shared
    <2> QED
      BY <2>1, <2>2
  <1> QED
    BY <1>1, <1>2 DEF MeasureInv

LEMMA WakeMeasureInv ==
    ASSUME TypeOK, MeasureInv, NEW gap \in 1 .. MaxGapMs, Wake(gap)
    PROVE  MeasureInv'
  <1>1. Told' = Told
    BY ToldKept DEF Wake, shared
  <1>2. /\ pc = "sleep" /\ pc' = "edge"
        /\ UNCHANGED <<message, last_dht_valid, last_dht_ms, DhtLastError,
                       measured, lost>>
    BY DEF Wake, shared
  <1> QED
    BY <1>1, <1>2 DEF MeasureInv

LEMMA TakeEdgeMeasureInv ==
    ASSUME TypeOK, MeasureInv, TakeEdge
    PROVE  MeasureInv'
  <1>1. Told' = Told
    BY ToldKept DEF TakeEdge, shared
  <1>2. /\ pc = "edge" /\ pc' \in {"reading", "post"}
        /\ UNCHANGED <<last_dht_valid, last_dht_ms, DhtLastError, measured, lost>>
    BY DEF TakeEdge, shared
  <1>3. pc' = "post" => last_dht_ms # 0
    BY DEF TakeEdge, ReadIsDue
  <1>4. /\ pc' = "post" /\ publish' => message'.valid = last_dht_valid
        /\ message'.reading = message.reading
        /\ message'.valid = message.valid \/ message'.valid = last_dht_valid
    <2>1. message \in SensorMsg /\ last_dht_valid \in BOOLEAN
      BY DEF TypeOK
    <2>2. CASE message' = message /\ (pc' = "post" => ~publish')
      BY <2>2
    <2>3. CASE message' = [message EXCEPT !.window_open = window_open,
                                          !.valid = last_dht_valid]
      BY <2>1, <2>3 DEF SensorMsg
    <2> QED
      BY <2>2, <2>3 DEF TakeEdge
  <1>5. pc' = "post" => (last_dht_valid <=> DhtLastError = "NONE")
    BY <1>2, <1>3 DEF MeasureInv
  <1> QED
    BY <1>1, <1>2, <1>4, <1>5 DEF MeasureInv

LEMMA ReadMeasureInv ==
    ASSUME TypeOK, MeasureInv, ReadFails \/ (\E r \in Readings : ReadSucceeds(r))
    PROVE  MeasureInv'
  <1>1. /\ pc = "reading" /\ pc' = "record"
        /\ UNCHANGED <<last_dht_valid, SensorQ, latest, lost>>
    BY DEF ReadFails, ReadSucceeds, history
  <1>2. Told' = Told
    BY <1>1, ToldKept
  <1>3. message \in SensorMsg
    BY DEF TypeOK
  <1>4. CASE ReadFails
    <2>1. ~message'.valid /\ message'.reading = message.reading
      BY <1>3, <1>4 DEF ReadFails, SensorMsg
    <2>2. DhtLastError' # "NONE" /\ measured' = measured
      BY <1>4 DEF ReadFails, history
    <2> QED
      BY <1>1, <1>2, <2>1, <2>2 DEF MeasureInv
  <1>5. ASSUME NEW r \in Readings, ReadSucceeds(r)
        PROVE  MeasureInv'
    <2>1. message'.valid /\ message'.reading = r
      BY <1>3, <1>5 DEF ReadSucceeds, SensorMsg
    <2>2. DhtLastError' = "NONE" /\ measured' = r
      BY <1>5 DEF ReadSucceeds
    <2>3. r # NoReading
      BY SensorAssumption
    <2> QED
      BY <1>1, <1>2, <2>1, <2>2, <2>3 DEF MeasureInv
  <1> QED
    BY <1>4, <1>5

LEMMA RecordMeasureInv ==
    ASSUME TypeOK, MeasureInv, RecordSample
    PROVE  MeasureInv'
  <1>1. /\ pc = "record" /\ pc' = "post" /\ publish'
        /\ UNCHANGED <<DhtLastError, SensorQ, latest, measured, lost>>
    BY DEF RecordSample, history
  <1>2. Told' = Told
    BY <1>1, ToldKept
  <1>3. /\ message'.valid = message.valid
        /\ message'.reading = message.reading
    BY DEF RecordSample, TypeOK, SensorMsg
  <1>4. last_dht_valid' = message.valid
    BY DEF RecordSample
  <1> QED
    BY <1>1, <1>2, <1>3, <1>4 DEF MeasureInv

LEMMA EndMeasureInv ==
    ASSUME TypeOK, MeasureInv, EndIteration
    PROVE  MeasureInv'
  <1>1. /\ pc = "post" /\ pc' = "sleep"
        /\ UNCHANGED <<message, last_dht_valid, last_dht_ms, latest, DhtLastError,
                       measured>>
    BY DEF EndIteration
  <1>2. CASE ~publish
    <2>1. SensorQ' = SensorQ /\ lost' = lost
      BY <1>2 DEF EndIteration
    <2>2. Told' = Told
      BY <1>1, <2>1, ToldKept
    <2> QED
      BY <1>1, <1>2, <2>1, <2>2 DEF MeasureInv
  <1>3. CASE publish /\ Len(SensorQ) = Depth
    <2>1. SensorQ' = SensorQ /\ lost'
      BY <1>3 DEF EndIteration, PostSensor
    <2>2. Told' = Told
      BY <1>1, <2>1, ToldKept
    <2> QED
      BY <1>1, <2>1, <2>2 DEF MeasureInv
  <1>4. CASE publish /\ Len(SensorQ) # Depth
    <2>1. SensorQ' = Append(SensorQ, message)
      BY <1>4 DEF EndIteration, PostSensor
    <2>2. Told' = message
      BY <2>1, ToldOnPost
    <2> QED
      BY <1>1, <1>4, <2>2 DEF MeasureInv
  <1> QED
    BY <1>2, <1>3, <1>4

-----------------------------------------------------------------------------
(* The period.                                                             *)

LEMMA InitPeriodInv == Init => PeriodInv
  BY Numbers DEF Init, PeriodInv

LEMMA WakePeriodInv ==
    ASSUME TypeOK, PeriodInv, NEW gap \in 1 .. MaxGapMs, Wake(gap)
    PROVE  PeriodInv'
  <1>1. /\ now \in 0 .. ClockMod - 1 /\ last_dht_ms \in 0 .. ClockMod - 1
        /\ sinceRead \in 0 .. DhtReadPeriodMs + MaxGapMs
    BY DEF TypeOK
  <1>2. /\ pc = "sleep" /\ pc' = "edge"
        /\ now' = (now + gap) % ClockMod
        /\ UNCHANGED <<last_dht_ms, readAtZero>>
    BY DEF Wake
  <1>3. sinceRead <= DhtReadPeriodMs
    BY <1>2 DEF PeriodInv
  <1>4. sinceRead' = sinceRead + gap
    <2>1. sinceRead' = Capped(sinceRead + gap, DhtReadPeriodMs + MaxGapMs)
      BY DEF Wake
    <2>2. /\ sinceRead + gap \in Nat /\ DhtReadPeriodMs + MaxGapMs \in Nat
          /\ sinceRead + gap <= DhtReadPeriodMs + MaxGapMs
      BY <1>1, <1>3, Numbers
    <2> QED
      BY <2>1, <2>2, CappedType
  <1>5. last_dht_ms # 0 => (now' - last_dht_ms) % ClockMod = sinceRead'
    <2> SUFFICES ASSUME last_dht_ms # 0
                 PROVE  (now' - last_dht_ms) % ClockMod = sinceRead'
      OBVIOUS
    <2>1. (now - last_dht_ms) % ClockMod = sinceRead
      BY <1>2 DEF PeriodInv
    <2>2. ((now - last_dht_ms) % ClockMod) + gap < ClockMod
      BY <1>1, <1>3, <2>1, Numbers
    <2>3. (((now + gap) % ClockMod) - last_dht_ms) % ClockMod
              = ((now - last_dht_ms) % ClockMod) + gap
      <3>1. gap \in Nat
        OBVIOUS
      <3> QED
        BY <1>1, <2>2, <3>1, Numbers, DifferenceAdvances
    <2> QED
      BY <1>2, <1>4, <2>1, <2>3
  <1>6. last_dht_ms = 0 => readAtZero \/ sinceRead' >= DhtReadPeriodMs
    <2>1. sinceRead' >= sinceRead
      BY <1>1, <1>4
    <2>2. last_dht_ms = 0 => readAtZero \/ sinceRead >= DhtReadPeriodMs
      BY <1>2 DEF PeriodInv
    <2>3. sinceRead >= DhtReadPeriodMs => sinceRead' >= DhtReadPeriodMs
      BY <1>1, <1>4, Numbers
    <2> QED
      BY <2>2, <2>3
  <1> QED
    BY <1>2, <1>5, <1>6 DEF PeriodInv

LEMMA TakeEdgePeriodInv ==
    ASSUME TypeOK, PeriodInv, TakeEdge
    PROVE  PeriodInv'
  <1>1. pc = "edge" /\ UNCHANGED <<now, last_dht_ms>>
    BY DEF TakeEdge
  <1>2. CASE ReadIsDue
    <2>1. pc' = "reading" /\ sinceRead' = 0 /\ readAtZero' = (now = 0)
      BY <1>2 DEF TakeEdge
    <2>2. readAtZero' <=> now' = 0
      BY <1>1, <2>1
    <2> QED
      BY <2>1, <2>2 DEF PeriodInv
  <1>3. CASE ~ReadIsDue
    <2>1. pc' = "post" /\ sinceRead' = sinceRead
      BY <1>3 DEF TakeEdge
    <2>2. /\ last_dht_ms # 0
          /\ ~((now - last_dht_ms) % ClockMod >= DhtReadPeriodMs)
      BY <1>3 DEF ReadIsDue
    <2>3. (now - last_dht_ms) % ClockMod = sinceRead
      BY <1>1, <2>2 DEF PeriodInv
    <2>4. sinceRead < DhtReadPeriodMs
      BY <2>2, <2>3, Numbers DEF TypeOK
    <2>5. sinceRead <= DhtReadPeriodMs
      BY <2>4, Numbers DEF TypeOK
    <2> QED
      BY <1>1, <2>1, <2>2, <2>3, <2>4, <2>5 DEF PeriodInv
  <1> QED
    BY <1>2, <1>3

LEMMA RecordPeriodInv ==
    ASSUME TypeOK, PeriodInv, RecordSample
    PROVE  PeriodInv'
  <1>1. /\ pc = "record" /\ pc' = "post"
        /\ last_dht_ms' = now
        /\ UNCHANGED <<now, sinceRead, readAtZero>>
    BY DEF RecordSample, history
  <1>2. sinceRead = 0 /\ (readAtZero <=> now = 0)
    BY <1>1 DEF PeriodInv
  <1>3. (now - now) % ClockMod = 0
    BY Numbers, DifferenceToItself DEF TypeOK
  <1>4. (now' - last_dht_ms') % ClockMod = sinceRead'
    BY <1>1, <1>2, <1>3
  <1>5. sinceRead' <= DhtReadPeriodMs /\ sinceRead' < DhtReadPeriodMs
    BY <1>1, <1>2, Numbers
  <1>6. last_dht_ms' = 0 => readAtZero'
    BY <1>1, <1>2
  <1> QED
    BY <1>1, <1>4, <1>5, <1>6 DEF PeriodInv

LEMMA OthersPeriodInv ==
    ASSUME PeriodInv,
           \/ ReedMoves \/ ReedInterrupt \/ ControlTakes
           \/ ReadFails \/ (\E r \in Readings : ReadSucceeds(r))
           \/ EndIteration
    PROVE  PeriodInv'
  <1>1. UNCHANGED <<now, last_dht_ms, sinceRead, readAtZero>>
    BY DEF ReedMoves, ReedInterrupt, ControlTakes, ReadFails, ReadSucceeds,
           EndIteration, task, history
  <1>2. \/ pc' = pc
        \/ pc = "reading" /\ pc' = "record"
        \/ pc = "post" /\ pc' = "sleep"
    BY DEF ReedMoves, ReedInterrupt, ControlTakes, ReadFails, ReadSucceeds,
           EndIteration, task
  <1> QED
    BY <1>1, <1>2 DEF PeriodInv

-----------------------------------------------------------------------------
LEMMA NextKeepsSensorInv == SensorInv /\ [Next]_vars => SensorInv'
  <1> SUFFICES ASSUME SensorInv, [Next]_vars PROVE SensorInv'
    OBVIOUS
  <1> USE DEF SensorInv
  <1>1. CASE ReedMoves \/ ReedInterrupt
    BY <1>1, OthersTypeOK, ReedWindowInv, OthersMeasureInv, OthersPeriodInv
  <1>2. ASSUME NEW gap \in 1 .. MaxGapMs, Wake(gap)
        PROVE  SensorInv'
    BY <1>2, WakeTypeOK, WakeWindowInv, WakeMeasureInv, WakePeriodInv
  <1>3. CASE TakeEdge
    BY <1>3, TakeEdgeTypeOK, TakeEdgeWindowInv, TakeEdgeMeasureInv,
       TakeEdgePeriodInv
  <1>4. CASE ReadFails \/ (\E r \in Readings : ReadSucceeds(r))
    BY <1>4, ReadTypeOK, ReadWindowInv, ReadMeasureInv, OthersPeriodInv
  <1>5. CASE RecordSample
    BY <1>5, RecordTypeOK, RecordWindowInv, RecordMeasureInv, RecordPeriodInv
  <1>6. CASE EndIteration
    BY <1>6, EndTypeOK, EndWindowInv, EndMeasureInv, OthersPeriodInv
  <1>7. CASE ControlTakes
    BY <1>7, OthersTypeOK, ControlWindowInv, OthersMeasureInv, OthersPeriodInv
  <1>8. CASE UNCHANGED vars
    <2>1. UNCHANGED <<reed_open, exti_pending, ReedEdgePending, pc, now,
                      window_open, publish, message, last_window, last_dht_valid,
                      last_dht_ms, SensorQ, latest, DhtValid, DhtLastError,
                      measured, sinceRead, readAtZero, lost, moved>>
      BY <1>8 DEF vars, reed, task, shared, history
    <2>2. Told' = Told
      BY <2>1, ToldKept
    <2>3. TypeOK'
      BY <2>1 DEF TypeOK
    <2>4. WindowInv'
      BY <2>1, <2>2 DEF WindowInv, FirstIsToCome
    <2>5. MeasureInv'
      BY <2>1, <2>2 DEF MeasureInv
    <2>6. PeriodInv'
      BY <2>1 DEF PeriodInv
    <2> QED
      BY <2>3, <2>4, <2>5, <2>6
  <1> QED
    BY <1>1, <1>2, <1>3, <1>4, <1>5, <1>6, <1>7, <1>8 DEF Next, Iterate

(* The inductive invariant of SensorTask: its stopwatch and clock agree,   *)
(* and the task, the message it fills in and what ControlTask has been     *)
(* told of window and sensor tell the same.                                *)
THEOREM SensorInvariant == Spec => []SensorInv
  <1>1. Init => SensorInv
    BY InitTypeOK, InitWindowInv, InitMeasureInv, InitPeriodInv DEF SensorInv
  <1> QED
    BY <1>1, NextKeepsSensorInv, PTL DEF Spec

(* The types of SensorTask's state; no more than Depth messages wait.      *)
THEOREM SensorTypeCorrect == Spec => []TypeOK
  <1>1. SensorInv => TypeOK
    BY DEF SensorInv
  <1> QED
    BY <1>1, SensorInvariant, PTL

(* Between two iterations ControlTask has been told how the window stands, *)
(* unless it has moved since or the queue was full, whatever edges the     *)
(* interrupt saw or missed.                                                *)
THEOREM WindowIsTold == Spec => []ToldOfTheWindow
  <1>1. SensorInv => ToldOfTheWindow
    <2> SUFFICES ASSUME SensorInv, pc = "sleep", ~moved, ~lost
                 PROVE  Told.window_open = reed_open
      BY DEF ToldOfTheWindow
    <2>1. Told # NoMessage
      BY DEF SensorInv, WindowInv, FirstIsToCome
    <2>2. Told.window_open = last_window
      BY <2>1 DEF SensorInv, WindowInv
    <2>3. last_window = reed_open
      BY DEF SensorInv, WindowInv
    <2> QED
      BY <2>2, <2>3
  <1> QED
    BY <1>1, SensorInvariant, PTL

(* The message told last has the validity of the last DhtRead and the last *)
(* reading one has returned, also where a message about the window alone   *)
(* repeats them.                                                           *)
THEOREM MeasurementIsTold == Spec => []ToldOfTheMeasurement
  <1>1. SensorInv => ToldOfTheMeasurement
    <2> SUFFICES ASSUME SensorInv, pc = "sleep", ~lost, Told # NoMessage
                 PROVE  /\ Told.valid = (DhtLastError = "NONE")
                        /\ Told.reading = measured
                        /\ measured = NoReading => ~Told.valid
      BY DEF ToldOfTheMeasurement
    <2>1. Told \in SensorMsg
      BY ToldType DEF SensorInv
    <2>2. Told.valid \in BOOLEAN
      BY <2>1 DEF SensorMsg
    <2>3. Told.valid <=> DhtLastError = "NONE"
      BY DEF SensorInv, MeasureInv
    <2>4. Told.reading = measured
      BY DEF SensorInv, MeasureInv
    <2>5. measured = NoReading => ~Told.valid
      BY DEF SensorInv, MeasureInv
    <2> QED
      BY <2>2, <2>3, <2>4, <2>5
  <1> QED
    BY <1>1, SensorInvariant, PTL

(* The DHT22 is read again no later than one iteration after its period,   *)
(* across every wrap-around of the clock.                                  *)
THEOREM ReadsGoOn == Spec => []NoReadIsSkipped
  <1>1. SensorInv => NoReadIsSkipped
    <2> SUFFICES ASSUME SensorInv, pc \in {"sleep", "post"}
                 PROVE  sinceRead < DhtReadPeriodMs + MaxGapMs
      BY DEF NoReadIsSkipped
    <2>1. sinceRead <= DhtReadPeriodMs
      BY DEF SensorInv, PeriodInv
    <2>2. sinceRead \in Nat
      BY Numbers DEF SensorInv, TypeOK
    <2> QED
      BY <2>1, <2>2, Numbers
  <1> QED
    BY <1>1, SensorInvariant, PTL

(* The DHT22 is left alone for its period, but after a measurement begun   *)
(* when the clock showed 0.                                                *)
THEOREM PeriodIsKept == Spec => PeriodIsKeptSinceNonZero
  <1>1. SensorInv /\ [Next]_vars =>
            [StartsReading => readAtZero \/ sinceRead >= DhtReadPeriodMs]_vars
    <2> SUFFICES ASSUME SensorInv, Next, pc # "reading", pc' = "reading"
                 PROVE  readAtZero \/ sinceRead >= DhtReadPeriodMs
      BY DEF StartsReading
    <2>1. TakeEdge
      BY DEF Next, Iterate, ReedMoves, ReedInterrupt, ControlTakes, Wake,
             ReadSucceeds, ReadFails, RecordSample, EndIteration, task
    <2>2. pc = "edge" /\ ReadIsDue
      BY <2>1 DEF TakeEdge
    <2>3. CASE last_dht_ms = 0
      BY <2>2, <2>3 DEF SensorInv, PeriodInv
    <2>4. CASE last_dht_ms # 0
      <3>1. (now - last_dht_ms) % ClockMod = sinceRead
        BY <2>2, <2>4 DEF SensorInv, PeriodInv
      <3> QED
        BY <2>2, <2>4, <3>1 DEF ReadIsDue
    <2> QED
      BY <2>3, <2>4
  <1> QED
    BY <1>1, SensorInvariant, PTL DEF Spec, PeriodIsKeptSinceNonZero
=============================================================================
