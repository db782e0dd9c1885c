--------------------------- MODULE UserInputProofs ---------------------------
(***************************************************************************)
(* Proofs about UserInput for every number of debounce samples, long-press *)
(* time and clock modulus: the debouncer accepts exactly the stable levels *)
(* the length of a press of B1 is told correctly, and events stay separate *)
(* as long as ControlTask is no more than two polls behind.                *)
(***************************************************************************)
EXTENDS UserInput, ModularClock

(* While B1 is down, the time stamp says how long it has been.             *)
HeldMatchesStamp ==
    b1_was_pressed => heldMs = (now - b1_pressed_since) % ClockMod

InputInv == TypeOK /\ LevelIsStable /\ HeldMatchesStamp

(* An event that waits in the flag group cannot be found again by the next *)
(* poll: its button is still down, or B1 is up.  After two polls, they are *)
(* taken.                                                                  *)
FlagsAreFresh ==
    /\ lag = 0 => flags = {}
    /\ lag = 1 => /\ \A b \in Buttons : b \in flags => db[b].pressed
                  /\ b1_was_pressed => flags \subseteq Buttons

-----------------------------------------------------------------------------
LEMMA ClockStays ==
    ASSUME NEW x \in Int
    PROVE  x % ClockMod \in 0 .. ClockMod - 1
  BY InputAssumption

-----------------------------------------------------------------------------
(* One call of DebounceButton on the record d of a button, whose pin shows *)
(* raw after a run r of equal levels, st being the last stable one.        *)
LEMMA DebounceStep ==
    ASSUME NEW d \in ButtonDebounce, NEW raw \in BOOLEAN, NEW st \in BOOLEAN,
           NEW r \in [level : BOOLEAN, length : 0 .. DebounceSamples],
           d.pressed = st,
           d.count = IF r.level = d.pressed THEN 0 ELSE r.length,
           NEW length,
           length = IF raw = r.level THEN Capped(r.length + 1, DebounceSamples) ELSE 1
    PROVE  LET e == DebounceButton(d, raw)
               s == IF length = DebounceSamples THEN raw ELSE st
           IN  /\ e \in ButtonDebounce
               /\ length \in 0 .. DebounceSamples
               /\ e.pressed = s
               /\ e.count = IF raw = e.pressed THEN 0 ELSE length
               /\ PressAccepted(d, raw) <=> ~st /\ s
  <1>1. /\ DebounceSamples \in Nat /\ DebounceSamples >= 1
        /\ d.pressed \in BOOLEAN
        /\ d.count \in Nat /\ d.count < DebounceSamples
        /\ r.level \in BOOLEAN /\ r.length \in Nat /\ r.length <= DebounceSamples
    BY InputAssumption DEF ButtonDebounce
  <1>2. length \in 0 .. DebounceSamples
    BY <1>1 DEF Capped
  <1>3. CASE raw = d.pressed
    <2>1. DebounceButton(d, raw) = [pressed |-> d.pressed, count |-> 0]
      BY <1>3 DEF DebounceButton, ButtonDebounce
    <2> QED
      BY <1>1, <1>2, <1>3, <2>1 DEF ButtonDebounce, PressAccepted
  <1>4. CASE raw # d.pressed
    <2>1. length = d.count + 1
      BY <1>1, <1>4 DEF Capped
    <2>2. CASE d.count + 1 < DebounceSamples
      <3>1. DebounceButton(d, raw) = [pressed |-> d.pressed, count |-> d.count + 1]
        BY <1>4, <2>2 DEF DebounceButton, ButtonDebounce
      <3> QED
        BY <1>1, <1>2, <1>4, <2>1, <2>2, <3>1 DEF ButtonDebounce, PressAccepted
    <2>3. CASE ~(d.count + 1 < DebounceSamples)
      <3>1. DebounceButton(d, raw) = [pressed |-> raw, count |-> 0]
        BY <1>4, <2>3 DEF DebounceButton
      <3>2. length = DebounceSamples
        BY <1>1, <2>1, <2>3
      <3> QED
        BY <1>1, <1>2, <1>4, <2>1, <2>3, <3>1, <3>2
           DEF ButtonDebounce, PressAccepted
    <2> QED
      BY <2>2, <2>3
  <1> QED
    BY <1>3, <1>4

-----------------------------------------------------------------------------
LEMMA InitEstablishes == Init => InputInv
  <1> SUFFICES ASSUME Init PROVE InputInv
    OBVIOUS
  <1>1. DebounceSamples \in Nat /\ 0 \in 0 .. DebounceSamples - 1
        /\ 0 \in 0 .. DebounceSamples
    BY InputAssumption
  <1>2. 0 \in 0 .. ClockMod - 1 /\ 0 \in 0 .. LagPolls
    BY InputAssumption
  <1>3. TypeOK
    BY <1>1, <1>2 DEF Init, TypeOK, ButtonDebounce
  <1> QED
    BY <1>3 DEF Init, InputInv, LevelIsStable, HeldMatchesStamp

(* What a poll does to one debounced button.                               *)
LEMMA PollButton ==
    ASSUME InputInv,
           NEW raw \in [Buttons -> BOOLEAN], NEW b1 \in BOOLEAN,
           NEW gap \in PollGaps, Poll(raw, b1, gap),
           NEW b \in Buttons
    PROVE  /\ db'[b] \in ButtonDebounce
           /\ run'[b] \in [level : BOOLEAN, length : 0 .. DebounceSamples]
           /\ stable'[b] \in BOOLEAN
           /\ db'[b].pressed = stable'[b]
           /\ db'[b].count = IF run'[b].level = db'[b].pressed THEN 0
                             ELSE run'[b].length
           /\ PressAccepted(db[b], raw[b]) <=> ~stable[b] /\ stable'[b]
  <1>1. /\ db[b] \in ButtonDebounce
        /\ raw[b] \in BOOLEAN
        /\ stable[b] \in BOOLEAN
        /\ run[b] \in [level : BOOLEAN, length : 0 .. DebounceSamples]
        /\ db[b].pressed = stable[b]
        /\ db[b].count = IF run[b].level = db[b].pressed THEN 0 ELSE run[b].length
    BY DEF InputInv, TypeOK, LevelIsStable
  <1> DEFINE length == IF raw[b] = run[b].level
                       THEN Capped(run[b].length + 1, DebounceSamples) ELSE 1
  <1>2. /\ db'[b] = DebounceButton(db[b], raw[b])
        /\ run'[b] = [level |-> raw[b], length |-> length]
        /\ stable'[b] = IF run'[b].length = DebounceSamples THEN raw[b] ELSE stable[b]
    BY DEF Poll, Observe
  <1> HIDE DEF length
  <1>3. length = IF raw[b] = run[b].level
                 THEN Capped(run[b].length + 1, DebounceSamples) ELSE 1
    BY DEF length
  <1>4. /\ run'[b].level = raw[b]
        /\ run'[b].length = length
    BY <1>2
  <1>5. stable'[b] = IF length = DebounceSamples THEN raw[b] ELSE stable[b]
    BY <1>2, <1>4
  <1>6. /\ db'[b] \in ButtonDebounce
        /\ length \in 0 .. DebounceSamples
        /\ db'[b].pressed = stable'[b]
        /\ db'[b].count = IF raw[b] = db'[b].pressed THEN 0 ELSE length
        /\ PressAccepted(db[b], raw[b]) <=> ~stable[b] /\ stable'[b]
    BY <1>1, <1>2, <1>3, <1>5, DebounceStep
  <1>7. run'[b] \in [level : BOOLEAN, length : 0 .. DebounceSamples]
    BY <1>1, <1>2, <1>6
  <1>8. stable'[b] \in BOOLEAN
    BY <1>1, <1>5
  <1> QED
    BY <1>4, <1>6, <1>7, <1>8

(* What a poll does to the measure of a press of B1.                       *)
LEMMA PollHeld ==
    ASSUME InputInv,
           NEW raw \in [Buttons -> BOOLEAN], NEW b1 \in BOOLEAN,
           NEW gap \in PollGaps, Poll(raw, b1, gap)
    PROVE  /\ now' \in 0 .. ClockMod - 1
           /\ b1_pressed_since' \in 0 .. ClockMod - 1
           /\ heldMs' \in 0 .. ClockMod - 1
           /\ b1_was_pressed => heldMs' = (now' - b1_pressed_since) % ClockMod
           /\ HeldMatchesStamp'
  <1>1. /\ now \in 0 .. ClockMod - 1
        /\ b1_pressed_since \in 0 .. ClockMod - 1
        /\ heldMs \in 0 .. ClockMod - 1
        /\ b1_was_pressed \in BOOLEAN
        /\ b1_was_pressed => heldMs = (now - b1_pressed_since) % ClockMod
    BY DEF InputInv, TypeOK, HeldMatchesStamp
  <1>2. /\ b1_was_pressed => heldMs + gap < ClockMod
        /\ now' = (now + gap) % ClockMod
        /\ b1_pressed_since' = IF b1 /\ ~b1_was_pressed THEN now'
                               ELSE b1_pressed_since
        /\ b1_was_pressed' = b1
        /\ heldMs' = IF b1_was_pressed THEN heldMs + gap ELSE 0
    BY DEF Poll, Observe
  <1>3. gap \in Nat /\ ClockMod \in Nat \ {0}
    BY InputAssumption
  <1>4. now' \in 0 .. ClockMod - 1
    BY <1>1, <1>2, <1>3, ClockStays
  <1>5. b1_pressed_since' \in 0 .. ClockMod - 1
    BY <1>1, <1>2, <1>4
  <1>6. heldMs' \in 0 .. ClockMod - 1
    BY <1>1, <1>2, <1>3
  <1>7. b1_was_pressed => heldMs' = (now' - b1_pressed_since) % ClockMod
    <2> SUFFICES ASSUME b1_was_pressed
                 PROVE  heldMs' = (now' - b1_pressed_since) % ClockMod
      OBVIOUS
    <2>1. heldMs' = ((now - b1_pressed_since) % ClockMod) + gap
      BY <1>1, <1>2
    <2>2. ((now - b1_pressed_since) % ClockMod) + gap < ClockMod
      BY <1>1, <1>2
    <2>3. (((now + gap) % ClockMod) - b1_pressed_since) % ClockMod
              = ((now - b1_pressed_since) % ClockMod) + gap
      BY <1>1, <1>3, <2>2, DifferenceAdvances
    <2> QED
      BY <1>2, <2>1, <2>3
  <1>8. ASSUME b1, ~b1_was_pressed
        PROVE  heldMs' = (now' - b1_pressed_since') % ClockMod
    <2>1. \A t \in 0 .. ClockMod - 1 : (t - t) % ClockMod = 0
      BY <1>3
    <2>2. (now' - now') % ClockMod = 0
      BY <1>4, <2>1
    <2> QED
      BY <1>2, <1>8, <2>2
  <1>9. HeldMatchesStamp'
    BY <1>2, <1>7, <1>8 DEF HeldMatchesStamp
  <1> QED
    BY <1>4, <1>5, <1>6, <1>7, <1>9

LEMMA PollPreserves ==
    ASSUME InputInv,
           NEW raw \in [Buttons -> BOOLEAN], NEW b1 \in BOOLEAN,
           NEW gap \in PollGaps, Poll(raw, b1, gap)
    PROVE  InputInv'
  <1>1. events' \subseteq UserEvents
    BY InputAssumption DEF Poll, B1Events, UserEvents
  <1>2. flags' \subseteq UserEvents
    BY <1>1 DEF Poll, InputInv, TypeOK
  <1>3. lag' \in 0 .. LagPolls
    BY InputAssumption DEF Poll, Observe, InputInv, TypeOK
  <1>4. /\ db' = [b \in Buttons |-> db'[b]]
        /\ run' = [b \in Buttons |-> run'[b]]
        /\ stable' = [b \in Buttons |-> stable'[b]]
    BY DEF Poll, Observe
  <1>5. /\ db' \in [Buttons -> ButtonDebounce]
        /\ run' \in [Buttons -> [level : BOOLEAN, length : 0 .. DebounceSamples]]
        /\ stable' \in [Buttons -> BOOLEAN]
    BY <1>4, PollButton
  <1>6. b1_was_pressed' \in BOOLEAN
    BY DEF Poll
  <1>7. TypeOK'
    BY <1>1, <1>2, <1>3, <1>5, <1>6, PollHeld DEF TypeOK
  <1>8. LevelIsStable'
    BY PollButton DEF LevelIsStable
  <1> QED
    BY <1>7, <1>8, PollHeld DEF InputInv

LEMMA StepPreserves == InputInv /\ [Next]_vars => InputInv'
  <1> SUFFICES ASSUME InputInv, [Next]_vars PROVE InputInv'
    OBVIOUS
  <1>1. ASSUME NEW raw \in [Buttons -> BOOLEAN], NEW b1 \in BOOLEAN,
               NEW gap \in PollGaps, Poll(raw, b1, gap)
        PROVE  InputInv'
    BY <1>1, PollPreserves
  <1>2. CASE TakeFlags
    <2>1. 0 \in 0 .. LagPolls
      BY InputAssumption
    <2> QED
      BY <1>2, <2>1 DEF TakeFlags, InputInv, TypeOK, LevelIsStable,
                        HeldMatchesStamp
  <1>3. CASE UNCHANGED vars
    BY <1>3 DEF vars, history, InputInv, TypeOK, LevelIsStable, HeldMatchesStamp
  <1> QED
    BY <1>1, <1>2, <1>3 DEF Next

(* The debouncers, the stamp of B1 and the flag group keep to their types, *)
(* the accepted level of UP and of DOWN is the stable one.                 *)
THEOREM InputInvariant == Spec => []InputInv
  <1> QED
    BY InitEstablishes, StepPreserves, PTL DEF Spec

(* The types of the task's state.                                          *)
THEOREM TypeCorrect == Spec => []TypeOK
  <1>1. InputInv => TypeOK
    BY DEF InputInv
  <1> QED
    BY <1>1, InputInvariant, PTL

(* DebounceButton accepts exactly the levels kept for DebounceSamples      *)
(* polls, for every number of samples.                                     *)
THEOREM DebounceIsExact == Spec => []LevelIsStable
  <1>1. InputInv => LevelIsStable
    BY DEF InputInv
  <1> QED
    BY <1>1, InputInvariant, PTL

-----------------------------------------------------------------------------
LEMMA EventStep ==
    ASSUME InputInv, [Next]_vars, lag' # 0, NEW b \in Buttons, vars' # vars
    PROVE  b \in events' <=> ~stable[b] /\ stable'[b]
  <1>1. PICK raw \in [Buttons -> BOOLEAN], b1 \in BOOLEAN, gap \in PollGaps :
            Poll(raw, b1, gap)
    BY DEF Next, TakeFlags
  <1>2. PressAccepted(db[b], raw[b]) <=> ~stable[b] /\ stable'[b]
    BY <1>1, PollButton
  <1>3. b \notin B1Events(b1, now')
    BY InputAssumption DEF B1Events
  <1>4. b \in events' <=> PressAccepted(db[b], raw[b])
    BY <1>1, <1>3 DEF Poll
  <1> QED
    BY <1>2, <1>4

(* One press of UP or DOWN is one event, however often the contact bounces *)
(* for fewer than DebounceSamples polls.                                   *)
THEOREM OnePressOneEvent == Spec => OneEventPerPress
  <1>1. InputInv /\ [Next]_vars =>
          [\A b \in Buttons :
              lag' # 0 => (b \in events' <=> ~stable[b] /\ stable'[b])]_vars
    BY EventStep
  <1> QED
    BY <1>1, InputInvariant, PTL DEF Spec, OneEventPerPress

LEMMA ReleaseStep ==
    ASSUME InputInv, [Next]_vars, b1_was_pressed, ~b1_was_pressed'
    PROVE  IF heldMs' >= LongPressMs
           THEN "POWER" \in events' /\ "MANUAL" \notin events'
           ELSE "MANUAL" \in events' /\ "POWER" \notin events'
  <1>1. PICK raw \in [Buttons -> BOOLEAN], b1 \in BOOLEAN, gap \in PollGaps :
            Poll(raw, b1, gap)
    BY DEF Next, TakeFlags, vars
  <1>2. ~b1 /\ events' = {b \in Buttons : PressAccepted(db[b], raw[b])}
                         \cup B1Events(b1, now')
    BY <1>1 DEF Poll
  <1>3. heldMs' = (now' - b1_pressed_since) % ClockMod
    BY <1>1, PollHeld
  <1>4. B1Events(b1, now') = {"BUZZER_CLICK",
            IF heldMs' >= LongPressMs THEN "POWER" ELSE "MANUAL"}
    BY <1>2, <1>3 DEF B1Events
  <1>5. "POWER" \notin Buttons /\ "MANUAL" \notin Buttons
    BY InputAssumption
  <1> QED
    BY <1>2, <1>4, <1>5

(* A press of B1 counts as long exactly when it was held for LongPressMs,  *)
(* for every clock modulus, short of a press of a whole turn.              *)
THEOREM LengthDecides == Spec => PressLengthDecides
  <1>1. InputInv /\ [Next]_vars =>
          [b1_was_pressed /\ ~b1_was_pressed' =>
              IF heldMs' >= LongPressMs
              THEN "POWER" \in events' /\ "MANUAL" \notin events'
              ELSE "MANUAL" \in events' /\ "POWER" \notin events']_vars
    BY ReleaseStep
  <1> QED
    BY <1>1, InputInvariant, PTL DEF Spec, PressLengthDecides

-----------------------------------------------------------------------------
(* What a poll finds, seen from the flags that wait. *)
LEMMA PollFinds ==
    ASSUME InputInv, FlagsAreFresh, InputInv',
           NEW raw \in [Buttons -> BOOLEAN], NEW b1 \in BOOLEAN,
           NEW gap \in PollGaps, Poll(raw, b1, gap)
    PROVE  /\ events' \cap flags = {}
           /\ FlagsAreFresh'
           /\ lag' # 0
  <1>1. /\ events' = {b \in Buttons : PressAccepted(db[b], raw[b])} \cup B1Events(b1, now')
        /\ flags' = flags \cup events'
        /\ lag' = lag + 1 /\ lag < LagPolls
        /\ b1_was_pressed' = b1
    BY DEF Poll, Observe
  <1>2. LagPolls \in Nat /\ lag \in Nat /\ LagPolls <= 2
    BY InputAssumption, LagAssumption DEF InputInv, TypeOK
  <1>3. lag' # 0 /\ (lag' = 1 => lag = 0)
    BY <1>1, <1>2
  <1>4. /\ B1Events(b1, now') # {} => ~b1 /\ b1_was_pressed
        /\ \A b \in Buttons : b \notin B1Events(b1, now')
    BY InputAssumption DEF B1Events
  <1>5. events' \cap flags = {}
    <2>1. CASE lag = 0
      BY <2>1 DEF FlagsAreFresh
    <2>2. CASE lag = 1
      <3>1. /\ \A b \in Buttons : b \in flags => db[b].pressed
            /\ b1_was_pressed => flags \subseteq Buttons
        BY <2>2 DEF FlagsAreFresh
      <3>2. \A b \in Buttons : b \in flags => ~PressAccepted(db[b], raw[b])
        BY <3>1, Zenon DEF PressAccepted
      <3>3. B1Events(b1, now') # {} => flags \subseteq Buttons
        BY <1>4, <3>1
      <3> QED
        BY <1>1, <1>4, <3>2, <3>3
    <2> QED
      BY <1>1, <1>2, <2>1, <2>2
  <1>6. FlagsAreFresh'
    <2> SUFFICES ASSUME lag = 0, lag' = 1
                 PROVE  /\ \A b \in Buttons : b \in flags' => db'[b].pressed
                        /\ b1_was_pressed' => flags' \subseteq Buttons
      BY <1>3 DEF FlagsAreFresh
    <2>1. flags' = events'
      BY <1>1 DEF FlagsAreFresh
    <2>2. ASSUME NEW b \in Buttons, b \in flags'
          PROVE  db'[b].pressed
      <3>1. PressAccepted(db[b], raw[b])
        BY <1>1, <1>4, <2>1, <2>2
      <3>2. stable'[b] /\ db'[b].pressed = stable'[b]
        BY <3>1, PollButton
      <3> QED
        BY <3>2
    <2>3. b1_was_pressed' => flags' \subseteq Buttons
      BY <1>1, <1>4, <2>1
    <2> QED
      BY <2>2, <2>3
  <1> QED
    BY <1>3, <1>5, <1>6

LEMMA FlagsStayFresh ==
    ASSUME InputInv, FlagsAreFresh, InputInv', [Next]_vars
    PROVE  FlagsAreFresh'
  <1>1. CASE TakeFlags
    BY <1>1 DEF TakeFlags, FlagsAreFresh
  <1>2. CASE UNCHANGED vars
    BY <1>2 DEF vars, history, FlagsAreFresh
  <1> QED
    BY <1>1, <1>2, PollFinds DEF Next

(* No two events of one kind ever become one flag: a bounce of B1 is an    *)
(* event of its own, but ControlTask takes it before the next can follow.  *)
THEOREM EventsStaySeparate == Spec => NoEventMerged
  <1>1. Init => FlagsAreFresh
    BY DEF Init, FlagsAreFresh
  <1>2. InputInv /\ FlagsAreFresh /\ InputInv' /\ [Next]_vars => FlagsAreFresh'
    BY FlagsStayFresh
  <1>3. InputInv /\ FlagsAreFresh /\ InputInv' /\ [Next]_vars =>
            [lag' # 0 => events' \cap flags = {}]_vars
    <2> SUFFICES ASSUME InputInv, FlagsAreFresh, InputInv', Next, lag' # 0
                 PROVE  events' \cap flags = {}
      OBVIOUS
    <2>1. ~TakeFlags
      BY DEF TakeFlags
    <2> QED
      BY <2>1, PollFinds DEF Next
  <1> QED
    BY InputInvariant, <1>1, <1>2, <1>3, PTL DEF Spec, NoEventMerged
=============================================================================
