--------------------------- MODULE ActuatorProofs ---------------------------
(***************************************************************************)
(* The buzzer and the blinking lamp of ActuatorTask, for every clock, every*)
(* length of a click or a period and every sequence of messages.  The code *)
(* compares a time stamp with the clock, or takes the clock modulo a       *)
(* period; the properties speak of stopwatches.  The links between them,   *)
(* ClickInv and LampInv, are what is inductive.                            *)
(***************************************************************************)
EXTENDS Actuator, ModularClock

(* What the stopwatch has to reach for the buzzer to be silent again.      *)
ClickMs == IF clicked THEN BuzzerClickMs ELSE 0

(* Until the difference becomes ambiguous, half a turn after the end of a  *)
(* click, clock and stopwatch tell the same of that end, and the pin is    *)
(* what the comparison says.                                               *)
ClickInv ==
    /\ TypeOK
    /\ quietMs < HalfTurn + ClickMs =>
           (now - buzzer_until_ms) % ClockMod = (quietMs - ClickMs) % ClockMod
    /\ pins.buzzer = Before(now, buzzer_until_ms)

LEMMA ClockIsLongEnough ==
    /\ HalfTurn \in Nat \ {0}
    /\ ClockMod \in Nat \ {0}
    /\ ClockMod = 2 * HalfTurn
    /\ BuzzerClickMs \in 1 .. HalfTurn
    /\ MaxGapMs \in 1 .. BuzzerClickMs
  BY ActuatorAssumption DEF ClockMod

LEMMA CappedType ==
    ASSUME NEW n \in Nat, NEW cap \in Nat
    PROVE  /\ Capped(n, cap) \in 0 .. cap
           /\ Capped(n, cap) < cap => Capped(n, cap) = n
  BY DEF Capped

(* Two readings of one difference advance together.                        *)
LEMMA BothAdvance ==
    ASSUME NEW M \in Nat \ {0}, NEW t \in 0 .. M - 1, NEW s \in 0 .. M - 1,
           NEW x \in Int, NEW d \in 0 .. M - 1, -M <= x, x + d < M,
           (t - s) % M = x % M
    PROVE  (((t + d) % M) - s) % M = (x + d) % M
  <1>1. \A y \in Int : -M <= y /\ y < 2 * M =>
            y % M = IF y < 0 THEN y + M ELSE IF y < M THEN y ELSE y - M
    BY ModWithinTwoTurns
  <1> DEFINE n == (t + d) % M
  <1>2. n = IF t + d < M THEN t + d ELSE t + d - M
    BY <1>1
  <1>3. n \in 0 .. M - 1
    BY <1>2
  <1> HIDE DEF n
  <1>4. (t - s) % M = IF t < s THEN t - s + M ELSE t - s
    BY <1>1
  <1>5. x % M = IF x < 0 THEN x + M ELSE x
    BY <1>1
  <1>6. (x + d) % M = IF x + d < 0 THEN x + d + M ELSE x + d
    BY <1>1
  <1>7. (n - s) % M = IF n < s THEN n - s + M ELSE n - s
    BY <1>1, <1>3
  <1>8. (n - s) % M = (x + d) % M
    BY <1>2, <1>3, <1>4, <1>5, <1>6, <1>7
  <1> QED
    BY <1>8 DEF n

(* What is set to end d from now is d ahead.                               *)
LEMMA EndIsAhead ==
    ASSUME NEW M \in Nat \ {0}, NEW t \in 0 .. M - 1, NEW d \in 1 .. M - 1
    PROVE  (t - ((t + d) % M)) % M = (0 - d) % M
  <1>1. \A y \in Int : -M <= y /\ y < 2 * M =>
            y % M = IF y < 0 THEN y + M ELSE IF y < M THEN y ELSE y - M
    BY ModWithinTwoTurns
  <1> DEFINE s == (t + d) % M
  <1>2. s = IF t + d < M THEN t + d ELSE t + d - M
    BY <1>1
  <1>3. s \in 0 .. M - 1
    BY <1>2
  <1> HIDE DEF s
  <1>4. (t - s) % M = IF t < s THEN t - s + M ELSE t - s
    BY <1>1, <1>3
  <1>5. (0 - d) % M = M - d
    BY <1>1
  <1>6. (t - s) % M = (0 - d) % M
    BY <1>2, <1>4, <1>5
  <1> QED
    BY <1>6 DEF s

(* The sign of a difference tells which of two times is the earlier, if    *)
(* they are no more than half a turn apart.                                *)
LEMMA HalfATurnTells ==
    ASSUME NEW H \in Nat \ {0}, NEW M \in Nat \ {0}, M = 2 * H,
           NEW q \in Nat, NEW c \in 0 .. H, q < H + c
    PROVE  (q - c) % M >= H <=> q < c
  <1> DEFINE x == q - c
  <1>1. x \in Int /\ -M <= x /\ x < M
    OBVIOUS
  <1> HIDE DEF x
  <1>2. x % M = IF x < 0 THEN x + M ELSE IF x < M THEN x ELSE x - M
    <2>1. \A y \in Int : -M <= y /\ y < 2 * M =>
              y % M = IF y < 0 THEN y + M ELSE IF y < M THEN y ELSE y - M
      BY ModWithinTwoTurns
    <2>2. -M <= x /\ x < 2 * M
      BY <1>1
    <2> QED
      BY <1>1, <2>1, <2>2
  <1>3. x % M >= H <=> q < c
    BY <1>1, <1>2 DEF x
  <1> QED
    BY <1>3 DEF x

LEMMA InitEstablishesClickInv == Init => ClickInv
  <1> USE ClockIsLongEnough
  <1> SUFFICES ASSUME Init PROVE ClickInv
    OBVIOUS
  <1>1. current \in ActuatorMsg
    BY DEF Init, ActuatorMsg
  <1>2. pins \in [ld1 : BOOLEAN, ld2 : BOOLEAN, ld3 : BOOLEAN, buzzer : BOOLEAN]
    BY DEF Init
  <1>3. TypeOK
    <2>1. 0 \in 0 .. ClockMod - 1 /\ 0 \in 0 .. HalfTurn + BuzzerClickMs
          /\ 0 \in 0 .. ClockMod
      OBVIOUS
    <2>2. clicked \in BOOLEAN
      BY DEF Init
    <2>3. /\ buzzer_until_ms = 0 /\ now = 0
          /\ quietMs = 0 /\ steadyMs = 0
      BY DEF Init
    <2> QED
      BY <1>1, <1>2, <2>1, <2>2, <2>3, Zenon DEF TypeOK
  <1>4. (0 - 0) % ClockMod = 0
    BY DifferenceToItself
  <1>5. (now - buzzer_until_ms) % ClockMod = (quietMs - ClickMs) % ClockMod
    BY DEF Init, ClickMs
  <1>6. pins.buzzer = FALSE
    BY DEF Init
  <1>7. ~Before(now, buzzer_until_ms)
    BY <1>4 DEF Init, Before
  <1>8. pins.buzzer = Before(now, buzzer_until_ms)
    <2>1. Before(now, buzzer_until_ms) \in BOOLEAN
      BY DEF Before
    <2> QED
      BY <1>6, <1>7, <2>1, Zenon
  <1> QED
    BY <1>3, <1>5, <1>8 DEF ClickInv

LEMMA OutputsType ==
    ASSUME NEW m \in ActuatorMsg, NEW t \in 0 .. ClockMod - 1, NEW b \in BOOLEAN
    PROVE  /\ SetOutputs(m, t, b) \in
                  [ld1 : BOOLEAN, ld2 : BOOLEAN, ld3 : BOOLEAN, buzzer : BOOLEAN]
           /\ SetOutputs(m, t, b).buzzer = b
  BY DEF SetOutputs

(* One iteration, whatever the queue held.                                 *)
LEMMA DriveKeepsClickInv ==
    ASSUME ClickInv, NEW gap \in 1 .. MaxGapMs, NEW click \in BOOLEAN,
           Drive(click, gap), current' \in ActuatorMsg
    PROVE  ClickInv'
  <1> USE ClockIsLongEnough
  <1>1. /\ now \in 0 .. ClockMod - 1
        /\ buzzer_until_ms \in 0 .. ClockMod - 1
        /\ quietMs \in 0 .. HalfTurn + BuzzerClickMs
        /\ steadyMs \in 0 .. ClockMod
        /\ clicked \in BOOLEAN
    BY DEF ClickInv, TypeOK
  <1>2. /\ now' = (now + gap) % ClockMod
        /\ now' \in 0 .. ClockMod - 1
    <2>1. now' = (now + gap) % ClockMod
      BY DEF Drive
    <2>2. now + gap \in Int
      BY <1>1
    <2> QED
      BY <2>1, <2>2, ModType
  <1>3. /\ buzzer_until_ms' = IF click THEN (now' + BuzzerClickMs) % ClockMod
                              ELSE buzzer_until_ms
        /\ buzzer_until_ms' \in 0 .. ClockMod - 1
    <2>1. buzzer_until_ms' = IF click THEN (now' + BuzzerClickMs) % ClockMod
                             ELSE buzzer_until_ms
      BY DEF Drive
    <2>2. now' + BuzzerClickMs \in Int
      BY <1>2
    <2>3. (now' + BuzzerClickMs) % ClockMod \in 0 .. ClockMod - 1
      BY <2>2, ModType
    <2> QED
      BY <2>1, <2>3, <1>1
  <1>4. /\ quietMs' = IF click THEN 0
                      ELSE Capped(quietMs + gap, HalfTurn + BuzzerClickMs)
        /\ quietMs' \in 0 .. HalfTurn + BuzzerClickMs
    <2>1. quietMs' = IF click THEN 0
                     ELSE Capped(quietMs + gap, HalfTurn + BuzzerClickMs)
      BY DEF Drive, Observe
    <2>2. quietMs + gap \in Nat /\ HalfTurn + BuzzerClickMs \in Nat
      BY <1>1
    <2>3. Capped(quietMs + gap, HalfTurn + BuzzerClickMs)
              \in 0 .. HalfTurn + BuzzerClickMs
      BY <2>2, CappedType
    <2> QED
      BY <2>1, <2>3
  <1>5. clicked' \in BOOLEAN
    BY DEF Drive, Observe
  <1>6. steadyMs' \in 0 .. ClockMod
    <2>1. steadyMs' = 0 \/ steadyMs' = Capped(steadyMs + gap, ClockMod)
      BY DEF Drive, Observe
    <2>2. steadyMs + gap \in Nat
      BY <1>1
    <2>3. Capped(steadyMs + gap, ClockMod) \in 0 .. ClockMod
      BY <2>2, CappedType
    <2> QED
      BY <2>1, <2>3
  <1>7. /\ pins' \in [ld1 : BOOLEAN, ld2 : BOOLEAN, ld3 : BOOLEAN, buzzer : BOOLEAN]
        /\ pins'.buzzer = Before(now', buzzer_until_ms')
    <2>1. pins' = SetOutputs(current', now', Before(now', buzzer_until_ms'))
      BY DEF Drive
    <2>2. Before(now', buzzer_until_ms') \in BOOLEAN
      BY DEF Before
    <2> HIDE DEF Before
    <2> QED
      BY <2>1, <2>2, <1>2, OutputsType
  <1>8. TypeOK'
    BY <1>2, <1>3, <1>4, <1>5, <1>6, <1>7 DEF TypeOK
  <1>9. ASSUME quietMs' < HalfTurn + ClickMs'
        PROVE  (now' - buzzer_until_ms') % ClockMod
                   = (quietMs' - ClickMs') % ClockMod
    <2>1. CASE click
      <3>1. clicked'
        BY <2>1 DEF Drive, Observe
      <3>2. ClickMs' = BuzzerClickMs
        BY <3>1 DEF ClickMs
      <3>3. quietMs' = 0
        BY <2>1, <1>4
      <3>4. buzzer_until_ms' = (now' + BuzzerClickMs) % ClockMod
        BY <2>1, <1>3
      <3>5. BuzzerClickMs \in 1 .. ClockMod - 1
        OBVIOUS
      <3>6. (now' - ((now' + BuzzerClickMs) % ClockMod)) % ClockMod
                = (0 - BuzzerClickMs) % ClockMod
        BY <3>5, <1>2, EndIsAhead
      <3> QED
        BY <3>2, <3>3, <3>4, <3>6
    <2>2. CASE ~click
      <3>1. clicked' <=> clicked
        BY <2>2 DEF Drive, Observe
      <3>2. ClickMs' = ClickMs
        BY <3>1 DEF ClickMs
      <3>3. ClickMs \in {0, BuzzerClickMs}
        BY DEF ClickMs
      <3>4. quietMs' = Capped(quietMs + gap, HalfTurn + BuzzerClickMs)
        BY <2>2, <1>4
      <3>5. quietMs + gap \in Nat /\ HalfTurn + BuzzerClickMs \in Nat
        BY <1>1
      <3>6. quietMs' < HalfTurn + BuzzerClickMs
        BY <1>4, <1>9, <3>2, <3>3
      <3>7. quietMs' = quietMs + gap
        BY <3>4, <3>5, <3>6, CappedType
      <3>8. buzzer_until_ms' = buzzer_until_ms
        BY <2>2, <1>3
      <3>9. quietMs < HalfTurn + ClickMs
        BY <1>1, <1>9, <3>2, <3>3, <3>7
      <3>10. (now - buzzer_until_ms) % ClockMod = (quietMs - ClickMs) % ClockMod
        BY <3>9 DEF ClickInv
      <3> DEFINE x == quietMs - ClickMs
      <3>11. /\ x \in Int /\ -ClockMod <= x /\ x + gap < ClockMod
             /\ gap \in 0 .. ClockMod - 1
        BY <1>1, <1>9, <3>2, <3>3, <3>7
      <3>12. quietMs' - ClickMs' = x + gap
        BY <1>1, <3>2, <3>3, <3>7
      <3>13. (now - buzzer_until_ms) % ClockMod = x % ClockMod
        BY <3>10
      <3> HIDE DEF x
      <3>14. (((now + gap) % ClockMod) - buzzer_until_ms) % ClockMod
                = (x + gap) % ClockMod
        BY <1>1, <3>11, <3>13, BothAdvance
      <3> QED
        BY <1>2, <3>8, <3>12, <3>14
    <2> QED
      BY <2>1, <2>2
  <1> QED
    BY <1>7, <1>8, <1>9 DEF ClickInv, ClockMod, Before

LEMMA NextKeepsClickInv == ClickInv /\ [Next]_vars => ClickInv'
  <1> SUFFICES ASSUME ClickInv, [Next]_vars PROVE ClickInv'
    OBVIOUS
  <1>1. ASSUME NEW gap \in 1 .. MaxGapMs,
               NEW m \in [state : States, buzzer_click : BOOLEAN],
               TakeMessage(m, gap)
        PROVE  ClickInv'
    <2>1. m \in ActuatorMsg /\ m.buzzer_click \in BOOLEAN
      BY DEF ActuatorMsg
    <2>2. current' \in ActuatorMsg
      BY <1>1, <2>1 DEF TakeMessage
    <2>3. Drive(m.buzzer_click, gap)
      BY <1>1 DEF TakeMessage
    <2> QED
      BY <2>1, <2>2, <2>3, DriveKeepsClickInv
  <1>2. ASSUME NEW gap \in 1 .. MaxGapMs, QueueEmpty(gap)
        PROVE  ClickInv'
    <2>1. current' \in ActuatorMsg
      BY <1>2 DEF QueueEmpty, ClickInv, TypeOK
    <2>2. Drive(FALSE, gap)
      BY <1>2 DEF QueueEmpty
    <2> QED
      BY <2>1, <2>2, DriveKeepsClickInv
  <1>3. CASE UNCHANGED vars
    BY <1>3 DEF ClickInv, TypeOK, ClickMs, Before, vars, history
  <1> QED
    BY <1>1, <1>2, <1>3 DEF Next

LEMMA ClickInvHolds == Spec => []ClickInv
  <1> QED
    BY InitEstablishesClickInv, NextKeepsClickInv, PTL DEF Spec

(* The state of ActuatorTask keeps its types: the clock and the end of a   *)
(* click stay within a turn whatever messages come, and when.              *)
THEOREM OutputsTypeCorrect == Spec => []TypeOK
  <1>1. ClickInv => TypeOK
    BY DEF ClickInv
  <1> QED
    BY <1>1, ClickInvHolds, PTL

(* A click sounds for BuzzerClickMs and no longer, wherever it meets the   *)
(* wrap-around of the clock, until half a turn has passed since its end:   *)
(* the signed comparison at the end of ActuatorTask's loop is exact for    *)
(* so long.                                                                *)
THEOREM ClickIsExact == Spec => []BuzzerIsExactForHalfATurn
  <1>1. ClickInv => BuzzerIsExactForHalfATurn
    <2> USE ClockIsLongEnough
    <2> SUFFICES ASSUME ClickInv, quietMs < HalfTurn + ClickMs
                 PROVE  pins.buzzer <=> ClickIsDue
      BY DEF BuzzerIsExactForHalfATurn, ClickMs
    <2>1. quietMs \in 0 .. HalfTurn + BuzzerClickMs /\ clicked \in BOOLEAN
      BY DEF ClickInv, TypeOK
    <2>2. (now - buzzer_until_ms) % ClockMod = (quietMs - ClickMs) % ClockMod
      BY DEF ClickInv
    <2>3. ClickMs \in {0, BuzzerClickMs}
      BY DEF ClickMs
    <2>4. (quietMs - ClickMs) % ClockMod >= HalfTurn <=> quietMs < ClickMs
      <3>1. quietMs \in Nat /\ ClickMs \in 0 .. HalfTurn
        BY <2>1, <2>3
      <3> QED
        BY <3>1, HalfATurnTells
    <2>5. Before(now, buzzer_until_ms) <=> quietMs < ClickMs
      BY <2>2, <2>4 DEF Before
    <2>6. ClickIsDue <=> quietMs < ClickMs
      BY <2>1 DEF ClickIsDue, ClickMs
    <2>7. pins.buzzer = Before(now, buzzer_until_ms)
      BY DEF ClickInv
    <2> QED
      BY <2>5, <2>6, <2>7
  <1> QED
    BY <1>1, ClickInvHolds, PTL

-----------------------------------------------------------------------------
(* A lamp with half a period of h, at time t, that has shown its level for *)
(* at most s: it is lit in the first half of each period.  The clock's     *)
(* last period may be cut short; the first half of the next one then       *)
(* prolongs what was lit of it, which was less than MaxGapMs if any other  *)
(* phase had begun.                                                        *)
LampFits(h, t, lit, s) ==
    LET x == t % (2 * h)
        rest == ClockMod % (2 * h)
    IN  /\ lit <=> x < h
        /\ ~lit => s <= x - h
        /\ lit /\ t >= 2 * h => s <= x
        /\ lit /\ t < 2 * h =>
                s <= t + rest /\ (s <= t \/ rest - h < MaxGapMs)

LampInv ==
    Blinks(current.state) =>
        LampFits(BlinkHalf(current.state), now, pins.ld3, steadyMs)

(* A level that has just begun fits. *)
LEMMA LampStarts ==
    ASSUME NEW h \in Nat \ {0}, NEW t \in Nat, NEW lit \in BOOLEAN,
           lit <=> t % (2 * h) < h
    PROVE  LampFits(h, t, lit, 0)
  <1>1. 2 * h \in Nat \ {0}
    OBVIOUS
  <1>2. t % (2 * h) \in Nat /\ ClockMod % (2 * h) \in Nat
    BY <1>1, ClockIsLongEnough, ModType
  <1> QED
    BY <1>2 DEF LampFits

(* The time goes on by a gap, across a wrap-around or not.                 *)
LEMMA LampGoesOn ==
    ASSUME NEW h \in Nat \ {0}, 2 * h <= ClockMod, MaxGapMs <= h,
           NEW t \in 0 .. ClockMod - 1, NEW gap \in 1 .. MaxGapMs,
           NEW lit \in BOOLEAN, NEW s \in Nat, NEW s1 \in Nat,
           LampFits(h, t, lit, s), s1 <= s + gap,
           lit <=> ((t + gap) % ClockMod) % (2 * h) < h
    PROVE  LampFits(h, (t + gap) % ClockMod, lit, s1)
  <1> DEFINE p == 2 * h
             x == t % p
             rest == ClockMod % p
             t1 == (t + gap) % ClockMod
             x1 == t1 % p
  <1>1. /\ p \in Nat \ {0} /\ p = 2 * h /\ ClockMod \in Nat /\ p <= ClockMod
        /\ gap \in Nat \ {0} /\ gap <= MaxGapMs /\ MaxGapMs \in Nat /\ gap <= h
        /\ t \in Nat /\ t < ClockMod
    BY ClockIsLongEnough
  <1>2. x \in 0 .. p - 1 /\ rest \in 0 .. p - 1
    <2> HIDE DEF p
    <2>1. \A y \in Int : y % p \in 0 .. p - 1
      BY <1>1, ModType
    <2>2. t \in Int /\ ClockMod \in Int
      BY <1>1
    <2> QED
      BY <2>1, <2>2, Zenon
  <1>3. /\ lit <=> x < h
        /\ ~lit => s <= x - h
        /\ lit /\ t >= p => s <= x
        /\ lit /\ t < p => s <= t + rest /\ (s <= t \/ rest - h < MaxGapMs)
    BY DEF LampFits
  <1>4. lit <=> x1 < h
    OBVIOUS
  <1>5. t < p => x = t
    BY <1>1
  <1>6. \A k \in 0 .. p : (t + k) % p = IF x + k < p THEN x + k ELSE x + k - p
    BY <1>1, ModAdvances
  <1>7. t1 = IF t + gap < ClockMod THEN t + gap ELSE t + gap - ClockMod
    <2>1. t + gap \in Int /\ -ClockMod <= t + gap /\ t + gap < 2 * ClockMod
      BY <1>1
    <2>2. \A y \in Int : -ClockMod <= y /\ y < 2 * ClockMod =>
            y % ClockMod = IF y < 0 THEN y + ClockMod
                           ELSE IF y < ClockMod THEN y ELSE y - ClockMod
      BY ClockIsLongEnough, ModWithinTwoTurns
    <2> QED
      BY <1>1, <2>1, <2>2
  <1>8. CASE t + gap < ClockMod
    <2>1. t1 = t + gap
      BY <1>7, <1>8
    <2>2. x1 = IF x + gap < p THEN x + gap ELSE x + gap - p
      <3>1. gap \in 0 .. p
        BY <1>1
      <3> HIDE DEF p, x
      <3>2. (t + gap) % p = IF x + gap < p THEN x + gap ELSE x + gap - p
        BY <1>6, <3>1
      <3> QED
        BY <2>1, <3>2
    <2> HIDE DEF p, x, rest, t1, x1
    <2>3. x1 = x + gap
      BY <1>1, <1>2, <1>3, <1>4, <2>2
    <2>4. ~lit => s1 <= x1 - h
      BY <1>1, <1>2, <1>3, <2>3
    <2>5. lit /\ t1 >= p => s1 <= x1
      BY <1>1, <1>2, <1>3, <1>5, <2>1, <2>3
    <2>6. lit /\ t1 < p => s1 <= t1 + rest /\ (s1 <= t1 \/ rest - h < MaxGapMs)
      BY <1>1, <1>2, <1>3, <1>5, <2>1, <2>3
    <2> QED
      BY <1>4, <2>4, <2>5, <2>6 DEF LampFits, p, rest, t1, x1
  <1>9. CASE ~(t + gap < ClockMod)
    <2>1. t1 = t + gap - ClockMod /\ t1 \in Nat /\ t1 < gap
      BY <1>1, <1>7, <1>9
    <2>2. x1 = t1
      BY <1>1, <2>1
    <2>3. rest = IF x + (ClockMod - t) < p THEN x + (ClockMod - t)
                 ELSE x + (ClockMod - t) - p
      <3>1. ClockMod - t \in 0 .. p /\ t + (ClockMod - t) = ClockMod
        BY <1>1, <1>9
      <3> QED
        BY <1>6, <3>1
    <2> HIDE DEF p, x, rest, t1, x1
    <2>4. lit /\ x < h
      BY <1>1, <1>3, <1>4, <2>1, <2>2
    <2>5. rest = x + (ClockMod - t) /\ rest - h < MaxGapMs
      BY <1>1, <1>2, <1>9, <2>3, <2>4
    <2>6. t >= p
      BY <1>1, <1>5, <1>9, <2>4
    <2>7. s1 <= t1 + rest /\ t1 < p
      BY <1>1, <1>2, <1>3, <2>1, <2>4, <2>5, <2>6
    <2> QED
      BY <1>1, <1>4, <2>1, <2>4, <2>5, <2>7 DEF LampFits, p, rest, t1, x1
  <1> QED
    BY <1>8, <1>9

LEMMA HalvesFit ==
    ASSUME NEW state
    PROVE  /\ BlinkHalf(state) \in Nat \ {0}
           /\ 2 * BlinkHalf(state) <= ClockMod
           /\ MaxGapMs <= BlinkHalf(state)
  BY ActuatorAssumption, BlinkAssumption DEF BlinkHalf

LEMMA DriveKeepsLampInv ==
    ASSUME ClickInv, LampInv, NEW gap \in 1 .. MaxGapMs, NEW click \in BOOLEAN,
           Drive(click, gap), ClickInv'
    PROVE  LampInv'
  <1> DEFINE st == current'.state
             h == BlinkHalf(st)
  <1> SUFFICES ASSUME Blinks(st)
               PROVE  LampFits(h, now', pins'.ld3, steadyMs')
    BY DEF LampInv
  <1>1. /\ now \in 0 .. ClockMod - 1 /\ now' \in Nat
        /\ steadyMs \in Nat /\ steadyMs' \in Nat
        /\ pins'.ld3 \in BOOLEAN
    BY ClockIsLongEnough DEF ClickInv, TypeOK
  <1>2. h \in Nat \ {0} /\ 2 * h <= ClockMod /\ MaxGapMs <= h
    BY HalvesFit
  <1>3. pins'.ld3 <=> now' % (2 * h) < h
    BY DEF Drive, SetOutputs
  <1>4. now' = (now + gap) % ClockMod
    BY DEF Drive
  <1>5. steadyMs' = IF Blinks(current.state) /\ st = current.state /\ pins'.ld3 = pins.ld3
                    THEN Capped(steadyMs + gap, ClockMod) ELSE 0
    BY DEF Drive, Observe
  <1>6. CASE Blinks(current.state) /\ st = current.state /\ pins'.ld3 = pins.ld3
    <2>1. LampFits(h, now, pins'.ld3, steadyMs)
      BY <1>6 DEF LampInv
    <2>2. steadyMs' <= steadyMs + gap
      BY <1>1, <1>5, <1>6, ClockIsLongEnough DEF Capped
    <2> HIDE DEF h, st
    <2> QED
      BY <1>1, <1>2, <1>3, <1>4, <2>1, <2>2, LampGoesOn
  <1>7. CASE ~(Blinks(current.state) /\ st = current.state /\ pins'.ld3 = pins.ld3)
    <2>1. steadyMs' = 0
      BY <1>5, <1>7
    <2> HIDE DEF h, st
    <2> QED
      BY <1>1, <1>2, <1>3, <2>1, LampStarts
  <1> QED
    BY <1>6, <1>7

(* While the window suspends the cooling, LD3 is seen to blink: no level   *)
(* lasts for a period and an iteration, for every clock that holds a       *)
(* period, also where it wraps around in the middle of one.                *)
THEOREM LampIsSeenToBlink == Spec => []LampBlinks
  <1>1. Init => LampInv
    BY DEF Init, LampInv, Blinks
  <1>2. ClickInv /\ LampInv /\ ClickInv' /\ [Next]_vars => LampInv'
    <2> SUFFICES ASSUME ClickInv, LampInv, ClickInv', [Next]_vars PROVE LampInv'
      OBVIOUS
    <2>1. ASSUME NEW gap \in 1 .. MaxGapMs,
                 NEW m \in [state : States, buzzer_click : BOOLEAN],
                 TakeMessage(m, gap)
          PROVE  LampInv'
      BY <2>1, DriveKeepsLampInv DEF TakeMessage
    <2>2. ASSUME NEW gap \in 1 .. MaxGapMs, QueueEmpty(gap)
          PROVE  LampInv'
      BY <2>2, DriveKeepsLampInv DEF QueueEmpty
    <2>3. CASE UNCHANGED vars
      BY <2>3 DEF LampInv, vars, history
    <2> QED
      BY <2>1, <2>2, <2>3 DEF Next
  <1>3. ClickInv /\ LampInv => LampBlinks
    <2> DEFINE h == BlinkHalf(current.state)
               x == now % (2 * h)
               rest == ClockMod % (2 * h)
    <2> SUFFICES ASSUME ClickInv, LampInv, Blinks(current.state)
                 PROVE  steadyMs < 2 * h + MaxGapMs
      BY DEF LampBlinks
    <2>1. h \in Nat \ {0} /\ 2 * h \in Nat \ {0}
      BY HalvesFit
    <2>2. /\ now \in Nat /\ steadyMs \in Nat /\ MaxGapMs \in Nat \ {0}
          /\ pins.ld3 \in BOOLEAN
      BY ClockIsLongEnough DEF ClickInv, TypeOK
    <2>3. /\ pins.ld3 <=> x < h
          /\ ~pins.ld3 => steadyMs <= x - h
          /\ pins.ld3 /\ now >= 2 * h => steadyMs <= x
          /\ pins.ld3 /\ now < 2 * h =>
                steadyMs <= now + rest /\ (steadyMs <= now \/ rest - h < MaxGapMs)
      BY DEF LampInv, LampFits
    <2>4. x \in 0 .. 2 * h - 1 /\ rest \in Nat
      <3> DEFINE p == 2 * h
      <3>1. p \in Nat \ {0} /\ now \in Int /\ ClockMod \in Int
        BY <2>1, <2>2, ClockIsLongEnough
      <3> HIDE DEF p, h
      <3>2. now % p \in 0 .. p - 1 /\ ClockMod % p \in 0 .. p - 1
        BY <3>1, ModType
      <3> QED
        BY <3>1, <3>2 DEF p
    <2>5. now < 2 * h => x = now
      BY <2>1, <2>2
    <2> HIDE DEF h, x, rest
    <2> QED
      BY <2>1, <2>2, <2>3, <2>4, <2>5
  <1> QED
    BY <1>1, <1>2, <1>3, ClickInvHolds, PTL DEF Spec
=============================================================================
