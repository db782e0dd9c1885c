---------------------------- MODULE ModularClock ----------------------------
(***************************************************************************)
(* Facts about counters that wrap around, and a little of multiplication,  *)
(* for the proofs about clocks and limits.                                 *)
(***************************************************************************)
EXTENDS Integers, TLAPS

LEMMA ModWithinTwoTurns ==
    ASSUME NEW M \in Nat \ {0}, NEW x \in Int, -M <= x, x < 2 * M
    PROVE  x % M = IF x < 0 THEN x + M ELSE IF x < M THEN x ELSE x - M
  OBVIOUS

LEMMA ModType ==
    ASSUME NEW M \in Nat \ {0}, NEW x \in Int
    PROVE  x % M \in 0 .. M - 1
  OBVIOUS

(* A difference of two readings grows with the time that passes, across    *)
(* the wrap-around, as long as it stays short of a whole turn.             *)
LEMMA DifferenceAdvances ==
    ASSUME NEW M \in Nat \ {0}, NEW t \in 0 .. M - 1, NEW s \in 0 .. M - 1,
           NEW d \in Nat, ((t - s) % M) + d < M
    PROVE  (((t + d) % M) - s) % M = ((t - s) % M) + d
  <1>1. \A x \in Int : -M <= x /\ x < 2 * M =>
            x % M = IF x < 0 THEN x + M ELSE IF x < M THEN x ELSE x - M
    BY ModWithinTwoTurns
  <1>2. (t - s) % M = IF t < s THEN t - s + M ELSE t - s
    BY <1>1
  <1>3. d < M
    BY <1>2
  <1> DEFINE n == (t + d) % M
  <1>4. n = IF t + d < M THEN t + d ELSE t + d - M
    BY <1>1, <1>3
  <1>5. n \in 0 .. M - 1
    BY <1>3, <1>4
  <1> HIDE DEF n
  <1>6. (n - s) % M = IF n < s THEN n - s + M ELSE n - s
    BY <1>1, <1>5
  <1>7. (n - s) % M = ((t - s) % M) + d
    BY <1>2, <1>3, <1>4, <1>6
  <1> QED
    BY <1>7 DEF n

LEMMA DifferenceToItself ==
    ASSUME NEW M \in Nat \ {0}, NEW t \in 0 .. M - 1
    PROVE  (t - t) % M = 0
  OBVIOUS

(* The phase of a period that a clock is in, and how it moves on. *)
LEMMA DivisionIs ==
    ASSUME NEW p \in Nat \ {0}, NEW t \in Nat
    PROVE  /\ t \div p \in Nat /\ t % p \in 0 .. p - 1
           /\ t = (p * (t \div p)) + (t % p)
  OBVIOUS

LEMMA DivisionIsUnique ==
    ASSUME NEW p \in Nat \ {0}, NEW q \in Nat, NEW r \in 0 .. p - 1
    PROVE  (p * q + r) % p = r
  OBVIOUS

LEMMA ModAdvances ==
    ASSUME NEW p \in Nat \ {0}, NEW t \in Nat, NEW k \in 0 .. p
    PROVE  (t + k) % p = IF (t % p) + k < p THEN (t % p) + k ELSE (t % p) + k - p
  <1> DEFINE q == t \div p
             x == t % p
  <1>1. q \in Nat /\ x \in 0 .. p - 1 /\ t = (p * q) + x
    BY DivisionIs
  <1> HIDE DEF q, x
  <1>2. p * q \in Nat /\ p * (q + 1) = (p * q) + p
    BY <1>1
  <1>3. CASE x + k < p
    <2>1. x + k \in 0 .. p - 1 /\ t + k = p * q + (x + k)
      BY <1>1, <1>2, <1>3
    <2>2. (t + k) % p = x + k
      BY <1>1, <2>1, DivisionIsUnique
    <2> QED
      BY <1>3, <2>2 DEF x
  <1>4. CASE ~(x + k < p)
    <2>1. x + k - p \in 0 .. p - 1 /\ t + k = p * (q + 1) + (x + k - p)
      BY <1>1, <1>2, <1>4
    <2>2. \A n \in Nat, r \in 0 .. p - 1 : (p * n + r) % p = r
      BY DivisionIsUnique
    <2>3. (t + k) % p = x + k - p
      BY <1>1, <2>1, <2>2, q + 1 \in Nat
    <2> QED
      BY <1>4, <2>3 DEF x
  <1> QED
    BY <1>3, <1>4

LEMMA TimesGrows ==
    ASSUME NEW c \in Nat, NEW a \in Int, NEW b \in Int, a <= b
    PROVE  c * a <= c * b
  <1>1. c * (b - a) >= 0
    <2>1. \A x \in Nat : c * x >= 0
      OBVIOUS
    <2> QED
      BY <2>1
  <1>2. c * b = c * a + c * (b - a)
    OBVIOUS
  <1>3. c * a \in Int /\ c * b \in Int /\ c * (b - a) \in Int
    OBVIOUS
  <1> QED
    BY <1>1, <1>2, <1>3

LEMMA TimesNext ==
    ASSUME NEW c \in Nat, NEW a \in Nat
    PROVE  /\ c * a \in Nat
           /\ c * (a + 1) = c * a + c
  OBVIOUS
=============================================================================
