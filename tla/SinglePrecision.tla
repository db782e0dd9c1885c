--------------------------- MODULE SinglePrecision ---------------------------
(***************************************************************************)
(* The single-precision arithmetic behind the humidity test of             *)
(* Control_Step.                                                           *)
(*                                                                         *)
(* DhtRead turns a raw reading t, in tenths of a percent, into             *)
(* (float)t * 0.1f, and Control_Step compares the difference of two such   *)
(* values with APP_HUMIDITY_RISE_PCT = 10.0f.  None of the three floats is *)
(* the decimal number it stands for, so the comparison is not the integer  *)
(* comparison h - b >= 100.  Here a float is a pair of integers, mantissa  *)
(* and exponent: Mantissa(t) / 2^Exponent(t), with 24 bits of mantissa.    *)
(*                                                                         *)
(* 0.1f is (1 + 2^-26) / 10.  The product is therefore t * 2^k / 10 plus a *)
(* correction between 1/8 and 1/4 of a unit, rounded to nearest: a fraction*)
(* of .4 is pushed past the half, one of .2 is not, which is "+ 6".        *)
(*                                                                         *)
(* TLC integers have 32 bits: b must be 0 or at least 10 (1.0 %) when h is *)
(* more than 20 points larger.                                             *)
(***************************************************************************)
EXTENDS Integers

RisePct == 10

(* Number of binary places of (float)t * 0.1f, for a raw reading t > 0. *)
Exponent(t) == CHOOSE k \in 0 .. 27 : 2^k * t \in 10 * 2^23 .. 10 * 2^24 - 1

Mantissa(t) == (2^Exponent(t) * t + 6) \div 10

(* The same float counted in units of 2^-k, for k >= Exponent(t). *)
InUnits(t, k) == Mantissa(t) * 2^(k - Exponent(t))

(* Half a unit in the last place of a float just below 10.0: what the      *)
(* subtraction may round up, none when the difference is representable.    *)
HalfUlp(k) == IF k > 20 THEN 2^(k - 21) ELSE 0

(* (h as float) - (b as float) >= 10.0f *)
FloatRise(h, b) ==
    /\ h > b
    /\ LET k == IF b = 0 THEN Exponent(h) ELSE Exponent(b)
           x == IF b = 0 THEN 0 ELSE InUnits(b, k)
       IN  InUnits(h, k) - x + HalfUlp(k) >= RisePct * 2^k

(* What the documentation promises, on the decimal readings. *)
DecimalRise(h, b) == h - b >= 10 * RisePct
=============================================================================
