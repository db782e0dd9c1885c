---------------------------- MODULE MCControlFsm ----------------------------
(***************************************************************************)
(* Instances of ControlFsm for TLC.  Time is in units of a second or more: *)
(* what matters is that the two waits take several steps, that a step may  *)
(* jump past a deadline, and that the clock wraps around within a stay.    *)
(***************************************************************************)
EXTENDS ControlFsm

(* The comparison of Control_Step and the decimal one of the README agree  *)
(* from a tenth of a point on either side of the threshold, on every       *)
(* baseline a DHT22 can report; on the threshold itself they do not always.*)
ASSUME RiseIsDecimalButForTheThreshold ==
    \A b \in 0 .. 890, d \in 90 .. 110 :
        d # 10 * RisePct => (FloatRise(b + d, b) <=> DecimalRise(b + d, b))

Reading(t, h) == [temperature_c |-> t, humidity_pct |-> h]

\* one reading hot enough to cool
HotOnly == {Reading(270, 400)}

\* dry and cool, hot and humid
DryHumid == {Reading(235, 400), Reading(281, 500)}

Buttons    == {{}, {"POWER"}, {"MANUAL"}}
TwoAtOnce  == Buttons \cup {{"POWER", "MANUAL"}, {"SETPOINT_UP"}}

\* a step of one unit or one that jumps past a deadline; OSQPend at once or not
OneOrTwo == {1, 2}
OneStep  == {0, 1}
=============================================================================
