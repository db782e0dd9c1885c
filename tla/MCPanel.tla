------------------------------- MODULE MCPanel -------------------------------
(* One message of each state, and the temperatures at the ends of what two *)
(* digits can show.                                                        *)
EXTENDS Panel

Message(state, level, temperature, valid) ==
    [state |-> state, cooling_level |-> level, current_temperature_c |-> temperature,
     setpoint_c |-> 30, temperature_valid |-> valid]

MCMessages ==
    {Message(state, 0, 5, TRUE) :
        state \in {"OFF", "IDLE", "WINDOW_SUSPECT", "AC_PAUSED", "RECOVERY_WAIT"}}
    \cup {Message("COOLING", 3, t, TRUE) : t \in {9, 100}}
    \cup {Message("MANUAL_OVERRIDE", 3, -10, TRUE)}
    \cup {Message(state, 3, 0, FALSE) : state \in {"IDLE", "MANUAL_OVERRIDE"}}

(* A reset comes in the middle of the first command, in the last bit of    *)
(* the second digit, in the answer to the third, in a start condition or   *)
(* in the last answer of a call.                                           *)
MCCutPoints == {<<2, 11>>, <<7, 23>>, <<8, 26>>, <<11, 2>>, <<12, 26>>}
=============================================================================
