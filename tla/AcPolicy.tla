------------------------------ MODULE AcPolicy ------------------------------
(***************************************************************************)
(* What the state table of the README promises of the air conditioner,     *)
(* without times, temperatures or latches: which mode may follow which,    *)
(* given what the reed switch reports.  Automatic operation that an open   *)
(* window has interrupted resumes only through RECOVERY_WAIT, entered when *)
(* the window is reported closed, unless the user intervenes with the      *)
(* power or the manual button.                                             *)
(***************************************************************************)
VARIABLES mode, windowOpen

policyVars == <<mode, windowOpen>>

Interrupted == {"WINDOW_SUSPECT", "AC_PAUSED"}
Running     == {"IDLE", "COOLING"}

Init == mode = "OFF" /\ windowOpen = FALSE

(* The user's modes: the window is followed but decides nothing. *)
SwitchOff == mode' = "OFF" /\ windowOpen' \in BOOLEAN
Override  == mode' = "MANUAL_OVERRIDE" /\ windowOpen' \in BOOLEAN

(* Automatic operation with the window open: a pause is never taken back.  *)
Watch ==
    /\ windowOpen'
    /\ mode' \in Interrupted
    /\ mode = "AC_PAUSED" => mode' = "AC_PAUSED"

(* Automatic operation, the window has just been reported closed. *)
BeginRecovery ==
    /\ windowOpen
    /\ ~windowOpen'
    /\ mode' = "RECOVERY_WAIT"

StayInRecovery ==
    /\ mode = "RECOVERY_WAIT" /\ mode' = "RECOVERY_WAIT"
    /\ ~windowOpen /\ ~windowOpen'

Run ==
    /\ mode \notin Interrupted
    /\ mode' \in Running
    /\ ~windowOpen /\ ~windowOpen'

Next ==
    \/ SwitchOff
    \/ Override
    \/ Watch
    \/ BeginRecovery
    \/ StayInRecovery
    \/ Run

Spec == Init /\ [][Next]_policyVars
=============================================================================
