---------------------------- MODULE DhtContract ----------------------------
(***************************************************************************)
(* What SensorTask relies on when it calls DhtRead: the call ends with an  *)
(* error and leaves the caller's variables alone, or without one and with  *)
(* a reading the checksum vouches for.  A sensor and a timer that work     *)
(* through the whole call leave only one outcome.                          *)
(***************************************************************************)
CONSTANTS
    Frames,          \* what the sensor may send
    Fitting,         \* those whose checksum fits
    Reading,         \* a function: the reading in a frame
    Unwritten,       \* temperature_c and humidity_pct were not assigned
    Errors           \* of a call that fails

VARIABLES
    busy,            \* a call is under way
    out,             \* what it has assigned
    error,           \* what it has stored in DhtLastError
    works,           \* sensor and timer have worked since it began
    sent             \* what the sensor has sent of its frame

vars == <<busy, out, error, works, sent>>

Init ==
    /\ busy = FALSE
    /\ out = Unwritten
    /\ error = "NONE"
    /\ works \in BOOLEAN
    /\ sent \in Frames

Call ==
    /\ ~busy /\ busy'
    /\ out' = Unwritten
    /\ error' = "NONE"
    /\ works' \in BOOLEAN
    /\ sent' \in Frames

NotReady ==
    /\ ~busy /\ ~busy'
    /\ out' = Unwritten
    /\ error' \in Errors
    /\ UNCHANGED <<works, sent>>

(* The sensor sends, or something breaks, and stays broken for the call.   *)
Proceeds ==
    /\ busy /\ busy'
    /\ UNCHANGED <<out, error>>
    /\ works' => works
    /\ sent' \in Frames

BreaksInBetween ==
    /\ ~busy /\ ~busy'
    /\ works' => works
    /\ sent' = sent
    /\ UNCHANGED <<out, error>>

Succeeds ==
    /\ busy /\ ~busy'
    /\ \E frame \in Fitting :
        /\ works => frame = sent
        /\ out' = Reading[frame]
    /\ error' = "NONE"
    /\ works' = works /\ sent' \in Frames

Fails ==
    /\ busy /\ ~busy'
    /\ works => sent \notin Fitting
    /\ error' \in Errors
    /\ out' = out /\ works' = works /\ sent' \in Frames

Next == Call \/ NotReady \/ Proceeds \/ BreaksInBetween \/ Succeeds \/ Fails

Spec == Init /\ [][Next]_vars
=============================================================================
