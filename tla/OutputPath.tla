----------------------------- MODULE OutputPath -----------------------------
(***************************************************************************)
(* From ControlTask to the display and the lamps: ControlTask posts its    *)
(* output when it differs from the last one or B1 was clicked, to two      *)
(* queues that drop what does not fit; DisplayTask and ActuatorTask take   *)
(* one message per period, however many wait.                              *)
(*                                                                         *)
(* Time passes in ticks.  A task whose time has come runs before the next  *)
(* tick, in any order with the others.  What makes ControlTask change its  *)
(* output are a few sources (the buttons, the sensor), none of which acts  *)
(* twice within SourceGap ticks; an output is a member of a small set.     *)
(***************************************************************************)
EXTENDS Integers, Sequences, FiniteSets

CONSTANTS
    Outputs,         \* the values of ControlOutput
    FirstOutput,     \* the output of the first call of Control_Step
    NoOutput,        \* have_last_output is false
    Sources,         \* what may change the output, "B1" clicks the buzzer as well
    SourceGap,       \* ticks between two acts of one source
    QueueDepth,      \* APP_QUEUE_DEPTH
    DisplayPeriod,   \* ticks from one iteration of DisplayTask to the next
    ActuatorPeriod   \* the same for ActuatorTask

ASSUME OutputAssumption ==
    /\ FirstOutput \in Outputs
    /\ NoOutput \notin Outputs
    /\ SourceGap \in Nat \ {0}
    /\ QueueDepth \in Nat \ {0}
    /\ DisplayPeriod \in Nat \ {0}
    /\ ActuatorPeriod \in 1 .. DisplayPeriod

(* ActuatorTask takes at least as many messages as the sources cause, and  *)
(* its queue holds one of each source and two more: the output of the      *)
(* first call of Control_Step, and one that ActuatorTask is about to take. *)
ASSUME RateAssumption ==
    /\ IsFiniteSet(Sources)
    /\ Cardinality(Sources) * ActuatorPeriod <= SourceGap
    /\ Cardinality(Sources) + 2 <= QueueDepth

VARIABLES
    last_output,        \* of ControlTask
    DisplayQ,
    ActuatorQ,
    ActuatorDropCount,  \* capped at 1: whether anything was dropped
    shown,              \* DisplayTask's current
    driven,             \* ActuatorTask's current
    controlDue,         \* ControlTask's OSQPend has timed out
    displayIn,          \* ticks until DisplayTask runs again
    actuatorIn,         \* ticks until ActuatorTask runs again
    restIn              \* ticks until a source may act again

(* History: whether the last post was dropped, ticks since the last post.  *)
VARIABLES displayLost, actuatorLost, sincePost

tasks == <<last_output, DisplayQ, ActuatorQ, ActuatorDropCount, shown, driven>>
times == <<controlDue, displayIn, actuatorIn, restIn>>
history == <<displayLost, actuatorLost, sincePost>>
pathVars == <<tasks, times, history>>

ActuatorMsg == [output : Outputs, buzzer_click : BOOLEAN]

DrainTicks == QueueDepth * DisplayPeriod

-----------------------------------------------------------------------------
(* A slip: posted with OS_OPT_POST_LIFO. *)
PostDisplayLifo(o) ==
    /\ displayLost' = (Len(DisplayQ) = QueueDepth)
    /\ DisplayQ' = IF displayLost' THEN DisplayQ ELSE <<o>> \o DisplayQ

PostDisplay(o) ==
    /\ displayLost' = (Len(DisplayQ) = QueueDepth)
    /\ DisplayQ' = IF displayLost' THEN DisplayQ ELSE Append(DisplayQ, o)

PostActuator(o, click) ==
    /\ actuatorLost' = (Len(ActuatorQ) = QueueDepth)
    /\ IF actuatorLost'
       THEN ActuatorDropCount' = 1 /\ UNCHANGED ActuatorQ
       ELSE /\ ActuatorQ' = Append(ActuatorQ, [output |-> o, buzzer_click |-> click])
            /\ UNCHANGED ActuatorDropCount

Previous == IF last_output = NoOutput THEN FirstOutput ELSE last_output

(* A slip: a click is posted to the buzzer alone. *)
PublishClickToBuzzer(o, click) ==
    IF click \/ o # last_output
    THEN /\ IF click THEN UNCHANGED <<DisplayQ, displayLost>> ELSE PostDisplay(o)
         /\ PostActuator(o, click)
         /\ last_output' = o
         /\ sincePost' = 0
    ELSE UNCHANGED <<DisplayQ, ActuatorQ, ActuatorDropCount, last_output, history>>

(* The output is posted on a click, the first time, and when it changed;   *)
(* it counts as posted whether or not the queues had room.                 *)
Publish(o, click) ==
    IF click \/ o # last_output
    THEN /\ PostDisplay(o)
         /\ PostActuator(o, click)
         /\ last_output' = o
         /\ sincePost' = 0
    ELSE UNCHANGED <<DisplayQ, ActuatorQ, ActuatorDropCount, last_output, history>>

(* One iteration of ControlTask, woken by a message or by the time-out.    *)
ControlStep(acting) ==
    /\ controlDue \/ acting # {}
    /\ \A s \in acting : restIn[s] = 0
    /\ \E o \in (IF acting = {} THEN {Previous} ELSE Outputs) :
            Publish(o, "B1" \in acting)
    /\ controlDue' = FALSE
    /\ restIn' = [s \in Sources |-> IF s \in acting THEN SourceGap ELSE restIn[s]]
    /\ UNCHANGED <<shown, driven, displayIn, actuatorIn>>

DisplayStep ==
    /\ displayIn = 0
    /\ displayIn' = DisplayPeriod
    /\ IF DisplayQ = <<>> THEN UNCHANGED <<shown, DisplayQ>>
       ELSE shown' = Head(DisplayQ) /\ DisplayQ' = Tail(DisplayQ)
    /\ UNCHANGED <<last_output, ActuatorQ, ActuatorDropCount, driven,
                   controlDue, actuatorIn, restIn, history>>

(* A slip: ActuatorTask sleeps as long as DisplayTask. *)
ActuatorStepSlow ==
    /\ actuatorIn = 0
    /\ actuatorIn' = DisplayPeriod
    /\ IF ActuatorQ = <<>> THEN UNCHANGED <<driven, ActuatorQ>>
       ELSE driven' = Head(ActuatorQ) /\ ActuatorQ' = Tail(ActuatorQ)
    /\ UNCHANGED <<last_output, DisplayQ, ActuatorDropCount, shown,
                   controlDue, displayIn, restIn, history>>

ActuatorStep ==
    /\ actuatorIn = 0
    /\ actuatorIn' = ActuatorPeriod
    /\ IF ActuatorQ = <<>> THEN UNCHANGED <<driven, ActuatorQ>>
       ELSE driven' = Head(ActuatorQ) /\ ActuatorQ' = Tail(ActuatorQ)
    /\ UNCHANGED <<last_output, DisplayQ, ActuatorDropCount, shown,
                   controlDue, displayIn, restIn, history>>

Tick ==
    /\ ~controlDue /\ displayIn > 0 /\ actuatorIn > 0
    /\ controlDue' = TRUE
    /\ displayIn' = displayIn - 1
    /\ actuatorIn' = actuatorIn - 1
    /\ restIn' = [s \in Sources |-> IF restIn[s] = 0 THEN 0 ELSE restIn[s] - 1]
    /\ sincePost' = IF sincePost > DrainTicks THEN sincePost ELSE sincePost + 1
    /\ UNCHANGED <<tasks, displayLost, actuatorLost>>

PathInit ==
    /\ last_output = NoOutput
    /\ DisplayQ = <<>>
    /\ ActuatorQ = <<>>
    /\ ActuatorDropCount = 0
    /\ shown = FirstOutput
    /\ driven = [output |-> FirstOutput, buzzer_click |-> FALSE]
    /\ controlDue = TRUE
    /\ displayIn = 0
    /\ actuatorIn = 0
    /\ restIn = [s \in Sources |-> 0]
    /\ displayLost = FALSE
    /\ actuatorLost = FALSE
    /\ sincePost = 0

PathNext ==
    \/ \E acting \in SUBSET Sources : ControlStep(acting)
    \/ DisplayStep
    \/ ActuatorStep
    \/ Tick

PathSpec == PathInit /\ [][PathNext]_pathVars

-----------------------------------------------------------------------------
PathTypeOK ==
    /\ last_output \in Outputs \cup {NoOutput}
    /\ DisplayQ \in Seq(Outputs) /\ Len(DisplayQ) <= QueueDepth
    /\ ActuatorQ \in Seq(ActuatorMsg) /\ Len(ActuatorQ) <= QueueDepth
    /\ ActuatorDropCount \in 0 .. 1
    /\ shown \in Outputs
    /\ driven \in ActuatorMsg
    /\ controlDue \in BOOLEAN
    /\ displayIn \in 0 .. DisplayPeriod
    /\ actuatorIn \in 0 .. ActuatorPeriod
    /\ restIn \in [Sources -> 0 .. SourceGap]
    /\ displayLost \in BOOLEAN /\ actuatorLost \in BOOLEAN
    /\ sincePost \in 0 .. DrainTicks + 1

(* The last output is at the end of a queue, or has arrived, unless it was *)
(* just dropped; the ticks until the queue is empty and those since it was *)
(* posted make no more than a full queue takes.                            *)
CatchUpInv ==
    /\ last_output = NoOutput =>
            DisplayQ = <<>> /\ ActuatorQ = <<>> /\ controlDue /\ sincePost = 0
    /\ ~displayLost =>
            IF DisplayQ = <<>> THEN shown = Previous
            ELSE DisplayQ[Len(DisplayQ)] = last_output
    /\ ~actuatorLost =>
            IF ActuatorQ = <<>> THEN driven.output = Previous
            ELSE ActuatorQ[Len(ActuatorQ)].output = last_output
    /\ DisplayQ # <<>> =>
            (Len(DisplayQ) - 1) * DisplayPeriod + displayIn + sincePost
                <= QueueDepth * DisplayPeriod
    /\ ActuatorQ # <<>> =>
            (Len(ActuatorQ) - 1) * ActuatorPeriod + actuatorIn + sincePost
                <= QueueDepth * ActuatorPeriod

(* The sources that must have acted since the message now at place i of    *)
(* ActuatorQ was posted: ActuatorTask had then a message of each source    *)
(* and one more to take, and SourceGap ticks are enough for N of them.     *)
TicksAhead(i) == (Cardinality(Sources) + 2 - i) * ActuatorPeriod

ActedSince(i) ==
    {s \in Sources : restIn[s] + TicksAhead(i) >= SourceGap + actuatorIn}

(* The messages from place 2 or 3 on are of different sources.             *)
RateInv ==
    \A i \in 2 .. Len(ActuatorQ) :
        i > 2 \/ actuatorIn > 0 =>
            Cardinality(ActedSince(i)) >= Len(ActuatorQ) - i + 1

(* QueuesInv owes nothing to RateAssumption.                               *)
QueuesInv == PathTypeOK /\ CatchUpInv

PathInv ==
    /\ QueuesInv
    /\ RateInv
    /\ ActuatorDropCount = 0

(* In the time a full queue takes to drain, the display has come to show   *)
(* the last output posted and the lamps to follow it, unless just that     *)
(* post was dropped: no earlier loss and no backlog outlasts it.           *)
OutputsCatchUp ==
    sincePost > DrainTicks =>
        /\ ~displayLost  => shown = last_output
        /\ ~actuatorLost => driven.output = last_output

(* ActuatorTask runs often enough for every click to be heard: its queue   *)
(* never overflows while no source acts more often than assumed.           *)
NoClickIsDropped == ActuatorDropCount = 0
=============================================================================
