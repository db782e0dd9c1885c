-------------------------------- MODULE Panel --------------------------------
(***************************************************************************)
(* DisplayTask as a whole: the renderer of Display, whose text is then     *)
(* clocked into the chip of Tm1637Bus, and what is to be read on the four  *)
(* digits in the end.                                                      *)
(***************************************************************************)
EXTENDS Display, Tm1637Bus

panelVars == <<displayVars, segments, busVars>>

(* Power-on: Board_InitGpio is about to set up the pins, after which      *)
(* Tm1637_Init clears the display.                                         *)
PanelInit ==
    /\ DisplayInit
    /\ segments = Blank
    /\ BusInit

(* An iteration begins: the queue is asked, the text rendered and its      *)
(* transfer called for.                                                    *)
Iterate ==
    /\ \E gap \in PollGaps : TakeMessage(gap) \/ QueueEmpty(gap)
    /\ segments' = Text'
    /\ Call

Transfer == NextOperation /\ UNCHANGED <<displayVars, segments>>

Restart ==
    /\ Reset
    /\ DisplayReset
    /\ segments' = Blank

PanelNext ==
    \/ Iterate
    \/ Transfer
    \/ Restart

PanelSpec == PanelInit /\ [][PanelNext]_panelVars

-----------------------------------------------------------------------------
(* The text is that of the message shown, and its seconds count from when  *)
(* the display was told the state, for a turn of the clock.                *)
RenderInv ==
    /\ current \in DisplayMsg
    /\ last_display_state = current.state
    /\ now \in 0 .. ClockMod - 1
    /\ display_state_since_ms \in 0 .. ClockMod - 1
    /\ toldMs \in 0 .. ClockMod
    /\ toldMs < ClockMod => (now - display_state_since_ms) % ClockMod = toldMs
    /\ segments = Text \/ (segments = Blank /\ current.state = "OFF")

PanelInv == BusInv /\ RenderInv

(* Between two iterations. *)
Readable == pc = 0 /\ synced /\ present

(* README's table of texts: the four digits alone tell the state, no text  *)
(* of one state can be taken for another's, although '0' and 'O', '5' and  *)
(* 'S' look the same and numbers stand next to letters.                    *)
StateCanBeRead ==
    Readable =>
        \A state \in AcState : LooksLike(state, Shown) <=> state = current.state

(* The number after "OP" is the whole seconds since the display was told,  *)
(* the one after "ES" the seconds still to wait, a begun one counted, also *)
(* when App_Millis wraps meanwhile; 99 stands for all that is more.        *)
SecondsAreRight ==
    LET read == NumbersRead(Shown[3], Shown[4], Zero)
        wait == IF toldMs > RecoveryWaitMs THEN 0 ELSE RecoveryWaitMs - toldMs
    IN  Readable /\ toldMs < ClockMod =>
          /\ current.state = "WINDOW_SUSPECT"
               => \E n \in read : /\ n * SecondMs <= toldMs
                                  /\ n = 99 \/ toldMs < (n + 1) * SecondMs
          /\ current.state = "RECOVERY_WAIT"
               => \E n \in read : /\ n = 99 \/ wait <= n * SecondMs
                                  /\ n * SecondMs < wait + SecondMs

(* The temperature next to a cooling level is the measured one, limited to *)
(* -9 .. 99; an unmeasured one cannot be taken for a number.               *)
TemperatureCanBeRead ==
    Readable /\ current.state \in {"COOLING", "MANUAL_OVERRIDE"} =>
        LET t == current.current_temperature_c
        IN  NumbersRead(Shown[1], Shown[2], CharSegment.blank) =
                IF ~current.temperature_valid THEN {}
                ELSE {IF t > 99 THEN 99 ELSE IF t < -9 THEN -9 ELSE t}
=============================================================================
