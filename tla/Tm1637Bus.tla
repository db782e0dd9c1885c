------------------------------ MODULE Tm1637Bus ------------------------------
(***************************************************************************)
(* Tm1637_SetSegments on the two wires, and the TM1637 at the other end.   *)
(* CLK is driven by the board alone; DIO is open-drain, high only while    *)
(* neither side pulls it.  The driver is the list of its pin operations,   *)
(* in the order of the code; one step of the model is one of them.         *)
(*                                                                         *)
(* The chip is external; it is described by what the driver relies on: DIO *)
(* falling or rising under a high CLK starts or ends a transfer, a bit is  *)
(* taken when CLK rises, least significant first, and after the eighth the *)
(* chip holds DIO low for one clock.                                       *)
(*                                                                         *)
(* The chip keeps its supply when the board is reset: it may then be in    *)
(* the middle of a transfer that nobody will finish.                       *)
(***************************************************************************)
EXTENDS Integers, Sequences

CONSTANTS
    Brightness,        \* APP_TM1637_BRIGHTNESS
    CutPoints          \* <<part, operations done>> at which a reset may come

ASSUME BusAssumption == Brightness \in Nat

VARIABLES
    segments,          \* the argument of Tm1637_SetSegments
    pc,                \* the part of the script under way, 0 between two calls,
                       \* Boot before the first
    step,              \* how many of its operations are done
    clk, dio,          \* the levels set by the board
    acks,              \* ack_count
    chip,
    present            \* the chip is plugged in

(* History: a call has been completed since the board was last reset.      *)
VARIABLE synced

busVars == <<pc, step, clk, dio, acks, chip, present, synced>>

-----------------------------------------------------------------------------
(* The driver. *)

Clk(level) == <<"clk", level>>
Dio(level) == <<"dio", level>>
CountAck   == <<"ack", TRUE>>       \* Board_Tm1637ReadDio

Tm1637Start == <<Dio(TRUE), Clk(TRUE), Dio(FALSE), Clk(FALSE)>>

Tm1637Stop == <<Clk(FALSE), Dio(FALSE), Clk(TRUE), Dio(TRUE)>>

BitOf(value, i) == (value \div 2^i) % 2 = 1

ReadAck == <<Clk(FALSE), Dio(TRUE), Clk(TRUE), CountAck, Clk(FALSE)>>

(* Slips: most significant bit first; DIO is not released for the answer. *)
WriteByteReversed(value) ==
    [n \in 1 .. 29 |->
        IF n > 24 THEN ReadAck[n - 24]
        ELSE <<Clk(FALSE), Dio(BitOf(value, 7 - ((n - 1) \div 3))), Clk(TRUE)>>
                [((n - 1) % 3) + 1]]

WriteByteHoldingDio(value) ==
    [n \in 1 .. 29 |->
        IF n > 24 THEN <<Clk(FALSE), Clk(FALSE), Clk(TRUE), CountAck, Clk(FALSE)>>[n - 24]
        ELSE <<Clk(FALSE), Dio(BitOf(value, (n - 1) \div 3)), Clk(TRUE)>>
                [((n - 1) % 3) + 1]]

(* Three operations for each bit, least significant first, and five for    *)
(* the answer.                                                             *)
Tm1637WriteByte(value) ==
    [n \in 1 .. 29 |->
        IF n > 24 THEN ReadAck[n - 24]
        ELSE <<Clk(FALSE), Dio(BitOf(value, (n - 1) \div 3)), Clk(TRUE)>>
                [((n - 1) % 3) + 1]]

(* A slip: the second digit's address. *)
ScriptFromSecondDigit(s) ==
    <<Tm1637Start, Tm1637WriteByte(64), Tm1637Stop,
      Tm1637Start, Tm1637WriteByte(193),
      Tm1637WriteByte(s[1]), Tm1637WriteByte(s[2]),
      Tm1637WriteByte(s[3]), Tm1637WriteByte(s[4]), Tm1637Stop,
      Tm1637Start, Tm1637WriteByte(136 + (Brightness % 8)), Tm1637Stop>>

(* 0x40: data follow, the address advances; 0xC0: the first digit; 0x88:   *)
(* the display is on.                                                      *)
Script(s) ==
    <<Tm1637Start, Tm1637WriteByte(64), Tm1637Stop,
      Tm1637Start, Tm1637WriteByte(192),
      Tm1637WriteByte(s[1]), Tm1637WriteByte(s[2]),
      Tm1637WriteByte(s[3]), Tm1637WriteByte(s[4]), Tm1637Stop,
      Tm1637Start, Tm1637WriteByte(136 + (Brightness % 8)), Tm1637Stop>>

(* Board_InitGpio makes the pins outputs while their output register still *)
(* holds the zeros of the reset, CLK before DIO, and sets them afterwards. *)
(* That Tm1637_Init sets them once more changes nothing.                   *)
Board_InitGpio == <<Clk(FALSE), Dio(FALSE), Clk(TRUE), Dio(TRUE)>>

Boot == 14

-----------------------------------------------------------------------------
(* The chip. *)

Chip == [active : BOOLEAN,      \* between a start and a stop condition
         count : 0 .. 8,        \* bits of the present byte
         value : 0 .. 255,
         ack : BOOLEAN,         \* pulling DIO low
         command : BOOLEAN,     \* the next byte is a command
         address : 0 .. 5,
         advance : BOOLEAN,     \* the address advances with every data byte
         ram : [0 .. 5 -> 0 .. 255],
         on : BOOLEAN]

TakeByte(c) ==
    IF ~c.command
    THEN [c EXCEPT !.ram[c.address] = c.value,
                   !.address = IF c.advance THEN (@ + 1) % 6 ELSE @]
    ELSE LET d == [c EXCEPT !.command = FALSE]
         IN  IF c.value >= 192 THEN [d EXCEPT !.address = (c.value - 192) % 6]
             ELSE IF c.value >= 128 THEN [d EXCEPT !.on = BitOf(c.value, 3)]
             ELSE IF c.value >= 64 THEN [d EXCEPT !.advance = ~BitOf(c.value, 2)]
             ELSE d

Wire(c, level) == level /\ ~c.ack

(* The chip sees the board set CLK from k to l and DIO from d to e.        *)
Sees(c, k, l, d, e) ==
    IF k /\ l /\ Wire(c, d) /\ ~Wire(c, e)
    THEN [c EXCEPT !.active = TRUE, !.count = 0, !.value = 0, !.command = TRUE]
    ELSE IF k /\ l /\ ~Wire(c, d) /\ Wire(c, e)
    THEN [c EXCEPT !.active = FALSE, !.count = 0, !.value = 0]
    ELSE IF ~k /\ l /\ c.active /\ ~c.ack /\ c.count < 8
    THEN [c EXCEPT !.count = @ + 1,
                   !.value = @ + (IF Wire(c, e) THEN 2^c.count ELSE 0)]
    ELSE IF k /\ ~l /\ c.active /\ c.ack
    THEN [c EXCEPT !.ack = FALSE, !.count = 0, !.value = 0]
    ELSE IF k /\ ~l /\ c.active /\ c.count = 8
    THEN [TakeByte(c) EXCEPT !.ack = TRUE]
    ELSE c

(* One pin operation.  A chip that is not plugged in sees nothing and      *)
(* pulls at nothing.                                                       *)
Operate(op) ==
    /\ clk' = IF op[1] = "clk" THEN op[2] ELSE clk
    /\ dio' = IF op[1] = "dio" THEN op[2] ELSE dio
    /\ acks' = IF op[1] = "ack" /\ ~Wire(chip, dio) THEN acks + 1 ELSE acks
    /\ chip' = IF present THEN Sees(chip, clk, clk', dio, dio') ELSE chip

-----------------------------------------------------------------------------
(* Tm1637_SetSegments is called with the segments of the new state. *)
Call ==
    /\ pc = 0
    /\ pc' = 1
    /\ acks' = 0
    /\ UNCHANGED <<step, clk, dio, chip, present, synced>>

LastPart == Len(Script(segments))

(* After the boot Tm1637_Init calls for the first time, after the last     *)
(* part a call ends.                                                       *)
PartAfter(p) == IF p = Boot THEN 1 ELSE IF p = LastPart THEN 0 ELSE p + 1

NextOperation ==
    /\ pc # 0
    /\ LET part == IF pc = Boot THEN Board_InitGpio ELSE Script(segments)[pc]
       IN  /\ Operate(part[step + 1])
           /\ IF step + 1 < Len(part)
              THEN step' = step + 1 /\ UNCHANGED <<pc, synced>>
              ELSE /\ step' = 0
                   /\ pc' = PartAfter(pc)
                   /\ synced' = (synced \/ pc = LastPart)
    /\ UNCHANGED present

(* The pins become inputs and float high, one before the other. *)
ClkRisesFirst == Sees(Sees(chip, clk, TRUE, dio, dio), TRUE, TRUE, dio, TRUE)
DioRisesFirst == Sees(Sees(chip, clk, clk, dio, TRUE), clk, TRUE, TRUE, TRUE)

(* The board is reset, between two calls, in the middle of one or while it *)
(* boots.                                                                  *)
Reset ==
    /\ pc = 0 \/ <<pc, step>> \in CutPoints
    /\ chip' \in IF present THEN {ClkRisesFirst, DioRisesFirst} ELSE {chip}
    /\ clk' = TRUE
    /\ dio' = TRUE
    /\ acks' = 0
    /\ pc' = Boot
    /\ step' = 0
    /\ synced' = FALSE
    /\ UNCHANGED present

(* Power-on, with the module plugged in or not. *)
BusInit ==
    /\ pc = Boot
    /\ step = 0
    /\ clk = TRUE
    /\ dio = TRUE
    /\ acks = 0
    /\ chip = [active |-> FALSE, count |-> 0, value |-> 0, ack |-> FALSE,
               command |-> FALSE, address |-> 0, advance |-> TRUE,
               ram |-> [a \in 0 .. 5 |-> 0], on |-> FALSE]
    /\ present \in BOOLEAN
    /\ synced = FALSE

-----------------------------------------------------------------------------
(* The inductive invariant. *)

BusTypeOK ==
    /\ segments \in [1 .. 4 -> 0 .. 255]
    /\ pc \in 0 .. Boot /\ step \in 0 .. 28
    /\ clk \in BOOLEAN /\ dio \in BOOLEAN
    /\ acks \in 0 .. 7
    /\ chip \in Chip
    /\ present \in BOOLEAN /\ synced \in BOOLEAN

Starts == {1, 4, 11}
Stops  == {3, 10, 13}
Bytes  == {2, 12} \cup 5 .. 9

ByteOf(p) == CASE p = 2  -> 64
               [] p = 5  -> 192
               [] p = 12 -> 136 + (Brightness % 8)
               [] OTHER  -> segments[p - 5]

(* The board's pins, wherever it is in a part. *)
LevelsInv ==
    /\ pc = 0 => step = 0 /\ clk /\ dio /\ synced
    /\ pc = Boot => /\ step <= 3 /\ ~synced
                    /\ clk <=> step \in {0, 3}
                    /\ dio <=> step <= 1
    /\ pc \in Starts => step <= 3 /\ clk /\ (dio <=> step < 3)
    /\ pc \in Stops => step <= 3 /\ (clk <=> step = 3) /\ (step >= 2 => ~dio)
    /\ pc \in Bytes =>
            /\ clk <=> (step \in 1 .. 24 /\ step % 3 = 0) \/ step >= 27
            /\ step < 24 /\ step % 3 = 2 => (dio <=> BitOf(ByteOf(pc), step \div 3))
            /\ step >= 26 => dio

Receives(n) == chip.active /\ ~chip.ack /\ chip.count = n

(* The chip is as far in the transfer as the driver is, but after a reset. *)
(* It may be anywhere in a byte then, which only bits that are 1 complete: *)
(* after a 0, DIO rises under a high CLK and the byte is given up.  And it *)
(* misses the first start condition while it holds DIO low.                *)
FrameInv ==
    /\ chip.advance
    /\ chip.ack => chip.active
    /\ chip.value < 2^chip.count
    /\ Receives(8) => chip.value >= 128 \/ (clk /\ ~dio)
    /\ pc = 0 \/ (pc \in Starts /\ step < 3)
            => ~chip.active \/ (pc = 1 /\ ~synced /\ chip.ack)
    /\ pc \in Starts /\ step = 3
            => (Receives(0) /\ chip.command) \/ (pc = 1 /\ ~synced /\ chip.ack)
    /\ pc \in Stops => Receives(IF step = 3 THEN 1 ELSE 0)
    /\ pc \in Bytes =>
            IF step > 24 THEN chip.ack
            ELSE Receives(step \div 3) /\ chip.value = ByteOf(pc) % 2^(step \div 3)

(* The digits the chip has been given in this call. *)
Written == IF pc \in 6 .. 9 THEN pc - (IF step > 24 THEN 5 ELSE 6)
           ELSE IF pc \in {Boot} \cup 1 .. 5 THEN 0 ELSE 4

(* It takes commands for commands and digits for digits, and each digit to *)
(* its place.                                                              *)
ContentInv ==
    /\ pc \in {2, 5, 12} /\ step <= 24 => chip.command \/ (pc = 2 /\ ~synced)
    /\ pc \in 6 .. 9 \/ (pc = 5 /\ step > 24) => ~chip.command /\ chip.address = Written
    /\ \A i \in 1 .. Written : chip.ram[i - 1] = segments[i]
    /\ pc \in {0, 13} \/ (pc = 12 /\ step > 24) => chip.on

(* The bytes before part p. *)
BytesBefore(p) ==
    <<7, 0, 0, 1, 1, 1, 2, 3, 4, 5, 6, 6, 6, 7, 0>>[p + 1]

AckInv ==
    /\ ~present => ~chip.ack /\ acks = 0
    /\ present => acks = BytesBefore(pc) + (IF pc \in Bytes /\ step = 28 THEN 1 ELSE 0)

BusInv ==
    /\ BusTypeOK
    /\ LevelsInv
    /\ present => FrameInv /\ ContentInv
    /\ AckInv

-----------------------------------------------------------------------------
(* Stored when the call ends. *)
Tm1637AckCount == acks

(* What the chip shows on the four digits there are. *)
Shown == [i \in 1 .. 4 |-> chip.ram[i - 1]]

(* One call is enough to show the segments, in whatever transfer a reset   *)
(* has left the chip.                                                      *)
OneCallIsEnough ==
    pc = 0 /\ synced /\ present => chip.on /\ Shown = segments

(* Once a call has been completed, and until the next reset, a digit only  *)
(* ever changes to what it is to show next, and the addresses beyond the   *)
(* fourth digit are left alone.  After a reset two things more can happen  *)
(* until the first call shows the digits: the falling CLK of               *)
(* Board_InitGpio stores a byte that was cut, with its eighth segment, the *)
(* dot, lit; and the 64 of the first command is taken for a digit.         *)
StoredByBoot(value) == pc = Boot /\ value >= 128
CommandAsDigit(value) == pc = 2 /\ value = 64

DigitsAreOldOrNew ==
    [][present =>
         \A a \in 0 .. 5 : chip'.ram[a] # chip.ram[a] =>
            \/ a < 4 /\ chip'.ram[a] = segments[a + 1]
            \/ ~synced /\ StoredByBoot(chip'.ram[a])
            \/ ~synced /\ CommandAsDigit(chip'.ram[a])]_<<segments, busVars>>

(* tm1637_ack tells whether the module is plugged in: every one of the     *)
(* seven bytes of a completed call is acknowledged, or none is; also of    *)
(* the first call after a reset.                                           *)
AckTellsThePlug ==
    [][pc # 0 /\ pc' = 0
            => Tm1637AckCount' = (IF present THEN 7 ELSE 0)]_<<segments, busVars>>
=============================================================================
