------------------------------ MODULE LossyFifo ------------------------------
(***************************************************************************)
(* What the three message paths of the firmware promise: messages arrive   *)
(* whole, at most once and in the order they were posted.  A message is    *)
(* lost only if Depth of them are waiting when it is posted.               *)
(***************************************************************************)
EXTENDS Naturals, Sequences

CONSTANTS Message,   \* what may be posted
          Nothing,   \* no message
          Depth      \* how many messages may wait

VARIABLES offered,   \* the message about to be posted, or Nothing
          fifo,      \* the messages waiting, oldest first
          taken,     \* the message the receiver is copying, or Nothing
          current    \* the last message the receiver has copied

fifoVars == <<offered, fifo, taken, current>>

Init == offered = Nothing /\ fifo = <<>> /\ taken = Nothing /\ current = Nothing

Offer ==
    /\ offered = Nothing
    /\ offered' \in Message
    /\ UNCHANGED <<fifo, taken, current>>

(* What becomes of a message that is offered: it waits, *)
Accept ==
    /\ offered # Nothing
    /\ Len(fifo) < Depth
    /\ fifo' = Append(fifo, offered)
    /\ offered' = Nothing
    /\ UNCHANGED <<taken, current>>

(* or a receiver already blocked gets it at once,                          *)
HandOver ==
    /\ offered # Nothing
    /\ fifo = <<>> /\ taken = Nothing
    /\ taken' = offered
    /\ offered' = Nothing
    /\ UNCHANGED <<fifo, current>>

(* or it is lost, if there is no room for it. *)
Lose ==
    /\ offered # Nothing
    /\ Len(fifo) >= Depth
    /\ offered' = Nothing
    /\ UNCHANGED <<fifo, taken, current>>

Take ==
    /\ fifo # <<>> /\ taken = Nothing
    /\ taken' = Head(fifo)
    /\ fifo' = Tail(fifo)
    /\ UNCHANGED <<offered, current>>

Deliver ==
    /\ taken # Nothing
    /\ current' = taken
    /\ taken' = Nothing
    /\ UNCHANGED <<offered, fifo>>

Next == Offer \/ Accept \/ HandOver \/ Lose \/ Take \/ Deliver

Spec == Init /\ [][Next]_fifoVars
=============================================================================
