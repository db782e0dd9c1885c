------------------------------ MODULE SlotQueue ------------------------------
(***************************************************************************)
(* A message path of app_tasks.c: a static ring of slots beside a          *)
(* uC/OS-III queue of pointers into it.  PostSensor, PostDisplay and       *)
(* PostActuator write the next slot and then post its address; they write  *)
(* it even when the post will fail.  The receiving task gets an address    *)
(* from OSQPend and copies the slot later, with nothing but the length of  *)
(* the ring to keep the sender from writing it meanwhile.                  *)
(*                                                                         *)
(* Writing and copying a structure take several instructions, so both are  *)
(* two steps here and a slot has two halves.  Any interleaving of sender   *)
(* and receiver is allowed: the priorities of the tasks exclude some, the  *)
(* properties do not need them to.                                         *)
(***************************************************************************)
EXTENDS Naturals, Sequences

CONSTANTS Message,    \* the contents a slot may be given
          Nothing,    \* the zeros the slots and the copies start from
          Depth,      \* APP_QUEUE_DEPTH
          Blocking    \* the receiver pends with a timeout, or polls

ASSUME QueueAssumption ==
    /\ Depth \in Nat \ {0}
    /\ Nothing \notin Message
    /\ Blocking \in BOOLEAN

(* A slip: one slot for every message waiting and one to write. *)
SlotCountWithoutReader == Depth + 1

SlotCount == Depth + 2            \* APP_QUEUE_SLOT_COUNT

Slot == 0 .. SlotCount - 1

VARIABLES
    slots,       \* the ring: two halves per slot
    slotIndex,   \* the slot the next message is written to
    queue,       \* the OS_Q: indices of posted slots, oldest first
    sender,      \* "idle", "writing" (first half done), "posting"
    message,     \* the message being sent
    receiver,    \* "running", "pending" (blocked), "copying", "halfway"
    held,        \* the slot the receiver has the address of
    copy         \* the receiver's copy: two halves

vars == <<slots, slotIndex, queue, sender, message, receiver, held, copy>>

Halves(m) == [first |-> m, second |-> m]

Init ==
    /\ slots = [i \in Slot |-> Halves(Nothing)]
    /\ slotIndex = 0
    /\ queue = <<>>
    /\ sender = "idle"
    /\ message = Nothing
    /\ receiver = "running"
    /\ held = 0
    /\ copy = Halves(Nothing)

-----------------------------------------------------------------------------
(* The sender: Post<Queue>(). *)

StartWrite(m) ==
    /\ sender = "idle"
    /\ sender' = "writing"
    /\ message' = m
    /\ slots' = [slots EXCEPT ![slotIndex].first = m]
    /\ UNCHANGED <<slotIndex, queue, receiver, held, copy>>

FinishWrite ==
    /\ sender = "writing"
    /\ sender' = "posting"
    /\ slots' = [slots EXCEPT ![slotIndex].second = message]
    /\ UNCHANGED <<slotIndex, queue, message, receiver, held, copy>>

NextSlot(i) == (i + 1) % SlotCount

(* OSQPost to a task blocked on the queue hands it the address at once. *)
PostToPending ==
    /\ sender = "posting"
    /\ receiver = "pending"
    /\ held' = slotIndex
    /\ receiver' = "copying"
    /\ sender' = "idle"
    /\ slotIndex' = NextSlot(slotIndex)
    /\ UNCHANGED <<slots, queue, message, copy>>

(* A slip: OS_OPT_POST_LIFO. *)
PostInFront ==
    /\ sender = "posting"
    /\ receiver # "pending"
    /\ Len(queue) < Depth
    /\ queue' = <<slotIndex>> \o queue
    /\ sender' = "idle"
    /\ slotIndex' = NextSlot(slotIndex)
    /\ UNCHANGED <<slots, message, receiver, held, copy>>

PostToQueue ==
    /\ sender = "posting"
    /\ receiver # "pending"
    /\ Len(queue) < Depth
    /\ queue' = Append(queue, slotIndex)
    /\ sender' = "idle"
    /\ slotIndex' = NextSlot(slotIndex)
    /\ UNCHANGED <<slots, message, receiver, held, copy>>

(* A slip: the index advances although the post has failed. *)
PostFailsAdvancing ==
    /\ sender = "posting"
    /\ receiver # "pending"
    /\ Len(queue) >= Depth
    /\ sender' = "idle"
    /\ slotIndex' = NextSlot(slotIndex)
    /\ UNCHANGED <<slots, queue, message, receiver, held, copy>>

(* OS_ERR_Q_MAX: the message is dropped, its slot will be written again.   *)
PostFails ==
    /\ sender = "posting"
    /\ receiver # "pending"
    /\ Len(queue) >= Depth
    /\ sender' = "idle"
    /\ UNCHANGED <<slots, slotIndex, queue, message, receiver, held, copy>>

Send == \/ \E m \in Message : StartWrite(m)
        \/ FinishWrite
        \/ PostToPending
        \/ PostToQueue
        \/ PostFails

-----------------------------------------------------------------------------
(* The receiver: OSQPend, and the copy after it. *)

(* A slip: the newest message is taken, the others are flushed. *)
PendTakesNewest ==
    /\ receiver = "running"
    /\ queue # <<>>
    /\ held' = queue[Len(queue)]
    /\ queue' = <<>>
    /\ receiver' = "copying"
    /\ UNCHANGED <<slots, slotIndex, sender, message, copy>>

PendTakes ==
    /\ receiver = "running"
    /\ queue # <<>>
    /\ held' = Head(queue)
    /\ queue' = Tail(queue)
    /\ receiver' = "copying"
    /\ UNCHANGED <<slots, slotIndex, sender, message, copy>>

PendBlocks ==
    /\ Blocking
    /\ receiver = "running"
    /\ queue = <<>>
    /\ receiver' = "pending"
    /\ UNCHANGED <<slots, slotIndex, queue, sender, message, held, copy>>

PendTimesOut ==
    /\ receiver = "pending"
    /\ receiver' = "running"
    /\ UNCHANGED <<slots, slotIndex, queue, sender, message, held, copy>>

CopyFirst ==
    /\ receiver = "copying"
    /\ receiver' = "halfway"
    /\ copy' = [copy EXCEPT !.first = slots[held].first]
    /\ UNCHANGED <<slots, slotIndex, queue, sender, message, held>>

CopySecond ==
    /\ receiver = "halfway"
    /\ receiver' = "running"
    /\ copy' = [copy EXCEPT !.second = slots[held].second]
    /\ UNCHANGED <<slots, slotIndex, queue, sender, message, held>>

Receive == PendTakes \/ CopyFirst \/ CopySecond

Next == Send \/ Receive \/ PendBlocks \/ PendTimesOut

Spec == Init /\ [][Next]_vars

(* Every task of higher priority than a receiver blocks in each of its     *)
(* iterations, so the receiver runs again.                                 *)
FairSpec == Spec /\ WF_vars(Receive)

-----------------------------------------------------------------------------
Reading == receiver \in {"copying", "halfway"}

TypeOK ==
    /\ slots \in [Slot -> [first : Message \cup {Nothing},
                           second : Message \cup {Nothing}]]
    /\ slotIndex \in Slot
    /\ queue \in Seq(Slot)
    /\ sender \in {"idle", "writing", "posting"}
    /\ message \in Message \cup {Nothing}
    /\ receiver \in {"running", "pending", "copying", "halfway"}
    /\ held \in Slot
    /\ copy \in [first : Message \cup {Nothing}, second : Message \cup {Nothing}]

(* The slot about to be written, on which the sender relies even when its  *)
(* post will fail, is neither waiting in the queue nor being copied.       *)
SlotIsFree ==
    /\ \A k \in 1 .. Len(queue) : queue[k] # slotIndex
    /\ Reading => held # slotIndex

(* A message the receiver has copied is not made of two. *)
CopyIsWhole == receiver # "halfway" => copy.first = copy.second

(* The message being sent, those waiting, and the one the receiver has the *)
(* address of.                                                             *)
Offered == IF sender = "idle" THEN Nothing ELSE message
Waiting == [k \in 1 .. Len(queue) |-> slots[queue[k]].first]
InHand  == IF Reading THEN slots[held].first ELSE Nothing

(* The path is a lossy FIFO of depth Depth: whole messages, in order, none *)
(* twice, and none lost that there was room for.                           *)
Fifo == INSTANCE LossyFifo WITH
    offered <- Offered,
    fifo    <- Waiting,
    taken   <- InHand,
    current <- copy.second
IsLossyFifo == Fifo!Spec

(* A message accepted by OSQPost is read. *)
AcceptedIsRead ==
    \A i \in Slot : (\E k \in 1 .. Len(queue) : queue[k] = i)
                        ~> (receiver = "copying" /\ held = i)

-----------------------------------------------------------------------------
(* The inductive invariant behind them: counted backwards from the slot to *)
(* be written, the queue is the last Len(queue) slots and the slot being   *)
(* read the one before those.                                              *)

Back(i, n) == IF n <= i THEN i - n ELSE i + SlotCount - n

QueueIsRecent ==
    /\ Len(queue) <= Depth
    /\ \A k \in 1 .. Len(queue) :
            queue[k] = Back(slotIndex, Len(queue) - k + 1)
    /\ Reading => held = Back(slotIndex, Len(queue) + 1)
    /\ receiver = "pending" => queue = <<>>

Whole(i) == slots[i].first = slots[i].second /\ slots[i].first \in Message

ContentIsWhole ==
    /\ \A k \in 1 .. Len(queue) : Whole(queue[k])
    /\ Reading => Whole(held)
    /\ sender \in {"writing", "posting"} =>
            message \in Message /\ slots[slotIndex].first = message
    /\ sender = "posting" => slots[slotIndex].second = message
    /\ receiver = "halfway" => copy.first = slots[held].first
    /\ CopyIsWhole

SlotInv == TypeOK /\ QueueIsRecent /\ ContentIsWhole
=============================================================================
