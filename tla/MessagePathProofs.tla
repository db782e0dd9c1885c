-------------------------- MODULE MessagePathProofs --------------------------
(***************************************************************************)
(* Proofs about the messages between the tasks and what the last of them   *)
(* puts on the display.                                                    *)
(*                                                                         *)
(* SlotQueue, for every depth: two slots more than the queue holds are     *)
(* enough for the sender never to write a slot that is waiting or being    *)
(* copied, and the path is then a lossy FIFO.                              *)
(*                                                                         *)
(* OutputPath, for every depth, period and set of sources: display and     *)
(* lamps catch up with the last output in the time a full queue takes, and *)
(* none of ActuatorTask's messages is dropped.                             *)
(*                                                                         *)
(* Panel, for every text and every reset: the wires and the chip are where *)
(* the driver believes them, the digits show the text and nothing else on  *)
(* the way to it, and the text can be read in one way only.                *)
(***************************************************************************)
EXTENDS SlotQueue, OutputPath, Panel, ModularClock, SequenceTheorems, FiniteSetTheorems

-----------------------------------------------------------------------------
(* Counting backwards around the ring *)

LEMMA RingFacts ==
    /\ Depth \in Nat /\ Depth > 0
    /\ SlotCount \in Nat /\ SlotCount = Depth + 2
    /\ \A i : i \in Slot <=> i \in Nat /\ i < SlotCount
  <1>1. Depth \in Nat /\ Depth > 0
    BY QueueAssumption
  <1>2. SlotCount \in Nat /\ SlotCount = Depth + 2
    BY <1>1 DEF SlotCount
  <1> QED
    BY <1>1, <1>2 DEF Slot

LEMMA NextSlotIs ==
    ASSUME NEW i \in Slot
    PROVE  /\ NextSlot(i) \in Slot
           /\ NextSlot(i) = IF i + 1 = SlotCount THEN 0 ELSE i + 1
  <1>1. i \in Nat /\ i < SlotCount /\ SlotCount \in Nat \ {0}
    BY RingFacts
  <1>2. (i + 1) % SlotCount = IF i + 1 = SlotCount THEN 0 ELSE i + 1
    <2>1. \A n \in Nat \ {0} : \A j \in Nat : j < n => j % n = j
      OBVIOUS
    <2>2. \A n \in Nat \ {0} : n % n = 0
      OBVIOUS
    <2>3. CASE i + 1 = SlotCount
      BY <1>1, <2>2, <2>3
    <2>4. CASE i + 1 # SlotCount
      <3>1. i + 1 < SlotCount /\ i + 1 \in Nat
        BY <1>1, <2>4
      <3>2. (i + 1) % SlotCount = i + 1
        BY <1>1, <2>1, <3>1
      <3> QED
        BY <2>4, <3>2
    <2> QED
      BY <2>3, <2>4
  <1> QED
    BY <1>1, <1>2, RingFacts DEF NextSlot

(* Up to Depth + 1 slots back is another slot; one slot on, one more back. *)
LEMMA BackIs ==
    ASSUME NEW i \in Slot, NEW n \in 1 .. Depth + 1
    PROVE  /\ Back(i, n) \in Slot
           /\ Back(i, n) # i
           /\ n <= Depth => Back(NextSlot(i), n + 1) = Back(i, n)
           /\ Back(NextSlot(i), 1) = i
  <1>1. i \in Nat /\ i < SlotCount
    BY RingFacts
  <1>2. NextSlot(i) = IF i + 1 = SlotCount THEN 0 ELSE i + 1
    BY NextSlotIs
  <1> QED
    BY <1>1, <1>2, RingFacts DEF Back

-----------------------------------------------------------------------------
(* The inductive invariant *)

LEMMA InitSlotInv == Init => SlotInv
  <1> SUFFICES ASSUME Init PROVE SlotInv
    OBVIOUS
  <1>1. TypeOK
    BY RingFacts DEF Init, TypeOK, Halves
  <1>2. QueueIsRecent
    BY RingFacts DEF Init, QueueIsRecent, Reading
  <1>3. ContentIsWhole
    BY DEF Init, ContentIsWhole, Reading, CopyIsWhole, Halves
  <1> QED
    BY <1>1, <1>2, <1>3 DEF SlotInv

(* The slot the sender writes is not one that matters to the receiver. *)
LEMMA InvFreesSlot == SlotInv => SlotIsFree
  <1> SUFFICES ASSUME SlotInv PROVE SlotIsFree
    OBVIOUS
  <1>1. /\ slotIndex \in Slot
        /\ Len(queue) \in Nat /\ Len(queue) <= Depth
        /\ \A k \in 1 .. Len(queue) : queue[k] = Back(slotIndex, Len(queue) - k + 1)
        /\ Reading => held = Back(slotIndex, Len(queue) + 1)
    BY DEF SlotInv, TypeOK, QueueIsRecent
  <1>2. \A k \in 1 .. Len(queue) : queue[k] # slotIndex
    <2> TAKE k \in 1 .. Len(queue)
    <2>1. Len(queue) - k + 1 \in 1 .. Depth + 1
      BY <1>1, RingFacts
    <2> QED
      BY <1>1, <2>1, BackIs
  <1>3. Reading => held # slotIndex
    <2>1. Len(queue) + 1 \in 1 .. Depth + 1
      BY <1>1, RingFacts
    <2> QED
      BY <1>1, <2>1, BackIs
  <1> QED
    BY <1>2, <1>3 DEF SlotIsFree

LEMMA StartWritePreserves ==
    ASSUME SlotInv, NEW m \in Message, StartWrite(m)
    PROVE  SlotInv'
  <1>1. SlotIsFree
    BY InvFreesSlot
  <1>2. TypeOK'
    BY DEF SlotInv, TypeOK, StartWrite
  <1>3. QueueIsRecent'
    BY DEF SlotInv, QueueIsRecent, StartWrite, Reading
  <1>4. \A i \in Slot : i # slotIndex => slots'[i] = slots[i]
    BY DEF SlotInv, TypeOK, StartWrite
  <1>5. slots'[slotIndex].first = m
    BY DEF SlotInv, TypeOK, StartWrite
  <1>6. \A k \in 1 .. Len(queue) : queue[k] \in Slot
    BY DEF SlotInv, TypeOK
  <1>7. held \in Slot
    BY DEF SlotInv, TypeOK
  <1>8. ContentIsWhole'
    BY <1>1, <1>4, <1>5, <1>6, <1>7
       DEF SlotInv, ContentIsWhole, SlotIsFree, Whole, CopyIsWhole, Reading, StartWrite
  <1> QED
    BY <1>2, <1>3, <1>8 DEF SlotInv

LEMMA FinishWritePreserves ==
    ASSUME SlotInv, FinishWrite
    PROVE  SlotInv'
  <1>1. SlotIsFree
    BY InvFreesSlot
  <1>2. TypeOK'
    BY DEF SlotInv, TypeOK, FinishWrite
  <1>3. QueueIsRecent'
    BY DEF SlotInv, QueueIsRecent, FinishWrite, Reading
  <1>4. \A i \in Slot : i # slotIndex => slots'[i] = slots[i]
    BY DEF SlotInv, TypeOK, FinishWrite
  <1>5. /\ slots'[slotIndex].second = message
        /\ slots'[slotIndex].first = slots[slotIndex].first
    BY DEF SlotInv, TypeOK, FinishWrite
  <1>6. (\A k \in 1 .. Len(queue) : queue[k] \in Slot) /\ held \in Slot
    BY DEF SlotInv, TypeOK
  <1>7. ContentIsWhole'
    BY <1>1, <1>4, <1>5, <1>6
       DEF SlotInv, ContentIsWhole, SlotIsFree, Whole, CopyIsWhole, Reading, FinishWrite
  <1> QED
    BY <1>2, <1>3, <1>7 DEF SlotInv

LEMMA PostToPendingPreserves ==
    ASSUME SlotInv, PostToPending
    PROVE  SlotInv'
  <1>1. TypeOK'
    BY NextSlotIs DEF SlotInv, TypeOK, PostToPending
  <1>2. QueueIsRecent'
    <2>1. queue = <<>> /\ queue' = <<>>
      BY DEF SlotInv, QueueIsRecent, PostToPending
    <2>2. slotIndex \in Slot
      BY DEF SlotInv, TypeOK
    <2>3. held' = Back(slotIndex', 1)
      <3>1. 1 \in 1 .. Depth + 1
        BY RingFacts
      <3> QED
        BY <2>2, <3>1, BackIs DEF PostToPending
    <2>4. Len(queue') = 0
      BY <2>1
    <2>5. receiver' = "copying"
      BY DEF PostToPending
    <2> QED
      BY <2>3, <2>4, <2>5, RingFacts DEF QueueIsRecent
  <1>3. ContentIsWhole'
    BY DEF SlotInv, QueueIsRecent, ContentIsWhole, Whole, CopyIsWhole, Reading,
           PostToPending
  <1> QED
    BY <1>1, <1>2, <1>3 DEF SlotInv

LEMMA PostToQueuePreserves ==
    ASSUME SlotInv, PostToQueue
    PROVE  SlotInv'
  <1>1. /\ slotIndex \in Slot
        /\ queue \in Seq(Slot)
        /\ Len(queue) \in Nat
        /\ slotIndex' = NextSlot(slotIndex)
        /\ queue' = Append(queue, slotIndex)
        /\ Len(queue) < Depth
        /\ receiver # "pending" /\ receiver' = receiver
        /\ held' = held /\ slots' = slots
    BY DEF SlotInv, TypeOK, PostToQueue
  <1>2. /\ Len(queue') = Len(queue) + 1
        /\ \A k \in 1 .. Len(queue) : queue'[k] = queue[k]
        /\ queue'[Len(queue) + 1] = slotIndex
        /\ queue' \in Seq(Slot)
    BY <1>1
  <1>3. TypeOK'
    BY <1>1, <1>2, NextSlotIs DEF SlotInv, TypeOK, PostToQueue
  <1>4. QueueIsRecent'
    <2>1. Len(queue') <= Depth
      BY <1>1, <1>2, RingFacts
    <2>2. ASSUME NEW k \in 1 .. Len(queue')
          PROVE  queue'[k] = Back(slotIndex', Len(queue') - k + 1)
      <3>1. CASE k = Len(queue')
        <4>1. 1 \in 1 .. Depth + 1
          BY RingFacts
        <4>2. Back(slotIndex', 1) = slotIndex
          BY <1>1, <4>1, BackIs
        <4>3. queue'[k] = slotIndex /\ Len(queue') - k + 1 = 1
          BY <3>1, <1>1, <1>2
        <4> QED
          BY <4>2, <4>3
      <3>2. CASE k # Len(queue')
        <4>1. k \in 1 .. Len(queue)
          BY <3>2, <1>1, <1>2
        <4> DEFINE n == Len(queue) - k + 1
        <4>2. n \in 1 .. Depth + 1 /\ n <= Depth /\ Len(queue') - k + 1 = n + 1
          BY <4>1, <1>1, <1>2, RingFacts
        <4>3. queue[k] = Back(slotIndex, n)
          BY <4>1 DEF SlotInv, QueueIsRecent
        <4> HIDE DEF n
        <4>4. Back(slotIndex', n + 1) = Back(slotIndex, n)
          BY <1>1, <4>2, BackIs
        <4> QED
          BY <4>1, <4>2, <4>3, <4>4, <1>2
      <3> QED
        BY <3>1, <3>2
    <2>3. Reading' => held' = Back(slotIndex', Len(queue') + 1)
      <3> DEFINE n == Len(queue) + 1
      <3>1. n \in 1 .. Depth + 1 /\ n <= Depth /\ Len(queue') + 1 = n + 1
        BY <1>1, <1>2, RingFacts
      <3>2. Reading' => held' = Back(slotIndex, n)
        BY <1>1 DEF SlotInv, QueueIsRecent, Reading
      <3> HIDE DEF n
      <3>3. Back(slotIndex', n + 1) = Back(slotIndex, n)
        BY <1>1, <3>1, BackIs
      <3> QED
        BY <3>1, <3>2, <3>3
    <2>4. receiver' # "pending"
      BY <1>1
    <2> QED
      BY <2>1, <2>2, <2>3, <2>4 DEF QueueIsRecent
  <1>5. ContentIsWhole'
    <2>1. Whole(slotIndex)
      BY DEF SlotInv, ContentIsWhole, Whole, PostToQueue
    <2>2. \A k \in 1 .. Len(queue') : Whole(queue'[k])
      <3> TAKE k \in 1 .. Len(queue')
      <3>1. k \in 1 .. Len(queue) \/ k = Len(queue) + 1
        BY <1>1, <1>2
      <3> QED
        BY <2>1, <3>1, <1>2 DEF SlotInv, ContentIsWhole
    <2>3. \A i : Whole(i)' <=> slots[i].first = slots[i].second /\ slots[i].first \in Message
      BY <1>1 DEF Whole
    <2> QED
      BY <2>2, <2>3, <1>1
         DEF SlotInv, ContentIsWhole, Whole, CopyIsWhole, Reading, PostToQueue
  <1> QED
    BY <1>3, <1>4, <1>5 DEF SlotInv

LEMMA PendTakesPreserves ==
    ASSUME SlotInv, PendTakes
    PROVE  SlotInv'
  <1>1. /\ slotIndex \in Slot
        /\ queue \in Seq(Slot)
        /\ queue # <<>>
        /\ Len(queue) \in Nat
        /\ slotIndex' = slotIndex
        /\ queue' = Tail(queue)
        /\ held' = Head(queue)
        /\ receiver' = "copying"
    BY DEF SlotInv, TypeOK, PendTakes
  <1>2. /\ Len(queue) > 0
        /\ Len(queue') = Len(queue) - 1
        /\ \A k \in 1 .. Len(queue') : queue'[k] = queue[k + 1]
        /\ held' = queue[1]
        /\ queue' \in Seq(Slot)
        /\ held' \in Slot
    BY <1>1, HeadTailProperties
  <1>3. TypeOK'
    BY <1>1, <1>2 DEF SlotInv, TypeOK, PendTakes
  <1>4. QueueIsRecent'
    <2>1. \A k \in 1 .. Len(queue') : queue'[k] = Back(slotIndex', Len(queue') - k + 1)
      <3> TAKE k \in 1 .. Len(queue')
      <3>1. k + 1 \in 1 .. Len(queue) /\ Len(queue') - k + 1 = Len(queue) - (k + 1) + 1
        BY <1>1, <1>2
      <3> QED
        BY <3>1, <1>1, <1>2 DEF SlotInv, QueueIsRecent
    <2>2. held' = Back(slotIndex', Len(queue') + 1)
      <3>1. 1 \in 1 .. Len(queue) /\ Len(queue') + 1 = Len(queue) - 1 + 1
        BY <1>1, <1>2
      <3> QED
        BY <3>1, <1>1, <1>2 DEF SlotInv, QueueIsRecent
    <2>3. Len(queue') <= Depth
      BY <1>1, <1>2, RingFacts DEF SlotInv, QueueIsRecent
    <2> QED
      BY <2>1, <2>2, <2>3, <1>1 DEF QueueIsRecent
  <1>5. ContentIsWhole'
    <2>1. Whole(held') /\ \A k \in 1 .. Len(queue') : Whole(queue'[k])
      <3>1. 1 \in 1 .. Len(queue)
        BY <1>1, <1>2
      <3>2. \A k \in 1 .. Len(queue') : k + 1 \in 1 .. Len(queue)
        BY <1>1, <1>2
      <3> QED
        BY <3>1, <3>2, <1>2 DEF SlotInv, ContentIsWhole
    <2> QED
      BY <2>1 DEF SlotInv, ContentIsWhole, Whole, CopyIsWhole, Reading, PendTakes
  <1> QED
    BY <1>3, <1>4, <1>5 DEF SlotInv

LEMMA CopyPreserves ==
    ASSUME SlotInv, CopyFirst \/ CopySecond
    PROVE  SlotInv'
  <1>1. held \in Slot /\ slots[held].first \in Message \cup {Nothing}
                     /\ slots[held].second \in Message \cup {Nothing}
    BY DEF SlotInv, TypeOK
  <1>2. TypeOK'
    BY <1>1 DEF SlotInv, TypeOK, CopyFirst, CopySecond
  <1>3. QueueIsRecent'
    BY DEF SlotInv, QueueIsRecent, Reading, CopyFirst, CopySecond
  <1>4. CASE CopyFirst
    <2>1. copy'.first = slots[held].first
      BY <1>4 DEF SlotInv, TypeOK, CopyFirst
    <2>2. ContentIsWhole'
      BY <1>4, <2>1
         DEF SlotInv, ContentIsWhole, Whole, CopyIsWhole, Reading, CopyFirst
    <2> QED
      BY <1>2, <1>3, <2>2 DEF SlotInv
  <1>5. CASE CopySecond
    <2>1. copy'.second = slots[held].second /\ copy'.first = copy.first
      BY <1>5 DEF SlotInv, TypeOK, CopySecond
    <2>2. ContentIsWhole'
      BY <1>5, <2>1
         DEF SlotInv, ContentIsWhole, Whole, CopyIsWhole, Reading, CopySecond
    <2> QED
      BY <1>2, <1>3, <2>2 DEF SlotInv
  <1> QED
    BY <1>4, <1>5

(* Steps that move neither a message nor a slot. *)
LEMMA WaitingPreserves ==
    ASSUME SlotInv, PostFails \/ PendBlocks \/ PendTimesOut \/ UNCHANGED vars
    PROVE  SlotInv'
  BY DEF SlotInv, TypeOK, QueueIsRecent, ContentIsWhole, Whole, CopyIsWhole,
         Reading, PostFails, PendBlocks, PendTimesOut, vars

(* SlotInv holds in every reachable state, whatever the depth, the         *)
(* messages and the interleaving.                                          *)
THEOREM SlotInvariant == Spec => []SlotInv
  <1>1. SlotInv /\ [Next]_vars => SlotInv'
    <2> SUFFICES ASSUME SlotInv, [Next]_vars PROVE SlotInv'
      OBVIOUS
    <2>1. CASE \E m \in Message : StartWrite(m)
      BY <2>1, StartWritePreserves
    <2>2. CASE FinishWrite
      BY <2>2, FinishWritePreserves
    <2>3. CASE PostToPending
      BY <2>3, PostToPendingPreserves
    <2>4. CASE PostToQueue
      BY <2>4, PostToQueuePreserves
    <2>5. CASE PendTakes
      BY <2>5, PendTakesPreserves
    <2>6. CASE CopyFirst \/ CopySecond
      BY <2>6, CopyPreserves
    <2>7. CASE PostFails \/ PendBlocks \/ PendTimesOut \/ UNCHANGED vars
      BY <2>7, WaitingPreserves
    <2> QED
      BY <2>1, <2>2, <2>3, <2>4, <2>5, <2>6, <2>7 DEF Next, Send, Receive
  <1> QED
    BY InitSlotInv, <1>1, PTL DEF Spec

(* The ring of Depth + 2 slots is long enough. *)
THEOREM RingIsLongEnough == Spec => []SlotIsFree
  BY SlotInvariant, InvFreesSlot, PTL

(* No message arrives torn. *)
THEOREM CopiesAreWhole == Spec => []CopyIsWhole
  <1>1. SlotInv => CopyIsWhole
    BY DEF SlotInv, ContentIsWhole
  <1> QED
    BY SlotInvariant, <1>1, PTL

-----------------------------------------------------------------------------
(* SlotQueue implements LossyFifo *)

Contents(q, ring) == [k \in 1 .. Len(q) |-> ring[q[k]].first]

LEMMA ContentsIsSeq ==
    ASSUME NEW q \in Seq(Slot), NEW ring,
           \A k \in 1 .. Len(q) : ring[q[k]].first \in Message
    PROVE  /\ Contents(q, ring) \in Seq(Message)
           /\ Len(Contents(q, ring)) = Len(q)
           /\ Len(q) \in Nat
           /\ \A k \in 1 .. Len(q) : Contents(q, ring)[k] = ring[q[k]].first
  <1> DEFINE c == Contents(q, ring)
  <1>1. Len(q) \in Nat
    OBVIOUS
  <1>2. c \in [1 .. Len(q) -> Message]
    BY DEF Contents
  <1>3. c \in Seq(Message)
    BY <1>1, <1>2, SeqDef
  <1>4. \A k \in 1 .. Len(q) : c[k] = ring[q[k]].first
    BY DEF Contents
  <1> HIDE DEF c
  <1>5. DOMAIN c = 1 .. Len(q) /\ DOMAIN c = 1 .. Len(c) /\ Len(c) \in Nat
    BY <1>2, <1>3, LenProperties
  <1>6. Len(c) = Len(q)
    BY <1>1, <1>5
  <1>7. /\ c \in Seq(Message)
        /\ Len(c) = Len(q)
        /\ Len(q) \in Nat
        /\ \A k \in 1 .. Len(q) : c[k] = ring[q[k]].first
    BY <1>1, <1>3, <1>4, <1>6
  <1> QED
    BY <1>7 DEF c

(* The same of the mapped queue, in this state and the next. *)
LEMMA WaitingIsSeq ==
    ASSUME SlotInv, SlotInv'
    PROVE  /\ Waiting \in Seq(Message) /\ Waiting' \in Seq(Message)
           /\ Len(Waiting) = Len(queue) /\ Len(queue) \in Nat
           /\ Len(Waiting') = Len(queue')
           /\ \A k \in 1 .. Len(queue) : Waiting[k] = slots[queue[k]].first
           /\ \A k \in 1 .. Len(queue') : Waiting'[k] = slots'[queue'[k]].first
  <1>1. /\ queue \in Seq(Slot)
        /\ \A k \in 1 .. Len(queue) : slots[queue[k]].first \in Message
    BY DEF SlotInv, TypeOK, ContentIsWhole, Whole
  <1>2. /\ queue' \in Seq(Slot)
        /\ \A k \in 1 .. Len(queue') : slots'[queue'[k]].first \in Message
    BY DEF SlotInv, TypeOK, ContentIsWhole, Whole
  <1>3. Waiting = Contents(queue, slots) /\ Waiting' = Contents(queue', slots')
    BY DEF Waiting, Contents
  <1>4. /\ Contents(queue, slots) \in Seq(Message)
        /\ Len(Contents(queue, slots)) = Len(queue) /\ Len(queue) \in Nat
        /\ \A k \in 1 .. Len(queue) :
                Contents(queue, slots)[k] = slots[queue[k]].first
    BY <1>1, ContentsIsSeq
  <1>5. /\ Contents(queue', slots') \in Seq(Message)
        /\ Len(Contents(queue', slots')) = Len(queue')
        /\ \A k \in 1 .. Len(queue') :
                Contents(queue', slots')[k] = slots'[queue'[k]].first
    BY <1>2, ContentsIsSeq
  <1> QED
    BY <1>3, <1>4, <1>5

(* The mapped state changes with the slots only where one is posted. *)
LEMMA WritesDoNotShow ==
    ASSUME SlotInv, (\E m \in Message : StartWrite(m)) \/ FinishWrite
    PROVE  UNCHANGED <<Waiting, InHand, copy.second>>
  <1>1. /\ queue' = queue /\ held' = held
        /\ receiver' = receiver /\ copy' = copy
        /\ \A i \in Slot : i # slotIndex => slots'[i] = slots[i]
    BY DEF SlotInv, TypeOK, StartWrite, FinishWrite
  <1>2. /\ \A k \in 1 .. Len(queue) : queue[k] \in Slot /\ queue[k] # slotIndex
        /\ held \in Slot
        /\ Reading => held # slotIndex
    BY InvFreesSlot DEF SlotIsFree, SlotInv, TypeOK
  <1>3. \A k \in 1 .. Len(queue) : slots'[queue[k]] = slots[queue[k]]
    BY <1>1, <1>2
  <1>4. Waiting' = Waiting
    BY <1>1, <1>3 DEF Waiting
  <1>5. InHand' = InHand
    BY <1>1, <1>2 DEF InHand, Reading
  <1> QED
    BY <1>1, <1>4, <1>5

LEMMA WritingOffers ==
    ASSUME SlotInv, NEW m \in Message, StartWrite(m)
    PROVE  Fifo!Offer
  <1>1. UNCHANGED <<Waiting, InHand, copy.second>>
    BY WritesDoNotShow
  <1>2. Offered = Nothing /\ Offered' = m
    BY DEF StartWrite, Offered
  <1> QED
    BY <1>1, <1>2 DEF Fifo!Offer

LEMMA PostingAccepts ==
    ASSUME SlotInv, SlotInv', PostToQueue
    PROVE  Fifo!Accept
  <1>1. /\ queue \in Seq(Slot) /\ Len(queue) < Depth
        /\ queue' = Append(queue, slotIndex)
        /\ slots' = slots /\ held' = held
        /\ receiver' = receiver /\ copy' = copy
        /\ slots[slotIndex].first = message /\ message \in Message
    BY DEF SlotInv, TypeOK, ContentIsWhole, PostToQueue
  <1>2. /\ Waiting \in Seq(Message) /\ Waiting' \in Seq(Message)
        /\ Len(Waiting) = Len(queue) /\ Len(queue) \in Nat
        /\ Len(Waiting') = Len(queue')
        /\ \A k \in 1 .. Len(queue) : Waiting[k] = slots[queue[k]].first
        /\ \A k \in 1 .. Len(queue') : Waiting'[k] = slots'[queue'[k]].first
    BY WaitingIsSeq
  <1>3. /\ Len(queue') = Len(queue) + 1
        /\ \A k \in 1 .. Len(queue) : queue'[k] = queue[k]
        /\ queue'[Len(queue) + 1] = slotIndex
    BY <1>1
  <1> DEFINE app == Append(Waiting, message)
  <1>4. /\ app \in Seq(Message)
        /\ Len(app) = Len(queue) + 1
        /\ \A k \in 1 .. Len(queue) : app[k] = Waiting[k]
        /\ app[Len(queue) + 1] = message
    BY <1>1, <1>2
  <1>5. \A k \in 1 .. Len(Waiting') : Waiting'[k] = app[k]
    <2> TAKE k \in 1 .. Len(Waiting')
    <2> HIDE DEF app
    <2>1. CASE k = Len(queue) + 1
      BY <2>1, <1>1, <1>2, <1>3, <1>4
    <2>2. CASE k # Len(queue) + 1
      <3>1. k \in 1 .. Len(queue) /\ k \in 1 .. Len(queue')
        BY <2>2, <1>2, <1>3
      <3> QED
        BY <3>1, <1>1, <1>2, <1>3, <1>4
    <2> QED
      BY <2>1, <2>2
  <1>6. Len(Waiting') = Len(app)
    BY <1>2, <1>3, <1>4
  <1> HIDE DEF app
  <1>7. Waiting' = app
    BY <1>2, <1>4, <1>5, <1>6, SeqEqual
  <1>8. InHand' = InHand
    BY <1>1 DEF InHand, Reading
  <1>9. Offered = message /\ Offered # Nothing /\ Offered' = Nothing
    BY <1>1, QueueAssumption DEF Offered, PostToQueue
  <1> QED
    BY <1>1, <1>2, <1>7, <1>8, <1>9 DEF Fifo!Accept, app

LEMMA FailingLoses ==
    ASSUME SlotInv, SlotInv', PostFails
    PROVE  Fifo!Lose
  <1>1. Len(Waiting) >= Depth
    BY WaitingIsSeq DEF PostFails
  <1>2. Offered # Nothing /\ Offered' = Nothing
    BY QueueAssumption DEF SlotInv, ContentIsWhole, PostFails, Offered
  <1>3. UNCHANGED <<Waiting, InHand, copy.second>>
    BY DEF PostFails, Waiting, InHand, Reading
  <1> QED
    BY <1>1, <1>2, <1>3 DEF Fifo!Lose

LEMMA TakingTakes ==
    ASSUME SlotInv, SlotInv', PendTakes
    PROVE  Fifo!Take
  <1>1. /\ queue \in Seq(Slot) /\ queue # <<>>
        /\ queue' = Tail(queue)
        /\ slots' = slots /\ held' = Head(queue)
        /\ receiver = "running" /\ receiver' = "copying" /\ copy' = copy
    BY DEF SlotInv, TypeOK, PendTakes
  <1>2. /\ Waiting \in Seq(Message) /\ Waiting' \in Seq(Message)
        /\ Len(Waiting) = Len(queue) /\ Len(queue) \in Nat
        /\ Len(Waiting') = Len(queue')
        /\ \A k \in 1 .. Len(queue) : Waiting[k] = slots[queue[k]].first
        /\ \A k \in 1 .. Len(queue') : Waiting'[k] = slots'[queue'[k]].first
    BY WaitingIsSeq
  <1>3. /\ Len(queue) > 0
        /\ Len(queue') = Len(queue) - 1
        /\ \A k \in 1 .. Len(queue') : queue'[k] = queue[k + 1]
        /\ held' = queue[1]
    BY <1>1, HeadTailProperties
  <1>4. Waiting # <<>>
    BY <1>2, <1>3, EmptySeq
  <1>5. /\ Tail(Waiting) \in Seq(Message)
        /\ Len(Tail(Waiting)) = Len(queue) - 1
        /\ \A k \in 1 .. Len(queue') : Tail(Waiting)[k] = Waiting[k + 1]
        /\ Head(Waiting) = Waiting[1]
    BY <1>2, <1>3, <1>4, HeadTailProperties
  <1>6. \A k \in 1 .. Len(Waiting') : Waiting'[k] = Tail(Waiting)[k]
    <2> TAKE k \in 1 .. Len(Waiting')
    <2>1. k \in 1 .. Len(queue') /\ k + 1 \in 1 .. Len(queue)
      BY <1>2, <1>3
    <2> QED
      BY <2>1, <1>1, <1>2, <1>3, <1>5
  <1>7. Waiting' = Tail(Waiting)
    BY <1>2, <1>3, <1>5, <1>6, SeqEqual
  <1>8. InHand = Nothing /\ InHand' = Head(Waiting)
    <2>1. 1 \in 1 .. Len(queue)
      BY <1>2, <1>3
    <2> QED
      BY <2>1, <1>1, <1>2, <1>3, <1>5 DEF InHand, Reading
  <1>9. Offered' = Offered
    BY DEF Offered, PendTakes
  <1> QED
    BY <1>1, <1>4, <1>7, <1>8, <1>9 DEF Fifo!Take

LEMMA PostHandsOver ==
    ASSUME SlotInv, PostToPending
    PROVE  Fifo!HandOver
  <1>1. queue = <<>> /\ queue' = <<>>
    BY DEF SlotInv, QueueIsRecent, PostToPending
  <1>2. Waiting = <<>> /\ Waiting' = <<>>
    BY <1>1, EmptySeq DEF Waiting
  <1>3. InHand = Nothing /\ InHand' = message /\ message \in Message
    BY DEF SlotInv, ContentIsWhole, InHand, Reading, PostToPending
  <1>4. Offered = message /\ Offered # Nothing /\ Offered' = Nothing
    BY <1>3, QueueAssumption DEF Offered, PostToPending
  <1> QED
    BY <1>2, <1>3, <1>4 DEF Fifo!HandOver, PostToPending

LEMMA CopyDelivers ==
    ASSUME SlotInv, CopySecond
    PROVE  Fifo!Deliver
  <1>1. /\ slots[held].first \in Message
        /\ slots[held].first = slots[held].second
        /\ receiver = "halfway" /\ receiver' = "running"
        /\ slots' = slots /\ queue' = queue
    BY DEF SlotInv, ContentIsWhole, Whole, Reading, CopySecond
  <1>2. copy'.second = slots[held].second
    BY DEF SlotInv, TypeOK, CopySecond
  <1>3. InHand = slots[held].first /\ InHand' = Nothing
    BY <1>1 DEF InHand, Reading
  <1>4. Waiting' = Waiting
    BY <1>1 DEF Waiting
  <1>5. Offered' = Offered
    BY DEF Offered, CopySecond
  <1> QED
    BY <1>1, <1>2, <1>3, <1>4, <1>5, QueueAssumption DEF Fifo!Deliver

(* Each message path delivers whole messages, in order, none twice, and    *)
(* loses one only when Depth are waiting.                                  *)
THEOREM ImplementsLossyFifo == Spec => IsLossyFifo
  <1>1. Init => Fifo!Init
    <2> SUFFICES ASSUME Init PROVE Fifo!Init
      OBVIOUS
    <2>1. queue = <<>> /\ ~Reading /\ copy.second = Nothing
      BY DEF Init, Reading, Halves
    <2>0. Offered = Nothing
      BY DEF Init, Offered
    <2>2. Waiting = <<>>
      BY <2>1, EmptySeq DEF Waiting
    <2> QED
      BY <2>0, <2>1, <2>2 DEF Fifo!Init, InHand
  <1>2. SlotInv /\ SlotInv' /\ [Next]_vars => [Fifo!Next]_(Fifo!fifoVars)
    <2> SUFFICES ASSUME SlotInv, SlotInv', [Next]_vars
                 PROVE  Fifo!Next \/ UNCHANGED <<Offered, Waiting, InHand, copy.second>>
      BY DEF Fifo!fifoVars
    <2>1. CASE \E m \in Message : StartWrite(m)
      BY <2>1, WritingOffers DEF Fifo!Next
    <2>0. CASE FinishWrite
      <3>1. Offered' = Offered
        BY <2>0 DEF FinishWrite, Offered
      <3> QED
        BY <2>0, <3>1, WritesDoNotShow
    <2>2. CASE PostToPending
      BY <2>2, PostHandsOver DEF Fifo!Next
    <2>3. CASE PostToQueue
      BY <2>3, PostingAccepts DEF Fifo!Next
    <2>8. CASE PostFails
      BY <2>8, FailingLoses DEF Fifo!Next
    <2>4. CASE PendTakes
      BY <2>4, TakingTakes DEF Fifo!Next
    <2>5. CASE CopyFirst
      <3>1. copy'.second = copy.second
        BY <2>5 DEF SlotInv, TypeOK, CopyFirst
      <3> QED
        BY <2>5, <3>1 DEF CopyFirst, Offered, Waiting, InHand, Reading
    <2>6. CASE CopySecond
      BY <2>6, CopyDelivers DEF Fifo!Next
    <2>7. CASE PendBlocks \/ PendTimesOut \/ UNCHANGED vars
      BY <2>7 DEF PendBlocks, PendTimesOut, vars, Offered, Waiting, InHand, Reading
    <2> QED
      BY <2>0, <2>1, <2>2, <2>3, <2>4, <2>5, <2>6, <2>7, <2>8 DEF Next, Send, Receive
  <1> QED
    BY SlotInvariant, <1>1, <1>2, PTL DEF Spec, IsLossyFifo, Fifo!Spec

-----------------------------------------------------------------------------
(* The path of the outputs: constants and products *)

(* Of these only RateConstants knows how often the sources act.            *)
LEMMA PathConstants ==
    /\ QueueDepth \in Nat \ {0}
    /\ DisplayPeriod \in Nat \ {0}
    /\ ActuatorPeriod \in Nat \ {0} /\ ActuatorPeriod <= DisplayPeriod
    /\ SourceGap \in Nat \ {0}
    /\ FirstOutput \in Outputs /\ NoOutput \notin Outputs
  BY OutputAssumption

LEMMA RateConstants ==
    /\ IsFiniteSet(Sources) /\ Cardinality(Sources) \in Nat
    /\ Cardinality(Sources) + 2 <= QueueDepth
    /\ Cardinality(Sources) * ActuatorPeriod <= SourceGap
  BY RateAssumption, FS_CardinalityType

(* The ticks a queue of n messages needs. *)
LEMMA BacklogIs ==
    ASSUME NEW p \in Nat, NEW n \in Nat \ {0}
    PROVE  /\ (n - 1) * p \in Nat
           /\ n * p = (n - 1) * p + p
           /\ n >= 2 => (n - 1) * p = (n - 2) * p + p
           /\ \A m \in Nat : n <= m => n * p <= m * p
  <1>1. /\ p * (n - 1) \in Nat
        /\ p * n = p * (n - 1) + p
    BY TimesNext
  <1>2. n >= 2 => p * (n - 1) = p * (n - 2) + p
    BY TimesNext
  <1>3. \A m \in Nat : n <= m => p * n <= p * m
    BY TimesGrows
  <1>4. \A m \in Int : m * p = p * m
    OBVIOUS
  <1> QED
    BY <1>1, <1>2, <1>3, <1>4

LEMMA DrainIs ==
    /\ DrainTicks \in Nat
    /\ DrainTicks = QueueDepth * DisplayPeriod
    /\ QueueDepth * ActuatorPeriod \in Nat
    /\ QueueDepth * ActuatorPeriod <= DrainTicks
  BY PathConstants, TimesGrows, TimesNext DEF DrainTicks

-----------------------------------------------------------------------------
(* What posting and taking do to a queue *)

LEMMA TakenIs ==
    ASSUME NEW S, NEW q \in Seq(S), q # <<>>
    PROVE  /\ Head(q) \in S /\ Tail(q) \in Seq(S)
           /\ Len(q) \in Nat \ {0} /\ Len(Tail(q)) = Len(q) - 1
           /\ Tail(q) # <<>> => /\ Len(q) >= 2
                                /\ Tail(q)[Len(Tail(q))] = q[Len(q)]
           /\ Tail(q) = <<>> => Head(q) = q[Len(q)]
  <1>1. Len(q) \in Nat \ {0}
    BY EmptySeq
  <1>2. /\ Head(q) \in S /\ Tail(q) \in Seq(S)
        /\ Len(Tail(q)) = Len(q) - 1
        /\ \A i \in 1 .. Len(Tail(q)) : Tail(q)[i] = q[i + 1]
    BY HeadTailProperties
  <1>3. ASSUME Tail(q) # <<>>
        PROVE  Len(q) >= 2 /\ Tail(q)[Len(Tail(q))] = q[Len(q)]
    <2>1. Len(Tail(q)) \in Nat \ {0}
      BY <1>2, <1>3, EmptySeq
    <2>2. Tail(q)[Len(Tail(q))] = q[Len(Tail(q)) + 1]
      BY <1>2, <2>1
    <2> QED
      BY <1>1, <1>2, <2>1, <2>2
  <1>4. ASSUME Tail(q) = <<>>
        PROVE  Head(q) = q[Len(q)]
    <2>1. Len(Tail(q)) = 0
      BY <1>4, EmptySeq
    <2>2. Len(q) - 1 = 0
      BY <1>2, <2>1
    <2>3. Len(q) = 1
      BY <1>1, <2>2
    <2> QED
      BY <2>3, HeadTailProperties
  <1> QED
    BY <1>1, <1>2, <1>3, <1>4

LEMMA PostedIs ==
    ASSUME NEW S, NEW q \in Seq(S), Len(q) <= QueueDepth, NEW x \in S,
           NEW r, r = IF Len(q) = QueueDepth THEN q ELSE Append(q, x)
    PROVE  /\ r \in Seq(S) /\ r # <<>> /\ Len(r) \in 1 .. QueueDepth
           /\ Len(q) # QueueDepth => Len(r) = Len(q) + 1 /\ r[Len(r)] = x
  <1>1. Len(q) \in Nat /\ QueueDepth \in Nat \ {0}
    BY PathConstants, LenProperties
  <1>2. CASE Len(q) = QueueDepth
    BY <1>1, <1>2, EmptySeq
  <1>3. CASE Len(q) # QueueDepth
    <2>1. /\ r \in Seq(S) /\ r # <<>>
          /\ Len(r) = Len(q) + 1 /\ r[Len(r)] = x
      BY <1>3, AppendProperties
    <2> QED
      BY <1>1, <1>3, <2>1
  <1> QED
    BY <1>2, <1>3

-----------------------------------------------------------------------------
(* What holds of the queues however often the sources act *)

LEMMA InitQueuesInv == PathInit => QueuesInv
  <1> SUFFICES ASSUME PathInit PROVE QueuesInv
    OBVIOUS
  <1>1. Len(<<>>) = 0 /\ <<>> \in Seq(Outputs) /\ <<>> \in Seq(ActuatorMsg)
    BY EmptySeq
  <1>2. PathTypeOK
    <2>1. restIn \in [Sources -> 0 .. SourceGap]
      BY PathConstants DEF PathInit
    <2>2. driven \in ActuatorMsg
      BY PathConstants DEF PathInit, ActuatorMsg
    <2>3. 0 \in 0 .. DrainTicks + 1 /\ 0 \in 0 .. DisplayPeriod /\ 0 \in 0 .. ActuatorPeriod
      BY PathConstants, DrainIs
    <2>4. /\ DisplayQ \in Seq(Outputs) /\ Len(DisplayQ) <= QueueDepth
          /\ ActuatorQ \in Seq(ActuatorMsg) /\ Len(ActuatorQ) <= QueueDepth
      BY <1>1, PathConstants DEF PathInit
    <2>5. controlDue \in BOOLEAN /\ displayLost \in BOOLEAN /\ actuatorLost \in BOOLEAN
      BY DEF PathInit
    <2>6. /\ ActuatorDropCount \in 0 .. 1
          /\ displayIn \in 0 .. DisplayPeriod /\ actuatorIn \in 0 .. ActuatorPeriod
          /\ sincePost \in 0 .. DrainTicks + 1
      BY <2>3 DEF PathInit
    <2> QED
      BY <2>1, <2>2, <2>4, <2>5, <2>6, PathConstants DEF PathInit, PathTypeOK
  <1>3. CatchUpInv
    BY DEF PathInit, CatchUpInv, Previous
  <1> QED
    BY <1>2, <1>3 DEF QueuesInv

(* The ranges the arithmetic of the invariant needs. *)
LEMMA PathRanges ==
    ASSUME PathTypeOK
    PROVE  /\ Len(DisplayQ) \in Nat /\ Len(ActuatorQ) \in Nat
           /\ displayIn \in Nat /\ displayIn <= DisplayPeriod
           /\ actuatorIn \in Nat /\ actuatorIn <= ActuatorPeriod
           /\ \A s \in Sources : restIn[s] \in Nat /\ restIn[s] <= SourceGap
           /\ sincePost \in Nat
  <1>1. Len(DisplayQ) \in Nat /\ Len(ActuatorQ) \in Nat
    BY LenProperties DEF PathTypeOK
  <1> QED
    BY <1>1, PathConstants, DrainIs DEF PathTypeOK

LEMMA TickKeepsQueues ==
    ASSUME QueuesInv, Tick
    PROVE  QueuesInv'
  <1> USE DEF QueuesInv
  <1>1. PathTypeOK'
    <2>1. sincePost' \in 0 .. DrainTicks + 1
      BY DrainIs DEF PathTypeOK, Tick
    <2>2. restIn' \in [Sources -> 0 .. SourceGap]
      <3>1. \A s \in Sources :
                (IF restIn[s] = 0 THEN 0 ELSE restIn[s] - 1) \in 0 .. SourceGap
        BY PathConstants, PathRanges
      <3> QED
        BY <3>1 DEF Tick
    <2>3. displayIn' \in 0 .. DisplayPeriod /\ actuatorIn' \in 0 .. ActuatorPeriod
      BY PathConstants DEF PathTypeOK, Tick
    <2> QED
      BY <2>1, <2>2, <2>3 DEF PathTypeOK, Tick, tasks
  <1>2. CatchUpInv'
    <2>1. /\ last_output # NoOutput
          /\ displayIn' = displayIn - 1 /\ actuatorIn' = actuatorIn - 1
          /\ sincePost' <= sincePost + 1 /\ sincePost' \in Nat
      BY PathRanges DEF Tick, CatchUpInv
    <2>2. /\ DisplayQ # <<>> => (Len(DisplayQ) - 1) * DisplayPeriod \in Nat
          /\ ActuatorQ # <<>> => (Len(ActuatorQ) - 1) * ActuatorPeriod \in Nat
      <3>1. /\ DisplayQ # <<>> => Len(DisplayQ) \in Nat \ {0}
            /\ ActuatorQ # <<>> => Len(ActuatorQ) \in Nat \ {0}
        BY EmptySeq DEF PathTypeOK
      <3> QED
        BY <3>1, BacklogIs, PathConstants
    <2>3. \A b, t, lim \in Nat : \A u, u1, t1 \in Int :
            b + u + t <= lim /\ u1 = u - 1 /\ t1 <= t + 1 => b + u1 + t1 <= lim
      OBVIOUS
    <2>4. DisplayQ # <<>> =>
            (Len(DisplayQ) - 1) * DisplayPeriod + displayIn' + sincePost'
                <= QueueDepth * DisplayPeriod
      <3>1. displayIn \in Int /\ displayIn' \in Int /\ sincePost \in Nat /\ sincePost' \in Int
        BY <2>1, PathRanges
      <3> QED
        BY <2>1, <2>2, <2>3, <3>1, DrainIs DEF CatchUpInv
    <2>5. ActuatorQ # <<>> =>
            (Len(ActuatorQ) - 1) * ActuatorPeriod + actuatorIn' + sincePost'
                <= QueueDepth * ActuatorPeriod
      <3>1. actuatorIn \in Int /\ actuatorIn' \in Int /\ sincePost \in Nat /\ sincePost' \in Int
        BY <2>1, PathRanges
      <3> QED
        BY <2>1, <2>2, <2>3, <3>1, DrainIs DEF CatchUpInv
    <2> QED
      BY <2>1, <2>4, <2>5 DEF CatchUpInv, Tick, tasks, Previous
  <1> QED
    BY <1>1, <1>2

LEMMA DisplayKeepsQueues ==
    ASSUME QueuesInv, DisplayStep
    PROVE  QueuesInv'
  <1> USE DEF QueuesInv
  <1>1. /\ displayIn = 0 /\ displayIn' = DisplayPeriod
        /\ UNCHANGED <<last_output, ActuatorQ, ActuatorDropCount, driven, controlDue,
                       actuatorIn, restIn, displayLost, actuatorLost, sincePost>>
    BY DEF DisplayStep, history
  <1>2. CASE DisplayQ = <<>>
    <2>1. shown' = shown /\ DisplayQ' = DisplayQ
      BY <1>2 DEF DisplayStep
    <2>2. PathTypeOK'
      BY <1>1, <2>1, PathConstants DEF PathTypeOK
    <2>3. CatchUpInv'
      BY <1>1, <1>2, <2>1 DEF CatchUpInv, Previous
    <2> QED
      BY <2>2, <2>3
  <1>3. CASE DisplayQ # <<>>
    <2>1. shown' = Head(DisplayQ) /\ DisplayQ' = Tail(DisplayQ)
      BY <1>3 DEF DisplayStep
    <2>2. /\ Head(DisplayQ) \in Outputs /\ Tail(DisplayQ) \in Seq(Outputs)
          /\ Len(DisplayQ) \in Nat \ {0} /\ Len(DisplayQ') = Len(DisplayQ) - 1
          /\ DisplayQ' # <<>> => /\ Len(DisplayQ) >= 2
                                 /\ DisplayQ'[Len(DisplayQ')] = DisplayQ[Len(DisplayQ)]
          /\ DisplayQ' = <<>> => Head(DisplayQ) = DisplayQ[Len(DisplayQ)]
      BY <1>3, <2>1, TakenIs DEF PathTypeOK
    <2>3. PathTypeOK'
      <3>1. Len(DisplayQ') <= QueueDepth
        BY <2>2, PathConstants DEF PathTypeOK
      <3> QED
        BY <1>1, <2>1, <2>2, <3>1, PathConstants DEF PathTypeOK
    <2>4. DisplayQ' # <<>> =>
            (Len(DisplayQ') - 1) * DisplayPeriod + displayIn' + sincePost'
                <= QueueDepth * DisplayPeriod
      <3> SUFFICES ASSUME DisplayQ' # <<>>
                   PROVE  (Len(DisplayQ) - 2) * DisplayPeriod + DisplayPeriod + sincePost
                              <= QueueDepth * DisplayPeriod
        BY <1>1, <2>2
      <3>1. (Len(DisplayQ) - 1) * DisplayPeriod
                = (Len(DisplayQ) - 2) * DisplayPeriod + DisplayPeriod
        BY <2>2, BacklogIs, PathConstants
      <3>2. (Len(DisplayQ) - 1) * DisplayPeriod \in Nat
        BY <2>2, BacklogIs, PathConstants
      <3>3. (Len(DisplayQ) - 1) * DisplayPeriod + 0 + sincePost
                <= QueueDepth * DisplayPeriod
        BY <1>1, <1>3 DEF CatchUpInv
      <3>4. sincePost \in Nat
        BY PathRanges
      <3> QED
        BY <3>1, <3>2, <3>3, <3>4
    <2>5. last_output # NoOutput
      BY <1>3 DEF CatchUpInv
    <2>6. ~displayLost' =>
            IF DisplayQ' = <<>> THEN shown' = Previous'
            ELSE DisplayQ'[Len(DisplayQ')] = last_output'
      BY <1>1, <1>3, <2>1, <2>2, <2>5 DEF CatchUpInv, Previous
    <2>7. CatchUpInv'
      BY <1>1, <2>4, <2>5, <2>6 DEF CatchUpInv, Previous
    <2> QED
      BY <2>3, <2>7
  <1> QED
    BY <1>2, <1>3

LEMMA ActuatorKeepsQueues ==
    ASSUME QueuesInv, ActuatorStep
    PROVE  QueuesInv'
  <1> USE DEF QueuesInv
  <1>1. /\ actuatorIn = 0 /\ actuatorIn' = ActuatorPeriod
        /\ UNCHANGED <<last_output, DisplayQ, ActuatorDropCount, shown, controlDue,
                       displayIn, restIn, displayLost, actuatorLost, sincePost>>
    BY DEF ActuatorStep, history
  <1>2. CASE ActuatorQ = <<>>
    <2>1. driven' = driven /\ ActuatorQ' = ActuatorQ
      BY <1>2 DEF ActuatorStep
    <2>2. PathTypeOK'
      BY <1>1, <2>1, PathConstants DEF PathTypeOK
    <2>3. CatchUpInv'
      BY <1>1, <1>2, <2>1 DEF CatchUpInv, Previous
    <2> QED
      BY <2>2, <2>3
  <1>3. CASE ActuatorQ # <<>>
    <2>1. driven' = Head(ActuatorQ) /\ ActuatorQ' = Tail(ActuatorQ)
      BY <1>3 DEF ActuatorStep
    <2>2. /\ Head(ActuatorQ) \in ActuatorMsg /\ Tail(ActuatorQ) \in Seq(ActuatorMsg)
          /\ Len(ActuatorQ) \in Nat \ {0} /\ Len(ActuatorQ') = Len(ActuatorQ) - 1
          /\ ActuatorQ' # <<>> => /\ Len(ActuatorQ) >= 2
                                  /\ ActuatorQ'[Len(ActuatorQ')] = ActuatorQ[Len(ActuatorQ)]
          /\ ActuatorQ' = <<>> => Head(ActuatorQ) = ActuatorQ[Len(ActuatorQ)]
      BY <1>3, <2>1, TakenIs DEF PathTypeOK
    <2>3. PathTypeOK'
      <3>1. Len(ActuatorQ') <= QueueDepth
        BY <2>2, PathConstants DEF PathTypeOK
      <3> QED
        BY <1>1, <2>1, <2>2, <3>1, PathConstants DEF PathTypeOK
    <2>4. ActuatorQ' # <<>> =>
            (Len(ActuatorQ') - 1) * ActuatorPeriod + actuatorIn' + sincePost'
                <= QueueDepth * ActuatorPeriod
      <3> SUFFICES ASSUME ActuatorQ' # <<>>
                   PROVE  (Len(ActuatorQ) - 2) * ActuatorPeriod + ActuatorPeriod + sincePost
                              <= QueueDepth * ActuatorPeriod
        BY <1>1, <2>2
      <3>1. (Len(ActuatorQ) - 1) * ActuatorPeriod
                = (Len(ActuatorQ) - 2) * ActuatorPeriod + ActuatorPeriod
        BY <2>2, BacklogIs, PathConstants
      <3>2. (Len(ActuatorQ) - 1) * ActuatorPeriod \in Nat
        BY <2>2, BacklogIs, PathConstants
      <3>3. (Len(ActuatorQ) - 1) * ActuatorPeriod + 0 + sincePost
                <= QueueDepth * ActuatorPeriod
        BY <1>1, <1>3 DEF CatchUpInv
      <3>4. sincePost \in Nat
        BY PathRanges
      <3> QED
        BY <3>1, <3>2, <3>3, <3>4
    <2>5. last_output # NoOutput
      BY <1>3 DEF CatchUpInv
    <2>6. ~actuatorLost' =>
            IF ActuatorQ' = <<>> THEN driven'.output = Previous'
            ELSE ActuatorQ'[Len(ActuatorQ')].output = last_output'
      BY <1>1, <1>3, <2>1, <2>2, <2>5 DEF CatchUpInv, Previous
    <2>7. CatchUpInv'
      BY <1>1, <2>4, <2>5, <2>6 DEF CatchUpInv, Previous
    <2> QED
      BY <2>3, <2>7
  <1> QED
    BY <1>2, <1>3

(* What ControlStep changes besides the queues. *)
LEMMA ActingIs ==
    ASSUME PathTypeOK, NEW acting \in SUBSET Sources, ControlStep(acting)
    PROVE  /\ restIn' \in [Sources -> 0 .. SourceGap]
           /\ \A s \in Sources :
                    restIn'[s] = IF s \in acting THEN SourceGap ELSE restIn[s]
           /\ controlDue' = FALSE
           /\ UNCHANGED <<shown, driven, displayIn, actuatorIn>>
  <1>1. /\ controlDue' = FALSE
        /\ UNCHANGED <<shown, driven, displayIn, actuatorIn>>
        /\ restIn' = [s \in Sources |-> IF s \in acting THEN SourceGap ELSE restIn[s]]
    BY DEF ControlStep
  <1>2. /\ \A s \in Sources : restIn[s] \in Nat /\ restIn[s] <= SourceGap
        /\ SourceGap \in Nat
    BY PathConstants, PathRanges
  <1> QED
    BY <1>1, <1>2

(* A step that posts nothing. *)
LEMMA SilenceKeepsQueues ==
    ASSUME QueuesInv, NEW acting \in SUBSET Sources, ControlStep(acting),
           last_output \in Outputs,
           UNCHANGED <<DisplayQ, ActuatorQ, ActuatorDropCount, last_output, history>>
    PROVE  QueuesInv'
  <1> USE DEF QueuesInv
  <1>1. UNCHANGED <<displayLost, actuatorLost, sincePost>>
    BY DEF history
  <1>2. PathTypeOK'
    BY <1>1, ActingIs DEF PathTypeOK
  <1>3. CatchUpInv'
    BY <1>1, ActingIs, PathConstants DEF CatchUpInv, Previous
  <1> QED
    BY <1>2, <1>3

(* A step that posts: either queue may be full, and then keeps what it has. *)
LEMMA PublishKeepsQueues ==
    ASSUME QueuesInv, NEW acting \in SUBSET Sources, ControlStep(acting),
           NEW o \in Outputs, NEW click \in BOOLEAN,
           PostDisplay(o), PostActuator(o, click),
           last_output' = o, sincePost' = 0
    PROVE  QueuesInv'
  <1> USE DEF QueuesInv
  <1> DEFINE m == [output |-> o, buzzer_click |-> click]
  <1>1. /\ displayIn \in Nat /\ displayIn <= DisplayPeriod
        /\ actuatorIn \in Nat /\ actuatorIn <= ActuatorPeriod
        /\ QueueDepth \in Nat /\ ActuatorPeriod \in Nat /\ DisplayPeriod \in Nat
    BY PathConstants, PathRanges
  <1>2. /\ displayLost' \in BOOLEAN /\ DisplayQ' \in Seq(Outputs) /\ DisplayQ' # <<>>
        /\ Len(DisplayQ') \in 1 .. QueueDepth
        /\ ~displayLost' => DisplayQ'[Len(DisplayQ')] = o
    <2>1. /\ displayLost' = (Len(DisplayQ) = QueueDepth)
          /\ DisplayQ' = IF Len(DisplayQ) = QueueDepth THEN DisplayQ ELSE Append(DisplayQ, o)
      BY Zenon DEF PostDisplay
    <2>2. DisplayQ \in Seq(Outputs) /\ Len(DisplayQ) <= QueueDepth
      BY DEF PathTypeOK
    <2>3. /\ DisplayQ' \in Seq(Outputs) /\ DisplayQ' # <<>>
          /\ Len(DisplayQ') \in 1 .. QueueDepth
          /\ Len(DisplayQ) # QueueDepth => DisplayQ'[Len(DisplayQ')] = o
      BY <2>1, <2>2, PostedIs
    <2> QED
      BY <2>1, <2>3
  <1>3. /\ actuatorLost' \in BOOLEAN /\ ActuatorQ' \in Seq(ActuatorMsg)
        /\ ActuatorQ' # <<>> /\ Len(ActuatorQ') \in 1 .. QueueDepth
        /\ ~actuatorLost' => ActuatorQ'[Len(ActuatorQ')].output = o
        /\ ActuatorDropCount' \in 0 .. 1
    <2>1. m \in ActuatorMsg /\ m.output = o
      BY DEF ActuatorMsg
    <2>2. /\ actuatorLost' = (Len(ActuatorQ) = QueueDepth)
          /\ ActuatorQ' = IF Len(ActuatorQ) = QueueDepth THEN ActuatorQ ELSE Append(ActuatorQ, m)
          /\ ActuatorDropCount' = 1 \/ ActuatorDropCount' = ActuatorDropCount
      BY Zenon DEF PostActuator
    <2> HIDE DEF m
    <2>3. /\ ActuatorQ \in Seq(ActuatorMsg) /\ Len(ActuatorQ) <= QueueDepth
          /\ ActuatorDropCount \in 0 .. 1
      BY DEF PathTypeOK
    <2>4. /\ ActuatorQ' \in Seq(ActuatorMsg) /\ ActuatorQ' # <<>>
          /\ Len(ActuatorQ') \in 1 .. QueueDepth
          /\ Len(ActuatorQ) # QueueDepth => ActuatorQ'[Len(ActuatorQ')] = m
      BY <2>1, <2>2, <2>3, PostedIs
    <2>5. ~actuatorLost' => ActuatorQ'[Len(ActuatorQ')].output = o
      BY <2>1, <2>2, <2>4, Zenon
    <2>6. actuatorLost' \in BOOLEAN
      BY <2>2
    <2>7. ActuatorDropCount' \in 0 .. 1
      BY <2>2, <2>3
    <2> QED
      BY <2>4, <2>5, <2>6, <2>7
  <1>4. PathTypeOK'
    <2>1. Len(DisplayQ') <= QueueDepth /\ Len(ActuatorQ') <= QueueDepth
      BY <1>1, <1>2, <1>3
    <2>2. sincePost' \in 0 .. DrainTicks + 1
      BY DrainIs
    <2> QED
      BY <1>2, <1>3, <2>1, <2>2, ActingIs DEF PathTypeOK
  <1>5. CatchUpInv'
    <2>1. last_output' # NoOutput
      BY PathConstants
    <2>2. \A n \in 1 .. QueueDepth :
            /\ (n - 1) * DisplayPeriod + displayIn + 0 <= QueueDepth * DisplayPeriod
            /\ (n - 1) * ActuatorPeriod + actuatorIn + 0 <= QueueDepth * ActuatorPeriod
      <3> SUFFICES ASSUME NEW n \in 1 .. QueueDepth, NEW p \in Nat, NEW d \in Nat, d <= p
                   PROVE  (n - 1) * p + d + 0 <= QueueDepth * p
        BY <1>1
      <3>1. n \in Nat \ {0} /\ n <= QueueDepth
        BY <1>1
      <3>2. /\ (n - 1) * p \in Nat /\ n * p = (n - 1) * p + p
            /\ n * p <= QueueDepth * p
        BY <1>1, <3>1, BacklogIs
      <3>3. QueueDepth * p \in Int
        BY <1>1
      <3> QED
        BY <3>2, <3>3
    <2>3. /\ (Len(DisplayQ') - 1) * DisplayPeriod + displayIn' + sincePost'
                <= QueueDepth * DisplayPeriod
          /\ (Len(ActuatorQ') - 1) * ActuatorPeriod + actuatorIn' + sincePost'
                <= QueueDepth * ActuatorPeriod
      BY <1>2, <1>3, <2>2, ActingIs
    <2> QED
      BY <1>2, <1>3, <2>1, <2>3 DEF CatchUpInv
  <1> QED
    BY <1>4, <1>5

(* Either the output is posted, and a source acted or it is the first, or  *)
(* nothing is.                                                             *)
LEMMA ControlStepIs ==
    ASSUME PathTypeOK, NEW acting \in SUBSET Sources, ControlStep(acting)
    PROVE  \/ /\ acting # {} \/ last_output = NoOutput
              /\ sincePost' = 0
              /\ \E o \in Outputs, click \in BOOLEAN :
                    PostDisplay(o) /\ PostActuator(o, click) /\ last_output' = o
           \/ /\ last_output \in Outputs
              /\ UNCHANGED <<DisplayQ, ActuatorQ, ActuatorDropCount, last_output, history>>
  <1> DEFINE click == "B1" \in acting
  <1>1. PICK o \in (IF acting = {} THEN {Previous} ELSE Outputs) : Publish(o, click)
    BY DEF ControlStep
  <1>2. o \in Outputs /\ click \in BOOLEAN
    BY <1>1, PathConstants DEF Previous, PathTypeOK
  <1>3. CASE click \/ o # last_output
    <2>1. acting # {} \/ last_output = NoOutput
      BY <1>1, <1>3 DEF Previous
    <2> HIDE DEF click
    <2> QED
      BY <1>1, <1>2, <1>3, <2>1 DEF Publish
  <1>4. CASE ~(click \/ o # last_output)
    <2>1. UNCHANGED <<DisplayQ, ActuatorQ, ActuatorDropCount, last_output, history>>
      BY <1>1, <1>4 DEF Publish
    <2> QED
      BY <1>2, <1>4, <2>1
  <1> QED
    BY <1>3, <1>4

LEMMA ControlKeepsQueues ==
    ASSUME QueuesInv, NEW acting \in SUBSET Sources, ControlStep(acting)
    PROVE  QueuesInv'
  BY ControlStepIs, PublishKeepsQueues, SilenceKeepsQueues DEF QueuesInv

(* What waits in a queue is gone before as much time has passed as a full  *)
(* queue takes, for every depth, period and set of sources, however often  *)
(* they act and whatever is dropped.                                       *)
THEOREM QueuesInvariant == PathSpec => []QueuesInv
  <1>1. QueuesInv /\ [PathNext]_pathVars => QueuesInv'
    <2> SUFFICES ASSUME QueuesInv, [PathNext]_pathVars PROVE QueuesInv'
      OBVIOUS
    <2>1. CASE UNCHANGED pathVars
      BY <2>1 DEF QueuesInv, PathTypeOK, CatchUpInv, Previous,
                  pathVars, tasks, times, history
    <2> QED
      BY <2>1, ControlKeepsQueues, DisplayKeepsQueues, ActuatorKeepsQueues,
         TickKeepsQueues DEF PathNext
  <1> QED
    BY <1>1, InitQueuesInv, PTL DEF PathSpec

(* In the time a full queue takes to drain, display and lamps come to show *)
(* the last output posted, whatever was lost before it and however often   *)
(* the sources act: RateAssumption has no part in it.                      *)
THEOREM DisplayAndLampsCatchUp == PathSpec => []OutputsCatchUp
  <1>1. QueuesInv => OutputsCatchUp
    <2> SUFFICES ASSUME QueuesInv, sincePost > DrainTicks
                 PROVE  /\ ~displayLost => shown = last_output
                        /\ ~actuatorLost => driven.output = last_output
      BY DEF OutputsCatchUp
    <2> USE DEF QueuesInv
    <2>1. last_output # NoOutput
      BY DrainIs DEF CatchUpInv
    <2>2. /\ DisplayQ # <<>> => (Len(DisplayQ) - 1) * DisplayPeriod \in Nat
          /\ ActuatorQ # <<>> => (Len(ActuatorQ) - 1) * ActuatorPeriod \in Nat
      <3>1. /\ DisplayQ # <<>> => Len(DisplayQ) \in Nat \ {0}
            /\ ActuatorQ # <<>> => Len(ActuatorQ) \in Nat \ {0}
        BY EmptySeq DEF PathTypeOK
      <3> QED
        BY <3>1, BacklogIs, PathConstants
    <2>3. /\ displayIn \in Nat /\ actuatorIn \in Nat /\ sincePost \in Nat
          /\ DrainTicks \in Nat /\ QueueDepth * ActuatorPeriod \in Nat
          /\ DrainTicks = QueueDepth * DisplayPeriod
          /\ QueueDepth * ActuatorPeriod <= DrainTicks
      BY DrainIs, PathRanges
    <2>4. DisplayQ = <<>>
      <3> SUFFICES ASSUME DisplayQ # <<>> PROVE FALSE
        OBVIOUS
      <3>1. (Len(DisplayQ) - 1) * DisplayPeriod + displayIn + sincePost <= DrainTicks
        BY <2>3 DEF CatchUpInv
      <3> QED
        BY <2>2, <2>3, <3>1
    <2>5. ActuatorQ = <<>>
      <3> SUFFICES ASSUME ActuatorQ # <<>> PROVE FALSE
        OBVIOUS
      <3>1. (Len(ActuatorQ) - 1) * ActuatorPeriod + actuatorIn + sincePost
                <= QueueDepth * ActuatorPeriod
        BY DEF CatchUpInv
      <3> QED
        BY <2>2, <2>3, <3>1
    <2> QED
      BY <2>1, <2>4, <2>5 DEF CatchUpInv, Previous
  <1> QED
    BY <1>1, QueuesInvariant, PTL

-----------------------------------------------------------------------------
(* What waits for ActuatorTask, while no source acts too often *)

LEMMA TicksAheadIs ==
    ASSUME NEW i \in Int
    PROVE  /\ TicksAhead(i) \in Int
           /\ TicksAhead(i) = TicksAhead(i + 1) + ActuatorPeriod
           /\ i <= Cardinality(Sources) + 2 => TicksAhead(i) >= 0
           /\ i <= Cardinality(Sources) + 1 => TicksAhead(i) >= ActuatorPeriod
           /\ i >= 2 => TicksAhead(i) <= SourceGap
           /\ i >= 3 => TicksAhead(i) <= SourceGap - ActuatorPeriod
  <1> DEFINE N == Cardinality(Sources)
             P == ActuatorPeriod
  <1>1. N \in Nat /\ P \in Nat /\ SourceGap \in Nat
    BY PathConstants, RateConstants
  <1>2. P * N <= SourceGap /\ P * N \in Nat
    <2>1. P * N = N * P
      BY <1>1
    <2> QED
      BY <1>1, <2>1, RateConstants, TimesNext
  <1> HIDE DEF N, P
  <1>3. \A j \in Int : TicksAhead(j) = P * (N + 2 - j)
    BY <1>1 DEF TicksAhead, N, P
  <1>4. \A j \in Int : P * j \in Int /\ P * (j + 1) = P * j + P
    BY <1>1
  <1>5. /\ TicksAhead(i) \in Int
        /\ TicksAhead(i) = TicksAhead(i + 1) + P
    <2>1. N + 2 - i = (N + 2 - (i + 1)) + 1 /\ N + 2 - (i + 1) \in Int
      BY <1>1
    <2> QED
      BY <1>3, <1>4, <2>1
  <1>6. \A a, b \in Int : a <= b => P * a <= P * b
    BY <1>1, TimesGrows
  <1>7. i <= N + 2 => TicksAhead(i) >= 0
    <2>1. P * 0 = 0
      BY <1>1
    <2>2. i <= N + 2 => P * 0 <= P * (N + 2 - i)
      BY <1>1, <1>6
    <2> QED
      BY <1>3, <1>4, <1>1, <2>1, <2>2
  <1>8. i <= N + 1 => TicksAhead(i) >= P
    <2>1. P * 1 = P
      BY <1>1
    <2>2. i <= N + 1 => P * 1 <= P * (N + 2 - i)
      BY <1>1, <1>6
    <2> QED
      BY <1>3, <1>4, <1>1, <2>1, <2>2
  <1>9. i >= 2 => TicksAhead(i) <= SourceGap
    <2>1. i >= 2 => P * (N + 2 - i) <= P * N
      BY <1>1, <1>6
    <2>2. TicksAhead(i) = P * (N + 2 - i)
      BY <1>3
    <2> QED
      BY <1>1, <1>2, <1>5, <2>1, <2>2
  <1>10. i >= 3 => TicksAhead(i) <= SourceGap - P
    <2>1. i >= 3 => P * (N + 2 - i) <= P * (N - 1)
      BY <1>1, <1>6
    <2>2. P * N = P * (N - 1) + P /\ P * (N - 1) \in Int
      <3>1. N - 1 \in Int /\ (N - 1) + 1 = N
        BY <1>1
      <3> QED
        BY <1>4, <3>1
    <2>3. TicksAhead(i) = P * (N + 2 - i)
      BY <1>3
    <2>4. P * (N - 1) <= SourceGap - P
      BY <1>1, <1>2, <2>2
    <2> QED
      BY <1>1, <1>5, <2>1, <2>2, <2>3, <2>4
  <1> QED
    BY <1>5, <1>7, <1>8, <1>9, <1>10 DEF N, P

(* Sets of sources compare by what they contain. *)
LEMMA FewerSources ==
    ASSUME NEW A \in SUBSET Sources, NEW B \in SUBSET Sources, A \subseteq B
    PROVE  /\ Cardinality(A) \in Nat /\ Cardinality(B) \in Nat
           /\ Cardinality(A) <= Cardinality(B)
           /\ Cardinality(B) <= Cardinality(Sources)
           /\ B = {} <=> Cardinality(B) = 0
           /\ \A s \in B : s \notin A => Cardinality(A) + 1 <= Cardinality(B)
  <1>1. IsFiniteSet(A) /\ IsFiniteSet(B) /\ Cardinality(B) <= Cardinality(Sources)
    BY RateConstants, FS_Subset
  <1>2. Cardinality(A) \in Nat /\ Cardinality(B) \in Nat
    BY <1>1, FS_CardinalityType
  <1>3. Cardinality(A) <= Cardinality(B)
    BY <1>1, FS_Subset
  <1>4. B = {} <=> Cardinality(B) = 0
    BY <1>1, FS_EmptySet
  <1>5. ASSUME NEW s \in B, s \notin A
        PROVE  Cardinality(A) + 1 <= Cardinality(B)
    <2>1. Cardinality(A \cup {s}) = Cardinality(A) + 1
      BY <1>1, <1>5, FS_AddElement
    <2>2. Cardinality(A \cup {s}) <= Cardinality(B)
      BY <1>1, FS_Subset, A \cup {s} \in SUBSET B
    <2> QED
      BY <2>1, <2>2
  <1> QED
    BY <1>1, <1>2, <1>3, <1>4, <1>5

LEMMA TickKeepsRate ==
    ASSUME PathInv, Tick
    PROVE  RateInv'
  <1> USE DEF PathInv, QueuesInv
  <1> SUFFICES ASSUME NEW i \in 2 .. Len(ActuatorQ)
               PROVE  Cardinality(ActedSince(i)') >= Len(ActuatorQ) - i + 1
    BY DEF RateInv, Tick, tasks
  <1>1. i \in Int /\ i >= 2 /\ Len(ActuatorQ) \in Nat
    BY PathRanges
  <1>2. Cardinality(ActedSince(i)) >= Len(ActuatorQ) - i + 1
    BY PathRanges DEF RateInv, Tick
  <1>3. ActedSince(i) \subseteq ActedSince(i)'
    <2> SUFFICES ASSUME NEW s \in Sources, restIn[s] + TicksAhead(i) >= SourceGap + actuatorIn
                 PROVE  restIn'[s] + TicksAhead(i) >= SourceGap + actuatorIn'
      BY DEF ActedSince, TicksAhead
    <2>1. TicksAhead(i) \in Int /\ TicksAhead(i) <= SourceGap
      BY <1>1, TicksAheadIs
    <2>2. actuatorIn > 0 /\ actuatorIn' = actuatorIn - 1
      BY DEF Tick
    <2>3. restIn[s] # 0
      BY <2>1, <2>2, PathConstants, PathRanges
    <2>4. restIn'[s] = restIn[s] - 1
      BY <2>3 DEF Tick
    <2>5. restIn[s] \in Nat /\ actuatorIn \in Nat /\ SourceGap \in Nat
      BY PathConstants, PathRanges
    <2> QED
      BY <2>1, <2>2, <2>4, <2>5
  <1>4. ActedSince(i) \in SUBSET Sources /\ ActedSince(i)' \in SUBSET Sources
    BY DEF ActedSince
  <1> QED
    BY <1>1, <1>2, <1>3, <1>4, FewerSources

LEMMA ActuatorKeepsRate ==
    ASSUME PathInv, ActuatorStep
    PROVE  RateInv'
  <1> USE DEF PathInv, QueuesInv
  <1> SUFFICES ASSUME ActuatorQ # <<>>, NEW i \in 2 .. Len(ActuatorQ')
               PROVE  Cardinality(ActedSince(i)') >= Len(ActuatorQ') - i + 1
    BY EmptySeq DEF RateInv, ActuatorStep
  <1>1. /\ actuatorIn = 0 /\ actuatorIn' = ActuatorPeriod
        /\ restIn' = restIn
        /\ Len(ActuatorQ) \in Nat \ {0} /\ Len(ActuatorQ') = Len(ActuatorQ) - 1
    BY TakenIs DEF PathTypeOK, ActuatorStep
  <1>2. i \in Int /\ i + 1 \in 2 .. Len(ActuatorQ) /\ i + 1 > 2
    BY <1>1
  <1>3. Cardinality(ActedSince(i + 1)) >= Len(ActuatorQ) - (i + 1) + 1
    BY <1>2 DEF RateInv
  <1>4. ActedSince(i)' = ActedSince(i + 1)
    <2>1. /\ TicksAhead(i) \in Int /\ TicksAhead(i + 1) \in Int
          /\ TicksAhead(i) = TicksAhead(i + 1) + ActuatorPeriod
      BY <1>2, TicksAheadIs
    <2>2. \A s \in Sources :
            restIn[s] + TicksAhead(i) >= SourceGap + ActuatorPeriod
                <=> restIn[s] + TicksAhead(i + 1) >= SourceGap + 0
      <3>1. /\ \A s \in Sources : restIn[s] \in Nat
            /\ ActuatorPeriod \in Nat /\ SourceGap \in Nat
        BY PathConstants, PathRanges
      <3> QED
        BY <2>1, <3>1
    <2>3. ActedSince(i)' =
            {s \in Sources : restIn[s] + TicksAhead(i) >= SourceGap + ActuatorPeriod}
      BY <1>1 DEF ActedSince, TicksAhead
    <2>4. ActedSince(i + 1) =
            {s \in Sources : restIn[s] + TicksAhead(i + 1) >= SourceGap + 0}
      BY <1>1 DEF ActedSince
    <2> QED
      BY <2>2, <2>3, <2>4
  <1> QED
    BY <1>1, <1>2, <1>3, <1>4

(* A source that may act is not among those that acted since the messages  *)
(* that wait were posted: there is room for the message it causes.         *)
LEMMA RoomForOneMore ==
    ASSUME PathInv, NEW s \in Sources, restIn[s] = 0
    PROVE  /\ \A i \in 2 .. Len(ActuatorQ) :
                 i > 2 \/ actuatorIn > 0 => s \notin ActedSince(i)
           /\ Len(ActuatorQ) <= Cardinality(Sources) + 1
           /\ actuatorIn > 0 => Len(ActuatorQ) <= Cardinality(Sources)
  <1> USE DEF PathInv, QueuesInv
  <1>1. /\ Len(ActuatorQ) \in Nat /\ actuatorIn \in Nat /\ SourceGap \in Nat
        /\ Cardinality(Sources) \in Nat /\ ActuatorPeriod \in Nat \ {0}
    BY PathConstants, RateConstants, PathRanges
  <1>2. ASSUME NEW i \in 2 .. Len(ActuatorQ), i > 2 \/ actuatorIn > 0
        PROVE  /\ s \notin ActedSince(i)
               /\ Len(ActuatorQ) - i + 2 <= Cardinality(Sources)
    <2>1. /\ i \in Int /\ i >= 2 /\ TicksAhead(i) \in Int /\ TicksAhead(i) <= SourceGap
          /\ i >= 3 => TicksAhead(i) <= SourceGap - ActuatorPeriod
      BY <1>1, TicksAheadIs
    <2>2. ~(0 + TicksAhead(i) >= SourceGap + actuatorIn)
      BY <1>1, <1>2, <2>1
    <2>3. s \notin ActedSince(i)
      BY <2>2 DEF ActedSince
    <2>4. ActedSince(i) \in SUBSET Sources
      BY DEF ActedSince
    <2>5. /\ Cardinality(ActedSince(i)) \in Nat
          /\ Cardinality(ActedSince(i)) + 1 <= Cardinality(Sources)
      BY <2>3, <2>4, FewerSources
    <2>6. Cardinality(ActedSince(i)) >= Len(ActuatorQ) - i + 1
      BY <1>2 DEF RateInv
    <2> QED
      BY <1>1, <2>1, <2>3, <2>5, <2>6
  <1>3. Cardinality(Sources) >= 1
    BY <1>1, FewerSources, Sources \in SUBSET Sources
  <1>4. Len(ActuatorQ) > 2 => Len(ActuatorQ) <= Cardinality(Sources) + 1
    <2> SUFFICES ASSUME Len(ActuatorQ) > 2
                 PROVE  Len(ActuatorQ) <= Cardinality(Sources) + 1
      OBVIOUS
    <2>1. Len(ActuatorQ) - 3 + 2 <= Cardinality(Sources)
      BY <1>1, <1>2
    <2> QED
      BY <1>1, <2>1
  <1>5. Len(ActuatorQ) > 1 /\ actuatorIn > 0 => Len(ActuatorQ) <= Cardinality(Sources)
    <2> SUFFICES ASSUME Len(ActuatorQ) > 1, actuatorIn > 0
                 PROVE  Len(ActuatorQ) <= Cardinality(Sources)
      OBVIOUS
    <2>1. Len(ActuatorQ) - 2 + 2 <= Cardinality(Sources)
      BY <1>1, <1>2
    <2> QED
      BY <1>1, <2>1
  <1> QED
    BY <1>1, <1>2, <1>3, <1>4, <1>5

(* A source that acts counts among those that acted since any message. *)
LEMMA ActedGrows ==
    ASSUME PathInv, NEW acting \in SUBSET Sources, ControlStep(acting), NEW i \in Int
    PROVE  /\ ActedSince(i) \subseteq ActedSince(i)'
           /\ ActedSince(i) \in SUBSET Sources /\ ActedSince(i)' \in SUBSET Sources
  <1> USE DEF PathInv, QueuesInv
  <1> SUFFICES ASSUME NEW s \in Sources,
                      restIn[s] + TicksAhead(i) >= SourceGap + actuatorIn
               PROVE  restIn'[s] + TicksAhead(i) >= SourceGap + actuatorIn
    BY ActingIs DEF ActedSince, TicksAhead
  <1>1. TicksAhead(i) \in Int
    BY TicksAheadIs
  <1>2. restIn'[s] = IF s \in acting THEN SourceGap ELSE restIn[s]
    BY ActingIs
  <1>3. /\ restIn[s] \in Nat /\ restIn[s] <= SourceGap
        /\ SourceGap \in Nat /\ actuatorIn \in Nat
    BY PathConstants, PathRanges
  <1> QED
    BY <1>1, <1>2, <1>3

LEMMA SilenceKeepsRate ==
    ASSUME PathInv, NEW acting \in SUBSET Sources, ControlStep(acting),
           UNCHANGED ActuatorQ
    PROVE  RateInv'
  <1> USE DEF PathInv, QueuesInv
  <1> SUFFICES ASSUME NEW i \in 2 .. Len(ActuatorQ), i > 2 \/ actuatorIn > 0
               PROVE  Cardinality(ActedSince(i)') >= Len(ActuatorQ) - i + 1
    BY ActingIs DEF RateInv
  <1>1. Cardinality(ActedSince(i)) >= Len(ActuatorQ) - i + 1
    BY DEF RateInv
  <1>2. i \in Int /\ Len(ActuatorQ) \in Nat
    BY PathRanges
  <1>3. /\ Cardinality(ActedSince(i)) \in Nat /\ Cardinality(ActedSince(i)') \in Nat
        /\ Cardinality(ActedSince(i)) <= Cardinality(ActedSince(i)')
    BY <1>2, ActedGrows, FewerSources
  <1> QED
    BY <1>1, <1>2, <1>3

(* A step that posts: the lamps' queue has room, for a source acts or it   *)
(* is the first call.                                                      *)
LEMMA PublishHasRoom ==
    ASSUME PathInv, NEW acting \in SUBSET Sources, ControlStep(acting),
           NEW o \in Outputs, NEW click \in BOOLEAN, PostActuator(o, click),
           acting # {} \/ last_output = NoOutput
    PROVE  /\ ActuatorDropCount' = 0
           /\ Len(ActuatorQ) \in Nat /\ Len(ActuatorQ') = Len(ActuatorQ) + 1
           /\ acting = {} => Len(ActuatorQ) = 0
  <1> USE DEF PathInv, QueuesInv
  <1>1. /\ Len(ActuatorQ) \in Nat /\ QueueDepth \in Nat \ {0}
        /\ Cardinality(Sources) \in Nat /\ Cardinality(Sources) + 2 <= QueueDepth
    BY PathConstants, RateConstants, PathRanges
  <1>2. acting # {} => Len(ActuatorQ) <= Cardinality(Sources) + 1
    BY RoomForOneMore DEF ControlStep
  <1>3. last_output = NoOutput => Len(ActuatorQ) = 0
    BY EmptySeq DEF CatchUpInv
  <1>4. Len(ActuatorQ) # QueueDepth
    BY <1>1, <1>2, <1>3
  <1>5. actuatorLost' = FALSE
    BY <1>4, Zenon DEF PostActuator
  <1>6. /\ ActuatorQ' = Append(ActuatorQ, [output |-> o, buzzer_click |-> click])
        /\ ActuatorDropCount' = 0
    BY <1>5, Zenon DEF PostActuator
  <1>7. Len(ActuatorQ') = Len(ActuatorQ) + 1
    <2>1. [output |-> o, buzzer_click |-> click] \in ActuatorMsg
      BY DEF ActuatorMsg
    <2> QED
      BY <1>6, <2>1, AppendProperties DEF PathTypeOK
  <1> QED
    BY <1>1, <1>3, <1>6, <1>7

LEMMA PublishKeepsRate ==
    ASSUME PathInv, NEW acting \in SUBSET Sources, ControlStep(acting),
           NEW o \in Outputs, NEW click \in BOOLEAN, PostActuator(o, click),
           acting # {} \/ last_output = NoOutput
    PROVE  RateInv' /\ ActuatorDropCount' = 0
  <1> USE DEF PathInv, QueuesInv
  <1>1. /\ Len(ActuatorQ) \in Nat /\ Len(ActuatorQ') = Len(ActuatorQ) + 1
        /\ actuatorIn \in Nat /\ actuatorIn <= ActuatorPeriod /\ ActuatorPeriod \in Nat
        /\ SourceGap \in Nat /\ Cardinality(Sources) \in Nat
        /\ ActuatorDropCount' = 0 /\ actuatorIn' = actuatorIn
        /\ acting = {} => Len(ActuatorQ) = 0
    <2>1. /\ ActuatorDropCount' = 0
          /\ Len(ActuatorQ) \in Nat /\ Len(ActuatorQ') = Len(ActuatorQ) + 1
          /\ acting = {} => Len(ActuatorQ) = 0
      BY PublishHasRoom
    <2>2. actuatorIn' = actuatorIn
      BY ActingIs
    <2>3. actuatorIn \in Nat /\ actuatorIn <= ActuatorPeriod
      BY PathRanges
    <2> QED
      BY <2>1, <2>2, <2>3, PathConstants, RateConstants
  <1> SUFFICES ASSUME NEW i \in 2 .. Len(ActuatorQ'), i > 2 \/ actuatorIn > 0
               PROVE  Cardinality(ActedSince(i)') >= Len(ActuatorQ') - i + 1
    BY <1>1 DEF RateInv
  <1>2. PICK s \in acting : TRUE
    BY <1>1
  <1>3. s \in Sources /\ restIn[s] = 0 /\ restIn'[s] = SourceGap
    BY <1>2, ActingIs DEF ControlStep
  <1>4. /\ i \in Int /\ i >= 2 /\ i <= Len(ActuatorQ) + 1
        /\ i <= Cardinality(Sources) + 2
        /\ actuatorIn > 0 => i <= Cardinality(Sources) + 1
    BY <1>1, <1>3, RoomForOneMore
  <1>5. s \in ActedSince(i)'
    <2>1. TicksAhead(i) \in Int /\ TicksAhead(i) >= actuatorIn
      <3>1. /\ TicksAhead(i) \in Int /\ TicksAhead(i) >= 0
            /\ actuatorIn > 0 => TicksAhead(i) >= ActuatorPeriod
        BY <1>4, TicksAheadIs
      <3> QED
        BY <1>1, <3>1
    <2>2. SourceGap + TicksAhead(i) >= SourceGap + actuatorIn
      BY <1>1, <2>1
    <2> QED
      BY <1>3, <2>2, ActingIs DEF ActedSince, TicksAhead
  <1>6. /\ ActedSince(i) \subseteq ActedSince(i)'
        /\ ActedSince(i) \in SUBSET Sources /\ ActedSince(i)' \in SUBSET Sources
    BY <1>4, ActedGrows
  <1>7. CASE i <= Len(ActuatorQ)
    <2>1. i \in 2 .. Len(ActuatorQ)
      BY <1>1, <1>4, <1>7
    <2>2. s \notin ActedSince(i)
      BY <1>3, <2>1, RoomForOneMore
    <2>3. Cardinality(ActedSince(i)) >= Len(ActuatorQ) - i + 1
      BY <2>1 DEF RateInv
    <2>4. /\ Cardinality(ActedSince(i)) \in Nat /\ Cardinality(ActedSince(i)') \in Nat
          /\ Cardinality(ActedSince(i)) + 1 <= Cardinality(ActedSince(i)')
      BY <1>5, <1>6, <2>2, FewerSources
    <2> QED
      BY <1>1, <1>4, <2>3, <2>4
  <1>8. CASE i = Len(ActuatorQ) + 1
    <2>1. Cardinality(ActedSince(i)') \in Nat /\ Cardinality(ActedSince(i)') # 0
      BY <1>5, <1>6, FewerSources
    <2> QED
      BY <1>1, <1>4, <1>8, <2>1
  <1> QED
    BY <1>1, <1>4, <1>7, <1>8

LEMMA ControlKeepsRate ==
    ASSUME PathInv, NEW acting \in SUBSET Sources, ControlStep(acting)
    PROVE  RateInv' /\ ActuatorDropCount' = 0
  <1>1. PathTypeOK /\ ActuatorDropCount = 0
    BY DEF PathInv, QueuesInv
  <1>2. CASE UNCHANGED <<DisplayQ, ActuatorQ, ActuatorDropCount, last_output, history>>
    <2>1. UNCHANGED ActuatorQ /\ UNCHANGED ActuatorDropCount
      BY <1>2
    <2> QED
      BY <1>1, <2>1, SilenceKeepsRate
  <1>3. ASSUME acting # {} \/ last_output = NoOutput,
               NEW o \in Outputs, NEW click \in BOOLEAN, PostActuator(o, click)
        PROVE  RateInv' /\ ActuatorDropCount' = 0
    BY <1>3, PublishKeepsRate
  <1> QED
    BY <1>1, <1>2, <1>3, ControlStepIs

(* ActuatorTask's queue is never full when something is posted, for every  *)
(* depth, period and set of sources that RateAssumption allows.            *)
THEOREM PathInvariant == PathSpec => []PathInv
  <1>1. PathInit => PathInv
    <2> SUFFICES ASSUME PathInit PROVE PathInv
      OBVIOUS
    <2>1. RateInv
      BY EmptySeq DEF PathInit, RateInv
    <2> QED
      BY <2>1, InitQueuesInv DEF PathInit, PathInv
  <1>2. PathInv /\ [PathNext]_pathVars /\ QueuesInv' => PathInv'
    <2> SUFFICES ASSUME PathInv, [PathNext]_pathVars
                 PROVE  RateInv' /\ ActuatorDropCount' = 0
      BY DEF PathInv
    <2>1. CASE UNCHANGED pathVars \/ DisplayStep
      BY <2>1 DEF PathInv, RateInv, ActedSince, TicksAhead,
                  DisplayStep, pathVars, tasks, times, history
    <2>2. CASE ActuatorStep
      BY <2>2, ActuatorKeepsRate DEF PathInv, ActuatorStep
    <2>3. CASE Tick
      BY <2>3, TickKeepsRate DEF PathInv, Tick, tasks
    <2>4. CASE \E acting \in SUBSET Sources : ControlStep(acting)
      BY <2>4, ControlKeepsRate
    <2> QED
      BY <2>1, <2>2, <2>3, <2>4 DEF PathNext
  <1> QED
    BY <1>1, <1>2, QueuesInvariant, PTL DEF PathSpec

(* No message to ActuatorTask is ever dropped, so every click is heard.    *)
THEOREM EveryClickIsHeard == PathSpec => []NoClickIsDropped
  <1>1. PathInv => NoClickIsDropped
    BY DEF PathInv, NoClickIsDropped
  <1> QED
    BY <1>1, PathInvariant, PTL

-----------------------------------------------------------------------------
LEMMA Powers ==
    /\ 2^0 = 1 /\ 2^1 = 2 /\ 2^2 = 4 /\ 2^3 = 8 /\ 2^4 = 16
    /\ 2^5 = 32 /\ 2^6 = 64 /\ 2^7 = 128 /\ 2^8 = 256
  OBVIOUS

LEMMA PowersGrow ==
    ASSUME NEW k \in 0 .. 7
    PROVE  2^k \in 1 .. 128 /\ 2^(k + 1) = 2 * 2^k
  <1>1. k = 0 \/ k = 1 \/ k = 2 \/ k = 3 \/ k = 4 \/ k = 5 \/ k = 6 \/ k = 7
    OBVIOUS
  <1>2. 0 + 1 = 1 /\ 1 + 1 = 2 /\ 2 + 1 = 3 /\ 3 + 1 = 4 /\ 4 + 1 = 5
            /\ 5 + 1 = 6 /\ 6 + 1 = 7 /\ 7 + 1 = 8
    OBVIOUS
  <1>3. CASE k = 0 BY <1>3, Powers
  <1>4. CASE k = 1 BY <1>4, Powers
  <1>5. CASE k = 2 BY <1>5, Powers
  <1>6. CASE k = 3 BY <1>6, Powers
  <1>7. CASE k = 4 BY <1>7, Powers
  <1>8. CASE k = 5 BY <1>8, Powers
  <1>9. CASE k = 6 BY <1>9, Powers
  <1>10. CASE k = 7 BY <1>10, Powers
  <1> QED
    BY <1>1, <1>3, <1>4, <1>5, <1>6, <1>7, <1>8, <1>9, <1>10

LEMMA BitAdds ==
    ASSUME NEW v \in 0 .. 255, NEW k \in 0 .. 7
    PROVE  v % 2^(k + 1) = (v % 2^k) + (IF BitOf(v, k) THEN 2^k ELSE 0)
  <1> DEFINE P(i) == v % 2^(i + 1) = (v % 2^i) + (IF BitOf(v, i) THEN 2^i ELSE 0)
  <1>0. P(0)  BY Powers DEF BitOf
  <1>1. P(1)  BY Powers DEF BitOf
  <1>2. P(2)  BY Powers DEF BitOf
  <1>3. P(3)  BY Powers DEF BitOf
  <1>4. P(4)  BY Powers DEF BitOf
  <1>5. P(5)  BY Powers DEF BitOf
  <1>6. P(6)  BY Powers DEF BitOf
  <1>7. P(7)  BY Powers DEF BitOf
  <1> HIDE DEF P
  <1>8. k = 0 \/ k = 1 \/ k = 2 \/ k = 3 \/ k = 4 \/ k = 5 \/ k = 6 \/ k = 7
    OBVIOUS
  <1>9. P(k)
    BY <1>0, <1>1, <1>2, <1>3, <1>4, <1>5, <1>6, <1>7, <1>8
  <1> QED
    BY <1>9 DEF P

LEMMA PartIs ==
    ASSUME pc \in 1 .. 13
    PROVE  /\ LastPart = 13
           /\ pc \in Starts => Script(segments)[pc] = Tm1637Start
           /\ pc \in Stops  => Script(segments)[pc] = Tm1637Stop
           /\ pc \in Bytes  => Script(segments)[pc] = Tm1637WriteByte(ByteOf(pc))
           /\ pc \in Starts \cup Stops \cup Bytes
  <1>1. LastPart = 13
    BY DEF LastPart, Script
  <1>2. pc \in Starts => Script(segments)[pc] = Tm1637Start
    BY DEF Script, Starts
  <1>3. pc \in Stops  => Script(segments)[pc] = Tm1637Stop
    BY DEF Script, Stops
  <1>4. pc \in Bytes  => Script(segments)[pc] = Tm1637WriteByte(ByteOf(pc))
    BY DEF Script, Bytes, ByteOf
  <1>5. pc \in Starts \cup Stops \cup Bytes
    BY DEF Starts, Stops, Bytes
  <1> QED
    BY <1>1, <1>2, <1>3, <1>4, <1>5
LEMMA OperationIs ==
    ASSUME pc \in 1 .. 13, step \in 0 .. 28, synced \in BOOLEAN, LevelsInv, NextOperation
    PROVE  /\ pc \in 1 .. 13 /\ UNCHANGED present
           /\ pc \in Starts =>
                /\ step \in 0 .. 3 /\ Operate(Tm1637Start[step + 1])
                /\ UNCHANGED synced
                /\ IF step < 3 THEN step' = step + 1 /\ pc' = pc
                               ELSE step' = 0 /\ pc' = pc + 1
           /\ pc \in Stops =>
                /\ step \in 0 .. 3 /\ Operate(Tm1637Stop[step + 1])
                /\ synced' = (synced \/ (step = 3 /\ pc = 13))
                /\ IF step < 3 THEN step' = step + 1 /\ pc' = pc
                   ELSE step' = 0 /\ pc' = IF pc = 13 THEN 0 ELSE pc + 1
           /\ pc \in Bytes =>
                /\ Operate(Tm1637WriteByte(ByteOf(pc))[step + 1])
                /\ UNCHANGED synced
                /\ IF step < 28 THEN step' = step + 1 /\ pc' = pc
                                ELSE step' = 0 /\ pc' = pc + 1
  <1>1. pc \in 1 .. 13 /\ UNCHANGED present
    BY DEF NextOperation
  <1> DEFINE part == Script(segments)[pc]
  <1>0. /\ Operate(part[step + 1])
        /\ step + 1 < Len(part) => step' = step + 1 /\ pc' = pc /\ synced' = synced
        /\ ~(step + 1 < Len(part)) =>
              /\ step' = 0
              /\ pc' = (IF pc = LastPart THEN 0 ELSE pc + 1)
              /\ synced' = (synced \/ pc = LastPart)
    <2>1. pc # Boot
      BY DEF Boot
    <2>2. PartAfter(pc) = IF pc = LastPart THEN 0 ELSE pc + 1
      BY <2>1 DEF PartAfter
    <2> QED
      BY <2>1, <2>2, Zenon DEF NextOperation
  <1>2. ASSUME pc \in Starts
        PROVE  /\ step \in 0 .. 3 /\ Operate(Tm1637Start[step + 1])
               /\ UNCHANGED synced
               /\ IF step < 3 THEN step' = step + 1 /\ pc' = pc
                              ELSE step' = 0 /\ pc' = pc + 1
    <2>1. Script(segments)[pc] = Tm1637Start /\ LastPart = 13 /\ pc # 13
      BY <1>1, <1>2, PartIs DEF Starts
    <2>2. Len(Tm1637Start) = 4
      BY DEF Tm1637Start
    <2>3. step \in 0 .. 3
      BY <1>2 DEF LevelsInv
    <2>4. Operate(Tm1637Start[step + 1])
      BY <1>0, <2>1
    <2>5. step + 1 < Len(part) <=> step < 3
      BY <2>1, <2>2, <2>3
    <2> HIDE DEF part
    <2> QED
      BY <1>0, <2>1, <2>3, <2>4, <2>5
  <1>3. ASSUME pc \in Stops
        PROVE  /\ step \in 0 .. 3 /\ Operate(Tm1637Stop[step + 1])
               /\ synced' = (synced \/ (step = 3 /\ pc = 13))
               /\ IF step < 3 THEN step' = step + 1 /\ pc' = pc
                  ELSE step' = 0 /\ pc' = IF pc = 13 THEN 0 ELSE pc + 1
    <2>1. Script(segments)[pc] = Tm1637Stop /\ LastPart = 13
      BY <1>1, <1>3, PartIs
    <2>2. Len(Tm1637Stop) = 4
      BY DEF Tm1637Stop
    <2>3. step \in 0 .. 3
      BY <1>3 DEF LevelsInv
    <2>4. Operate(Tm1637Stop[step + 1])
      BY <1>0, <2>1
    <2>5. step + 1 < Len(part) <=> step < 3
      BY <2>1, <2>2, <2>3
    <2> HIDE DEF part
    <2> QED
      BY <1>0, <2>1, <2>3, <2>4, <2>5
  <1>4. ASSUME pc \in Bytes
        PROVE  /\ Operate(Tm1637WriteByte(ByteOf(pc))[step + 1])
               /\ UNCHANGED synced
               /\ IF step < 28 THEN step' = step + 1 /\ pc' = pc
                               ELSE step' = 0 /\ pc' = pc + 1
    <2>1. Script(segments)[pc] = Tm1637WriteByte(ByteOf(pc)) /\ LastPart = 13 /\ pc # 13
      BY <1>1, <1>4, PartIs DEF Bytes
    <2>2. Len(Tm1637WriteByte(ByteOf(pc))) = 29
      BY DEF Tm1637WriteByte
    <2>3. Operate(Tm1637WriteByte(ByteOf(pc))[step + 1])
      BY <1>0, <2>1
    <2>4. step + 1 < Len(part) <=> step < 28
      BY <2>1, <2>2
    <2>5. ~(step < 28) => step = 28
      OBVIOUS
    <2> HIDE DEF part
    <2> QED
      BY <1>0, <2>1, <2>3, <2>4, <2>5
  <1> QED
    BY <1>1, <1>2, <1>3, <1>4

(* The operations of a byte. *)
LEMMA ByteOperations ==
    ASSUME NEW v \in 0 .. 255, NEW n \in 0 .. 28
    PROVE  /\ n < 24 /\ n % 3 = 0 => Tm1637WriteByte(v)[n + 1] = Clk(FALSE)
           /\ n < 24 /\ n % 3 = 1 => Tm1637WriteByte(v)[n + 1] = Dio(BitOf(v, n \div 3))
           /\ n < 24 /\ n % 3 = 2 => Tm1637WriteByte(v)[n + 1] = Clk(TRUE)
           /\ n \in {24, 28} => Tm1637WriteByte(v)[n + 1] = Clk(FALSE)
           /\ n = 25 => Tm1637WriteByte(v)[n + 1] = Dio(TRUE)
           /\ n = 26 => Tm1637WriteByte(v)[n + 1] = Clk(TRUE)
           /\ n = 27 => Tm1637WriteByte(v)[n + 1] = CountAck
  <1>1. n + 1 \in 1 .. 29 /\ (n + 1) - 1 = n
    OBVIOUS
  <1>2. Tm1637WriteByte(v)[n + 1] =
            IF n + 1 > 24 THEN ReadAck[(n + 1) - 24]
            ELSE <<Clk(FALSE), Dio(BitOf(v, n \div 3)), Clk(TRUE)>>[(n % 3) + 1]
    BY <1>1 DEF Tm1637WriteByte
  <1>3. ASSUME n < 24
        PROVE  Tm1637WriteByte(v)[n + 1] =
                  <<Clk(FALSE), Dio(BitOf(v, n \div 3)), Clk(TRUE)>>[(n % 3) + 1]
    BY <1>2, <1>3
  <1>4. ASSUME n >= 24 PROVE Tm1637WriteByte(v)[n + 1] = ReadAck[n - 23]
    <2>1. (n + 1) - 24 = n - 23
      OBVIOUS
    <2> QED
      BY <1>2, <1>4, <2>1
  <1>5. n \in {24, 28} => ReadAck[n - 23] = Clk(FALSE)
    <2>1. ReadAck[1] = Clk(FALSE) /\ ReadAck[5] = Clk(FALSE)
      BY DEF ReadAck
    <2>2. n = 24 \/ n = 28 => n - 23 = 1 \/ n - 23 = 5
      OBVIOUS
    <2> QED
      BY <2>1, <2>2
  <1>6. /\ n = 25 => ReadAck[n - 23] = Dio(TRUE)
        /\ n = 26 => ReadAck[n - 23] = Clk(TRUE)
        /\ n = 27 => ReadAck[n - 23] = CountAck
    <2>1. ReadAck[2] = Dio(TRUE) /\ ReadAck[3] = Clk(TRUE) /\ ReadAck[4] = CountAck
      BY DEF ReadAck
    <2>2. /\ n = 25 => n - 23 = 2
          /\ n = 26 => n - 23 = 3
          /\ n = 27 => n - 23 = 4
      OBVIOUS
    <2> QED
      BY <2>1, <2>2
  <1> DEFINE bit == <<Clk(FALSE), Dio(BitOf(v, n \div 3)), Clk(TRUE)>>
  <1>7. bit[1] = Clk(FALSE) /\ bit[2] = Dio(BitOf(v, n \div 3)) /\ bit[3] = Clk(TRUE)
    OBVIOUS
  <1>8. n < 24 => Tm1637WriteByte(v)[n + 1] = bit[(n % 3) + 1]
    BY <1>3
  <1> HIDE DEF bit
  <1>9. n % 3 \in 0 .. 2
    OBVIOUS
  <1>10. n < 24 => /\ n % 3 = 0 => Tm1637WriteByte(v)[n + 1] = bit[1]
                   /\ n % 3 = 1 => Tm1637WriteByte(v)[n + 1] = bit[2]
                   /\ n % 3 = 2 => Tm1637WriteByte(v)[n + 1] = bit[3]
    BY <1>8, <1>9
  <1>11. /\ n < 24 /\ n % 3 = 0 => Tm1637WriteByte(v)[n + 1] = Clk(FALSE)
         /\ n < 24 /\ n % 3 = 1 => Tm1637WriteByte(v)[n + 1] = Dio(BitOf(v, n \div 3))
         /\ n < 24 /\ n % 3 = 2 => Tm1637WriteByte(v)[n + 1] = Clk(TRUE)
    BY <1>7, <1>10
  <1>12. n \in {24, 25, 26, 27, 28} => Tm1637WriteByte(v)[n + 1] = ReadAck[n - 23]
    BY <1>4
  <1> QED
    BY <1>5, <1>6, <1>11, <1>12

(* What the chip makes of a change on its wires. *)
LEMMA SeesNothing ==
    ASSUME NEW c \in Chip,
           NEW k \in BOOLEAN, NEW l \in BOOLEAN, NEW d \in BOOLEAN, NEW e \in BOOLEAN,
           \/ ~k /\ ~l
           \/ k /\ l /\ (d = e \/ c.ack)
           \/ k /\ ~l /\ (~c.active \/ (~c.ack /\ c.count # 8))
           \/ ~k /\ l /\ (~c.active \/ c.ack \/ c.count = 8)
    PROVE  Sees(c, k, l, d, e) = c
  BY DEF Sees, Wire, Chip

LEMMA FlagSet ==
    ASSUME NEW c \in Chip, NEW b \in BOOLEAN
    PROVE  /\ [c EXCEPT !.active = b] \in Chip
           /\ [c EXCEPT !.ack = b] \in Chip
           /\ [c EXCEPT !.command = b] \in Chip
           /\ [c EXCEPT !.advance = b] \in Chip
           /\ [c EXCEPT !.on = b] \in Chip
  <1>1. [c EXCEPT !.active = b] \in Chip
    BY DEF Chip
  <1>2. [c EXCEPT !.ack = b] \in Chip
    BY DEF Chip
  <1>3. [c EXCEPT !.command = b] \in Chip
    BY DEF Chip
  <1>4. [c EXCEPT !.advance = b] \in Chip
    BY DEF Chip
  <1>5. [c EXCEPT !.on = b] \in Chip
    BY DEF Chip
  <1> QED
    BY <1>1, <1>2, <1>3, <1>4, <1>5

LEMMA CountSet ==
    ASSUME NEW c \in Chip, NEW n \in 0 .. 8
    PROVE  [c EXCEPT !.count = n] \in Chip
  BY DEF Chip

LEMMA ValueSet ==
    ASSUME NEW c \in Chip, NEW v \in 0 .. 255
    PROVE  [c EXCEPT !.value = v] \in Chip
  BY DEF Chip

LEMMA AddressSet ==
    ASSUME NEW c \in Chip, NEW a \in 0 .. 5
    PROVE  [c EXCEPT !.address = a] \in Chip
  BY DEF Chip

LEMMA RamSet ==
    ASSUME NEW c \in Chip, NEW a \in 0 .. 5, NEW v \in 0 .. 255
    PROVE  [c EXCEPT !.ram[a] = v] \in Chip
  BY DEF Chip

LEMMA ZeroFits == 0 \in 0 .. 5 /\ 0 \in 0 .. 8 /\ 0 \in 0 .. 255
  OBVIOUS

LEMMA BitsSet ==
    ASSUME NEW c \in Chip, NEW n \in 0 .. 8, NEW v \in 0 .. 255
    PROVE  [c EXCEPT !.count = n, !.value = v] \in Chip
  <1> DEFINE q == [c EXCEPT !.count = n]
  <1>1. [c EXCEPT !.count = n, !.value = v] = [q EXCEPT !.value = v]
    OBVIOUS
  <1>2. q \in Chip
    BY CountSet
  <1> HIDE DEF q
  <1> QED
    BY <1>1, <1>2, ValueSet

LEMMA SeesStart ==
    ASSUME NEW c \in Chip, ~c.ack
    PROVE  LET r == Sees(c, TRUE, TRUE, TRUE, FALSE)
           IN  /\ r \in Chip
               /\ r.active /\ ~r.ack /\ r.count = 0 /\ r.value = 0 /\ r.command
               /\ r.advance = c.advance /\ r.ram = c.ram /\ r.on = c.on
  <1> DEFINE r == [c EXCEPT !.active = TRUE, !.count = 0, !.value = 0, !.command = TRUE]
             p == [c EXCEPT !.active = TRUE]
             q == [p EXCEPT !.count = 0, !.value = 0]
  <1>1. Sees(c, TRUE, TRUE, TRUE, FALSE) = r
    BY DEF Sees, Wire
  <1>2. r \in Chip
    <2>1. r = [q EXCEPT !.command = TRUE]
      OBVIOUS
    <2>2. p \in Chip
      BY FlagSet
    <2> HIDE DEF p
    <2>3. q \in Chip
      BY <2>2, ZeroFits, BitsSet, Zenon
    <2> HIDE DEF q
    <2> QED
      BY <2>1, <2>3, FlagSet
  <1>3. /\ r.active /\ ~r.ack /\ r.count = 0 /\ r.value = 0 /\ r.command
        /\ r.advance = c.advance /\ r.ram = c.ram /\ r.on = c.on
    BY DEF Chip
  <1> HIDE DEF r
  <1> QED
    BY <1>1, <1>2, <1>3

LEMMA SeesStop ==
    ASSUME NEW c \in Chip, ~c.ack
    PROVE  LET r == Sees(c, TRUE, TRUE, FALSE, TRUE)
           IN  /\ r \in Chip
               /\ ~r.active /\ ~r.ack /\ r.count = 0 /\ r.value = 0
               /\ r.advance = c.advance /\ r.ram = c.ram /\ r.on = c.on
  <1> DEFINE r == [c EXCEPT !.active = FALSE, !.count = 0, !.value = 0]
             p == [c EXCEPT !.active = FALSE]
  <1>1. Sees(c, TRUE, TRUE, FALSE, TRUE) = r
    BY DEF Sees, Wire
  <1>2. r \in Chip
    <2>1. r = [p EXCEPT !.count = 0, !.value = 0]
      OBVIOUS
    <2>2. p \in Chip
      BY FlagSet
    <2> HIDE DEF p
    <2> QED
      BY <2>1, <2>2, ZeroFits, BitsSet, Zenon
  <1>3. /\ ~r.active /\ ~r.ack /\ r.count = 0 /\ r.value = 0
        /\ r.advance = c.advance /\ r.ram = c.ram /\ r.on = c.on
    BY DEF Chip
  <1> HIDE DEF r
  <1> QED
    BY <1>1, <1>2, <1>3

(* A bit is taken: c before and r after. *)
CanTakeBit(c) == c.active /\ ~c.ack /\ c.count \in 0 .. 7 /\ c.value < 2^c.count

BitTaken(c, e, r) ==
    /\ r \in Chip
    /\ r.active /\ ~r.ack /\ r.count = c.count + 1
    /\ e => r.value = c.value + 2^c.count
    /\ ~e => r.value = c.value
    /\ r.value < 2^r.count
    /\ r.command = c.command /\ r.address = c.address
    /\ r.advance = c.advance /\ r.ram = c.ram /\ r.on = c.on

LEMMA SeesBit ==
    ASSUME NEW c \in Chip, CanTakeBit(c), NEW d \in BOOLEAN, NEW e \in BOOLEAN
    PROVE  BitTaken(c, e, Sees(c, FALSE, TRUE, d, e))
  <1> DEFINE b == IF e THEN 2^c.count ELSE 0
             v == c.value + b
             r == [c EXCEPT !.count = c.count + 1, !.value = v]
  <1>1. c.count \in 0 .. 7 /\ c.value \in 0 .. 255
    BY DEF Chip, CanTakeBit
  <1>2. 2^c.count \in 1 .. 128 /\ 2^(c.count + 1) = 2 * 2^c.count
    BY <1>1, PowersGrow
  <1>3. b = 0 \/ b = 2^c.count
    BY Zenon
  <1>4. v \in 0 .. 255 /\ v < 2^(c.count + 1)
    <2> HIDE DEF b
    <2> DEFINE w == 2^c.count
               w2 == 2^(c.count + 1)
    <2>1. w \in 1 .. 128 /\ w2 = 2 * w /\ c.value < w /\ (b = 0 \/ b = w)
      BY <1>2, <1>3 DEF CanTakeBit
    <2> HIDE DEF w, w2
    <2>2. v \in 0 .. 255 /\ v < w2
      BY <1>1, <2>1
    <2> QED
      BY <2>2 DEF w2
  <1>5. Sees(c, FALSE, TRUE, d, e) = r
    BY DEF Sees, Wire, Chip, CanTakeBit
  <1> HIDE DEF v
  <1>6. r \in Chip
    <2>1. c.count + 1 \in 0 .. 8
      BY <1>1
    <2> QED
      BY <1>4, <2>1, BitsSet, Zenon
  <1>7. /\ r.active /\ ~r.ack /\ r.count = c.count + 1 /\ r.value = v
        /\ r.command = c.command /\ r.address = c.address
        /\ r.advance = c.advance /\ r.ram = c.ram /\ r.on = c.on
    BY DEF Chip, CanTakeBit
  <1>8. (e => v = c.value + 2^c.count) /\ (~e => v = c.value)
    BY <1>1 DEF v
  <1> HIDE DEF r
  <1> QED
    BY <1>4, <1>5, <1>6, <1>7, <1>8 DEF BitTaken

AckEnded(c, r) ==
    /\ r \in Chip
    /\ r.active /\ ~r.ack /\ r.count = 0 /\ r.value = 0
    /\ r.command = c.command /\ r.address = c.address
    /\ r.advance = c.advance /\ r.ram = c.ram /\ r.on = c.on

LEMMA SeesEndOfAck ==
    ASSUME NEW c \in Chip, c.active, c.ack, NEW d, NEW e
    PROVE  AckEnded(c, Sees(c, TRUE, FALSE, d, e))
  <1> DEFINE r == [c EXCEPT !.ack = FALSE, !.count = 0, !.value = 0]
             p == [c EXCEPT !.ack = FALSE]
  <1>1. Sees(c, TRUE, FALSE, d, e) = r
    BY DEF Sees, Wire, Chip
  <1>2. r \in Chip
    <2>1. r = [p EXCEPT !.count = 0, !.value = 0]
      OBVIOUS
    <2>2. p \in Chip
      BY FlagSet
    <2> HIDE DEF p
    <2> QED
      BY <2>1, <2>2, ZeroFits, BitsSet, Zenon
  <1>3. /\ r.active /\ ~r.ack /\ r.count = 0 /\ r.value = 0
        /\ r.command = c.command /\ r.address = c.address
        /\ r.advance = c.advance /\ r.ram = c.ram /\ r.on = c.on
    BY DEF Chip
  <1> HIDE DEF r
  <1> QED
    BY <1>1, <1>2, <1>3 DEF AckEnded

(* The ninth fall of CLK: the byte is taken.  A digit goes to its place,   *)
(* and the three commands are told by their values.                        *)
LEMMA TakesDigit ==
    ASSUME NEW c \in Chip, ~c.command, c.advance
    PROVE  LET r == TakeByte(c)
           IN  /\ r \in Chip
               /\ r.active = c.active /\ r.count = c.count /\ r.value = c.value
               /\ ~r.command /\ r.advance /\ r.on = c.on
               /\ r.ram = [c.ram EXCEPT ![c.address] = c.value]
               /\ r.address = (c.address + 1) % 6
  <1> DEFINE p == [c EXCEPT !.ram[c.address] = c.value]
             a == (c.address + 1) % 6
             r == [p EXCEPT !.address = a]
  <1>1. TakeByte(c) = r
    BY DEF TakeByte, Chip
  <1>2. p \in Chip /\ a \in 0 .. 5
    <2>1. c.address \in 0 .. 5 /\ c.value \in 0 .. 255
      BY DEF Chip
    <2>2. p \in Chip
      BY <2>1, RamSet
    <2>3. a \in 0 .. 5
      BY <2>1
    <2> QED
      BY <2>2, <2>3
  <1>3. /\ p.active = c.active /\ p.count = c.count /\ p.value = c.value
        /\ p.command = c.command /\ p.advance = c.advance /\ p.on = c.on
        /\ p.ram = [c.ram EXCEPT ![c.address] = c.value]
    BY DEF Chip
  <1> HIDE DEF p, a
  <1>4. r \in Chip
    BY <1>2, AddressSet
  <1>5. /\ r.active = p.active /\ r.count = p.count /\ r.value = p.value
        /\ r.command = p.command /\ r.advance = p.advance /\ r.on = p.on
        /\ r.ram = p.ram /\ r.address = a
    BY <1>2 DEF Chip
  <1> HIDE DEF r
  <1> QED
    BY <1>1, <1>3, <1>4, <1>5 DEF a

LEMMA TakesCommand ==
    ASSUME NEW c \in Chip, c.command, c.advance,
           c.value = 64 \/ c.value = 192 \/ c.value \in 136 .. 143
    PROVE  LET r == TakeByte(c)
           IN  /\ r \in Chip
               /\ r.active = c.active /\ r.count = c.count /\ r.value = c.value
               /\ ~r.command /\ r.advance /\ r.ram = c.ram
               /\ c.value = 192 => r.address = 0
               /\ c.value \in 136 .. 143 => r.on
  <1> DEFINE d == [c EXCEPT !.command = FALSE]
  <1>1. d \in Chip
    BY FlagSet
  <1>2. /\ d.active = c.active /\ d.count = c.count /\ d.value = c.value
        /\ ~d.command /\ d.advance /\ d.ram = c.ram
    BY DEF Chip
  <1>3. TakeByte(c) =
            IF c.value >= 192 THEN [d EXCEPT !.address = (c.value - 192) % 6]
            ELSE IF c.value >= 128 THEN [d EXCEPT !.on = BitOf(c.value, 3)]
            ELSE IF c.value >= 64 THEN [d EXCEPT !.advance = ~BitOf(c.value, 2)]
            ELSE d
    BY DEF TakeByte
  <1> HIDE DEF d
  <1>4. CASE c.value = 64
    <2> DEFINE r == [d EXCEPT !.advance = TRUE]
    <2>1. ~BitOf(64, 2)
      BY Powers DEF BitOf
    <2>2. (~BitOf(64, 2)) = TRUE
      BY <2>1, Zenon
    <2>3. TakeByte(c) = [d EXCEPT !.advance = ~BitOf(64, 2)]
      BY <1>3, <1>4
    <2>4. TakeByte(c) = r
      BY <2>2, <2>3, Zenon
    <2>5. r \in Chip
      BY <1>1, FlagSet
    <2>6. /\ r.active = d.active /\ r.count = d.count /\ r.value = d.value
          /\ r.command = d.command /\ r.advance /\ r.ram = d.ram
      BY <1>1 DEF Chip
    <2> HIDE DEF r
    <2> QED
      BY <1>2, <1>4, <2>4, <2>5, <2>6
  <1>5. CASE c.value = 192
    <2> DEFINE r == [d EXCEPT !.address = 0]
    <2>1. TakeByte(c) = r
      BY <1>3, <1>5
    <2>2. r \in Chip
      BY <1>1, ZeroFits, AddressSet, Zenon
    <2>3. /\ r.active = d.active /\ r.count = d.count /\ r.value = d.value
          /\ r.command = d.command /\ r.advance = d.advance /\ r.ram = d.ram
          /\ r.address = 0
      BY <1>1 DEF Chip
    <2> HIDE DEF r
    <2> QED
      BY <1>2, <1>5, <2>1, <2>2, <2>3
  <1>6. CASE c.value \in 136 .. 143
    <2> DEFINE r == [d EXCEPT !.on = TRUE]
    <2>1. BitOf(c.value, 3)
      BY <1>6, Powers DEF BitOf
    <2>2. BitOf(c.value, 3) = TRUE
      BY <2>1, Zenon
    <2>3. TakeByte(c) = [d EXCEPT !.on = BitOf(c.value, 3)]
      BY <1>3, <1>6
    <2>4. TakeByte(c) = r
      BY <2>2, <2>3, Zenon
    <2>5. r \in Chip
      BY <1>1, FlagSet
    <2>6. /\ r.active = d.active /\ r.count = d.count /\ r.value = d.value
          /\ r.command = d.command /\ r.advance = d.advance /\ r.ram = d.ram
          /\ r.on
      BY <1>1 DEF Chip
    <2> HIDE DEF r
    <2> QED
      BY <1>2, <1>6, <2>4, <2>5, <2>6
  <1> QED
    BY <1>4, <1>5, <1>6

LEMMA SeesByte ==
    ASSUME NEW c \in Chip, c.active, ~c.ack, c.count = 8, NEW d \in BOOLEAN,
           TakeByte(c) \in Chip
    PROVE  LET r == Sees(c, TRUE, FALSE, d, d)
               q == TakeByte(c)
           IN  /\ r \in Chip
               /\ r.ack /\ r.active = q.active /\ r.count = q.count /\ r.value = q.value
               /\ r.command = q.command /\ r.address = q.address
               /\ r.advance = q.advance /\ r.ram = q.ram /\ r.on = q.on
  <1> DEFINE q == TakeByte(c)
  <1>1. Sees(c, TRUE, FALSE, d, d) = [q EXCEPT !.ack = TRUE]
    BY DEF Sees, Wire, Chip
  <1> HIDE DEF q
  <1>2. q \in Chip
    BY DEF q
  <1> DEFINE r == [q EXCEPT !.ack = TRUE]
  <1>3. r \in Chip
    BY <1>2, FlagSet
  <1>4. /\ r.ack /\ r.active = q.active /\ r.count = q.count /\ r.value = q.value
        /\ r.command = q.command /\ r.address = q.address
        /\ r.advance = q.advance /\ r.ram = q.ram /\ r.on = q.on
    BY <1>2 DEF Chip
  <1> HIDE DEF r
  <1> QED
    BY <1>1, <1>3, <1>4 DEF q, r

(* A digit or a command is taken: c before and r after. *)
HasByte(c) == c.active /\ ~c.ack /\ c.count = 8 /\ c.advance

DigitTaken(c, r) ==
    /\ r \in Chip
    /\ r.ack /\ r.active /\ r.count = 8 /\ r.value = c.value
    /\ ~r.command /\ r.advance /\ r.on = c.on
    /\ r.ram = [c.ram EXCEPT ![c.address] = c.value]
    /\ r.address = (c.address + 1) % 6

CommandTaken(c, r) ==
    /\ r \in Chip
    /\ r.ack /\ r.active /\ r.count = 8 /\ r.value = c.value
    /\ ~r.command /\ r.advance /\ r.ram = c.ram
    /\ c.value = 192 => r.address = 0
    /\ c.value \in 136 .. 143 => r.on

LEMMA SeesDigit ==
    ASSUME NEW c \in Chip, HasByte(c), ~c.command, NEW d \in BOOLEAN
    PROVE  DigitTaken(c, Sees(c, TRUE, FALSE, d, d))
  <1> DEFINE q == TakeByte(c)
             r == Sees(c, TRUE, FALSE, d, d)
  <1>1. /\ q \in Chip
        /\ q.active = c.active /\ q.count = c.count /\ q.value = c.value
        /\ ~q.command /\ q.advance /\ q.on = c.on
        /\ q.ram = [c.ram EXCEPT ![c.address] = c.value]
        /\ q.address = (c.address + 1) % 6
    BY TakesDigit, Zenon DEF HasByte
  <1>2. /\ r \in Chip
        /\ r.ack /\ r.active = q.active /\ r.count = q.count /\ r.value = q.value
        /\ r.command = q.command /\ r.address = q.address
        /\ r.advance = q.advance /\ r.ram = q.ram /\ r.on = q.on
    BY <1>1, SeesByte, Zenon DEF HasByte
  <1> HIDE DEF q, r
  <1>3. DigitTaken(c, r)
    BY <1>1, <1>2 DEF HasByte, DigitTaken
  <1> QED
    BY <1>3 DEF r

LEMMA SeesCommand ==
    ASSUME NEW c \in Chip, HasByte(c), c.command, NEW d \in BOOLEAN,
           c.value = 64 \/ c.value = 192 \/ c.value \in 136 .. 143
    PROVE  CommandTaken(c, Sees(c, TRUE, FALSE, d, d))
  <1> DEFINE q == TakeByte(c)
             r == Sees(c, TRUE, FALSE, d, d)
  <1>1. /\ q \in Chip
        /\ q.active = c.active /\ q.count = c.count /\ q.value = c.value
        /\ ~q.command /\ q.advance /\ q.ram = c.ram
        /\ c.value = 192 => q.address = 0
        /\ c.value \in 136 .. 143 => q.on
    BY TakesCommand, Zenon DEF HasByte
  <1>2. /\ r \in Chip
        /\ r.ack /\ r.active = q.active /\ r.count = q.count /\ r.value = q.value
        /\ r.command = q.command /\ r.address = q.address
        /\ r.advance = q.advance /\ r.ram = q.ram /\ r.on = q.on
    BY <1>1, SeesByte, Zenon DEF HasByte
  <1> HIDE DEF q, r
  <1>3. CommandTaken(c, r)
    BY <1>1, <1>2 DEF HasByte, CommandTaken
  <1> QED
    BY <1>3 DEF r

(***************************************************************************)
(* A start condition.                                                      *)
(***************************************************************************)
LEMMA StartOperation ==
    ASSUME BusTypeOK, LevelsInv, NextOperation, pc \in Starts
    PROVE  /\ UNCHANGED <<present, synced, acks>> 
           /\ step \in 0 .. 3
           /\ IF step < 3 THEN step' = step + 1 /\ pc' = pc
              ELSE step' = 0 /\ pc' = pc + 1
           /\ chip' = IF present THEN Sees(chip, clk, clk', dio, dio') ELSE chip
           /\ step = 0 => clk' = clk /\ dio' = TRUE
           /\ step = 1 => clk' = TRUE /\ dio' = dio
           /\ step = 2 => clk' = clk /\ dio' = FALSE
           /\ step = 3 => clk' = FALSE /\ dio' = dio
  <1> DEFINE op == Tm1637Start[step + 1]
  <1>1. /\ step \in 0 .. 3 /\ Operate(op)
        /\ UNCHANGED <<present, synced>>
        /\ IF step < 3 THEN step' = step + 1 /\ pc' = pc
           ELSE step' = 0 /\ pc' = pc + 1
    BY OperationIs DEF BusTypeOK, Starts
  <1>2. /\ Tm1637Start[1] = Dio(TRUE) /\ Tm1637Start[2] = Clk(TRUE)
        /\ Tm1637Start[3] = Dio(FALSE) /\ Tm1637Start[4] = Clk(FALSE)
    BY DEF Tm1637Start
  <1>3. /\ clk' = IF op[1] = "clk" THEN op[2] ELSE clk
        /\ dio' = IF op[1] = "dio" THEN op[2] ELSE dio
        /\ acks' = IF op[1] = "ack" /\ ~Wire(chip, dio) THEN acks + 1 ELSE acks
        /\ chip' = IF present THEN Sees(chip, clk, clk', dio, dio') ELSE chip
    BY <1>1 DEF Operate
  <1>4. /\ step = 0 => step + 1 = 1
        /\ step = 1 => step + 1 = 2
        /\ step = 2 => step + 1 = 3
        /\ step = 3 => step + 1 = 4
        /\ step = 0 \/ step = 1 \/ step = 2 \/ step = 3
    BY <1>1
  <1>5. /\ step = 0 => op = Dio(TRUE)
        /\ step = 1 => op = Clk(TRUE)
        /\ step = 2 => op = Dio(FALSE)
        /\ step = 3 => op = Clk(FALSE)
    BY <1>2, <1>4
  <1> HIDE DEF op
  <1>6. ASSUME NEW l \in BOOLEAN, op = Clk(l)
        PROVE  clk' = l /\ dio' = dio /\ acks' = acks
    BY <1>3, <1>6 DEF Clk
  <1>7. ASSUME NEW l \in BOOLEAN, op = Dio(l)
        PROVE  clk' = clk /\ dio' = l /\ acks' = acks
    BY <1>3, <1>7 DEF Dio
  <1>8. /\ step = 0 => clk' = clk /\ dio' = TRUE /\ acks' = acks
        /\ step = 1 => clk' = TRUE /\ dio' = dio /\ acks' = acks
        /\ step = 2 => clk' = clk /\ dio' = FALSE /\ acks' = acks
        /\ step = 3 => clk' = FALSE /\ dio' = dio /\ acks' = acks
    BY <1>5, <1>6, <1>7
  <1>9. acks' = acks
    BY <1>4, <1>8
  <1> QED
    BY <1>1, <1>3, <1>8, <1>9

(***************************************************************************)
(* A stop condition.                                                       *)
(***************************************************************************)
LEMMA StopOperation ==
    ASSUME BusTypeOK, LevelsInv, NextOperation, pc \in Stops
    PROVE  /\ UNCHANGED <<present, acks>> /\ synced' = (synced \/ (step = 3 /\ pc = 13))
           /\ step \in 0 .. 3
           /\ IF step < 3 THEN step' = step + 1 /\ pc' = pc
              ELSE step' = 0 /\ pc' = IF pc = 13 THEN 0 ELSE pc + 1
           /\ chip' = IF present THEN Sees(chip, clk, clk', dio, dio') ELSE chip
           /\ step = 0 => clk' = FALSE /\ dio' = dio
           /\ step = 1 => clk' = clk /\ dio' = FALSE
           /\ step = 2 => clk' = TRUE /\ dio' = dio
           /\ step = 3 => clk' = clk /\ dio' = TRUE
  <1> DEFINE op == Tm1637Stop[step + 1]
  <1>1. /\ step \in 0 .. 3 /\ Operate(op)
        /\ synced' = (synced \/ (step = 3 /\ pc = 13)) /\ UNCHANGED present
        /\ IF step < 3 THEN step' = step + 1 /\ pc' = pc
           ELSE step' = 0 /\ pc' = IF pc = 13 THEN 0 ELSE pc + 1
    BY OperationIs DEF BusTypeOK, Stops
  <1>2. /\ Tm1637Stop[1] = Clk(FALSE) /\ Tm1637Stop[2] = Dio(FALSE)
        /\ Tm1637Stop[3] = Clk(TRUE) /\ Tm1637Stop[4] = Dio(TRUE)
    BY DEF Tm1637Stop
  <1>3. /\ clk' = IF op[1] = "clk" THEN op[2] ELSE clk
        /\ dio' = IF op[1] = "dio" THEN op[2] ELSE dio
        /\ acks' = IF op[1] = "ack" /\ ~Wire(chip, dio) THEN acks + 1 ELSE acks
        /\ chip' = IF present THEN Sees(chip, clk, clk', dio, dio') ELSE chip
    BY <1>1 DEF Operate
  <1>4. /\ step = 0 => step + 1 = 1
        /\ step = 1 => step + 1 = 2
        /\ step = 2 => step + 1 = 3
        /\ step = 3 => step + 1 = 4
        /\ step = 0 \/ step = 1 \/ step = 2 \/ step = 3
    BY <1>1
  <1>5. /\ step = 0 => op = Clk(FALSE)
        /\ step = 1 => op = Dio(FALSE)
        /\ step = 2 => op = Clk(TRUE)
        /\ step = 3 => op = Dio(TRUE)
    BY <1>2, <1>4
  <1> HIDE DEF op
  <1>6. ASSUME NEW l \in BOOLEAN, op = Clk(l)
        PROVE  clk' = l /\ dio' = dio /\ acks' = acks
    BY <1>3, <1>6 DEF Clk
  <1>7. ASSUME NEW l \in BOOLEAN, op = Dio(l)
        PROVE  clk' = clk /\ dio' = l /\ acks' = acks
    BY <1>3, <1>7 DEF Dio
  <1>8. /\ step = 0 => clk' = FALSE /\ dio' = dio /\ acks' = acks
        /\ step = 1 => clk' = clk /\ dio' = FALSE /\ acks' = acks
        /\ step = 2 => clk' = TRUE /\ dio' = dio /\ acks' = acks
        /\ step = 3 => clk' = clk /\ dio' = TRUE /\ acks' = acks
    BY <1>5, <1>6, <1>7
  <1>9. acks' = acks
    BY <1>4, <1>8
  <1> QED
    BY <1>1, <1>3, <1>8, <1>9

(***************************************************************************)
(* A byte.                                                                 *)
(***************************************************************************)
LEMMA ByteType ==
    ASSUME BusTypeOK, NEW p \in Bytes
    PROVE  ByteOf(p) \in 0 .. 255
  <1>1. Brightness % 8 \in 0 .. 7
    BY BusAssumption
  <1>2. p \in 6 .. 9 => p - 5 \in 1 .. 4 /\ segments[p - 5] \in 0 .. 255
    BY DEF BusTypeOK
  <1>3. p = 2 \/ p = 5 \/ p = 12 \/ p \in 6 .. 9
    BY DEF Bytes
  <1> QED
    BY <1>1, <1>2, <1>3 DEF ByteOf

LEMMA ByteOperation ==
    ASSUME BusTypeOK, LevelsInv, NextOperation, pc \in Bytes
    PROVE  /\ UNCHANGED <<present, synced>>
           /\ IF step < 28 THEN step' = step + 1 /\ pc' = pc
                           ELSE step' = 0 /\ pc' = pc + 1
           /\ chip' = IF present THEN Sees(chip, clk, clk', dio, dio') ELSE chip
           /\ step < 24 /\ step % 3 = 0 => clk' = FALSE /\ dio' = dio
           /\ step < 24 /\ step % 3 = 1 =>
                clk' = clk /\ dio' = BitOf(ByteOf(pc), step \div 3)
           /\ step < 24 /\ step % 3 = 2 => clk' = TRUE /\ dio' = dio
           /\ step \in {24, 28} => clk' = FALSE /\ dio' = dio
           /\ step = 25 => clk' = clk /\ dio' = TRUE
           /\ step = 26 => clk' = TRUE /\ dio' = dio
           /\ step = 27 => clk' = clk /\ dio' = dio
           /\ acks' = IF step = 27 /\ ~Wire(chip, dio) THEN acks + 1 ELSE acks
  <1> DEFINE v == ByteOf(pc)
             op == Tm1637WriteByte(v)[step + 1]
  <1>1. /\ Operate(op) /\ UNCHANGED <<present, synced>>
        /\ IF step < 28 THEN step' = step + 1 /\ pc' = pc
                        ELSE step' = 0 /\ pc' = pc + 1
    BY OperationIs DEF BusTypeOK, Bytes
  <1>2. v \in 0 .. 255 /\ step \in 0 .. 28
    BY ByteType DEF BusTypeOK
  <1>3. /\ clk' = IF op[1] = "clk" THEN op[2] ELSE clk
        /\ dio' = IF op[1] = "dio" THEN op[2] ELSE dio
        /\ acks' = IF op[1] = "ack" /\ ~Wire(chip, dio) THEN acks + 1 ELSE acks
        /\ chip' = IF present THEN Sees(chip, clk, clk', dio, dio') ELSE chip
    BY <1>1 DEF Operate
  <1> HIDE DEF v
  <1>4. /\ step < 24 /\ step % 3 = 0 => op = Clk(FALSE)
        /\ step < 24 /\ step % 3 = 1 => op = Dio(BitOf(v, step \div 3))
        /\ step < 24 /\ step % 3 = 2 => op = Clk(TRUE)
        /\ step \in {24, 28} => op = Clk(FALSE)
        /\ step = 25 => op = Dio(TRUE)
        /\ step = 26 => op = Clk(TRUE)
        /\ step = 27 => op = CountAck
    BY <1>2, ByteOperations
  <1> HIDE DEF op
  <1>5. ASSUME NEW l \in BOOLEAN, op = Clk(l)
        PROVE  clk' = l /\ dio' = dio /\ acks' = acks
    BY <1>3, <1>5 DEF Clk
  <1>6. ASSUME NEW l \in BOOLEAN, op = Dio(l)
        PROVE  clk' = clk /\ dio' = l /\ acks' = acks
    BY <1>3, <1>6 DEF Dio
  <1>7. ASSUME step = 27
        PROVE  /\ clk' = clk /\ dio' = dio
               /\ acks' = IF ~Wire(chip, dio) THEN acks + 1 ELSE acks
    BY <1>3, <1>4, <1>7 DEF CountAck
  <1>8. step < 24 /\ step % 3 = 0 => clk' = FALSE /\ dio' = dio /\ acks' = acks
    BY <1>4, <1>5
  <1>9. step < 24 /\ step % 3 = 1 =>
            clk' = clk /\ dio' = BitOf(v, step \div 3) /\ acks' = acks
    <2>1. BitOf(v, step \div 3) \in BOOLEAN
      BY DEF BitOf
    <2> QED
      BY <1>4, <1>6, <2>1
  <1>10. step < 24 /\ step % 3 = 2 => clk' = TRUE /\ dio' = dio /\ acks' = acks
    BY <1>4, <1>5
  <1>11. /\ step \in {24, 28} => clk' = FALSE /\ dio' = dio /\ acks' = acks
         /\ step = 25 => clk' = clk /\ dio' = TRUE /\ acks' = acks
         /\ step = 26 => clk' = TRUE /\ dio' = dio /\ acks' = acks
    BY <1>4, <1>5, <1>6
  <1>12. \/ step < 24 /\ step % 3 = 0
         \/ step < 24 /\ step % 3 = 1
         \/ step < 24 /\ step % 3 = 2
         \/ step \in {24, 28} \/ step = 25 \/ step = 26 \/ step = 27
    BY <1>2
  <1>13. acks' = IF step = 27 /\ ~Wire(chip, dio) THEN acks + 1 ELSE acks
    BY <1>7, <1>8, <1>9, <1>10, <1>11, <1>12
  <1> QED
    BY <1>1, <1>3, <1>7, <1>8, <1>9, <1>10, <1>11, <1>13 DEF v


LEMMA BytesAre ==
    /\ BytesBefore(0) = 7 /\ BytesBefore(1) = 0 /\ BytesBefore(2) = 0
    /\ BytesBefore(3) = 1 /\ BytesBefore(4) = 1 /\ BytesBefore(5) = 1
    /\ BytesBefore(6) = 2 /\ BytesBefore(7) = 3 /\ BytesBefore(8) = 4
    /\ BytesBefore(9) = 5 /\ BytesBefore(10) = 6 /\ BytesBefore(11) = 6
    /\ BytesBefore(12) = 6 /\ BytesBefore(13) = 7 /\ BytesBefore(Boot) = 0
  BY DEF BytesBefore, Boot

LEMMA StartKeeps ==
    ASSUME BusInv, NextOperation, UNCHANGED segments, pc \in Starts
    PROVE  BusInv'
  <1> USE DEF BusInv
  <1>1. /\ UNCHANGED <<present, synced, acks>>
        /\ step \in 0 .. 3
        /\ IF step < 3 THEN step' = step + 1 /\ pc' = pc
           ELSE step' = 0 /\ pc' = pc + 1
        /\ chip' = IF present THEN Sees(chip, clk, clk', dio, dio') ELSE chip
        /\ step = 0 => clk' = clk /\ dio' = TRUE
        /\ step = 1 => clk' = TRUE /\ dio' = dio
        /\ step = 2 => clk' = clk /\ dio' = FALSE
        /\ step = 3 => clk' = FALSE /\ dio' = dio
    BY StartOperation
  <1>2. /\ pc \in {1, 4, 11} /\ step <= 3 /\ clk /\ (dio <=> step < 3)
        /\ clk \in BOOLEAN /\ dio \in BOOLEAN
    BY DEF Starts, LevelsInv, BusTypeOK
  <1>3. /\ (clk' <=> step < 3) /\ (dio' <=> step < 2)
        /\ clk' \in BOOLEAN /\ dio' \in BOOLEAN
    <2>1. step = 0 \/ step = 1 \/ step = 2 \/ step = 3
      BY <1>1
    <2>2. CASE step = 0
      <3>1. clk' = TRUE /\ dio' = TRUE
        BY <1>1, <1>2, <2>2, Zenon
      <3> QED
        BY <2>2, <3>1
    <2>3. CASE step = 1
      <3>1. clk' = TRUE /\ dio' = dio /\ dio
        BY <1>1, <1>2, <2>3
      <3>2. clk' = TRUE /\ dio' = TRUE
        BY <1>2, <3>1, Zenon
      <3> QED
        BY <2>3, <3>2
    <2>4. CASE step = 2
      <3>1. clk' = TRUE /\ ~dio' /\ dio' \in BOOLEAN
        BY <1>1, <1>2, <2>4, Zenon
      <3> QED
        BY <2>4, <3>1
    <2>5. CASE step = 3
      <3>1. clk' = FALSE /\ dio' = dio /\ ~dio
        BY <1>1, <1>2, <2>5
      <3>2. ~clk' /\ ~dio' /\ clk' \in BOOLEAN /\ dio' \in BOOLEAN
        BY <1>2, <3>1, Zenon
      <3> QED
        BY <2>5, <3>2
    <2> QED
      BY <2>1, <2>2, <2>3, <2>4, <2>5
  <1>4. LevelsInv'
    BY <1>1, <1>2, <1>3 DEF LevelsInv, Starts, Stops, Bytes, Boot
  <1>5. ASSUME present
        PROVE  /\ chip' \in Chip
               /\ chip'.ram = chip.ram /\ chip'.on = chip.on /\ chip'.advance
               /\ chip'.ack => chip'.active
               /\ chip'.value < 2^chip'.count
               /\ step < 2 => ~chip'.active \/ (pc = 1 /\ ~synced /\ chip'.ack)
               /\ step = 2 =>
                    (Receives(0)' /\ chip'.command) \/ (pc = 1 /\ ~synced /\ chip'.ack)
               /\ step = 3 =>
                    /\ Receives(0)' /\ chip'.value = 0
                    /\ chip'.command \/ (pc = 1 /\ ~synced)
    <2>1. /\ chip \in Chip /\ chip.advance /\ (chip.ack => chip.active)
          /\ chip.value < 2^chip.count
          /\ step < 3 => ~chip.active \/ (pc = 1 /\ ~synced /\ chip.ack)
          /\ step = 3 => (Receives(0) /\ chip.command) \/ (pc = 1 /\ ~synced /\ chip.ack)
      BY <1>1, <1>2, <1>5 DEF FrameInv, BusTypeOK, Starts
    <2>2. chip' = Sees(chip, clk, clk', dio, dio')
      BY <1>1, <1>5
    <2>3. CASE step < 2
      <3>1. clk /\ clk' /\ (dio = dio' \/ chip.ack)
        <4>1. dio /\ dio'
          BY <2>3, <1>1, <1>2, <1>3
        <4> QED
          BY <2>3, <4>1, <1>2, <1>3, <1>1, Zenon
      <3>2. chip' = chip
        BY <2>1, <2>2, <3>1, <1>2, <1>3, SeesNothing, Zenon
      <3> QED
        BY <2>1, <2>3, <3>2, <1>1
    <2>4. CASE step = 2 /\ chip.ack
      <3>0. clk /\ clk'
        BY <2>4, <1>2, <1>3
      <3>1. chip' = chip
        BY <2>1, <2>2, <2>4, <3>0, <1>2, <1>3, SeesNothing, Zenon
      <3> QED
        BY <2>1, <2>4, <3>1, <1>1
    <2>5. CASE step = 2 /\ ~chip.ack
      <3>1. clk = TRUE /\ clk' = TRUE /\ dio = TRUE /\ dio' = FALSE
        BY <2>5, <1>1, <1>2, <1>3
      <3>2. chip' = Sees(chip, TRUE, TRUE, TRUE, FALSE)
        BY <2>2, <3>1
      <3>3. /\ chip' \in Chip
            /\ chip'.active /\ ~chip'.ack /\ chip'.count = 0 /\ chip'.value = 0
            /\ chip'.command
            /\ chip'.advance = chip.advance /\ chip'.ram = chip.ram /\ chip'.on = chip.on
        BY <2>1, <2>5, <3>2, SeesStart
      <3> QED
        BY <2>1, <2>5, <3>3, Powers DEF Receives
    <2>6. CASE step = 3 /\ chip.ack
      <3>1. clk = TRUE /\ clk' = FALSE
        BY <2>6, <1>1, <1>2, <1>3
      <3>2. chip' = Sees(chip, TRUE, FALSE, dio, dio')
        BY <2>2, <3>1
      <3>3. AckEnded(chip, chip')
        <4>1. chip \in Chip /\ chip.active /\ chip.ack
          BY <2>1, <2>6
        <4> QED
          BY <4>1, <3>2, SeesEndOfAck, Zenon
      <3>4. pc = 1 /\ ~synced
        BY <2>1, <2>6 DEF Receives
      <3> QED
        BY <2>1, <2>6, <3>3, <3>4, Powers DEF Receives, AckEnded
    <2>7. CASE step = 3 /\ ~chip.ack
      <3>1. Receives(0) /\ chip.command
        BY <2>1, <2>7
      <3>0. clk /\ ~clk' /\ ~chip.ack /\ chip.count # 8
        <4>1. clk' \in BOOLEAN /\ ~clk'
          BY <2>7, <1>3
        <4> QED
          BY <2>7, <3>1, <4>1, <1>2 DEF Receives
      <3>2. chip' = chip
        BY <2>1, <2>2, <3>0, <1>2, <1>3, SeesNothing, Zenon
      <3>3. chip.value = 0
        BY <2>1, <3>1, Powers DEF Receives, Chip
      <3>4. Receives(0)' /\ chip'.value = 0 /\ chip'.command
        BY <3>1, <3>2, <3>3 DEF Receives
      <3>5. /\ chip' \in Chip /\ chip'.ram = chip.ram /\ chip'.on = chip.on
            /\ chip'.advance /\ (chip'.ack => chip'.active)
            /\ chip'.value < 2^chip'.count
        BY <2>1, <3>2
      <3> QED
        BY <2>7, <3>4, <3>5
    <2> QED
      BY <1>1, <2>3, <2>4, <2>5, <2>6, <2>7
  <1>6. chip' \in Chip
    BY <1>1, <1>5 DEF BusTypeOK
  <1>7. BusTypeOK'
    <2>1. pc' \in 0 .. Boot /\ step' \in 0 .. 28
      BY <1>1, <1>2 DEF Boot
    <2> QED
      BY <1>1, <1>3, <1>6, <2>1 DEF BusTypeOK
  <1>8. ASSUME present PROVE FrameInv'
    <2>0. ~Receives(8)'
      BY <1>1, <1>5, <1>8 DEF Receives
    <2>1. CASE step < 3
      <3>1. pc' = pc /\ step' = step + 1 /\ synced' = synced
        BY <1>1, <2>1
      <3>2. step' = 3 <=> step = 2
        BY <1>1, <3>1
      <3>3. step' < 3 <=> step < 2
        BY <1>1, <3>1
      <3> QED
        BY <1>2, <1>5, <1>8, <2>0, <3>1, <3>2, <3>3, <2>1 DEF FrameInv, Starts, Stops, Bytes
    <2>2. CASE step = 3
      <3>1. pc' \in {2, 5, 12} /\ step' = 0 /\ synced' = synced /\ (pc' = 2 <=> pc = 1)
        BY <1>1, <1>2, <2>2
      <3>2. Receives(0)' /\ chip'.value = 0 /\ 0 \div 3 = 0
        BY <1>5, <1>8, <2>2
      <3>3. ByteOf(pc)' % 2^0 = 0
        <4>1. ByteOf(pc)' \in {64, 192, 136 + (Brightness % 8)}
          BY <3>1 DEF ByteOf
        <4>2. Brightness % 8 \in 0 .. 7
          BY BusAssumption
        <4>3. ByteOf(pc)' \in Nat
          BY <4>1, <4>2
        <4> QED
          BY <4>3, Powers
      <3>4. Receives(step \div 3)' /\ chip'.value = ByteOf(pc)' % 2^(step' \div 3)
        BY <3>1, <3>2, <3>3
      <3> QED
        BY <1>5, <1>8, <2>0, <3>1, <3>4, Powers DEF FrameInv, Starts, Stops, Bytes
    <2> QED
      BY <1>1, <2>1, <2>2
  <1>9. ASSUME present PROVE ContentInv'
    <2>1. ContentInv
      BY <1>9
    <2>2. /\ Written \in 0 .. 4 /\ Written' = Written
          /\ pc' \notin 6 .. 9 /\ pc' \notin {0, 13} /\ step' <= 24
      BY <1>1, <1>2 DEF Written, Boot
    <2>3. \A i \in 1 .. Written' : chip'.ram[i - 1] = segments'[i]
      BY <1>5, <1>9, <2>1, <2>2 DEF ContentInv
    <2>4. pc' \in {2, 5, 12} => chip'.command \/ (pc' = 2 /\ ~synced')
      <3>1. pc' \in {2, 5, 12} => step = 3 /\ (pc = 1 => pc' = 2)
        BY <1>1, <1>2
      <3>2. ~synced => ~synced'
        BY <1>1, Zenon
      <3> QED
        BY <1>5, <1>9, <3>1, <3>2
    <2>5. pc' # 5 \/ step' <= 24
      BY <2>2
    <2>6. pc' # 12 \/ ~(step' > 24)
      BY <1>1, <1>2
    <2>7. pc' \in 0 .. Boot /\ step' \in 0 .. 28
      BY <1>7 DEF BusTypeOK
    <2> QED
      BY <2>2, <2>3, <2>4, <2>5, <2>6, <2>7 DEF ContentInv
  <1>10. AckInv'
    <2>1. ~present => chip' = chip
      BY <1>1
    <2>2. step < 3 => BytesBefore(pc') = BytesBefore(pc)
      BY <1>1
    <2>3. step = 3 => BytesBefore(pc') = BytesBefore(pc)
      BY <1>1, <1>2, BytesAre
    <2>4. BytesBefore(pc') = BytesBefore(pc) /\ step' # 28 /\ pc \notin Bytes
      BY <1>1, <1>2, <2>2, <2>3 DEF Bytes
    <2> QED
      BY <1>1, <2>1, <2>4 DEF AckInv
  <1> QED
    BY <1>1, <1>4, <1>7, <1>8, <1>9, <1>10


LEMMA StopKeeps ==
    ASSUME BusInv, NextOperation, UNCHANGED segments, pc \in Stops
    PROVE  BusInv'
  <1> USE DEF BusInv
  <1>1. /\ UNCHANGED <<present, acks>> /\ synced' = (synced \/ (step = 3 /\ pc = 13))
        /\ step \in 0 .. 3
        /\ IF step < 3 THEN step' = step + 1 /\ pc' = pc
           ELSE step' = 0 /\ pc' = IF pc = 13 THEN 0 ELSE pc + 1
        /\ chip' = IF present THEN Sees(chip, clk, clk', dio, dio') ELSE chip
        /\ step = 0 => clk' = FALSE /\ dio' = dio
        /\ step = 1 => clk' = clk /\ dio' = FALSE
        /\ step = 2 => clk' = TRUE /\ dio' = dio
        /\ step = 3 => clk' = clk /\ dio' = TRUE
    BY StopOperation
  <1>2. /\ pc \in {3, 10, 13} /\ (clk <=> step = 3) /\ (step >= 2 => ~dio)
        /\ clk \in BOOLEAN /\ dio \in BOOLEAN /\ synced \in BOOLEAN
    BY DEF Stops, LevelsInv, BusTypeOK
  <1>3. step = 0 \/ step = 1 \/ step = 2 \/ step = 3
    BY <1>1
  <1>4. /\ (clk' <=> step >= 2) /\ (step = 1 \/ step = 2 => ~dio') /\ (step = 3 => dio')
        /\ clk' \in BOOLEAN /\ dio' \in BOOLEAN /\ synced' \in BOOLEAN
    <2>1. synced' \in BOOLEAN
      BY <1>1, <1>2, Zenon
    <2>2. CASE step = 0
      <3>1. ~clk' /\ clk' \in BOOLEAN /\ dio' \in BOOLEAN
        BY <1>1, <1>2, <2>2, Zenon
      <3> QED
        BY <2>1, <2>2, <3>1
    <2>3. CASE step = 1
      <3>1. ~clk /\ clk' = clk /\ dio' = FALSE
        BY <1>1, <1>2, <2>3
      <3>2. ~clk' /\ ~dio' /\ clk' \in BOOLEAN /\ dio' \in BOOLEAN
        BY <1>2, <3>1, Zenon
      <3> QED
        BY <2>1, <2>3, <3>2
    <2>4. CASE step = 2
      <3>1. ~dio /\ clk' = TRUE /\ dio' = dio
        BY <1>1, <1>2, <2>4
      <3>2. clk' /\ ~dio' /\ clk' \in BOOLEAN /\ dio' \in BOOLEAN
        BY <1>2, <3>1, Zenon
      <3> QED
        BY <2>1, <2>4, <3>2
    <2>5. CASE step = 3
      <3>1. clk' /\ dio' /\ clk' \in BOOLEAN /\ dio' \in BOOLEAN
        BY <1>1, <1>2, <2>5, Zenon
      <3> QED
        BY <2>1, <2>5, <3>1
    <2> QED
      BY <1>3, <2>2, <2>3, <2>4, <2>5
  <1>5. pc' = 0 => step' = 0 /\ pc = 13 /\ step = 3 /\ synced'
    <2>1. pc' = 0 => step' = 0 /\ pc = 13 /\ step = 3
      BY <1>1, <1>2
    <2>2. pc = 13 /\ step = 3 => synced'
      BY <1>1, Zenon
    <2> QED
      BY <2>1, <2>2
  <1>6. step = 3 => step' = 0 /\ pc' \in {0, 4, 11}
    BY <1>1, <1>2
  <1>7. step < 3 => pc' \in {3, 10, 13} /\ step' = step + 1
    BY <1>1, <1>2
  <1>8. LevelsInv'
    <2>1. CASE step = 3
      BY <1>4, <1>5, <1>6, <2>1 DEF LevelsInv, Starts, Stops, Bytes, Boot
    <2>2. CASE step < 3
      BY <1>1, <1>3, <1>4, <1>7, <2>2 DEF LevelsInv, Starts, Stops, Bytes, Boot
    <2> QED
      BY <1>3, <2>1, <2>2
  <1>9. ASSUME present
        PROVE  /\ chip' \in Chip
               /\ chip'.ram = chip.ram /\ chip'.on = chip.on /\ chip'.advance /\ ~chip'.ack
               /\ chip'.value < 2^chip'.count
               /\ step < 2 => Receives(0)'
               /\ step = 2 => Receives(1)'
               /\ step = 3 => ~chip'.active
    <2>1. /\ chip \in Chip /\ chip.advance /\ ~chip.ack /\ chip.active
          /\ chip.value < 2^chip.count
          /\ chip.count = (IF step = 3 THEN 1 ELSE 0)
      BY <1>2, <1>9 DEF FrameInv, BusTypeOK, Stops, Receives
    <2>2. chip' = Sees(chip, clk, clk', dio, dio')
      BY <1>1, <1>9
    <2>3. CASE step < 2
      <3>1. ~clk /\ ~clk' /\ ~(step = 3)
        <4>1. step # 3 /\ ~(step >= 2)
          BY <2>3, <1>1
        <4> QED
          BY <4>1, <1>2, <1>4
      <3>2. chip' = chip
        BY <2>1, <2>2, <3>1, <1>2, <1>4, SeesNothing, Zenon
      <3>3. Receives(0)'
        BY <2>1, <3>1, <3>2 DEF Receives
      <3>4. step # 2
        BY <2>3, <1>1
      <3> QED
        BY <2>1, <3>1, <3>2, <3>3, <3>4
    <2>4. CASE step = 2
      <3>1. chip \in Chip /\ CanTakeBit(chip) /\ chip.count = 0
        BY <2>1, <2>4 DEF CanTakeBit
      <3>2. clk = FALSE /\ clk' = TRUE
        <4>1. ~clk /\ clk'
          BY <2>4, <1>2, <1>4
        <4> QED
          BY <4>1, <1>2, <1>4, Zenon
      <3>3. chip' = Sees(chip, FALSE, TRUE, dio, dio')
        BY <2>2, <3>2
      <3>4. BitTaken(chip, dio', chip')
        BY <3>1, <3>3, <1>2, <1>4, SeesBit, Zenon
      <3>5. Receives(1)'
        BY <3>1, <3>4 DEF Receives, BitTaken
      <3> QED
        BY <2>1, <2>4, <3>4, <3>5, ~(step < 2), step # 3 DEF BitTaken
    <2>5. CASE step = 3
      <3> DEFINE q == Sees(chip, TRUE, TRUE, FALSE, TRUE)
      <3>1. /\ q \in Chip /\ ~q.active /\ ~q.ack /\ q.count = 0 /\ q.value = 0
            /\ q.advance = chip.advance /\ q.ram = chip.ram /\ q.on = chip.on
        BY <2>1, SeesStop, Zenon
      <3>2. clk = TRUE /\ clk' = TRUE /\ dio = FALSE /\ dio' = TRUE
        <4>1. clk /\ clk' /\ ~dio /\ dio'
          BY <2>5, <1>2, <1>4
        <4> QED
          BY <4>1, <1>2, <1>4, Zenon
      <3>3. chip' = q
        BY <2>2, <3>2
      <3> HIDE DEF q
      <3> QED
        <4>1. 2^q.count = 1
          BY <3>1, Powers
        <4>2. q.value < 2^q.count
          BY <3>1, <4>1
        <4>3. chip'.value < 2^chip'.count
          BY <3>3, <4>2
        <4> QED
          BY <2>1, <2>5, <3>1, <3>3, <4>3, ~(step < 2), step # 2
    <2> QED
      BY <1>3, <2>3, <2>4, <2>5
  <1>10. chip' \in Chip
    BY <1>1, <1>9 DEF BusTypeOK
  <1>11. BusTypeOK'
    <2>1. pc' \in 0 .. Boot /\ step' \in 0 .. 28
      BY <1>1, <1>2 DEF Boot
    <2> QED
      BY <1>1, <1>4, <1>10, <2>1 DEF BusTypeOK
  <1>12. ASSUME present PROVE FrameInv'
    <2>0. ~Receives(8)'
      BY <1>3, <1>9, <1>12 DEF Receives
    <2>1. CASE step < 3
      <3>1. Receives(IF step = 3 THEN 1 ELSE 0)'
        <4>1. CASE step = 2
          BY <1>7, <1>9, <1>12, <4>1, step' = 3
        <4>2. CASE step < 2
          BY <1>1, <1>7, <1>9, <1>12, <4>2, step' # 3
        <4> QED
          BY <1>3, <2>1, <4>1, <4>2
      <3> QED
        BY <1>7, <1>9, <1>12, <2>0, <2>1, <3>1 DEF FrameInv, Starts, Stops, Bytes
    <2>2. CASE step = 3
      BY <1>6, <1>9, <1>12, <2>0, <2>2 DEF FrameInv, Starts, Stops, Bytes
    <2> QED
      BY <1>3, <2>1, <2>2
  <1>13. ASSUME present PROVE ContentInv'
    <2>1. ContentInv
      BY <1>13
    <2>2. /\ Written \in 0 .. 4 /\ Written' = Written
          /\ pc' \notin {2, 5, 12} /\ pc' \notin 6 .. 9
          /\ pc' \in {0, 13} => pc = 13
      BY <1>1, <1>2 DEF Written, Boot
    <2>3. \A i \in 1 .. Written' : chip'.ram[i - 1] = segments'[i]
      BY <1>9, <1>13, <2>1, <2>2 DEF ContentInv
    <2>4. pc' \in {0, 13} => chip'.on
      BY <1>9, <1>13, <2>1, <2>2 DEF ContentInv
    <2> QED
      BY <2>2, <2>3, <2>4 DEF ContentInv
  <1>14. AckInv'
    <2>1. ~present => chip' = chip
      BY <1>1
    <2>2. BytesBefore(pc') = BytesBefore(pc)
      BY <1>1, <1>2, BytesAre
    <2>3. pc \notin Bytes /\ pc' \notin Bytes
      BY <1>1, <1>2 DEF Bytes
    <2> QED
      BY <1>1, <2>1, <2>2, <2>3 DEF AckInv
  <1> QED
    BY <1>1, <1>8, <1>11, <1>12, <1>13, <1>14


(* What the chip sees of a byte. *)
LEMMA ByteSeen ==
    ASSUME BusInv, NextOperation, pc \in Bytes, present
    PROVE  /\ step < 24 /\ step % 3 # 2 => chip' = chip
           /\ step < 24 /\ step % 3 = 2 =>
                CanTakeBit(chip) /\ BitTaken(chip, BitOf(ByteOf(pc), step \div 3), chip')
           /\ step = 24 =>
                /\ HasByte(chip) /\ chip.value = ByteOf(pc)
                /\ \/ ~chip.command /\ (pc \in 6 .. 9 \/ (pc = 2 /\ ~synced))
                        /\ DigitTaken(chip, chip')
                   \/ chip.command /\ pc \in {2, 5, 12} /\ CommandTaken(chip, chip')
           /\ step \in {25, 26, 27} => chip' = chip
           /\ step = 28 => AckEnded(chip, chip')
  <1> USE DEF BusInv
  <1>1. /\ chip' = Sees(chip, clk, clk', dio, dio')
        /\ step < 24 /\ step % 3 = 0 => clk' = FALSE /\ dio' = dio
        /\ step < 24 /\ step % 3 = 1 => clk' = clk /\ dio' = BitOf(ByteOf(pc), step \div 3)
        /\ step < 24 /\ step % 3 = 2 => clk' = TRUE /\ dio' = dio
        /\ step \in {24, 28} => clk' = FALSE /\ dio' = dio
        /\ step = 25 => clk' = clk /\ dio' = TRUE
        /\ step = 26 => clk' = TRUE /\ dio' = dio
        /\ step = 27 => clk' = clk /\ dio' = dio
    BY ByteOperation
  <1>2. /\ clk <=> (step \in 1 .. 24 /\ step % 3 = 0) \/ step >= 27
        /\ step < 24 /\ step % 3 = 2 => (dio <=> BitOf(ByteOf(pc), step \div 3))
        /\ clk \in BOOLEAN /\ dio \in BOOLEAN /\ chip \in Chip
        /\ step \in 0 .. 28
    BY DEF LevelsInv, BusTypeOK
  <1>3. /\ chip.advance /\ (chip.ack => chip.active) /\ chip.value < 2^chip.count
        /\ step > 24 => chip.ack
        /\ ~(step > 24) => /\ chip.active /\ ~chip.ack /\ chip.count = step \div 3
                           /\ chip.value = ByteOf(pc) % 2^(step \div 3)
    BY DEF FrameInv, Receives
  <1>4. BitOf(ByteOf(pc), step \div 3) \in BOOLEAN
    BY DEF BitOf
  <1>5. ASSUME step < 24, step % 3 # 2
        PROVE  chip' = chip
    <2>1. CASE step % 3 = 1
      <3>0. clk' = clk /\ dio' = BitOf(ByteOf(pc), step \div 3)
        BY <1>1, <1>5, <2>1
      <3>1. ~clk
        BY <1>2, <1>5, <2>1
      <3>2. ~clk' /\ clk' \in BOOLEAN /\ dio' \in BOOLEAN
        BY <1>2, <1>4, <3>0, <3>1, Zenon
      <3> QED
        BY <1>1, <1>2, <3>1, <3>2, SeesNothing, Zenon
    <2>2. CASE step % 3 = 0
      <3>1. ~clk' /\ clk' \in BOOLEAN /\ dio' \in BOOLEAN
        BY <1>1, <1>2, <1>5, <2>2, Zenon
      <3>2. ~chip.ack /\ chip.count # 8
        BY <1>2, <1>3, <1>5
      <3>3. CASE clk
        BY <1>1, <1>2, <3>1, <3>2, <3>3, SeesNothing, Zenon
      <3>4. CASE ~clk
        BY <1>1, <1>2, <3>1, <3>2, <3>4, SeesNothing, Zenon
      <3> QED
        BY <3>3, <3>4
    <2> QED
      BY <1>2, <1>5, <2>1, <2>2
  <1>6. ASSUME step < 24, step % 3 = 2
        PROVE  CanTakeBit(chip) /\ BitTaken(chip, BitOf(ByteOf(pc), step \div 3), chip')
    <2>1. ~clk
      BY <1>2, <1>6
    <2>2. clk = FALSE /\ clk' = TRUE /\ dio' = dio
      BY <1>1, <1>2, <1>6, <2>1, Zenon
    <2>3. dio' = BitOf(ByteOf(pc), step \div 3) /\ dio' \in BOOLEAN
      BY <1>2, <1>4, <1>6, <2>2, Zenon
    <2>4. CanTakeBit(chip)
      <3>1. step \div 3 \in 0 .. 7 /\ ~(step > 24)
        BY <1>2, <1>6
      <3> QED
        BY <1>3, <3>1 DEF CanTakeBit
    <2>5. chip' = Sees(chip, FALSE, TRUE, dio, dio')
      BY <1>1, <2>2
    <2>6. BitTaken(chip, dio', chip')
      BY <1>2, <2>3, <2>4, <2>5, SeesBit, Zenon
    <2> QED
      BY <2>3, <2>4, <2>6, Zenon
  <1>7. ASSUME step = 24
        PROVE  /\ HasByte(chip) /\ chip.value = ByteOf(pc)
               /\ \/ ~chip.command /\ (pc \in 6 .. 9 \/ (pc = 2 /\ ~synced))
                        /\ DigitTaken(chip, chip')
                  \/ chip.command /\ pc \in {2, 5, 12} /\ CommandTaken(chip, chip')
    <2>1. clk = TRUE /\ clk' = FALSE /\ dio' = dio
      <3>1. clk /\ step \in {24, 28}
        BY <1>2, <1>7
      <3> QED
        BY <1>1, <1>2, <3>1, Zenon
    <2>2. chip' = Sees(chip, TRUE, FALSE, dio, dio)
      BY <1>1, <2>1
    <2>3. ByteOf(pc) \in 0 .. 255
      BY ByteType
    <2>4. HasByte(chip) /\ chip.value = ByteOf(pc)
      <3>1. step \div 3 = 8 /\ ~(step > 24)
        BY <1>7
      <3>2. ByteOf(pc) % 2^8 = ByteOf(pc)
        BY <2>3, Powers
      <3> QED
        BY <1>3, <3>1, <3>2 DEF HasByte
    <2>5. /\ pc \in {2, 5, 12} => chip.command \/ (pc = 2 /\ ~synced)
          /\ pc \in 6 .. 9 => ~chip.command
          /\ pc \in {2, 5, 12} \/ pc \in 6 .. 9
      BY <1>7 DEF ContentInv, Bytes
    <2>6. CASE chip.command
      <3>1. pc \in {2, 5, 12}
        BY <2>5, <2>6
      <3>2. ByteOf(pc) = 64 \/ ByteOf(pc) = 192 \/ ByteOf(pc) \in 136 .. 143
        <4>1. Brightness % 8 \in 0 .. 7
          BY BusAssumption
        <4>2. ByteOf(pc) \in {64, 192, 136 + (Brightness % 8)}
          BY <3>1 DEF ByteOf
        <4> QED
          BY <4>1, <4>2
      <3>3. CommandTaken(chip, chip')
        BY <1>2, <2>2, <2>4, <2>6, <3>2, SeesCommand, Zenon
      <3> QED
        BY <2>4, <2>6, <3>1, <3>3
    <2>7. CASE ~chip.command
      <3>1. DigitTaken(chip, chip')
        BY <1>2, <2>2, <2>4, <2>7, SeesDigit, Zenon
      <3> QED
        BY <2>4, <2>5, <2>7, <3>1
    <2> QED
      BY <2>6, <2>7
  <1>8. ASSUME step \in {25, 26, 27}
        PROVE  chip' = chip
    <2>1. chip.ack
      BY <1>3, <1>8
    <2>2. CASE step = 25
      <3>0. clk' = clk /\ dio' = TRUE
        BY <1>1, <2>2
      <3>1. ~clk
        BY <1>2, <2>2
      <3>2. ~clk' /\ clk' \in BOOLEAN /\ dio' \in BOOLEAN
        BY <1>2, <3>0, <3>1, Zenon
      <3> QED
        BY <1>1, <1>2, <3>1, <3>2, SeesNothing, Zenon
    <2>3. CASE step = 26
      <3>1. ~clk
        BY <1>2, <2>3
      <3>2. clk' /\ clk' \in BOOLEAN /\ dio' \in BOOLEAN
        BY <1>1, <1>2, <2>3, <3>1, Zenon
      <3> QED
        BY <1>1, <1>2, <2>1, <3>1, <3>2, SeesNothing, Zenon
    <2>4. CASE step = 27
      <3>1. clk
        BY <1>2, <2>4
      <3>2. clk' /\ clk' \in BOOLEAN /\ dio' \in BOOLEAN
        BY <1>1, <1>2, <2>4, <3>1, Zenon
      <3> QED
        BY <1>1, <1>2, <2>1, <3>1, <3>2, SeesNothing, Zenon
    <2> QED
      BY <1>8, <2>2, <2>3, <2>4
  <1>9. ASSUME step = 28
        PROVE  AckEnded(chip, chip')
    <2>1. clk /\ chip.ack /\ chip.active /\ step \in {24, 28}
      BY <1>2, <1>3, <1>9
    <2>2. clk = TRUE /\ clk' = FALSE
      BY <1>1, <1>2, <2>1, Zenon
    <2>3. chip' = Sees(chip, TRUE, FALSE, dio, dio')
      BY <1>1, <2>2
    <2> QED
      BY <1>2, <2>1, <2>3, SeesEndOfAck, Zenon
  <1> QED
    BY <1>5, <1>6, <1>7, <1>8, <1>9


LEMMA SameByte ==
    ASSUME UNCHANGED <<pc, segments>>
    PROVE  ByteOf(pc)' = ByteOf(pc)
  BY Zenon DEF ByteOf

LEMMA ByteLevels ==
    ASSUME BusTypeOK, LevelsInv, NextOperation, UNCHANGED segments, pc \in Bytes
    PROVE  /\ LevelsInv'
           /\ clk' \in BOOLEAN /\ dio' \in BOOLEAN
  <1>1. /\ IF step < 28 THEN step' = step + 1 /\ pc' = pc
                        ELSE step' = 0 /\ pc' = pc + 1
        /\ step < 24 /\ step % 3 = 0 => clk' = FALSE /\ dio' = dio
        /\ step < 24 /\ step % 3 = 1 =>
             clk' = clk /\ dio' = BitOf(ByteOf(pc), step \div 3)
        /\ step < 24 /\ step % 3 = 2 => clk' = TRUE /\ dio' = dio
        /\ step \in {24, 28} => clk' = FALSE /\ dio' = dio
        /\ step = 25 => clk' = clk /\ dio' = TRUE
        /\ step = 26 => clk' = TRUE /\ dio' = dio
        /\ step = 27 => clk' = clk /\ dio' = dio
    BY ByteOperation
  <1>2. /\ clk <=> (step \in 1 .. 24 /\ step % 3 = 0) \/ step >= 27
        /\ step >= 26 => dio
        /\ clk \in BOOLEAN /\ dio \in BOOLEAN /\ step \in 0 .. 28
        /\ pc \in {2, 5, 6, 7, 8, 9, 12}
    BY DEF LevelsInv, BusTypeOK, Bytes
  <1>3. BitOf(ByteOf(pc), step \div 3) \in BOOLEAN
    BY DEF BitOf
  <1>4. \/ step < 24 /\ step % 3 = 0
        \/ step < 24 /\ step % 3 = 1
        \/ step < 24 /\ step % 3 = 2
        \/ step = 24 \/ step = 25 \/ step = 26 \/ step = 27 \/ step = 28
    BY <1>2
  <1> DEFINE L == /\ clk' \in BOOLEAN /\ dio' \in BOOLEAN
                  /\ clk' <=> (step < 24 /\ step % 3 = 2) \/ step = 26 \/ step = 27
                  /\ step < 24 /\ step % 3 = 1 => (dio' <=> BitOf(ByteOf(pc), step \div 3))
                  /\ step >= 25 => dio'
  <1>5. ASSUME step < 24 /\ step % 3 = 0 PROVE L
    <2>1. clk' = FALSE /\ dio' = dio
      BY <1>1, <1>5
    <2>2. ~clk' /\ clk' \in BOOLEAN /\ dio' \in BOOLEAN
      BY <1>2, <2>1, Zenon
    <2> QED
      BY <1>2, <1>5, <2>2
  <1>6. ASSUME step < 24 /\ step % 3 = 1 PROVE L
    <2>1. clk' = clk /\ dio' = BitOf(ByteOf(pc), step \div 3) /\ ~clk
      BY <1>1, <1>2, <1>6
    <2>2. /\ ~clk' /\ clk' \in BOOLEAN /\ dio' \in BOOLEAN
          /\ dio' <=> BitOf(ByteOf(pc), step \div 3)
      BY <1>2, <1>3, <2>1, Zenon
    <2> QED
      BY <1>2, <1>6, <2>2
  <1>7. ASSUME step < 24 /\ step % 3 = 2 PROVE L
    <2>1. clk' = TRUE /\ dio' = dio
      BY <1>1, <1>7
    <2>2. clk' /\ clk' \in BOOLEAN /\ dio' \in BOOLEAN
      BY <1>2, <2>1, Zenon
    <2> QED
      BY <1>2, <1>7, <2>2
  <1>8. ASSUME step = 24 \/ step = 28 PROVE L
    <2>1. clk' = FALSE /\ dio' = dio /\ (step = 28 => dio)
      BY <1>1, <1>2, <1>8
    <2>2. ~clk' /\ clk' \in BOOLEAN /\ dio' \in BOOLEAN /\ (step = 28 => dio')
      BY <1>2, <2>1, Zenon
    <2> QED
      BY <1>2, <1>8, <2>2
  <1>9. ASSUME step = 25 PROVE L
    <2>1. clk' = clk /\ dio' = TRUE /\ ~clk
      BY <1>1, <1>2, <1>9
    <2>2. ~clk' /\ clk' \in BOOLEAN /\ dio' \in BOOLEAN /\ dio'
      BY <1>2, <2>1, Zenon
    <2> QED
      BY <1>2, <1>9, <2>2
  <1>10. ASSUME step = 26 \/ step = 27 PROVE L
    <2>1. (clk' = clk /\ clk) \/ clk' = TRUE
      BY <1>1, <1>2, <1>10
    <2>2. dio' = dio /\ dio
      BY <1>1, <1>2, <1>10
    <2>3. clk' /\ clk' \in BOOLEAN /\ dio' \in BOOLEAN /\ dio'
      BY <1>2, <2>1, <2>2, Zenon
    <2> QED
      BY <1>2, <1>10, <2>3
  <1>11. L
    BY <1>4, <1>5, <1>6, <1>7, <1>8, <1>9, <1>10
  <1>12. CASE step < 28
    <2>1. pc' = pc /\ step' = step + 1
      BY <1>1, <1>12
    <2>2. ByteOf(pc)' = ByteOf(pc)
      BY <2>1, SameByte, Zenon
    <2>3. clk' <=> (step' \in 1 .. 24 /\ step' % 3 = 0) \/ step' >= 27
      BY <1>2, <1>11, <1>12, <2>1
    <2>4. step' < 24 /\ step' % 3 = 2 => step < 24 /\ step % 3 = 1 /\ step' \div 3 = step \div 3
      BY <1>2, <2>1
    <2>5. step' < 24 /\ step' % 3 = 2 => (dio' <=> BitOf(ByteOf(pc), step \div 3))
      BY <1>11, <2>4
    <2>6. step' < 24 /\ step' % 3 = 2 => (dio' <=> BitOf(ByteOf(pc)', step' \div 3))
      BY <2>2, <2>4, <2>5
    <2>7. step' >= 26 => dio'
      BY <1>2, <1>11, <2>1
    <2>8. pc' \in Bytes /\ pc' \notin Starts /\ pc' \notin Stops /\ pc' # 0 /\ pc' # Boot
      BY <1>2, <2>1 DEF Bytes, Starts, Stops, Boot
    <2>9. LevelsInv'
      BY <2>3, <2>6, <2>7, <2>8 DEF LevelsInv
    <2> QED
      BY <1>11, <2>9
  <1>13. CASE step = 28
    <2>1. step' = 0 /\ pc' \in {3, 6, 7, 8, 9, 10, 13} /\ ~clk'
      BY <1>1, <1>2, <1>11, <1>13
    <2>2. LevelsInv'
      BY <2>1 DEF LevelsInv, Starts, Stops, Bytes, Boot
    <2> QED
      BY <1>11, <2>2
  <1> QED
    BY <1>2, <1>12, <1>13

LEMMA ByteAcks ==
    ASSUME BusInv, NextOperation, pc \in Bytes
    PROVE  /\ AckInv'
           /\ acks' \in 0 .. 7
  <1> USE DEF BusInv
  <1>1. /\ UNCHANGED present
        /\ IF step < 28 THEN step' = step + 1 /\ pc' = pc
                        ELSE step' = 0 /\ pc' = pc + 1
        /\ acks' = IF step = 27 /\ ~Wire(chip, dio) THEN acks + 1 ELSE acks
        /\ chip' = IF present THEN Sees(chip, clk, clk', dio, dio') ELSE chip
    BY ByteOperation
  <1>2. /\ step \in 0 .. 28 /\ pc \in {2, 5, 6, 7, 8, 9, 12}
        /\ step >= 26 => dio
        /\ acks \in 0 .. 7
    BY DEF BusTypeOK, Bytes, LevelsInv
  <1>3. CASE ~present
    <2>1. ~chip.ack /\ acks = 0
      BY <1>3 DEF AckInv
    <2>2. step = 27 => Wire(chip, dio)
      BY <1>2, <2>1 DEF Wire
    <2>3. acks' = 0 /\ ~chip'.ack /\ ~present'
      BY <1>1, <1>3, <2>1, <2>2
    <2> QED
      BY <2>3 DEF AckInv
  <1>4. CASE present
    <2>1. acks = BytesBefore(pc) + (IF step = 28 THEN 1 ELSE 0)
      BY <1>4 DEF AckInv
    <2>2. step = 27 => ~Wire(chip, dio)
      BY <1>4 DEF FrameInv, Wire
    <2>3. /\ BytesBefore(pc) \in 0 .. 6
          /\ BytesBefore(pc + 1) = BytesBefore(pc) + 1
      BY <1>2, BytesAre
    <2>4. acks' = BytesBefore(pc') + (IF pc' \in Bytes /\ step' = 28 THEN 1 ELSE 0)
      <3>1. CASE step < 27
        <4>1. step' # 28 /\ pc' = pc /\ acks' = acks
          BY <1>1, <1>2, <3>1
        <4> QED
          BY <2>1, <2>3, <3>1, <4>1
      <3>2. CASE step = 27
        <4>1. step' = 28 /\ pc' = pc /\ acks' = acks + 1
          BY <1>1, <2>2, <3>2
        <4> QED
          BY <2>1, <2>3, <3>2, <4>1
      <3>3. CASE step = 28
        <4>1. step' = 0 /\ pc' = pc + 1 /\ acks' = acks
          BY <1>1, <3>3
        <4> QED
          BY <2>1, <2>3, <3>3, <4>1
      <3> QED
        BY <1>2, <3>1, <3>2, <3>3
    <2>5. acks' \in 0 .. 7
      <3>1. CASE step < 27
        BY <1>1, <1>2, <3>1
      <3>2. CASE step = 27
        BY <1>1, <2>1, <2>3, <3>2
      <3>3. CASE step = 28
        BY <1>1, <1>2, <3>3
      <3> QED
        BY <1>2, <3>1, <3>2, <3>3
    <2> QED
      BY <1>1, <1>4, <2>4, <2>5 DEF AckInv
  <1> QED
    BY <1>3, <1>4, <1>1


LEMMA ByteFrame ==
    ASSUME BusInv, NextOperation, UNCHANGED segments, pc \in Bytes, present
    PROVE  FrameInv' /\ chip' \in Chip
  <1> USE DEF BusInv
  <1>1. /\ IF step < 28 THEN step' = step + 1 /\ pc' = pc
                        ELSE step' = 0 /\ pc' = pc + 1
    BY ByteOperation
  <1>2. /\ step \in 0 .. 28 /\ pc \in {2, 5, 6, 7, 8, 9, 12} /\ chip \in Chip
        /\ ByteOf(pc) \in 0 .. 255
    BY ByteType DEF BusTypeOK, Bytes
  <1>3. /\ chip.advance /\ (chip.ack => chip.active) /\ chip.value < 2^chip.count
        /\ step > 24 => chip.ack
        /\ ~(step > 24) => /\ chip.active /\ ~chip.ack /\ chip.count = step \div 3
                           /\ chip.value = ByteOf(pc) % 2^(step \div 3)
    BY DEF FrameInv, Receives
  <1>4. ASSUME step < 28,
               /\ chip' \in Chip /\ chip'.advance /\ (chip'.ack => chip'.active)
               /\ chip'.value < 2^chip'.count,
               IF step >= 24 THEN chip'.ack
               ELSE /\ chip'.active /\ ~chip'.ack /\ chip'.count = (step + 1) \div 3
                    /\ chip'.value = ByteOf(pc) % 2^((step + 1) \div 3)
                    /\ chip'.count = 8 => chip'.value >= 128 \/ (clk' /\ ~dio')
        PROVE  FrameInv' /\ chip' \in Chip
    <2>1. pc' = pc /\ step' = step + 1
      BY <1>1, <1>4
    <2>2. ByteOf(pc)' = ByteOf(pc)
      BY <2>1, SameByte, Zenon
    <2>3. pc' \in Bytes /\ pc' \notin Starts /\ pc' \notin Stops /\ pc' # 0
      BY <1>2, <2>1 DEF Bytes, Starts, Stops
    <2>4. step' > 24 <=> step >= 24
      BY <1>2, <2>1
    <2>5. IF step' > 24 THEN chip'.ack
          ELSE Receives(step \div 3)' /\ chip'.value = ByteOf(pc)' % 2^(step' \div 3)
      BY <1>4, <2>1, <2>2, <2>4 DEF Receives
    <2>6. Receives(8)' => chip'.value >= 128 \/ (clk' /\ ~dio')
      BY <1>4 DEF Receives
    <2> QED
      BY <1>4, <2>3, <2>5, <2>6 DEF FrameInv
  <1>5. CASE step < 24 /\ step % 3 # 2
    <2>1. chip' = chip
      BY <1>5, ByteSeen
    <2>2. (step + 1) \div 3 = step \div 3 /\ ~(step > 24) /\ ~(step >= 24) /\ step < 28
      BY <1>2, <1>5
    <2>3. step \div 3 # 8
      BY <1>2, <1>5
    <2> QED
      BY <1>2, <1>3, <1>4, <2>1, <2>2, <2>3
  <1>6. CASE step < 24 /\ step % 3 = 2
    <2>1. CanTakeBit(chip) /\ BitTaken(chip, BitOf(ByteOf(pc), step \div 3), chip')
      BY <1>6, ByteSeen
    <2> DEFINE k == step \div 3
    <2>2. /\ k \in 0 .. 7 /\ (step + 1) \div 3 = k + 1
          /\ ~(step > 24) /\ ~(step >= 24) /\ step < 28
      BY <1>2, <1>6
    <2> HIDE DEF k
    <2>3. ByteOf(pc) % 2^(k + 1) =
              (ByteOf(pc) % 2^k) + (IF BitOf(ByteOf(pc), k) THEN 2^k ELSE 0)
      BY <1>2, <2>2, BitAdds
    <2>4. chip.count = k /\ chip.value = ByteOf(pc) % 2^k /\ chip.value \in Nat
      BY <1>2, <1>3, <2>2 DEF k, Chip
    <2>5. chip'.value = ByteOf(pc) % 2^(k + 1)
      <3>1. CASE BitOf(ByteOf(pc), k)
        <4>1. chip'.value = chip.value + 2^k
          BY <2>1, <2>4, <3>1 DEF BitTaken, k
        <4> QED
          BY <2>3, <2>4, <3>1, <4>1
      <3>2. CASE ~BitOf(ByteOf(pc), k)
        <4>1. chip'.value = chip.value
          BY <2>1, <2>4, <3>2 DEF BitTaken, k
        <4> QED
          BY <2>3, <2>4, <3>2, <4>1
      <3> QED
        BY <3>1, <3>2
    <2>6. /\ chip' \in Chip /\ chip'.advance /\ ~chip'.ack /\ chip'.active
          /\ chip'.value < 2^chip'.count /\ chip'.count = k + 1
      BY <1>3, <2>1, <2>4 DEF BitTaken
    <2>7. chip'.count = 8 => chip'.value >= 128 \/ (clk' /\ ~dio')
      <3>1. clk' /\ (dio' <=> BitOf(ByteOf(pc), k))
        <4>1. clk' = TRUE /\ dio' = dio
          BY <1>6, ByteOperation
        <4>2. dio <=> BitOf(ByteOf(pc), k)
          BY <1>6 DEF LevelsInv, k
        <4> QED
          BY <4>1, <4>2
      <3>2. chip'.count = 8 /\ BitOf(ByteOf(pc), k) => chip'.value >= 128
        <4>1. chip'.count = 8 => k = 7
          BY <2>2, <2>6
        <4>2. BitOf(ByteOf(pc), k) => chip'.value = chip.value + 2^k
          BY <2>1, <2>4 DEF BitTaken, k
        <4> QED
          BY <2>4, <4>1, <4>2, Powers
      <3> QED
        BY <3>1, <3>2
    <2> QED
      BY <1>4, <2>2, <2>5, <2>6, <2>7
  <1>7. CASE step = 24
    <2>1. HasByte(chip) /\ (DigitTaken(chip, chip') \/ CommandTaken(chip, chip'))
      BY <1>7, ByteSeen
    <2>2. /\ chip' \in Chip /\ chip'.ack /\ chip'.active /\ chip'.count = 8
          /\ chip'.value = chip.value /\ chip'.advance
      BY <2>1 DEF DigitTaken, CommandTaken
    <2>3. chip'.value < 2^chip'.count
      <3>1. chip.value < 2^8 /\ chip.count = 8
        BY <1>3, <2>1 DEF HasByte
      <3> QED
        BY <2>2, <3>1
    <2>4. step < 28 /\ step >= 24
      BY <1>7
    <2> QED
      BY <1>4, <2>2, <2>3, <2>4
  <1>8. CASE step \in {25, 26, 27}
    <2>1. chip' = chip
      BY <1>8, ByteSeen
    <2>2. step > 24 /\ step >= 24 /\ step < 28
      BY <1>8
    <2> QED
      BY <1>2, <1>3, <1>4, <2>1, <2>2
  <1>9. CASE step = 28
    <2>1. AckEnded(chip, chip')
      BY <1>9, ByteSeen
    <2>2. /\ chip' \in Chip /\ chip'.advance /\ chip'.active /\ ~chip'.ack
          /\ chip'.count = 0 /\ chip'.value = 0
      BY <1>3, <2>1 DEF AckEnded
    <2>3. chip'.value < 2^chip'.count
      <3>1. 2^chip'.count = 1
        BY <2>2, Powers
      <3> QED
        BY <2>2, <3>1
    <2>4. step' = 0 /\ pc' \in {3, 6, 7, 8, 9, 10, 13}
      BY <1>1, <1>2, <1>9
    <2>5. ASSUME pc' \in Bytes
          PROVE  ByteOf(pc)' % 2^0 = 0
      <3>1. pc' \in 6 .. 9 /\ pc' - 5 \in 1 .. 4
        BY <2>4, <2>5 DEF Bytes
      <3>2. ByteOf(pc)' = segments'[pc' - 5]
        BY <3>1 DEF ByteOf
      <3>3. ByteOf(pc)' \in 0 .. 255
        BY <3>1, <3>2 DEF BusTypeOK
      <3> QED
        BY <3>3, Powers
    <2>6. Receives(0)' /\ step' \div 3 = 0 /\ ~(step' > 24) /\ step' # 3
      BY <2>2, <2>4 DEF Receives
    <2>7. pc' \in Bytes => Receives(step \div 3)' /\ chip'.value = ByteOf(pc)' % 2^(step' \div 3)
      BY <2>2, <2>5, <2>6
    <2>8. pc' \notin Starts /\ pc' # 0
      BY <2>4 DEF Starts
    <2>9. Receives(IF step = 3 THEN 1 ELSE 0)'
      BY <2>6
    <2>10. ~Receives(8)'
      BY <2>2 DEF Receives
    <2> QED
      BY <2>2, <2>3, <2>6, <2>7, <2>8, <2>9, <2>10 DEF FrameInv
  <1> QED
    BY <1>2, <1>5, <1>6, <1>7, <1>8, <1>9


LEMMA ByteContent ==
    ASSUME BusInv, NextOperation, UNCHANGED segments, pc \in Bytes, present
    PROVE  ContentInv'
  <1> USE DEF BusInv
  <1>1. /\ IF step < 28 THEN step' = step + 1 /\ pc' = pc
                        ELSE step' = 0 /\ pc' = pc + 1
        /\ synced' = synced
    BY ByteOperation
  <1>2. step \in 0 .. 28 /\ pc \in {2, 5, 6, 7, 8, 9, 12} /\ chip \in Chip
    BY DEF BusTypeOK, Bytes
  <1>3. /\ pc \in {2, 5, 12} /\ step <= 24 => chip.command \/ (pc = 2 /\ ~synced)
        /\ pc \in 6 .. 9 \/ (pc = 5 /\ step > 24) => ~chip.command /\ chip.address = Written
        /\ \A i \in 1 .. Written : chip.ram[i - 1] = segments[i]
        /\ pc = 12 /\ step > 24 => chip.on
    BY DEF ContentInv
  <1>4. ASSUME step # 24
        PROVE  /\ chip'.command = chip.command /\ chip'.address = chip.address
               /\ chip'.ram = chip.ram /\ chip'.on = chip.on
    <2>1. CASE step < 24 /\ step % 3 # 2
      <3>1. chip' = chip
        BY <2>1, ByteSeen
      <3> QED
        BY <3>1
    <2>2. CASE step < 24 /\ step % 3 = 2
      <3>1. BitTaken(chip, BitOf(ByteOf(pc), step \div 3), chip')
        BY <2>2, ByteSeen
      <3> QED
        BY <3>1 DEF BitTaken
    <2>3. CASE step \in {25, 26, 27}
      <3>1. chip' = chip
        BY <2>3, ByteSeen
      <3> QED
        BY <3>1
    <2>4. CASE step = 28
      <3>1. AckEnded(chip, chip')
        BY <2>4, ByteSeen
      <3> QED
        BY <3>1 DEF AckEnded
    <2> QED
      BY <1>2, <1>4, <2>1, <2>2, <2>3, <2>4
  <1>5. CASE step < 28 /\ step # 24
    <2>1. pc' = pc /\ (step' > 24 <=> step > 24) /\ (step' <= 24 => step <= 24)
      BY <1>1, <1>2, <1>5
    <2>2. Written' = Written
      BY <2>1 DEF Written, Boot
    <2>3. ~synced => ~synced'
      BY <1>1, Zenon
    <2>4. \A i \in 1 .. Written' : chip'.ram[i - 1] = segments'[i]
      BY <1>3, <1>4, <1>5, <2>2
    <2>5. pc' \notin {0, 13}
      BY <1>2, <2>1
    <2>6. pc' \in 6 .. 9 \/ (pc' = 5 /\ step' > 24) => ~chip'.command /\ chip'.address = Written'
      BY <1>3, <1>4, <1>5, <2>1, <2>2
    <2>7. pc' \in {2, 5, 12} /\ step' <= 24 => chip'.command \/ (pc' = 2 /\ ~synced')
      BY <1>3, <1>4, <1>5, <2>1, <2>3
    <2>8. pc' = 12 /\ step' > 24 => chip'.on
      BY <1>3, <1>4, <1>5, <2>1
    <2> QED
      BY <2>4, <2>5, <2>6, <2>7, <2>8 DEF ContentInv
  <1>6. CASE step = 24
    <2>1. /\ HasByte(chip) /\ chip.value = ByteOf(pc)
          /\ \/ ~chip.command /\ (pc \in 6 .. 9 \/ (pc = 2 /\ ~synced))
                  /\ DigitTaken(chip, chip')
             \/ chip.command /\ pc \in {2, 5, 12} /\ CommandTaken(chip, chip')
      BY <1>6, ByteSeen
    <2>2. pc' = pc /\ step' = 25
      BY <1>1, <1>6
    <2>3. pc' \notin {0, 13} /\ ~(step' <= 24)
      BY <1>2, <2>2
    <2>4. CASE pc = 2
      <3>1. Written' = 0
        BY <2>2, <2>4 DEF Written, Boot
      <3> QED
        BY <2>2, <2>3, <2>4, <3>1 DEF ContentInv
    <2>5. CASE pc = 5
      <3>1. CommandTaken(chip, chip') /\ ByteOf(pc) = 192
        BY <2>1, <2>5 DEF ByteOf
      <3>2. ~chip'.command /\ chip'.address = 0
        BY <2>1, <3>1 DEF CommandTaken
      <3>3. Written' = 0
        BY <2>2, <2>5 DEF Written, Boot
      <3> QED
        BY <2>2, <2>3, <2>5, <3>2, <3>3 DEF ContentInv
    <2>6. CASE pc = 12
      <3>1. CommandTaken(chip, chip') /\ ByteOf(pc) = 136 + (Brightness % 8)
        BY <2>1, <2>6 DEF ByteOf
      <3>2. ByteOf(pc) \in 136 .. 143
        <4>1. Brightness % 8 \in 0 .. 7
          BY BusAssumption
        <4> QED
          BY <3>1, <4>1
      <3>3. chip'.on /\ chip'.ram = chip.ram
        BY <2>1, <3>1, <3>2 DEF CommandTaken
      <3>4. Written' = 4 /\ Written = 4
        BY <2>2, <2>6 DEF Written, Boot
      <3>5. \A i \in 1 .. Written' : chip'.ram[i - 1] = segments'[i]
        BY <1>3, <3>3, <3>4
      <3> QED
        BY <2>2, <2>3, <2>6, <3>3, <3>5 DEF ContentInv
    <2>7. CASE pc \in 6 .. 9
      <3>1. DigitTaken(chip, chip') /\ ByteOf(pc) = segments[pc - 5]
        BY <2>1, <2>7 DEF ByteOf
      <3>2. Written = pc - 6 /\ Written' = pc - 5 /\ chip.address = pc - 6
        BY <1>3, <1>6, <2>2, <2>7 DEF Written, Boot
      <3>3. /\ ~chip'.command
            /\ chip'.ram = [chip.ram EXCEPT ![pc - 6] = segments[pc - 5]]
            /\ chip'.address = pc - 5
        <4>1. (chip.address + 1) % 6 = pc - 5
          BY <2>7, <3>2
        <4> QED
          BY <2>1, <3>1, <3>2, <4>1 DEF DigitTaken
      <3>4. chip.ram \in [0 .. 5 -> 0 .. 255]
        BY <1>2 DEF Chip
      <3>5. ASSUME NEW i \in 1 .. Written'
            PROVE  chip'.ram[i - 1] = segments'[i]
        <4>1. i \in 1 .. pc - 5 /\ i - 1 \in 0 .. 5 /\ pc - 6 \in 0 .. 5
          BY <2>7, <3>2, <3>5
        <4>2. CASE i = pc - 5
          <5>1. i - 1 = pc - 6
            BY <2>7, <4>2
          <5> QED
            BY <3>3, <3>4, <4>1, <4>2, <5>1
        <4>3. CASE i # pc - 5
          <5>1. i - 1 # pc - 6 /\ i \in 1 .. Written
            BY <2>7, <3>2, <4>1, <4>3
          <5>2. chip'.ram[i - 1] = chip.ram[i - 1]
            BY <3>3, <3>4, <4>1, <5>1
          <5> QED
            BY <1>3, <5>1, <5>2
        <4> QED
          BY <4>2, <4>3
      <3>6. pc' \notin {2, 5, 12}
        BY <2>2, <2>7
      <3> QED
        BY <2>3, <3>2, <3>3, <3>5, <3>6 DEF ContentInv
    <2> QED
      BY <1>2, <2>4, <2>5, <2>6, <2>7
  <1>7. CASE step = 28
    <2>1. pc' = pc + 1 /\ step' = 0 /\ pc' \in {3, 6, 7, 8, 9, 10, 13}
      BY <1>1, <1>2, <1>7
    <2>2. step # 24 /\ step > 24
      BY <1>7
    <2>3. Written' = Written
      BY <1>2, <2>1, <2>2 DEF Written, Boot
    <2>4. \A i \in 1 .. Written' : chip'.ram[i - 1] = segments'[i]
      BY <1>3, <1>4, <2>2, <2>3
    <2>5. pc' \in 6 .. 9 => ~chip'.command /\ chip'.address = Written'
      <3>1. pc' \in 6 .. 9 => pc \in 6 .. 9 \/ pc = 5
        BY <1>2, <2>1
      <3> QED
        BY <1>3, <1>4, <2>2, <2>3, <3>1
    <2>6. pc' \in {0, 13} => chip'.on
      <3>1. pc' \in {0, 13} => pc = 12
        BY <1>2, <2>1
      <3> QED
        BY <1>3, <1>4, <2>2, <3>1
    <2>7. pc' \notin {2, 5, 12}
      BY <2>1
    <2> QED
      BY <2>1, <2>4, <2>5, <2>6, <2>7 DEF ContentInv
  <1> QED
    BY <1>2, <1>5, <1>6, <1>7

LEMMA ByteKeeps ==
    ASSUME BusInv, NextOperation, UNCHANGED segments, pc \in Bytes
    PROVE  BusInv'
  <1>1. /\ UNCHANGED <<present, synced>>
        /\ IF step < 28 THEN step' = step + 1 /\ pc' = pc
                        ELSE step' = 0 /\ pc' = pc + 1
        /\ chip' = IF present THEN Sees(chip, clk, clk', dio, dio') ELSE chip
    BY ByteOperation DEF BusInv
  <1>2. LevelsInv' /\ clk' \in BOOLEAN /\ dio' \in BOOLEAN
    BY ByteLevels DEF BusInv
  <1>3. AckInv' /\ acks' \in 0 .. 7
    BY ByteAcks
  <1>4. present => FrameInv' /\ ContentInv' /\ chip' \in Chip
    BY ByteFrame, ByteContent
  <1>5. chip' \in Chip
    BY <1>1, <1>4 DEF BusInv, BusTypeOK
  <1>6. BusTypeOK'
    <2>1. pc' \in 0 .. Boot /\ step' \in 0 .. 28
      BY <1>1 DEF BusInv, BusTypeOK, Bytes, Boot
    <2> QED
      BY <1>1, <1>2, <1>3, <1>5, <2>1 DEF BusInv, BusTypeOK
  <1> QED
    BY <1>1, <1>2, <1>3, <1>4, <1>6 DEF BusInv


(* What holds of the chip whatever transfer it is in; nothing is stored    *)
(* while CLK does not fall.                                                *)
Sound(c) == c \in Chip /\ c.advance /\ (c.ack => c.active) /\ c.value < 2^c.count

LEMMA RiseStoresNothing ==
    ASSUME NEW c, Sound(c), NEW k \in BOOLEAN, NEW d \in BOOLEAN, NEW e \in BOOLEAN
    PROVE  /\ Sound(Sees(c, k, TRUE, d, e))
           /\ Sees(c, k, TRUE, d, e).ram = c.ram
  <1>1. c \in Chip
    BY DEF Sound
  <1> DEFINE r == Sees(c, k, TRUE, d, e)
  <1>2. CASE k /\ ~c.ack /\ d /\ ~e
    <2>1. k = TRUE /\ d = TRUE /\ e = FALSE
      BY <1>2, Zenon
    <2> DEFINE q == Sees(c, TRUE, TRUE, TRUE, FALSE)
    <2>2. r = q
      BY <2>1
    <2>3. /\ q \in Chip
          /\ q.active /\ ~q.ack /\ q.count = 0 /\ q.value = 0 /\ q.command
          /\ q.advance = c.advance /\ q.ram = c.ram /\ q.on = c.on
      BY <1>1, <1>2, SeesStart, Zenon
    <2> HIDE DEF q, r
    <2>4. 2^q.count = 1
      BY <2>3, Powers
    <2>5. Sound(q) /\ q.ram = c.ram
      BY <2>3, <2>4 DEF Sound
    <2>6. Sound(r) /\ r.ram = c.ram
      BY <2>2, <2>5
    <2> QED
      BY <2>6 DEF r
  <1>3. CASE k /\ ~c.ack /\ ~d /\ e
    <2>1. k = TRUE /\ d = FALSE /\ e = TRUE
      BY <1>3, Zenon
    <2> DEFINE q == Sees(c, TRUE, TRUE, FALSE, TRUE)
    <2>2. r = q
      BY <2>1
    <2>3. /\ q \in Chip
          /\ ~q.active /\ ~q.ack /\ q.count = 0 /\ q.value = 0
          /\ q.advance = c.advance /\ q.ram = c.ram /\ q.on = c.on
      BY <1>1, <1>3, SeesStop, Zenon
    <2> HIDE DEF q, r
    <2>4. 2^q.count = 1
      BY <2>3, Powers
    <2>5. Sound(q) /\ q.ram = c.ram
      BY <2>3, <2>4 DEF Sound
    <2>6. Sound(r) /\ r.ram = c.ram
      BY <2>2, <2>5
    <2> QED
      BY <2>6 DEF r
  <1>4. CASE ~k /\ c.active /\ ~c.ack /\ c.count # 8
    <2>1. k = FALSE
      BY <1>4, Zenon
    <2>2. CanTakeBit(c)
      BY <1>1, <1>4 DEF CanTakeBit, Sound, Chip
    <2>3. BitTaken(c, e, r)
      BY <1>1, <2>1, <2>2, SeesBit, Zenon
    <2> HIDE DEF r
    <2>4. Sound(r) /\ r.ram = c.ram
      BY <2>3 DEF Sound, BitTaken
    <2> QED
      BY <2>4 DEF r
  <1>5. CASE (k /\ (d = e \/ c.ack)) \/ (~k /\ (~c.active \/ c.ack \/ c.count = 8))
    <2>1. r = c
      BY <1>1, <1>5, SeesNothing, Zenon
    <2> QED
      BY <2>1
  <1>6. (d /\ ~e) \/ (~d /\ e) \/ d = e
    <2>1. (d <=> e) => d = e
      OBVIOUS
    <2> QED
      BY <2>1
  <1> QED
    BY <1>2, <1>3, <1>4, <1>5, <1>6, Zenon

(* A byte that is complete while CLK is high, but not yet taken, has a one *)
(* for its last bit, or DIO is low and about to give the byte up.          *)
EndsWithOne(c, k, d) ==
    c.active /\ ~c.ack /\ c.count = 8 => c.value >= 128 \/ (k /\ ~d)

LEMMA RiseEndsWithOne ==
    ASSUME NEW c, Sound(c), NEW k \in BOOLEAN, NEW d \in BOOLEAN, NEW e \in BOOLEAN,
           EndsWithOne(c, k, d)
    PROVE  EndsWithOne(Sees(c, k, TRUE, d, e), TRUE, e)
  <1> DEFINE r == Sees(c, k, TRUE, d, e)
  <1>1. c \in Chip
    BY DEF Sound
  <1>2. CASE k /\ ~c.ack /\ d /\ ~e
    BY <1>2 DEF EndsWithOne
  <1>3. CASE k /\ ~c.ack /\ ~d /\ e
    <2>1. r = Sees(c, TRUE, TRUE, FALSE, TRUE)
      <3>1. k = TRUE /\ d = FALSE /\ e = TRUE
        BY <1>3, Zenon
      <3> QED
        BY <3>1
    <2>2. ~r.active
      BY <1>1, <1>3, <2>1, SeesStop, Zenon
    <2> HIDE DEF r
    <2>3. EndsWithOne(r, TRUE, e)
      BY <2>2 DEF EndsWithOne
    <2> QED
      BY <2>3 DEF r
  <1>4. CASE ~k /\ c.active /\ ~c.ack /\ c.count # 8
    <2>1. k = FALSE
      BY <1>4, Zenon
    <2>2. CanTakeBit(c)
      BY <1>1, <1>4 DEF CanTakeBit, Sound, Chip
    <2>3. BitTaken(c, e, r)
      BY <1>1, <2>1, <2>2, SeesBit, Zenon
    <2> HIDE DEF r
    <2>4. EndsWithOne(r, TRUE, e)
      <3>1. c.count \in 0 .. 7 /\ c.value \in Nat
        BY <1>1 , <2>2 DEF CanTakeBit, Chip
      <3>2. r.count = 8 => c.count = 7
        BY <2>3, <3>1 DEF BitTaken
      <3>3. ASSUME e, r.count = 8 PROVE r.value >= 128
        <4>1. r.value = c.value + 2^c.count
          BY <2>3, <3>3 DEF BitTaken
        <4>2. 2^c.count = 128
          <5>1. c.count = 7
            BY <3>2, <3>3
          <5> QED
            BY <5>1, Powers
        <4> QED
          BY <3>1, <4>1, <4>2
      <3> QED
        BY <3>3 DEF EndsWithOne
    <2> QED
      BY <2>4 DEF r
  <1>5. CASE (k /\ (d = e \/ c.ack)) \/ (~k /\ (~c.active \/ c.ack \/ c.count = 8))
    <2>1. r = c
      BY <1>1, <1>5, SeesNothing, Zenon
    <2>2. EndsWithOne(c, TRUE, e)
      BY <1>5 DEF EndsWithOne
    <2> HIDE DEF r
    <2>3. EndsWithOne(r, TRUE, e)
      BY <2>1, <2>2
    <2> QED
      BY <2>3 DEF r
  <1>6. (d /\ ~e) \/ (~d /\ e) \/ d = e
    <2>1. (d <=> e) => d = e
      OBVIOUS
    <2> QED
      BY <2>1
  <1> QED
    BY <1>2, <1>3, <1>4, <1>5, <1>6, Zenon

LEMMA ResetStoresNothing ==
    ASSUME BusInv, Reset
    PROVE  /\ chip' \in Chip
           /\ present => /\ Sound(chip') /\ chip'.ram = chip.ram
                         /\ EndsWithOne(chip', TRUE, TRUE)
           /\ ~present => chip' = chip
  <1>1. /\ chip \in Chip /\ clk \in BOOLEAN /\ dio \in BOOLEAN
        /\ chip' \in IF present THEN {ClkRisesFirst, DioRisesFirst} ELSE {chip}
    BY DEF BusInv, BusTypeOK, Reset
  <1>2. present => Sound(chip) /\ EndsWithOne(chip, clk, dio)
    BY DEF BusInv, BusTypeOK, FrameInv, Sound, EndsWithOne, Receives
  <1>3. ASSUME present
        PROVE  /\ Sound(ClkRisesFirst) /\ ClkRisesFirst.ram = chip.ram
               /\ EndsWithOne(ClkRisesFirst, TRUE, TRUE)
    <2> DEFINE c1 == Sees(chip, clk, TRUE, dio, dio)
               c2 == Sees(c1, TRUE, TRUE, dio, TRUE)
    <2>0. TRUE \in BOOLEAN
      OBVIOUS
    <2>1. Sound(c1) /\ c1.ram = chip.ram /\ EndsWithOne(c1, TRUE, dio)
      BY <1>1, <1>2, <1>3, RiseStoresNothing, RiseEndsWithOne, Zenon
    <2> HIDE DEF c1
    <2>2. Sound(c2) /\ c2.ram = c1.ram /\ EndsWithOne(c2, TRUE, TRUE)
      BY <1>1, <2>0, <2>1, RiseStoresNothing, RiseEndsWithOne, Zenon
    <2>3. ClkRisesFirst = c2
      BY DEF ClkRisesFirst, c1
    <2> HIDE DEF c2
    <2> QED
      BY <2>1, <2>2, <2>3
  <1>4. ASSUME present
        PROVE  /\ Sound(DioRisesFirst) /\ DioRisesFirst.ram = chip.ram
               /\ EndsWithOne(DioRisesFirst, TRUE, TRUE)
    <2> DEFINE c1 == Sees(chip, clk, clk, dio, TRUE)
               c2 == Sees(c1, clk, TRUE, TRUE, TRUE)
    <2>0. TRUE \in BOOLEAN
      OBVIOUS
    <2>1. Sound(c1) /\ c1.ram = chip.ram /\ EndsWithOne(c1, clk, TRUE)
      <3>1. CASE clk
        <4> DEFINE q == Sees(chip, clk, TRUE, dio, TRUE)
        <4>1. clk = TRUE
          BY <1>1, <3>1, Zenon
        <4>2. c1 = q
          BY <4>1
        <4>3. Sound(q) /\ q.ram = chip.ram /\ EndsWithOne(q, TRUE, TRUE)
          <5>1. Sound(chip) /\ EndsWithOne(chip, clk, dio)
            BY <1>2, <1>4
          <5> QED
            BY <1>1, <2>0, <5>1, RiseStoresNothing, RiseEndsWithOne, Zenon
        <4> HIDE DEF c1, q
        <4> QED
          BY <4>1, <4>2, <4>3
      <3>2. CASE ~clk
        <4>1. c1 = chip
          BY <1>1, <3>2, SeesNothing, Zenon
        <4>2. EndsWithOne(chip, clk, TRUE)
          BY <1>2, <1>4, <3>2 DEF EndsWithOne
        <4> HIDE DEF c1
        <4> QED
          BY <1>2, <1>4, <4>1, <4>2
      <3> QED
        BY <3>1, <3>2
    <2> HIDE DEF c1
    <2>2. Sound(c2) /\ c2.ram = c1.ram /\ EndsWithOne(c2, TRUE, TRUE)
      BY <1>1, <2>0, <2>1, RiseStoresNothing, RiseEndsWithOne, Zenon
    <2>3. DioRisesFirst = c2
      BY DEF DioRisesFirst, c1
    <2> HIDE DEF c2
    <2> QED
      BY <2>1, <2>2, <2>3
  <1>5. CASE present
    <2>1. chip' = ClkRisesFirst \/ chip' = DioRisesFirst
      BY <1>1, <1>5
    <2>2. Sound(chip') /\ chip'.ram = chip.ram /\ EndsWithOne(chip', TRUE, TRUE)
      BY <1>3, <1>4, <1>5, <2>1
    <2> QED
      BY <1>5, <2>2 DEF Sound
  <1>6. CASE ~present
    BY <1>1, <1>6
  <1> QED
    BY <1>5, <1>6

LEMMA ResetKeeps ==
    ASSUME BusInv, Reset, segments' \in [1 .. 4 -> 0 .. 255]
    PROVE  BusInv'
  <1>1. /\ clk' = TRUE /\ dio' = TRUE /\ acks' = 0 /\ pc' = Boot /\ step' = 0
        /\ synced' = FALSE /\ present' = present
    BY DEF Reset
  <1>2. /\ chip' \in Chip
        /\ present => Sound(chip') /\ EndsWithOne(chip', TRUE, TRUE)
        /\ ~present => chip' = chip
    BY ResetStoresNothing
  <1>3. BusTypeOK'
    <2>1. clk' \in BOOLEAN /\ dio' \in BOOLEAN /\ synced' \in BOOLEAN
      BY <1>1, Zenon
    <2> QED
      BY <1>1, <1>2, <2>1 DEF BusTypeOK, BusInv, Boot
  <1>4. LevelsInv'
    BY <1>1 DEF LevelsInv, Starts, Stops, Bytes, Boot
  <1>5. present' => FrameInv'
    BY <1>1, <1>2 DEF FrameInv, Sound, EndsWithOne, Receives, Starts, Stops, Bytes, Boot
  <1>6. ContentInv'
    BY <1>1 DEF ContentInv, Written, Boot
  <1>7. AckInv'
    <2>1. BytesBefore(pc') = 0 /\ step' # 28
      BY <1>1, BytesAre
    <2>2. ~present => ~chip.ack
      BY DEF BusInv, AckInv
    <2> QED
      BY <1>1, <1>2, <2>1, <2>2 DEF AckInv
  <1> QED
    BY <1>3, <1>4, <1>5, <1>6, <1>7 DEF BusInv

LEMMA CallKeeps ==
    ASSUME BusInv, Call, segments' \in [1 .. 4 -> 0 .. 255]
    PROVE  BusInv'
  <1>1. pc = 0 /\ pc' = 1 /\ acks' = 0 /\ UNCHANGED <<step, clk, dio, chip, present, synced>>
    BY DEF Call
  <1>2. step = 0 /\ clk /\ dio
    BY <1>1 DEF BusInv, LevelsInv
  <1>3. BusTypeOK'
    BY <1>1 DEF BusTypeOK, BusInv, Boot
  <1>4. LevelsInv'
    BY <1>1, <1>2 DEF LevelsInv, Starts, Stops, Bytes, Boot
  <1>5. present' => FrameInv'
    BY <1>1, <1>2 DEF BusInv, FrameInv, Receives, Starts, Stops, Bytes
  <1>6. ContentInv'
    BY <1>1, <1>2 DEF ContentInv, Written, Boot
  <1>7. AckInv'
    <2>1. BytesBefore(pc') = 0 /\ step' # 28
      BY <1>1, <1>2, BytesAre
    <2> QED
      BY <1>1, <2>1 DEF AckInv, BusInv
  <1> QED
    BY <1>3, <1>4, <1>5, <1>6, <1>7 DEF BusInv

(***************************************************************************)
(* The pulse of Board_InitGpio.  Its first falling CLK takes a byte that   *)
(* the floating pins completed, and its end ends the transfer.             *)
(***************************************************************************)
LEMMA TakesHighCommand ==
    ASSUME NEW c \in Chip, c.command, c.advance, c.value >= 128
    PROVE  LET r == TakeByte(c)
           IN  /\ r \in Chip
               /\ r.active = c.active /\ r.count = c.count /\ r.value = c.value
               /\ r.advance /\ r.ram = c.ram
  <1> DEFINE d == [c EXCEPT !.command = FALSE]
  <1>1. d \in Chip
    BY FlagSet
  <1>2. /\ d.active = c.active /\ d.count = c.count /\ d.value = c.value
        /\ d.advance /\ d.ram = c.ram
    BY DEF Chip
  <1>3. c.value \in 0 .. 255
    BY DEF Chip
  <1>4. TakeByte(c) = IF c.value >= 192 THEN [d EXCEPT !.address = (c.value - 192) % 6]
                      ELSE [d EXCEPT !.on = BitOf(c.value, 3)]
    BY <1>3 DEF TakeByte
  <1> HIDE DEF d
  <1>5. CASE c.value >= 192
    <2> DEFINE a == (c.value - 192) % 6
               r == [d EXCEPT !.address = a]
    <2>1. TakeByte(c) = r
      BY <1>4, <1>5
    <2>2. a \in 0 .. 5
      BY <1>3, <1>5
    <2> HIDE DEF a
    <2>3. r \in Chip
      BY <1>1, <2>2, AddressSet
    <2>4. /\ r.active = d.active /\ r.count = d.count /\ r.value = d.value
          /\ r.advance = d.advance /\ r.ram = d.ram
      BY <1>1 DEF Chip
    <2> HIDE DEF r
    <2> QED
      BY <1>2, <2>1, <2>3, <2>4
  <1>6. CASE ~(c.value >= 192)
    <2> DEFINE b == BitOf(c.value, 3)
               r == [d EXCEPT !.on = b]
    <2>1. TakeByte(c) = r
      BY <1>4, <1>6
    <2>2. b \in BOOLEAN
      BY DEF BitOf
    <2> HIDE DEF b
    <2>3. r \in Chip
      BY <1>1, <2>2, FlagSet
    <2>4. /\ r.active = d.active /\ r.count = d.count /\ r.value = d.value
          /\ r.advance = d.advance /\ r.ram = d.ram
      BY <1>1 DEF Chip
    <2> HIDE DEF r
    <2> QED
      BY <1>2, <2>1, <2>3, <2>4
  <1> QED
    BY <1>5, <1>6

LEMMA BootOperation ==
    ASSUME BusTypeOK, LevelsInv, NextOperation, pc = Boot
    PROVE  /\ UNCHANGED <<present, acks, synced>> /\ ~synced
           /\ step = 0 \/ step = 1 \/ step = 2 \/ step = 3
           /\ IF step < 3 THEN step' = step + 1 /\ pc' = pc ELSE step' = 0 /\ pc' = 1
           /\ chip' = IF present THEN Sees(chip, clk, clk', dio, dio') ELSE chip
           /\ step = 0 => clk = TRUE /\ clk' = FALSE /\ dio = TRUE /\ dio' = TRUE
           /\ step = 1 => clk = FALSE /\ clk' = FALSE /\ dio = TRUE /\ dio' = FALSE
           /\ step = 2 => clk = FALSE /\ clk' = TRUE /\ dio = FALSE /\ dio' = FALSE
           /\ step = 3 => clk = TRUE /\ clk' = TRUE /\ dio = FALSE /\ dio' = TRUE
  <1> DEFINE op == Board_InitGpio[step + 1]
  <1>1. step = 0 \/ step = 1 \/ step = 2 \/ step = 3
    BY DEF LevelsInv, BusTypeOK
  <1>2. /\ ~synced
        /\ step \in {0, 3} => clk /\ clk = TRUE
        /\ step \notin {0, 3} => ~clk /\ clk = FALSE
        /\ step <= 1 => dio /\ dio = TRUE
        /\ ~(step <= 1) => ~dio /\ dio = FALSE
    <2>1. /\ clk \in BOOLEAN /\ dio \in BOOLEAN /\ ~synced
          /\ clk <=> step \in {0, 3}
          /\ dio <=> step <= 1
      BY DEF LevelsInv, BusTypeOK
    <2> QED
      BY <2>1, Zenon
  <1>3. LastPart # Boot /\ Len(Board_InitGpio) = 4 /\ PartAfter(Boot) = 1 /\ Boot # 0
    BY DEF LastPart, Script, Boot, Board_InitGpio, PartAfter
  <1>4. /\ Operate(op) /\ UNCHANGED present
        /\ step + 1 < 4 => step' = step + 1 /\ pc' = pc /\ synced' = synced
        /\ ~(step + 1 < 4) => /\ step' = 0 /\ pc' = PartAfter(pc)
                              /\ synced' = (synced \/ pc = LastPart)
    BY <1>3, Zenon DEF NextOperation
  <1>5. synced' = synced
    <2>1. CASE step + 1 < 4
      BY <1>4, <2>1
    <2>2. CASE ~(step + 1 < 4)
      <3>1. synced' = (synced \/ FALSE) /\ synced \in BOOLEAN
        BY <1>3, <1>4, <2>2 DEF BusTypeOK
      <3> QED
        BY <3>1, Zenon
    <2> QED
      BY <2>1, <2>2
  <1>6. IF step < 3 THEN step' = step + 1 /\ pc' = pc ELSE step' = 0 /\ pc' = 1
    BY <1>1, <1>3, <1>4
  <1>7. /\ clk' = IF op[1] = "clk" THEN op[2] ELSE clk
        /\ dio' = IF op[1] = "dio" THEN op[2] ELSE dio
        /\ acks' = IF op[1] = "ack" /\ ~Wire(chip, dio) THEN acks + 1 ELSE acks
        /\ chip' = IF present THEN Sees(chip, clk, clk', dio, dio') ELSE chip
    BY <1>4 DEF Operate
  <1>8. /\ step = 0 => op = Clk(FALSE)
        /\ step = 1 => op = Dio(FALSE)
        /\ step = 2 => op = Clk(TRUE)
        /\ step = 3 => op = Dio(TRUE)
    <2>1. /\ Board_InitGpio[1] = Clk(FALSE) /\ Board_InitGpio[2] = Dio(FALSE)
          /\ Board_InitGpio[3] = Clk(TRUE) /\ Board_InitGpio[4] = Dio(TRUE)
      BY DEF Board_InitGpio
    <2>2. /\ step = 0 => step + 1 = 1
          /\ step = 1 => step + 1 = 2
          /\ step = 2 => step + 1 = 3
          /\ step = 3 => step + 1 = 4
      OBVIOUS
    <2> QED
      BY <2>1, <2>2
  <1> HIDE DEF op
  <1>9. /\ step = 0 => clk' = FALSE /\ dio' = dio /\ acks' = acks
        /\ step = 1 => clk' = clk /\ dio' = FALSE /\ acks' = acks
        /\ step = 2 => clk' = TRUE /\ dio' = dio /\ acks' = acks
        /\ step = 3 => clk' = clk /\ dio' = TRUE /\ acks' = acks
    <2>1. ASSUME NEW l \in BOOLEAN, op = Clk(l)
          PROVE  clk' = l /\ dio' = dio /\ acks' = acks
      BY <1>7, <2>1 DEF Clk
    <2>2. ASSUME NEW l \in BOOLEAN, op = Dio(l)
          PROVE  clk' = clk /\ dio' = l /\ acks' = acks
      BY <1>7, <2>2 DEF Dio
    <2> QED
      BY <1>8, <2>1, <2>2
  <1>10. /\ step = 0 => clk = TRUE /\ clk' = FALSE /\ dio = TRUE /\ dio' = TRUE
         /\ step = 1 => clk = FALSE /\ clk' = FALSE /\ dio = TRUE /\ dio' = FALSE
         /\ step = 2 => clk = FALSE /\ clk' = TRUE /\ dio = FALSE /\ dio' = FALSE
         /\ step = 3 => clk = TRUE /\ clk' = TRUE /\ dio = FALSE /\ dio' = TRUE
    BY <1>2, <1>9
  <1>11. acks' = acks
    BY <1>1, <1>9
  <1> QED
    BY <1>1, <1>2, <1>4, <1>5, <1>6, <1>7, <1>10, <1>11

(* What the chip makes of it. *)
StoredByPulse(c, r) ==
    c.value >= 128 /\ r.ram = [c.ram EXCEPT ![c.address] = c.value]

LEMMA BootSeen ==
    ASSUME BusInv, NextOperation, pc = Boot, present
    PROVE  /\ Sound(chip') /\ EndsWithOne(chip', clk', dio')
           /\ step = 3 => ~chip'.active \/ chip'.ack
           /\ chip'.ram = chip.ram \/ StoredByPulse(chip, chip')
  <1>1. /\ step = 0 \/ step = 1 \/ step = 2 \/ step = 3
        /\ chip' = Sees(chip, clk, clk', dio, dio')
        /\ step = 0 => clk = TRUE /\ clk' = FALSE /\ dio = TRUE /\ dio' = TRUE
        /\ step = 1 => clk = FALSE /\ clk' = FALSE /\ dio = TRUE /\ dio' = FALSE
        /\ step = 2 => clk = FALSE /\ clk' = TRUE /\ dio = FALSE /\ dio' = FALSE
        /\ step = 3 => clk = TRUE /\ clk' = TRUE /\ dio = FALSE /\ dio' = TRUE
    BY BootOperation DEF BusInv
  <1>2. Sound(chip) /\ chip \in Chip /\ EndsWithOne(chip, clk, dio)
    BY DEF BusInv, BusTypeOK, FrameInv, Sound, EndsWithOne, Receives
  <1>3. TRUE \in BOOLEAN /\ FALSE \in BOOLEAN
    OBVIOUS
  <1>4. CASE step = 0
    <2>1. chip' = Sees(chip, TRUE, FALSE, TRUE, TRUE) /\ dio' = TRUE /\ clk' = FALSE
      BY <1>1, <1>4
    <2>2. CASE ~chip.active \/ (~chip.ack /\ chip.count # 8)
      <3>1. chip' = chip
        BY <1>2, <1>3, <2>1, <2>2, SeesNothing, Zenon
      <3>2. EndsWithOne(chip', clk', dio')
        BY <2>2, <3>1 DEF EndsWithOne
      <3> QED
        BY <1>2, <1>4, <3>1, <3>2
    <2>3. CASE chip.active /\ chip.ack
      <3>1. AckEnded(chip, chip')
        BY <1>2, <2>1, <2>3, SeesEndOfAck, Zenon
      <3>2. 2^chip'.count = 1
        BY <3>1, Powers DEF AckEnded
      <3> QED
        BY <1>2, <1>4, <3>1, <3>2 DEF AckEnded, Sound, EndsWithOne
    <2>4. CASE chip.active /\ ~chip.ack /\ chip.count = 8
      <3>1. chip.value >= 128 /\ HasByte(chip) /\ chip.value < 2^8
        BY <1>1, <1>2, <1>4, <2>4 DEF EndsWithOne, HasByte, Sound
      <3>2. /\ chip' \in Chip
            /\ chip'.ack /\ chip'.active /\ chip'.count = 8 /\ chip'.value = chip.value
            /\ chip'.advance
            /\ chip'.ram = chip.ram \/ chip'.ram = [chip.ram EXCEPT ![chip.address] = chip.value]
        <4>1. CASE chip.command
          <5> DEFINE q == TakeByte(chip)
          <5>1. /\ q \in Chip
                /\ q.active = chip.active /\ q.count = chip.count /\ q.value = chip.value
                /\ q.advance /\ q.ram = chip.ram
            BY <1>2, <3>1, <4>1, TakesHighCommand, Zenon DEF HasByte
          <5>2. /\ chip' \in Chip
                /\ chip'.ack /\ chip'.active = q.active /\ chip'.count = q.count
                /\ chip'.value = q.value /\ chip'.advance = q.advance /\ chip'.ram = q.ram
            BY <1>2, <1>3, <2>1, <2>4, <5>1, SeesByte, Zenon
          <5> HIDE DEF q
          <5> QED
            BY <2>4, <5>1, <5>2
        <4>2. CASE ~chip.command
          <5>1. DigitTaken(chip, chip')
            BY <1>2, <1>3, <2>1, <3>1, <4>2, SeesDigit, Zenon
          <5> QED
            BY <5>1 DEF DigitTaken
        <4> QED
          BY <4>1, <4>2
      <3>3. Sound(chip') /\ EndsWithOne(chip', clk', dio')
        BY <3>1, <3>2 DEF Sound, EndsWithOne
      <3> QED
        BY <1>4, <3>1, <3>2, <3>3 DEF StoredByPulse
    <2> QED
      BY <2>2, <2>3, <2>4
  <1>5. CASE step = 1
    <2>1. chip' = Sees(chip, FALSE, FALSE, TRUE, FALSE) /\ clk' = FALSE
      BY <1>1, <1>5
    <2>2. chip' = chip
      BY <1>2, <1>3, <2>1, SeesNothing, Zenon
    <2>3. EndsWithOne(chip', clk', dio')
      BY <1>1, <1>2, <1>5, <2>2 DEF EndsWithOne
    <2> QED
      BY <1>2, <1>5, <2>2, <2>3
  <1>6. CASE step \in {2, 3}
    <2> DEFINE q == Sees(chip, clk, TRUE, dio, dio')
    <2>1. /\ clk' = TRUE /\ chip' = q
          /\ clk \in BOOLEAN /\ dio \in BOOLEAN /\ dio' \in BOOLEAN
      BY <1>1, <1>3, <1>6
    <2>2. Sound(q) /\ q.ram = chip.ram /\ EndsWithOne(q, TRUE, dio')
      BY <1>2, <2>1, RiseStoresNothing, RiseEndsWithOne, Zenon
    <2> HIDE DEF q
    <2>3. Sound(chip') /\ chip'.ram = chip.ram /\ EndsWithOne(chip', clk', dio')
      BY <2>1, <2>2
    <2>4. ASSUME step = 3 PROVE ~chip'.active \/ chip'.ack
      <3>1. chip' = Sees(chip, TRUE, TRUE, FALSE, TRUE)
        BY <1>1, <2>4
      <3>2. CASE chip.ack
        <4>1. chip' = chip
          BY <1>2, <1>3, <3>1, <3>2, SeesNothing, Zenon
        <4> QED
          BY <3>2, <4>1
      <3>3. CASE ~chip.ack
        BY <1>2, <3>1, <3>3, SeesStop, Zenon
      <3> QED
        BY <3>2, <3>3
    <2> QED
      BY <2>3, <2>4
  <1> QED
    BY <1>1, <1>4, <1>5, <1>6

LEMMA BootKeeps ==
    ASSUME BusInv, NextOperation, UNCHANGED segments, pc = Boot
    PROVE  BusInv'
  <1>1. /\ UNCHANGED <<present, acks, synced>> /\ ~synced
        /\ step = 0 \/ step = 1 \/ step = 2 \/ step = 3
        /\ IF step < 3 THEN step' = step + 1 /\ pc' = pc ELSE step' = 0 /\ pc' = 1
        /\ chip' = IF present THEN Sees(chip, clk, clk', dio, dio') ELSE chip
        /\ step = 0 => clk = TRUE /\ clk' = FALSE /\ dio = TRUE /\ dio' = TRUE
        /\ step = 1 => clk = FALSE /\ clk' = FALSE /\ dio = TRUE /\ dio' = FALSE
        /\ step = 2 => clk = FALSE /\ clk' = TRUE /\ dio = FALSE /\ dio' = FALSE
        /\ step = 3 => clk = TRUE /\ clk' = TRUE /\ dio = FALSE /\ dio' = TRUE
    BY BootOperation DEF BusInv
  <1>2. present => /\ Sound(chip') /\ EndsWithOne(chip', clk', dio')
                   /\ step = 3 => ~chip'.active \/ chip'.ack
    BY BootSeen
  <1>3. /\ \/ pc' = Boot /\ step' \in 1 .. 3 /\ step < 3
           \/ pc' = 1 /\ step' = 0 /\ step = 3
        /\ step' \in 0 .. 28 /\ pc' \in 0 .. Boot
    BY <1>1 DEF Boot
  <1>4. /\ clk' <=> step \in {2, 3}
        /\ dio' <=> step \in {0, 3}
        /\ clk' \in BOOLEAN /\ dio' \in BOOLEAN
    <2>1. CASE step = 0
      BY <1>1, <2>1
    <2>2. CASE step = 1
      BY <1>1, <2>2
    <2>3. CASE step = 2
      BY <1>1, <2>3
    <2>4. CASE step = 3
      BY <1>1, <2>4
    <2> QED
      BY <1>1, <2>1, <2>2, <2>3, <2>4
  <1>5. chip' \in Chip
    BY <1>1, <1>2 DEF BusInv, BusTypeOK, Sound
  <1>6. BusTypeOK'
    BY <1>1, <1>3, <1>4, <1>5 DEF BusInv, BusTypeOK
  <1>7. LevelsInv'
    <2>1. CASE step < 3
      <3>1. pc' = Boot /\ step' = step + 1
        BY <1>1, <2>1
      <3>2. (step' \in {0, 3} <=> step = 2) /\ (step' <= 1 <=> step = 0) /\ step' <= 3
        BY <1>1, <2>1, <3>1
      <3> QED
        BY <1>1, <1>4, <2>1, <3>1, <3>2 DEF LevelsInv, Starts, Stops, Bytes, Boot
    <2>2. CASE step = 3
      BY <1>1, <1>4, <2>2 DEF LevelsInv, Starts, Stops, Bytes, Boot
    <2> QED
      BY <1>1, <2>1, <2>2
  <1>8. present => FrameInv'
    <2>1. CASE step < 3
      BY <1>1, <1>2, <2>1 DEF FrameInv, Sound, EndsWithOne, Receives, Starts, Stops, Bytes, Boot
    <2>2. CASE step = 3
      <3>1. pc' = 1 /\ step' = 0 /\ ~synced'
        <4>1. pc' = 1 /\ step' = 0
          BY <1>1, <2>2
        <4>2. ~synced'
          BY <1>1, Zenon
        <4> QED
          BY <4>1, <4>2
      <3>2. present => ~chip'.active \/ chip'.ack
        BY <1>2, <2>2
      <3>3. present => /\ chip'.advance /\ (chip'.ack => chip'.active)
                       /\ chip'.value < 2^chip'.count
                       /\ Receives(8)' => chip'.value >= 128 \/ (clk' /\ ~dio')
        BY <1>2 DEF Sound, EndsWithOne, Receives
      <3> QED
        BY <3>1, <3>2, <3>3 DEF FrameInv, Starts, Stops, Bytes
    <2> QED
      BY <1>1, <2>1, <2>2
  <1>9. ContentInv'
    BY <1>3 DEF ContentInv, Written, Boot
  <1>10. AckInv'
    <2>1. BytesBefore(pc') = BytesBefore(pc) /\ step' # 28 /\ step # 28
      BY <1>1, <1>3, BytesAre
    <2> QED
      BY <1>1, <2>1 DEF BusInv, AckInv
  <1> QED
    BY <1>1, <1>6, <1>7, <1>8, <1>9, <1>10 DEF BusInv

LEMMA OperationKeeps ==
    ASSUME BusInv, NextOperation, UNCHANGED segments
    PROVE  BusInv'
  <1>1. pc = Boot \/ pc \in 1 .. 13
    BY DEF BusInv, BusTypeOK, NextOperation, Boot
  <1>2. pc \in 1 .. 13 => pc \in Starts \/ pc \in Stops \/ pc \in Bytes
    BY PartIs
  <1> QED
    BY <1>1, <1>2, BootKeeps, StartKeeps, StopKeeps, ByteKeeps

LEMMA BusInitHolds ==
    ASSUME BusInit, segments \in [1 .. 4 -> 0 .. 255]
    PROVE  BusInv
  <1>1. /\ pc = Boot /\ step = 0 /\ clk = TRUE /\ dio = TRUE /\ acks = 0
        /\ present \in BOOLEAN /\ synced = FALSE
    BY DEF BusInit
  <1>2. /\ chip \in Chip /\ ~chip.ack /\ chip.advance /\ chip.value = 0 /\ chip.count = 0
        /\ ~chip.active
    BY DEF BusInit, Chip
  <1>3. BusTypeOK
    <2>1. clk \in BOOLEAN /\ dio \in BOOLEAN /\ synced \in BOOLEAN
      BY <1>1, Zenon
    <2> QED
      BY <1>1, <1>2, <2>1 DEF BusTypeOK, Boot
  <1>4. LevelsInv
    BY <1>1 DEF LevelsInv, Starts, Stops, Bytes, Boot
  <1>5. FrameInv
    <2>1. 2^chip.count = 1
      BY <1>2, Powers
    <2> QED
      BY <1>1, <1>2, <2>1 DEF FrameInv, Receives, Starts, Stops, Bytes, Boot
  <1>6. ContentInv
    BY <1>1 DEF ContentInv, Written, Boot
  <1>7. AckInv
    <2>1. BytesBefore(pc) = 0 /\ step # 28
      BY <1>1, BytesAre
    <2> QED
      BY <1>1, <1>2, <2>1 DEF AckInv
  <1> QED
    BY <1>3, <1>4, <1>5, <1>6, <1>7 DEF BusInv


(***************************************************************************)
(* The text.                                                               *)
(***************************************************************************)
LEMMA TwoAndTwo ==
    ASSUME NEW a, NEW b, NEW c, NEW d
    PROVE  <<a, b>> \o <<c, d>> = <<a, b, c, d>>
  <1> DEFINE S == {a, b, c, d}
             s == <<a, b>>
             t == <<c, d>>
             u == <<a, b, c, d>>
             w == s \o t
  <1>1. s \in Seq(S) /\ Len(s) = 2 /\ s[1] = a /\ s[2] = b
    OBVIOUS
  <1>2. t \in Seq(S) /\ Len(t) = 2 /\ t[1] = c /\ t[2] = d
    OBVIOUS
  <1>3. u \in Seq(S) /\ Len(u) = 4 /\ u[1] = a /\ u[2] = b /\ u[3] = c /\ u[4] = d
    OBVIOUS
  <1> HIDE DEF S, s, t, u
  <1>4. /\ w \in Seq(S) /\ Len(w) = Len(s) + Len(t)
        /\ \A i \in 1 .. Len(s) + Len(t) :
              w[i] = IF i <= Len(s) THEN s[i] ELSE t[i - Len(s)]
    BY <1>1, <1>2, ConcatProperties, Zenon
  <1> HIDE DEF w
  <1>5. \A i \in 1 .. 4 : w[i] = IF i <= 2 THEN s[i] ELSE t[i - 2]
    BY <1>1, <1>2, <1>4
  <1>6. w[1] = a /\ w[2] = b /\ w[3] = c /\ w[4] = d
    BY <1>1, <1>2, <1>5
  <1>7. Len(w) = Len(u) /\ \A i \in 1 .. Len(w) : w[i] = u[i]
    BY <1>1, <1>2, <1>3, <1>4, <1>6
  <1>8. w = u
    BY <1>3, <1>4, <1>7, SeqEqual, Zenon
  <1> QED
    BY <1>8 DEF s, t, u, w

Glyphs == {63, 6, 91, 79, 102, 109, 125, 7, 127, 111}

LEMMA DigitIs ==
    ASSUME NEW n \in 0 .. 9
    PROVE  DigitSegment[n] \in Glyphs
  BY DEF DigitSegment, Glyphs

LEMMA DigitsDiffer ==
    ASSUME NEW m \in 0 .. 9, NEW n \in 0 .. 9, DigitSegment[m] = DigitSegment[n]
    PROVE  m = n
  BY DEF DigitSegment

LEMMA CharsAre ==
    /\ CharSegment.O = 63 /\ CharSegment.E = 121 /\ CharSegment.F = 113
    /\ CharSegment.L = 56 /\ CharSegment.P = 115 /\ CharSegment.S = 109
    /\ CharSegment.A = 119 /\ CharSegment.U = 62 /\ CharSegment.dash = 64
    /\ CharSegment.blank = 0 /\ Zero = 63
  BY DEF CharSegment, Zero, DigitSegment

(* The two digits of a number. *)
Tens(value, leading) ==
    IF value < 0 THEN CharSegment.dash
    ELSE IF AtMost(value, 99) >= 10 THEN DigitSegment[AtMost(value, 99) \div 10]
    ELSE leading

Ones(value) ==
    DigitSegment[IF value < 0 THEN AtMost(-value, 9) ELSE AtMost(value, 99) % 10]

LEMMA TwoDigitsAre ==
    ASSUME NEW value \in Int, NEW leading
    PROVE  /\ PutTwoDigits(value, leading) = <<Tens(value, leading), Ones(value)>>
           /\ Ones(value) \in Glyphs
           /\ Tens(value, leading) \in Glyphs \cup {64, leading}
           /\ value >= 0 => Tens(value, leading) \in Glyphs \cup {leading}
  <1>1. PutTwoDigits(value, leading) = <<Tens(value, leading), Ones(value)>>
    BY DEF PutTwoDigits, Tens, Ones
  <1>2. Ones(value) \in Glyphs
    <2> DEFINE n == IF value < 0 THEN AtMost(-value, 9) ELSE AtMost(value, 99) % 10
    <2>1. n \in 0 .. 9
      BY DEF AtMost
    <2> HIDE DEF n
    <2>2. DigitSegment[n] \in Glyphs
      BY <2>1, DigitIs
    <2> QED
      BY <2>2 DEF Ones, n
  <1>3. value >= 0 => Tens(value, leading) \in Glyphs \cup {leading}
    <2> DEFINE n == AtMost(value, 99) \div 10
    <2>1. ASSUME value >= 0, AtMost(value, 99) >= 10
          PROVE  DigitSegment[n] \in Glyphs
      <3>1. n \in 0 .. 9
        BY <2>1 DEF AtMost
      <3> HIDE DEF n
      <3> QED
        BY <3>1, DigitIs
    <2> QED
      BY <2>1 DEF Tens
  <1>4. value < 0 => Tens(value, leading) = 64
    BY CharsAre DEF Tens
  <1> QED
    BY <1>1, <1>2, <1>3, <1>4


(* The four digits of each state. *)
FirstTwo(m) ==
    IF m.temperature_valid
    THEN <<Tens(m.current_temperature_c, 0), Ones(m.current_temperature_c)>>
    ELSE <<64, 64>>

LEMMA FirstTwoAre ==
    ASSUME NEW m \in DisplayMsg
    PROVE  /\ PutTemperature(m) = <<FirstTwo(m)[1], FirstTwo(m)[2]>>
           /\ FirstTwo(m)[1] \in Glyphs \cup {64, 0} /\ FirstTwo(m)[2] \in Glyphs \cup {64}
  <1> DEFINE c == m.current_temperature_c
  <1>1. c \in Int
    BY DEF DisplayMsg
  <1> HIDE DEF c
  <1>2. /\ PutTwoDigits(c, 0) = <<Tens(c, 0), Ones(c)>>
        /\ Ones(c) \in Glyphs /\ Tens(c, 0) \in Glyphs \cup {64, 0}
    BY <1>1, TwoDigitsAre
  <1>3. CASE m.temperature_valid
    <2>1. PutTemperature(m) = PutTwoDigits(c, 0)
      BY <1>3, CharsAre DEF PutTemperature, c
    <2>2. FirstTwo(m) = <<Tens(c, 0), Ones(c)>>
      BY <1>3 DEF FirstTwo, c
    <2>3. FirstTwo(m)[1] = Tens(c, 0) /\ FirstTwo(m)[2] = Ones(c)
      BY <2>2
    <2> QED
      BY <1>2, <2>1, <2>3
  <1>4. CASE ~m.temperature_valid
    <2>1. PutTemperature(m) = <<64, 64>>
      BY <1>4, CharsAre DEF PutTemperature
    <2>2. FirstTwo(m)[1] = 64 /\ FirstTwo(m)[2] = 64
      BY <1>4 DEF FirstTwo
    <2> QED
      BY <2>1, <2>2
  <1> QED
    BY <1>3, <1>4

LEMMA TextIs ==
    ASSUME NEW m \in DisplayMsg, NEW t, NEW e \in Nat
    PROVE  /\ m.state = "OFF" =>
                BuildSegments(m, t, e) = <<63, 113, 113, 0>> \/ BuildSegments(m, t, e) = <<0, 0, 0, 0>>
           /\ m.state = "IDLE" /\ m.temperature_valid =>
                BuildSegments(m, t, e) =
                    <<Tens(m.current_temperature_c, 0), Ones(m.current_temperature_c) + 128,
                      Tens(m.setpoint_c, 63), Ones(m.setpoint_c)>>
           /\ m.state = "IDLE" /\ ~m.temperature_valid =>
                BuildSegments(m, t, e) = <<64, 64, 64, 64>>
           /\ m.state = "COOLING" =>
                BuildSegments(m, t, e) =
                    <<FirstTwo(m)[1], FirstTwo(m)[2], 56, DigitSegment[m.cooling_level]>>
           /\ m.state = "WINDOW_SUSPECT" =>
                BuildSegments(m, t, e) =
                    <<63, 115, Tens(AtMost(e \div SecondMs, 99), 63),
                               Ones(AtMost(e \div SecondMs, 99))>>
           /\ m.state = "AC_PAUSED" => BuildSegments(m, t, e) = <<115, 119, 62, 109>>
           /\ m.state = "RECOVERY_WAIT" =>
                BuildSegments(m, t, e) =
                    <<121, 109, Tens(AtMost(RemainingSeconds(e), 99), 63),
                                Ones(AtMost(RemainingSeconds(e), 99))>>
           /\ m.state = "MANUAL_OVERRIDE" =>
                BuildSegments(m, t, e) =
                    <<FirstTwo(m)[1], FirstTwo(m)[2], 119, DigitSegment[m.cooling_level]>>
  <1> DEFINE s == BuildSegments(m, t, e)
             c == m.current_temperature_c
             l == m.cooling_level
             p == m.setpoint_c
  <1>1. c \in Int /\ l % 10 = l /\ p \in Int
    BY DEF DisplayMsg
  <1>2. \A a, b, x, y : <<a, b>> \o <<x, y>> = <<a, b, x, y>>
    BY TwoAndTwo
  <1>3. \A n \in Int : \A x : PutTwoDigits(n, x) = <<Tens(n, x), Ones(n)>>
    BY TwoDigitsAre
  <1>4. m.state = "OFF" => s = <<63, 113, 113, 0>> \/ s = <<0, 0, 0, 0>>
    BY CharsAre DEF BuildSegments, OffText, Blank
  <1>5. ASSUME m.state = "IDLE", m.temperature_valid
        PROVE  s = <<Tens(c, 0), Ones(c) + 128, Tens(p, 63), Ones(p)>>
    <2>1. s = TempAndSetpoint(m)
      BY <1>5 DEF BuildSegments
    <2>2. PutTwoDigits(c, 0) = <<Tens(c, 0), Ones(c)>> /\ PutTwoDigits(p, 63) = <<Tens(p, 63), Ones(p)>>
      BY <1>1, <1>3
    <2>3. TempAndSetpoint(m) = <<Tens(c, 0), Ones(c) + 128>> \o <<Tens(p, 63), Ones(p)>>
      <3> DEFINE left == PutTwoDigits(c, CharSegment.blank)
                 right == PutTwoDigits(p, Zero)
      <3>1. /\ left[1] = Tens(c, 0) /\ left[2] = Ones(c)
            /\ right = <<Tens(p, 63), Ones(p)>>
        <4>1. left = PutTwoDigits(c, 0) /\ right = PutTwoDigits(p, 63)
          BY CharsAre
        <4> HIDE DEF left, right
        <4> QED
          BY <2>2, <4>1
      <3>2. TempAndSetpoint(m) = <<left[1], left[2] + Dp>> \o right
        BY DEF TempAndSetpoint
      <3> HIDE DEF left, right
      <3> QED
        BY <3>1, <3>2 DEF Dp
    <2> QED
      BY <1>2, <2>1, <2>3
  <1>6. m.state = "IDLE" /\ ~m.temperature_valid => s = <<64, 64, 64, 64>>
    BY CharsAre DEF BuildSegments, Dashes
  <1>7. ASSUME NEW prefix
        PROVE  TempAndLevel(m, prefix) =
                  <<FirstTwo(m)[1], FirstTwo(m)[2], prefix, DigitSegment[l]>>
    <2>1. TempAndLevel(m, prefix) =
              <<FirstTwo(m)[1], FirstTwo(m)[2]>> \o <<prefix, DigitSegment[l]>>
      BY <1>1, FirstTwoAre DEF TempAndLevel
    <2> QED
      BY <1>2, <2>1
  <1>8. ASSUME NEW c0, NEW c1, NEW n \in Int
        PROVE  CodeAndSeconds(c0, c1, n) = <<c0, c1, Tens(AtMost(n, 99), 63), Ones(AtMost(n, 99))>>
    <2>1. AtMost(n, 99) \in Int
      BY DEF AtMost
    <2>2. CodeAndSeconds(c0, c1, n) =
              <<c0, c1>> \o <<Tens(AtMost(n, 99), 63), Ones(AtMost(n, 99))>>
      BY <1>3, <2>1, CharsAre DEF CodeAndSeconds
    <2> QED
      BY <1>2, <2>2
  <1>9. e \div SecondMs \in Int /\ RemainingSeconds(e) \in Int
    <2>1. SecondMs \in Nat \ {0}
      BY DisplayAssumption DEF SecondMs
    <2>2. RecoveryWaitMs \in Nat
      BY DisplayAssumption
    <2> DEFINE r == IF e >= RecoveryWaitMs THEN 0 ELSE RecoveryWaitMs - e
    <2>3. r \in Int
      BY <2>2
    <2> HIDE DEF r
    <2>4. (r + SecondMs - 1) \div SecondMs \in Int
      BY <2>1, <2>3
    <2>5. RemainingSeconds(e) \in Int
      BY <2>4 DEF RemainingSeconds, r
    <2> QED
      BY <2>1, <2>5
  <1>10. m.state = "COOLING" => s = <<FirstTwo(m)[1], FirstTwo(m)[2], 56, DigitSegment[l]>>
    BY <1>7, CharsAre DEF BuildSegments
  <1>11. m.state = "MANUAL_OVERRIDE" =>
            s = <<FirstTwo(m)[1], FirstTwo(m)[2], 119, DigitSegment[l]>>
    BY <1>7, CharsAre DEF BuildSegments
  <1>12. m.state = "WINDOW_SUSPECT" =>
            s = <<63, 115, Tens(AtMost(e \div SecondMs, 99), 63), Ones(AtMost(e \div SecondMs, 99))>>
    BY <1>8, <1>9, CharsAre DEF BuildSegments
  <1>13. m.state = "RECOVERY_WAIT" =>
            s = <<121, 109, Tens(AtMost(RemainingSeconds(e), 99), 63), Ones(AtMost(RemainingSeconds(e), 99))>>
    BY <1>8, <1>9, CharsAre DEF BuildSegments
  <1>14. m.state = "AC_PAUSED" => s = <<115, 119, 62, 109>>
    BY CharsAre DEF BuildSegments, PausText
  <1> QED
    BY <1>4, <1>5, <1>6, <1>10, <1>11, <1>12, <1>13, <1>14


Looks(state, a, b, c, d) ==
    \/ state = "OFF" /\ a = 63 /\ b = 113 /\ c = 113 /\ d = 0
    \/ state = "OFF" /\ a = 0 /\ b = 0 /\ c = 0 /\ d = 0
    \/ state = "IDLE" /\ b >= 128
    \/ state = "IDLE" /\ a = 64 /\ b = 64 /\ c = 64 /\ d = 64
    \/ state = "COOLING" /\ c = 56
    \/ state = "WINDOW_SUSPECT" /\ a = 63 /\ b = 115
    \/ state = "AC_PAUSED" /\ a = 115 /\ b = 119 /\ c = 62 /\ d = 109
    \/ state = "RECOVERY_WAIT" /\ a = 121 /\ b = 109
    \/ state = "MANUAL_OVERRIDE" /\ c = 119

LEMMA LooksAre ==
    ASSUME NEW state \in AcState,
           NEW a \in 0 .. 255, NEW b \in 0 .. 255, NEW c \in 0 .. 255, NEW d \in 0 .. 255
    PROVE  LooksLike(state, <<a, b, c, d>>) <=> Looks(state, a, b, c, d)
  <1> DEFINE q == <<a, b, c, d>>
  <1>1. q \in [1 .. 4 -> 0 .. 255] /\ q[1] = a /\ q[2] = b /\ q[3] = c /\ q[4] = d
    OBVIOUS
  <1>2. \A w, x, y, z : q = <<w, x, y, z>> <=> a = w /\ b = x /\ c = y /\ d = z
    OBVIOUS
  <1>3. /\ OffText = <<63, 113, 113, 0>> /\ Blank = <<0, 0, 0, 0>>
        /\ Dashes = <<64, 64, 64, 64>> /\ PausText = <<115, 119, 62, 109>>
    BY CharsAre DEF OffText, Blank, Dashes, PausText
  <1> HIDE DEF q
  <1>4. LooksLike("OFF", q) <=> \/ a = 63 /\ b = 113 /\ c = 113 /\ d = 0
                                \/ a = 0 /\ b = 0 /\ c = 0 /\ d = 0
    BY <1>2, <1>3 DEF LooksLike
  <1>5. LooksLike("IDLE", q) <=> \/ b >= 128
                                 \/ a = 64 /\ b = 64 /\ c = 64 /\ d = 64
    BY <1>1, <1>2, <1>3 DEF LooksLike, Dp
  <1>6. LooksLike("COOLING", q) <=> c = 56
    BY <1>1, CharsAre DEF LooksLike
  <1>7. LooksLike("WINDOW_SUSPECT", q) <=> a = 63 /\ b = 115
    BY <1>1, CharsAre DEF LooksLike
  <1>8. LooksLike("AC_PAUSED", q) <=> a = 115 /\ b = 119 /\ c = 62 /\ d = 109
    BY <1>2, <1>3 DEF LooksLike
  <1>9. LooksLike("RECOVERY_WAIT", q) <=> a = 121 /\ b = 109
    BY <1>1, CharsAre DEF LooksLike
  <1>10. LooksLike("MANUAL_OVERRIDE", q) <=> c = 119
    BY <1>1, CharsAre DEF LooksLike
  <1>11. LooksLike(state, q) <=> Looks(state, a, b, c, d)
    BY <1>4, <1>5, <1>6, <1>7, <1>8, <1>9, <1>10 DEF Looks, AcState
  <1> QED
    BY <1>11 DEF q

(* What tells the text of one state from those of the others. *)
Telling(state, a, b, c, d) ==
    CASE state = "OFF"             -> b \in {113, 0} /\ c = b /\ d = 0 /\ a = (IF b = 0 THEN 0 ELSE 63)
      [] state = "IDLE"            -> (b >= 128 /\ c \in Glyphs) \/ (a = 64 /\ b = 64 /\ c = 64 /\ d = 64)
      [] state = "COOLING"         -> a \in Glyphs \cup {64, 0} /\ b \in Glyphs \cup {64} /\ c = 56
      [] state = "WINDOW_SUSPECT"  -> a = 63 /\ b = 115 /\ c \in Glyphs
      [] state = "AC_PAUSED"       -> a = 115 /\ b = 119 /\ c = 62 /\ d = 109
      [] state = "RECOVERY_WAIT"   -> a = 121 /\ b = 109 /\ c \in Glyphs
      [] state = "MANUAL_OVERRIDE" -> a \in Glyphs \cup {64, 0} /\ b \in Glyphs \cup {64} /\ c = 119

LEMMA TellingTells ==
    ASSUME NEW state \in AcState, NEW other \in AcState,
           NEW a \in 0 .. 255, NEW b \in 0 .. 255, NEW c \in 0 .. 255, NEW d \in 0 .. 255,
           Telling(state, a, b, c, d)
    PROVE  Looks(other, a, b, c, d) <=> other = state
  <1>2. CASE state = "OFF"
    BY <1>2 DEF Telling, Looks, AcState
  <1>3. CASE state = "IDLE"
    BY <1>3 DEF Telling, Looks, AcState, Glyphs
  <1>4. CASE state = "COOLING"
    BY <1>4 DEF Telling, Looks, AcState, Glyphs
  <1>5. CASE state = "WINDOW_SUSPECT"
    BY <1>5 DEF Telling, Looks, AcState, Glyphs
  <1>6. CASE state = "AC_PAUSED"
    BY <1>6 DEF Telling, Looks, AcState
  <1>7. CASE state = "RECOVERY_WAIT"
    BY <1>7 DEF Telling, Looks, AcState, Glyphs
  <1>8. CASE state = "MANUAL_OVERRIDE"
    BY <1>8 DEF Telling, Looks, AcState, Glyphs
  <1> QED
    BY <1>2, <1>3, <1>4, <1>5, <1>6, <1>7, <1>8 DEF AcState


LEMMA TextTells ==
    ASSUME NEW m \in DisplayMsg, NEW t, NEW e \in Nat
    PROVE  \E a, b, c, d \in 0 .. 255 :
                BuildSegments(m, t, e) = <<a, b, c, d>> /\ Telling(m.state, a, b, c, d)
  <1> DEFINE s == BuildSegments(m, t, e)
             Told(a, b, c, d) == s = <<a, b, c, d>> /\ Telling(m.state, a, b, c, d)
  <1>1. /\ \A x \in Glyphs : x \in 0 .. 127 /\ x \in 0 .. 255
                             /\ x + 128 \in 0 .. 255 /\ x + 128 >= 128
        /\ \A x \in {64, 63, 0} : x \in 0 .. 255
    BY DEF Glyphs
  <1>2. m.state \in AcState
    BY DEF DisplayMsg
  <1>3. SUFFICES \E a, b, c, d \in 0 .. 255 : Told(a, b, c, d)
    OBVIOUS
  <1>4. \A a, b, c, d : /\ a \in 0 .. 255 /\ b \in 0 .. 255 /\ c \in 0 .. 255 /\ d \in 0 .. 255
                        /\ Told(a, b, c, d)
            => \E w, x, y, z \in 0 .. 255 : Told(w, x, y, z)
    BY Zenon
  <1>5. CASE m.state = "OFF"
    <2>1. s = <<63, 113, 113, 0>> \/ s = <<0, 0, 0, 0>>
      BY <1>5, TextIs
    <2> HIDE DEF s
    <2>2. Told(63, 113, 113, 0) \/ Told(0, 0, 0, 0)
      BY <1>5, <2>1 DEF Telling
    <2>3. 63 \in 0 .. 255 /\ 113 \in 0 .. 255 /\ 0 \in 0 .. 255
      OBVIOUS
    <2> HIDE DEF Told
    <2> QED
      BY <1>4, <2>2, <2>3, Zenon
  <1>6. CASE m.state = "IDLE" /\ m.temperature_valid
    <2> DEFINE n == m.current_temperature_c
               p == m.setpoint_c
    <2>1. s = <<Tens(n, 0), Ones(n) + 128, Tens(p, 63), Ones(p)>>
      BY <1>6, TextIs
    <2>2. n \in Int /\ p \in Nat
      BY DEF DisplayMsg
    <2> HIDE DEF s, n, p
    <2>3. /\ Ones(n) \in Glyphs /\ Tens(n, 0) \in Glyphs \cup {64, 0}
          /\ Ones(p) \in Glyphs /\ Tens(p, 63) \in Glyphs \cup {63}
      BY <2>2, TwoDigitsAre
    <2>4. 63 \in Glyphs
      BY DEF Glyphs
    <2>5. /\ Tens(n, 0) \in 0 .. 255 /\ Ones(n) + 128 \in 0 .. 255 /\ Ones(n) + 128 >= 128
          /\ Tens(p, 63) \in 0 .. 255 /\ Ones(p) \in 0 .. 255 /\ Tens(p, 63) \in Glyphs
      <3>1. Tens(n, 0) \in Glyphs \/ Tens(n, 0) \in {64, 63, 0}
        BY <2>3
      <3>2. Tens(p, 63) \in Glyphs
        BY <2>3, <2>4
      <3> QED
        BY <1>1, <2>3, <3>1, <3>2
    <2>6. Told(Tens(n, 0), Ones(n) + 128, Tens(p, 63), Ones(p))
      BY <1>6, <2>1, <2>5 DEF Telling
    <2> HIDE DEF Told
    <2> QED
      BY <1>4, <2>5, <2>6
  <1>7. CASE m.state = "IDLE" /\ ~m.temperature_valid
    <2>1. s = <<64, 64, 64, 64>>
      BY <1>7, TextIs
    <2> HIDE DEF s
    <2>2. Told(64, 64, 64, 64)
      BY <1>7, <2>1 DEF Telling
    <2>3. 64 \in 0 .. 255
      OBVIOUS
    <2> HIDE DEF Told
    <2> QED
      BY <1>4, <2>2, <2>3, Zenon
  <1>8. CASE m.state \in {"COOLING", "MANUAL_OVERRIDE"}
    <2> DEFINE a == FirstTwo(m)[1]
               b == FirstTwo(m)[2]
               c == IF m.state = "COOLING" THEN 56 ELSE 119
               d == DigitSegment[m.cooling_level]
    <2>1. s = <<a, b, c, d>>
      BY <1>8, TextIs
    <2>2. m.cooling_level \in 0 .. 9
      BY DEF DisplayMsg
    <2>3. a \in Glyphs \cup {64, 0} /\ b \in Glyphs \cup {64} /\ d \in Glyphs
      BY <2>2, FirstTwoAre, DigitIs
    <2>4. c = 56 \/ c = 119
      OBVIOUS
    <2>5. Telling(m.state, a, b, c, d)
      BY <1>8, <2>3 DEF Telling
    <2> HIDE DEF s, a, b, c, d
    <2>6. a \in 0 .. 255 /\ b \in 0 .. 255 /\ c \in 0 .. 255 /\ d \in 0 .. 255
      <3>1. a \in Glyphs \/ a \in {64, 63, 0}
        BY <2>3
      <3>2. b \in Glyphs \/ b \in {64, 63, 0}
        BY <2>3
      <3>3. c \in 0 .. 255
        BY <2>4
      <3> QED
        BY <1>1, <2>3, <3>1, <3>2, <3>3
    <2>7. Told(a, b, c, d)
      BY <2>1, <2>5
    <2> HIDE DEF Told
    <2> QED
      BY <1>4, <2>6, <2>7
  <1>9. ASSUME NEW x \in 0 .. 255, NEW y \in 0 .. 255, NEW n \in Nat,
               s = <<x, y, Tens(n, 63), Ones(n)>>,
               \A c \in Glyphs : \A d : Telling(m.state, x, y, c, d)
        PROVE  \E a, b, c, d \in 0 .. 255 : Told(a, b, c, d)
    <2>1. Ones(n) \in Glyphs /\ Tens(n, 63) \in Glyphs \cup {63}
      BY TwoDigitsAre
    <2>2. 63 \in Glyphs
      BY DEF Glyphs
    <2>3. Tens(n, 63) \in Glyphs /\ Tens(n, 63) \in 0 .. 255 /\ Ones(n) \in 0 .. 255
      <3>1. Tens(n, 63) \in Glyphs
        BY <2>1, <2>2
      <3> QED
        BY <1>1, <2>1, <3>1
    <2>4. Told(x, y, Tens(n, 63), Ones(n))
      BY <1>9, <2>3, Zenon
    <2> HIDE DEF Told
    <2> QED
      BY <1>4, <2>3, <2>4
  <1>10. SecondMs \in Nat \ {0} /\ RecoveryWaitMs \in Nat
    BY DisplayAssumption DEF SecondMs
  <1>11. \A n \in Nat : AtMost(n, 99) \in Nat
    BY DEF AtMost
  <1>12. CASE m.state = "WINDOW_SUSPECT"
    <2> DEFINE n == AtMost(e \div SecondMs, 99)
    <2>1. e \div SecondMs \in Nat
      BY <1>10
    <2>2. n \in Nat
      BY <1>11, <2>1
    <2>3. s = <<63, 115, Tens(n, 63), Ones(n)>>
      BY <1>12, TextIs
    <2>4. \A c \in Glyphs : \A d : Telling(m.state, 63, 115, c, d)
      BY <1>12 DEF Telling
    <2>5. 63 \in 0 .. 255 /\ 115 \in 0 .. 255
      OBVIOUS
    <2> HIDE DEF s, n, Told
    <2> QED
      BY <1>9, <2>2, <2>3, <2>4, <2>5, Zenon
  <1>13. CASE m.state = "RECOVERY_WAIT"
    <2> DEFINE n == AtMost(RemainingSeconds(e), 99)
               r == IF e >= RecoveryWaitMs THEN 0 ELSE RecoveryWaitMs - e
    <2>1. r \in Nat
      BY <1>10
    <2>2. RemainingSeconds(e) = (r + SecondMs - 1) \div SecondMs
      BY DEF RemainingSeconds
    <2> HIDE DEF r
    <2>3. RemainingSeconds(e) \in Nat
      BY <1>10, <2>1, <2>2
    <2>4. n \in Nat
      BY <1>11, <2>3
    <2>5. s = <<121, 109, Tens(n, 63), Ones(n)>>
      BY <1>13, TextIs
    <2>6. \A c \in Glyphs : \A d : Telling(m.state, 121, 109, c, d)
      BY <1>13 DEF Telling
    <2>7. 121 \in 0 .. 255 /\ 109 \in 0 .. 255
      OBVIOUS
    <2> HIDE DEF s, n, Told
    <2> QED
      BY <1>9, <2>4, <2>5, <2>6, <2>7, Zenon
  <1>14. CASE m.state = "AC_PAUSED"
    <2>1. s = <<115, 119, 62, 109>>
      BY <1>14, TextIs
    <2> HIDE DEF s
    <2>2. Told(115, 119, 62, 109)
      BY <1>14, <2>1 DEF Telling
    <2>3. /\ 115 \in 0 .. 255 /\ 119 \in 0 .. 255
          /\ 62 \in 0 .. 255 /\ 109 \in 0 .. 255
      OBVIOUS
    <2> HIDE DEF Told
    <2> QED
      BY <1>4, <2>2, <2>3, Zenon
  <1> QED
    BY <1>2, <1>5, <1>6, <1>7, <1>8, <1>12, <1>13, <1>14 DEF AcState

LEMMA TextLooks ==
    ASSUME NEW m \in DisplayMsg, NEW t, NEW e \in Nat
    PROVE  /\ BuildSegments(m, t, e) \in [1 .. 4 -> 0 .. 255]
           /\ \A other \in AcState :
                LooksLike(other, BuildSegments(m, t, e)) <=> other = m.state
  <1>1. PICK a \in 0 .. 255, b \in 0 .. 255, c \in 0 .. 255, d \in 0 .. 255 :
            BuildSegments(m, t, e) = <<a, b, c, d>> /\ Telling(m.state, a, b, c, d)
    BY TextTells, Zenon
  <1>2. <<a, b, c, d>> \in [1 .. 4 -> 0 .. 255]
    OBVIOUS
  <1>3. m.state \in AcState
    BY DEF DisplayMsg
  <1>4. ASSUME NEW other \in AcState
        PROVE  LooksLike(other, <<a, b, c, d>>) <=> other = m.state
    <2>1. LooksLike(other, <<a, b, c, d>>) <=> Looks(other, a, b, c, d)
      BY LooksAre
    <2>2. Looks(other, a, b, c, d) <=> other = m.state
      BY <1>1, <1>3, TellingTells, Zenon
    <2> QED
      BY <2>1, <2>2
  <1> QED
    BY <1>1, <1>2, <1>4

LEMMA BlankLooksOff ==
    /\ Blank \in [1 .. 4 -> 0 .. 255]
    /\ \A other \in AcState : LooksLike(other, Blank) <=> other = "OFF"
  <1>1. Blank = <<0, 0, 0, 0>> /\ "OFF" \in AcState /\ 0 \in 0 .. 255
    BY DEF Blank, AcState
  <1>2. <<0, 0, 0, 0>> \in [1 .. 4 -> 0 .. 255]
    OBVIOUS
  <1>3. Telling("OFF", 0, 0, 0, 0)
    BY DEF Telling
  <1>4. ASSUME NEW other \in AcState
        PROVE  LooksLike(other, <<0, 0, 0, 0>>) <=> other = "OFF"
    <2>1. LooksLike(other, <<0, 0, 0, 0>>) <=> Looks(other, 0, 0, 0, 0)
      BY <1>1, LooksAre, Zenon
    <2>2. Looks(other, 0, 0, 0, 0) <=> other = "OFF"
      BY <1>1, <1>3, TellingTells, Zenon
    <2> QED
      BY <2>1, <2>2
  <1> QED
    BY <1>1, <1>2, <1>4


(***************************************************************************)
(* What the renderer keeps.                                                *)
(***************************************************************************)
Timed ==
    /\ current \in DisplayMsg
    /\ last_display_state = current.state
    /\ now \in 0 .. ClockMod - 1
    /\ display_state_since_ms \in 0 .. ClockMod - 1
    /\ toldMs \in 0 .. ClockMod
    /\ toldMs < ClockMod => (now - display_state_since_ms) % ClockMod = toldMs

LEMMA RenderInvIs ==
    RenderInv <=> Timed /\ (segments = Text \/ (segments = Blank /\ current.state = "OFF"))
  BY DEF RenderInv, Timed

LEMMA TextHolds ==
    ASSUME Timed
    PROVE  /\ Text \in [1 .. 4 -> 0 .. 255]
           /\ \A other \in AcState : LooksLike(other, Text) <=> other = current.state
  <1> DEFINE e == (now - display_state_since_ms) % ClockMod
  <1>1. e \in Nat
    <2>1. now - display_state_since_ms \in Int /\ ClockMod \in Nat \ {0}
      BY DisplayAssumption DEF Timed
    <2>2. e \in 0 .. ClockMod - 1
      BY <2>1, ModType
    <2> QED
      BY <2>1, <2>2
  <1>2. Text = BuildSegments(current, now, e) /\ current \in DisplayMsg
    BY DEF Text, Timed
  <1> HIDE DEF e
  <1> QED
    BY <1>1, <1>2, TextLooks

LEMMA NothingIsAMessage == NothingToShow \in DisplayMsg /\ NothingToShow.state = "OFF"
  <1>1. SetpointDefault \in 0 .. 127 /\ "OFF" \in AcState
    BY DisplayAssumption DEF AcState
  <1> QED
    BY <1>1 DEF NothingToShow, DisplayMsg

LEMMA ZeroOnTheClock == 0 \in 0 .. ClockMod - 1 /\ 0 \in 0 .. ClockMod /\ (0 - 0) % ClockMod = 0
  <1>1. ClockMod \in Nat \ {0}
    BY DisplayAssumption
  <1>2. 0 \in 0 .. ClockMod - 1 /\ 0 \in 0 .. ClockMod
    BY <1>1
  <1> QED
    BY <1>1, <1>2, DifferenceToItself

LEMMA RenderKeepsTime ==
    ASSUME Timed, NEW m \in DisplayMsg, NEW gap \in PollGaps, Render(m, gap)
    PROVE  Timed'
  <1>1. /\ ClockMod \in Nat \ {0} /\ gap \in 1 .. ClockMod - 1
        /\ now \in 0 .. ClockMod - 1 /\ display_state_since_ms \in 0 .. ClockMod - 1
        /\ toldMs \in 0 .. ClockMod
        /\ toldMs < ClockMod => (now - display_state_since_ms) % ClockMod = toldMs
        /\ last_display_state = current.state
    BY DisplayAssumption DEF Timed
  <1>2. /\ current' = m /\ now' = (now + gap) % ClockMod /\ last_display_state' = m.state
        /\ display_state_since_ms' =
                IF m.state # last_display_state THEN now' ELSE display_state_since_ms
        /\ toldMs' = IF m.state # current.state THEN 0
                     ELSE IF toldMs + gap < ClockMod THEN toldMs + gap ELSE ClockMod
    BY DEF Render
  <1>3. now' \in 0 .. ClockMod - 1
    <2>1. now + gap \in Int
      BY <1>1
    <2> QED
      BY <1>1, <1>2, <2>1, ModType
  <1>4. CASE m.state # current.state
    <2>1. display_state_since_ms' = now' /\ toldMs' = 0
      BY <1>1, <1>2, <1>4
    <2>2. (now' - now') % ClockMod = 0
      BY <1>1, <1>3, DifferenceToItself
    <2>3. (now' - display_state_since_ms') % ClockMod = toldMs'
      BY <2>1, <2>2
    <2>4. toldMs' \in 0 .. ClockMod /\ display_state_since_ms' \in 0 .. ClockMod - 1
      BY <1>1, <1>3, <2>1
    <2> QED
      BY <1>2, <1>3, <2>3, <2>4 DEF Timed
  <1>5. CASE m.state = current.state
    <2>1. /\ display_state_since_ms' = display_state_since_ms
          /\ toldMs' = IF toldMs + gap < ClockMod THEN toldMs + gap ELSE ClockMod
      BY <1>1, <1>2, <1>5
    <2>2. toldMs' \in 0 .. ClockMod
      BY <1>1, <2>1
    <2>3. ASSUME toldMs' < ClockMod
          PROVE  (now' - display_state_since_ms') % ClockMod = toldMs'
      <3>1. toldMs' = toldMs + gap /\ toldMs + gap < ClockMod /\ toldMs < ClockMod /\ gap \in Nat
        BY <1>1, <2>1, <2>3
      <3>2. (now - display_state_since_ms) % ClockMod = toldMs
        BY <1>1, <3>1
      <3>3. (((now + gap) % ClockMod) - display_state_since_ms) % ClockMod
                = ((now - display_state_since_ms) % ClockMod) + gap
        <4>1. ((now - display_state_since_ms) % ClockMod) + gap < ClockMod
          BY <3>1, <3>2
        <4> QED
          BY <1>1, <3>1, <4>1, DifferenceAdvances
      <3> QED
        BY <1>2, <2>1, <3>1, <3>2, <3>3
    <2> QED
      BY <1>1, <1>2, <1>3, <2>1, <2>2, <2>3 DEF Timed
  <1> QED
    BY <1>4, <1>5

LEMMA ResetKeepsTime ==
    ASSUME DisplayReset
    PROVE  Timed' /\ current'.state = "OFF"
  BY NothingIsAMessage, ZeroOnTheClock DEF DisplayReset, Timed

(***************************************************************************)
(* In every state of the panel the wires and the chip are where the driver *)
(* believes them, whatever resets came before, and the renderer's          *)
(* stopwatch reads how long the display has been told the state.           *)
(***************************************************************************)
THEOREM PanelInvariant == PanelSpec => []PanelInv
  <1>1. PanelInit => PanelInv
    <2> SUFFICES ASSUME PanelInit PROVE PanelInv
      OBVIOUS
    <2>1. Timed /\ current.state = "OFF"
      BY NothingIsAMessage, ZeroOnTheClock DEF PanelInit, DisplayInit, Timed
    <2>2. RenderInv
      BY <2>1, RenderInvIs DEF PanelInit
    <2>3. BusInv
      BY BlankLooksOff, BusInitHolds DEF PanelInit
    <2> QED
      BY <2>2, <2>3 DEF PanelInv
  <1>0. (Timed => Text \in [1 .. 4 -> 0 .. 255])'
    <2>1. Timed => Text \in [1 .. 4 -> 0 .. 255]
      BY TextHolds
    <2> QED
      BY <2>1, PTL
  <1>2. PanelInv /\ [PanelNext]_panelVars => PanelInv'
    <2> SUFFICES ASSUME PanelInv, [PanelNext]_panelVars PROVE PanelInv'
      OBVIOUS
    <2>1. BusInv /\ RenderInv /\ Timed
      BY RenderInvIs DEF PanelInv
    <2>2. CASE Iterate
      <3>1. PICK m \in DisplayMsg, gap \in PollGaps : Render(m, gap)
        <4>1. \A m \in Messages : m \in DisplayMsg
          BY DisplayAssumption
        <4>2. current \in DisplayMsg
          BY <2>1 DEF Timed
        <4> QED
          BY <2>2, <4>1, <4>2 DEF Iterate, TakeMessage, QueueEmpty
      <3>2. Timed'
        BY <2>1, <3>1, RenderKeepsTime
      <3>3. segments' = Text' /\ Call
        BY <2>2 DEF Iterate
      <3>4. Text' \in [1 .. 4 -> 0 .. 255]
        BY <3>2, <1>0
      <3>5. BusInv'
        BY <2>1, <3>3, <3>4, CallKeeps
      <3>6. RenderInv'
        BY <3>2, <3>3 DEF RenderInv, Timed
      <3> QED
        BY <3>5, <3>6 DEF PanelInv
    <2>3. CASE Transfer
      <3>1. NextOperation /\ UNCHANGED <<displayVars, segments>>
        BY <2>3 DEF Transfer
      <3>2. BusInv'
        BY <2>1, <3>1, OperationKeeps
      <3>3. RenderInv'
        BY <2>1, <3>1 DEF RenderInv, displayVars, Text
      <3> QED
        BY <3>2, <3>3 DEF PanelInv
    <2>4. CASE Restart
      <3>1. Reset /\ DisplayReset /\ segments' = Blank
        BY <2>4 DEF Restart
      <3>2. BusInv'
        BY <2>1, <3>1, BlankLooksOff, ResetKeeps
      <3>3. Timed' /\ current'.state = "OFF"
        BY <3>1, ResetKeepsTime
      <3>4. RenderInv'
        BY <3>1, <3>3 DEF RenderInv, Timed, Blank
      <3> QED
        BY <3>2, <3>4 DEF PanelInv
    <2>5. CASE UNCHANGED panelVars
      BY <2>1, <2>5 DEF panelVars, displayVars, busVars, PanelInv, BusInv, BusTypeOK,
                        LevelsInv, FrameInv, ContentInv, AckInv, Receives, Written, ByteOf,
                        BytesBefore, RenderInv, Text
    <2> QED
      BY <2>2, <2>3, <2>4, <2>5 DEF PanelNext
  <1> QED
    BY <1>1, <1>2, PTL DEF PanelSpec


LEMMA ShowsTheSegments ==
    ASSUME BusInv, pc = 0, present
    PROVE  chip.on /\ Shown = segments
  <1>1. ContentInv /\ Written = 4
    BY DEF BusInv, Written, Boot
  <1>2. chip.on /\ \A i \in 1 .. 4 : chip.ram[i - 1] = segments[i]
    BY <1>1 DEF ContentInv
  <1>3. segments \in [1 .. 4 -> 0 .. 255]
    BY DEF BusInv, BusTypeOK
  <1>4. Shown = segments
    BY <1>2, <1>3 DEF Shown
  <1> QED
    BY <1>2, <1>4

(* Whenever a call is over the chip, if it is plugged in, is on and shows   *)
(* the four bytes, whatever transfer a reset had cut before that call.      *)
THEOREM OneCallShows == PanelSpec => []OneCallIsEnough
  <1>1. PanelInv => OneCallIsEnough
    BY ShowsTheSegments DEF PanelInv, OneCallIsEnough
  <1> QED
    BY <1>1, PanelInvariant, PTL

LEMMA ReadableShowsText ==
    ASSUME PanelInv, Readable
    PROVE  /\ Timed /\ Shown = segments
           /\ segments = Text \/ (segments = Blank /\ current.state = "OFF")
  BY ShowsTheSegments, RenderInvIs DEF PanelInv, Readable

(* The four digits tell the state, and no other.                            *)
THEOREM EveryStateCanBeRead == PanelSpec => []StateCanBeRead
  <1>1. PanelInv => StateCanBeRead
    <2> SUFFICES ASSUME PanelInv, Readable, NEW state \in AcState
                 PROVE  LooksLike(state, Shown) <=> state = current.state
      BY DEF StateCanBeRead
    <2>1. /\ Timed /\ Shown = segments
          /\ segments = Text \/ (segments = Blank /\ current.state = "OFF")
      BY ReadableShowsText
    <2>2. CASE segments = Text
      <3>1. LooksLike(state, Text) <=> state = current.state
        BY <2>1, TextHolds
      <3> QED
        BY <2>1, <2>2, <3>1
    <2>3. CASE segments = Blank /\ current.state = "OFF"
      <3>1. LooksLike(state, Blank) <=> state = "OFF"
        BY BlankLooksOff
      <3> QED
        BY <2>1, <2>3, <3>1
    <2> QED
      BY <2>1, <2>2, <2>3
  <1> QED
    BY <1>1, PanelInvariant, PTL

LEMMA NumberIsRead ==
    ASSUME NEW n \in 0 .. 99, NEW leading
    PROVE  n \in NumbersRead(Tens(n, leading), Ones(n), leading)
  <1>1. n \in -9 .. 99 /\ n \in Int
    OBVIOUS
  <1>2. PutTwoDigits(n, leading) = <<Tens(n, leading), Ones(n)>>
    BY <1>1, TwoDigitsAre
  <1> QED
    BY <1>1, <1>2 DEF NumbersRead

(* Division, with a limit on the quotient. *)
LEMMA LimitedQuotient ==
    ASSUME NEW S \in Nat \ {0}, NEW e \in Nat
    PROVE  /\ AtMost(e \div S, 99) \in 0 .. 99
           /\ AtMost(e \div S, 99) * S <= e
           /\ AtMost(e \div S, 99) = 99 \/ e < (AtMost(e \div S, 99) + 1) * S
  <1> DEFINE q == e \div S
             r == e % S
  <1>1. q \in Nat /\ r \in 0 .. S - 1 /\ e = (S * q) + r
    BY DivisionIs
  <1> HIDE DEF q, r
  <1>2. S * q \in Nat /\ S * (q + 1) = S * q + S
    BY <1>1, TimesNext
  <1>3. S * q <= e /\ e < S * (q + 1)
    BY <1>1, <1>2
  <1>4. CASE q <= 99
    <2>1. AtMost(q, 99) = q
      BY <1>1, <1>4 DEF AtMost
    <2>2. q * S = S * q /\ (q + 1) * S = S * (q + 1)
      BY <1>1
    <2>3. q \in 0 .. 99
      BY <1>1, <1>4
    <2> QED
      BY <1>3, <2>1, <2>2, <2>3 DEF q
  <1>5. CASE q > 99
    <2>1. AtMost(q, 99) = 99
      BY <1>1, <1>5 DEF AtMost
    <2>2. S * 99 <= S * q
      BY <1>1, <1>5, TimesGrows
    <2>3. 99 * S <= e
      BY <1>1, <1>2, <1>3, <2>2
    <2> QED
      BY <2>1, <2>3 DEF q
  <1> QED
    BY <1>1, <1>4, <1>5

(* The seconds on the display are right, up to the last number there is,   *)
(* across every wrap-around of App_Millis.                                 *)
THEOREM TheSecondsAreRight == PanelSpec => []SecondsAreRight
  <1>1. PanelInv => SecondsAreRight
    <2> SUFFICES ASSUME PanelInv, Readable, toldMs < ClockMod
                 PROVE  SecondsAreRight
      BY DEF SecondsAreRight
    <2>1. /\ Timed /\ Shown = segments
          /\ segments = Text \/ (segments = Blank /\ current.state = "OFF")
      BY ReadableShowsText
    <2>2. /\ SecondMs \in Nat \ {0} /\ RecoveryWaitMs \in Nat /\ ClockMod \in Nat
          /\ toldMs \in Nat /\ current \in DisplayMsg
      BY <2>1, DisplayAssumption DEF SecondMs, Timed
    <2>3. Text = BuildSegments(current, now, toldMs)
      BY <2>1 DEF Text, Timed
    <2>4. ASSUME current.state = "WINDOW_SUSPECT"
          PROVE  \E n \in NumbersRead(Shown[3], Shown[4], Zero) :
                    n * SecondMs <= toldMs /\ (n = 99 \/ toldMs < (n + 1) * SecondMs)
      <3> DEFINE n == AtMost(toldMs \div SecondMs, 99)
      <3>1. /\ n \in 0 .. 99 /\ n * SecondMs <= toldMs
            /\ n = 99 \/ toldMs < (n + 1) * SecondMs
        BY <2>2, LimitedQuotient
      <3>2. Shown = <<63, 115, Tens(n, 63), Ones(n)>>
        <4>1. BuildSegments(current, now, toldMs) = <<63, 115, Tens(n, 63), Ones(n)>>
          BY <2>2, <2>4, TextIs
        <4> QED
          BY <2>1, <2>3, <2>4, <4>1
      <3> HIDE DEF n
      <3>3. Shown[3] = Tens(n, 63) /\ Shown[4] = Ones(n) /\ Zero = 63
        BY <3>2, CharsAre
      <3>4. n \in NumbersRead(Shown[3], Shown[4], Zero)
        BY <3>1, <3>3, NumberIsRead
      <3> QED
        BY <3>1, <3>4
    <2> DEFINE wait == IF toldMs > RecoveryWaitMs THEN 0 ELSE RecoveryWaitMs - toldMs
    <2>5. ASSUME current.state = "RECOVERY_WAIT"
          PROVE  \E n \in NumbersRead(Shown[3], Shown[4], Zero) :
                    (n = 99 \/ wait <= n * SecondMs) /\ n * SecondMs < wait + SecondMs
      <3> DEFINE w == wait + SecondMs - 1
                 n == AtMost(w \div SecondMs, 99)
      <3>1. wait \in Nat /\ w \in Nat
        BY <2>2
      <3>2. RemainingSeconds(toldMs) = w \div SecondMs
        <4>1. wait = IF toldMs >= RecoveryWaitMs THEN 0 ELSE RecoveryWaitMs - toldMs
          BY <2>2
        <4> QED
          BY <4>1 DEF RemainingSeconds
      <3>3. Shown = <<121, 109, Tens(n, 63), Ones(n)>>
        <4>1. BuildSegments(current, now, toldMs) =
                <<121, 109, Tens(AtMost(RemainingSeconds(toldMs), 99), 63),
                            Ones(AtMost(RemainingSeconds(toldMs), 99))>>
          BY <2>2, <2>5, TextIs
        <4> QED
          BY <2>1, <2>3, <2>5, <3>2, <4>1
      <3> HIDE DEF wait
      <3>4. /\ n \in 0 .. 99 /\ n * SecondMs <= w
            /\ n = 99 \/ w < (n + 1) * SecondMs
        <4>1. w \in Nat
          BY <3>1
        <4> HIDE DEF w
        <4> QED
          BY <2>2, <4>1, LimitedQuotient
      <3> HIDE DEF n
      <3>5. n * SecondMs \in Nat /\ (n + 1) * SecondMs = n * SecondMs + SecondMs
        <4>1. n \in Nat /\ SecondMs \in Nat
          BY <2>2, <3>4
        <4>2. SecondMs * n \in Nat /\ SecondMs * (n + 1) = SecondMs * n + SecondMs
          BY <4>1, TimesNext
        <4>3. n * SecondMs = SecondMs * n /\ (n + 1) * SecondMs = SecondMs * (n + 1)
          BY <4>1
        <4> QED
          BY <4>2, <4>3
      <3>6. (n = 99 \/ wait <= n * SecondMs) /\ n * SecondMs < wait + SecondMs
        <4> DEFINE x == n * SecondMs
                   y == (n + 1) * SecondMs
        <4>1. x \in Nat /\ y = x + SecondMs /\ x <= w /\ (n = 99 \/ w < y)
          BY <3>4, <3>5
        <4> HIDE DEF x, y
        <4>2. (n = 99 \/ wait <= x) /\ x < wait + SecondMs
          BY <2>2, <3>1, <4>1 DEF w
        <4> QED
          BY <4>2 DEF x
      <3>7. Shown[3] = Tens(n, 63) /\ Shown[4] = Ones(n) /\ Zero = 63
        BY <3>3, CharsAre
      <3>8. n \in NumbersRead(Shown[3], Shown[4], Zero)
        BY <3>4, <3>7, NumberIsRead
      <3> QED
        BY <3>6, <3>8
    <2> QED
      BY <2>4, <2>5 DEF SecondsAreRight
  <1> QED
    BY <1>1, PanelInvariant, PTL


(* A pair of digits stands for one number only. *)
LEMMA NumberIsReadAlone ==
    ASSUME NEW n \in -9 .. 99, NEW k \in -9 .. 99,
           Tens(n, 0) = Tens(k, 0), Ones(n) = Ones(k)
    PROVE  n = k
  <1>1. 64 \notin Glyphs /\ 0 \notin Glyphs
    BY DEF Glyphs
  <1>2. ASSUME NEW i \in -9 .. 99
        PROVE  /\ i < 0 => Tens(i, 0) = 64 /\ Ones(i) = DigitSegment[-i] /\ -i \in 0 .. 9
               /\ i >= 0 => Ones(i) = DigitSegment[i % 10] /\ i % 10 \in 0 .. 9
               /\ i \in 0 .. 9 => Tens(i, 0) = 0
               /\ i \in 10 .. 99 => /\ Tens(i, 0) = DigitSegment[i \div 10]
                                    /\ i \div 10 \in 0 .. 9 /\ Tens(i, 0) \in Glyphs
    <2>1. i < 0 => AtMost(-i, 9) = -i /\ -i \in 0 .. 9
      BY DEF AtMost
    <2>2. i >= 0 => AtMost(i, 99) = i /\ i % 10 \in 0 .. 9
      BY DEF AtMost
    <2>3. i < 0 => Tens(i, 0) = 64 /\ Ones(i) = DigitSegment[-i]
      BY <2>1, CharsAre DEF Tens, Ones
    <2>4. i >= 0 => Ones(i) = DigitSegment[i % 10]
      BY <2>2 DEF Ones
    <2>5. i \in 0 .. 9 => Tens(i, 0) = 0
      BY <2>2 DEF Tens
    <2>6. i \in 10 .. 99 => Tens(i, 0) = DigitSegment[i \div 10] /\ i \div 10 \in 0 .. 9
      BY <2>2 DEF Tens
    <2>7. i \in 10 .. 99 => Tens(i, 0) \in Glyphs
      BY <2>6, DigitIs
    <2> QED
      BY <2>1, <2>2, <2>3, <2>4, <2>5, <2>6, <2>7
  <1>3. \A a, b \in 0 .. 9 : DigitSegment[a] = DigitSegment[b] => a = b
    BY DigitsDiffer
  <1>4. CASE n < 0
    <2>1. Tens(n, 0) = 64 /\ Ones(n) = DigitSegment[-n] /\ -n \in 0 .. 9
      BY <1>2, <1>4
    <2>2. ~(k \in 0 .. 9) /\ ~(k \in 10 .. 99)
      BY <1>1, <1>2, <2>1
    <2>3. Ones(k) = DigitSegment[-k] /\ -k \in 0 .. 9
      BY <1>2, <2>2
    <2> DEFINE a == -n
               b == -k
    <2>4. a \in 0 .. 9 /\ b \in 0 .. 9 /\ DigitSegment[a] = DigitSegment[b]
      BY <2>1, <2>3
    <2> HIDE DEF a, b
    <2>5. a = b
      BY <1>3, <2>4
    <2> QED
      BY <2>5 DEF a, b
  <1>5. CASE n \in 0 .. 9
    <2>1. Tens(n, 0) = 0 /\ Ones(n) = DigitSegment[n % 10] /\ n % 10 \in 0 .. 9
      BY <1>2, <1>5
    <2>2. ~(k < 0) /\ ~(k \in 10 .. 99)
      BY <1>1, <1>2, <2>1
    <2>3. Ones(k) = DigitSegment[k % 10] /\ k % 10 \in 0 .. 9
      BY <1>2, <2>2
    <2>4. n % 10 = k % 10
      BY <1>3, <2>1, <2>3
    <2> QED
      BY <1>5, <2>2, <2>4
  <1>6. CASE n \in 10 .. 99
    <2>1. /\ Tens(n, 0) = DigitSegment[n \div 10] /\ n \div 10 \in 0 .. 9
          /\ Ones(n) = DigitSegment[n % 10] /\ n % 10 \in 0 .. 9 /\ Tens(n, 0) \in Glyphs
      BY <1>2, <1>6
    <2>2. ~(k < 0) /\ ~(k \in 0 .. 9)
      BY <1>1, <1>2, <2>1
    <2>3. /\ Tens(k, 0) = DigitSegment[k \div 10] /\ k \div 10 \in 0 .. 9
          /\ Ones(k) = DigitSegment[k % 10] /\ k % 10 \in 0 .. 9
      BY <1>2, <2>2
    <2>4. n % 10 = k % 10 /\ n \div 10 = k \div 10
      BY <1>3, <2>1, <2>3
    <2> QED
      BY <1>6, <2>2, <2>4
  <1> QED
    BY <1>4, <1>5, <1>6

Limited(t) == IF t > 99 THEN 99 ELSE IF t < -9 THEN -9 ELSE t

LEMMA LimitedLooksTheSame ==
    ASSUME NEW t \in Int
    PROVE  /\ Limited(t) \in -9 .. 99
           /\ Tens(t, 0) = Tens(Limited(t), 0) /\ Ones(t) = Ones(Limited(t))
  <1>1. /\ Limited(t) \in -9 .. 99 /\ (t < 0 <=> Limited(t) < 0)
        /\ AtMost(t, 99) = AtMost(Limited(t), 99) \/ t < 0
        /\ t < 0 => AtMost(-t, 9) = AtMost(-Limited(t), 9)
    BY DEF Limited, AtMost
  <1> HIDE DEF Limited
  <1>2. Tens(t, 0) = Tens(Limited(t), 0)
    BY <1>1 DEF Tens
  <1>3. Ones(t) = Ones(Limited(t))
    <2>1. (IF t < 0 THEN AtMost(-t, 9) ELSE AtMost(t, 99) % 10)
            = (IF Limited(t) < 0 THEN AtMost(-Limited(t), 9) ELSE AtMost(Limited(t), 99) % 10)
      BY <1>1
    <2> QED
      BY <2>1 DEF Ones
  <1> QED
    BY <1>1, <1>2, <1>3

(* The temperature on the display is the measured one as far as two digits *)
(* go, and that of a failed sensor is no number.                           *)
THEOREM TheTemperatureCanBeRead == PanelSpec => []TemperatureCanBeRead
  <1>1. PanelInv => TemperatureCanBeRead
    <2> DEFINE t == current.current_temperature_c
               read == NumbersRead(Shown[1], Shown[2], CharSegment.blank)
    <2> SUFFICES ASSUME PanelInv, Readable,
                        current.state \in {"COOLING", "MANUAL_OVERRIDE"}
                 PROVE  read = IF ~current.temperature_valid THEN {} ELSE {Limited(t)}
      BY DEF TemperatureCanBeRead, Limited
    <2>1. Timed /\ Shown = segments /\ segments = Text
      BY ReadableShowsText
    <2>2. current \in DisplayMsg /\ t \in Int
      BY <2>1 DEF Timed, DisplayMsg
    <2> DEFINE e == (now - display_state_since_ms) % ClockMod
    <2>3. e \in Nat
      <3>1. now - display_state_since_ms \in Int /\ ClockMod \in Nat \ {0}
        BY <2>1, DisplayAssumption DEF Timed
      <3>2. e \in 0 .. ClockMod - 1
        BY <3>1, ModType
      <3> QED
        BY <3>1, <3>2
    <2>4. Shown[1] = FirstTwo(current)[1] /\ Shown[2] = FirstTwo(current)[2]
      <3>1. Text = BuildSegments(current, now, e)
        BY DEF Text
      <3> HIDE DEF e
      <3>2. \E c : Text = <<FirstTwo(current)[1], FirstTwo(current)[2], c,
                            DigitSegment[current.cooling_level]>>
        BY <2>2, <2>3, <3>1, TextIs
      <3> QED
        BY <2>1, <3>2
    <2>5. ASSUME NEW k \in -9 .. 99
          PROVE  k \in read <=> Shown[1] = Tens(k, 0) /\ Shown[2] = Ones(k)
      <3>1. PutTwoDigits(k, CharSegment.blank) = <<Tens(k, 0), Ones(k)>>
        <4>1. k \in Int /\ CharSegment.blank = 0
          BY CharsAre
        <4> QED
          BY <4>1, TwoDigitsAre
      <3>2. <<Tens(k, 0), Ones(k)>> = <<Shown[1], Shown[2]>>
                <=> Shown[1] = Tens(k, 0) /\ Shown[2] = Ones(k)
        OBVIOUS
      <3> QED
        BY <3>1, <3>2 DEF NumbersRead
    <2>6. \A k \in read : k \in -9 .. 99
      BY DEF NumbersRead
    <2>7. CASE current.temperature_valid
      <3>1. FirstTwo(current)[1] = Tens(t, 0) /\ FirstTwo(current)[2] = Ones(t)
        BY <2>7 DEF FirstTwo
      <3>2. /\ Limited(t) \in -9 .. 99
            /\ Tens(t, 0) = Tens(Limited(t), 0) /\ Ones(t) = Ones(Limited(t))
        BY <2>2, LimitedLooksTheSame
      <3> HIDE DEF read, t
      <3>3. Limited(t) \in read
        BY <2>4, <2>5, <3>1, <3>2
      <3>4. ASSUME NEW k \in read
            PROVE  k = Limited(t)
        <4>1. k \in -9 .. 99
          BY <2>6
        <4>2. Tens(k, 0) = Tens(Limited(t), 0) /\ Ones(k) = Ones(Limited(t))
          BY <2>4, <2>5, <3>1, <3>2, <4>1
        <4> QED
          BY <3>2, <4>1, <4>2, NumberIsReadAlone, Zenon
      <3>5. read = {Limited(t)}
        BY <3>3, <3>4
      <3> QED
        BY <2>7, <3>5
    <2>8. CASE ~current.temperature_valid
      <3>1. FirstTwo(current)[2] = 64
        BY <2>8 DEF FirstTwo
      <3>2. ASSUME NEW k \in read
            PROVE  FALSE
        <4>1. k \in -9 .. 99 /\ k \in Int
          BY <2>6
        <4>2. Ones(k) = 64
          BY <2>4, <2>5, <3>1, <4>1
        <4>3. Ones(k) \in Glyphs
          BY <4>1, TwoDigitsAre
        <4> QED
          BY <4>2, <4>3 DEF Glyphs
      <3>3. read = {}
        BY <3>2
      <3> HIDE DEF read, t
      <3> QED
        BY <2>8, <3>3
    <2> QED
      BY <2>7, <2>8
  <1> QED
    BY <1>1, PanelInvariant, PTL


(***************************************************************************)
(* What one pin operation may store.                                       *)
(***************************************************************************)
LEMMA StoresOnlyDigits ==
    ASSUME BusInv, NextOperation, UNCHANGED segments, present
    PROVE  \/ chip'.ram = chip.ram
           \/ pc = Boot /\ ~synced /\ StoredByPulse(chip, chip')
           \/ pc = 2 /\ ~synced /\ chip'.ram = [chip.ram EXCEPT ![chip.address] = 64]
           \/ /\ pc \in 6 .. 9
              /\ chip'.ram = [chip.ram EXCEPT ![pc - 6] = segments[pc - 5]]
  <1>1. (pc = Boot \/ pc \in 1 .. 13) /\ step \in 0 .. 28
    BY DEF BusInv, BusTypeOK, NextOperation, Boot
  <1>2. pc = Boot \/ pc \in Starts \/ pc \in Stops \/ pc \in Bytes
    BY <1>1, PartIs
  <1>0. CASE pc = Boot
    BY <1>0, BootSeen, BootOperation DEF BusInv
  <1>3. /\ clk \in BOOLEAN /\ dio \in BOOLEAN /\ clk' \in BOOLEAN /\ dio' \in BOOLEAN
        /\ chip \in Chip /\ Sound(chip)
    <2>1. BusTypeOK'
      BY OperationKeeps DEF BusInv
    <2> QED
      BY <2>1 DEF BusInv, BusTypeOK, FrameInv, Sound
  <1>4. ASSUME clk' = TRUE, chip' = Sees(chip, clk, clk', dio, dio')
        PROVE  chip'.ram = chip.ram
    <2> DEFINE q == Sees(chip, clk, TRUE, dio, dio')
    <2>1. q.ram = chip.ram
      BY <1>3, RiseStoresNothing, Zenon
    <2>2. chip' = q
      BY <1>4
    <2> HIDE DEF q
    <2> QED
      BY <2>1, <2>2
  <1>5. CASE pc \in Starts
    <2>1. /\ chip' = Sees(chip, clk, clk', dio, dio') /\ step \in 0 .. 3
          /\ step = 0 => clk' = clk
          /\ step = 1 => clk' = TRUE
          /\ step = 2 => clk' = clk
          /\ step = 3 => clk' = FALSE /\ dio' = dio
      BY <1>5, StartOperation DEF BusInv
    <2>2. clk /\ clk = TRUE
      BY <1>3, <1>5 DEF BusInv, LevelsInv
    <2>3. CASE step \in 0 .. 2
      <3>1. step = 0 \/ step = 1 \/ step = 2
        BY <2>3
      <3>2. clk' = TRUE
        BY <2>1, <2>2, <3>1, Zenon
      <3> QED
        BY <1>4, <2>1, <3>2
    <2>4. CASE step = 3 /\ chip.ack
      <3>1. chip.active
        BY <1>3, <2>4 DEF Sound
      <3>2. chip' = Sees(chip, TRUE, FALSE, dio, dio)
        BY <2>1, <2>2, <2>4
      <3>3. AckEnded(chip, chip')
        BY <1>3, <2>4, <3>1, <3>2, SeesEndOfAck, Zenon
      <3> QED
        BY <3>3 DEF AckEnded
    <2>5. CASE step = 3 /\ ~chip.ack
      <3>1. chip.count = 0
        BY <1>5, <2>5 DEF BusInv, FrameInv, Receives
      <3>2. ~clk' /\ chip.count # 8
        BY <2>1, <2>5, <3>1
      <3>3. chip' = chip
        BY <1>3, <2>1, <2>2, <2>5, <3>2, SeesNothing, Zenon
      <3> QED
        BY <3>3
    <2> QED
      BY <2>1, <2>3, <2>4, <2>5
  <1>6. CASE pc \in Stops
    <2>1. /\ chip' = Sees(chip, clk, clk', dio, dio') /\ step \in 0 .. 3
          /\ step = 0 => clk' = FALSE
          /\ step = 1 => clk' = clk
          /\ step = 2 => clk' = TRUE
          /\ step = 3 => clk' = clk
      BY <1>6, StopOperation DEF BusInv
    <2>2. clk <=> step = 3
      BY <1>6 DEF BusInv, LevelsInv
    <2>3. CASE step \in 0 .. 1
      <3>1. ~clk /\ clk = FALSE
        BY <1>3, <2>2, <2>3
      <3>2. ~clk'
        BY <2>1, <2>3, <3>1
      <3>3. chip' = chip
        BY <1>3, <2>1, <3>1, <3>2, SeesNothing, Zenon
      <3> QED
        BY <3>3
    <2>4. CASE step \in 2 .. 3
      <3>1. clk' = TRUE
        BY <1>3, <2>1, <2>2, <2>4
      <3> QED
        BY <1>4, <2>1, <3>1
    <2> QED
      BY <2>1, <2>3, <2>4
  <1>7. CASE pc \in Bytes
    <2>1. CASE step < 24 /\ step % 3 # 2
      <3>1. chip' = chip
        BY <1>7, <2>1, ByteSeen
      <3> QED
        BY <3>1
    <2>2. CASE step < 24 /\ step % 3 = 2
      <3>1. BitTaken(chip, BitOf(ByteOf(pc), step \div 3), chip')
        BY <1>7, <2>2, ByteSeen
      <3> QED
        BY <3>1 DEF BitTaken
    <2>3. CASE step = 24
      <3>1. /\ chip.value = ByteOf(pc)
            /\ \/ (pc \in 6 .. 9 \/ (pc = 2 /\ ~synced)) /\ DigitTaken(chip, chip')
               \/ CommandTaken(chip, chip')
        BY <1>7, <2>3, ByteSeen
      <3>2. CASE pc \in 6 .. 9 /\ DigitTaken(chip, chip')
        <4>1. chip.address = pc - 6
          BY <2>3, <3>2 DEF BusInv, ContentInv, Written
        <4>2. chip.value = segments[pc - 5]
          BY <3>1, <3>2 DEF ByteOf
        <4> QED
          BY <3>2, <4>1, <4>2 DEF DigitTaken
      <3>3. CASE CommandTaken(chip, chip')
        BY <3>3 DEF CommandTaken
      <3>4. CASE pc = 2 /\ ~synced /\ DigitTaken(chip, chip')
        <4>1. chip.value = 64
          BY <3>1, <3>4 DEF ByteOf
        <4> QED
          BY <3>4, <4>1 DEF DigitTaken
      <3> QED
        BY <3>1, <3>2, <3>3, <3>4
    <2>4. CASE step \in {25, 26, 27}
      <3>1. chip' = chip
        BY <1>7, <2>4, ByteSeen
      <3> QED
        BY <3>1
    <2>5. CASE step = 28
      <3>1. AckEnded(chip, chip')
        BY <1>7, <2>5, ByteSeen
      <3> QED
        BY <3>1 DEF AckEnded
    <2> QED
      BY <1>1, <2>1, <2>2, <2>3, <2>4, <2>5
  <1> QED
    BY <1>0, <1>2, <1>5, <1>6, <1>7

(* A store at one address changes no other. *)
LEMMA OneIsChanged ==
    ASSUME NEW f \in [0 .. 5 -> 0 .. 255], NEW x \in 0 .. 5, NEW v, NEW g,
           g = [f EXCEPT ![x] = v], NEW a \in 0 .. 5, g[a] # f[a]
    PROVE  a = x /\ g[a] = v
  OBVIOUS

(* What a digit, or an address beyond the digits, may be changed to.       *)
LEMMA OldOrNew ==
    ASSUME chip \in Chip, NEW a \in 0 .. 5, chip'.ram[a] # chip.ram[a],
           \/ pc = Boot /\ ~synced /\ StoredByPulse(chip, chip')
           \/ pc = 2 /\ ~synced /\ chip'.ram = [chip.ram EXCEPT ![chip.address] = 64]
           \/ /\ pc \in 6 .. 9
              /\ chip'.ram = [chip.ram EXCEPT ![pc - 6] = segments[pc - 5]]
    PROVE  \/ a < 4 /\ chip'.ram[a] = segments[a + 1]
           \/ ~synced /\ StoredByBoot(chip'.ram[a])
           \/ ~synced /\ CommandAsDigit(chip'.ram[a])
  <1>1. chip.ram \in [0 .. 5 -> 0 .. 255] /\ chip.address \in 0 .. 5
    BY DEF Chip
  <1>2. CASE pc = Boot /\ ~synced /\ StoredByPulse(chip, chip')
    <2>1. chip'.ram[a] = chip.value /\ chip.value >= 128
      BY <1>1, <1>2, OneIsChanged DEF StoredByPulse
    <2> QED
      BY <1>2, <2>1 DEF StoredByBoot
  <1>3. CASE pc = 2 /\ ~synced /\ chip'.ram = [chip.ram EXCEPT ![chip.address] = 64]
    <2>1. chip'.ram[a] = 64
      BY <1>1, <1>3, OneIsChanged
    <2> QED
      BY <1>3, <2>1 DEF CommandAsDigit
  <1>4. CASE /\ pc \in 6 .. 9
             /\ chip'.ram = [chip.ram EXCEPT ![pc - 6] = segments[pc - 5]]
    <2>1. pc - 6 \in 0 .. 5
      BY <1>4
    <2>2. a = pc - 6 /\ chip'.ram[a] = segments[pc - 5]
      BY <1>1, <1>4, <2>1, OneIsChanged
    <2>3. a < 4 /\ a + 1 = pc - 5
      BY <1>4, <2>2
    <2> QED
      BY <2>2, <2>3
  <1> QED
    BY <1>2, <1>3, <1>4

(***************************************************************************)
(* Every change of a digit, in a call, in the pulse of a boot or by a      *)
(* reset anywhere: it is to what the digit is to show, and only between a  *)
(* reset and the end of the first call can it be a byte that the pulse     *)
(* completed, with its dot, or the 64 of the first command.                *)
(***************************************************************************)
THEOREM DigitsOldOrNew == PanelSpec => DigitsAreOldOrNew
  <1>1. PanelInv /\ [PanelNext]_panelVars
            => [present =>
                  \A a \in 0 .. 5 : chip'.ram[a] # chip.ram[a] =>
                     \/ a < 4 /\ chip'.ram[a] = segments[a + 1]
                     \/ ~synced /\ StoredByBoot(chip'.ram[a])
                     \/ ~synced /\ CommandAsDigit(chip'.ram[a])]_<<segments, busVars>>
    <2> SUFFICES ASSUME PanelInv, [PanelNext]_panelVars, present,
                        NEW a \in 0 .. 5, chip'.ram[a] # chip.ram[a]
                 PROVE  \/ a < 4 /\ chip'.ram[a] = segments[a + 1]
                        \/ ~synced /\ StoredByBoot(chip'.ram[a])
                        \/ ~synced /\ CommandAsDigit(chip'.ram[a])
      OBVIOUS
    <2>1. BusInv /\ chip \in Chip
      BY DEF PanelInv, BusInv, BusTypeOK
    <2>2. CASE Iterate
      BY <2>2 DEF Iterate, Call
    <2>3. CASE Transfer
      <3>1. \/ pc = Boot /\ ~synced /\ StoredByPulse(chip, chip')
            \/ pc = 2 /\ ~synced /\ chip'.ram = [chip.ram EXCEPT ![chip.address] = 64]
            \/ /\ pc \in 6 .. 9
               /\ chip'.ram = [chip.ram EXCEPT ![pc - 6] = segments[pc - 5]]
        BY <2>1, <2>3, StoresOnlyDigits DEF Transfer
      <3> QED
        BY <2>1, <3>1, OldOrNew
    <2>4. CASE Restart
      BY <2>1, <2>4, ResetStoresNothing DEF Restart
    <2>5. CASE UNCHANGED panelVars
      BY <2>5 DEF panelVars, busVars
    <2> QED
      BY <2>2, <2>3, <2>4, <2>5 DEF PanelNext
  <1> QED
    BY <1>1, PanelInvariant, PTL DEF PanelSpec, DigitsAreOldOrNew

(***************************************************************************)
(* Whichever call it is that ends, its seven answers, or none, tell        *)
(* whether the module is there.                                            *)
(***************************************************************************)
THEOREM TheAcksTellThePlug == PanelSpec => AckTellsThePlug
  <1>1. PanelInv /\ PanelInv' /\ [PanelNext]_panelVars
            => [pc # 0 /\ pc' = 0
                  => Tm1637AckCount' = (IF present THEN 7 ELSE 0)]_<<segments, busVars>>
    <2> SUFFICES ASSUME PanelInv, PanelInv', [PanelNext]_panelVars, pc # 0, pc' = 0
                 PROVE  \/ acks' = (IF present THEN 7 ELSE 0)
                        \/ UNCHANGED <<segments, busVars>>
      BY DEF Tm1637AckCount
    <2>1. CASE present' = present
      <3>1. /\ ~present' => acks' = 0
            /\ present' => acks' = BytesBefore(pc') + (IF pc' \in Bytes /\ step' = 28 THEN 1 ELSE 0)
        BY DEF PanelInv, BusInv, AckInv
      <3>2. BytesBefore(pc') = 7 /\ pc' \notin Bytes
        BY BytesAre DEF Bytes
      <3> QED
        BY <2>1, <3>1, <3>2
    <2>2. CASE Iterate \/ Restart
      BY <2>2 DEF Iterate, Call, Restart, Reset, Boot
    <2>3. CASE Transfer
      BY <2>1, <2>3 DEF Transfer, NextOperation
    <2>4. CASE UNCHANGED panelVars
      BY <2>4 DEF panelVars
    <2> QED
      BY <2>2, <2>3, <2>4 DEF PanelNext
  <1> QED
    BY <1>1, PanelInvariant, PTL DEF PanelSpec, AckTellsThePlug
=============================================================================
