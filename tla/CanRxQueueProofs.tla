--------------------------- MODULE CanRxQueueProofs ---------------------------
(***************************************************************************)
(* The receive queue implements a bounded FIFO for every depth, every set  *)
(* of frames and every width of the drop counter.                          *)
(***************************************************************************)
EXTENDS CanRxQueue, SequenceTheorems, TLAPS

-------------------------------------------------------------------------------
\* Arithmetic of the ring.

\* The modulo of the code only ever wraps the last slot back to the first.
LEMMA NextSlotValue ==
  ASSUME NEW i \in Slots
  PROVE  NextSlot(i) = IF i = Depth THEN 0 ELSE i + 1
<1>1. CASE i = Depth
  <2>1. (Depth + 1) % (Depth + 1) = 0
    BY QueueAssumption
  <2> QED BY <1>1, <2>1 DEF NextSlot
<1>2. CASE i # Depth
  <2>1. i + 1 \in 0..Depth
    BY <1>2, QueueAssumption DEF Slots
  <2>2. (i + 1) % (Depth + 1) = i + 1
    BY <2>1, QueueAssumption
  <2> QED BY <1>2, <2>2 DEF NextSlot
<1> QED BY <1>1, <1>2

\* The drop counter stays inside its width.
LEMMA DroppedRange ==
  ASSUME NEW n \in 0..(DroppedMod - 1)
  PROVE  (n + 1) % DroppedMod \in 0..(DroppedMod - 1)
BY QueueAssumption

-------------------------------------------------------------------------------
\* The inductive invariant: between its emptiness test and its update of tail,
\* CanRxQueue_Pop owns the slot at tail, and what it copied so far is that slot.

PopOwnsTail ==
  /\ pc # "idle" => index = tail /\ head # tail
  /\ pc \in {"copyPayload", "release"} => frame.id = frames[index].id
  /\ pc = "release" => frame.payload = frames[index].payload

IInv == TypeOK /\ PopOwnsTail

LEMMA InitIInv == Init => IInv
BY QueueAssumption
   DEF Init, IInv, TypeOK, PopOwnsTail, Slots, Blank, Cell

LEMMA NextIInv == IInv /\ [Next]_vars => IInv'
<1> SUFFICES ASSUME IInv, [Next]_vars PROVE IInv'
  OBVIOUS
<1> USE DEF IInv
<1>1. ASSUME NEW f \in Frames \cup {Malformed}, Push(f) PROVE IInv'
  <2>1. CASE CanStore(f) /\ StoreFrame(f)
    <3>1. /\ f \in Frames
          /\ NextSlot(head) \in Slots
          /\ NextSlot(head) # tail
      BY <2>1, NextSlotValue, QueueAssumption DEF CanStore, TypeOK, Slots
    <3>2. /\ frames' = [frames EXCEPT ![head] = f]
          /\ head' = NextSlot(head)
          /\ UNCHANGED <<tail, dropped, pc, index, frame, popped>>
          /\ offered' = f
      BY <1>1, <2>1 DEF Push, StoreFrame, consumer
    <3>3. f \in Cell
      BY <3>1 DEF Frames, Cell
    <3>4. TypeOK'
      BY <3>1, <3>2, <3>3 DEF TypeOK
    <3>5. pc # "idle" => frames'[index] = frames[index]
      BY <3>2 DEF TypeOK, PopOwnsTail
    <3>6. PopOwnsTail'
      BY <3>1, <3>2, <3>5 DEF PopOwnsTail
    <3> QED BY <3>4, <3>6
  <2>2. CASE ~CanStore(f) /\ CountDrop
    BY <1>1, <2>2, DroppedRange
       DEF Push, CountDrop, consumer, TypeOK, PopOwnsTail
  <2> QED BY <1>1, <2>1, <2>2 DEF Push
<1>2. CASE PopBegin
  BY <1>2 DEF PopBegin, ring, TypeOK, PopOwnsTail
<1>3. CASE PopCopyId
  BY <1>3 DEF PopCopyId, ring, TypeOK, PopOwnsTail, Cell
<1>4. CASE PopCopyPayload
  BY <1>4 DEF PopCopyPayload, ring, TypeOK, PopOwnsTail, Cell
<1>5. CASE PopRelease
  <2>1. NextSlot(index) \in Slots
    BY NextSlotValue, QueueAssumption DEF TypeOK, Slots
  <2> QED BY <1>5, <2>1 DEF PopRelease, TypeOK, PopOwnsTail
<1>6. CASE Reset
  BY <1>6, QueueAssumption DEF Reset, consumer, TypeOK, PopOwnsTail, Slots
<1>7. CASE UNCHANGED vars
  BY <1>7 DEF vars, ring, consumer, TypeOK, PopOwnsTail
<1> QED
  BY <1>1, <1>2, <1>3, <1>4, <1>5, <1>6, <1>7 DEF Next, Pop

LEMMA InvariantHolds == Spec => []IInv
BY InitIInv, NextIInv, PTL DEF Spec

\* The fields of the queue and the locals of CanRxQueue_Pop keep their ranges.
THEOREM TypeCorrect == Spec => []TypeOK
<1>1. IInv => TypeOK
  BY DEF IInv
<1> QED BY <1>1, InvariantHolds, PTL

-------------------------------------------------------------------------------
\* A receive interrupt never writes to the slot CanRxQueue_Pop is copying.
THEOREM ReadSlotStable == Spec => SlotBeingReadIsStable
<1>1. IInv /\ [Next]_vars => [pc # "idle" => frames'[index] = frames[index]]_vars
  <2> SUFFICES ASSUME IInv, Next, pc # "idle"
               PROVE  frames'[index] = frames[index]
    OBVIOUS
  <2> USE DEF IInv
  <2>1. ASSUME NEW f \in Frames \cup {Malformed}, Push(f)
        PROVE  frames'[index] = frames[index]
    BY <2>1 DEF Push, StoreFrame, CountDrop, TypeOK, PopOwnsTail
  <2>2. CASE Pop
    BY <2>2 DEF Pop, PopBegin, PopCopyId, PopCopyPayload, PopRelease, ring
  <2>3. CASE Reset
    BY <2>3 DEF Reset
  <2> QED BY <2>1, <2>2, <2>3 DEF Next
<1> QED BY <1>1, InvariantHolds, PTL DEF Spec, SlotBeingReadIsStable

-------------------------------------------------------------------------------
\* The refinement mapping.

LEMMA CountRange ==
  ASSUME TypeOK
  PROVE  /\ Count \in 0..Depth
         /\ Count = 0 <=> head = tail
         /\ NextSlot(head) = tail <=> Count = Depth
<1>1. Depth \in Nat \ {0} /\ head \in 0..Depth /\ tail \in 0..Depth
  BY QueueAssumption DEF TypeOK, Slots
<1>2. NextSlot(head) = IF head = Depth THEN 0 ELSE head + 1
  BY NextSlotValue DEF TypeOK
<1> QED BY <1>1, <1>2 DEF Count

LEMMA WaitingIsSeq ==
  ASSUME TypeOK
  PROVE  /\ Waiting \in Seq(Cell)
         /\ Len(Waiting) = Count
         /\ \A k \in 1..Count : Waiting[k] = frames[SlotAt(k - 1)]
<1>1. Count \in Nat /\ Count <= Depth
  BY CountRange, QueueAssumption
<1>2. \A k \in 1..Count : SlotAt(k - 1) \in Slots
  BY <1>1, QueueAssumption DEF SlotAt, Slots, TypeOK
<1>3. \A k \in 1..Count : frames[SlotAt(k - 1)] \in Cell
  BY <1>2 DEF TypeOK
<1>4. Waiting \in [1..Count -> Cell]
  BY <1>3 DEF Waiting
<1>5. Waiting \in Seq(Cell)
  BY <1>1, <1>4
<1>6. Len(Waiting) = Count
  BY <1>1, <1>4, <1>5
<1> QED BY <1>5, <1>6 DEF Waiting

\* Storing a frame appends it to the waiting frames.
LEMMA StoreAppends ==
  ASSUME TypeOK, TypeOK', NEW f \in Frames, CanStore(f), StoreFrame(f)
  PROVE  Waiting' = Append(Waiting, f)
<1>1. /\ Depth \in Nat \ {0}
      /\ head \in 0..Depth /\ tail \in 0..Depth
      /\ tail' = tail
      /\ head' = IF head = Depth THEN 0 ELSE head + 1
      /\ head' # tail
  BY NextSlotValue, QueueAssumption DEF TypeOK, Slots, CanStore, StoreFrame
<1>2. Count \in 0..Depth /\ Count' = Count + 1
  BY <1>1 DEF Count
<1>3. SlotAt(Count) = head
  BY <1>1 DEF SlotAt, Count
<1>4. \A k \in 1..Count : SlotAt(k - 1) \in Slots /\ SlotAt(k - 1) # head
  BY <1>1 DEF SlotAt, Count, Slots
<1>5. \A k \in 1..(Count + 1) : SlotAt(k - 1)' = SlotAt(k - 1)
  BY <1>1 DEF SlotAt
<1>6. frames' = [frames EXCEPT ![head] = f] /\ head \in Slots
  BY DEF StoreFrame, TypeOK
<1>7. \A k \in 1..Count : frames'[SlotAt(k - 1)] = frames[SlotAt(k - 1)]
  BY <1>4, <1>6 DEF TypeOK
<1>8. frames'[SlotAt(Count)] = f
  BY <1>3, <1>6 DEF TypeOK
<1>9. Waiting' = [k \in 1..(Count + 1) |-> frames'[SlotAt(k - 1)]]
  BY <1>2, <1>5 DEF Waiting
<1>10. Waiting' = [k \in 1..(Count + 1) |-> IF k = Count + 1 THEN f ELSE Waiting[k]]
  BY <1>2, <1>7, <1>8, <1>9 DEF Waiting
<1>11. Waiting \in Seq(Cell) /\ Len(Waiting) = Count
  BY WaitingIsSeq
<1>12. f \in Cell
  BY DEF Frames, Cell
<1>13. Waiting' \in Seq(Cell) /\ Len(Waiting') = Count + 1
  <2>1. \A k \in 1..(Count + 1) : (IF k = Count + 1 THEN f ELSE Waiting[k]) \in Cell
    BY <1>2, <1>11, <1>12, ElementOfSeq
  <2>2. Waiting' \in [1..(Count + 1) -> Cell]
    BY <1>10, <2>1
  <2> QED BY <1>2, <2>2
<1>14. Append(Waiting, f) \in Seq(Cell) /\ Len(Append(Waiting, f)) = Count + 1
  BY <1>11, <1>12, AppendProperties
<1>15. \A k \in 1..(Count + 1) : Waiting'[k] = Append(Waiting, f)[k]
  BY <1>2, <1>10, <1>11, <1>12, AppendProperties
<1> QED BY <1>13, <1>14, <1>15, SeqEqual

\* Releasing the slot at tail removes the oldest waiting frame.
LEMMA ReleaseTakes ==
  ASSUME IInv, TypeOK', PopRelease
  PROVE  /\ Waiting # <<>>
         /\ popped' = Head(Waiting)
         /\ Waiting' = Tail(Waiting)
<1>1. /\ Depth \in Nat \ {0}
      /\ head \in 0..Depth /\ tail \in 0..Depth
      /\ tail # head
      /\ index = tail
      /\ head' = head /\ frames' = frames
      /\ tail' = IF tail = Depth THEN 0 ELSE tail + 1
      /\ popped' = frame
  BY NextSlotValue, QueueAssumption DEF IInv, TypeOK, PopOwnsTail, Slots, PopRelease
<1>2. Count \in 1..Depth /\ Count' = Count - 1
  BY <1>1 DEF Count
<1>3. Waiting \in Seq(Cell) /\ Len(Waiting) = Count
  BY WaitingIsSeq DEF IInv
<1>4. Waiting # <<>>
  BY <1>2, <1>3
<1>5. Waiting[1] = frames[tail]
  BY <1>1, <1>2, WaitingIsSeq DEF SlotAt, IInv
<1>6. frame = frames[tail]
  <2>1. frame \in Cell /\ frames[tail] \in Cell
    BY DEF IInv, TypeOK
  <2>2. frame.id = frames[tail].id /\ frame.payload = frames[tail].payload
    BY <1>1 DEF IInv, PopOwnsTail, PopRelease
  <2> QED BY <2>1, <2>2 DEF Cell
<1>7. popped' = Head(Waiting)
  BY <1>1, <1>3, <1>4, <1>5, <1>6
<1>8. \A k \in 1..(Count - 1) : SlotAt(k - 1)' = SlotAt(k)
  BY <1>1, <1>2 DEF SlotAt
<1>9. Waiting' = [k \in 1..(Count - 1) |-> frames[SlotAt(k)]]
  BY <1>1, <1>2, <1>8 DEF Waiting
<1>10. \A k \in 1..(Count - 1) : Waiting[k + 1] = frames[SlotAt(k)]
  BY <1>2, WaitingIsSeq DEF IInv
<1>11. Waiting' = [k \in 1..(Count - 1) |-> Waiting[k + 1]]
  BY <1>9, <1>10
<1>12. Waiting' \in Seq(Cell) /\ Len(Waiting') = Count - 1
  <2>1. \A k \in 1..(Count - 1) : Waiting[k + 1] \in Cell
    BY <1>2, <1>3, ElementOfSeq
  <2>2. Waiting' \in [1..(Count - 1) -> Cell]
    BY <1>11, <2>1
  <2> QED BY <1>2, <2>2
<1>13. /\ Tail(Waiting) \in Seq(Cell)
       /\ Len(Tail(Waiting)) = Count - 1
       /\ \A k \in 1..(Count - 1) : Tail(Waiting)[k] = Waiting[k + 1]
  BY <1>3, <1>4, HeadTailProperties
<1>14. Waiting' = Tail(Waiting)
  <2>1. \A k \in 1..Len(Waiting') : Waiting'[k] = Tail(Waiting)[k]
    BY <1>11, <1>12, <1>13
  <2> QED BY <1>12, <1>13, <2>1, SeqEqual
<1> QED BY <1>4, <1>7, <1>14

LEMMA EmptyWaiting ==
  ASSUME TypeOK, head = tail
  PROVE  Waiting = <<>>
BY CountRange, WaitingIsSeq

-------------------------------------------------------------------------------
\* Every step of the queue is a step of the FIFO or leaves it unchanged.
LEMMA StepRefines == IInv /\ IInv' /\ [Next]_vars => [Fifo!Next]_(Fifo!vars)
<1> SUFFICES ASSUME IInv, IInv', [Next]_vars PROVE [Fifo!Next]_(Fifo!vars)
  OBVIOUS
<1> USE DEF IInv
<1>1. ASSUME NEW f \in Frames \cup {Malformed}, Push(f) PROVE Fifo!Next
  <2>1. CASE CanStore(f) /\ StoreFrame(f)
    <3>1. f \in Frames
      BY <2>1 DEF CanStore
    <3>2. Len(Waiting) < Depth
      BY <2>1, CountRange, WaitingIsSeq, QueueAssumption DEF CanStore
    <3>3. Waiting' = Append(Waiting, f)
      BY <2>1, <3>1, StoreAppends
    <3>4. Fifo!Accept(f)
      BY <1>1, <2>1, <3>1, <3>2, <3>3 DEF Fifo!Accept, Push, StoreFrame
    <3> QED BY <3>4 DEF Fifo!Next
  <2>2. CASE ~CanStore(f) /\ CountDrop
    <3>1. f = Malformed \/ Len(Waiting) = Depth
      BY <2>2, CountRange, WaitingIsSeq DEF CanStore
    <3>2. Waiting' = Waiting
      BY <2>2 DEF CountDrop, Waiting, Count, SlotAt
    <3>3. Fifo!Refuse(f)
      BY <1>1, <2>2, <3>1, <3>2 DEF Fifo!Refuse, Push, CountDrop
    <3> QED BY <3>3 DEF Fifo!Next
  <2> QED BY <1>1, <2>1, <2>2 DEF Push
<1>2. ASSUME PopBegin \/ PopCopyId \/ PopCopyPayload \/ UNCHANGED vars
      PROVE  UNCHANGED Fifo!vars
  <2>1. UNCHANGED <<ring, offered, popped>>
    BY <1>2 DEF PopBegin, PopCopyId, PopCopyPayload, vars
  <2>2. Waiting' = Waiting
    BY <2>1 DEF ring, Waiting, Count, SlotAt
  <2> QED BY <2>1, <2>2 DEF Fifo!vars, ring
<1>3. CASE PopRelease
  <2>1. /\ Waiting # <<>>
        /\ popped' = Head(Waiting)
        /\ Waiting' = Tail(Waiting)
    BY <1>3, ReleaseTakes
  <2>2. Fifo!Take
    BY <1>3, <2>1 DEF Fifo!Take, PopRelease
  <2> QED BY <2>2 DEF Fifo!Next
<1>4. CASE Reset
  <2>1. Waiting' = <<>>
    <3>1. Count' = 0
      BY <1>4 DEF Reset, Count
    <3> QED BY <3>1 DEF Waiting
  <2>2. Fifo!Clear
    BY <1>4, <2>1 DEF Fifo!Clear, Reset
  <2> QED BY <2>2 DEF Fifo!Next
<1> QED
  BY <1>1, <1>2, <1>3, <1>4 DEF Next, Pop

\* The ring of can_rx_queue.c is a bounded FIFO of Depth frames, for every
\* depth and every interleaving of the interrupt with the main loop.
THEOREM ImplementsFifo == Spec => FifoSpec
<1>1. Init => Fifo!Init
  <2> SUFFICES ASSUME Init PROVE Fifo!Init
    OBVIOUS
  <2>1. TypeOK /\ head = tail
    BY InitIInv DEF IInv, Init
  <2> QED BY <2>1, EmptyWaiting DEF Init, Fifo!Init
<1> QED
  BY <1>1, StepRefines, InvariantHolds, PTL DEF Spec, FifoSpec, Fifo!Spec
===============================================================================
