------------------------------ MODULE CanRxQueue ------------------------------
(***************************************************************************)
(* The single-producer single-consumer ring between the CAN receive        *)
(* interrupt and the main loop (firmware/common/can_rx_queue.c).           *)
(*                                                                         *)
(* Push runs inside the interrupt: on a single core the main loop cannot   *)
(* run in the middle of it, so it is one action.  Pop runs in the main     *)
(* loop and is pre-empted between any two of its memory accesses: its      *)
(* emptiness test, the two halves of the structure copy and the update of  *)
(* tail are separate actions.                                              *)
(***************************************************************************)
EXTENDS Integers, Sequences

CONSTANTS
  Depth,        \* CAN_RX_QUEUE_DEPTH
  Ids,          \* CAN identifiers
  Payloads,     \* length and data bytes
  Malformed,    \* a frame whose length exceeds CAN_RX_QUEUE_MAX_DATA
  Nothing,      \* contents of a location nothing was written to yet
  DroppedMod    \* width of the dropped counter, 2^32

ASSUME QueueAssumption ==
  /\ Depth \in Nat \ {0}
  /\ DroppedMod \in Nat \ {0}
  /\ Malformed \notin [id : Ids, payload : Payloads]

VARIABLES
  frames, head, tail, dropped,   \* the fields of CanRxQueue_t
  offered,                       \* argument of the most recent Push
  pc, index, frame,              \* Pop: control, its local, and *frame
  popped                         \* the frame the last successful Pop returned

ring == <<frames, head, tail, dropped>>
consumer == <<pc, index, frame>>
vars == <<ring, offered, consumer, popped>>

Frames == [id : Ids, payload : Payloads]
Slots == 0..Depth
Blank == [id |-> Nothing, payload |-> Nothing]
Cell == [id : Ids \cup {Nothing}, payload : Payloads \cup {Nothing}]

NextSlot(i) == (i + 1) % (Depth + 1)

Init ==
  /\ frames = [i \in Slots |-> Blank]
  /\ head = 0
  /\ tail = 0
  /\ dropped = 0
  /\ offered = Nothing
  /\ pc = "idle"
  /\ index = 0
  /\ frame = Blank
  /\ popped = Nothing

-------------------------------------------------------------------------------
\* CanRxQueue_Push, called by the receive interrupt.

CountDrop ==
  /\ dropped' = (dropped + 1) % DroppedMod
  /\ UNCHANGED <<frames, head, tail>>

StoreFrame(f) ==
  /\ frames' = [frames EXCEPT ![head] = f]
  /\ head' = NextSlot(head)
  /\ UNCHANGED <<tail, dropped>>

CanStore_unchecked(f) == f # Malformed
CanStore(f) == f # Malformed /\ NextSlot(head) # tail

Push(f) ==
  /\ offered' = f
  /\ \/ CanStore(f) /\ StoreFrame(f)
     \/ ~CanStore(f) /\ CountDrop
  /\ UNCHANGED <<consumer, popped>>

-------------------------------------------------------------------------------
\* CanRxQueue_Pop, called by the main loop; a Push may occur between its steps.

PopBegin ==
  /\ pc = "idle"
  /\ head # tail
  /\ index' = tail
  /\ pc' = "copyId"
  /\ UNCHANGED <<ring, offered, frame, popped>>

PopCopyId ==
  /\ pc = "copyId"
  /\ frame' = [frame EXCEPT !.id = frames[index].id]
  /\ pc' = "copyPayload"
  /\ UNCHANGED <<ring, offered, index, popped>>

PopCopyPayload ==
  /\ pc = "copyPayload"
  /\ frame' = [frame EXCEPT !.payload = frames[index].payload]
  /\ pc' = "release"
  /\ UNCHANGED <<ring, offered, index, popped>>

PopRelease ==
  /\ pc = "release"
  /\ tail' = NextSlot(index)
  /\ popped' = frame
  /\ pc' = "idle"
  /\ UNCHANGED <<frames, head, dropped, offered, index, frame>>

Pop == PopBegin \/ PopCopyId \/ PopCopyPayload \/ PopRelease

\* CanRxQueue_Init, called by the main loop (CanDriver_Init, CanDriver_Recover)
\* while the controller is in reset, so no Push can pre-empt it.
Reset ==
  /\ pc = "idle"
  /\ head' = 0
  /\ tail' = 0
  /\ dropped' = 0
  /\ UNCHANGED <<frames, offered, consumer, popped>>

Next ==
  \/ \E f \in Frames \cup {Malformed} : Push(f)
  \/ Pop
  \/ Reset

Spec == Init /\ [][Next]_vars

-------------------------------------------------------------------------------
\* The frames waiting, oldest first: the refinement mapping.

Count == IF head >= tail THEN head - tail ELSE head + (Depth + 1) - tail

SlotAt(k) == IF tail + k <= Depth THEN tail + k ELSE tail + k - (Depth + 1)

Waiting == [k \in 1..Count |-> frames[SlotAt(k - 1)]]

Fifo == INSTANCE BoundedFifo
          WITH q <- Waiting, lost <- dropped, out <- popped,
               Capacity <- Depth, CounterMod <- DroppedMod

\* The queue implements the bounded FIFO, whatever the interleaving of the
\* interrupt with the steps of CanRxQueue_Pop: no frame is reordered, altered,
\* duplicated or lost without being counted, and none is refused early.
FifoSpec == Fifo!Spec

\* Type invariant of the queue and of CanRxQueue_Pop's locals.
TypeOK ==
  /\ frames \in [Slots -> Cell]
  /\ head \in Slots
  /\ tail \in Slots
  /\ dropped \in 0..(DroppedMod - 1)
  /\ offered \in Frames \cup {Malformed, Nothing}
  /\ pc \in {"idle", "copyId", "copyPayload", "release"}
  /\ index \in Slots
  /\ frame \in Cell
  /\ popped \in Cell \cup {Nothing}

\* While CanRxQueue_Pop copies a slot, no interrupt writes to it: the structure
\* copy `*frame = queue->frames[index]` can never mix two frames.
SlotBeingReadIsStable ==
  [][pc # "idle" => frames'[index] = frames[index]]_vars
===============================================================================
