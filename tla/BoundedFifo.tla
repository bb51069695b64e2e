----------------------------- MODULE BoundedFifo -----------------------------
(***************************************************************************)
(* What a receive queue promises to the CAN driver: frames come out in the *)
(* order they went in, each exactly once and unaltered; a frame is refused *)
(* only when it is malformed or when Capacity frames are already waiting,  *)
(* and every refusal is counted.  CanRxQueue implements this module.       *)
(***************************************************************************)
EXTENDS Naturals, Sequences

CONSTANTS
  Frames,      \* well-formed frames
  Malformed,   \* the frame the producer may offer but no queue accepts
  Nothing,     \* before anything was offered or taken
  Capacity,    \* frames that may wait
  CounterMod   \* width of the refusal counter

VARIABLES
  q,         \* frames waiting, oldest first
  lost,      \* refusals, modulo CounterMod
  offered,   \* the frame most recently offered
  out        \* the frame most recently taken

vars == <<q, lost, offered, out>>

Init ==
  /\ q = <<>>
  /\ lost = 0
  /\ offered = Nothing
  /\ out = Nothing

Accept(f) ==
  /\ f \in Frames
  /\ Len(q) < Capacity
  /\ q' = Append(q, f)
  /\ offered' = f
  /\ UNCHANGED <<lost, out>>

Refuse(f) ==
  /\ f = Malformed \/ Len(q) = Capacity
  /\ lost' = (lost + 1) % CounterMod
  /\ offered' = f
  /\ UNCHANGED <<q, out>>

Take ==
  /\ q # <<>>
  /\ out' = Head(q)
  /\ q' = Tail(q)
  /\ UNCHANGED <<lost, offered>>

\* The driver re-initialises its queues when it recovers the controller.
Clear ==
  /\ q' = <<>>
  /\ lost' = 0
  /\ UNCHANGED <<offered, out>>

Next ==
  \/ \E f \in Frames \cup {Malformed} : Accept(f) \/ Refuse(f)
  \/ Take
  \/ Clear

Spec == Init /\ [][Next]_vars
==============================================================================
