----------------------------- MODULE MessageLink -----------------------------
(***************************************************************************)
(* What the ISO-TP transport promises the layer above: messages are        *)
(* numbered in the order they are submitted, and those that arrive do so   *)
(* whole, at most once and in that order.  Messages may be lost.           *)
(***************************************************************************)
EXTENDS Naturals, Sequences

CONSTANT MaxMsgs

VARIABLES
  submitted,   \* messages submitted so far
  delivered    \* numbers of the messages delivered, in order of delivery

vars == <<submitted, delivered>>

Init == submitted = 0 /\ delivered = <<>>

Submit ==
  /\ submitted < MaxMsgs
  /\ submitted' = submitted + 1
  /\ UNCHANGED delivered

Deliver(m) ==
  /\ m <= submitted
  /\ \A i \in 1..Len(delivered) : delivered[i] < m
  /\ delivered' = Append(delivered, m)
  /\ UNCHANGED submitted

Next == Submit \/ \E m \in 1..MaxMsgs : Deliver(m)

Spec == Init /\ [][Next]_vars
==============================================================================
