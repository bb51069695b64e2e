---------------------------- MODULE SharedCanBus ----------------------------
(***************************************************************************)
(* The link between the PC and a node: the CAN bus, and the endpoint queue *)
(* in which the reader thread of SharedCanBus leaves what the node sent    *)
(* (diagnoser/transport/shared.py).                                        *)
(*                                                                         *)
(* The queue is bounded and drops its oldest message when it is full, in   *)
(* three calls between which the consumer may take one.  A message stands  *)
(* for the frames of one ISO-TP transfer, or is a Fragment.                *)
(***************************************************************************)
EXTENDS Naturals, Sequences

CONSTANT QueueCapacity   \* queue_capacity

ASSUME QueueAssumption == QueueCapacity \in Nat \ {0}

VARIABLES
  toNode,   \* requests on their way to the node
  toPc,     \* what the node sent and the reader has not received
  route,    \* the endpoint's queue
  reader    \* the reader thread: where it is, and the message it holds

link == <<toNode, toPc, route, reader>>

None == [kind |-> "none"]

\* Frames that make no message: a first frame whose transfer did not complete,
\* consecutive frames of such a transfer, a flow control nobody waits for.
Fragment == [kind |-> "fragment"]

LinkInit ==
  /\ toNode = <<>> /\ toPc = <<>> /\ route = <<>>
  /\ reader = [pc |-> "recv", msg |-> None]

Full == Len(route) >= QueueCapacity

\* _read_loop
ReaderRecv ==
  /\ reader.pc = "recv"
  /\ toPc # <<>>
  /\ reader' = [pc |-> "put", msg |-> Head(toPc)]
  /\ toPc' = Tail(toPc)
  /\ UNCHANGED <<toNode, route>>

\* _put_latest: put_nowait, get_nowait, put_nowait.
ReaderPut ==
  /\ reader.pc = "put"
  /\ \/ /\ ~Full
        /\ route' = Append(route, reader.msg)
        /\ reader' = [pc |-> "recv", msg |-> None]
     \/ /\ Full
        /\ reader' = [reader EXCEPT !.pc = "drop"]
        /\ UNCHANGED route
  /\ UNCHANGED <<toNode, toPc>>

WithoutOldest_kept(q) == q
WithoutOldest(q) == IF q = <<>> THEN q ELSE Tail(q)

ReaderDropOldest ==
  /\ reader.pc = "drop"
  /\ route' = WithoutOldest(route)
  /\ reader' = [reader EXCEPT !.pc = "putAgain"]
  /\ UNCHANGED <<toNode, toPc>>

ReaderPutAgain ==
  /\ reader.pc = "putAgain"
  /\ route' = IF Full THEN route ELSE Append(route, reader.msg)
  /\ reader' = [pc |-> "recv", msg |-> None]
  /\ UNCHANGED <<toNode, toPc>>

Reader == ReaderRecv \/ ReaderPut \/ ReaderDropOldest \/ ReaderPutAgain
===============================================================================
