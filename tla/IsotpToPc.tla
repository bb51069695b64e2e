------------------------------ MODULE IsotpToPc ------------------------------
(***************************************************************************)
(* Responses to the PC: the sender IsotpTx of a node, which is that of     *)
(* Isotp, against the blocking receiver IsoTpTransport.receive             *)
(* (diagnoser/transport/isotp.py).  toR is the endpoint's queue: frames    *)
(* arrive in it whether or not the PC is in a call of receive(), and each  *)
(* call begins with the oldest of them.                                    *)
(***************************************************************************)
EXTENDS Isotp

CONSTANTS
  Responses,   \* lengths of the responses, in chunks
  CallTimeout  \* timeout of a call, in ticks

ASSUME CallAssumption ==
  Responses \subseteq Nat \ {0} /\ CallTimeout \in Nat \ {0}

VARIABLE
  recv   \* the call of receive(): where it is, and its local variables

NoCall == [at |-> "idle", declared |-> 0, payload |-> <<>>, index |-> 1,
           inBlock |-> 0, left |-> 0]

\* A call of receive(), at any time.
PcReceive ==
  /\ recv.at = "idle"
  /\ recv' = [NoCall EXCEPT !.at = "first", !.left = CallTimeout]
  /\ UNCHANGED vars

\* Flow control, which the bus may lose.
Advertise ==
  \/ toS' = Append(toS, FC("CTS")) /\ UNCHANGED losses
  \/ losses < LossBudget /\ losses' = losses + 1 /\ UNCHANGED toS

Returns(message) ==
  /\ recv' = NoCall
  /\ received' = Append(received, message)
  /\ UNCHANGED <<toS, losses>>

\* ValueError or TimeoutError.
Raises == recv' = NoCall /\ UNCHANGED <<toS, losses, received>>

\* The deadline is that of the whole call.
TakesFrame(at) ==
  /\ recv.at = at
  /\ toR # <<>>
  /\ toR' = Tail(toR)
  /\ UNCHANGED <<tx, rx, boxS, boxR, lens, outcome, foreign>>

ReceiveFirst ==
  /\ TakesFrame("first")
  /\ LET f == Head(toR) IN
     \/ f.type = "SF" /\ Returns(<<f.data>>)
     \/ /\ f.type = "FF"
        /\ recv' = [recv EXCEPT !.at = "rest", !.declared = f.len, !.payload = <<f.data>>]
        /\ Advertise
        /\ UNCHANGED received
     \/ f.type \in {"CF", "FC"} /\ Raises

InOrder_any(f) == TRUE
InOrder(f) == f.sn = recv.index

NextIndex(i) == (i + 1) % SnMod
Complete_early(r) == Len(r.payload) + 1 >= r.declared
Complete(r) == Len(r.payload) >= r.declared

BlockReceived(r) == BlockSize > 0 /\ r.inBlock >= BlockSize

\* Frames of other types, first frames among them, are skipped, and the deadline
\* is looked at again.
ReceiveRest ==
  /\ TakesFrame("rest")
  /\ LET f == Head(toR)
         r == [recv EXCEPT !.payload = Append(@, f.data), !.index = NextIndex(@),
                           !.inBlock = @ + 1]
     IN \/ /\ f.type # "CF" /\ recv.left > 0
           /\ UNCHANGED <<recv, toS, losses, received>>
        \/ f.type # "CF" /\ recv.left = 0 /\ Raises
        \/ f.type = "CF" /\ ~InOrder(f) /\ Raises
        \/ f.type = "CF" /\ InOrder(f) /\ Complete(r) /\ Returns(r.payload)
        \/ /\ f.type = "CF" /\ InOrder(f) /\ ~Complete(r) /\ BlockReceived(r)
           /\ recv' = [r EXCEPT !.inBlock = 0]
           /\ Advertise
           /\ UNCHANGED received
        \/ /\ f.type = "CF" /\ InOrder(f) /\ ~Complete(r) /\ ~BlockReceived(r)
           /\ recv' = r
           /\ UNCHANGED <<toS, losses, received>>

ReceiveTimeout ==
  /\ recv.at # "idle" /\ recv.left = 0
  /\ Raises
  /\ UNCHANGED <<tx, rx, boxS, boxR, toR, lens, outcome, foreign>>

Receiver == ReceiveFirst \/ ReceiveRest \/ ReceiveTimeout

\* Nothing the node, the bus or a call of receive() would do at once is left.
ReceiveQuiescent ==
  /\ boxS = <<>> /\ toS = <<>>
  /\ tx.ongoing => /\ ~tx.waitEnqueue /\ ~tx.framePending
                   /\ \/ tx.waitFc /\ ~FcTimedOut
                      \/ ~tx.waitFc /\ ~BlockFull(tx) /\ ~AllWritten(tx)
                         /\ ~StminElapsed
  /\ recv.at # "idle" => toR = <<>> /\ recv.left > 0

ReceiveTick ==
  /\ Prompt => ReceiveQuiescent
  /\ tx' = [tx EXCEPT !.asLeft = Less(@), !.fcLeft = Less(@), !.sinceCf = More(@)]
  /\ recv' = [recv EXCEPT !.left = Less(@)]
  /\ UNCHANGED <<rx, bus, app, env>>

\* Other frames of the node: cyclic ones take its mailboxes, and flow control
\* that was late for a request arrives in the endpoint's queue.
OtherResponseFrames ==
  /\ AppTraffic
  /\ \/ Len(boxS) < Mailboxes /\ boxS' = Append(boxS, AppFrame) /\ UNCHANGED toR
     \/ toR = <<>> /\ toR' = <<FC("CTS")>> /\ UNCHANGED boxS
  /\ UNCHANGED <<tx, rx, boxR, toS, app, env, recv>>
===============================================================================
