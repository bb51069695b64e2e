----------------------------- MODULE IsotpFromPc -----------------------------
(***************************************************************************)
(* Requests of the PC: the blocking sender IsoTpTransport.send             *)
(* (diagnoser/transport/isotp.py) against the receiver IsotpRx of a node,  *)
(* which is that of Isotp.  The PC's adapter sends in order, and toS is    *)
(* the endpoint's queue, from which nothing but a wait for flow control    *)
(* takes frames: what comes too late for one transfer is left to the next. *)
(***************************************************************************)
EXTENDS Isotp

CONSTANTS
  Requests,    \* lengths of the requests, in chunks
  SendTimeout  \* timeout of a wait for flow control, in ticks

ASSUME SendAssumption ==
  Requests \subseteq Nat \ {0} /\ SendTimeout \in Nat \ {0}

VARIABLE
  send   \* the call of send(): where it is, its message and how many
         \* consecutive frames it has sent, in all and of the block

NoSend == [at |-> "idle", msg |-> 0, len |-> 0, sent |-> 0, inBlock |-> 0,
           left |-> 0, pause |-> 0]

\* _send_frame.  The bus may lose the frame.
SendFrame(f) ==
  \/ toR' = Append(toR, f) /\ UNCHANGED losses
  \/ losses < LossBudget /\ losses' = losses + 1 /\ UNCHANGED toR

\* send() returns, or raises TimeoutError.
SendEnds(verdict) ==
  /\ send' = NoSend
  /\ outcome' = [outcome EXCEPT ![send.msg] = verdict]

AwaitsFc(s) == [s EXCEPT !.at = "fc", !.left = SendTimeout]

\* send(): a single frame, or a first frame and the wait for flow control.
PcSend(n) ==
  /\ send.at = "idle" /\ Len(lens) < MaxMsgs
  /\ lens' = Append(lens, n)
  /\ LET m == Len(lens') IN
     \/ /\ n = 1
        /\ SendFrame(SF(m))
        /\ outcome' = Append(outcome, "ok")
        /\ UNCHANGED send
     \/ /\ n > 1
        /\ SendFrame(FF(m, n))
        /\ outcome' = Append(outcome, "ongoing")
        /\ send' = AwaitsFc([NoSend EXCEPT !.msg = m, !.len = n])
  /\ UNCHANGED <<tx, rx, boxS, boxR, toS, received, foreign>>

Overdue_never == FALSE
Overdue == send.left = 0

\* _wait_frame and _wait_flow_control: other frames are skipped until the
\* deadline, which WAIT refreshes.
WaitFlowControl ==
  /\ send.at = "fc" /\ toS # <<>>
  /\ toS' = Tail(toS)
  /\ LET f == Head(toS) IN
     \/ /\ f.type # "FC" /\ ~Overdue
        /\ UNCHANGED <<send, outcome>>
     \/ /\ f.type # "FC" /\ Overdue
        /\ SendEnds("timeout")
     \/ /\ f = FC("WAIT")
        /\ send' = AwaitsFc(send)
        /\ UNCHANGED outcome
     \/ /\ f = FC("CTS")
        /\ send' = [send EXCEPT !.at = "cf", !.inBlock = 0, !.pause = Stmin]
        /\ UNCHANGED outcome
     \/ /\ f \in {FC("OVERFLOW"), FC("reserved")}
        /\ SendEnds(f.status)
  /\ UNCHANGED <<tx, rx, boxS, boxR, toR, lens, received, env>>

FlowControlTimeout ==
  /\ send.at = "fc" /\ Overdue
  /\ SendEnds("timeout")
  /\ UNCHANGED <<tx, rx, bus, lens, received, env>>

BlockSent_late(s) == BlockSize > 0 /\ s.inBlock > BlockSize
BlockSent(s) == BlockSize > 0 /\ s.inBlock = BlockSize

\* The last frame ends the transfer, also when it fills a block.
AllSent_unlessBlock(s) == s.sent + 1 = s.len /\ ~BlockSent(s)
AllSent(s) == s.sent + 1 = s.len

\* One consecutive frame of a block, STmin after the one before.
Sn(k) == k % SnMod

SendConsecutive ==
  /\ send.at = "cf" /\ send.pause = 0
  /\ SendFrame(CF(Sn(send.sent + 1), send.msg, send.sent + 2))
  /\ LET s == [send EXCEPT !.sent = @ + 1, !.inBlock = @ + 1, !.pause = Stmin] IN
     \/ AllSent(s) /\ SendEnds("ok")
     \/ /\ ~AllSent(s)
        /\ send' = IF BlockSent(s) THEN AwaitsFc(s) ELSE s
        /\ UNCHANGED outcome
  /\ UNCHANGED <<tx, rx, boxS, boxR, toS, lens, received, foreign>>

Sender == WaitFlowControl \/ FlowControlTimeout \/ SendConsecutive

\* Other frames of the node: cyclic ones take its mailboxes, and late responses
\* arrive in the endpoint's queue.
OtherRequestFrames ==
  /\ AppTraffic
  /\ \/ Len(boxR) < Mailboxes /\ boxR' = Append(boxR, AppFrame) /\ UNCHANGED toS
     \/ toS = <<>> /\ toS' = <<AppFrame>> /\ UNCHANGED boxR
  /\ UNCHANGED <<tx, rx, boxS, toR, app, env, send>>

\* Nothing the node, the bus or a call of send() would do at once is left.
SendQuiescent ==
  /\ boxR = <<>> /\ toR = <<>>
  /\ ~rx.ready /\ ~rx.fcWait
  /\ rx.inProgress => ~rx.fcPending /\ ~CrTimedOut
  /\ send.at = "fc" => toS = <<>> /\ ~Overdue
  /\ send.at = "cf" => send.pause > 0

SendTick ==
  /\ Prompt => SendQuiescent
  /\ send' = [send EXCEPT !.left = Less(@), !.pause = Less(@)]
  /\ rx' = [rx EXCEPT !.arLeft = Less(@), !.crLeft = Less(@)]
  /\ UNCHANGED <<tx, bus, app, env>>
===============================================================================
