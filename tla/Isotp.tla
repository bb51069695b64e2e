-------------------------------- MODULE Isotp --------------------------------
(***************************************************************************)
(* One direction of an ISO-TP link: the sender state machine IsotpTx of    *)
(* one node, the receiver state machine IsotpRx of the other, the transmit *)
(* mailboxes of both controllers and the bus between them                  *)
(* (firmware/common/isotp.c).                                              *)
(*                                                                         *)
(* Payload bytes are abstracted to chunks: a message of one chunk fits in  *)
(* a single frame; a longer one is a first frame and one consecutive frame *)
(* per further chunk.  The deadlines of the code are compared by unsigned  *)
(* elapsed time, so each is modelled by the ticks left until it expires.   *)
(***************************************************************************)
EXTENDS Naturals, Sequences, FiniteSets

CONSTANTS
  Lens,          \* message lengths, in chunks
  Capacity,      \* chunks the receive buffer holds
  MaxMsgs,       \* bound on the messages of a behaviour
  BlockSize,     \* BS the receiver advertises, 0 for no limit
  Stmin,         \* STmin the receiver advertises, in ticks
  SnMod,         \* sequence numbers, ISOTP_SEQ_MASK + 1
  NAs, NBs, NCr, NAr,  \* timeouts, in ticks
  Mailboxes,     \* transmit mailboxes of a controller
  LossBudget,    \* bound on the frames lost on the bus
  ForeignBudget, \* bound on WAIT and reserved FCs a foreign peer inserts
  AppTraffic,    \* whether other frames compete for the mailboxes
  Prompt         \* whether main loops and bus are fast compared to a tick

ASSUME IsotpAssumption ==
  /\ Lens \subseteq Nat \ {0} /\ Capacity \in Nat /\ MaxMsgs \in Nat
  /\ BlockSize \in Nat /\ Stmin \in Nat /\ SnMod \in Nat \ {0, 1}
  /\ {NAs, NBs, NCr, NAr, Mailboxes} \subseteq Nat \ {0}
  /\ LossBudget \in Nat /\ ForeignBudget \in Nat
  /\ AppTraffic \in BOOLEAN /\ Prompt \in BOOLEAN

VARIABLES
  tx,         \* IsotpTx_t
  rx,         \* IsotpRx_t
  boxS, boxR, \* frames in the mailboxes of the sender and the receiver node
  toR, toS,   \* frames received by the nodes and not yet processed
  lens,       \* lengths of the messages submitted so far
  outcome,    \* what the sender's application was told of each message
  received,   \* messages the receiver's application read
  losses, foreign   \* budgets used

bus == <<boxS, boxR, toR, toS>>
app == <<lens, outcome, received>>
env == <<losses, foreign>>
vars == <<tx, rx, bus, app, env>>

\* A chunk of a message, and the frames that carry chunks.
Chunk(m, k) == <<m, k>>
Message(m, n) == [k \in 1..n |-> Chunk(m, k)]
SF(m) == [type |-> "SF", data |-> Chunk(m, 1)]
FF(m, n) == [type |-> "FF", len |-> n, data |-> Chunk(m, 1)]
CF(s, m, k) == [type |-> "CF", sn |-> s, data |-> Chunk(m, k)]
FC(status) == [type |-> "FC", status |-> status]
AppFrame == [type |-> "app"]
NoFrame == [type |-> "none"]

\* Sequence numbers are masked to a nibble.
NextSn_unmasked(s) == s + 1
NextSn(s) == (s + 1) % SnMod

Remove(s, i) == SubSeq(s, 1, i - 1) \o SubSeq(s, i + 1, Len(s))

Init ==
  /\ tx = [ongoing |-> FALSE, msg |-> 0, len |-> 0, offset |-> 0, sn |-> 1,
           bs |-> 0, inBlock |-> 0, sentCf |-> FALSE, sinceCf |-> 0,
           frame |-> NoFrame, waitEnqueue |-> FALSE, framePending |-> FALSE,
           waitFc |-> FALSE, afterBlock |-> FALSE, asLeft |-> 0, fcLeft |-> 0]
  /\ rx = [inProgress |-> FALSE, ready |-> FALSE, declared |-> 0, buf |-> <<>>,
           sn |-> 1, inBlock |-> 0, fc |-> NoFrame, fcWait |-> FALSE,
           fcPending |-> FALSE, arLeft |-> 0, crLeft |-> 0]
  /\ boxS = <<>> /\ boxR = <<>> /\ toR = <<>> /\ toS = <<>>
  /\ lens = <<>> /\ outcome = <<>> /\ received = <<>>
  /\ losses = 0 /\ foreign = 0

-------------------------------------------------------------------------------
\* Sender.

\* The sender's application is told how transfer t.msg ended.
Finish(t, verdict) ==
  /\ tx' = [t EXCEPT !.ongoing = FALSE]
  /\ outcome' = [outcome EXCEPT ![t.msg] = verdict]

\* isotp_tx_schedule_frame: one attempt to enqueue now; a full set of
\* mailboxes leaves the frame to later polls, for at most N_As.
Schedule(t, f) ==
  IF Len(boxS) < Mailboxes
  THEN /\ boxS' = Append(boxS, f)
       /\ tx' = [t EXCEPT !.frame = f, !.waitEnqueue = FALSE,
                          !.framePending = TRUE, !.asLeft = NAs]
  ELSE /\ tx' = [t EXCEPT !.frame = f, !.waitEnqueue = TRUE, !.asLeft = NAs]
       /\ UNCHANGED boxS

\* IsotpTx_Start.  The block size granted by an earlier transfer is kept.
TxStart(n) ==
  /\ ~tx.ongoing
  /\ Len(lens) < MaxMsgs
  /\ LET m == Len(lens) + 1
         t == [tx EXCEPT !.ongoing = TRUE, !.msg = m, !.len = n, !.offset = 1,
                         !.sn = 1, !.inBlock = 0, !.sentCf = FALSE,
                         !.waitEnqueue = FALSE, !.framePending = FALSE,
                         !.waitFc = FALSE, !.afterBlock = FALSE]
     IN \/ n = 1 /\ Schedule(t, SF(m))
        \/ n > 1 /\ Schedule([t EXCEPT !.waitFc = TRUE, !.fcLeft = NBs], FF(m, n))
  /\ lens' = Append(lens, n)
  /\ outcome' = Append(outcome, "ongoing")
  /\ UNCHANGED <<rx, boxR, toR, toS, received, env>>

\* IsotpTx_OnFrame, reached by Isotp_RouteFrame when an FC arrives.
BlockFull_late(t) == t.bs > 0 /\ t.inBlock > t.bs
BlockFull(t) == t.bs > 0 /\ t.inBlock >= t.bs

AcceptsFc == tx.ongoing /\ (tx.waitFc \/ BlockFull(tx))

TxOnFrame ==
  /\ toS # <<>>
  /\ toS' = Tail(toS)
  /\ LET status == Head(toS).status IN
     \/ ~AcceptsFc /\ UNCHANGED <<tx, outcome>>
     \/ /\ AcceptsFc /\ status = "WAIT"
        /\ tx' = [tx EXCEPT !.fcLeft =
                    IF tx.afterBlock \/ BlockFull(tx) THEN NCr ELSE NBs]
        /\ UNCHANGED outcome
     \/ /\ AcceptsFc /\ status = "CTS"
        /\ tx' = [tx EXCEPT !.bs = BlockSize, !.waitFc = FALSE,
                            !.afterBlock = FALSE, !.inBlock = 0, !.fcLeft = NAs]
        /\ UNCHANGED outcome
     \/ /\ AcceptsFc /\ status \in {"OVERFLOW", "reserved"}
        /\ Finish(tx, status)
  /\ UNCHANGED <<rx, boxS, boxR, toR, lens, received, env>>

\* IsotpTx_Poll, one action per way through it.

\* A frame is still to be enqueued.
TxPollEnqueue ==
  /\ tx.ongoing /\ tx.waitEnqueue
  /\ \/ /\ Len(boxS) < Mailboxes
        /\ boxS' = Append(boxS, tx.frame)
        /\ tx' = [tx EXCEPT !.waitEnqueue = FALSE, !.framePending = TRUE,
                            !.asLeft = NAs]
        /\ UNCHANGED outcome
     \/ /\ Len(boxS) = Mailboxes /\ tx.asLeft = 0
        /\ Finish([tx EXCEPT !.waitEnqueue = FALSE], "timeout")
        /\ UNCHANGED boxS
  /\ UNCHANGED <<rx, boxR, toR, toS, lens, received, env>>

\* A mailbox is still occupied after N_As: by this frame or by any other.
TxPollStuck ==
  /\ tx.ongoing /\ ~tx.waitEnqueue /\ tx.framePending
  /\ boxS # <<>> /\ tx.asLeft = 0
  /\ Finish([tx EXCEPT !.framePending = FALSE], "timeout")
  /\ UNCHANGED <<rx, bus, lens, received, env>>

\* The mailboxes are empty, or this transfer does not wait for them.
Sent == [tx EXCEPT !.framePending = FALSE]

PollReachesTransfer ==
  /\ tx.ongoing /\ ~tx.waitEnqueue
  /\ tx.framePending => boxS = <<>>

FcTimedOut_never == FALSE
FcTimedOut == tx.fcLeft = 0

AllWritten_late(t) == t.offset > t.len
AllWritten_early(t) == t.offset + 1 >= t.len
AllWritten(t) == t.offset >= t.len

StminElapsed == ~tx.sentCf \/ tx.sinceCf >= Stmin

TxPollTransfer ==
  /\ PollReachesTransfer
  /\ \/ /\ tx.waitFc /\ FcTimedOut
        /\ Finish(Sent, "timeout")
        /\ UNCHANGED boxS
     \/ /\ tx.waitFc /\ ~FcTimedOut /\ tx.framePending
        /\ tx' = Sent
        /\ UNCHANGED <<boxS, outcome>>
     \/ /\ ~tx.waitFc /\ BlockFull(tx)
        /\ tx' = [Sent EXCEPT !.waitFc = TRUE, !.afterBlock = TRUE, !.fcLeft = NCr]
        /\ UNCHANGED <<boxS, outcome>>
     \/ /\ ~tx.waitFc /\ ~BlockFull(tx) /\ AllWritten(tx)
        /\ Finish(Sent, "ok")
        /\ UNCHANGED boxS
     \/ /\ ~tx.waitFc /\ ~BlockFull(tx) /\ ~AllWritten(tx)
        /\ ~StminElapsed /\ tx.framePending
        /\ tx' = Sent
        /\ UNCHANGED <<boxS, outcome>>
     \/ /\ ~tx.waitFc /\ ~BlockFull(tx) /\ ~AllWritten(tx)
        /\ StminElapsed
        /\ Schedule([Sent EXCEPT !.offset = @ + 1, !.sn = NextSn(@),
                                 !.inBlock = @ + 1, !.sentCf = TRUE, !.sinceCf = 0],
                    CF(tx.sn, tx.msg, tx.offset + 1))
        /\ UNCHANGED outcome
  /\ UNCHANGED <<rx, boxR, toR, toS, lens, received, env>>

TxPoll == TxPollEnqueue \/ TxPollStuck \/ TxPollTransfer

-------------------------------------------------------------------------------
\* Receiver.

\* isotp_send_fc: like Schedule, with N_Ar.
SendFc(r, status) ==
  IF Len(boxR) < Mailboxes
  THEN /\ boxR' = Append(boxR, FC(status))
       /\ rx' = [r EXCEPT !.fc = FC(status), !.fcWait = FALSE,
                          !.fcPending = TRUE, !.arLeft = NAr]
  ELSE /\ rx' = [r EXCEPT !.fc = FC(status), !.fcWait = TRUE, !.arLeft = NAr]
       /\ UNCHANGED boxR

\* IsotpRx_Reset: an unread message is cleared as well.
ResetRx(r) ==
  [r EXCEPT !.inProgress = FALSE, !.ready = FALSE, !.declared = 0, !.buf = <<>>,
            !.fcWait = FALSE, !.fcPending = FALSE]

\* IsotpRx_OnFrame, one action per frame type.
RxTake(type) ==
  /\ toR # <<>>
  /\ Head(toR).type = type
  /\ toR' = Tail(toR)
  /\ UNCHANGED <<tx, boxS, toS, app, env>>

\* A single frame, or a first frame, finds the endpoint taken.
RxBusy_inProgress == rx.inProgress
RxBusy == rx.inProgress \/ rx.ready

RxOnSF ==
  /\ RxTake("SF")
  /\ UNCHANGED boxR
  /\ \/ RxBusy /\ UNCHANGED rx
     \/ /\ ~RxBusy
        /\ rx' = [rx EXCEPT !.ready = TRUE, !.buf = <<Head(toR).data>>]

RxOnFF ==
  /\ RxTake("FF")
  /\ LET f == Head(toR) IN
     \/ rx.inProgress /\ rx' = ResetRx(rx) /\ UNCHANGED boxR
     \/ ~rx.inProgress /\ RxBusy /\ UNCHANGED <<rx, boxR>>
     \/ /\ ~RxBusy /\ f.len > Capacity
        /\ SendFc(rx, "OVERFLOW")
     \/ /\ ~RxBusy /\ f.len <= Capacity
        /\ SendFc([rx EXCEPT !.inProgress = TRUE, !.declared = f.len,
                             !.buf = <<f.data>>, !.sn = 1, !.inBlock = 0], "CTS")

InSequence(f) == f.sn = rx.sn

RxOnCF ==
  /\ RxTake("CF")
  /\ LET f == Head(toR)
         r == [rx EXCEPT !.buf = Append(@, f.data), !.sn = NextSn(@),
                         !.inBlock = @ + 1, !.crLeft = NCr]
         complete == Len(r.buf) >= rx.declared
         blockEnd == BlockSize > 0 /\ r.inBlock >= BlockSize
     IN \/ ~rx.inProgress /\ UNCHANGED <<rx, boxR>>
        \/ /\ rx.inProgress /\ ~InSequence(f)
           /\ rx' = ResetRx(rx) /\ UNCHANGED boxR
        \/ /\ rx.inProgress /\ InSequence(f) /\ complete
           /\ rx' = [r EXCEPT !.inProgress = FALSE, !.ready = TRUE]
           /\ UNCHANGED boxR
        \/ /\ rx.inProgress /\ InSequence(f) /\ ~complete /\ blockEnd
           /\ SendFc([r EXCEPT !.inBlock = 0], "CTS")
        \/ /\ rx.inProgress /\ InSequence(f) /\ ~complete /\ ~blockEnd
           /\ rx' = r /\ UNCHANGED boxR

RxOnFrame == RxOnSF \/ RxOnFF \/ RxOnCF

\* N_Cr between two consecutive frames.
CrTimedOut_never == FALSE
CrTimedOut == rx.crLeft = 0

\* IsotpRx_Poll.
RxPoll ==
  /\ \/ /\ rx.fcWait /\ Len(boxR) < Mailboxes
        /\ boxR' = Append(boxR, rx.fc)
        /\ rx' = [rx EXCEPT !.fcWait = FALSE, !.fcPending = TRUE, !.arLeft = NAr]
     \/ /\ rx.fcWait /\ Len(boxR) = Mailboxes /\ rx.arLeft = 0
        /\ rx' = [rx EXCEPT !.fcWait = FALSE, !.inProgress = FALSE]
        /\ UNCHANGED boxR
     \/ /\ rx.inProgress /\ ~rx.fcWait /\ rx.fcPending
        /\ boxR # <<>> /\ rx.arLeft = 0
        /\ rx' = [rx EXCEPT !.inProgress = FALSE, !.fcPending = FALSE]
        /\ UNCHANGED boxR
     \/ /\ rx.inProgress /\ ~rx.fcWait /\ rx.fcPending /\ boxR = <<>>
        /\ rx' = [rx EXCEPT !.fcPending = FALSE, !.crLeft = NCr]
        /\ UNCHANGED boxR
     \/ /\ rx.inProgress /\ ~rx.fcWait /\ ~rx.fcPending /\ CrTimedOut
        /\ rx' = [rx EXCEPT !.inProgress = FALSE]
        /\ UNCHANGED boxR
  /\ UNCHANGED <<tx, boxS, toR, toS, app, env>>

\* IsotpRx_Read by the receiver's application.
RxRead ==
  /\ rx.ready
  /\ received' = Append(received, rx.buf)
  /\ rx' = [rx EXCEPT !.ready = FALSE]
  /\ UNCHANGED <<tx, bus, lens, outcome, env>>

-------------------------------------------------------------------------------
\* Mailboxes, bus and time.

\* The controller sends any frame that waits in a mailbox: frames of one
\* identifier go by mailbox number, not by age.  Automatic retransmission is
\* disabled, so a frame that meets an error is lost and its mailbox released.
TransmitS(i) ==
  LET f == boxS[i] IN
  /\ boxS' = Remove(boxS, i)
  /\ \/ /\ f.type = "app"
        /\ UNCHANGED <<toR, losses>>
     \/ /\ f.type # "app"
        /\ toR' = Append(toR, f)
        /\ UNCHANGED losses
     \/ /\ f.type # "app" /\ losses < LossBudget
        /\ losses' = losses + 1
        /\ UNCHANGED toR
  /\ UNCHANGED <<tx, rx, boxR, toS, app, foreign>>

TransmitR(i) ==
  LET f == boxR[i] IN
  /\ boxR' = Remove(boxR, i)
  /\ \/ f.type = "app" /\ UNCHANGED <<toS, losses>>
     \/ f.type # "app" /\ toS' = Append(toS, f) /\ UNCHANGED losses
     \/ /\ f.type # "app" /\ losses < LossBudget
        /\ losses' = losses + 1
        /\ UNCHANGED toS
  /\ UNCHANGED <<tx, rx, boxS, toR, app, foreign>>

\* Cyclic and bench frames of either node use the same mailboxes.
AppSends ==
  /\ AppTraffic
  /\ \/ Len(boxS) < Mailboxes /\ boxS' = Append(boxS, AppFrame) /\ UNCHANGED boxR
     \/ Len(boxR) < Mailboxes /\ boxR' = Append(boxR, AppFrame) /\ UNCHANGED boxS
  /\ UNCHANGED <<tx, rx, toR, toS, app, env>>

\* A tester's own ISO-TP stack may send WAIT before it grants a block, or
\* answer with a reserved flow status instead.
ForeignFc ==
  /\ foreign < ForeignBudget
  /\ toS # <<>>
  /\ Head(toS) = FC("CTS")
  /\ foreign' = foreign + 1
  /\ \/ toS' = <<FC("WAIT")>> \o toS
     \/ toS' = <<FC("reserved")>> \o Tail(toS)
  /\ UNCHANGED <<tx, rx, boxS, boxR, toR, app, losses>>

\* Nothing a main loop or the bus would do at once is left to do.
Quiescent ==
  /\ boxS = <<>> /\ boxR = <<>> /\ toR = <<>> /\ toS = <<>>
  /\ ~rx.ready /\ ~rx.fcWait
  /\ rx.inProgress => ~rx.fcPending /\ ~CrTimedOut
  /\ tx.ongoing => /\ ~tx.waitEnqueue /\ ~tx.framePending
                   /\ \/ tx.waitFc /\ ~FcTimedOut
                      \/ ~tx.waitFc /\ ~BlockFull(tx) /\ ~AllWritten(tx)
                         /\ ~StminElapsed

Less(n) == IF n = 0 THEN 0 ELSE n - 1
More(n) == IF n < Stmin THEN n + 1 ELSE n

Tick ==
  /\ Prompt => Quiescent
  /\ tx' = [tx EXCEPT !.asLeft = Less(@), !.fcLeft = Less(@), !.sinceCf = More(@)]
  /\ rx' = [rx EXCEPT !.arLeft = Less(@), !.crLeft = Less(@)]
  /\ UNCHANGED <<bus, app, env>>

Transmit ==
  \/ \E i \in 1..Len(boxS) : TransmitS(i)
  \/ \E i \in 1..Len(boxR) : TransmitR(i)

Next ==
  \/ \E n \in Lens : TxStart(n)
  \/ TxOnFrame \/ TxPoll
  \/ RxOnFrame \/ RxPoll \/ RxRead
  \/ Transmit
  \/ AppSends
  \/ ForeignFc
  \/ Tick

\* Both main loops keep polling and processing frames, the controllers keep
\* sending, and time passes.
Fairness ==
  /\ WF_vars(TxOnFrame) /\ WF_vars(TxPoll)
  /\ WF_vars(RxOnFrame) /\ WF_vars(RxPoll) /\ WF_vars(RxRead)
  /\ WF_vars(Transmit) /\ WF_vars(Tick)

Spec == Init /\ [][Next]_vars /\ Fairness

-------------------------------------------------------------------------------
\* Type invariant of the two state machines and of the link.
Frames ==
  [type : {"SF"}, data : (1..MaxMsgs) \X {1}]
  \cup [type : {"FF"}, len : Nat, data : (1..MaxMsgs) \X {1}]
  \cup [type : {"CF"}, sn : 0..(SnMod - 1), data : (1..MaxMsgs) \X Nat]
  \cup [type : {"FC"}, status : {"CTS", "WAIT", "OVERFLOW", "reserved"}]
  \cup {AppFrame}

TypeOK ==
  /\ tx.msg \in 0..MaxMsgs /\ tx.offset \in 0..tx.len /\ tx.sn \in 0..(SnMod - 1)
  /\ tx.bs \in {0, BlockSize} /\ tx.frame \in Frames \cup {NoFrame}
  /\ tx.asLeft \in 0..NAs /\ tx.sinceCf \in 0..Stmin
  /\ rx.declared \in 0..Capacity /\ rx.sn \in 0..(SnMod - 1)
  /\ rx.fc \in Frames \cup {NoFrame} /\ rx.arLeft \in 0..NAr /\ rx.crLeft \in 0..NCr
  /\ Len(boxS) <= Mailboxes /\ Len(boxR) <= Mailboxes
  /\ {boxS, boxR, toR, toS} \subseteq Seq(Frames)
  /\ lens \in Seq(Nat \ {0})
  /\ outcome \in Seq({"ongoing", "ok", "timeout", "OVERFLOW", "reserved"})

\* The number of a message that was received whole, 0 for anything else.
NumberOf(b) ==
  IF \E m \in 1..Len(lens) : b = Message(m, lens[m]) THEN Head(b)[1] ELSE 0

\* A complete message nobody read yet is neither overwritten nor dropped by
\* later frames, polls or timeouts (IsotpRx_OnFrame, IsotpRx_Reset).
UnreadMessageKept ==
  [][rx.ready => \/ rx'.ready /\ rx'.buf = rx.buf
                 \/ received' = Append(received, rx.buf)]_vars

\* With prompt main loops the network never holds more consecutive frames of
\* the running transfer than the receiver granted in one flow control frame,
\* although TxStart keeps the block size of the transfer before.
CFsInFlight ==
  LET path == boxS \o toR IN
  {i \in 1..Len(path) : path[i].type = "CF" /\ path[i].data[1] = tx.msg}

BlockRespected ==
  BlockSize > 0 => Cardinality(CFsInFlight) <= BlockSize

\* A sender is not told of a timeout for a message that was received whole.
DeliveredIsNotTimeout ==
  \A m \in 1..Len(lens) :
    outcome[m] = "timeout" =>
      \A i \in 1..Len(received) : received[i] # Message(m, lens[m])

\* On a bus that loses nothing, a multi-frame transfer reported complete was
\* read by the other side once the link is quiet.
CompleteIsDelivered ==
  Quiescent /\ losses = 0 =>
    \A m \in 1..Len(lens) :
      outcome[m] = "ok" /\ lens[m] > 1 =>
        \E i \in 1..Len(received) : received[i] = Message(m, lens[m])
==============================================================================
