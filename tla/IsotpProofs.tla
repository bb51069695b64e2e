----------------------------- MODULE IsotpProofs -----------------------------
(***************************************************************************)
(* The ISO-TP links, for all lengths, buffers, block sizes, timeouts and   *)
(* numbers of mailboxes, whatever frames the bus loses.                    *)
(*                                                                         *)
(*   - Shape, the types of both ends and of the frames, is inductive and   *)
(*     needs no premise: LinksTypeCorrect, UnreadKept.                     *)
(*   - LinkInv relates the sender of a transfer, the frames on its way and *)
(*     the receiver, on the links whose receiver is a node; it needs       *)
(*     FastLinks: NodeLinkRefines.                                         *)
(*   - VerdictInv says where the chunks of a message may be, on every      *)
(*     link; it needs Prompt and NoBlockEnds: VerdictsTrue.                *)
(***************************************************************************)
EXTENDS IsotpLinks, Integers, SequenceTheorems, TLAPS

\* Lengths of the messages on a link.
LensOf(l) == IF l = "nodes" THEN Lens ELSE IF l = "request" THEN Requests ELSE Responses

Numbers == 1..MaxMsgs
Chunks == Numbers \X Nat
Sns == 0..(SnMod - 1)
Statuses == {"CTS", "WAIT", "OVERFLOW", "reserved"}
Verdicts == {"ongoing", "ok", "timeout", "OVERFLOW", "reserved"}

\* Frames of a transfer, of its flow control, and other frames.
Data(l) ==
  [type : {"SF"}, data : Numbers \X {1}]
  \cup [type : {"FF"}, len : LensOf(l) \ {1}, data : Numbers \X {1}]
  \cup [type : {"CF"}, sn : Sns, data : Chunks]

Fcs == [type : {"FC"}, status : Statuses]

OrApp(frames) == frames \cup {AppFrame}

Senders(l) ==
  [ongoing : BOOLEAN, msg : 0..MaxMsgs, len : LensOf(l) \cup {0}, offset : Nat, sn : Sns,
   bs : {0, BlockSize}, inBlock : Nat, sentCf : BOOLEAN, sinceCf : 0..Stmin,
   frame : Data(l) \cup {NoFrame}, waitEnqueue : BOOLEAN, framePending : BOOLEAN,
   waitFc : BOOLEAN, afterBlock : BOOLEAN, asLeft : 0..NAs, fcLeft : Nat]

Receivers ==
  [inProgress : BOOLEAN, ready : BOOLEAN, declared : 0..Capacity, buf : Seq(Chunks),
   sn : Sns, inBlock : Nat, fc : Fcs \cup {NoFrame}, fcWait : BOOLEAN,
   fcPending : BOOLEAN, arLeft : 0..NAr, crLeft : 0..NCr]

SendCalls ==
  [at : {"idle", "fc", "cf"}, msg : 0..MaxMsgs, len : Requests \cup {0}, sent : Nat,
   inBlock : Nat, left : 0..SendTimeout, pause : 0..Stmin]

ReceiveCalls ==
  [at : {"idle", "first", "rest"}, declared : Responses \cup {0}, payload : Seq(Chunks),
   index : Sns, inBlock : Nat, left : 0..CallTimeout]

\* The types of the state machines, the calls, the bus and the history.  A frame
\* that waits for a mailbox is a frame; inside a transfer something is left to be
\* sent or received.
TxShape(l) ==
  /\ tx \in Senders(l) /\ tx.offset <= tx.len
  /\ tx.waitEnqueue => tx.frame \in Data(l)
  /\ tx.ongoing => tx.msg \in Numbers

RxShape == rx \in Receivers /\ (rx.fcWait => rx.fc \in Fcs)

BusShape(l) ==
  /\ boxS \in Seq(OrApp(Data(l))) /\ Len(boxS) <= Mailboxes
  /\ boxR \in Seq(OrApp(Fcs)) /\ Len(boxR) <= Mailboxes
  /\ toR \in Seq(Data(l) \cup Fcs)
  /\ toS \in Seq(OrApp(Fcs))
  /\ l # "request" => toS \in Seq(Fcs)

AppShape ==
  /\ lens \in Seq(Nat \ {0}) /\ Len(lens) <= MaxMsgs
  /\ outcome \in Seq(Verdicts) /\ Len(outcome) = Len(lens)
  /\ received \in Seq(Seq(Chunks))
  /\ losses \in Nat /\ foreign \in Nat

SendShape ==
  /\ send \in SendCalls /\ send.inBlock <= send.sent /\ send.sent <= send.len
  /\ send.at # "idle" => send.sent + 1 < send.len /\ send.msg \in Numbers

RecvShape ==
  /\ recv \in ReceiveCalls /\ Len(recv.payload) <= recv.declared
  /\ recv.at = "rest" => Len(recv.payload) < recv.declared

Shape ==
  /\ link \in {"nodes", "request", "response"}
  /\ TxShape(link) /\ RxShape /\ BusShape(link) /\ AppShape /\ SendShape /\ RecvShape

-------------------------------------------------------------------------------
\* Lengths are positive.
LEMMA LensPositive ==
  ASSUME NEW l
  PROVE  LensOf(l) \subseteq Nat \ {0}
BY IsotpAssumption, SendAssumption, CallAssumption DEF LensOf

\* What EXCEPT and the constants need.
LEMMA Ranges ==
  /\ 0 \in 0..MaxMsgs /\ 0 \in Sns /\ 1 \in Sns /\ 0 \in 0..Stmin /\ 0 \in 0..NAs
  /\ 0 \in 0..NAr /\ 0 \in 0..NCr /\ 0 \in 0..Capacity
  /\ NAs \in 0..NAs /\ NAr \in 0..NAr /\ NCr \in 0..NCr
  /\ NAs \in Nat /\ NBs \in Nat /\ NCr \in Nat
  /\ 0 \in 0..SendTimeout /\ SendTimeout \in 0..SendTimeout
  /\ 0 \in 0..CallTimeout /\ CallTimeout \in 0..CallTimeout
BY IsotpAssumption, SendAssumption, CallAssumption DEF Sns

LEMMA InitShape == LinksInit => Shape
<1> SUFFICES ASSUME LinksInit PROVE Shape
  OBVIOUS
<1> USE Ranges DEF LinksInit, Init, NoSend, NoCall
<1>1. TxShape(link)
  BY DEF TxShape, Senders, NoFrame
<1>2. RxShape
  BY DEF RxShape, Receivers, NoFrame
<1>3. BusShape(link)
  BY IsotpAssumption DEF BusShape
<1>4. AppShape
  BY IsotpAssumption DEF AppShape
<1>5. SendShape
  BY DEF SendShape, SendCalls
<1>6. RecvShape
  BY DEF RecvShape, ReceiveCalls
<1> QED BY <1>1, <1>2, <1>3, <1>4, <1>5, <1>6 DEF Shape

-------------------------------------------------------------------------------
\* Frames and the sequences they travel in.
LEMMA FrameTypes ==
  ASSUME NEW l, NEW m \in Numbers
  PROVE  /\ SF(m) \in Data(l)
         /\ \A n \in LensOf(l) \ {1} : FF(m, n) \in Data(l)
         /\ \A s \in Sns, k \in Nat : CF(s, m, k) \in Data(l)
BY DEF SF, FF, CF, Chunk, Data, Chunks

LEMMA FcTypes ==
  ASSUME NEW status \in Statuses
  PROVE  FC(status) \in Fcs /\ FC(status).type = "FC" /\ FC(status).status = status
BY DEF FC, Fcs

\* A data frame has the fields of its type.
LEMMA DataFields ==
  ASSUME NEW l, NEW f \in Data(l) \cup Fcs
  PROVE  /\ f.type \in {"SF", "FF", "CF"} <=> f \in Data(l)
         /\ f.type = "FC" <=> f \in Fcs
         /\ f.type \in {"SF", "FF", "CF", "FC"}
         /\ f.type \in {"SF", "FF", "CF"} => f.data \in Chunks
         /\ f.type = "FF" => f.len \in LensOf(l) \ {1}
         /\ f.type = "CF" => f.sn \in Sns
         /\ f.type = "FC" => f.status \in Statuses
BY DEF Data, Fcs, Chunks

LEMMA RemoveIs ==
  ASSUME NEW S, NEW s \in Seq(S), NEW i \in 1..Len(s)
  PROVE  /\ Remove(s, i) \in Seq(S) /\ Len(Remove(s, i)) = Len(s) - 1
         /\ \A j \in 1..(Len(s) - 1) :
              /\ j < i => Remove(s, i)[j] = s[j]
              /\ j >= i => Remove(s, i)[j] = s[j + 1]
<1> DEFINE a == SubSeq(s, 1, i - 1)
           b == SubSeq(s, i + 1, Len(s))
<1>1. a \in Seq(S) /\ Len(a) = i - 1 /\ \A j \in 1..(i - 1) : a[j] = s[j]
  OBVIOUS
<1>2. b \in Seq(S) /\ Len(b) = Len(s) - i /\ \A j \in 1..(Len(s) - i) : b[j] = s[i + j]
  OBVIOUS
<1>3. Remove(s, i) = a \o b
  BY DEF Remove
<1>4. i \in Nat /\ Len(s) \in Nat /\ 1 <= i /\ i <= Len(s)
  OBVIOUS
<1> HIDE DEF a, b
<1>5. /\ a \o b \in Seq(S) /\ Len(a \o b) = Len(a) + Len(b)
      /\ \A j \in 1..(Len(a) + Len(b)) :
           (a \o b)[j] = IF j <= Len(a) THEN a[j] ELSE b[j - Len(a)]
  BY <1>1, <1>2, ConcatProperties
<1>6. ASSUME NEW j \in 1..(Len(s) - 1)
      PROVE  /\ j < i => (a \o b)[j] = s[j]
             /\ j >= i => (a \o b)[j] = s[j + 1]
  <2>1. CASE j < i
    BY <1>1, <1>2, <1>4, <1>5, <2>1
  <2>2. CASE j >= i
    <3>1. (a \o b)[j] = b[j - (i - 1)]
      BY <1>1, <1>2, <1>4, <1>5, <2>2
    <3>2. j - (i - 1) \in 1..(Len(s) - i)
      BY <1>4, <2>2
    <3>3. b[j - (i - 1)] = s[i + (j - (i - 1))] /\ i + (j - (i - 1)) = j + 1
      BY <1>2, <1>4, <3>2
    <3> QED BY <2>2, <3>1, <3>3
  <2> QED BY <2>1, <2>2
<1>7. Len(a \o b) = Len(s) - 1
  BY <1>1, <1>2, <1>4, <1>5
<1> QED BY <1>3, <1>5, <1>6, <1>7

LEMMA ExceptAny ==
  ASSUME NEW S, NEW s \in Seq(S), NEW i, NEW e \in S
  PROVE  /\ [s EXCEPT ![i] = e] \in Seq(S) /\ Len([s EXCEPT ![i] = e]) = Len(s)
         /\ \A j \in 1..Len(s) : [s EXCEPT ![i] = e][j] = IF j = i THEN e ELSE s[j]
<1>1. CASE i \in 1..Len(s)
  BY <1>1, ExceptSeq
<1>2. CASE i \notin 1..Len(s)
  <2>1. [s EXCEPT ![i] = e] = s
    BY <1>2
  <2> QED BY <1>2, <2>1
<1> QED BY <1>1, <1>2

LEMMA Countdown ==
  ASSUME NEW N \in Nat, NEW n \in 0..N
  PROVE  Less(n) \in 0..N /\ (n \in Nat => Less(n) \in Nat)
BY DEF Less

LEMMA NextSnType ==
  ASSUME NEW s \in Sns
  PROVE  NextSn(s) \in Sns
BY IsotpAssumption DEF NextSn, Sns

\* isotp_tx_schedule_frame.
LEMMA ScheduleShape ==
  ASSUME NEW l, NEW t \in Senders(l), NEW f \in Data(l), BusShape(l), Schedule(t, f)
  PROVE  /\ boxS' \in Seq(OrApp(Data(l))) /\ Len(boxS') <= Mailboxes
         /\ tx' \in Senders(l) /\ tx'.frame = f
         /\ tx'.offset = t.offset /\ tx'.len = t.len
         /\ tx'.msg = t.msg
<1>1. CASE Len(boxS) < Mailboxes
  <2>1. boxS' = Append(boxS, f)
    BY <1>1 DEF Schedule
  <2>2. boxS' \in Seq(OrApp(Data(l))) /\ Len(boxS') = Len(boxS) + 1
    BY <2>1 DEF OrApp, BusShape
  <2>3. tx' = [t EXCEPT !.frame = f, !.waitEnqueue = FALSE, !.framePending = TRUE,
                        !.asLeft = NAs]
    BY <1>1 DEF Schedule
  <2>4. tx' \in Senders(l) /\ tx'.frame = f /\ tx'.offset = t.offset /\ tx'.len = t.len
        /\ tx'.msg = t.msg
    BY <2>3, Ranges DEF Senders
  <2> QED BY <1>1, <2>2, <2>4, IsotpAssumption DEF BusShape
<1>2. CASE Len(boxS) >= Mailboxes
  <2>1. boxS' = boxS /\ tx' = [t EXCEPT !.frame = f, !.waitEnqueue = TRUE, !.asLeft = NAs]
    BY <1>2, IsotpAssumption, SMTT(20) DEF Schedule, BusShape
  <2>2. tx' \in Senders(l) /\ tx'.frame = f /\ tx'.offset = t.offset /\ tx'.len = t.len
        /\ tx'.msg = t.msg
    BY <2>1, Ranges DEF Senders
  <2> QED BY <2>1, <2>2 DEF BusShape
<1> QED BY <1>1, <1>2, IsotpAssumption DEF BusShape

\* The sender's application is told a verdict.
LEMMA FinishShape ==
  ASSUME NEW l, NEW t \in Senders(l), NEW verdict \in Verdicts, Finish(t, verdict), AppShape
  PROVE  /\ tx' \in Senders(l) /\ tx'.offset = t.offset /\ tx'.len = t.len
         /\ tx'.waitEnqueue = t.waitEnqueue /\ tx'.frame = t.frame /\ tx'.ongoing = FALSE
         /\ outcome' \in Seq(Verdicts) /\ Len(outcome') = Len(outcome)
<1>1. tx' = [t EXCEPT !.ongoing = FALSE] /\ outcome' = [outcome EXCEPT ![t.msg] = verdict]
  BY DEF Finish
<1>2. /\ tx' \in Senders(l) /\ tx'.offset = t.offset /\ tx'.len = t.len
      /\ tx'.waitEnqueue = t.waitEnqueue /\ tx'.frame = t.frame /\ tx'.ongoing = FALSE
  BY <1>1 DEF Senders
<1>3. /\ [outcome EXCEPT ![t.msg] = verdict] \in Seq(Verdicts)
      /\ Len([outcome EXCEPT ![t.msg] = verdict]) = Len(outcome)
  <2>1. outcome \in Seq(Verdicts)
    BY DEF AppShape
  <2>2. SUFFICES ASSUME NEW i
                 PROVE  /\ [outcome EXCEPT ![i] = verdict] \in Seq(Verdicts)
                        /\ Len([outcome EXCEPT ![i] = verdict]) = Len(outcome)
    BY Zenon
  <2> QED BY <2>1, ExceptAny
<1> QED BY <1>1, <1>2, <1>3

LEMMA TxStartShape ==
  ASSUME NEW l, NEW n \in LensOf(l), TxStart(n), TxShape(l), BusShape(l), AppShape
  PROVE  TxShape(l)' /\ BusShape(l)' /\ AppShape'
<1> DEFINE m == Len(lens) + 1
           t == [tx EXCEPT !.ongoing = TRUE, !.msg = m, !.len = n, !.offset = 1,
                           !.sn = 1, !.inBlock = 0, !.sentCf = FALSE,
                           !.waitEnqueue = FALSE, !.framePending = FALSE,
                           !.waitFc = FALSE, !.afterBlock = FALSE]
           w == [t EXCEPT !.waitFc = TRUE, !.fcLeft = NBs]
<1>1. m \in Numbers /\ n \in Nat \ {0} /\ m \in 0..MaxMsgs
  <2>1. Len(lens) \in Nat /\ Len(lens) < MaxMsgs
    BY DEF TxStart, AppShape
  <2> QED BY <2>1, LensPositive, IsotpAssumption DEF Numbers
<1>2. t \in Senders(l) /\ t.offset = 1 /\ t.len = n /\ t.msg = m
  BY <1>1, Ranges DEF TxShape, Senders
<1> HIDE DEF t
<1>3. w \in Senders(l) /\ w.offset = 1 /\ w.len = n /\ w.msg = m
  BY <1>2, Ranges DEF Senders
<1> HIDE DEF m, w
<1>4. \/ n = 1 /\ Schedule(t, SF(m))
      \/ n > 1 /\ Schedule(w, FF(m, n))
  BY DEF TxStart, m, t, w
<1>5. SF(m) \in Data(l) /\ (n > 1 => FF(m, n) \in Data(l))
  BY <1>1, FrameTypes
<1>6. /\ boxS' \in Seq(OrApp(Data(l))) /\ Len(boxS') <= Mailboxes
      /\ tx' \in Senders(l) /\ tx'.frame \in Data(l) /\ tx'.offset = 1 /\ tx'.len = n
      /\ tx'.msg = m
  BY <1>2, <1>3, <1>4, <1>5, ScheduleShape
<1>7. TxShape(l)'
  BY <1>1, <1>6 DEF TxShape
<1>8. BusShape(l)'
  BY <1>6 DEF TxStart, BusShape
<1>9. AppShape'
  <2>1. lens' = Append(lens, n) /\ outcome' = Append(outcome, "ongoing") /\ UNCHANGED <<received, env>>
    BY DEF TxStart
  <2>2. lens' \in Seq(Nat \ {0}) /\ Len(lens') = m
    BY <1>1, <2>1 DEF AppShape, m
  <2>3. "ongoing" \in Verdicts
    BY DEF Verdicts
  <2>4. outcome' \in Seq(Verdicts) /\ Len(outcome') = m
    BY <2>1, <2>3 DEF AppShape, m
  <2> QED BY <1>1, <2>1, <2>2, <2>4, IsotpAssumption DEF AppShape, Numbers, env
<1> QED BY <1>7, <1>8, <1>9

LEMMA TxOnFrameShape ==
  ASSUME NEW l, TxOnFrame, TxShape(l), BusShape(l), AppShape, l # "request"
  PROVE  TxShape(l)' /\ BusShape(l)' /\ AppShape'
<1>1. toS \in Seq(Fcs) /\ toS # <<>> /\ toS' = Tail(toS)
  BY DEF TxOnFrame, BusShape
<1>2. Head(toS) \in Fcs /\ toS' \in Seq(Fcs) /\ toS' \in Seq(OrApp(Fcs))
  BY <1>1 DEF OrApp
<1>3. BusShape(l)'
  BY <1>2 DEF TxOnFrame, BusShape
<1> DEFINE typed == outcome' \in Seq(Verdicts) /\ Len(outcome') = Len(outcome)
<1>4. ASSUME UNCHANGED <<tx, outcome>>
      PROVE  TxShape(l)' /\ typed
  BY <1>4 DEF TxShape, AppShape
<1>5. TxShape(l)' /\ typed
  <2>1. CASE ~AcceptsFc
    BY <1>4, <2>1 DEF TxOnFrame
  <2>2. CASE AcceptsFc /\ Head(toS).status = "WAIT"
    <3>1. /\ \E c \in {NCr, NBs} : tx' = [tx EXCEPT !.fcLeft = c]
          /\ UNCHANGED outcome
      BY <2>2, Zenon DEF TxOnFrame
    <3>2. TxShape(l)'
      BY <3>1, Ranges DEF TxShape, Senders
    <3> QED BY <3>1, <3>2 DEF AppShape
  <2>3. CASE AcceptsFc /\ Head(toS).status = "CTS"
    <3>1. /\ tx' = [tx EXCEPT !.bs = BlockSize, !.waitFc = FALSE, !.afterBlock = FALSE,
                              !.inBlock = 0, !.fcLeft = NAs]
          /\ UNCHANGED outcome
      BY <2>3 DEF TxOnFrame
    <3>2. TxShape(l)'
      BY <3>1, Ranges DEF TxShape, Senders
    <3> QED BY <3>1, <3>2 DEF AppShape
  <2>4. CASE AcceptsFc /\ Head(toS).status \in {"OVERFLOW", "reserved"}
    <3>1. PICK verdict \in Verdicts : Finish(tx, verdict)
      BY <2>4 DEF TxOnFrame, Verdicts
    <3> QED BY <3>1, FinishShape DEF TxShape
  <2> QED BY <2>1, <2>2, <2>3, <2>4 DEF TxOnFrame
<1>6. AppShape'
  BY <1>5 DEF TxOnFrame, AppShape, env
<1> QED BY <1>3, <1>5, <1>6

LEMMA TxPollEnqueueShape ==
  ASSUME NEW l, TxPollEnqueue, TxShape(l), BusShape(l), AppShape
  PROVE  TxShape(l)' /\ BusShape(l)' /\ AppShape'
<1>1. CASE Len(boxS) < Mailboxes /\ boxS' = Append(boxS, tx.frame)
  <2>1. tx' = [tx EXCEPT !.waitEnqueue = FALSE, !.framePending = TRUE, !.asLeft = NAs]
        /\ UNCHANGED outcome
    BY <1>1, IsotpAssumption DEF TxPollEnqueue, Finish
  <2>2. TxShape(l)'
    BY <2>1, Ranges DEF TxShape, Senders
  <2>3. boxS' \in Seq(OrApp(Data(l))) /\ Len(boxS') <= Mailboxes
    BY <1>1, IsotpAssumption, SMTT(20) DEF TxPollEnqueue, TxShape, BusShape, OrApp
  <2>4. BusShape(l)'
    BY <2>3 DEF TxPollEnqueue, BusShape
  <2> QED BY <2>1, <2>2, <2>4 DEF TxPollEnqueue, AppShape, env
<1>2. CASE Finish([tx EXCEPT !.waitEnqueue = FALSE], "timeout") /\ UNCHANGED boxS
  <2> DEFINE t == [tx EXCEPT !.waitEnqueue = FALSE]
  <2>1. t \in Senders(l) /\ t.offset = tx.offset /\ t.len = tx.len /\ t.waitEnqueue = FALSE
    BY DEF TxShape, Senders
  <2> HIDE DEF t
  <2>2. Finish(t, "timeout") /\ "timeout" \in Verdicts
    BY <1>2 DEF t, Verdicts
  <2>3. TxShape(l)' /\ outcome' \in Seq(Verdicts) /\ Len(outcome') = Len(outcome)
    BY <2>1, <2>2, FinishShape DEF TxShape
  <2> QED BY <1>2, <2>3 DEF TxPollEnqueue, AppShape, BusShape, env
<1> QED BY <1>1, <1>2 DEF TxPollEnqueue

LEMMA TxPollStuckShape ==
  ASSUME NEW l, TxPollStuck, TxShape(l), BusShape(l), AppShape
  PROVE  TxShape(l)' /\ BusShape(l)' /\ AppShape'
<1> DEFINE t == [tx EXCEPT !.framePending = FALSE]
<1>1. t \in Senders(l) /\ t.offset = tx.offset /\ t.len = tx.len /\ t.waitEnqueue = FALSE
  BY DEF TxShape, Senders, TxPollStuck
<1> HIDE DEF t
<1>2. Finish(t, "timeout") /\ "timeout" \in Verdicts
  BY DEF t, Verdicts, TxPollStuck
<1>3. TxShape(l)' /\ outcome' \in Seq(Verdicts) /\ Len(outcome') = Len(outcome)
  BY <1>1, <1>2, FinishShape DEF TxShape
<1> QED BY <1>3 DEF TxPollStuck, AppShape, BusShape, bus, env

LEMMA SentType ==
  ASSUME NEW l, TxShape(l), ~tx.waitEnqueue
  PROVE  /\ Sent \in Senders(l) /\ Sent.offset = tx.offset /\ Sent.len = tx.len
         /\ Sent.waitEnqueue = FALSE /\ Sent.msg = tx.msg
BY DEF TxShape, Sent, Senders

LEMMA TxPollTransferShape ==
  ASSUME NEW l, TxPollTransfer, TxShape(l), BusShape(l), AppShape
  PROVE  TxShape(l)' /\ BusShape(l)' /\ AppShape'
<1> DEFINE typed == outcome' \in Seq(Verdicts) /\ Len(outcome') = Len(outcome)
           boxed == boxS' \in Seq(OrApp(Data(l))) /\ Len(boxS') <= Mailboxes
<1>1. ~tx.waitEnqueue /\ tx.ongoing
  BY DEF TxPollTransfer, PollReachesTransfer
<1>2. Sent \in Senders(l) /\ Sent.offset = tx.offset /\ Sent.len = tx.len
      /\ Sent.waitEnqueue = FALSE /\ tx.offset <= tx.len
      /\ Sent.msg = tx.msg /\ tx.msg \in Numbers
  BY <1>1, SentType DEF TxShape
<1>3. ASSUME NEW verdict \in Verdicts, Finish(Sent, verdict), UNCHANGED boxS
      PROVE  TxShape(l)' /\ typed /\ boxed
  BY <1>2, <1>3, FinishShape DEF TxShape, BusShape
<1>4. ASSUME tx' = Sent, UNCHANGED <<boxS, outcome>>
      PROVE  TxShape(l)' /\ typed /\ boxed
  BY <1>2, <1>4 DEF TxShape, BusShape, AppShape
<1>5. ASSUME tx' = [Sent EXCEPT !.waitFc = TRUE, !.afterBlock = TRUE, !.fcLeft = NCr],
             UNCHANGED <<boxS, outcome>>
      PROVE  TxShape(l)' /\ typed /\ boxed
  BY <1>2, <1>5, Ranges DEF TxShape, BusShape, AppShape, Senders
<1> DEFINE next == [Sent EXCEPT !.offset = @ + 1, !.sn = NextSn(@),
                                !.inBlock = @ + 1, !.sentCf = TRUE, !.sinceCf = 0]
           frame == CF(tx.sn, tx.msg, tx.offset + 1)
<1>6. ASSUME ~AllWritten(tx), Schedule(next, frame), UNCHANGED outcome
      PROVE  TxShape(l)' /\ typed /\ boxed
  <2>1. /\ tx.offset \in Nat /\ tx.len \in Nat /\ tx.sn \in Sns /\ tx.offset < tx.len
        /\ tx.msg \in 0..MaxMsgs
    BY <1>6, LensPositive DEF TxShape, Senders, AllWritten
  <2>2. next \in Senders(l) /\ next.offset <= next.len
    <3>1. Sent.sn \in Sns /\ Sent.offset \in Nat /\ Sent.inBlock \in Nat
      BY <1>2 DEF Senders
    <3>2. NextSn(Sent.sn) \in Sns /\ Sent.offset + 1 \in Nat /\ Sent.inBlock + 1 \in Nat
      BY <3>1, NextSnType
    <3>3. next \in Senders(l) /\ next.offset = tx.offset + 1 /\ next.len = tx.len
      BY <1>2, <3>2, Ranges DEF Senders
    <3> QED BY <2>1, <3>3
  <2>3. next.msg = tx.msg
    BY <1>2 DEF Senders
  <2>4. frame \in Data(l)
    <3>1. tx.msg \in Numbers /\ tx.offset + 1 \in Nat /\ tx.sn \in Sns
      BY <1>2, <2>1
    <3> QED BY <3>1, FrameTypes
  <2> HIDE DEF next, frame
  <2>5. boxed /\ tx' \in Senders(l) /\ tx'.frame \in Data(l) /\ tx'.offset <= tx'.len
        /\ tx'.msg = tx.msg
    BY <1>6, <2>2, <2>3, <2>4, ScheduleShape
  <2> QED BY <1>2, <1>6, <2>5 DEF TxShape, AppShape
<1>7. TxShape(l)' /\ typed /\ boxed
  <2>1. \/ \E verdict \in Verdicts : Finish(Sent, verdict) /\ UNCHANGED boxS
        \/ tx' = Sent /\ UNCHANGED <<boxS, outcome>>
        \/ /\ tx' = [Sent EXCEPT !.waitFc = TRUE, !.afterBlock = TRUE, !.fcLeft = NCr]
           /\ UNCHANGED <<boxS, outcome>>
        \/ ~AllWritten(tx) /\ Schedule(next, frame) /\ UNCHANGED outcome
    BY DEF TxPollTransfer, Verdicts
  <2> HIDE DEF next, frame
  <2> QED BY <2>1, <1>3, <1>4, <1>5, <1>6
<1> QED BY <1>7 DEF TxPollTransfer, AppShape, BusShape, env

-------------------------------------------------------------------------------
\* isotp_send_fc.
LEMMA SendFcShape ==
  ASSUME NEW l, NEW r \in Receivers, NEW status \in Statuses, BusShape(l), SendFc(r, status)
  PROVE  RxShape' /\ boxR' \in Seq(OrApp(Fcs)) /\ Len(boxR') <= Mailboxes
<1>1. FC(status) \in Fcs
  BY FcTypes
<1>2. CASE Len(boxR) < Mailboxes
  <2>1. boxR' = Append(boxR, FC(status))
    BY <1>2 DEF SendFc
  <2>2. boxR' \in Seq(OrApp(Fcs)) /\ Len(boxR') = Len(boxR) + 1
    BY <1>1, <2>1 DEF OrApp, BusShape
  <2>3. rx' = [r EXCEPT !.fc = FC(status), !.fcWait = FALSE, !.fcPending = TRUE,
                        !.arLeft = NAr]
    BY <1>2 DEF SendFc
  <2>4. RxShape'
    BY <1>1, <2>3, Ranges DEF RxShape, Receivers
  <2> QED BY <1>2, <2>2, <2>4, IsotpAssumption DEF BusShape
<1>3. CASE Len(boxR) >= Mailboxes
  <2>1. boxR' = boxR /\ rx' = [r EXCEPT !.fc = FC(status), !.fcWait = TRUE, !.arLeft = NAr]
    BY <1>3, IsotpAssumption, SMTT(20) DEF SendFc, BusShape
  <2>2. RxShape'
    BY <1>1, <2>1, Ranges DEF RxShape, Receivers
  <2> QED BY <2>1, <2>2 DEF BusShape
<1> QED BY <1>2, <1>3, IsotpAssumption DEF BusShape

\* IsotpRx_Reset.
LEMMA ResetRxShape ==
  ASSUME RxShape
  PROVE  ResetRx(rx) \in Receivers /\ ResetRx(rx).fcWait = FALSE
<1>1. PICK b \in Seq(Chunks) :
        ResetRx(rx) = [rx EXCEPT !.inProgress = FALSE, !.ready = FALSE, !.declared = 0,
                                 !.buf = b, !.fcWait = FALSE, !.fcPending = FALSE]
  <2>1. <<>> \in Seq(Chunks)
    OBVIOUS
  <2> QED BY <2>1, Zenon DEF ResetRx
<1> QED BY <1>1, Ranges DEF RxShape, Receivers

\* Whatever else a step of the receiver does, it takes the oldest frame.
LEMMA RxTakeShape ==
  ASSUME NEW l, NEW type \in {"SF", "FF", "CF"}, RxTake(type), BusShape(l)
  PROVE  /\ Head(toR) \in Data(l) /\ Head(toR).data \in Chunks
         /\ type = "FF" => Head(toR).len \in LensOf(l) \ {1}
         /\ type = "CF" => Head(toR).sn \in Sns
         /\ toR' \in Seq(Data(l) \cup Fcs)
<1>1. toR \in Seq(Data(l) \cup Fcs) /\ toR # <<>> /\ toR' = Tail(toR) /\ Head(toR).type = type
  BY DEF RxTake, BusShape
<1>2. Head(toR) \in Data(l) \cup Fcs /\ toR' \in Seq(Data(l) \cup Fcs)
  BY <1>1, HeadTailProperties
<1> QED BY <1>1, <1>2, DataFields

LEMMA RxOnFrameShape ==
  ASSUME NEW l, RxOnFrame, TxShape(l), RxShape, BusShape(l), AppShape
  PROVE  TxShape(l)' /\ RxShape' /\ BusShape(l)' /\ AppShape'
<1> DEFINE boxed == boxR' \in Seq(OrApp(Fcs)) /\ Len(boxR') <= Mailboxes
<1>1. ASSUME NEW type \in {"SF", "FF", "CF"}, RxTake(type), RxShape', boxed
      PROVE  TxShape(l)' /\ RxShape' /\ BusShape(l)' /\ AppShape'
  <2>1. toR' \in Seq(Data(l) \cup Fcs)
    BY <1>1, RxTakeShape
  <2> QED BY <1>1, <2>1 DEF RxTake, TxShape, BusShape, AppShape, app, env
<1>2. ASSUME UNCHANGED <<rx, boxR>>
      PROVE  RxShape' /\ boxed
  BY <1>2 DEF RxShape, BusShape
<1>3. ASSUME rx' = ResetRx(rx), UNCHANGED boxR
      PROVE  RxShape' /\ boxed
  BY <1>3, ResetRxShape DEF RxShape, BusShape
<1>4. CASE RxOnSF
  <2>1. RxTake("SF")
    BY <1>4 DEF RxOnSF
  <2>2. Head(toR).data \in Chunks
    BY <2>1, RxTakeShape
  <2>3. RxShape' /\ boxed
    <3>1. CASE UNCHANGED <<rx, boxR>>
      BY <3>1, <1>2
    <3>2. CASE rx' = [rx EXCEPT !.ready = TRUE, !.buf = <<Head(toR).data>>] /\ UNCHANGED boxR
      <4>1. <<Head(toR).data>> \in Seq(Chunks)
        BY <2>2
      <4>2. PICK b \in Seq(Chunks) : rx' = [rx EXCEPT !.ready = TRUE, !.buf = b]
        BY <3>2, <4>1, Zenon
      <4> QED BY <3>2, <4>2 DEF RxShape, Receivers, BusShape
    <3> QED BY <1>4, <3>1, <3>2 DEF RxOnSF
  <2> QED BY <1>1, <2>1, <2>3
<1>5. CASE RxOnFF
  <2>1. RxTake("FF")
    BY <1>5 DEF RxOnFF
  <2> DEFINE f == Head(toR)
             r == [rx EXCEPT !.inProgress = TRUE, !.declared = f.len, !.buf = <<f.data>>,
                             !.sn = 1, !.inBlock = 0]
  <2>2. f.data \in Chunks /\ f.len \in Nat
    BY <2>1, RxTakeShape, LensPositive
  <2>3. CASE UNCHANGED <<rx, boxR>>
    BY <2>3, <1>1, <1>2, <2>1
  <2>4. CASE rx' = ResetRx(rx) /\ UNCHANGED boxR
    BY <2>4, <1>1, <1>3, <2>1
  <2>5. CASE SendFc(rx, "OVERFLOW")
    <3>1. RxShape' /\ boxed
      BY <2>5, SendFcShape DEF RxShape, Statuses
    <3> QED BY <1>1, <2>1, <3>1
  <2>6. CASE f.len <= Capacity /\ SendFc(r, "CTS")
    <3>1. r \in Receivers
      <4>1. f.len \in 0..Capacity /\ <<f.data>> \in Seq(Chunks)
        BY <2>2, <2>6, IsotpAssumption
      <4>2. PICK n \in 0..Capacity, b \in Seq(Chunks) :
              r = [rx EXCEPT !.inProgress = TRUE, !.declared = n, !.buf = b, !.sn = 1,
                             !.inBlock = 0]
        BY <4>1, Zenon
      <4> HIDE DEF r
      <4> QED BY <4>2, Ranges DEF RxShape, Receivers
    <3> HIDE DEF r
    <3>2. RxShape' /\ boxed
      BY <2>6, <3>1, SendFcShape DEF Statuses
    <3> QED BY <1>1, <2>1, <3>2
  <2> QED BY <1>5, <2>3, <2>4, <2>5, <2>6 DEF RxOnFF
<1>6. CASE RxOnCF
  <2>1. RxTake("CF")
    BY <1>6 DEF RxOnCF
  <2> DEFINE f == Head(toR)
             r == [rx EXCEPT !.buf = Append(@, f.data), !.sn = NextSn(@),
                             !.inBlock = @ + 1, !.crLeft = NCr]
             whole == [r EXCEPT !.inProgress = FALSE, !.ready = TRUE]
             block == [r EXCEPT !.inBlock = 0]
  <2>2. r \in Receivers /\ r.fcWait = rx.fcWait /\ r.fc = rx.fc
    <3>1. f.data \in Chunks
      BY <2>1, RxTakeShape
    <3>2. rx.sn \in Sns /\ rx.inBlock \in Nat /\ rx.buf \in Seq(Chunks)
      BY DEF RxShape, Receivers
    <3>3. NextSn(rx.sn) \in Sns /\ rx.inBlock + 1 \in Nat /\ Append(rx.buf, f.data) \in Seq(Chunks)
      BY <3>1, <3>2, NextSnType
    <3> QED BY <3>3, Ranges DEF RxShape, Receivers
  <2> HIDE DEF r
  <2>3. CASE UNCHANGED <<rx, boxR>>
    BY <2>3, <1>1, <1>2, <2>1
  <2>4. CASE rx' = ResetRx(rx) /\ UNCHANGED boxR
    BY <2>4, <1>1, <1>3, <2>1
  <2>5. CASE rx' \in {r, whole} /\ UNCHANGED boxR
    <3>1. RxShape' /\ boxed
      BY <2>2, <2>5 DEF RxShape, Receivers, BusShape
    <3> QED BY <1>1, <2>1, <3>1
  <2>6. CASE SendFc(block, "CTS")
    <3>1. block \in Receivers
      BY <2>2 DEF Receivers
    <3> HIDE DEF block
    <3>2. RxShape' /\ boxed
      BY <2>6, <3>1, SendFcShape DEF Statuses
    <3> QED BY <1>1, <2>1, <3>2
  <2> QED BY <1>6, <2>3, <2>4, <2>5, <2>6 DEF RxOnCF, r
<1> QED BY <1>4, <1>5, <1>6 DEF RxOnFrame

LEMMA RxPollShape ==
  ASSUME NEW l, RxPoll, TxShape(l), RxShape, BusShape(l), AppShape
  PROVE  TxShape(l)' /\ RxShape' /\ BusShape(l)' /\ AppShape'
<1>1. RxShape' /\ boxR' \in Seq(OrApp(Fcs)) /\ Len(boxR') <= Mailboxes
  <2>1. CASE /\ rx.fcWait /\ Len(boxR) < Mailboxes /\ boxR' = Append(boxR, rx.fc)
             /\ rx' = [rx EXCEPT !.fcWait = FALSE, !.fcPending = TRUE, !.arLeft = NAr]
    <3>1. RxShape'
      BY <2>1, Ranges DEF RxShape, Receivers
    <3>2. rx.fc \in OrApp(Fcs)
      BY <2>1 DEF RxShape, OrApp
    <3> QED BY <2>1, <3>1, <3>2, IsotpAssumption, SMTT(20) DEF BusShape
  <2>2. CASE /\ UNCHANGED boxR
             /\ \/ rx' = [rx EXCEPT !.fcWait = FALSE, !.inProgress = FALSE]
                \/ rx' = [rx EXCEPT !.inProgress = FALSE, !.fcPending = FALSE]
                \/ rx' = [rx EXCEPT !.fcPending = FALSE, !.crLeft = NCr]
                \/ rx' = [rx EXCEPT !.inProgress = FALSE]
    BY <2>2, Ranges DEF RxShape, Receivers, BusShape
  <2> QED BY <2>1, <2>2 DEF RxPoll
<1> QED BY <1>1 DEF RxPoll, TxShape, BusShape, AppShape, app, env

LEMMA RxReadShape ==
  ASSUME NEW l, RxRead, TxShape(l), RxShape, BusShape(l), AppShape
  PROVE  TxShape(l)' /\ RxShape' /\ BusShape(l)' /\ AppShape'
<1>1. RxShape' /\ received' \in Seq(Seq(Chunks))
  <2>1. RxShape' /\ rx.buf \in Seq(Chunks)
    BY DEF RxRead, RxShape, Receivers
  <2>2. received' = Append(received, rx.buf) /\ received \in Seq(Seq(Chunks))
    BY DEF RxRead, AppShape
  <2>3. ASSUME NEW S, NEW s \in Seq(S), NEW e \in S
        PROVE  Append(s, e) \in Seq(S)
    OBVIOUS
  <2>4. Append(received, rx.buf) \in Seq(Seq(Chunks))
    BY <2>1, <2>2, <2>3
  <2> QED BY <2>1, <2>2, <2>4
<1> QED BY <1>1 DEF RxRead, TxShape, BusShape, AppShape, bus, env

-------------------------------------------------------------------------------
\* The controllers, other frames, and time.
LEMMA TransmitSShape ==
  ASSUME NEW l, NEW i \in 1..Len(boxS), TransmitS(i), TxShape(l), RxShape, BusShape(l), AppShape
  PROVE  TxShape(l)' /\ RxShape' /\ BusShape(l)' /\ AppShape'
<1>1. boxS' \in Seq(OrApp(Data(l))) /\ Len(boxS') = Len(boxS) - 1
  BY RemoveIs DEF TransmitS, BusShape
<1>2. boxS[i] \in OrApp(Data(l))
  BY DEF BusShape
<1>3. boxS[i].type # "app" => boxS[i] \in Data(l)
  BY <1>2 DEF OrApp, AppFrame
<1>4. toR' \in Seq(Data(l) \cup Fcs) /\ losses' \in Nat
  <2>1. CASE UNCHANGED toR /\ losses' \in {losses, losses + 1}
    BY <2>1 DEF BusShape, AppShape
  <2>2. CASE boxS[i].type # "app" /\ toR' = Append(toR, boxS[i]) /\ UNCHANGED losses
    BY <1>3, <2>2 DEF BusShape, AppShape
  <2> QED BY <2>1, <2>2 DEF TransmitS
<1> QED BY <1>1, <1>4, IsotpAssumption, SMTT(20) DEF TransmitS, TxShape, RxShape, BusShape, AppShape, app

LEMMA TransmitRShape ==
  ASSUME NEW l, NEW i \in 1..Len(boxR), TransmitR(i), TxShape(l), RxShape, BusShape(l), AppShape
  PROVE  TxShape(l)' /\ RxShape' /\ BusShape(l)' /\ AppShape'
<1>1. boxR' \in Seq(OrApp(Fcs)) /\ Len(boxR') = Len(boxR) - 1
  BY RemoveIs DEF TransmitR, BusShape
<1>2. boxR[i] \in OrApp(Fcs)
  BY DEF BusShape
<1>3. boxR[i].type # "app" => boxR[i] \in Fcs
  BY <1>2 DEF OrApp, AppFrame
<1>4. toS' \in Seq(OrApp(Fcs)) /\ (l # "request" => toS' \in Seq(Fcs)) /\ losses' \in Nat
  <2>1. CASE UNCHANGED toS /\ losses' \in {losses, losses + 1}
    BY <2>1 DEF BusShape, AppShape
  <2>2. CASE boxR[i].type # "app" /\ toS' = Append(toS, boxR[i]) /\ UNCHANGED losses
    BY <1>3, <2>2 DEF BusShape, AppShape, OrApp
  <2> QED BY <2>1, <2>2 DEF TransmitR
<1> QED BY <1>1, <1>4, IsotpAssumption, SMTT(20) DEF TransmitR, TxShape, RxShape, BusShape, AppShape, app

\* Another frame takes a mailbox.
LEMMA AppBoxed ==
  ASSUME NEW F, NEW box \in Seq(OrApp(F)), Len(box) < Mailboxes
  PROVE  Append(box, AppFrame) \in Seq(OrApp(F)) /\ Len(Append(box, AppFrame)) <= Mailboxes
BY IsotpAssumption DEF OrApp

LEMMA AppSendsShape ==
  ASSUME NEW l, AppSends, TxShape(l), RxShape, BusShape(l), AppShape
  PROVE  TxShape(l)' /\ RxShape' /\ BusShape(l)' /\ AppShape'
<1>1. /\ boxS' \in Seq(OrApp(Data(l))) /\ Len(boxS') <= Mailboxes
      /\ boxR' \in Seq(OrApp(Fcs)) /\ Len(boxR') <= Mailboxes
  BY AppBoxed DEF AppSends, BusShape
<1> QED BY <1>1 DEF AppSends, TxShape, RxShape, BusShape, AppShape, app, env

LEMMA ForeignFcShape ==
  ASSUME NEW l, ForeignFc, TxShape(l), RxShape, BusShape(l), AppShape
  PROVE  TxShape(l)' /\ RxShape' /\ BusShape(l)' /\ AppShape'
<1>1. FC("WAIT") \in Fcs /\ FC("reserved") \in Fcs
  BY FcTypes DEF Statuses
<1>2. ASSUME NEW S, toS \in Seq(S), Fcs \subseteq S
      PROVE  toS' \in Seq(S)
  <2>1. \A f \in S : <<f>> \in Seq(S)
    OBVIOUS
  <2>2. Tail(toS) \in Seq(S)
    BY <1>2 DEF ForeignFc
  <2>3. \A a, b \in Seq(S) : a \o b \in Seq(S)
    OBVIOUS
  <2> QED BY <1>1, <1>2, <2>1, <2>2, <2>3, Zenon DEF ForeignFc
<1>3. toS' \in Seq(OrApp(Fcs)) /\ (l # "request" => toS' \in Seq(Fcs))
  BY <1>2 DEF BusShape, OrApp
<1> QED BY <1>3 DEF ForeignFc, TxShape, RxShape, BusShape, AppShape, app

\* Timers count down.
LEMMA TimersRun ==
  ASSUME NEW l, TxShape(l),
         tx' = [tx EXCEPT !.asLeft = Less(@), !.fcLeft = Less(@), !.sinceCf = More(@)]
  PROVE  TxShape(l)'
<1>1. tx.asLeft \in 0..NAs /\ tx.fcLeft \in Nat /\ tx.sinceCf \in 0..Stmin
  BY DEF TxShape, Senders
<1>2. Less(tx.asLeft) \in 0..NAs /\ Less(tx.fcLeft) \in Nat /\ More(tx.sinceCf) \in 0..Stmin
  BY <1>1, Ranges, IsotpAssumption DEF Less, More
<1> QED BY <1>2 DEF TxShape, Senders

LEMMA RxTimersRun ==
  ASSUME RxShape, rx' = [rx EXCEPT !.arLeft = Less(@), !.crLeft = Less(@)]
  PROVE  RxShape'
<1>1. rx.arLeft \in 0..NAr /\ rx.crLeft \in 0..NCr
  BY DEF RxShape, Receivers
<1>2. Less(rx.arLeft) \in 0..NAr /\ Less(rx.crLeft) \in 0..NCr
  BY <1>1, IsotpAssumption DEF Less
<1> QED BY <1>2 DEF RxShape, Receivers

LEMMA TickShape ==
  ASSUME NEW l, Tick, TxShape(l), RxShape, BusShape(l), AppShape
  PROVE  TxShape(l)' /\ RxShape' /\ BusShape(l)' /\ AppShape'
BY TimersRun, RxTimersRun DEF Tick, BusShape, AppShape, bus, app, env

-------------------------------------------------------------------------------
\* The PC sends.
LEMMA SendFrameShape ==
  ASSUME NEW l, NEW f \in Data(l), SendFrame(f), BusShape(l), AppShape
  PROVE  toR' \in Seq(Data(l) \cup Fcs) /\ losses' \in Nat
<1>1. f \in Data(l) \cup Fcs /\ toR \in Seq(Data(l) \cup Fcs) /\ losses \in Nat
  BY DEF BusShape, AppShape
<1>2. \A S : \A s \in Seq(S), e \in S : Append(s, e) \in Seq(S)
  OBVIOUS
<1>3. Append(toR, f) \in Seq(Data(l) \cup Fcs)
  BY <1>1, <1>2
<1> QED BY <1>1, <1>3, SMTT(20) DEF SendFrame

LEMMA SendEndsShape ==
  ASSUME NEW verdict \in Verdicts, SendEnds(verdict), AppShape
  PROVE  SendShape' /\ outcome' \in Seq(Verdicts) /\ Len(outcome') = Len(outcome)
<1>1. SendShape'
  BY Ranges DEF SendEnds, NoSend, SendShape, SendCalls
<1>2. SUFFICES ASSUME NEW i
               PROVE  /\ [outcome EXCEPT ![i] = verdict] \in Seq(Verdicts)
                      /\ Len([outcome EXCEPT ![i] = verdict]) = Len(outcome)
  BY <1>1, Zenon DEF SendEnds
<1> QED BY ExceptAny DEF AppShape

LEMMA AwaitsFcShape ==
  ASSUME NEW s \in SendCalls
  PROVE  /\ AwaitsFc(s) \in SendCalls
         /\ AwaitsFc(s).inBlock = s.inBlock /\ AwaitsFc(s).sent = s.sent
         /\ AwaitsFc(s).len = s.len /\ AwaitsFc(s).msg = s.msg
BY Ranges DEF AwaitsFc, SendCalls

LEMMA PcSendShape ==
  ASSUME NEW n \in Requests, PcSend(n), TxShape("request"), RxShape, BusShape("request"),
         AppShape, SendShape
  PROVE  TxShape("request")' /\ RxShape' /\ BusShape("request")' /\ AppShape' /\ SendShape'
<1> DEFINE m == Len(lens) + 1
<1>1. m \in Numbers /\ n \in Nat \ {0} /\ n \in LensOf("request") /\ m \in 0..MaxMsgs
  <2>1. Len(lens) \in Nat /\ Len(lens) < MaxMsgs
    BY DEF PcSend, AppShape
  <2>2. n \in LensOf("request") /\ n \in Nat \ {0}
    BY SendAssumption DEF LensOf
  <2> QED BY <2>1, <2>2, IsotpAssumption DEF Numbers
<1>2. lens' \in Seq(Nat \ {0}) /\ Len(lens') = m
  BY <1>1 DEF PcSend, AppShape
<1>3. SF(m) \in Data("request") /\ (n > 1 => FF(m, n) \in Data("request"))
  BY <1>1, FrameTypes
<1>4. ASSUME NEW s \in {"ok", "ongoing"}, outcome' = Append(outcome, s)
      PROVE  outcome' \in Seq(Verdicts) /\ Len(outcome') = m
  BY <1>4 DEF AppShape, Verdicts
<1> DEFINE s == [NoSend EXCEPT !.msg = m, !.len = n]
<1>5. s \in SendCalls /\ s.inBlock = 0 /\ s.sent = 0 /\ s.len = n /\ s.msg = m
  BY <1>1, Ranges DEF NoSend, SendCalls
<1> HIDE DEF m, s
<1>6. /\ toR' \in Seq(Data("request") \cup Fcs) /\ losses' \in Nat
      /\ outcome' \in Seq(Verdicts) /\ Len(outcome') = m
      /\ SendShape'
  <2>1. CASE n = 1 /\ SendFrame(SF(m)) /\ outcome' = Append(outcome, "ok") /\ UNCHANGED send
    BY <2>1, <1>3, <1>4, SendFrameShape DEF SendShape
  <2>2. CASE /\ n > 1 /\ SendFrame(FF(m, n)) /\ outcome' = Append(outcome, "ongoing")
             /\ send' = AwaitsFc(s)
    <3>1. SendShape'
      BY <2>2, <1>1, <1>5, AwaitsFcShape DEF SendShape
    <3> QED BY <2>2, <3>1, <1>3, <1>4, SendFrameShape
  <2> QED BY <1>2, <2>1, <2>2 DEF PcSend, s
<1> QED BY <1>1, <1>2, <1>6 DEF PcSend, TxShape, RxShape, BusShape, AppShape, Numbers

LEMMA WaitFlowControlShape ==
  ASSUME WaitFlowControl, TxShape("request"), RxShape, BusShape("request"), AppShape, SendShape
  PROVE  TxShape("request")' /\ RxShape' /\ BusShape("request")' /\ AppShape' /\ SendShape'
<1>1. Head(toS) \in OrApp(Fcs) /\ toS' \in Seq(OrApp(Fcs))
  BY DEF WaitFlowControl, BusShape
<1>2. SendShape' /\ outcome' \in Seq(Verdicts) /\ Len(outcome') = Len(outcome)
  <2>1. CASE UNCHANGED <<send, outcome>>
    BY <2>1 DEF SendShape, AppShape
  <2>2. CASE \E verdict \in Verdicts : SendEnds(verdict)
    BY <2>2, SendEndsShape
  <2>3. CASE send' = AwaitsFc(send) /\ UNCHANGED outcome
    <3>1. SendShape'
      BY <2>3, AwaitsFcShape DEF SendShape, WaitFlowControl
    <3> QED BY <2>3, <3>1 DEF AppShape
  <2>4. CASE send' = [send EXCEPT !.at = "cf", !.inBlock = 0, !.pause = Stmin] /\ UNCHANGED outcome
    <3>1. SendShape'
      <4>1. send \in SendCalls /\ Stmin \in 0..Stmin
        BY IsotpAssumption DEF SendShape
      <4>2. /\ send' \in SendCalls /\ send'.inBlock = 0 /\ send'.sent = send.sent
            /\ send'.len = send.len /\ send'.msg = send.msg
        BY <2>4, <4>1 DEF SendCalls
      <4>3. send.at = "fc" /\ send.sent \in Nat
        BY <4>1 DEF WaitFlowControl, SendCalls
      <4> QED BY <4>2, <4>3 DEF SendShape
    <3> QED BY <2>4, <3>1 DEF AppShape
  <2> QED BY <2>1, <2>2, <2>3, <2>4 DEF WaitFlowControl, FC, Verdicts
<1> QED BY <1>1, <1>2 DEF WaitFlowControl, TxShape, RxShape, BusShape, AppShape, env

LEMMA FlowControlTimeoutShape ==
  ASSUME FlowControlTimeout, TxShape("request"), RxShape, BusShape("request"), AppShape,
         SendShape
  PROVE  TxShape("request")' /\ RxShape' /\ BusShape("request")' /\ AppShape' /\ SendShape'
<1>1. SendShape' /\ outcome' \in Seq(Verdicts) /\ Len(outcome') = Len(outcome)
  BY SendEndsShape DEF FlowControlTimeout, Verdicts
<1> QED BY <1>1 DEF FlowControlTimeout, TxShape, RxShape, BusShape, AppShape, bus, env

LEMMA SendConsecutiveShape ==
  ASSUME SendConsecutive, TxShape("request"), RxShape, BusShape("request"), AppShape, SendShape
  PROVE  TxShape("request")' /\ RxShape' /\ BusShape("request")' /\ AppShape' /\ SendShape'
<1> DEFINE f == CF(Sn(send.sent + 1), send.msg, send.sent + 2)
           s == [send EXCEPT !.sent = @ + 1, !.inBlock = @ + 1, !.pause = Stmin]
<1>1. send.sent \in Nat /\ send.inBlock \in Nat /\ send.msg \in Numbers /\ send.len \in Nat
  BY SendAssumption DEF SendConsecutive, SendShape, SendCalls
<1>2. f \in Data("request")
  <2>1. /\ Sn(send.sent + 1) \in Sns /\ send.sent + 2 \in Nat
        /\ send.msg \in Numbers
    BY <1>1, IsotpAssumption DEF Sn, Sns
  <2>2. \A k \in Nat, i \in Sns : CF(i, send.msg, k) \in Data("request")
    BY <2>1, FrameTypes
  <2> QED BY <2>1, <2>2, Zenon
<1>3. /\ s \in SendCalls /\ s.inBlock = send.inBlock + 1 /\ s.sent = send.sent + 1
      /\ s.len = send.len /\ s.msg = send.msg /\ s.at = "cf"
  <2>1. send \in SendCalls /\ send.at = "cf" /\ Stmin \in 0..Stmin
    BY IsotpAssumption DEF SendShape, SendConsecutive
  <2>2. send.sent + 1 \in Nat /\ send.inBlock + 1 \in Nat
    BY <1>1
  <2> HIDE DEF f
  <2>3. s \in SendCalls
    BY <2>1, <2>2 DEF SendCalls
  <2>4. /\ s.inBlock = send.inBlock + 1 /\ s.sent = send.sent + 1
        /\ s.len = send.len /\ s.msg = send.msg /\ s.at = send.at
    BY <2>1 DEF SendCalls
  <2> QED BY <2>1, <2>3, <2>4
<1>4. send.inBlock <= send.sent /\ send.sent + 1 < send.len
  BY DEF SendShape, SendConsecutive
<1> HIDE DEF f, s
<1>5. toR' \in Seq(Data("request") \cup Fcs) /\ losses' \in Nat
  BY <1>2, SendFrameShape DEF SendConsecutive, f
<1>6. SendShape' /\ outcome' \in Seq(Verdicts) /\ Len(outcome') = Len(outcome)
  <2>1. CASE SendEnds("ok")
    BY <2>1, SendEndsShape DEF Verdicts
  <2>2. CASE ~AllSent(s) /\ send' \in {AwaitsFc(s), s} /\ UNCHANGED outcome
    <3>1. s.sent + 1 # s.len
      BY <2>2 DEF AllSent
    <3>2. SendShape'
      BY <2>2, <3>1, <1>1, <1>3, <1>4, AwaitsFcShape DEF SendShape
    <3> QED BY <2>2, <3>2 DEF AppShape
  <2> QED BY <2>1, <2>2 DEF SendConsecutive, s
<1> QED BY <1>5, <1>6 DEF SendConsecutive, TxShape, RxShape, BusShape, AppShape

LEMMA OtherRequestFramesShape ==
  ASSUME OtherRequestFrames, TxShape("request"), RxShape, BusShape("request"), AppShape,
         SendShape
  PROVE  TxShape("request")' /\ RxShape' /\ BusShape("request")' /\ AppShape' /\ SendShape'
<1>1. /\ boxR' \in Seq(OrApp(Fcs)) /\ Len(boxR') <= Mailboxes
      /\ toS' \in Seq(OrApp(Fcs))
  <2>1. <<AppFrame>> \in Seq(OrApp(Fcs))
    BY DEF OrApp
  <2> QED BY <2>1, AppBoxed DEF OtherRequestFrames, BusShape
<1> QED BY <1>1 DEF OtherRequestFrames, TxShape, RxShape, BusShape, AppShape, SendShape, app, env

LEMMA SendTickShape ==
  ASSUME SendTick, TxShape("request"), RxShape, BusShape("request"), AppShape, SendShape
  PROVE  TxShape("request")' /\ RxShape' /\ BusShape("request")' /\ AppShape' /\ SendShape'
<1>1. send.left \in 0..SendTimeout /\ send.pause \in 0..Stmin
  BY DEF SendShape, SendCalls
<1>2. Less(send.left) \in 0..SendTimeout /\ Less(send.pause) \in 0..Stmin
  BY <1>1, SendAssumption, IsotpAssumption, Countdown
<1>3. SendShape'
  BY <1>2 DEF SendTick, SendShape, SendCalls
<1>4. RxShape'
  BY RxTimersRun DEF SendTick
<1> QED BY <1>3, <1>4 DEF SendTick, TxShape, BusShape, AppShape, bus, app, env

-------------------------------------------------------------------------------
\* The PC receives.
LEMMA NoCallShape == recv' = NoCall => RecvShape'
BY Ranges DEF NoCall, RecvShape, ReceiveCalls

LEMMA AdvertiseShape ==
  ASSUME Advertise, BusShape("response"), AppShape
  PROVE  toS' \in Seq(OrApp(Fcs)) /\ toS' \in Seq(Fcs) /\ losses' \in Nat
<1>1. FC("CTS") \in Fcs
  BY FcTypes DEF Statuses
<1>2. toS \in Seq(Fcs) /\ toS \in Seq(OrApp(Fcs)) /\ losses \in Nat
  BY DEF BusShape, AppShape
<1>3. \A S : \A s \in Seq(S), e \in S : Append(s, e) \in Seq(S)
  OBVIOUS
<1>4. Append(toS, FC("CTS")) \in Seq(Fcs) /\ Append(toS, FC("CTS")) \in Seq(OrApp(Fcs))
  BY <1>1, <1>2, <1>3 DEF OrApp
<1> QED BY <1>2, <1>4, SMTT(20) DEF Advertise

LEMMA PcReceiveShape ==
  ASSUME PcReceive
  PROVE  RecvShape'
<1>1. NoCall \in ReceiveCalls /\ Len(NoCall.payload) = 0 /\ NoCall.declared = 0
  BY Ranges DEF NoCall, ReceiveCalls
<1>2. recv' = [NoCall EXCEPT !.at = "first", !.left = CallTimeout]
  BY DEF PcReceive
<1>3. recv' \in ReceiveCalls /\ recv'.payload = NoCall.payload /\ recv'.declared = 0
      /\ recv'.at = "first"
  BY <1>1, <1>2, Ranges DEF ReceiveCalls
<1> QED BY <1>1, <1>3 DEF RecvShape

\* Whatever else a step of the call does, it takes the oldest frame.
LEMMA TakesFrameShape ==
  ASSUME NEW at, TakesFrame(at), TxShape("response"), RxShape, BusShape("response"), AppShape,
         toS' \in Seq(OrApp(Fcs)), toS' \in Seq(Fcs), losses' \in Nat,
         received' \in Seq(Seq(Chunks))
  PROVE  TxShape("response")' /\ RxShape' /\ BusShape("response")' /\ AppShape'
<1>1. toR' \in Seq(Data("response") \cup Fcs)
  BY DEF TakesFrame, BusShape
<1> QED BY <1>1 DEF TakesFrame, TxShape, RxShape, BusShape, AppShape

LEMMA ReturnsShape ==
  ASSUME NEW message \in Seq(Chunks), Returns(message), BusShape("response"), AppShape
  PROVE  /\ RecvShape' /\ received' \in Seq(Seq(Chunks))
         /\ toS' \in Seq(OrApp(Fcs)) /\ toS' \in Seq(Fcs) /\ losses' \in Nat
<1>1. \A S : \A s \in Seq(S), e \in S : Append(s, e) \in Seq(S)
  OBVIOUS
<1>2. Append(received, message) \in Seq(Seq(Chunks))
  BY <1>1 DEF AppShape
<1> QED BY <1>2, NoCallShape DEF Returns, BusShape, AppShape

LEMMA RaisesShape ==
  ASSUME Raises, BusShape("response"), AppShape
  PROVE  /\ RecvShape' /\ received' \in Seq(Seq(Chunks))
         /\ toS' \in Seq(OrApp(Fcs)) /\ toS' \in Seq(Fcs) /\ losses' \in Nat
BY NoCallShape DEF Raises, BusShape, AppShape

LEMMA ReceiveFirstShape ==
  ASSUME ReceiveFirst, TxShape("response"), RxShape, BusShape("response"), AppShape, RecvShape
  PROVE  TxShape("response")' /\ RxShape' /\ BusShape("response")' /\ AppShape' /\ RecvShape'
<1> DEFINE f == Head(toR)
           sent == /\ toS' \in Seq(OrApp(Fcs)) /\ toS' \in Seq(Fcs) /\ losses' \in Nat
                   /\ received' \in Seq(Seq(Chunks))
<1>1. TakesFrame("first") /\ f \in Data("response") \cup Fcs
  BY HeadTailProperties DEF ReceiveFirst, TakesFrame, BusShape
<1>2. f.type \in {"SF", "FF"} => f.data \in Chunks /\ <<f.data>> \in Seq(Chunks)
  BY <1>1, DataFields
<1>3. RecvShape' /\ sent
  <2>1. CASE f.type = "SF" /\ Returns(<<f.data>>)
    BY <2>1, <1>2, ReturnsShape
  <2>2. CASE Raises
    BY <2>2, RaisesShape
  <2>3. CASE /\ f.type = "FF" /\ Advertise /\ UNCHANGED received
             /\ recv' = [recv EXCEPT !.at = "rest", !.declared = f.len, !.payload = <<f.data>>]
    <3>1. f.len \in Responses \ {1} /\ f.len \in Nat \ {0}
      BY <1>1, <2>3, DataFields, CallAssumption DEF LensOf
    <3> DEFINE b == <<f.data>>
    <3>2. b \in Seq(Chunks) /\ Len(b) = 1
      BY <1>2, <2>3
    <3>3. recv' = [recv EXCEPT !.at = "rest", !.declared = f.len, !.payload = b]
      BY <2>3
    <3> HIDE DEF b
    <3>4. RecvShape'
      <4>1. /\ recv' \in ReceiveCalls /\ recv'.payload = b /\ recv'.declared = f.len
        BY <3>1, <3>2, <3>3 DEF RecvShape, ReceiveCalls
      <4>2. f.len \in Nat /\ f.len > 1
        BY <3>1
      <4> HIDE DEF f
      <4>3. Len(recv'.payload) = 1 /\ recv'.declared \in Nat /\ recv'.declared > 1
        BY <3>2, <4>1, <4>2
      <4>4. Len(recv'.payload) < recv'.declared
        BY <4>3
      <4> QED BY <4>1, <4>3, <4>4 DEF RecvShape
    <3> QED BY <2>3, <3>4, AdvertiseShape DEF AppShape
  <2> QED BY <2>1, <2>2, <2>3 DEF ReceiveFirst
<1> QED BY <1>1, <1>3, TakesFrameShape

LEMMA ReceiveRestShape ==
  ASSUME ReceiveRest, TxShape("response"), RxShape, BusShape("response"), AppShape, RecvShape
  PROVE  TxShape("response")' /\ RxShape' /\ BusShape("response")' /\ AppShape' /\ RecvShape'
<1> DEFINE f == Head(toR)
           r == [recv EXCEPT !.payload = Append(@, f.data), !.index = NextIndex(@),
                             !.inBlock = @ + 1]
           block == [r EXCEPT !.inBlock = 0]
           sent == /\ toS' \in Seq(OrApp(Fcs)) /\ toS' \in Seq(Fcs) /\ losses' \in Nat
                   /\ received' \in Seq(Seq(Chunks))
<1>1. TakesFrame("rest") /\ f \in Data("response") \cup Fcs
  BY HeadTailProperties DEF ReceiveRest, TakesFrame, BusShape
<1>2. f.type = "CF" => f.data \in Chunks
  BY <1>1, DataFields
<1>3. ASSUME f.type = "CF"
      PROVE  /\ r \in ReceiveCalls /\ r.payload \in Seq(Chunks) /\ r.declared = recv.declared
             /\ Len(r.payload) = Len(recv.payload) + 1 /\ r.at = "rest"
  <2>1. /\ recv \in ReceiveCalls /\ recv.payload \in Seq(Chunks) /\ recv.index \in Sns
        /\ recv.inBlock \in Nat /\ recv.at = "rest"
    BY <1>1 DEF RecvShape, ReceiveCalls, TakesFrame
  <2>2. /\ Append(recv.payload, f.data) \in Seq(Chunks)
        /\ Len(Append(recv.payload, f.data)) = Len(recv.payload) + 1
        /\ NextIndex(recv.index) \in Sns /\ recv.inBlock + 1 \in Nat
    <3>1. \A S : \A s \in Seq(S), e \in S : Append(s, e) \in Seq(S) /\ Len(Append(s, e)) = Len(s) + 1
      OBVIOUS
    <3>2. \A i \in Sns : NextIndex(i) \in Sns
      BY IsotpAssumption DEF NextIndex, Sns
    <3> QED BY <2>1, <1>2, <1>3, <3>1, <3>2
  <2>3. r \in ReceiveCalls
    BY <2>1, <2>2 DEF ReceiveCalls
  <2>4. r.payload = Append(recv.payload, f.data) /\ r.declared = recv.declared /\ r.at = recv.at
    BY <2>1 DEF ReceiveCalls
  <2> QED BY <2>1, <2>2, <2>3, <2>4
<1> HIDE DEF r, block, sent, f
<1>4. recv \in ReceiveCalls /\ recv.declared \in Nat /\ Len(recv.payload) < recv.declared
  <2>1. recv \in ReceiveCalls /\ Len(recv.payload) < recv.declared
    BY <1>1 DEF RecvShape, TakesFrame
  <2>2. recv.declared \in Responses \cup {0}
    BY <2>1 DEF ReceiveCalls
  <2>3. \A n \in Responses \cup {0} : n \in Nat
    BY CallAssumption
  <2>4. recv.declared \in Nat
    BY <2>2, <2>3
  <2> QED BY <2>1, <2>4
<1> USE DEF block, sent, f
<1>5. RecvShape' /\ sent
  <2>1. CASE UNCHANGED <<recv, toS, losses, received>>
    BY <2>1 DEF RecvShape, BusShape, AppShape
  <2>2. CASE Raises
    BY <2>2, RaisesShape
  <2>3. CASE f.type = "CF" /\ Returns(r.payload)
    BY <2>3, <1>3, ReturnsShape
  <2>4. CASE f.type = "CF" /\ ~Complete(r) /\ recv' = block /\ Advertise /\ UNCHANGED received
    <3>1. Len(r.payload) < r.declared
      BY <2>4, <1>3, <1>4 DEF Complete
    <3>2. RecvShape'
      BY <2>4, <3>1, <1>3, <1>4, SMTT(20) DEF RecvShape, ReceiveCalls
    <3> QED BY <2>4, <3>2, AdvertiseShape DEF AppShape
  <2>5. CASE f.type = "CF" /\ ~Complete(r) /\ recv' = r /\ UNCHANGED <<toS, losses, received>>
    <3>1. Len(r.payload) < r.declared
      BY <2>5, <1>3, <1>4 DEF Complete
    <3> QED BY <2>5, <3>1, <1>3, <1>4 DEF RecvShape, BusShape, AppShape
  <2> QED BY <2>1, <2>2, <2>3, <2>4, <2>5 DEF ReceiveRest, r
<1> QED BY <1>1, <1>5, TakesFrameShape

LEMMA ReceiveTimeoutShape ==
  ASSUME ReceiveTimeout, TxShape("response"), RxShape, BusShape("response"), AppShape, RecvShape
  PROVE  TxShape("response")' /\ RxShape' /\ BusShape("response")' /\ AppShape' /\ RecvShape'
BY RaisesShape DEF ReceiveTimeout, Raises, TxShape, RxShape, BusShape, AppShape

LEMMA ReceiveTickShape ==
  ASSUME ReceiveTick, TxShape("response"), RxShape, BusShape("response"), AppShape, RecvShape
  PROVE  TxShape("response")' /\ RxShape' /\ BusShape("response")' /\ AppShape' /\ RecvShape'
<1>1. TxShape("response")'
  BY TimersRun DEF ReceiveTick
<1>2. Less(recv.left) \in 0..CallTimeout
  BY CallAssumption DEF RecvShape, ReceiveCalls, Less
<1>3. RecvShape'
  BY <1>2 DEF ReceiveTick, RecvShape, ReceiveCalls
<1> QED BY <1>1, <1>3 DEF ReceiveTick, RxShape, BusShape, AppShape, bus, app, env

LEMMA OtherResponseFramesShape ==
  ASSUME OtherResponseFrames, TxShape("response"), RxShape, BusShape("response"), AppShape,
         RecvShape
  PROVE  TxShape("response")' /\ RxShape' /\ BusShape("response")' /\ AppShape' /\ RecvShape'
<1>1. /\ boxS' \in Seq(OrApp(Data("response"))) /\ Len(boxS') <= Mailboxes
      /\ toR' \in Seq(Data("response") \cup Fcs)
  <2>1. FC("CTS") \in Fcs
    BY FcTypes DEF Statuses
  <2>2. <<FC("CTS")>> \in Seq(Data("response") \cup Fcs)
    BY <2>1
  <2> QED BY <2>2, AppBoxed DEF OtherResponseFrames, BusShape
<1> QED BY <1>1 DEF OtherResponseFrames, TxShape, RxShape, BusShape, AppShape, RecvShape, app, env

-------------------------------------------------------------------------------
\* The steps of a link, one by one.
LEMMA LinkSteps ==
  ASSUME LinksNext
  PROVE  \/ /\ link \in {"nodes", "request"} /\ UNCHANGED <<send, recv, link>>
            /\ RxOnFrame \/ RxPoll \/ RxRead \/ TransmitsR \/ ForeignFc
         \/ /\ link \in {"nodes", "response"} /\ UNCHANGED <<send, recv, link>>
            /\ \/ \E n \in LensOf(link) : TxStart(n)
               \/ TxOnFrame \/ TxPollEnqueue \/ TxPollStuck \/ TxPollTransfer \/ TransmitsS
         \/ /\ link = "nodes" /\ UNCHANGED <<send, recv, link>>
            /\ AppSends \/ Tick
         \/ /\ link = "request" /\ UNCHANGED <<recv, link>>
            /\ \/ \E n \in Requests : PcSend(n)
               \/ WaitFlowControl \/ FlowControlTimeout \/ SendConsecutive
               \/ OtherRequestFrames \/ SendTick
         \/ /\ link = "response" /\ UNCHANGED <<send, link>>
            /\ \/ PcReceive \/ ReceiveFirst \/ ReceiveRest \/ ReceiveTimeout
               \/ OtherResponseFrames \/ ReceiveTick
BY Zenon
   DEF LinksNext, NodeReceives, NodeSends, Others, Ticks, On, Requesting, Responding, Sender,
       Receiver, TxPoll, LensOf

LEMMA ShapeKept ==
  ASSUME Shape, [LinksNext]_allVars
  PROVE  Shape'
<1> SUFFICES ASSUME NEW k \in {"nodes", "request", "response"}, link = k,
                    TxShape(k), RxShape, BusShape(k), AppShape, SendShape, RecvShape
             PROVE  Shape'
  BY DEF Shape
<1> DEFINE K == TxShape(k)' /\ RxShape' /\ BusShape(k)' /\ AppShape'
<1>1. ASSUME link' = k, K, SendShape', RecvShape'
      PROVE  Shape'
  BY <1>1 DEF Shape, TxShape, BusShape
<1>2. UNCHANGED send => SendShape'
  BY DEF SendShape
<1>3. UNCHANGED recv => RecvShape'
  BY DEF RecvShape
<1> HIDE DEF K
<1>4. CASE /\ k \in {"nodes", "request"} /\ UNCHANGED <<send, recv, link>>
           /\ RxOnFrame \/ RxPoll \/ RxRead \/ TransmitsR \/ ForeignFc
  <2>1. K
    BY <1>4, RxOnFrameShape, RxPollShape, RxReadShape, TransmitRShape, ForeignFcShape
    DEF K, TransmitsR
  <2> QED BY <2>1, <1>1, <1>2, <1>3, <1>4
<1>5. CASE /\ k \in {"nodes", "response"} /\ UNCHANGED <<send, recv, link>>
           /\ \/ \E n \in LensOf(k) : TxStart(n)
              \/ TxOnFrame \/ TxPollEnqueue \/ TxPollStuck \/ TxPollTransfer \/ TransmitsS
  <2>1. ASSUME UNCHANGED rx, TxShape(k)', BusShape(k)', AppShape'
        PROVE  K
    BY <2>1 DEF RxShape, K
  <2>2. CASE \E n \in LensOf(k) : TxStart(n)
    <3>1. K
      BY <2>1, <2>2, TxStartShape DEF TxStart
    <3> QED BY <3>1, <1>1, <1>2, <1>3, <1>5
  <2>3. CASE TxOnFrame
    <3>1. K
      BY <1>5, <2>1, <2>3, TxOnFrameShape DEF TxOnFrame
    <3> QED BY <3>1, <1>1, <1>2, <1>3, <1>5
  <2>4. CASE TxPollEnqueue
    <3>1. K
      BY <2>1, <2>4, TxPollEnqueueShape DEF TxPollEnqueue
    <3> QED BY <3>1, <1>1, <1>2, <1>3, <1>5
  <2>5. CASE TxPollStuck
    <3>1. K
      BY <2>1, <2>5, TxPollStuckShape DEF TxPollStuck
    <3> QED BY <3>1, <1>1, <1>2, <1>3, <1>5
  <2>6. CASE TxPollTransfer
    <3>1. K
      BY <2>1, <2>6, TxPollTransferShape DEF TxPollTransfer
    <3> QED BY <3>1, <1>1, <1>2, <1>3, <1>5
  <2>7. CASE TransmitsS
    <3>1. K
      BY <2>7, TransmitSShape DEF TransmitsS, K
    <3> QED BY <3>1, <1>1, <1>2, <1>3, <1>5
  <2> QED BY <1>5, <2>2, <2>3, <2>4, <2>5, <2>6, <2>7
<1>6. CASE /\ UNCHANGED <<send, recv, link>>
           /\ AppSends \/ Tick
  <2>1. K
    BY <1>6, AppSendsShape, TickShape DEF K
  <2> QED BY <2>1, <1>1, <1>2, <1>3, <1>6
<1>7. CASE /\ k = "request" /\ UNCHANGED <<recv, link>>
           /\ \/ \E n \in Requests : PcSend(n)
              \/ WaitFlowControl \/ FlowControlTimeout \/ SendConsecutive
              \/ OtherRequestFrames \/ SendTick
  <2>1. K /\ SendShape'
    BY <1>7, PcSendShape, WaitFlowControlShape, FlowControlTimeoutShape, SendConsecutiveShape,
       OtherRequestFramesShape, SendTickShape DEF K
  <2> QED BY <2>1, <1>1, <1>3, <1>7
<1>8. CASE /\ k = "response" /\ UNCHANGED <<send, link>>
           /\ \/ PcReceive \/ ReceiveFirst \/ ReceiveRest \/ ReceiveTimeout
              \/ OtherResponseFrames \/ ReceiveTick
  <2>1. CASE PcReceive
    <3>1. K /\ RecvShape'
      BY <2>1, PcReceiveShape
      DEF PcReceive, K, TxShape, RxShape, BusShape, AppShape, vars, bus, app, env
    <3> QED BY <3>1, <1>1, <1>2, <1>8
  <2>2. CASE ReceiveFirst \/ ReceiveRest \/ ReceiveTimeout \/ OtherResponseFrames \/ ReceiveTick
    <3>1. K /\ RecvShape'
      BY <1>8, <2>2, ReceiveFirstShape, ReceiveRestShape, ReceiveTimeoutShape,
         OtherResponseFramesShape, ReceiveTickShape DEF K
    <3> QED BY <3>1, <1>1, <1>2, <1>8
  <2> QED BY <1>8, <2>1, <2>2
<1>9. CASE UNCHANGED allVars
  <2>1. K
    BY <1>9 DEF allVars, vars, bus, app, env, K, TxShape, RxShape, BusShape, AppShape
  <2> QED BY <2>1, <1>1, <1>2, <1>3, <1>9 DEF allVars
<1> QED
  <2>1. CASE LinksNext
    BY <2>1, LinkSteps, <1>4, <1>5, <1>6, <1>7, <1>8
  <2> QED BY <2>1, <1>9

LEMMA ShapeTypes == Shape => LinksTypeOK
<1> SUFFICES ASSUME Shape PROVE LinksTypeOK
  OBVIOUS
<1>1. LensOf(link) \subseteq Nat \ {0}
  BY LensPositive
<1>2. Data(link) \subseteq Frames /\ Fcs \subseteq Frames /\ AppFrame \in Frames
  BY <1>1 DEF Data, Fcs, Frames, Chunks, Numbers, Sns, Statuses
<1>3. {boxS, boxR, toR, toS} \subseteq Seq(Frames)
  <2>1. ASSUME NEW S, S \subseteq Frames, NEW s \in Seq(S)
        PROVE  s \in Seq(Frames)
    BY <2>1
  <2>2. /\ OrApp(Data(link)) \subseteq Frames /\ OrApp(Fcs) \subseteq Frames
        /\ Data(link) \cup Fcs \subseteq Frames
    BY <1>2 DEF OrApp
  <2>3. /\ boxS \in Seq(OrApp(Data(link))) /\ boxR \in Seq(OrApp(Fcs))
        /\ toR \in Seq(Data(link) \cup Fcs) /\ toS \in Seq(OrApp(Fcs))
    BY DEF Shape, BusShape
  <2> QED BY <2>1, <2>2, <2>3
<1>4. TypeOK
  <2>1. /\ tx.msg \in 0..MaxMsgs /\ tx.offset \in 0..tx.len /\ tx.sn \in 0..(SnMod - 1)
        /\ tx.bs \in {0, BlockSize} /\ tx.frame \in Frames \cup {NoFrame}
        /\ tx.asLeft \in 0..NAs /\ tx.sinceCf \in 0..Stmin
    BY <1>1, <1>2 DEF Shape, TxShape, Senders, Sns
  <2>2. /\ rx.declared \in 0..Capacity /\ rx.sn \in 0..(SnMod - 1)
        /\ rx.fc \in Frames \cup {NoFrame} /\ rx.arLeft \in 0..NAr /\ rx.crLeft \in 0..NCr
    BY <1>2 DEF Shape, RxShape, Receivers, Sns
  <2> QED BY <1>3, <2>1, <2>2 DEF TypeOK, Shape, BusShape, AppShape, Verdicts
<1>5. /\ send.at \in {"idle", "fc", "cf"} /\ send.msg \in 0..MaxMsgs
      /\ send.len \in Requests \cup {0} /\ send.sent \in 0..send.len
      /\ send.inBlock \in 0..send.sent /\ send.left \in 0..SendTimeout
  BY SendAssumption DEF Shape, SendShape, SendCalls
<1>6. /\ recv.at \in {"idle", "first", "rest"} /\ recv.declared \in Responses \cup {0}
      /\ recv.index \in 0..(SnMod - 1) /\ Len(recv.payload) <= recv.declared
      /\ recv.left \in 0..CallTimeout
  BY DEF Shape, RecvShape, ReceiveCalls, Sns
<1> QED BY <1>4, <1>5, <1>6 DEF LinksTypeOK

\* On every link the state machines of isotp.c, the calls of the PC and the frames on
\* their way keep their types, and a block, a message and the buffer that holds one
\* their bounds.
THEOREM LinksTypeCorrect == LinksSpec => []LinksTypeOK
<1>1. LinksSpec => []Shape
  BY InitShape, ShapeKept, PTL DEF LinksSpec
<1> QED BY <1>1, ShapeTypes, PTL

-------------------------------------------------------------------------------
(***************************************************************************)
(* Unread messages.  The receiver is never receiving one message and       *)
(* holding another: a transfer begins only at a free endpoint, and         *)
(* completing it is what makes its message available.                      *)
(***************************************************************************)
Separate == ~(rx.ready /\ rx.inProgress)

Kept ==
  rx.ready => \/ rx'.ready /\ rx'.buf = rx.buf
              \/ received' = Append(received, rx.buf)

\* Steps that leave the buffer and its flags alone.
LEMMA SeparateUntouched ==
  ASSUME Separate, rx'.ready = rx.ready, rx'.buf = rx.buf, rx'.inProgress => rx.inProgress
  PROVE  Separate' /\ Kept
BY DEF Separate, Kept

LEMMA SeparateKept ==
  ASSUME Shape, Separate, [LinksNext]_allVars
  PROVE  Separate' /\ Kept
<1>1. rx \in Receivers
  BY DEF Shape, RxShape
<1>2. CASE UNCHANGED rx
  BY <1>2, SeparateUntouched
<1>3. ASSUME NEW r \in Receivers, NEW status, SendFc(r, status)
      PROVE  rx'.ready = r.ready /\ rx'.inProgress = r.inProgress /\ rx'.buf = r.buf
  BY <1>3 DEF SendFc, Receivers
<1>4. CASE RxOnSF
  <2>1. CASE rx' = [rx EXCEPT !.ready = TRUE, !.buf = <<Head(toR).data>>] /\ ~RxBusy
    <3>1. rx'.inProgress = rx.inProgress /\ ~rx.ready /\ ~rx.inProgress
      BY <1>1, <2>1 DEF RxBusy, Receivers
    <3> QED BY <3>1 DEF Separate, Kept
  <2> QED BY <1>2, <1>4, <2>1 DEF RxOnSF
<1>5. CASE RxOnFF
  <2>1. CASE rx.inProgress /\ rx' = ResetRx(rx)
    BY <1>1, <2>1 DEF ResetRx, Receivers, Separate, Kept
  <2>2. CASE ~RxBusy /\ SendFc(rx, "OVERFLOW")
    BY <1>1, <1>3, <2>2, SeparateUntouched
  <2> DEFINE f == Head(toR)
             r == [rx EXCEPT !.inProgress = TRUE, !.declared = f.len, !.buf = <<f.data>>,
                             !.sn = 1, !.inBlock = 0]
  <2>3. CASE ~RxBusy /\ f.len <= Capacity /\ SendFc(r, "CTS") /\ RxTake("FF")
    <3>1. f.data \in Chunks /\ f.len \in Nat
      BY <2>3, RxTakeShape, LensPositive DEF Shape
    <3>2. f.len \in 0..Capacity /\ <<f.data>> \in Seq(Chunks)
      BY <2>3, <3>1, IsotpAssumption
    <3>3. PICK n \in 0..Capacity, b \in Seq(Chunks) :
            r = [rx EXCEPT !.inProgress = TRUE, !.declared = n, !.buf = b, !.sn = 1,
                           !.inBlock = 0]
      BY <3>2, Zenon
    <3> HIDE DEF r
    <3>4. r \in Receivers /\ r.ready = rx.ready
      BY <1>1, <3>3, Ranges DEF Receivers
    <3> QED BY <1>3, <2>3, <3>4 DEF RxBusy, Separate, Kept
  <2> QED BY <1>2, <1>5, <2>1, <2>2, <2>3 DEF RxOnFF
<1>6. CASE RxOnCF
  <2> DEFINE r == [rx EXCEPT !.buf = Append(@, Head(toR).data), !.sn = NextSn(@),
                             !.inBlock = @ + 1, !.crLeft = NCr]
             whole == [r EXCEPT !.inProgress = FALSE, !.ready = TRUE]
             block == [r EXCEPT !.inBlock = 0]
  <2>1. r.inProgress = rx.inProgress /\ r.ready = rx.ready
    BY <1>1 DEF Receivers
  <2>2. whole.inProgress = FALSE
    BY <1>1 DEF Receivers
  <2>3. ASSUME rx.inProgress, SendFc(block, "CTS")
        PROVE  rx'.ready = block.ready /\ rx'.inProgress = block.inProgress
    <3>1. rx' = [block EXCEPT !.fc = FC("CTS"), !.fcWait = FALSE, !.fcPending = TRUE,
                              !.arLeft = NAr]
          \/ rx' = [block EXCEPT !.fc = FC("CTS"), !.fcWait = TRUE, !.arLeft = NAr]
      BY <2>3 DEF SendFc
    <3> QED BY <1>1, <3>1 DEF Receivers
  <2>4. block.inProgress = rx.inProgress /\ block.ready = rx.ready
    BY <1>1 DEF Receivers
  <2>5. \/ UNCHANGED rx
        \/ /\ rx.inProgress
           /\ rx' \in {ResetRx(rx), whole, r} \/ SendFc(block, "CTS")
    BY <1>6 DEF RxOnCF
  <2>6. ResetRx(rx).inProgress = FALSE
    BY <1>1 DEF ResetRx, Receivers
  <2> HIDE DEF r, whole, block
  <2> QED BY <1>2, <2>1, <2>2, <2>3, <2>4, <2>5, <2>6 DEF Separate, Kept
<1>7. CASE RxPoll
  <2>1. \/ rx' = [rx EXCEPT !.fcWait = FALSE, !.fcPending = TRUE, !.arLeft = NAr]
        \/ rx' = [rx EXCEPT !.fcWait = FALSE, !.inProgress = FALSE]
        \/ rx' = [rx EXCEPT !.inProgress = FALSE, !.fcPending = FALSE]
        \/ rx' = [rx EXCEPT !.fcPending = FALSE, !.crLeft = NCr]
        \/ rx' = [rx EXCEPT !.inProgress = FALSE]
    BY <1>7 DEF RxPoll
  <2>2. rx'.ready = rx.ready /\ rx'.buf = rx.buf /\ (rx'.inProgress => rx.inProgress)
    BY <1>1, <2>1 DEF Receivers
  <2> QED BY <2>2, SeparateUntouched
<1>8. CASE RxRead
  <2>1. rx'.ready = FALSE /\ received' = Append(received, rx.buf)
    BY <1>1, <1>8 DEF RxRead, Receivers
  <2> QED BY <2>1 DEF Separate, Kept
<1>9. CASE rx' = [rx EXCEPT !.arLeft = Less(@), !.crLeft = Less(@)]
  <2>1. rx'.ready = rx.ready /\ rx'.buf = rx.buf /\ rx'.inProgress = rx.inProgress
    BY <1>1, <1>9 DEF Receivers
  <2> QED BY <2>1, SeparateUntouched
<1>10. CASE LinksNext
  <2>1. \/ RxOnFrame \/ RxPoll \/ RxRead \/ Tick \/ SendTick
        \/ UNCHANGED rx
    BY <1>10, LinkSteps, Zenon
    DEF TransmitsR, TransmitR, ForeignFc, TxStart, TxOnFrame, TxPollEnqueue, TxPollStuck,
        TxPollTransfer, TransmitsS, TransmitS, AppSends, PcSend, WaitFlowControl,
        FlowControlTimeout, SendConsecutive, OtherRequestFrames, PcReceive, ReceiveFirst,
        ReceiveRest, ReceiveTimeout, TakesFrame, OtherResponseFrames, ReceiveTick, vars
  <2> QED BY <2>1, <1>2, <1>4, <1>5, <1>6, <1>7, <1>8, <1>9 DEF RxOnFrame, Tick, SendTick
<1> QED BY <1>2, <1>10 DEF allVars, vars

\* A complete message nobody read yet stays in the endpoint: IsotpRx_OnFrame
\* refuses new transfers, and IsotpRx_Reset is reached only by a transfer that
\* was still incomplete.
THEOREM UnreadKept == LinksSpec => UnreadMessageKept
<1>1. LinksInit => Shape /\ Separate
  BY InitShape DEF LinksInit, Init, Separate
<1>2. Shape /\ Separate /\ [LinksNext]_allVars => (Shape /\ Separate)'
  BY ShapeKept, SeparateKept
<1>3. Shape /\ Separate /\ [LinksNext]_allVars => [Kept]_vars
  BY SeparateKept
<1>4. LinksSpec => [][Kept]_vars
  BY <1>1, <1>2, <1>3, PTL DEF LinksSpec
<1>5. UnreadMessageKept <=> [][Kept]_vars
  BY DEF UnreadMessageKept, Kept
<1> QED BY <1>4, <1>5, PTL

-------------------------------------------------------------------------------
(***************************************************************************)
(* Whole messages, once and in order.  Sender and receiver of a link to a  *)
(* node run in step: what the path between them may hold, how the two      *)
(* count the same block and what a receiver may have read all follow from  *)
(* each other.  InStep says so of one transfer v, the frames q on its      *)
(* path, whether flow control f is on its way, a receiver r, the lengths   *)
(* ls of the messages and those read, rd, so that each of its steps is a   *)
(* lemma about these values, whoever takes it: a node or the PC.           *)
(***************************************************************************)
\* A transfer as its sender sees it: which message, how many of its chunks and how
\* many of the block it has handed over, and whether it waits for flow control.
Transfer ==
  IF link = "request"
  THEN [busy |-> send.at # "idle", msg |-> send.msg, offset |-> send.sent + 1,
        inBlock |-> send.inBlock, waiting |-> send.at = "fc"]
  ELSE [busy |-> tx.ongoing, msg |-> tx.msg, offset |-> tx.offset,
        inBlock |-> tx.inBlock, waiting |-> tx.waitFc \/ BlockFull(tx)]

\* The frames handed over and not yet processed: those the receiver has not looked
\* at, then the one frame of a node that waits for a mailbox or in one.
Own == {i \in 1..Len(boxS) : boxS[i].type # "app"}
Pending == tx.waitEnqueue \/ Own # {}

Path == IF link = "request" \/ ~Pending THEN toR ELSE Append(toR, tx.frame)

\* Whether flow control that ends the wait is on its way.
FcAt(queue) == {i \in 1..Len(queue) : queue[i].type = "FC"}
Answered == rx.fcWait \/ FcAt(boxR) # {} \/ FcAt(toS) # {}

MsgOf(f) == f.data[1]
IndexOf(f) == f.data[2]
RxMsg(r) == r.buf[1][1]

\* What a sender knows of its own transfer.
OwnTransfer(v, ls) ==
  v.busy =>
    /\ v.msg = Len(ls) /\ v.msg \in 1..Len(ls)
    /\ v.offset \in 1..ls[v.msg] /\ v.inBlock \in 0..BlockSize
    /\ ~v.waiting /\ ls[v.msg] > 1 => v.inBlock < BlockSize

\* Every frame carries the chunk and the number its place in the message gives it.
FrameFits(f, ls) ==
  /\ f.type \in {"SF", "FF", "CF"}
  /\ f.data \in (1..Len(ls)) \X Nat
  /\ f.type = "SF" => IndexOf(f) = 1 /\ ls[MsgOf(f)] = 1
  /\ f.type = "FF" => IndexOf(f) = 1 /\ f.len = ls[MsgOf(f)] /\ f.len > 1
  /\ f.type = "CF" => /\ IndexOf(f) > 1 /\ IndexOf(f) <= ls[MsgOf(f)]
                      /\ f.sn = (IndexOf(f) - 1) % SnMod

Before(f, g) ==
  MsgOf(f) < MsgOf(g) \/ (MsgOf(f) = MsgOf(g) /\ IndexOf(f) < IndexOf(g))

InOrderOnPath(q) == \A i, j \in 1..Len(q) : i < j => Before(q[i], q[j])

HandedOver(v, q) ==
  v.busy => \A i \in 1..Len(q) : MsgOf(q[i]) = v.msg => IndexOf(q[i]) <= v.offset

\* A first frame is the last thing its sender does before it waits.
FirstLast(v, q, f) ==
  \A i \in 1..Len(q) : q[i].type = "FF" =>
    i = Len(q) /\ v.busy /\ MsgOf(q[i]) = v.msg /\ v.offset = 1 /\ v.waiting /\ ~f

\* Flow control is on its way to a sender that waits for it, for all it has sent.
Awaited(v, q, f, r) ==
  f => /\ v.busy /\ v.waiting /\ q = <<>>
       /\ r.inProgress => /\ RxMsg(r) = v.msg /\ Len(r.buf) = v.offset
                          /\ r.inBlock = 0

\* What a receiver has of a message.
Assembled(r, ls) ==
  /\ r.inProgress \/ r.ready =>
       /\ r.buf # <<>> /\ RxMsg(r) \in 1..Len(ls)
       /\ \A k \in 1..Len(r.buf) : r.buf[k] = Chunk(RxMsg(r), k)
  /\ r.inProgress =>
       /\ ~r.ready /\ r.declared = ls[RxMsg(r)] /\ Len(r.buf) < r.declared
       /\ r.sn = Len(r.buf) % SnMod /\ r.inBlock \in 0..(BlockSize - 1)
  /\ r.ready => Len(r.buf) = ls[RxMsg(r)]

\* What was read, and what is still to come, in the order of the messages.
NumberRead(rd, i) == rd[i][1][1]

ReadInOrder(q, r, ls, rd) ==
  /\ \A i \in 1..Len(rd) :
       /\ NumberRead(rd, i) \in 1..Len(ls)
       /\ rd[i] = Message(NumberRead(rd, i), ls[NumberRead(rd, i)])
  /\ \A i, j \in 1..Len(rd) : i < j => NumberRead(rd, i) < NumberRead(rd, j)
  /\ r.inProgress \/ r.ready => \A i \in 1..Len(rd) : NumberRead(rd, i) < RxMsg(r)
  /\ \A k \in 1..Len(q) : q[k].type \in {"SF", "FF"} =>
       /\ \A i \in 1..Len(rd) : NumberRead(rd, i) < MsgOf(q[k])
       /\ r.inProgress \/ r.ready => RxMsg(r) < MsgOf(q[k])

\* The chunks a receiver granted, and how the two ends count the same block.
Window(r) == Len(r.buf) - r.inBlock + BlockSize

InWindow(q, r) ==
  r.inProgress =>
    \A i \in 1..Len(q) : q[i].type = "CF" =>
      /\ MsgOf(q[i]) = RxMsg(r)
      /\ Len(r.buf) < IndexOf(q[i]) /\ IndexOf(q[i]) <= Window(r)

SameBlock(v, r) ==
  r.inProgress /\ v.busy /\ v.msg = RxMsg(r) =>
    /\ Len(r.buf) <= v.offset
    /\ \/ Len(r.buf) - r.inBlock = v.offset - v.inBlock
       \/ v.waiting /\ Len(r.buf) = v.offset /\ r.inBlock = 0

\* A sender that has left a transfer had no more to send than was granted.
LeftInWindow(v, q, r, ls) ==
  r.inProgress /\ ~(v.busy /\ v.msg = RxMsg(r)) /\ (\E i \in 1..Len(q) : q[i].type = "CF") =>
    ls[RxMsg(r)] <= Window(r)

Granted(v, r, ls) ==
  r.inProgress /\ v.busy /\ ls[v.msg] > 1 /\ (~v.waiting \/ v.offset > 1) => v.msg = RxMsg(r)

\* The consecutive frames of a transfer on their way are of one block.
OneBlock(v, q) ==
  \A i \in 1..Len(q) : q[i].type = "CF" =>
    /\ \A j \in 1..Len(q) :
         q[j].type = "CF" /\ MsgOf(q[j]) = MsgOf(q[i]) => IndexOf(q[i]) < IndexOf(q[j]) + BlockSize
    /\ v.busy /\ MsgOf(q[i]) = v.msg => v.offset < IndexOf(q[i]) + v.inBlock

InStep(v, q, f, r, ls, rd) ==
  /\ OwnTransfer(v, ls) /\ (\A i \in 1..Len(q) : FrameFits(q[i], ls)) /\ InOrderOnPath(q)
  /\ HandedOver(v, q) /\ FirstLast(v, q, f) /\ Awaited(v, q, f, r)
  /\ Assembled(r, ls) /\ ReadInOrder(q, r, ls, rd)
  /\ InWindow(q, r) /\ SameBlock(v, r) /\ LeftInWindow(v, q, r, ls) /\ Granted(v, r, ls)
  /\ OneBlock(v, q)

\* One answer at a time: in the receiver, in its mailboxes or, behind the WAITs of a
\* foreign peer, in the sender's queue.
OneAnswer ==
  /\ rx.fcWait => /\ FcAt(boxR) = {} /\ FcAt(toS) = {}
                  /\ rx.fc \in {FC("CTS"), FC("OVERFLOW")}
  /\ \A i \in FcAt(boxR) : /\ boxR[i] \in {FC("CTS"), FC("OVERFLOW")} /\ FcAt(toS) = {}
                           /\ FcAt(boxR) = {i}
  /\ \A i \in 1..Len(toS) :
       /\ toS[i].type = "FC" => (toS[i] = FC("WAIT") <=> i < Len(toS))
       /\ toS[i].type # "FC" => i = 1

\* A node's sender: its frame is in at most one mailbox, while its timers run.
NodeSender ==
  /\ tx.waitEnqueue => tx.ongoing /\ Own = {}
  /\ \A i \in Own : /\ boxS[i] = tx.frame /\ Own = {i}
                    /\ tx.ongoing /\ tx.framePending /\ ~tx.waitEnqueue
  /\ tx.ongoing =>
       /\ tx.len = lens[tx.msg] /\ tx.sn = tx.offset % SnMod
       /\ tx.waitEnqueue \/ tx.framePending => tx.asLeft > 0
       /\ tx.waitFc \/ tx.bs = BlockSize \/ tx.len = 1
       /\ tx.waitFc /\ tx.fcLeft = 0 => Path = <<>> /\ ~Answered
       /\ tx.waitFc => tx.len > 1
       /\ tx.inBlock < tx.offset

\* A call of send().
PcSender ==
  send.at # "idle" =>
    /\ send.len = lens[send.msg]
    /\ send.at = "fc" /\ send.left = 0 => Path = <<>> /\ ~Answered

Linked == InStep(Transfer, Path, Answered, rx, lens, received)

LinkInv ==
  link # "response" =>
    /\ toR \in Seq(Data(link)) /\ Linked /\ OneAnswer
    /\ IF link = "nodes" THEN NodeSender ELSE PcSender

-------------------------------------------------------------------------------
\* Steps of the path and of the receiver.

\* The receiver takes a frame, which changes nothing else.
LEMMA FrameSkipped ==
  ASSUME NEW F, NEW q \in Seq(F), NEW v, NEW f, NEW r, NEW ls, NEW rd,
         InStep(v, q, f, r, ls, rd), q # <<>>
  PROVE  InStep(v, Tail(q), f, r, ls, rd) /\ ~f
<1> DEFINE p == Tail(q)
<1>1. /\ Len(p) = Len(q) - 1 /\ Len(q) \in Nat /\ Len(p) \in Nat
      /\ \A i \in 1..Len(p) : p[i] = q[i + 1] /\ i + 1 \in 1..Len(q)
  OBVIOUS
<1> HIDE DEF p
<1>2. ~f
  BY DEF InStep, Awaited
<1>3. \A i \in 1..Len(p) : FrameFits(p[i], ls)
  BY <1>1 DEF InStep
<1>4. InOrderOnPath(p)
  BY <1>1 DEF InStep, InOrderOnPath
<1>5. HandedOver(v, p)
  BY <1>1 DEF InStep, HandedOver
<1>6. FirstLast(v, p, f)
  BY <1>1 DEF InStep, FirstLast
<1>7. Awaited(v, p, f, r)
  BY <1>2 DEF Awaited
<1>8. ReadInOrder(p, r, ls, rd)
  BY <1>1 DEF InStep, ReadInOrder
<1>9. InWindow(p, r)
  BY <1>1 DEF InStep, InWindow
<1>10. LeftInWindow(v, p, r, ls)
  BY <1>1 DEF InStep, LeftInWindow
<1>11. OneBlock(v, p)
  BY <1>1 DEF InStep, OneBlock
<1> QED BY <1>2, <1>3, <1>4, <1>5, <1>6, <1>7, <1>8, <1>9, <1>10, <1>11 DEF InStep, p

\* The last frame is lost.
LEMMA FrameLost ==
  ASSUME NEW F, NEW p \in Seq(F), NEW x \in F, NEW v, NEW f, NEW r, NEW ls, NEW rd,
         InStep(v, Append(p, x), f, r, ls, rd)
  PROVE  InStep(v, p, f, r, ls, rd)
<1> DEFINE q == Append(p, x)
<1>1. /\ Len(q) = Len(p) + 1 /\ Len(p) \in Nat /\ Len(q) \in Nat
      /\ \A i \in 1..Len(p) : p[i] = q[i] /\ i \in 1..Len(q)
  OBVIOUS
<1>2. InStep(v, q, f, r, ls, rd) /\ q # <<>>
  OBVIOUS
<1> HIDE DEF q
<1>3. \A i \in 1..Len(p) : FrameFits(p[i], ls)
  BY <1>1, <1>2 DEF InStep
<1>4. InOrderOnPath(p)
  BY <1>1, <1>2 DEF InStep, InOrderOnPath
<1>5. HandedOver(v, p)
  BY <1>1, <1>2 DEF InStep, HandedOver
<1>6. FirstLast(v, p, f)
  BY <1>1, <1>2 DEF InStep, FirstLast
<1>7. Awaited(v, p, f, r)
  BY <1>2 DEF InStep, Awaited
<1>8. ReadInOrder(p, r, ls, rd)
  BY <1>1, <1>2 DEF InStep, ReadInOrder
<1>9. InWindow(p, r)
  BY <1>1, <1>2 DEF InStep, InWindow
<1>10. LeftInWindow(v, p, r, ls)
  BY <1>1, <1>2 DEF InStep, LeftInWindow
<1>11. OneBlock(v, p)
  BY <1>1, <1>2 DEF InStep, OneBlock
<1> QED BY <1>2, <1>3, <1>4, <1>5, <1>6, <1>7, <1>8, <1>9, <1>10, <1>11 DEF InStep

\* Flow control is lost or used up.
LEMMA AnswerGone ==
  ASSUME NEW q, NEW v, NEW f, NEW r, NEW ls, NEW rd, InStep(v, q, f, r, ls, rd)
  PROVE  InStep(v, q, FALSE, r, ls, rd)
BY DEF InStep, FirstLast, Awaited

\* The receiver gives up a transfer, or was in none; what it holds may go.
LEMMA TransferDropped ==
  ASSUME NEW q, NEW v, NEW f, NEW r, NEW t, NEW ls, NEW rd, InStep(v, q, f, r, ls, rd),
         ~t.inProgress, t.ready => r.ready /\ t.buf = r.buf
  PROVE  InStep(v, q, f, t, ls, rd)
<1>1. Awaited(v, q, f, t) /\ InWindow(q, t) /\ SameBlock(v, t) /\ Granted(v, t, ls)
      /\ LeftInWindow(v, q, t, ls)
  BY DEF InStep, Awaited, InWindow, SameBlock, LeftInWindow, Granted
<1>2. Assembled(t, ls)
  BY DEF InStep, Assembled, RxMsg
<1>3. ReadInOrder(q, t, ls, rd)
  BY DEF InStep, ReadInOrder, RxMsg
<1> QED BY <1>1, <1>2, <1>3 DEF InStep

\* Timers, flags of the flow control, and the like.
SameTransfer(r, t) ==
  /\ t.inProgress = r.inProgress /\ t.ready = r.ready /\ t.declared = r.declared
  /\ t.buf = r.buf /\ t.sn = r.sn /\ t.inBlock = r.inBlock

LEMMA TransferUntouched ==
  ASSUME NEW q, NEW v, NEW f, NEW r, NEW t, NEW ls, NEW rd, InStep(v, q, f, r, ls, rd),
         SameTransfer(r, t)
  PROVE  InStep(v, q, f, t, ls, rd)
<1> USE DEF SameTransfer
<1>1. Awaited(v, q, f, t)
  BY DEF InStep, Awaited, RxMsg
<1>2. Assembled(t, ls)
  BY DEF InStep, Assembled, RxMsg
<1>3. ReadInOrder(q, t, ls, rd)
  BY DEF InStep, ReadInOrder, RxMsg
<1>4. InWindow(q, t)
  BY DEF InStep, InWindow, RxMsg, Window
<1>5. SameBlock(v, t)
  BY DEF InStep, SameBlock, RxMsg
<1>6. LeftInWindow(v, q, t, ls)
  BY DEF InStep, LeftInWindow, RxMsg, Window
<1>7. Granted(v, t, ls)
  BY DEF InStep, Granted, RxMsg
<1> QED BY <1>1, <1>2, <1>3, <1>4, <1>5, <1>6, <1>7 DEF InStep

-------------------------------------------------------------------------------
\* Sequence numbers.  Within SnMod chunks a number names one chunk.
LEMMA Multiples ==
  ASSUME NEW T \in Nat \ {0}, NEW x \in Nat
  PROVE  x \div T \in Nat /\ x % T \in 0..(T - 1) /\ x = T * (x \div T) + (x % T)
  BY SMT

LEMMA OneMultiple ==
  ASSUME NEW T \in Nat \ {0}, NEW p \in Nat, NEW q \in Nat,
         NEW u \in 0..(T - 1), NEW w \in 0..(T - 1), T * p + u = T * q + w
  PROVE  p = q /\ u = w
<1>1. ASSUME NEW a \in Nat, NEW b \in Nat, a < b
      PROVE  T * a + T <= T * b
  <2>1. PICK k \in Nat : b = a + 1 + k
    <3>1. b - a - 1 \in Nat
      BY <1>1, SMT
    <3> QED BY <3>1, SMT
  <2>2. T * (a + 1 + k) = T * a + T + T * k /\ T * k \in Nat /\ T * a \in Nat
    BY SMT
  <2> QED BY <2>1, <2>2, SMT
<1>2. ~(p < q) /\ ~(q < p)
  BY <1>1, SMT
<1> QED BY <1>2, SMT

LEMMA OneChunkInWindow ==
  ASSUME NEW T \in Nat \ {0}, NEW a \in Nat, NEW b \in Nat, a <= b, b < a + T, a % T = b % T
  PROVE  a = b
<1> DEFINE p == a \div T
           q == b \div T
           u == a % T
<1>1. /\ p \in Nat /\ q \in Nat /\ u \in 0..(T - 1)
      /\ a = T * p + u /\ b = T * q + u
  BY Multiples
<1> HIDE DEF p, q, u
<1>2. PICK d \in 0..(T - 1) : b = a + d
  <2>1. b - a \in 0..(T - 1) /\ b = a + (b - a)
    BY SMT
  <2> QED BY <2>1
<1>3. CASE u + d < T
  <2>1. T * q + u = T * p + (u + d) /\ u + d \in 0..(T - 1)
    BY <1>1, <1>2, <1>3, SMT
  <2>2. u = u + d
    BY <1>1, <2>1, OneMultiple
  <2> QED BY <1>1, <1>2, <2>2, SMT
<1>4. CASE u + d >= T
  <2>1. T * (p + 1) = T * p + T
    BY <1>1, SMT
  <2>2. T * q + u = T * (p + 1) + ((u + d) - T) /\ (u + d) - T \in 0..(T - 1) /\ p + 1 \in Nat
    BY <1>1, <1>2, <1>4, <2>1, SMT
  <2>3. u = (u + d) - T
    BY <1>1, <2>2, OneMultiple
  <2> QED BY <1>1, <1>2, <2>3, SMT
<1> QED BY <1>1, <1>2, <1>3, <1>4, SMT

LEMMA NextRemainder ==
  ASSUME NEW T \in Nat \ {0}, NEW a \in Nat
  PROVE  ((a % T) + 1) % T = (a + 1) % T
<1> DEFINE u == a % T
           p == a \div T
           k == (u + 1) \div T
           s == (u + 1) % T
           n == (a + 1) \div T
           w == (a + 1) % T
<1>1. p \in Nat /\ u \in 0..(T - 1) /\ a = T * p + u
  BY Multiples
<1> HIDE DEF u, p
<1>2. k \in Nat /\ s \in 0..(T - 1) /\ u + 1 = T * k + s
  <2>1. u + 1 \in Nat
    BY <1>1
  <2> QED BY <2>1, Multiples
<1>3. n \in Nat /\ w \in 0..(T - 1) /\ a + 1 = T * n + w
  <2>1. a + 1 \in Nat
    OBVIOUS
  <2> QED BY <2>1, Multiples
<1> HIDE DEF k, s, n, w
<1>4. T * (p + k) = T * p + T * k /\ p + k \in Nat
  BY <1>1, <1>2, SMT
<1>5. T * n + w = T * (p + k) + s
  BY <1>1, <1>2, <1>3, <1>4, SMT
<1>6. w = s
  <2>1. PICK e \in Nat : T * n + w = T * e + s
    BY <1>4, <1>5, Zenon
  <2>2. n \in Nat /\ w \in 0..(T - 1) /\ s \in 0..(T - 1)
    BY <1>2, <1>3
  <2>3. n = e /\ w = s
    BY <2>1, <2>2, OneMultiple
  <2> QED BY <2>3
<1> QED BY <1>6 DEF u, s, w

-------------------------------------------------------------------------------
\* Frames the receiver takes.

\* A single frame is a message.
LEMMA SingleTaken ==
  ASSUME NEW F, NEW q \in Seq(F), NEW v, NEW f, NEW r, NEW t, NEW ls, NEW rd,
         InStep(v, q, f, r, ls, rd), q # <<>>, Head(q).type = "SF",
         ~r.inProgress, ~t.inProgress, t.buf = <<Head(q).data>>
  PROVE  InStep(v, Tail(q), f, t, ls, rd)
<1> DEFINE h == Head(q)
           p == Tail(q)
<1>1. InStep(v, p, f, r, ls, rd)
  BY FrameSkipped
<1>2. /\ Len(p) = Len(q) - 1 /\ Len(q) \in Nat /\ Len(p) \in Nat /\ h = q[1] /\ 1 \in 1..Len(q)
      /\ \A i \in 1..Len(p) : p[i] = q[i + 1] /\ i + 1 \in 1..Len(q)
  OBVIOUS
<1> HIDE DEF p, h
<1>3. /\ MsgOf(h) \in 1..Len(ls) /\ h.data = Chunk(MsgOf(h), 1) /\ ls[MsgOf(h)] = 1
      /\ IndexOf(h) = 1
  <2>1. FrameFits(h, ls) /\ h.type = "SF"
    BY <1>2 DEF InStep, h
  <2> QED BY <2>1 DEF FrameFits, MsgOf, IndexOf, Chunk
<1>4. t.buf = <<h.data>> /\ Len(t.buf) = 1 /\ RxMsg(t) = MsgOf(h)
  BY <1>3 DEF h, RxMsg, MsgOf, Chunk
<1>5. Assembled(t, ls)
  BY <1>3, <1>4 DEF Assembled
<1>6. ReadInOrder(p, t, ls, rd)
  <2>1. \A i \in 1..Len(rd) : NumberRead(rd, i) < MsgOf(h)
    BY <1>2 DEF InStep, ReadInOrder, h
  <2>2. \A k \in 1..Len(p) : p[k].type \in {"SF", "FF"} => MsgOf(h) < MsgOf(p[k])
    <3>1. ASSUME NEW k \in 1..Len(p), p[k].type \in {"SF", "FF"}
          PROVE  MsgOf(h) < MsgOf(p[k])
      <4>1. Before(h, p[k])
        BY <1>2 DEF InStep, InOrderOnPath
      <4>2. IndexOf(p[k]) = 1
        BY <1>1, <3>1 DEF InStep, FrameFits
      <4> QED BY <1>3, <4>1, <4>2 DEF Before
    <3> QED BY <3>1
  <2> QED BY <1>1, <1>4, <2>1, <2>2 DEF InStep, ReadInOrder
<1>7. Awaited(v, p, f, t) /\ InWindow(p, t) /\ SameBlock(v, t) /\ Granted(v, t, ls)
      /\ LeftInWindow(v, p, t, ls)
  BY <1>1 DEF InStep, Awaited, InWindow, SameBlock, LeftInWindow, Granted
<1> QED BY <1>1, <1>5, <1>6, <1>7 DEF InStep, p

\* A first frame, granted or refused, is all there is on the path.
LEMMA FirstAlone ==
  ASSUME NEW F, NEW q \in Seq(F), NEW v, NEW f, NEW r, NEW ls, NEW rd,
         InStep(v, q, f, r, ls, rd), q # <<>>, Head(q).type = "FF"
  PROVE  /\ Tail(q) = <<>> /\ v.busy /\ v.waiting /\ v.offset = 1 /\ ~f
         /\ v.msg = MsgOf(Head(q))
<1>1. Head(q) = q[1] /\ 1 \in 1..Len(q)
  OBVIOUS
<1>2. /\ 1 = Len(q) /\ v.busy /\ v.waiting /\ v.offset = 1 /\ ~f
      /\ v.msg = MsgOf(Head(q))
  BY <1>1 DEF InStep, FirstLast
<1>3. Tail(q) = <<>>
  <2>1. Tail(q) \in Seq(F) /\ Len(Tail(q)) = 0
    BY <1>2
  <2> QED BY <2>1
<1> QED BY <1>2, <1>3

LEMMA FirstRefused ==
  ASSUME NEW F, NEW q \in Seq(F), NEW v, NEW f, NEW r, NEW ls, NEW rd,
         InStep(v, q, f, r, ls, rd), q # <<>>, Head(q).type = "FF", ~r.inProgress
  PROVE  InStep(v, Tail(q), TRUE, r, ls, rd)
<1> DEFINE p == Tail(q)
<1>1. InStep(v, p, f, r, ls, rd)
  BY FrameSkipped
<1>2. p = <<>> /\ v.busy /\ v.waiting /\ v.offset = 1 /\ v.msg = MsgOf(Head(q))
  BY FirstAlone
<1> HIDE DEF p
<1>3. Awaited(v, p, TRUE, r)
  BY <1>2 DEF Awaited
<1>4. FirstLast(v, p, TRUE)
  BY <1>2 DEF FirstLast
<1>5. InStep(v, p, TRUE, r, ls, rd)
  BY <1>1, <1>3, <1>4 DEF InStep
<1> QED BY <1>5 DEF p

LEMMA FirstTaken ==
  ASSUME NEW F, NEW q \in Seq(F), NEW v, NEW f, NEW r, NEW t, NEW ls, NEW rd,
         BlockSize > 0, v.offset \in Nat, v.inBlock \in Nat,
         InStep(v, q, f, r, ls, rd), q # <<>>, Head(q).type = "FF",
         ~r.inProgress, ~t.ready, t.buf = <<Head(q).data>>,
         t.declared = Head(q).len, t.sn = 1, t.inBlock = 0
  PROVE  InStep(v, Tail(q), TRUE, t, ls, rd)
<1> DEFINE h == Head(q)
           p == Tail(q)
<1>1. InStep(v, p, f, r, ls, rd)
  BY FrameSkipped
<1>2. p = <<>> /\ v.busy /\ v.waiting /\ v.offset = 1 /\ v.msg = MsgOf(h)
  BY FirstAlone
<1>3. h = q[1] /\ 1 \in 1..Len(q)
  OBVIOUS
<1> HIDE DEF h, p
<1>4. /\ MsgOf(h) \in 1..Len(ls) /\ h.data = Chunk(MsgOf(h), 1)
      /\ h.len = ls[MsgOf(h)] /\ 1 < h.len
  <2>1. FrameFits(h, ls) /\ h.type = "FF"
    BY <1>3 DEF InStep, h
  <2> QED BY <2>1 DEF FrameFits, MsgOf, IndexOf, Chunk
<1>5. t.buf = <<h.data>> /\ Len(t.buf) = 1 /\ RxMsg(t) = MsgOf(h) /\ t.declared = h.len
  BY <1>4 DEF h, RxMsg, MsgOf, Chunk
<1>6. Assembled(t, ls)
  <2>1. 1 % SnMod = 1
    BY IsotpAssumption
  <2>2. 0 \in 0..(BlockSize - 1)
    BY IsotpAssumption
  <2> QED BY <1>4, <1>5, <2>1, <2>2 DEF Assembled
<1>7. ReadInOrder(p, t, ls, rd)
  <2>1. \A i \in 1..Len(rd) : NumberRead(rd, i) < MsgOf(h)
    <3>1. q[1].type \in {"SF", "FF"}
      BY <1>3 DEF h
    <3> QED BY <1>3, <3>1 DEF InStep, ReadInOrder
  <2> QED BY <1>1, <1>2, <1>5, <2>1 DEF InStep, ReadInOrder
<1>8. Awaited(v, p, TRUE, t)
  BY <1>2, <1>5 DEF Awaited
<1>9. InWindow(p, t) /\ LeftInWindow(v, p, t, ls) /\ FirstLast(v, p, TRUE)
  BY <1>2, <1>5 DEF InWindow, LeftInWindow, FirstLast
<1>10. SameBlock(v, t) /\ Granted(v, t, ls)
  BY <1>2, <1>5 DEF SameBlock, Granted
<1> QED BY <1>1, <1>6, <1>7, <1>8, <1>9, <1>10 DEF InStep, p

\* A consecutive frame with the number the receiver expects is the next chunk.
LEMMA NextChunk ==
  ASSUME NEW F, NEW q \in Seq(F), NEW v, NEW f, NEW r, NEW ls, NEW rd,
         BlockSize <= SnMod, r.buf \in Seq(Chunks), r.inBlock \in Nat,
         InStep(v, q, f, r, ls, rd), q # <<>>, Head(q).type = "CF",
         r.inProgress, Head(q).sn = r.sn
  PROVE  /\ MsgOf(Head(q)) = RxMsg(r) /\ IndexOf(Head(q)) = Len(r.buf) + 1
         /\ Head(q).data = Chunk(RxMsg(r), Len(r.buf) + 1)
         /\ Len(r.buf) + 1 <= Window(r)
<1> DEFINE h == Head(q)
<1>1. h = q[1] /\ 1 \in 1..Len(q)
  OBVIOUS
<1> HIDE DEF h
<1>2. h.type = "CF" /\ h.sn = r.sn /\ FrameFits(h, ls)
  BY <1>1 DEF h, InStep
<1>3. /\ MsgOf(h) = RxMsg(r) /\ Len(r.buf) < IndexOf(h) /\ IndexOf(h) <= Window(r)
  BY <1>1, <1>2 DEF InStep, InWindow
<1>4. /\ h.sn = (IndexOf(h) - 1) % SnMod /\ IndexOf(h) \in Nat
      /\ h.data = Chunk(MsgOf(h), IndexOf(h))
  BY <1>2 DEF FrameFits, MsgOf, IndexOf, Chunk
<1>5. r.sn = Len(r.buf) % SnMod
  BY DEF InStep, Assembled
<1>6. Len(r.buf) = IndexOf(h) - 1
  <2>1. Len(r.buf) \in Nat /\ BlockSize \in Nat /\ SnMod \in Nat \ {0}
    BY IsotpAssumption
  <2>2. PICK k \in Nat : IndexOf(h) = k + 1
    <3>1. IndexOf(h) - 1 \in Nat /\ IndexOf(h) = (IndexOf(h) - 1) + 1
      BY <1>3, <1>4, <2>1
    <3> QED BY <3>1
  <2>3. Len(r.buf) <= k /\ k < Len(r.buf) + SnMod
    BY <1>3, <2>1, <2>2 DEF Window
  <2>4. k = IndexOf(h) - 1
    BY <2>2
  <2>5. k % SnMod = Len(r.buf) % SnMod
    BY <1>2, <1>4, <1>5, <2>4
  <2>6. Len(r.buf) = k
    BY <2>1, <2>3, <2>5, OneChunkInWindow
  <2> QED BY <2>4, <2>6
<1>7. IndexOf(h) = Len(r.buf) + 1
  BY <1>4, <1>6
<1> QED BY <1>3, <1>4, <1>7 DEF h

\* The buffer with the next chunk.
LEMMA NextBuffer ==
  ASSUME NEW r, NEW t, NEW c, NEW ls, r.buf \in Seq(Chunks), c \in Chunks,
         Assembled(r, ls), r.inProgress, c = Chunk(RxMsg(r), Len(r.buf) + 1),
         t.buf = Append(r.buf, c)
  PROVE  /\ RxMsg(t) = RxMsg(r) /\ RxMsg(r) \in 1..Len(ls)
         /\ Len(t.buf) = Len(r.buf) + 1 /\ t.buf # <<>> /\ Len(r.buf) >= 1
         /\ \A k \in 1..Len(t.buf) : t.buf[k] = Chunk(RxMsg(t), k)
<1>1. /\ r.buf # <<>> /\ RxMsg(r) \in 1..Len(ls)
      /\ \A k \in 1..Len(r.buf) : r.buf[k] = Chunk(RxMsg(r), k)
  BY DEF Assembled
<1>2. /\ Len(t.buf) = Len(r.buf) + 1 /\ t.buf[Len(r.buf) + 1] = c
      /\ \A k \in 1..Len(r.buf) : t.buf[k] = r.buf[k]
      /\ Len(r.buf) \in Nat /\ Len(r.buf) >= 1 /\ t.buf # <<>>
  BY <1>1
<1>3. RxMsg(t) = RxMsg(r)
  BY <1>2 DEF RxMsg
<1>4. ASSUME NEW k \in 1..Len(t.buf)
      PROVE  t.buf[k] = Chunk(RxMsg(t), k)
  <2>1. CASE k \in 1..Len(r.buf)
    BY <1>1, <1>2, <1>3, <2>1
  <2>2. CASE k = Len(r.buf) + 1
    BY <1>2, <1>3, <2>2
  <2> QED BY <1>2, <2>1, <2>2
<1> QED BY <1>1, <1>2, <1>3, <1>4

\* What is left on the path once a chunk was taken.
LEMMA AfterChunk ==
  ASSUME NEW F, NEW q \in Seq(F), NEW v, NEW f, NEW r, NEW ls, NEW rd,
         r.buf \in Seq(Chunks), r.inBlock \in Nat, v.offset \in Nat,
         InStep(v, q, f, r, ls, rd), q # <<>>, Head(q).type = "CF", r.inProgress,
         MsgOf(Head(q)) = RxMsg(r), IndexOf(Head(q)) = Len(r.buf) + 1
  PROVE  /\ \A i \in 1..Len(Tail(q)) : Tail(q)[i].type = "CF" =>
              /\ MsgOf(Tail(q)[i]) = RxMsg(r)
              /\ Len(r.buf) + 1 < IndexOf(Tail(q)[i]) /\ IndexOf(Tail(q)[i]) <= Window(r)
         /\ v.busy /\ v.msg = RxMsg(r) => /\ Len(r.buf) + 1 <= v.offset
                                          /\ Len(r.buf) - r.inBlock = v.offset - v.inBlock
         /\ ~(v.busy /\ v.msg = RxMsg(r)) => ls[RxMsg(r)] <= Window(r)
<1> DEFINE h == Head(q)
           p == Tail(q)
<1>1. /\ Len(p) = Len(q) - 1 /\ Len(q) \in Nat /\ Len(p) \in Nat /\ h = q[1] /\ 1 \in 1..Len(q)
      /\ \A i \in 1..Len(p) : p[i] = q[i + 1] /\ i + 1 \in 1..Len(q)
  OBVIOUS
<1>2. /\ h.type = "CF" /\ MsgOf(h) = RxMsg(r) /\ IndexOf(h) = Len(r.buf) + 1
      /\ Len(r.buf) \in Nat
  OBVIOUS
<1> HIDE DEF h, p
<1>3. ASSUME NEW i \in 1..Len(p), p[i].type = "CF"
      PROVE  /\ MsgOf(p[i]) = RxMsg(r)
             /\ Len(r.buf) + 1 < IndexOf(p[i]) /\ IndexOf(p[i]) <= Window(r)
  <2>1. MsgOf(p[i]) = RxMsg(r) /\ IndexOf(p[i]) <= Window(r)
    BY <1>1, <1>3 DEF InStep, InWindow
  <2>2. Before(h, p[i])
    BY <1>1 DEF InStep, InOrderOnPath
  <2>3. FrameFits(h, ls)
    BY <1>1 DEF InStep
  <2>4. MsgOf(h) \in Nat
    BY <2>3 DEF FrameFits, MsgOf
  <2> QED BY <1>2, <2>1, <2>2, <2>4 DEF Before
<1>4. ASSUME v.busy, v.msg = RxMsg(r)
      PROVE  /\ Len(r.buf) + 1 <= v.offset
             /\ Len(r.buf) - r.inBlock = v.offset - v.inBlock
  <2>1. Len(r.buf) + 1 <= v.offset
    BY <1>1, <1>2, <1>4 DEF InStep, HandedOver
  <2>2. \/ Len(r.buf) - r.inBlock = v.offset - v.inBlock
        \/ Len(r.buf) = v.offset
    BY <1>4 DEF InStep, SameBlock
  <2> QED BY <1>2, <2>1, <2>2
<1>5. ~(v.busy /\ v.msg = RxMsg(r)) => ls[RxMsg(r)] <= Window(r)
  BY <1>1, <1>2 DEF InStep, LeftInWindow
<1> QED BY <1>3, <1>4, <1>5 DEF p

\* Counting chunks and blocks.
LEMMA BlockCounted ==
  ASSUME NEW r, NEW t, NEW v, Len(r.buf) \in Nat, r.inBlock \in Nat,
         Len(t.buf) = Len(r.buf) + 1, t.inBlock = r.inBlock + 1, RxMsg(t) = RxMsg(r),
         v.offset \in Nat, v.inBlock \in Nat,
         v.busy /\ v.msg = RxMsg(r) => /\ Len(r.buf) + 1 <= v.offset
                                       /\ Len(r.buf) - r.inBlock = v.offset - v.inBlock
  PROVE  Window(t) = Window(r) /\ SameBlock(v, t)
<1>1. Window(t) = Window(r)
  <2>1. \A a, b, c \in Int : (a + 1) - (b + 1) + c = (a - b) + c
    OBVIOUS
  <2>2. Window(t) = (Len(r.buf) + 1) - (r.inBlock + 1) + BlockSize
    BY Zenon DEF Window
  <2>3. Len(r.buf) \in Int /\ r.inBlock \in Int /\ BlockSize \in Int
    BY IsotpAssumption
  <2> QED BY <2>1, <2>2, <2>3, Zenon DEF Window
<1>2. SameBlock(v, t)
  BY SMTT(20) DEF SameBlock
<1> QED BY <1>1, <1>2

LEMMA BlockInBounds ==
  ASSUME NEW r, NEW ls, r.inProgress, Assembled(r, ls), BlockSize > 0
  PROVE  /\ r.declared = ls[RxMsg(r)] /\ r.sn = Len(r.buf) % SnMod
         /\ r.inBlock <= BlockSize - 1 /\ r.inBlock \in Nat
<1>1. /\ r.declared = ls[RxMsg(r)] /\ r.sn = Len(r.buf) % SnMod
      /\ r.inBlock \in 0..(BlockSize - 1)
  BY Zenon DEF Assembled
<1> QED BY <1>1, IsotpAssumption

LEMMA BlockEnds ==
  ASSUME NEW v, NEW n \in Nat, NEW b \in Nat, NEW ls, OwnTransfer(v, ls), v.busy,
         v.offset \in Nat, v.inBlock \in Nat, ls[v.msg] > 1,
         b + 1 >= BlockSize, n + 1 <= v.offset, n - b = v.offset - v.inBlock, b < BlockSize
  PROVE  v.inBlock = BlockSize /\ v.offset = n + 1 /\ v.waiting
<1>1. v.inBlock <= BlockSize /\ (~v.waiting => v.inBlock < BlockSize)
  BY IsotpAssumption DEF OwnTransfer
<1> QED BY <1>1, IsotpAssumption

\* It may complete the message, ...
LEMMA MessageCompleted ==
  ASSUME NEW F, NEW q \in Seq(F), NEW v, NEW f, NEW r, NEW t, NEW ls, NEW rd,
         BlockSize <= SnMod, r.buf \in Seq(Chunks), r.inBlock \in Nat, r.declared \in Nat,
         InStep(v, q, f, r, ls, rd), q # <<>>, Head(q).type = "CF", Head(q).data \in Chunks,
         r.inProgress, Head(q).sn = r.sn, t.buf = Append(r.buf, Head(q).data),
         Len(t.buf) >= r.declared, ~t.inProgress, t.ready
  PROVE  InStep(v, Tail(q), f, t, ls, rd)
<1> DEFINE h == Head(q)
           p == Tail(q)
<1>1. InStep(v, p, f, r, ls, rd)
  BY FrameSkipped
<1>2. h.data = Chunk(RxMsg(r), Len(r.buf) + 1)
  BY NextChunk
<1>3. Assembled(r, ls) /\ h.data \in Chunks /\ t.buf = Append(r.buf, h.data)
  BY DEF InStep
<1> HIDE DEF h, p
<1>4. /\ RxMsg(t) = RxMsg(r) /\ RxMsg(r) \in 1..Len(ls)
      /\ Len(t.buf) = Len(r.buf) + 1 /\ t.buf # <<>>
      /\ \A k \in 1..Len(t.buf) : t.buf[k] = Chunk(RxMsg(t), k)
  BY <1>2, <1>3, NextBuffer
<1>5. Assembled(t, ls)
  <2>1. r.declared = ls[RxMsg(r)] /\ Len(r.buf) < r.declared /\ Len(r.buf) \in Nat
    BY <1>3 DEF Assembled
  <2>2. Len(t.buf) = ls[RxMsg(t)]
    BY <1>4, <2>1
  <2> QED BY <1>4, <2>2 DEF Assembled
<1>6. ReadInOrder(p, t, ls, rd)
  BY <1>1, <1>4 DEF InStep, ReadInOrder
<1>7. Awaited(v, p, f, t) /\ InWindow(p, t) /\ SameBlock(v, t) /\ Granted(v, t, ls)
      /\ LeftInWindow(v, p, t, ls)
  BY <1>1 DEF InStep, Awaited, InWindow, SameBlock, LeftInWindow, Granted
<1> QED BY <1>1, <1>5, <1>6, <1>7 DEF InStep, p

\* ... or leave chunks of the block to come, ...
LEMMA ChunkTaken ==
  ASSUME NEW F, NEW q \in Seq(F), NEW v, NEW f, NEW r, NEW t, NEW ls, NEW rd,
         BlockSize <= SnMod, r.buf \in Seq(Chunks), r.inBlock \in Nat, r.declared \in Nat,
         v.offset \in Nat, v.inBlock \in Nat,
         InStep(v, q, f, r, ls, rd), q # <<>>, Head(q).type = "CF", Head(q).data \in Chunks,
         r.inProgress, Head(q).sn = r.sn, t.buf = Append(r.buf, Head(q).data),
         Len(t.buf) < r.declared, t.inProgress, ~t.ready, t.declared = r.declared,
         t.sn = NextSn(r.sn), t.inBlock = r.inBlock + 1, t.inBlock < BlockSize
  PROVE  InStep(v, Tail(q), f, t, ls, rd)
<1> DEFINE h == Head(q)
           p == Tail(q)
<1>1. InStep(v, p, f, r, ls, rd) /\ ~f
  BY FrameSkipped
<1>2. /\ h.data = Chunk(RxMsg(r), Len(r.buf) + 1)
      /\ MsgOf(h) = RxMsg(r) /\ IndexOf(h) = Len(r.buf) + 1
  BY NextChunk
<1>3. /\ \A i \in 1..Len(p) : p[i].type = "CF" =>
           /\ MsgOf(p[i]) = RxMsg(r)
           /\ Len(r.buf) + 1 < IndexOf(p[i]) /\ IndexOf(p[i]) <= Window(r)
      /\ v.busy /\ v.msg = RxMsg(r) => /\ Len(r.buf) + 1 <= v.offset
                                       /\ Len(r.buf) - r.inBlock = v.offset - v.inBlock
  BY <1>2, AfterChunk
<1>4. Assembled(r, ls) /\ h.data \in Chunks /\ t.buf = Append(r.buf, h.data)
  BY DEF InStep
<1> HIDE DEF h, p
<1>5. /\ RxMsg(t) = RxMsg(r) /\ RxMsg(r) \in 1..Len(ls)
      /\ Len(t.buf) = Len(r.buf) + 1 /\ t.buf # <<>>
      /\ \A k \in 1..Len(t.buf) : t.buf[k] = Chunk(RxMsg(t), k)
  <2>1. r.inProgress /\ r.buf \in Seq(Chunks)
    OBVIOUS
  <2>2. h.data = Chunk(RxMsg(r), Len(r.buf) + 1)
    BY <1>2
  <2> QED BY ONLY <1>4, <2>1, <2>2, NextBuffer
<1>6. Len(r.buf) \in Nat /\ BlockSize \in Nat /\ SnMod \in Nat \ {0}
  BY IsotpAssumption
<1>7. Window(t) = Window(r) /\ SameBlock(v, t)
  BY <1>3, <1>5, <1>6, BlockCounted, Zenon
<1>8. Assembled(t, ls)
  <2>1. r.declared = ls[RxMsg(r)] /\ r.sn = Len(r.buf) % SnMod
    BY <1>4 DEF Assembled
  <2>2. t.sn = Len(t.buf) % SnMod
    BY <1>5, <1>6, <2>1, NextRemainder DEF NextSn
  <2>3. t.inBlock \in 0..(BlockSize - 1)
    BY <1>6
  <2> QED BY <1>5, <2>1, <2>2, <2>3 DEF Assembled
<1>9. ReadInOrder(p, t, ls, rd)
  BY <1>1, <1>5 DEF InStep, ReadInOrder
<1>10. Awaited(v, p, f, t)
  BY <1>1 DEF Awaited
<1>11. InWindow(p, t)
  BY <1>3, <1>5, <1>7 DEF InWindow
<1>12. LeftInWindow(v, p, t, ls)
  BY <1>1, <1>5, <1>7 DEF InStep, LeftInWindow
<1>13. Granted(v, t, ls)
  BY <1>1, <1>5 DEF InStep, Granted
<1> QED BY <1>1, <1>7, <1>8, <1>9, <1>10, <1>11, <1>12, <1>13 DEF InStep, p

\* ... or end it, so that the receiver grants the next: the sender, which cannot have
\* left, waits for that with nothing more on its way.
LEMMA BlockCompleted ==
  ASSUME NEW F, NEW q \in Seq(F), NEW v, NEW f, NEW r, NEW t, NEW ls, NEW rd,
         BlockSize > 0, BlockSize <= SnMod,
         r.buf \in Seq(Chunks), r.inBlock \in Nat, r.declared \in Nat,
         v.offset \in Nat, v.inBlock \in Nat,
         InStep(v, q, f, r, ls, rd), q # <<>>, Head(q).type = "CF", Head(q).data \in Chunks,
         r.inProgress, Head(q).sn = r.sn, t.buf = Append(r.buf, Head(q).data),
         Len(t.buf) < r.declared, t.inProgress, ~t.ready, t.declared = r.declared,
         t.sn = NextSn(r.sn), r.inBlock + 1 >= BlockSize, t.inBlock = 0
  PROVE  InStep(v, Tail(q), TRUE, t, ls, rd)
<1> DEFINE h == Head(q)
           p == Tail(q)
<1>1. InStep(v, p, f, r, ls, rd)
  BY FrameSkipped
<1>2. /\ h.data = Chunk(RxMsg(r), Len(r.buf) + 1)
      /\ MsgOf(h) = RxMsg(r) /\ IndexOf(h) = Len(r.buf) + 1
  BY NextChunk
<1>3. /\ \A i \in 1..Len(p) : p[i].type = "CF" =>
           Len(r.buf) + 1 < IndexOf(p[i]) /\ IndexOf(p[i]) <= Window(r)
      /\ v.busy /\ v.msg = RxMsg(r) => /\ Len(r.buf) + 1 <= v.offset
                                       /\ Len(r.buf) - r.inBlock = v.offset - v.inBlock
      /\ ~(v.busy /\ v.msg = RxMsg(r)) => ls[RxMsg(r)] <= Window(r)
  BY <1>2, AfterChunk
<1>4. Assembled(r, ls) /\ h.data \in Chunks /\ t.buf = Append(r.buf, h.data)
  BY DEF InStep
<1>5. p \in Seq(F) /\ Len(p) \in Nat
  OBVIOUS
<1> HIDE DEF h, p
<1>6. /\ RxMsg(t) = RxMsg(r) /\ RxMsg(r) \in 1..Len(ls)
      /\ Len(t.buf) = Len(r.buf) + 1 /\ t.buf # <<>> /\ Len(r.buf) >= 1
      /\ \A k \in 1..Len(t.buf) : t.buf[k] = Chunk(RxMsg(t), k)
  <2>1. r.inProgress /\ r.buf \in Seq(Chunks)
    OBVIOUS
  <2>2. h.data = Chunk(RxMsg(r), Len(r.buf) + 1)
    BY <1>2
  <2> QED BY ONLY <1>4, <2>1, <2>2, NextBuffer
<1>7. Len(r.buf) \in Nat /\ BlockSize \in Nat /\ SnMod \in Nat \ {0}
  BY IsotpAssumption
<1>8. /\ r.declared = ls[RxMsg(r)] /\ r.sn = Len(r.buf) % SnMod
      /\ r.inBlock <= BlockSize - 1
  BY <1>4, BlockInBounds
<1>9. Window(r) = Len(r.buf) + 1
  BY <1>7, <1>8 DEF Window
<1>10. v.busy /\ v.msg = RxMsg(r)
  BY <1>3, <1>6, <1>7, <1>8, <1>9
<1>11. v.inBlock = BlockSize /\ v.offset = Len(r.buf) + 1 /\ v.waiting
  <2>1. Len(r.buf) + 1 <= v.offset /\ Len(r.buf) - r.inBlock = v.offset - v.inBlock
    BY <1>3, <1>10
  <2>2. OwnTransfer(v, ls)
    BY <1>1 DEF InStep
  <2>3. ls[v.msg] > 1
    BY <1>6, <1>7, <1>8, <1>10
  <2>4. r.inBlock < BlockSize
    BY <1>7, <1>8
  <2> QED BY <1>7, <1>10, <2>1, <2>2, <2>3, <2>4, BlockEnds
<1>12. p = <<>>
  <2>1. SUFFICES ASSUME p # <<>> PROVE FALSE
    OBVIOUS
  <2>2. 1 \in 1..Len(p)
    BY <2>1, <1>5
  <2>3. FrameFits(p[1], ls)
    BY <1>1, <2>2 DEF InStep
  <2>4. p[1].type # "CF"
    BY <1>3, <1>7, <1>9, <2>2, <2>3, SMTT(20) DEF FrameFits, IndexOf
  <2>5. RxMsg(r) < MsgOf(p[1])
    BY <1>1, <2>2, <2>3, <2>4 DEF InStep, ReadInOrder, FrameFits
  <2>6. MsgOf(p[1]) <= Len(ls) /\ MsgOf(p[1]) \in Int /\ Len(ls) \in Int
    BY <2>3 DEF FrameFits, MsgOf
  <2>7. v.msg = Len(ls)
    BY <1>1, <1>10 DEF InStep, OwnTransfer
  <2> QED BY <1>6, <1>10, <2>5, <2>6, <2>7
<1>13. Assembled(t, ls)
  <2>1. t.sn = Len(t.buf) % SnMod
    BY <1>6, <1>7, <1>8, NextRemainder, ZenonT(30) DEF NextSn
  <2>2. t.inBlock \in 0..(BlockSize - 1)
    BY <1>7
  <2> QED BY <1>6, <1>8, <2>1, <2>2 DEF Assembled
<1>14. ReadInOrder(p, t, ls, rd)
  BY <1>1, <1>6 DEF InStep, ReadInOrder
<1>15. Awaited(v, p, TRUE, t)
  BY <1>6, <1>10, <1>11, <1>12 DEF Awaited
<1>16. InWindow(p, t) /\ LeftInWindow(v, p, t, ls) /\ FirstLast(v, p, TRUE)
  BY <1>12 DEF InWindow, LeftInWindow, FirstLast
<1>17. SameBlock(v, t)
  BY <1>6, <1>10, <1>11 DEF SameBlock
<1>18. Granted(v, t, ls)
  BY <1>6, <1>10 DEF Granted
<1> QED BY <1>1, <1>13, <1>14, <1>15, <1>16, <1>17, <1>18 DEF InStep, p

\* The receiver's application reads a message.
LEMMA MessageRead ==
  ASSUME NEW q, NEW v, NEW f, NEW r, NEW t, NEW ls, NEW rd \in Seq(Seq(Chunks)),
         ls \in Seq(Nat \ {0}), InStep(v, q, f, r, ls, rd),
         r.ready, r.buf \in Seq(Chunks), ~t.inProgress, ~t.ready
  PROVE  /\ InStep(v, q, f, t, ls, Append(rd, r.buf))
         /\ r.buf = Message(RxMsg(r), ls[RxMsg(r)]) /\ RxMsg(r) \in 1..Len(ls)
         /\ \A i \in 1..Len(rd) : NumberRead(rd, i) < RxMsg(r)
<1> DEFINE m == RxMsg(r)
           after == Append(rd, r.buf)
<1>1. /\ r.buf # <<>> /\ m \in 1..Len(ls) /\ Len(r.buf) = ls[m]
      /\ \A k \in 1..Len(r.buf) : r.buf[k] = Chunk(m, k)
  BY DEF InStep, Assembled
<1>2. \A i \in 1..Len(rd) : NumberRead(rd, i) < m
  BY DEF InStep, ReadInOrder
<1>3. r.buf = Message(m, ls[m])
  <2>1. r.buf = [k \in 1..Len(r.buf) |-> r.buf[k]]
    OBVIOUS
  <2> HIDE DEF m
  <2> QED BY <1>1, <2>1 DEF Message
<1>4. r.inProgress => FALSE
  BY DEF InStep, Assembled
<1>5. InStep(v, q, f, t, ls, rd)
  BY <1>4, TransferDropped
<1>6. /\ Len(after) = Len(rd) + 1 /\ Len(rd) \in Nat
      /\ after[Len(rd) + 1] = r.buf /\ \A i \in 1..Len(rd) : after[i] = rd[i]
  OBVIOUS
<1>7. NumberRead(after, Len(rd) + 1) = m
  BY <1>6 DEF NumberRead, RxMsg
<1>8. \A i \in 1..Len(rd) : NumberRead(after, i) = NumberRead(rd, i)
  BY <1>6 DEF NumberRead
<1> HIDE DEF m, after
<1>9. ReadInOrder(q, t, ls, after)
  <2>1. \A i \in 1..Len(after) : /\ NumberRead(after, i) \in 1..Len(ls)
                                 /\ after[i] = Message(NumberRead(after, i), ls[NumberRead(after, i)])
    <3>1. ASSUME NEW i \in 1..Len(rd)
          PROVE  /\ NumberRead(after, i) \in 1..Len(ls)
                 /\ after[i] = Message(NumberRead(after, i), ls[NumberRead(after, i)])
      BY <1>6, <1>8 DEF InStep, ReadInOrder
    <3>2. /\ NumberRead(after, Len(rd) + 1) \in 1..Len(ls)
          /\ after[Len(rd) + 1] = Message(m, ls[m])
      BY <1>1, <1>3, <1>6, <1>7
    <3>3. \A i \in 1..Len(after) : i \in 1..Len(rd) \/ i = Len(rd) + 1
      BY <1>6
    <3> QED BY <1>7, <3>1, <3>2, <3>3
  <2>2. \A i, j \in 1..Len(after) : i < j => NumberRead(after, i) < NumberRead(after, j)
    <3>1. ASSUME NEW i \in 1..Len(after), NEW j \in 1..Len(after), i < j
          PROVE  NumberRead(after, i) < NumberRead(after, j)
      <4>1. i \in 1..Len(rd) /\ (j \in 1..Len(rd) \/ j = Len(rd) + 1)
        BY <1>6, <3>1
      <4>2. CASE j \in 1..Len(rd)
        BY <1>8, <3>1, <4>1, <4>2 DEF InStep, ReadInOrder
      <4>3. CASE j = Len(rd) + 1
        BY <1>2, <1>7, <1>8, <4>1, <4>3
      <4> QED BY <4>1, <4>2, <4>3
    <3> QED BY <3>1
  <2>3. \A k \in 1..Len(q) : q[k].type \in {"SF", "FF"} =>
          \A i \in 1..Len(after) : NumberRead(after, i) < MsgOf(q[k])
    <3>1. ASSUME NEW k \in 1..Len(q), q[k].type \in {"SF", "FF"}, NEW i \in 1..Len(after)
          PROVE  NumberRead(after, i) < MsgOf(q[k])
      <4>1. m < MsgOf(q[k]) /\ \A j \in 1..Len(rd) : NumberRead(rd, j) < MsgOf(q[k])
        BY <3>1 DEF InStep, ReadInOrder, m
      <4>2. i \in 1..Len(rd) \/ i = Len(rd) + 1
        BY <1>6, SMTT(20)
      <4> QED BY <1>7, <1>8, <4>1, <4>2
    <3> QED BY <3>1
  <2> QED BY <2>1, <2>2, <2>3 DEF ReadInOrder
<1> QED BY <1>1, <1>2, <1>3, <1>5, <1>9 DEF InStep, m, after

-------------------------------------------------------------------------------
\* Steps of the sender.

\* A new message: its first frame is the last on the path.
LEMMA AppendIs ==
  ASSUME NEW F, NEW q \in Seq(F), NEW x \in F, NEW p, p = Append(q, x)
  PROVE  /\ p \in Seq(F) /\ Len(p) = Len(q) + 1 /\ Len(q) \in Nat /\ p[Len(q) + 1] = x
         /\ \A i \in 1..Len(q) : p[i] = q[i]
         /\ \A i \in 1..Len(p) : i \in 1..Len(q) \/ i = Len(q) + 1
OBVIOUS

LEMMA TransferBegun ==
  ASSUME NEW F, NEW q \in Seq(F), NEW x \in F, NEW v, NEW w, NEW f, NEW r,
         NEW ls \in Seq(Nat \ {0}), NEW n \in Nat \ {0}, NEW rd,
         InStep(v, q, f, r, ls, rd), ~v.busy, BlockSize > 0,
         x.data = Chunk(Len(ls) + 1, 1),
         \/ n = 1 /\ x.type = "SF"
         \/ n > 1 /\ x.type = "FF" /\ x.len = n /\ w.busy /\ w.waiting,
         w.busy => w.msg = Len(ls) + 1 /\ w.offset = 1 /\ w.inBlock = 0
  PROVE  InStep(w, Append(q, x), f, r, Append(ls, n), rd)
<1> DEFINE m == Len(ls) + 1
           p == Append(q, x)
           after == Append(ls, n)
<1>1. /\ Len(p) = Len(q) + 1 /\ Len(q) \in Nat /\ p[Len(q) + 1] = x
      /\ \A i \in 1..Len(q) : p[i] = q[i]
      /\ \A i \in 1..Len(p) : i \in 1..Len(q) \/ i = Len(q) + 1
  OBVIOUS
<1>2. /\ Len(after) = m /\ Len(ls) \in Nat /\ m \in Nat \ {0} /\ after[m] = n
      /\ \A i \in 1..Len(ls) : after[i] = ls[i] /\ i \in 1..m /\ i < m
  OBVIOUS
<1>3. MsgOf(x) = m /\ IndexOf(x) = 1 /\ x.data = <<m, 1>>
  BY DEF MsgOf, IndexOf, Chunk
<1>4. n > 1 => w.busy /\ w.waiting /\ x.type = "FF" /\ x.len = n
  OBVIOUS
<1>5. n = 1 => x.type = "SF"
  OBVIOUS
<1> HIDE DEF m, p, after
<1>6. ~f /\ \A i \in 1..Len(q) : q[i].type # "FF"
  BY DEF InStep, Awaited, FirstLast
<1>7. \A i \in 1..Len(q) : MsgOf(q[i]) \in 1..Len(ls) /\ FrameFits(q[i], ls)
  BY DEF InStep, FrameFits, MsgOf
<1>8. w.busy => w.msg = m /\ w.offset = 1 /\ w.inBlock = 0
  BY DEF m
<1>9. r.inProgress \/ r.ready => RxMsg(r) \in 1..Len(ls)
  BY DEF InStep, Assembled
<1>10. OwnTransfer(w, after)
  BY <1>2, <1>8, IsotpAssumption DEF OwnTransfer
<1>11. \A i \in 1..Len(p) : FrameFits(p[i], after)
  <2>1. \A i \in 1..Len(q) : FrameFits(q[i], after)
    <3>1. ASSUME NEW i \in 1..Len(q)
          PROVE  FrameFits(q[i], after)
      <4>1. FrameFits(q[i], ls) /\ after[MsgOf(q[i])] = ls[MsgOf(q[i])]
        BY <1>2, <1>7
      <4>2. 1..Len(ls) \subseteq 1..Len(after)
        BY <1>2
      <4> QED BY <4>1, <4>2 DEF FrameFits
    <3> QED BY <3>1
  <2>2. FrameFits(x, after)
    <3>1. x.data \in (1..Len(after)) \X Nat
      BY ONLY <1>2, <1>3
    <3>2. IndexOf(x) = 1 /\ after[MsgOf(x)] = n /\ (n = 1 \/ n > 1)
      BY <1>2, <1>3
    <3>3. CASE n = 1
      BY <1>5, <3>1, <3>2, <3>3 DEF FrameFits
    <3>4. CASE n > 1
      BY <1>4, <3>1, <3>2, <3>4 DEF FrameFits
    <3> QED BY <3>2, <3>3, <3>4
  <2> QED BY <1>1, <2>1, <2>2
<1>12. InOrderOnPath(p)
  <2>1. ASSUME NEW i \in 1..Len(p), NEW j \in 1..Len(p), i < j
        PROVE  Before(p[i], p[j])
    <3>1. i \in 1..Len(q)
      BY <1>1, <2>1
    <3>2. CASE j \in 1..Len(q)
      BY <1>1, <2>1, <3>1, <3>2 DEF InStep, InOrderOnPath
    <3>3. CASE j = Len(q) + 1
      BY <1>1, <1>2, <1>3, <1>7, <3>1, <3>3 DEF Before
    <3> QED BY <1>1, <3>2, <3>3
  <2> QED BY <2>1 DEF InOrderOnPath
<1>13. HandedOver(w, p)
  <2>1. ASSUME w.busy, NEW i \in 1..Len(p), MsgOf(p[i]) = w.msg
        PROVE  IndexOf(p[i]) <= w.offset
    <3>1. i \notin 1..Len(q)
      BY <1>1, <1>2, <1>7, <1>8, <2>1
    <3>2. p[i] = x /\ w.offset = 1
      BY <1>1, <1>8, <2>1, <3>1
    <3> QED BY <1>3, <3>2
  <2> QED BY <2>1 DEF HandedOver
<1>14. FirstLast(w, p, f)
  <2>1. ASSUME NEW i \in 1..Len(p), p[i].type = "FF"
        PROVE  i = Len(p) /\ w.busy /\ MsgOf(p[i]) = w.msg /\ w.offset = 1 /\ w.waiting /\ ~f
    <3>1. i = Len(q) + 1 /\ p[i] = x
      BY <1>1, <1>6, <2>1
    <3>2. n > 1
      BY <1>5, <2>1, <3>1
    <3> QED BY <1>1, <1>3, <1>4, <1>6, <1>8, <3>1, <3>2
  <2> QED BY <2>1 DEF FirstLast
<1>15. Awaited(w, p, f, r)
  BY <1>6 DEF Awaited
<1>16. Assembled(r, after)
  BY <1>2, <1>9 DEF InStep, Assembled
<1>17. ReadInOrder(p, r, after, rd)
  <2>1. \A i \in 1..Len(rd) : /\ NumberRead(rd, i) \in 1..Len(ls)
                              /\ rd[i] = Message(NumberRead(rd, i), ls[NumberRead(rd, i)])
    BY DEF InStep, ReadInOrder
  <2>2. \A i \in 1..Len(rd) : /\ NumberRead(rd, i) \in 1..Len(after)
                              /\ rd[i] = Message(NumberRead(rd, i), after[NumberRead(rd, i)])
    BY <1>2, <2>1
  <2>3. \A i \in 1..Len(rd) : NumberRead(rd, i) < m
    BY <1>2, <2>1
  <2>4. r.inProgress \/ r.ready => RxMsg(r) < m
    BY <1>2, <1>9
  <2>5. \A k \in 1..Len(p) : p[k].type \in {"SF", "FF"} =>
          /\ \A i \in 1..Len(rd) : NumberRead(rd, i) < MsgOf(p[k])
          /\ r.inProgress \/ r.ready => RxMsg(r) < MsgOf(p[k])
    BY <1>1, <1>3, <2>3, <2>4 DEF InStep, ReadInOrder
  <2> QED BY <2>2, <2>5 DEF InStep, ReadInOrder
<1>18. InWindow(p, r)
  BY <1>1, <1>4, <1>5 DEF InStep, InWindow
<1>19. SameBlock(w, r) /\ Granted(w, r, after)
  <2>1. r.inProgress /\ w.busy => w.msg # RxMsg(r)
    BY <1>2, <1>8, <1>9
  <2>2. w.busy /\ after[w.msg] > 1 => w.waiting /\ w.offset = 1
    BY <1>2, <1>4, <1>8
  <2> QED BY <2>1, <2>2 DEF SameBlock, Granted
<1>20. LeftInWindow(w, p, r, after)
  <2>1. ASSUME r.inProgress, NEW i \in 1..Len(p), p[i].type = "CF"
        PROVE  after[RxMsg(r)] <= Window(r)
    <3>1. i \in 1..Len(q) /\ q[i].type = "CF"
      BY <1>1, <1>4, <1>5, <2>1
    <3>2. ls[RxMsg(r)] <= Window(r)
      BY <2>1, <3>1 DEF InStep, LeftInWindow
    <3> QED BY <1>2, <1>9, <2>1, <3>2
  <2> QED BY <2>1 DEF LeftInWindow
<1>21. OneBlock(w, p)
  <2>1. ASSUME NEW i \in 1..Len(p), p[i].type = "CF"
        PROVE  /\ i \in 1..Len(q) /\ p[i] = q[i]
               /\ w.busy => MsgOf(p[i]) # w.msg
    <3>1. i \in 1..Len(q) /\ p[i] = q[i]
      BY <1>1, <1>4, <1>5, <2>1
    <3>2. MsgOf(q[i]) # m
      BY <1>2, <1>7, <3>1
    <3> QED BY <1>8, <3>1, <3>2
  <2> QED BY <2>1 DEF InStep, OneBlock
<1> QED BY <1>10, <1>11, <1>12, <1>13, <1>14, <1>15, <1>16, <1>17, <1>18, <1>19, <1>20, <1>21
        DEF InStep, p, after

\* The next consecutive frame of a granted block.
LEMMA ChunkSent ==
  ASSUME NEW F, NEW q \in Seq(F), NEW x \in F, NEW v, NEW w, NEW f, NEW r,
         NEW ls \in Seq(Nat \ {0}), NEW rd,
         InStep(v, q, f, r, ls, rd), v.busy, ~v.waiting, v.offset \in Nat, v.inBlock \in Nat,
         r.buf \in Seq(Chunks), r.inBlock \in Nat,
         v.offset < ls[v.msg],
         x.type = "CF", x.data = Chunk(v.msg, v.offset + 1), x.sn = v.offset % SnMod,
         w.busy, w.msg = v.msg, w.offset = v.offset + 1, w.inBlock = v.inBlock + 1,
         ~w.waiting => w.inBlock < BlockSize
  PROVE  InStep(w, Append(q, x), f, r, ls, rd)
<1> DEFINE p == Append(q, x)
<1>1. /\ Len(p) = Len(q) + 1 /\ Len(q) \in Nat /\ p[Len(q) + 1] = x
      /\ \A i \in 1..Len(q) : p[i] = q[i]
      /\ \A i \in 1..Len(p) : i \in 1..Len(q) \/ i = Len(q) + 1
  BY ONLY AppendIs, q \in Seq(F), x \in F
<1>2. MsgOf(x) = v.msg /\ IndexOf(x) = v.offset + 1 /\ x.data = <<v.msg, v.offset + 1>>
      /\ x.type = "CF" /\ x.sn = v.offset % SnMod
  BY DEF MsgOf, IndexOf, Chunk
<1>3. Len(r.buf) \in Nat /\ Len(ls) \in Nat
  OBVIOUS
<1> HIDE DEF p
<1>4. ~f /\ \A i \in 1..Len(q) : q[i].type # "FF"
  BY DEF InStep, Awaited, FirstLast
<1>5. /\ v.msg = Len(ls) /\ v.msg \in 1..Len(ls) /\ ls[v.msg] \in Nat /\ v.offset >= 1
      /\ ls[v.msg] > 1 /\ v.inBlock < BlockSize
  <2>1. OwnTransfer(v, ls)
    BY DEF InStep
  <2>2. v.msg = Len(ls) /\ v.msg \in 1..Len(ls) /\ v.offset \in 1..ls[v.msg]
    BY <2>1 DEF OwnTransfer
  <2>3. ls[v.msg] \in Nat /\ v.offset >= 1
    BY <2>2
  <2>4. ls[v.msg] > 1
    BY <2>3
  <2> QED BY <2>1, <2>2, <2>3, <2>4 DEF OwnTransfer
<1>6. \A i \in 1..Len(q) : /\ MsgOf(q[i]) \in 1..Len(ls)
                           /\ MsgOf(q[i]) = v.msg => IndexOf(q[i]) <= v.offset
                           /\ IndexOf(q[i]) \in Nat
  BY DEF InStep, FrameFits, MsgOf, IndexOf, HandedOver
<1>7. r.inProgress => v.msg = RxMsg(r)
  BY <1>5 DEF InStep, Granted
<1>8. r.inProgress => Len(r.buf) <= v.offset /\ Len(r.buf) - r.inBlock = v.offset - v.inBlock
  BY <1>7 DEF InStep, SameBlock
<1>9. OwnTransfer(w, ls)
  <2>1. w.offset \in 1..ls[w.msg] /\ w.inBlock \in 0..BlockSize
    <3>1. \A a, b, c, d \in Nat : c >= 1 /\ c < a /\ d < b => c + 1 \in 1..a /\ d + 1 \in 0..b
      OBVIOUS
    <3>2. BlockSize \in Nat
      BY IsotpAssumption
    <3> QED BY <1>5, <3>1, <3>2, ZenonT(30)
  <2> QED BY <1>5, <2>1 DEF OwnTransfer
<1>10. \A i \in 1..Len(p) : FrameFits(p[i], ls)
  <2>1. FrameFits(x, ls)
    <3>1. v.offset + 1 \in Nat /\ v.offset + 1 > 1 /\ v.offset + 1 <= ls[v.msg]
          /\ (v.offset + 1) - 1 = v.offset
      <4>1. \A a, c \in Nat : c >= 1 /\ c < a =>
              c + 1 \in Nat /\ c + 1 > 1 /\ c + 1 <= a /\ (c + 1) - 1 = c
        OBVIOUS
      <4> QED BY <1>5, <4>1, Zenon
    <3>2. x.data \in (1..Len(ls)) \X Nat
      BY ONLY <1>2, <1>5, <3>1
    <3> QED BY ONLY <1>2, <3>1, <3>2 DEF FrameFits
  <2> QED BY <1>1, <2>1 DEF InStep
<1>11. InOrderOnPath(p)
  <2>1. ASSUME NEW i \in 1..Len(p), NEW j \in 1..Len(p), i < j
        PROVE  Before(p[i], p[j])
    <3>1. i \in 1..Len(q)
      BY <1>1, <2>1
    <3>2. CASE j \in 1..Len(q)
      BY <1>1, <2>1, <3>1, <3>2 DEF InStep, InOrderOnPath
    <3>3. CASE j = Len(q) + 1
      BY <1>1, <1>2, <1>3, <1>5, <1>6, <3>1, <3>3 DEF Before
    <3> QED BY <1>1, <3>2, <3>3
  <2> QED BY <2>1 DEF InOrderOnPath
<1>12. HandedOver(w, p)
  <2>1. ASSUME NEW i \in 1..Len(p), MsgOf(p[i]) = w.msg
        PROVE  IndexOf(p[i]) <= w.offset
    <3>1. CASE i \in 1..Len(q)
      <4>1. IndexOf(q[i]) \in Nat /\ IndexOf(q[i]) <= v.offset
        BY <1>1, <1>6, <2>1, <3>1
      <4>2. \A a, c \in Nat : a <= c => a <= c + 1
        OBVIOUS
      <4> QED BY <1>1, <3>1, <4>1, <4>2, Zenon
    <3>2. CASE i = Len(q) + 1
      BY ONLY <1>1, <1>2, <3>2, v.offset \in Nat, w.offset = v.offset + 1
    <3> QED BY <1>1, <3>1, <3>2
  <2> QED BY <2>1 DEF HandedOver
<1>13. FirstLast(w, p, f)
  BY <1>1, <1>2, <1>4 DEF FirstLast
<1>14. Awaited(w, p, f, r)
  BY <1>4 DEF Awaited
<1>15. ReadInOrder(p, r, ls, rd)
  BY <1>1, <1>2 DEF InStep, ReadInOrder
<1>16. InWindow(p, r)
  <2>1. r.inProgress => Len(r.buf) < v.offset + 1 /\ v.offset + 1 <= Window(r)
    <3>1. \A a, b, c, d, e \in Nat :
            a <= c /\ a - b = c - d /\ d < e => a < c + 1 /\ c + 1 <= a - b + e
      OBVIOUS
    <3>2. BlockSize \in Nat
      BY IsotpAssumption
    <3> QED BY <1>3, <1>5, <1>8, <3>1, <3>2, Zenon DEF Window
  <2> QED BY <1>1, <1>2, <1>7, <2>1 DEF InStep, InWindow
<1>17. SameBlock(w, r)
  <2>1. r.inProgress => /\ Len(r.buf) <= v.offset + 1
                        /\ Len(r.buf) - r.inBlock = (v.offset + 1) - (v.inBlock + 1)
    <3>1. \A a, b, c, d \in Nat : a <= c => a <= c + 1
      OBVIOUS
    <3>2. \A c, d \in Nat : c - d = (c + 1) - (d + 1)
      OBVIOUS
    <3>3. r.inProgress => Len(r.buf) <= v.offset + 1
      BY <1>3, <1>8, <3>1, Zenon
    <3>4. r.inProgress => Len(r.buf) - r.inBlock = v.offset - v.inBlock
      BY <1>8
    <3>5. v.offset - v.inBlock = (v.offset + 1) - (v.inBlock + 1)
      BY <3>2, Zenon
    <3> QED BY <3>3, <3>4, <3>5, Zenon
  <2>2. r.inProgress => /\ Len(r.buf) <= w.offset
                        /\ Len(r.buf) - r.inBlock = w.offset - w.inBlock
    BY <2>1, Zenon
  <2> QED BY ONLY <2>2 DEF SameBlock
<1>18. LeftInWindow(w, p, r, ls) /\ Granted(w, r, ls)
  BY <1>7 DEF LeftInWindow, Granted
<1>19. OneBlock(w, p)
  <2>1. \A i \in 1..Len(q) : q[i].type = "CF" /\ MsgOf(q[i]) = v.msg =>
          IndexOf(q[i]) <= v.offset /\ v.offset < IndexOf(q[i]) + v.inBlock
    BY <1>6 DEF InStep, OneBlock
  <2>2. BlockSize \in Nat
    BY IsotpAssumption
  <2>3. \A a, c, d, e \in Nat : a <= c /\ c < a + d /\ d < e =>
          c + 1 < a + (d + 1) /\ c + 1 < a + e /\ a < c + 1 + e
    BY SMTT(20)
  <2>4. \A i \in 1..Len(q) : q[i].type = "CF" /\ MsgOf(q[i]) = v.msg =>
          /\ w.offset < IndexOf(q[i]) + w.inBlock
          /\ IndexOf(x) < IndexOf(q[i]) + BlockSize
          /\ IndexOf(q[i]) < IndexOf(x) + BlockSize
    <3>1. ASSUME NEW i \in 1..Len(q), q[i].type = "CF", MsgOf(q[i]) = v.msg
          PROVE  /\ v.offset + 1 < IndexOf(q[i]) + (v.inBlock + 1)
                 /\ v.offset + 1 < IndexOf(q[i]) + BlockSize
                 /\ IndexOf(q[i]) < v.offset + 1 + BlockSize
      <4>1. /\ IndexOf(q[i]) \in Nat /\ IndexOf(q[i]) <= v.offset
            /\ v.offset < IndexOf(q[i]) + v.inBlock /\ v.inBlock < BlockSize
        BY <1>5, <1>6, <2>1, <3>1
      <4> QED BY <2>2, <2>3, <4>1, Zenon
    <3> QED BY <1>2, <3>1, Zenon
  <2>5. w.offset < IndexOf(x) + w.inBlock /\ IndexOf(x) < IndexOf(x) + BlockSize
    <3>1. \A c, d, e \in Nat : d < e => c + 1 < c + 1 + (d + 1) /\ c + 1 < c + 1 + e
      OBVIOUS
    <3> QED BY <1>2, <1>5, <2>2, <3>1, Zenon
  <2>6. \A i, j \in 1..Len(q) :
          q[i].type = "CF" /\ q[j].type = "CF" /\ MsgOf(q[j]) = MsgOf(q[i]) =>
            IndexOf(q[i]) < IndexOf(q[j]) + BlockSize
    BY DEF InStep, OneBlock
  <2>7. \A i \in 1..Len(p) : (i \in 1..Len(q) /\ p[i] = q[i]) \/ p[i] = x
    BY <1>1
  <2>8. ASSUME NEW i \in 1..Len(p), p[i].type = "CF"
        PROVE  /\ \A j \in 1..Len(p) : p[j].type = "CF" /\ MsgOf(p[j]) = MsgOf(p[i]) =>
                    IndexOf(p[i]) < IndexOf(p[j]) + BlockSize
               /\ MsgOf(p[i]) = w.msg => w.offset < IndexOf(p[i]) + w.inBlock
    <3>1. CASE p[i] = x
      BY <1>2, <2>4, <2>5, <2>7, <3>1, Zenon
    <3>2. CASE i \in 1..Len(q) /\ p[i] = q[i]
      BY <1>2, <2>4, <2>6, <2>7, <2>8, <3>2, Zenon
    <3> QED BY <2>7, <3>1, <3>2
  <2> QED BY <2>8, Zenon DEF OneBlock
<1> QED BY <1>9, <1>10, <1>11, <1>12, <1>13, <1>14, <1>15, <1>16, <1>17, <1>18, <1>19
        DEF InStep, p

\* The sender leaves a transfer: all is sent, or nothing is left on the path.
LEMMA TransferLeft ==
  ASSUME NEW q, NEW v, NEW w, NEW r, NEW ls \in Seq(Nat \ {0}), NEW rd,
         InStep(v, q, FALSE, r, ls, rd), v.busy, ~w.busy,
         r.buf \in Seq(Chunks), r.inBlock \in Nat, v.inBlock \in Nat, v.offset \in Nat,
         v.offset = ls[v.msg] \/ q = <<>>
  PROVE  InStep(w, q, FALSE, r, ls, rd)
<1>1. OwnTransfer(w, ls) /\ HandedOver(w, q) /\ Awaited(w, q, FALSE, r)
      /\ SameBlock(w, r) /\ Granted(w, r, ls) /\ OneBlock(w, q)
  BY DEF InStep, OwnTransfer, HandedOver, Awaited, SameBlock, Granted, OneBlock
<1>2. FirstLast(w, q, FALSE)
  <2>1. ASSUME NEW i \in 1..Len(q), q[i].type = "FF"
        PROVE  FALSE
    <3>1. v.offset = ls[v.msg]
      BY <2>1
    <3>2. MsgOf(q[i]) = v.msg /\ v.offset = 1
      BY <2>1 DEF InStep, FirstLast
    <3>3. q[i].len = ls[MsgOf(q[i])] /\ q[i].len > 1
      BY <2>1 DEF InStep, FrameFits
    <3>4. 1 > 1
      BY ONLY <3>1, <3>2, <3>3
    <3> QED BY ONLY <3>4
  <2> QED BY <2>1 DEF FirstLast
<1>3. LeftInWindow(w, q, r, ls)
  <2>1. ASSUME r.inProgress, NEW i \in 1..Len(q), q[i].type = "CF"
        PROVE  ls[RxMsg(r)] <= Window(r)
    <3>1. v.offset = ls[v.msg]
      BY <2>1
    <3>2. CASE v.msg # RxMsg(r)
      BY <2>1, <3>2 DEF InStep, LeftInWindow
    <3>3. CASE v.msg = RxMsg(r)
      <4>1. Len(r.buf) \in Nat /\ BlockSize \in Nat
        BY IsotpAssumption
      <4>2. v.inBlock <= BlockSize
        BY <4>1 DEF InStep, OwnTransfer
      <4>3. r.declared = ls[RxMsg(r)] /\ Len(r.buf) < r.declared
        BY <2>1 DEF InStep, Assembled
      <4>4. Len(r.buf) - r.inBlock = v.offset - v.inBlock
        BY <2>1, <3>1, <3>3, <4>1, <4>3 DEF InStep, SameBlock
      <4> QED BY <3>1, <3>3, <4>1, <4>2, <4>4 DEF Window
    <3> QED BY <3>2, <3>3
  <2> QED BY <2>1 DEF LeftInWindow
<1> QED BY <1>1, <1>2, <1>3 DEF InStep

\* Flow control lets the sender go on.
LEMMA BlockGranted ==
  ASSUME NEW q, NEW v, NEW w, NEW r, NEW ls, NEW rd,
         InStep(v, q, TRUE, r, ls, rd), BlockSize > 0, v.offset \in Nat,
         w.busy, w.msg = v.msg, w.offset = v.offset, w.inBlock = 0, ~w.waiting
  PROVE  InStep(w, q, FALSE, r, ls, rd)
<1>1. /\ v.busy /\ q = <<>>
      /\ r.inProgress => RxMsg(r) = v.msg /\ Len(r.buf) = v.offset /\ r.inBlock = 0
  BY DEF InStep, Awaited
<1>2. OwnTransfer(w, ls)
  BY <1>1, IsotpAssumption DEF InStep, OwnTransfer
<1>3. HandedOver(w, q) /\ FirstLast(w, q, FALSE) /\ Awaited(w, q, FALSE, r)
      /\ LeftInWindow(w, q, r, ls) /\ OneBlock(w, q)
  BY <1>1 DEF HandedOver, FirstLast, Awaited, LeftInWindow, OneBlock
<1>4. SameBlock(w, r) /\ Granted(w, r, ls)
  BY <1>1 DEF SameBlock, Granted
<1> QED BY <1>2, <1>3, <1>4 DEF InStep

\* Steps that leave the transfer as it is.
SameSender(v, w) ==
  /\ w.busy = v.busy /\ w.msg = v.msg /\ w.offset = v.offset /\ w.inBlock = v.inBlock
  /\ w.waiting = v.waiting

LEMMA SenderUntouched ==
  ASSUME NEW q, NEW v, NEW w, NEW f, NEW r, NEW ls, NEW rd,
         InStep(v, q, f, r, ls, rd), SameSender(v, w)
  PROVE  InStep(w, q, f, r, ls, rd)
<1> USE DEF SameSender
<1>1. OwnTransfer(w, ls)
  BY DEF InStep, OwnTransfer
<1>2. HandedOver(w, q) /\ FirstLast(w, q, f) /\ Awaited(w, q, f, r) /\ OneBlock(w, q)
  BY DEF InStep, HandedOver, FirstLast, Awaited, OneBlock
<1>3. SameBlock(w, r) /\ LeftInWindow(w, q, r, ls) /\ Granted(w, r, ls)
  BY DEF InStep, SameBlock, LeftInWindow, Granted
<1> QED BY <1>1, <1>2, <1>3 DEF InStep

-------------------------------------------------------------------------------
(***************************************************************************)
(* The steps of the two links to a node.                                   *)
(***************************************************************************)
LEMMA AnswerIs ==
  ASSUME NEW q, NEW v, NEW f, NEW g, NEW r, NEW ls, NEW rd, InStep(v, q, f, r, ls, rd), g => f
  PROVE  InStep(v, q, g, r, ls, rd)
BY DEF InStep, FirstLast, Awaited

\* A step leads to what a lemma about its values says.
LEMMA LinkedAfter ==
  ASSUME NEW q, NEW v, NEW f, NEW r, NEW ls, NEW rd, InStep(v, q, f, r, ls, rd),
         Transfer' = v, Path' = q, Answered' => f, rx' = r, lens' = ls, received' = rd
  PROVE  Linked'
<1>1. InStep(v, q, Answered', r, ls, rd)
  BY AnswerIs
<1> QED BY <1>1, Zenon DEF Linked

LEMMA LinkFacts ==
  ASSUME Shape, LinkInv, link # "response"
  PROVE  /\ toR \in Seq(Data(link)) /\ Path \in Seq(Data(link))
         /\ InStep(Transfer, Path, Answered, rx, lens, received)
         /\ Transfer.offset \in Nat /\ Transfer.inBlock \in Nat
         /\ rx \in Receivers /\ rx.buf \in Seq(Chunks)
         /\ rx.inBlock \in Nat /\ rx.declared \in Nat
         /\ lens \in Seq(Nat \ {0}) /\ received \in Seq(Seq(Chunks))
         /\ Path = toR \/ (link = "nodes" /\ tx.frame \in Data(link) /\ Path = Append(toR, tx.frame))
<1>1. toR \in Seq(Data(link)) /\ InStep(Transfer, Path, Answered, rx, lens, received)
  BY DEF LinkInv, Linked
<1>2. Transfer.offset \in Nat /\ Transfer.inBlock \in Nat
  <2>1. tx.offset \in Nat /\ tx.inBlock \in Nat
    BY DEF Shape, TxShape, Senders
  <2>2. send.sent + 1 \in Nat /\ send.inBlock \in Nat
    BY DEF Shape, SendShape, SendCalls
  <2> QED BY <2>1, <2>2 DEF Transfer
<1>3. /\ rx \in Receivers /\ rx.buf \in Seq(Chunks)
      /\ rx.inBlock \in Nat /\ rx.declared \in Nat
  BY DEF Shape, RxShape, Receivers
<1>4. lens \in Seq(Nat \ {0}) /\ received \in Seq(Seq(Chunks))
  BY DEF Shape, AppShape
<1>5. Path = toR \/ (link = "nodes" /\ tx.frame \in Data(link) /\ Path = Append(toR, tx.frame))
  <2>1. CASE link = "request" \/ ~Pending
    BY <2>1 DEF Path
  <2>2. CASE link = "nodes" /\ Pending
    <3>1. Path = Append(toR, tx.frame)
      BY <2>2 DEF Path
    <3>2. tx.frame \in Data(link)
      <4>1. CASE tx.waitEnqueue
        BY <4>1 DEF Shape, TxShape
      <4>2. CASE ~tx.waitEnqueue
        <5>1. PICK i \in Own : boxS[i] = tx.frame
          BY <2>2, <4>2 DEF Pending, LinkInv, NodeSender
        <5>2. boxS[i] \in OrApp(Data(link)) /\ boxS[i].type # "app"
          BY <5>1 DEF Own, Shape, BusShape
        <5>3. boxS[i] # AppFrame
          BY <5>2 DEF AppFrame
        <5> QED BY <5>1, <5>2, <5>3 DEF OrApp
      <4> QED BY <4>1, <4>2
    <3> QED BY <2>2, <3>1, <3>2
  <2> QED BY <2>1, <2>2 DEF Shape
<1>6. Path \in Seq(Data(link))
  <2>1. \A S : \A s \in Seq(S), e \in S : Append(s, e) \in Seq(S)
    OBVIOUS
  <2> QED BY <1>1, <1>5, <2>1, Zenon
<1> QED BY <1>1, <1>2, <1>3, <1>4, <1>5, <1>6

\* A step of the receiver's node that takes no frame.
LEMMA PathKept ==
  ASSUME UNCHANGED <<tx, boxS, toR, send, link>>
  PROVE  Transfer' = Transfer /\ Path' = Path
BY DEF Transfer, Path, Pending, Own, BlockFull

\* What is left of a path of which the first frame is taken.
LEMMA TailOfAppend ==
  ASSUME NEW F, NEW s \in Seq(F), NEW e \in F, s # <<>>
  PROVE  /\ Append(s, e) # <<>> /\ Head(Append(s, e)) = Head(s)
         /\ Tail(Append(s, e)) = Append(Tail(s), e)
<1>1. Len(s) \in Nat /\ Len(s) > 0
  OBVIOUS
<1>2. Append(s, e) # <<>> /\ Head(Append(s, e)) = Head(s)
  BY <1>1
<1> DEFINE a == Tail(Append(s, e))
           b == Append(Tail(s), e)
<1>3. a \in Seq(F) /\ b \in Seq(F) /\ Len(a) = Len(s) /\ Len(b) = Len(s)
  BY <1>1
<1>4. \A i \in 1..Len(s) : a[i] = b[i]
  BY <1>1
<1> HIDE DEF a, b
<1>5. a = b
  BY <1>3, <1>4, SeqEqual
<1> QED BY <1>2, <1>5 DEF a, b

LEMMA FrameTaken ==
  ASSUME Shape, LinkInv, link # "response", NEW type, RxTake(type), UNCHANGED <<send, link>>
  PROVE  /\ Path # <<>> /\ Head(Path).type = type /\ Head(Path) = Head(toR)
         /\ Path' = Tail(Path) /\ Transfer' = Transfer
         /\ toR' \in Seq(Data(link)) /\ Head(Path) \in Data(link)
         /\ UNCHANGED <<lens, received>>
<1>1. toR # <<>> /\ Head(toR).type = type /\ toR' = Tail(toR)
      /\ UNCHANGED <<tx, boxS, toS, lens, received, send, link>>
  BY DEF RxTake, app
<1>2. toR \in Seq(Data(link))
  BY LinkFacts
<1>3. toR' \in Seq(Data(link)) /\ Head(toR) \in Data(link)
  BY <1>1, <1>2
<1>4. Transfer' = Transfer
  BY <1>1 DEF Transfer, BlockFull
<1>5. UNCHANGED <<Pending, tx, link>>
  BY <1>1 DEF Pending, Own
<1>6. CASE link = "request" \/ ~Pending
  BY <1>1, <1>3, <1>4, <1>5, <1>6 DEF Path
<1>7. CASE link # "request" /\ Pending
  <2>1. Path = Append(toR, tx.frame) /\ Path' = Append(Tail(toR), tx.frame)
    BY <1>1, <1>5, <1>7 DEF Path
  <2>2. tx.frame \in Data(link)
    <3>1. Append(toR, tx.frame) # toR
      BY <1>2
    <3> QED BY <2>1, <3>1, LinkFacts
  <2>3. /\ Path # <<>> /\ Head(Path) = Head(toR)
        /\ Tail(Path) = Append(Tail(toR), tx.frame)
    BY <1>1, <1>2, <2>1, <2>2, TailOfAppend
  <2> QED BY <1>1, <1>3, <1>4, <2>1, <2>3
<1> QED BY <1>6, <1>7

\* What a sender waits for does not come from nowhere.
LEMMA SenderUnmoved ==
  ASSUME LinkInv, link # "response", UNCHANGED <<tx, boxS, send, link, lens>>,
         Path = <<>> /\ ~Answered => Path' = <<>> /\ ~Answered'
  PROVE  IF link = "nodes" THEN NodeSender' ELSE PcSender'
BY DEF LinkInv, NodeSender, PcSender, Own

\* The answer stays where it is, or goes.
LEMMA AnswerKept ==
  ASSUME OneAnswer, UNCHANGED <<boxR, toS>>,
         rx'.fcWait => rx.fcWait /\ rx'.fc = rx.fc
  PROVE  OneAnswer' /\ (Answered' => Answered)
BY DEF OneAnswer, Answered, FcAt

\* isotp_send_fc: the only answer.
LEMMA FcSent ==
  ASSUME OneAnswer, ~Answered, boxR \in Seq(OrApp(Fcs)), NEW t \in Receivers,
         NEW status \in {"CTS", "OVERFLOW"}, SendFc(t, status), UNCHANGED toS
  PROVE  OneAnswer' /\ SameTransfer(t, rx')
<1>1. FC(status) \in {FC("CTS"), FC("OVERFLOW")} /\ FC(status).type = "FC"
  BY DEF FC
<1>2. FcAt(boxR) = {} /\ FcAt(toS) = {}
  BY DEF Answered
<1>3. CASE Len(boxR) < Mailboxes
  <2>1. boxR' = Append(boxR, FC(status))
    BY <1>3 DEF SendFc
  <2>2. rx' = [t EXCEPT !.fc = FC(status), !.fcWait = FALSE, !.fcPending = TRUE, !.arLeft = NAr]
    BY <1>3 DEF SendFc
  <2>3. ~rx'.fcWait /\ SameTransfer(t, rx')
    BY <2>2 DEF Receivers, SameTransfer
  <2>4. /\ Len(boxR') = Len(boxR) + 1 /\ Len(boxR) \in Nat /\ boxR'[Len(boxR) + 1] = FC(status)
        /\ \A i \in 1..Len(boxR) : boxR'[i] = boxR[i]
        /\ \A i \in 1..Len(boxR') : i \in 1..Len(boxR) \/ i = Len(boxR) + 1
    BY <2>1
  <2>5. FcAt(boxR') = {Len(boxR) + 1}
    BY <1>1, <1>2, <2>4 DEF FcAt
  <2>6. FcAt(toS') = {}
    BY <1>2
  <2> QED BY <1>1, <2>3, <2>4, <2>5, <2>6 DEF OneAnswer
<1>4. CASE ~(Len(boxR) < Mailboxes)
  <2>1. boxR' = boxR /\ rx' = [t EXCEPT !.fc = FC(status), !.fcWait = TRUE, !.arLeft = NAr]
    BY <1>4 DEF SendFc
  <2>2. rx'.fc = FC(status) /\ SameTransfer(t, rx')
    BY <2>1 DEF Receivers, SameTransfer
  <2> QED BY <1>1, <1>2, <2>1, <2>2 DEF OneAnswer
<1> QED BY <1>3, <1>4

\* Steps of the receiver's node.
LEMMA ReceiverLinked ==
  ASSUME LinkInv, link # "response", UNCHANGED <<tx, boxS, send, link, lens>>,
         Linked', OneAnswer', toR' \in Seq(Data(link)),
         Path = <<>> /\ ~Answered => Path' = <<>> /\ ~Answered'
  PROVE  LinkInv'
<1>1. IF link = "nodes" THEN NodeSender' ELSE PcSender'
  BY SenderUnmoved
<1> QED BY <1>1 DEF LinkInv

LEMMA FrameLinked ==
  ASSUME Shape, LinkInv, link # "response", NEW type, RxTake(type), UNCHANGED <<send, link>>,
         InStep(Transfer, Tail(Path), Answered', rx', lens, received), OneAnswer'
  PROVE  LinkInv'
<1>1. /\ Path # <<>> /\ Path' = Tail(Path) /\ Transfer' = Transfer
      /\ toR' \in Seq(Data(link)) /\ UNCHANGED <<lens, received>>
  BY FrameTaken
<1>2. Linked'
  BY <1>1, LinkedAfter
<1>3. UNCHANGED <<tx, boxS, lens>>
  BY DEF RxTake, app
<1> QED BY <1>1, <1>2, <1>3, ReceiverLinked

LEMMA SingleLinked ==
  ASSUME Shape, LinkInv, link # "response", RxOnSF, UNCHANGED <<send, link>>
  PROVE  LinkInv'
<1>1. RxTake("SF") /\ UNCHANGED <<boxR, toS>>
  BY DEF RxOnSF, RxTake
<1>2. /\ Path # <<>> /\ Head(Path).type = "SF" /\ Head(Path) = Head(toR)
      /\ Path \in Seq(Data(link))
  BY <1>1, FrameTaken, LinkFacts
<1>3. InStep(Transfer, Path, Answered, rx, lens, received) /\ rx \in Receivers
  BY LinkFacts
<1>4. InStep(Transfer, Tail(Path), Answered, rx', lens, received)
      /\ rx'.fcWait = rx.fcWait /\ rx'.fc = rx.fc
  <2>1. CASE UNCHANGED rx
    BY <1>2, <1>3, <2>1, FrameSkipped
  <2>2. CASE ~RxBusy /\ rx' = [rx EXCEPT !.ready = TRUE, !.buf = <<Head(toR).data>>]
    <3>1. /\ ~rx.inProgress /\ ~rx'.inProgress /\ rx'.buf = <<Head(Path).data>>
          /\ rx'.fcWait = rx.fcWait /\ rx'.fc = rx.fc
      BY <1>2, <1>3, <2>2 DEF RxBusy, Receivers
    <3> QED BY <1>2, <1>3, <3>1, SingleTaken
  <2> QED BY <2>1, <2>2 DEF RxOnSF
<1>5. OneAnswer' /\ (Answered' => Answered)
  BY <1>1, <1>4, AnswerKept DEF LinkInv
<1>6. InStep(Transfer, Tail(Path), Answered', rx', lens, received)
  BY <1>4, <1>5, AnswerIs
<1> QED BY <1>1, <1>5, <1>6, FrameLinked

LEMMA ResetTransfer ==
  ASSUME rx \in Receivers, rx' = ResetRx(rx)
  PROVE  ~rx'.inProgress /\ ~rx'.ready /\ ~rx'.fcWait
BY DEF ResetRx, Receivers

LEMMA FirstLinked ==
  ASSUME Shape, LinkInv, link # "response", RxOnFF, UNCHANGED <<send, link>>, BlockSize > 0
  PROVE  LinkInv'
<1>1. RxTake("FF") /\ UNCHANGED toS
  BY DEF RxOnFF, RxTake
<1>2. /\ Path # <<>> /\ Head(Path).type = "FF" /\ Head(Path) = Head(toR)
      /\ Path \in Seq(Data(link)) /\ Head(Path) \in Data(link)
  BY <1>1, FrameTaken, LinkFacts
<1>3. /\ InStep(Transfer, Path, Answered, rx, lens, received) /\ rx \in Receivers
      /\ Transfer.offset \in Nat /\ Transfer.inBlock \in Nat
  BY LinkFacts
<1>4. InStep(Transfer, Tail(Path), Answered, rx, lens, received) /\ ~Answered
  BY <1>2, <1>3, FrameSkipped
<1>5. OneAnswer /\ boxR \in Seq(OrApp(Fcs))
  BY DEF LinkInv, Shape, BusShape
<1>6. CASE UNCHANGED <<rx, boxR>>
  <2>1. OneAnswer' /\ (Answered' => Answered)
    BY <1>1, <1>5, <1>6, AnswerKept
  <2>2. InStep(Transfer, Tail(Path), Answered', rx, lens, received)
    BY <1>4, <2>1, AnswerIs
  <2> QED BY <1>1, <1>6, <2>1, <2>2, FrameLinked
<1>7. CASE rx' = ResetRx(rx) /\ UNCHANGED boxR
  <2>1. ~rx'.inProgress /\ ~rx'.ready /\ ~rx'.fcWait
    BY <1>3, <1>7, ResetTransfer
  <2>2. OneAnswer' /\ (Answered' => Answered)
    BY <1>1, <1>5, <1>7, <2>1, AnswerKept
  <2>3. InStep(Transfer, Tail(Path), Answered, rx', lens, received)
    BY <1>4, <2>1, TransferDropped
  <2>4. InStep(Transfer, Tail(Path), Answered', rx', lens, received)
    BY <2>2, <2>3, AnswerIs
  <2> QED BY <1>1, <2>2, <2>4, FrameLinked
<1>8. ASSUME NEW t \in Receivers, NEW status \in {"CTS", "OVERFLOW"}, SendFc(t, status),
             InStep(Transfer, Tail(Path), TRUE, t, lens, received)
      PROVE  LinkInv'
  <2>1. OneAnswer' /\ SameTransfer(t, rx')
    BY <1>1, <1>4, <1>5, <1>8, FcSent
  <2>2. InStep(Transfer, Tail(Path), TRUE, rx', lens, received)
    BY <1>8, <2>1, TransferUntouched
  <2>3. InStep(Transfer, Tail(Path), Answered', rx', lens, received)
    BY <2>2, AnswerIs
  <2> QED BY <1>1, <2>1, <2>3, FrameLinked
<1>9. CASE ~RxBusy /\ SendFc(rx, "OVERFLOW")
  <2>1. InStep(Transfer, Tail(Path), TRUE, rx, lens, received)
    BY <1>2, <1>3, <1>9, FirstRefused DEF RxBusy
  <2> QED BY <1>3, <1>8, <1>9, <2>1
<1> DEFINE f == Head(toR)
           r == [rx EXCEPT !.inProgress = TRUE, !.declared = f.len, !.buf = <<f.data>>,
                           !.sn = 1, !.inBlock = 0]
<1>10. CASE ~RxBusy /\ f.len <= Capacity /\ SendFc(r, "CTS")
  <2>1. f.data \in Chunks /\ f.len \in Nat
    BY <1>2, DataFields, LensPositive
  <2>2. f.len \in 0..Capacity /\ <<f.data>> \in Seq(Chunks)
    BY <1>10, <2>1, IsotpAssumption
  <2>3. PICK n \in 0..Capacity, b \in Seq(Chunks) :
          /\ n = f.len /\ b = <<f.data>>
          /\ r = [rx EXCEPT !.inProgress = TRUE, !.declared = n, !.buf = b, !.sn = 1,
                            !.inBlock = 0]
    BY <2>2, Zenon
  <2> HIDE DEF r
  <2>4. /\ r \in Receivers /\ r.ready = rx.ready /\ r.buf = b
        /\ r.declared = n /\ r.sn = 1 /\ r.inBlock = 0
    BY <1>3, <2>3, Ranges DEF Receivers
  <2>5. ~rx.inProgress /\ ~r.ready /\ r.buf = <<Head(Path).data>> /\ r.declared = Head(Path).len
    BY <1>2, <1>10, <2>3, <2>4 DEF RxBusy
  <2>6. InStep(Transfer, Tail(Path), TRUE, r, lens, received)
    BY <1>2, <1>3, <2>4, <2>5, FirstTaken
  <2> QED BY <1>8, <1>10, <2>4, <2>6
<1> QED BY <1>6, <1>7, <1>9, <1>10 DEF RxOnFF

LEMMA ConsecutiveLinked ==
  ASSUME Shape, LinkInv, link # "response", RxOnCF, UNCHANGED <<send, link>>,
         BlockSize > 0, BlockSize <= SnMod
  PROVE  LinkInv'
<1>1. RxTake("CF") /\ UNCHANGED toS
  BY DEF RxOnCF, RxTake
<1>2. /\ Path # <<>> /\ Head(Path).type = "CF" /\ Head(Path) = Head(toR)
      /\ Path \in Seq(Data(link)) /\ Head(Path) \in Data(link)
  BY <1>1, FrameTaken, LinkFacts
<1>3. /\ InStep(Transfer, Path, Answered, rx, lens, received) /\ rx \in Receivers
      /\ Transfer.offset \in Nat /\ Transfer.inBlock \in Nat
      /\ rx.buf \in Seq(Chunks) /\ rx.inBlock \in Nat /\ rx.declared \in Nat
  BY LinkFacts
<1>4. InStep(Transfer, Tail(Path), Answered, rx, lens, received) /\ ~Answered
  BY <1>2, <1>3, FrameSkipped
<1>5. OneAnswer /\ boxR \in Seq(OrApp(Fcs))
  BY DEF LinkInv, Shape, BusShape
<1>6. ASSUME InStep(Transfer, Tail(Path), Answered, rx', lens, received),
             UNCHANGED boxR, rx'.fcWait => rx.fcWait /\ rx'.fc = rx.fc
      PROVE  LinkInv'
  <2>1. OneAnswer' /\ (Answered' => Answered)
    BY <1>1, <1>5, <1>6, AnswerKept
  <2>2. InStep(Transfer, Tail(Path), Answered', rx', lens, received)
    BY <1>6, <2>1, AnswerIs
  <2> QED BY <1>1, <2>1, <2>2, FrameLinked
<1> DEFINE f == Head(toR)
           r == [rx EXCEPT !.buf = Append(@, f.data), !.sn = NextSn(@),
                           !.inBlock = @ + 1, !.crLeft = NCr]
           whole == [r EXCEPT !.inProgress = FALSE, !.ready = TRUE]
           block == [r EXCEPT !.inBlock = 0]
           complete == Len(r.buf) >= rx.declared
           blockEnd == BlockSize > 0 /\ r.inBlock >= BlockSize
<1>7. f.data \in Chunks /\ f.sn \in Sns /\ f.data = Head(Path).data /\ f.sn = Head(Path).sn
  BY <1>2, DataFields
<1>8. PICK b \in Seq(Chunks), s \in Sns, i \in Nat, c \in 0..NCr :
        /\ b = Append(rx.buf, f.data) /\ s = NextSn(rx.sn) /\ i = rx.inBlock + 1 /\ c = NCr
        /\ r = [rx EXCEPT !.buf = b, !.sn = s, !.inBlock = i, !.crLeft = c]
  <2>1. Append(rx.buf, f.data) \in Seq(Chunks) /\ rx.inBlock + 1 \in Nat
    BY <1>3, <1>7
  <2>2. NextSn(rx.sn) \in Sns
    BY <1>3, NextSnType DEF Receivers
  <2> QED BY <2>1, <2>2, Ranges, Zenon
<1>9. /\ r \in Receivers /\ r.buf = b /\ r.sn = s /\ r.inBlock = i
      /\ r.declared = rx.declared /\ r.inProgress = rx.inProgress /\ r.ready = rx.ready
      /\ r.fcWait = rx.fcWait /\ r.fc = rx.fc
  BY <1>3, <1>8 DEF Receivers
<1>10. CASE ~rx.inProgress /\ UNCHANGED <<rx, boxR>>
  BY <1>4, <1>6, <1>10
<1>11. CASE rx.inProgress /\ ~InSequence(f) /\ rx' = ResetRx(rx) /\ UNCHANGED boxR
  <2>1. ~rx'.inProgress /\ ~rx'.ready /\ ~rx'.fcWait
    BY <1>3, <1>11, ResetTransfer
  <2>2. InStep(Transfer, Tail(Path), Answered, rx', lens, received)
    BY <1>4, <2>1, TransferDropped
  <2> QED BY <1>6, <1>11, <2>1, <2>2
<1> HIDE DEF r
<1>12. ASSUME rx.inProgress
       PROVE  ~rx.ready
  BY <1>3, <1>12 DEF InStep, Assembled
<1>13. CASE rx.inProgress /\ InSequence(f) /\ complete /\ rx' = whole /\ UNCHANGED boxR
  <2>1. /\ rx'.buf = b /\ ~rx'.inProgress /\ rx'.ready
        /\ rx'.fcWait = rx.fcWait /\ rx'.fc = rx.fc
    BY <1>9, <1>13 DEF Receivers
  <2>2. /\ rx'.buf = Append(rx.buf, Head(Path).data) /\ Head(Path).data \in Chunks
        /\ Head(Path).sn = rx.sn /\ Len(rx'.buf) >= rx.declared
    BY <1>7, <1>8, <1>9, <1>13, <2>1 DEF InSequence
  <2>3. InStep(Transfer, Tail(Path), Answered, rx', lens, received)
    BY <1>2, <1>3, <1>13, <2>1, <2>2, MessageCompleted
  <2> QED BY <1>6, <1>13, <2>1, <2>3
<1>14. CASE /\ rx.inProgress /\ InSequence(f) /\ ~complete /\ ~blockEnd
            /\ rx' = r /\ UNCHANGED boxR
  <2>1. /\ rx'.buf = Append(rx.buf, Head(Path).data) /\ Head(Path).data \in Chunks
        /\ Head(Path).sn = rx.sn /\ rx'.sn = NextSn(rx.sn) /\ rx'.inBlock = rx.inBlock + 1
    BY <1>7, <1>8, <1>9, <1>14 DEF InSequence
  <2>2. Len(rx'.buf) < rx.declared /\ rx'.inBlock < BlockSize
    <3>1. Len(b) \in Nat
      OBVIOUS
    <3>2. rx'.buf = b /\ rx'.inBlock = i
      BY <1>9, <1>14
    <3>3. Len(b) < rx.declared
      BY <1>3, <1>9, <1>14, <3>1
    <3>4. i < BlockSize
      BY <1>8, <1>9, <1>14, IsotpAssumption, SMTT(20)
    <3> QED BY <3>2, <3>3, <3>4, Zenon
  <2>3. /\ rx'.inProgress /\ ~rx'.ready /\ rx'.declared = rx.declared
        /\ rx'.fcWait = rx.fcWait /\ rx'.fc = rx.fc
    BY <1>9, <1>12, <1>14
  <2>4. InStep(Transfer, Tail(Path), Answered, rx', lens, received)
    BY <1>2, <1>3, <1>14, <2>1, <2>2, <2>3, ChunkTaken
  <2> QED BY <1>6, <1>14, <2>3, <2>4
<1>15. CASE /\ rx.inProgress /\ InSequence(f) /\ ~complete /\ blockEnd
            /\ SendFc(block, "CTS")
  <2>1. /\ block \in Receivers /\ block.buf = b /\ block.sn = s /\ block.inBlock = 0
        /\ block.declared = rx.declared /\ block.inProgress = rx.inProgress
        /\ block.ready = rx.ready
    BY <1>9 DEF Receivers
  <2> HIDE DEF block
  <2>2. /\ block.buf = Append(rx.buf, Head(Path).data) /\ Head(Path).data \in Chunks
        /\ Head(Path).sn = rx.sn /\ block.sn = NextSn(rx.sn)
    BY <1>7, <1>8, <1>15, <2>1 DEF InSequence
  <2>3. Len(block.buf) < rx.declared /\ rx.inBlock + 1 >= BlockSize
    <3>1. Len(b) \in Nat
      OBVIOUS
    <3>2. Len(block.buf) < rx.declared
      BY <1>3, <1>9, <1>15, <2>1, <3>1
    <3>3. rx.inBlock + 1 >= BlockSize
      BY <1>8, <1>9, <1>15
    <3> QED BY <3>2, <3>3
  <2>4. block.inProgress /\ ~block.ready
    BY <1>12, <1>15, <2>1
  <2>5. InStep(Transfer, Tail(Path), TRUE, block, lens, received)
    BY <1>2, <1>3, <1>15, <2>1, <2>2, <2>3, <2>4, BlockCompleted
  <2>6. OneAnswer' /\ SameTransfer(block, rx')
    BY <1>1, <1>4, <1>5, <1>15, <2>1, FcSent
  <2>7. InStep(Transfer, Tail(Path), TRUE, rx', lens, received)
    BY <2>5, <2>6, TransferUntouched
  <2>8. InStep(Transfer, Tail(Path), Answered', rx', lens, received)
    BY <2>7, AnswerIs
  <2> QED BY <1>1, <2>6, <2>8, FrameLinked
<1> QED BY <1>10, <1>11, <1>13, <1>14, <1>15 DEF RxOnCF, r

\* Steps that take no frame.
LEMMA PathLinked ==
  ASSUME Shape, LinkInv, link # "response", UNCHANGED <<tx, boxS, toR, send, link, lens>>,
         NEW f, InStep(Transfer, Path, f, rx', lens, received'), Answered' => f,
         Answered' => Answered, OneAnswer'
  PROVE  LinkInv'
<1>1. Transfer' = Transfer /\ Path' = Path
  BY PathKept
<1>2. Linked'
  BY <1>1, LinkedAfter
<1>3. toR' \in Seq(Data(link))
  BY LinkFacts
<1> QED BY <1>1, <1>2, <1>3, ReceiverLinked

LEMMA RxPollLinked ==
  ASSUME Shape, LinkInv, link # "response", RxPoll, UNCHANGED <<send, link>>
  PROVE  LinkInv'
<1>1. UNCHANGED <<tx, boxS, toR, toS, lens, received>>
  BY DEF RxPoll, app
<1>2. InStep(Transfer, Path, Answered, rx, lens, received) /\ rx \in Receivers
  BY LinkFacts
<1>3. OneAnswer /\ boxR \in Seq(OrApp(Fcs))
  BY DEF LinkInv, Shape, BusShape
<1>4. ASSUME SameTransfer(rx, rx') \/ (~rx'.inProgress /\ rx'.ready = rx.ready /\ rx'.buf = rx.buf),
             OneAnswer' /\ (Answered' => Answered)
      PROVE  LinkInv'
  <2>1. InStep(Transfer, Path, Answered, rx', lens, received)
    BY <1>2, <1>4, TransferUntouched, TransferDropped
  <2> QED BY <1>1, <1>4, <2>1, PathLinked
<1>5. CASE /\ rx.fcWait /\ boxR' = Append(boxR, rx.fc)
           /\ rx' = [rx EXCEPT !.fcWait = FALSE, !.fcPending = TRUE, !.arLeft = NAr]
  <2>1. SameTransfer(rx, rx') /\ ~rx'.fcWait
    BY <1>2, <1>5 DEF SameTransfer, Receivers
  <2>2. Answered /\ FcAt(boxR) = {} /\ FcAt(toS) = {} /\ rx.fc \in {FC("CTS"), FC("OVERFLOW")}
    BY <1>3, <1>5 DEF OneAnswer, Answered
  <2>3. /\ Len(boxR') = Len(boxR) + 1 /\ Len(boxR) \in Nat /\ boxR'[Len(boxR) + 1] = rx.fc
        /\ \A i \in 1..Len(boxR) : boxR'[i] = boxR[i]
        /\ \A i \in 1..Len(boxR') : i \in 1..Len(boxR) \/ i = Len(boxR) + 1
    <3>1. rx.fc \in OrApp(Fcs)
      BY <1>5 DEF Shape, RxShape, OrApp
    <3> QED BY ONLY <1>3, <1>5, <3>1
  <2>4. FcAt(boxR') = {Len(boxR) + 1}
    BY <2>2, <2>3 DEF FcAt, FC
  <2>5. FcAt(toS') = {}
    BY <1>1, <2>2
  <2>6. OneAnswer'
    BY <1>1, <1>3, <2>1, <2>2, <2>3, <2>4, <2>5 DEF OneAnswer
  <2> QED BY <1>4, <2>1, <2>2, <2>6
<1>6. ASSUME UNCHANGED boxR, rx'.fcWait => rx.fcWait, rx'.fc = rx.fc,
             SameTransfer(rx, rx') \/ (~rx'.inProgress /\ rx'.ready = rx.ready /\ rx'.buf = rx.buf)
      PROVE  LinkInv'
  <2>1. OneAnswer' /\ (Answered' => Answered)
    BY <1>1, <1>3, <1>6, AnswerKept
  <2> QED BY <1>4, <1>6, <2>1
<1>7. ASSUME UNCHANGED boxR,
             \/ rx' = [rx EXCEPT !.fcWait = FALSE, !.inProgress = FALSE]
             \/ rx' = [rx EXCEPT !.inProgress = FALSE, !.fcPending = FALSE]
             \/ rx' = [rx EXCEPT !.inProgress = FALSE]
      PROVE  LinkInv'
  <2>1. /\ ~rx'.inProgress /\ rx'.ready = rx.ready /\ rx'.buf = rx.buf
        /\ rx'.fc = rx.fc /\ (rx'.fcWait => rx.fcWait)
    BY <1>2, <1>7 DEF Receivers
  <2> QED BY <1>6, <1>7, <2>1
<1>8. CASE UNCHANGED boxR /\ rx' = [rx EXCEPT !.fcPending = FALSE, !.crLeft = NCr]
  <2>1. SameTransfer(rx, rx') /\ rx'.fc = rx.fc /\ rx'.fcWait = rx.fcWait
    BY <1>2, <1>8 DEF Receivers, SameTransfer
  <2> QED BY <1>6, <1>8, <2>1
<1> QED BY <1>5, <1>7, <1>8 DEF RxPoll

\* The application reads the next message, whole and in order.
LEMMA RxReadLinked ==
  ASSUME Shape, LinkInv, link # "response", RxRead, UNCHANGED <<send, link>>
  PROVE  /\ LinkInv' /\ received' = Append(received, rx.buf)
         /\ rx.buf = Message(RxMsg(rx), lens[RxMsg(rx)]) /\ RxMsg(rx) \in 1..Len(lens)
         /\ \A i \in 1..Len(received) : NumberRead(received, i) < RxMsg(rx)
<1>1. /\ rx.ready /\ received' = Append(received, rx.buf)
      /\ rx' = [rx EXCEPT !.ready = FALSE]
      /\ UNCHANGED <<tx, boxS, boxR, toR, toS, lens>>
  BY DEF RxRead, bus
<1>2. /\ InStep(Transfer, Path, Answered, rx, lens, received) /\ rx \in Receivers
      /\ lens \in Seq(Nat \ {0}) /\ received \in Seq(Seq(Chunks)) /\ rx.buf \in Seq(Chunks)
  BY LinkFacts
<1>3. ~rx'.ready /\ rx'.inProgress = rx.inProgress /\ rx'.fcWait = rx.fcWait /\ rx'.fc = rx.fc
  BY <1>1, <1>2 DEF Receivers
<1>4. ~rx'.inProgress
  BY <1>1, <1>2, <1>3 DEF InStep, Assembled
<1>5. /\ InStep(Transfer, Path, Answered, rx', lens, Append(received, rx.buf))
      /\ rx.buf = Message(RxMsg(rx), lens[RxMsg(rx)]) /\ RxMsg(rx) \in 1..Len(lens)
      /\ \A i \in 1..Len(received) : NumberRead(received, i) < RxMsg(rx)
  BY <1>1, <1>2, <1>3, <1>4, MessageRead
<1>6. OneAnswer' /\ (Answered' => Answered)
  BY <1>1, <1>3, AnswerKept DEF LinkInv
<1>7. LinkInv'
  BY <1>1, <1>5, <1>6, PathLinked
<1> QED BY <1>1, <1>5, <1>7

\* Steps that leave the endpoints alone.
LEMMA EndpointsKept ==
  ASSUME Shape, LinkInv, link # "response",
         UNCHANGED <<tx, rx, boxS, toR, send, link, lens, received>>,
         Answered' => Answered, OneAnswer'
  PROVE  LinkInv'
<1>1. InStep(Transfer, Path, Answered, rx', lens, received')
  BY LinkFacts
<1> QED BY <1>1, PathLinked

\* Where a frame was before frame i left its mailbox.
Was(i, j) == IF j < i THEN j ELSE j + 1

LEMMA OthersRemain ==
  ASSUME NEW S, NEW s \in Seq(S), NEW i \in 1..Len(s)
  PROVE  /\ Len(Remove(s, i)) = Len(s) - 1 /\ Len(s) \in Nat
         /\ \A j \in 1..Len(Remove(s, i)) :
              Was(i, j) \in 1..Len(s) \ {i} /\ Remove(s, i)[j] = s[Was(i, j)]
         /\ \A j, k \in 1..Len(Remove(s, i)) : Was(i, j) = Was(i, k) => j = k
<1> DEFINE a == Remove(s, i)
<1>1. /\ Len(a) = Len(s) - 1
      /\ \A j \in 1..(Len(s) - 1) : /\ j < i => a[j] = s[j]
                                    /\ j >= i => a[j] = s[j + 1]
  BY RemoveIs
<1>2. Len(s) \in Nat /\ i \in Nat /\ 1 <= i /\ i <= Len(s)
  OBVIOUS
<1> HIDE DEF a
<1>3. ASSUME NEW j \in 1..Len(a)
      PROVE  Was(i, j) \in 1..Len(s) \ {i} /\ a[j] = s[Was(i, j)]
  BY <1>1, <1>2, <1>3 DEF Was
<1>4. ASSUME NEW j \in 1..Len(a), NEW k \in 1..Len(a), Was(i, j) = Was(i, k)
      PROVE  j = k
  BY <1>1, <1>2, <1>4 DEF Was
<1> QED BY <1>1, <1>2, <1>3, <1>4 DEF a

LEMMA OtherRemains ==
  ASSUME NEW S, NEW s \in Seq(S), NEW i \in 1..Len(s), NEW k \in 1..Len(s), k # i
  PROVE  \E j \in 1..Len(Remove(s, i)) : Was(i, j) = k
<1>1. Len(Remove(s, i)) = Len(s) - 1 /\ Len(s) \in Nat
  BY OthersRemain
<1>2. CASE k < i
  <2>1. k \in 1..Len(Remove(s, i)) /\ Was(i, k) = k
    BY <1>1, <1>2 DEF Was
  <2> QED BY <2>1
<1>3. CASE k > i
  <2>1. k - 1 \in 1..Len(Remove(s, i)) /\ Was(i, k - 1) = k
    BY <1>1, <1>3 DEF Was
  <2> QED BY <2>1
<1> QED BY <1>2, <1>3

LEMMA TransmitRLinked ==
  ASSUME Shape, LinkInv, link # "response", TransmitsR, UNCHANGED <<send, link>>
  PROVE  LinkInv'
<1>1. PICK i \in 1..Len(boxR) : TransmitR(i)
  BY DEF TransmitsR
<1> DEFINE f == boxR[i]
<1>2. /\ boxR' = Remove(boxR, i) /\ UNCHANGED <<tx, rx, boxS, toR, lens, received>>
      /\ \/ f.type = "app" /\ UNCHANGED toS
         \/ f.type # "app" /\ toS' \in {toS, Append(toS, f)}
  BY <1>1 DEF TransmitR, app
<1>3. OneAnswer /\ boxR \in Seq(OrApp(Fcs)) /\ toS \in Seq(OrApp(Fcs))
  BY DEF LinkInv, Shape, BusShape
<1>4. f \in OrApp(Fcs) /\ (f.type # "app" => f.type = "FC")
  <2>1. f \in OrApp(Fcs)
    BY <1>3
  <2>2. \A g \in OrApp(Fcs) : g.type # "app" => g.type = "FC"
    BY DEF OrApp, Fcs, AppFrame
  <2> QED BY <2>1, <2>2
<1>5. /\ \A j \in 1..Len(boxR') :
           Was(i, j) \in 1..Len(boxR) \ {i} /\ boxR'[j] = boxR[Was(i, j)]
      /\ \A j, k \in 1..Len(boxR') : Was(i, j) = Was(i, k) => j = k
  <2>1. /\ \A j \in 1..Len(Remove(boxR, i)) :
             Was(i, j) \in 1..Len(boxR) \ {i} /\ Remove(boxR, i)[j] = boxR[Was(i, j)]
        /\ \A j, k \in 1..Len(Remove(boxR, i)) : Was(i, j) = Was(i, k) => j = k
    <3>1. boxR \in Seq(OrApp(Fcs)) /\ i \in 1..Len(boxR)
      BY <1>3
    <3> DEFINE S == OrApp(Fcs)
    <3>2. boxR \in Seq(S)
      BY <3>1
    <3> HIDE DEF S
    <3>3. \A j \in 1..Len(Remove(boxR, i)) :
             Was(i, j) \in 1..Len(boxR) \ {i} /\ Remove(boxR, i)[j] = boxR[Was(i, j)]
      BY ONLY <3>1, <3>2, OthersRemain
    <3>4. \A j, k \in 1..Len(Remove(boxR, i)) : Was(i, j) = Was(i, k) => j = k
      BY ONLY <3>1, <3>2, OthersRemain
    <3> QED BY <3>3, <3>4, Zenon
  <2> QED BY <1>2, <2>1
<1>6. \A j \in FcAt(boxR') : Was(i, j) \in FcAt(boxR) \ {i} /\ j \in 1..Len(boxR')
                             /\ boxR'[j] = boxR[Was(i, j)]
  BY <1>5 DEF FcAt
<1>7. FcAt(boxR') # {} => FcAt(boxR) # {}
  BY <1>6
<1>8. \A j \in FcAt(boxR') : FcAt(boxR') = {j}
  <2>1. ASSUME NEW j \in FcAt(boxR'), NEW k \in FcAt(boxR')
        PROVE  j = k
    <3>1. Was(i, j) \in FcAt(boxR) /\ Was(i, k) \in FcAt(boxR)
      BY <1>6
    <3>2. Was(i, j) = Was(i, k)
      BY <1>3, <3>1 DEF OneAnswer
    <3> QED BY <1>5, <1>6, <3>2
  <2> QED BY <2>1
<1>9. CASE UNCHANGED toS
  <2>1. Answered' => Answered
    BY <1>2, <1>7, <1>9 DEF Answered
  <2>2. OneAnswer'
    <3>1. rx'.fcWait => /\ FcAt(boxR') = {} /\ FcAt(toS') = {}
                        /\ rx'.fc \in {FC("CTS"), FC("OVERFLOW")}
      BY <1>2, <1>3, <1>7, <1>9 DEF OneAnswer
    <3>2. \A j \in FcAt(boxR') : boxR'[j] \in {FC("CTS"), FC("OVERFLOW")} /\ FcAt(toS') = {}
      BY <1>3, <1>6, <1>9 DEF OneAnswer
    <3>3. \A j \in 1..Len(toS') :
            /\ toS'[j].type = "FC" => (toS'[j] = FC("WAIT") <=> j < Len(toS'))
            /\ toS'[j].type # "FC" => j = 1
      BY <1>3, <1>9 DEF OneAnswer
    <3> QED BY <1>8, <3>1, <3>2, <3>3 DEF OneAnswer
  <2> QED BY <1>2, <2>1, <2>2, EndpointsKept
<1>10. CASE f.type # "app" /\ toS' = Append(toS, f)
  <2>1. i \in FcAt(boxR) /\ f.type = "FC"
    BY <1>4, <1>10 DEF FcAt
  <2>2. /\ f \in {FC("CTS"), FC("OVERFLOW")} /\ FcAt(toS) = {} /\ FcAt(boxR) = {i}
        /\ ~rx.fcWait
    BY <1>3, <2>1 DEF OneAnswer
  <2>3. FcAt(boxR') = {}
    BY <1>6, <2>2
  <2>4. /\ Len(toS') = Len(toS) + 1 /\ Len(toS) \in Nat /\ toS'[Len(toS) + 1] = f
        /\ \A j \in 1..Len(toS) : toS'[j] = toS[j]
        /\ \A j \in 1..Len(toS') : j \in 1..Len(toS) \/ j = Len(toS) + 1
    BY ONLY <1>3, <1>4, <1>10
  <2>5. \A j \in 1..Len(toS) : toS'[j].type # "FC" /\ j = 1
    BY <1>3, <2>2, <2>4 DEF OneAnswer, FcAt
  <2>6. f # FC("WAIT")
    BY <2>2 DEF FC
  <2>7. Answered
    BY <2>1 DEF Answered
  <2>8. \A j \in 1..Len(toS') :
          /\ toS'[j].type = "FC" => (toS'[j] = FC("WAIT") <=> j < Len(toS'))
          /\ toS'[j].type # "FC" => j = 1
    <3>1. ASSUME NEW j \in 1..Len(toS')
          PROVE  /\ toS'[j].type = "FC" => (toS'[j] = FC("WAIT") <=> j < Len(toS'))
                 /\ toS'[j].type # "FC" => j = 1
      <4>1. CASE j \in 1..Len(toS)
        BY <2>5, <4>1
      <4>2. CASE j = Len(toS) + 1
        BY <2>1, <2>4, <2>6, <4>2
      <4> QED BY <2>4, <4>1, <4>2
    <3> QED BY <3>1
  <2>9. OneAnswer'
    BY <1>2, <2>2, <2>3, <2>8 DEF OneAnswer
  <2> QED BY <1>2, <2>7, <2>9, EndpointsKept
<1> QED BY <1>2, <1>9, <1>10

\* A foreign peer's WAIT or reserved status takes the place of an answer.
LEMMA ForeignLinked ==
  ASSUME Shape, LinkInv, link # "response", ForeignFc, UNCHANGED <<send, link>>
  PROVE  LinkInv'
<1>1. /\ toS # <<>> /\ Head(toS) = FC("CTS")
      /\ toS' = <<FC("WAIT")>> \o toS \/ toS' = <<FC("reserved")>> \o Tail(toS)
      /\ UNCHANGED <<tx, rx, boxS, boxR, toR, lens, received>>
  BY DEF ForeignFc, app
<1>2. OneAnswer /\ toS \in Seq(OrApp(Fcs)) /\ Len(toS) \in Nat /\ Len(toS) > 0 /\ toS[1] = FC("CTS")
  BY <1>1 DEF LinkInv, Shape, BusShape
<1>3. FC("CTS") # FC("WAIT") /\ FC("reserved") # FC("WAIT")
      /\ \A status \in Statuses : FC(status).type = "FC" /\ FC(status) \in OrApp(Fcs)
  BY DEF FC, OrApp, Fcs
<1>4. Len(toS) = 1
  <2>1. toS[1].type = "FC" /\ toS[1] # FC("WAIT") /\ 1 \in 1..Len(toS)
    BY <1>2, <1>3 DEF Statuses
  <2>2. ~(1 < Len(toS))
    BY <1>2, <2>1 DEF OneAnswer
  <2>3. Len(toS) \in Nat /\ Len(toS) > 0
    BY <1>2
  <2>4. \A n \in Nat : n > 0 /\ ~(1 < n) => n = 1
    OBVIOUS
  <2> QED BY ONLY <2>2, <2>3, <2>4, Zenon
<1>5. 1 \in FcAt(toS)
  BY <1>2, <1>3 DEF FcAt, Statuses
<1>6. Answered /\ ~rx.fcWait /\ FcAt(boxR) = {}
  BY <1>2, <1>5 DEF Answered, OneAnswer
<1>7. \A j \in 1..Len(toS') :
        /\ toS'[j].type = "FC" => (toS'[j] = FC("WAIT") <=> j < Len(toS'))
        /\ toS'[j].type # "FC" => j = 1
  <2>1. CASE toS' = <<FC("WAIT")>> \o toS
    <3>1. Len(toS') = 2 /\ toS'[1] = FC("WAIT") /\ toS'[2] = FC("CTS")
      <4>1. \A S : \A s \in Seq(S), e \in S :
              Len(s) = 1 => /\ Len(<<e>> \o s) = 2 /\ (<<e>> \o s)[1] = e
                            /\ (<<e>> \o s)[2] = s[1]
        OBVIOUS
      <4>2. FC("WAIT") \in OrApp(Fcs)
        BY <1>3 DEF Statuses
      <4> QED BY <1>2, <1>4, <2>1, <4>1, <4>2, ZenonT(30)
    <3>2. \A j \in 1..Len(toS') : j = 1 \/ j = 2
      BY <3>1
    <3> QED BY <1>3, <3>1, <3>2 DEF Statuses
  <2>2. CASE toS' = <<FC("reserved")>> \o Tail(toS)
    <3>1. Len(toS') = 1 /\ toS'[1] = FC("reserved")
      BY <1>2, <1>3, <1>4, <2>2 DEF Statuses
    <3>2. \A j \in 1..Len(toS') : j = 1
      BY <3>1
    <3> QED BY <1>3, <3>1, <3>2 DEF Statuses
  <2> QED BY <1>1, <2>1, <2>2
<1>8. OneAnswer'
  BY <1>1, <1>6, <1>7 DEF OneAnswer, FcAt
<1> QED BY <1>1, <1>6, <1>8, EndpointsKept

\* Other frames are neither answers nor a transfer's own.
LEMMA AppBoxLinked ==
  ASSUME Shape, LinkInv, link # "response", boxR' = Append(boxR, AppFrame),
         UNCHANGED <<tx, rx, boxS, toR, toS, send, link, lens, received>>
  PROVE  LinkInv'
<1>1. OneAnswer /\ boxR \in Seq(OrApp(Fcs))
  BY DEF LinkInv, Shape, BusShape
<1>2. AppFrame \in OrApp(Fcs) /\ AppFrame.type # "FC"
  BY DEF OrApp, AppFrame
<1>3. /\ Len(boxR') = Len(boxR) + 1 /\ Len(boxR) \in Nat /\ boxR'[Len(boxR) + 1] = AppFrame
      /\ \A i \in 1..Len(boxR) : boxR'[i] = boxR[i]
      /\ \A i \in 1..Len(boxR') : i \in 1..Len(boxR) \/ i = Len(boxR) + 1
  BY ONLY <1>1, <1>2, AppendIs, boxR' = Append(boxR, AppFrame)
<1>4. FcAt(boxR') = FcAt(boxR) /\ \A i \in FcAt(boxR) : boxR'[i] = boxR[i]
  BY <1>2, <1>3 DEF FcAt
<1>5. FcAt(toS') = FcAt(toS)
  OBVIOUS
<1>6. Answered' => Answered
  BY <1>4, <1>5 DEF Answered
<1>7. OneAnswer'
  BY <1>1, <1>4, <1>5 DEF OneAnswer
<1> QED BY <1>6, <1>7, EndpointsKept

LEMMA AppSendsLinked ==
  ASSUME Shape, LinkInv, link = "nodes", AppSends, UNCHANGED <<send, link>>
  PROVE  LinkInv'
<1>1. UNCHANGED <<tx, rx, toR, toS, lens, received>>
  BY DEF AppSends, app
<1>2. CASE boxR' = Append(boxR, AppFrame) /\ UNCHANGED boxS
  BY <1>1, <1>2, AppBoxLinked
<1>3. CASE boxS' = Append(boxS, AppFrame) /\ UNCHANGED boxR
  <2>1. boxS \in Seq(OrApp(Data(link))) /\ AppFrame \in OrApp(Data(link)) /\ AppFrame.type = "app"
    BY DEF Shape, BusShape, OrApp, AppFrame
  <2>2. /\ Len(boxS') = Len(boxS) + 1 /\ Len(boxS) \in Nat /\ boxS'[Len(boxS) + 1] = AppFrame
        /\ \A i \in 1..Len(boxS) : boxS'[i] = boxS[i]
        /\ \A i \in 1..Len(boxS') : i \in 1..Len(boxS) \/ i = Len(boxS) + 1
    BY ONLY <1>3, <2>1, AppendIs
  <2>3. Own' = Own /\ \A i \in Own : boxS'[i] = boxS[i]
    BY <2>1, <2>2 DEF Own
  <2>4. Transfer' = Transfer /\ Path' = Path
    BY <1>1, <2>3 DEF Transfer, Path, Pending, BlockFull
  <2>5. OneAnswer' /\ (Answered' => Answered)
    BY <1>1, <1>3, AnswerKept DEF LinkInv
  <2>6. InStep(Transfer, Path, Answered, rx, lens, received) /\ toR' \in Seq(Data(link))
    BY <1>1, LinkFacts
  <2>7. Linked'
    BY <1>1, <2>4, <2>5, <2>6, LinkedAfter
  <2>8. NodeSender'
    BY <1>1, <2>3, <2>4, <2>5 DEF LinkInv, NodeSender
  <2> QED BY <2>5, <2>6, <2>7, <2>8 DEF LinkInv
<1> QED BY <1>2, <1>3 DEF AppSends

LEMMA OtherRequestFramesLinked ==
  ASSUME Shape, LinkInv, link = "request", OtherRequestFrames, UNCHANGED link
  PROVE  LinkInv'
<1>1. UNCHANGED <<tx, rx, boxS, toR, lens, received, send>>
  BY DEF OtherRequestFrames, app
<1>2. CASE boxR' = Append(boxR, AppFrame) /\ UNCHANGED toS
  BY <1>1, <1>2, AppBoxLinked
<1>3. CASE toS = <<>> /\ toS' = <<AppFrame>> /\ UNCHANGED boxR
  <2>1. AppFrame.type # "FC" /\ \A i \in 1..Len(toS') : i = 1 /\ toS'[i] = AppFrame
    BY <1>3 DEF AppFrame
  <2>2. FcAt(toS') = {} /\ FcAt(boxR') = FcAt(boxR)
    BY <1>3, <2>1 DEF FcAt
  <2>3. Answered' => Answered
    BY <1>1, <2>2 DEF Answered
  <2>4. OneAnswer'
    BY <1>1, <1>3, <2>1, <2>2 DEF LinkInv, OneAnswer
  <2> QED BY <1>1, <2>3, <2>4, EndpointsKept
<1> QED BY <1>2, <1>3 DEF OtherRequestFrames

\* A frame of the sender's node reaches the other, or is lost.
LEMMA TransmitSLinked ==
  ASSUME Shape, LinkInv, link = "nodes", TransmitsS, UNCHANGED <<send, link>>
  PROVE  LinkInv'
<1>1. PICK i \in 1..Len(boxS) : TransmitS(i)
  BY DEF TransmitsS
<1> DEFINE f == boxS[i]
<1>2. /\ boxS' = Remove(boxS, i) /\ UNCHANGED <<tx, rx, boxR, toS, lens, received>>
      /\ \/ f.type = "app" /\ UNCHANGED toR
         \/ f.type # "app" /\ toR' \in {toR, Append(toR, f)}
  BY <1>1 DEF TransmitS, app
<1>3. NodeSender /\ boxS \in Seq(OrApp(Data(link)))
  BY DEF LinkInv, Shape, BusShape
<1>4. /\ \A j \in 1..Len(boxS') :
           Was(i, j) \in 1..Len(boxS) \ {i} /\ boxS'[j] = boxS[Was(i, j)]
      /\ \A j, k \in 1..Len(boxS') : Was(i, j) = Was(i, k) => j = k
      /\ \A k \in 1..Len(boxS) \ {i} : \E j \in 1..Len(boxS') : Was(i, j) = k
  <2> DEFINE S == OrApp(Data(link))
  <2>1. boxS \in Seq(S) /\ i \in 1..Len(boxS)
    BY <1>3
  <2> HIDE DEF S
  <2>2. \A j \in 1..Len(Remove(boxS, i)) :
          Was(i, j) \in 1..Len(boxS) \ {i} /\ Remove(boxS, i)[j] = boxS[Was(i, j)]
    BY ONLY <2>1, OthersRemain
  <2>3. \A j, k \in 1..Len(Remove(boxS, i)) : Was(i, j) = Was(i, k) => j = k
    BY ONLY <2>1, OthersRemain
  <2>4. \A k \in 1..Len(boxS) \ {i} : \E j \in 1..Len(Remove(boxS, i)) : Was(i, j) = k
    BY ONLY <2>1, OtherRemains
  <2> QED BY <1>2, <2>2, <2>3, <2>4, Zenon
<1>5. \A j \in Own' : Was(i, j) \in Own \ {i} /\ j \in 1..Len(boxS') /\ boxS'[j] = boxS[Was(i, j)]
  BY <1>4 DEF Own
<1>6. /\ InStep(Transfer, Path, Answered, rx, lens, received) /\ toR \in Seq(Data(link))
  BY LinkFacts
<1>7. OneAnswer' /\ (Answered' => Answered)
  BY <1>2, AnswerKept DEF LinkInv
<1>8. Transfer' = Transfer
  BY <1>2 DEF Transfer, BlockFull
<1>9. ASSUME UNCHANGED Pending, UNCHANGED toR,
             \A j \in Own' : boxS'[j] = tx.frame /\ Own' = {j} /\ Own # {}
      PROVE  LinkInv'
  <2>1. Path' = Path
    BY <1>2, <1>9 DEF Path
  <2>2. Linked'
    BY <1>2, <1>6, <1>7, <1>8, <2>1, LinkedAfter
  <2>3. Own' # {} => Own # {}
    BY <1>9
  <2>4. NodeSender'
    <3>1. /\ UNCHANGED <<tx, lens, Path>> /\ (Answered' => Answered)
          /\ tx.waitEnqueue => Own' = {}
      BY <1>2, <1>3, <1>7, <2>1, <2>3 DEF NodeSender
    <3>2. \A j \in Own' : /\ boxS'[j] = tx.frame /\ Own' = {j}
                         /\ tx.ongoing /\ tx.framePending /\ ~tx.waitEnqueue
      BY <1>3, <1>9 DEF NodeSender
    <3> QED BY <1>3, <3>1, <3>2 DEF NodeSender
  <2> QED BY <1>6, <1>7, <1>9, <2>2, <2>4 DEF LinkInv
<1>10. CASE f.type = "app"
  <2>1. i \notin Own
    BY <1>10 DEF Own
  <2>2. Own # {} => Own' # {}
    <3>1. ASSUME NEW k \in Own
          PROVE  Own' # {}
      <4>1. PICK j \in 1..Len(boxS') : Was(i, j) = k
        BY <1>4, <2>1, <3>1 DEF Own
      <4>2. boxS'[j].type # "app"
        BY <1>4, <3>1, <4>1 DEF Own
      <4> QED BY <4>1, <4>2 DEF Own
    <3> QED BY <3>1
  <2>3. UNCHANGED Pending
    BY <1>2, <1>5, <2>2 DEF Pending
  <2>4. ASSUME NEW j \in Own', NEW k \in Own'
        PROVE  boxS'[j] = tx.frame /\ k = j
    <3>1. Was(i, j) \in Own /\ Was(i, k) \in Own
      BY <1>5
    <3>2. Was(i, j) = Was(i, k) /\ boxS[Was(i, j)] = tx.frame
      BY <1>3, <3>1 DEF NodeSender
    <3> QED BY <1>4, <1>5, <3>2
  <2>5. \A j \in Own' : boxS'[j] = tx.frame /\ Own' = {j} /\ Own # {}
    BY <1>5, <2>4
  <2> QED BY <1>2, <1>9, <1>10, <2>3, <2>5
<1>11. CASE f.type # "app"
  <2>1. i \in Own /\ Pending
    BY <1>11 DEF Own, Pending
  <2>2. Own = {i} /\ f = tx.frame /\ ~tx.waitEnqueue /\ tx.ongoing
    BY <1>3, <2>1 DEF NodeSender
  <2>3. Own' = {} /\ ~Pending'
    BY <1>2, <1>5, <2>2 DEF Pending
  <2>4. Path = Append(toR, f) /\ Path' = toR'
    BY <2>1, <2>2, <2>3 DEF Path
  <2>5. f \in Data(link)
    <3>1. f \in OrApp(Data(link))
      BY <1>3
    <3>2. f # AppFrame
      BY <1>11 DEF AppFrame
    <3> QED BY <3>1, <3>2 DEF OrApp
  <2>6. Append(toR, f) \in Seq(Data(link)) /\ Path # <<>>
    BY ONLY <1>6, <2>4, <2>5
  <2>7. InStep(Transfer, toR', Answered, rx, lens, received) /\ toR' \in Seq(Data(link))
    <3>1. CASE toR' = Append(toR, f)
      BY <1>6, <2>4, <2>6, <3>1
    <3>2. CASE toR' = toR
      <4>1. InStep(Transfer, Append(toR, f), Answered, rx, lens, received)
        BY <1>6, <2>4
      <4>2. InStep(Transfer, toR, Answered, rx, lens, received)
        BY <1>6, <2>5, <4>1, FrameLost
      <4> QED BY <1>6, <3>2, <4>2
    <3> QED BY <1>2, <1>11, <3>1, <3>2
  <2>8. Linked'
    BY <1>2, <1>7, <1>8, <2>4, <2>7, LinkedAfter
  <2>9. NodeSender'
    BY <1>2, <1>3, <2>2, <2>3, <2>6 DEF NodeSender
  <2> QED BY <1>7, <2>7, <2>8, <2>9 DEF LinkInv
<1> QED BY <1>10, <1>11

\* isotp_tx_schedule_frame: the frame joins the path, in a mailbox or before one.
SameProgress(t, u) ==
  /\ u.ongoing = t.ongoing /\ u.msg = t.msg /\ u.len = t.len /\ u.offset = t.offset
  /\ u.sn = t.sn /\ u.bs = t.bs /\ u.inBlock = t.inBlock
  /\ u.waitFc = t.waitFc /\ u.fcLeft = t.fcLeft

\* A node's transfer, before and after a step.
LEMMA NodeTransferAfter ==
  ASSUME link # "request", UNCHANGED link
  PROVE  /\ Transfer'.busy = tx'.ongoing /\ Transfer'.msg = tx'.msg
         /\ Transfer'.offset = tx'.offset /\ Transfer'.inBlock = tx'.inBlock
         /\ Transfer'.waiting <=> tx'.waitFc \/ BlockFull(tx')
         /\ Transfer.busy = tx.ongoing /\ Transfer.msg = tx.msg
         /\ Transfer.offset = tx.offset /\ Transfer.inBlock = tx.inBlock
         /\ Transfer.waiting <=> tx.waitFc \/ BlockFull(tx)
BY DEF Transfer, BlockFull

LEMMA FrameScheduled ==
  ASSUME link # "request", boxS \in Seq(OrApp(Data(link))), Own = {},
         NEW t \in Senders(link), NEW f \in Data(link), Schedule(t, f), UNCHANGED <<toR, link>>
  PROVE  /\ Path' = Append(toR, f) /\ SameProgress(t, tx') /\ tx'.asLeft = NAs
         /\ tx'.waitEnqueue => Own' = {}
         /\ \A i \in Own' : /\ boxS'[i] = tx'.frame /\ Own' = {i}
                            /\ tx'.framePending /\ ~tx'.waitEnqueue
<1>1. CASE Len(boxS) < Mailboxes
  <2>1. /\ boxS' = Append(boxS, f)
        /\ tx' = [t EXCEPT !.frame = f, !.waitEnqueue = FALSE, !.framePending = TRUE,
                           !.asLeft = NAs]
    BY <1>1 DEF Schedule
  <2>2. /\ SameProgress(t, tx') /\ tx'.asLeft = NAs /\ tx'.frame = f
        /\ tx'.framePending /\ ~tx'.waitEnqueue
    BY <2>1 DEF Senders, SameProgress
  <2>3. f \in OrApp(Data(link)) /\ f.type # "app"
    BY DEF OrApp, Data
  <2>4. /\ Len(boxS') = Len(boxS) + 1 /\ Len(boxS) \in Nat /\ boxS'[Len(boxS) + 1] = f
        /\ \A i \in 1..Len(boxS) : boxS'[i] = boxS[i]
        /\ \A i \in 1..Len(boxS') : i \in 1..Len(boxS) \/ i = Len(boxS) + 1
    BY ONLY <2>1, <2>3, AppendIs, boxS \in Seq(OrApp(Data(link)))
  <2>5. Own' = {Len(boxS) + 1}
    BY <2>3, <2>4 DEF Own
  <2>6. Path' = Append(toR, f)
    BY <2>2, <2>5 DEF Path, Pending
  <2> QED BY <2>2, <2>4, <2>5, <2>6
<1>2. CASE ~(Len(boxS) < Mailboxes)
  <2>1. boxS' = boxS /\ tx' = [t EXCEPT !.frame = f, !.waitEnqueue = TRUE, !.asLeft = NAs]
    BY <1>2 DEF Schedule
  <2>2. SameProgress(t, tx') /\ tx'.asLeft = NAs /\ tx'.frame = f /\ tx'.waitEnqueue
    BY <2>1 DEF Senders, SameProgress
  <2>3. Own' = {}
    BY <2>1 DEF Own
  <2>4. Path' = Append(toR, f)
    BY <2>2 DEF Path, Pending
  <2> QED BY <2>2, <2>3, <2>4
<1> QED BY <1>1, <1>2

\* A node that is in no transfer has no frame to send.
LEMMA IdleSender ==
  ASSUME LinkInv, link = "nodes", ~tx.ongoing
  PROVE  ~tx.waitEnqueue /\ Own = {} /\ Path = toR
<1>1. NodeSender
  BY DEF LinkInv
<1>2. ~tx.waitEnqueue /\ Own = {}
  BY <1>1 DEF NodeSender
<1> QED BY <1>2 DEF Path, Pending

\* IsotpTx_Start: the first frame joins an empty mailbox of the sender, or its wait.
LEMMA NodeBegins ==
  ASSUME Shape, LinkInv, link = "nodes", NEW n \in LensOf(link), TxStart(n),
         UNCHANGED <<send, link>>
  PROVE  /\ Path = toR /\ Own = {} /\ ~Transfer.busy
         /\ \E f \in Data(link) :
              /\ Path' = Append(toR, f) /\ f.data = Chunk(Len(lens) + 1, 1)
              /\ \/ n = 1 /\ f.type = "SF"
                 \/ n > 1 /\ f.type = "FF" /\ f.len = n
         /\ tx'.ongoing /\ tx'.msg = Len(lens) + 1 /\ tx'.len = n /\ tx'.offset = 1 /\ tx'.sn = 1
         /\ tx'.inBlock = 0 /\ tx'.bs \in {0, BlockSize}
         /\ (tx'.waitFc => n > 1 /\ tx'.fcLeft = NBs) /\ (n > 1 => tx'.waitFc)
         /\ tx'.asLeft = NAs /\ (tx'.waitEnqueue => Own' = {})
         /\ \A i \in Own' : /\ boxS'[i] = tx'.frame /\ Own' = {i}
                            /\ tx'.framePending /\ ~tx'.waitEnqueue
<1> DEFINE m == Len(lens) + 1
           t == [tx EXCEPT !.ongoing = TRUE, !.msg = m, !.len = n, !.offset = 1,
                           !.sn = 1, !.inBlock = 0, !.sentCf = FALSE,
                           !.waitEnqueue = FALSE, !.framePending = FALSE,
                           !.waitFc = FALSE, !.afterBlock = FALSE]
           w == [t EXCEPT !.waitFc = TRUE, !.fcLeft = NBs]
<1>1. m \in Numbers /\ n \in Nat \ {0} /\ m \in 0..MaxMsgs /\ Len(lens) \in Nat
  <2>1. Len(lens) \in Nat /\ Len(lens) < MaxMsgs
    BY DEF TxStart, Shape, AppShape
  <2> QED BY <2>1, LensPositive, IsotpAssumption DEF Numbers
<1>2. /\ t \in Senders(link) /\ t.ongoing /\ t.msg = m /\ t.len = n /\ t.offset = 1 /\ t.sn = 1
      /\ t.inBlock = 0 /\ ~t.waitFc /\ t.bs \in {0, BlockSize}
  BY <1>1, Ranges, ZenonT(30) DEF Shape, TxShape, Senders
<1> HIDE DEF t
<1>3. /\ w \in Senders(link) /\ w.ongoing /\ w.msg = m /\ w.len = n /\ w.offset = 1 /\ w.sn = 1
      /\ w.inBlock = 0 /\ w.waitFc /\ w.fcLeft = NBs /\ w.bs \in {0, BlockSize}
  BY <1>2, Ranges DEF Senders
<1> HIDE DEF m, w
<1>4. \/ n = 1 /\ Schedule(t, SF(m))
      \/ n > 1 /\ Schedule(w, FF(m, n))
  BY DEF TxStart, m, t, w
<1>5. /\ ~tx.ongoing /\ lens' = Append(lens, n)
      /\ UNCHANGED <<rx, boxR, toR, toS, received>>
  BY DEF TxStart
<1>6. Path = toR /\ Own = {} /\ ~Transfer.busy
  BY <1>5, IdleSender DEF Transfer
<1>7. boxS \in Seq(OrApp(Data(link)))
  BY DEF Shape, BusShape
<1>8. SF(m) \in Data(link) /\ (n > 1 => FF(m, n) \in Data(link))
  BY <1>1, FrameTypes
<1>9. PICK u \in Senders(link), f \in Data(link) :
        /\ Schedule(u, f) /\ f.data = Chunk(m, 1)
        /\ \/ n = 1 /\ f.type = "SF"
           \/ n > 1 /\ f.type = "FF" /\ f.len = n /\ u.waitFc /\ u.fcLeft = NBs
        /\ u.ongoing /\ u.msg = m /\ u.len = n /\ u.offset = 1 /\ u.sn = 1 /\ u.inBlock = 0
        /\ u.bs \in {0, BlockSize} /\ (u.waitFc => n > 1 /\ u.fcLeft = NBs)
  <2>1. CASE n = 1 /\ Schedule(t, SF(m))
    <3>1. SF(m).data = Chunk(m, 1) /\ SF(m).type = "SF"
      BY DEF SF
    <3> QED BY <1>2, <1>8, <2>1, <3>1
  <2>2. CASE n > 1 /\ Schedule(w, FF(m, n))
    <3>1. FF(m, n).data = Chunk(m, 1) /\ FF(m, n).type = "FF" /\ FF(m, n).len = n
      BY DEF FF
    <3> QED BY <1>3, <1>8, <2>2, <3>1
  <2> QED BY <1>4, <2>1, <2>2
<1>10. /\ Path' = Append(toR, f) /\ SameProgress(u, tx') /\ tx'.asLeft = NAs
       /\ tx'.waitEnqueue => Own' = {}
       /\ \A i \in Own' : /\ boxS'[i] = tx'.frame /\ Own' = {i}
                          /\ tx'.framePending /\ ~tx'.waitEnqueue
  BY <1>5, <1>6, <1>7, <1>9, FrameScheduled
<1>11. /\ tx'.ongoing /\ tx'.msg = m /\ tx'.len = n /\ tx'.offset = 1 /\ tx'.sn = 1
       /\ tx'.inBlock = 0 /\ tx'.bs \in {0, BlockSize}
       /\ (tx'.waitFc => n > 1 /\ tx'.fcLeft = NBs) /\ (n > 1 => tx'.waitFc)
  BY <1>9, <1>10 DEF SameProgress
<1> QED BY <1>6, <1>9, <1>10, <1>11 DEF m

LEMMA TxStartLinked ==
  ASSUME Shape, LinkInv, link = "nodes", NEW n \in LensOf(link), TxStart(n),
         UNCHANGED <<send, link>>, BlockSize > 0
  PROVE  LinkInv'
<1> DEFINE m == Len(lens) + 1
<1>1. n \in Nat \ {0} /\ Len(lens) \in Nat
  BY LensPositive DEF Shape, AppShape
<1>5. /\ lens' = Append(lens, n) /\ UNCHANGED <<rx, boxR, toR, toS, received>>
  BY DEF TxStart
<1>6. Path = toR /\ Own = {} /\ ~Transfer.busy
  BY NodeBegins
<1>9. PICK f \in Data(link) :
        /\ Path' = Append(toR, f) /\ f.data = Chunk(m, 1)
        /\ \/ n = 1 /\ f.type = "SF"
           \/ n > 1 /\ f.type = "FF" /\ f.len = n
  BY NodeBegins
<1>10. /\ tx'.ongoing /\ tx'.msg = m /\ tx'.len = n /\ tx'.offset = 1 /\ tx'.sn = 1
       /\ tx'.inBlock = 0
       /\ tx'.bs \in {0, BlockSize} /\ (tx'.waitFc => n > 1 /\ tx'.fcLeft = NBs)
       /\ (n > 1 => tx'.waitFc) /\ tx'.asLeft = NAs /\ (tx'.waitEnqueue => Own' = {})
       /\ \A i \in Own' : /\ boxS'[i] = tx'.frame /\ Own' = {i}
                          /\ tx'.framePending /\ ~tx'.waitEnqueue
  BY NodeBegins
<1> HIDE DEF m
<1>11. /\ InStep(Transfer, toR, Answered, rx, lens, received) /\ toR \in Seq(Data(link))
       /\ lens \in Seq(Nat \ {0})
  BY <1>6, LinkFacts
<1>12. /\ Transfer'.busy /\ Transfer'.msg = m /\ Transfer'.offset = 1
       /\ Transfer'.inBlock = 0 /\ (n > 1 => Transfer'.waiting)
  <2>1. /\ Transfer'.busy = tx'.ongoing /\ Transfer'.msg = tx'.msg
        /\ Transfer'.offset = tx'.offset /\ Transfer'.inBlock = tx'.inBlock
        /\ tx'.waitFc => Transfer'.waiting
    BY NodeTransferAfter
  <2> QED BY <1>10, <2>1
<1>13. InStep(Transfer', Append(toR, f), Answered, rx, Append(lens, n), received)
  <2> DEFINE v == Transfer'
  <2>1. /\ f.data = Chunk(Len(lens) + 1, 1)
        /\ v.busy => v.msg = Len(lens) + 1 /\ v.offset = 1 /\ v.inBlock = 0
        /\ \/ n = 1 /\ f.type = "SF"
           \/ n > 1 /\ f.type = "FF" /\ f.len = n /\ v.busy /\ v.waiting
    BY <1>9, <1>12 DEF m
  <2> HIDE DEF v
  <2>2. InStep(v, Append(toR, f), Answered, rx, Append(lens, n), received)
    BY <1>1, <1>6, <1>11, <2>1, TransferBegun
  <2> QED BY <2>2 DEF v
<1>14. OneAnswer' /\ (Answered' => Answered)
  BY <1>5, AnswerKept DEF LinkInv
<1>15. Linked'
  BY <1>5, <1>9, <1>13, <1>14, LinkedAfter
<1>16. NodeSender'
  <2>2. lens'[m] = n
    BY <1>5, <1>11 DEF m
  <2>3. 1 % SnMod = 1 /\ NAs > 0 /\ NBs # 0
    BY IsotpAssumption
  <2>4. n = 1 \/ n > 1
    BY <1>1
  <2>5. 0 < 1
    OBVIOUS
  <2> QED BY <1>10, <2>2, <2>3, <2>4, <2>5, <1>9 DEF NodeSender
<1> QED BY <1>5, <1>11, <1>14, <1>15, <1>16 DEF LinkInv

\* The sender takes a frame of its queue.
LEMMA AnswerTaken ==
  ASSUME OneAnswer, toS \in Seq(OrApp(Fcs)), toS # <<>>, toS' = Tail(toS), UNCHANGED <<rx, boxR>>
  PROVE  /\ OneAnswer' /\ (Answered' => Answered)
         /\ Head(toS).type = "FC" => Answered /\ (Head(toS) # FC("WAIT") => ~Answered')
<1>1. /\ Len(toS') = Len(toS) - 1 /\ Len(toS) \in Nat /\ Len(toS) > 0 /\ Head(toS) = toS[1]
      /\ \A i \in 1..Len(toS') : toS'[i] = toS[i + 1] /\ i + 1 \in 1..Len(toS)
  OBVIOUS
<1>2. FcAt(boxR') = FcAt(boxR)
  OBVIOUS
<1>3. \A i \in FcAt(toS') : i + 1 \in FcAt(toS)
  BY <1>1 DEF FcAt
<1>4. Answered' => Answered
  BY <1>2, <1>3 DEF Answered
<1>5. \A i \in 1..Len(toS') :
        /\ toS'[i].type = "FC" => (toS'[i] = FC("WAIT") <=> i < Len(toS'))
        /\ toS'[i].type # "FC" => i = 1
  <2>1. ASSUME NEW i \in 1..Len(toS')
        PROVE  /\ toS'[i].type = "FC" => (toS'[i] = FC("WAIT") <=> i < Len(toS'))
               /\ toS'[i].type # "FC" => i = 1
    <3>1. /\ toS[i + 1].type = "FC" => (toS[i + 1] = FC("WAIT") <=> i + 1 < Len(toS))
          /\ toS[i + 1].type # "FC" => i + 1 = 1
      BY <1>1 DEF OneAnswer
    <3> QED BY <1>1, <3>1
  <2> QED BY <2>1
<1>6. OneAnswer'
  <2>1. FcAt(toS) = {} => FcAt(toS') = {}
    BY <1>3
  <2> QED BY <1>2, <1>5, <2>1 DEF OneAnswer
<1>7. ASSUME Head(toS).type = "FC"
      PROVE  Answered /\ (Head(toS) # FC("WAIT") => ~Answered')
  <2>1. 1 \in FcAt(toS) /\ Answered
    BY <1>1, <1>7 DEF FcAt, Answered
  <2>2. ~rx.fcWait /\ FcAt(boxR) = {}
    BY <2>1 DEF OneAnswer
  <2>3. ASSUME Head(toS) # FC("WAIT")
        PROVE  ~Answered'
    <3>1. Len(toS') = 0
      BY <1>1, <1>7, <2>3 DEF OneAnswer
    <3>2. FcAt(toS') = {}
      BY <3>1 DEF FcAt
    <3> QED BY <1>2, <2>2, <3>2 DEF Answered
  <2> QED BY <2>1, <2>3
<1> QED BY <1>4, <1>6, <1>7

\* Steps of a node's sender that hand over no frame.
LEMMA NodeLinked ==
  ASSUME Shape, LinkInv, link = "nodes", UNCHANGED <<rx, toR, send, link, lens, received>>,
         OneAnswer', NodeSender', Path' = Path,
         NEW v, NEW f, InStep(v, Path, f, rx, lens, received), SameSender(v, Transfer'),
         Answered' => f
  PROVE  LinkInv'
<1>1. InStep(Transfer', Path, f, rx, lens, received)
  BY SenderUntouched
<1>2. Linked'
  BY <1>1, LinkedAfter
<1>3. toR' \in Seq(Data(link))
  BY LinkFacts
<1> QED BY <1>2, <1>3 DEF LinkInv

\* A node's application is told how a transfer ended.
LEMMA NodeFinished ==
  ASSUME Shape, LinkInv, link = "nodes", UNCHANGED <<boxS, rx, toR, send, link, lens, received>>,
         NEW t \in Senders(link), NEW verdict, Finish(t, verdict), ~t.waitEnqueue,
         ~tx.waitEnqueue, Own = {}, tx.ongoing,
         InStep(Transfer, Path, FALSE, rx, lens, received),
         Transfer.offset = lens[Transfer.msg] \/ Path = <<>>,
         OneAnswer', ~Answered'
  PROVE  LinkInv'
<1>1. tx' = [t EXCEPT !.ongoing = FALSE]
  BY DEF Finish
<1>2. ~tx'.ongoing /\ ~tx'.waitEnqueue
  BY <1>1 DEF Senders
<1>3. Own' = {} /\ Path = toR /\ Path' = toR
  BY <1>2 DEF Path, Pending, Own
<1>4. Transfer.busy /\ ~Transfer'.busy
  BY <1>2, NodeTransferAfter
<1>5. InStep(Transfer', Path, FALSE, rx, lens, received)
  <2> DEFINE v == Transfer
             w == Transfer'
  <2>1. v.offset \in Nat /\ v.inBlock \in Nat /\ rx.buf \in Seq(Chunks) /\ rx.inBlock \in Nat
        /\ lens \in Seq(Nat \ {0})
    BY LinkFacts
  <2>2. v.busy /\ ~w.busy /\ (v.offset = lens[v.msg] \/ Path = <<>>)
        /\ InStep(v, Path, FALSE, rx, lens, received)
    BY <1>4
  <2> HIDE DEF v, w
  <2>3. InStep(w, Path, FALSE, rx, lens, received)
    BY <2>1, <2>2, TransferLeft
  <2> QED BY <2>3 DEF w
<1>6. Linked'
  BY <1>3, <1>5, LinkedAfter
<1>7. NodeSender'
  BY <1>2, <1>3 DEF NodeSender
<1>8. toR' \in Seq(Data(link))
  BY LinkFacts
<1> QED BY <1>6, <1>7, <1>8 DEF LinkInv

LEMMA TxOnFrameLinked ==
  ASSUME Shape, LinkInv, link = "nodes", TxOnFrame, UNCHANGED <<send, link>>, BlockSize > 0
  PROVE  LinkInv'
<1>1. /\ toS # <<>> /\ toS' = Tail(toS)
      /\ UNCHANGED <<boxS, rx, boxR, toR, lens, received>>
  BY DEF TxOnFrame
<1>2. toS \in Seq(Fcs) /\ toS \in Seq(OrApp(Fcs)) /\ tx \in Senders(link)
  BY DEF Shape, BusShape, TxShape
<1>3. /\ OneAnswer' /\ (Answered' => Answered)
      /\ Head(toS).type = "FC" => Answered /\ (Head(toS) # FC("WAIT") => ~Answered')
  BY <1>1, <1>2, AnswerTaken DEF LinkInv
<1>4. /\ Head(toS).type = "FC"
      /\ Head(toS).status # "WAIT" => Head(toS) # FC("WAIT")
  <2>1. Head(toS) \in Fcs
    BY <1>1, <1>2
  <2> QED BY <2>1 DEF Fcs, FC
<1>5. InStep(Transfer, Path, TRUE, rx, lens, received) /\ Answered
  <2>1. InStep(Transfer, Path, Answered, rx, lens, received) /\ Answered
    BY <1>3, <1>4, LinkFacts
  <2> QED BY <2>1, AnswerIs
<1>6. NodeSender
  BY DEF LinkInv
<1>7. CASE UNCHANGED tx
  <2>1. Transfer' = Transfer /\ Path' = Path
    BY <1>1, <1>7, PathKept
  <2>2. SameSender(Transfer, Transfer')
    BY <2>1 DEF SameSender
  <2>3. NodeSender'
    BY <1>1, <1>3, <1>5, <1>6, <1>7, <2>1 DEF NodeSender, Own
  <2> QED BY <1>1, <1>3, <1>5, <2>1, <2>2, <2>3, NodeLinked
<1>8. CASE AcceptsFc /\ Head(toS).status = "WAIT"
  <2>1. PICK c \in {NCr, NBs} : tx' = [tx EXCEPT !.fcLeft = c]
    BY <1>8, Zenon DEF TxOnFrame
  <2>2. SameProgress([tx EXCEPT !.fcLeft = c], tx') /\ tx'.fcLeft = c
        /\ tx'.waitEnqueue = tx.waitEnqueue /\ tx'.frame = tx.frame
        /\ tx'.framePending = tx.framePending /\ tx'.asLeft = tx.asLeft
        /\ tx'.ongoing = tx.ongoing /\ tx'.msg = tx.msg /\ tx'.len = tx.len
        /\ tx'.offset = tx.offset /\ tx'.sn = tx.sn /\ tx'.bs = tx.bs
        /\ tx'.inBlock = tx.inBlock /\ tx'.waitFc = tx.waitFc
    BY <1>2, <2>1, Ranges DEF Senders, SameProgress
  <2>3. c # 0
    BY IsotpAssumption
  <2>4. Own' = Own /\ Path' = Path
    BY <1>1, <2>2 DEF Path, Pending, Own
  <2>5. NodeSender'
    BY <1>1, <1>6, <2>2, <2>3, <2>4 DEF NodeSender
  <2>6. SameSender(Transfer, Transfer')
    <3>1. BlockFull(tx') <=> BlockFull(tx)
      BY <2>2 DEF BlockFull
    <3>2. Transfer' = Transfer
      BY <2>2, <3>1 DEF Transfer
    <3> QED BY <3>2 DEF SameSender
  <2> QED BY <1>1, <1>3, <1>5, <2>4, <2>5, <2>6, NodeLinked
<1>9. ASSUME AcceptsFc
      PROVE  /\ tx.ongoing /\ Transfer.busy /\ Transfer.waiting /\ Path = <<>>
             /\ ~tx.waitEnqueue /\ Own = {}
  <2>1. tx.ongoing /\ Transfer.busy
    BY <1>9, NodeTransferAfter DEF AcceptsFc
  <2>2. Path = <<>> /\ Transfer.waiting
    BY <1>5 DEF InStep, Awaited
  <2>3. ~Pending
    <3>1. Pending => Path # <<>>
      <4>1. toR \in Seq(Data(link))
        BY LinkFacts
      <4>2. \A S : \A s \in Seq(S) : \A e : Append(s, e) # <<>>
        OBVIOUS
      <4>3. Append(toR, tx.frame) # <<>>
        BY <4>1, <4>2, Zenon
      <4> QED BY <4>3 DEF Path
    <3> QED BY <2>2, <3>1
  <2> QED BY <2>1, <2>2, <2>3 DEF Pending
<1>10. CASE AcceptsFc /\ Head(toS).status = "CTS"
  <2>1. tx' = [tx EXCEPT !.bs = BlockSize, !.waitFc = FALSE, !.afterBlock = FALSE,
                         !.inBlock = 0, !.fcLeft = NAs]
    BY <1>10 DEF TxOnFrame
  <2>2. /\ tx'.bs = BlockSize /\ ~tx'.waitFc /\ tx'.inBlock = 0
        /\ tx'.waitEnqueue = tx.waitEnqueue /\ tx'.frame = tx.frame
        /\ tx'.framePending = tx.framePending /\ tx'.asLeft = tx.asLeft
        /\ tx'.ongoing = tx.ongoing /\ tx'.msg = tx.msg /\ tx'.len = tx.len
        /\ tx'.offset = tx.offset /\ tx'.sn = tx.sn
    BY <1>2, <2>1, Ranges DEF Senders
  <2>3. Own' = Own /\ Path' = Path /\ ~Answered'
    BY <1>1, <1>3, <1>4, <1>10, <2>2 DEF Path, Pending, Own
  <2>4. tx.offset \in Nat /\ 0 < tx.offset
    <3>1. OwnTransfer(Transfer, lens) /\ lens \in Seq(Nat \ {0}) /\ Transfer.offset \in Nat
      BY <1>5, LinkFacts DEF InStep
    <3>2. Transfer.offset = tx.offset
      BY NodeTransferAfter
    <3>3. tx.offset \in 1..lens[Transfer.msg] /\ tx.offset \in Nat
      BY <1>9, <1>10, <3>1, <3>2 DEF OwnTransfer
    <3> QED BY ONLY <3>3
  <2>5. NodeSender'
    BY <1>1, <1>6, <2>2, <2>3, <2>4 DEF NodeSender
  <2>6. /\ Transfer'.busy /\ Transfer'.msg = Transfer.msg /\ Transfer'.offset = Transfer.offset
        /\ Transfer'.inBlock = 0 /\ ~Transfer'.waiting
    <3>1. ~BlockFull(tx')
      BY <2>2, IsotpAssumption DEF BlockFull
    <3> QED BY <1>9, <1>10, <2>2, <3>1, NodeTransferAfter
  <2>7. InStep(Transfer', Path, FALSE, rx, lens, received)
    <3> DEFINE v == Transfer
               w == Transfer'
    <3>1. v.offset \in Nat /\ InStep(v, Path, TRUE, rx, lens, received)
      BY <1>5, LinkFacts
    <3>2. w.busy /\ w.msg = v.msg /\ w.offset = v.offset /\ w.inBlock = 0 /\ ~w.waiting
      BY <2>6
    <3> HIDE DEF v, w
    <3>3. InStep(w, Path, FALSE, rx, lens, received)
      BY <3>1, <3>2, BlockGranted
    <3> QED BY <3>3 DEF w
  <2>8. Linked'
    BY <1>1, <2>3, <2>7, LinkedAfter
  <2>9. toR' \in Seq(Data(link))
    BY <1>1, LinkFacts
  <2> QED BY <1>3, <2>5, <2>8, <2>9 DEF LinkInv
<1>11. CASE AcceptsFc /\ Head(toS).status \in {"OVERFLOW", "reserved"}
  <2>1. Finish(tx, Head(toS).status)
    BY <1>11 DEF TxOnFrame
  <2>2. ~Answered'
    BY <1>3, <1>4, <1>11
  <2>3. InStep(Transfer, Path, FALSE, rx, lens, received)
    BY <1>5, AnswerGone
  <2> QED BY <1>1, <1>2, <1>3, <1>9, <1>11, <2>1, <2>2, <2>3, NodeFinished
<1> QED BY <1>7, <1>8, <1>10, <1>11 DEF TxOnFrame

\* While a node's timer runs, its frame leaves.
LEMMA TxPollEnqueueLinked ==
  ASSUME Shape, LinkInv, link = "nodes", TxPollEnqueue, UNCHANGED <<send, link>>
  PROVE  LinkInv'
<1>1. /\ tx.ongoing /\ tx.waitEnqueue
      /\ UNCHANGED <<rx, boxR, toR, toS, lens, received>>
  BY DEF TxPollEnqueue
<1>2. NodeSender /\ Own = {} /\ tx.asLeft > 0
  BY <1>1 DEF LinkInv, NodeSender
<1>3. /\ tx \in Senders(link) /\ boxS \in Seq(OrApp(Data(link))) /\ tx.frame \in Data(link)
  BY <1>1 DEF Shape, TxShape, BusShape
<1>4. tx.asLeft # 0
  BY <1>2
<1>5. /\ boxS' = Append(boxS, tx.frame)
      /\ tx' = [tx EXCEPT !.waitEnqueue = FALSE, !.framePending = TRUE, !.asLeft = NAs]
  BY <1>4 DEF TxPollEnqueue
<1>6. /\ SameProgress(tx, tx') /\ tx'.frame = tx.frame /\ tx'.asLeft = NAs
      /\ tx'.framePending /\ ~tx'.waitEnqueue
  BY <1>3, <1>5 DEF Senders, SameProgress
<1>7. Own' = {Len(boxS) + 1} /\ boxS'[Len(boxS) + 1] = tx.frame
  <2>1. tx.frame \in OrApp(Data(link)) /\ tx.frame.type # "app"
    BY <1>3 DEF OrApp, Data
  <2>2. /\ Len(boxS') = Len(boxS) + 1 /\ Len(boxS) \in Nat /\ boxS'[Len(boxS) + 1] = tx.frame
        /\ \A i \in 1..Len(boxS) : boxS'[i] = boxS[i]
        /\ \A i \in 1..Len(boxS') : i \in 1..Len(boxS) \/ i = Len(boxS) + 1
    BY ONLY <1>3, <1>5, <2>1, AppendIs
  <2> QED BY <1>2, <2>1, <2>2 DEF Own
<1>8. Path = Append(toR, tx.frame) /\ Path' = Path
  BY <1>1, <1>6, <1>7 DEF Path, Pending
<1>9. Path # <<>>
  <2>1. \A S : \A s \in Seq(S) : \A e : Append(s, e) # <<>>
    BY SMTT(20)
  <2>2. toR \in Seq(Data(link))
    BY LinkFacts
  <2> QED BY <1>8, <2>1, <2>2, Zenon
<1>10. OneAnswer' /\ (Answered' => Answered)
  BY <1>1, AnswerKept DEF LinkInv
<1>11. NAs > 0
  BY IsotpAssumption
<1>12. NodeSender'
  BY <1>1, <1>2, <1>6, <1>7, <1>8, <1>9, <1>11 DEF NodeSender, SameProgress
<1>13. SameSender(Transfer, Transfer')
  <2>1. BlockFull(tx') <=> BlockFull(tx)
    BY <1>6 DEF BlockFull, SameProgress
  <2>2. Transfer' = Transfer
    BY <1>6, <2>1 DEF Transfer, SameProgress
  <2> QED BY <2>2 DEF SameSender
<1>14. InStep(Transfer, Path, Answered, rx, lens, received)
  BY LinkFacts
<1> QED BY <1>1, <1>8, <1>10, <1>12, <1>13, <1>14, NodeLinked

\* A frame is never stuck.
LEMMA NeverStuck ==
  ASSUME LinkInv, link = "nodes"
  PROVE  ~TxPollStuck
BY DEF LinkInv, NodeSender, TxPollStuck

\* What a poll finds that is past its frame.
LEMMA PollFinds ==
  ASSUME Shape, LinkInv, link = "nodes", PollReachesTransfer
  PROVE  /\ tx.ongoing /\ ~tx.waitEnqueue /\ Own = {} /\ Path = toR
         /\ Sent \in Senders(link) /\ SameProgress(tx, Sent) /\ ~Sent.waitEnqueue
         /\ ~Sent.framePending
<1>1. tx \in Senders(link) /\ NodeSender
  BY DEF Shape, TxShape, LinkInv
<1>2. tx.ongoing /\ ~tx.waitEnqueue /\ (tx.framePending => boxS = <<>>)
  BY DEF PollReachesTransfer
<1>3. Own = {}
  <2>1. boxS = <<>> => Own = {}
    BY DEF Own
  <2> QED BY <1>1, <1>2, <2>1 DEF NodeSender
<1>4. /\ Sent \in Senders(link) /\ SameProgress(tx, Sent) /\ ~Sent.waitEnqueue
      /\ ~Sent.framePending
  BY <1>1, <1>2 DEF Sent, Senders, SameProgress
<1> QED BY <1>2, <1>3, <1>4 DEF Path, Pending

\* IsotpTx_Poll: the next consecutive frame joins an empty mailbox of the sender,
\* or its wait.
LEMMA NodeNext ==
  ASSUME Shape, LinkInv, link = "nodes", PollReachesTransfer, UNCHANGED <<toR, link>>,
         ~tx.waitFc, ~BlockFull(tx), ~AllWritten(tx),
         Schedule([Sent EXCEPT !.offset = @ + 1, !.sn = NextSn(@),
                               !.inBlock = @ + 1, !.sentCf = TRUE, !.sinceCf = 0],
                  CF(tx.sn, tx.msg, tx.offset + 1)),
         BlockSize > 0
  PROVE  /\ Transfer.busy /\ ~Transfer.waiting /\ Transfer.offset < lens[Transfer.msg]
         /\ tx.offset \in Nat /\ tx.inBlock \in Nat /\ tx.inBlock < tx.offset
         /\ tx.sn = tx.offset % SnMod
         /\ \E x \in Data(link) :
              /\ x.type = "CF" /\ x.data = Chunk(tx.msg, tx.offset + 1) /\ x.sn = tx.sn
              /\ Path' = Append(toR, x)
         /\ tx'.ongoing /\ tx'.msg = tx.msg /\ tx'.len = tx.len /\ tx.len = lens[tx.msg]
         /\ tx'.offset = tx.offset + 1 /\ tx'.sn = NextSn(tx.sn)
         /\ tx'.bs = BlockSize /\ tx.bs = BlockSize
         /\ tx'.inBlock = tx.inBlock + 1 /\ ~tx'.waitFc
         /\ tx'.asLeft = NAs /\ (tx'.waitEnqueue => Own' = {})
         /\ \A j \in Own' : /\ boxS'[j] = tx'.frame /\ Own' = {j}
                            /\ tx'.framePending /\ ~tx'.waitEnqueue
         /\ Transfer'.busy /\ Transfer'.msg = Transfer.msg
         /\ Transfer'.offset = Transfer.offset + 1 /\ Transfer'.inBlock = Transfer.inBlock + 1
         /\ ~Transfer'.waiting => Transfer'.inBlock < BlockSize
<1>1. /\ tx.ongoing /\ ~tx.waitEnqueue /\ Own = {} /\ Path = toR
      /\ Sent \in Senders(link) /\ SameProgress(tx, Sent) /\ ~Sent.waitEnqueue
      /\ ~Sent.framePending
  BY PollFinds
<1>2. NodeSender
  BY DEF LinkInv
<1>3. tx \in Senders(link) /\ tx.offset <= tx.len /\ boxS \in Seq(OrApp(Data(link)))
  BY DEF Shape, TxShape, BusShape
<1>4. /\ Transfer.busy = tx.ongoing /\ Transfer.msg = tx.msg
      /\ Transfer.offset = tx.offset /\ Transfer.inBlock = tx.inBlock
      /\ Transfer.waiting <=> tx.waitFc \/ BlockFull(tx)
  BY NodeTransferAfter
<1> DEFINE t == [Sent EXCEPT !.offset = @ + 1, !.sn = NextSn(@),
                             !.inBlock = @ + 1, !.sentCf = TRUE, !.sinceCf = 0]
           x == CF(tx.sn, tx.msg, tx.offset + 1)
<1>5. tx.offset \in Nat /\ tx.inBlock \in Nat /\ tx.sn \in Sns /\ tx.len \in Nat /\ tx.msg \in Numbers
  BY <1>1, <1>3, LensPositive, SMTT(20) DEF Senders, Shape, TxShape
<1>6. /\ tx.len = lens[tx.msg] /\ tx.sn = tx.offset % SnMod /\ tx.inBlock < tx.offset
      /\ tx.bs = BlockSize \/ tx.len = 1
  BY <1>1, <1>2 DEF NodeSender
<1>7. tx.offset < tx.len
  BY <1>5 DEF AllWritten
<1>8. tx.len > 1 /\ tx.offset + 1 \in Nat /\ tx.inBlock + 1 \in Nat
      /\ tx.inBlock + 1 < tx.offset + 1
  BY ONLY <1>5, <1>6, <1>7
<1>9. tx.bs = BlockSize
  BY <1>6, <1>8
<1>10. PICK o \in Nat, s \in Sns, i \in Nat, z \in 0..Stmin :
         /\ o = tx.offset + 1 /\ s = NextSn(tx.sn) /\ i = tx.inBlock + 1 /\ z = 0
         /\ t = [Sent EXCEPT !.offset = o, !.sn = s, !.inBlock = i, !.sentCf = TRUE,
                             !.sinceCf = z]
  <2>1. NextSn(tx.sn) \in Sns /\ 0 \in 0..Stmin
    BY <1>5, NextSnType, Ranges
  <2>2. Sent.offset = tx.offset /\ Sent.sn = tx.sn /\ Sent.inBlock = tx.inBlock
    BY <1>1 DEF SameProgress
  <2> QED BY <1>8, <2>1, <2>2, Zenon
<1>11. /\ t \in Senders(link) /\ t.ongoing /\ t.msg = tx.msg /\ t.len = tx.len
       /\ t.offset = o /\ t.sn = s /\ t.bs = BlockSize /\ t.inBlock = i /\ ~t.waitFc
  BY <1>1, <1>9, <1>10 DEF Senders, SameProgress
<1>12. /\ x \in Data(link) /\ x.type = "CF" /\ x.data = Chunk(tx.msg, tx.offset + 1)
       /\ x.sn = tx.sn
  <2>1. x \in Data(link)
    BY <1>5, <1>8, FrameTypes
  <2> QED BY <2>1 DEF CF
<1>13. Schedule(t, x)
  OBVIOUS
<1> HIDE DEF t, x
<1>14. /\ Path' = Append(toR, x) /\ SameProgress(t, tx') /\ tx'.asLeft = NAs
       /\ tx'.waitEnqueue => Own' = {}
       /\ \A j \in Own' : /\ boxS'[j] = tx'.frame /\ Own' = {j}
                          /\ tx'.framePending /\ ~tx'.waitEnqueue
  BY <1>1, <1>3, <1>11, <1>12, <1>13, FrameScheduled
<1>15. /\ tx'.ongoing /\ tx'.msg = tx.msg /\ tx'.len = tx.len
       /\ tx'.offset = o /\ tx'.sn = s /\ tx'.bs = BlockSize /\ tx'.inBlock = i
       /\ ~tx'.waitFc
  BY <1>11, <1>14 DEF SameProgress
<1>16. /\ Transfer'.busy /\ Transfer'.msg = Transfer.msg
       /\ Transfer'.offset = Transfer.offset + 1 /\ Transfer'.inBlock = Transfer.inBlock + 1
       /\ ~Transfer'.waiting => Transfer'.inBlock < BlockSize
  <2>1. /\ Transfer'.busy = tx'.ongoing /\ Transfer'.msg = tx'.msg
        /\ Transfer'.offset = tx'.offset /\ Transfer'.inBlock = tx'.inBlock
        /\ Transfer'.waiting <=> tx'.waitFc \/ BlockFull(tx')
    BY NodeTransferAfter
  <2>2. ~BlockFull(tx') => i < BlockSize
    BY <1>15, IsotpAssumption DEF BlockFull
  <2>3. /\ Transfer'.busy /\ Transfer'.msg = Transfer.msg
        /\ Transfer'.offset = Transfer.offset + 1
        /\ Transfer'.inBlock = Transfer.inBlock + 1 /\ Transfer'.inBlock = i
    BY <1>4, <1>10, <1>15, <2>1, Zenon
  <2> QED BY <2>1, <2>2, <2>3, <1>15
<1> QED BY <1>1, <1>4, <1>5, <1>6, <1>7, <1>9, <1>10, <1>12, <1>14, <1>15, <1>16

LEMMA TxPollTransferLinked ==
  ASSUME Shape, LinkInv, link = "nodes", TxPollTransfer, UNCHANGED <<send, link>>,
         BlockSize > 0
  PROVE  LinkInv'
<1>1. PollReachesTransfer /\ UNCHANGED <<rx, boxR, toR, toS, lens, received>>
  BY DEF TxPollTransfer
<1>2. /\ tx.ongoing /\ ~tx.waitEnqueue /\ Own = {} /\ Path = toR
      /\ Sent \in Senders(link) /\ SameProgress(tx, Sent) /\ ~Sent.waitEnqueue
      /\ ~Sent.framePending
  BY <1>1, PollFinds
<1>3. /\ NodeSender /\ InStep(Transfer, Path, Answered, rx, lens, received)
      /\ toR \in Seq(Data(link)) /\ lens \in Seq(Nat \ {0})
  BY LinkFacts DEF LinkInv
<1>4. OneAnswer' /\ (Answered' => Answered)
  BY <1>1, AnswerKept DEF LinkInv
<1>5. tx \in Senders(link) /\ tx.offset <= tx.len /\ boxS \in Seq(OrApp(Data(link)))
  BY DEF Shape, TxShape, BusShape
<1>6. /\ Transfer.busy = tx.ongoing /\ Transfer.msg = tx.msg
      /\ Transfer.offset = tx.offset /\ Transfer.inBlock = tx.inBlock
      /\ Transfer.waiting <=> tx.waitFc \/ BlockFull(tx)
  BY NodeTransferAfter
<1>7. ASSUME ~Transfer.waiting
      PROVE  ~Answered /\ InStep(Transfer, Path, FALSE, rx, lens, received)
  <2>1. ~Answered
    BY <1>3, <1>7 DEF InStep, Awaited
  <2> QED BY <1>3, <2>1, AnswerGone
<1>8. CASE tx.waitFc /\ FcTimedOut /\ Finish(Sent, "timeout") /\ UNCHANGED boxS
  <2>1. Path = <<>> /\ ~Answered
    BY <1>2, <1>3, <1>8 DEF NodeSender, FcTimedOut
  <2>2. InStep(Transfer, Path, FALSE, rx, lens, received)
    BY <1>3, AnswerGone
  <2> QED BY <1>1, <1>2, <1>4, <1>8, <2>1, <2>2, NodeFinished
<1>9. CASE /\ ~tx.waitFc /\ ~BlockFull(tx) /\ AllWritten(tx)
           /\ Finish(Sent, "ok") /\ UNCHANGED boxS
  <2>1. Transfer.offset = lens[Transfer.msg]
    <3>1. tx.len = lens[tx.msg] /\ tx.offset >= tx.len
      BY <1>2, <1>3, <1>9 DEF NodeSender, AllWritten
    <3>2. tx.offset \in Nat /\ tx.len \in Nat
      BY <1>5, LensPositive DEF Senders
    <3>3. tx.offset = tx.len
      BY ONLY <1>5, <3>1, <3>2
    <3> QED BY <1>6, <3>1, <3>3
  <2>2. ~Answered /\ InStep(Transfer, Path, FALSE, rx, lens, received)
    BY <1>6, <1>7, <1>9
  <2> QED BY <1>1, <1>2, <1>4, <1>9, <2>1, <2>2, NodeFinished
<1>10. CASE tx' = Sent /\ UNCHANGED boxS
  <2>1. Own' = {} /\ Path' = Path
    BY <1>1, <1>2, <1>10 DEF Path, Pending, Own
  <2>2. NodeSender'
    BY <1>1, <1>2, <1>3, <1>4, <1>10, <2>1 DEF NodeSender, SameProgress
  <2>3. SameSender(Transfer, Transfer')
    <3>1. BlockFull(tx') <=> BlockFull(tx)
      BY <1>2, <1>10 DEF BlockFull, SameProgress
    <3>2. Transfer' = Transfer
      BY <1>2, <1>10, <3>1 DEF Transfer, SameProgress
    <3> QED BY <3>2 DEF SameSender
  <2> QED BY <1>1, <1>3, <1>4, <2>1, <2>2, <2>3, NodeLinked
<1>11. CASE /\ ~tx.waitFc /\ BlockFull(tx) /\ UNCHANGED boxS
            /\ tx' = [Sent EXCEPT !.waitFc = TRUE, !.afterBlock = TRUE, !.fcLeft = NCr]
  <2>1. /\ ~tx'.waitEnqueue /\ ~tx'.framePending /\ tx'.waitFc /\ tx'.fcLeft = NCr
        /\ tx'.ongoing = tx.ongoing /\ tx'.msg = tx.msg /\ tx'.len = tx.len
        /\ tx'.offset = tx.offset /\ tx'.sn = tx.sn /\ tx'.inBlock = tx.inBlock
    BY <1>2, <1>11, Ranges DEF Senders, SameProgress
  <2>2. NCr # 0
    BY IsotpAssumption
  <2>3. Own' = {} /\ Path' = Path
    BY <1>1, <1>2, <1>11, <2>1 DEF Path, Pending, Own
  <2>4. tx.len > 1
    <3>1. tx.inBlock < tx.offset /\ tx.bs > 0 /\ tx.inBlock >= tx.bs
      BY <1>2, <1>3, <1>11 DEF NodeSender, BlockFull
    <3>2. tx.inBlock \in Nat /\ tx.offset \in Nat /\ tx.len \in Nat /\ tx.bs \in Nat
      BY <1>5, LensPositive, IsotpAssumption, SMTT(20) DEF Senders
    <3> QED BY ONLY <1>5, <3>1, <3>2
  <2>5. NodeSender'
    BY <1>1, <1>2, <1>3, <2>1, <2>2, <2>3, <2>4 DEF NodeSender
  <2>6. SameSender(Transfer, Transfer')
    <3>1. /\ Transfer'.busy = tx'.ongoing /\ Transfer'.msg = tx'.msg
          /\ Transfer'.offset = tx'.offset /\ Transfer'.inBlock = tx'.inBlock
          /\ Transfer'.waiting = TRUE /\ Transfer.waiting = TRUE
      BY <1>11, <2>1 DEF Transfer
    <3> QED BY <1>6, <2>1, <3>1 DEF SameSender
  <2> QED BY <1>1, <1>3, <1>4, <2>3, <2>5, <2>6, NodeLinked
<1>12. CASE /\ ~tx.waitFc /\ ~BlockFull(tx) /\ ~AllWritten(tx)
            /\ Schedule([Sent EXCEPT !.offset = @ + 1, !.sn = NextSn(@),
                                     !.inBlock = @ + 1, !.sentCf = TRUE, !.sinceCf = 0],
                        CF(tx.sn, tx.msg, tx.offset + 1))
  <2>1. UNCHANGED <<toR, link>>
    BY <1>1
  <2>2. /\ Transfer.busy /\ ~Transfer.waiting /\ Transfer.offset < lens[Transfer.msg]
        /\ tx.offset \in Nat /\ tx.inBlock \in Nat /\ tx.inBlock < tx.offset
        /\ tx.sn = tx.offset % SnMod
        /\ \E x \in Data(link) :
             /\ x.type = "CF" /\ x.data = Chunk(tx.msg, tx.offset + 1) /\ x.sn = tx.sn
             /\ Path' = Append(toR, x)
        /\ tx'.ongoing /\ tx'.msg = tx.msg /\ tx'.len = tx.len /\ tx.len = lens[tx.msg]
        /\ tx'.offset = tx.offset + 1 /\ tx'.sn = NextSn(tx.sn) /\ tx'.bs = BlockSize
        /\ tx'.inBlock = tx.inBlock + 1 /\ ~tx'.waitFc
        /\ tx'.asLeft = NAs /\ (tx'.waitEnqueue => Own' = {})
        /\ \A j \in Own' : /\ boxS'[j] = tx'.frame /\ Own' = {j}
                           /\ tx'.framePending /\ ~tx'.waitEnqueue
        /\ Transfer'.busy /\ Transfer'.msg = Transfer.msg
        /\ Transfer'.offset = Transfer.offset + 1 /\ Transfer'.inBlock = Transfer.inBlock + 1
        /\ ~Transfer'.waiting => Transfer'.inBlock < BlockSize
    BY <1>1, <1>12, <2>1, NodeNext
  <2>3. PICK x \in Data(link) :
          /\ x.type = "CF" /\ x.data = Chunk(tx.msg, tx.offset + 1) /\ x.sn = tx.sn
          /\ Path' = Append(toR, x)
    BY <2>2
  <2>4. InStep(Transfer', Append(toR, x), Answered, rx, lens, received)
    <3> DEFINE v == Transfer
               w == Transfer'
    <3>1. /\ InStep(v, toR, Answered, rx, lens, received) /\ v.busy /\ ~v.waiting
          /\ v.offset \in Nat /\ v.inBlock \in Nat /\ v.offset < lens[v.msg]
          /\ x.data = Chunk(v.msg, v.offset + 1) /\ x.sn = v.offset % SnMod
      BY <1>2, <1>3, <1>6, <2>2, <2>3
    <3>2. /\ w.busy /\ w.msg = v.msg /\ w.offset = v.offset + 1 /\ w.inBlock = v.inBlock + 1
          /\ ~w.waiting => w.inBlock < BlockSize
      BY <2>2
    <3>3. rx.buf \in Seq(Chunks) /\ rx.inBlock \in Nat
      BY LinkFacts
    <3> HIDE DEF v, w
    <3>4. InStep(w, Append(toR, x), Answered, rx, lens, received)
      BY <1>3, <2>3, <3>1, <3>2, <3>3, ChunkSent
    <3> QED BY <3>4 DEF w
  <2>5. Linked'
    BY <1>1, <1>4, <2>3, <2>4, LinkedAfter
  <2>6. tx'.sn = tx'.offset % SnMod
    <3>1. SnMod \in Nat \ {0}
      BY IsotpAssumption
    <3>2. ((tx.offset % SnMod) + 1) % SnMod = (tx.offset + 1) % SnMod
      BY <2>2, <3>1, NextRemainder
    <3> QED BY <2>2, <3>2 DEF NextSn
  <2>7. NodeSender'
    <3>1. NAs > 0 /\ tx'.inBlock < tx'.offset
      BY <2>2, IsotpAssumption, SMTT(20)
    <3> QED BY <1>1, <2>2, <2>6, <3>1 DEF NodeSender
  <2> QED BY <1>1, <1>3, <1>4, <2>5, <2>7 DEF LinkInv
<1> QED BY <1>1, <1>8, <1>9, <1>10, <1>11, <1>12 DEF TxPollTransfer

\* With prompt main loops a tick finds the link quiet.
LEMMA TickLinked ==
  ASSUME Shape, LinkInv, link = "nodes", Tick, UNCHANGED <<send, link>>, Prompt
  PROVE  LinkInv'
<1>1. Quiescent /\ UNCHANGED <<boxS, boxR, toR, toS, lens, received>>
  BY DEF Tick, bus, app
<1>2. tx' = [tx EXCEPT !.asLeft = Less(@), !.fcLeft = Less(@), !.sinceCf = More(@)]
  BY DEF Tick
<1>3. rx' = [rx EXCEPT !.arLeft = Less(@), !.crLeft = Less(@)]
  BY DEF Tick
<1>4. tx \in Senders(link) /\ rx \in Receivers
  BY DEF Shape, TxShape, RxShape
<1>5. /\ SameTransfer(rx, rx') /\ rx'.fcWait = rx.fcWait /\ rx'.fc = rx.fc
  BY <1>3, <1>4 DEF SameTransfer, Receivers
<1>6. /\ tx'.ongoing = tx.ongoing /\ tx'.msg = tx.msg /\ tx'.len = tx.len
      /\ tx'.offset = tx.offset /\ tx'.sn = tx.sn /\ tx'.bs = tx.bs
      /\ tx'.inBlock = tx.inBlock /\ tx'.waitFc = tx.waitFc
      /\ tx'.waitEnqueue = tx.waitEnqueue /\ tx'.framePending = tx.framePending
      /\ tx'.frame = tx.frame
  BY <1>2, <1>4 DEF Senders
<1>7. NodeSender
  BY DEF LinkInv
<1>8. Own = {} /\ ~tx.waitEnqueue /\ Path = <<>> /\ ~Answered
  <2>1. boxS = <<>> /\ boxR = <<>> /\ toR = <<>> /\ toS = <<>> /\ ~rx.fcWait
        /\ (tx.ongoing => ~tx.waitEnqueue /\ ~tx.framePending)
    BY <1>1 DEF Quiescent
  <2>2. Own = {} /\ FcAt(boxR) = {} /\ FcAt(toS) = {}
    BY <2>1 DEF Own, FcAt
  <2>3. ~tx.waitEnqueue
    BY <1>7, <2>1 DEF NodeSender
  <2> QED BY <2>1, <2>2, <2>3 DEF Path, Pending, Answered
<1>9. Own' = {} /\ Path' = Path
  BY <1>1, <1>6, <1>8 DEF Path, Pending, Own
<1>10. OneAnswer' /\ (Answered' => Answered)
  BY <1>1, <1>5, AnswerKept DEF LinkInv
<1>11. tx.ongoing => ~tx.waitEnqueue /\ ~tx.framePending
  BY <1>1 DEF Quiescent
<1>12. NodeSender'
  BY <1>1, <1>6, <1>7, <1>8, <1>9, <1>10, <1>11 DEF NodeSender
<1>13. Transfer' = Transfer
  <2>1. BlockFull(tx') <=> BlockFull(tx)
    BY <1>6 DEF BlockFull
  <2> QED BY <1>6, <2>1 DEF Transfer
<1>14. InStep(Transfer, Path, Answered, rx', lens, received)
  BY <1>5, LinkFacts, TransferUntouched
<1>15. Linked' /\ toR' \in Seq(Data(link))
  BY <1>1, <1>9, <1>10, <1>13, <1>14, LinkedAfter, LinkFacts
<1> QED BY <1>10, <1>12, <1>15 DEF LinkInv

-------------------------------------------------------------------------------
\* The PC's transfer, before and after a step.
LEMMA CallTransfer ==
  ASSUME link = "request"
  PROVE  /\ Transfer.busy <=> send.at # "idle"
         /\ Transfer.msg = send.msg /\ Transfer.offset = send.sent + 1
         /\ Transfer.inBlock = send.inBlock /\ (Transfer.waiting <=> send.at = "fc")
         /\ Path = toR
BY DEF Transfer, Path

LEMMA CallTransferAfter ==
  ASSUME link = "request", UNCHANGED link
  PROVE  /\ Transfer'.busy <=> send'.at # "idle"
         /\ Transfer'.msg = send'.msg /\ Transfer'.offset = send'.sent + 1
         /\ Transfer'.inBlock = send'.inBlock /\ (Transfer'.waiting <=> send'.at = "fc")
         /\ Path' = toR'
BY DEF Transfer, Path

\* The two fates of a frame of the PC.
LEMMA FrameSent ==
  ASSUME Shape, LinkInv, link = "request", UNCHANGED <<rx, boxR, toS, received, link>>,
         NEW x \in Data(link), SendFrame(x), NEW w, NEW ls, lens' = ls, Transfer' = w,
         InStep(w, Append(toR, x), Answered, rx, ls, received), PcSender'
  PROVE  LinkInv'
<1>1. toR \in Seq(Data(link))
  BY LinkFacts
<1>2. InStep(w, toR', Answered, rx, ls, received)
  <2>1. CASE toR' = Append(toR, x)
    BY <2>1
  <2>2. CASE toR' = toR
    BY <1>1, <2>2, FrameLost
  <2> QED BY <2>1, <2>2 DEF SendFrame
<1>3. toR' \in Seq(Data(link))
  <2>1. \A S : \A s \in Seq(S), e \in S : Append(s, e) \in Seq(S)
    OBVIOUS
  <2>2. Append(toR, x) \in Seq(Data(link))
    BY <1>1, <2>1, Zenon
  <2> QED BY <1>1, <2>2 DEF SendFrame
<1>4. OneAnswer' /\ (Answered' => Answered)
  BY AnswerKept DEF LinkInv
<1>5. Path' = toR'
  BY CallTransferAfter
<1>6. Linked'
  BY <1>2, <1>4, <1>5, LinkedAfter
<1> QED BY <1>3, <1>4, <1>6 DEF LinkInv

LEMMA PcSendLinked ==
  ASSUME Shape, LinkInv, link = "request", NEW n \in Requests, PcSend(n), UNCHANGED link,
         BlockSize > 0
  PROVE  LinkInv'
<1> DEFINE m == Len(lens) + 1
<1>1. /\ send.at = "idle" /\ lens' = Append(lens, n)
      /\ UNCHANGED <<tx, rx, boxS, boxR, toS, received>>
  BY DEF PcSend
<1>2. m \in Numbers /\ n \in Nat \ {0} /\ Len(lens) \in Nat /\ lens \in Seq(Nat \ {0})
  <2>1. Len(lens) \in Nat /\ Len(lens) < MaxMsgs /\ lens \in Seq(Nat \ {0})
    BY DEF PcSend, Shape, AppShape
  <2> QED BY <2>1, SendAssumption, IsotpAssumption DEF Numbers
<1>3. Len(lens') = m /\ lens'[m] = n
  BY <1>1, <1>2
<1>4. /\ \/ n = 1 /\ SendFrame(SF(m)) /\ UNCHANGED send
         \/ n > 1 /\ SendFrame(FF(m, n)) /\ send' = AwaitsFc([NoSend EXCEPT !.msg = m, !.len = n])
  BY <1>3 DEF PcSend
<1>5. n \in LensOf(link)
  BY DEF LensOf
<1> HIDE DEF m
<1>6. SF(m) \in Data(link) /\ (n > 1 => FF(m, n) \in Data(link))
  <2>1. n > 1 => n \in LensOf(link) \ {1}
    BY <1>2, <1>5
  <2> QED BY <1>2, <2>1, FrameTypes, Zenon
<1>7. ~Transfer.busy /\ Path = toR
  BY <1>1, CallTransfer
<1>8. InStep(Transfer, toR, Answered, rx, lens, received) /\ toR \in Seq(Data(link))
  BY <1>7, LinkFacts
<1>9. ASSUME NEW x \in Data(link), SendFrame(x), x.data = Chunk(m, 1), PcSender',
             \/ n = 1 /\ x.type = "SF"
             \/ n > 1 /\ x.type = "FF" /\ x.len = n /\ Transfer'.busy /\ Transfer'.waiting,
             Transfer'.busy => Transfer'.msg = m /\ Transfer'.offset = 1 /\ Transfer'.inBlock = 0
      PROVE  LinkInv'
  <2> DEFINE w == Transfer'
             v == Transfer
  <2>1. /\ x.data = Chunk(Len(lens) + 1, 1) /\ ~v.busy
        /\ \/ n = 1 /\ x.type = "SF"
           \/ n > 1 /\ x.type = "FF" /\ x.len = n /\ w.busy /\ w.waiting
        /\ w.busy => w.msg = Len(lens) + 1 /\ w.offset = 1 /\ w.inBlock = 0
        /\ InStep(v, toR, Answered, rx, lens, received)
    BY <1>7, <1>8, <1>9 DEF m
  <2>2. w = Transfer'
    OBVIOUS
  <2> HIDE DEF v, w
  <2>3. InStep(w, Append(toR, x), Answered, rx, Append(lens, n), received)
    BY <1>2, <1>8, <2>1, TransferBegun
  <2> QED BY <1>1, <1>9, <2>2, <2>3, FrameSent
<1>10. CASE n = 1 /\ SendFrame(SF(m)) /\ UNCHANGED send
  <2>1. SF(m).type = "SF" /\ SF(m).data = Chunk(m, 1)
    BY DEF SF
  <2>2. ~Transfer'.busy
    BY <1>1, <1>10, CallTransferAfter
  <2>3. PcSender'
    BY <1>1, <1>10 DEF PcSender
  <2> QED BY <1>6, <1>9, <1>10, <2>1, <2>2, <2>3
<1>11. CASE /\ n > 1 /\ SendFrame(FF(m, n))
            /\ send' = AwaitsFc([NoSend EXCEPT !.msg = m, !.len = n])
  <2>1. FF(m, n).type = "FF" /\ FF(m, n).data = Chunk(m, 1) /\ FF(m, n).len = n
    BY DEF FF
  <2>2. /\ send'.at = "fc" /\ send'.msg = m /\ send'.len = n /\ send'.sent = 0
        /\ send'.inBlock = 0 /\ send'.left = SendTimeout
    BY <1>11 DEF AwaitsFc, NoSend
  <2>3. /\ Transfer'.busy /\ Transfer'.msg = m /\ Transfer'.offset = 1
        /\ Transfer'.inBlock = 0 /\ Transfer'.waiting
    BY <2>2, CallTransferAfter
  <2>4. PcSender'
    BY <1>3, <2>2, SendAssumption DEF PcSender
  <2> QED BY <1>6, <1>9, <1>11, <2>1, <2>3, <2>4
<1> QED BY <1>4, <1>10, <1>11

\* send() ends.
LEMMA CallEnded ==
  ASSUME Shape, LinkInv, link = "request", UNCHANGED <<rx, toR, lens, received, link>>,
         send.at # "idle", send' = NoSend, OneAnswer', ~Answered',
         InStep(Transfer, Path, FALSE, rx, lens, received), Path = <<>>
  PROVE  LinkInv'
<1>1. Transfer.busy /\ ~Transfer'.busy /\ Path' = Path
  BY CallTransfer, CallTransferAfter DEF NoSend
<1>2. InStep(Transfer', Path, FALSE, rx, lens, received)
  <2> DEFINE v == Transfer
             w == Transfer'
  <2>1. /\ v.offset \in Nat /\ v.inBlock \in Nat /\ rx.buf \in Seq(Chunks) /\ rx.inBlock \in Nat
        /\ lens \in Seq(Nat \ {0})
    BY LinkFacts
  <2>2. v.busy /\ ~w.busy /\ InStep(v, Path, FALSE, rx, lens, received)
    BY <1>1
  <2> HIDE DEF v, w
  <2>3. InStep(w, Path, FALSE, rx, lens, received)
    BY <2>1, <2>2, TransferLeft
  <2> QED BY <2>3 DEF w
<1>3. Linked'
  BY <1>1, <1>2, LinkedAfter
<1>4. PcSender'
  BY DEF PcSender, NoSend
<1>5. toR' \in Seq(Data(link))
  BY LinkFacts
<1> QED BY <1>3, <1>4, <1>5 DEF LinkInv

\* A step of send() that moves nothing.
LEMMA CallUnmoved ==
  ASSUME Shape, LinkInv, link = "request",
         UNCHANGED <<tx, boxS, rx, toR, send, lens, received, link>>,
         OneAnswer', Answered' => Answered
  PROVE  LinkInv'
BY EndpointsKept

LEMMA WaitFlowControlLinked ==
  ASSUME Shape, LinkInv, link = "request", WaitFlowControl, UNCHANGED link, BlockSize > 0
  PROVE  LinkInv'
<1>1. /\ send.at = "fc" /\ toS # <<>> /\ toS' = Tail(toS)
      /\ UNCHANGED <<tx, rx, boxS, boxR, toR, lens, received>>
  BY DEF WaitFlowControl
<1>2. toS \in Seq(OrApp(Fcs)) /\ send \in SendCalls /\ PcSender
  BY DEF Shape, BusShape, SendShape, LinkInv
<1>3. /\ OneAnswer' /\ (Answered' => Answered)
      /\ Head(toS).type = "FC" => Answered /\ (Head(toS) # FC("WAIT") => ~Answered')
  BY <1>1, <1>2, AnswerTaken DEF LinkInv
<1>4. /\ Transfer.busy /\ Transfer.waiting /\ Transfer.msg = send.msg
      /\ Transfer.offset = send.sent + 1 /\ Transfer.inBlock = send.inBlock /\ Path = toR
      /\ Path' = toR
  BY <1>1, CallTransfer, CallTransferAfter
<1>5. InStep(Transfer, Path, Answered, rx, lens, received) /\ toR \in Seq(Data(link))
  BY LinkFacts
<1>6. ASSUME SendEnds("timeout"), Overdue
      PROVE  LinkInv'
  <2>1. Path = <<>> /\ ~Answered
    BY <1>1, <1>2, <1>6 DEF PcSender, Overdue
  <2>2. InStep(Transfer, Path, FALSE, rx, lens, received)
    BY <1>5, AnswerGone
  <2> QED BY <1>1, <1>3, <1>6, <2>1, <2>2, CallEnded DEF SendEnds
<1>7. CASE UNCHANGED send
  BY <1>1, <1>3, <1>7, CallUnmoved
<1>8. CASE Head(toS) = FC("WAIT") /\ send' = AwaitsFc(send)
  <2>1. /\ send'.at = "fc" /\ send'.msg = send.msg /\ send'.len = send.len
        /\ send'.sent = send.sent /\ send'.inBlock = send.inBlock /\ send'.left = SendTimeout
    BY <1>2, <1>8, SendAssumption DEF AwaitsFc, SendCalls
  <2>2. SameSender(Transfer, Transfer')
    <3>1. /\ Transfer'.busy /\ Transfer'.waiting
      BY <2>1, CallTransferAfter
    <3>2. Transfer' = Transfer
      BY <1>1, <2>1 DEF Transfer
    <3> QED BY <3>2 DEF SameSender
  <2>3. InStep(Transfer', Path, Answered, rx, lens, received)
    BY <1>5, <2>2, SenderUntouched
  <2>4. Linked'
    BY <1>1, <1>3, <1>4, <2>3, LinkedAfter
  <2>5. PcSender'
    BY <1>1, <1>2, <2>1, SendAssumption DEF PcSender
  <2> QED BY <1>1, <1>3, <1>5, <2>4, <2>5 DEF LinkInv
<1>9. CASE /\ Head(toS) = FC("CTS")
           /\ send' = [send EXCEPT !.at = "cf", !.inBlock = 0, !.pause = Stmin]
  <2>1. /\ send'.at = "cf" /\ send'.msg = send.msg /\ send'.len = send.len
        /\ send'.sent = send.sent /\ send'.inBlock = 0
    BY <1>2, <1>9 DEF SendCalls
  <2>2. Head(toS).type = "FC" /\ Head(toS) # FC("WAIT")
    BY <1>9 DEF FC
  <2>3. /\ Transfer'.busy /\ ~Transfer'.waiting /\ Transfer'.msg = Transfer.msg
        /\ Transfer'.offset = Transfer.offset /\ Transfer'.inBlock = 0
    BY <1>4, <2>1, CallTransferAfter
  <2>4. InStep(Transfer', Path, FALSE, rx, lens, received)
    <3> DEFINE v == Transfer
               w == Transfer'
    <3>1. v.offset \in Nat /\ InStep(v, Path, TRUE, rx, lens, received)
      <4>1. Answered
        BY <1>3, <2>2
      <4> QED BY <1>5, <4>1, LinkFacts, AnswerIs
    <3>2. w.busy /\ w.msg = v.msg /\ w.offset = v.offset /\ w.inBlock = 0 /\ ~w.waiting
      BY <2>3
    <3> HIDE DEF v, w
    <3>3. InStep(w, Path, FALSE, rx, lens, received)
      BY <3>1, <3>2, BlockGranted
    <3> QED BY <3>3 DEF w
  <2>5. Linked'
    BY <1>1, <1>3, <1>4, <2>2, <2>4, LinkedAfter
  <2>6. PcSender'
    BY <1>1, <1>2, <2>1 DEF PcSender
  <2> QED BY <1>1, <1>3, <1>5, <2>5, <2>6 DEF LinkInv
<1>10. CASE Head(toS) \in {FC("OVERFLOW"), FC("reserved")} /\ SendEnds(Head(toS).status)
  <2>1. Head(toS).type = "FC" /\ Head(toS) # FC("WAIT")
    BY <1>10 DEF FC
  <2>2. Answered /\ ~Answered'
    BY <1>3, <2>1
  <2>3. Path = <<>> /\ InStep(Transfer, Path, FALSE, rx, lens, received)
    BY <1>5, <2>2, AnswerGone DEF InStep, Awaited
  <2> QED BY <1>1, <1>3, <1>10, <2>2, <2>3, CallEnded DEF SendEnds
<1> QED BY <1>6, <1>7, <1>8, <1>9, <1>10 DEF WaitFlowControl

LEMMA FlowControlTimeoutLinked ==
  ASSUME Shape, LinkInv, link = "request", FlowControlTimeout, UNCHANGED link
  PROVE  LinkInv'
<1>1. /\ send.at = "fc" /\ send.left = 0 /\ send' = NoSend
      /\ UNCHANGED <<tx, rx, boxS, boxR, toR, toS, lens, received>>
  BY DEF FlowControlTimeout, SendEnds, Overdue, bus
<1>2. Path = <<>> /\ ~Answered
  BY <1>1 DEF LinkInv, PcSender
<1>3. InStep(Transfer, Path, FALSE, rx, lens, received)
  BY LinkFacts, AnswerGone
<1>4. OneAnswer' /\ (Answered' => Answered)
  BY <1>1, AnswerKept DEF LinkInv
<1> QED BY <1>1, <1>2, <1>3, <1>4, CallEnded

\* The next consecutive frame of the PC, and its transfer with that frame.
NextFrame == CF(Sn(send.sent + 1), send.msg, send.sent + 2)
NextCall == [send EXCEPT !.sent = @ + 1, !.inBlock = @ + 1, !.pause = Stmin]
NextTransfer ==
  [busy |-> TRUE, msg |-> send.msg, offset |-> send.sent + 2,
   inBlock |-> send.inBlock + 1, waiting |-> BlockSent(NextCall)]

LEMMA CallNext ==
  ASSUME Shape, LinkInv, link = "request", SendConsecutive, UNCHANGED link, BlockSize > 0
  PROVE  /\ send.at = "cf" /\ SendFrame(NextFrame) /\ send.len = lens[send.msg]
         /\ UNCHANGED <<tx, rx, boxS, boxR, toS, lens, received>>
         /\ NextFrame \in Data(link) /\ NextFrame.type = "CF"
         /\ NextFrame.data = Chunk(Transfer.msg, Transfer.offset + 1)
         /\ Transfer.busy /\ ~Transfer.waiting /\ Transfer.msg = send.msg
         /\ Transfer.offset < lens[Transfer.msg] /\ Path = toR /\ ~Answered
         /\ NextTransfer.busy /\ NextTransfer.msg = Transfer.msg
         /\ NextTransfer.offset = Transfer.offset + 1
         /\ NextTransfer.inBlock = Transfer.inBlock + 1
         /\ (NextTransfer.waiting <=> BlockSent(NextCall))
         /\ InStep(NextTransfer, Append(toR, NextFrame), Answered, rx, lens, received)
         /\ \/ AllSent(NextCall) /\ SendEnds("ok") /\ NextTransfer.offset = lens[NextTransfer.msg]
            \/ /\ ~AllSent(NextCall) /\ UNCHANGED outcome
               /\ send'.at = IF BlockSent(NextCall) THEN "fc" ELSE "cf"
               /\ send'.msg = send.msg /\ send'.len = send.len
               /\ send'.sent = send.sent + 1 /\ send'.inBlock = send.inBlock + 1
               /\ BlockSent(NextCall) => send'.left = SendTimeout
               /\ SameSender(NextTransfer, Transfer')
<1> DEFINE x == NextFrame
           s == NextCall
           w == NextTransfer
           v == Transfer
<1>1. /\ send.at = "cf" /\ SendFrame(x)
      /\ UNCHANGED <<tx, rx, boxS, boxR, toS, lens, received>>
      /\ \/ AllSent(s) /\ SendEnds("ok")
         \/ /\ ~AllSent(s) /\ send' = IF BlockSent(s) THEN AwaitsFc(s) ELSE s
            /\ UNCHANGED outcome
  BY DEF SendConsecutive, NextFrame, NextCall
<1>2. /\ send \in SendCalls /\ send.sent \in Nat /\ send.inBlock \in Nat
      /\ send.msg \in Numbers /\ send.len \in Nat /\ send.sent + 1 < send.len
  <2>1. SendShape /\ send.at # "idle"
    BY <1>1 DEF Shape
  <2>2. send \in SendCalls /\ send.sent + 1 < send.len /\ send.msg \in Numbers
    BY ONLY <2>1 DEF SendShape
  <2>3. send.sent \in Nat /\ send.inBlock \in Nat /\ send.len \in Requests \cup {0}
    BY ONLY <2>2 DEF SendCalls
  <2>4. send.len \in Nat
    <3>1. \A k \in Requests \cup {0} : k \in Nat
      BY SendAssumption
    <3> QED BY <2>3, <3>1, Zenon
  <2> QED BY <2>2, <2>3, <2>4, Zenon
<1>3. /\ s.at = "cf" /\ s.msg = send.msg /\ s.len = send.len /\ s.sent = send.sent + 1
      /\ s.inBlock = send.inBlock + 1
  BY <1>1, <1>2 DEF SendCalls, NextCall
<1>4. x \in Data(link) /\ x.type = "CF" /\ x.data = Chunk(send.msg, send.sent + 2)
      /\ x.sn = (send.sent + 1) % SnMod
  <2>1. Sn(send.sent + 1) \in Sns /\ send.sent + 2 \in Nat
    BY <1>2, IsotpAssumption DEF Sn, Sns
  <2>2. x \in Data(link)
    BY <1>2, <2>1, FrameTypes DEF NextFrame
  <2> QED BY <2>2 DEF CF, Sn, NextFrame
<1>5. /\ v.busy /\ ~v.waiting /\ v.msg = send.msg /\ v.offset = send.sent + 1
      /\ v.inBlock = send.inBlock /\ Path = toR
  BY <1>1, CallTransfer
<1>6. /\ InStep(v, toR, Answered, rx, lens, received) /\ lens \in Seq(Nat \ {0})
      /\ toR \in Seq(Data(link)) /\ rx.buf \in Seq(Chunks) /\ rx.inBlock \in Nat
      /\ v.offset \in Nat /\ v.inBlock \in Nat
  BY <1>5, LinkFacts
<1>7. send.len = lens[send.msg]
  BY <1>1 DEF LinkInv, PcSender
<1>8. send.inBlock < BlockSize
  <2>1. v.busy => (~v.waiting /\ lens[v.msg] > 1 => v.inBlock < BlockSize)
    BY <1>6 DEF InStep, OwnTransfer
  <2>2. lens[v.msg] > 1
    BY <1>2, <1>5, <1>7
  <2> QED BY <1>5, <2>1, <2>2
<1>9. /\ w.busy /\ w.msg = v.msg /\ w.offset = v.offset + 1 /\ w.inBlock = v.inBlock + 1
      /\ (w.waiting <=> BlockSent(s)) /\ (~w.waiting => w.inBlock < BlockSize)
  <2>1. ~BlockSent(s) => send.inBlock + 1 < BlockSize
    BY <1>2, <1>3, <1>8, IsotpAssumption DEF BlockSent
  <2>2. send.sent + 2 = (send.sent + 1) + 1
    BY <1>2
  <2> QED BY <1>5, <2>1, <2>2 DEF NextTransfer
<1>10. ~Answered
  BY <1>5, <1>6 DEF InStep, Awaited
<1>11. v.offset < lens[v.msg] /\ x.data = Chunk(v.msg, v.offset + 1) /\ x.sn = v.offset % SnMod
  <2>1. send.sent + 2 = (send.sent + 1) + 1
    BY <1>2
  <2> QED BY <1>2, <1>4, <1>5, <1>7, <2>1
<1> HIDE DEF v, w, s, x
<1>12. InStep(w, Append(toR, x), Answered, rx, lens, received)
  BY <1>4, <1>5, <1>6, <1>9, <1>11, ChunkSent
<1>13. AllSent(s) => w.offset = lens[w.msg]
  BY <1>2, <1>3, <1>5, <1>7, <1>9 DEF AllSent, w, NextTransfer
<1>14. ASSUME ~AllSent(s), send' = IF BlockSent(s) THEN AwaitsFc(s) ELSE s
       PROVE  /\ send'.at = IF BlockSent(s) THEN "fc" ELSE "cf"
              /\ send'.msg = send.msg /\ send'.len = send.len
              /\ send'.sent = send.sent + 1 /\ send'.inBlock = send.inBlock + 1
              /\ BlockSent(s) => send'.left = SendTimeout
              /\ SameSender(w, Transfer')
  <2>1. /\ send'.at = IF BlockSent(s) THEN "fc" ELSE "cf"
        /\ send'.msg = send.msg /\ send'.len = send.len
        /\ send'.sent = send.sent + 1 /\ send'.inBlock = send.inBlock + 1
        /\ BlockSent(s) => send'.left = SendTimeout
    <3>1. CASE BlockSent(s)
      <4>1. send' = [s EXCEPT !.at = "fc", !.left = SendTimeout]
        BY <1>14, <3>1 DEF AwaitsFc
      <4>2. PICK a \in Nat, b \in Nat, c \in 0..Stmin :
              s = [send EXCEPT !.sent = a, !.inBlock = b, !.pause = c]
        <5>1. send.sent + 1 \in Nat /\ send.inBlock + 1 \in Nat /\ Stmin \in 0..Stmin
          BY <1>2, IsotpAssumption
        <5> QED BY <5>1, Zenon DEF s, NextCall
      <4>3. s \in SendCalls
        BY <1>2, <4>2 DEF SendCalls
      <4> QED BY <1>3, <3>1, <4>1, <4>3 DEF SendCalls
    <3>2. CASE ~BlockSent(s)
      BY <1>3, <1>14, <3>2
    <3> QED BY <3>1, <3>2
  <2>2. SameSender(w, Transfer')
    <3>1. /\ Transfer'.busy = (send'.at # "idle") /\ Transfer'.waiting = (send'.at = "fc")
          /\ Transfer'.msg = send'.msg /\ Transfer'.offset = send'.sent + 1
          /\ Transfer'.inBlock = send'.inBlock
      BY DEF Transfer
    <3>2. w.busy = TRUE /\ w.waiting = BlockSent(s) /\ w.msg = send.msg
          /\ w.offset = send.sent + 2 /\ w.inBlock = send.inBlock + 1
      BY DEF w, s, NextTransfer
    <3>3. (send.sent + 1) + 1 = send.sent + 2
      BY <1>2
    <3>4. (send'.at # "idle") = TRUE /\ (send'.at = "fc") = BlockSent(s)
      BY <2>1 DEF BlockSent
    <3> QED BY <2>1, <3>1, <3>2, <3>3, <3>4 DEF SameSender
  <2> QED BY <2>1, <2>2, Zenon
<1>15. \/ AllSent(s) /\ SendEnds("ok") /\ w.offset = lens[w.msg]
       \/ /\ ~AllSent(s) /\ UNCHANGED outcome
          /\ send'.at = IF BlockSent(s) THEN "fc" ELSE "cf"
          /\ send'.msg = send.msg /\ send'.len = send.len
          /\ send'.sent = send.sent + 1 /\ send'.inBlock = send.inBlock + 1
          /\ BlockSent(s) => send'.left = SendTimeout
          /\ SameSender(w, Transfer')
  BY <1>1, <1>13, <1>14, Zenon
<1>16. /\ send.at = "cf" /\ SendFrame(x) /\ send.len = lens[send.msg]
       /\ UNCHANGED <<tx, rx, boxS, boxR, toS, lens, received>>
       /\ x \in Data(link) /\ x.type = "CF" /\ x.data = Chunk(v.msg, v.offset + 1)
       /\ v.busy /\ ~v.waiting /\ v.msg = send.msg /\ v.offset < lens[v.msg]
       /\ Path = toR /\ ~Answered
       /\ w.busy /\ w.msg = v.msg /\ w.offset = v.offset + 1 /\ w.inBlock = v.inBlock + 1
       /\ (w.waiting <=> BlockSent(s))
  BY <1>1, <1>4, <1>5, <1>7, <1>9, <1>10, <1>11, Zenon
<1> QED BY <1>12, <1>15, <1>16, Zenon DEF v, w, s, x

LEMMA SendConsecutiveLinked ==
  ASSUME Shape, LinkInv, link = "request", SendConsecutive, UNCHANGED link, BlockSize > 0
  PROVE  LinkInv'
<1> DEFINE x == NextFrame
           s == NextCall
           w == NextTransfer
           v == Transfer
           u == Transfer'
<1>1. /\ send.at = "cf" /\ SendFrame(x) /\ send.len = lens[send.msg] /\ x \in Data(link)
      /\ UNCHANGED <<tx, rx, boxS, boxR, toS, lens, received>>
      /\ ~Answered /\ w.busy /\ w.msg = v.msg /\ w.offset = v.offset + 1
      /\ w.inBlock = v.inBlock + 1 /\ InStep(w, Append(toR, x), Answered, rx, lens, received)
      /\ \/ AllSent(s) /\ send' = NoSend /\ w.offset = lens[w.msg]
         \/ /\ send'.at = IF BlockSent(s) THEN "fc" ELSE "cf"
            /\ send'.msg = send.msg /\ send'.len = send.len
            /\ BlockSent(s) => send'.left = SendTimeout
            /\ SameSender(w, u)
  BY CallNext DEF SendEnds
<1>2. /\ lens \in Seq(Nat \ {0}) /\ rx.buf \in Seq(Chunks) /\ rx.inBlock \in Nat
      /\ v.offset \in Nat /\ v.inBlock \in Nat
  BY LinkFacts
<1>3. w.offset \in Nat /\ w.inBlock \in Nat
  BY <1>1, <1>2, SMTT(20)
<1>4. u = Transfer'
  OBVIOUS
<1>5. send' = NoSend => ~u.busy
  BY CallTransferAfter DEF NoSend
<1> HIDE DEF v, w, s, x, u
<1>6. CASE AllSent(s) /\ send' = NoSend /\ w.offset = lens[w.msg]
  <2>1. InStep(w, Append(toR, x), FALSE, rx, lens, received)
    BY <1>1, AnswerGone
  <2>2. InStep(u, Append(toR, x), FALSE, rx, lens, received)
    BY <1>1, <1>2, <1>3, <1>5, <1>6, <2>1, TransferLeft
  <2>3. InStep(u, Append(toR, x), Answered, rx, lens, received)
    BY <1>1, <2>2, AnswerIs
  <2>4. PcSender'
    BY <1>6 DEF PcSender, NoSend
  <2> QED BY <1>1, <1>4, <2>3, <2>4, FrameSent
<1>7. CASE /\ send'.at = IF BlockSent(s) THEN "fc" ELSE "cf"
           /\ send'.msg = send.msg /\ send'.len = send.len
           /\ BlockSent(s) => send'.left = SendTimeout
           /\ SameSender(w, u)
  <2>1. InStep(u, Append(toR, x), Answered, rx, lens, received)
    BY <1>1, <1>7, SenderUntouched
  <2>2. PcSender'
    BY <1>1, <1>7, SendAssumption DEF PcSender
  <2> QED BY <1>1, <1>4, <2>1, <2>2, FrameSent
<1> QED BY <1>1, <1>6, <1>7

LEMMA SendTickLinked ==
  ASSUME Shape, LinkInv, link = "request", SendTick, UNCHANGED link, Prompt
  PROVE  LinkInv'
<1>1. SendQuiescent /\ UNCHANGED <<tx, boxS, boxR, toR, toS, lens, received>>
  BY DEF SendTick, bus, app
<1>2. /\ send' = [send EXCEPT !.left = Less(@), !.pause = Less(@)]
      /\ rx' = [rx EXCEPT !.arLeft = Less(@), !.crLeft = Less(@)]
  BY DEF SendTick
<1>3. send \in SendCalls /\ rx \in Receivers /\ PcSender
  BY DEF Shape, SendShape, RxShape, LinkInv
<1>4. SameTransfer(rx, rx') /\ rx'.fcWait = rx.fcWait /\ rx'.fc = rx.fc
  BY <1>2, <1>3 DEF SameTransfer, Receivers
<1>5. /\ send'.at = send.at /\ send'.msg = send.msg /\ send'.len = send.len
      /\ send'.sent = send.sent /\ send'.inBlock = send.inBlock
  BY <1>2, <1>3 DEF SendCalls
<1>6. Path = <<>> /\ Path' = <<>> /\ Transfer' = Transfer
  BY <1>1, <1>5 DEF SendQuiescent, Path, Transfer
<1>7. OneAnswer' /\ (Answered' => Answered)
  BY <1>1, <1>4, AnswerKept DEF LinkInv
<1>8. send.at = "fc" => ~Answered
  <2>1. boxR = <<>> /\ ~rx.fcWait /\ (send.at = "fc" => toS = <<>>)
    BY <1>1 DEF SendQuiescent
  <2>2. FcAt(<<>>) = {}
    BY DEF FcAt
  <2> QED BY <2>1, <2>2 DEF Answered
<1>9. PcSender'
  BY <1>1, <1>3, <1>5, <1>6, <1>7, <1>8 DEF PcSender
<1>10. InStep(Transfer, Path, Answered, rx', lens, received) /\ toR' \in Seq(Data(link))
  BY <1>1, <1>4, LinkFacts, TransferUntouched
<1>11. Linked'
  BY <1>1, <1>6, <1>7, <1>10, LinkedAfter
<1> QED BY <1>7, <1>9, <1>10, <1>11 DEF LinkInv

-------------------------------------------------------------------------------
\* The two links are in step at first.
LEMMA LinkInvInit == LinksInit => LinkInv
<1> SUFFICES ASSUME LinksInit, link # "response" PROVE LinkInv
  BY DEF LinkInv
<1>1. /\ tx.ongoing = FALSE /\ tx.waitEnqueue = FALSE /\ send.at = "idle"
      /\ rx.inProgress = FALSE /\ rx.ready = FALSE /\ rx.fcWait = FALSE
      /\ boxS = <<>> /\ boxR = <<>> /\ toR = <<>> /\ toS = <<>> /\ received = <<>>
  BY DEF LinksInit, Init, NoSend
<1>2. Own = {} /\ FcAt(boxR) = {} /\ FcAt(toS) = {}
  BY <1>1 DEF Own, FcAt
<1>3. Path = <<>> /\ ~Answered
  BY <1>1, <1>2 DEF Path, Pending, Answered
<1>4. ~Transfer.busy
  BY <1>1 DEF Transfer
<1>5. Linked
  <2> DEFINE v == Transfer
  <2>1. ~v.busy
    BY <1>4
  <2> HIDE DEF v
  <2>2. /\ OwnTransfer(v, lens) /\ HandedOver(v, <<>>) /\ Awaited(v, <<>>, FALSE, rx)
        /\ SameBlock(v, rx) /\ Granted(v, rx, lens)
    BY <1>1, <2>1 DEF OwnTransfer, HandedOver, Awaited, SameBlock, Granted
  <2>3. /\ \A i \in 1..Len(<<>>) : FrameFits(<<>>[i], lens)
        /\ InOrderOnPath(<<>>) /\ FirstLast(v, <<>>, FALSE) /\ InWindow(<<>>, rx)
        /\ LeftInWindow(v, <<>>, rx, lens) /\ OneBlock(v, <<>>)
    BY <1>1 DEF InOrderOnPath, FirstLast, InWindow, LeftInWindow, OneBlock
  <2>4. Assembled(rx, lens) /\ ReadInOrder(<<>>, rx, lens, <<>>)
    BY <1>1 DEF Assembled, ReadInOrder
  <2>5. InStep(v, <<>>, FALSE, rx, lens, <<>>)
    BY <2>2, <2>3, <2>4 DEF InStep
  <2>6. InStep(v, <<>>, Answered, rx, lens, <<>>)
    BY <1>3, <2>5, AnswerIs
  <2> QED BY <1>1, <1>3, <2>6 DEF Linked, v
<1>6. OneAnswer /\ NodeSender /\ PcSender
  BY <1>1, <1>2 DEF OneAnswer, NodeSender, PcSender
<1>7. toR \in Seq(Data(link))
  BY <1>1
<1> QED BY <1>5, <1>6, <1>7 DEF LinkInv

\* The main loops and the bus are fast, and the receiver advertises blocks whose
\* sequence numbers do not repeat.
FastLinks == Prompt /\ BlockSize > 0 /\ BlockSize <= SnMod

LEMMA LinkInvKept ==
  ASSUME Shape, LinkInv, [LinksNext]_allVars, FastLinks
  PROVE  LinkInv'
<1> USE DEF FastLinks
<1>1. CASE link = "response"
  BY <1>1 DEF LinkInv, allVars, LinksNext, NodeReceives, NodeSends, Others, Ticks, On,
              Requesting, Responding
<1>2. CASE UNCHANGED allVars
  BY <1>2 DEF allVars, vars, bus, app, env, LinkInv, Linked, OneAnswer, NodeSender, PcSender,
              Transfer, Path, Pending, Own, Answered, FcAt, BlockFull
<1>3. CASE LinksNext /\ link # "response"
  <2>1. CASE /\ link \in {"nodes", "request"} /\ UNCHANGED <<send, recv, link>>
             /\ RxOnFrame \/ RxPoll \/ RxRead \/ TransmitsR \/ ForeignFc
    BY <1>3, <2>1, SingleLinked, FirstLinked, ConsecutiveLinked, RxPollLinked, RxReadLinked,
       TransmitRLinked, ForeignLinked DEF RxOnFrame
  <2>2. CASE /\ link = "nodes" /\ UNCHANGED <<send, recv, link>>
             /\ \/ \E n \in LensOf(link) : TxStart(n)
                \/ TxOnFrame \/ TxPollEnqueue \/ TxPollStuck \/ TxPollTransfer \/ TransmitsS
                \/ AppSends \/ Tick
    BY <2>2, TxStartLinked, TxOnFrameLinked, TxPollEnqueueLinked, NeverStuck,
       TxPollTransferLinked, TransmitSLinked, AppSendsLinked, TickLinked
  <2>3. CASE /\ link = "request" /\ UNCHANGED <<recv, link>>
             /\ \/ \E n \in Requests : PcSend(n)
                \/ WaitFlowControl \/ FlowControlTimeout \/ SendConsecutive
                \/ OtherRequestFrames \/ SendTick
    BY <2>3, PcSendLinked, WaitFlowControlLinked, FlowControlTimeoutLinked,
       SendConsecutiveLinked, OtherRequestFramesLinked, SendTickLinked
  <2> QED BY <1>3, <2>1, <2>2, <2>3, LinkSteps
<1> QED BY <1>1, <1>2, <1>3

-------------------------------------------------------------------------------
\* The numbers the abstract link delivers.
LEMMA NumberKnown ==
  ASSUME NEW ls \in Seq(Nat \ {0}), NEW b \in Seq(Chunks), NEW k \in 1..Len(ls),
         b = Message(k, ls[k]), k = b[1][1]
  PROVE  (IF \E m \in 1..Len(ls) : b = Message(m, ls[m]) THEN Head(b)[1] ELSE 0) = k
<1>1. Len(b) > 0
  <2>1. ls[k] \in Nat /\ ls[k] > 0
    OBVIOUS
  <2>2. DOMAIN b = 1..ls[k]
    BY DEF Message
  <2> QED BY <2>1, <2>2
<1>2. Head(b) = b[1]
  BY <1>1
<1>3. \E m \in 1..Len(ls) : b = Message(m, ls[m])
  OBVIOUS
<1> QED BY <1>2, <1>3

Delivered ==
  IF link = "response" THEN <<>>
  ELSE [i \in 1..Len(received) |-> NumberRead(received, i)]

DeliveredNumbers ==
  IF link = "response" THEN <<>>
  ELSE [i \in 1..Len(received) |-> NumberOf(received[i])]

LEMMA DeliveredIs ==
  /\ Shape /\ LinkInv => DeliveredNumbers = Delivered
  /\ Shape' /\ LinkInv' => DeliveredNumbers' = Delivered'
<1>1. ASSUME Shape, LinkInv, link # "response", NEW i \in 1..Len(received)
      PROVE  NumberOf(received[i]) = NumberRead(received, i)
  <2>1. /\ lens \in Seq(Nat \ {0}) /\ received \in Seq(Seq(Chunks))
        /\ ReadInOrder(Path, rx, lens, received)
    BY <1>1 DEF Shape, AppShape, LinkInv, Linked, InStep
  <2>2. /\ received[i] \in Seq(Chunks) /\ NumberRead(received, i) \in 1..Len(lens)
        /\ received[i] = Message(NumberRead(received, i), lens[NumberRead(received, i)])
        /\ NumberRead(received, i) = received[i][1][1]
    BY <1>1, <2>1, SMTT(20) DEF ReadInOrder, NumberRead
  <2> QED BY <2>1, <2>2, NumberKnown DEF NumberOf
<1>2. ASSUME Shape', LinkInv', link' # "response", NEW i \in 1..Len(received')
      PROVE  NumberOf(received[i])' = NumberRead(received', i)
  <2>1. /\ lens' \in Seq(Nat \ {0}) /\ received' \in Seq(Seq(Chunks))
        /\ ReadInOrder(Path', rx', lens', received')
    BY <1>2 DEF Shape, AppShape, LinkInv, Linked, InStep
  <2>2. /\ received'[i] \in Seq(Chunks) /\ NumberRead(received', i) \in 1..Len(lens')
        /\ received'[i] = Message(NumberRead(received', i), lens'[NumberRead(received', i)])
        /\ NumberRead(received', i) = received'[i][1][1]
    BY <1>2, <2>1 DEF ReadInOrder, NumberRead
  <2> QED BY <2>1, <2>2, NumberKnown DEF NumberOf
<1>3. ASSUME Shape, LinkInv
      PROVE  DeliveredNumbers = Delivered
  BY <1>1, <1>3 DEF DeliveredNumbers, Delivered
<1>4. ASSUME Shape', LinkInv'
      PROVE  DeliveredNumbers' = Delivered'
  BY <1>2, <1>4 DEF DeliveredNumbers, Delivered
<1> QED BY <1>3, <1>4

\* What a step does to the messages submitted and read.
Submits(n) ==
  Len(lens) < MaxMsgs /\ n \in Nat \ {0} /\ lens' = Append(lens, n) /\ UNCHANGED received

LEMMA AppSteps ==
  ASSUME Shape, LinksNext
  PROVE  /\ UNCHANGED link
         /\ \/ \E n : Submits(n)
            \/ UNCHANGED <<lens, received>>
            \/ UNCHANGED lens /\ link = "response"
            \/ UNCHANGED <<lens, send>> /\ link # "response" /\ RxRead
<1>1. CASE /\ link \in {"nodes", "request"} /\ UNCHANGED <<send, recv, link>>
           /\ RxOnFrame \/ RxPoll \/ RxRead \/ TransmitsR \/ ForeignFc
  BY <1>1 DEF RxOnFrame, RxOnSF, RxOnFF, RxOnCF, RxTake, RxPoll, RxRead, TransmitsR, TransmitR,
              ForeignFc, app
<1>2. CASE /\ link \in {"nodes", "response"} /\ UNCHANGED <<send, recv, link>>
           /\ \/ \E n \in LensOf(link) : TxStart(n)
              \/ TxOnFrame \/ TxPollEnqueue \/ TxPollStuck \/ TxPollTransfer \/ TransmitsS
  <2>1. CASE \E n \in LensOf(link) : TxStart(n)
    <3>1. PICK n \in LensOf(link) : TxStart(n)
      BY <2>1
    <3>2. n \in Nat \ {0}
      BY <1>2, <3>1, LensPositive
    <3> QED BY <1>2, <3>1, <3>2 DEF TxStart, Submits
  <2> QED BY <1>2, <2>1
          DEF TxOnFrame, TxPollEnqueue, TxPollStuck, TxPollTransfer, TransmitsS, TransmitS, app
<1>3. CASE link = "nodes" /\ UNCHANGED <<send, recv, link>> /\ (AppSends \/ Tick)
  BY <1>3 DEF AppSends, Tick, app
<1>4. CASE /\ link = "request" /\ UNCHANGED <<recv, link>>
           /\ \/ \E n \in Requests : PcSend(n)
              \/ WaitFlowControl \/ FlowControlTimeout \/ SendConsecutive
              \/ OtherRequestFrames \/ SendTick
  <2>1. CASE \E n \in Requests : PcSend(n)
    <3>1. PICK n \in Requests : PcSend(n)
      BY <2>1
    <3>2. n \in Nat \ {0}
      BY <3>1, SendAssumption
    <3> QED BY <1>4, <3>1, <3>2 DEF PcSend, Submits
  <2> QED BY <1>4, <2>1
          DEF WaitFlowControl, FlowControlTimeout, SendConsecutive, OtherRequestFrames,
              SendTick, app
<1>5. CASE /\ link = "response" /\ UNCHANGED <<send, link>>
           /\ \/ PcReceive \/ ReceiveFirst \/ ReceiveRest \/ ReceiveTimeout
              \/ OtherResponseFrames \/ ReceiveTick
  BY <1>5 DEF PcReceive, ReceiveFirst, ReceiveRest, ReceiveTimeout, TakesFrame,
              OtherResponseFrames, ReceiveTick, vars, app
<1> QED BY <1>1, <1>2, <1>3, <1>4, <1>5, LinkSteps

LEMMA DeliveredNext ==
  ASSUME NEW rd \in Seq(Seq(Chunks)), NEW b \in Seq(Chunks)
  PROVE  [i \in 1..Len(Append(rd, b)) |-> NumberRead(Append(rd, b), i)]
         = Append([i \in 1..Len(rd) |-> NumberRead(rd, i)], b[1][1])
<1> DEFINE d == [i \in 1..Len(rd) |-> NumberRead(rd, i)]
<1>1. \A i \in 1..Len(rd) : Append(rd, b)[i] = rd[i]
  OBVIOUS
<1>2. Append(rd, b)[Len(rd) + 1] = b /\ Len(Append(rd, b)) = Len(rd) + 1
  OBVIOUS
<1>3. Len(rd) \in Nat
  OBVIOUS
<1>4. Len(d) = Len(rd)
  BY <1>3
<1>5. Append(d, b[1][1]) = [i \in 1..(Len(rd) + 1) |-> IF i = Len(rd) + 1 THEN b[1][1] ELSE d[i]]
  BY <1>4, <1>3
<1> QED BY <1>1, <1>2, <1>3, <1>5 DEF NumberRead

\* Every step of a link is one of the abstract link, or leaves it alone.
LEMMA LinkStepRefines ==
  ASSUME Shape, LinkInv, [LinksNext]_allVars, FastLinks
  PROVE  [NodeLink!Next]_(NodeLink!vars)
<1>1. Shape' /\ LinkInv'
  BY ShapeKept, LinkInvKept
<1>2. DeliveredNumbers = Delivered /\ DeliveredNumbers' = Delivered'
  BY <1>1, DeliveredIs
<1>3. NodeLink!vars = <<Len(lens), Delivered>> /\ NodeLink!vars' = <<Len(lens'), Delivered'>>
  BY <1>2 DEF NodeLink!vars, DeliveredNumbers
<1>4. lens \in Seq(Nat \ {0}) /\ Len(lens) \in Nat /\ Len(lens) <= MaxMsgs /\ MaxMsgs \in Nat
  BY IsotpAssumption DEF Shape, AppShape
<1>5. ASSUME UNCHANGED <<lens, link>>, UNCHANGED received \/ link = "response"
      PROVE  UNCHANGED NodeLink!vars
  BY <1>3, <1>5 DEF Delivered, NumberRead
<1>6. ASSUME UNCHANGED link, NEW n, Submits(n)
      PROVE  NodeLink!Submit
  <2>1. Delivered' = Delivered
    BY <1>6 DEF Submits, Delivered, NumberRead
  <2>2. Len(lens') = Len(lens) + 1
    BY <1>4, <1>6 DEF Submits
  <2> QED BY <1>2, <1>6, <2>1, <2>2 DEF NodeLink!Submit, Submits, DeliveredNumbers
<1>7. ASSUME UNCHANGED <<lens, send, link>>, link # "response", RxRead
      PROVE  \E m \in 1..MaxMsgs : NodeLink!Deliver(m)
  <2> DEFINE m == RxMsg(rx)
  <2>1. /\ received' = Append(received, rx.buf) /\ m \in 1..Len(lens)
        /\ \A i \in 1..Len(received) : NumberRead(received, i) < m
    BY <1>7, RxReadLinked
  <2>2. received \in Seq(Seq(Chunks)) /\ rx.buf \in Seq(Chunks)
    BY <1>7, LinkFacts
  <2>3. Delivered' = Append(Delivered, m)
    BY <1>7, <2>1, <2>2, DeliveredNext DEF Delivered, RxMsg
  <2>4. \A i \in 1..Len(Delivered) : Delivered[i] < m
    <3>1. Delivered = [i \in 1..Len(received) |-> NumberRead(received, i)]
      BY <1>7 DEF Delivered
    <3>2. Len(received) \in Nat
      BY <2>2
    <3>3. Len(Delivered) = Len(received)
      BY <3>1, <3>2
    <3> QED BY <2>1, <3>1, <3>3
  <2> HIDE DEF m
  <2>5. m \in 1..MaxMsgs /\ m <= Len(lens)
    BY <1>4, <2>1
  <2>6. NodeLink!Deliver(m)
    BY <1>2, <1>7, <2>3, <2>4, <2>5 DEF NodeLink!Deliver, DeliveredNumbers
  <2> QED BY <2>5, <2>6
<1>8. CASE UNCHANGED allVars
  BY <1>5, <1>8 DEF allVars, vars, app
<1>9. CASE LinksNext
  BY <1>5, <1>6, <1>7, <1>9, AppSteps DEF NodeLink!Next
<1> QED BY <1>8, <1>9

\* The node-to-node link, and the requests of the PC, are the link the layer above
\* is promised (NodeLinkSpec): messages whole, at most once and in order.  It is
\* so whenever main loops and bus are fast compared to the ticks of the N_*
\* timeouts and the receiver advertises a block of at most as many frames as there
\* are sequence numbers: isotp.c advertises blocks of 8 and counts to 16.  In a
\* longer block, or an endless one, as many consecutive frames as there are numbers
\* could be lost together, and the next one would pass for the first of them.
THEOREM NodeLinkRefines ==
  ASSUME FastLinks
  PROVE  LinksSpec => NodeLinkSpec
<1>1. LinksInit => NodeLink!Init
  BY DEF LinksInit, Init, NodeLink!Init
<1>2. LinksInit => Shape /\ LinkInv
  BY InitShape, LinkInvInit
<1>3. Shape /\ LinkInv /\ [LinksNext]_allVars => Shape' /\ LinkInv'
  BY ShapeKept, LinkInvKept
<1>4. Shape /\ LinkInv /\ [LinksNext]_allVars => [NodeLink!Next]_(NodeLink!vars)
  BY LinkStepRefines
<1> QED BY <1>1, <1>2, <1>3, <1>4, PTL DEF LinksSpec, NodeLinkSpec

-------------------------------------------------------------------------------
(***************************************************************************)
(* Verdicts.  A chunk is somewhere only after its sender handed it over,   *)
(* and a sender that runs into a timeout has not handed over the last      *)
(* one: it waits for flow control, at the start or after a full block.     *)
(* What a given-up transfer left behind therefore never becomes whole.     *)
(* The argument needs no agreement between the ends, and so covers the     *)
(* responses to the PC as well.                                            *)
(***************************************************************************)
\* No message ends together with a block, other than those a receiver refuses
\* and those send() transmits, which does not wait after its last frame.
EndsInBlock(n) == n > 1 /\ BlockSize > 0 => (n - 1) % BlockSize # 0

NoBlockEnds ==
  /\ \A n \in Lens : n <= Capacity => EndsInBlock(n)
  /\ \A n \in Responses : EndsInBlock(n)

\* The chunks in a queue of frames, and everywhere from the sender to the reader.
DataIn(queue) == {queue[i].data : i \in {j \in 1..Len(queue) : queue[j].type \in {"SF", "FF", "CF"}}}
Elements(s) == {s[i] : i \in 1..Len(s)}
Waiting == IF tx.waitEnqueue THEN {tx.frame.data} ELSE {}
AllRead == UNION {Elements(received[i]) : i \in 1..Len(received)}

Around ==
  Waiting \cup DataIn(boxS) \cup DataIn(toR)
  \cup Elements(rx.buf) \cup Elements(recv.payload) \cup AllRead

\* The receiver of a node holds no message longer than its buffer, other than the
\* chunk of a single frame.
Fits(b) == Len(b) <= Capacity \/ Len(b) <= 1
TooLong(n) == link # "response" /\ n > Capacity /\ n > 1

Bounded ==
  /\ rx.inProgress => Len(rx.buf) < rx.declared
  /\ rx.ready => Fits(rx.buf)
  /\ link # "response" => \A i \in 1..Len(received) : Fits(received[i])

\* The transfer of a node's sender: its timers run while a frame waits, and blocks
\* are counted from the first consecutive frame.
BlocksCounted(t) ==
  /\ t.inBlock < t.offset
  /\ BlockSize > 0 => t.inBlock <= BlockSize /\ (t.offset - 1 - t.inBlock) % BlockSize = 0
  /\ t.len > 1 /\ ~t.waitFc => t.bs = BlockSize
  /\ t.waitFc => t.len > 1 /\ (t.offset = 1 \/ (BlockSize > 0 /\ t.inBlock = BlockSize))

Transferring ==
  /\ link # "request" /\ tx.ongoing =>
       /\ tx.msg \in 1..Len(lens) /\ tx.len = lens[tx.msg] /\ outcome[tx.msg] = "ongoing"
       /\ tx.waitEnqueue \/ tx.framePending => tx.asLeft > 0
       /\ BlocksCounted(tx)
  /\ link = "request" /\ send.at # "idle" =>
       /\ send.msg \in 1..Len(lens) /\ send.len = lens[send.msg]
       /\ outcome[send.msg] = "ongoing"

\* send() gives a message up as well when it is refused.
GivenUp(verdict) ==
  verdict = "timeout" \/ (link = "request" /\ verdict \in {"OVERFLOW", "reserved"})

\* Every chunk was handed over, the last one of a given-up message never.
HandedOut(c) ==
  /\ c[1] \in 1..Len(lens)
  /\ GivenUp(outcome[c[1]]) => c[2] # lens[c[1]] \/ TooLong(lens[c[1]])
  /\ Transfer.busy /\ c[1] = Transfer.msg => c[2] <= Transfer.offset

VerdictInv == Bounded /\ Transferring /\ \A c \in Around : HandedOut(c)

IsData(f) == f.type \in {"SF", "FF", "CF"}

LEMMA DataAppended ==
  ASSUME NEW S, NEW s \in Seq(S), NEW f \in S
  PROVE  DataIn(Append(s, f)) = DataIn(s) \cup (IF IsData(f) THEN {f.data} ELSE {})
<1>1. /\ Len(Append(s, f)) = Len(s) + 1 /\ Append(s, f)[Len(s) + 1] = f
      /\ \A i \in 1..Len(s) : Append(s, f)[i] = s[i]
  OBVIOUS
<1>2. Len(s) \in Nat
  OBVIOUS
<1> QED BY <1>1, <1>2 DEF DataIn, IsData

LEMMA DataTail ==
  ASSUME NEW S, NEW s \in Seq(S), s # <<>>
  PROVE  DataIn(Tail(s)) \subseteq DataIn(s) /\ (IsData(Head(s)) => Head(s).data \in DataIn(s))
<1>1. /\ Len(Tail(s)) = Len(s) - 1 /\ Head(s) = s[1] /\ Len(s) \in Nat /\ Len(s) > 0
      /\ \A i \in 1..(Len(s) - 1) : Tail(s)[i] = s[i + 1]
  OBVIOUS
<1>2. ASSUME NEW i \in 1..Len(Tail(s))
      PROVE  i + 1 \in 1..Len(s) /\ Tail(s)[i] = s[i + 1]
  BY <1>1
<1> QED BY <1>1, <1>2 DEF DataIn, IsData

LEMMA DataRemoved ==
  ASSUME NEW S, NEW s \in Seq(S), NEW i \in 1..Len(s)
  PROVE  DataIn(Remove(s, i)) \subseteq DataIn(s) /\ (IsData(s[i]) => s[i].data \in DataIn(s))
<1>1. ASSUME NEW j \in 1..Len(Remove(s, i))
      PROVE  \E k \in 1..Len(s) : Remove(s, i)[j] = s[k]
  <2>1. /\ Len(Remove(s, i)) = Len(s) - 1
        /\ \A k \in 1..(Len(s) - 1) :
             /\ k < i => Remove(s, i)[k] = s[k]
             /\ k >= i => Remove(s, i)[k] = s[k + 1]
    BY RemoveIs
  <2>2. j \in 1..(Len(s) - 1) /\ j \in 1..Len(s) /\ j + 1 \in 1..Len(s)
    <3>1. j \in 1..(Len(s) - 1) /\ Len(s) \in Nat
      BY <2>1
    <3> QED BY <3>1
  <2>3. CASE j < i
    BY <2>1, <2>2, <2>3
  <2>4. CASE j >= i
    BY <2>1, <2>2, <2>4
  <2> QED BY <2>2, <2>3, <2>4
<1> QED BY <1>1 DEF DataIn, IsData

LEMMA ElementsAppended ==
  ASSUME NEW S, NEW s \in Seq(S), NEW e \in S
  PROVE  Elements(Append(s, e)) = Elements(s) \cup {e}
<1>1. /\ Len(Append(s, e)) = Len(s) + 1 /\ Append(s, e)[Len(s) + 1] = e
      /\ \A i \in 1..Len(s) : Append(s, e)[i] = s[i]
  OBVIOUS
<1>2. Len(s) \in Nat
  OBVIOUS
<1> QED BY <1>1, <1>2 DEF Elements

LEMMA ElementsOfFew == Elements(<<>>) = {} /\ \A e : Elements(<<e>>) = {e}
BY DEF Elements

LEMMA ReadAppended ==
  ASSUME Shape, NEW b \in Seq(Chunks), received' = Append(received, b)
  PROVE  AllRead' = AllRead \cup Elements(b)
<1>1. received \in Seq(Seq(Chunks))
  BY DEF Shape, AppShape
<1>2. /\ Len(received') = Len(received) + 1 /\ received'[Len(received) + 1] = b
      /\ \A i \in 1..Len(received) : received'[i] = received[i]
  BY <1>1
<1>3. Len(received) \in Nat
  BY <1>1
<1> QED BY <1>2, <1>3 DEF AllRead, Elements

\* What is around are chunks.
LEMMA AroundTyped ==
  ASSUME Shape
  PROVE  Around \subseteq Chunks
<1>1. link \in {"nodes", "request", "response"}
  BY DEF Shape
<1>2. ASSUME NEW s \in Seq(OrApp(Data(link)))
      PROVE  DataIn(s) \subseteq Chunks
  <2>1. ASSUME NEW i \in 1..Len(s), IsData(s[i])
        PROVE  s[i].data \in Chunks
    <3>1. s[i] \in Data(link)
      BY <2>1 DEF OrApp, AppFrame, IsData
    <3> QED BY <2>1, <3>1, DataFields DEF IsData
  <2> QED BY <2>1 DEF DataIn, IsData
<1>3. DataIn(boxS) \subseteq Chunks
  BY <1>2 DEF Shape, BusShape
<1>4. DataIn(toR) \subseteq Chunks
  <2>1. ASSUME NEW i \in 1..Len(toR), IsData(toR[i])
        PROVE  toR[i].data \in Chunks
    <3>1. toR[i] \in Data(link) \cup Fcs
      BY DEF Shape, BusShape
    <3> QED BY <2>1, <3>1, DataFields DEF IsData
  <2> QED BY <2>1 DEF DataIn, IsData
<1>5. Waiting \subseteq Chunks
  <2>1. tx.waitEnqueue => tx.frame \in Data(link)
    BY DEF Shape, TxShape
  <2>2. tx.waitEnqueue => tx.frame.data \in Chunks
    BY <2>1, DataFields
  <2> QED BY <2>2 DEF Waiting
<1>6. Elements(rx.buf) \subseteq Chunks
  BY DEF Shape, RxShape, Receivers, Elements
<1>7. Elements(recv.payload) \subseteq Chunks
  BY DEF Shape, RecvShape, ReceiveCalls, Elements
<1>8. AllRead \subseteq Chunks
  <2>1. ASSUME NEW i \in 1..Len(received)
        PROVE  Elements(received[i]) \subseteq Chunks
    <3>1. received[i] \in Seq(Chunks)
      BY DEF Shape, AppShape
    <3> QED BY <3>1 DEF Elements
  <2> QED BY <2>1 DEF AllRead
<1> QED BY <1>3, <1>4, <1>5, <1>6, <1>7, <1>8 DEF Around

LEMMA TransferTyped ==
  /\ Shape => Transfer.offset \in Nat
  /\ Shape' => Transfer'.offset \in Nat
<1>1. Shape => tx.offset \in Nat /\ send.sent + 1 \in Nat
  BY DEF Shape, TxShape, Senders, SendShape, SendCalls
<1>2. Shape' => tx'.offset \in Nat /\ send'.sent + 1 \in Nat
  BY DEF Shape, TxShape, Senders, SendShape, SendCalls
<1> QED BY <1>1, <1>2 DEF Transfer

\* A step keeps what is handed out as long as it neither forgets a message nor
\* gives up one whose last chunk was handed over.
LengthsKept ==
  \A m \in 1..Len(lens) :
    /\ m \in 1..Len(lens') /\ lens'[m] = lens[m]
    /\ GivenUp(outcome'[m]) =>
         \/ GivenUp(outcome[m]) \/ TooLong(lens[m])
         \/ Transfer.busy /\ m = Transfer.msg /\ Transfer.offset < lens[m]

TransferGoesOn ==
  Transfer'.busy /\ Transfer'.msg \in 1..Len(lens) =>
    Transfer.busy /\ Transfer'.msg = Transfer.msg /\ Transfer.offset <= Transfer'.offset

LEMMA HandedOutKept ==
  ASSUME Shape, Shape', \A c \in Around : HandedOut(c), UNCHANGED link,
         LengthsKept, TransferGoesOn, \A c \in Around' \ Around : HandedOut(c)'
  PROVE  \A c \in Around' : HandedOut(c)'
<1> SUFFICES ASSUME NEW c \in Around
             PROVE  HandedOut(c)'
  OBVIOUS
<1>1. c[1] \in 1..Len(lens) /\ c[2] \in Nat /\ HandedOut(c)
  BY AroundTyped DEF HandedOut, Chunks
<1>2. c[1] \in 1..Len(lens') /\ lens'[c[1]] = lens[c[1]] /\ lens[c[1]] \in Nat
  <2>1. lens \in Seq(Nat \ {0})
    BY DEF Shape, AppShape
  <2>2. lens[c[1]] \in Nat
    BY <1>1, <2>1
  <2> QED BY <1>1, <2>2 DEF LengthsKept
<1>3. GivenUp(outcome'[c[1]]) => c[2] # lens'[c[1]] \/ TooLong(lens[c[1]])
  <2>1. CASE Transfer.busy /\ c[1] = Transfer.msg /\ Transfer.offset < lens[c[1]]
    <3>1. c[2] <= Transfer.offset
      BY <1>1, <2>1 DEF HandedOut
    <3>2. Transfer.offset \in Nat
      BY TransferTyped
    <3> QED BY <1>1, <1>2, <2>1, <3>1, <3>2
  <2> QED BY <1>1, <1>2, <2>1 DEF LengthsKept, HandedOut
<1>4. Transfer'.busy /\ c[1] = Transfer'.msg => c[2] <= Transfer'.offset
  <2>1. Transfer.offset \in Nat /\ Transfer'.offset \in Nat
    BY TransferTyped
  <2> QED BY <1>1, <2>1 DEF HandedOut, TransferGoesOn
<1>5. TooLong(lens[c[1]]) => TooLong(lens[c[1]])'
  BY <1>2 DEF TooLong
<1> QED BY <1>2, <1>3, <1>4, <1>5 DEF HandedOut, GivenUp

\* What a frame does to what the receiver holds.
LEMMA SendFcKeeps ==
  ASSUME NEW t \in Receivers, NEW status, SendFc(t, status)
  PROVE  SameTransfer(t, rx')
<1>1. \/ rx' = [t EXCEPT !.fc = FC(status), !.fcWait = FALSE, !.fcPending = TRUE, !.arLeft = NAr]
      \/ rx' = [t EXCEPT !.fc = FC(status), !.fcWait = TRUE, !.arLeft = NAr]
  BY DEF SendFc
<1>2. CASE rx' = [t EXCEPT !.fc = FC(status), !.fcWait = FALSE, !.fcPending = TRUE,
                           !.arLeft = NAr]
  BY <1>2 DEF SameTransfer, Receivers
<1>3. CASE rx' = [t EXCEPT !.fc = FC(status), !.fcWait = TRUE, !.arLeft = NAr]
  BY <1>3 DEF SameTransfer, Receivers
<1> QED BY <1>1, <1>2, <1>3

FirstHeld(c) ==
  /\ rx'.buf = <<c>>
  /\ \/ rx'.ready /\ ~rx'.inProgress
     \/ rx'.inProgress /\ ~rx'.ready /\ rx'.declared > 1

NextHeld(c) ==
  /\ rx.inProgress /\ rx'.buf = Append(rx.buf, c)
  /\ \/ rx'.inProgress /\ rx'.ready = rx.ready /\ rx'.declared = rx.declared
        /\ Len(rx'.buf) < rx.declared
     \/ rx'.ready /\ ~rx'.inProgress

Dropped == rx'.buf = <<>> /\ ~rx'.inProgress /\ ~rx'.ready

Holds(c) ==
  \/ SameTransfer(rx, rx') \/ Dropped
  \/ ~rx.inProgress /\ FirstHeld(c)
  \/ NextHeld(c)

LEMMA FrameHeld ==
  ASSUME Shape, RxOnFrame
  PROVE  /\ UNCHANGED <<tx, boxS, lens, outcome, received>>
         /\ toR # <<>> /\ toR' = Tail(toR) /\ IsData(Head(toR)) /\ Head(toR).data \in Chunks
         /\ Holds(Head(toR).data)
<1>1. rx \in Receivers /\ BusShape(link)
  BY DEF Shape, RxShape
<1> DEFINE f == Head(toR)
<1>2. ASSUME NEW type \in {"SF", "FF", "CF"}, RxTake(type)
      PROVE  /\ UNCHANGED <<tx, boxS, lens, outcome, received>>
             /\ toR # <<>> /\ toR' = Tail(toR) /\ IsData(f) /\ f.data \in Chunks
             /\ type = "FF" => f.len \in LensOf(link) \ {1}
  <2>1. f.data \in Chunks /\ (type = "FF" => f.len \in LensOf(link) \ {1})
    BY <1>1, <1>2, RxTakeShape
  <2> QED BY <1>2, <2>1 DEF RxTake, app, IsData
<1>3. /\ RxOnSF => RxTake("SF")
      /\ RxOnFF => RxTake("FF")
      /\ RxOnCF => RxTake("CF")
  BY Zenon DEF RxOnSF, RxOnFF, RxOnCF
<1>4. /\ UNCHANGED <<tx, boxS, lens, outcome, received>>
      /\ toR # <<>> /\ toR' = Tail(toR) /\ IsData(f) /\ f.data \in Chunks
      /\ RxOnFF => f.len \in LensOf(link) \ {1}
  <2>1. CASE RxOnSF /\ ~RxOnFF
    BY <1>2, <1>3, <2>1
  <2>2. CASE RxOnFF
    BY <1>2, <1>3, <2>2
  <2>3. CASE RxOnCF /\ ~RxOnFF
    BY <1>2, <1>3, <2>3
  <2> QED BY <2>1, <2>2, <2>3 DEF RxOnFrame
<1>5. <<f.data>> \in Seq(Chunks)
  BY <1>4
<1> SUFFICES Holds(f.data)
  BY <1>4
<1> USE DEF Holds
<1>6. CASE RxOnSF
  <2>1. CASE UNCHANGED rx
    BY <2>1 DEF SameTransfer
  <2>2. CASE ~RxBusy /\ rx' = [rx EXCEPT !.ready = TRUE, !.buf = <<f.data>>]
    BY <1>1, <2>2 DEF RxBusy, Receivers, FirstHeld
  <2> QED BY <1>6, <2>1, <2>2 DEF RxOnSF
<1>9. CASE UNCHANGED rx
  BY <1>9 DEF SameTransfer
<1>10. CASE rx' = ResetRx(rx)
  BY <1>1, <1>10 DEF ResetRx, Receivers, Dropped
<1>7. CASE RxOnFF
  <2> DEFINE r == [rx EXCEPT !.inProgress = TRUE, !.declared = f.len, !.buf = <<f.data>>,
                             !.sn = 1, !.inBlock = 0]
  <2>1. CASE SendFc(rx, "OVERFLOW")
    BY <1>1, <2>1, SendFcKeeps
  <2>2. CASE ~RxBusy /\ f.len <= Capacity /\ SendFc(r, "CTS")
    <3>1. f.len \in 0..Capacity /\ f.len > 1
      BY <1>4, <1>7, <2>2, LensPositive, IsotpAssumption, SMTT(20)
    <3>2. PICK n \in 0..Capacity, b \in Seq(Chunks) :
            /\ n = f.len /\ b = <<f.data>>
            /\ r = [rx EXCEPT !.inProgress = TRUE, !.declared = n, !.buf = b, !.sn = 1,
                              !.inBlock = 0]
      BY <1>5, <3>1, Zenon
    <3> HIDE DEF r
    <3>3. /\ r \in Receivers /\ r.inProgress /\ r.ready = rx.ready /\ r.buf = b
          /\ r.declared = n
      BY <1>1, <3>2, Ranges DEF Receivers
    <3>4. SameTransfer(r, rx')
      BY <2>2, <3>3, SendFcKeeps
    <3> QED BY <2>2, <3>1, <3>2, <3>3, <3>4 DEF SameTransfer, RxBusy, FirstHeld
  <2> QED BY <1>9, <1>10, <1>7, <2>1, <2>2 DEF RxOnFF
<1>8. CASE RxOnCF
  <2> DEFINE r == [rx EXCEPT !.buf = Append(@, f.data), !.sn = NextSn(@),
                             !.inBlock = @ + 1, !.crLeft = NCr]
             whole == [r EXCEPT !.inProgress = FALSE, !.ready = TRUE]
             block == [r EXCEPT !.inBlock = 0]
             complete == Len(r.buf) >= rx.declared
  <2>1. PICK b \in Seq(Chunks), s \in Sns, i \in Nat, c \in 0..NCr :
          /\ b = Append(rx.buf, f.data) /\ s = NextSn(rx.sn) /\ i = rx.inBlock + 1 /\ c = NCr
          /\ r = [rx EXCEPT !.buf = b, !.sn = s, !.inBlock = i, !.crLeft = c]
    <3>1. Append(rx.buf, f.data) \in Seq(Chunks) /\ rx.inBlock + 1 \in Nat
      BY <1>1, <1>4 DEF Receivers
    <3>2. NextSn(rx.sn) \in Sns
      BY <1>1, NextSnType DEF Receivers
    <3> QED BY <3>1, <3>2, Ranges, Zenon
  <2>2. /\ r \in Receivers /\ r.buf = b /\ r.declared = rx.declared
        /\ r.inProgress = rx.inProgress /\ r.ready = rx.ready
    BY <1>1, <2>1 DEF Receivers
  <2>3. \/ UNCHANGED rx \/ rx' = ResetRx(rx)
        \/ rx.inProgress /\ rx' = whole
        \/ rx.inProgress /\ ~complete /\ (rx' = r \/ SendFc(block, "CTS"))
    BY <1>8 DEF RxOnCF
  <2> HIDE DEF r
  <2>4. /\ block \in Receivers /\ block.buf = b /\ block.declared = rx.declared
        /\ block.inProgress = rx.inProgress /\ block.ready = rx.ready
    BY <2>2 DEF Receivers
  <2>5. Len(b) \in Nat /\ rx.declared \in Nat
    BY <1>1 DEF Receivers
  <2>6. CASE rx.inProgress /\ rx' = whole
    BY <2>1, <2>2, <2>6 DEF Receivers, NextHeld
  <2>7. CASE rx.inProgress /\ ~complete /\ rx' = r
    BY <2>1, <2>2, <2>5, <2>7 DEF NextHeld
  <2> HIDE DEF block
  <2>8. CASE rx.inProgress /\ ~complete /\ SendFc(block, "CTS")
    <3>1. SameTransfer(block, rx')
      BY <2>4, <2>8, SendFcKeeps
    <3>2. /\ rx'.inProgress = rx.inProgress /\ rx'.ready = rx.ready /\ rx'.buf = b
          /\ rx'.declared = rx.declared
      BY <2>4, <3>1, Zenon DEF SameTransfer
    <3>3. Len(b) < rx.declared
      BY <2>2, <2>5, <2>8
    <3> QED BY <2>1, <2>8, <3>2, <3>3, Zenon DEF NextHeld
  <2> HIDE DEF whole, complete
  <2> QED BY <1>9, <1>10, <2>3, <2>6, <2>7, <2>8
<1> QED BY <1>6, <1>7, <1>8 DEF RxOnFrame

\* Steps of the receiver's node move chunks on, or drop them.
LEMMA ReceiverAround ==
  ASSUME Shape, RxOnFrame \/ RxPoll \/ RxRead, UNCHANGED recv
  PROVE  Around' \subseteq Around /\ UNCHANGED <<tx, lens, outcome>>
<1>1. /\ rx \in Receivers /\ rx.buf \in Seq(Chunks)
      /\ toR \in Seq(Data(link) \cup Fcs)
  BY DEF Shape, RxShape, Receivers, BusShape
<1>2. CASE RxOnFrame
  <2> DEFINE c == Head(toR).data
  <2>1. /\ UNCHANGED <<tx, boxS, lens, outcome, received>> /\ toR # <<>> /\ toR' = Tail(toR)
        /\ IsData(Head(toR)) /\ c \in Chunks /\ Holds(c)
    BY <1>2, FrameHeld
  <2>2. c \in DataIn(toR) /\ DataIn(toR') \subseteq DataIn(toR)
    BY <1>1, <2>1, DataTail
  <2>3. Elements(rx'.buf) \subseteq Elements(rx.buf) \cup {c}
    <3>1. CASE rx'.buf = rx.buf
      BY <3>1
    <3>2. CASE rx'.buf = <<>>
      BY <3>2, ElementsOfFew
    <3>3. CASE rx'.buf = <<c>>
      BY <3>3, ElementsOfFew
    <3>4. CASE rx'.buf = Append(rx.buf, c)
      BY <1>1, <2>1, <3>4, ElementsAppended
    <3> QED BY <2>1, <3>1, <3>2, <3>3, <3>4
            DEF Holds, SameTransfer, Dropped, FirstHeld, NextHeld
  <2>4. Waiting' = Waiting /\ AllRead' = AllRead /\ DataIn(boxS)' = DataIn(boxS)
    BY <2>1 DEF Waiting, AllRead
  <2>5. Elements(recv.payload)' = Elements(recv.payload) /\ DataIn(toR)' = DataIn(toR')
        /\ Elements(rx.buf)' = Elements(rx'.buf)
    OBVIOUS
  <2> HIDE DEF c
  <2> QED BY <2>1, <2>2, <2>3, <2>4, <2>5 DEF Around
<1>3. CASE RxPoll
  <2>1. rx'.buf = rx.buf /\ UNCHANGED <<tx, boxS, toR, lens, outcome, received>>
    <3>1. UNCHANGED <<tx, boxS, toR, lens, outcome, received>>
      BY <1>3 DEF RxPoll, app
    <3>2. \/ rx' = [rx EXCEPT !.fcWait = FALSE, !.fcPending = TRUE, !.arLeft = NAr]
          \/ rx' = [rx EXCEPT !.fcWait = FALSE, !.inProgress = FALSE]
          \/ rx' = [rx EXCEPT !.inProgress = FALSE, !.fcPending = FALSE]
          \/ rx' = [rx EXCEPT !.fcPending = FALSE, !.crLeft = NCr]
          \/ rx' = [rx EXCEPT !.inProgress = FALSE]
      BY <1>3 DEF RxPoll
    <3> QED BY <1>1, <3>1, <3>2 DEF Receivers
  <2> QED BY <2>1 DEF Around, Waiting, AllRead, Elements, DataIn
<1>4. CASE RxRead
  <2>1. /\ received' = Append(received, rx.buf) /\ rx'.buf = rx.buf
        /\ UNCHANGED <<tx, boxS, toR, lens, outcome>>
    BY <1>1, <1>4 DEF RxRead, bus, Receivers
  <2>2. AllRead' = AllRead \cup Elements(rx.buf)
    BY <1>1, <2>1, ReadAppended
  <2>3. /\ Waiting' = Waiting /\ DataIn(boxS)' = DataIn(boxS) /\ DataIn(toR)' = DataIn(toR)
        /\ Elements(rx.buf)' = Elements(rx.buf)
        /\ Elements(recv.payload)' = Elements(recv.payload)
    BY <2>1 DEF Waiting, Elements
  <2> QED BY <2>1, <2>2, <2>3 DEF Around
<1> QED BY <1>2, <1>3, <1>4

LEMMA ReceiverBounded ==
  ASSUME Shape, Shape', Separate, Bounded, link # "response",
         RxOnFrame \/ RxPoll \/ RxRead, UNCHANGED link
  PROVE  Bounded'
<1>1. /\ rx \in Receivers /\ rx.buf \in Seq(Chunks) /\ received \in Seq(Seq(Chunks))
      /\ rx.declared \in 0..Capacity /\ Capacity \in Nat
  BY IsotpAssumption DEF Shape, RxShape, Receivers, AppShape
<1>2. rx'.declared \in 0..Capacity /\ Len(rx'.buf) \in Nat
  BY DEF Shape, RxShape, Receivers
<1>3. CASE RxOnFrame
  <2> DEFINE c == Head(toR).data
  <2>1. UNCHANGED received /\ c \in Chunks /\ Holds(c)
    BY <1>3, FrameHeld
  <2>2. CASE SameTransfer(rx, rx')
    BY <2>1, <2>2 DEF Bounded, SameTransfer, Fits
  <2>3. CASE Dropped
    BY <2>1, <2>3 DEF Bounded, Dropped
  <2>4. CASE FirstHeld(c)
    <3>1. Len(rx'.buf) = 1
      BY <2>4 DEF FirstHeld
    <3> QED BY <1>2, <2>1, <2>4, <3>1 DEF Bounded, FirstHeld, Fits
  <2>5. CASE NextHeld(c)
    <3>1. Len(rx'.buf) = Len(rx.buf) + 1 /\ Len(rx.buf) \in Nat
      BY <1>1, <2>1, <2>5 DEF NextHeld
    <3>2. Len(rx.buf) < rx.declared /\ ~rx.ready
      BY <2>5 DEF NextHeld, Bounded, Separate
    <3>3. Len(rx'.buf) <= Capacity
      BY <1>1, <3>1, <3>2
    <3> QED BY <2>1, <2>5, <3>2, <3>3 DEF Bounded, NextHeld, Fits
  <2> QED BY <2>1, <2>2, <2>3, <2>4, <2>5 DEF Holds
<1>4. CASE RxPoll
  <2>1. UNCHANGED received
    BY <1>4 DEF RxPoll, app
  <2>2. /\ rx'.buf = rx.buf /\ rx'.ready = rx.ready /\ rx'.declared = rx.declared
        /\ rx'.inProgress => rx.inProgress
    <3>1. \/ rx' = [rx EXCEPT !.fcWait = FALSE, !.fcPending = TRUE, !.arLeft = NAr]
          \/ rx' = [rx EXCEPT !.fcWait = FALSE, !.inProgress = FALSE]
          \/ rx' = [rx EXCEPT !.inProgress = FALSE, !.fcPending = FALSE]
          \/ rx' = [rx EXCEPT !.fcPending = FALSE, !.crLeft = NCr]
          \/ rx' = [rx EXCEPT !.inProgress = FALSE]
      BY <1>4 DEF RxPoll
    <3> QED BY <1>1, <3>1 DEF Receivers
  <2> QED BY <2>1, <2>2 DEF Bounded, Fits
<1>5. CASE RxRead
  <2>1. /\ received' = Append(received, rx.buf) /\ rx.ready /\ ~rx'.ready
        /\ rx'.inProgress = rx.inProgress /\ rx'.buf = rx.buf /\ rx'.declared = rx.declared
    BY <1>1, <1>5 DEF RxRead, Receivers
  <2>2. /\ Len(received') = Len(received) + 1 /\ Len(received) \in Nat
        /\ received'[Len(received) + 1] = rx.buf
        /\ \A i \in 1..Len(received) : received'[i] = received[i]
    BY <1>1, <2>1
  <2>3. ASSUME NEW i \in 1..Len(received')
        PROVE  Fits(received'[i])
    <3>1. i \in 1..Len(received) \/ i = Len(received) + 1
      BY <2>2
    <3> QED BY <2>1, <2>2, <3>1 DEF Bounded
  <2> QED BY <2>1, <2>3 DEF Bounded, Fits
<1> QED BY <1>3, <1>4, <1>5

\* Steps that leave the sender and its verdicts alone.
LEMMA UnsentKept ==
  ASSUME Shape, Transferring, UNCHANGED <<tx, send, lens, outcome, link>>
  PROVE  Transferring' /\ LengthsKept /\ TransferGoesOn
<1>1. Transfer' = Transfer
  BY DEF Transfer, BlockFull
<1>2. Transfer.offset \in Nat
  BY TransferTyped
<1>3. TransferGoesOn
  BY <1>1, <1>2 DEF TransferGoesOn
<1>4. Transferring'
  BY DEF Transferring, BlocksCounted
<1> QED BY <1>3, <1>4 DEF LengthsKept

-------------------------------------------------------------------------------
\* The node's sender.

\* A block that is full ends where blocks end.
LEMMA BlockBoundary ==
  ASSUME NEW T \in Nat \ {0}, NEW a \in Nat, a >= T, (a - T) % T = 0
  PROVE  a % T = 0
<1> DEFINE k == (a - T) \div T
           m == a \div T
           w == a % T
<1>1. a - T \in Nat
  BY SMT
<1>2. k \in Nat /\ a - T = T * k + 0
  BY <1>1, Multiples
<1>3. m \in Nat /\ w \in 0..(T - 1) /\ a = T * m + w
  BY Multiples
<1> HIDE DEF k, m, w
<1>4. T * (k + 1) = T * k + T /\ k + 1 \in Nat
  BY <1>2, SMT
<1>5. T * m + w = T * (k + 1) + 0 /\ 0 \in 0..(T - 1)
  BY <1>2, <1>3, <1>4, SMT
<1>6. PICK e \in Nat, z \in 0..(T - 1) : z = 0 /\ T * m + w = T * e + z
  BY <1>4, <1>5, Zenon
<1>7. w = z
  BY <1>3, <1>6, OneMultiple
<1> QED BY <1>6, <1>7 DEF w

\* Whoever waits for flow control has something left to send.
LEMMA WaitingUnfinished ==
  ASSUME Shape, Transferring, NoBlockEnds, link # "request", tx.ongoing, tx.waitFc
  PROVE  TooLong(lens[tx.msg]) \/ tx.offset < lens[tx.msg]
<1>1. /\ tx.msg \in 1..Len(lens) /\ tx.len = lens[tx.msg] /\ BlocksCounted(tx)
      /\ tx.offset \in Nat /\ tx.inBlock \in Nat /\ tx.len \in LensOf(link) \cup {0}
      /\ tx.offset <= tx.len
  BY DEF Transferring, Shape, TxShape, Senders
<1>2. tx.len > 1 /\ (tx.offset = 1 \/ (BlockSize > 0 /\ tx.inBlock = BlockSize))
  BY <1>1 DEF BlocksCounted
<1>3. tx.len \in LensOf(link) /\ tx.len \in Nat
  BY <1>1, <1>2, LensPositive
<1>4. CASE ~TooLong(tx.len) /\ tx.offset = tx.len
  <2>1. BlockSize \in Nat \ {0} /\ tx.inBlock = BlockSize /\ tx.offset # 1
    BY <1>2, <1>4, IsotpAssumption
  <2>2. tx.inBlock < tx.offset /\ (tx.offset - 1 - tx.inBlock) % BlockSize = 0
    BY <1>1, <2>1 DEF BlocksCounted
  <2>3. tx.len - 1 \in Nat /\ tx.len - 1 >= BlockSize /\ (tx.len - 1 - BlockSize) % BlockSize = 0
    <3>1. tx.offset - 1 - tx.inBlock = tx.len - 1 - BlockSize
      BY <1>4, <2>1
    <3> QED BY <1>1, <1>3, <1>4, <2>1, <2>2, <3>1
  <2>4. (tx.len - 1) % BlockSize = 0
    BY <2>1, <2>3, BlockBoundary
  <2>5. EndsInBlock(tx.len)
    <3>1. link = "nodes" => tx.len \in Lens
      BY <1>3 DEF LensOf
    <3>2. link = "response" => tx.len \in Responses
      BY <1>3 DEF LensOf
    <3>3. link = "nodes" => tx.len <= Capacity
      BY <1>2, <1>3, <1>4, IsotpAssumption DEF TooLong
    <3> QED BY <3>1, <3>2, <3>3 DEF NoBlockEnds, Shape
  <2> QED BY <1>2, <2>1, <2>4, <2>5 DEF EndsInBlock
<1> QED BY <1>1, <1>3, <1>4

\* The sender's application is told how a transfer ended.
LEMMA FinishVerdict ==
  ASSUME Shape, Transferring, link # "request", UNCHANGED <<lens, link>>, tx.ongoing,
         NEW t \in Senders(link), t.msg = tx.msg, NEW verdict, Finish(t, verdict),
         verdict = "timeout" => TooLong(lens[tx.msg]) \/ tx.offset < lens[tx.msg]
  PROVE  Transferring' /\ LengthsKept /\ TransferGoesOn
<1>1. tx' = [t EXCEPT !.ongoing = FALSE] /\ outcome' = [outcome EXCEPT ![tx.msg] = verdict]
  BY DEF Finish
<1>2. ~tx'.ongoing
  BY <1>1 DEF Senders
<1>3. Transferring'
  BY <1>2 DEF Transferring
<1>4. TransferGoesOn
  BY <1>2 DEF TransferGoesOn, Transfer
<1>5. LengthsKept
  <2>1. outcome \in Seq(Verdicts) /\ Len(outcome) = Len(lens)
    BY DEF Shape, AppShape
  <2>2. ASSUME NEW m \in 1..Len(lens), GivenUp(outcome'[m])
        PROVE  GivenUp(outcome[m]) \/ (m = tx.msg /\ verdict = "timeout")
    BY <1>1, <2>1, <2>2 DEF GivenUp
  <2>3. Transfer.busy = tx.ongoing /\ Transfer.msg = tx.msg /\ Transfer.offset = tx.offset
    BY DEF Transfer
  <2> QED BY <2>2, <2>3 DEF LengthsKept
<1> QED BY <1>3, <1>4, <1>5

\* A step inside a transfer.
LEMMA TransferKept ==
  ASSUME Shape, Shape', Transferring, link # "request", UNCHANGED <<lens, outcome, link>>, tx.ongoing,
         tx'.msg = tx.msg, tx'.len = tx.len, tx'.offset >= tx.offset,
         tx'.waitEnqueue \/ tx'.framePending => tx'.asLeft > 0, BlocksCounted(tx')
  PROVE  Transferring' /\ LengthsKept /\ TransferGoesOn
<1>1. Transferring'
  BY DEF Transferring, BlocksCounted
<1>2. TransferGoesOn
  BY DEF TransferGoesOn, Transfer
<1> QED BY <1>1, <1>2 DEF LengthsKept

LEMMA TimersRunning ==
  ASSUME Transferring, link # "request", tx.ongoing
  PROVE  /\ tx.waitEnqueue \/ tx.framePending => tx.asLeft > 0
         /\ BlocksCounted(tx)
BY DEF Transferring

\* IsotpTx_OnFrame.
LEMMA TxOnFrameVerdict ==
  ASSUME Shape, Shape', Transferring, link # "request", TxOnFrame, UNCHANGED <<send, link>>
  PROVE  /\ Transferring' /\ LengthsKept /\ TransferGoesOn
         /\ tx'.waitEnqueue = tx.waitEnqueue /\ tx'.frame = tx.frame
<1>1. tx \in Senders(link) /\ tx.offset <= tx.len /\ UNCHANGED lens
  BY DEF Shape, TxShape, TxOnFrame
<1>2. CASE UNCHANGED <<tx, outcome>>
  BY <1>1, <1>2, UnsentKept
<1>3. CASE AcceptsFc /\ UNCHANGED outcome /\ \E n : tx' = [tx EXCEPT !.fcLeft = n]
  <2>1. PICK n : tx' = [tx EXCEPT !.fcLeft = n]
    BY <1>3
  <2>2. /\ tx'.msg = tx.msg /\ tx'.len = tx.len /\ tx'.offset = tx.offset /\ tx'.bs = tx.bs
        /\ tx'.waitEnqueue = tx.waitEnqueue /\ tx'.framePending = tx.framePending
        /\ tx'.asLeft = tx.asLeft /\ tx'.inBlock = tx.inBlock /\ tx'.waitFc = tx.waitFc
        /\ tx'.frame = tx.frame /\ tx.offset \in Nat
    BY <1>1, <2>1 DEF Senders
  <2>3. tx.ongoing
    BY <1>3 DEF AcceptsFc
  <2>4. BlocksCounted(tx') /\ (tx'.waitEnqueue \/ tx'.framePending => tx'.asLeft > 0)
    BY <2>2, <2>3, TimersRunning DEF BlocksCounted
  <2> QED BY <1>1, <1>3, <2>2, <2>3, <2>4, TransferKept
<1>4. CASE /\ AcceptsFc /\ UNCHANGED outcome
           /\ tx' = [tx EXCEPT !.bs = BlockSize, !.waitFc = FALSE,
                               !.afterBlock = FALSE, !.inBlock = 0, !.fcLeft = NAs]
  <2>1. /\ tx'.msg = tx.msg /\ tx'.len = tx.len /\ tx'.offset = tx.offset /\ tx'.bs = BlockSize
        /\ tx'.waitEnqueue = tx.waitEnqueue /\ tx'.framePending = tx.framePending
        /\ tx'.asLeft = tx.asLeft /\ tx'.inBlock = 0 /\ tx'.waitFc = FALSE
        /\ tx'.frame = tx.frame /\ tx.offset \in Nat /\ tx.inBlock \in Nat /\ tx.len \in Nat
    BY <1>1, <1>4, LensPositive DEF Senders
  <2>2. tx.ongoing
    BY <1>4 DEF AcceptsFc
  <2>3. BlocksCounted(tx)
    BY <2>2, TimersRunning
  <2>4. BlockSize > 0 => (tx.offset - 1) % BlockSize = 0
    <3> SUFFICES ASSUME BlockSize > 0
                 PROVE  (tx.offset - 1) % BlockSize = 0
      OBVIOUS
    <3>1. CASE tx.offset = 1
      <4>1. \A T \in Nat \ {0} : 0 % T = 0
        OBVIOUS
      <4>2. BlockSize \in Nat \ {0} /\ tx.offset - 1 = 0
        BY <3>1, IsotpAssumption
      <4> QED BY <4>1, <4>2
    <3>2. CASE tx.inBlock = BlockSize
      <4>1. /\ BlockSize \in Nat \ {0} /\ tx.offset - 1 \in Nat /\ tx.offset - 1 >= BlockSize
            /\ (tx.offset - 1 - BlockSize) % BlockSize = 0
        BY <2>1, <2>3, <3>2, IsotpAssumption DEF BlocksCounted
      <4> QED BY <4>1, BlockBoundary
    <3>3. CASE ~tx.waitFc /\ tx.offset # 1
      <4>1. BlockFull(tx) /\ tx.len > 1
        BY <1>1, <1>4, <2>1, <2>3, <3>3 DEF AcceptsFc, BlocksCounted
      <4>2. tx.inBlock = BlockSize
        BY <2>1, <2>3, <3>3, <4>1, IsotpAssumption DEF BlocksCounted, BlockFull
      <4> QED BY <3>2, <4>2
    <3> QED BY <2>3, <3>1, <3>2, <3>3 DEF BlocksCounted
  <2>5. BlocksCounted(tx') /\ (tx'.waitEnqueue \/ tx'.framePending => tx'.asLeft > 0)
    <3>1. tx'.inBlock < tx'.offset
      BY <2>1, <2>3 DEF BlocksCounted
    <3>2. tx'.offset - 1 - tx'.inBlock = tx.offset - 1
      BY <2>1
    <3>3. BlockSize > 0 => 0 <= BlockSize
      BY IsotpAssumption
    <3> QED BY <2>1, <2>2, <2>4, <3>1, <3>2, <3>3, TimersRunning DEF BlocksCounted
  <2> QED BY <1>1, <1>4, <2>1, <2>2, <2>5, TransferKept
<1>5. CASE AcceptsFc /\ \E verdict \in {"OVERFLOW", "reserved"} : Finish(tx, verdict)
  <2>1. PICK verdict \in {"OVERFLOW", "reserved"} : Finish(tx, verdict)
    BY <1>5
  <2>2. tx.ongoing /\ verdict # "timeout"
    BY <1>5 DEF AcceptsFc
  <2>3. tx'.waitEnqueue = tx.waitEnqueue /\ tx'.frame = tx.frame
    BY <1>1, <2>1 DEF Finish, Senders
  <2> QED BY <1>1, <2>1, <2>2, <2>3, FinishVerdict
<1> QED BY <1>2, <1>3, <1>4, <1>5 DEF TxOnFrame

\* What a step of the sender may add to what is around.
LEMMA SenderAround ==
  ASSUME Shape, UNCHANGED <<rx, toR, received, recv>>, NEW c,
         tx'.waitEnqueue => tx'.frame.data \in Around \cup {c},
         DataIn(boxS') \subseteq Around \cup {c}
  PROVE  Around' \subseteq Around \cup {c}
<1>1. Waiting' \subseteq Around \cup {c}
  BY DEF Waiting
<1>2. /\ DataIn(toR)' = DataIn(toR) /\ Elements(rx.buf)' = Elements(rx.buf)
      /\ Elements(recv.payload)' = Elements(recv.payload) /\ AllRead' = AllRead
      /\ DataIn(boxS)' = DataIn(boxS')
  BY DEF AllRead
<1> QED BY <1>1, <1>2 DEF Around

LEMMA SenderAroundKept ==
  ASSUME Shape, UNCHANGED <<rx, boxS, toR, received, recv>>,
         tx'.waitEnqueue => tx.waitEnqueue /\ tx'.frame = tx.frame
  PROVE  Around' \subseteq Around
<1>1. Waiting' \subseteq Waiting
  BY DEF Waiting
<1>2. /\ DataIn(toR)' = DataIn(toR) /\ Elements(rx.buf)' = Elements(rx.buf)
      /\ Elements(recv.payload)' = Elements(recv.payload) /\ AllRead' = AllRead
      /\ DataIn(boxS)' = DataIn(boxS)
  BY DEF AllRead
<1> QED BY <1>1, <1>2 DEF Around

SameCounts(s, t) ==
  /\ s.ongoing = t.ongoing /\ s.msg = t.msg /\ s.len = t.len /\ s.offset = t.offset
  /\ s.inBlock = t.inBlock /\ s.bs = t.bs /\ s.waitFc = t.waitFc

LEMMA ScheduleAround ==
  ASSUME Shape, NEW t \in Senders(link), NEW f \in Data(link), Schedule(t, f),
         UNCHANGED <<rx, toR, received, recv>>
  PROVE  /\ Around' \subseteq Around \cup {f.data}
         /\ SameCounts(t, tx') /\ tx'.asLeft > 0
<1>1. boxS \in Seq(OrApp(Data(link))) /\ f \in OrApp(Data(link)) /\ IsData(f)
  BY DataFields DEF Shape, BusShape, OrApp, IsData
<1>2. DataIn(boxS) \subseteq Around
  BY DEF Around
<1>3. CASE Len(boxS) < Mailboxes
  <2>1. boxS' = Append(boxS, f)
        /\ tx' = [t EXCEPT !.frame = f, !.waitEnqueue = FALSE, !.framePending = TRUE,
                           !.asLeft = NAs]
    BY <1>3 DEF Schedule
  <2>2. DataIn(boxS') = DataIn(boxS) \cup {f.data}
    BY <1>1, <2>1, DataAppended
  <2>3. ~tx'.waitEnqueue /\ SameCounts(t, tx') /\ tx'.asLeft = NAs
    BY <2>1 DEF Senders, SameCounts
  <2> QED BY <1>2, <2>2, <2>3, SenderAround, IsotpAssumption
<1>4. CASE ~(Len(boxS) < Mailboxes)
  <2>1. boxS' = boxS /\ tx' = [t EXCEPT !.frame = f, !.waitEnqueue = TRUE, !.asLeft = NAs]
    BY <1>4 DEF Schedule
  <2>2. tx'.frame = f /\ SameCounts(t, tx') /\ tx'.asLeft = NAs
    BY <2>1 DEF Senders, SameCounts
  <2> QED BY <1>2, <2>1, <2>2, SenderAround, IsotpAssumption
<1> QED BY <1>3, <1>4

\* IsotpTx_Start.
LEMMA TxStartVerdict ==
  ASSUME Shape, Transferring, link # "request", NEW n \in LensOf(link), TxStart(n),
         UNCHANGED <<send, recv, link>>
  PROVE  /\ Transferring' /\ LengthsKept /\ TransferGoesOn
         /\ Around' \subseteq Around \cup {Chunk(Len(lens) + 1, 1)}
         /\ lens' = Append(lens, n) /\ outcome' = Append(outcome, "ongoing")
         /\ Transfer'.offset = 1
<1> DEFINE m == Len(lens) + 1
           t == [tx EXCEPT !.ongoing = TRUE, !.msg = m, !.len = n, !.offset = 1,
                           !.sn = 1, !.inBlock = 0, !.sentCf = FALSE,
                           !.waitEnqueue = FALSE, !.framePending = FALSE,
                           !.waitFc = FALSE, !.afterBlock = FALSE]
           u == [t EXCEPT !.waitFc = TRUE, !.fcLeft = NBs]
<1>1. tx \in Senders(link) /\ n \in Nat /\ n > 0
  BY LensPositive DEF Shape, TxShape
<1>2. m \in Numbers /\ Len(lens) \in Nat
  BY IsotpAssumption, SMTT(20) DEF TxStart, Shape, AppShape, Numbers
<1>3. /\ t \in Senders(link) /\ t.ongoing /\ t.msg = m /\ t.len = n /\ t.offset = 1
      /\ t.inBlock = 0 /\ ~t.waitFc
  <2>1. m \in 0..MaxMsgs /\ n \in LensOf(link) \cup {0} /\ 1 \in Nat /\ 0 \in Nat
    BY <1>2 DEF Numbers
  <2> HIDE DEF m
  <2> QED BY <1>1, <2>1, Ranges DEF Senders
<1> HIDE DEF t
<1>4. /\ u \in Senders(link) /\ u.ongoing /\ u.msg = m /\ u.len = n /\ u.offset = 1
      /\ u.inBlock = 0 /\ u.waitFc
  BY <1>3, Ranges DEF Senders
<1> HIDE DEF u
<1>5. /\ UNCHANGED <<rx, toR, received, recv>>
      /\ lens' = Append(lens, n) /\ outcome' = Append(outcome, "ongoing")
      /\ \/ n = 1 /\ Schedule(t, SF(m))
         \/ n > 1 /\ Schedule(u, FF(m, n))
  <2> HIDE DEF m
  <2>1. \/ n = 1 /\ Schedule(t, SF(m))
        \/ n > 1 /\ Schedule(u, FF(m, n))
    BY DEF TxStart, m, t, u
  <2> QED BY <2>1 DEF TxStart
<1>6. /\ SF(m) \in Data(link) /\ SF(m).data = Chunk(m, 1)
      /\ n > 1 => FF(m, n) \in Data(link) /\ FF(m, n).data = Chunk(m, 1)
  BY <1>2, FrameTypes DEF SF, FF
<1>7. PICK s \in {t, u} : /\ s.waitFc => n > 1
                          /\ n > 1 => s.waitFc
                          /\ SameCounts(s, tx') /\ tx'.asLeft > 0
                          /\ Around' \subseteq Around \cup {Chunk(m, 1)}
  BY <1>3, <1>4, <1>5, <1>6, ScheduleAround
<1>8. /\ tx'.ongoing /\ tx'.msg = m /\ tx'.len = n /\ tx'.offset = 1 /\ tx'.inBlock = 0
      /\ tx'.waitFc => n > 1
      /\ n > 1 => tx'.waitFc
  BY <1>3, <1>4, <1>7 DEF SameCounts
<1>9. /\ lens \in Seq(Nat \ {0}) /\ outcome \in Seq(Verdicts) /\ Len(outcome) = Len(lens)
  BY DEF Shape, AppShape
<1>10. /\ Len(lens') = m /\ lens'[m] = n /\ outcome'[m] = "ongoing"
       /\ \A i \in 1..Len(lens) : lens'[i] = lens[i] /\ outcome'[i] = outcome[i]
  BY <1>1, <1>5, <1>9
<1>11. BlocksCounted(tx')
  <2>1. \A T \in Nat \ {0} : 0 % T = 0
    OBVIOUS
  <2>2. BlockSize > 0 => (tx'.offset - 1 - tx'.inBlock) % BlockSize = 0
    <3>1. tx'.offset - 1 - tx'.inBlock = 0
      BY <1>8
    <3> QED BY <2>1, <3>1, IsotpAssumption
  <2> QED BY <1>8, <2>2, IsotpAssumption DEF BlocksCounted
<1>12. Transferring'
  <2>1. m \in 1..Len(lens')
    BY <1>2, <1>10
  <2> QED BY <1>7, <1>8, <1>10, <1>11, <2>1 DEF Transferring, BlocksCounted
<1>13. LengthsKept
  BY <1>2, <1>10 DEF LengthsKept
<1>14. TransferGoesOn /\ Transfer'.offset = 1
  BY <1>2, <1>8 DEF TransferGoesOn, Transfer
<1> QED BY <1>5, <1>7, <1>12, <1>13, <1>14

\* IsotpTx_Poll.
LEMMA TxPollEnqueueVerdict ==
  ASSUME Shape, Shape', Transferring, link # "request", TxPollEnqueue,
         UNCHANGED <<send, recv, link>>
  PROVE  Transferring' /\ LengthsKept /\ TransferGoesOn /\ Around' \subseteq Around
<1>1. /\ tx \in Senders(link) /\ tx.ongoing /\ tx.waitEnqueue /\ tx.asLeft > 0
      /\ UNCHANGED <<rx, toR, lens, received>> /\ tx.frame \in Data(link)
      /\ boxS \in Seq(OrApp(Data(link)))
  BY TimersRunning DEF Shape, TxShape, BusShape, TxPollEnqueue
<1>2. /\ boxS' = Append(boxS, tx.frame) /\ UNCHANGED outcome
      /\ tx' = [tx EXCEPT !.waitEnqueue = FALSE, !.framePending = TRUE, !.asLeft = NAs]
  <2>1. tx.asLeft # 0
    BY <1>1
  <2> QED BY <2>1, Zenon DEF TxPollEnqueue
<1>3. /\ SameCounts(tx, tx') /\ ~tx'.waitEnqueue /\ tx'.asLeft > 0 /\ tx.offset \in Nat
  <2>1. /\ SameCounts(tx, tx') /\ ~tx'.waitEnqueue /\ tx'.asLeft = NAs /\ tx.offset \in Nat
    BY <1>1, <1>2 DEF Senders, SameCounts
  <2> QED BY <2>1, IsotpAssumption
<1>4. Transferring' /\ LengthsKept /\ TransferGoesOn
  <2>1. BlocksCounted(tx')
    BY <1>1, <1>3, TimersRunning DEF SameCounts, BlocksCounted
  <2>2. tx'.msg = tx.msg /\ tx'.len = tx.len /\ tx'.offset >= tx.offset
    BY <1>3 DEF SameCounts
  <2> QED BY <1>1, <1>2, <1>3, <2>1, <2>2, TransferKept
<1>5. tx.frame.data \in Around
  BY <1>1 DEF Around, Waiting
<1>6. DataIn(boxS') \subseteq Around
  <2>1. tx.frame \in OrApp(Data(link))
    BY <1>1 DEF OrApp
  <2>2. DataIn(boxS') \subseteq DataIn(boxS) \cup {tx.frame.data}
    BY <1>1, <1>2, <2>1, DataAppended
  <2>3. DataIn(boxS) \subseteq Around
    BY DEF Around
  <2> QED BY <1>5, <2>2, <2>3
<1>7. Around' \subseteq Around \cup {tx.frame.data}
  BY <1>1, <1>3, <1>6, SenderAround
<1> QED BY <1>4, <1>5, <1>7

LEMMA TxPollTransferVerdict ==
  ASSUME Shape, Shape', Transferring, NoBlockEnds, link # "request", TxPollTransfer,
         UNCHANGED <<send, recv, link>>
  PROVE  /\ Transferring' /\ LengthsKept /\ TransferGoesOn
         /\ \/ Around' \subseteq Around
            \/ /\ Around' \subseteq Around \cup {Chunk(tx.msg, tx.offset + 1)}
               /\ UNCHANGED outcome /\ Transfer'.offset = tx.offset + 1
<1>1. /\ tx \in Senders(link) /\ tx.ongoing /\ ~tx.waitEnqueue
      /\ UNCHANGED <<rx, toR, lens, received>> /\ BlocksCounted(tx)
      /\ tx.offset \in Nat /\ tx.inBlock \in Nat /\ tx.len \in Nat
      /\ tx.msg \in Numbers /\ tx.sn \in Sns
  BY TimersRunning, LensPositive
  DEF Shape, TxShape, Senders, TxPollTransfer, PollReachesTransfer
<1>2. Sent \in Senders(link) /\ SameCounts(tx, Sent) /\ ~Sent.waitEnqueue /\ ~Sent.framePending
      /\ Sent.sn = tx.sn
  BY <1>1 DEF Sent, Senders, SameCounts
<1>3. ASSUME NEW verdict, Finish(Sent, verdict), UNCHANGED boxS,
             verdict = "timeout" => tx.waitFc
      PROVE  Transferring' /\ LengthsKept /\ TransferGoesOn /\ Around' \subseteq Around
  <2>1. Sent.msg = tx.msg
    BY <1>2 DEF SameCounts
  <2>2. verdict = "timeout" => TooLong(lens[tx.msg]) \/ tx.offset < lens[tx.msg]
    BY <1>1, <1>3, WaitingUnfinished
  <2>3. Transferring' /\ LengthsKept /\ TransferGoesOn
    BY <1>1, <1>2, <1>3, <2>1, <2>2, FinishVerdict
  <2>4. ~tx'.waitEnqueue
    BY <1>2, <1>3 DEF Finish, Senders
  <2>5. Around' \subseteq Around
    BY <1>1, <1>3, <2>4, SenderAroundKept
  <2> QED BY <2>3, <2>5
<1>4. ASSUME NEW t, tx' = t, t.msg = tx.msg, t.len = tx.len, t.offset = tx.offset,
             ~t.waitEnqueue, ~t.framePending, BlocksCounted(t), UNCHANGED <<boxS, outcome>>
      PROVE  Transferring' /\ LengthsKept /\ TransferGoesOn /\ Around' \subseteq Around
  <2>1. Transferring' /\ LengthsKept /\ TransferGoesOn
    BY <1>1, <1>4, TransferKept
  <2>2. Around' \subseteq Around
    BY <1>1, <1>4, SenderAroundKept
  <2> QED BY <2>1, <2>2
<1>5. CASE tx' = Sent /\ UNCHANGED <<boxS, outcome>>
  <2>1. BlocksCounted(Sent)
    BY <1>1, <1>2 DEF SameCounts, BlocksCounted
  <2> QED BY <1>2, <1>4, <1>5, <2>1 DEF SameCounts
<1>6. CASE /\ ~tx.waitFc /\ BlockFull(tx) /\ UNCHANGED <<boxS, outcome>>
           /\ tx' = [Sent EXCEPT !.waitFc = TRUE, !.afterBlock = TRUE, !.fcLeft = NCr]
  <2>1. /\ tx'.msg = tx.msg /\ tx'.len = tx.len /\ tx'.offset = tx.offset
        /\ tx'.inBlock = tx.inBlock /\ tx'.bs = tx.bs /\ tx'.waitFc
        /\ ~tx'.waitEnqueue /\ ~tx'.framePending
    BY <1>2, <1>6 DEF Senders, SameCounts
  <2>2. tx.bs > 0 /\ tx.inBlock >= tx.bs /\ tx.offset <= tx.len /\ tx.bs \in {0, BlockSize}
    BY <1>1, <1>6 DEF BlockFull, Shape, TxShape, Senders
  <2>3. tx.len > 1 /\ BlockSize > 0 /\ tx.inBlock = BlockSize
    BY <1>1, <2>2, IsotpAssumption DEF BlocksCounted
  <2>4. BlocksCounted(tx')
    BY <1>1, <2>1, <2>3 DEF BlocksCounted
  <2> QED BY <1>4, <1>6, <2>1, <2>4
<1> DEFINE next == [Sent EXCEPT !.offset = @ + 1, !.sn = NextSn(@),
                                !.inBlock = @ + 1, !.sentCf = TRUE, !.sinceCf = 0]
           frame == CF(tx.sn, tx.msg, tx.offset + 1)
<1>7. CASE /\ ~tx.waitFc /\ ~BlockFull(tx) /\ ~AllWritten(tx)
           /\ Schedule(next, frame) /\ UNCHANGED outcome
  <2>1. /\ next \in Senders(link) /\ next.ongoing /\ next.msg = tx.msg /\ next.len = tx.len
        /\ next.offset = tx.offset + 1 /\ next.inBlock = tx.inBlock + 1
        /\ next.bs = tx.bs /\ next.waitFc = tx.waitFc
    <3>1. NextSn(Sent.sn) \in Sns /\ Sent.offset + 1 \in Nat /\ Sent.inBlock + 1 \in Nat
          /\ Sent.offset = tx.offset /\ Sent.inBlock = tx.inBlock
      BY <1>1, <1>2, NextSnType DEF SameCounts
    <3>2. PICK o \in Nat, s \in Sns, i \in Nat :
            /\ o = tx.offset + 1 /\ i = tx.inBlock + 1
            /\ next = [Sent EXCEPT !.offset = o, !.sn = s, !.inBlock = i, !.sentCf = TRUE,
                                   !.sinceCf = 0]
      BY <3>1, Zenon
    <3> HIDE DEF next
    <3> QED BY <1>1, <1>2, <3>2, Ranges, ZenonT(30) DEF Senders, SameCounts
  <2>2. frame \in Data(link) /\ frame.data = Chunk(tx.msg, tx.offset + 1)
    <3>1. tx.offset + 1 \in Nat
      BY <1>1
    <3> QED BY <1>1, <3>1, FrameTypes DEF CF
  <2> HIDE DEF next, frame
  <2>3. /\ Around' \subseteq Around \cup {Chunk(tx.msg, tx.offset + 1)}
        /\ SameCounts(next, tx') /\ tx'.asLeft > 0
    BY <1>1, <1>7, <2>1, <2>2, ScheduleAround
  <2>4. /\ tx'.msg = tx.msg /\ tx'.len = tx.len /\ tx'.offset = tx.offset + 1
        /\ tx'.inBlock = tx.inBlock + 1 /\ tx'.bs = tx.bs /\ tx'.waitFc = tx.waitFc
    BY <2>1, <2>3 DEF SameCounts
  <2>5. BlocksCounted(tx')
    <3>1. tx.offset < tx.len /\ tx.len > 1
      BY <1>1, <1>7 DEF AllWritten, BlocksCounted
    <3>2. tx.bs = BlockSize
      BY <1>1, <1>7, <3>1 DEF BlocksCounted
    <3>3. BlockSize > 0 => tx.inBlock < BlockSize
      BY <1>1, <1>7, <3>2, IsotpAssumption DEF BlockFull
    <3>4. tx'.offset - 1 - tx'.inBlock = tx.offset - 1 - tx.inBlock
      BY <1>1, <2>4
    <3>5. tx'.inBlock < tx'.offset /\ (BlockSize > 0 => tx'.inBlock <= BlockSize)
      BY <1>1, <2>4, <3>3, IsotpAssumption DEF BlocksCounted
    <3> QED BY <1>1, <1>7, <2>4, <3>2, <3>4, <3>5 DEF BlocksCounted
  <2>6. Transferring' /\ LengthsKept /\ TransferGoesOn
    <3>1. tx'.offset >= tx.offset
      BY <1>1, <2>4
    <3> QED BY <1>1, <1>7, <2>3, <2>4, <2>5, <3>1, TransferKept
  <2>7. Transfer'.offset = tx.offset + 1
    BY <2>4 DEF Transfer
  <2> QED BY <1>7, <2>3, <2>6, <2>7
<1>8. \/ tx.waitFc /\ Finish(Sent, "timeout") /\ UNCHANGED boxS
      \/ Finish(Sent, "ok") /\ UNCHANGED boxS
      \/ tx' = Sent /\ UNCHANGED <<boxS, outcome>>
      \/ /\ ~tx.waitFc /\ BlockFull(tx) /\ UNCHANGED <<boxS, outcome>>
         /\ tx' = [Sent EXCEPT !.waitFc = TRUE, !.afterBlock = TRUE, !.fcLeft = NCr]
      \/ /\ ~tx.waitFc /\ ~BlockFull(tx) /\ ~AllWritten(tx)
         /\ Schedule(next, frame) /\ UNCHANGED outcome
  BY DEF TxPollTransfer
<1> HIDE DEF next, frame
<1> QED BY <1>3, <1>5, <1>6, <1>7, <1>8

\* The network layer of a node never gives a frame up: mailboxes are emptied
\* before time passes.
LEMMA NeverStuckAnywhere ==
  ASSUME Transferring, link # "request"
  PROVE  ~TxPollStuck
BY TimersRunning DEF TxPollStuck

\* Time passes at a sender that has no frame in its mailboxes.
LEMMA TickVerdict ==
  ASSUME Shape, Shape', Transferring, link # "request", UNCHANGED <<send, lens, outcome, link>>,
         tx' = [tx EXCEPT !.asLeft = Less(@), !.fcLeft = Less(@), !.sinceCf = More(@)],
         tx.ongoing => ~tx.waitEnqueue /\ ~tx.framePending
  PROVE  /\ Transferring' /\ LengthsKept /\ TransferGoesOn
         /\ tx'.waitEnqueue = tx.waitEnqueue /\ tx'.frame = tx.frame
<1>1. /\ SameCounts(tx, tx') /\ tx'.waitEnqueue = tx.waitEnqueue /\ tx'.frame = tx.frame
      /\ tx'.framePending = tx.framePending /\ tx.offset \in Nat
  BY DEF Shape, TxShape, Senders, SameCounts
<1>2. CASE tx.ongoing
  <2>1. BlocksCounted(tx')
    BY <1>1, <1>2, TimersRunning DEF SameCounts, BlocksCounted
  <2>2. tx'.msg = tx.msg /\ tx'.len = tx.len /\ tx'.offset >= tx.offset
    BY <1>1 DEF SameCounts
  <2> QED BY <1>1, <1>2, <2>1, <2>2, TransferKept
<1>3. CASE ~tx.ongoing
  <2>1. ~tx'.ongoing
    BY <1>1, <1>3 DEF SameCounts
  <2> QED BY <1>1, <2>1 DEF Transferring, LengthsKept, TransferGoesOn, Transfer
<1> QED BY <1>2, <1>3

-------------------------------------------------------------------------------
\* Steps of the network and of time.

\* Nothing but queues of flow control changes.
LEMMA NothingMoves ==
  ASSUME UNCHANGED <<tx, boxS, toR, received, recv>>, rx'.buf = rx.buf
  PROVE  Around' \subseteq Around
<1>1. /\ Waiting' = Waiting /\ AllRead' = AllRead
      /\ DataIn(boxS)' = DataIn(boxS) /\ DataIn(toR)' = DataIn(toR)
      /\ Elements(rx.buf)' = Elements(rx.buf)
      /\ Elements(recv.payload)' = Elements(recv.payload)
  BY DEF Waiting, AllRead, Elements
<1> QED BY <1>1 DEF Around

LEMMA BoundedUntouched ==
  ASSUME Bounded, UNCHANGED link, link = "response" \/ UNCHANGED received,
         rx'.buf = rx.buf, rx'.ready = rx.ready, rx'.declared = rx.declared,
         rx'.inProgress => rx.inProgress
  PROVE  Bounded'
BY DEF Bounded, Fits

\* The controller of the sender's node sends a frame, or loses it.
LEMMA TransmitSAround ==
  ASSUME Shape, TransmitsS, UNCHANGED recv
  PROVE  Around' \subseteq Around /\ UNCHANGED <<tx, rx, lens, outcome, received>>
<1>1. PICK i \in 1..Len(boxS) : TransmitS(i)
  BY DEF TransmitsS
<1>2. /\ boxS \in Seq(OrApp(Data(link))) /\ toR \in Seq(Data(link) \cup Fcs)
      /\ boxS[i] \in OrApp(Data(link))
  BY <1>1 DEF Shape, BusShape
<1>3. /\ boxS' = Remove(boxS, i) /\ UNCHANGED <<tx, rx, lens, outcome, received>>
      /\ \/ toR' = toR
         \/ boxS[i].type # "app" /\ toR' = Append(toR, boxS[i])
  BY <1>1 DEF TransmitS, app
<1>4. DataIn(boxS') \subseteq DataIn(boxS) /\ (IsData(boxS[i]) => boxS[i].data \in DataIn(boxS))
  BY <1>1, <1>2, <1>3, DataRemoved
<1>5. DataIn(toR') \subseteq DataIn(toR) \cup DataIn(boxS)
  <2>1. CASE toR' = toR
    BY <2>1
  <2>2. CASE boxS[i].type # "app" /\ toR' = Append(toR, boxS[i])
    <3>1. boxS[i] \in Data(link) \cup Fcs
      BY <1>2, <2>2 DEF OrApp, AppFrame
    <3>2. DataIn(toR') \subseteq DataIn(toR) \cup (IF IsData(boxS[i]) THEN {boxS[i].data} ELSE {})
      BY <1>2, <2>2, <3>1, DataAppended
    <3> QED BY <1>4, <3>2
  <2> QED BY <1>3, <2>1, <2>2
<1>6. /\ Waiting' = Waiting /\ AllRead' = AllRead
      /\ DataIn(boxS)' = DataIn(boxS') /\ DataIn(toR)' = DataIn(toR')
      /\ Elements(rx.buf)' = Elements(rx.buf)
      /\ Elements(recv.payload)' = Elements(recv.payload)
  BY <1>3 DEF Waiting, AllRead, Elements
<1> QED BY <1>3, <1>4, <1>5, <1>6 DEF Around

\* A frame of another kind joins a queue.
LEMMA OtherFrameAround ==
  ASSUME Shape, UNCHANGED <<tx, rx, received, recv>>,
         \/ boxS' = Append(boxS, AppFrame) /\ UNCHANGED toR
         \/ toR = <<>> /\ toR' = <<FC("CTS")>> /\ UNCHANGED boxS
         \/ UNCHANGED <<boxS, toR>>
  PROVE  Around' \subseteq Around
<1>1. boxS \in Seq(OrApp(Data(link))) /\ AppFrame \in OrApp(Data(link)) /\ ~IsData(AppFrame)
  BY DEF Shape, BusShape, OrApp, IsData, AppFrame
<1>2. DataIn(boxS') \subseteq DataIn(boxS)
  <2>1. CASE boxS' = Append(boxS, AppFrame)
    BY <1>1, <2>1, DataAppended
  <2> QED BY <2>1
<1>3. DataIn(toR') \subseteq DataIn(toR)
  <2>1. CASE toR' = <<FC("CTS")>>
    <3>1. DataIn(<<FC("CTS")>>) = {}
      BY DEF DataIn, FC
    <3> QED BY <2>1, <3>1
  <2> QED BY <2>1
<1>4. /\ Waiting' = Waiting /\ AllRead' = AllRead
      /\ DataIn(boxS)' = DataIn(boxS') /\ DataIn(toR)' = DataIn(toR')
      /\ Elements(rx.buf)' = Elements(rx.buf)
      /\ Elements(recv.payload)' = Elements(recv.payload)
  BY DEF Waiting, AllRead, Elements
<1> QED BY <1>2, <1>3, <1>4 DEF Around

-------------------------------------------------------------------------------
\* The PC's sender.

\* The one chunk a step hands over.
LEMMA NewChunk ==
  ASSUME NEW m, NEW k, Around' \subseteq Around \cup {Chunk(m, k)},
         m \in 1..Len(lens'), outcome'[m] \in {"ok", "ongoing"},
         Transfer'.busy /\ m = Transfer'.msg => k <= Transfer'.offset
  PROVE  \A c \in Around' \ Around : HandedOut(c)'
<1>1. \A c \in Around' \ Around : c = Chunk(m, k)
  OBVIOUS
<1>2. HandedOut(Chunk(m, k))'
  <2>1. Chunk(m, k)[1] = m /\ Chunk(m, k)[2] = k
    BY DEF Chunk
  <2>2. ~GivenUp(outcome[m])'
    BY DEF GivenUp
  <2> QED BY <2>1, <2>2 DEF HandedOut, Chunk, GivenUp
<1> QED BY <1>1, <1>2 DEF HandedOut

LEMMA SendFrameAround ==
  ASSUME Shape, NEW f \in Data(link), SendFrame(f),
         UNCHANGED <<tx, rx, boxS, received, recv>>
  PROVE  Around' \subseteq Around \cup {f.data}
<1>1. toR \in Seq(Data(link) \cup Fcs) /\ f \in Data(link) \cup Fcs
  BY DEF Shape, BusShape
<1>2. DataIn(toR') \subseteq DataIn(toR) \cup {f.data}
  <2>1. CASE toR' = toR
    BY <2>1
  <2>2. CASE toR' = Append(toR, f)
    <3>1. DataIn(toR') = DataIn(toR) \cup (IF IsData(f) THEN {f.data} ELSE {})
      BY <1>1, <2>2, DataAppended
    <3> QED BY <3>1
  <2> QED BY <2>1, <2>2 DEF SendFrame
<1>3. /\ Waiting' = Waiting /\ AllRead' = AllRead
      /\ DataIn(boxS)' = DataIn(boxS) /\ DataIn(toR)' = DataIn(toR')
      /\ Elements(rx.buf)' = Elements(rx.buf)
      /\ Elements(recv.payload)' = Elements(recv.payload)
  BY DEF Waiting, AllRead, Elements
<1> QED BY <1>2, <1>3 DEF Around

\* send() ends, or goes on.
LEMMA SendEndsVerdict ==
  ASSUME Shape, Transferring, link = "request", UNCHANGED <<lens, link>>, send.at # "idle",
         NEW verdict, SendEnds(verdict)
  PROVE  Transferring' /\ LengthsKept /\ TransferGoesOn /\ ~Transfer'.busy
<1>1. send' = NoSend /\ outcome' = [outcome EXCEPT ![send.msg] = verdict]
  BY DEF SendEnds
<1>2. send'.at = "idle"
  BY <1>1 DEF NoSend
<1>3. ~Transfer'.busy
  BY <1>2 DEF Transfer
<1>4. Transferring' /\ TransferGoesOn
  BY <1>2, <1>3 DEF Transferring, TransferGoesOn
<1>5. LengthsKept
  <2>1. outcome \in Seq(Verdicts) /\ Len(outcome) = Len(lens)
    BY DEF Shape, AppShape
  <2>2. ASSUME NEW m \in 1..Len(lens), GivenUp(outcome'[m])
        PROVE  GivenUp(outcome[m]) \/ m = send.msg
    BY <1>1, <2>1, <2>2
  <2>3. /\ Transfer.busy /\ Transfer.msg = send.msg /\ Transfer.offset = send.sent + 1
        /\ send.sent + 1 < send.len /\ send.len = lens[send.msg]
    BY CallTransfer DEF Shape, SendShape, Transferring
  <2> QED BY <2>2, <2>3 DEF LengthsKept
<1> QED BY <1>3, <1>4, <1>5

LEMMA SendGoesOn ==
  ASSUME Shape, Transferring, link = "request", UNCHANGED <<lens, outcome, link>>,
         send'.at # "idle" => send.at # "idle", send'.msg = send.msg, send'.len = send.len,
         send'.sent \in Nat, send'.sent >= send.sent
  PROVE  Transferring' /\ LengthsKept /\ TransferGoesOn
<1>1. Transferring'
  BY DEF Transferring
<1>2. send.sent \in Nat
  BY DEF Shape, SendShape, SendCalls
<1>3. TransferGoesOn
  BY <1>2, CallTransfer, CallTransferAfter DEF TransferGoesOn
<1> QED BY <1>1, <1>3 DEF LengthsKept

LEMMA PcSendVerdict ==
  ASSUME Shape, Transferring, link = "request", NEW n \in Requests, PcSend(n),
         UNCHANGED <<recv, link>>
  PROVE  /\ Transferring' /\ LengthsKept /\ TransferGoesOn
         /\ \A c \in Around' \ Around : HandedOut(c)'
<1> DEFINE m == Len(lens) + 1
<1>1. /\ send.at = "idle" /\ lens' = Append(lens, n)
      /\ UNCHANGED <<tx, rx, boxS, received>>
  BY DEF PcSend
<1>2. /\ m \in Numbers /\ n \in Nat \ {0} /\ Len(lens) \in Nat /\ lens \in Seq(Nat \ {0})
      /\ outcome \in Seq(Verdicts) /\ Len(outcome) = Len(lens)
  <2>1. Len(lens) < MaxMsgs /\ lens \in Seq(Nat \ {0})
        /\ outcome \in Seq(Verdicts) /\ Len(outcome) = Len(lens)
    BY DEF PcSend, Shape, AppShape
  <2>2. Len(lens) \in Nat
    BY <2>1
  <2> QED BY <2>1, <2>2, SendAssumption, IsotpAssumption DEF Numbers
<1>3. /\ Len(lens') = m /\ lens'[m] = n
      /\ \A i \in 1..Len(lens) : i \in 1..Len(lens') /\ lens'[i] = lens[i]
  BY <1>1, <1>2
<1>4. n \in LensOf(link)
  BY DEF LensOf
<1>5. \/ /\ n = 1 /\ SendFrame(SF(m)) /\ UNCHANGED send
         /\ outcome' = Append(outcome, "ok")
      \/ /\ n > 1 /\ SendFrame(FF(m, n))
         /\ send' = AwaitsFc([NoSend EXCEPT !.msg = m, !.len = n])
         /\ outcome' = Append(outcome, "ongoing")
  BY <1>3 DEF PcSend
<1> HIDE DEF m
<1>6. SF(m) \in Data(link) /\ (n > 1 => FF(m, n) \in Data(link))
  <2>1. n > 1 => n \in LensOf(link) \ {1}
    BY <1>2, <1>4
  <2> QED BY <1>2, <2>1, FrameTypes, Zenon
<1>7. ASSUME NEW v \in {"ok", "ongoing"}, outcome' = Append(outcome, v)
      PROVE  /\ outcome'[m] = v
             /\ LengthsKept
  <2>1. outcome'[m] = v /\ \A i \in 1..Len(lens) : outcome'[i] = outcome[i]
    BY <1>2, <1>7 DEF m
  <2> QED BY <1>3, <2>1 DEF LengthsKept
<1>8. m \in 1..Len(lens') /\ m \notin 1..Len(lens)
  BY <1>2, <1>3 DEF m
<1>9. CASE /\ n = 1 /\ SendFrame(SF(m)) /\ UNCHANGED send
           /\ outcome' = Append(outcome, "ok")
  <2>1. SF(m).data = Chunk(m, 1)
    BY DEF SF
  <2>2. ~Transfer'.busy /\ send'.at = "idle"
    BY <1>1, <1>9, CallTransferAfter
  <2>3. Transferring' /\ TransferGoesOn
    BY <2>2 DEF Transferring, TransferGoesOn
  <2>4. Around' \subseteq Around \cup {Chunk(m, 1)}
    BY <1>1, <1>6, <1>9, <2>1, SendFrameAround
  <2> QED BY <1>7, <1>8, <1>9, <2>2, <2>3, <2>4, NewChunk
<1>10. CASE /\ n > 1 /\ SendFrame(FF(m, n))
            /\ send' = AwaitsFc([NoSend EXCEPT !.msg = m, !.len = n])
            /\ outcome' = Append(outcome, "ongoing")
  <2>1. FF(m, n).data = Chunk(m, 1)
    BY DEF FF
  <2>2. /\ send'.at = "fc" /\ send'.msg = m /\ send'.len = n /\ send'.sent = 0
    BY <1>10 DEF AwaitsFc, NoSend
  <2>3. Transfer'.msg = m /\ Transfer'.offset = 1
    BY <2>2, CallTransferAfter
  <2>4. outcome'[m] = "ongoing" /\ LengthsKept
    BY <1>7, <1>10
  <2>5. Transferring'
    BY <1>3, <1>8, <2>2, <2>4 DEF Transferring
  <2>6. TransferGoesOn
    BY <1>8, <2>3 DEF TransferGoesOn
  <2>7. Around' \subseteq Around \cup {Chunk(m, 1)}
    BY <1>1, <1>6, <1>10, <2>1, SendFrameAround
  <2> QED BY <1>8, <2>3, <2>4, <2>5, <2>6, <2>7, NewChunk
<1> QED BY <1>5, <1>9, <1>10

LEMMA WaitFlowControlVerdict ==
  ASSUME Shape, Transferring, link = "request", WaitFlowControl, UNCHANGED <<recv, link>>
  PROVE  Transferring' /\ LengthsKept /\ TransferGoesOn /\ Around' \subseteq Around
<1>1. UNCHANGED <<tx, rx, boxS, toR, lens, received>> /\ send.at = "fc" /\ send \in SendCalls
  BY DEF WaitFlowControl, Shape, SendShape
<1>2. Around' \subseteq Around
  BY <1>1, NothingMoves
<1>3. CASE \E verdict : SendEnds(verdict)
  BY <1>1, <1>2, <1>3, SendEndsVerdict
<1>4. CASE UNCHANGED outcome /\ send' \in {send, AwaitsFc(send),
                                           [send EXCEPT !.at = "cf", !.inBlock = 0, !.pause = Stmin]}
  <2>1. /\ send'.msg = send.msg /\ send'.len = send.len /\ send'.sent = send.sent
        /\ send.sent \in Nat
    BY <1>1, <1>4 DEF AwaitsFc, SendCalls
  <2> QED BY <1>1, <1>2, <1>4, <2>1, SendGoesOn
<1> QED BY <1>3, <1>4 DEF WaitFlowControl

LEMMA FlowControlTimeoutVerdict ==
  ASSUME Shape, Transferring, link = "request", FlowControlTimeout, UNCHANGED <<recv, link>>
  PROVE  Transferring' /\ LengthsKept /\ TransferGoesOn /\ Around' \subseteq Around
<1>1. /\ UNCHANGED <<tx, rx, boxS, toR, lens, received>> /\ send.at = "fc"
      /\ SendEnds("timeout")
  BY DEF FlowControlTimeout, bus
<1> QED BY <1>1, NothingMoves, SendEndsVerdict

LEMMA SendConsecutiveVerdict ==
  ASSUME Shape, Shape', Transferring, link = "request", SendConsecutive, UNCHANGED <<recv, link>>
  PROVE  /\ Transferring' /\ LengthsKept /\ TransferGoesOn
         /\ \A c \in Around' \ Around : HandedOut(c)'
<1> DEFINE f == CF(Sn(send.sent + 1), send.msg, send.sent + 2)
           s == [send EXCEPT !.sent = @ + 1, !.inBlock = @ + 1, !.pause = Stmin]
<1>1. /\ UNCHANGED <<tx, rx, boxS, lens, received>> /\ send.at = "cf" /\ send \in SendCalls
      /\ send.sent \in Nat /\ send.msg \in Numbers /\ send.msg \in 1..Len(lens)
      /\ outcome[send.msg] = "ongoing"
      /\ outcome \in Seq(Verdicts) /\ Len(outcome) = Len(lens)
  BY DEF SendConsecutive, Shape, SendShape, SendCalls, AppShape, Transferring
<1>2. f \in Data(link) /\ f.data = Chunk(send.msg, send.sent + 2)
  <2>1. Sn(send.sent + 1) \in Sns /\ send.sent + 2 \in Nat
    BY <1>1, IsotpAssumption, SMTT(20) DEF Sn, Sns
  <2>2. \A k \in Nat, i \in Sns : CF(i, send.msg, k) \in Data(link)
    BY <1>1, FrameTypes
  <2>3. f.data = Chunk(send.msg, send.sent + 2)
    BY DEF CF
  <2> QED BY <2>1, <2>2, <2>3, Zenon
<1>3. /\ SendFrame(f)
      /\ \/ SendEnds("ok")
         \/ send' \in {AwaitsFc(s), s} /\ UNCHANGED outcome
  BY DEF SendConsecutive
<1>4. s.msg = send.msg /\ s.len = send.len /\ s.sent = send.sent + 1
  BY <1>1 DEF SendCalls
<1> HIDE DEF f, s
<1>5. Around' \subseteq Around \cup {Chunk(send.msg, send.sent + 2)}
  BY <1>1, <1>2, <1>3, SendFrameAround
<1>6. CASE SendEnds("ok")
  <2>1. Transferring' /\ LengthsKept /\ TransferGoesOn /\ ~Transfer'.busy
    BY <1>1, <1>6, SendEndsVerdict
  <2>2. outcome'[send.msg] = "ok"
    BY <1>1, <1>6 DEF SendEnds
  <2> QED BY <1>1, <1>5, <2>1, <2>2, NewChunk
<1>7. CASE send' \in {AwaitsFc(s), s} /\ UNCHANGED outcome
  <2>1. send'.msg = send.msg /\ send'.len = send.len /\ send'.sent = send.sent + 1
    <3>1. AwaitsFc(s).msg = s.msg /\ AwaitsFc(s).len = s.len /\ AwaitsFc(s).sent = s.sent
      <4>1. s \in SendCalls
        <5>1. send.sent + 1 \in Nat /\ send.inBlock + 1 \in Nat /\ Stmin \in 0..Stmin
          BY <1>1, IsotpAssumption, SMTT(20) DEF SendCalls
        <5> QED BY <1>1, <5>1 DEF s, SendCalls
      <4> QED BY <4>1, AwaitsFcShape
    <3> QED BY <1>4, <1>7, <3>1
  <2>2. Transferring' /\ LengthsKept /\ TransferGoesOn
    BY <1>1, <1>7, <2>1, SendGoesOn
  <2>3. Transfer'.offset = send.sent + 2
    BY <1>1, <2>1, CallTransferAfter
  <2> QED BY <1>1, <1>5, <1>7, <2>2, <2>3, NewChunk
<1> QED BY <1>3, <1>6, <1>7

LEMMA SendTickVerdict ==
  ASSUME Shape, Transferring, Bounded, link = "request", SendTick, UNCHANGED <<recv, link>>
  PROVE  /\ Transferring' /\ LengthsKept /\ TransferGoesOn /\ Around' \subseteq Around
         /\ Bounded'
<1>1. /\ UNCHANGED <<tx, boxS, toR, lens, outcome, received>>
      /\ send' = [send EXCEPT !.left = Less(@), !.pause = Less(@)]
      /\ rx' = [rx EXCEPT !.arLeft = Less(@), !.crLeft = Less(@)]
  BY DEF SendTick, bus, app
<1>2. send \in SendCalls /\ rx \in Receivers
  BY DEF Shape, SendShape, RxShape
<1>3. send'.at = send.at /\ send'.msg = send.msg /\ send'.len = send.len /\ send'.sent = send.sent
      /\ send.sent \in Nat
  BY <1>1, <1>2 DEF SendCalls
<1>4. /\ rx'.buf = rx.buf /\ rx'.ready = rx.ready /\ rx'.declared = rx.declared
      /\ rx'.inProgress = rx.inProgress
  BY <1>1, <1>2 DEF Receivers
<1>5. Around' \subseteq Around /\ Bounded'
  BY <1>1, <1>4, NothingMoves, BoundedUntouched
<1> QED BY <1>1, <1>3, <1>5, SendGoesOn

-------------------------------------------------------------------------------
\* The PC's receiver.

\* A call moves chunks of the frame it takes on, or drops them.
LEMMA CallAround ==
  ASSUME Shape, UNCHANGED <<tx, rx, boxS>>, NEW S,
         S = Elements(recv.payload) \cup DataIn(toR),
         toR' = toR \/ (toR # <<>> /\ toR' = Tail(toR)),
         Elements(recv'.payload) \subseteq S,
         \/ received' = received
         \/ \E b \in Seq(Chunks) : Elements(b) \subseteq S /\ received' = Append(received, b)
  PROVE  Around' \subseteq Around
<1>1. toR \in Seq(Data(link) \cup Fcs)
  BY DEF Shape, BusShape
<1>2. DataIn(toR') \subseteq DataIn(toR)
  BY <1>1, DataTail
<1>3. AllRead' \subseteq AllRead \cup S
  <2>1. CASE received' = received
    BY <2>1 DEF AllRead
  <2>2. CASE received' # received
    <3>1. PICK b \in Seq(Chunks) : Elements(b) \subseteq S /\ received' = Append(received, b)
      BY <2>2
    <3>2. AllRead' = AllRead \cup Elements(b)
      BY <3>1, ReadAppended
    <3> QED BY <3>1, <3>2
  <2> QED BY <2>1, <2>2
<1>4. /\ Waiting' = Waiting /\ Elements(rx.buf)' = Elements(rx.buf)
      /\ DataIn(boxS)' = DataIn(boxS) /\ DataIn(toR)' = DataIn(toR')
      /\ Elements(recv.payload)' = Elements(recv'.payload)
  BY DEF Waiting
<1> QED BY <1>2, <1>3, <1>4 DEF Around

LEMMA NoPayload == Elements(NoCall.payload) = {}
BY DEF NoCall, Elements

LEMMA PcReceiveAround ==
  ASSUME Shape, PcReceive
  PROVE  Around' \subseteq Around
<1>1. UNCHANGED <<tx, rx, boxS, toR, received>>
  BY DEF PcReceive, vars, bus, app
<1>2. recv'.payload = NoCall.payload
  BY DEF PcReceive, NoCall
<1> QED BY <1>1, <1>2, NoPayload, CallAround

LEMMA ReceiveTimeoutAround ==
  ASSUME Shape, ReceiveTimeout
  PROVE  Around' \subseteq Around
<1>1. UNCHANGED <<tx, rx, boxS, toR, received>> /\ recv' = NoCall
  BY DEF ReceiveTimeout, Raises
<1> QED BY <1>1, NoPayload, CallAround

LEMMA ReceiveFirstAround ==
  ASSUME Shape, ReceiveFirst
  PROVE  Around' \subseteq Around
<1> DEFINE f == Head(toR)
<1>1. /\ UNCHANGED <<tx, rx, boxS>> /\ toR # <<>> /\ toR' = Tail(toR)
      /\ toR \in Seq(Data(link) \cup Fcs)
  BY DEF ReceiveFirst, TakesFrame, Shape, BusShape
<1>2. f \in Data(link) \cup Fcs /\ (IsData(f) => f.data \in DataIn(toR))
  BY <1>1, DataTail, HeadTailProperties
<1>3. IsData(f) => <<f.data>> \in Seq(Chunks) /\ Elements(<<f.data>>) = {f.data}
  <2> HIDE DEF f
  <2>1. ASSUME IsData(f) PROVE f.data \in Chunks
    BY <1>2, <2>1, DataFields DEF IsData
  <2>2. ASSUME IsData(f) PROVE <<f.data>> \in Seq(Chunks)
    BY <2>1, <2>2
  <2> QED BY <2>2, ElementsOfFew
<1>4. CASE f.type = "SF" /\ Returns(<<f.data>>)
  <2>1. recv' = NoCall /\ received' = Append(received, <<f.data>>) /\ IsData(f)
    BY <1>4 DEF Returns, IsData
  <2> HIDE DEF f
  <2> QED BY <1>1, <1>2, <1>3, <2>1, NoPayload, CallAround, ZenonT(60)
<1>5. CASE f.type \in {"CF", "FC"} /\ Raises
  BY <1>1, <1>5, NoPayload, CallAround DEF Raises
<1>6. CASE /\ f.type = "FF" /\ UNCHANGED received
           /\ recv' = [recv EXCEPT !.at = "rest", !.declared = f.len, !.payload = <<f.data>>]
  <2>1. recv \in ReceiveCalls
    BY DEF Shape, RecvShape
  <2>2. recv'.payload = <<f.data>> /\ IsData(f)
    <3>1. \A b, n : [recv EXCEPT !.at = "rest", !.declared = n, !.payload = b].payload = b
      BY <2>1 DEF ReceiveCalls
    <3>2. recv'.payload = <<f.data>>
      BY <1>6, <3>1, Zenon
    <3>3. IsData(f)
      BY <1>6 DEF IsData
    <3> QED BY <3>2, <3>3
  <2>3. UNCHANGED received
    BY <1>6
  <2> HIDE DEF f
  <2>4. Elements(recv'.payload) \subseteq Elements(recv.payload) \cup DataIn(toR)
    BY <1>2, <1>3, <2>2
  <2> QED BY <1>1, <2>3, <2>4, CallAround
<1> QED BY <1>4, <1>5, <1>6 DEF ReceiveFirst

LEMMA ReceiveRestAround ==
  ASSUME Shape, ReceiveRest
  PROVE  Around' \subseteq Around
<1> DEFINE f == Head(toR)
           r == [recv EXCEPT !.payload = Append(@, f.data), !.index = NextIndex(@),
                             !.inBlock = @ + 1]
<1>1. /\ UNCHANGED <<tx, rx, boxS>> /\ toR # <<>> /\ toR' = Tail(toR)
      /\ toR \in Seq(Data(link) \cup Fcs)
  BY DEF ReceiveRest, TakesFrame, Shape, BusShape
<1>2. f \in Data(link) \cup Fcs /\ (IsData(f) => f.data \in DataIn(toR))
  BY <1>1, DataTail, HeadTailProperties
<1>3. recv \in ReceiveCalls /\ recv.payload \in Seq(Chunks)
  BY DEF Shape, RecvShape, ReceiveCalls
<1>4. /\ r.payload = Append(recv.payload, f.data)
      /\ [r EXCEPT !.inBlock = 0].payload = r.payload
  BY <1>3 DEF ReceiveCalls
<1>5. f.type = "CF" => /\ r.payload \in Seq(Chunks)
                       /\ Elements(r.payload) \subseteq Elements(recv.payload) \cup DataIn(toR)
  <2>1. SUFFICES ASSUME f.type = "CF"
                 PROVE  /\ r.payload \in Seq(Chunks)
                        /\ Elements(r.payload) \subseteq Elements(recv.payload) \cup DataIn(toR)
    OBVIOUS
  <2>2. IsData(f) /\ f.data \in Chunks
    BY <1>2, <2>1, DataFields DEF IsData
  <2> HIDE DEF f, r
  <2>3. Elements(r.payload) = Elements(recv.payload) \cup {f.data}
    BY <1>3, <1>4, <2>2, ElementsAppended
  <2>4. r.payload \in Seq(Chunks)
    BY <1>3, <1>4, <2>2
  <2> QED BY <1>2, <2>2, <2>3, <2>4
<1>6. \/ UNCHANGED <<recv, received>>
      \/ Raises
      \/ f.type = "CF" /\ Returns(r.payload)
      \/ f.type = "CF" /\ recv' \in {r, [r EXCEPT !.inBlock = 0]} /\ UNCHANGED received
  BY DEF ReceiveRest
<1> HIDE DEF r, f
<1>7. CASE UNCHANGED <<recv, received>>
  BY <1>1, <1>7, CallAround
<1>8. CASE Raises
  BY <1>1, <1>8, NoPayload, CallAround DEF Raises
<1>9. CASE f.type = "CF" /\ Returns(r.payload)
  <2>1. recv' = NoCall /\ received' = Append(received, r.payload)
    BY <1>9 DEF Returns
  <2> QED BY <1>1, <1>5, <1>9, <2>1, NoPayload, CallAround
<1>10. CASE f.type = "CF" /\ recv' \in {r, [r EXCEPT !.inBlock = 0]} /\ UNCHANGED received
  <2>1. recv'.payload = r.payload
    BY <1>4, <1>10
  <2> QED BY <1>1, <1>5, <1>10, <2>1, CallAround
<1> QED BY <1>6, <1>7, <1>8, <1>9, <1>10

-------------------------------------------------------------------------------
\* All the steps.
LEMMA VerdictInvInit == LinksInit => VerdictInv
<1> SUFFICES ASSUME LinksInit PROVE VerdictInv
  OBVIOUS
<1>1. Transferring
  BY DEF LinksInit, Init, NoSend, Transferring
<1>2. Bounded
  <2>1. ~rx.inProgress /\ ~rx.ready /\ received = <<>>
    BY DEF LinksInit, Init
  <2> QED BY <2>1 DEF Bounded
<1>3. Around = {}
  <2>1. /\ ~tx.waitEnqueue /\ boxS = <<>> /\ toR = <<>> /\ rx.buf = <<>>
        /\ recv.payload = <<>> /\ received = <<>>
    BY DEF LinksInit, Init, NoCall
  <2>2. DataIn(<<>>) = {} /\ Elements(<<>>) = {} /\ AllRead = {}
    BY <2>1, ElementsOfFew DEF DataIn, AllRead
  <2> QED BY <2>1, <2>2 DEF Around, Waiting
<1> QED BY <1>1, <1>2, <1>3 DEF VerdictInv

\* A step that hands over nothing new, or one chunk its transfer accounts for.
Accounted ==
  Transferring' /\ Bounded' /\ LengthsKept /\ TransferGoesOn
  /\ \A c \in Around' \ Around : HandedOut(c)'

LEMMA AccountedKeeps ==
  ASSUME Shape, Shape', VerdictInv, Accounted, UNCHANGED link
  PROVE  VerdictInv'
BY HandedOutKept DEF VerdictInv, Accounted

\* Steps that leave the sender alone.
LEMMA UnsentAccounted ==
  ASSUME Shape, VerdictInv, Bounded', Around' \subseteq Around,
         UNCHANGED <<tx, send, lens, outcome, link>>
  PROVE  Accounted
BY UnsentKept DEF VerdictInv, Accounted

LEMMA NodeReceivesAccounted ==
  ASSUME Shape, Shape', Separate, VerdictInv, link # "response",
         RxOnFrame \/ RxPoll \/ RxRead \/ TransmitsR \/ ForeignFc, UNCHANGED <<send, recv, link>>
  PROVE  Accounted
<1>1. CASE RxOnFrame \/ RxPoll \/ RxRead
  <2>1. Around' \subseteq Around /\ UNCHANGED <<tx, lens, outcome>>
    BY <1>1, ReceiverAround
  <2>2. Bounded'
    BY <1>1, ReceiverBounded DEF VerdictInv
  <2> QED BY <2>1, <2>2, UnsentAccounted
<1>2. CASE TransmitsR \/ ForeignFc
  <2>1. UNCHANGED <<tx, rx, boxS, toR, lens, outcome, received>>
    BY <1>2 DEF TransmitsR, TransmitR, ForeignFc, app
  <2>2. Around' \subseteq Around /\ Bounded'
    BY <2>1, NothingMoves, BoundedUntouched DEF VerdictInv
  <2> QED BY <2>1, <2>2, UnsentAccounted
<1> QED BY <1>1, <1>2

LEMMA NodeSendsAccounted ==
  ASSUME Shape, Shape', VerdictInv, NoBlockEnds, link # "request",
         \/ \E n \in LensOf(link) : TxStart(n)
         \/ TxOnFrame \/ TxPollEnqueue \/ TxPollStuck \/ TxPollTransfer \/ TransmitsS,
         UNCHANGED <<send, recv, link>>
  PROVE  Accounted
<1>1. Transferring /\ Bounded
  BY DEF VerdictInv
<1>2. UNCHANGED <<rx, received>> => Bounded'
  BY <1>1, BoundedUntouched
<1>3. CASE \E n \in LensOf(link) : TxStart(n)
  <2>1. PICK n \in LensOf(link) : TxStart(n)
    BY <1>3
  <2>2. UNCHANGED <<rx, received>>
    BY <2>1 DEF TxStart
  <2>3. /\ Transferring' /\ LengthsKept /\ TransferGoesOn
        /\ Around' \subseteq Around \cup {Chunk(Len(lens) + 1, 1)}
        /\ lens' = Append(lens, n) /\ outcome' = Append(outcome, "ongoing")
        /\ Transfer'.offset = 1
    BY <1>1, <2>1, TxStartVerdict
  <2>4. /\ lens \in Seq(Nat \ {0}) /\ outcome \in Seq(Verdicts) /\ Len(outcome) = Len(lens)
    BY DEF Shape, AppShape
  <2>5. Len(lens) + 1 \in 1..Len(lens') /\ outcome'[Len(lens) + 1] = "ongoing"
    BY <2>3, <2>4
  <2>6. PICK m, k \in Nat : m = Len(lens) + 1 /\ k = 1
    BY <2>4
  <2>7. /\ Around' \subseteq Around \cup {Chunk(m, k)} /\ m \in 1..Len(lens')
        /\ outcome'[m] \in {"ok", "ongoing"} /\ k <= Transfer'.offset
    <3>1. Around' \subseteq Around \cup {Chunk(m, k)}
      BY <2>3, <2>6, Zenon
    <3>2. m \in 1..Len(lens') /\ outcome'[m] \in {"ok", "ongoing"}
      BY <2>5, <2>6
    <3>3. k <= Transfer'.offset
      BY <2>3, <2>6
    <3> QED BY <3>1, <3>2, <3>3
  <2>8. \A c \in Around' \ Around : HandedOut(c)'
    BY <2>7, NewChunk
  <2> QED BY <1>2, <2>2, <2>3, <2>8 DEF Accounted
<1>4. CASE TxOnFrame
  <2>1. UNCHANGED <<rx, boxS, toR, received>>
    BY <1>4 DEF TxOnFrame
  <2>2. /\ Transferring' /\ LengthsKept /\ TransferGoesOn
        /\ tx'.waitEnqueue = tx.waitEnqueue /\ tx'.frame = tx.frame
    BY <1>1, <1>4, TxOnFrameVerdict
  <2>3. Around' \subseteq Around
    BY <2>1, <2>2, SenderAroundKept
  <2> QED BY <1>2, <2>1, <2>2, <2>3 DEF Accounted
<1>5. CASE TxPollEnqueue
  <2>1. UNCHANGED <<rx, received>>
    BY <1>5 DEF TxPollEnqueue
  <2>2. Transferring' /\ LengthsKept /\ TransferGoesOn /\ Around' \subseteq Around
    BY <1>1, <1>5, TxPollEnqueueVerdict
  <2> QED BY <1>2, <2>1, <2>2 DEF Accounted
<1>6. CASE TxPollStuck
  BY <1>1, <1>6, NeverStuckAnywhere, TimersRunning DEF TxPollStuck
<1>7. CASE TxPollTransfer
  <2>1. UNCHANGED <<rx, lens, received>> /\ tx.ongoing
    BY <1>7 DEF TxPollTransfer, PollReachesTransfer
  <2>2. /\ Transferring' /\ LengthsKept /\ TransferGoesOn
        /\ \/ Around' \subseteq Around
           \/ /\ Around' \subseteq Around \cup {Chunk(tx.msg, tx.offset + 1)}
              /\ UNCHANGED outcome /\ Transfer'.offset = tx.offset + 1
    BY <1>1, <1>7, TxPollTransferVerdict
  <2>3. tx.msg \in 1..Len(lens) /\ outcome[tx.msg] = "ongoing" /\ tx.offset + 1 \in Nat
    BY <1>1, <2>1 DEF Transferring, Shape, TxShape, Senders
  <2>4. \A c \in Around' \ Around : HandedOut(c)'
    <3>1. CASE Around' \subseteq Around
      BY <3>1
    <3>2. CASE /\ Around' \subseteq Around \cup {Chunk(tx.msg, tx.offset + 1)}
               /\ UNCHANGED outcome /\ Transfer'.offset = tx.offset + 1
      <4>1. tx.msg \in 1..Len(lens') /\ outcome'[tx.msg] \in {"ok", "ongoing"}
            /\ tx.offset + 1 <= Transfer'.offset
        BY <2>1, <2>3, <3>2
      <4> QED BY <3>2, <4>1, NewChunk
    <3> QED BY <2>2, <3>1, <3>2
  <2> QED BY <1>2, <2>1, <2>2, <2>4 DEF Accounted
<1>8. CASE TransmitsS
  <2>1. Around' \subseteq Around /\ UNCHANGED <<tx, rx, lens, outcome, received>>
    BY <1>8, TransmitSAround
  <2> QED BY <1>2, <2>1, UnsentAccounted
<1> QED BY <1>3, <1>4, <1>5, <1>6, <1>7, <1>8

LEMMA OthersAccounted ==
  ASSUME Shape, Shape', VerdictInv, Prompt, link = "nodes", AppSends \/ Tick,
         UNCHANGED <<send, recv, link>>
  PROVE  Accounted
<1>1. Transferring /\ Bounded
  BY DEF VerdictInv
<1>2. CASE AppSends
  <2>1. UNCHANGED <<tx, rx, toR, lens, outcome, received>>
    BY <1>2 DEF AppSends, app
  <2>2. Around' \subseteq Around
    BY <1>2, <2>1, OtherFrameAround DEF AppSends
  <2>3. Bounded'
    BY <1>1, <2>1, BoundedUntouched
  <2> QED BY <2>1, <2>2, <2>3, UnsentAccounted
<1>3. CASE Tick
  <2>1. /\ tx' = [tx EXCEPT !.asLeft = Less(@), !.fcLeft = Less(@), !.sinceCf = More(@)]
        /\ rx' = [rx EXCEPT !.arLeft = Less(@), !.crLeft = Less(@)]
        /\ UNCHANGED <<boxS, toR, lens, outcome, received>>
        /\ tx.ongoing => ~tx.waitEnqueue /\ ~tx.framePending
    BY <1>3 DEF Tick, Quiescent, bus, app
  <2>2. /\ Transferring' /\ LengthsKept /\ TransferGoesOn
        /\ tx'.waitEnqueue = tx.waitEnqueue /\ tx'.frame = tx.frame
    BY <1>1, <2>1, TickVerdict
  <2>3. /\ rx'.buf = rx.buf /\ rx'.ready = rx.ready /\ rx'.declared = rx.declared
        /\ rx'.inProgress = rx.inProgress
    BY <2>1 DEF Shape, RxShape, Receivers
  <2>4. Around' \subseteq Around
    <3>1. Waiting' = Waiting /\ AllRead' = AllRead
      BY <2>1, <2>2 DEF Waiting, AllRead
    <3>2. /\ DataIn(boxS)' = DataIn(boxS) /\ DataIn(toR)' = DataIn(toR)
          /\ Elements(rx.buf)' = Elements(rx.buf)
          /\ Elements(recv.payload)' = Elements(recv.payload)
      BY <2>1, <2>3 DEF Elements
    <3> QED BY <3>1, <3>2 DEF Around
  <2>5. Bounded'
    BY <1>1, <2>1, <2>3, BoundedUntouched
  <2> QED BY <2>2, <2>4, <2>5 DEF Accounted
<1> QED BY <1>2, <1>3

LEMMA PcSendsAccounted ==
  ASSUME Shape, Shape', VerdictInv, link = "request",
         \/ \E n \in Requests : PcSend(n)
         \/ WaitFlowControl \/ FlowControlTimeout \/ SendConsecutive
         \/ OtherRequestFrames \/ SendTick,
         UNCHANGED <<recv, link>>
  PROVE  Accounted
<1>1. Transferring /\ Bounded
  BY DEF VerdictInv
<1>2. UNCHANGED <<rx, received>> => Bounded'
  BY <1>1, BoundedUntouched
<1>3. CASE \E n \in Requests : PcSend(n)
  <2>1. PICK n \in Requests : PcSend(n)
    BY <1>3
  <2>2. UNCHANGED <<rx, received>>
    BY <2>1 DEF PcSend
  <2> QED BY <1>1, <1>2, <2>1, <2>2, PcSendVerdict DEF Accounted
<1>4. CASE WaitFlowControl
  <2>1. UNCHANGED <<rx, received>>
    BY <1>4 DEF WaitFlowControl
  <2> QED BY <1>1, <1>2, <1>4, <2>1, WaitFlowControlVerdict DEF Accounted
<1>5. CASE FlowControlTimeout
  <2>1. UNCHANGED <<rx, received>>
    BY <1>5 DEF FlowControlTimeout
  <2> QED BY <1>1, <1>2, <1>5, <2>1, FlowControlTimeoutVerdict DEF Accounted
<1>6. CASE SendConsecutive
  <2>1. UNCHANGED <<rx, received>>
    BY <1>6 DEF SendConsecutive
  <2> QED BY <1>1, <1>2, <1>6, <2>1, SendConsecutiveVerdict DEF Accounted
<1>7. CASE OtherRequestFrames
  <2>1. UNCHANGED <<tx, rx, boxS, toR, send, lens, outcome, received>>
    BY <1>7 DEF OtherRequestFrames, app
  <2>2. Around' \subseteq Around
    BY <2>1, NothingMoves
  <2> QED BY <1>2, <2>1, <2>2, UnsentAccounted
<1>8. CASE SendTick
  BY <1>1, <1>8, SendTickVerdict DEF Accounted
<1> QED BY <1>3, <1>4, <1>5, <1>6, <1>7, <1>8

LEMMA PcReceivesAccounted ==
  ASSUME Shape, Shape', VerdictInv, Prompt, link = "response",
         \/ PcReceive \/ ReceiveFirst \/ ReceiveRest \/ ReceiveTimeout
         \/ OtherResponseFrames \/ ReceiveTick,
         UNCHANGED <<send, link>>
  PROVE  Accounted
<1>1. Transferring /\ Bounded
  BY DEF VerdictInv
<1>2. UNCHANGED rx => Bounded'
  BY <1>1, BoundedUntouched
<1>3. CASE PcReceive \/ ReceiveFirst \/ ReceiveRest \/ ReceiveTimeout
  <2>1. UNCHANGED <<tx, rx, lens, outcome>>
    BY <1>3 DEF PcReceive, ReceiveFirst, ReceiveRest, ReceiveTimeout, TakesFrame, vars, app
  <2>2. Around' \subseteq Around
    BY <1>3, PcReceiveAround, ReceiveFirstAround, ReceiveRestAround, ReceiveTimeoutAround
  <2> QED BY <1>2, <2>1, <2>2, UnsentAccounted
<1>4. CASE OtherResponseFrames
  <2>1. UNCHANGED <<tx, rx, lens, outcome, received, recv>>
    BY <1>4 DEF OtherResponseFrames, app
  <2>2. Around' \subseteq Around
    BY <1>4, <2>1, OtherFrameAround DEF OtherResponseFrames
  <2> QED BY <1>2, <2>1, <2>2, UnsentAccounted
<1>5. CASE ReceiveTick
  <2>1. /\ tx' = [tx EXCEPT !.asLeft = Less(@), !.fcLeft = Less(@), !.sinceCf = More(@)]
        /\ recv' = [recv EXCEPT !.left = Less(@)]
        /\ UNCHANGED <<rx, boxS, toR, lens, outcome, received>>
        /\ tx.ongoing => ~tx.waitEnqueue /\ ~tx.framePending
    BY <1>5 DEF ReceiveTick, ReceiveQuiescent, bus, app
  <2>2. /\ Transferring' /\ LengthsKept /\ TransferGoesOn
        /\ tx'.waitEnqueue = tx.waitEnqueue /\ tx'.frame = tx.frame
    BY <1>1, <2>1, TickVerdict
  <2>3. recv'.payload = recv.payload
    BY <2>1 DEF Shape, RecvShape, ReceiveCalls
  <2>4. Around' \subseteq Around
    <3>1. Waiting' = Waiting /\ AllRead' = AllRead
      BY <2>1, <2>2 DEF Waiting, AllRead
    <3>2. /\ DataIn(boxS)' = DataIn(boxS) /\ DataIn(toR)' = DataIn(toR)
          /\ Elements(rx.buf)' = Elements(rx.buf)
          /\ Elements(recv.payload)' = Elements(recv.payload)
      BY <2>1, <2>3 DEF Elements
    <3> QED BY <3>1, <3>2 DEF Around
  <2> QED BY <1>2, <2>1, <2>2, <2>4 DEF Accounted
<1> QED BY <1>3, <1>4, <1>5

LEMMA VerdictInvKept ==
  ASSUME Shape, Separate, VerdictInv, Prompt, link = "request" \/ NoBlockEnds,
         [LinksNext]_allVars
  PROVE  VerdictInv'
<1>1. Shape' /\ link \in {"nodes", "request", "response"}
  BY ShapeKept DEF Shape
<1>2. CASE UNCHANGED allVars
  <2>1. UNCHANGED <<tx, rx, boxS, toR, lens, outcome, received, send, recv, link>>
    BY <1>2 DEF allVars, vars, bus, app
  <2>2. Around' \subseteq Around /\ Bounded'
    BY <2>1, NothingMoves, BoundedUntouched DEF VerdictInv
  <2>3. Accounted
    BY <2>1, <2>2, UnsentAccounted
  <2> QED BY <1>1, <2>1, <2>3, AccountedKeeps
<1>3. CASE /\ link \in {"nodes", "request"} /\ UNCHANGED <<send, recv, link>>
           /\ RxOnFrame \/ RxPoll \/ RxRead \/ TransmitsR \/ ForeignFc
  BY <1>1, <1>3, NodeReceivesAccounted, AccountedKeeps
<1>4. CASE /\ link \in {"nodes", "response"} /\ UNCHANGED <<send, recv, link>>
           /\ \/ \E n \in LensOf(link) : TxStart(n)
              \/ TxOnFrame \/ TxPollEnqueue \/ TxPollStuck \/ TxPollTransfer \/ TransmitsS
  BY <1>1, <1>4, NodeSendsAccounted, AccountedKeeps
<1>5. CASE link = "nodes" /\ UNCHANGED <<send, recv, link>> /\ (AppSends \/ Tick)
  BY <1>1, <1>5, OthersAccounted, AccountedKeeps
<1>6. CASE /\ link = "request" /\ UNCHANGED <<recv, link>>
           /\ \/ \E n \in Requests : PcSend(n)
              \/ WaitFlowControl \/ FlowControlTimeout \/ SendConsecutive
              \/ OtherRequestFrames \/ SendTick
  BY <1>1, <1>6, PcSendsAccounted, AccountedKeeps
<1>7. CASE /\ link = "response" /\ UNCHANGED <<send, link>>
           /\ \/ PcReceive \/ ReceiveFirst \/ ReceiveRest \/ ReceiveTimeout
              \/ OtherResponseFrames \/ ReceiveTick
  BY <1>1, <1>7, PcReceivesAccounted, AccountedKeeps
<1>8. CASE LinksNext
  BY <1>3, <1>4, <1>5, <1>6, <1>7, <1>8, LinkSteps
<1> QED BY <1>2, <1>8

\* A message that was read has a last chunk, which is around for ever.
LEMMA GivenUpNotRead ==
  ASSUME Shape, VerdictInv, NEW m \in 1..Len(lens), GivenUp(outcome[m]),
         NEW i \in 1..Len(received), received[i] = Message(m, lens[m])
  PROVE  FALSE
<1>1. lens[m] \in Nat \ {0} /\ received[i] \in Seq(Chunks)
  BY DEF Shape, AppShape
<1>2. /\ Len(received[i]) = lens[m] /\ received[i][lens[m]] = Chunk(m, lens[m])
  <2>1. ASSUME NEW n \in Nat \ {0}, NEW b \in Seq(Chunks), b = Message(m, n)
        PROVE  Len(b) = n /\ b[n] = Chunk(m, n)
    <3>1. DOMAIN b = 1..n /\ b[n] = Chunk(m, n)
      BY <2>1 DEF Message
    <3>2. DOMAIN b = 1..Len(b) /\ Len(b) \in Nat
      OBVIOUS
    <3> QED BY <3>1, <3>2
  <2> QED BY <1>1, <2>1
<1>3. Chunk(m, lens[m]) \in Around
  <2>1. lens[m] \in 1..Len(received[i])
    BY <1>1, <1>2
  <2>2. Chunk(m, lens[m]) \in Elements(received[i])
    BY <1>2, <2>1 DEF Elements
  <2> QED BY <2>2 DEF Around, AllRead
<1>4. HandedOut(Chunk(m, lens[m]))
  BY <1>3 DEF VerdictInv
<1>5. TooLong(lens[m])
  BY <1>4 DEF HandedOut, Chunk
<1>6. Fits(received[i])
  BY <1>5 DEF VerdictInv, Bounded, TooLong
<1> QED BY <1>1, <1>2, <1>5, <1>6, IsotpAssumption DEF Fits, TooLong

LEMMA VerdictsFollow == Shape /\ VerdictInv => DeliveredIsNotTimeout
BY GivenUpNotRead DEF DeliveredIsNotTimeout, GivenUp

\* A sender is not told of a timeout for a message that was received whole: not by
\* IsotpTx_Poll, whose waits for flow control time out after the start or a full
\* block, nor by send().  It is so whenever main loops and bus are fast compared to
\* the ticks of the N_* timeouts and no message of a node's sender ends together
\* with a block: after such a message the code waits for flow control no receiver
\* sends.
THEOREM VerdictsTrue ==
  ASSUME Prompt, NoBlockEnds
  PROVE  LinksSpec => []DeliveredIsNotTimeout
<1> DEFINE I == Shape /\ Separate /\ VerdictInv
<1>1. LinksInit => I
  BY InitShape, VerdictInvInit DEF LinksInit, Init, Separate
<1>2. I /\ [LinksNext]_allVars => I'
  BY ShapeKept, SeparateKept, VerdictInvKept
<1>3. I => DeliveredIsNotTimeout
  BY VerdictsFollow
<1> QED BY <1>1, <1>2, <1>3, PTL DEF LinksSpec
===============================================================================
