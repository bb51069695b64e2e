------------------------ MODULE IsotpResponseProofs ------------------------
(***************************************************************************)
(* More about the ISO-TP links.                                            *)
(*                                                                         *)
(*   - RespInv is for the responses to the PC what LinkInv of IsotpProofs  *)
(*     is for the messages to a node: ResponsesWhole.                      *)
(*   - Both count the frames of a block: GrantsKept.                       *)
(*   - AgreeInv relates what the sender was told to what the receiver has, *)
(*     on the links whose receiver is a node; it needs PacedLinks as well: *)
(*     BothEndsAgree.                                                      *)
(*                                                                         *)
(* The premise of all three is FastLinks.                                  *)
(***************************************************************************)
EXTENDS IsotpProofs, FiniteSetTheorems

-------------------------------------------------------------------------------
(***************************************************************************)
(* Responses to the PC.  Its receiver may leave a message in the middle    *)
(* and meet the rest of it later, may skip first frames, and grants blocks *)
(* to senders that have given up.  RespInStep says what holds all the same *)
(* of a transfer v, whether its wait for flow control is over, late, the   *)
(* frames q on its path, whether a grant g is on its way, a call c of      *)
(* receive(), the lengths ls of the messages, those read, rd, and what the *)
(* sender was told of each, oc.                                            *)
(***************************************************************************)
CallMsg(c) == c.payload[1][1]
CallWindow(c) == Len(c.payload) - c.inBlock + BlockSize

\* A call that is in a message and has time left.
Open(c) == c.at = "rest" /\ c.left > 0

\* A sender that was granted a block, and one that waits for none.
Halfway(v, ls) == v.busy /\ ls[v.msg] > 1 /\ (~v.waiting \/ v.offset > 1)
Unasking(v, ls) == ~v.busy \/ ls[v.msg] = 1

RespSender(v, ls, oc) == OwnTransfer(v, ls) /\ (v.busy => oc[v.msg] = "ongoing")

\* Besides the frames of transfers, flow control may be in the PC's queue.
RespFrames(v, q, ls) ==
  /\ \A i \in 1..Len(q) : q[i].type # "FC" =>
       /\ FrameFits(q[i], ls)
       /\ v.busy /\ MsgOf(q[i]) = v.msg => IndexOf(q[i]) <= v.offset
  /\ \A i, j \in 1..Len(q) :
       i < j /\ q[i].type # "FC" /\ q[j].type # "FC" => Before(q[i], q[j])

\* What a call has of a message: chunks of another may follow the first only after
\* a timeout.
RespCall(c, ls, oc) ==
  /\ c.at = "first" => c.index = 1 /\ c.inBlock = 0
  /\ c.at = "rest" =>
       /\ c.payload # <<>> /\ CallMsg(c) \in 1..Len(ls) /\ c.payload[1] = Chunk(CallMsg(c), 1)
       /\ c.declared = ls[CallMsg(c)] /\ Len(c.payload) < c.declared
       /\ c.index = Len(c.payload) % SnMod
       /\ c.inBlock \in 0..(BlockSize - 1) /\ c.inBlock < Len(c.payload)
       /\ oc[CallMsg(c)] # "timeout" =>
            \A k \in 1..Len(c.payload) : c.payload[k] = Chunk(CallMsg(c), k)

\* What was read, and what is still to come.
RespRead(q, c, ls, rd, oc) ==
  /\ \A i \in 1..Len(rd) :
       /\ rd[i] # <<>> /\ NumberRead(rd, i) \in 1..Len(ls)
       /\ oc[NumberRead(rd, i)] # "timeout" =>
            rd[i] = Message(NumberRead(rd, i), ls[NumberRead(rd, i)])
  /\ \A i, j \in 1..Len(rd) : i < j => NumberRead(rd, i) < NumberRead(rd, j)
  /\ c.at = "rest" => \A i \in 1..Len(rd) : NumberRead(rd, i) < CallMsg(c)
  /\ \A k \in 1..Len(q) : q[k].type \in {"SF", "FF"} =>
       /\ \A i \in 1..Len(rd) : NumberRead(rd, i) < MsgOf(q[k])
       /\ c.at = "rest" => CallMsg(c) < MsgOf(q[k])

\* The consecutive frames on the path are of one message and of one block, of which
\* a call in a message has none yet.
RespChunks(v, q, c, ls, oc) ==
  \A i \in 1..Len(q) : q[i].type = "CF" =>
    /\ Halfway(v, ls) => MsgOf(q[i]) = v.msg
    /\ \A j \in 1..Len(q) : q[j].type = "CF" => MsgOf(q[i]) = MsgOf(q[j])
    /\ c.at = "rest" =>
         /\ Len(c.payload) < IndexOf(q[i]) /\ IndexOf(q[i]) <= CallWindow(c)
         /\ oc[CallMsg(c)] # "timeout" => MsgOf(q[i]) = CallMsg(c)

RespCount(v, q) ==
  \A i \in 1..Len(q) : q[i].type = "CF" =>
    /\ \A j \in 1..Len(q) : q[j].type = "CF" => IndexOf(q[i]) < IndexOf(q[j]) + BlockSize
    /\ v.busy /\ MsgOf(q[i]) = v.msg => v.offset < IndexOf(q[i]) + v.inBlock

\* How the two ends count the same block.
RespBlock(v, c, ls, oc) ==
  /\ c.at = "rest" /\ Halfway(v, ls) =>
       /\ Len(c.payload) <= v.offset
       /\ \/ Len(c.payload) - c.inBlock = v.offset - v.inBlock
          \/ v.waiting /\ Len(c.payload) = v.offset /\ c.inBlock = 0
       /\ oc[CallMsg(c)] # "timeout" => v.msg = CallMsg(c)
  /\ c.at = "rest" /\ oc[CallMsg(c)] = "ok" => ls[CallMsg(c)] <= CallWindow(c)

\* A sender that filled the block waits while its last frame is on the path.
RespEnd(v, late, q, c) ==
  c.at = "rest" =>
    \A i \in 1..Len(q) : q[i].type = "CF" =>
      /\ v.busy => ~late
      /\ IndexOf(q[i]) = CallWindow(c) =>
           v.busy /\ v.msg = MsgOf(q[i]) /\ v.offset = IndexOf(q[i])

\* Whom a grant on its way is for: the sender that waits for it, or nobody.
RespGrant(v, late, q, g, c, ls, oc) ==
  g =>
    /\ \A i \in 1..Len(q) : q[i].type # "CF"
    /\ (v.busy /\ v.waiting) \/ (Unasking(v, ls) /\ Open(c))
    /\ c.at = "rest" =>
         /\ c.inBlock = 0
         /\ v.busy /\ v.waiting =>
              Len(c.payload) = v.offset /\ (oc[CallMsg(c)] # "timeout" => v.msg = CallMsg(c))
         /\ ~(v.busy /\ v.waiting) => Len(c.payload) = 1 /\ oc[CallMsg(c)] = "timeout"
    /\ ~Open(c) => \A i \in 1..Len(q) : q[i].type # "FF"
    /\ v.busy /\ late => Open(c) /\ v.offset = 1

\* A first frame on the path: its sender waits for an answer or has given up, or it
\* will be skipped by a call that is in a message given up before.
Fresh(i, v, q, g, ls, oc) ==
  /\ \A j \in 1..Len(q) : q[j].type = "CF" => j < i
  /\ ~g
  /\ v.busy => v.offset = 1 /\ (v.waiting \/ ls[v.msg] = 1)
  /\ oc[MsgOf(q[i])] = "timeout" \/ (v.busy /\ v.msg = MsgOf(q[i]))

Skipped(i, q, c, oc) ==
  /\ Open(c) /\ oc[CallMsg(c)] = "timeout"
  /\ \A j \in 1..Len(q) : q[j].type = "CF" => i < j

RespFirst(v, late, q, g, c, ls, oc) ==
  \A i \in 1..Len(q) : q[i].type = "FF" =>
    /\ Fresh(i, v, q, g, ls, oc) \/ Skipped(i, q, c, oc)
    /\ c.at # "idle" /\ c.left = 0 =>
         i = Len(q) /\ v.busy /\ MsgOf(q[i]) = v.msg /\ v.offset = 1 /\ v.waiting /\ ~late

RespInStep(v, late, q, g, c, ls, rd, oc) ==
  /\ RespSender(v, ls, oc) /\ RespFrames(v, q, ls) /\ RespCall(c, ls, oc)
  /\ RespRead(q, c, ls, rd, oc) /\ RespChunks(v, q, c, ls, oc) /\ RespCount(v, q)
  /\ RespBlock(v, c, ls, oc) /\ RespEnd(v, late, q, c)
  /\ RespGrant(v, late, q, g, c, ls, oc) /\ RespFirst(v, late, q, g, c, ls, oc)

\* The values the lemmas below are about.
RespTyped(v, c, ls, oc) ==
  /\ ls \in Seq(Nat \ {0}) /\ oc \in Seq(Verdicts) /\ Len(oc) = Len(ls)
  /\ v.offset \in Nat /\ v.inBlock \in Nat
  /\ c.payload \in Seq(Chunks) /\ c.inBlock \in Nat /\ c.left \in Nat

RespNode ==
  /\ tx.waitEnqueue => tx.ongoing /\ Own = {}
  /\ \A i \in Own : /\ boxS[i] = tx.frame /\ Own = {i}
                    /\ tx.ongoing /\ tx.framePending /\ ~tx.waitEnqueue
  /\ tx.ongoing =>
       /\ tx.len = lens[tx.msg] /\ tx.sn = tx.offset % SnMod
       /\ tx.waitEnqueue \/ tx.framePending => tx.asLeft > 0
       /\ tx.waitFc \/ tx.bs = BlockSize \/ tx.len = 1
       /\ tx.waitFc => tx.len > 1
       /\ tx.inBlock < tx.offset

\* N_Bs or N_Cr is over.
Expired == tx.waitFc /\ tx.fcLeft = 0

RespInv ==
  link = "response" =>
    /\ RespInStep(Transfer, Expired, Path, toS # <<>>, recv, lens, received, outcome)
    /\ toS # <<>> => toS = <<FC("CTS")>>
    /\ RespNode

-------------------------------------------------------------------------------
\* Steps of the path.

\* The first frame is skipped.
LEMMA RespSkipped ==
  ASSUME NEW F, NEW q \in Seq(F), NEW v, NEW late, NEW g, NEW c, NEW ls, NEW rd, NEW oc,
         RespInStep(v, late, q, g, c, ls, rd, oc), q # <<>>
  PROVE  RespInStep(v, late, Tail(q), g, c, ls, rd, oc)
<1> DEFINE p == Tail(q)
<1>1. /\ Len(p) = Len(q) - 1 /\ Len(q) \in Nat /\ Len(p) \in Nat
      /\ \A i \in 1..Len(p) : p[i] = q[i + 1] /\ i + 1 \in 1..Len(q)
  OBVIOUS
<1> HIDE DEF p
<1>2. RespFrames(v, p, ls)
  BY <1>1 DEF RespInStep, RespFrames
<1>3. RespRead(p, c, ls, rd, oc)
  BY <1>1 DEF RespInStep, RespRead
<1>4. RespChunks(v, p, c, ls, oc)
  BY <1>1 DEF RespInStep, RespChunks
<1>5. RespCount(v, p)
  BY <1>1 DEF RespInStep, RespCount
<1>6. RespEnd(v, late, p, c)
  BY <1>1 DEF RespInStep, RespEnd
<1>7. RespGrant(v, late, p, g, c, ls, oc)
  BY <1>1 DEF RespInStep, RespGrant
<1>8. RespFirst(v, late, p, g, c, ls, oc)
  <2>1. ASSUME NEW i \in 1..Len(p), p[i].type = "FF"
        PROVE  Fresh(i, v, p, g, ls, oc) \/ Skipped(i, p, c, oc)
    <3>1. q[i + 1].type = "FF" /\ p[i] = q[i + 1] /\ i + 1 \in 1..Len(q)
      BY <1>1, <2>1
    <3>2. Fresh(i + 1, v, q, g, ls, oc) \/ Skipped(i + 1, q, c, oc)
      BY <3>1 DEF RespInStep, RespFirst
    <3>3. ASSUME NEW j \in 1..Len(p), p[j].type = "CF"
          PROVE  j + 1 \in 1..Len(q) /\ q[j + 1].type = "CF"
      BY <1>1, <3>3
    <3>4. CASE Fresh(i + 1, v, q, g, ls, oc)
      BY <3>1, <3>3, <3>4 DEF Fresh
    <3>5. CASE Skipped(i + 1, q, c, oc)
      BY <3>3, <3>5 DEF Skipped
    <3> QED BY <3>2, <3>4, <3>5
  <2>2. ASSUME NEW i \in 1..Len(p), p[i].type = "FF", c.at # "idle" /\ c.left = 0
        PROVE  /\ i = Len(p) /\ v.busy /\ MsgOf(p[i]) = v.msg /\ v.offset = 1
               /\ v.waiting /\ ~late
    <3>1. q[i + 1].type = "FF" /\ p[i] = q[i + 1] /\ i + 1 \in 1..Len(q)
      BY <1>1, <2>2
    <3> QED BY <1>1, <2>2, <3>1 DEF RespInStep, RespFirst
  <2> QED BY <2>1, <2>2 DEF RespFirst
<1> QED BY <1>2, <1>3, <1>4, <1>5, <1>6, <1>7, <1>8 DEF RespInStep, p

\* The last frame is lost.
LEMMA RespLost ==
  ASSUME NEW F, NEW p \in Seq(F), NEW x \in F, NEW v, NEW late, NEW g, NEW c, NEW ls, NEW rd,
         NEW oc, RespInStep(v, late, Append(p, x), g, c, ls, rd, oc)
  PROVE  RespInStep(v, late, p, g, c, ls, rd, oc)
<1> DEFINE q == Append(p, x)
<1>1. /\ Len(q) = Len(p) + 1 /\ Len(p) \in Nat /\ Len(q) \in Nat
      /\ \A i \in 1..Len(p) : p[i] = q[i] /\ i \in 1..Len(q)
  OBVIOUS
<1>2. RespInStep(v, late, q, g, c, ls, rd, oc)
  OBVIOUS
<1> HIDE DEF q
<1>3. RespFrames(v, p, ls)
  BY <1>1, <1>2 DEF RespInStep, RespFrames
<1>4. RespRead(p, c, ls, rd, oc)
  BY <1>1, <1>2 DEF RespInStep, RespRead
<1>5. RespChunks(v, p, c, ls, oc)
  BY <1>1, <1>2 DEF RespInStep, RespChunks
<1>6. RespCount(v, p)
  BY <1>1, <1>2 DEF RespInStep, RespCount
<1>7. RespEnd(v, late, p, c)
  BY <1>1, <1>2 DEF RespInStep, RespEnd
<1>8. RespGrant(v, late, p, g, c, ls, oc)
  BY <1>1, <1>2 DEF RespInStep, RespGrant
<1>9. RespFirst(v, late, p, g, c, ls, oc)
  <2>1. ASSUME NEW i \in 1..Len(p), p[i].type = "FF"
        PROVE  Fresh(i, v, p, g, ls, oc) \/ Skipped(i, p, c, oc)
    <3>1. Fresh(i, v, q, g, ls, oc) \/ Skipped(i, q, c, oc)
      BY <1>1, <1>2, <2>1 DEF RespInStep, RespFirst
    <3> QED BY <1>1, <3>1 DEF Fresh, Skipped
  <2>2. ASSUME NEW i \in 1..Len(p), p[i].type = "FF", c.at # "idle" /\ c.left = 0
        PROVE  FALSE
    <3>1. i = Len(q)
      BY <1>1, <1>2, <2>2 DEF RespInStep, RespFirst
    <3> QED BY <1>1, <3>1
  <2> QED BY <2>1, <2>2 DEF RespFirst
<1> QED BY <1>2, <1>3, <1>4, <1>5, <1>6, <1>7, <1>8, <1>9 DEF RespInStep

\* Flow control meant for a request gets into the queue.
LEMMA RespFcQueued ==
  ASSUME NEW F, NEW q \in Seq(F), NEW p \in Seq(F), NEW v, NEW late, NEW g, NEW c, NEW ls,
         NEW rd, NEW oc, RespInStep(v, late, q, g, c, ls, rd, oc),
         Len(p) = Len(q) + 1, p[1].type = "FC", \A i \in 1..Len(q) : p[i + 1] = q[i]
  PROVE  RespInStep(v, late, p, g, c, ls, rd, oc)
<1>1. Len(q) \in Nat /\ Len(p) \in Nat
  OBVIOUS
<1>2. \A i \in 1..Len(p) : p[i].type # "FC" =>
        i - 1 \in 1..Len(q) /\ i \in Nat /\ p[i] = q[i - 1]
  <2>1. ASSUME NEW i \in 1..Len(p), p[i].type # "FC"
        PROVE  i - 1 \in 1..Len(q) /\ i \in Nat /\ p[i] = q[i - 1]
    <3>1. i # 1 /\ i - 1 \in 1..Len(q) /\ i = (i - 1) + 1
      BY <1>1, <2>1
    <3> QED BY <3>1
  <2> QED BY <2>1
<1>3. RespFrames(v, p, ls)
  <2>1. RespFrames(v, q, ls)
    BY DEF RespInStep
  <2>2. ASSUME NEW i \in 1..Len(p), NEW j \in 1..Len(p), i < j,
               p[i].type # "FC", p[j].type # "FC"
        PROVE  Before(p[i], p[j])
    <3>1. /\ i - 1 \in 1..Len(q) /\ j - 1 \in 1..Len(q) /\ i - 1 < j - 1
          /\ p[i] = q[i - 1] /\ p[j] = q[j - 1]
      BY <1>2, <2>2
    <3> QED BY <2>1, <2>2, <3>1 DEF RespFrames
  <2>3. ASSUME NEW i \in 1..Len(p), p[i].type # "FC"
        PROVE  /\ FrameFits(p[i], ls)
               /\ v.busy /\ MsgOf(p[i]) = v.msg => IndexOf(p[i]) <= v.offset
    <3>1. i - 1 \in 1..Len(q) /\ p[i] = q[i - 1]
      BY <1>2, <2>3
    <3> QED BY <2>1, <2>3, <3>1 DEF RespFrames
  <2> QED BY <2>2, <2>3 DEF RespFrames
<1>4. RespRead(p, c, ls, rd, oc)
  BY <1>1, <1>2 DEF RespInStep, RespRead
<1>5. RespChunks(v, p, c, ls, oc)
  <2>1. RespChunks(v, q, c, ls, oc)
    BY DEF RespInStep
  <2>2. \A i \in 1..Len(p) : p[i].type = "CF" => i - 1 \in 1..Len(q) /\ p[i] = q[i - 1]
    BY <1>2
  <2> QED BY ONLY <2>1, <2>2, ZenonT(30) DEF RespChunks
<1>6. RespCount(v, p)
  BY <1>1, <1>2, SMTT(20) DEF RespInStep, RespCount
<1>7. RespEnd(v, late, p, c)
  BY <1>1, <1>2 DEF RespInStep, RespEnd
<1>8. RespGrant(v, late, p, g, c, ls, oc)
  BY <1>1, <1>2, ZenonT(30) DEF RespInStep, RespGrant
<1>9. RespFirst(v, late, p, g, c, ls, oc)
  <2>1. ASSUME NEW i \in 1..Len(p), p[i].type = "FF"
        PROVE  Fresh(i, v, p, g, ls, oc) \/ Skipped(i, p, c, oc)
    <3>1. q[i - 1].type = "FF" /\ p[i] = q[i - 1] /\ i - 1 \in 1..Len(q) /\ i \in Nat
      BY <1>2, <2>1
    <3>2. Fresh(i - 1, v, q, g, ls, oc) \/ Skipped(i - 1, q, c, oc)
      BY <3>1 DEF RespInStep, RespFirst
    <3>3. ASSUME NEW j \in 1..Len(p), p[j].type = "CF"
          PROVE  j - 1 \in 1..Len(q) /\ q[j - 1].type = "CF" /\ j \in Nat
      BY <1>2, <3>3
    <3>4. CASE Fresh(i - 1, v, q, g, ls, oc)
      BY <3>1, <3>3, <3>4 DEF Fresh
    <3>5. CASE Skipped(i - 1, q, c, oc)
      BY <3>1, <3>3, <3>5 DEF Skipped
    <3> QED BY <3>2, <3>4, <3>5
  <2>2. ASSUME NEW i \in 1..Len(p), p[i].type = "FF", c.at # "idle" /\ c.left = 0
        PROVE  /\ i = Len(p) /\ v.busy /\ MsgOf(p[i]) = v.msg /\ v.offset = 1
               /\ v.waiting /\ ~late
    <3>1. q[i - 1].type = "FF" /\ p[i] = q[i - 1] /\ i - 1 \in 1..Len(q) /\ i \in Nat
      BY <1>2, <2>2
    <3>2. /\ i - 1 = Len(q) /\ v.busy /\ MsgOf(q[i - 1]) = v.msg /\ v.offset = 1
          /\ v.waiting /\ ~late
      BY <2>2, <3>1 DEF RespInStep, RespFirst
    <3> QED BY <1>1, <3>1, <3>2
  <2> QED BY <2>1, <2>2 DEF RespFirst
<1> QED BY <1>3, <1>4, <1>5, <1>6, <1>7, <1>8, <1>9 DEF RespInStep

-------------------------------------------------------------------------------
\* Steps of the sender.

LEMMA RespUntouched ==
  ASSUME NEW q, NEW v, NEW w, NEW late, NEW lte, NEW g, NEW c, NEW ls, NEW rd, NEW oc,
         RespInStep(v, late, q, g, c, ls, rd, oc), SameSender(v, w), lte => late
  PROVE  RespInStep(w, lte, q, g, c, ls, rd, oc)
<1> USE DEF SameSender
<1>1. RespSender(w, ls, oc)
  BY DEF RespInStep, RespSender, OwnTransfer
<1>2. RespFrames(w, q, ls)
  BY DEF RespInStep, RespFrames
<1>3. RespChunks(w, q, c, ls, oc)
  BY DEF RespInStep, RespChunks, Halfway
<1>4. RespCount(w, q)
  BY DEF RespInStep, RespCount
<1>5. RespBlock(w, c, ls, oc)
  BY DEF RespInStep, RespBlock, Halfway
<1>6. RespEnd(w, lte, q, c)
  BY DEF RespInStep, RespEnd
<1>7. RespGrant(w, lte, q, g, c, ls, oc)
  BY DEF RespInStep, RespGrant, Unasking
<1>8. RespFirst(w, lte, q, g, c, ls, oc)
  BY DEF RespInStep, RespFirst, Fresh
<1> QED BY <1>1, <1>2, <1>3, <1>4, <1>5, <1>6, <1>7, <1>8 DEF RespInStep

\* A grant arrives at a sender that waits for none.
LEMMA RespGrantIgnored ==
  ASSUME NEW q, NEW v, NEW late, NEW g, NEW c, NEW ls, NEW rd, NEW oc,
         RespInStep(v, late, q, g, c, ls, rd, oc), g => ~(v.busy /\ v.waiting)
  PROVE  RespInStep(v, late, q, FALSE, c, ls, rd, oc)
<1>1. RespGrant(v, late, q, FALSE, c, ls, oc)
  BY DEF RespGrant
<1>2. RespFirst(v, late, q, FALSE, c, ls, oc)
  BY DEF RespInStep, RespFirst, Fresh
<1> QED BY <1>1, <1>2 DEF RespInStep

\* A grant arrives at the sender that waits for it.
LEMMA RespGranted ==
  ASSUME NEW q, NEW v, NEW w, NEW late, NEW c, NEW ls, NEW rd, NEW oc,
         RespTyped(v, c, ls, oc), RespInStep(v, late, q, TRUE, c, ls, rd, oc), BlockSize > 0,
         v.busy, v.waiting,
         w.busy, w.msg = v.msg, w.offset = v.offset, w.inBlock = 0, ~w.waiting
  PROVE  RespInStep(w, FALSE, q, FALSE, c, ls, rd, oc)
<1>1. RespGrant(v, late, q, TRUE, c, ls, oc)
  BY DEF RespInStep
<1>2. \A i \in 1..Len(q) : q[i].type # "CF"
  BY <1>1 DEF RespGrant
<1>3. RespSender(w, ls, oc)
  BY IsotpAssumption DEF RespInStep, RespSender, OwnTransfer
<1>4. RespFrames(w, q, ls)
  BY DEF RespInStep, RespFrames
<1>5. RespChunks(w, q, c, ls, oc) /\ RespCount(w, q) /\ RespEnd(w, FALSE, q, c)
  BY <1>2 DEF RespChunks, RespCount, RespEnd
<1>6. RespBlock(w, c, ls, oc)
  <2>1. c.at = "rest" => /\ c.inBlock = 0 /\ Len(c.payload) = v.offset
                         /\ oc[CallMsg(c)] # "timeout" => v.msg = CallMsg(c)
    BY <1>1 DEF RespGrant
  <2>2. v.offset \in Nat
    BY DEF RespTyped
  <2> QED BY <2>1, <2>2 DEF RespInStep, RespBlock
<1>7. RespGrant(w, FALSE, q, FALSE, c, ls, oc)
  BY DEF RespGrant
<1>8. RespFirst(w, FALSE, q, FALSE, c, ls, oc)
  <2>1. ~Open(c) => \A i \in 1..Len(q) : q[i].type # "FF"
    BY <1>1 DEF RespGrant
  <2>2. \A i \in 1..Len(q) : q[i].type = "FF" => Skipped(i, q, c, oc)
    BY DEF RespInStep, RespFirst, Fresh
  <2>3. Open(c) => c.left # 0
    BY DEF Open, RespTyped
  <2> QED BY <2>1, <2>2, <2>3 DEF RespFirst
<1> QED BY <1>3, <1>4, <1>5, <1>6, <1>7, <1>8 DEF RespInStep

\* A transfer is begun.
LEMMA RespBegun ==
  ASSUME NEW F, NEW q \in Seq(F), NEW x \in F, NEW v, NEW w, NEW late, NEW g, NEW c, NEW ls,
         NEW rd, NEW oc, NEW n \in Nat \ {0},
         RespTyped(v, c, ls, oc), RespInStep(v, late, q, g, c, ls, rd, oc), BlockSize > 0,
         ~v.busy, w.busy, w.msg = Len(ls) + 1, w.offset = 1, w.inBlock = 0,
         x.data = Chunk(Len(ls) + 1, 1),
         \/ n = 1 /\ x.type = "SF"
         \/ n > 1 /\ x.type = "FF" /\ x.len = n /\ w.waiting
  PROVE  RespInStep(w, FALSE, Append(q, x), g, c, Append(ls, n), rd, Append(oc, "ongoing"))
<1> DEFINE m == Len(ls) + 1
           p == Append(q, x)
           ms == Append(ls, n)
           od == Append(oc, "ongoing")
<1>1. /\ p \in Seq(F) /\ Len(p) = Len(q) + 1 /\ Len(q) \in Nat /\ p[Len(q) + 1] = x
      /\ \A i \in 1..Len(q) : p[i] = q[i]
      /\ \A i \in 1..Len(p) : i \in 1..Len(q) \/ i = Len(q) + 1
  OBVIOUS
<1>2. /\ Len(ms) = m /\ Len(ls) \in Nat /\ m \in Nat \ {0} /\ ms[m] = n
      /\ od[m] = "ongoing"
      /\ \A k \in 1..Len(ls) : ms[k] = ls[k] /\ od[k] = oc[k] /\ k \in 1..m /\ k < m
  BY DEF RespTyped
<1>3. x.type \in {"SF", "FF"} /\ MsgOf(x) = m /\ IndexOf(x) = 1
  BY DEF MsgOf, IndexOf, Chunk
<1>4. w.msg = m /\ x.data = Chunk(m, 1)
  OBVIOUS
<1>5. ASSUME NEW i \in 1..Len(q), q[i].type # "FC"
      PROVE  FrameFits(q[i], ls) /\ MsgOf(q[i]) \in 1..Len(ls) /\ IndexOf(q[i]) \in Nat
  BY <1>5 DEF RespInStep, RespFrames, FrameFits, MsgOf, IndexOf
<1>6. \A i \in 1..Len(q) : q[i].type # "FC" \/ q[i].type = "FC"
  OBVIOUS
<1>7. c.at = "rest" => CallMsg(c) \in 1..Len(ls)
  BY DEF RespInStep, RespCall
<1>8. \A i \in 1..Len(rd) : NumberRead(rd, i) \in 1..Len(ls)
  BY DEF RespInStep, RespRead
<1> HIDE DEF p, ms, od, m
<1>9. RespSender(w, ms, od)
  BY <1>2, <1>4, IsotpAssumption DEF RespSender, OwnTransfer
<1>10. RespFrames(w, p, ms)
  <2>1. ASSUME NEW i \in 1..Len(q), q[i].type # "FC"
        PROVE  FrameFits(q[i], ms) /\ MsgOf(q[i]) # m /\ Before(q[i], x)
    <3>1. FrameFits(q[i], ls) /\ MsgOf(q[i]) \in 1..Len(ls)
      BY <1>5, <2>1
    <3>2. ms[MsgOf(q[i])] = ls[MsgOf(q[i])] /\ MsgOf(q[i]) < m /\ MsgOf(q[i]) # m
      BY <1>2, <3>1
    <3>3. FrameFits(q[i], ms)
      <4>1. q[i].data \in (1..Len(ls)) \X Nat => q[i].data \in (1..Len(ms)) \X Nat
        BY <1>2
      <4> QED BY <3>1, <3>2, <4>1 DEF FrameFits
    <3> QED BY <1>3, <3>2, <3>3 DEF Before
  <2>2. FrameFits(x, ms)
    <3>1. x.data \in (1..Len(ms)) \X Nat
      <4>1. m \in 1..Len(ms)
        BY <1>2
      <4> QED BY <1>4, <4>1 DEF Chunk
    <3> QED BY <1>2, <1>3, <3>1 DEF FrameFits
  <2>3. ASSUME NEW i \in 1..Len(p), p[i].type # "FC"
        PROVE  /\ FrameFits(p[i], ms)
               /\ w.busy /\ MsgOf(p[i]) = w.msg => IndexOf(p[i]) <= w.offset
    BY <1>1, <1>3, <1>4, <2>1, <2>2, <2>3
  <2>4. ASSUME NEW i \in 1..Len(p), NEW j \in 1..Len(p), i < j,
               p[i].type # "FC", p[j].type # "FC"
        PROVE  Before(p[i], p[j])
    <3>1. i \in 1..Len(q) /\ p[i] = q[i]
      BY <1>1, <2>4
    <3>2. CASE j \in 1..Len(q)
      BY <1>1, <2>4, <3>1, <3>2 DEF RespInStep, RespFrames
    <3>3. CASE j = Len(q) + 1
      BY <1>1, <2>1, <2>4, <3>1, <3>3
    <3> QED BY <1>1, <3>2, <3>3
  <2> QED BY <2>3, <2>4 DEF RespFrames
<1>11. RespCall(c, ms, od)
  <2>1. RespCall(c, ls, oc)
    BY DEF RespInStep
  <2>2. c.at = "rest" =>
          /\ CallMsg(c) \in 1..Len(ms) /\ ms[CallMsg(c)] = ls[CallMsg(c)]
          /\ od[CallMsg(c)] = oc[CallMsg(c)]
    BY <1>2, <1>7
  <2> QED BY <2>1, <2>2 DEF RespCall
<1>12. RespRead(p, c, ms, rd, od)
  <2>1. RespRead(q, c, ls, rd, oc)
    BY DEF RespInStep
  <2>2. \A i \in 1..Len(rd) :
          /\ NumberRead(rd, i) \in 1..Len(ms) /\ NumberRead(rd, i) < m
          /\ ms[NumberRead(rd, i)] = ls[NumberRead(rd, i)]
          /\ od[NumberRead(rd, i)] = oc[NumberRead(rd, i)]
    BY <1>2, <1>8
  <2>3. c.at = "rest" => CallMsg(c) < m
    BY <1>2, <1>7
  <2>4. \A k \in 1..Len(p) : p[k].type \in {"SF", "FF"} =>
          /\ \A i \in 1..Len(rd) : NumberRead(rd, i) < MsgOf(p[k])
          /\ c.at = "rest" => CallMsg(c) < MsgOf(p[k])
    BY <1>1, <1>3, <2>1, <2>2, <2>3, SMTT(20) DEF RespRead
  <2> QED BY <2>1, <2>2, <2>4 DEF RespRead
<1>13. \A i \in 1..Len(p) : p[i].type = "CF" => i \in 1..Len(q) /\ p[i] = q[i]
  BY <1>1, <1>3
<1>14. ~Halfway(w, ms)
  BY <1>2, <1>4 DEF Halfway
<1>15. RespChunks(w, p, c, ms, od)
  <2>1. RespChunks(v, q, c, ls, oc)
    BY DEF RespInStep
  <2>2. c.at = "rest" => od[CallMsg(c)] = oc[CallMsg(c)]
    BY <1>2, <1>7
  <2> QED BY <1>13, <1>14, <2>1, <2>2 DEF RespChunks
<1>16. RespCount(w, p)
  <2>1. RespCount(v, q)
    BY DEF RespInStep
  <2>2. \A i \in 1..Len(q) : q[i].type = "CF" => MsgOf(q[i]) # w.msg
    BY <1>2, <1>4, <1>5
  <2> QED BY <1>13, <2>1, <2>2 DEF RespCount
<1>17. RespBlock(w, c, ms, od)
  <2>1. RespBlock(v, c, ls, oc)
    BY DEF RespInStep
  <2>2. c.at = "rest" => od[CallMsg(c)] = oc[CallMsg(c)] /\ ms[CallMsg(c)] = ls[CallMsg(c)]
    BY <1>2, <1>7
  <2> QED BY <1>14, <2>1, <2>2 DEF RespBlock
<1>18. RespEnd(w, FALSE, p, c)
  BY <1>13 DEF RespInStep, RespEnd
<1>19. g => /\ \A i \in 1..Len(q) : q[i].type # "CF"
            /\ Open(c) /\ c.at = "rest" /\ c.inBlock = 0 /\ Len(c.payload) = 1
            /\ oc[CallMsg(c)] = "timeout" /\ od[CallMsg(c)] = "timeout"
  <2>1. RespGrant(v, late, q, g, c, ls, oc)
    BY DEF RespInStep
  <2>2. c.at = "rest" => od[CallMsg(c)] = oc[CallMsg(c)]
    BY <1>2, <1>7
  <2> QED BY <2>1, <2>2 DEF RespGrant, Open
<1>20. RespGrant(w, FALSE, p, g, c, ms, od)
  <2>1. (w.busy /\ w.waiting) \/ Unasking(w, ms)
    BY <1>2, <1>4 DEF Unasking
  <2> QED BY <1>13, <1>19, <2>1 DEF RespGrant
<1>21. RespFirst(w, FALSE, p, g, c, ms, od)
  <2>1. RespFirst(v, late, q, g, c, ls, oc)
    BY DEF RespInStep
  <2>2. ASSUME NEW i \in 1..Len(q), q[i].type = "FF"
        PROVE  /\ Fresh(i, w, p, g, ms, od) \/ Skipped(i, p, c, od)
               /\ ~(c.at # "idle" /\ c.left = 0)
    <3>1. Fresh(i, v, q, g, ls, oc) \/ Skipped(i, q, c, oc)
      BY <2>1, <2>2 DEF RespFirst
    <3>2. ~(c.at # "idle" /\ c.left = 0)
      BY <2>1, <2>2 DEF RespFirst
    <3>3. p[i] = q[i] /\ od[MsgOf(q[i])] = oc[MsgOf(q[i])]
      BY <1>1, <1>2, <1>5, <2>2
    <3>4. CASE Fresh(i, v, q, g, ls, oc)
      <4>1. w.waiting \/ ms[w.msg] = 1
        BY <1>2, <1>4
      <4> QED BY <1>13, <3>2, <3>3, <3>4, <4>1 DEF Fresh
    <3>5. CASE Skipped(i, q, c, oc)
      <4>1. od[CallMsg(c)] = oc[CallMsg(c)]
        BY <1>2, <1>7, <3>5 DEF Skipped, Open
      <4> QED BY <1>13, <3>2, <3>5, <4>1 DEF Skipped
    <3> QED BY <3>1, <3>4, <3>5
  <2>3. ASSUME x.type = "FF"
        PROVE  /\ Fresh(Len(p), w, p, g, ms, od) \/ Skipped(Len(p), p, c, od)
               /\ w.waiting /\ MsgOf(x) = w.msg /\ p[Len(p)] = x
    <3>1. w.waiting /\ MsgOf(x) = w.msg /\ p[Len(p)] = x
      BY <1>1, <1>3, <1>4, <2>3
    <3>2. \A j \in 1..Len(p) : p[j].type = "CF" => j < Len(p)
      BY <1>1, <1>13
    <3>3. CASE ~g
      BY <3>1, <3>2, <3>3 DEF Fresh
    <3>4. CASE g
      <4>1. \A j \in 1..Len(p) : p[j].type # "CF"
        BY <1>13, <1>19, <3>4
      <4>2. Skipped(Len(p), p, c, od)
        BY <1>19, <3>4, <4>1 DEF Skipped
      <4> QED BY <3>1, <4>2
    <3> QED BY <3>1, <3>3, <3>4
  <2>4. Len(p) = Len(q) + 1
    BY <1>1
  <2>5. ASSUME NEW i \in 1..Len(p), p[i].type = "FF"
        PROVE  /\ Fresh(i, w, p, g, ms, od) \/ Skipped(i, p, c, od)
               /\ c.at # "idle" /\ c.left = 0 =>
                    i = Len(p) /\ w.busy /\ MsgOf(p[i]) = w.msg /\ w.offset = 1 /\ w.waiting
    <3>1. CASE i \in 1..Len(q)
      <4>1. q[i].type = "FF"
        BY <1>1, <2>5, <3>1
      <4> QED BY <2>2, <3>1, <4>1
    <3>2. CASE i = Len(p)
      <4>1. p[i] = x /\ w.offset = 1
        BY <1>1, <3>2
      <4>2. x.type = "FF"
        BY <2>5, <4>1
      <4> QED BY <2>3, <3>2, <4>1, <4>2
    <3> QED BY <1>1, <2>4, <3>1, <3>2
  <2> QED BY <2>5 DEF RespFirst
<1> QED BY <1>9, <1>10, <1>11, <1>12, <1>15, <1>16, <1>17, <1>18, <1>20, <1>21
        DEF RespInStep, p, ms, od

\* The sender is told how its transfer ended.
LEMMA VerdictIs ==
  ASSUME NEW ls, NEW oc \in Seq(Verdicts), Len(oc) = Len(ls), NEW m \in 1..Len(ls), NEW verdict
  PROVE  LET od == [oc EXCEPT ![m] = verdict] IN
         /\ od[m] = verdict
         /\ \A k \in 1..Len(ls) : k # m => od[k] = oc[k]
OBVIOUS

LEMMA RespTimedOut ==
  ASSUME NEW q, NEW v, NEW w, NEW late, NEW lte, NEW g, NEW c, NEW ls, NEW rd, NEW oc, NEW od,
         RespTyped(v, c, ls, oc), RespInStep(v, late, q, g, c, ls, rd, oc),
         v.busy, v.waiting, late, ~w.busy, od = [oc EXCEPT ![v.msg] = "timeout"]
  PROVE  RespInStep(w, lte, q, g, c, ls, rd, od)
<1>1. v.msg \in 1..Len(ls) /\ oc[v.msg] = "ongoing"
  BY DEF RespInStep, RespSender, OwnTransfer
<1>2. od[v.msg] = "timeout" /\ \A k \in 1..Len(ls) : od[k] = "timeout" \/ od[k] = oc[k]
  <2>1. oc \in Seq(Verdicts) /\ Len(oc) = Len(ls)
    BY DEF RespTyped
  <2>2. od[v.msg] = "timeout" /\ \A k \in 1..Len(ls) : k # v.msg => od[k] = oc[k]
    BY <1>1, <2>1, VerdictIs
  <2> QED BY <2>2
<1>3. c.at = "rest" => CallMsg(c) \in 1..Len(ls)
  BY DEF RespInStep, RespCall
<1>4. RespSender(w, ls, od)
  BY DEF RespSender, OwnTransfer
<1>5. RespFrames(w, q, ls)
  BY DEF RespInStep, RespFrames
<1>6. RespCall(c, ls, od)
  BY <1>2, <1>3 DEF RespInStep, RespCall
<1>7. RespRead(q, c, ls, rd, od)
  BY <1>2 DEF RespInStep, RespRead
<1>8. ~Halfway(w, ls)
  BY DEF Halfway
<1>9. RespChunks(w, q, c, ls, od)
  BY <1>2, <1>3, <1>8 DEF RespInStep, RespChunks
<1>10. RespCount(w, q)
  BY DEF RespInStep, RespCount
<1>11. RespBlock(w, c, ls, od)
  <2>1. c.at = "rest" /\ od[CallMsg(c)] = "ok" => oc[CallMsg(c)] = "ok"
    BY <1>2, <1>3
  <2> QED BY <1>8, <2>1 DEF RespInStep, RespBlock
<1>12. RespEnd(w, lte, q, c)
  BY DEF RespInStep, RespEnd
<1>13. RespGrant(w, lte, q, g, c, ls, od)
  <2>1. RespGrant(v, late, q, g, c, ls, oc)
    BY DEF RespInStep
  <2>2. g => /\ Open(c) /\ c.at = "rest" /\ v.offset = 1 /\ Len(c.payload) = 1 /\ c.inBlock = 0
             /\ oc[CallMsg(c)] # "timeout" => v.msg = CallMsg(c)
    BY <2>1 DEF RespGrant, Open
  <2>3. g => od[CallMsg(c)] = "timeout"
    BY <1>2, <1>3, <2>2
  <2>4. Unasking(w, ls)
    BY DEF Unasking
  <2> QED BY <2>1, <2>2, <2>3, <2>4 DEF RespGrant
<1>14. RespFirst(w, lte, q, g, c, ls, od)
  <2>1. ASSUME NEW i \in 1..Len(q), q[i].type = "FF"
        PROVE  /\ Fresh(i, w, q, g, ls, od) \/ Skipped(i, q, c, od)
               /\ ~(c.at # "idle" /\ c.left = 0)
    <3>1. Fresh(i, v, q, g, ls, oc) \/ Skipped(i, q, c, oc)
      BY <2>1 DEF RespInStep, RespFirst
    <3>2. ~(c.at # "idle" /\ c.left = 0)
      BY <2>1 DEF RespInStep, RespFirst
    <3>3. MsgOf(q[i]) \in 1..Len(ls)
      BY <2>1 DEF RespInStep, RespFrames, FrameFits, MsgOf
    <3>4. CASE Fresh(i, v, q, g, ls, oc)
      <4>1. od[MsgOf(q[i])] = "timeout"
        BY <1>2, <3>3, <3>4 DEF Fresh
      <4> QED BY <3>2, <3>4, <4>1 DEF Fresh
    <3>5. CASE Skipped(i, q, c, oc)
      BY <1>2, <1>3, <3>2, <3>5 DEF Skipped, Open
    <3> QED BY <3>1, <3>4, <3>5
  <2> QED BY <2>1 DEF RespFirst
<1> QED BY <1>4, <1>5, <1>6, <1>7, <1>9, <1>10, <1>11, <1>12, <1>13, <1>14 DEF RespInStep

LEMMA RespFinished ==
  ASSUME NEW q, NEW v, NEW w, NEW late, NEW lte, NEW g, NEW c, NEW ls, NEW rd, NEW oc, NEW od,
         RespTyped(v, c, ls, oc), RespInStep(v, late, q, g, c, ls, rd, oc), BlockSize > 0,
         v.busy, ~v.waiting, v.offset = ls[v.msg], ~w.busy, od = [oc EXCEPT ![v.msg] = "ok"]
  PROVE  RespInStep(w, lte, q, g, c, ls, rd, od)
<1>1. v.msg \in 1..Len(ls) /\ oc[v.msg] = "ongoing" /\ (ls[v.msg] > 1 => v.inBlock < BlockSize)
  BY DEF RespInStep, RespSender, OwnTransfer
<1>2. /\ od[v.msg] = "ok"
      /\ \A k \in 1..Len(ls) : (od[k] = "timeout" <=> oc[k] = "timeout")
                               /\ (od[k] = "ok" => oc[k] = "ok" \/ k = v.msg)
  <2>1. oc \in Seq(Verdicts) /\ Len(oc) = Len(ls)
    BY DEF RespTyped
  <2>2. od[v.msg] = "ok" /\ \A k \in 1..Len(ls) : k # v.msg => od[k] = oc[k]
    BY <1>1, <2>1, VerdictIs
  <2> QED BY <1>1, <2>2
<1>3. c.at = "rest" =>
        /\ CallMsg(c) \in 1..Len(ls) /\ ls[CallMsg(c)] > 1 /\ ls[CallMsg(c)] \in Nat
        /\ c.inBlock < BlockSize
  <2>1. c.at = "rest" =>
          /\ CallMsg(c) \in 1..Len(ls) /\ c.payload # <<>> /\ Len(c.payload) < ls[CallMsg(c)]
          /\ c.inBlock \in 0..(BlockSize - 1)
    BY DEF RespInStep, RespCall
  <2>2. c.payload \in Seq(Chunks) /\ ls \in Seq(Nat \ {0})
    BY DEF RespTyped
  <2>3. c.payload # <<>> => Len(c.payload) \in Nat /\ Len(c.payload) >= 1
    BY <2>2
  <2> QED BY <2>1, <2>2, <2>3, IsotpAssumption, SMTT(20)
<1>4. RespSender(w, ls, od)
  BY DEF RespSender, OwnTransfer
<1>5. RespFrames(w, q, ls)
  BY DEF RespInStep, RespFrames
<1>6. RespCall(c, ls, od)
  BY <1>2, <1>3 DEF RespInStep, RespCall
<1>7. RespRead(q, c, ls, rd, od)
  BY <1>2 DEF RespInStep, RespRead
<1>8. ~Halfway(w, ls)
  BY DEF Halfway
<1>9. RespChunks(w, q, c, ls, od)
  BY <1>2, <1>3, <1>8 DEF RespInStep, RespChunks
<1>10. RespCount(w, q)
  BY DEF RespInStep, RespCount
<1>11. c.at = "rest" /\ ls[v.msg] > 1 => Len(c.payload) - c.inBlock = v.offset - v.inBlock
  <2>1. RespBlock(v, c, ls, oc)
    BY DEF RespInStep
  <2> QED BY <2>1 DEF RespBlock, Halfway
<1>12. RespBlock(w, c, ls, od)
  <2>1. c.at = "rest" /\ od[CallMsg(c)] = "ok" => ls[CallMsg(c)] <= CallWindow(c)
    <3>1. CASE c.at = "rest" /\ oc[CallMsg(c)] = "ok"
      BY <3>1 DEF RespInStep, RespBlock
    <3>2. CASE c.at = "rest" /\ CallMsg(c) = v.msg
      <4>1. ls[v.msg] > 1 /\ v.inBlock < BlockSize
        BY <1>1, <1>3, <3>2
      <4>2. /\ c.payload \in Seq(Chunks) /\ c.inBlock \in Nat /\ v.offset \in Nat /\ v.inBlock \in Nat
        BY DEF RespTyped
      <4>3. Len(c.payload) - c.inBlock = v.offset - v.inBlock /\ Len(c.payload) \in Nat
        BY <1>11, <3>2, <4>1, <4>2
      <4>4. v.offset <= Len(c.payload) - c.inBlock + BlockSize
        BY ONLY <4>1, <4>2, <4>3, IsotpAssumption
      <4> QED BY <3>2, <4>4 DEF CallWindow
    <3> QED BY <1>2, <1>3, <3>1, <3>2
  <2> QED BY <1>8, <2>1 DEF RespBlock
<1>13. RespEnd(w, lte, q, c)
  <2>1. ASSUME c.at = "rest", NEW i \in 1..Len(q), q[i].type = "CF", IndexOf(q[i]) = CallWindow(c)
        PROVE  FALSE
    <3>1. v.msg = MsgOf(q[i]) /\ v.offset = CallWindow(c) /\ IndexOf(q[i]) > 1
      BY <2>1 DEF RespInStep, RespEnd, RespFrames, FrameFits
    <3>2. ls[v.msg] > 1
      BY <2>1, <3>1
    <3>3. v.inBlock < BlockSize /\ Len(c.payload) - c.inBlock = v.offset - v.inBlock
      BY <1>1, <1>11, <2>1, <3>2
    <3>4. c.payload \in Seq(Chunks) /\ c.inBlock \in Nat /\ v.offset \in Nat /\ v.inBlock \in Nat
      BY DEF RespTyped
    <3>5. Len(c.payload) \in Nat /\ v.offset = Len(c.payload) - c.inBlock + BlockSize
      BY <3>1, <3>4 DEF CallWindow
    <3> QED BY ONLY <3>3, <3>4, <3>5, IsotpAssumption
  <2> QED BY <2>1 DEF RespEnd
<1>14. RespGrant(w, lte, q, g, c, ls, od)
  <2>1. RespGrant(v, late, q, g, c, ls, oc)
    BY DEF RespInStep
  <2>2. Unasking(w, ls)
    BY DEF Unasking
  <2>3. g => /\ Open(c) /\ c.at = "rest" /\ Len(c.payload) = 1 /\ c.inBlock = 0
             /\ oc[CallMsg(c)] = "timeout"
    BY <2>1 DEF RespGrant, Open
  <2>4. g => od[CallMsg(c)] = "timeout"
    BY <1>2, <1>3, <2>3
  <2> QED BY <2>1, <2>2, <2>3, <2>4 DEF RespGrant
<1>15. RespFirst(w, lte, q, g, c, ls, od)
  <2>1. ASSUME NEW i \in 1..Len(q), q[i].type = "FF"
        PROVE  /\ Fresh(i, w, q, g, ls, od) \/ Skipped(i, q, c, od)
               /\ ~(c.at # "idle" /\ c.left = 0)
    <3>1. Fresh(i, v, q, g, ls, oc) \/ Skipped(i, q, c, oc)
      BY <2>1 DEF RespInStep, RespFirst
    <3>2. ~(c.at # "idle" /\ c.left = 0)
      BY <2>1 DEF RespInStep, RespFirst
    <3>3. MsgOf(q[i]) \in 1..Len(ls) /\ ls[MsgOf(q[i])] # 1
      <4>1. FrameFits(q[i], ls)
        BY <2>1 DEF RespInStep, RespFrames
      <4>2. ls[MsgOf(q[i])] > 1 /\ MsgOf(q[i]) \in 1..Len(ls)
        BY <2>1, <4>1 DEF FrameFits, MsgOf
      <4> QED BY <4>2
    <3>4. CASE Fresh(i, v, q, g, ls, oc)
      <4>1. od[MsgOf(q[i])] = "timeout"
        BY <1>2, <3>3, <3>4 DEF Fresh
      <4> QED BY <3>2, <3>4, <4>1 DEF Fresh
    <3>5. CASE Skipped(i, q, c, oc)
      BY <1>2, <1>3, <3>2, <3>5 DEF Skipped, Open
    <3> QED BY <3>1, <3>4, <3>5
  <2> QED BY <2>1 DEF RespFirst
<1> QED BY <1>4, <1>5, <1>6, <1>7, <1>9, <1>10, <1>12, <1>13, <1>14, <1>15 DEF RespInStep

\* Two ends that count the same block: its next chunk is in the window.
LEMMA SameCount ==
  ASSUME NEW n \in Nat, NEW b \in Nat, NEW o \in Nat, NEW k \in Nat, NEW B \in Nat,
         n - b = o - k
  PROVE  /\ k < B => o + 1 <= n - b + B /\ o < n - b + B
         /\ (n + 1) - (b + 1) + B = n - b + B
OBVIOUS

LEMMA NextCount == \A a, b \in Nat : (a + 1) - (b + 1) = a - b
OBVIOUS

\* The next chunk is handed over.
LEMMA RespChunkSent ==
  ASSUME NEW F, NEW q \in Seq(F), NEW x \in F, NEW v, NEW w, NEW late, NEW g, NEW c, NEW ls,
         NEW rd, NEW oc,
         RespTyped(v, c, ls, oc), RespInStep(v, late, q, g, c, ls, rd, oc), BlockSize > 0,
         v.busy, ~v.waiting, v.offset < ls[v.msg],
         w.busy, w.msg = v.msg, w.offset = v.offset + 1, w.inBlock = v.inBlock + 1,
         ~w.waiting => w.inBlock < BlockSize,
         x.type = "CF", x.data = Chunk(v.msg, v.offset + 1), x.sn = v.offset % SnMod
  PROVE  RespInStep(w, FALSE, Append(q, x), g, c, ls, rd, oc)
<1> DEFINE p == Append(q, x)
<1>1. /\ p \in Seq(F) /\ Len(p) = Len(q) + 1 /\ Len(q) \in Nat /\ p[Len(q) + 1] = x
      /\ \A i \in 1..Len(q) : p[i] = q[i]
      /\ \A i \in 1..Len(p) : i \in 1..Len(q) \/ i = Len(q) + 1
  OBVIOUS
<1>2. /\ MsgOf(x) = v.msg /\ IndexOf(x) = v.offset + 1
  BY DEF MsgOf, IndexOf, Chunk
<1>3. v.offset \in Nat /\ v.inBlock \in Nat /\ BlockSize \in Nat /\ ls \in Seq(Nat \ {0})
      /\ c.payload \in Seq(Chunks) /\ Len(c.payload) \in Nat /\ c.inBlock \in Nat
  BY IsotpAssumption, SMTT(20) DEF RespTyped
<1>4. /\ v.msg = Len(ls) /\ v.msg \in 1..Len(ls) /\ v.offset >= 1 /\ ls[v.msg] \in Nat
      /\ ls[v.msg] > 1 /\ v.inBlock < BlockSize /\ oc[v.msg] = "ongoing"
  <2>1. OwnTransfer(v, ls) /\ oc[v.msg] = "ongoing"
    BY DEF RespInStep, RespSender
  <2>2. v.msg = Len(ls) /\ v.msg \in 1..Len(ls) /\ v.offset \in 1..ls[v.msg]
    BY <2>1 DEF OwnTransfer
  <2>3. ls[v.msg] \in Nat /\ v.offset >= 1 /\ ls[v.msg] > 1
    BY <1>3, <2>2
  <2>4. v.inBlock < BlockSize
    BY <2>1, <2>3 DEF OwnTransfer
  <2> QED BY <2>1, <2>2, <2>3, <2>4
<1>5. Halfway(v, ls)
  BY <1>4 DEF Halfway
<1>6. ASSUME NEW i \in 1..Len(q), q[i].type # "FC"
      PROVE  /\ FrameFits(q[i], ls) /\ MsgOf(q[i]) \in 1..Len(ls) /\ IndexOf(q[i]) \in Nat
             /\ MsgOf(q[i]) = v.msg => IndexOf(q[i]) <= v.offset
  BY <1>6 DEF RespInStep, RespFrames, FrameFits, MsgOf, IndexOf
<1>7. ASSUME NEW i \in 1..Len(q), q[i].type = "CF"
      PROVE  /\ MsgOf(q[i]) = v.msg /\ IndexOf(q[i]) \in Nat /\ IndexOf(q[i]) <= v.offset
             /\ v.offset < IndexOf(q[i]) + v.inBlock
  <2>1. MsgOf(q[i]) = v.msg
    BY <1>5, <1>7 DEF RespInStep, RespChunks
  <2>2. v.offset < IndexOf(q[i]) + v.inBlock
    BY <1>7, <2>1 DEF RespInStep, RespCount
  <2>3. q[i].type # "FC"
    BY <1>7
  <2> QED BY <1>6, <2>1, <2>2, <2>3
<1> HIDE DEF p
<1>8. \A i \in 1..Len(p) : (i \in 1..Len(q) /\ p[i] = q[i]) \/ (i = Len(q) + 1 /\ p[i] = x)
  <2>1. ASSUME NEW i \in 1..Len(p)
        PROVE  (i \in 1..Len(q) /\ p[i] = q[i]) \/ (i = Len(q) + 1 /\ p[i] = x)
    <3>1. i \in 1..Len(q) \/ i = Len(q) + 1
      BY <1>1
    <3> QED BY <1>1, <3>1
  <2> QED BY <2>1
<1>9. RespSender(w, ls, oc)
  <2>1. w.offset \in 1..ls[w.msg] /\ w.inBlock \in 0..BlockSize
    BY <1>3, <1>4, SMTT(20)
  <2> QED BY <1>4, <2>1 DEF RespSender, OwnTransfer
<1>10. RespFrames(w, p, ls)
  <2>1. FrameFits(x, ls)
    <3>1. /\ IndexOf(x) > 1 /\ IndexOf(x) <= ls[MsgOf(x)] /\ IndexOf(x) - 1 = v.offset
          /\ v.offset + 1 \in Nat
      BY <1>2, <1>3, <1>4, SMTT(20)
    <3>2. x.data \in (1..Len(ls)) \X Nat
      BY <1>4, <3>1 DEF Chunk
    <3> QED BY <3>1, <3>2 DEF FrameFits
  <2>2. ASSUME NEW i \in 1..Len(p), p[i].type # "FC"
        PROVE  /\ FrameFits(p[i], ls)
               /\ w.busy /\ MsgOf(p[i]) = w.msg => IndexOf(p[i]) <= w.offset
    <3>1. CASE i \in 1..Len(q) /\ p[i] = q[i]
      BY <1>3, <1>6, <2>2, <3>1
    <3>2. CASE p[i] = x
      BY <1>2, <1>3, <2>1, <3>2
    <3> QED BY <1>8, <3>1, <3>2
  <2>3. ASSUME NEW i \in 1..Len(p), NEW j \in 1..Len(p), i < j,
               p[i].type # "FC", p[j].type # "FC"
        PROVE  Before(p[i], p[j])
    <3>1. i \in 1..Len(q) /\ p[i] = q[i]
      BY <1>1, <2>3
    <3>2. CASE j \in 1..Len(q)
      BY <1>1, <2>3, <3>1, <3>2 DEF RespInStep, RespFrames
    <3>3. CASE j = Len(q) + 1
      <4>1. p[j] = x
        BY <1>1, <3>3
      <4>2. q[i].type # "FC"
        BY <2>3, <3>1
      <4>3. MsgOf(q[i]) \in 1..Len(ls) /\ IndexOf(q[i]) \in Nat
            /\ (MsgOf(q[i]) = v.msg => IndexOf(q[i]) <= v.offset)
        BY <1>6, <3>1, <4>2
      <4>4. MsgOf(q[i]) < v.msg \/ (MsgOf(q[i]) = v.msg /\ IndexOf(q[i]) < v.offset + 1)
        BY <1>3, <1>4, <4>3
      <4> QED BY <1>2, <3>1, <4>1, <4>4 DEF Before
    <3> QED BY <1>1, <3>2, <3>3
  <2> QED BY <2>2, <2>3 DEF RespFrames
<1>11. RespCall(c, ls, oc)
  BY DEF RespInStep
<1>12. RespRead(p, c, ls, rd, oc)
  <2>1. \A i \in 1..Len(p) : p[i].type \in {"SF", "FF"} => i \in 1..Len(q) /\ p[i] = q[i]
    BY <1>8
  <2> QED BY <2>1 DEF RespInStep, RespRead
<1>13. \A i \in 1..Len(p) : p[i].type = "CF" => (i \in 1..Len(q) /\ p[i] = q[i]) \/ p[i] = x
  BY <1>8
<1>14. \A i \in 1..Len(p) : p[i].type = "CF" =>
         MsgOf(p[i]) = v.msg /\ IndexOf(p[i]) \in Nat /\ IndexOf(p[i]) <= v.offset + 1
         /\ v.offset < IndexOf(p[i]) + v.inBlock
  <2>1. ASSUME NEW i \in 1..Len(p), p[i].type = "CF"
        PROVE  MsgOf(p[i]) = v.msg /\ IndexOf(p[i]) \in Nat /\ IndexOf(p[i]) <= v.offset + 1
               /\ v.offset < IndexOf(p[i]) + v.inBlock
    <3>1. CASE i \in 1..Len(q) /\ p[i] = q[i]
      BY <1>3, <1>7, <2>1, <3>1
    <3>2. CASE p[i] = x
      BY <1>2, <1>3, <3>2, SMTT(20)
    <3> QED BY <1>13, <2>1, <3>1, <3>2
  <2> QED BY <2>1
<1>15. c.at = "rest" =>
         /\ Len(c.payload) <= v.offset
         /\ Len(c.payload) - c.inBlock = v.offset - v.inBlock
         /\ oc[CallMsg(c)] # "timeout" => v.msg = CallMsg(c)
  BY <1>5 DEF RespInStep, RespBlock
<1>16. RespChunks(w, p, c, ls, oc)
  <2>1. ASSUME NEW i \in 1..Len(p), p[i].type = "CF", c.at = "rest"
        PROVE  /\ Len(c.payload) < IndexOf(p[i]) /\ IndexOf(p[i]) <= CallWindow(c)
               /\ oc[CallMsg(c)] # "timeout" => MsgOf(p[i]) = CallMsg(c)
    <3>1. CASE i \in 1..Len(q) /\ p[i] = q[i]
      BY <2>1, <3>1 DEF RespInStep, RespChunks
    <3>2. CASE p[i] = x
      <4>1. v.offset + 1 <= Len(c.payload) - c.inBlock + BlockSize
        <5>1. Len(c.payload) - c.inBlock = v.offset - v.inBlock
          BY <1>15, <2>1
        <5> QED BY <1>3, <1>4, <5>1, SameCount, Zenon
      <4>2. Len(c.payload) < v.offset + 1
        BY <1>3, <1>15, <2>1
      <4> QED BY <1>2, <1>15, <2>1, <3>2, <4>1, <4>2 DEF CallWindow
    <3> QED BY <1>13, <2>1, <3>1, <3>2
  <2> QED BY <1>14, <2>1 DEF RespChunks
<1>17. RespCount(w, p)
  <2>1. ASSUME NEW i \in 1..Len(p), p[i].type = "CF", NEW j \in 1..Len(p), p[j].type = "CF"
        PROVE  IndexOf(p[i]) < IndexOf(p[j]) + BlockSize
    <3>1. /\ IndexOf(p[i]) \in Nat /\ IndexOf(p[i]) <= v.offset + 1
          /\ IndexOf(p[j]) \in Nat /\ v.offset < IndexOf(p[j]) + v.inBlock
      BY <1>14, <2>1
    <3> QED BY <1>3, <1>4, <3>1, SMTT(20)
  <2>2. ASSUME NEW i \in 1..Len(p), p[i].type = "CF"
        PROVE  w.offset < IndexOf(p[i]) + w.inBlock
    <3>1. IndexOf(p[i]) \in Nat /\ v.offset < IndexOf(p[i]) + v.inBlock
      BY <1>14, <2>2
    <3> QED BY <1>3, <3>1
  <2> QED BY <2>1, <2>2 DEF RespCount
<1>18. RespBlock(w, c, ls, oc)
  <2>1. c.at = "rest" =>
          /\ Len(c.payload) <= w.offset
          /\ Len(c.payload) - c.inBlock = w.offset - w.inBlock
    <3>1. ASSUME c.at = "rest"
          PROVE  Len(c.payload) - c.inBlock = (v.offset + 1) - (v.inBlock + 1)
      <4>1. Len(c.payload) - c.inBlock = v.offset - v.inBlock
        BY <1>15, <3>1
      <4> QED BY <1>3, <4>1, NextCount, Zenon
    <3>2. c.at = "rest" => Len(c.payload) <= w.offset
      BY <1>3, <1>15
    <3> QED BY <3>1, <3>2, Zenon
  <2> QED BY <1>15, <2>1 DEF RespInStep, RespBlock
<1>19. RespEnd(w, FALSE, p, c)
  <2>1. ASSUME c.at = "rest", NEW i \in 1..Len(q), q[i].type = "CF"
        PROVE  IndexOf(q[i]) # CallWindow(c)
    <3>1. IndexOf(q[i]) <= v.offset /\ IndexOf(q[i]) \in Nat
      BY <1>7, <2>1
    <3>2. v.offset < Len(c.payload) - c.inBlock + BlockSize
      BY <1>3, <1>4, <1>15, <2>1, SMTT(20)
    <3> QED BY <1>3, <3>1, <3>2 DEF CallWindow
  <2> QED BY <1>2, <1>13, <2>1 DEF RespEnd
<1>20. ~g
  <2>1. RespGrant(v, late, q, g, c, ls, oc)
    BY DEF RespInStep
  <2>2. ls[v.msg] # 1
    BY <1>4
  <2> QED BY <2>1, <2>2 DEF RespGrant, Unasking
<1>21. RespGrant(w, FALSE, p, g, c, ls, oc)
  BY <1>20 DEF RespGrant
<1>22. RespFirst(w, FALSE, p, g, c, ls, oc)
  <2>1. ASSUME NEW i \in 1..Len(p), p[i].type = "FF"
        PROVE  Skipped(i, p, c, oc) /\ ~(c.at # "idle" /\ c.left = 0)
    <3>1. i \in 1..Len(q) /\ p[i] = q[i] /\ q[i].type = "FF"
      BY <1>8, <2>1
    <3>2. Fresh(i, v, q, g, ls, oc) \/ Skipped(i, q, c, oc)
      BY <3>1 DEF RespInStep, RespFirst
    <3>3. ~(c.at # "idle" /\ c.left = 0)
      BY <3>1 DEF RespInStep, RespFirst
    <3>4. ~Fresh(i, v, q, g, ls, oc)
      BY <1>4 DEF Fresh
    <3>5. \A j \in 1..Len(p) : p[j].type = "CF" => (j \in 1..Len(q) /\ q[j].type = "CF") \/ i < j
      BY <1>1, <1>8, <3>1
    <3> QED BY <3>2, <3>3, <3>4, <3>5 DEF Skipped
  <2> QED BY <2>1 DEF RespFirst
<1> QED BY <1>9, <1>10, <1>11, <1>12, <1>16, <1>17, <1>18, <1>19, <1>21, <1>22
        DEF RespInStep, p

-------------------------------------------------------------------------------
\* Steps of a call of receive().

\* A call ends without a message: its time is over, or a consecutive frame met it.
LEMMA RespGivenUp ==
  ASSUME NEW F, NEW q \in Seq(F), NEW v, NEW late, NEW g, NEW c, NEW d, NEW ls, NEW rd, NEW oc,
         RespInStep(v, late, q, g, c, ls, rd, oc), d.at = "idle",
         ~Open(c) \/ (q # <<>> /\ Head(q).type = "CF")
  PROVE  RespInStep(v, late, q, g, d, ls, rd, oc)
<1>1. ~Open(c) \/ (1 \in 1..Len(q) /\ q[1].type = "CF")
  OBVIOUS
<1>2. ~Open(d)
  BY DEF Open
<1>3. RespCall(d, ls, oc) /\ RespRead(q, d, ls, rd, oc) /\ RespChunks(v, q, d, ls, oc)
  BY DEF RespInStep, RespCall, RespRead, RespChunks
<1>4. RespBlock(v, d, ls, oc) /\ RespEnd(v, late, q, d)
  BY DEF RespBlock, RespEnd
<1>5. RespGrant(v, late, q, g, d, ls, oc)
  <2>1. RespGrant(v, late, q, g, c, ls, oc)
    BY DEF RespInStep
  <2>2. g => ~Open(c)
    BY <1>1, <2>1 DEF RespGrant
  <2> QED BY <1>2, <2>1, <2>2 DEF RespGrant
<1>6. RespFirst(v, late, q, g, d, ls, oc)
  <2>1. ASSUME NEW i \in 1..Len(q), Skipped(i, q, c, oc)
        PROVE  FALSE
    <3>1. Open(c) /\ \A j \in 1..Len(q) : q[j].type = "CF" => i < j
      BY <2>1 DEF Skipped
    <3>2. i < 1
      BY <1>1, <3>1
    <3> QED BY <3>2
  <2> QED BY <2>1 DEF RespInStep, RespFirst
<1> QED BY <1>3, <1>4, <1>5, <1>6 DEF RespInStep

\* A call is begun.
LEMMA RespCalled ==
  ASSUME NEW q, NEW v, NEW late, NEW g, NEW c, NEW d, NEW ls, NEW rd, NEW oc,
         RespInStep(v, late, q, g, c, ls, rd, oc), c.at = "idle",
         d.at = "first", d.index = 1, d.inBlock = 0, d.left # 0
  PROVE  RespInStep(v, late, q, g, d, ls, rd, oc)
<1>1. ~Open(c) /\ ~Open(d)
  BY DEF Open
<1>2. RespCall(d, ls, oc) /\ RespRead(q, d, ls, rd, oc) /\ RespChunks(v, q, d, ls, oc)
  BY DEF RespInStep, RespCall, RespRead, RespChunks
<1>3. RespBlock(v, d, ls, oc) /\ RespEnd(v, late, q, d)
  BY DEF RespBlock, RespEnd
<1>4. RespGrant(v, late, q, g, d, ls, oc)
  BY <1>1 DEF RespInStep, RespGrant
<1>5. RespFirst(v, late, q, g, d, ls, oc)
  BY <1>1 DEF RespInStep, RespFirst, Skipped
<1> QED BY <1>2, <1>3, <1>4, <1>5 DEF RespInStep

\* A call returned a message.
LEMMA RespDelivered ==
  ASSUME NEW D, NEW q, NEW v, NEW late, NEW g, NEW c, NEW ls, NEW rd \in Seq(D), NEW oc,
         NEW b \in D, NEW m \in 1..Len(ls),
         RespInStep(v, late, q, g, c, ls, rd, oc), c.at = "idle", b # <<>>, b[1][1] = m,
         oc[m] # "timeout" => b = Message(m, ls[m]),
         \A i \in 1..Len(rd) : NumberRead(rd, i) < m,
         \A k \in 1..Len(q) : q[k].type \in {"SF", "FF"} => m < MsgOf(q[k])
  PROVE  RespInStep(v, late, q, g, c, ls, Append(rd, b), oc)
<1> DEFINE sd == Append(rd, b)
<1>1. /\ Len(sd) = Len(rd) + 1 /\ sd[Len(rd) + 1] = b /\ Len(rd) \in Nat
      /\ \A i \in 1..Len(rd) : sd[i] = rd[i]
      /\ \A i \in 1..Len(sd) : i \in 1..Len(rd) \/ i = Len(rd) + 1
  OBVIOUS
<1> HIDE DEF sd
<1>2. NumberRead(sd, Len(rd) + 1) = m
  BY <1>1 DEF NumberRead
<1>3. \A i \in 1..Len(rd) : NumberRead(sd, i) = NumberRead(rd, i)
  BY <1>1 DEF NumberRead
<1>4. RespRead(q, c, ls, rd, oc)
  BY DEF RespInStep
<1>5. ASSUME NEW i \in 1..Len(sd)
      PROVE  /\ sd[i] # <<>> /\ NumberRead(sd, i) \in 1..Len(ls)
             /\ oc[NumberRead(sd, i)] # "timeout" =>
                  sd[i] = Message(NumberRead(sd, i), ls[NumberRead(sd, i)])
             /\ \A k \in 1..Len(q) : q[k].type \in {"SF", "FF"} =>
                  NumberRead(sd, i) < MsgOf(q[k])
  <2>1. CASE i \in 1..Len(rd)
    BY <1>1, <1>3, <1>4, <2>1 DEF RespRead
  <2>2. CASE i = Len(rd) + 1
    BY <1>1, <1>2, <2>2
  <2> QED BY <1>1, <2>1, <2>2
<1>6. ASSUME NEW i \in 1..Len(sd), NEW j \in 1..Len(sd), i < j
      PROVE  NumberRead(sd, i) < NumberRead(sd, j)
  <2>1. i \in 1..Len(rd)
    BY <1>1, <1>6
  <2>2. CASE j \in 1..Len(rd)
    BY <1>3, <1>4, <1>6, <2>1, <2>2 DEF RespRead
  <2>3. CASE j = Len(rd) + 1
    BY <1>2, <1>3, <2>1, <2>3
  <2> QED BY <1>1, <2>2, <2>3
<1>7. RespRead(q, c, ls, sd, oc)
  BY <1>5, <1>6 DEF RespRead
<1> QED BY <1>7 DEF RespInStep, sd

\* Time passes when the node and a call have nothing to do.
LEMMA RespTicked ==
  ASSUME NEW F, NEW q \in Seq(F), NEW v, NEW late, NEW lte, NEW c, NEW d, NEW ls, NEW rd, NEW oc,
         RespInStep(v, late, q, FALSE, c, ls, rd, oc), c.at # "idle" => q = <<>>,
         d.at = c.at, d.payload = c.payload, d.declared = c.declared, d.index = c.index,
         d.inBlock = c.inBlock
  PROVE  RespInStep(v, lte, q, FALSE, d, ls, rd, oc)
<1>1. CallMsg(d) = CallMsg(c) /\ CallWindow(d) = CallWindow(c)
  BY DEF CallMsg, CallWindow
<1>2. c.at # "idle" => \A i \in 1..Len(q) : FALSE
  OBVIOUS
<1>3. RespCall(d, ls, oc)
  BY <1>1 DEF RespInStep, RespCall
<1>4. RespRead(q, d, ls, rd, oc)
  BY <1>1 DEF RespInStep, RespRead
<1>5. RespChunks(v, q, d, ls, oc)
  BY <1>1 DEF RespInStep, RespChunks
<1>6. RespBlock(v, d, ls, oc)
  BY <1>1 DEF RespInStep, RespBlock
<1>7. RespEnd(v, lte, q, d)
  BY <1>2 DEF RespEnd
<1>8. RespGrant(v, lte, q, FALSE, d, ls, oc)
  BY DEF RespGrant
<1>9. RespFirst(v, lte, q, FALSE, d, ls, oc)
  BY <1>2 DEF RespInStep, RespFirst, Skipped, Open
<1> QED BY <1>3, <1>4, <1>5, <1>6, <1>7, <1>8, <1>9 DEF RespInStep

\* A first frame begins a message, which its sender waits to be granted or has given
\* up.
LEMMA RespFirstTaken ==
  ASSUME NEW F, NEW q \in Seq(F), NEW v, NEW late, NEW g, NEW h \in BOOLEAN, NEW c, NEW d,
         NEW ls, NEW rd, NEW oc,
         RespTyped(v, c, ls, oc), RespInStep(v, late, q, g, c, ls, rd, oc), BlockSize > 0,
         q # <<>>, Head(q).type = "FF", c.at = "first",
         d.at = "rest", d.payload = <<Head(q).data>>, d.declared = Head(q).len,
         d.index = c.index, d.inBlock = c.inBlock, d.left = c.left
  PROVE  ~g /\ RespInStep(v, late, Tail(q), h, d, ls, rd, oc)
<1> DEFINE f == Head(q)
           p == Tail(q)
           m == MsgOf(f)
<1>1. /\ Len(p) = Len(q) - 1 /\ Len(q) \in Nat /\ Len(p) \in Nat /\ f = q[1] /\ 1 \in 1..Len(q)
      /\ \A i \in 1..Len(p) : p[i] = q[i + 1] /\ i + 1 \in 1..Len(q)
  OBVIOUS
<1>2. f.type = "FF" /\ d.payload = <<f.data>> /\ d.declared = f.len
  OBVIOUS
<1> HIDE DEF f, p
<1>3. Fresh(1, v, q, g, ls, oc)
  BY <1>1, <1>2 DEF RespInStep, RespFirst, Skipped, Open
<1>4. \A i \in 1..Len(q) : q[i].type # "CF"
  BY <1>1, <1>3 DEF Fresh
<1>5. \A i \in 1..Len(p) : p[i].type # "CF"
  BY <1>1, <1>4
<1>6. FrameFits(f, ls)
  BY <1>1, <1>2 DEF RespInStep, RespFrames
<1>7. m \in 1..Len(ls) /\ f.data = Chunk(m, 1) /\ IndexOf(f) = 1 /\ f.len = ls[m] /\ f.len > 1
  BY <1>2, <1>6 DEF FrameFits, MsgOf, IndexOf, Chunk
<1>8. /\ Len(d.payload) = 1 /\ d.payload[1] = Chunk(m, 1) /\ d.payload # <<>> /\ CallMsg(d) = m
      /\ d.index = 1 /\ d.inBlock = 0
  <2>1. Len(d.payload) = 1 /\ d.payload[1] = f.data /\ d.payload # <<>>
    BY <1>2
  <2>2. d.index = 1 /\ d.inBlock = 0
    BY DEF RespInStep, RespCall
  <2> QED BY <1>7, <2>1, <2>2 DEF CallMsg, MsgOf
<1> HIDE DEF m
<1>9. /\ ~g
      /\ v.busy => v.offset = 1 /\ (v.waiting \/ ls[v.msg] = 1)
      /\ oc[m] = "timeout" \/ (v.busy /\ v.msg = m)
  BY <1>1, <1>3 DEF Fresh, m
<1>10. v.busy => oc[v.msg] = "ongoing" /\ v.msg = Len(ls)
  BY DEF RespInStep, RespSender, OwnTransfer
<1>11. c.left = 0 => p = <<>> /\ v.busy /\ v.waiting /\ ~late
  <2>1. c.left = 0 => 1 = Len(q) /\ v.busy /\ v.waiting /\ ~late
    BY <1>1, <1>2 DEF RespInStep, RespFirst
  <2>2. p \in Seq(F)
    BY DEF p
  <2> QED BY <1>1, <2>1, <2>2
<1>12. c.left # 0 => Open(d)
  BY DEF Open, RespTyped
<1>13. RespFrames(v, p, ls) /\ RespCount(v, p) /\ RespSender(v, ls, oc)
  BY RespSkipped DEF RespInStep, p
<1>14. RespCall(d, ls, oc)
  <2>1. 1 % SnMod = 1 /\ 0 \in 0..(BlockSize - 1)
    BY IsotpAssumption
  <2>2. \A k \in 1..Len(d.payload) : d.payload[k] = Chunk(CallMsg(d), k)
    BY <1>8
  <2> QED BY <1>2, <1>7, <1>8, <2>1, <2>2 DEF RespCall
<1>15. ASSUME NEW k \in 1..Len(p), p[k].type \in {"SF", "FF"}
       PROVE  m < MsgOf(p[k]) /\ MsgOf(p[k]) \in 1..Len(ls)
  <2>1. FrameFits(p[k], ls)
    BY <1>13, <1>15 DEF RespFrames
  <2>2. MsgOf(p[k]) \in 1..Len(ls) /\ IndexOf(p[k]) = 1
    BY <1>15, <2>1 DEF FrameFits, MsgOf
  <2>3. Before(f, p[k])
    <3>1. k + 1 \in 1..Len(q) /\ p[k] = q[k + 1] /\ 1 < k + 1
      BY <1>1
    <3> QED BY <1>1, <1>2, <1>15, <3>1 DEF RespInStep, RespFrames
  <2> QED BY <1>7, <2>2, <2>3 DEF Before, m
<1>16. RespRead(p, d, ls, rd, oc)
  <2>1. RespRead(q, c, ls, rd, oc)
    BY DEF RespInStep
  <2>2. \A i \in 1..Len(rd) : NumberRead(rd, i) < m
    BY <1>1, <1>2, <2>1 DEF RespRead, m
  <2>3. \A k \in 1..Len(p) : p[k].type \in {"SF", "FF"} =>
          \A i \in 1..Len(rd) : NumberRead(rd, i) < MsgOf(p[k])
    BY <1>1, <2>1 DEF RespRead
  <2> QED BY <1>8, <1>15, <2>1, <2>2, <2>3 DEF RespRead
<1>17. RespChunks(v, p, d, ls, oc) /\ RespEnd(v, late, p, d)
  BY <1>5 DEF RespChunks, RespEnd
<1>18. RespBlock(v, d, ls, oc)
  <2>1. ~Halfway(v, ls)
    BY <1>9 DEF Halfway
  <2>2. oc[m] # "ok"
    BY <1>9, <1>10
  <2> QED BY <1>8, <2>1, <2>2 DEF RespBlock
<1>19. RespGrant(v, late, p, h, d, ls, oc)
  <2>1. (v.busy /\ v.waiting) \/ (Unasking(v, ls) /\ Open(d))
    BY <1>9, <1>11, <1>12 DEF Unasking
  <2>2. ~(v.busy /\ v.waiting) => oc[m] = "timeout"
    BY <1>7, <1>9
  <2>3. v.busy /\ v.waiting => v.offset = 1 /\ (oc[m] # "timeout" => v.msg = m)
    BY <1>9
  <2>4. ~Open(d) => \A i \in 1..Len(p) : p[i].type # "FF"
    BY <1>11, <1>12
  <2>5. v.busy /\ late => Open(d) /\ v.offset = 1
    BY <1>9, <1>11, <1>12
  <2> QED BY <1>5, <1>8, <2>1, <2>2, <2>3, <2>4, <2>5 DEF RespGrant
<1>20. RespFirst(v, late, p, h, d, ls, oc)
  <2>1. ASSUME NEW i \in 1..Len(p), p[i].type = "FF"
        PROVE  Skipped(i, p, d, oc) /\ d.left # 0
    <3>1. c.left # 0
      <4>1. c.left = 0 => Len(p) = 0
        BY <1>11
      <4> QED BY <4>1
    <3>2. oc[m] = "timeout"
      <4>1. m < MsgOf(p[i]) /\ MsgOf(p[i]) \in 1..Len(ls)
        BY <1>15, <2>1
      <4>2. m # Len(ls)
        BY <1>7, <4>1 DEF m
      <4> QED BY <1>9, <1>10, <4>2
    <3> QED BY <1>5, <1>8, <1>12, <3>1, <3>2 DEF Skipped
  <2> QED BY <2>1 DEF RespFirst
<1> QED BY <1>9, <1>13, <1>14, <1>16, <1>17, <1>18, <1>19, <1>20 DEF RespInStep, p

\* A consecutive frame with the expected number is the next chunk.
LEMMA RespNextChunk ==
  ASSUME NEW F, NEW q \in Seq(F), NEW v, NEW late, NEW g, NEW c, NEW ls, NEW rd, NEW oc,
         RespTyped(v, c, ls, oc), RespInStep(v, late, q, g, c, ls, rd, oc),
         BlockSize <= SnMod, q # <<>>, Head(q).type = "CF", c.at = "rest", Head(q).sn = c.index
  PROVE  /\ ~g /\ MsgOf(Head(q)) \in 1..Len(ls) /\ Len(c.payload) \in Nat
         /\ IndexOf(Head(q)) = Len(c.payload) + 1
         /\ Head(q).data = Chunk(MsgOf(Head(q)), Len(c.payload) + 1)
         /\ Len(c.payload) + 1 <= CallWindow(c) /\ Len(c.payload) + 1 <= ls[MsgOf(Head(q))]
         /\ oc[CallMsg(c)] # "timeout" => MsgOf(Head(q)) = CallMsg(c)
         /\ \A i \in 1..Len(q) : ~Skipped(i, q, c, oc)
<1> DEFINE h == Head(q)
           n == Len(c.payload)
<1>1. h = q[1] /\ 1 \in 1..Len(q)
  OBVIOUS
<1>2. h.type = "CF" /\ h.sn = c.index
  OBVIOUS
<1>3. n \in Nat /\ c.inBlock \in Nat /\ BlockSize \in Nat /\ SnMod \in Nat \ {0}
  BY IsotpAssumption DEF RespTyped
<1> HIDE DEF h, n
<1>4. FrameFits(h, ls)
  BY <1>1, <1>2 DEF RespInStep, RespFrames
<1>5. /\ n < IndexOf(h) /\ IndexOf(h) <= CallWindow(c)
      /\ oc[CallMsg(c)] # "timeout" => MsgOf(h) = CallMsg(c)
  BY <1>1, <1>2 DEF RespInStep, RespChunks, n
<1>6. /\ h.sn = (IndexOf(h) - 1) % SnMod /\ IndexOf(h) \in Nat
      /\ h.data = Chunk(MsgOf(h), IndexOf(h)) /\ MsgOf(h) \in 1..Len(ls)
      /\ IndexOf(h) <= ls[MsgOf(h)]
  BY <1>2, <1>4 DEF FrameFits, MsgOf, IndexOf, Chunk
<1>7. c.index = n % SnMod
  BY DEF RespInStep, RespCall, n
<1>8. n = IndexOf(h) - 1
  <2>1. PICK k \in Nat : IndexOf(h) = k + 1
    <3>1. IndexOf(h) - 1 \in Nat /\ IndexOf(h) = (IndexOf(h) - 1) + 1
      BY <1>3, <1>5, <1>6
    <3> QED BY <3>1
  <2>2. n <= k /\ k < n + SnMod
    <3>1. CallWindow(c) = n - c.inBlock + BlockSize
      BY DEF CallWindow, n
    <3>2. n <= k
      BY <1>3, <1>5, <2>1
    <3>3. k + 1 <= n - c.inBlock + BlockSize
      BY <1>5, <2>1, <3>1
    <3> QED BY <1>3, <3>2, <3>3
  <2>3. k = IndexOf(h) - 1
    BY <2>1
  <2>4. k % SnMod = n % SnMod
    BY <1>2, <1>6, <1>7, <2>3
  <2>5. n = k
    BY <1>3, <2>2, <2>4, OneChunkInWindow
  <2> QED BY <2>3, <2>5
<1>9. IndexOf(h) = n + 1
  BY <1>6, <1>8
<1>10. ~g
  BY <1>1, <1>2 DEF RespInStep, RespGrant
<1>11. ASSUME NEW i \in 1..Len(q)
       PROVE  ~Skipped(i, q, c, oc)
  BY <1>1, <1>2 DEF Skipped
<1> QED BY <1>3, <1>5, <1>6, <1>9, <1>10, <1>11 DEF h, n

LEMMA PayloadExtended ==
  ASSUME NEW c, NEW d, NEW x \in Chunks, c.payload \in Seq(Chunks), c.payload # <<>>,
         d.payload = Append(c.payload, x)
  PROVE  /\ Len(d.payload) = Len(c.payload) + 1 /\ Len(c.payload) \in Nat /\ Len(c.payload) >= 1
         /\ d.payload # <<>> /\ d.payload[1] = c.payload[1] /\ CallMsg(d) = CallMsg(c)
         /\ \A k \in 1..Len(c.payload) : d.payload[k] = c.payload[k]
         /\ d.payload[Len(c.payload) + 1] = x
<1>1. /\ Len(d.payload) = Len(c.payload) + 1 /\ Len(c.payload) \in Nat /\ Len(c.payload) >= 1
      /\ d.payload # <<>> /\ d.payload[1] = c.payload[1]
      /\ \A k \in 1..Len(c.payload) : d.payload[k] = c.payload[k]
      /\ d.payload[Len(c.payload) + 1] = x
  OBVIOUS
<1> QED BY <1>1 DEF CallMsg

\* What a call has once it took the next chunk.
Extended(c, d, ls, oc) ==
  /\ CallMsg(d) = CallMsg(c) /\ Len(d.payload) = Len(c.payload) + 1
  /\ Len(c.payload) \in Nat /\ Len(c.payload) >= 1
  /\ d.payload # <<>> /\ CallMsg(d) \in 1..Len(ls)
  /\ d.payload[1] = Chunk(CallMsg(d), 1)
  /\ oc[CallMsg(d)] # "timeout" =>
       \A k \in 1..Len(d.payload) : d.payload[k] = Chunk(CallMsg(d), k)

LEMMA RespExtended ==
  ASSUME NEW F, NEW q \in Seq(F), NEW v, NEW late, NEW g, NEW c, NEW d, NEW ls, NEW rd, NEW oc,
         RespTyped(v, c, ls, oc), RespInStep(v, late, q, g, c, ls, rd, oc),
         BlockSize <= SnMod, q # <<>>, Head(q).type = "CF", c.at = "rest", Head(q).sn = c.index,
         Head(q).data \in Chunks, d.payload = Append(c.payload, Head(q).data)
  PROVE  Extended(c, d, ls, oc)
<1> DEFINE x == Head(q).data
<1>1. /\ x = Chunk(MsgOf(Head(q)), Len(c.payload) + 1)
      /\ oc[CallMsg(c)] # "timeout" => MsgOf(Head(q)) = CallMsg(c)
  BY RespNextChunk
<1>2. x \in Chunks /\ d.payload = Append(c.payload, x) /\ c.payload \in Seq(Chunks)
  BY DEF RespTyped
<1> HIDE DEF x
<1>3. /\ c.payload # <<>> /\ CallMsg(c) \in 1..Len(ls) /\ c.payload[1] = Chunk(CallMsg(c), 1)
      /\ oc[CallMsg(c)] # "timeout" =>
           \A k \in 1..Len(c.payload) : c.payload[k] = Chunk(CallMsg(c), k)
  BY DEF RespInStep, RespCall
<1>4. /\ Len(d.payload) = Len(c.payload) + 1 /\ Len(c.payload) \in Nat /\ Len(c.payload) >= 1
      /\ d.payload # <<>> /\ d.payload[1] = c.payload[1] /\ CallMsg(d) = CallMsg(c)
      /\ \A k \in 1..Len(c.payload) : d.payload[k] = c.payload[k]
      /\ d.payload[Len(c.payload) + 1] = x
  BY <1>2, <1>3, PayloadExtended, ZenonT(30)
<1>5. ASSUME oc[CallMsg(d)] # "timeout", NEW k \in 1..Len(d.payload)
      PROVE  d.payload[k] = Chunk(CallMsg(d), k)
  <2>1. oc[CallMsg(c)] # "timeout"
    BY <1>4, <1>5
  <2>2. CASE k \in 1..Len(c.payload)
    BY <1>3, <1>4, <2>1, <2>2
  <2>3. CASE k = Len(c.payload) + 1
    BY <1>1, <1>4, <2>1, <2>3
  <2> QED BY <1>4, <2>2, <2>3
<1> QED BY <1>3, <1>4, <1>5 DEF Extended

\* What is left on the path once a chunk was taken.
LEMMA RespAfterChunk ==
  ASSUME NEW F, NEW q \in Seq(F), NEW v, NEW late, NEW g, NEW c, NEW ls, NEW rd, NEW oc,
         RespTyped(v, c, ls, oc), RespInStep(v, late, q, g, c, ls, rd, oc),
         BlockSize <= SnMod, q # <<>>, Head(q).type = "CF", c.at = "rest", Head(q).sn = c.index
  PROVE  /\ \A i \in 1..Len(Tail(q)) : Tail(q)[i].type = "CF" =>
              Len(c.payload) + 1 < IndexOf(Tail(q)[i]) /\ IndexOf(Tail(q)[i]) <= CallWindow(c)
         /\ Halfway(v, ls) =>
              /\ v.msg = MsgOf(Head(q)) /\ Len(c.payload) + 1 <= v.offset
              /\ Len(c.payload) - c.inBlock = v.offset - v.inBlock
         /\ \A i \in 1..Len(Tail(q)) : Tail(q)[i].type = "FF" =>
              Fresh(i, v, Tail(q), g, ls, oc)
<1> DEFINE h == Head(q)
           p == Tail(q)
           n == Len(c.payload)
<1>1. /\ Len(p) = Len(q) - 1 /\ Len(q) \in Nat /\ Len(p) \in Nat /\ h = q[1] /\ 1 \in 1..Len(q)
      /\ \A i \in 1..Len(p) : p[i] = q[i + 1] /\ i + 1 \in 1..Len(q) /\ 1 < i + 1
  OBVIOUS
<1>2. h.type = "CF"
  OBVIOUS
<1>3. /\ IndexOf(h) = n + 1 /\ n \in Nat /\ MsgOf(h) \in 1..Len(ls)
      /\ \A i \in 1..Len(q) : ~Skipped(i, q, c, oc)
  BY RespNextChunk
<1>4. RespInStep(v, late, p, g, c, ls, rd, oc)
  BY RespSkipped, ZenonT(30)
<1> HIDE DEF h, p, n
<1>5. ASSUME NEW i \in 1..Len(p), p[i].type = "CF"
      PROVE  n + 1 < IndexOf(p[i]) /\ IndexOf(p[i]) <= CallWindow(c)
  <2>1. i + 1 \in 1..Len(q) /\ p[i] = q[i + 1] /\ 1 < i + 1 /\ q[i + 1].type = "CF"
    BY <1>1, <1>5
  <2>2. MsgOf(p[i]) = MsgOf(h) /\ IndexOf(p[i]) <= CallWindow(c)
    BY <1>1, <1>2, <2>1 DEF RespInStep, RespChunks
  <2>3. Before(h, p[i])
    BY <1>1, <1>2, <2>1 DEF RespInStep, RespFrames
  <2> QED BY <1>3, <2>2, <2>3 DEF Before
<1>6. ASSUME Halfway(v, ls)
      PROVE  /\ v.msg = MsgOf(h) /\ n + 1 <= v.offset
             /\ n - c.inBlock = v.offset - v.inBlock
  <2>1. v.msg = MsgOf(h) /\ v.busy
    BY <1>1, <1>2, <1>6 DEF RespInStep, RespChunks, Halfway
  <2>2. n + 1 <= v.offset
    BY <1>1, <1>2, <1>3, <2>1 DEF RespInStep, RespFrames
  <2>3. n - c.inBlock = v.offset - v.inBlock \/ n = v.offset
    BY <1>6 DEF RespInStep, RespBlock, n
  <2> QED BY <1>3, <2>1, <2>2, <2>3
<1>7. ASSUME NEW i \in 1..Len(p), p[i].type = "FF"
      PROVE  Fresh(i, v, p, g, ls, oc)
  <2>1. i + 1 \in 1..Len(q) /\ p[i] = q[i + 1] /\ q[i + 1].type = "FF"
    BY <1>1, <1>7
  <2>2. Fresh(i + 1, v, q, g, ls, oc)
    BY <1>3, <2>1 DEF RespInStep, RespFirst
  <2>3. ASSUME NEW j \in 1..Len(p), p[j].type = "CF"
        PROVE  j < i
    <3>1. j + 1 \in 1..Len(q) /\ q[j + 1].type = "CF"
      BY <1>1, <2>3
    <3>2. j + 1 < i + 1
      BY <2>2, <3>1 DEF Fresh
    <3> QED BY <3>2
  <2> QED BY <2>1, <2>2, <2>3 DEF Fresh
<1> QED BY <1>5, <1>6, <1>7 DEF h, p, n

\* Chunks of the block are left, ...
LEMMA RespChunkTaken ==
  ASSUME NEW F, NEW q \in Seq(F), NEW v, NEW late, NEW g, NEW c, NEW d, NEW ls, NEW rd, NEW oc,
         RespTyped(v, c, ls, oc), RespInStep(v, late, q, g, c, ls, rd, oc),
         BlockSize > 0, BlockSize <= SnMod,
         q # <<>>, Head(q).type = "CF", c.at = "rest", Head(q).sn = c.index,
         Head(q).data \in Chunks, d.payload = Append(c.payload, Head(q).data),
         d.at = "rest", d.declared = c.declared, Len(d.payload) < d.declared,
         d.index = NextIndex(c.index), d.inBlock = c.inBlock + 1, d.inBlock < BlockSize,
         d.left = c.left
  PROVE  RespInStep(v, late, Tail(q), g, d, ls, rd, oc)
<1> DEFINE p == Tail(q)
           n == Len(c.payload)
<1>1. RespInStep(v, late, p, g, c, ls, rd, oc)
  BY RespSkipped, ZenonT(30)
<1>2. ~g
  BY RespNextChunk
<1>3. /\ CallMsg(d) = CallMsg(c) /\ Len(d.payload) = n + 1 /\ n \in Nat /\ n >= 1
      /\ d.payload # <<>> /\ CallMsg(d) \in 1..Len(ls)
      /\ d.payload[1] = Chunk(CallMsg(d), 1)
      /\ oc[CallMsg(d)] # "timeout" =>
           \A k \in 1..Len(d.payload) : d.payload[k] = Chunk(CallMsg(d), k)
  <2>1. Extended(c, d, ls, oc)
    BY RespExtended
  <2> QED BY ONLY <2>1 DEF Extended, n
<1>4. /\ \A i \in 1..Len(p) : p[i].type = "CF" =>
           n + 1 < IndexOf(p[i]) /\ IndexOf(p[i]) <= CallWindow(c)
      /\ Halfway(v, ls) =>
           /\ n + 1 <= v.offset
           /\ n - c.inBlock = v.offset - v.inBlock
      /\ \A i \in 1..Len(p) : p[i].type = "FF" => Fresh(i, v, p, g, ls, oc)
  BY RespAfterChunk
<1>5. c.inBlock \in Nat /\ BlockSize \in Nat /\ SnMod \in Nat \ {0}
      /\ v.offset \in Nat /\ v.inBlock \in Nat
  BY IsotpAssumption DEF RespTyped
<1>6. CallWindow(d) = CallWindow(c)
  <2>1. CallWindow(d) = (n + 1) - (c.inBlock + 1) + BlockSize /\ CallWindow(c) = n - c.inBlock + BlockSize
    BY <1>3, Zenon DEF CallWindow
  <2>2. (n + 1) - (c.inBlock + 1) = n - c.inBlock
    BY <1>3, <1>5, NextCount, Zenon
  <2> QED BY <2>1, <2>2, Zenon
<1> HIDE DEF p, n
<1>7. RespCall(d, ls, oc)
  <2>1. c.declared = ls[CallMsg(c)] /\ c.index = n % SnMod
    BY DEF RespInStep, RespCall, n
  <2>2. d.index = Len(d.payload) % SnMod
    BY <1>3, <1>5, <2>1, NextRemainder DEF NextIndex
  <2>3. d.inBlock \in 0..(BlockSize - 1) /\ d.inBlock < Len(d.payload)
    <3>1. c.inBlock < n
      BY DEF RespInStep, RespCall, n
    <3>2. d.inBlock = c.inBlock + 1 /\ d.inBlock < BlockSize /\ Len(d.payload) = n + 1
      BY <1>3
    <3> QED BY ONLY <1>3, <1>5, <3>1, <3>2, SMTT(20)
  <2> QED BY <1>3, <2>1, <2>2, <2>3 DEF RespCall
<1>8. RespRead(p, d, ls, rd, oc)
  BY <1>1, <1>3 DEF RespInStep, RespRead
<1>9. RespChunks(v, p, d, ls, oc)
  <2>1. RespChunks(v, p, c, ls, oc)
    BY <1>1 DEF RespInStep
  <2> QED BY <1>3, <1>4, <1>6, <2>1 DEF RespChunks
<1>10. RespBlock(v, d, ls, oc)
  <2>1. RespBlock(v, c, ls, oc)
    BY DEF RespInStep
  <2>2. ASSUME Halfway(v, ls)
        PROVE  Len(d.payload) <= v.offset /\ Len(d.payload) - d.inBlock = v.offset - v.inBlock
    <3>1. (n + 1) - (c.inBlock + 1) = n - c.inBlock
      BY <1>3, <1>5, NextCount, Zenon
    <3>2. Len(d.payload) - d.inBlock = n - c.inBlock
      BY <1>3, <3>1, Zenon
    <3> QED BY <1>3, <1>4, <2>2, <3>2
  <2> QED BY <1>3, <1>6, <2>1, <2>2 DEF RespBlock
<1>11. RespEnd(v, late, p, d)
  <2>1. RespEnd(v, late, p, c)
    BY <1>1 DEF RespInStep
  <2> QED BY <1>6, <2>1 DEF RespEnd
<1>12. RespGrant(v, late, p, g, d, ls, oc)
  BY <1>2 DEF RespGrant
<1>13. RespFirst(v, late, p, g, d, ls, oc)
  <2>1. RespFirst(v, late, p, g, c, ls, oc)
    BY <1>1 DEF RespInStep
  <2> QED BY <1>4, <2>1 DEF RespFirst
<1> QED BY <1>1, <1>7, <1>8, <1>9, <1>10, <1>11, <1>12, <1>13 DEF RespInStep, p

\* ... or the block ends with this one, and its sender waits to be granted the next.
LEMMA RespBlockTaken ==
  ASSUME NEW F, NEW q \in Seq(F), NEW v, NEW late, NEW g, NEW k \in BOOLEAN, NEW c, NEW d,
         NEW ls, NEW rd, NEW oc,
         RespTyped(v, c, ls, oc), RespInStep(v, late, q, g, c, ls, rd, oc),
         BlockSize > 0, BlockSize <= SnMod,
         q # <<>>, Head(q).type = "CF", c.at = "rest", Head(q).sn = c.index,
         Head(q).data \in Chunks, d.payload = Append(c.payload, Head(q).data),
         d.at = "rest", d.declared = c.declared, Len(d.payload) < d.declared,
         d.index = NextIndex(c.index), c.inBlock + 1 >= BlockSize, d.inBlock = 0,
         d.left = c.left
  PROVE  ~g /\ RespInStep(v, late, Tail(q), k, d, ls, rd, oc)
<1> DEFINE p == Tail(q)
           n == Len(c.payload)
           h == Head(q)
<1>1. RespInStep(v, late, p, g, c, ls, rd, oc)
  BY RespSkipped, ZenonT(30)
<1>2. ~g /\ IndexOf(h) = n + 1 /\ MsgOf(h) \in 1..Len(ls) /\ n + 1 <= ls[MsgOf(h)]
  BY RespNextChunk
<1>3. oc[CallMsg(c)] # "timeout" => MsgOf(h) = CallMsg(c)
  BY RespNextChunk
<1>4. /\ CallMsg(d) = CallMsg(c) /\ Len(d.payload) = n + 1 /\ n \in Nat /\ n >= 1
      /\ d.payload # <<>> /\ CallMsg(d) \in 1..Len(ls)
      /\ d.payload[1] = Chunk(CallMsg(d), 1)
      /\ oc[CallMsg(d)] # "timeout" =>
           \A i \in 1..Len(d.payload) : d.payload[i] = Chunk(CallMsg(d), i)
  <2>1. Extended(c, d, ls, oc)
    BY RespExtended
  <2> QED BY ONLY <2>1 DEF Extended, n
<1>5. \A i \in 1..Len(p) : p[i].type = "CF" =>
        n + 1 < IndexOf(p[i]) /\ IndexOf(p[i]) <= CallWindow(c)
  BY RespAfterChunk
<1>6. Halfway(v, ls) => n - c.inBlock = v.offset - v.inBlock
  BY RespAfterChunk
<1>7. \A i \in 1..Len(p) : p[i].type = "FF" => Fresh(i, v, p, g, ls, oc)
  BY RespAfterChunk
<1>8. c.inBlock \in Nat /\ BlockSize \in Nat /\ SnMod \in Nat \ {0}
      /\ v.offset \in Nat /\ v.inBlock \in Nat /\ ls \in Seq(Nat \ {0})
  BY IsotpAssumption DEF RespTyped
<1>9. h = q[1] /\ 1 \in 1..Len(q) /\ h.type = "CF"
  OBVIOUS
<1> HIDE DEF p, n, h
<1>10. c.inBlock < n /\ c.inBlock = BlockSize - 1 /\ c.declared = ls[CallMsg(c)]
       /\ c.index = n % SnMod
  <2>1. c.inBlock \in 0..(BlockSize - 1) /\ c.inBlock < n
    BY DEF RespInStep, RespCall, n
  <2>2. c.declared = ls[CallMsg(c)] /\ c.index = n % SnMod
    BY DEF RespInStep, RespCall, n
  <2> QED BY <1>8, <2>1, <2>2
<1>11. CallWindow(c) = n + 1
  <2>1. CallWindow(c) = n - c.inBlock + BlockSize
    BY DEF CallWindow, n
  <2>2. n - (BlockSize - 1) + BlockSize = n + 1
    BY <1>4, <1>8
  <2> QED BY <1>10, <2>1, <2>2, Zenon
<1>12. v.busy /\ v.msg = MsgOf(h) /\ v.offset = n + 1 /\ ~late
  BY <1>2, <1>9, <1>11 DEF RespInStep, RespEnd
<1>13. ls[v.msg] > 1 /\ v.offset > 1
  BY <1>2, <1>4, <1>8, <1>12, SMTT(20)
<1>14. v.waiting
  <2>1. Halfway(v, ls)
    BY <1>12, <1>13 DEF Halfway
  <2>2. v.inBlock = BlockSize
    <3>1. n - (BlockSize - 1) = (n + 1) - v.inBlock
      BY <1>6, <1>10, <1>12, <2>1, Zenon
    <3> QED BY <1>4, <1>8, <3>1
  <2> QED BY <1>8, <1>12, <1>13, <2>2 DEF RespInStep, RespSender, OwnTransfer
<1>15. \A i \in 1..Len(p) : p[i].type # "CF"
  <2>1. ASSUME NEW i \in 1..Len(p), p[i].type = "CF" PROVE FALSE
    <3>1. n + 1 < IndexOf(p[i]) /\ IndexOf(p[i]) <= n + 1 /\ FrameFits(p[i], ls)
      BY <1>1, <1>5, <1>11, <2>1 DEF RespInStep, RespFrames
    <3>2. IndexOf(p[i]) \in Nat
      BY <3>1 DEF FrameFits, IndexOf
    <3> QED BY <1>4, <3>1, <3>2
  <2> QED BY <2>1
<1>16. \A i \in 1..Len(p) : p[i].type # "FF"
  BY <1>7, <1>12, <1>13 DEF Fresh
<1>17. RespCall(d, ls, oc)
  <2>1. d.index = Len(d.payload) % SnMod
    <3>1. ((n % SnMod) + 1) % SnMod = (n + 1) % SnMod
      BY <1>4, <1>8, NextRemainder
    <3>2. d.index = (c.index + 1) % SnMod
      BY DEF NextIndex
    <3> QED BY <1>4, <1>10, <3>1, <3>2, Zenon
  <2>2. d.inBlock \in 0..(BlockSize - 1) /\ d.inBlock < Len(d.payload)
    BY <1>4, <1>8
  <2> QED BY <1>4, <1>10, <2>1, <2>2 DEF RespCall
<1>18. RespRead(p, d, ls, rd, oc)
  BY <1>1, <1>4 DEF RespInStep, RespRead
<1>19. RespChunks(v, p, d, ls, oc) /\ RespEnd(v, late, p, d)
  BY <1>15 DEF RespChunks, RespEnd
<1>20. RespBlock(v, d, ls, oc)
  <2>1. oc[CallMsg(d)] # "timeout" => v.msg = CallMsg(d)
    BY <1>3, <1>4, <1>12
  <2>2. oc[v.msg] = "ongoing"
    BY <1>12 DEF RespInStep, RespSender
  <2>3. oc[CallMsg(d)] # "ok"
    BY <2>1, <2>2
  <2>4. Len(d.payload) <= v.offset /\ Len(d.payload) = v.offset
    <3>1. Len(d.payload) = n + 1 /\ v.offset = n + 1 /\ n \in Nat
      BY <1>4, <1>12
    <3> QED BY ONLY <3>1
  <2> QED BY <1>14, <2>1, <2>3, <2>4 DEF RespBlock
<1>21. RespGrant(v, late, p, k, d, ls, oc)
  <2>1. oc[CallMsg(d)] # "timeout" => v.msg = CallMsg(d)
    BY <1>3, <1>4, <1>12
  <2> QED BY <1>4, <1>12, <1>14, <1>15, <1>16, <2>1 DEF RespGrant
<1>22. RespFirst(v, late, p, k, d, ls, oc)
  BY <1>16 DEF RespFirst
<1> QED BY <1>1, <1>2, <1>17, <1>18, <1>19, <1>20, <1>21, <1>22 DEF RespInStep, p

\* A message is complete.
LEMMA RespCompleted ==
  ASSUME NEW F, NEW q \in Seq(F), NEW v, NEW late, NEW g, NEW c, NEW d, NEW ls,
         NEW rd \in Seq(Seq(Chunks)), NEW oc, NEW b,
         RespTyped(v, c, ls, oc), RespInStep(v, late, q, g, c, ls, rd, oc),
         BlockSize <= SnMod,
         q # <<>>, Head(q).type = "CF", c.at = "rest", Head(q).sn = c.index,
         Head(q).data \in Chunks, b = Append(c.payload, Head(q).data),
         Len(b) >= c.declared, d.at = "idle"
  PROVE  RespInStep(v, late, Tail(q), g, d, ls, Append(rd, b), oc)
<1> DEFINE p == Tail(q)
           m == CallMsg(c)
           t == [payload |-> b]
<1>1. RespInStep(v, late, p, g, c, ls, rd, oc)
  BY RespSkipped, ZenonT(30)
<1>2. RespInStep(v, late, p, g, d, ls, rd, oc)
  <2>1. RespInStep(v, late, q, g, d, ls, rd, oc)
    BY RespGivenUp
  <2> QED BY <2>1, RespSkipped, ZenonT(30)
<1>3. Extended(c, t, ls, oc)
  <2>1. t.payload = Append(c.payload, Head(q).data)
    OBVIOUS
  <2> HIDE DEF t
  <2> QED BY <2>1, RespExtended
<1>4. t.payload = b /\ CallMsg(t) = b[1][1]
  BY DEF CallMsg
<1> HIDE DEF t
<1>5. /\ b[1][1] = m /\ Len(b) = Len(c.payload) + 1 /\ Len(c.payload) \in Nat /\ b # <<>>
      /\ m \in 1..Len(ls)
      /\ oc[m] # "timeout" => \A i \in 1..Len(b) : b[i] = Chunk(m, i)
  BY <1>3, <1>4, Zenon DEF Extended
<1>6. b \in Seq(Chunks)
  BY DEF RespTyped
<1> HIDE DEF p, m
<1>7. Len(b) = ls[m] /\ ls[m] \in Nat
  <2>1. c.declared = ls[m] /\ Len(c.payload) < c.declared
    BY DEF RespInStep, RespCall, m
  <2>2. ls[m] \in Nat
    BY <1>5 DEF RespTyped
  <2> QED BY <1>5, <2>1, <2>2
<1>8. oc[m] # "timeout" => b = Message(m, ls[m])
  <2>1. ASSUME oc[m] # "timeout"
        PROVE  b = [i \in 1..ls[m] |-> Chunk(m, i)]
    <3>1. b = [i \in 1..Len(b) |-> b[i]]
      BY <1>6
    <3> QED BY <1>5, <1>7, <2>1, <3>1
  <2> QED BY <2>1 DEF Message
<1>9. /\ \A i \in 1..Len(rd) : NumberRead(rd, i) < m
      /\ \A i \in 1..Len(p) : p[i].type \in {"SF", "FF"} => m < MsgOf(p[i])
  BY <1>1 DEF RespInStep, RespRead, m
<1> QED BY <1>2, <1>5, <1>6, <1>8, <1>9, RespDelivered DEF p

\* A single frame is a message.
LEMMA RespSingle ==
  ASSUME NEW F, NEW q \in Seq(F), NEW v, NEW late, NEW g, NEW c, NEW d, NEW ls,
         NEW rd \in Seq(Seq(Chunks)), NEW oc,
         RespTyped(v, c, ls, oc), RespInStep(v, late, q, g, c, ls, rd, oc),
         q # <<>>, Head(q).type = "SF", c.at = "first", Head(q).data \in Chunks, d.at = "idle"
  PROVE  RespInStep(v, late, Tail(q), g, d, ls, Append(rd, <<Head(q).data>>), oc)
<1> DEFINE p == Tail(q)
           f == Head(q)
           m == MsgOf(f)
           b == <<f.data>>
<1>1. RespInStep(v, late, p, g, d, ls, rd, oc)
  <2>1. RespInStep(v, late, q, g, d, ls, rd, oc)
    BY RespGivenUp DEF Open
  <2> QED BY <2>1, RespSkipped, ZenonT(30)
<1>2. /\ f = q[1] /\ 1 \in 1..Len(q) /\ f.type = "SF"
      /\ \A i \in 1..Len(p) : p[i] = q[i + 1] /\ i + 1 \in 1..Len(q) /\ 1 < i + 1
      /\ b \in Seq(Chunks) /\ b # <<>> /\ b[1] = f.data /\ Len(b) = 1
  OBVIOUS
<1> HIDE DEF p, f, b
<1>3. FrameFits(f, ls)
  BY <1>2 DEF RespInStep, RespFrames
<1>4. m \in 1..Len(ls) /\ IndexOf(f) = 1 /\ ls[m] = 1 /\ f.data = Chunk(m, 1)
  BY <1>2, <1>3 DEF FrameFits, MsgOf, IndexOf, Chunk
<1>5. b[1][1] = m
  BY <1>2 DEF MsgOf
<1> HIDE DEF m
<1>6. b = Message(m, ls[m])
  <2>1. b = [i \in 1..1 |-> Chunk(m, i)]
    <3>1. b = [i \in 1..Len(b) |-> b[i]]
      BY <1>2
    <3>2. \A i \in 1..1 : b[i] = Chunk(m, i)
      BY <1>2, <1>4
    <3> QED BY <1>2, <3>1, <3>2
  <2> QED BY <1>4, <2>1 DEF Message
<1>7. \A i \in 1..Len(rd) : NumberRead(rd, i) < m
  BY <1>2 DEF RespInStep, RespRead, m
<1>8. ASSUME NEW k \in 1..Len(p), p[k].type \in {"SF", "FF"}
      PROVE  m < MsgOf(p[k])
  <2>1. FrameFits(p[k], ls)
    BY <1>1, <1>8 DEF RespInStep, RespFrames
  <2>2. MsgOf(p[k]) \in 1..Len(ls) /\ IndexOf(p[k]) = 1
    BY <1>8, <2>1 DEF FrameFits, MsgOf
  <2>3. Before(f, p[k])
    BY <1>2, <1>8 DEF RespInStep, RespFrames
  <2> QED BY <1>4, <2>2, <2>3 DEF Before, m
<1> QED BY <1>1, <1>2, <1>4, <1>5, <1>6, <1>7, <1>8, RespDelivered DEF p, b, f

-------------------------------------------------------------------------------
(***************************************************************************)
(* The steps of the link to the PC.                                        *)
(***************************************************************************)
LEMMA RespGrantIs ==
  ASSUME NEW q, NEW v, NEW late, NEW g, NEW h, NEW c, NEW ls, NEW rd, NEW oc,
         RespInStep(v, late, q, g, c, ls, rd, oc), h <=> g
  PROVE  RespInStep(v, late, q, h, c, ls, rd, oc)
<1>1. RespGrant(v, late, q, h, c, ls, oc)
  BY DEF RespInStep, RespGrant
<1>2. RespFirst(v, late, q, h, c, ls, oc)
  BY DEF RespInStep, RespFirst, Fresh
<1> QED BY <1>1, <1>2 DEF RespInStep

\* A step leads to what a lemma about its values says.
LEMMA RespAfter ==
  ASSUME NEW q, NEW v, NEW late, NEW g, NEW c, NEW ls, NEW rd, NEW oc,
         RespInStep(v, late, q, g, c, ls, rd, oc), SameSender(v, Transfer'), Expired' => late,
         Path' = q, (toS' # <<>>) <=> g, recv' = c, lens' = ls, received' = rd, outcome' = oc,
         toS' # <<>> => toS' = <<FC("CTS")>>, RespNode'
  PROVE  RespInv'
<1>1. RespInStep(Transfer', Expired', q, g, c, ls, rd, oc)
  BY RespUntouched
<1>2. RespInStep(Transfer', Expired', q, toS' # <<>>, c, ls, rd, oc)
  BY <1>1, RespGrantIs
<1> QED BY <1>2, Zenon DEF RespInv

LEMMA RespFacts ==
  ASSUME Shape, RespInv, link = "response"
  PROVE  /\ RespInStep(Transfer, Expired, Path, toS # <<>>, recv, lens, received, outcome)
         /\ RespTyped(Transfer, recv, lens, outcome) /\ RespNode
         /\ toS # <<>> => toS = <<FC("CTS")>>
         /\ toR \in Seq(Data(link) \cup Fcs) /\ Path \in Seq(Data(link) \cup Fcs)
         /\ Path = toR \/ (tx.frame \in Data(link) /\ Path = Append(toR, tx.frame))
         /\ received \in Seq(Seq(Chunks)) /\ tx \in Senders(link) /\ recv \in ReceiveCalls
         /\ boxS \in Seq(OrApp(Data(link))) /\ tx.offset <= tx.len
<1>1. /\ RespInStep(Transfer, Expired, Path, toS # <<>>, recv, lens, received, outcome)
      /\ RespNode /\ (toS # <<>> => toS = <<FC("CTS")>>)
  BY DEF RespInv
<1>2. /\ received \in Seq(Seq(Chunks)) /\ tx \in Senders(link) /\ recv \in ReceiveCalls
      /\ boxS \in Seq(OrApp(Data(link))) /\ tx.offset <= tx.len
      /\ toR \in Seq(Data(link) \cup Fcs)
      /\ lens \in Seq(Nat \ {0}) /\ outcome \in Seq(Verdicts) /\ Len(outcome) = Len(lens)
  BY DEF Shape, AppShape, TxShape, RecvShape, BusShape
<1>3. RespTyped(Transfer, recv, lens, outcome)
  <2>1. tx.offset \in Nat /\ tx.inBlock \in Nat
    BY <1>2 DEF Senders
  <2>2. Transfer.offset \in Nat /\ Transfer.inBlock \in Nat
    BY <2>1 DEF Transfer
  <2>3. recv.payload \in Seq(Chunks) /\ recv.inBlock \in Nat /\ recv.left \in Nat
    BY <1>2, CallAssumption DEF ReceiveCalls
  <2> QED BY <1>2, <2>2, <2>3 DEF RespTyped
<1>4. Path = toR \/ (tx.frame \in Data(link) /\ Path = Append(toR, tx.frame))
  <2>1. CASE ~Pending
    BY <2>1 DEF Path
  <2>2. CASE Pending
    <3>1. Path = Append(toR, tx.frame)
      BY <2>2 DEF Path
    <3>2. tx.frame \in Data(link)
      <4>1. CASE tx.waitEnqueue
        BY <4>1 DEF Shape, TxShape
      <4>2. CASE ~tx.waitEnqueue
        <5>1. PICK i \in Own : boxS[i] = tx.frame
          BY <1>1, <2>2, <4>2 DEF Pending, RespNode
        <5>2. boxS[i] \in OrApp(Data(link)) /\ boxS[i].type # "app"
          BY <1>2, <5>1 DEF Own
        <5>3. boxS[i] # AppFrame
          BY <5>2 DEF AppFrame
        <5> QED BY <5>1, <5>2, <5>3 DEF OrApp
      <4> QED BY <4>1, <4>2
    <3> QED BY <3>1, <3>2
  <2> QED BY <2>1, <2>2
<1>5. Path \in Seq(Data(link) \cup Fcs)
  <2>1. \A S : \A s \in Seq(S), e \in S : Append(s, e) \in Seq(S)
    OBVIOUS
  <2>2. tx.frame \in Data(link) => tx.frame \in Data(link) \cup Fcs
    OBVIOUS
  <2> QED BY <1>2, <1>4, <2>1, <2>2, Zenon
<1> QED BY <1>1, <1>2, <1>3, <1>4, <1>5

\* A step of the PC.
LEMMA RespNodeUnmoved ==
  ASSUME RespNode, UNCHANGED <<tx, boxS, lens>>
  PROVE  RespNode'
BY DEF RespNode, Own

LEMMA RespSenderUnmoved ==
  ASSUME UNCHANGED <<tx, send, link>>
  PROVE  SameSender(Transfer, Transfer') /\ (Expired' <=> Expired)
<1>1. Transfer' = Transfer
  BY DEF Transfer, BlockFull
<1> QED BY <1>1 DEF SameSender, Expired

\* The call takes a frame of its queue: it is the first of the path.
LEMMA RespTaken ==
  ASSUME Shape, RespInv, link = "response", toR # <<>>, toR' = Tail(toR),
         UNCHANGED <<tx, boxS, send, link>>
  PROVE  Path # <<>> /\ Head(Path) = Head(toR) /\ Path' = Tail(Path)
<1>1. toR \in Seq(Data(link) \cup Fcs)
      /\ (Path = toR \/ (tx.frame \in Data(link) /\ Path = Append(toR, tx.frame)))
  BY RespFacts
<1>2. Pending' = Pending
  BY DEF Pending, Own
<1>3. CASE ~Pending
  BY <1>2, <1>3 DEF Path
<1>4. CASE Pending
  <2>1. Path = Append(toR, tx.frame) /\ Path' = Append(Tail(toR), tx.frame)
    BY <1>2, <1>4 DEF Path
  <2>2. tx.frame \in Data(link)
    <3>1. toR # Append(toR, tx.frame)
      <4>1. \A S : \A s \in Seq(S) : \A e : s # Append(s, e)
        BY SMTT(20)
      <4> QED BY <1>1, <4>1, Zenon
    <3> QED BY <1>1, <2>1, <3>1
  <2> QED BY <1>1, <2>1, <2>2, TailOfAppend
<1> QED BY <1>3, <1>4

\* Steps that leave the sender alone.
LEMMA PcStep ==
  ASSUME Shape, RespInv, link = "response",
         UNCHANGED <<tx, boxS, lens, outcome, send, link>>, NEW q, NEW g, Path' = q,
         RespInStep(Transfer, Expired, q, g, recv', lens, received', outcome),
         (toS' # <<>>) <=> g, toS' # <<>> => toS' = <<FC("CTS")>>
  PROVE  RespInv'
<1>1. RespNode'
  <2>1. RespNode
    BY RespFacts
  <2> QED BY <2>1, RespNodeUnmoved
<1>2. SameSender(Transfer, Transfer') /\ (Expired' => Expired)
  BY RespSenderUnmoved
<1> DEFINE c == recv'
           rd == received'
<1>3. /\ RespInStep(Transfer, Expired, q, g, c, lens, rd, outcome) /\ recv' = c
      /\ received' = rd /\ lens' = lens /\ outcome' = outcome
  OBVIOUS
<1> HIDE DEF c, rd
<1> QED BY <1>1, <1>2, <1>3, RespAfter

\* A call raises, or begins.
LEMMA RaisesResp ==
  ASSUME Shape, RespInv, link = "response", Raises,
         UNCHANGED <<tx, boxS, lens, outcome, send, link>>,
         ~Open(recv) \/ (Path # <<>> /\ Head(Path).type = "CF"),
         Path' = Path \/ (Path # <<>> /\ Path' = Tail(Path))
  PROVE  RespInv'
<1>1. /\ RespInStep(Transfer, Expired, Path, toS # <<>>, recv, lens, received, outcome)
      /\ Path \in Seq(Data(link) \cup Fcs) /\ (toS # <<>> => toS = <<FC("CTS")>>)
  BY RespFacts
<1>2. recv'.at = "idle" /\ UNCHANGED <<toS, received>>
  BY DEF Raises, NoCall
<1> DEFINE d == recv'
           v == Transfer
           late == Expired
           q == Path
           g == toS # <<>>
<1>3. /\ RespInStep(v, late, q, g, recv, lens, received, outcome) /\ d.at = "idle"
      /\ ~Open(recv) \/ (q # <<>> /\ Head(q).type = "CF")
      /\ q \in Seq(Data(link) \cup Fcs) /\ (Path' = q \/ (q # <<>> /\ Path' = Tail(q)))
  BY <1>1, <1>2
<1> HIDE DEF d, v, late, q, g
<1>4. RespInStep(v, late, q, g, d, lens, received, outcome)
  BY <1>3, RespGivenUp
<1>5. q # <<>> => RespInStep(v, late, Tail(q), g, d, lens, received, outcome)
  BY <1>3, <1>4, RespSkipped
<1>6. RespInStep(v, late, Path', g, d, lens, received, outcome)
  BY <1>3, <1>4, <1>5
<1>7. RespInStep(Transfer, Expired, Path', toS # <<>>, recv', lens, received', outcome)
  BY <1>2, <1>6 DEF d, v, late, g
<1> QED BY <1>1, <1>2, <1>7, PcStep

LEMMA PcReceiveResp ==
  ASSUME Shape, RespInv, link = "response", PcReceive, UNCHANGED <<send, link>>
  PROVE  RespInv'
<1>1. UNCHANGED <<tx, boxS, lens, outcome, toS, toR, received>>
  BY DEF PcReceive, vars, bus, app
<1>2. /\ recv.at = "idle" /\ recv'.at = "first" /\ recv'.index = 1 /\ recv'.inBlock = 0
      /\ recv'.left = CallTimeout /\ CallTimeout # 0
  BY CallAssumption DEF PcReceive, NoCall
<1>3. Path' = Path
  BY <1>1 DEF Path, Pending, Own
<1>4. /\ RespInStep(Transfer, Expired, Path, toS # <<>>, recv, lens, received, outcome)
      /\ toS # <<>> => toS = <<FC("CTS")>>
  BY RespFacts
<1> DEFINE d == recv'
<1>5. d.at = "first" /\ d.index = 1 /\ d.inBlock = 0 /\ d.left # 0
  BY <1>2
<1> HIDE DEF d
<1>6. RespInStep(Transfer, Expired, Path, toS # <<>>, d, lens, received, outcome)
  BY <1>2, <1>4, <1>5, RespCalled
<1>7. RespInStep(Transfer, Expired, Path, toS # <<>>, recv', lens, received', outcome)
  BY <1>1, <1>6 DEF d
<1> QED BY <1>1, <1>3, <1>4, <1>7, PcStep

LEMMA ReceiveTimeoutResp ==
  ASSUME Shape, RespInv, link = "response", ReceiveTimeout, UNCHANGED <<send, link>>
  PROVE  RespInv'
<1>1. UNCHANGED <<tx, boxS, lens, outcome, toR>> /\ Raises /\ recv.left = 0
  BY DEF ReceiveTimeout
<1>2. Path' = Path
  BY <1>1 DEF Path, Pending, Own
<1>3. ~Open(recv)
  BY <1>1 DEF Open
<1> QED BY <1>1, <1>2, <1>3, RaisesResp

LEMMA GrantAdvertised ==
  ASSUME Advertise, ~(toS # <<>>)
  PROVE  toS' # <<>> => toS' = <<FC("CTS")>>
<1>1. toS = <<>>
  OBVIOUS
<1>2. \A e : Append(<<>>, e) = <<e>>
  OBVIOUS
<1> QED BY <1>1, <1>2 DEF Advertise

\* The first frame a call looks at.
LEMMA ReceiveFirstResp ==
  ASSUME Shape, RespInv, link = "response", ReceiveFirst, UNCHANGED <<send, link>>, BlockSize > 0
  PROVE  RespInv'
<1> DEFINE f == Head(toR)
<1>1. /\ recv.at = "first" /\ toR # <<>> /\ toR' = Tail(toR)
      /\ UNCHANGED <<tx, boxS, lens, outcome>>
  BY DEF ReceiveFirst, TakesFrame
<1>2. Path # <<>> /\ Head(Path) = f /\ Path' = Tail(Path)
  BY <1>1, RespTaken
<1>3. /\ RespInStep(Transfer, Expired, Path, toS # <<>>, recv, lens, received, outcome)
      /\ RespTyped(Transfer, recv, lens, outcome)
      /\ toS # <<>> => toS = <<FC("CTS")>>
      /\ toR \in Seq(Data(link) \cup Fcs) /\ Path \in Seq(Data(link) \cup Fcs)
      /\ received \in Seq(Seq(Chunks)) /\ recv \in ReceiveCalls
  BY RespFacts
<1>4. f \in Data(link) \cup Fcs
  BY <1>1, <1>3, HeadTailProperties
<1> DEFINE v == Transfer
           late == Expired
           q == Path
           g == toS # <<>>
<1>5. /\ RespInStep(v, late, q, g, recv, lens, received, outcome)
      /\ RespTyped(v, recv, lens, outcome)
      /\ q \in Seq(Data(link) \cup Fcs) /\ q # <<>> /\ Head(q) = f /\ Path' = Tail(q)
  BY <1>2, <1>3
<1> HIDE DEF v, late, q, g, f
<1>6. CASE f.type = "SF" /\ Returns(<<f.data>>)
  <2> DEFINE d == recv'
  <2>1. d.at = "idle" /\ received' = Append(received, <<f.data>>) /\ UNCHANGED toS
    BY <1>6 DEF Returns, NoCall
  <2>2. Head(q).data \in Chunks /\ Head(q).type = "SF"
    BY <1>4, <1>5, <1>6, DataFields
  <2> HIDE DEF d
  <2>3. RespInStep(v, late, Tail(q), g, d, lens, Append(received, <<Head(q).data>>), outcome)
    BY <1>1, <1>3, <1>5, <2>1, <2>2, RespSingle
  <2>4. RespInStep(Transfer, Expired, Tail(q), toS # <<>>, recv', lens, received', outcome)
    BY <1>5, <2>1, <2>3 DEF v, late, g, d
  <2> QED BY <1>1, <1>3, <1>5, <2>1, <2>4, PcStep
<1>7. CASE f.type = "FF" /\ Advertise /\ UNCHANGED received
           /\ recv' = [recv EXCEPT !.at = "rest", !.declared = f.len, !.payload = <<f.data>>]
  <2>1. f.data \in Chunks /\ f.len \in Responses
    BY <1>1, <1>4, <1>7, DataFields DEF LensOf
  <2> DEFINE b == <<f.data>>
             n == f.len
  <2>2. b \in Seq(Chunks) /\ n \in Responses
    BY <2>1
  <2>3. recv' = [recv EXCEPT !.at = "rest", !.declared = n, !.payload = b]
    BY <1>7
  <2> HIDE DEF b, n
  <2>4. /\ recv'.at = "rest" /\ recv'.declared = n /\ recv'.payload = b
        /\ recv'.index = recv.index /\ recv'.inBlock = recv.inBlock /\ recv'.left = recv.left
    BY <1>3, <2>2, <2>3 DEF ReceiveCalls
  <2> DEFINE d == recv'
             h == toS' # <<>>
  <2>5. /\ d.at = "rest" /\ d.payload = <<Head(q).data>> /\ d.declared = Head(q).len
        /\ d.index = recv.index /\ d.inBlock = recv.inBlock /\ d.left = recv.left
        /\ h \in BOOLEAN /\ Head(q).type = "FF"
    BY <1>5, <1>7, <2>4 DEF b, n
  <2> HIDE DEF d, h
  <2>6. ~g /\ RespInStep(v, late, Tail(q), h, d, lens, received, outcome)
    BY <1>1, <1>5, <2>5, RespFirstTaken
  <2>7. toS' # <<>> => toS' = <<FC("CTS")>>
    BY <1>7, <2>6, GrantAdvertised DEF g
  <2>8. RespInStep(Transfer, Expired, Tail(q), toS' # <<>>, recv', lens, received', outcome)
    BY <1>5, <1>7, <2>6 DEF v, late, h, d
  <2> QED BY <1>1, <1>5, <2>7, <2>8, PcStep
<1>8. CASE Raises
  <2>1. ~Open(recv)
    BY <1>1 DEF Open
  <2> QED BY <1>1, <1>2, <1>8, <2>1, RaisesResp
<1> QED BY <1>6, <1>7, <1>8 DEF ReceiveFirst, f

\* A call in a message: it skips other frames, and leaves a message at a gap.
LEMMA ReceiveRestResp ==
  ASSUME Shape, RespInv, link = "response", ReceiveRest, UNCHANGED <<send, link>>,
         BlockSize > 0, BlockSize <= SnMod
  PROVE  RespInv'
<1> DEFINE f == Head(toR)
           r == [recv EXCEPT !.payload = Append(@, f.data), !.index = NextIndex(@),
                             !.inBlock = @ + 1]
<1>1. /\ recv.at = "rest" /\ toR # <<>> /\ toR' = Tail(toR)
      /\ UNCHANGED <<tx, boxS, lens, outcome>>
  BY DEF ReceiveRest, TakesFrame
<1>2. Path # <<>> /\ Head(Path) = f /\ Path' = Tail(Path)
  BY <1>1, RespTaken
<1>3. /\ RespInStep(Transfer, Expired, Path, toS # <<>>, recv, lens, received, outcome)
      /\ RespTyped(Transfer, recv, lens, outcome)
      /\ toS # <<>> => toS = <<FC("CTS")>>
      /\ toR \in Seq(Data(link) \cup Fcs) /\ Path \in Seq(Data(link) \cup Fcs)
      /\ received \in Seq(Seq(Chunks)) /\ recv \in ReceiveCalls
  BY RespFacts
<1>4. f \in Data(link) \cup Fcs
  BY <1>1, <1>3, HeadTailProperties
<1>5. ASSUME f.type = "CF"
      PROVE  /\ f.data \in Chunks
             /\ r.at = "rest" /\ r.payload = Append(recv.payload, f.data)
             /\ r.declared = recv.declared /\ r.index = NextIndex(recv.index)
             /\ r.inBlock = recv.inBlock + 1 /\ r.left = recv.left /\ r \in ReceiveCalls
  <2>1. f.data \in Chunks
    BY <1>4, <1>5, DataFields
  <2>2. /\ recv.payload \in Seq(Chunks) /\ recv.index \in Sns /\ recv.inBlock \in Nat
    BY <1>3 DEF ReceiveCalls
  <2>3. PICK p \in Seq(Chunks), i \in Sns, k \in Nat :
          /\ p = Append(recv.payload, f.data) /\ i = NextIndex(recv.index)
          /\ k = recv.inBlock + 1
          /\ r = [recv EXCEPT !.payload = p, !.index = i, !.inBlock = k]
    <3>1. \A S : \A s \in Seq(S), e \in S : Append(s, e) \in Seq(S)
      OBVIOUS
    <3>2. \A i \in Sns : NextIndex(i) \in Sns
      BY IsotpAssumption DEF NextIndex, Sns
    <3>3. Append(recv.payload, f.data) \in Seq(Chunks) /\ NextIndex(recv.index) \in Sns
          /\ recv.inBlock + 1 \in Nat
      BY <2>1, <2>2, <3>1, <3>2
    <3> QED BY <3>3, Zenon
  <2> HIDE DEF r
  <2>4. /\ r.at = recv.at /\ r.payload = p /\ r.declared = recv.declared /\ r.index = i
        /\ r.inBlock = k /\ r.left = recv.left /\ r \in ReceiveCalls
    BY <1>3, <2>3 DEF ReceiveCalls
  <2> QED BY <1>1, <2>1, <2>3, <2>4
<1> DEFINE v == Transfer
           late == Expired
           q == Path
           g == toS # <<>>
<1>6. /\ RespInStep(v, late, q, g, recv, lens, received, outcome)
      /\ RespTyped(v, recv, lens, outcome)
      /\ q \in Seq(Data(link) \cup Fcs) /\ q # <<>> /\ Head(q) = f /\ Path' = Tail(q)
  BY <1>2, <1>3
<1> HIDE DEF v, late, q, g, f, r
<1>7. CASE f.type # "CF" /\ UNCHANGED <<recv, toS, losses, received>>
  <2>1. RespInStep(v, late, Tail(q), g, recv, lens, received, outcome)
    BY <1>6, RespSkipped
  <2>2. RespInStep(Transfer, Expired, Tail(q), toS # <<>>, recv', lens, received', outcome)
    BY <1>6, <1>7, <2>1 DEF v, late, g
  <2> QED BY <1>1, <1>3, <1>6, <1>7, <2>2, PcStep
<1>8. CASE f.type # "CF" /\ recv.left = 0 /\ Raises
  <2>1. ~Open(recv)
    BY <1>8 DEF Open
  <2> QED BY <1>1, <1>2, <1>8, <2>1, RaisesResp
<1>9. CASE f.type = "CF" /\ ~InOrder(f) /\ Raises
  <2>1. Head(Path).type = "CF"
    BY <1>2, <1>9
  <2> QED BY <1>1, <1>2, <1>9, <2>1, RaisesResp
<1>10. CASE f.type = "CF" /\ InOrder(f) /\ Complete(r) /\ Returns(r.payload)
  <2> DEFINE d == recv'
             b == r.payload
  <2>1. d.at = "idle" /\ received' = Append(received, b) /\ UNCHANGED toS
    BY <1>10 DEF Returns, NoCall
  <2>2. /\ Head(q).data \in Chunks /\ Head(q).type = "CF" /\ Head(q).sn = recv.index
        /\ b = Append(recv.payload, Head(q).data) /\ Len(b) >= recv.declared
    BY <1>5, <1>6, <1>10 DEF InOrder, Complete
  <2> HIDE DEF d, b
  <2>3. RespInStep(v, late, Tail(q), g, d, lens, Append(received, b), outcome)
    BY <1>1, <1>3, <1>6, <2>1, <2>2, RespCompleted
  <2>4. RespInStep(Transfer, Expired, Tail(q), toS # <<>>, recv', lens, received', outcome)
    BY <1>6, <2>1, <2>3 DEF v, late, g, d
  <2> QED BY <1>1, <1>3, <1>6, <2>1, <2>4, PcStep
<1>11. ASSUME f.type = "CF", InOrder(f), ~Complete(r)
       PROVE  /\ Head(q).data \in Chunks /\ Head(q).type = "CF" /\ Head(q).sn = recv.index
              /\ r.payload = Append(recv.payload, Head(q).data)
              /\ Len(r.payload) < r.declared
  <2>1. r.payload \in Seq(Chunks) /\ r.declared \in Nat
    <3>1. r.payload \in Seq(Chunks) /\ r.declared \in Responses \cup {0}
      BY <1>5, <1>11 DEF ReceiveCalls
    <3>2. \A n \in Responses \cup {0} : n \in Nat
      BY CallAssumption
    <3> QED BY <3>1, <3>2
  <2>2. Len(r.payload) \in Nat
    BY <2>1
  <2>3. Len(r.payload) < r.declared
    BY <1>11, <2>1, <2>2 DEF Complete
  <2> QED BY <1>5, <1>6, <1>11, <2>3 DEF InOrder
<1>12. CASE f.type = "CF" /\ InOrder(f) /\ ~Complete(r) /\ BlockReceived(r)
            /\ recv' = [r EXCEPT !.inBlock = 0] /\ Advertise /\ UNCHANGED received
  <2> DEFINE d == recv'
             h == toS' # <<>>
  <2>1. /\ d.at = "rest" /\ d.payload = r.payload /\ d.declared = recv.declared
        /\ d.index = NextIndex(recv.index) /\ d.inBlock = 0 /\ d.left = recv.left
    BY <1>5, <1>12 DEF ReceiveCalls
  <2>2. recv.inBlock + 1 >= BlockSize /\ h \in BOOLEAN
    BY <1>5, <1>12 DEF BlockReceived
  <2>3. /\ Head(q).data \in Chunks /\ Head(q).type = "CF" /\ Head(q).sn = recv.index
        /\ r.payload = Append(recv.payload, Head(q).data)
        /\ Len(r.payload) < r.declared /\ r.declared = recv.declared
    BY <1>5, <1>11, <1>12
  <2> HIDE DEF d, h
  <2>4. d.payload = Append(recv.payload, Head(q).data) /\ Len(d.payload) < d.declared
    BY <2>1, <2>3
  <2>5. ~g /\ RespInStep(v, late, Tail(q), h, d, lens, received, outcome)
    BY <1>1, <1>6, <2>1, <2>2, <2>3, <2>4, RespBlockTaken
  <2>6. toS' # <<>> => toS' = <<FC("CTS")>>
    BY <1>12, <2>5, GrantAdvertised DEF g
  <2>7. RespInStep(Transfer, Expired, Tail(q), toS' # <<>>, recv', lens, received', outcome)
    BY <1>6, <1>12, <2>5 DEF v, late, h, d
  <2> QED BY <1>1, <1>6, <2>6, <2>7, PcStep
<1>13. CASE f.type = "CF" /\ InOrder(f) /\ ~Complete(r) /\ ~BlockReceived(r)
            /\ recv' = r /\ UNCHANGED <<toS, losses, received>>
  <2> DEFINE d == recv'
  <2>1. /\ d.at = "rest" /\ d.payload = r.payload /\ d.declared = recv.declared
        /\ d.index = NextIndex(recv.index) /\ d.inBlock = recv.inBlock + 1
        /\ d.left = recv.left
    BY <1>5, <1>13
  <2>2. recv.inBlock + 1 < BlockSize
    <3>1. recv.inBlock \in Nat /\ BlockSize \in Nat
      BY <1>3, IsotpAssumption DEF ReceiveCalls
    <3> QED BY <1>5, <1>13, <3>1 DEF BlockReceived
  <2>3. /\ Head(q).data \in Chunks /\ Head(q).type = "CF" /\ Head(q).sn = recv.index
        /\ r.payload = Append(recv.payload, Head(q).data)
        /\ Len(r.payload) < r.declared /\ r.declared = recv.declared
    BY <1>5, <1>11, <1>13
  <2> HIDE DEF d
  <2>4. /\ d.payload = Append(recv.payload, Head(q).data) /\ Len(d.payload) < d.declared
        /\ d.inBlock < BlockSize
    BY <2>1, <2>2, <2>3
  <2>5. RespInStep(v, late, Tail(q), g, d, lens, received, outcome)
    BY <1>1, <1>6, <2>1, <2>3, <2>4, RespChunkTaken
  <2>6. RespInStep(Transfer, Expired, Tail(q), toS # <<>>, recv', lens, received', outcome)
    BY <1>6, <1>13, <2>5 DEF v, late, g, d
  <2> QED BY <1>1, <1>3, <1>6, <1>13, <2>6, PcStep
<1> QED BY <1>7, <1>8, <1>9, <1>10, <1>12, <1>13 DEF ReceiveRest, f, r

\* Other frames of the node.
LEMMA OtherResponseFramesResp ==
  ASSUME Shape, RespInv, link = "response", OtherResponseFrames, UNCHANGED <<send, link>>
  PROVE  RespInv'
<1>1. UNCHANGED <<tx, toS, lens, outcome, received, recv>>
  BY DEF OtherResponseFrames, app
<1>2. /\ RespInStep(Transfer, Expired, Path, toS # <<>>, recv, lens, received, outcome)
      /\ RespNode /\ (toS # <<>> => toS = <<FC("CTS")>>)
      /\ toR \in Seq(Data(link) \cup Fcs) /\ Path \in Seq(Data(link) \cup Fcs)
      /\ Path = toR \/ (tx.frame \in Data(link) /\ Path = Append(toR, tx.frame))
      /\ boxS \in Seq(OrApp(Data(link)))
  BY RespFacts
<1>3. CASE boxS' = Append(boxS, AppFrame) /\ UNCHANGED toR
  <2>1. AppFrame \in OrApp(Data(link)) /\ AppFrame.type = "app"
    BY DEF OrApp, AppFrame
  <2>2. /\ Len(boxS') = Len(boxS) + 1 /\ Len(boxS) \in Nat /\ boxS'[Len(boxS) + 1] = AppFrame
        /\ \A i \in 1..Len(boxS) : boxS'[i] = boxS[i]
        /\ \A i \in 1..Len(boxS') : i \in 1..Len(boxS) \/ i = Len(boxS) + 1
    BY ONLY <1>2, <1>3, <2>1, AppendIs
  <2>3. Own' = Own /\ \A i \in Own : boxS'[i] = boxS[i]
    BY <2>1, <2>2 DEF Own
  <2>4. Path' = Path
    BY <1>1, <1>3, <2>3 DEF Path, Pending
  <2>5. RespNode'
    BY <1>1, <1>2, <2>3 DEF RespNode
  <2>6. SameSender(Transfer, Transfer') /\ (Expired' => Expired)
    BY <1>1, RespSenderUnmoved
  <2> QED BY <1>1, <1>2, <2>4, <2>5, <2>6, RespAfter
<1>4. CASE toR = <<>> /\ toR' = <<FC("CTS")>> /\ UNCHANGED boxS
  <2> DEFINE q == Path
             p == Path'
  <2>1. Pending' = Pending
    BY <1>1, <1>4 DEF Pending, Own
  <2>2. /\ q \in Seq(Data(link) \cup Fcs) /\ p \in Seq(Data(link) \cup Fcs)
        /\ Len(p) = Len(q) + 1 /\ p[1].type = "FC" /\ \A i \in 1..Len(q) : p[i + 1] = q[i]
    <3>1. FC("CTS") \in Data(link) \cup Fcs /\ FC("CTS").type = "FC"
      BY FcTypes DEF Statuses
    <3>2. CASE ~Pending
      <4>1. q = <<>> /\ p = <<FC("CTS")>>
        BY <1>4, <2>1, <3>2 DEF Path
      <4>2. \A S : \A e \in S : /\ <<e>> \in Seq(S) /\ Len(<<e>>) = 1 /\ <<e>>[1] = e
        OBVIOUS
      <4>3. p \in Seq(Data(link) \cup Fcs) /\ Len(p) = 1 /\ p[1] = FC("CTS")
        BY <3>1, <4>1, <4>2
      <4>4. Len(q) = 0
        BY <4>1
      <4> HIDE DEF q, p
      <4> QED BY <1>2, <3>1, <4>1, <4>3, <4>4
    <3>3. CASE Pending
      <4>1. q = Append(<<>>, tx.frame) /\ p = Append(<<FC("CTS")>>, tx.frame)
        BY <1>1, <1>4, <2>1, <3>3 DEF Path
      <4>2. \A e : Append(<<>>, e) # <<>>
        OBVIOUS
      <4>3. tx.frame \in Data(link) \cup Fcs
        BY <1>2, <1>4, <4>1, <4>2
      <4>4. ASSUME NEW S, NEW e \in S, NEW h \in S, NEW a, NEW b,
                   a = Append(<<>>, e), b = Append(<<h>>, e)
            PROVE  /\ a \in Seq(S) /\ b \in Seq(S) /\ Len(a) = 1 /\ Len(b) = 2
                   /\ a[1] = e /\ b[1] = h /\ b[2] = e
        BY <4>4
      <4> HIDE DEF q, p
      <4>5. /\ q \in Seq(Data(link) \cup Fcs) /\ p \in Seq(Data(link) \cup Fcs)
            /\ Len(q) = 1 /\ Len(p) = 2 /\ q[1] = tx.frame /\ p[1] = FC("CTS") /\ p[2] = tx.frame
        BY <3>1, <4>1, <4>3, <4>4
      <4> QED BY <3>1, <4>5
    <3> QED BY <3>2, <3>3
  <2> DEFINE v == Transfer
             late == Expired
             g == toS # <<>>
  <2>3. RespInStep(v, late, q, g, recv, lens, received, outcome)
    BY <1>2
  <2> HIDE DEF v, late, g, q, p
  <2>4. RespInStep(v, late, p, g, recv, lens, received, outcome)
    BY <2>2, <2>3, RespFcQueued
  <2>5. RespInStep(Transfer, Expired, p, toS # <<>>, recv', lens, received', outcome)
    BY <1>1, <2>4 DEF v, late, g
  <2>6. Path' = p
    BY DEF p
  <2> QED BY <1>1, <1>2, <1>4, <2>5, <2>6, PcStep
<1> QED BY <1>3, <1>4 DEF OtherResponseFrames

\* With prompt main loops a tick finds the link quiet, but for what the PC has not
\* read between two calls.
LEMMA ReceiveTickResp ==
  ASSUME Shape, RespInv, link = "response", ReceiveTick, UNCHANGED <<send, link>>, Prompt
  PROVE  RespInv'
<1>1. ReceiveQuiescent /\ UNCHANGED <<boxS, toR, toS, lens, outcome, received>>
  BY DEF ReceiveTick, bus, app
<1>2. /\ tx' = [tx EXCEPT !.asLeft = Less(@), !.fcLeft = Less(@), !.sinceCf = More(@)]
      /\ recv' = [recv EXCEPT !.left = Less(@)]
  BY DEF ReceiveTick
<1>3. /\ RespInStep(Transfer, Expired, Path, toS # <<>>, recv, lens, received, outcome)
      /\ RespNode /\ (toS # <<>> => toS = <<FC("CTS")>>)
      /\ toR \in Seq(Data(link) \cup Fcs) /\ Path \in Seq(Data(link) \cup Fcs)
      /\ tx \in Senders(link) /\ recv \in ReceiveCalls
  BY RespFacts
<1>4. /\ recv'.at = recv.at /\ recv'.payload = recv.payload /\ recv'.declared = recv.declared
      /\ recv'.index = recv.index /\ recv'.inBlock = recv.inBlock
  BY <1>2, <1>3 DEF ReceiveCalls
<1>5. /\ tx'.ongoing = tx.ongoing /\ tx'.msg = tx.msg /\ tx'.len = tx.len
      /\ tx'.offset = tx.offset /\ tx'.sn = tx.sn /\ tx'.bs = tx.bs
      /\ tx'.inBlock = tx.inBlock /\ tx'.waitFc = tx.waitFc
      /\ tx'.waitEnqueue = tx.waitEnqueue /\ tx'.framePending = tx.framePending
      /\ tx'.frame = tx.frame
  BY <1>2, <1>3 DEF Senders
<1>6. /\ boxS = <<>> /\ ~(toS # <<>>) /\ (recv.at # "idle" => toR = <<>>)
      /\ tx.ongoing => ~tx.waitEnqueue /\ ~tx.framePending
  BY <1>1 DEF ReceiveQuiescent
<1>7. Own = {} /\ ~tx.waitEnqueue /\ Path = toR
  <2>1. Own = {}
    BY <1>6 DEF Own
  <2>2. ~tx.waitEnqueue
    BY <1>3, <1>6 DEF RespNode
  <2> QED BY <2>1, <2>2 DEF Path, Pending
<1>8. Own' = {} /\ Path' = Path
  BY <1>1, <1>5, <1>7 DEF Path, Pending, Own
<1>9. RespNode'
  BY <1>1, <1>3, <1>5, <1>6, <1>7, <1>8 DEF RespNode
<1>10. SameSender(Transfer, Transfer')
  <2>1. BlockFull(tx') <=> BlockFull(tx)
    BY <1>5 DEF BlockFull
  <2>2. Transfer' = Transfer
    BY <1>5, <2>1 DEF Transfer
  <2> QED BY <2>2 DEF SameSender
<1> DEFINE v == Transfer
           late == Expired
           lte == Expired'
           q == Path
           c == recv
           d == recv'
<1>11. /\ RespInStep(v, late, q, toS # <<>>, c, lens, received, outcome)
       /\ q \in Seq(Data(link) \cup Fcs)
       /\ c.at # "idle" => q = <<>>
       /\ d.at = c.at /\ d.payload = c.payload /\ d.declared = c.declared /\ d.index = c.index
       /\ d.inBlock = c.inBlock
  BY <1>3, <1>4, <1>6, <1>7
<1> HIDE DEF v, late, lte, q, c, d
<1>12. RespInStep(v, late, q, FALSE, c, lens, received, outcome)
  BY <1>6, <1>11, RespGrantIs
<1>13. RespInStep(v, lte, q, FALSE, d, lens, received, outcome)
  BY <1>11, <1>12, RespTicked
<1>14. /\ SameSender(v, Transfer') /\ (Expired' => lte) /\ Path' = q /\ recv' = d
       /\ (toS' # <<>>) <=> FALSE
       /\ lens' = lens /\ received' = received /\ outcome' = outcome
  BY <1>1, <1>6, <1>8, <1>10 DEF v, lte, q, d
<1> QED BY <1>9, <1>13, <1>14, RespAfter

\* A frame of the node reaches the PC's queue, or is lost.
LEMMA TransmitSResp ==
  ASSUME Shape, RespInv, link = "response", TransmitsS, UNCHANGED <<send, recv, link>>
  PROVE  RespInv'
<1>1. PICK i \in 1..Len(boxS) : TransmitS(i)
  BY DEF TransmitsS
<1> DEFINE f == boxS[i]
<1>2. /\ boxS' = Remove(boxS, i) /\ UNCHANGED <<tx, toS, lens, outcome, received>>
      /\ \/ f.type = "app" /\ UNCHANGED toR
         \/ f.type # "app" /\ toR' \in {toR, Append(toR, f)}
  BY <1>1 DEF TransmitS, app
<1>3. /\ RespInStep(Transfer, Expired, Path, toS # <<>>, recv, lens, received, outcome)
      /\ RespNode /\ (toS # <<>> => toS = <<FC("CTS")>>)
      /\ toR \in Seq(Data(link) \cup Fcs) /\ boxS \in Seq(OrApp(Data(link)))
  BY RespFacts
<1>4. /\ \A j \in 1..Len(boxS') :
           Was(i, j) \in 1..Len(boxS) \ {i} /\ boxS'[j] = boxS[Was(i, j)]
      /\ \A j, k \in 1..Len(boxS') : Was(i, j) = Was(i, k) => j = k
      /\ \A k \in 1..Len(boxS) \ {i} : \E j \in 1..Len(boxS') : Was(i, j) = k
  <2> DEFINE S == OrApp(Data(link))
  <2>1. boxS \in Seq(S) /\ i \in 1..Len(boxS)
    BY <1>3
  <2> HIDE DEF S
  <2>2. \A j \in 1..Len(Remove(boxS, i)) :
          Was(i, j) \in 1..Len(boxS) \ {i} /\ Remove(boxS, i)[j] = boxS[Was(i, j)]
    BY ONLY <2>1, OthersRemain
  <2>3. \A j, k \in 1..Len(Remove(boxS, i)) : Was(i, j) = Was(i, k) => j = k
    BY ONLY <2>1, OthersRemain
  <2>4. \A k \in 1..Len(boxS) \ {i} : \E j \in 1..Len(Remove(boxS, i)) : Was(i, j) = k
    BY ONLY <2>1, OtherRemains
  <2> QED BY <1>2, <2>2, <2>3, <2>4, Zenon
<1>5. \A j \in Own' : Was(i, j) \in Own \ {i} /\ j \in 1..Len(boxS') /\ boxS'[j] = boxS[Was(i, j)]
  BY <1>4 DEF Own
<1>6. SameSender(Transfer, Transfer') /\ (Expired' => Expired)
  BY <1>2, RespSenderUnmoved
<1>7. ASSUME NEW q, Path' = q, RespNode',
             RespInStep(Transfer, Expired, q, toS # <<>>, recv, lens, received, outcome)
      PROVE  RespInv'
  BY <1>2, <1>3, <1>6, <1>7, RespAfter
<1>8. CASE f.type = "app"
  <2>1. i \notin Own
    BY <1>8 DEF Own
  <2>2. Own # {} => Own' # {}
    <3>1. ASSUME NEW k \in Own
          PROVE  Own' # {}
      <4>1. PICK j \in 1..Len(boxS') : Was(i, j) = k
        BY <1>4, <2>1, <3>1 DEF Own
      <4>2. boxS'[j].type # "app"
        BY <1>4, <3>1, <4>1 DEF Own
      <4> QED BY <4>1, <4>2 DEF Own
    <3> QED BY <3>1
  <2>3. UNCHANGED Pending
    BY <1>2, <1>5, <2>2 DEF Pending
  <2>4. Path' = Path
    BY <1>2, <1>8, <2>3 DEF Path
  <2>5. ASSUME NEW j \in Own', NEW k \in Own'
        PROVE  boxS'[j] = tx.frame /\ k = j
    <3>1. Was(i, j) \in Own /\ Was(i, k) \in Own
      BY <1>5
    <3>2. Was(i, j) = Was(i, k) /\ boxS[Was(i, j)] = tx.frame
      BY <1>3, <3>1 DEF RespNode
    <3> QED BY <1>4, <1>5, <3>2
  <2>6. \A j \in Own' : boxS'[j] = tx.frame /\ Own' = {j} /\ Own # {}
    BY <1>5, <2>5
  <2>7. RespNode'
    <3>1. /\ UNCHANGED <<tx, lens>>
          /\ tx.waitEnqueue => Own' = {}
      BY <1>2, <1>3, <2>6 DEF RespNode
    <3>2. \A j \in Own' : /\ boxS'[j] = tx.frame /\ Own' = {j}
                         /\ tx.ongoing /\ tx.framePending /\ ~tx.waitEnqueue
      BY <1>3, <2>6 DEF RespNode
    <3> QED BY <1>3, <3>1, <3>2 DEF RespNode
  <2> QED BY <1>3, <1>7, <2>4, <2>7
<1>9. CASE f.type # "app"
  <2>1. i \in Own /\ Pending
    BY <1>9 DEF Own, Pending
  <2>2. Own = {i} /\ f = tx.frame /\ ~tx.waitEnqueue /\ tx.ongoing
    BY <1>3, <2>1 DEF RespNode
  <2>3. Own' = {} /\ ~Pending'
    BY <1>2, <1>5, <2>2 DEF Pending
  <2>4. Path = Append(toR, f) /\ Path' = toR'
    BY <2>1, <2>2, <2>3 DEF Path
  <2>5. f \in Data(link) \cup Fcs
    <3>1. f \in OrApp(Data(link))
      BY <1>3
    <3>2. f # AppFrame
      BY <1>9 DEF AppFrame
    <3> QED BY <3>1, <3>2 DEF OrApp
  <2>6. RespNode'
    BY <1>2, <1>3, <2>2, <2>3 DEF RespNode
  <2> DEFINE v == Transfer
             late == Expired
             g == toS # <<>>
  <2>7. RespInStep(v, late, Append(toR, f), g, recv, lens, received, outcome)
    BY <1>3, <2>4
  <2> HIDE DEF v, late, g, f
  <2>8. RespInStep(v, late, toR, g, recv, lens, received, outcome)
    BY <1>3, <2>5, <2>7, RespLost
  <2>9. toR' = toR \/ toR' = Append(toR, f)
    BY <1>2, <1>9 DEF f
  <2>10. RespInStep(v, late, toR', g, recv, lens, received, outcome)
    BY <2>7, <2>8, <2>9
  <2>11. RespInStep(Transfer, Expired, toR', toS # <<>>, recv, lens, received, outcome)
    BY <2>10 DEF v, late, g
  <2> QED BY <1>7, <2>4, <2>6, <2>11
<1> QED BY <1>8, <1>9

\* A node that is in no transfer has no frame to send.
LEMMA IdleResponder ==
  ASSUME RespInv, link = "response", ~tx.ongoing
  PROVE  ~tx.waitEnqueue /\ Own = {} /\ Path = toR
<1>1. RespNode
  BY DEF RespInv
<1>2. ~tx.waitEnqueue /\ Own = {}
  BY <1>1 DEF RespNode
<1> QED BY <1>2 DEF Path, Pending

LEMMA TxStartResp ==
  ASSUME Shape, RespInv, link = "response", NEW n \in LensOf(link), TxStart(n),
         UNCHANGED <<send, recv, link>>, BlockSize > 0
  PROVE  RespInv'
<1> DEFINE m == Len(lens) + 1
           t == [tx EXCEPT !.ongoing = TRUE, !.msg = m, !.len = n, !.offset = 1,
                           !.sn = 1, !.inBlock = 0, !.sentCf = FALSE,
                           !.waitEnqueue = FALSE, !.framePending = FALSE,
                           !.waitFc = FALSE, !.afterBlock = FALSE]
           w == [t EXCEPT !.waitFc = TRUE, !.fcLeft = NBs]
<1>1. m \in Numbers /\ n \in Nat \ {0} /\ m \in 0..MaxMsgs /\ Len(lens) \in Nat
  <2>1. Len(lens) \in Nat /\ Len(lens) < MaxMsgs
    BY DEF TxStart, Shape, AppShape
  <2> QED BY <2>1, LensPositive, IsotpAssumption DEF Numbers
<1>2. /\ t \in Senders(link) /\ t.ongoing /\ t.msg = m /\ t.len = n /\ t.offset = 1 /\ t.sn = 1
      /\ t.inBlock = 0 /\ ~t.waitFc /\ t.bs \in {0, BlockSize}
  BY <1>1, Ranges, ZenonT(30) DEF Shape, TxShape, Senders
<1> HIDE DEF t
<1>3. /\ w \in Senders(link) /\ w.ongoing /\ w.msg = m /\ w.len = n /\ w.offset = 1 /\ w.sn = 1
      /\ w.inBlock = 0 /\ w.waitFc /\ w.fcLeft = NBs /\ w.bs \in {0, BlockSize}
  BY <1>2, Ranges DEF Senders
<1> HIDE DEF m, w
<1>4. \/ n = 1 /\ Schedule(t, SF(m))
      \/ n > 1 /\ Schedule(w, FF(m, n))
  BY DEF TxStart, m, t, w
<1>5. /\ ~tx.ongoing /\ lens' = Append(lens, n) /\ outcome' = Append(outcome, "ongoing")
      /\ UNCHANGED <<toR, toS, received>>
  BY DEF TxStart
<1>6. Path = toR /\ Own = {} /\ ~Transfer.busy
  BY <1>5, IdleResponder DEF Transfer
<1>7. /\ RespInStep(Transfer, Expired, toR, toS # <<>>, recv, lens, received, outcome)
      /\ RespTyped(Transfer, recv, lens, outcome) /\ (toS # <<>> => toS = <<FC("CTS")>>)
      /\ toR \in Seq(Data(link) \cup Fcs) /\ boxS \in Seq(OrApp(Data(link)))
      /\ lens \in Seq(Nat \ {0})
  <2>1. lens \in Seq(Nat \ {0})
    BY DEF Shape, AppShape
  <2> QED BY <1>6, <2>1, RespFacts
<1>8. SF(m) \in Data(link) /\ (n > 1 => FF(m, n) \in Data(link))
  BY <1>1, FrameTypes
<1>9. PICK u \in Senders(link), f \in Data(link) :
        /\ Schedule(u, f) /\ f.data = Chunk(m, 1)
        /\ \/ n = 1 /\ f.type = "SF"
           \/ n > 1 /\ f.type = "FF" /\ f.len = n /\ u.waitFc /\ u.fcLeft = NBs
        /\ u.ongoing /\ u.msg = m /\ u.len = n /\ u.offset = 1 /\ u.sn = 1 /\ u.inBlock = 0
        /\ u.bs \in {0, BlockSize} /\ (u.waitFc => n > 1 /\ u.fcLeft = NBs)
  <2>1. CASE n = 1 /\ Schedule(t, SF(m))
    <3>1. SF(m).data = Chunk(m, 1) /\ SF(m).type = "SF"
      BY DEF SF
    <3> QED BY <1>2, <1>8, <2>1, <3>1
  <2>2. CASE n > 1 /\ Schedule(w, FF(m, n))
    <3>1. FF(m, n).data = Chunk(m, 1) /\ FF(m, n).type = "FF" /\ FF(m, n).len = n
      BY DEF FF
    <3> QED BY <1>3, <1>8, <2>2, <3>1
  <2> QED BY <1>4, <2>1, <2>2
<1>10. /\ Path' = Append(toR, f) /\ SameProgress(u, tx') /\ tx'.asLeft = NAs
       /\ tx'.waitEnqueue => Own' = {}
       /\ \A i \in Own' : /\ boxS'[i] = tx'.frame /\ Own' = {i}
                          /\ tx'.framePending /\ ~tx'.waitEnqueue
  BY <1>5, <1>6, <1>7, <1>9, FrameScheduled
<1>11. /\ tx'.ongoing /\ tx'.msg = m /\ tx'.len = n /\ tx'.offset = 1 /\ tx'.sn = 1
       /\ tx'.inBlock = 0
       /\ tx'.bs \in {0, BlockSize} /\ (tx'.waitFc => n > 1 /\ tx'.fcLeft = NBs)
       /\ (n > 1 => tx'.waitFc)
  BY <1>9, <1>10 DEF SameProgress
<1>12. /\ Transfer'.busy /\ Transfer'.msg = m /\ Transfer'.offset = 1
       /\ Transfer'.inBlock = 0 /\ (n > 1 => Transfer'.waiting)
  <2>1. /\ Transfer'.busy = tx'.ongoing /\ Transfer'.msg = tx'.msg
        /\ Transfer'.offset = tx'.offset /\ Transfer'.inBlock = tx'.inBlock
        /\ tx'.waitFc => Transfer'.waiting
    BY NodeTransferAfter
  <2> QED BY <1>11, <2>1
<1>13. ~Expired'
  <2>1. NBs # 0
    BY IsotpAssumption
  <2> QED BY <1>11, <2>1 DEF Expired
<1> DEFINE v == Transfer
           late == Expired
           g == toS # <<>>
           z == Transfer'
<1>14. /\ f.data = Chunk(Len(lens) + 1, 1)
       /\ z.busy /\ z.msg = Len(lens) + 1 /\ z.offset = 1 /\ z.inBlock = 0
       /\ \/ n = 1 /\ f.type = "SF"
          \/ n > 1 /\ f.type = "FF" /\ f.len = n /\ z.waiting
       /\ ~v.busy /\ RespInStep(v, late, toR, g, recv, lens, received, outcome)
       /\ RespTyped(v, recv, lens, outcome) /\ f \in Data(link) \cup Fcs
  BY <1>6, <1>7, <1>9, <1>12 DEF m
<1> HIDE DEF v, late, g, z
<1>15. RespInStep(z, FALSE, Append(toR, f), g, recv, Append(lens, n), received,
                  Append(outcome, "ongoing"))
  BY <1>1, <1>7, <1>14, RespBegun
<1>16. RespNode'
  <2>1. lens'[m] = n
    BY <1>5, <1>7 DEF m
  <2>2. 1 % SnMod = 1 /\ NAs > 0
    BY IsotpAssumption
  <2>3. n = 1 \/ n > 1
    BY <1>1
  <2>4. 0 < 1
    OBVIOUS
  <2> QED BY <1>10, <1>11, <2>1, <2>2, <2>3, <2>4 DEF RespNode
<1>17. SameSender(z, Transfer') /\ (Expired' => FALSE) /\ ((toS' # <<>>) <=> g)
       /\ (toS' # <<>> => toS' = <<FC("CTS")>>)
  BY <1>5, <1>7, <1>13 DEF SameSender, z, g
<1> DEFINE q == Append(toR, f)
           ls == Append(lens, n)
           oc == Append(outcome, "ongoing")
           no == FALSE
<1>18. /\ Path' = q /\ recv' = recv /\ lens' = ls /\ received' = received /\ outcome' = oc
       /\ RespInStep(z, no, q, g, recv, ls, received, oc) /\ (Expired' => no)
  BY <1>5, <1>10, <1>13, <1>15
<1> HIDE DEF q, ls, oc, no
<1> QED BY <1>16, <1>17, <1>18, RespAfter

\* The node takes flow control: it was waiting for it, or ignores it.
LEMMA TxOnFrameResp ==
  ASSUME Shape, RespInv, link = "response", TxOnFrame, UNCHANGED <<send, recv, link>>,
         BlockSize > 0
  PROVE  RespInv'
<1>1. /\ toS # <<>> /\ toS' = Tail(toS)
      /\ UNCHANGED <<boxS, toR, lens, received>>
  BY DEF TxOnFrame
<1>2. /\ RespInStep(Transfer, Expired, Path, toS # <<>>, recv, lens, received, outcome)
      /\ RespTyped(Transfer, recv, lens, outcome) /\ RespNode
      /\ toS = <<FC("CTS")>> /\ tx \in Senders(link) /\ lens \in Seq(Nat \ {0})
  BY <1>1, RespFacts DEF Shape, AppShape
<1>3. ~(toS' # <<>>) /\ Head(toS).status = "CTS"
  <2>1. \A e : Tail(<<e>>) = <<>> /\ Head(<<e>>) = e
    OBVIOUS
  <2>2. Head(toS) = FC("CTS") /\ Tail(toS) = <<>>
    BY <1>2, <2>1, Zenon
  <2> QED BY <1>1, <2>2 DEF FC
<1>4. /\ Transfer.busy = tx.ongoing /\ Transfer.msg = tx.msg
      /\ Transfer.offset = tx.offset /\ Transfer.inBlock = tx.inBlock
      /\ Transfer.waiting <=> tx.waitFc \/ BlockFull(tx)
  BY NodeTransferAfter
<1> DEFINE v == Transfer
           late == Expired
           q == Path
           yes == TRUE
           no == FALSE
<1>5. /\ RespInStep(v, late, q, yes, recv, lens, received, outcome)
      /\ RespTyped(v, recv, lens, outcome) /\ yes /\ ~no
  <2>1. (toS # <<>>) = TRUE
    BY <1>1
  <2> QED BY <1>2, <2>1
<1>6. CASE ~AcceptsFc /\ UNCHANGED <<tx, outcome>>
  <2>1. SameSender(v, Transfer') /\ (Expired' => late) /\ RespNode'
    BY <1>1, <1>2, <1>6, RespSenderUnmoved, RespNodeUnmoved
  <2>2. Path' = q
    BY <1>1, <1>6 DEF Path, Pending, Own
  <2>3. ~(v.busy /\ v.waiting)
    BY <1>4, <1>6 DEF AcceptsFc
  <2> HIDE DEF v, late, q
  <2>4. RespInStep(v, late, q, FALSE, recv, lens, received, outcome)
    BY <1>5, <2>3, RespGrantIgnored
  <2> HIDE DEF yes, no
  <2>5. RespInStep(v, late, q, no, recv, lens, received, outcome)
    BY <2>4 DEF no
  <2>6. /\ recv' = recv /\ lens' = lens /\ received' = received /\ outcome' = outcome
        /\ (toS' # <<>>) <=> no
    BY <1>1, <1>3, <1>5, <1>6
  <2> QED BY <1>3, <2>1, <2>2, <2>5, <2>6, RespAfter
<1>7. CASE /\ AcceptsFc /\ UNCHANGED outcome
           /\ tx' = [tx EXCEPT !.bs = BlockSize, !.waitFc = FALSE,
                               !.afterBlock = FALSE, !.inBlock = 0, !.fcLeft = NAs]
  <2>1. /\ tx'.bs = BlockSize /\ ~tx'.waitFc /\ tx'.inBlock = 0
        /\ tx'.waitEnqueue = tx.waitEnqueue /\ tx'.frame = tx.frame
        /\ tx'.framePending = tx.framePending /\ tx'.asLeft = tx.asLeft
        /\ tx'.ongoing = tx.ongoing /\ tx'.msg = tx.msg /\ tx'.len = tx.len
        /\ tx'.offset = tx.offset /\ tx'.sn = tx.sn
    BY <1>2, <1>7, Ranges DEF Senders
  <2>2. v.busy /\ v.waiting
    BY <1>4, <1>7 DEF AcceptsFc
  <2>3. tx.offset \in Nat /\ 0 < tx.offset
    <3>1. RespSender(v, lens, outcome)
      BY <1>5 DEF RespInStep
    <3>2. tx.offset \in 1..lens[v.msg] /\ tx.offset \in Nat
      BY <1>2, <1>4, <2>2, <3>1 DEF RespSender, OwnTransfer, Senders
    <3> QED BY ONLY <3>2
  <2>4. Own' = Own /\ Path' = q
    BY <1>1, <2>1 DEF Path, Pending, Own
  <2>5. RespNode'
    BY <1>1, <1>2, <2>1, <2>3, <2>4 DEF RespNode
  <2> DEFINE w == Transfer'
  <2>6. w.busy /\ w.msg = v.msg /\ w.offset = v.offset /\ w.inBlock = 0 /\ ~w.waiting
    <3>1. ~BlockFull(tx')
      BY <2>1, IsotpAssumption DEF BlockFull
    <3> QED BY <1>4, <2>1, <2>2, <3>1, NodeTransferAfter
  <2>7. SameSender(w, Transfer') /\ (Expired' => no)
    BY <2>1 DEF SameSender, Expired
  <2> HIDE DEF v, late, q, w
  <2>8. RespInStep(w, FALSE, q, FALSE, recv, lens, received, outcome)
    BY <1>5, <2>2, <2>6, RespGranted
  <2> HIDE DEF yes, no
  <2>9. RespInStep(w, no, q, no, recv, lens, received, outcome)
    BY <2>8 DEF no
  <2>10. /\ recv' = recv /\ lens' = lens /\ received' = received /\ outcome' = outcome
         /\ (toS' # <<>>) <=> no
    BY <1>1, <1>3, <1>5, <1>7
  <2> QED BY <1>3, <2>4, <2>5, <2>7, <2>9, <2>10, RespAfter
<1> QED BY <1>3, <1>6, <1>7 DEF TxOnFrame

\* Steps of the node's sender that hand over no frame.
LEMMA RespondingStep ==
  ASSUME Shape, RespInv, link = "response",
         UNCHANGED <<toS, send, recv, link, lens, received, outcome>>,
         RespNode', Path' = Path, SameSender(Transfer, Transfer'), Expired' => Expired
  PROVE  RespInv'
<1>1. /\ RespInStep(Transfer, Expired, Path, toS # <<>>, recv, lens, received, outcome)
      /\ toS # <<>> => toS = <<FC("CTS")>>
  BY RespFacts
<1> QED BY <1>1, RespAfter

LEMMA TxPollEnqueueResp ==
  ASSUME Shape, RespInv, link = "response", TxPollEnqueue, UNCHANGED <<send, recv, link>>
  PROVE  RespInv'
<1>1. tx.ongoing /\ tx.waitEnqueue /\ UNCHANGED <<toR, toS, lens, received>>
  BY DEF TxPollEnqueue
<1>2. RespNode
  BY RespFacts
<1>3. /\ Own = {} /\ tx.asLeft > 0
      /\ tx \in Senders(link) /\ boxS \in Seq(OrApp(Data(link))) /\ tx.frame \in Data(link)
  BY <1>1, <1>2 DEF RespNode, Shape, TxShape, BusShape
<1>4. tx.asLeft # 0
  BY <1>3
<1>5. /\ boxS' = Append(boxS, tx.frame) /\ UNCHANGED outcome
      /\ tx' = [tx EXCEPT !.waitEnqueue = FALSE, !.framePending = TRUE, !.asLeft = NAs]
  BY <1>4 DEF TxPollEnqueue
<1>6. /\ SameProgress(tx, tx') /\ tx'.frame = tx.frame /\ tx'.asLeft = NAs
      /\ tx'.framePending /\ ~tx'.waitEnqueue
  BY <1>3, <1>5 DEF Senders, SameProgress
<1>7. Own' = {Len(boxS) + 1} /\ boxS'[Len(boxS) + 1] = tx.frame
  <2>1. tx.frame \in OrApp(Data(link)) /\ tx.frame.type # "app"
    BY <1>3 DEF OrApp, Data
  <2>2. /\ Len(boxS') = Len(boxS) + 1 /\ Len(boxS) \in Nat /\ boxS'[Len(boxS) + 1] = tx.frame
        /\ \A i \in 1..Len(boxS) : boxS'[i] = boxS[i]
        /\ \A i \in 1..Len(boxS') : i \in 1..Len(boxS) \/ i = Len(boxS) + 1
    BY ONLY <1>3, <1>5, <2>1, AppendIs
  <2> QED BY <1>3, <2>1, <2>2 DEF Own
<1>8. Path' = Path
  BY <1>1, <1>6, <1>7 DEF Path, Pending
<1>9. RespNode'
  <2>1. NAs > 0
    BY IsotpAssumption
  <2> QED BY <1>1, <1>2, <1>6, <1>7, <2>1 DEF RespNode, SameProgress
<1>10. SameSender(Transfer, Transfer') /\ (Expired' => Expired)
  <2>1. BlockFull(tx') <=> BlockFull(tx)
    BY <1>6 DEF BlockFull, SameProgress
  <2>2. Transfer' = Transfer
    BY <1>6, <2>1 DEF Transfer, SameProgress
  <2> QED BY <1>6, <2>2 DEF SameSender, Expired, SameProgress
<1> QED BY <1>1, <1>5, <1>8, <1>9, <1>10, RespondingStep

\* A frame is never stuck.
LEMMA ResponderNeverStuck ==
  ASSUME RespInv, link = "response"
  PROVE  ~TxPollStuck
BY DEF RespInv, RespNode, TxPollStuck

\* What a poll finds that is past its frame.
LEMMA ResponderPollFinds ==
  ASSUME Shape, RespInv, link = "response", PollReachesTransfer
  PROVE  /\ tx.ongoing /\ ~tx.waitEnqueue /\ Own = {} /\ Path = toR
         /\ Sent \in Senders(link) /\ SameProgress(tx, Sent) /\ ~Sent.waitEnqueue
         /\ ~Sent.framePending
<1>1. tx \in Senders(link) /\ RespNode
  BY DEF Shape, TxShape, RespInv
<1>2. tx.ongoing /\ ~tx.waitEnqueue /\ (tx.framePending => boxS = <<>>)
  BY DEF PollReachesTransfer
<1>3. Own = {}
  <2>1. boxS = <<>> => Own = {}
    BY DEF Own
  <2> QED BY <1>1, <1>2, <2>1 DEF RespNode
<1>4. /\ Sent \in Senders(link) /\ SameProgress(tx, Sent) /\ ~Sent.waitEnqueue
      /\ ~Sent.framePending
  BY <1>1, <1>2 DEF Sent, Senders, SameProgress
<1> QED BY <1>2, <1>3, <1>4 DEF Path, Pending

\* The node's application is told how a transfer ended.
LEMMA ResponderFinished ==
  ASSUME Shape, RespInv, link = "response", UNCHANGED <<boxS, toR, toS, send, recv, link, lens, received>>,
         NEW verdict, Finish(Sent, verdict), Sent \in Senders(link), SameProgress(tx, Sent),
         ~Sent.waitEnqueue, ~tx.waitEnqueue, Own = {}, tx.ongoing
  PROVE  /\ ~Transfer'.busy /\ Path' = Path /\ RespNode'
         /\ outcome' = [outcome EXCEPT ![Transfer.msg] = verdict]
<1>1. tx' = [Sent EXCEPT !.ongoing = FALSE] /\ outcome' = [outcome EXCEPT ![Sent.msg] = verdict]
  BY DEF Finish
<1>2. ~tx'.ongoing /\ ~tx'.waitEnqueue
  BY <1>1 DEF Senders
<1>3. Own' = {} /\ Path = toR /\ Path' = toR
  BY <1>2 DEF Path, Pending, Own
<1>4. ~Transfer'.busy /\ Transfer.msg = tx.msg
  BY <1>2, NodeTransferAfter
<1>5. Sent.msg = tx.msg
  BY DEF SameProgress
<1>6. RespNode'
  BY <1>2, <1>3 DEF RespNode
<1> QED BY <1>1, <1>3, <1>4, <1>5, <1>6

LEMMA TxPollTransferResp ==
  ASSUME Shape, RespInv, link = "response", TxPollTransfer, UNCHANGED <<send, recv, link>>,
         BlockSize > 0
  PROVE  RespInv'
<1>1. PollReachesTransfer /\ UNCHANGED <<toR, toS, lens, received>>
  BY DEF TxPollTransfer
<1>2. /\ tx.ongoing /\ ~tx.waitEnqueue /\ Own = {} /\ Path = toR
      /\ Sent \in Senders(link) /\ SameProgress(tx, Sent) /\ ~Sent.waitEnqueue
      /\ ~Sent.framePending
  BY <1>1, ResponderPollFinds
<1>3. /\ RespInStep(Transfer, Expired, Path, toS # <<>>, recv, lens, received, outcome)
      /\ RespTyped(Transfer, recv, lens, outcome) /\ RespNode
      /\ toS # <<>> => toS = <<FC("CTS")>>
      /\ Path \in Seq(Data(link) \cup Fcs) /\ tx \in Senders(link) /\ tx.offset <= tx.len
      /\ boxS \in Seq(OrApp(Data(link)))
  BY RespFacts
<1>4. /\ Transfer.busy = tx.ongoing /\ Transfer.msg = tx.msg
      /\ Transfer.offset = tx.offset /\ Transfer.inBlock = tx.inBlock
      /\ Transfer.waiting <=> tx.waitFc \/ BlockFull(tx)
  BY NodeTransferAfter
<1> DEFINE v == Transfer
           w == Transfer'
           late == Expired
           lte == Expired'
           q == Path
           g == toS # <<>>
           oc == outcome'
<1>5. /\ RespInStep(v, late, q, g, recv, lens, received, outcome)
      /\ RespTyped(v, recv, lens, outcome) /\ v.busy
  BY <1>2, <1>3, <1>4
<1>6. ASSUME ~w.busy, Path' = Path, RespNode',
             RespInStep(w, lte, q, g, recv, lens, received, oc)
      PROVE  RespInv'
  <2>1. SameSender(w, Transfer') /\ (Expired' => lte) /\ Path' = q /\ recv' = recv
        /\ lens' = lens /\ received' = received /\ outcome' = oc /\ ((toS' # <<>>) <=> g)
        /\ (toS' # <<>> => toS' = <<FC("CTS")>>)
    BY <1>1, <1>3, <1>6 DEF SameSender
  <2> HIDE DEF v, w, late, lte, q, g, oc
  <2> QED BY <1>6, <2>1, RespAfter
<1>7. CASE tx.waitFc /\ FcTimedOut /\ Finish(Sent, "timeout") /\ UNCHANGED boxS
  <2>1. ~w.busy /\ Path' = Path /\ RespNode' /\ oc = [outcome EXCEPT ![v.msg] = "timeout"]
    BY <1>1, <1>2, <1>7, ResponderFinished
  <2>2. v.waiting /\ late
    BY <1>4, <1>7 DEF Expired, FcTimedOut
  <2> HIDE DEF v, w, late, lte, q, g, oc
  <2>3. RespInStep(w, lte, q, g, recv, lens, received, oc)
    BY <1>5, <2>1, <2>2, RespTimedOut
  <2> QED BY <1>6, <2>1, <2>3
<1>8. CASE /\ ~tx.waitFc /\ ~BlockFull(tx) /\ AllWritten(tx)
           /\ Finish(Sent, "ok") /\ UNCHANGED boxS
  <2>1. ~w.busy /\ Path' = Path /\ RespNode' /\ oc = [outcome EXCEPT ![v.msg] = "ok"]
    BY <1>1, <1>2, <1>8, ResponderFinished
  <2>2. ~v.waiting /\ v.offset = lens[v.msg]
    <3>1. tx.len = lens[tx.msg] /\ tx.offset >= tx.len
      BY <1>2, <1>3, <1>8 DEF RespNode, AllWritten
    <3>2. tx.offset \in Nat /\ tx.len \in Nat
      BY <1>3, LensPositive DEF Senders
    <3>3. tx.offset = tx.len
      BY ONLY <1>3, <3>1, <3>2
    <3> QED BY <1>4, <1>8, <3>1, <3>3
  <2> HIDE DEF v, w, late, lte, q, g, oc
  <2>3. RespInStep(w, lte, q, g, recv, lens, received, oc)
    BY <1>5, <2>1, <2>2, RespFinished
  <2> QED BY <1>6, <2>1, <2>3
<1>9. CASE tx' = Sent /\ UNCHANGED <<boxS, outcome>>
  <2>1. Own' = {} /\ Path' = Path
    BY <1>1, <1>2, <1>9 DEF Path, Pending, Own
  <2>2. RespNode'
    BY <1>1, <1>2, <1>3, <1>9, <2>1 DEF RespNode, SameProgress
  <2>3. SameSender(Transfer, Transfer') /\ (Expired' => Expired)
    <3>1. BlockFull(tx') <=> BlockFull(tx)
      BY <1>2, <1>9 DEF BlockFull, SameProgress
    <3>2. Transfer' = Transfer
      BY <1>2, <1>9, <3>1 DEF Transfer, SameProgress
    <3> QED BY <1>2, <1>9, <3>2 DEF SameSender, Expired, SameProgress
  <2> QED BY <1>1, <1>9, <2>1, <2>2, <2>3, RespondingStep
<1>10. CASE /\ ~tx.waitFc /\ BlockFull(tx) /\ UNCHANGED <<boxS, outcome>>
            /\ tx' = [Sent EXCEPT !.waitFc = TRUE, !.afterBlock = TRUE, !.fcLeft = NCr]
  <2>1. /\ ~tx'.waitEnqueue /\ ~tx'.framePending /\ tx'.waitFc /\ tx'.fcLeft = NCr
        /\ tx'.ongoing = tx.ongoing /\ tx'.msg = tx.msg /\ tx'.len = tx.len
        /\ tx'.offset = tx.offset /\ tx'.sn = tx.sn /\ tx'.inBlock = tx.inBlock
    BY <1>2, <1>10, Ranges DEF Senders, SameProgress
  <2>2. NCr # 0
    BY IsotpAssumption
  <2>3. Own' = {} /\ Path' = Path
    BY <1>1, <1>2, <1>10, <2>1 DEF Path, Pending, Own
  <2>4. tx.len > 1
    <3>1. tx.inBlock < tx.offset /\ tx.bs > 0 /\ tx.inBlock >= tx.bs
      BY <1>2, <1>3, <1>10 DEF RespNode, BlockFull
    <3>2. tx.inBlock \in Nat /\ tx.offset \in Nat /\ tx.len \in Nat /\ tx.bs \in Nat
      BY <1>3, LensPositive, IsotpAssumption, SMTT(20) DEF Senders
    <3> QED BY ONLY <1>3, <3>1, <3>2
  <2>5. RespNode'
    BY <1>1, <1>2, <1>3, <2>1, <2>2, <2>3, <2>4 DEF RespNode
  <2>6. SameSender(Transfer, Transfer') /\ (Expired' => Expired)
    <3>1. /\ Transfer'.busy = tx'.ongoing /\ Transfer'.msg = tx'.msg
          /\ Transfer'.offset = tx'.offset /\ Transfer'.inBlock = tx'.inBlock
          /\ Transfer'.waiting = TRUE /\ Transfer.waiting = TRUE
      BY <1>10, <2>1 DEF Transfer
    <3> QED BY <1>4, <2>1, <2>2, <3>1 DEF SameSender, Expired
  <2> QED BY <1>1, <1>10, <2>3, <2>5, <2>6, RespondingStep
<1>11. CASE /\ ~tx.waitFc /\ ~BlockFull(tx) /\ ~AllWritten(tx) /\ UNCHANGED outcome
            /\ Schedule([Sent EXCEPT !.offset = @ + 1, !.sn = NextSn(@),
                                     !.inBlock = @ + 1, !.sentCf = TRUE, !.sinceCf = 0],
                        CF(tx.sn, tx.msg, tx.offset + 1))
  <2> DEFINE t == [Sent EXCEPT !.offset = @ + 1, !.sn = NextSn(@),
                               !.inBlock = @ + 1, !.sentCf = TRUE, !.sinceCf = 0]
             x == CF(tx.sn, tx.msg, tx.offset + 1)
  <2>1. tx.offset \in Nat /\ tx.inBlock \in Nat /\ tx.sn \in Sns /\ tx.len \in Nat /\ tx.msg \in Numbers
    BY <1>2, <1>3, LensPositive DEF Senders, Shape, TxShape
  <2>2. /\ tx.len = lens[tx.msg] /\ tx.sn = tx.offset % SnMod /\ tx.inBlock < tx.offset
        /\ tx.bs = BlockSize \/ tx.len = 1
    BY <1>2, <1>3, <1>11 DEF RespNode
  <2>3. tx.offset < tx.len
    BY <1>11, <2>1 DEF AllWritten
  <2>4. tx.len > 1 /\ tx.offset + 1 \in Nat /\ tx.inBlock + 1 \in Nat
        /\ tx.inBlock + 1 < tx.offset + 1
    BY ONLY <2>1, <2>2, <2>3
  <2>5. tx.bs = BlockSize
    BY <2>2, <2>4
  <2>6. PICK o \in Nat, s \in Sns, i \in Nat, z \in 0..Stmin :
          /\ o = tx.offset + 1 /\ s = NextSn(tx.sn) /\ i = tx.inBlock + 1 /\ z = 0
          /\ t = [Sent EXCEPT !.offset = o, !.sn = s, !.inBlock = i, !.sentCf = TRUE,
                              !.sinceCf = z]
    <3>1. NextSn(tx.sn) \in Sns /\ 0 \in 0..Stmin
      BY <2>1, NextSnType, Ranges
    <3>2. Sent.offset = tx.offset /\ Sent.sn = tx.sn /\ Sent.inBlock = tx.inBlock
      BY <1>2 DEF SameProgress
    <3> QED BY <2>4, <3>1, <3>2, Zenon
  <2>7. /\ t \in Senders(link) /\ t.ongoing /\ t.msg = tx.msg /\ t.len = tx.len
        /\ t.offset = o /\ t.sn = s /\ t.bs = BlockSize /\ t.inBlock = i /\ ~t.waitFc
    BY <1>2, <1>11, <2>5, <2>6 DEF Senders, SameProgress
  <2>8. /\ x \in Data(link) /\ x.type = "CF" /\ x.data = Chunk(tx.msg, tx.offset + 1)
        /\ x.sn = tx.sn
    <3>1. x \in Data(link)
      BY <2>1, <2>4, FrameTypes
    <3> QED BY <3>1 DEF CF
  <2>9. Schedule(t, x)
    BY <1>11
  <2> HIDE DEF t, x
  <2>10. /\ Path' = Append(toR, x) /\ SameProgress(t, tx') /\ tx'.asLeft = NAs
         /\ tx'.waitEnqueue => Own' = {}
         /\ \A j \in Own' : /\ boxS'[j] = tx'.frame /\ Own' = {j}
                            /\ tx'.framePending /\ ~tx'.waitEnqueue
    BY <1>1, <1>2, <1>3, <2>7, <2>8, <2>9, FrameScheduled
  <2>11. /\ tx'.ongoing /\ tx'.msg = tx.msg /\ tx'.len = tx.len
         /\ tx'.offset = o /\ tx'.sn = s /\ tx'.bs = BlockSize /\ tx'.inBlock = i
         /\ ~tx'.waitFc
    BY <2>7, <2>10 DEF SameProgress
  <2>12. /\ w.busy /\ w.msg = v.msg /\ w.offset = v.offset + 1 /\ w.inBlock = v.inBlock + 1
         /\ ~w.waiting => w.inBlock < BlockSize
    <3>1. /\ Transfer'.busy = tx'.ongoing /\ Transfer'.msg = tx'.msg
          /\ Transfer'.offset = tx'.offset /\ Transfer'.inBlock = tx'.inBlock
          /\ Transfer'.waiting <=> tx'.waitFc \/ BlockFull(tx')
      BY NodeTransferAfter
    <3>2. ~BlockFull(tx') => i < BlockSize
      BY <2>11, IsotpAssumption DEF BlockFull
    <3> QED BY <1>4, <2>6, <2>11, <3>1, <3>2
  <2>13. s = o % SnMod
    <3>1. SnMod \in Nat \ {0}
      BY IsotpAssumption
    <3>2. ((tx.offset % SnMod) + 1) % SnMod = (tx.offset + 1) % SnMod
      BY <2>1, <3>1, NextRemainder
    <3> QED BY <2>2, <2>6, <3>2 DEF NextSn
  <2>14. RespNode'
    <3>1. NAs > 0 /\ i < o
      BY <2>4, <2>6, IsotpAssumption
    <3> QED BY <1>1, <2>2, <2>10, <2>11, <2>13, <3>1 DEF RespNode
  <2> DEFINE no == FALSE
             p == Append(toR, x)
  <2>15. SameSender(w, Transfer') /\ (Expired' => no) /\ Path' = p /\ recv' = recv
         /\ lens' = lens /\ received' = received /\ outcome' = outcome /\ ((toS' # <<>>) <=> g)
         /\ (toS' # <<>> => toS' = <<FC("CTS")>>)
    BY <1>1, <1>3, <1>11, <2>10, <2>11 DEF SameSender, Expired
  <2>16. /\ ~v.waiting /\ v.offset < lens[v.msg]
         /\ x.type = "CF" /\ x.data = Chunk(v.msg, v.offset + 1) /\ x.sn = v.offset % SnMod
         /\ x \in Data(link) \cup Fcs /\ p = Append(q, x) /\ q \in Seq(Data(link) \cup Fcs)
    BY <1>2, <1>3, <1>4, <1>11, <2>2, <2>3, <2>8
  <2> HIDE DEF v, w, late, lte, q, g, oc, p
  <2>17. RespInStep(w, FALSE, Append(q, x), g, recv, lens, received, outcome)
    BY <1>5, <2>12, <2>16, RespChunkSent
  <2>18. RespInStep(w, no, p, g, recv, lens, received, outcome)
    BY <2>16, <2>17
  <2> HIDE DEF no
  <2> QED BY <2>14, <2>15, <2>18, RespAfter
<1> QED BY <1>1, <1>7, <1>8, <1>9, <1>10, <1>11 DEF TxPollTransfer

-------------------------------------------------------------------------------
LEMMA InitResp == LinksInit => RespInv
<1> SUFFICES ASSUME LinksInit, link = "response"
             PROVE  /\ RespInStep(Transfer, Expired, Path, toS # <<>>, recv, lens, received, outcome)
                    /\ toS # <<>> => toS = <<FC("CTS")>>
                    /\ RespNode
  BY DEF RespInv
<1>1. /\ ~tx.ongoing /\ ~tx.waitEnqueue /\ ~tx.waitFc /\ boxS = <<>> /\ toR = <<>> /\ toS = <<>>
      /\ lens = <<>> /\ received = <<>> /\ recv.at = "idle"
  BY DEF LinksInit, Init, NoCall
<1>2. Own = {} /\ Path = <<>> /\ RespNode
  BY <1>1 DEF Own, Path, Pending, RespNode
<1>3. ~Transfer.busy
  BY <1>1 DEF Transfer
<1> DEFINE q == Path
           v == Transfer
           g == toS # <<>>
           late == Expired
<1>4. Len(q) = 0 /\ Len(received) = 0 /\ ~g
  BY <1>1, <1>2
<1>5. ~v.busy /\ recv.at = "idle"
  BY <1>1, <1>3
<1> HIDE DEF q, v, g, late
<1>6. RespSender(v, lens, outcome) /\ RespFrames(v, q, lens) /\ RespCall(recv, lens, outcome)
  BY <1>4, <1>5 DEF RespSender, OwnTransfer, RespFrames, RespCall
<1>7. /\ RespRead(q, recv, lens, received, outcome) /\ RespChunks(v, q, recv, lens, outcome)
      /\ RespCount(v, q) /\ RespBlock(v, recv, lens, outcome) /\ RespEnd(v, late, q, recv)
      /\ RespGrant(v, late, q, g, recv, lens, outcome) /\ RespFirst(v, late, q, g, recv, lens, outcome)
  BY <1>4, <1>5 DEF RespRead, RespChunks, RespCount, RespBlock, RespEnd, RespGrant, RespFirst
<1>8. RespInStep(v, late, q, g, recv, lens, received, outcome)
  BY <1>6, <1>7 DEF RespInStep
<1> QED BY <1>1, <1>2, <1>8 DEF q, v, g, late

LEMMA RespInvKept ==
  ASSUME Shape, RespInv, [LinksNext]_allVars, FastLinks
  PROVE  RespInv'
<1> USE DEF FastLinks
<1>1. CASE UNCHANGED allVars
  <2>1. UNCHANGED <<tx, boxS, toR, toS, lens, outcome, received, send, recv, link>>
    BY <1>1 DEF allVars, vars, bus, app
  <2>2. link # "response" \/ (RespNode' /\ Path' = Path)
    <3>1. link = "response" => RespNode
      BY DEF RespInv
    <3> QED BY <2>1, <3>1, RespNodeUnmoved DEF Path, Pending, Own
  <2>3. SameSender(Transfer, Transfer') /\ (Expired' => Expired)
    BY <2>1, RespSenderUnmoved
  <2>4. link = "response" => RespInv'
    BY <2>1, <2>2, <2>3, RespondingStep
  <2> QED BY <2>1, <2>4 DEF RespInv
<1>2. CASE LinksNext /\ link # "response"
  <2>1. UNCHANGED link
    BY <1>2, LinkSteps
  <2> QED BY <1>2, <2>1 DEF RespInv
<1>3. CASE LinksNext /\ link = "response"
  <2>1. \/ /\ UNCHANGED <<send, recv, link>>
           /\ \/ \E n \in LensOf(link) : TxStart(n)
              \/ TxOnFrame \/ TxPollEnqueue \/ TxPollStuck \/ TxPollTransfer \/ TransmitsS
        \/ /\ UNCHANGED <<send, link>>
           /\ \/ PcReceive \/ ReceiveFirst \/ ReceiveRest \/ ReceiveTimeout
              \/ OtherResponseFrames \/ ReceiveTick
    BY <1>3, LinkSteps
  <2>2. CASE /\ UNCHANGED <<send, recv, link>>
             /\ \/ \E n \in LensOf(link) : TxStart(n)
                \/ TxOnFrame \/ TxPollEnqueue \/ TxPollStuck \/ TxPollTransfer \/ TransmitsS
    BY <1>3, <2>2, TxStartResp, TxOnFrameResp, TxPollEnqueueResp, ResponderNeverStuck,
       TxPollTransferResp, TransmitSResp
  <2>3. CASE /\ UNCHANGED <<send, link>>
             /\ \/ PcReceive \/ ReceiveFirst \/ ReceiveRest \/ ReceiveTimeout
                \/ OtherResponseFrames \/ ReceiveTick
    BY <1>3, <2>3, PcReceiveResp, ReceiveFirstResp, ReceiveRestResp, ReceiveTimeoutResp,
       OtherResponseFramesResp, ReceiveTickResp
  <2> QED BY <2>1, <2>2, <2>3
<1> QED BY <1>1, <1>2, <1>3

-------------------------------------------------------------------------------
\* The reader of WholeUnlessAborted names a message by its first chunk.
LEMMA WholeRead ==
  ASSUME Shape, LinkInv, RespInv
  PROVE  WholeUnlessAborted
<1>1. /\ received \in Seq(Seq(Chunks)) /\ lens \in Seq(Nat \ {0})
  BY DEF Shape, AppShape
<1>2. /\ \A i \in 1..Len(received) :
            /\ received[i] # <<>> /\ NumberRead(received, i) \in 1..Len(lens)
            /\ outcome[NumberRead(received, i)] # "timeout" =>
                 received[i] = Message(NumberRead(received, i), lens[NumberRead(received, i)])
      /\ \A i, j \in 1..Len(received) : i < j => NumberRead(received, i) < NumberRead(received, j)
  <2>1. CASE link = "response"
    BY <2>1 DEF RespInv, RespInStep, RespRead
  <2>2. CASE link # "response"
    <3>1. ReadInOrder(Path, rx, lens, received)
      BY <2>2 DEF LinkInv, Linked, InStep
    <3>2. ASSUME NEW i \in 1..Len(received)
          PROVE  received[i] # <<>>
      <4>1. /\ NumberRead(received, i) \in 1..Len(lens)
            /\ received[i] = Message(NumberRead(received, i), lens[NumberRead(received, i)])
        BY <3>1 DEF ReadInOrder
      <4> DEFINE n == NumberRead(received, i)
      <4>2. lens[n] \in Nat /\ lens[n] > 0 /\ received[i] = Message(n, lens[n])
        BY <1>1, <4>1
      <4> HIDE DEF n
      <4>3. DOMAIN received[i] = 1..lens[n] /\ 1 \in 1..lens[n]
        BY <4>2 DEF Message
      <4>4. received[i] \in Seq(Chunks)
        BY <1>1
      <4>5. DOMAIN received[i] = 1..Len(received[i]) /\ Len(received[i]) \in Nat
        BY <4>4
      <4>6. Len(received[i]) > 0
        <5>1. 1 \in 1..Len(received[i])
          BY <4>3, <4>5
        <5>2. \A k \in Nat : 1 \in 1..k => k > 0
          OBVIOUS
        <5> QED BY <4>5, <5>1, <5>2
      <4> QED BY <4>4, <4>6
    <3> QED BY <3>1, <3>2 DEF ReadInOrder
  <2> QED BY <2>1, <2>2
<1>3. ASSUME NEW i \in 1..Len(received)
      PROVE  NumberAt(i) = NumberRead(received, i)
  <2>1. received[i] \in Seq(Chunks) /\ received[i] # <<>>
    BY <1>1, <1>2
  <2>2. Head(received[i]) = received[i][1]
    BY <2>1
  <2> QED BY <2>2 DEF NumberAt, NumberRead
<1>4. \A i \in 1..Len(received) : NumberRead(received, i) \in Nat
  BY <1>1, <1>2
<1>5. ASSUME NEW i \in 1..Len(received), NEW j \in 1..(i - 1)
      PROVE  NumberRead(received, j) < NumberRead(received, i)
  <2>1. j \in 1..Len(received) /\ j < i
    BY <1>1
  <2> QED BY <1>2, <2>1
<1>6. ASSUME NEW i \in 1..Len(received), NEW j \in 1..(i - 1)
      PROVE  NumberAt(j) < NumberAt(i) /\ NumberAt(j) # NumberAt(i)
  <2>1. j \in 1..Len(received)
    BY <1>1
  <2>2. NumberAt(j) < NumberAt(i)
    BY <1>3, <1>5, <2>1
  <2>3. NumberAt(i) \in Nat /\ NumberAt(j) \in Nat
    BY <1>3, <1>4, <2>1
  <2>4. \A a, b \in Nat : a < b => a # b
    OBVIOUS
  <2> QED BY <2>2, <2>3, <2>4
<1>7. ASSUME NEW i \in 1..Len(received), Timely(i)
      PROVE  received[i] = Message(NumberAt(i), lens[NumberAt(i)])
  BY <1>2, <1>3, <1>7 DEF Timely
<1> QED BY <1>6, <1>7 DEF WholeUnlessAborted

\* A response to the PC that was not given up on is read whole, and no two readings
\* are of one message or in the wrong order, although calls of receive() end in the
\* middle of messages and leave the rest of them, or a grant, to later calls.
THEOREM ResponsesWhole ==
  ASSUME FastLinks
  PROVE  LinksSpec => []WholeUnlessAborted
<1>1. LinksInit => Shape /\ LinkInv /\ RespInv
  BY InitShape, LinkInvInit, InitResp
<1>2. Shape /\ LinkInv /\ RespInv /\ [LinksNext]_allVars => Shape' /\ LinkInv' /\ RespInv'
  BY ShapeKept, LinkInvKept, RespInvKept
<1>3. Shape /\ LinkInv /\ RespInv => WholeUnlessAborted
  BY WholeRead
<1> QED BY <1>1, <1>2, <1>3, PTL DEF LinksSpec

-------------------------------------------------------------------------------
(***************************************************************************)
(* Grants.  The consecutive frames of a transfer that are on their way are *)
(* in order and of one block (OneBlock, RespCount), so their indices have  *)
(* different remainders: there are at most as many as a block has.         *)
(***************************************************************************)
LEMMA FewInBlock ==
  ASSUME NEW T \in Nat \ {0}, NEW S, NEW h \in [S -> Nat],
         \A s, t \in S : h[s] < h[t] + T,
         \A s, t \in S : h[s] = h[t] => s = t
  PROVE  Cardinality(S) <= T
<1> DEFINE g == [s \in S |-> h[s] % T]
<1>1. \A a \in Nat : a % T \in 0..(T - 1)
  OBVIOUS
<1>2. g \in [S -> 0..(T - 1)]
  <2>1. \A s \in S : h[s] % T \in 0..(T - 1)
    BY <1>1
  <2> QED BY <2>1
<1>3. ASSUME NEW s \in S, NEW t \in S, g[s] = g[t]
      PROVE  s = t
  <2>1. h[s] \in Nat /\ h[t] \in Nat /\ h[s] % T = h[t] % T
    BY <1>3
  <2>2. h[s] < h[t] + T /\ h[t] < h[s] + T
    OBVIOUS
  <2>3. CASE h[s] <= h[t]
    BY <2>1, <2>2, <2>3, OneChunkInWindow
  <2>4. CASE h[t] <= h[s]
    BY <2>1, <2>2, <2>4, OneChunkInWindow
  <2>5. h[s] <= h[t] \/ h[t] <= h[s]
    BY <2>1
  <2>6. h[s] = h[t]
    BY <2>1, <2>2, <2>3, <2>4, <2>5, OneChunkInWindow
  <2> QED BY <2>6
<1>4. g \in Injection(S, 0..(T - 1))
  <2>1. DOMAIN g = S
    OBVIOUS
  <2> HIDE DEF g
  <2> QED BY <1>2, <1>3, <2>1 DEF Injection, IsInjective
<1>5. IsFiniteSet(0..(T - 1)) /\ Cardinality(0..(T - 1)) = T
  <2>1. 0 \in Int /\ T - 1 \in Int /\ ~(0 > T - 1) /\ T - 1 - 0 + 1 = T
    OBVIOUS
  <2> QED BY <2>1, FS_Interval
<1> HIDE DEF g
<1> QED BY <1>4, <1>5, FS_Injection

\* The consecutive frames of a message on a path q are in order and of one block.
OrderedBlock(q) ==
  \A i, j \in 1..Len(q) :
    q[i].type = "CF" /\ q[j].type = "CF" /\ MsgOf(q[j]) = MsgOf(q[i]) =>
      /\ i < j => Before(q[i], q[j])
      /\ IndexOf(q[i]) < IndexOf(q[j]) + BlockSize

\* S names some consecutive frames of message n on the path q, each in its place.
InPlace(S, place, q, n) ==
  /\ place \in [S -> 1..Len(q)] /\ Len(q) \in Nat /\ n \in Nat
  /\ \A s \in S : /\ q[place[s]].type = "CF" /\ MsgOf(q[place[s]]) = n
                  /\ IndexOf(q[place[s]]) \in Nat
  /\ \A s, t \in S : place[s] = place[t] => s = t

LEMMA FewOnPath ==
  ASSUME BlockSize \in Nat \ {0}, NEW S, NEW place, NEW q, NEW n,
         InPlace(S, place, q, n), OrderedBlock(q)
  PROVE  Cardinality(S) <= BlockSize
<1> USE DEF InPlace, OrderedBlock
<1> DEFINE h == [s \in S |-> IndexOf(q[place[s]])]
<1>1. h \in [S -> Nat]
  OBVIOUS
<1>2. \A s \in S : h[s] = IndexOf(q[place[s]])
  OBVIOUS
<1> HIDE DEF h
<1>3. \A s, t \in S : h[s] < h[t] + BlockSize
  BY <1>2
<1>4. ASSUME NEW s \in S, NEW t \in S, place[s] < place[t]
      PROVE  h[s] # h[t]
  <2>1. Before(q[place[s]], q[place[t]])
    BY <1>4
  <2>2. MsgOf(q[place[s]]) = n /\ MsgOf(q[place[t]]) = n
    OBVIOUS
  <2>3. IndexOf(q[place[s]]) < IndexOf(q[place[t]])
    BY <2>1, <2>2 DEF Before
  <2>4. \A a, b \in Nat : a < b => a # b
    OBVIOUS
  <2>5. h[s] \in Nat /\ h[t] \in Nat /\ h[s] < h[t]
    BY <1>1, <1>2, <2>3
  <2> QED BY <2>4, <2>5
<1>5. ASSUME NEW s \in S, NEW t \in S, h[s] = h[t]
      PROVE  s = t
  <2>1. place[s] \in Nat /\ place[t] \in Nat
    OBVIOUS
  <2>2. place[s] = place[t] \/ place[s] < place[t] \/ place[t] < place[s]
    BY <2>1
  <2> QED BY <1>4, <1>5, <2>2
<1> QED BY <1>1, <1>3, <1>5, FewInBlock

LEMMA PathOrdered ==
  ASSUME LinkInv, RespInv
  PROVE  /\ OrderedBlock(Path)
         /\ \A i \in 1..Len(Path) : Path[i].type = "CF" => FrameFits(Path[i], lens)
<1>1. CASE link = "response"
  BY <1>1 DEF RespInv, RespInStep, RespFrames, RespCount, OrderedBlock
<1>2. CASE link # "response"
  BY <1>2 DEF LinkInv, Linked, InStep, InOrderOnPath, OneBlock, OrderedBlock
<1> QED BY <1>1, <1>2

LEMMA PathTyped ==
  ASSUME Shape
  PROVE  /\ Len(Path) \in Nat /\ Len(toR) \in Nat /\ Len(boxS) \in Nat
         /\ \A i \in 1..Len(toR) : i \in 1..Len(Path) /\ Path[i] = toR[i]
         /\ link # "request" /\ Pending =>
              Len(toR) + 1 \in 1..Len(Path) /\ Path[Len(toR) + 1] = tx.frame
<1> DEFINE F == Data(link) \cup Fcs \cup {tx.frame}
<1>1. toR \in Seq(Data(link) \cup Fcs) /\ Len(boxS) \in Nat
  BY DEF Shape, BusShape
<1>2. Data(link) \cup Fcs \subseteq F /\ tx.frame \in F
  OBVIOUS
<1> HIDE DEF F
<1>3. toR \in Seq(F)
  BY <1>1, <1>2
<1>4. CASE Path = toR /\ ~(link # "request" /\ Pending)
  BY <1>1, <1>4
<1>5. CASE Path = Append(toR, tx.frame)
  BY <1>1, <1>2, <1>3, <1>5, AppendIs
<1> QED BY <1>4, <1>5 DEF Path

LEMMA RequestGrants ==
  ASSUME Shape, LinkInv, RespInv, BlockSize \in Nat \ {0}, link = "request"
  PROVE  Cardinality(RequestInFlight) <= BlockSize
<1> DEFINE S == RequestInFlight
           place == [i \in S |-> i]
           n == Len(lens)
           q == Path
<1>1. q = toR /\ n \in Nat /\ Len(q) \in Nat
  BY PathTyped DEF Path, Shape, AppShape
<1>2. /\ S \subseteq 1..Len(q)
      /\ \A i \in S : q[i].type = "CF" /\ MsgOf(q[i]) = n
  BY <1>1 DEF RequestInFlight, MsgOf
<1> HIDE DEF S
<1>3. place \in [S -> 1..Len(q)] /\ \A i \in S : place[i] = i
  BY <1>2
<1> HIDE DEF place
<1>4. OrderedBlock(q) /\ \A i \in 1..Len(q) : q[i].type = "CF" => FrameFits(q[i], lens)
  BY PathOrdered
<1> HIDE DEF q, n
<1>5. \A i \in S : IndexOf(q[place[i]]) \in Nat
  BY <1>2, <1>3, <1>4 DEF FrameFits, IndexOf
<1>6. \A i \in S : q[place[i]].type = "CF" /\ MsgOf(q[place[i]]) = n
  BY <1>2, <1>3
<1>7. \A i, j \in S : place[i] = place[j] => i = j
  BY <1>3
<1>8. Cardinality(S) <= BlockSize
  <2>1. InPlace(S, place, q, n)
    BY <1>1, <1>3, <1>5, <1>6, <1>7 DEF InPlace
  <2> QED BY <1>4, <2>1, FewOnPath
<1> QED BY <1>8 DEF S

\* The frame that has not left its mailbox is the last on the path.
LEMMA NodeGrants ==
  ASSUME Shape, LinkInv, RespInv, BlockSize \in Nat \ {0}, link # "request"
  PROVE  Cardinality(CFsInFlight) <= BlockSize
<1> DEFINE S == CFsInFlight
           b == Len(boxS)
           n == Len(toR)
           m == tx.msg
           q == Path
           place == [i \in S |-> IF i <= b THEN n + 1 ELSE i - b]
<1>1. /\ b \in Nat /\ n \in Nat /\ Len(q) \in Nat /\ m \in Nat
      /\ \A i \in 1..n : i \in 1..Len(q) /\ q[i] = toR[i]
  BY PathTyped DEF Shape, TxShape, Senders
<1>2. \A i \in 1..b : boxS[i].type = "CF" => Own = {i} /\ boxS[i] = tx.frame
  <2>1. \A i \in 1..b : boxS[i].type = "CF" => i \in Own
    BY DEF Own
  <2>2. CASE link = "response"
    BY <2>1, <2>2 DEF RespInv, RespNode
  <2>3. CASE link = "nodes"
    BY <2>1, <2>3 DEF LinkInv, NodeSender
  <2> QED BY <2>2, <2>3 DEF Shape
<1>3. \A i \in 1..b : boxS[i].type = "CF" => n + 1 \in 1..Len(q) /\ q[n + 1] = boxS[i]
  BY <1>2, PathTyped DEF Pending
<1>4. \A i, j \in 1..b : boxS[i].type = "CF" /\ boxS[j].type = "CF" => i = j
  BY <1>2
<1>5. ASSUME NEW i \in S
      PROVE  \/ i \in 1..b /\ boxS[i].type = "CF" /\ MsgOf(boxS[i]) = m
             \/ /\ ~(i <= b) /\ i - b \in 1..n /\ i \in Nat
                /\ toR[i - b].type = "CF" /\ MsgOf(toR[i - b]) = m
  <2> DEFINE path == boxS \o toR
  <2>1. boxS \in Seq(OrApp(Data(link))) /\ toR \in Seq(Data(link) \cup Fcs)
    BY DEF Shape, BusShape
  <2>2. /\ Len(path) = b + n
        /\ \A k \in 1..(b + n) : path[k] = IF k <= b THEN boxS[k] ELSE toR[k - b]
    BY <2>1
  <2>3. i \in 1..Len(path) /\ path[i].type = "CF" /\ MsgOf(path[i]) = m
    BY DEF CFsInFlight, MsgOf
  <2> HIDE DEF path, b, n, m, S
  <2>4. i \in 1..(b + n) /\ (i <= b => i \in 1..b) /\ (~(i <= b) => i - b \in 1..n)
    BY <1>1, <2>2, <2>3
  <2> QED BY <2>2, <2>3, <2>4
<1> HIDE DEF S, b, n, m, q
<1>6. \A i \in S : place[i] = IF i <= b THEN n + 1 ELSE i - b
  OBVIOUS
<1>7. \A i \in S : /\ i <= b => i \in 1..b /\ boxS[i].type = "CF" /\ place[i] = n + 1
                   /\ ~(i <= b) => i \in Nat /\ place[i] = i - b /\ place[i] \in 1..n
                   /\ place[i] \in 1..Len(q)
                   /\ q[place[i]].type = "CF" /\ MsgOf(q[place[i]]) = m
  <2>1. \A k \in 1..b : k <= b
    BY <1>1
  <2> HIDE DEF place
  <2>2. ASSUME NEW i \in S, i <= b
        PROVE  /\ i \in 1..b /\ boxS[i].type = "CF" /\ place[i] = n + 1
               /\ place[i] \in 1..Len(q) /\ q[place[i]].type = "CF" /\ MsgOf(q[place[i]]) = m
    BY <1>3, <1>5, <1>6, <2>2
  <2>3. ASSUME NEW i \in S, ~(i <= b)
        PROVE  /\ i \in Nat /\ place[i] = i - b /\ place[i] \in 1..n
               /\ place[i] \in 1..Len(q) /\ q[place[i]].type = "CF" /\ MsgOf(q[place[i]]) = m
    <3>1. i - b \in 1..n /\ i \in Nat /\ toR[i - b].type = "CF" /\ MsgOf(toR[i - b]) = m
      BY <1>5, <2>1, <2>3
    <3>2. place[i] = i - b
      BY <1>6, <2>3
    <3>3. i - b \in 1..Len(q) /\ q[i - b] = toR[i - b]
      BY <1>1, <3>1
    <3> QED BY ONLY <3>1, <3>2, <3>3
  <2> QED BY <2>2, <2>3
<1>8. place \in [S -> 1..Len(q)]
  BY <1>6, <1>7
<1> HIDE DEF place
<1>9. \A i, j \in S : place[i] = place[j] => i = j
  <2>1. ASSUME NEW i \in S, NEW j \in S, place[i] = place[j], i <= b
        PROVE  i = j
    <3>1. n + 1 \notin 1..n
      BY <1>1
    <3>2. j <= b
      BY <1>7, <2>1, <3>1
    <3> QED BY <1>4, <1>7, <2>1, <3>2
  <2>2. ASSUME NEW i \in S, NEW j \in S, place[i] = place[j], ~(i <= b), ~(j <= b)
        PROVE  i = j
    <3>1. i - b = j - b /\ i \in Nat /\ j \in Nat
      BY <1>7, <2>2
    <3> QED BY <1>1, <3>1
  <2> QED BY <2>1, <2>2
<1>10. OrderedBlock(q) /\ \A i \in 1..Len(q) : q[i].type = "CF" => FrameFits(q[i], lens)
  BY PathOrdered DEF q
<1>11. \A i \in S : IndexOf(q[place[i]]) \in Nat
  BY <1>7, <1>10 DEF FrameFits, IndexOf
<1>12. Cardinality(S) <= BlockSize
  <2>1. InPlace(S, place, q, m)
    BY <1>1, <1>7, <1>8, <1>9, <1>11 DEF InPlace
  <2> QED BY <1>10, <2>1, FewOnPath
<1> QED BY <1>12 DEF S

\* No sender ever has more consecutive frames of a message on their way than its
\* receiver granted, although senders keep the block size of the transfer before
\* and flow control left behind by one call is met by the next.
THEOREM GrantsKept ==
  ASSUME FastLinks
  PROVE  LinksSpec => []GrantRespected
<1>1. LinksInit => Shape /\ LinkInv /\ RespInv
  BY InitShape, LinkInvInit, InitResp
<1>2. Shape /\ LinkInv /\ RespInv /\ [LinksNext]_allVars => Shape' /\ LinkInv' /\ RespInv'
  BY ShapeKept, LinkInvKept, RespInvKept
<1>3. ASSUME Shape, LinkInv, RespInv
      PROVE  GrantRespected
  <2>1. BlockSize \in Nat \ {0}
    BY IsotpAssumption DEF FastLinks
  <2>2. link = "request" => Cardinality(RequestInFlight) <= BlockSize
    BY <1>3, <2>1, RequestGrants
  <2>3. link # "request" => Cardinality(CFsInFlight) <= BlockSize
    BY <1>3, <2>1, NodeGrants
  <2> QED BY <2>2, <2>3 DEF GrantRespected, BlockRespected
<1>4. Shape /\ LinkInv /\ RespInv => GrantRespected
  BY <1>3
<1> QED BY <1>1, <1>2, <1>4, PTL DEF LinksSpec

-------------------------------------------------------------------------------
(***************************************************************************)
(* Whether the two ends agree, on a bus that loses nothing, when the       *)
(* receiver is a node.  A message that was reported complete, or of which  *)
(* a block was granted, is owed: what was handed over of it is in the      *)
(* receiver or on the path, and N_Cr does not expire for it.  Agreeing     *)
(* says so of a transfer v, the frames q on its path, whether flow control *)
(* f or a grant g is on its way, a receiver r, the lengths ls of the       *)
(* messages, those read, rd, and what the sender was told of each, oc; the *)
(* sender has been free to go on for s ticks.                              *)
(***************************************************************************)
\* A message that must not be dropped any more: one reported complete, or one of
\* which a block was granted.
Owed(v, ls, oc, m) ==
  /\ ls[m] > 1
  /\ oc[m] = "ok" \/ (v.busy /\ v.msg = m /\ (~v.waiting \/ v.offset > 1))

\* The chunks of it handed over so far, and where they are: the first of them in
\* the receiver, the others on the path; or the whole message read or to be read.
Sofar(v, ls, oc, m) == IF oc[m] = "ok" THEN ls[m] ELSE v.offset

Coming(q, r, m, k) ==
  /\ r.inProgress /\ RxMsg(r) = m
  /\ \A j \in (Len(r.buf) + 1)..k :
       \E i \in 1..Len(q) : q[i].type = "CF" /\ q[i].data = Chunk(m, j)

Got(r, rd, m) ==
  (r.ready /\ RxMsg(r) = m) \/ (\E i \in 1..Len(rd) : NumberRead(rd, i) = m)

Arrives(v, q, r, ls, rd, oc, m) ==
  \/ Coming(q, r, m, Sofar(v, ls, oc, m))
  \/ Sofar(v, ls, oc, m) = ls[m] /\ Got(r, rd, m)

OwedKept(v, q, r, ls, rd, oc) ==
  \A m \in 1..Len(ls) : Owed(v, ls, oc, m) => Arrives(v, q, r, ls, rd, oc, m)

\* A sender that waits again has sent a whole block, and once the receiver has
\* taken it flow control is on its way.
BlockSpent(v) == v.busy /\ v.waiting /\ v.offset > 1 => v.inBlock = BlockSize

Asked(v, q, f, r) ==
  v.busy /\ v.waiting /\ v.offset > 1 /\ q = <<>> /\ r.inProgress /\ RxMsg(r) = v.msg => f

\* N_Cr leaves the sender its pause: the time s since it was free to go on.
CrRuns(v, q, f, r, ls, oc, s) ==
  r.inProgress /\ ~r.fcWait /\ ~r.fcPending =>
    /\ f => r.crLeft = NCr
    /\ q # <<>> /\ Owed(v, ls, oc, RxMsg(r)) => r.crLeft > 0
    /\ q = <<>> /\ v.busy /\ v.msg = RxMsg(r) /\ ~v.waiting => r.crLeft + s >= NCr

\* The two ends, with a grant on its way if g.
Agreeing(v, q, f, r, ls, rd, oc, g, s) ==
  /\ OwedKept(v, q, r, ls, rd, oc) /\ Asked(v, q, f, r) /\ (g => r.inProgress)
  /\ CrRuns(v, q, f, r, ls, oc, s)

Values(v, q, r, ls, s) ==
  /\ q \in Seq(Data(link)) /\ ls \in Seq(Nat \ {0}) /\ v.offset \in Nat
  /\ r.buf \in Seq(Chunks) /\ r.declared \in Nat /\ r.crLeft \in Nat
  /\ s \in 0..Stmin

-------------------------------------------------------------------------------
\* What is owed of the message in progress is on the path.
LEMMA OwedOnPath ==
  ASSUME NEW v, NEW q, NEW f, NEW r, NEW ls, NEW rd, NEW oc, NEW s,
         InStep(v, q, f, r, ls, rd), Values(v, q, r, ls, s), OwedKept(v, q, r, ls, rd, oc),
         r.inProgress, Owed(v, ls, oc, RxMsg(r))
  PROVE  /\ Coming(q, r, RxMsg(r), Sofar(v, ls, oc, RxMsg(r)))
         /\ RxMsg(r) \in 1..Len(ls) /\ Len(r.buf) \in Nat /\ Len(r.buf) < ls[RxMsg(r)]
         /\ oc[RxMsg(r)] # "ok" => v.busy /\ v.msg = RxMsg(r) /\ Len(r.buf) <= v.offset
                                   /\ v.offset <= ls[RxMsg(r)]
         /\ Sofar(v, ls, oc, RxMsg(r)) \in Nat
         /\ Sofar(v, ls, oc, RxMsg(r)) <= ls[RxMsg(r)]
<1>1. /\ RxMsg(r) \in 1..Len(ls) /\ ~r.ready /\ r.declared = ls[RxMsg(r)]
      /\ Len(r.buf) < r.declared
  BY DEF InStep, Assembled
<1>2. \A i \in 1..Len(rd) : NumberRead(rd, i) < RxMsg(r) /\ NumberRead(rd, i) \in 1..Len(ls)
  BY DEF InStep, ReadInOrder
<1>3. Len(r.buf) \in Nat /\ ls[RxMsg(r)] \in Nat /\ Len(ls) \in Nat
  BY <1>1 DEF Values
<1>4. ~Got(r, rd, RxMsg(r))
  <2>1. ASSUME NEW i \in 1..Len(rd), NumberRead(rd, i) = RxMsg(r)
        PROVE  FALSE
    BY <1>1, <1>2, <1>3, <2>1
  <2> QED BY <1>1, <2>1 DEF Got
<1>5. Coming(q, r, RxMsg(r), Sofar(v, ls, oc, RxMsg(r)))
  BY <1>1, <1>4 DEF OwedKept, Arrives
<1>6. oc[RxMsg(r)] # "ok" => v.busy /\ v.msg = RxMsg(r) /\ Len(r.buf) <= v.offset
                             /\ v.offset <= ls[RxMsg(r)]
  <2> SUFFICES ASSUME oc[RxMsg(r)] # "ok"
               PROVE  v.busy /\ v.msg = RxMsg(r) /\ Len(r.buf) <= v.offset
                      /\ v.offset <= ls[RxMsg(r)]
    OBVIOUS
  <2>1. v.busy /\ v.msg = RxMsg(r)
    BY DEF Owed
  <2>2. v.offset \in 1..ls[v.msg]
    BY <2>1 DEF InStep, OwnTransfer
  <2>3. Len(r.buf) <= v.offset
    BY <2>1 DEF InStep, SameBlock
  <2> QED BY <1>3, <2>1, <2>2, <2>3
<1>7. Sofar(v, ls, oc, RxMsg(r)) \in Nat /\ Sofar(v, ls, oc, RxMsg(r)) <= ls[RxMsg(r)]
  BY <1>3, <1>6, SMTT(20) DEF Sofar, Values
<1> QED BY <1>1, <1>3, <1>5, <1>6, <1>7

\* On an empty path the sender has everything before it.
LEMMA NothingOnPath ==
  ASSUME NEW v, NEW f, NEW r, NEW ls, NEW rd, NEW oc, NEW s,
         InStep(v, <<>>, f, r, ls, rd), Values(v, <<>>, r, ls, s), OwedKept(v, <<>>, r, ls, rd, oc),
         r.inProgress, Owed(v, ls, oc, RxMsg(r))
  PROVE  v.busy /\ v.msg = RxMsg(r) /\ Len(r.buf) = v.offset /\ oc[RxMsg(r)] # "ok"
<1> DEFINE k == Sofar(v, ls, oc, RxMsg(r))
<1>1. /\ Coming(<<>>, r, RxMsg(r), k)
      /\ RxMsg(r) \in 1..Len(ls) /\ Len(r.buf) \in Nat /\ Len(r.buf) < ls[RxMsg(r)]
      /\ oc[RxMsg(r)] # "ok" => v.busy /\ v.msg = RxMsg(r) /\ Len(r.buf) <= v.offset
      /\ k \in Nat
  BY OwedOnPath
<1> HIDE DEF k
<1>2. k <= Len(r.buf)
  <2>1. Len(r.buf) + 1 \notin (Len(r.buf) + 1)..k
    BY <1>1 DEF Coming
  <2> QED BY <1>1, <2>1
<1>3. oc[RxMsg(r)] # "ok"
  <2>1. ls[RxMsg(r)] \in Nat
    BY <1>1 DEF Values
  <2> QED BY <1>1, <1>2, <2>1 DEF k, Sofar
<1>4. k = v.offset /\ v.offset \in Nat
  BY <1>3 DEF k, Sofar, Values
<1> QED BY <1>1, <1>2, <1>3, <1>4

\* N_Cr does not expire for a message that is owed.
LEMMA StillRunning ==
  ASSUME NEW v, NEW q, NEW f, NEW r, NEW ls, NEW rd, NEW oc, NEW g, NEW s,
         InStep(v, q, f, r, ls, rd), Values(v, q, r, ls, s), Agreeing(v, q, f, r, ls, rd, oc, g, s),
         r.inProgress, ~r.fcWait, ~r.fcPending, Owed(v, ls, oc, RxMsg(r)), Stmin < NCr
  PROVE  r.crLeft > 0
<1>1. OwedKept(v, q, r, ls, rd, oc) /\ Asked(v, q, f, r) /\ CrRuns(v, q, f, r, ls, oc, s)
  BY DEF Agreeing
<1>2. NCr \in Nat \ {0} /\ Stmin \in Nat /\ s \in 0..Stmin /\ r.crLeft \in Nat
  BY IsotpAssumption DEF Values
<1>3. CASE q # <<>>
  BY <1>1, <1>3 DEF CrRuns
<1>4. CASE q = <<>>
  <2>1. v.busy /\ v.msg = RxMsg(r) /\ oc[RxMsg(r)] # "ok"
    BY <1>1, <1>4, NothingOnPath
  <2>2. CASE v.waiting
    <3>1. v.offset > 1
      BY <2>1, <2>2 DEF Owed
    <3>2. f
      BY <1>1, <1>4, <2>1, <2>2, <3>1 DEF Asked
    <3> QED BY <1>1, <1>2, <3>2 DEF CrRuns
  <2>3. CASE ~v.waiting
    <3>1. r.crLeft + s >= NCr
      BY <1>1, <1>4, <2>1, <2>3 DEF CrRuns
    <3> QED BY <1>2, <3>1
  <2> QED BY <2>2, <2>3
<1> QED BY <1>3, <1>4

\* The consecutive frame at the head of the path is the next one of a message that
\* is owed.
LEMMA HeadIsNext ==
  ASSUME NEW v, NEW q, NEW f, NEW r, NEW ls, NEW rd, NEW oc, NEW s,
         InStep(v, q, f, r, ls, rd), Values(v, q, r, ls, s), OwedKept(v, q, r, ls, rd, oc),
         r.inProgress, Owed(v, ls, oc, RxMsg(r)), q # <<>>, Head(q).type = "CF"
  PROVE  /\ Head(q).data = Chunk(RxMsg(r), Len(r.buf) + 1) /\ Head(q).sn = r.sn
         /\ Len(r.buf) + 1 <= Sofar(v, ls, oc, RxMsg(r))
<1> DEFINE k == Sofar(v, ls, oc, RxMsg(r))
           h == Head(q)
           m == RxMsg(r)
           n == Len(r.buf)
<1>1. /\ Coming(q, r, m, k)
      /\ m \in 1..Len(ls) /\ n \in Nat /\ n < ls[m]
      /\ oc[m] # "ok" => v.busy /\ v.msg = m
      /\ k \in Nat
  BY OwedOnPath
<1>2. 1 \in 1..Len(q) /\ q[1] = h /\ Len(q) \in Nat
  BY DEF Values
<1>3. FrameFits(h, ls)
  BY <1>2 DEF InStep
<1>4. h.data \in (1..Len(ls)) \X Nat /\ IndexOf(h) <= ls[MsgOf(h)] /\ h.sn = (IndexOf(h) - 1) % SnMod
  BY <1>3 DEF FrameFits
<1>5. MsgOf(h) = m /\ n < IndexOf(h) /\ IndexOf(h) \in Nat
  BY <1>2, <1>4 DEF InStep, InWindow, IndexOf
<1>6. IndexOf(h) <= k
  <2>1. CASE oc[m] = "ok"
    BY <1>4, <1>5, <2>1 DEF Sofar
  <2>2. CASE oc[m] # "ok"
    <3>1. IndexOf(h) <= v.offset
      BY <1>1, <1>2, <1>5, <2>2 DEF InStep, HandedOver
    <3> QED BY <2>2, <3>1 DEF Sofar
  <2> QED BY <2>1, <2>2
<1> HIDE DEF k, h, n
<1>7. n + 1 \in (n + 1)..k
  BY <1>1, <1>5, <1>6
<1>8. PICK i \in 1..Len(q) : q[i].type = "CF" /\ q[i].data = Chunk(m, n + 1)
  BY <1>1, <1>7 DEF Coming, n
<1>9. MsgOf(q[i]) = m /\ IndexOf(q[i]) = n + 1
  BY <1>8 DEF MsgOf, IndexOf, Chunk
<1>10. i = 1
  <2> SUFFICES ASSUME i # 1
               PROVE  FALSE
    OBVIOUS
  <2>1. 1 < i
    BY <1>2
  <2>2. Before(h, q[i])
    BY <1>2, <2>1 DEF InStep, InOrderOnPath
  <2>3. m \in Nat
    BY <1>1
  <2> HIDE DEF m
  <2> QED BY <1>1, <1>5, <1>9, <2>2, <2>3 DEF Before
<1>11. h.data = Chunk(m, n + 1) /\ IndexOf(h) = n + 1
  BY <1>2, <1>8, <1>9, <1>10
<1>12. r.sn = n % SnMod
  BY DEF InStep, Assembled, n
<1>13. h.sn = r.sn
  BY <1>1, <1>4, <1>11, <1>12
<1>14. n + 1 <= k
  BY <1>1, <1>7
<1>15. h.data = Chunk(m, n + 1) /\ h.sn = r.sn /\ n + 1 <= k
  BY <1>11, <1>13, <1>14
<1> QED BY <1>15, Zenon DEF h, k, n

\* The rest of the path carries on.
LEMMA RestComing ==
  ASSUME NEW F, NEW q \in Seq(F), NEW r, NEW t, NEW m, NEW k \in Nat, Coming(q, r, m, k), q # <<>>,
         t.inProgress, RxMsg(t) = m, r.buf \in Seq(Chunks), t.buf \in Seq(Chunks),
         Len(t.buf) >= Len(r.buf),
         \A j \in (Len(t.buf) + 1)..k : Head(q).type = "CF" => Head(q).data # Chunk(m, j)
  PROVE  Coming(Tail(q), t, m, k)
<1>1. /\ Len(Tail(q)) = Len(q) - 1 /\ Head(q) = q[1] /\ Len(q) \in Nat
      /\ \A i \in 1..(Len(q) - 1) : Tail(q)[i] = q[i + 1]
  OBVIOUS
<1>2. Len(t.buf) \in Nat /\ Len(r.buf) \in Nat
  OBVIOUS
<1>3. ASSUME NEW j \in (Len(t.buf) + 1)..k
      PROVE  \E i \in 1..Len(Tail(q)) : Tail(q)[i].type = "CF" /\ Tail(q)[i].data = Chunk(m, j)
  <2>1. j \in (Len(r.buf) + 1)..k
    BY <1>2
  <2>2. PICK i \in 1..Len(q) : q[i].type = "CF" /\ q[i].data = Chunk(m, j)
    BY <2>1 DEF Coming
  <2>3. i # 1
    BY <1>1, <2>2
  <2>4. i - 1 \in 1..(Len(q) - 1) /\ (i - 1) + 1 = i
    BY <1>1, <2>3
  <2> QED BY <1>1, <2>2, <2>4
<1> QED BY <1>3 DEF Coming

\* Steps that leave the receiver and the path alone.
LEMMA ArrivesStill ==
  ASSUME NEW v, NEW q, NEW r, NEW t, NEW ls, NEW rd, NEW oc, OwedKept(v, q, r, ls, rd, oc),
         t.inProgress = r.inProgress, t.ready = r.ready, t.buf = r.buf
  PROVE  OwedKept(v, q, t, ls, rd, oc)
<1>1. RxMsg(t) = RxMsg(r)
  BY DEF RxMsg
<1>2. \A m, k : Coming(q, r, m, k) => Coming(q, t, m, k)
  BY <1>1 DEF Coming
<1>3. \A m : Got(r, rd, m) => Got(t, rd, m)
  BY <1>1 DEF Got
<1> QED BY <1>2, <1>3 DEF OwedKept, Arrives

-------------------------------------------------------------------------------
\* The receiver takes a frame.

\* A frame that changes nothing: the path only loses its head.
LEMMA HeadIgnored ==
  ASSUME NEW v, NEW q, NEW f, NEW r, NEW ls, NEW rd, NEW oc, NEW g, NEW s,
         InStep(v, q, f, r, ls, rd), Values(v, q, r, ls, s), Agreeing(v, q, f, r, ls, rd, oc, g, s),
         q # <<>>, \/ Head(q).type = "SF"
                   \/ ~r.inProgress
  PROVE  Agreeing(v, Tail(q), f, r, ls, rd, oc, g, s)
<1>1. OwedKept(v, q, r, ls, rd, oc) /\ Asked(v, q, f, r) /\ CrRuns(v, q, f, r, ls, oc, s)
  BY DEF Agreeing
<1>2. OwedKept(v, Tail(q), r, ls, rd, oc)
  <2> SUFFICES ASSUME NEW m \in 1..Len(ls), Owed(v, ls, oc, m), Coming(q, r, m, Sofar(v, ls, oc, m))
               PROVE  Coming(Tail(q), r, m, Sofar(v, ls, oc, m))
    BY <1>1 DEF OwedKept, Arrives
  <2>1. Sofar(v, ls, oc, m) \in Nat
    BY DEF Values, Sofar
  <2>2. r.inProgress /\ RxMsg(r) = m /\ Head(q).type # "CF"
    BY DEF Coming
  <2>3. q \in Seq(Data(link)) /\ r.buf \in Seq(Chunks) /\ Len(r.buf) \in Nat
    BY DEF Values
  <2> QED BY <2>1, <2>2, <2>3, RestComing
<1>3. r.inProgress /\ v.busy => RxMsg(r) # v.msg
  <2> SUFFICES ASSUME r.inProgress, v.busy, RxMsg(r) = v.msg
               PROVE  FALSE
    OBVIOUS
  <2>1. 1 \in 1..Len(q) /\ q[1] = Head(q)
    BY DEF Values
  <2>2. FrameFits(Head(q), ls) /\ RxMsg(r) < MsgOf(Head(q)) /\ v.msg = Len(ls)
    BY <2>1 DEF InStep, ReadInOrder, OwnTransfer
  <2>3. MsgOf(Head(q)) \in 1..Len(ls) /\ Len(ls) \in Nat
    BY <2>2 DEF FrameFits, MsgOf, Values
  <2> QED BY <2>2, <2>3
<1>4. Asked(v, Tail(q), f, r)
  BY <1>3 DEF Asked
<1>5. CrRuns(v, Tail(q), f, r, ls, oc, s)
  BY <1>1, <1>3 DEF CrRuns
<1> QED BY <1>2, <1>4, <1>5 DEF Agreeing

\* A receiver that is in no message.
LEMMA IdleAgrees ==
  ASSUME NEW v, NEW q, NEW f, NEW t, NEW ls, NEW rd, NEW oc, NEW g, NEW s,
         OwedKept(v, q, t, ls, rd, oc), ~t.inProgress, ~g
  PROVE  Agreeing(v, q, f, t, ls, rd, oc, g, s)
BY DEF Agreeing, Asked, CrRuns

\* A first frame is not behind frames of a message that is owed.
LEMMA FirstAfterAll ==
  ASSUME NEW v, NEW q, NEW f, NEW r, NEW ls, NEW rd, NEW oc, NEW s,
         InStep(v, q, f, r, ls, rd), Values(v, q, r, ls, s), OwedKept(v, q, r, ls, rd, oc),
         q # <<>>, Head(q).type = "FF"
  PROVE  r.inProgress => ~Owed(v, ls, oc, RxMsg(r))
<1> SUFFICES ASSUME r.inProgress, Owed(v, ls, oc, RxMsg(r))
             PROVE  FALSE
  OBVIOUS
<1> DEFINE k == Sofar(v, ls, oc, RxMsg(r))
           n == Len(r.buf)
<1>1. /\ Coming(q, r, RxMsg(r), k) /\ n \in Nat /\ n < ls[RxMsg(r)] /\ k \in Nat
      /\ oc[RxMsg(r)] # "ok" => v.busy /\ v.msg = RxMsg(r)
      /\ RxMsg(r) \in 1..Len(ls)
  BY OwedOnPath
<1>2. 1 \in 1..Len(q) /\ q[1] = Head(q) /\ Len(q) \in Nat
  BY DEF Values
<1>3. Len(q) = 1 /\ v.busy /\ MsgOf(Head(q)) = v.msg /\ v.offset = 1 /\ v.waiting
  BY <1>2 DEF InStep, FirstLast
<1>4. RxMsg(r) # v.msg
  <2>1. RxMsg(r) < MsgOf(Head(q))
    BY <1>2 DEF InStep, ReadInOrder
  <2> QED BY <1>1, <1>3, <2>1
<1>5. k = ls[RxMsg(r)]
  BY <1>1, <1>4 DEF Sofar
<1> HIDE DEF k, n
<1>6. n + 1 \in (n + 1)..k
  BY <1>1, <1>5
<1>7. PICK i \in 1..Len(q) : q[i].type = "CF"
  BY <1>1, <1>6 DEF Coming, n
<1> QED BY <1>2, <1>3, <1>7

\* A message in progress of which nothing is owed may be dropped.
LEMMA DroppedAgrees ==
  ASSUME NEW v, NEW q, NEW p, NEW f, NEW f2, NEW r, NEW t, NEW ls, NEW rd, NEW oc, NEW g, NEW s,
         InStep(v, q, f, r, ls, rd), OwedKept(v, q, r, ls, rd, oc),
         r.inProgress, ~Owed(v, ls, oc, RxMsg(r)), ~t.inProgress, ~g
  PROVE  Agreeing(v, p, f2, t, ls, rd, oc, g, s)
<1>1. ~r.ready
  BY DEF InStep, Assembled
<1>2. OwedKept(v, p, t, ls, rd, oc)
  BY <1>1 DEF OwedKept, Arrives, Coming, Got
<1> QED BY <1>2, IdleAgrees

\* A first frame that begins a message.
LEMMA BegunAgrees ==
  ASSUME NEW v, NEW q, NEW f, NEW f2, NEW r, NEW t, NEW ls, NEW rd, NEW oc, NEW g, NEW s,
         InStep(v, q, f, r, ls, rd), Values(v, q, r, ls, s), OwedKept(v, q, r, ls, rd, oc),
         q # <<>>, Head(q).type = "FF", ~r.inProgress, ~r.ready,
         t.inProgress, RxMsg(t) = MsgOf(Head(q)), t.fcWait \/ t.fcPending
  PROVE  Agreeing(v, Tail(q), f2, t, ls, rd, oc, g, s)
<1>1. 1 \in 1..Len(q) /\ q[1] = Head(q)
  BY DEF Values
<1>2. v.offset = 1
  BY <1>1 DEF InStep, FirstLast
<1>3. OwedKept(v, Tail(q), t, ls, rd, oc)
  BY DEF OwedKept, Arrives, Coming, Got
<1>4. Asked(v, Tail(q), f2, t)
  BY <1>2 DEF Asked
<1>5. CrRuns(v, Tail(q), f2, t, ls, oc, s)
  BY DEF CrRuns
<1> QED BY <1>3, <1>4, <1>5 DEF Agreeing

\* The last chunk of a message.
LEMMA CompletedAgrees ==
  ASSUME NEW v, NEW q, NEW p, NEW f, NEW f2, NEW r, NEW t, NEW ls, NEW rd, NEW oc, NEW g, NEW s,
         InStep(v, q, f, r, ls, rd), Values(v, q, r, ls, s), OwedKept(v, q, r, ls, rd, oc),
         q # <<>>, Head(q).type = "CF", r.inProgress,
         Len(r.buf) + 1 >= r.declared, ~t.inProgress, t.ready, RxMsg(t) = RxMsg(r), ~g
  PROVE  Agreeing(v, p, f2, t, ls, rd, oc, g, s)
<1>1. ~r.ready /\ r.declared = ls[RxMsg(r)]
  BY DEF InStep, Assembled
<1>2. ASSUME NEW m \in 1..Len(ls), Owed(v, ls, oc, m)
      PROVE  Arrives(v, p, t, ls, rd, oc, m)
  <2>1. CASE Coming(q, r, m, Sofar(v, ls, oc, m))
    <3>1. m = RxMsg(r)
      BY <2>1 DEF Coming
    <3>2. /\ Len(r.buf) + 1 <= Sofar(v, ls, oc, m)
          /\ Sofar(v, ls, oc, m) \in Nat /\ Sofar(v, ls, oc, m) <= ls[m]
          /\ Len(r.buf) \in Nat
      BY <1>2, <3>1, HeadIsNext, OwedOnPath
    <3>3. ls[m] \in Nat
      BY DEF Values
    <3>4. Sofar(v, ls, oc, m) = ls[m]
      BY <1>1, <3>1, <3>2, <3>3
    <3> QED BY <3>1, <3>4 DEF Arrives, Got
  <2>2. CASE Sofar(v, ls, oc, m) = ls[m] /\ Got(r, rd, m)
    BY <1>1, <2>2 DEF Arrives, Got
  <2> QED BY <1>2, <2>1, <2>2 DEF OwedKept, Arrives
<1>3. OwedKept(v, p, t, ls, rd, oc)
  BY <1>2 DEF OwedKept
<1> QED BY <1>3, IdleAgrees

\* Any other chunk.
LEMMA ChunkAgrees ==
  ASSUME NEW v, NEW q, NEW f, NEW f2, NEW r, NEW t, NEW ls, NEW rd, NEW oc, NEW g, NEW s,
         InStep(v, q, f, r, ls, rd), Values(v, q, r, ls, s), OwedKept(v, q, r, ls, rd, oc),
         BlockSpent(v), q # <<>>, Head(q).type = "CF", r.inProgress,
         t.inProgress, t.buf = Append(r.buf, Head(q).data), RxMsg(t) = RxMsg(r),
         InStep(v, Tail(q), f2, t, ls, rd), Values(v, Tail(q), t, ls, s),
         \/ f2 /\ (t.fcWait \/ t.fcPending)
         \/ t.inBlock # 0 /\ t.crLeft = NCr
  PROVE  Agreeing(v, Tail(q), f2, t, ls, rd, oc, g, s)
<1>1. ~r.ready /\ Len(r.buf) \in Nat /\ Len(t.buf) = Len(r.buf) + 1
  <2>1. r.buf \in Seq(Chunks) /\ Head(q).data \in Chunks
    <3>1. t.buf \in Seq(Chunks) /\ r.buf \in Seq(Chunks)
      BY DEF Values
    <3>2. 1 \in 1..Len(q) /\ q[1] = Head(q) /\ q \in Seq(Data(link))
      BY DEF Values
    <3> QED BY <3>1, <3>2, DataFields
  <2> QED BY <2>1 DEF InStep, Assembled
<1>2. ASSUME NEW m \in 1..Len(ls), Owed(v, ls, oc, m)
      PROVE  Arrives(v, Tail(q), t, ls, rd, oc, m)
  <2> DEFINE k == Sofar(v, ls, oc, m)
  <2>1. CASE Coming(q, r, m, k)
    <3>1. m = RxMsg(r) /\ RxMsg(t) = m
      BY <2>1 DEF Coming
    <3>2. Head(q).data = Chunk(m, Len(r.buf) + 1) /\ k \in Nat
      BY <1>2, <3>1, HeadIsNext, OwedOnPath
    <3>3. \A j \in (Len(t.buf) + 1)..k : Head(q).data # Chunk(m, j)
      BY <1>1, <3>2 DEF Chunk
    <3>4. q \in Seq(Data(link)) /\ r.buf \in Seq(Chunks) /\ t.buf \in Seq(Chunks)
          /\ Len(t.buf) >= Len(r.buf)
      BY <1>1 DEF Values
    <3> HIDE DEF k
    <3>5. Coming(Tail(q), t, m, k)
      BY <2>1, <3>1, <3>2, <3>3, <3>4, RestComing
    <3> QED BY <3>5 DEF Arrives, k
  <2>2. CASE k = ls[m] /\ Got(r, rd, m)
    BY <1>1, <2>2 DEF Arrives, Got
  <2> QED BY <1>2, <2>1, <2>2 DEF OwedKept, Arrives
<1>3. OwedKept(v, Tail(q), t, ls, rd, oc)
  BY <1>2 DEF OwedKept
<1>4. Asked(v, Tail(q), f2, t)
  <2> SUFFICES ASSUME v.busy, v.waiting, v.offset > 1, Tail(q) = <<>>, RxMsg(t) = v.msg,
                      t.inBlock # 0
               PROVE  FALSE
    BY DEF Asked
  <2>1. v.msg \in 1..Len(ls) /\ v.offset \in 1..ls[v.msg] /\ v.inBlock = BlockSize
    BY DEF InStep, OwnTransfer, BlockSpent
  <2>2. ls[v.msg] \in Nat
    BY <2>1 DEF Values
  <2>3. Owed(v, ls, oc, RxMsg(t))
    BY <2>1, <2>2 DEF Owed
  <2>4. Len(t.buf) = v.offset
    BY <1>3, <2>3, NothingOnPath
  <2>5. Len(t.buf) - t.inBlock = v.offset - v.inBlock
    BY DEF InStep, SameBlock
  <2>6. t.inBlock \in 0..(BlockSize - 1) /\ BlockSize \in Nat /\ v.offset \in Nat
    BY <2>1, IsotpAssumption DEF InStep, Assembled
  <2> QED BY <2>1, <2>4, <2>5, <2>6
<1>5. CrRuns(v, Tail(q), f2, t, ls, oc, s)
  <2>1. NCr \in Nat \ {0} /\ s \in Nat
    BY IsotpAssumption DEF Values
  <2> QED BY <2>1 DEF CrRuns
<1> QED BY <1>3, <1>4, <1>5 DEF Agreeing

-------------------------------------------------------------------------------
\* A grant on its way, like Answered.
Grants(queue) == {i \in 1..Len(queue) : queue[i] = FC("CTS")}
Granting == (rx.fcWait /\ rx.fc = FC("CTS")) \/ Grants(boxR) # {} \/ Grants(toS) # {}

\* How long ago the sender was free to send its next frame.
Slack ==
  IF link = "request" THEN Stmin - send.pause ELSE IF tx.sentCf THEN tx.sinceCf ELSE 0

\* Flow control leaves the node before N_Ar expires.
ArRuns == rx.fcWait \/ (rx.inProgress /\ rx.fcPending) => rx.arLeft > 0

Agreed == Agreeing(Transfer, Path, Answered, rx, lens, received, outcome, Granting, Slack)

AgreeInv ==
  link # "response" => ArRuns /\ BlockSpent(Transfer) /\ (losses = 0 => Agreed)

LEMMA GrantIsAnswer == (Granting => Answered) /\ (Granting' => Answered')
<1>1. FC("CTS").type = "FC"
  BY DEF FC
<1>2. \A q : Grants(q) # {} => FcAt(q) # {}
  BY <1>1 DEF Grants, FcAt
<1>3. Granting => Answered
  BY <1>2 DEF Granting, Answered
<1>4. Granting' => Answered'
  BY <1>2 DEF Granting, Answered
<1> QED BY <1>3, <1>4

LEMMA AgreeFacts ==
  ASSUME Shape, LinkInv, link # "response"
  PROVE  /\ Values(Transfer, Path, rx, lens, Slack)
         /\ InStep(Transfer, Path, Answered, rx, lens, received)
         /\ rx \in Receivers /\ OneAnswer /\ boxR \in Seq(OrApp(Fcs)) /\ toS \in Seq(OrApp(Fcs))
         /\ NAr \in Nat \ {0} /\ NCr \in Nat \ {0} /\ BlockSize \in Nat /\ Stmin \in Nat
         /\ outcome \in Seq(Verdicts) /\ Len(outcome) = Len(lens)
<1>1. /\ rx \in Receivers /\ OneAnswer /\ boxR \in Seq(OrApp(Fcs)) /\ toS \in Seq(OrApp(Fcs))
      /\ outcome \in Seq(Verdicts) /\ Len(outcome) = Len(lens)
  BY DEF Shape, RxShape, BusShape, LinkInv, AppShape
<1>2. NAr \in Nat \ {0} /\ NCr \in Nat \ {0} /\ BlockSize \in Nat /\ Stmin \in Nat
  BY IsotpAssumption
<1>3. rx.crLeft \in Nat
  <2>1. rx.crLeft \in 0..NCr
    BY <1>1 DEF Receivers
  <2> QED BY <1>2, <2>1
<1>4. Slack \in 0..Stmin
  <2>1. tx.sinceCf \in 0..Stmin
    BY DEF Shape, TxShape, Senders
  <2>2. send.pause \in 0..Stmin
    BY DEF Shape, SendShape, SendCalls
  <2>3. Stmin - send.pause \in 0..Stmin
    BY <1>2, <2>2
  <2> QED BY <1>2, <2>1, <2>3 DEF Slack
<1> QED BY <1>1, <1>2, <1>3, <1>4, LinkFacts DEF Values

-------------------------------------------------------------------------------
\* The receiver's steps.

\* It is in no message, and has none to be read.
LEMMA IdleTaken ==
  ASSUME NEW v, NEW q, NEW p, NEW f, NEW r, NEW t, NEW ls, NEW rd, NEW oc, NEW g, NEW s,
         OwedKept(v, q, r, ls, rd, oc), ~r.inProgress, ~r.ready, ~t.inProgress, ~g
  PROVE  Agreeing(v, p, f, t, ls, rd, oc, g, s)
<1>1. OwedKept(v, p, t, ls, rd, oc)
  BY DEF OwedKept, Arrives, Coming, Got
<1> QED BY <1>1, IdleAgrees

\* A step in which it takes a frame.
LEMMA FrameAgrees ==
  ASSUME Shape, LinkInv, AgreeInv, link # "response", NEW type, RxTake(type),
         UNCHANGED <<send, link>>, ArRuns',
         losses = 0 =>
           Agreeing(Transfer, Tail(Path), Answered', rx', lens, received, outcome, Granting', Slack)
  PROVE  AgreeInv'
<1>1. Path' = Tail(Path) /\ Transfer' = Transfer /\ UNCHANGED <<lens, received>>
  BY FrameTaken
<1>2. UNCHANGED <<tx, outcome, losses, send, link>>
  BY DEF RxTake, app, env
<1>3. Slack' = Slack
  BY <1>2 DEF Slack
<1>4. BlockSpent(Transfer)'
  BY <1>1 DEF AgreeInv, BlockSpent
<1>5. losses' = 0 => Agreed'
  BY <1>1, <1>2, <1>3, Zenon DEF Agreed
<1> QED BY <1>4, <1>5 DEF AgreeInv

LEMMA SingleAgrees ==
  ASSUME Shape, LinkInv, AgreeInv, link # "response", RxOnSF, UNCHANGED <<send, link>>
  PROVE  AgreeInv'
<1>1. RxTake("SF") /\ UNCHANGED <<boxR, toS>>
  BY DEF RxOnSF, RxTake
<1>2. /\ Path # <<>> /\ Head(Path).type = "SF"
      /\ Path \in Seq(Data(link))
  BY <1>1, FrameTaken, LinkFacts
<1>3. /\ InStep(Transfer, Path, Answered, rx, lens, received) /\ rx \in Receivers
      /\ Values(Transfer, Path, rx, lens, Slack)
  BY AgreeFacts
<1>4. ~Answered /\ ~Granting
  BY <1>2, <1>3, FrameSkipped, GrantIsAnswer
<1>5. ArRuns /\ (losses = 0 => Agreed)
  BY DEF AgreeInv
<1>6. CASE UNCHANGED rx
  <2>1. UNCHANGED <<Answered, Granting, ArRuns>>
    BY <1>1, <1>6 DEF Answered, Granting, FcAt, Grants, ArRuns
  <2>2. losses = 0 =>
          Agreeing(Transfer, Tail(Path), Answered, rx, lens, received, outcome, Granting, Slack)
    BY <1>2, <1>3, <1>5, HeadIgnored DEF Agreed
  <2>3. losses = 0 =>
          Agreeing(Transfer, Tail(Path), Answered', rx', lens, received, outcome, Granting', Slack)
    BY <1>6, <2>1, <2>2, Zenon
  <2> QED BY <1>1, <1>5, <2>1, <2>3, FrameAgrees
<1>7. CASE ~RxBusy /\ rx' = [rx EXCEPT !.ready = TRUE, !.buf = <<Head(toR).data>>]
  <2>1. /\ ~rx.inProgress /\ ~rx.ready /\ ~rx'.inProgress /\ rx'.fcWait = rx.fcWait
        /\ rx'.fc = rx.fc /\ rx'.arLeft = rx.arLeft
    BY <1>3, <1>7 DEF RxBusy, Receivers
  <2>2. UNCHANGED <<Answered, Granting>> /\ ArRuns'
    BY <1>1, <1>5, <2>1 DEF Answered, Granting, FcAt, Grants, ArRuns
  <2>3. losses = 0 =>
          Agreeing(Transfer, Tail(Path), Answered', rx', lens, received, outcome, Granting', Slack)
    BY <1>4, <1>5, <2>1, <2>2, IdleTaken DEF Agreed, Agreeing
  <2> QED BY <1>1, <2>2, <2>3, FrameAgrees
<1> QED BY <1>6, <1>7 DEF RxOnSF

\* Flow control that is sent, or waits for a mailbox.
LEMMA FcQueued ==
  ASSUME ~Answered, boxR \in Seq(OrApp(Fcs)), NEW t \in Receivers,
         NEW status \in {"CTS", "OVERFLOW"}, SendFc(t, status), UNCHANGED toS
  PROVE  /\ Answered' /\ (rx'.fcWait \/ rx'.fcPending) /\ ArRuns'
         /\ rx'.inProgress = t.inProgress /\ rx'.ready = t.ready /\ rx'.buf = t.buf
         /\ status = "OVERFLOW" => ~Granting'
<1>1. FC(status).type = "FC" /\ FC("OVERFLOW") # FC("CTS") /\ NAr \in Nat \ {0}
  BY IsotpAssumption DEF FC
<1>2. FcAt(boxR) = {} /\ FcAt(toS) = {} /\ ~rx.fcWait
  BY DEF Answered
<1>3. Grants(boxR) = {} /\ Grants(toS) = {}
  BY <1>2, GrantIsAnswer DEF Granting, Answered
<1>4. CASE Len(boxR) < Mailboxes
  <2>1. boxR' = Append(boxR, FC(status))
        /\ rx' = [t EXCEPT !.fc = FC(status), !.fcWait = FALSE, !.fcPending = TRUE, !.arLeft = NAr]
    BY <1>4 DEF SendFc
  <2>2. /\ ~rx'.fcWait /\ rx'.fcPending /\ rx'.arLeft = NAr /\ rx'.inProgress = t.inProgress
        /\ rx'.ready = t.ready /\ rx'.buf = t.buf
    BY <2>1 DEF Receivers
  <2>3. /\ Len(boxR') = Len(boxR) + 1 /\ Len(boxR) \in Nat /\ boxR'[Len(boxR) + 1] = FC(status)
        /\ \A i \in 1..Len(boxR) : boxR'[i] = boxR[i]
        /\ \A i \in 1..Len(boxR') : i \in 1..Len(boxR) \/ i = Len(boxR) + 1
        /\ Len(boxR) + 1 \in 1..Len(boxR')
    BY <2>1
  <2>4. Len(boxR) + 1 \in FcAt(boxR')
    BY <1>1, <2>3 DEF FcAt
  <2>5. status = "OVERFLOW" => Grants(boxR') = {}
    BY <1>1, <1>3, <2>3 DEF Grants
  <2> QED BY <1>1, <1>3, <2>2, <2>4, <2>5 DEF Answered, Granting, ArRuns
<1>5. CASE ~(Len(boxR) < Mailboxes)
  <2>1. boxR' = boxR /\ rx' = [t EXCEPT !.fc = FC(status), !.fcWait = TRUE, !.arLeft = NAr]
    BY <1>5 DEF SendFc
  <2>2. /\ rx'.fcWait /\ rx'.fc = FC(status) /\ rx'.arLeft = NAr /\ rx'.inProgress = t.inProgress
        /\ rx'.ready = t.ready /\ rx'.buf = t.buf
    BY <2>1 DEF Receivers
  <2> QED BY <1>1, <1>3, <2>1, <2>2 DEF Answered, Granting, ArRuns
<1> QED BY <1>4, <1>5

\* The receiver resets itself, with no flow control on its way.
LEMMA ResetSilent ==
  ASSUME ~Answered, rx \in Receivers, rx' = ResetRx(rx), UNCHANGED <<boxR, toS>>
  PROVE  ~rx'.inProgress /\ ~Granting' /\ ArRuns'
<1>1. ~rx'.inProgress /\ ~rx'.fcWait
  BY ResetTransfer
<1>2. Grants(boxR) = {} /\ Grants(toS) = {}
  BY GrantIsAnswer DEF Granting, Answered
<1> QED BY <1>1, <1>2 DEF Granting, ArRuns

LEMMA FirstAgrees ==
  ASSUME Shape, LinkInv, AgreeInv, link # "response", RxOnFF, UNCHANGED <<send, link>>
  PROVE  AgreeInv'
<1>1. RxTake("FF") /\ UNCHANGED toS
  BY DEF RxOnFF, RxTake
<1>2. /\ Path # <<>> /\ Head(Path).type = "FF" /\ Head(Path) = Head(toR)
      /\ Path \in Seq(Data(link)) /\ Head(Path) \in Data(link)
  BY <1>1, FrameTaken, LinkFacts
<1>3. /\ InStep(Transfer, Path, Answered, rx, lens, received) /\ rx \in Receivers
      /\ Values(Transfer, Path, rx, lens, Slack) /\ boxR \in Seq(OrApp(Fcs))
  BY AgreeFacts
<1>4. ~Answered /\ ~Granting
  BY <1>2, <1>3, FrameSkipped, GrantIsAnswer
<1>5. ArRuns /\ (losses = 0 => Agreed) /\ (losses = 0 => OwedKept(Transfer, Path, rx, lens, received, outcome))
  BY DEF AgreeInv, Agreed, Agreeing
<1>6. CASE rx.inProgress /\ rx' = ResetRx(rx) /\ UNCHANGED boxR
  <2>1. ~rx'.inProgress /\ ~Granting' /\ ArRuns'
    BY <1>1, <1>3, <1>4, <1>6, ResetSilent
  <2>2. losses = 0 =>
          Agreeing(Transfer, Tail(Path), Answered', rx', lens, received, outcome, Granting', Slack)
    BY <1>2, <1>3, <1>5, <1>6, <2>1, FirstAfterAll, DroppedAgrees
  <2> QED BY <1>1, <2>1, <2>2, FrameAgrees
<1>7. CASE ~rx.inProgress /\ UNCHANGED <<rx, boxR>>
  <2>1. UNCHANGED <<Answered, Granting, ArRuns>>
    BY <1>1, <1>7 DEF Answered, Granting, FcAt, Grants, ArRuns
  <2>2. losses = 0 =>
          Agreeing(Transfer, Tail(Path), Answered, rx, lens, received, outcome, Granting, Slack)
    BY <1>2, <1>3, <1>5, <1>7, HeadIgnored DEF Agreed
  <2>3. losses = 0 =>
          Agreeing(Transfer, Tail(Path), Answered', rx', lens, received, outcome, Granting', Slack)
    BY <1>7, <2>1, <2>2, Zenon
  <2> QED BY <1>1, <1>5, <2>1, <2>3, FrameAgrees
<1>8. CASE ~RxBusy /\ SendFc(rx, "OVERFLOW")
  <2>1. ~Granting' /\ ArRuns' /\ ~rx'.inProgress /\ ~rx.inProgress /\ ~rx.ready
    BY <1>1, <1>3, <1>4, <1>8, FcQueued DEF RxBusy
  <2>2. losses = 0 =>
          Agreeing(Transfer, Tail(Path), Answered', rx', lens, received, outcome, Granting', Slack)
    BY <1>5, <2>1, IdleTaken
  <2> QED BY <1>1, <2>1, <2>2, FrameAgrees
<1> DEFINE f == Head(toR)
           r == [rx EXCEPT !.inProgress = TRUE, !.declared = f.len, !.buf = <<f.data>>,
                           !.sn = 1, !.inBlock = 0]
<1>9. CASE ~RxBusy /\ f.len <= Capacity /\ SendFc(r, "CTS")
  <2>1. f.data \in Chunks /\ f.len \in Nat
    BY <1>2, DataFields, LensPositive
  <2>2. f.len \in 0..Capacity /\ <<f.data>> \in Seq(Chunks)
    BY <1>9, <2>1, IsotpAssumption
  <2>3. PICK n \in 0..Capacity, b \in Seq(Chunks) :
          /\ n = f.len /\ b = <<f.data>>
          /\ r = [rx EXCEPT !.inProgress = TRUE, !.declared = n, !.buf = b, !.sn = 1,
                            !.inBlock = 0]
    BY <2>2, Zenon
  <2> HIDE DEF r
  <2>4. r \in Receivers /\ r.inProgress /\ r.buf = b
    BY <1>3, <2>3, Ranges DEF Receivers
  <2>5. ArRuns' /\ (rx'.fcWait \/ rx'.fcPending) /\ rx'.inProgress /\ rx'.buf = b
    BY <1>1, <1>3, <1>4, <1>9, <2>4, FcQueued
  <2>6. ~rx.inProgress /\ ~rx.ready /\ RxMsg(rx') = MsgOf(Head(Path))
    BY <1>2, <1>9, <2>3, <2>5 DEF RxBusy, RxMsg, MsgOf
  <2>7. losses = 0 =>
          Agreeing(Transfer, Tail(Path), Answered', rx', lens, received, outcome, Granting', Slack)
    BY <1>2, <1>3, <1>5, <2>5, <2>6, BegunAgrees
  <2> QED BY <1>1, <2>5, <2>7, FrameAgrees
<1> QED BY <1>6, <1>7, <1>8, <1>9 DEF RxOnFF

LEMMA ConsecutiveAgrees ==
  ASSUME Shape, LinkInv, AgreeInv, Shape', LinkInv', link # "response", RxOnCF,
         UNCHANGED <<send, link>>
  PROVE  AgreeInv'
<1>1. RxTake("CF") /\ UNCHANGED toS
  BY DEF RxOnCF, RxTake
<1>2. /\ Path # <<>> /\ Head(Path).type = "CF" /\ Head(Path) = Head(toR)
      /\ Path \in Seq(Data(link)) /\ Head(Path) \in Data(link)
      /\ Path' = Tail(Path) /\ Transfer' = Transfer /\ UNCHANGED <<lens, received>>
  BY <1>1, FrameTaken, LinkFacts
<1>3. /\ InStep(Transfer, Path, Answered, rx, lens, received) /\ rx \in Receivers
      /\ Values(Transfer, Path, rx, lens, Slack) /\ boxR \in Seq(OrApp(Fcs))
      /\ NCr \in Nat \ {0} /\ rx.buf \in Seq(Chunks) /\ rx.inBlock \in Nat
  BY AgreeFacts, LinkFacts
<1>4. ~Answered /\ ~Granting
  BY <1>2, <1>3, FrameSkipped, GrantIsAnswer
<1>5. ArRuns /\ BlockSpent(Transfer)
      /\ (losses = 0 => Agreed) /\ (losses = 0 => OwedKept(Transfer, Path, rx, lens, received, outcome))
  BY DEF AgreeInv, Agreed, Agreeing
<1>6. /\ InStep(Transfer, Tail(Path), Answered', rx', lens, received) /\ rx' \in Receivers
  BY <1>2 DEF LinkInv, Linked, Shape, RxShape
<1>7. Values(Transfer, Tail(Path), rx', lens, Slack)
  <2>1. Tail(Path) \in Seq(Data(link))
    BY <1>2
  <2>2. rx'.buf \in Seq(Chunks) /\ rx'.declared \in 0..Capacity /\ rx'.crLeft \in 0..NCr
    BY <1>6 DEF Receivers
  <2>3. rx'.declared \in Nat /\ rx'.crLeft \in Nat
    BY <1>3, <2>2, IsotpAssumption
  <2> QED BY <1>3, <2>1, <2>2, <2>3 DEF Values
<1> DEFINE f == Head(toR)
           r == [rx EXCEPT !.buf = Append(@, f.data), !.sn = NextSn(@),
                           !.inBlock = @ + 1, !.crLeft = NCr]
           whole == [r EXCEPT !.inProgress = FALSE, !.ready = TRUE]
           block == [r EXCEPT !.inBlock = 0]
           complete == Len(r.buf) >= rx.declared
           blockEnd == BlockSize > 0 /\ r.inBlock >= BlockSize
<1>8. f.data \in Chunks /\ f.sn \in Sns /\ f.data = Head(Path).data /\ f.sn = Head(Path).sn
  BY <1>2, DataFields
<1>9. PICK b \in Seq(Chunks), s \in Sns, i \in Nat, c \in 0..NCr :
        /\ b = Append(rx.buf, f.data) /\ s = NextSn(rx.sn) /\ i = rx.inBlock + 1 /\ c = NCr
        /\ r = [rx EXCEPT !.buf = b, !.sn = s, !.inBlock = i, !.crLeft = c]
  <2>1. Append(rx.buf, f.data) \in Seq(Chunks) /\ rx.inBlock + 1 \in Nat
    BY <1>3, <1>8
  <2>2. NextSn(rx.sn) \in Sns
    BY <1>3, NextSnType DEF Receivers
  <2> QED BY <2>1, <2>2, Ranges, Zenon
<1>10. /\ r \in Receivers /\ r.buf = b /\ r.inBlock = i /\ r.crLeft = c
       /\ r.declared = rx.declared /\ r.inProgress = rx.inProgress /\ r.ready = rx.ready
       /\ r.fcWait = rx.fcWait /\ r.fc = rx.fc /\ r.fcPending = rx.fcPending /\ r.arLeft = rx.arLeft
  BY <1>3, <1>9 DEF Receivers
<1>11. i # 0 /\ Len(b) = Len(rx.buf) + 1
  BY <1>3, <1>8, <1>9
<1>12. rx.inProgress => b[1] = rx.buf[1]
  <2> SUFFICES ASSUME rx.inProgress
               PROVE  b[1] = rx.buf[1]
    OBVIOUS
  <2>1. rx.buf # <<>>
    BY <1>3 DEF InStep, Assembled
  <2>2. \A u \in Seq(Chunks), e \in Chunks : u # <<>> => Append(u, e)[1] = u[1]
    OBVIOUS
  <2> HIDE DEF f
  <2>3. Append(rx.buf, f.data)[1] = rx.buf[1]
    BY <1>3, <1>8, <2>1, <2>2, Zenon
  <2> QED BY <1>9, <2>3
<1>13. ~rx.fcWait /\ Grants(boxR) = {} /\ Grants(toS) = {} /\ FcAt(boxR) = {} /\ FcAt(toS) = {}
  BY <1>4 DEF Granting, Answered
<1>14. CASE ~rx.inProgress /\ UNCHANGED <<rx, boxR>>
  <2>1. UNCHANGED <<Answered, Granting, ArRuns>>
    BY <1>1, <1>14 DEF Answered, Granting, FcAt, Grants, ArRuns
  <2>2. losses = 0 =>
          Agreeing(Transfer, Tail(Path), Answered, rx, lens, received, outcome, Granting, Slack)
    BY <1>2, <1>3, <1>5, <1>14, HeadIgnored DEF Agreed
  <2>3. losses = 0 =>
          Agreeing(Transfer, Tail(Path), Answered', rx', lens, received, outcome, Granting', Slack)
    BY <1>14, <2>1, <2>2, Zenon
  <2> QED BY <1>1, <1>5, <2>1, <2>3, FrameAgrees
<1>15. CASE rx.inProgress /\ ~InSequence(f) /\ rx' = ResetRx(rx) /\ UNCHANGED boxR
  <2>1. ~rx'.inProgress /\ ~Granting' /\ ArRuns'
    BY <1>1, <1>3, <1>4, <1>15, ResetSilent
  <2>2. losses = 0 => ~Owed(Transfer, lens, outcome, RxMsg(rx))
    BY <1>2, <1>3, <1>5, <1>8, <1>15, HeadIsNext DEF InSequence
  <2>3. losses = 0 =>
          Agreeing(Transfer, Tail(Path), Answered', rx', lens, received, outcome, Granting', Slack)
    BY <1>3, <1>5, <1>15, <2>1, <2>2, DroppedAgrees
  <2> QED BY <1>1, <2>1, <2>3, FrameAgrees
<1> HIDE DEF r
<1>16. CASE rx.inProgress /\ complete /\ rx' = whole /\ UNCHANGED boxR
  <2>1. /\ ~rx'.inProgress /\ rx'.ready /\ rx'.buf = b
        /\ rx'.fcWait = rx.fcWait /\ rx'.fc = rx.fc
    BY <1>10, <1>16 DEF Receivers
  <2>2. ~Granting' /\ ArRuns'
    BY <1>1, <1>13, <1>16, <2>1 DEF Granting, ArRuns
  <2>3. RxMsg(rx') = RxMsg(rx) /\ Len(rx.buf) + 1 >= rx.declared
    BY <1>10, <1>11, <1>12, <1>16, <2>1 DEF RxMsg
  <2>4. losses = 0 =>
          Agreeing(Transfer, Tail(Path), Answered', rx', lens, received, outcome, Granting', Slack)
    BY <1>2, <1>3, <1>5, <1>16, <2>1, <2>2, <2>3, CompletedAgrees
  <2> QED BY <1>1, <2>2, <2>4, FrameAgrees
<1>17. ASSUME rx.inProgress, rx'.inProgress, rx'.buf = b, ArRuns',
              \/ Answered' /\ (rx'.fcWait \/ rx'.fcPending)
              \/ rx'.inBlock # 0 /\ rx'.crLeft = NCr
       PROVE  AgreeInv'
  <2>1. RxMsg(rx') = RxMsg(rx) /\ rx'.buf = Append(rx.buf, Head(Path).data)
    BY <1>8, <1>9, <1>12, <1>17 DEF RxMsg
  <2>2. losses = 0 =>
          Agreeing(Transfer, Tail(Path), Answered', rx', lens, received, outcome, Granting', Slack)
    BY <1>2, <1>3, <1>5, <1>6, <1>7, <1>17, <2>1, ChunkAgrees
  <2> QED BY <1>1, <1>17, <2>2, FrameAgrees
<1>18. CASE rx.inProgress /\ ~complete /\ blockEnd /\ SendFc(block, "CTS")
  <2>1. /\ block \in Receivers /\ block.buf = b /\ block.inProgress
    BY <1>10, <1>18 DEF Receivers
  <2> HIDE DEF block
  <2>2. /\ Answered' /\ (rx'.fcWait \/ rx'.fcPending) /\ ArRuns'
        /\ rx'.inProgress /\ rx'.buf = b
    BY <1>1, <1>3, <1>4, <1>18, <2>1, FcQueued
  <2> QED BY <1>17, <1>18, <2>2
<1>19. CASE rx.inProgress /\ ~complete /\ ~blockEnd /\ rx' = r /\ UNCHANGED boxR
  <2>1. rx'.inProgress /\ rx'.buf = b /\ rx'.inBlock # 0 /\ rx'.crLeft = NCr
    BY <1>9, <1>10, <1>11, <1>19
  <2>2. ArRuns'
    BY <1>5, <1>10, <1>19 DEF ArRuns
  <2> QED BY <1>17, <1>19, <2>1, <2>2
<1> QED BY <1>14, <1>15, <1>16, <1>18, <1>19 DEF RxOnCF, r

\* Steps of the receiver's node that take no frame.
LEMMA QuietAgrees ==
  ASSUME AgreeInv, link # "response", UNCHANGED <<tx, boxS, toR, send, link, lens, outcome>>, ArRuns',
         losses' = 0 =>
           Agreeing(Transfer, Path, Answered', rx', lens, received', outcome, Granting', Slack)
  PROVE  AgreeInv'
<1>1. Transfer' = Transfer /\ Path' = Path /\ Slack' = Slack
  BY PathKept DEF Slack
<1>2. BlockSpent(Transfer)'
  BY <1>1 DEF AgreeInv, BlockSpent
<1>3. losses' = 0 => Agreed'
  BY <1>1, Zenon DEF Agreed
<1> QED BY <1>2, <1>3 DEF AgreeInv

LEMMA RxPollAgrees ==
  ASSUME Shape, LinkInv, AgreeInv, link # "response", RxPoll, UNCHANGED <<send, link>>,
         Stmin < NCr
  PROVE  AgreeInv'
<1>1. UNCHANGED <<tx, boxS, toR, toS, lens, received, outcome, losses>>
  BY DEF RxPoll, app, env
<1>2. /\ InStep(Transfer, Path, Answered, rx, lens, received) /\ rx \in Receivers
      /\ Values(Transfer, Path, rx, lens, Slack) /\ OneAnswer /\ boxR \in Seq(OrApp(Fcs))
      /\ NAr \in Nat \ {0} /\ NCr \in Nat \ {0} /\ Stmin \in Nat
  BY AgreeFacts
<1>3. ArRuns /\ (losses = 0 => Agreed)
  BY DEF AgreeInv
<1> DEFINE Still(s) == Agreeing(Transfer, Path, Answered', rx', lens, received, outcome, Granting', s)
<1>4. ASSUME ArRuns', losses = 0 => Still(Slack)
      PROVE  AgreeInv'
  BY <1>1, <1>4, QuietAgrees
<1>5. CASE /\ rx.fcWait /\ boxR' = Append(boxR, rx.fc)
           /\ rx' = [rx EXCEPT !.fcWait = FALSE, !.fcPending = TRUE, !.arLeft = NAr]
  <2>1. /\ ~rx'.fcWait /\ rx'.fcPending /\ rx'.arLeft = NAr /\ rx'.inProgress = rx.inProgress
        /\ rx'.ready = rx.ready /\ rx'.buf = rx.buf
    BY <1>2, <1>5 DEF Receivers
  <2>2. FcAt(boxR) = {} /\ FcAt(toS) = {} /\ rx.fc \in Fcs
    BY <1>2, <1>5 DEF OneAnswer, Shape, RxShape
  <2>3. /\ Len(boxR') = Len(boxR) + 1 /\ Len(boxR) \in Nat /\ boxR'[Len(boxR) + 1] = rx.fc
        /\ \A i \in 1..Len(boxR) : boxR'[i] = boxR[i]
        /\ \A i \in 1..Len(boxR') : i \in 1..Len(boxR) \/ i = Len(boxR) + 1
        /\ Len(boxR) + 1 \in 1..Len(boxR')
    <3>1. rx.fc \in OrApp(Fcs)
      BY <2>2 DEF OrApp
    <3> QED BY ONLY <1>2, <1>5, <3>1
  <2>4. Answered'
    BY <2>2, <2>3 DEF Answered, FcAt, Fcs
  <2>5. Grants(boxR) = {} /\ Grants(toS) = {}
    BY <2>2 DEF Grants, FcAt, FC
  <2>6. Granting' => Granting
    BY <1>1, <1>5, <2>1, <2>3, <2>5 DEF Granting, Grants
  <2>7. ArRuns'
    BY <1>2, <2>1 DEF ArRuns
  <2>8. losses = 0 => Still(Slack)
    <3> SUFFICES ASSUME losses = 0
                 PROVE  Still(Slack)
      OBVIOUS
    <3>1. OwedKept(Transfer, Path, rx, lens, received, outcome) /\ (Granting => rx.inProgress)
      BY <1>3 DEF Agreed, Agreeing
    <3>2. OwedKept(Transfer, Path, rx', lens, received, outcome)
      BY <2>1, <3>1, ArrivesStill
    <3>3. Asked(Transfer, Path, Answered', rx')
      BY <2>4 DEF Asked
    <3>4. CrRuns(Transfer, Path, Answered', rx', lens, outcome, Slack)
      BY <2>1 DEF CrRuns
    <3> QED BY <2>1, <2>6, <3>1, <3>2, <3>3, <3>4 DEF Agreeing
  <2> QED BY <1>4, <2>7, <2>8
<1>6. CASE (rx.fcWait \/ (rx.inProgress /\ rx.fcPending)) /\ rx.arLeft = 0
  <2>1. CASE rx.arLeft = 0
    BY <1>2, <1>3, <1>6, <2>1 DEF ArRuns
  <2>2. CASE rx.arLeft # 0
    BY <1>5, <1>6, <2>2 DEF RxPoll
  <2> QED BY <2>1, <2>2
<1>7. CASE /\ rx.inProgress /\ ~rx.fcWait
           /\ rx' = [rx EXCEPT !.fcPending = FALSE, !.crLeft = NCr] /\ UNCHANGED boxR
  <2>1. /\ ~rx'.fcWait /\ ~rx'.fcPending /\ rx'.crLeft = NCr /\ rx'.inProgress = rx.inProgress
        /\ rx'.ready = rx.ready /\ rx'.buf = rx.buf /\ rx'.fcWait = rx.fcWait /\ rx'.fc = rx.fc
    BY <1>2, <1>7 DEF Receivers
  <2>2. ArRuns' /\ UNCHANGED <<Answered, Granting>>
    BY <1>1, <1>7, <2>1 DEF ArRuns, Answered, Granting, FcAt, Grants
  <2>3. losses = 0 => Still(Slack)
    <3> SUFFICES ASSUME losses = 0
                 PROVE  Still(Slack)
      OBVIOUS
    <3>1. /\ OwedKept(Transfer, Path, rx, lens, received, outcome) /\ (Granting => rx.inProgress)
          /\ Asked(Transfer, Path, Answered, rx)
      BY <1>3 DEF Agreed, Agreeing
    <3>2. OwedKept(Transfer, Path, rx', lens, received, outcome)
      BY <2>1, <3>1, ArrivesStill
    <3>3. Asked(Transfer, Path, Answered', rx')
      BY <2>1, <2>2, <3>1 DEF Asked, RxMsg
    <3>4. Slack \in Nat
      BY <1>2 DEF Values
    <3>5. rx'.crLeft > 0 /\ rx'.crLeft + Slack >= NCr
      BY <1>2, <2>1, <3>4
    <3>6. CrRuns(Transfer, Path, Answered', rx', lens, outcome, Slack)
      BY <2>1, <3>5 DEF CrRuns
    <3> QED BY <1>7, <2>1, <2>2, <3>2, <3>3, <3>6 DEF Agreeing
  <2> QED BY <1>4, <2>2, <2>3
<1>8. CASE /\ rx.inProgress /\ ~rx.fcWait /\ ~rx.fcPending /\ CrTimedOut
           /\ rx' = [rx EXCEPT !.inProgress = FALSE] /\ UNCHANGED boxR
  <2>1. ~rx'.inProgress /\ rx'.fcWait = rx.fcWait /\ rx'.fc = rx.fc
    BY <1>2, <1>8 DEF Receivers
  <2>2. ArRuns' /\ UNCHANGED Granting
    BY <1>1, <1>8, <2>1 DEF ArRuns, Granting, Grants
  <2>3. losses = 0 => Still(Slack)
    <3> SUFFICES ASSUME losses = 0
                 PROVE  Still(Slack)
      OBVIOUS
    <3>1. Agreed /\ rx.crLeft = 0
      BY <1>3, <1>8 DEF CrTimedOut
    <3>2. ~Owed(Transfer, lens, outcome, RxMsg(rx))
      BY <1>2, <1>8, <3>1, StillRunning DEF Agreed
    <3>3. ~Granting
      BY <1>2, <1>8, <3>1, GrantIsAnswer DEF Agreed, Agreeing, CrRuns
    <3>4. OwedKept(Transfer, Path, rx, lens, received, outcome)
      BY <3>1 DEF Agreed, Agreeing
    <3> QED BY <1>2, <1>8, <2>1, <2>2, <3>2, <3>3, <3>4, DroppedAgrees
  <2> QED BY <1>4, <2>2, <2>3
<1> QED BY <1>5, <1>6, <1>7, <1>8 DEF RxPoll

\* A message that is read is still there.
LEMMA RxReadAgrees ==
  ASSUME Shape, LinkInv, AgreeInv, link # "response", RxRead, UNCHANGED <<send, link>>
  PROVE  AgreeInv'
<1>1. /\ rx.ready /\ received' = Append(received, rx.buf)
      /\ rx' = [rx EXCEPT !.ready = FALSE]
      /\ UNCHANGED <<tx, boxS, boxR, toR, toS, lens, outcome, losses>>
  BY DEF RxRead, bus, env
<1>2. /\ InStep(Transfer, Path, Answered, rx, lens, received) /\ rx \in Receivers
      /\ received \in Seq(Seq(Chunks)) /\ rx.buf \in Seq(Chunks)
  BY LinkFacts
<1>3. /\ rx'.inProgress = rx.inProgress /\ rx'.fcWait = rx.fcWait /\ rx'.fc = rx.fc
      /\ rx'.fcPending = rx.fcPending /\ rx'.arLeft = rx.arLeft
  BY <1>1, <1>2 DEF Receivers
<1>4. ~rx.inProgress
  BY <1>1, <1>2 DEF InStep, Assembled
<1>5. ArRuns' /\ UNCHANGED <<Answered, Granting>>
  BY <1>1, <1>3 DEF AgreeInv, ArRuns, Answered, Granting, FcAt, Grants
<1>6. ASSUME NEW m, Got(rx, received, m)
      PROVE  Got(rx', received', m)
  <2>1. /\ Len(received') = Len(received) + 1 /\ Len(received) \in Nat
        /\ received'[Len(received) + 1] = rx.buf
        /\ \A i \in 1..Len(received) : received'[i] = received[i] /\ i \in 1..Len(received')
        /\ Len(received) + 1 \in 1..Len(received')
    BY <1>1, <1>2
  <2>2. CASE RxMsg(rx) = m
    <3>1. NumberRead(received', Len(received) + 1) = m
      BY <2>1, <2>2 DEF NumberRead, RxMsg
    <3> QED BY <2>1, <3>1 DEF Got
  <2>3. CASE \E i \in 1..Len(received) : NumberRead(received, i) = m
    BY <2>1, <2>3 DEF Got, NumberRead
  <2> QED BY <1>6, <2>2, <2>3 DEF Got
<1>7. losses = 0 =>
        Agreeing(Transfer, Path, Answered', rx', lens, received', outcome, Granting', Slack)
  <2> SUFFICES ASSUME losses = 0
               PROVE  Agreeing(Transfer, Path, Answered', rx', lens, received', outcome, Granting', Slack)
    OBVIOUS
  <2>1. OwedKept(Transfer, Path, rx, lens, received, outcome) /\ (Granting => rx.inProgress)
    BY DEF AgreeInv, Agreed, Agreeing
  <2>2. OwedKept(Transfer, Path, rx', lens, received', outcome)
    BY <1>4, <1>6, <2>1, Zenon DEF OwedKept, Arrives, Coming
  <2> QED BY <1>3, <1>4, <1>5, <2>1, <2>2, IdleAgrees
<1> QED BY <1>1, <1>5, <1>7, QuietAgrees

\* Flow control on its way.
Answers == {e \in Elements(boxR) \cup Elements(toS) : e.type = "FC"}

LEMMA AnswersAre ==
  /\ Answered <=> rx.fcWait \/ Answers # {}
  /\ Answered' <=> rx'.fcWait \/ Answers' # {}
  /\ Granting <=> (rx.fcWait /\ rx.fc = FC("CTS")) \/ FC("CTS") \in Answers
  /\ Granting' <=> (rx'.fcWait /\ rx'.fc = FC("CTS")) \/ FC("CTS") \in Answers'
<1>1. FC("CTS").type = "FC"
  BY DEF FC
<1>2. \A q : /\ FcAt(q) # {} <=> \E e \in Elements(q) : e.type = "FC"
             /\ Grants(q) # {} <=> FC("CTS") \in Elements(q)
  BY DEF FcAt, Grants, Elements
<1>3. /\ Answered <=> rx.fcWait \/ Answers # {}
      /\ Answered' <=> rx'.fcWait \/ Answers' # {}
  BY <1>2 DEF Answered, Answers
<1>4. /\ Granting <=> (rx.fcWait /\ rx.fc = FC("CTS")) \/ FC("CTS") \in Answers
      /\ Granting' <=> (rx'.fcWait /\ rx'.fc = FC("CTS")) \/ FC("CTS") \in Answers'
  BY <1>1, <1>2 DEF Granting, Answers
<1> QED BY <1>3, <1>4

\* Steps that leave the endpoints alone and lose nothing.
LEMMA AnswersMove ==
  ASSUME AgreeInv, link # "response",
         UNCHANGED <<tx, rx, boxS, toR, send, link, lens, received, outcome>>,
         losses' = 0 => losses = 0 /\ (Answered' <=> Answered) /\ (Granting' => Granting)
  PROVE  AgreeInv'
<1>1. ArRuns'
  BY DEF AgreeInv, ArRuns
<1>2. losses' = 0 =>
        Agreeing(Transfer, Path, Answered', rx', lens, received', outcome, Granting', Slack)
  BY DEF AgreeInv, Agreed, Agreeing, Asked, CrRuns
<1> QED BY <1>1, <1>2, QuietAgrees

LEMMA ElementsLeft ==
  ASSUME NEW S, NEW s \in Seq(S), NEW i \in 1..Len(s)
  PROVE  Elements(Remove(s, i)) \subseteq Elements(s)
         /\ Elements(s) \subseteq Elements(Remove(s, i)) \cup {s[i]}
<1>1. /\ Len(Remove(s, i)) = Len(s) - 1 /\ Len(s) \in Nat
      /\ \A j \in 1..Len(Remove(s, i)) :
           Was(i, j) \in 1..Len(s) \ {i} /\ Remove(s, i)[j] = s[Was(i, j)]
  BY OthersRemain
<1>2. ASSUME NEW k \in 1..Len(s), k # i
      PROVE  \E j \in 1..Len(Remove(s, i)) : Remove(s, i)[j] = s[k]
  <2>1. PICK j \in 1..Len(Remove(s, i)) : Was(i, j) = k
    BY <1>2, OtherRemains
  <2> QED BY <1>1, <2>1
<1>3. Elements(s) \subseteq Elements(Remove(s, i)) \cup {s[i]}
  BY <1>2 DEF Elements
<1>4. Elements(Remove(s, i)) \subseteq Elements(s)
  BY <1>1 DEF Elements
<1> QED BY <1>3, <1>4

LEMMA TransmitRAgrees ==
  ASSUME Shape, LinkInv, AgreeInv, link # "response", TransmitsR, UNCHANGED <<send, link>>
  PROVE  AgreeInv'
<1>1. PICK i \in 1..Len(boxR) : TransmitR(i)
  BY DEF TransmitsR
<1> DEFINE f == boxR[i]
<1>2. /\ boxR' = Remove(boxR, i) /\ UNCHANGED <<tx, rx, boxS, toR, lens, received, outcome>>
      /\ \/ f.type = "app" /\ UNCHANGED <<toS, losses>>
         \/ f.type # "app" /\ toS' = Append(toS, f) /\ UNCHANGED losses
         \/ losses' = losses + 1
  BY <1>1 DEF TransmitR, app
<1>3. boxR \in Seq(OrApp(Fcs)) /\ toS \in Seq(OrApp(Fcs)) /\ losses \in Nat /\ f \in OrApp(Fcs)
  BY AgreeFacts DEF Shape, AppShape
<1>4. /\ Elements(boxR') \subseteq Elements(boxR)
      /\ Elements(boxR) \subseteq Elements(boxR') \cup {f}
  BY <1>2, <1>3, ElementsLeft
<1>5. f \in Elements(boxR)
  BY DEF Elements
<1>6. losses' = 0 => losses = 0 /\ Answers' = Answers
  <2> SUFFICES ASSUME losses' = 0
               PROVE  losses = 0 /\ Answers' = Answers
    OBVIOUS
  <2>1. CASE f.type = "app" /\ UNCHANGED <<toS, losses>>
    BY <1>4, <2>1 DEF Answers
  <2>2. CASE f.type # "app" /\ toS' = Append(toS, f) /\ UNCHANGED losses
    <3>1. Elements(toS') = Elements(toS) \cup {f}
      BY <1>3, <2>2, ElementsAppended
    <3> QED BY <1>4, <1>5, <2>2, <3>1 DEF Answers
  <2>3. CASE losses' = losses + 1
    BY <1>3, <2>3
  <2> QED BY <1>2, <2>1, <2>2, <2>3
<1>7. losses' = 0 => losses = 0 /\ (Answered' <=> Answered) /\ (Granting' => Granting)
  BY <1>2, <1>6, AnswersAre
<1> QED BY <1>2, <1>7, AnswersMove

LEMMA ForeignAgrees ==
  ASSUME Shape, LinkInv, AgreeInv, link # "response", ForeignFc, UNCHANGED <<send, link>>
  PROVE  AgreeInv'
<1>1. /\ toS # <<>> /\ Head(toS) = FC("CTS")
      /\ toS' = <<FC("WAIT")>> \o toS \/ toS' = <<FC("reserved")>> \o Tail(toS)
      /\ UNCHANGED <<tx, rx, boxS, boxR, toR, lens, received, outcome, losses>>
  BY DEF ForeignFc, app
<1>2. toS \in Seq(OrApp(Fcs)) /\ Tail(toS) \in Seq(OrApp(Fcs))
  BY <1>1, AgreeFacts
<1>3. \A S : \A s \in Seq(S), e \in S : Len(<<e>> \o s) \in Nat /\ Len(<<e>> \o s) > 0 /\ (<<e>> \o s)[1] = e
  OBVIOUS
<1>4. FC("WAIT") \in OrApp(Fcs) /\ FC("reserved") \in OrApp(Fcs)
      /\ FC("WAIT").type = "FC" /\ FC("reserved").type = "FC" /\ FC("CTS").type = "FC"
  BY DEF FC, OrApp, Fcs, Statuses
<1>5. Len(toS') \in Nat /\ Len(toS') > 0 /\ toS'[1] \in {FC("WAIT"), FC("reserved")}
  <2>1. CASE toS' = <<FC("WAIT")>> \o toS
    <3>1. /\ Len(<<FC("WAIT")>> \o toS) \in Nat /\ Len(<<FC("WAIT")>> \o toS) > 0
          /\ (<<FC("WAIT")>> \o toS)[1] = FC("WAIT")
      BY <1>2, <1>3, <1>4, Zenon
    <3> QED BY <2>1, <3>1, Zenon
  <2>2. CASE toS' = <<FC("reserved")>> \o Tail(toS)
    <3>1. /\ Len(<<FC("reserved")>> \o Tail(toS)) \in Nat /\ Len(<<FC("reserved")>> \o Tail(toS)) > 0
          /\ (<<FC("reserved")>> \o Tail(toS))[1] = FC("reserved")
      BY <1>2, <1>3, <1>4, Zenon
    <3> QED BY <2>2, <3>1, Zenon
  <2> QED BY <1>1, <2>1, <2>2
<1>6. 1 \in 1..Len(toS') /\ 1 \in 1..Len(toS) /\ toS[1] = FC("CTS")
  BY <1>1, <1>2, <1>5
<1>7. toS'[1] \in Elements(toS') /\ FC("CTS") \in Elements(toS)
  BY <1>6 DEF Elements
<1>8. toS'[1] \in Answers' /\ FC("CTS") \in Answers
  BY <1>4, <1>5, <1>7 DEF Answers
<1>9. Answered /\ Answered' /\ Granting
  BY <1>8, AnswersAre
<1> QED BY <1>1, <1>9, AnswersMove

\* Other frames of the receiver's node.
LEMMA OtherFramesAgree ==
  ASSUME Shape, LinkInv, AgreeInv, link # "response",
         UNCHANGED <<tx, rx, boxS, toR, send, link, lens, received, outcome, losses>>,
         \/ boxR' = Append(boxR, AppFrame) /\ UNCHANGED toS
         \/ toS = <<>> /\ toS' = <<AppFrame>> /\ UNCHANGED boxR
  PROVE  AgreeInv'
<1>1. AppFrame \in OrApp(Fcs) /\ AppFrame.type # "FC" /\ boxR \in Seq(OrApp(Fcs))
  BY AgreeFacts DEF OrApp, AppFrame
<1>2. /\ Elements(boxR) \cup Elements(toS) \subseteq Elements(boxR') \cup Elements(toS')
      /\ Elements(boxR') \cup Elements(toS') \subseteq Elements(boxR) \cup Elements(toS) \cup {AppFrame}
  <2>1. CASE boxR' = Append(boxR, AppFrame) /\ UNCHANGED toS
    <3>1. Elements(boxR') = Elements(boxR) \cup {AppFrame}
      BY <1>1, <2>1, ElementsAppended
    <3> QED BY <2>1, <3>1
  <2>2. CASE toS = <<>> /\ toS' = <<AppFrame>> /\ UNCHANGED boxR
    <3>1. Elements(toS) = {} /\ Elements(toS') = {AppFrame}
      BY <2>2, ElementsOfFew, Zenon
    <3> QED BY <2>2, <3>1
  <2> QED BY <2>1, <2>2
<1>3. Answers' = Answers
  BY <1>1, <1>2 DEF Answers
<1>4. (Answered' <=> Answered) /\ (Granting' => Granting)
  BY <1>3, AnswersAre
<1> QED BY <1>4, AnswersMove

-------------------------------------------------------------------------------
\* The sender's steps.

\* A frame joins the path, when nothing more is owed of the message in progress.
LEMMA PathGrown ==
  ASSUME NEW v, NEW w, NEW q, NEW p, NEW f, NEW r, NEW ls, NEW ls2, NEW rd, NEW oc, NEW oc2,
         NEW g, NEW s, NEW s2,
         InStep(v, q, f, r, ls, rd), Values(v, q, r, ls, s), Agreeing(v, q, f, r, ls, rd, oc, g, s),
         Stmin < NCr, p # <<>>, OwedKept(w, p, r, ls2, rd, oc2),
         r.inProgress /\ Owed(w, ls2, oc2, RxMsg(r)) => Owed(v, ls, oc, RxMsg(r))
  PROVE  Agreeing(w, p, f, r, ls2, rd, oc2, g, s2)
<1>1. Asked(w, p, f, r)
  BY DEF Asked
<1>2. CrRuns(w, p, f, r, ls2, oc2, s2)
  <2> SUFFICES ASSUME r.inProgress, ~r.fcWait, ~r.fcPending
               PROVE  /\ f => r.crLeft = NCr
                      /\ Owed(w, ls2, oc2, RxMsg(r)) => r.crLeft > 0
    BY DEF CrRuns
  <2>1. f => r.crLeft = NCr
    BY DEF Agreeing, CrRuns
  <2>2. Owed(w, ls2, oc2, RxMsg(r)) => r.crLeft > 0
    BY StillRunning
  <2> QED BY <2>1, <2>2
<1> QED BY <1>1, <1>2 DEF Agreeing

\* Answers are on their way or not.
LEMMA AgreeingOf ==
  ASSUME NEW v, NEW q, NEW f, NEW f2, NEW r, NEW ls, NEW rd, NEW oc, NEW g, NEW g2, NEW s,
         Agreeing(v, q, f, r, ls, rd, oc, g, s), f2 <=> f, g2 => g
  PROVE  Agreeing(v, q, f2, r, ls, rd, oc, g2, s)
BY DEF Agreeing, Asked, CrRuns

\* A longer path brings what the shorter one did.
LEMMA ComingStill ==
  ASSUME NEW F, NEW q \in Seq(F), NEW x \in F, NEW r, NEW m, NEW k, Coming(q, r, m, k)
  PROVE  Coming(Append(q, x), r, m, k)
<1> DEFINE p == Append(q, x)
<1>1. \A i \in 1..Len(q) : p[i] = q[i] /\ i \in 1..Len(p)
  OBVIOUS
<1> HIDE DEF p
<1>2. Coming(p, r, m, k)
  BY <1>1 DEF Coming
<1> QED BY <1>2 DEF p

LEMMA BeginsAgrees ==
  ASSUME NEW v, NEW w, NEW q, NEW x \in Data(link), NEW f, NEW r, NEW ls, NEW n \in Nat \ {0}, NEW rd,
         NEW oc, Len(oc) = Len(ls), oc \in Seq(Verdicts), NEW verdict \in Verdicts, NEW g, NEW s, NEW s2,
         InStep(v, q, f, r, ls, rd), Values(v, q, r, ls, s), Agreeing(v, q, f, r, ls, rd, oc, g, s),
         Stmin < NCr, n > 1 => verdict = "ongoing",
         w.busy => w.msg = Len(ls) + 1 /\ w.offset = 1 /\ (n > 1 => w.waiting)
  PROVE  Agreeing(w, Append(q, x), f, r, Append(ls, n), rd, Append(oc, verdict), g, s2)
<1> DEFINE p == Append(q, x)
           ls2 == Append(ls, n)
           oc2 == Append(oc, verdict)
<1>1. /\ ls \in Seq(Nat \ {0}) /\ q \in Seq(Data(link)) /\ Len(ls) \in Nat
      /\ OwedKept(v, q, r, ls, rd, oc)
  BY DEF Values, Agreeing
<1>2. /\ Len(ls2) = Len(ls) + 1 /\ ls2[Len(ls) + 1] = n /\ oc2[Len(ls) + 1] = verdict
      /\ \A m \in 1..Len(ls) : ls2[m] = ls[m] /\ oc2[m] = oc[m]
      /\ \A m \in 1..Len(ls2) : m \in 1..Len(ls) \/ m = Len(ls) + 1
  <2>1. /\ Len(ls2) = Len(ls) + 1 /\ ls2[Len(ls) + 1] = n
        /\ \A m \in 1..Len(ls) : ls2[m] = ls[m]
        /\ \A m \in 1..Len(ls2) : m \in 1..Len(ls) \/ m = Len(ls) + 1
    BY ONLY <1>1, n \in Nat \ {0}
  <2>2. /\ oc2[Len(oc) + 1] = verdict /\ \A m \in 1..Len(oc) : oc2[m] = oc[m]
    BY ONLY oc \in Seq(Verdicts), verdict \in Verdicts
  <2> QED BY <2>1, <2>2
<1>3. p # <<>>
  BY <1>1
<1>4. \A m, k : Coming(q, r, m, k) => Coming(p, r, m, k)
  BY <1>1, ComingStill
<1> HIDE DEF p, ls2, oc2
<1>5. ASSUME NEW m \in 1..Len(ls), Owed(w, ls2, oc2, m)
      PROVE  Owed(v, ls, oc, m) /\ oc[m] = "ok"
  <2>1. m # Len(ls) + 1
    BY <1>1
  <2> QED BY <1>2, <1>5, <2>1 DEF Owed
<1>6. ~Owed(w, ls2, oc2, Len(ls) + 1)
  BY <1>2 DEF Owed
<1>7. OwedKept(w, p, r, ls2, rd, oc2)
  <2> SUFFICES ASSUME NEW m \in 1..Len(ls2), Owed(w, ls2, oc2, m)
               PROVE  Arrives(w, p, r, ls2, rd, oc2, m)
    BY DEF OwedKept
  <2>1. m \in 1..Len(ls)
    BY <1>2, <1>6
  <2>2. Owed(v, ls, oc, m) /\ oc[m] = "ok" /\ oc2[m] = "ok" /\ ls2[m] = ls[m]
    BY <1>2, <1>5, <2>1
  <2>3. Arrives(v, q, r, ls, rd, oc, m)
    BY <1>1, <2>1, <2>2 DEF OwedKept
  <2>4. Sofar(v, ls, oc, m) = ls[m] /\ Sofar(w, ls2, oc2, m) = ls[m]
    BY <2>2 DEF Sofar
  <2> QED BY <1>4, <2>2, <2>3, <2>4 DEF Arrives
<1>8. r.inProgress => RxMsg(r) \in 1..Len(ls)
  BY DEF InStep, Assembled
<1>9. Agreeing(w, p, f, r, ls2, rd, oc2, g, s2)
  BY <1>3, <1>5, <1>7, <1>8, PathGrown
<1> QED BY <1>9 DEF p, ls2, oc2

LEMMA NextAgrees ==
  ASSUME NEW v, NEW w, NEW q, NEW x \in Data(link), NEW f, NEW r, NEW ls, NEW rd,
         NEW oc, NEW g, NEW s, NEW s2,
         InStep(v, q, f, r, ls, rd), Values(v, q, r, ls, s), Agreeing(v, q, f, r, ls, rd, oc, g, s),
         Stmin < NCr, v.busy, ~v.waiting, v.offset < ls[v.msg],
         w.busy, w.msg = v.msg, w.offset = v.offset + 1,
         x.type = "CF", x.data = Chunk(v.msg, v.offset + 1)
  PROVE  Agreeing(w, Append(q, x), f, r, ls, rd, oc, g, s2)
<1> DEFINE p == Append(q, x)
<1>1. /\ ls \in Seq(Nat \ {0}) /\ q \in Seq(Data(link)) /\ v.offset \in Nat
      /\ OwedKept(v, q, r, ls, rd, oc) /\ Len(r.buf) \in Nat
  BY DEF Values, Agreeing
<1>2. p # <<>> /\ Len(q) + 1 \in 1..Len(p) /\ p[Len(q) + 1] = x
  BY <1>1
<1>3. \A m, k : Coming(q, r, m, k) => Coming(p, r, m, k)
  BY <1>1, ComingStill
<1> HIDE DEF p
<1>4. \A m : Owed(w, ls, oc, m) => Owed(v, ls, oc, m)
  BY DEF Owed
<1>5. OwedKept(w, p, r, ls, rd, oc)
  <2> SUFFICES ASSUME NEW m \in 1..Len(ls), Owed(w, ls, oc, m)
               PROVE  Arrives(w, p, r, ls, rd, oc, m)
    BY DEF OwedKept
  <2>1. Arrives(v, q, r, ls, rd, oc, m)
    BY <1>1, <1>4 DEF OwedKept
  <2>2. CASE oc[m] = "ok"
    <3>1. Sofar(v, ls, oc, m) = ls[m] /\ Sofar(w, ls, oc, m) = ls[m]
      BY <2>2 DEF Sofar
    <3> QED BY <1>3, <2>1, <3>1 DEF Arrives
  <2>3. CASE oc[m] # "ok"
    <3>1. m = v.msg /\ Sofar(v, ls, oc, m) = v.offset /\ Sofar(w, ls, oc, m) = v.offset + 1
      BY <2>3 DEF Sofar, Owed
    <3>2. v.offset # ls[m]
      <4>1. ls[m] \in Nat
        BY <1>1
      <4> QED BY <1>1, <3>1, <4>1
    <3>3. Coming(p, r, m, v.offset)
      BY <1>3, <2>1, <3>1, <3>2 DEF Arrives
    <3>4. \A j \in (Len(r.buf) + 1)..(v.offset + 1) : j \in (Len(r.buf) + 1)..v.offset \/ j = v.offset + 1
      BY <1>1
    <3>5. Coming(p, r, m, v.offset + 1)
      BY <1>2, <3>1, <3>3, <3>4, Zenon DEF Coming
    <3> QED BY <3>1, <3>5 DEF Arrives
  <2> QED BY <2>2, <2>3
<1>6. Agreeing(w, p, f, r, ls, rd, oc, g, s2)
  BY <1>2, <1>4, <1>5, PathGrown
<1> QED BY <1>6 DEF p

\* The verdict on one message is given.
Judged(ls, oc, oc2, n, verdict) ==
  \A m \in 1..Len(ls) : oc2[m] = IF m = n THEN verdict ELSE oc[m]

\* A transfer ends: complete once everything was handed over.
LEMMA EndsAgreeing ==
  ASSUME NEW v, NEW w, NEW q, NEW f, NEW f2, NEW r, NEW ls, NEW rd, NEW oc, NEW g, NEW g2, NEW s, NEW s2,
         NEW oc2, NEW verdict, Judged(ls, oc, oc2, v.msg, verdict),
         InStep(v, q, f, r, ls, rd), Agreeing(v, q, f, r, ls, rd, oc, g, s),
         v.busy, ~w.busy, f2 => f, g2 => g,
         verdict = "ok" => v.offset = ls[v.msg] /\ (~v.waiting \/ v.offset > 1)
  PROVE  Agreeing(w, q, f2, r, ls, rd, oc2, g2, s2)
<1>1. OwedKept(v, q, r, ls, rd, oc) /\ CrRuns(v, q, f, r, ls, oc, s) /\ (g => r.inProgress)
  BY DEF Agreeing
<1>2. ASSUME NEW m \in 1..Len(ls), Owed(w, ls, oc2, m)
      PROVE  /\ Owed(v, ls, oc, m) /\ oc2[m] = "ok"
             /\ Sofar(v, ls, oc, m) = ls[m] /\ Sofar(w, ls, oc2, m) = ls[m]
  <2>1. oc2[m] = "ok" /\ ls[m] > 1
    BY <1>2 DEF Owed
  <2>2. CASE m = v.msg
    <3>1. verdict = "ok"
      BY <2>1, <2>2 DEF Judged
    <3> QED BY <2>1, <2>2, <3>1 DEF Owed, Sofar
  <2>3. CASE m # v.msg
    <3>1. oc[m] = "ok"
      BY <2>1, <2>3 DEF Judged
    <3> QED BY <2>1, <3>1 DEF Owed, Sofar
  <2> QED BY <2>2, <2>3
<1>3. OwedKept(w, q, r, ls, rd, oc2)
  BY <1>1, <1>2 DEF OwedKept, Arrives
<1>4. Asked(w, q, f2, r)
  BY DEF Asked
<1>5. r.inProgress => RxMsg(r) \in 1..Len(ls)
  BY DEF InStep, Assembled
<1>6. CrRuns(w, q, f2, r, ls, oc2, s2)
  BY <1>1, <1>2, <1>5 DEF CrRuns
<1> QED BY <1>1, <1>3, <1>4, <1>6 DEF Agreeing

\* The sender takes the grant of its next block.
LEMMA GrantAgrees ==
  ASSUME NEW v, NEW w, NEW q, NEW r, NEW ls, NEW rd, NEW oc, NEW s, NEW s2 \in Nat,
         InStep(v, q, TRUE, r, ls, rd), Values(v, q, r, ls, s),
         Agreeing(v, q, TRUE, r, ls, rd, oc, TRUE, s),
         w.busy, w.msg = v.msg, w.offset = v.offset, ~w.waiting
  PROVE  Agreeing(w, q, FALSE, r, ls, rd, oc, FALSE, s2)
<1>1. /\ OwedKept(v, q, r, ls, rd, oc) /\ CrRuns(v, q, TRUE, r, ls, oc, s) /\ r.inProgress
  BY DEF Agreeing
<1>2. /\ q = <<>> /\ v.busy /\ RxMsg(r) = v.msg /\ Len(r.buf) = v.offset /\ v.offset \in Nat
  BY <1>1 DEF InStep, Awaited, Values
<1>3. OwedKept(w, q, r, ls, rd, oc)
  <2> SUFFICES ASSUME NEW m \in 1..Len(ls), Owed(w, ls, oc, m)
               PROVE  Arrives(w, q, r, ls, rd, oc, m)
    BY DEF OwedKept
  <2>1. CASE oc[m] = "ok"
    <3>1. Owed(v, ls, oc, m) /\ Sofar(v, ls, oc, m) = ls[m] /\ Sofar(w, ls, oc, m) = ls[m]
      BY <2>1 DEF Owed, Sofar
    <3> QED BY <1>1, <3>1 DEF OwedKept, Arrives
  <2>2. CASE oc[m] # "ok"
    <3>1. m = v.msg /\ Sofar(w, ls, oc, m) = v.offset
      BY <2>2 DEF Owed, Sofar
    <3>2. ~ \E j \in (Len(r.buf) + 1)..v.offset : TRUE
      BY <1>2
    <3>3. Coming(q, r, m, v.offset)
      BY <1>1, <1>2, <3>1, <3>2 DEF Coming
    <3> QED BY <3>1, <3>3 DEF Arrives
  <2> QED BY <2>1, <2>2
<1>4. Asked(w, q, FALSE, r)
  BY DEF Asked
<1>5. CrRuns(w, q, FALSE, r, ls, oc, s2)
  <2>1. NCr \in Nat
    BY IsotpAssumption
  <2> QED BY <1>1, <1>2, <2>1 DEF CrRuns
<1> QED BY <1>3, <1>4, <1>5 DEF Agreeing

\* Steps of the sender.
LEMMA SenderAgrees ==
  ASSUME AgreeInv, link # "response", UNCHANGED <<rx, link, losses>>, BlockSpent(Transfer'),
         losses = 0 /\ Agreed =>
           Agreeing(Transfer', Path', Answered', rx, lens', received', outcome', Granting', Slack')
  PROVE  AgreeInv'
<1>1. ArRuns' /\ rx' = rx
  BY DEF AgreeInv, ArRuns
<1>2. losses' = 0 => Agreed'
  <2> SUFFICES ASSUME losses' = 0
               PROVE  Agreed'
    OBVIOUS
  <2>1. losses = 0 /\ Agreed
    BY DEF AgreeInv
  <2>2. Agreeing(Transfer', Path', Answered', rx, lens', received', outcome', Granting', Slack')
    BY <2>1
  <2> QED BY <1>1, <2>2, Zenon DEF Agreed
<1>3. BlockSpent(Transfer)'
  BY DEF BlockSpent
<1> QED BY <1>1, <1>2, <1>3 DEF AgreeInv

\* A frame of the sender's node that is not lost stays on the path.
LEMMA TransmitSAgrees ==
  ASSUME Shape, LinkInv, AgreeInv, link = "nodes", TransmitsS, UNCHANGED <<send, link>>
  PROVE  AgreeInv'
<1>1. PICK i \in 1..Len(boxS) : TransmitS(i)
  BY DEF TransmitsS
<1> DEFINE f == boxS[i]
<1>2. /\ boxS' = Remove(boxS, i) /\ UNCHANGED <<tx, rx, boxR, toS, lens, received, outcome>>
      /\ \/ f.type = "app" /\ UNCHANGED <<toR, losses>>
         \/ f.type # "app" /\ toR' = Append(toR, f) /\ UNCHANGED losses
         \/ losses' = losses + 1
  BY <1>1 DEF TransmitS, app
<1>3. NodeSender /\ boxS \in Seq(OrApp(Data(link))) /\ losses \in Nat
  BY DEF LinkInv, Shape, BusShape, AppShape
<1>4. /\ Transfer' = Transfer /\ Slack' = Slack /\ (Answered' <=> Answered) /\ (Granting' <=> Granting)
  BY <1>2 DEF Transfer, BlockFull, Slack, Answered, Granting, FcAt, Grants
<1>5. ArRuns' /\ BlockSpent(Transfer)'
  BY <1>2, <1>4 DEF AgreeInv, ArRuns, BlockSpent
<1>6. ASSUME UNCHANGED losses, Path' = Path
      PROVE  AgreeInv'
  <2>1. losses' = 0 => Agreed'
    BY <1>2, <1>4, <1>6 DEF AgreeInv, Agreed, Agreeing, Asked, CrRuns
  <2> QED BY <1>5, <2>1 DEF AgreeInv
<1>7. CASE f.type = "app" /\ UNCHANGED <<toR, losses>>
  <2>1. /\ Elements(boxS') \subseteq Elements(boxS)
        /\ Elements(boxS) \subseteq Elements(boxS') \cup {f}
    BY <1>2, <1>3, ElementsLeft
  <2>2. /\ Own # {} <=> \E e \in Elements(boxS) : e.type # "app"
        /\ Own' # {} <=> \E e \in Elements(boxS') : e.type # "app"
    BY DEF Own, Elements
  <2>3. UNCHANGED Pending
    BY <1>2, <1>7, <2>1, <2>2 DEF Pending
  <2>4. Path' = Path
    BY <1>2, <1>7, <2>3 DEF Path
  <2> QED BY <1>6, <1>7, <2>4
<1>8. CASE f.type # "app" /\ toR' = Append(toR, f) /\ UNCHANGED losses
  <2>1. i \in Own /\ Pending
    BY <1>8 DEF Own, Pending
  <2>2. Own = {i} /\ f = tx.frame /\ ~tx.waitEnqueue
    BY <1>3, <2>1 DEF NodeSender
  <2>3. \A j \in 1..Len(boxS') : Was(i, j) \in 1..Len(boxS) \ {i} /\ boxS'[j] = boxS[Was(i, j)]
    BY <1>2, <1>3, OthersRemain
  <2>4. Own' = {}
    BY <2>2, <2>3 DEF Own
  <2>5. ~Pending'
    BY <1>2, <2>2, <2>4 DEF Pending
  <2>6. Path = Append(toR, f) /\ Path' = toR'
    BY <2>1, <2>2, <2>5 DEF Path
  <2> QED BY <1>6, <1>8, <2>6
<1>9. CASE losses' = losses + 1
  <2>1. losses' # 0
    BY <1>3, <1>9
  <2> QED BY <1>5, <2>1 DEF AgreeInv
<1> QED BY <1>2, <1>7, <1>8, <1>9

\* Frames of the application join either node's mailboxes.
LEMMA AppSendsAgrees ==
  ASSUME Shape, LinkInv, AgreeInv, link = "nodes", AppSends, UNCHANGED <<send, link>>
  PROVE  AgreeInv'
<1>1. /\ UNCHANGED <<tx, rx, toR, toS, lens, received, outcome, losses>>
      /\ \/ boxS' = Append(boxS, AppFrame) /\ UNCHANGED boxR
         \/ boxR' = Append(boxR, AppFrame) /\ UNCHANGED boxS
  BY DEF AppSends, app, env
<1>2. CASE boxR' = Append(boxR, AppFrame) /\ UNCHANGED boxS
  BY <1>1, <1>2, OtherFramesAgree
<1>3. CASE boxS' = Append(boxS, AppFrame) /\ UNCHANGED boxR
  <2>1. boxS \in Seq(OrApp(Data(link))) /\ AppFrame \in OrApp(Data(link)) /\ AppFrame.type = "app"
    BY DEF Shape, BusShape, OrApp, AppFrame
  <2>2. Elements(boxS') = Elements(boxS) \cup {AppFrame}
    BY <1>3, <2>1, ElementsAppended
  <2>3. /\ Own # {} <=> \E e \in Elements(boxS) : e.type # "app"
        /\ Own' # {} <=> \E e \in Elements(boxS') : e.type # "app"
    BY DEF Own, Elements
  <2>4. UNCHANGED Pending
    BY <1>1, <2>1, <2>2, <2>3 DEF Pending
  <2>5. Path' = Path
    BY <1>1, <2>4 DEF Path
  <2>6. Transfer' = Transfer /\ Slack' = Slack /\ (Answered' <=> Answered) /\ (Granting' <=> Granting)
    BY <1>1, <1>3 DEF Transfer, BlockFull, Slack, Answered, Granting, FcAt, Grants
  <2>7. BlockSpent(Transfer')
    BY <2>6 DEF AgreeInv
  <2>8. Agreed => Agreeing(Transfer', Path', Answered', rx, lens', received', outcome', Granting', Slack')
    BY <1>1, <2>5, <2>6 DEF Agreed, Agreeing, Asked, CrRuns
  <2> QED BY <1>1, <2>7, <2>8, SenderAgrees
<1> QED BY <1>1, <1>2, <1>3

LEMMA TxStartAgrees ==
  ASSUME Shape, LinkInv, AgreeInv, link = "nodes", NEW n \in LensOf(link), TxStart(n),
         UNCHANGED <<send, link>>, Stmin < NCr
  PROVE  AgreeInv'
<1>1. /\ lens' = Append(lens, n) /\ outcome' = Append(outcome, "ongoing")
      /\ UNCHANGED <<rx, boxR, toR, toS, received, losses>>
  BY DEF TxStart, env
<1>2. PICK x \in Data(link) : Path' = Append(Path, x)
  BY NodeBegins
<1>3. /\ Transfer'.busy /\ Transfer'.msg = Len(lens) + 1 /\ Transfer'.offset = 1
      /\ n > 1 => Transfer'.waiting
  BY NodeBegins, NodeTransferAfter
<1>4. n \in Nat \ {0}
  BY LensPositive
<1>5. /\ InStep(Transfer, Path, Answered, rx, lens, received)
      /\ Values(Transfer, Path, rx, lens, Slack)
      /\ outcome \in Seq(Verdicts) /\ Len(outcome) = Len(lens) /\ "ongoing" \in Verdicts
  BY AgreeFacts DEF Verdicts
<1>6. (Answered' <=> Answered) /\ (Granting' <=> Granting)
  BY <1>1 DEF Answered, Granting, FcAt, Grants
<1>7. BlockSpent(Transfer')
  BY <1>3 DEF BlockSpent
<1> DEFINE w == Transfer'
<1>8. ASSUME Agreed
      PROVE  Agreeing(w, Append(Path, x), Answered, rx, Append(lens, n), received,
                      Append(outcome, "ongoing"), Granting, Slack')
  <2>1. w.busy => w.msg = Len(lens) + 1 /\ w.offset = 1 /\ (n > 1 => w.waiting)
    BY <1>3
  <2> HIDE DEF w
  <2> QED BY <1>4, <1>5, <1>8, <2>1, BeginsAgrees DEF Agreed
<1>9. Agreed =>
        Agreeing(Transfer', Path', Answered, rx, lens', received', outcome', Granting, Slack')
  BY <1>1, <1>2, <1>8, Zenon
<1>10. Agreed =>
         Agreeing(Transfer', Path', Answered', rx, lens', received', outcome', Granting', Slack')
  BY <1>6, <1>9, AgreeingOf
<1> QED BY <1>1, <1>7, <1>10, SenderAgrees

\* The sender takes flow control: an answer that says wait leaves another behind.
LEMMA GrantTaken ==
  ASSUME OneAnswer, toS \in Seq(OrApp(Fcs)), toS # <<>>, toS' = Tail(toS), UNCHANGED <<rx, boxR>>
  PROVE  /\ Granting' => Granting
         /\ Head(toS) = FC("CTS") => Granting
         /\ Head(toS) = FC("WAIT") => Answered'
<1>1. /\ Len(toS') = Len(toS) - 1 /\ Len(toS) \in Nat /\ Len(toS) > 0 /\ Head(toS) = toS[1]
      /\ \A i \in 1..Len(toS') : toS'[i] = toS[i + 1] /\ i + 1 \in 1..Len(toS)
  OBVIOUS
<1>2. \A i \in Grants(toS') : i + 1 \in Grants(toS)
  BY <1>1 DEF Grants
<1>3. Granting' => Granting
  BY <1>2 DEF Granting, Grants
<1>4. Head(toS) = FC("CTS") => Granting
  <2>1. 1 \in 1..Len(toS)
    BY <1>1
  <2> QED BY <1>1, <2>1 DEF Granting, Grants
<1>5. Head(toS) = FC("WAIT") => Answered'
  <2> SUFFICES ASSUME Head(toS) = FC("WAIT")
               PROVE  Answered'
    OBVIOUS
  <2>1. 1 \in 1..Len(toS) /\ toS[1].type = "FC" /\ toS[1] = FC("WAIT")
    BY <1>1 DEF FC
  <2>2. 1 < Len(toS)
    BY <2>1 DEF OneAnswer
  <2>3. 1 \in 1..Len(toS') /\ 2 \in 1..Len(toS) /\ toS'[1] = toS[1 + 1] /\ 1 + 1 = 2
    BY <1>1, <2>2
  <2>4. toS[2].type = "FC"
    BY <2>3 DEF OneAnswer
  <2>5. 1 \in FcAt(toS')
    BY <2>3, <2>4, Zenon DEF FcAt
  <2> QED BY <2>5 DEF Answered
<1> QED BY <1>3, <1>4, <1>5

\* A node's transfer ends.
LEMMA NodeEndsAgrees ==
  ASSUME Shape, LinkInv, AgreeInv, link = "nodes",
         UNCHANGED <<boxS, rx, boxR, toR, lens, received, losses, send, link>>,
         NEW t \in Senders(link), NEW verdict, Finish(t, verdict), t.msg = tx.msg,
         ~t.waitEnqueue, ~tx.waitEnqueue, Own = {}, tx.ongoing,
         Answered' => Answered, Granting' => Granting,
         verdict = "ok" => Transfer.offset = lens[Transfer.msg] /\ ~Transfer.waiting
  PROVE  AgreeInv'
<1>1. tx' = [t EXCEPT !.ongoing = FALSE] /\ outcome' = [outcome EXCEPT ![tx.msg] = verdict]
  BY DEF Finish
<1>2. ~tx'.ongoing /\ ~tx'.waitEnqueue
  BY <1>1 DEF Senders
<1>3. Own' = {} /\ Path' = Path
  BY <1>2 DEF Path, Pending, Own
<1>4. Transfer.busy /\ Transfer.msg = tx.msg /\ ~Transfer'.busy
  BY <1>2, NodeTransferAfter
<1>5. /\ InStep(Transfer, Path, Answered, rx, lens, received)
      /\ outcome \in Seq(Verdicts) /\ Len(outcome) = Len(lens)
  BY AgreeFacts
<1>6. Judged(lens, outcome, outcome', Transfer.msg, verdict)
  BY <1>1, <1>4, <1>5 DEF Judged
<1>7. BlockSpent(Transfer')
  BY <1>4 DEF BlockSpent
<1> DEFINE v == Transfer
           w == Transfer'
           f == Answered
           f2 == Answered'
           g == Granting
           g2 == Granting'
           s2 == Slack'
           oc2 == outcome'
<1>8. ASSUME Agreed
      PROVE  Agreeing(w, Path, f2, rx, lens, received, oc2, g2, s2)
  <2>1. /\ v.busy /\ ~w.busy /\ (verdict = "ok" => v.offset = lens[v.msg] /\ (~v.waiting \/ v.offset > 1))
        /\ Judged(lens, outcome, oc2, v.msg, verdict)
        /\ InStep(v, Path, f, rx, lens, received) /\ (f2 => f) /\ (g2 => g)
        /\ Agreeing(v, Path, f, rx, lens, received, outcome, g, Slack)
    BY <1>4, <1>5, <1>6, <1>8 DEF Agreed
  <2> HIDE DEF v, w, f, f2, g, g2, s2, oc2
  <2> QED BY <2>1, EndsAgreeing
<1>9. Agreed =>
        Agreeing(Transfer', Path', Answered', rx, lens', received', outcome', Granting', Slack')
  BY <1>3, <1>8, Zenon
<1> QED BY <1>7, <1>9, SenderAgrees

\* A step of a sender that neither hands over nor ends anything.
LEMMA StillAgrees ==
  ASSUME AgreeInv, link # "response",
         UNCHANGED <<rx, lens, received, outcome, losses, link>>,
         Transfer' = Transfer, Path' = Path, Slack' = Slack,
         Answered' <=> Answered, Granting' => Granting
  PROVE  AgreeInv'
<1>1. BlockSpent(Transfer')
  BY DEF AgreeInv
<1>2. Agreed => Agreeing(Transfer, Path, Answered', rx, lens, received, outcome, Granting', Slack)
  BY AgreeingOf DEF Agreed
<1>3. Agreed =>
        Agreeing(Transfer', Path', Answered', rx, lens', received', outcome', Granting', Slack')
  BY <1>2, Zenon
<1> QED BY <1>1, <1>3, SenderAgrees

LEMMA AppendSome ==
  ASSUME NEW S, NEW s \in Seq(S), NEW e
  PROVE  Append(s, e) # <<>>
<1>1. s \in Seq(S \cup {e}) /\ e \in S \cup {e}
  OBVIOUS
<1>2. \A T : \A t \in Seq(T), d \in T : Append(t, d) # <<>>
  OBVIOUS
<1> QED BY <1>1, <1>2, Zenon

LEMMA TxOnFrameAgrees ==
  ASSUME Shape, LinkInv, AgreeInv, link = "nodes", TxOnFrame, UNCHANGED <<send, link>>,
         BlockSize > 0
  PROVE  AgreeInv'
<1>1. /\ toS # <<>> /\ toS' = Tail(toS)
      /\ UNCHANGED <<boxS, rx, boxR, toR, lens, received, losses>>
  BY DEF TxOnFrame, env
<1>2. toS \in Seq(Fcs) /\ toS \in Seq(OrApp(Fcs)) /\ tx \in Senders(link)
  BY DEF Shape, BusShape, TxShape
<1>3. /\ Answered' => Answered
      /\ Head(toS).type = "FC" => Answered /\ (Head(toS) # FC("WAIT") => ~Answered')
      /\ Granting' => Granting
      /\ Head(toS) = FC("CTS") => Granting
      /\ Head(toS) = FC("WAIT") => Answered'
  BY <1>1, <1>2, AnswerTaken, GrantTaken DEF LinkInv
<1>4. Head(toS).type = "FC" /\ Head(toS) = FC(Head(toS).status)
  <2>1. Head(toS) \in Fcs
    BY <1>1, <1>2
  <2> QED BY <2>1 DEF Fcs, FC
<1>5. /\ InStep(Transfer, Path, TRUE, rx, lens, received) /\ Answered
      /\ Values(Transfer, Path, rx, lens, Slack)
  <2>1. InStep(Transfer, Path, Answered, rx, lens, received) /\ Answered
        /\ Values(Transfer, Path, rx, lens, Slack)
    BY <1>3, <1>4, AgreeFacts
  <2> QED BY <2>1, AnswerIs
<1>6. Transfer.busy /\ Transfer.waiting /\ Path = <<>>
  BY <1>5 DEF InStep, Awaited
<1>7. AcceptsFc /\ tx.ongoing
  BY <1>6, NodeTransferAfter DEF AcceptsFc
<1>8. ~tx.waitEnqueue /\ Own = {}
  <2>1. Pending => Path # <<>>
    <3>1. toR \in Seq(Data(link))
      BY LinkFacts
    <3>2. Append(toR, tx.frame) # <<>>
      BY <3>1, AppendSome
    <3> QED BY <3>2 DEF Path
  <2> QED BY <1>6, <2>1 DEF Pending
<1>9. CASE Head(toS).status = "WAIT"
  <2>1. PICK c \in {NCr, NBs} : tx' = [tx EXCEPT !.fcLeft = c]
    BY <1>7, <1>9, Zenon DEF TxOnFrame
  <2>2. UNCHANGED outcome
    BY <1>7, <1>9 DEF TxOnFrame
  <2>3. /\ tx'.waitEnqueue = tx.waitEnqueue /\ tx'.frame = tx.frame
        /\ tx'.ongoing = tx.ongoing /\ tx'.msg = tx.msg
        /\ tx'.offset = tx.offset /\ tx'.bs = tx.bs
        /\ tx'.inBlock = tx.inBlock /\ tx'.waitFc = tx.waitFc
        /\ tx'.sentCf = tx.sentCf /\ tx'.sinceCf = tx.sinceCf
    BY <1>2, <2>1 DEF Senders
  <2>4. Path' = Path
    BY <1>1, <2>3 DEF Path, Pending, Own
  <2>5. Transfer' = Transfer /\ Slack' = Slack
    BY <2>3 DEF Transfer, BlockFull, Slack
  <2>6. Answered'
    BY <1>3, <1>4, <1>9
  <2> QED BY <1>1, <1>3, <1>5, <2>2, <2>4, <2>5, <2>6, StillAgrees
<1>10. CASE Head(toS).status = "CTS"
  <2>1. tx' = [tx EXCEPT !.bs = BlockSize, !.waitFc = FALSE, !.afterBlock = FALSE,
                         !.inBlock = 0, !.fcLeft = NAs] /\ UNCHANGED outcome
    BY <1>7, <1>10 DEF TxOnFrame
  <2>2. /\ tx'.bs = BlockSize /\ ~tx'.waitFc /\ tx'.inBlock = 0
        /\ tx'.waitEnqueue = tx.waitEnqueue /\ tx'.frame = tx.frame
        /\ tx'.ongoing = tx.ongoing /\ tx'.msg = tx.msg /\ tx'.offset = tx.offset
        /\ tx'.sentCf = tx.sentCf /\ tx'.sinceCf = tx.sinceCf
    BY <1>2, <2>1, Ranges DEF Senders
  <2>3. Path' = Path
    BY <1>1, <2>2 DEF Path, Pending, Own
  <2>4. Slack' = Slack /\ Slack \in Nat
    BY <1>5, <2>2 DEF Slack, Values
  <2>5. ~Answered' /\ Granting
    <3>1. FC("CTS") # FC("WAIT")
      BY DEF FC
    <3> QED BY <1>3, <1>4, <1>10, <3>1
  <2>6. /\ Transfer'.busy /\ Transfer'.msg = Transfer.msg /\ Transfer'.offset = Transfer.offset
        /\ ~Transfer'.waiting
    <3>1. ~BlockFull(tx')
      BY <2>2, IsotpAssumption DEF BlockFull
    <3> QED BY <1>7, <2>2, <3>1, NodeTransferAfter
  <2>7. BlockSpent(Transfer')
    BY <2>6 DEF BlockSpent
  <2>8. ~Granting'
    BY <2>5, GrantIsAnswer
  <2> DEFINE v == Transfer
             w == Transfer'
  <2>9. Agreed => Agreeing(w, Path, FALSE, rx, lens, received, outcome, FALSE, Slack)
    <3>1. /\ InStep(v, Path, TRUE, rx, lens, received) /\ Values(v, Path, rx, lens, Slack)
          /\ w.busy /\ w.msg = v.msg /\ w.offset = v.offset /\ ~w.waiting
          /\ Agreed => Agreeing(v, Path, TRUE, rx, lens, received, outcome, TRUE, Slack)
      BY <1>5, <2>5, <2>6, AgreeingOf DEF Agreed
    <3> HIDE DEF v, w
    <3> QED BY <2>4, <3>1, GrantAgrees
  <2>10. Agreed => Agreeing(w, Path, Answered', rx, lens, received, outcome, Granting', Slack)
    BY <2>5, <2>8, <2>9, AgreeingOf
  <2>11. Agreed =>
           Agreeing(Transfer', Path', Answered', rx, lens', received', outcome', Granting', Slack')
    BY <1>1, <2>1, <2>3, <2>4, <2>10
  <2> QED BY <1>1, <2>7, <2>11, SenderAgrees
<1>11. CASE Head(toS).status \in {"OVERFLOW", "reserved"}
  <2>1. Finish(tx, Head(toS).status)
    BY <1>7, <1>11 DEF TxOnFrame
  <2> QED BY <1>1, <1>2, <1>3, <1>7, <1>8, <1>11, <2>1, NodeEndsAgrees
<1> QED BY <1>7, <1>9, <1>10, <1>11 DEF TxOnFrame

LEMMA TxPollEnqueueAgrees ==
  ASSUME Shape, LinkInv, AgreeInv, link = "nodes", TxPollEnqueue, UNCHANGED <<send, link>>
  PROVE  AgreeInv'
<1>1. /\ tx.ongoing /\ tx.waitEnqueue
      /\ UNCHANGED <<rx, boxR, toR, toS, lens, received, losses>>
  BY DEF TxPollEnqueue, env
<1>2. tx.asLeft # 0
  BY <1>1 DEF LinkInv, NodeSender
<1>3. /\ tx \in Senders(link) /\ boxS \in Seq(OrApp(Data(link))) /\ tx.frame \in Data(link)
  BY <1>1 DEF Shape, TxShape, BusShape
<1>4. /\ boxS' = Append(boxS, tx.frame) /\ UNCHANGED outcome
      /\ tx' = [tx EXCEPT !.waitEnqueue = FALSE, !.framePending = TRUE, !.asLeft = NAs]
  BY <1>2 DEF TxPollEnqueue
<1>5. /\ tx'.ongoing = tx.ongoing /\ tx'.msg = tx.msg /\ tx'.offset = tx.offset
      /\ tx'.inBlock = tx.inBlock /\ tx'.bs = tx.bs /\ tx'.waitFc = tx.waitFc
      /\ tx'.frame = tx.frame /\ tx'.sentCf = tx.sentCf /\ tx'.sinceCf = tx.sinceCf
  BY <1>3, <1>4 DEF Senders
<1>6. Own' # {}
  <2>1. tx.frame \in OrApp(Data(link)) /\ tx.frame.type # "app"
    BY <1>3 DEF OrApp, Data
  <2>2. Elements(boxS') = Elements(boxS) \cup {tx.frame}
    BY <1>3, <1>4, <2>1, ElementsAppended
  <2>3. Own' # {} <=> \E e \in Elements(boxS') : e.type # "app"
    BY DEF Own, Elements
  <2> QED BY <2>1, <2>2, <2>3
<1>7. Path' = Path
  BY <1>1, <1>5, <1>6 DEF Path, Pending
<1>8. Transfer' = Transfer /\ Slack' = Slack
  BY <1>5 DEF Transfer, BlockFull, Slack
<1>9. (Answered' <=> Answered) /\ (Granting' => Granting)
  BY <1>1 DEF Answered, Granting, FcAt, Grants
<1> QED BY <1>1, <1>4, <1>7, <1>8, <1>9, StillAgrees

LEMMA TxPollTransferAgrees ==
  ASSUME Shape, LinkInv, AgreeInv, link = "nodes", TxPollTransfer, UNCHANGED <<send, link>>,
         BlockSize > 0, Stmin < NCr
  PROVE  AgreeInv'
<1>1. PollReachesTransfer /\ UNCHANGED <<rx, boxR, toR, toS, lens, received, losses>>
  BY DEF TxPollTransfer, env
<1>2. /\ tx.ongoing /\ ~tx.waitEnqueue /\ Own = {} /\ Path = toR
      /\ Sent \in Senders(link) /\ SameProgress(tx, Sent) /\ ~Sent.waitEnqueue
      /\ Sent.msg = tx.msg
  BY <1>1, PollFinds DEF SameProgress
<1>3. tx \in Senders(link) /\ tx.offset <= tx.len /\ NodeSender
  BY DEF Shape, TxShape, LinkInv
<1>4. (Answered' <=> Answered) /\ (Granting' <=> Granting)
  BY <1>1 DEF Answered, Granting, FcAt, Grants
<1>5. /\ Transfer.busy = tx.ongoing /\ Transfer.msg = tx.msg
      /\ Transfer.offset = tx.offset /\ Transfer.inBlock = tx.inBlock
      /\ Transfer.waiting <=> tx.waitFc \/ BlockFull(tx)
  BY NodeTransferAfter
<1>6. CASE tx.waitFc /\ FcTimedOut /\ Finish(Sent, "timeout") /\ UNCHANGED boxS
  BY <1>1, <1>2, <1>4, <1>6, NodeEndsAgrees
<1>7. CASE /\ ~tx.waitFc /\ ~BlockFull(tx) /\ AllWritten(tx)
           /\ Finish(Sent, "ok") /\ UNCHANGED boxS
  <2>1. tx.len = lens[tx.msg] /\ tx.offset >= tx.len
    BY <1>2, <1>3, <1>7 DEF NodeSender, AllWritten
  <2>2. tx.offset \in Nat /\ tx.len \in Nat
    BY <1>3, LensPositive DEF Senders
  <2>3. tx.offset = tx.len
    BY ONLY <1>3, <2>1, <2>2
  <2>4. Transfer.offset = lens[Transfer.msg] /\ ~Transfer.waiting
    BY <1>5, <1>7, <2>1, <2>3
  <2> QED BY <1>1, <1>2, <1>4, <1>7, <2>4, NodeEndsAgrees
<1>8. CASE tx' = Sent /\ UNCHANGED <<boxS, outcome>>
  <2>1. Path' = Path
    BY <1>1, <1>2, <1>8 DEF Path, Pending, Own
  <2>2. Sent.sentCf = tx.sentCf /\ Sent.sinceCf = tx.sinceCf
    BY <1>3 DEF Sent, Senders
  <2>3. Transfer' = Transfer /\ Slack' = Slack
    BY <1>2, <1>8, <2>2 DEF Transfer, BlockFull, SameProgress, Slack
  <2> QED BY <1>1, <1>4, <1>8, <2>1, <2>3, StillAgrees
<1>9. CASE /\ ~tx.waitFc /\ BlockFull(tx) /\ UNCHANGED <<boxS, outcome>>
           /\ tx' = [Sent EXCEPT !.waitFc = TRUE, !.afterBlock = TRUE, !.fcLeft = NCr]
  <2>1. Sent.sentCf = tx.sentCf /\ Sent.sinceCf = tx.sinceCf
    BY <1>3 DEF Sent, Senders
  <2>2. /\ ~tx'.waitEnqueue /\ tx'.waitFc
        /\ tx'.ongoing = tx.ongoing /\ tx'.msg = tx.msg
        /\ tx'.offset = tx.offset /\ tx'.inBlock = tx.inBlock
        /\ tx'.sentCf = tx.sentCf /\ tx'.sinceCf = tx.sinceCf
    BY <1>2, <1>9, <2>1 DEF Senders, SameProgress
  <2>3. Path' = Path
    BY <1>1, <1>2, <1>9, <2>2 DEF Path, Pending, Own
  <2>4. Transfer' = Transfer /\ Slack' = Slack
    BY <1>9, <2>2 DEF Transfer, Slack
  <2> QED BY <1>1, <1>4, <1>9, <2>3, <2>4, StillAgrees
<1>10. CASE /\ ~tx.waitFc /\ ~BlockFull(tx) /\ ~AllWritten(tx)
            /\ Schedule([Sent EXCEPT !.offset = @ + 1, !.sn = NextSn(@),
                                     !.inBlock = @ + 1, !.sentCf = TRUE, !.sinceCf = 0],
                        CF(tx.sn, tx.msg, tx.offset + 1))
            /\ UNCHANGED outcome
  <2>1. UNCHANGED <<toR, link>>
    BY <1>1
  <2>2. /\ Transfer.busy /\ ~Transfer.waiting /\ Transfer.offset < lens[Transfer.msg]
        /\ tx.inBlock \in Nat
        /\ \E x \in Data(link) :
             /\ x.type = "CF" /\ x.data = Chunk(tx.msg, tx.offset + 1) /\ x.sn = tx.sn
             /\ Path' = Append(toR, x)
        /\ tx'.bs = BlockSize /\ tx.bs = BlockSize /\ ~tx'.waitFc
        /\ tx'.inBlock = tx.inBlock + 1
        /\ Transfer'.busy /\ Transfer'.msg = Transfer.msg
        /\ Transfer'.offset = Transfer.offset + 1 /\ Transfer'.inBlock = Transfer.inBlock + 1
    BY <1>1, <1>10, <2>1, NodeNext
  <2>3. PICK x \in Data(link) :
          /\ x.type = "CF" /\ x.data = Chunk(Transfer.msg, Transfer.offset + 1)
          /\ Path' = Append(Path, x)
    BY <1>2, <1>5, <2>2
  <2>4. BlockSpent(Transfer')
    <3>1. Transfer'.waiting => BlockFull(tx')
      BY <2>2, NodeTransferAfter
    <3>2. tx.inBlock < BlockSize /\ (BlockFull(tx') => tx'.inBlock >= BlockSize)
      <4>1. BlockSize \in Nat
        BY IsotpAssumption
      <4> QED BY <1>10, <2>2, <4>1 DEF BlockFull
    <3>3. \A a, b \in Nat : a < b /\ a + 1 >= b => a + 1 = b
      OBVIOUS
    <3>4. Transfer'.waiting => tx.inBlock + 1 = BlockSize
      BY <2>2, <3>1, <3>2, <3>3, IsotpAssumption
    <3> QED BY <1>5, <2>2, <3>4 DEF BlockSpent
  <2> DEFINE v == Transfer
             w == Transfer'
             s2 == Slack'
  <2>5. ASSUME Agreed
        PROVE  Agreeing(w, Append(Path, x), Answered, rx, lens, received, outcome, Granting, s2)
    <3>1. /\ InStep(v, Path, Answered, rx, lens, received) /\ Values(v, Path, rx, lens, Slack)
          /\ Agreeing(v, Path, Answered, rx, lens, received, outcome, Granting, Slack)
          /\ v.busy /\ ~v.waiting /\ v.offset < lens[v.msg] /\ w.busy /\ w.msg = v.msg
          /\ w.offset = v.offset + 1 /\ x.type = "CF" /\ x.data = Chunk(v.msg, v.offset + 1)
      BY <2>2, <2>3, <2>5, AgreeFacts DEF Agreed
    <3> HIDE DEF v, w, s2
    <3> QED BY <3>1, NextAgrees
  <2>6. Agreed =>
          Agreeing(Transfer', Path', Answered, rx, lens', received', outcome', Granting, Slack')
    BY <1>1, <1>10, <2>3, <2>5, Zenon
  <2>7. Agreed =>
          Agreeing(Transfer', Path', Answered', rx, lens', received', outcome', Granting', Slack')
    BY <1>4, <2>6, AgreeingOf
  <2> QED BY <1>1, <2>4, <2>7, SenderAgrees
<1> QED BY <1>1, <1>6, <1>7, <1>8, <1>9, <1>10 DEF TxPollTransfer

\* Time passes with nothing on the path: what a sender that is free to go on has
\* of its pause, the receiver has of N_Cr.
LEMMA TimeAgrees ==
  ASSUME NEW v, NEW r, NEW t, NEW ls, NEW rd, NEW oc, NEW s, NEW s2,
         Values(v, <<>>, r, ls, s), Agreeing(v, <<>>, FALSE, r, ls, rd, oc, FALSE, s),
         t.inProgress = r.inProgress, t.ready = r.ready, t.buf = r.buf,
         r.inProgress => r.crLeft > 0 /\ ~r.fcWait /\ ~r.fcPending /\ t.crLeft = r.crLeft - 1,
         v.busy /\ ~v.waiting => s2 = s + 1
  PROVE  Agreeing(v, <<>>, FALSE, t, ls, rd, oc, FALSE, s2)
<1>1. /\ OwedKept(v, <<>>, r, ls, rd, oc) /\ Asked(v, <<>>, FALSE, r)
      /\ CrRuns(v, <<>>, FALSE, r, ls, oc, s) /\ RxMsg(t) = RxMsg(r)
  BY DEF Agreeing, RxMsg
<1>2. OwedKept(v, <<>>, t, ls, rd, oc)
  BY <1>1, ArrivesStill
<1>3. Asked(v, <<>>, FALSE, t)
  BY <1>1 DEF Asked
<1>4. CrRuns(v, <<>>, FALSE, t, ls, oc, s2)
  <2> SUFFICES ASSUME t.inProgress, v.busy, v.msg = RxMsg(t), ~v.waiting
               PROVE  t.crLeft + s2 >= NCr
    BY DEF CrRuns
  <2>1. r.crLeft + s >= NCr
    BY <1>1 DEF CrRuns
  <2>2. r.crLeft \in Nat /\ s \in Nat /\ NCr \in Nat /\ r.crLeft > 0
    BY IsotpAssumption DEF Values
  <2>3. t.crLeft = r.crLeft - 1 /\ s2 = s + 1
    OBVIOUS
  <2>4. \A a, b \in Nat : a > 0 => (a - 1) + (b + 1) = a + b
    OBVIOUS
  <2> QED BY <2>1, <2>2, <2>3, <2>4
<1> QED BY <1>2, <1>3, <1>4 DEF Agreeing

LEMMA TickAgrees ==
  ASSUME Shape, LinkInv, AgreeInv, link = "nodes", Tick, UNCHANGED <<send, link>>, Prompt
  PROVE  AgreeInv'
<1>1. Quiescent /\ UNCHANGED <<boxS, boxR, toR, toS, lens, received, outcome, losses>>
  BY DEF Tick, bus, app, env
<1>2. tx' = [tx EXCEPT !.asLeft = Less(@), !.fcLeft = Less(@), !.sinceCf = More(@)]
  BY DEF Tick
<1>3. rx' = [rx EXCEPT !.arLeft = Less(@), !.crLeft = Less(@)]
  BY DEF Tick
<1>4. tx \in Senders(link) /\ rx \in Receivers /\ NodeSender
  BY DEF Shape, TxShape, RxShape, LinkInv
<1>5. /\ rx'.inProgress = rx.inProgress /\ rx'.ready = rx.ready /\ rx'.buf = rx.buf
      /\ rx'.fcWait = rx.fcWait /\ rx'.fc = rx.fc /\ rx'.fcPending = rx.fcPending
      /\ rx'.crLeft = Less(rx.crLeft)
  BY <1>3, <1>4 DEF Receivers
<1>6. /\ tx'.ongoing = tx.ongoing /\ tx'.msg = tx.msg
      /\ tx'.offset = tx.offset /\ tx'.bs = tx.bs
      /\ tx'.inBlock = tx.inBlock /\ tx'.waitFc = tx.waitFc
      /\ tx'.waitEnqueue = tx.waitEnqueue /\ tx'.frame = tx.frame
      /\ tx'.sentCf = tx.sentCf /\ tx'.sinceCf = More(tx.sinceCf)
  BY <1>2, <1>4 DEF Senders
<1>7. /\ Path = <<>> /\ Path' = Path /\ ~Answered /\ ~Answered' /\ ~Granting /\ ~Granting'
      /\ ~rx.fcWait
  <2>1. boxS = <<>> /\ boxR = <<>> /\ toR = <<>> /\ toS = <<>> /\ ~rx.fcWait
        /\ (tx.ongoing => ~tx.waitEnqueue)
    BY <1>1 DEF Quiescent
  <2>2. Own = {} /\ Own' = {} /\ FcAt(boxR) = {} /\ FcAt(toS) = {}
    BY <1>1, <2>1 DEF Own, FcAt
  <2>3. ~tx.waitEnqueue
    BY <1>4, <2>1 DEF NodeSender
  <2>4. ~Answered /\ ~Answered'
    BY <1>1, <1>5, <2>1, <2>2 DEF Answered
  <2> QED BY <1>1, <1>6, <2>1, <2>2, <2>3, <2>4, GrantIsAnswer DEF Path, Pending
<1>8. Transfer' = Transfer
  BY <1>6 DEF Transfer, BlockFull
<1>9. rx.inProgress => rx.crLeft > 0 /\ ~rx.fcWait /\ ~rx.fcPending /\ rx'.crLeft = rx.crLeft - 1
  <2>1. rx.crLeft \in Nat
    BY AgreeFacts DEF Values
  <2>2. rx.inProgress => ~rx.fcPending /\ rx.crLeft # 0
    BY <1>1 DEF Quiescent, CrTimedOut
  <2> QED BY <1>5, <1>7, <2>1, <2>2 DEF Less
<1>10. Transfer.busy /\ ~Transfer.waiting => Slack' = Slack + 1
  <2> SUFFICES ASSUME Transfer.busy, ~Transfer.waiting
               PROVE  Slack' = Slack + 1
    OBVIOUS
  <2>1. tx.ongoing /\ ~tx.waitFc
    BY NodeTransferAfter
  <2>2. tx.sentCf /\ ~(tx.sinceCf >= Stmin)
    BY <1>1, <2>1 DEF Quiescent, StminElapsed
  <2>3. tx.sinceCf \in 0..Stmin /\ Stmin \in Nat
    BY <1>4, IsotpAssumption DEF Senders
  <2>4. More(tx.sinceCf) = tx.sinceCf + 1
    BY <2>2, <2>3 DEF More
  <2> QED BY <1>6, <2>2, <2>4 DEF Slack
<1>11. ArRuns' /\ BlockSpent(Transfer)'
  BY <1>5, <1>7, <1>8, <1>9 DEF ArRuns, AgreeInv, BlockSpent
<1> DEFINE v == Transfer
           s == Slack
           s2 == Slack'
           t == rx'
<1>12. ASSUME Agreed
       PROVE  Agreeing(v, <<>>, FALSE, t, lens, received, outcome, FALSE, s2)
  <2>1. /\ Values(v, <<>>, rx, lens, s)
        /\ Agreeing(v, <<>>, FALSE, rx, lens, received, outcome, FALSE, s)
        /\ t.inProgress = rx.inProgress /\ t.ready = rx.ready /\ t.buf = rx.buf
        /\ rx.inProgress => rx.crLeft > 0 /\ ~rx.fcWait /\ ~rx.fcPending /\ t.crLeft = rx.crLeft - 1
        /\ v.busy /\ ~v.waiting => s2 = s + 1
    <3>1. Agreeing(v, <<>>, FALSE, rx, lens, received, outcome, FALSE, s)
      <4>1. OwedKept(v, <<>>, rx, lens, received, outcome)
        BY <1>7, <1>12 DEF Agreed, Agreeing
      <4> QED BY <1>7, <1>12, <4>1 DEF Agreed, Agreeing, Asked, CrRuns
    <3> QED BY <1>5, <1>7, <1>9, <1>10, <3>1, AgreeFacts
  <2> HIDE DEF v, s, s2, t
  <2> QED BY <2>1, TimeAgrees
<1>13. ASSUME Agreed
       PROVE  Agreed'
  <2> DEFINE f2 == Answered'
             g2 == Granting'
  <2>1. Agreeing(v, <<>>, f2, t, lens, received, outcome, g2, s2)
    <3>1. (f2 <=> FALSE) /\ (g2 => FALSE)
          /\ Agreeing(v, <<>>, FALSE, t, lens, received, outcome, FALSE, s2)
      BY <1>7, <1>12, <1>13
    <3> HIDE DEF v, s2, t, f2, g2
    <3> QED BY <3>1, AgreeingOf
  <2>2. Path' = <<>>
    BY <1>7
  <2> QED BY <1>1, <1>8, <2>1, <2>2, Zenon DEF Agreed
<1> QED BY <1>1, <1>11, <1>13 DEF AgreeInv

\* A frame of the PC is lost or joins the path.
LEMMA CallSends ==
  ASSUME AgreeInv, link = "request", losses \in Nat, UNCHANGED <<rx, boxR, toS, received, link>>,
         NEW x, SendFrame(x), BlockSpent(Transfer'),
         losses = 0 /\ Agreed =>
           Agreeing(Transfer', Append(toR, x), Answered, rx, lens', received, outcome', Granting, Slack')
  PROVE  AgreeInv'
<1>1. CASE toR' = Append(toR, x) /\ UNCHANGED losses
  <2>1. Path' = Append(toR, x)
    BY <1>1, CallTransferAfter
  <2>2. (Answered' <=> Answered) /\ (Granting' => Granting)
    BY DEF Answered, Granting, FcAt, Grants
  <2> DEFINE w == Transfer'
             p == Append(toR, x)
             f2 == Answered'
             g2 == Granting'
             s2 == Slack'
             ls2 == lens'
             oc2 == outcome'
  <2>3. ASSUME losses = 0, Agreed
        PROVE  Agreeing(w, p, f2, rx, ls2, received, oc2, g2, s2)
    <3>1. /\ Agreeing(w, p, Answered, rx, ls2, received, oc2, Granting, s2)
          /\ (f2 <=> Answered) /\ (g2 => Granting)
      BY <2>2, <2>3
    <3> HIDE DEF w, p, f2, g2, s2, ls2, oc2
    <3> QED BY <3>1, AgreeingOf
  <2>4. losses = 0 /\ Agreed =>
          Agreeing(Transfer', Path', Answered', rx, lens', received', outcome', Granting', Slack')
    BY <2>1, <2>3, Zenon
  <2> QED BY <1>1, <2>4, SenderAgrees
<1>2. CASE losses' = losses + 1
  <2>1. ArRuns' /\ losses' # 0
    BY <1>2 DEF AgreeInv, ArRuns
  <2> QED BY <2>1 DEF AgreeInv, BlockSpent
<1> QED BY <1>1, <1>2 DEF SendFrame

LEMMA PcSendAgrees ==
  ASSUME Shape, LinkInv, AgreeInv, link = "request", NEW n \in Requests, PcSend(n), UNCHANGED link,
         Stmin < NCr
  PROVE  AgreeInv'
<1> DEFINE m == Len(lens) + 1
<1>1. /\ send.at = "idle" /\ lens' = Append(lens, n)
      /\ UNCHANGED <<rx, boxR, toS, received>>
  BY DEF PcSend
<1>2. m \in Numbers /\ n \in Nat \ {0} /\ Len(lens) \in Nat /\ lens \in Seq(Nat \ {0})
      /\ losses \in Nat
  <2>1. Len(lens) \in Nat /\ Len(lens) < MaxMsgs /\ lens \in Seq(Nat \ {0}) /\ losses \in Nat
    BY DEF PcSend, Shape, AppShape
  <2> QED BY <2>1, SendAssumption, IsotpAssumption DEF Numbers
<1>3. Len(lens') = m
  BY <1>1, <1>2
<1>4. \/ /\ n = 1 /\ SendFrame(SF(m)) /\ UNCHANGED send
         /\ outcome' = Append(outcome, "ok")
      \/ /\ n > 1 /\ SendFrame(FF(m, n)) /\ send' = AwaitsFc([NoSend EXCEPT !.msg = m, !.len = n])
         /\ outcome' = Append(outcome, "ongoing")
  BY <1>3 DEF PcSend
<1>5. /\ InStep(Transfer, toR, Answered, rx, lens, received)
      /\ Values(Transfer, toR, rx, lens, Slack) /\ Path = toR
      /\ outcome \in Seq(Verdicts) /\ Len(outcome) = Len(lens)
  BY AgreeFacts, CallTransfer
<1> HIDE DEF m
<1>6. SF(m) \in Data(link) /\ (n > 1 => FF(m, n) \in Data(link))
  <2>1. n > 1 => n \in LensOf(link) \ {1}
    BY <1>2 DEF LensOf
  <2> QED BY <1>2, <2>1, FrameTypes, Zenon
<1>7. ASSUME NEW x \in Data(link), SendFrame(x), NEW verdict \in Verdicts,
             outcome' = Append(outcome, verdict), n > 1 => verdict = "ongoing",
             Transfer'.busy => Transfer'.msg = m /\ Transfer'.offset = 1 /\ (n > 1 => Transfer'.waiting)
      PROVE  AgreeInv'
  <2> DEFINE w == Transfer'
             v == Transfer
             s2 == Slack'
  <2>1. BlockSpent(w)
    BY <1>7 DEF BlockSpent
  <2>2. ASSUME Agreed
        PROVE  Agreeing(w, Append(toR, x), Answered, rx, Append(lens, n), received,
                        Append(outcome, verdict), Granting, s2)
    <3>1. /\ InStep(v, toR, Answered, rx, lens, received) /\ Values(v, toR, rx, lens, Slack)
          /\ Agreeing(v, toR, Answered, rx, lens, received, outcome, Granting, Slack)
          /\ w.busy => w.msg = Len(lens) + 1 /\ w.offset = 1 /\ (n > 1 => w.waiting)
      BY <1>5, <1>7, <2>2 DEF Agreed, m
    <3> HIDE DEF v, w, s2
    <3> QED BY <1>2, <1>5, <1>7, <3>1, BeginsAgrees
  <2>3. Agreed =>
          Agreeing(Transfer', Append(toR, x), Answered, rx, lens', received, outcome', Granting, Slack')
    BY <1>1, <1>7, <2>2, Zenon
  <2> QED BY <1>1, <1>2, <1>7, <2>1, <2>3, CallSends
<1>8. CASE /\ n = 1 /\ SendFrame(SF(m)) /\ UNCHANGED send
           /\ outcome' = Append(outcome, "ok")
  <2>1. ~Transfer'.busy
    BY <1>1, <1>8, CallTransferAfter
  <2>2. "ok" \in Verdicts
    BY DEF Verdicts
  <2> QED BY <1>6, <1>7, <1>8, <2>1, <2>2
<1>9. CASE /\ n > 1 /\ SendFrame(FF(m, n))
           /\ send' = AwaitsFc([NoSend EXCEPT !.msg = m, !.len = n])
           /\ outcome' = Append(outcome, "ongoing")
  <2>1. send'.at = "fc" /\ send'.msg = m /\ send'.sent = 0
    BY <1>9 DEF AwaitsFc, NoSend
  <2>2. Transfer'.msg = m /\ Transfer'.offset = 1 /\ Transfer'.waiting
    BY <2>1, CallTransferAfter
  <2>3. "ongoing" \in Verdicts
    BY DEF Verdicts
  <2> QED BY <1>6, <1>7, <1>9, <2>2, <2>3
<1> QED BY <1>4, <1>8, <1>9

\* send() gives a message up.
LEMMA CallEndsAgrees ==
  ASSUME Shape, LinkInv, AgreeInv, link = "request",
         UNCHANGED <<rx, toR, lens, received, losses, link>>,
         NEW verdict, SendEnds(verdict), verdict # "ok", send.at # "idle",
         Answered' => Answered, Granting' => Granting
  PROVE  AgreeInv'
<1>1. send' = NoSend /\ outcome' = [outcome EXCEPT ![send.msg] = verdict]
  BY DEF SendEnds
<1>2. /\ Transfer.busy /\ Transfer.msg = send.msg /\ ~Transfer'.busy /\ Path' = Path
  BY <1>1, CallTransfer, CallTransferAfter DEF NoSend
<1>3. /\ InStep(Transfer, Path, Answered, rx, lens, received)
      /\ outcome \in Seq(Verdicts) /\ Len(outcome) = Len(lens)
  BY AgreeFacts
<1>4. Judged(lens, outcome, outcome', Transfer.msg, verdict)
  BY <1>1, <1>2, <1>3 DEF Judged
<1>5. BlockSpent(Transfer')
  BY <1>2 DEF BlockSpent
<1> DEFINE v == Transfer
           w == Transfer'
           f == Answered
           f2 == Answered'
           g == Granting
           g2 == Granting'
           s2 == Slack'
           oc2 == outcome'
<1>6. ASSUME Agreed
      PROVE  Agreeing(w, Path, f2, rx, lens, received, oc2, g2, s2)
  <2>1. /\ v.busy /\ ~w.busy /\ Judged(lens, outcome, oc2, v.msg, verdict)
        /\ InStep(v, Path, f, rx, lens, received) /\ (f2 => f) /\ (g2 => g)
        /\ Agreeing(v, Path, f, rx, lens, received, outcome, g, Slack)
    BY <1>2, <1>3, <1>4, <1>6 DEF Agreed
  <2> HIDE DEF v, w, f, f2, g, g2, s2, oc2
  <2> QED BY <2>1, EndsAgreeing
<1>7. Agreed =>
        Agreeing(Transfer', Path', Answered', rx, lens', received', outcome', Granting', Slack')
  BY <1>2, <1>6, Zenon
<1> QED BY <1>5, <1>7, SenderAgrees

LEMMA WaitFlowControlAgrees ==
  ASSUME Shape, LinkInv, AgreeInv, link = "request", WaitFlowControl, UNCHANGED link
  PROVE  AgreeInv'
<1>1. /\ send.at = "fc" /\ toS # <<>> /\ toS' = Tail(toS)
      /\ UNCHANGED <<tx, rx, boxS, boxR, toR, lens, received, losses>>
  BY DEF WaitFlowControl, env
<1>2. toS \in Seq(OrApp(Fcs)) /\ send \in SendCalls
  BY DEF Shape, BusShape, SendShape
<1>3. /\ Answered' => Answered
      /\ Head(toS).type = "FC" => Answered /\ (Head(toS) # FC("WAIT") => ~Answered')
      /\ Granting' => Granting
      /\ Head(toS) = FC("CTS") => Granting
      /\ Head(toS) = FC("WAIT") => Answered'
  BY <1>1, <1>2, AnswerTaken, GrantTaken DEF LinkInv
<1>4. Transfer.busy /\ Transfer.offset = send.sent + 1 /\ Path' = Path
  BY <1>1, CallTransfer, CallTransferAfter
<1>5. /\ InStep(Transfer, Path, Answered, rx, lens, received)
      /\ Values(Transfer, Path, rx, lens, Slack) /\ Stmin \in Nat
  BY AgreeFacts
<1>6. CASE Head(toS).type # "FC" /\ UNCHANGED <<send, outcome>>
  <2>1. Answered => Answered'
    <3>1. /\ Len(toS') = Len(toS) - 1 /\ Len(toS) \in Nat /\ Head(toS) = toS[1]
          /\ \A i \in 1..Len(toS) : i # 1 => i - 1 \in 1..Len(toS') /\ toS'[i - 1] = toS[i]
      BY <1>1, <1>2
    <3>2. \A i \in FcAt(toS) : i - 1 \in FcAt(toS')
      BY <1>6, <3>1 DEF FcAt
    <3> QED BY <1>1, <3>2 DEF Answered, FcAt
  <2> QED BY <1>1, <1>3, <1>6, <2>1, AnswersMove
<1>7. CASE Head(toS) = FC("WAIT") /\ send' = AwaitsFc(send) /\ UNCHANGED outcome
  <2>1. /\ send'.at = "fc" /\ send'.msg = send.msg /\ send'.sent = send.sent
        /\ send'.inBlock = send.inBlock /\ send'.pause = send.pause
    BY <1>1, <1>2, <1>7 DEF AwaitsFc, SendCalls
  <2>2. Transfer' = Transfer /\ Slack' = Slack
    BY <1>1, <2>1 DEF Transfer, Slack
  <2>3. Answered' <=> Answered
    BY <1>3, <1>7
  <2> QED BY <1>1, <1>3, <1>4, <1>7, <2>2, <2>3, StillAgrees
<1>8. CASE /\ Head(toS) = FC("CTS") /\ UNCHANGED outcome
           /\ send' = [send EXCEPT !.at = "cf", !.inBlock = 0, !.pause = Stmin]
  <2>1. /\ send'.at = "cf" /\ send'.msg = send.msg /\ send'.sent = send.sent
        /\ send'.pause = Stmin
    BY <1>2, <1>8 DEF SendCalls
  <2>2. Slack' = 0
    BY <1>5, <2>1 DEF Slack
  <2>3. Answered /\ ~Answered' /\ Granting /\ ~Granting'
    <3>1. FC("CTS") # FC("WAIT") /\ FC("CTS").type = "FC"
      BY DEF FC
    <3> QED BY <1>3, <1>8, <3>1, GrantIsAnswer
  <2>4. /\ Transfer'.busy /\ Transfer'.msg = Transfer.msg /\ Transfer'.offset = Transfer.offset
        /\ ~Transfer'.waiting
    BY <1>4, <2>1, CallTransfer, CallTransferAfter
  <2>5. BlockSpent(Transfer')
    BY <2>4 DEF BlockSpent
  <2> DEFINE v == Transfer
             w == Transfer'
             f2 == Answered'
             g2 == Granting'
             s2 == Slack'
  <2>6. ASSUME Agreed
        PROVE  Agreeing(w, Path, f2, rx, lens, received, outcome, g2, s2)
    <3>1. InStep(v, Path, TRUE, rx, lens, received)
      BY <1>5, <2>3, AnswerIs
    <3>2. Agreeing(v, Path, TRUE, rx, lens, received, outcome, TRUE, Slack)
      BY <2>3, <2>6, AgreeingOf DEF Agreed
    <3>3. /\ Values(v, Path, rx, lens, Slack) /\ s2 \in Nat
          /\ w.busy /\ w.msg = v.msg /\ w.offset = v.offset /\ ~w.waiting
          /\ (f2 <=> FALSE) /\ (g2 => FALSE)
      BY <1>5, <2>2, <2>3, <2>4
    <3> HIDE DEF v, w, f2, g2, s2
    <3>4. Agreeing(w, Path, FALSE, rx, lens, received, outcome, FALSE, s2)
      BY <3>1, <3>2, <3>3, GrantAgrees
    <3> QED BY <3>3, <3>4, AgreeingOf
  <2>7. Agreed =>
          Agreeing(Transfer', Path', Answered', rx, lens', received', outcome', Granting', Slack')
    BY <1>1, <1>4, <1>8, <2>6, Zenon
  <2> QED BY <1>1, <2>5, <2>7, SenderAgrees
<1>9. ASSUME SendEnds("timeout") \/ SendEnds("OVERFLOW") \/ SendEnds("reserved")
      PROVE  AgreeInv'
  BY <1>1, <1>3, <1>9, CallEndsAgrees
<1>10. CASE Head(toS) \in {FC("OVERFLOW"), FC("reserved")} /\ SendEnds(Head(toS).status)
  <2>1. Head(toS).status \in {"OVERFLOW", "reserved"}
    BY <1>10 DEF FC
  <2> QED BY <1>9, <1>10, <2>1
<1> QED BY <1>6, <1>7, <1>8, <1>9, <1>10 DEF WaitFlowControl

LEMMA FlowControlTimeoutAgrees ==
  ASSUME Shape, LinkInv, AgreeInv, link = "request", FlowControlTimeout, UNCHANGED link
  PROVE  AgreeInv'
<1>1. /\ send.at = "fc" /\ SendEnds("timeout")
      /\ UNCHANGED <<rx, boxR, toR, toS, lens, received, losses>>
  BY DEF FlowControlTimeout, bus, env
<1>2. (Answered' => Answered) /\ (Granting' => Granting)
  BY <1>1 DEF Answered, Granting, FcAt, Grants
<1> QED BY <1>1, <1>2, CallEndsAgrees

LEMMA OtherRequestFramesAgree ==
  ASSUME Shape, LinkInv, AgreeInv, link = "request", OtherRequestFrames, UNCHANGED link
  PROVE  AgreeInv'
<1>1. /\ UNCHANGED <<tx, rx, boxS, toR, send, lens, received, outcome, losses>>
      /\ \/ boxR' = Append(boxR, AppFrame) /\ UNCHANGED toS
         \/ toS = <<>> /\ toS' = <<AppFrame>> /\ UNCHANGED boxR
  BY DEF OtherRequestFrames, app, env
<1> QED BY <1>1, OtherFramesAgree

LEMMA SendTickAgrees ==
  ASSUME Shape, LinkInv, AgreeInv, link = "request", SendTick, UNCHANGED link, Prompt
  PROVE  AgreeInv'
<1>1. SendQuiescent /\ UNCHANGED <<boxR, toR, toS, lens, received, outcome, losses>>
  BY DEF SendTick, bus, app, env
<1>2. /\ send' = [send EXCEPT !.left = Less(@), !.pause = Less(@)]
      /\ rx' = [rx EXCEPT !.arLeft = Less(@), !.crLeft = Less(@)]
  BY DEF SendTick
<1>3. send \in SendCalls /\ rx \in Receivers
  BY DEF Shape, SendShape, RxShape
<1>4. /\ rx'.inProgress = rx.inProgress /\ rx'.ready = rx.ready /\ rx'.buf = rx.buf
      /\ rx'.fcWait = rx.fcWait /\ rx'.fc = rx.fc /\ rx'.fcPending = rx.fcPending
      /\ rx'.crLeft = Less(rx.crLeft)
  BY <1>2, <1>3 DEF Receivers
<1>5. /\ send'.at = send.at /\ send'.msg = send.msg /\ send'.sent = send.sent
      /\ send'.inBlock = send.inBlock /\ send'.pause = Less(send.pause)
  BY <1>2, <1>3 DEF SendCalls
<1>6. Path = <<>> /\ Path' = <<>> /\ Transfer' = Transfer
  BY <1>1, <1>5 DEF SendQuiescent, Path, Transfer
<1>7. ~rx.fcWait /\ ~Answered /\ ~Answered' /\ ~Granting /\ ~Granting'
  <2>1. boxR = <<>> /\ ~rx.fcWait /\ (send.at = "fc" => toS = <<>>)
    BY <1>1 DEF SendQuiescent
  <2>2. Answered => send.at = "fc"
    BY AgreeFacts, CallTransfer DEF InStep, Awaited
  <2>3. FcAt(<<>>) = {}
    BY DEF FcAt
  <2>4. ~Answered
    BY <2>1, <2>2, <2>3 DEF Answered
  <2>5. Answered' <=> Answered
    BY <1>1, <1>4 DEF Answered, FcAt
  <2> QED BY <2>1, <2>4, <2>5, GrantIsAnswer
<1>8. rx.inProgress => rx.crLeft > 0 /\ ~rx.fcWait /\ ~rx.fcPending /\ rx'.crLeft = rx.crLeft - 1
  <2>1. rx.crLeft \in Nat
    BY AgreeFacts DEF Values
  <2>2. rx.inProgress => ~rx.fcPending /\ rx.crLeft # 0
    BY <1>1 DEF SendQuiescent, CrTimedOut
  <2> QED BY <1>4, <1>7, <2>1, <2>2 DEF Less
<1>9. Transfer.busy /\ ~Transfer.waiting => Slack' = Slack + 1
  <2> SUFFICES ASSUME Transfer.busy, ~Transfer.waiting
               PROVE  Slack' = Slack + 1
    OBVIOUS
  <2>1. send.at = "cf"
    BY <1>3, CallTransfer DEF SendCalls
  <2>2. send.pause > 0
    BY <1>1, <2>1 DEF SendQuiescent
  <2>3. send.pause \in 0..Stmin /\ Stmin \in Nat
    BY <1>3, IsotpAssumption DEF SendCalls
  <2>4. \A a, b \in Nat : a > 0 => b - Less(a) = (b - a) + 1
    BY DEF Less
  <2>5. Stmin - Less(send.pause) = (Stmin - send.pause) + 1
    <3>1. send.pause \in Nat
      BY <2>3
    <3> QED BY <2>2, <2>3, <2>4, <3>1, Zenon
  <2> QED BY <1>5, <2>5 DEF Slack
<1>10. ArRuns' /\ BlockSpent(Transfer)'
  BY <1>4, <1>6, <1>7, <1>8 DEF ArRuns, AgreeInv, BlockSpent
<1> DEFINE v == Transfer
           s == Slack
           s2 == Slack'
           t == rx'
<1>11. ASSUME Agreed
       PROVE  Agreeing(v, <<>>, FALSE, t, lens, received, outcome, FALSE, s2)
  <2>1. /\ Values(v, <<>>, rx, lens, s)
        /\ Agreeing(v, <<>>, FALSE, rx, lens, received, outcome, FALSE, s)
        /\ t.inProgress = rx.inProgress /\ t.ready = rx.ready /\ t.buf = rx.buf
        /\ rx.inProgress => rx.crLeft > 0 /\ ~rx.fcWait /\ ~rx.fcPending /\ t.crLeft = rx.crLeft - 1
        /\ v.busy /\ ~v.waiting => s2 = s + 1
    <3>1. Agreeing(v, <<>>, FALSE, rx, lens, received, outcome, FALSE, s)
      <4>1. OwedKept(v, <<>>, rx, lens, received, outcome)
        BY <1>6, <1>11 DEF Agreed, Agreeing
      <4> QED BY <1>6, <1>7, <1>11, <4>1 DEF Agreed, Agreeing, Asked, CrRuns
    <3> QED BY <1>4, <1>6, <1>8, <1>9, <3>1, AgreeFacts
  <2> HIDE DEF v, s, s2, t
  <2> QED BY <2>1, TimeAgrees
<1>12. ASSUME Agreed
       PROVE  Agreed'
  <2> DEFINE f2 == Answered'
             g2 == Granting'
  <2>1. Agreeing(v, <<>>, f2, t, lens, received, outcome, g2, s2)
    <3>1. (f2 <=> FALSE) /\ (g2 => FALSE)
          /\ Agreeing(v, <<>>, FALSE, t, lens, received, outcome, FALSE, s2)
      BY <1>7, <1>11, <1>12
    <3> HIDE DEF v, s2, t, f2, g2
    <3> QED BY <3>1, AgreeingOf
  <2>2. Path' = <<>>
    BY <1>6
  <2> QED BY <1>1, <1>6, <2>1, <2>2, Zenon DEF Agreed
<1> QED BY <1>1, <1>10, <1>12 DEF AgreeInv

LEMMA SendConsecutiveAgrees ==
  ASSUME Shape, LinkInv, AgreeInv, link = "request", SendConsecutive, UNCHANGED link,
         BlockSize > 0, Stmin < NCr
  PROVE  AgreeInv'
<1> DEFINE x == NextFrame
           v == Transfer
           w == NextTransfer
           u == Transfer'
           p == Append(toR, x)
           oc2 == outcome'
           s2 == Slack'
<1>1. /\ SendFrame(x) /\ x \in Data(link) /\ x.type = "CF" /\ x.data = Chunk(v.msg, v.offset + 1)
      /\ UNCHANGED <<rx, boxR, toS, lens, received>>
      /\ v.busy /\ ~v.waiting /\ v.msg = send.msg /\ v.offset < lens[v.msg] /\ Path = toR
      /\ w.busy /\ w.msg = v.msg /\ w.offset = v.offset + 1 /\ w.inBlock = v.inBlock + 1
      /\ InStep(w, p, Answered, rx, lens, received)
      /\ \/ AllSent(NextCall) /\ SendEnds("ok") /\ w.offset = lens[w.msg]
         \/ UNCHANGED outcome /\ SameSender(w, u) /\ (w.waiting => BlockSent(NextCall))
  BY CallNext
<1>2. /\ InStep(v, toR, Answered, rx, lens, received) /\ Values(v, toR, rx, lens, Slack)
      /\ outcome \in Seq(Verdicts) /\ Len(outcome) = Len(lens) /\ v.offset \in Nat
      /\ losses \in Nat
  BY <1>1, AgreeFacts DEF Values, Shape, AppShape
<1>3. w.offset > 1
  <2>1. v.offset \in 1..lens[v.msg]
    BY <1>1, <1>2 DEF InStep, OwnTransfer
  <2> QED BY <1>1, <1>2, <2>1
<1>4. w.waiting => w.inBlock = BlockSize
  <2>1. NextTransfer.waiting = BlockSent(NextCall) /\ NextTransfer.inBlock = send.inBlock + 1
    BY DEF NextTransfer
  <2>2. NextCall.inBlock = send.inBlock + 1
    BY DEF NextCall, Shape, SendShape, SendCalls
  <2> QED BY <2>1, <2>2 DEF BlockSent
<1>5. SendEnds("ok") => ~u.busy /\ Judged(lens, outcome, oc2, w.msg, "ok")
  <2> SUFFICES ASSUME SendEnds("ok")
               PROVE  ~u.busy /\ Judged(lens, outcome, oc2, w.msg, "ok")
    OBVIOUS
  <2>1. send' = NoSend /\ outcome' = [outcome EXCEPT ![send.msg] = "ok"]
    BY DEF SendEnds
  <2>2. ~u.busy
    BY <2>1, CallTransferAfter DEF NoSend
  <2> HIDE DEF w
  <2> QED BY <1>1, <1>2, <2>1, <2>2 DEF Judged
<1>6. u = Transfer' /\ oc2 = outcome' /\ s2 = Slack' /\ p = Append(toR, x)
  OBVIOUS
<1> HIDE DEF x, v, w, u, oc2, s2
<1>7. BlockSpent(u)
  BY <1>1, <1>4, <1>5 DEF BlockSpent, SameSender
<1>8. ASSUME Agreed
      PROVE  Agreeing(u, p, Answered, rx, lens, received, oc2, Granting, s2)
  <2>1. Agreeing(v, toR, Answered, rx, lens, received, outcome, Granting, Slack)
    BY <1>1, <1>8 DEF Agreed, v
  <2>2. ASSUME NEW e, e.busy, e.msg = w.msg, e.offset = w.offset
        PROVE  Agreeing(e, p, Answered, rx, lens, received, outcome, Granting, s2)
    <3>1. e.msg = v.msg /\ e.offset = v.offset + 1
      BY <1>1, <2>2
    <3> QED BY <1>1, <1>2, <2>1, <2>2, <3>1, NextAgrees
  <2>3. CASE SendEnds("ok") /\ w.offset = lens[w.msg]
    <3>1. Agreeing(w, p, Answered, rx, lens, received, outcome, Granting, s2)
      BY <1>1, <2>2
    <3> HIDE DEF p
    <3> QED BY <1>1, <1>3, <1>5, <2>3, <3>1, EndsAgreeing
  <2>4. CASE UNCHANGED outcome /\ SameSender(w, u)
    <3>1. u.busy /\ u.msg = w.msg /\ u.offset = w.offset
      BY <1>1, <2>4 DEF SameSender
    <3>2. Agreeing(u, p, Answered, rx, lens, received, outcome, Granting, s2)
      BY <2>2, <3>1
    <3> QED BY <1>6, <2>4, <3>2
  <2> QED BY <1>1, <2>3, <2>4
<1>9. Agreed =>
        Agreeing(Transfer', Append(toR, x), Answered, rx, lens', received, outcome', Granting, Slack')
  BY <1>1, <1>6, <1>8, Zenon
<1> QED BY <1>1, <1>2, <1>6, <1>7, <1>9, CallSends

-------------------------------------------------------------------------------
LEMMA AgreeInvInit == LinksInit => AgreeInv
<1> SUFFICES ASSUME LinksInit, link # "response" PROVE AgreeInv
  BY DEF AgreeInv
<1>1. /\ tx.ongoing = FALSE /\ send.at = "idle" /\ rx.inProgress = FALSE /\ rx.fcWait = FALSE
      /\ boxR = <<>> /\ toS = <<>> /\ lens = <<>>
  BY DEF LinksInit, Init, NoSend
<1>2. ArRuns /\ ~Transfer.busy /\ ~Granting
  <2>1. ~Transfer.busy
    BY <1>1 DEF Transfer
  <2>2. Grants(boxR) = {} /\ Grants(toS) = {}
    BY <1>1 DEF Grants
  <2> QED BY <1>1, <2>1, <2>2 DEF ArRuns, Granting
<1>3. BlockSpent(Transfer)
  BY <1>2 DEF BlockSpent
<1> DEFINE v == Transfer
           oc == outcome
           q == Path
           f == Answered
           g == Granting
           s == Slack
           rd == received
<1>4. ~v.busy /\ ~g /\ Agreed = Agreeing(v, q, f, rx, lens, rd, oc, g, s)
  BY <1>2 DEF Agreed
<1> HIDE DEF v, q, f, g, s, oc, rd
<1>5. OwedKept(v, q, rx, lens, rd, oc)
  BY <1>1 DEF OwedKept
<1>6. Agreeing(v, q, f, rx, lens, rd, oc, g, s)
  BY <1>1, <1>4, <1>5, IdleAgrees
<1> QED BY <1>2, <1>3, <1>4, <1>6 DEF AgreeInv

\* N_Cr is longer than STmin, the pause between two consecutive frames.
PacedLinks == Stmin < NCr

LEMMA AgreeInvKept ==
  ASSUME Shape, LinkInv, AgreeInv, [LinksNext]_allVars, FastLinks, PacedLinks
  PROVE  AgreeInv'
<1> USE DEF FastLinks, PacedLinks
<1>1. Shape' /\ LinkInv'
  BY ShapeKept, LinkInvKept
<1>2. CASE link = "response"
  BY <1>2 DEF AgreeInv, allVars, LinksNext, NodeReceives, NodeSends, Others, Ticks, On,
              Requesting, Responding
<1>3. CASE UNCHANGED allVars /\ link # "response"
  <2>1. UNCHANGED <<tx, rx, boxS, boxR, toR, toS, lens, outcome, received, losses, send, link>>
    BY <1>3 DEF allVars, vars, bus, app, env
  <2>2. /\ Transfer' = Transfer /\ Path' = Path /\ Slack' = Slack
        /\ (Answered' <=> Answered) /\ (Granting' => Granting)
    BY <2>1 DEF Transfer, BlockFull, Path, Pending, Own, Slack, Answered, Granting, FcAt, Grants
  <2> QED BY <1>3, <2>1, <2>2, StillAgrees
<1>4. CASE LinksNext /\ link # "response"
  <2>1. CASE /\ link \in {"nodes", "request"} /\ UNCHANGED <<send, recv, link>>
             /\ RxOnFrame \/ RxPoll \/ RxRead \/ TransmitsR \/ ForeignFc
    BY <1>1, <1>4, <2>1, SingleAgrees, FirstAgrees, ConsecutiveAgrees, RxPollAgrees,
       RxReadAgrees, TransmitRAgrees, ForeignAgrees DEF RxOnFrame
  <2>2. CASE /\ link = "nodes" /\ UNCHANGED <<send, recv, link>>
             /\ \/ \E n \in LensOf(link) : TxStart(n)
                \/ TxOnFrame \/ TxPollEnqueue \/ TxPollStuck \/ TxPollTransfer \/ TransmitsS
                \/ AppSends \/ Tick
    BY <2>2, TxStartAgrees, TxOnFrameAgrees, TxPollEnqueueAgrees, NeverStuck,
       TxPollTransferAgrees, TransmitSAgrees, AppSendsAgrees, TickAgrees
  <2>3. CASE /\ link = "request" /\ UNCHANGED <<recv, link>>
             /\ \/ \E n \in Requests : PcSend(n)
                \/ WaitFlowControl \/ FlowControlTimeout \/ SendConsecutive
                \/ OtherRequestFrames \/ SendTick
    BY <2>3, PcSendAgrees, WaitFlowControlAgrees, FlowControlTimeoutAgrees,
       SendConsecutiveAgrees, OtherRequestFramesAgree, SendTickAgrees
  <2> QED BY <1>4, <2>1, <2>2, <2>3, LinkSteps
<1> QED BY <1>2, <1>3, <1>4

\* What was reported complete was read, once nothing is on the path or to be read.
LEMMA WholeIsRead ==
  ASSUME NEW v, NEW f, NEW r, NEW ls, NEW rd, NEW oc, NEW s, NEW m \in 1..Len(ls),
         InStep(v, <<>>, f, r, ls, rd), Values(v, <<>>, r, ls, s),
         OwedKept(v, <<>>, r, ls, rd, oc), oc[m] = "ok", ls[m] > 1, ~r.ready
  PROVE  \E i \in 1..Len(rd) : rd[i] = Message(m, ls[m])
<1>1. Owed(v, ls, oc, m)
  BY DEF Owed
<1>2. ~Coming(<<>>, r, m, Sofar(v, ls, oc, m))
  BY <1>1, NothingOnPath DEF Coming
<1>3. PICK i \in 1..Len(rd) : NumberRead(rd, i) = m
  BY <1>1, <1>2 DEF OwedKept, Arrives, Got
<1>4. rd[i] = Message(m, ls[m])
  BY <1>3 DEF InStep, ReadInOrder, NumberRead
<1> QED BY <1>4

LEMMA QuietIsRead ==
  ASSUME Shape, LinkInv, AgreeInv, link # "response", losses = 0, Path = <<>>, ~rx.ready,
         NEW m \in 1..Len(lens), lens[m] > 1, outcome[m] = "ok"
  PROVE  \E i \in 1..Len(received) : received[i] = Message(m, lens[m])
<1> DEFINE v == Transfer
           f == Answered
           s == Slack
<1>1. /\ InStep(v, <<>>, f, rx, lens, received) /\ Values(v, <<>>, rx, lens, s)
      /\ OwedKept(v, <<>>, rx, lens, received, outcome)
  BY AgreeFacts DEF AgreeInv, Agreed, Agreeing
<1> HIDE DEF v, f, s
<1> QED BY <1>1, WholeIsRead

LEMMA EndsFollow ==
  Shape /\ LinkInv /\ AgreeInv /\ (link = "request" => VerdictInv) => EndsAgree
<1> SUFFICES ASSUME Shape, LinkInv, AgreeInv, link = "request" => VerdictInv
             PROVE  EndsAgree
  OBVIOUS
<1>1. ASSUME link = "nodes", Quiescent, losses = 0, NEW m \in 1..Len(lens),
             outcome[m] = "ok", lens[m] > 1
      PROVE  \E i \in 1..Len(received) : received[i] = Message(m, lens[m])
  <2>1. boxS = <<>> /\ toR = <<>> /\ ~rx.ready /\ (tx.ongoing => ~tx.waitEnqueue)
    BY <1>1 DEF Quiescent
  <2>2. ~tx.waitEnqueue
    BY <1>1, <2>1 DEF LinkInv, NodeSender
  <2>3. Path = <<>>
    BY <2>1, <2>2 DEF Path, Pending, Own
  <2> QED BY <1>1, <2>1, <2>3, QuietIsRead
<1>2. ASSUME link = "request", losses = 0, SendQuiescent, NEW m \in 1..Len(lens),
             lens[m] > 1, outcome[m] # "ongoing"
      PROVE  outcome[m] = "ok" <=> \E i \in 1..Len(received) : received[i] = Message(m, lens[m])
  <2>1. Path = <<>> /\ ~rx.ready
    BY <1>2, CallTransfer DEF SendQuiescent
  <2>2. outcome[m] = "ok" => \E i \in 1..Len(received) : received[i] = Message(m, lens[m])
    BY <1>2, <2>1, QuietIsRead
  <2>3. outcome[m] = "ok" \/ GivenUp(outcome[m])
    <3>1. outcome[m] \in Verdicts
      BY <1>2, AgreeFacts
    <3> QED BY <1>2, <3>1 DEF Verdicts, GivenUp
  <2>4. (\E i \in 1..Len(received) : received[i] = Message(m, lens[m])) => outcome[m] = "ok"
    BY <1>2, <2>3, GivenUpNotRead
  <2> QED BY <2>2, <2>4
<1> QED BY <1>1, <1>2 DEF EndsAgree, CompleteIsDelivered

\* On a bus that loses nothing the two ends agree on what was transferred.  What
\* IsotpTx_Poll reports complete to its node is read by the other node once the link
\* is quiet.  send() succeeds if and only if the node reads the message, also when the
\* last consecutive frame ends a block.  It is so whenever the main loops and the bus
\* are fast compared to the N_* timeouts, the receiver advertises blocks shorter than
\* the sequence numbers, and N_Cr is longer than STmin.
THEOREM BothEndsAgree ==
  ASSUME FastLinks, PacedLinks
  PROVE  LinksSpec => []EndsAgree
<1> DEFINE V == link = "request" => VerdictInv
           I == Shape /\ Separate /\ LinkInv /\ AgreeInv /\ V
<1>1. LinksInit => I
  BY InitShape, LinkInvInit, AgreeInvInit, VerdictInvInit DEF LinksInit, Init, Separate
<1>2. I /\ [LinksNext]_allVars => I'
  <2> SUFFICES ASSUME I, [LinksNext]_allVars
               PROVE  I'
    OBVIOUS
  <2>1. Shape' /\ Separate' /\ LinkInv' /\ AgreeInv'
    BY ShapeKept, SeparateKept, LinkInvKept, AgreeInvKept
  <2>2. UNCHANGED link
    BY AppSteps DEF allVars
  <2>3. V'
    BY <2>2, VerdictInvKept DEF FastLinks
  <2> QED BY <2>1, <2>3
<1>3. I => EndsAgree
  BY EndsFollow
<1> QED BY <1>1, <1>2, <1>3, PTL DEF LinksSpec
===========================================================================
