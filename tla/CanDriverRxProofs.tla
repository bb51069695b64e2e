-------------------------- MODULE CanDriverRxProofs --------------------------
(***************************************************************************)
(* The receive path accounts for every frame and keeps the order of each   *)
(* class, for every depth of the hardware FIFOs and of the queues.         *)
(***************************************************************************)
EXTENDS CanDriverRx, SequenceTheorems, TLAPS

LEMMA Constants ==
  /\ Depth \in Nat \ {0} /\ HwDepth \in Nat \ {0}
  /\ MaxArrivals \in Nat /\ DroppedMod \in Nat /\ DroppedMod > MaxArrivals
BY DriverAssumption DEF DriverAssumption

-------------------------------------------------------------------------------
(* Sequences of frames of one class, in the order of their arrival. *)

Increasing(s) == \A i, j \in 1..Len(s) : i < j => s[i].number < s[j].number

\* Every frame of s arrived before every frame of t.
Before(s, t) == \A i \in 1..Len(s), j \in 1..Len(t) : s[i].number < t[j].number

\* No frame of s arrived after the n-th.
UpTo(s, n) == \A i \in 1..Len(s) : s[i].number <= n

LEMMA FrameAt ==
  ASSUME NEW s \in Seq(Frames), NEW i \in 1..Len(s)
  PROVE  s[i] \in Frames /\ s[i].number \in Nat
<1>1. s[i] \in Frames
  BY ElementOfSeq
<1>2. \A f \in Frames : f.number \in Nat
  BY Constants DEF Frames
<1> QED BY <1>1, <1>2

LEMMA TailOf ==
  ASSUME NEW t \in Seq(Frames), t # <<>>
  PROVE  /\ Head(t) \in Frames /\ Tail(t) \in Seq(Frames)
         /\ Len(t) \in Nat \ {0} /\ Len(Tail(t)) = Len(t) - 1
         /\ Head(t) = t[1] /\ 1 \in 1..Len(t)
         /\ \A i \in 1..Len(Tail(t)) : Tail(t)[i] = t[i + 1] /\ i + 1 \in 2..Len(t)
<1>1. Len(t) \in Nat \ {0}
  BY EmptySeq, LenProperties
<1> QED BY <1>1, HeadTailProperties, FrameAt

LEMMA TailKeepsOrder ==
  ASSUME NEW t \in Seq(Frames), t # <<>>, Increasing(t)
  PROVE  /\ Increasing(Tail(t))
         /\ \A i \in 1..Len(Tail(t)) : Head(t).number < Tail(t)[i].number
BY TailOf DEF Increasing

LEMMA TailFollows ==
  ASSUME NEW s \in Seq(Frames), NEW t \in Seq(Frames), t # <<>>, Before(s, t)
  PROVE  /\ Before(s, Tail(t))
         /\ \A i \in 1..Len(s) : s[i].number < Head(t).number
BY TailOf DEF Before

LEMMA TailPrecedes ==
  ASSUME NEW s \in Seq(Frames), NEW t \in Seq(Frames), t # <<>>, Before(t, s)
  PROVE  /\ Before(Tail(t), s)
         /\ \A i \in 1..Len(s) : Head(t).number < s[i].number
BY TailOf DEF Before

LEMMA TailUpTo ==
  ASSUME NEW t \in Seq(Frames), t # <<>>, NEW n, UpTo(t, n)
  PROVE  UpTo(Tail(t), n) /\ Head(t).number <= n
BY TailOf DEF UpTo

LEMMA AppendKeepsOrder ==
  ASSUME NEW s \in Seq(Frames), NEW f \in Frames, Increasing(s),
         \A i \in 1..Len(s) : s[i].number < f.number
  PROVE  Increasing(Append(s, f))
<1>1. /\ Len(Append(s, f)) = Len(s) + 1 /\ Len(s) \in Nat
      /\ Append(s, f)[Len(s) + 1] = f
      /\ \A i \in 1..Len(s) : Append(s, f)[i] = s[i]
  BY AppendProperties, LenProperties
<1> QED BY <1>1 DEF Increasing

LEMMA AppendPrecedes ==
  ASSUME NEW s \in Seq(Frames), NEW t \in Seq(Frames), NEW f \in Frames,
         Before(s, t), \A i \in 1..Len(t) : f.number < t[i].number
  PROVE  Before(Append(s, f), t)
<1>1. /\ Len(Append(s, f)) = Len(s) + 1 /\ Len(s) \in Nat
      /\ Append(s, f)[Len(s) + 1] = f
      /\ \A i \in 1..Len(s) : Append(s, f)[i] = s[i]
  BY AppendProperties, LenProperties
<1> QED BY <1>1 DEF Before

LEMMA AppendFollows ==
  ASSUME NEW s \in Seq(Frames), NEW t \in Seq(Frames), NEW f \in Frames,
         Before(s, t), \A i \in 1..Len(s) : s[i].number < f.number
  PROVE  Before(s, Append(t, f))
<1>1. /\ Len(Append(t, f)) = Len(t) + 1 /\ Len(t) \in Nat
      /\ Append(t, f)[Len(t) + 1] = f
      /\ \A i \in 1..Len(t) : Append(t, f)[i] = t[i]
  BY AppendProperties, LenProperties
<1> QED BY <1>1 DEF Before

LEMMA AppendUpTo ==
  ASSUME NEW s \in Seq(Frames), NEW f \in Frames, NEW n, UpTo(s, n), f.number <= n
  PROVE  UpTo(Append(s, f), n)
<1>1. /\ Len(Append(s, f)) = Len(s) + 1 /\ Len(s) \in Nat
      /\ Append(s, f)[Len(s) + 1] = f
      /\ \A i \in 1..Len(s) : Append(s, f)[i] = s[i]
  BY AppendProperties, LenProperties
<1> QED BY <1>1 DEF UpTo

LEMMA ConcatKeepsOrder ==
  ASSUME NEW s \in Seq(Frames), NEW t \in Seq(Frames),
         Increasing(s), Increasing(t), Before(s, t)
  PROVE  Increasing(s \o t)
<1>1. /\ Len(s \o t) = Len(s) + Len(t) /\ Len(s) \in Nat /\ Len(t) \in Nat
      /\ \A i \in 1..(Len(s) + Len(t)) :
           (s \o t)[i] = IF i <= Len(s) THEN s[i] ELSE t[i - Len(s)]
  BY ConcatProperties, LenProperties
<1>2. ASSUME NEW i \in 1..Len(s \o t), NEW j \in 1..Len(s \o t), i < j
      PROVE  (s \o t)[i].number < (s \o t)[j].number
  <2>1. CASE j <= Len(s)
    <3>1. /\ i \in 1..Len(s) /\ j \in 1..Len(s)
          /\ (s \o t)[i] = s[i] /\ (s \o t)[j] = s[j]
      BY <1>1, <1>2, <2>1
    <3> QED BY <1>2, <3>1 DEF Increasing
  <2>2. CASE i <= Len(s) /\ ~(j <= Len(s))
    <3>1. /\ i \in 1..Len(s) /\ j - Len(s) \in 1..Len(t)
          /\ (s \o t)[i] = s[i] /\ (s \o t)[j] = t[j - Len(s)]
      BY <1>1, <1>2, <2>2
    <3> QED BY <3>1 DEF Before
  <2>3. CASE ~(i <= Len(s))
    <3>1. /\ i - Len(s) \in 1..Len(t) /\ j - Len(s) \in 1..Len(t)
          /\ i - Len(s) < j - Len(s)
          /\ (s \o t)[i] = t[i - Len(s)] /\ (s \o t)[j] = t[j - Len(s)]
      BY <1>1, <1>2, <2>3
    <3> QED BY <3>1 DEF Increasing
  <2> QED BY <1>1, <1>2, <2>1, <2>2, <2>3
<1> QED BY <1>2 DEF Increasing

LEMMA ConcatPrecedes ==
  ASSUME NEW s \in Seq(Frames), NEW t \in Seq(Frames), NEW u \in Seq(Frames),
         Before(s, u), Before(t, u)
  PROVE  Before(s \o t, u)
<1>1. /\ Len(s \o t) = Len(s) + Len(t) /\ Len(s) \in Nat /\ Len(t) \in Nat
      /\ \A i \in 1..(Len(s) + Len(t)) :
           (s \o t)[i] = IF i <= Len(s) THEN s[i] ELSE t[i - Len(s)]
  BY ConcatProperties, LenProperties
<1> QED BY <1>1 DEF Before

-------------------------------------------------------------------------------
(* The frames of one class: d were delivered, q wait in the queue, f in the *)
(* hardware FIFO, and n arrived.                                            *)

InOrder(d, q, f) ==
  /\ Increasing(d) /\ Increasing(q) /\ Increasing(f)
  /\ Before(d, q) /\ Before(d, f) /\ Before(q, f)

Flow(d, q, f, n) ==
  /\ d \in Seq(Frames) /\ q \in Seq(Frames) /\ f \in Seq(Frames)
  /\ n \in 0..MaxArrivals
  /\ Len(q) <= Depth /\ Len(f) <= HwDepth
  /\ InOrder(d, q, f)
  /\ UpTo(d, n) /\ UpTo(q, n) /\ UpTo(f, n)

\* The interrupt accepts the oldest frame of the FIFO.
LEMMA FlowAccept ==
  ASSUME NEW d, NEW q, NEW f, NEW n, Flow(d, q, f, n), f # <<>>, Len(q) < Depth
  PROVE  /\ Flow(d, Append(q, Head(f)), Tail(f), n)
         /\ Len(Append(q, Head(f))) = Len(q) + 1 /\ Len(Tail(f)) = Len(f) - 1
<1>1. /\ d \in Seq(Frames) /\ q \in Seq(Frames) /\ f \in Seq(Frames)
      /\ InOrder(d, q, f) /\ UpTo(q, n) /\ UpTo(f, n)
  BY DEF Flow
<1>2. /\ Head(f) \in Frames /\ Tail(f) \in Seq(Frames) /\ Len(Tail(f)) = Len(f) - 1
      /\ Len(f) \in Nat
  BY <1>1, TailOf
<1>3. /\ Append(q, Head(f)) \in Seq(Frames)
      /\ Len(Append(q, Head(f))) = Len(q) + 1 /\ Len(q) \in Nat
  BY <1>1, <1>2, AppendProperties, LenProperties
<1>4. Increasing(Append(q, Head(f))) /\ Increasing(Tail(f))
  BY <1>1, <1>2, AppendKeepsOrder, TailFollows, TailKeepsOrder DEF InOrder
<1>5. Before(d, Append(q, Head(f))) /\ Before(d, Tail(f))
  BY <1>1, <1>2, AppendFollows, TailFollows DEF InOrder
<1>6. Before(Append(q, Head(f)), Tail(f))
  BY <1>1, <1>2, AppendPrecedes, TailFollows, TailKeepsOrder DEF InOrder
<1>7. UpTo(Append(q, Head(f)), n) /\ UpTo(Tail(f), n)
  BY <1>1, <1>2, AppendUpTo, TailUpTo
<1>8. Len(Append(q, Head(f))) <= Depth /\ Len(Tail(f)) <= HwDepth
  BY <1>2, <1>3, Constants DEF Flow
<1> QED BY <1>2, <1>3, <1>4, <1>5, <1>6, <1>7, <1>8 DEF Flow, InOrder

\* The interrupt drops the oldest frame of the FIFO.
LEMMA FlowRefuse ==
  ASSUME NEW d, NEW q, NEW f, NEW n, Flow(d, q, f, n), f # <<>>
  PROVE  Flow(d, q, Tail(f), n) /\ Len(Tail(f)) = Len(f) - 1
<1>1. /\ d \in Seq(Frames) /\ q \in Seq(Frames) /\ f \in Seq(Frames)
      /\ InOrder(d, q, f) /\ UpTo(f, n)
  BY DEF Flow
<1>2. Tail(f) \in Seq(Frames) /\ Len(Tail(f)) = Len(f) - 1 /\ Len(f) \in Nat
  BY <1>1, TailOf
<1>3. /\ Increasing(Tail(f)) /\ Before(d, Tail(f)) /\ Before(q, Tail(f))
      /\ UpTo(Tail(f), n)
  BY <1>1, TailFollows, TailKeepsOrder, TailUpTo DEF InOrder
<1>4. Len(Tail(f)) <= HwDepth
  BY <1>2, Constants DEF Flow
<1> QED BY <1>2, <1>3, <1>4 DEF Flow, InOrder

\* The main loop delivers the oldest frame of the queue.
LEMMA FlowTake ==
  ASSUME NEW d, NEW q, NEW f, NEW n, Flow(d, q, f, n), q # <<>>
  PROVE  /\ Flow(Append(d, Head(q)), Tail(q), f, n)
         /\ Len(Append(d, Head(q))) = Len(d) + 1 /\ Len(Tail(q)) = Len(q) - 1
<1>1. /\ d \in Seq(Frames) /\ q \in Seq(Frames) /\ f \in Seq(Frames)
      /\ InOrder(d, q, f) /\ UpTo(d, n) /\ UpTo(q, n)
  BY DEF Flow
<1>2. /\ Head(q) \in Frames /\ Tail(q) \in Seq(Frames) /\ Len(Tail(q)) = Len(q) - 1
      /\ Len(q) \in Nat
  BY <1>1, TailOf
<1>3. Append(d, Head(q)) \in Seq(Frames) /\ Len(Append(d, Head(q))) = Len(d) + 1
  BY <1>1, <1>2, AppendProperties
<1>4. Increasing(Append(d, Head(q))) /\ Increasing(Tail(q))
  BY <1>1, <1>2, AppendKeepsOrder, TailFollows, TailKeepsOrder DEF InOrder
<1>5. Before(Append(d, Head(q)), f) /\ Before(Tail(q), f)
  BY <1>1, <1>2, AppendPrecedes, TailPrecedes DEF InOrder
<1>6. Before(Append(d, Head(q)), Tail(q))
  BY <1>1, <1>2, AppendPrecedes, TailFollows, TailKeepsOrder DEF InOrder
<1>7. UpTo(Append(d, Head(q)), n) /\ UpTo(Tail(q), n)
  BY <1>1, <1>2, AppendUpTo, TailUpTo
<1>8. Len(Tail(q)) <= Depth
  BY <1>2, Constants DEF Flow
<1> QED BY <1>2, <1>3, <1>4, <1>5, <1>6, <1>7, <1>8 DEF Flow, InOrder

\* The controller puts a new frame into a FIFO with space for it.
LEMMA FlowReceive ==
  ASSUME NEW d, NEW q, NEW f, NEW n, Flow(d, q, f, n), Len(f) < HwDepth,
         n < MaxArrivals, NEW g \in Frames, g.number = n + 1
  PROVE  Flow(d, q, Append(f, g), n + 1) /\ Len(Append(f, g)) = Len(f) + 1
<1>1. /\ d \in Seq(Frames) /\ q \in Seq(Frames) /\ f \in Seq(Frames)
      /\ InOrder(d, q, f) /\ UpTo(d, n) /\ UpTo(q, n) /\ UpTo(f, n)
      /\ n \in Nat /\ n + 1 \in 0..MaxArrivals
  BY Constants DEF Flow
<1>2. ASSUME NEW s \in Seq(Frames), UpTo(s, n)
      PROVE  UpTo(s, n + 1) /\ \A i \in 1..Len(s) : s[i].number < g.number
  BY <1>1, <1>2, FrameAt DEF UpTo
<1>3. UpTo(d, n + 1) /\ UpTo(q, n + 1) /\ UpTo(Append(f, g), n + 1)
  BY <1>1, <1>2, AppendUpTo
<1>4. /\ Increasing(Append(f, g))
      /\ Before(d, Append(f, g)) /\ Before(q, Append(f, g))
  BY <1>1, <1>2, AppendKeepsOrder, AppendFollows DEF InOrder
<1>5. /\ Append(f, g) \in Seq(Frames) /\ Len(Append(f, g)) = Len(f) + 1
      /\ Len(f) \in Nat
  BY <1>1, AppendProperties, LenProperties
<1>6. Len(Append(f, g)) <= HwDepth
  BY <1>5, Constants
<1> QED BY <1>1, <1>3, <1>4, <1>5, <1>6 DEF Flow, InOrder

\* The controller overwrites the newest frame of a full FIFO.
LEMMA FlowOverwrite ==
  ASSUME NEW d, NEW q, NEW f, NEW n, Flow(d, q, f, n), Len(f) = HwDepth,
         n < MaxArrivals, NEW g \in Frames, g.number = n + 1
  PROVE  /\ Flow(d, q, [f EXCEPT ![HwDepth] = g], n + 1)
         /\ Len([f EXCEPT ![HwDepth] = g]) = Len(f)
<1> DEFINE h == [f EXCEPT ![HwDepth] = g]
<1>1. /\ d \in Seq(Frames) /\ q \in Seq(Frames) /\ f \in Seq(Frames)
      /\ InOrder(d, q, f) /\ UpTo(d, n) /\ UpTo(q, n) /\ UpTo(f, n)
      /\ n \in Nat /\ n + 1 \in 0..MaxArrivals
  BY Constants DEF Flow
<1>2. ASSUME NEW s \in Seq(Frames), UpTo(s, n)
      PROVE  UpTo(s, n + 1) /\ \A i \in 1..Len(s) : s[i].number < g.number
  BY <1>1, <1>2, FrameAt DEF UpTo
<1>3. /\ h \in Seq(Frames) /\ Len(h) = HwDepth
      /\ \A i \in 1..HwDepth : h[i] = IF i = HwDepth THEN g ELSE f[i]
  <2>1. HwDepth \in 1..Len(f)
    BY Constants
  <2> QED BY <1>1, <2>1, ExceptSeq
<1> HIDE DEF h
<1>4. UpTo(d, n + 1) /\ UpTo(q, n + 1)
  BY <1>1, <1>2
<1>5. \A i \in 1..Len(f) : f[i].number < g.number
  BY <1>1, <1>2
<1>6. UpTo(h, n + 1)
  <2>1. UpTo(f, n + 1)
    BY <1>1, <1>2
  <2>2. ASSUME NEW i \in 1..HwDepth PROVE h[i].number <= n + 1
    <3>1. CASE i = HwDepth
      BY <1>1, <1>3, <3>1
    <3>2. CASE i # HwDepth
      BY <1>3, <2>1, <3>2 DEF UpTo
    <3> QED BY <3>1, <3>2
  <2> QED BY <1>3, <2>2 DEF UpTo
<1>7. Increasing(h)
  <2>1. ASSUME NEW i \in 1..HwDepth, NEW j \in 1..HwDepth, i < j
        PROVE  h[i].number < h[j].number
    <3>1. h[i] = f[i] /\ h[j] \in {f[j], g} /\ (h[j] = f[j] \/ h[j] = g)
      BY <1>3, <2>1, Constants
    <3> QED BY <1>1, <1>5, <2>1, <3>1 DEF InOrder, Increasing
  <2> QED BY <1>3, <2>1 DEF Increasing
<1>8. Before(d, h) /\ Before(q, h)
  BY <1>1, <1>2, <1>3 DEF InOrder, Before
<1>9. Len(h) <= HwDepth
  BY <1>3, Constants
<1> QED BY <1>1, <1>3, <1>4, <1>6, <1>7, <1>8, <1>9 DEF Flow, InOrder, h

\* A recovery empties the queue and the FIFO.
LEMMA FlowClear ==
  ASSUME NEW d, NEW q, NEW f, NEW n, Flow(d, q, f, n)
  PROVE  Flow(d, <<>>, <<>>, n) /\ Len(<<>>) = 0
<1>1. <<>> \in Seq(Frames) /\ Len(<<>>) = 0
  BY EmptySeq
<1>2. \A i \in 1..0 : FALSE
  BY SMT
<1>3. /\ Increasing(<<>>) /\ Before(d, <<>>) /\ Before(<<>>, <<>>)
      /\ UpTo(<<>>, n)
  BY <1>1, <1>2 DEF Increasing, Before, UpTo
<1> QED BY <1>1, <1>3, Constants DEF Flow, InOrder

\* The frames of a class that the path holds, in the order they were received.
LEMMA FlowIsOrdered ==
  ASSUME NEW d, NEW q, NEW f, NEW n, Flow(d, q, f, n)
  PROVE  LET path == d \o q \o f IN
         \A i, j \in 1..Len(path) : i < j => path[i].number < path[j].number
<1>1. d \o q \in Seq(Frames)
  BY ConcatProperties DEF Flow
<1>2. Increasing(d \o q) /\ Before(d \o q, f)
  BY ConcatKeepsOrder, ConcatPrecedes DEF Flow, InOrder
<1>3. Increasing((d \o q) \o f)
  BY <1>1, <1>2, ConcatKeepsOrder DEF Flow, InOrder
<1> QED BY <1>3 DEF Increasing

-------------------------------------------------------------------------------
(* The inductive invariant. *)

Held(c) == Flow(delivered[c], Queued(c), fifo[c], arrived[c])

Counted(c) ==
  /\ DroppedCount(c) \in Nat /\ overrun[c] \in Nat /\ discarded[c] \in Nat
  /\ arrived[c] = Len(delivered[c]) + Len(fifo[c]) + Len(Queued(c))
                  + DroppedCount(c) + overrun[c] + discarded[c]

Shapes ==
  /\ fifo \in [Classes -> Seq(Frames)] /\ delivered \in [Classes -> Seq(Frames)]
  /\ arrived \in [Classes -> Nat]
  /\ overrun \in [Classes -> Nat] /\ discarded \in [Classes -> Nat]
  /\ isr \in {"off", "fifo0", "fifo1"} /\ loop \in {"rest", "control", "background"}

IInv == Shapes /\ \A c \in Classes : Held(c) /\ Counted(c)

LEMMA TwoClasses ==
  /\ Classes = {Control, Background} /\ Control # Background
  /\ Queued(Control) = ctlQ /\ Queued(Background) = bgQ
  /\ DroppedCount(Control) = ctlDropped /\ DroppedCount(Background) = bgDropped
BY DEF Classes, Control, Background, Queued, DroppedCount

\* The lengths of a class's sequences and its counts are numbers.
LEMMA Lengths ==
  ASSUME IInv, NEW c \in Classes
  PROVE  /\ delivered[c] \in Seq(Frames) /\ Queued(c) \in Seq(Frames)
         /\ fifo[c] \in Seq(Frames)
         /\ Len(delivered[c]) \in Nat /\ Len(Queued(c)) \in Nat /\ Len(fifo[c]) \in Nat
         /\ arrived[c] \in 0..MaxArrivals
         /\ DroppedCount(c) \in Nat /\ overrun[c] \in Nat /\ discarded[c] \in Nat
BY LenProperties DEF IInv, Held, Counted, Flow

\* A dropped counter that never counts more frames than arrived never wraps.
LEMMA DroppedFits ==
  ASSUME NEW n \in Nat, n < MaxArrivals
  PROVE  (n + 1) % DroppedMod = n + 1
<1>1. n + 1 \in 0..(DroppedMod - 1) /\ DroppedMod \in Nat \ {0}
  BY Constants
<1> QED BY <1>1

Untouched(c) ==
  /\ delivered'[c] = delivered[c] /\ Queued(c)' = Queued(c)
  /\ fifo'[c] = fifo[c] /\ arrived'[c] = arrived[c]
  /\ DroppedCount(c)' = DroppedCount(c)
  /\ overrun'[c] = overrun[c] /\ discarded'[c] = discarded[c]

LEMMA StaysSound ==
  ASSUME IInv, NEW c \in Classes, Untouched(c)
  PROVE  Held(c)' /\ Counted(c)'
BY DEF IInv, Held, Counted, Untouched

LEMMA Tally ==
  ASSUME IInv, NEW c \in Classes
  PROVE  \E d, f, q, lost, over, gone \in Nat :
           /\ Len(delivered[c]) = d /\ Len(fifo[c]) = f /\ Len(Queued(c)) = q
           /\ DroppedCount(c) = lost /\ overrun[c] = over /\ discarded[c] = gone
           /\ arrived[c] = d + f + q + lost + over + gone
<1>1. arrived[c] = Len(delivered[c]) + Len(fifo[c]) + Len(Queued(c))
                   + DroppedCount(c) + overrun[c] + discarded[c]
  BY DEF IInv, Counted
<1> QED BY <1>1, Lengths, Zenon

-------------------------------------------------------------------------------
(* The steps. *)

LEMMA ReceiveStep ==
  ASSUME IInv, NEW c \in Classes, Receive(c)
  PROVE  IInv'
<1> DEFINE g == [class |-> c, number |-> arrived[c] + 1]
<1>1. /\ arrived[c] < MaxArrivals
      /\ arrived' = [arrived EXCEPT ![c] = arrived[c] + 1]
      /\ UNCHANGED <<discarded, ctlQ, ctlDropped, bgQ, bgDropped, isr, loop, delivered>>
  BY DEF Receive, ctlVars, bgVars
<1>2. /\ Shapes /\ Held(c) /\ Counted(c)
  BY DEF IInv
<1>3. g \in Frames /\ g.number = arrived[c] + 1
  <2>1. arrived[c] + 1 \in 1..MaxArrivals
    BY <1>1, Lengths, Constants
  <2> QED BY <2>1 DEF Frames
<1>4. \A k \in Classes : Queued(k)' = Queued(k) /\ DroppedCount(k)' = DroppedCount(k)
  BY <1>1 DEF Queued, DroppedCount
<1>5. /\ arrived' \in [Classes -> Nat] /\ arrived'[c] = arrived[c] + 1
      /\ \A k \in Classes \ {c} : arrived'[k] = arrived[k]
  BY <1>1, <1>2 DEF Shapes
<1>6. CASE /\ FifoHasSpace(c)
           /\ fifo' = [fifo EXCEPT ![c] = Append(fifo[c], g)]
           /\ UNCHANGED overrun
  <2> HIDE DEF g
  <2>1. /\ Flow(delivered[c], Queued(c), Append(fifo[c], g), arrived[c] + 1)
        /\ Len(Append(fifo[c], g)) = Len(fifo[c]) + 1
    BY <1>1, <1>2, <1>3, <1>6, FlowReceive DEF Held, FifoHasSpace
  <2>2. /\ fifo' \in [Classes -> Seq(Frames)] /\ fifo'[c] = Append(fifo[c], g)
        /\ \A k \in Classes \ {c} : fifo'[k] = fifo[k]
    BY <1>2, <1>6, <2>1 DEF Shapes, Flow
  <2>3. Shapes'
    BY <1>1, <1>2, <1>5, <1>6, <2>2 DEF Shapes
  <2>4. Held(c)'
    BY <1>1, <1>4, <1>5, <2>1, <2>2 DEF Held
  <2>5. Counted(c)'
    <3>1. /\ Len(delivered'[c]) = Len(delivered[c]) /\ Len(fifo'[c]) = Len(fifo[c]) + 1
          /\ Len(Queued(c))' = Len(Queued(c)) /\ DroppedCount(c)' = DroppedCount(c)
          /\ overrun'[c] = overrun[c] /\ discarded'[c] = discarded[c]
          /\ arrived'[c] = arrived[c] + 1
      BY <1>1, <1>4, <1>5, <1>6, <2>1, <2>2
    <3>2. PICK d, f, q, lost, over, gone \in Nat :
            /\ Len(delivered[c]) = d /\ Len(fifo[c]) = f /\ Len(Queued(c)) = q
            /\ DroppedCount(c) = lost /\ overrun[c] = over /\ discarded[c] = gone
            /\ arrived[c] = d + f + q + lost + over + gone
      BY Tally
    <3>3. f + 1 \in Nat /\ arrived'[c] = d + (f + 1) + q + lost + over + gone
      BY <3>1, <3>2
    <3> QED BY <3>1, <3>2, <3>3 DEF Counted
  <2>6. \A k \in Classes \ {c} : Held(k)' /\ Counted(k)'
    BY <1>1, <1>4, <1>5, <1>6, <2>2, StaysSound DEF Untouched
  <2> QED BY <2>3, <2>4, <2>5, <2>6 DEF IInv
<1>7. CASE /\ ~FifoHasSpace(c)
           /\ fifo' = [fifo EXCEPT ![c][HwDepth] = g]
           /\ overrun' = [overrun EXCEPT ![c] = overrun[c] + 1]
  <2> DEFINE h == [fifo[c] EXCEPT ![HwDepth] = g]
  <2> HIDE DEF g
  <2>1. Len(fifo[c]) = HwDepth
    BY <1>2, <1>7, Lengths, Constants DEF Held, Flow, FifoHasSpace
  <2>2. Flow(delivered[c], Queued(c), h, arrived[c] + 1) /\ Len(h) = Len(fifo[c])
    BY <1>1, <1>2, <1>3, <2>1, FlowOverwrite DEF Held
  <2>3. fifo' = [fifo EXCEPT ![c] = h]
    BY <1>7
  <2> HIDE DEF h
  <2>4. /\ fifo' \in [Classes -> Seq(Frames)] /\ fifo'[c] = h
        /\ \A k \in Classes \ {c} : fifo'[k] = fifo[k]
    BY <1>2, <2>2, <2>3 DEF Shapes, Flow
  <2>5. /\ overrun' \in [Classes -> Nat] /\ overrun'[c] = overrun[c] + 1
        /\ \A k \in Classes \ {c} : overrun'[k] = overrun[k]
    BY <1>2, <1>7 DEF Shapes
  <2>6. Shapes'
    BY <1>1, <1>2, <1>5, <2>4, <2>5 DEF Shapes
  <2>7. Held(c)'
    BY <1>1, <1>4, <1>5, <2>2, <2>4 DEF Held
  <2>8. Counted(c)'
    <3>1. /\ Len(delivered'[c]) = Len(delivered[c]) /\ Len(fifo'[c]) = Len(fifo[c])
          /\ Len(Queued(c))' = Len(Queued(c)) /\ DroppedCount(c)' = DroppedCount(c)
          /\ overrun'[c] = overrun[c] + 1 /\ discarded'[c] = discarded[c]
          /\ arrived'[c] = arrived[c] + 1
      BY <1>1, <1>4, <1>5, <2>2, <2>4, <2>5
    <3>2. PICK d, f, q, lost, over, gone \in Nat :
            /\ Len(delivered[c]) = d /\ Len(fifo[c]) = f /\ Len(Queued(c)) = q
            /\ DroppedCount(c) = lost /\ overrun[c] = over /\ discarded[c] = gone
            /\ arrived[c] = d + f + q + lost + over + gone
      BY Tally
    <3>3. over + 1 \in Nat /\ arrived'[c] = d + f + q + lost + (over + 1) + gone
      BY <3>1, <3>2
    <3> QED BY <3>1, <3>2, <3>3 DEF Counted
  <2>9. \A k \in Classes \ {c} : Held(k)' /\ Counted(k)'
    BY <1>1, <1>4, <1>5, <2>4, <2>5, StaysSound DEF Untouched
  <2> QED BY <2>6, <2>7, <2>8, <2>9 DEF IInv
<1> QED BY <1>6, <1>7 DEF Receive

\* The interrupt takes the oldest frame of the FIFO of class c.
LEMMA ReadStep ==
  ASSUME IInv, NEW c \in Classes, fifo[c] # <<>>,
         fifo' = [fifo EXCEPT ![c] = Tail(fifo[c])],
         \/ /\ Len(Queued(c)) < Depth
            /\ Queued(c)' = Append(Queued(c), Head(fifo[c]))
            /\ DroppedCount(c)' = DroppedCount(c)
         \/ /\ Queued(c)' = Queued(c)
            /\ DroppedCount(c)' = (DroppedCount(c) + 1) % DroppedMod,
         \A k \in Classes \ {c} :
           Queued(k)' = Queued(k) /\ DroppedCount(k)' = DroppedCount(k),
         UNCHANGED <<arrived, overrun, discarded, isr, loop, delivered>>
  PROVE  IInv'
<1>1. Shapes /\ Held(c) /\ Counted(c)
  BY DEF IInv
<1>2. PICK d, f, q, lost, over, gone \in Nat :
        /\ Len(delivered[c]) = d /\ Len(fifo[c]) = f /\ Len(Queued(c)) = q
        /\ DroppedCount(c) = lost /\ overrun[c] = over /\ discarded[c] = gone
        /\ arrived[c] = d + f + q + lost + over + gone
  BY Tally
<1>3. Tail(fifo[c]) \in Seq(Frames) /\ f - 1 \in Nat
  BY <1>1, <1>2, TailOf DEF Shapes
<1>4. /\ fifo' \in [Classes -> Seq(Frames)] /\ fifo'[c] = Tail(fifo[c])
      /\ \A k \in Classes \ {c} : fifo'[k] = fifo[k]
  BY <1>1, <1>3 DEF Shapes
<1>5. Shapes'
  BY <1>1, <1>4 DEF Shapes
<1>6. \A k \in Classes \ {c} : Held(k)' /\ Counted(k)'
  BY <1>4, StaysSound DEF Untouched
<1>7. CASE /\ Len(Queued(c)) < Depth
           /\ Queued(c)' = Append(Queued(c), Head(fifo[c]))
           /\ DroppedCount(c)' = DroppedCount(c)
  <2>1. /\ Flow(delivered[c], Append(Queued(c), Head(fifo[c])), Tail(fifo[c]), arrived[c])
        /\ Len(Append(Queued(c), Head(fifo[c]))) = Len(Queued(c)) + 1
        /\ Len(Tail(fifo[c])) = Len(fifo[c]) - 1
    BY <1>1, <1>7, FlowAccept DEF Held
  <2>2. Held(c)'
    BY <1>4, <1>7, <2>1 DEF Held
  <2>3. /\ Len(delivered'[c]) = d /\ Len(fifo'[c]) = f - 1 /\ Len(Queued(c))' = q + 1
        /\ DroppedCount(c)' = lost /\ overrun'[c] = over /\ discarded'[c] = gone
    BY <1>2, <1>4, <1>7, <2>1
  <2>4. arrived'[c] = d + (f - 1) + (q + 1) + lost + over + gone
    BY <1>2, SMTT(20)
  <2>5. Counted(c)'
    BY <2>3, <2>4 DEF Counted
  <2> QED BY <1>5, <1>6, <2>2, <2>5 DEF IInv
<1>8. CASE /\ Queued(c)' = Queued(c)
           /\ DroppedCount(c)' = (DroppedCount(c) + 1) % DroppedMod
  <2>1. Flow(delivered[c], Queued(c), Tail(fifo[c]), arrived[c]) /\ Len(Tail(fifo[c])) = f - 1
    BY <1>1, <1>2, FlowRefuse DEF Held
  <2>2. Held(c)'
    BY <1>4, <1>8, <2>1 DEF Held
  <2>3. lost < MaxArrivals
    <3>1. arrived[c] <= MaxArrivals
      BY Lengths, Constants
    <3> QED BY <1>2, <1>3, <3>1, Constants
  <2>4. DroppedCount(c)' = lost + 1
    BY <1>2, <1>8, <2>3, DroppedFits
  <2>5. /\ Len(delivered'[c]) = d /\ Len(fifo'[c]) = f - 1 /\ Len(Queued(c))' = q
        /\ overrun'[c] = over /\ discarded'[c] = gone
    BY <1>2, <1>4, <1>8, <2>1
  <2>6. arrived'[c] = d + (f - 1) + q + (lost + 1) + over + gone
    <3>1. arrived'[c] = d + f + q + lost + over + gone
      BY <1>2
    <3> QED BY <3>1, SMTT(20)
  <2>8. lost + 1 \in Nat
    OBVIOUS
  <2>7. Counted(c)'
    <3>1. arrived'[c] = Len(delivered'[c]) + Len(fifo'[c]) + Len(Queued(c))'
                        + DroppedCount(c)' + overrun'[c] + discarded'[c]
      BY <2>4, <2>5, <2>6, Zenon
    <3> QED BY <2>4, <2>5, <2>8, <3>1 DEF Counted
  <2> QED BY <1>5, <1>6, <2>2, <2>7 DEF IInv
<1> QED BY <1>7, <1>8

\* The main loop delivers the oldest frame of the queue of class c.
LEMMA DeliverStep ==
  ASSUME IInv, NEW c \in Classes, Queued(c) # <<>>,
         Queued(c)' = Tail(Queued(c)), DroppedCount(c)' = DroppedCount(c),
         delivered' = [delivered EXCEPT ![c] = Append(delivered[c], Head(Queued(c)))],
         \A k \in Classes \ {c} :
           Queued(k)' = Queued(k) /\ DroppedCount(k)' = DroppedCount(k),
         UNCHANGED <<fifo, arrived, overrun, discarded, isr, loop>>
  PROVE  IInv'
<1>1. Shapes /\ Held(c) /\ Counted(c)
  BY DEF IInv
<1>2. PICK d, f, q, lost, over, gone \in Nat :
        /\ Len(delivered[c]) = d /\ Len(fifo[c]) = f /\ Len(Queued(c)) = q
        /\ DroppedCount(c) = lost /\ overrun[c] = over /\ discarded[c] = gone
        /\ arrived[c] = d + f + q + lost + over + gone
  BY Tally
<1>3. /\ Flow(Append(delivered[c], Head(Queued(c))), Tail(Queued(c)), fifo[c], arrived[c])
      /\ Len(Append(delivered[c], Head(Queued(c)))) = d + 1
      /\ Len(Tail(Queued(c))) = q - 1
  BY <1>1, <1>2, FlowTake DEF Held
<1>4. q - 1 \in Nat
  <2>1. Queued(c) \in Seq(Frames)
    BY Lengths
  <2> QED BY <1>2, <2>1, TailOf
<1>5. /\ delivered' \in [Classes -> Seq(Frames)]
      /\ delivered'[c] = Append(delivered[c], Head(Queued(c)))
      /\ \A k \in Classes \ {c} : delivered'[k] = delivered[k]
  BY <1>1, <1>3 DEF Shapes, Flow
<1>6. Shapes'
  BY <1>1, <1>5 DEF Shapes
<1>7. \A k \in Classes \ {c} : Held(k)' /\ Counted(k)'
  BY <1>5, StaysSound DEF Untouched
<1>8. Held(c)'
  BY <1>3, <1>5 DEF Held
<1>9. /\ Len(delivered'[c]) = d + 1 /\ Len(fifo'[c]) = f /\ Len(Queued(c))' = q - 1
      /\ DroppedCount(c)' = lost /\ overrun'[c] = over /\ discarded'[c] = gone
  BY <1>2, <1>3, <1>5
<1>10. arrived'[c] = (d + 1) + f + (q - 1) + lost + over + gone
  BY <1>2
<1>11. Counted(c)'
  BY <1>4, <1>9, <1>10 DEF Counted
<1> QED BY <1>6, <1>7, <1>8, <1>11 DEF IInv

LEMMA RecoverStep ==
  ASSUME IInv, Recover
  PROVE  IInv'
<1>1. /\ fifo' = [c \in Classes |-> <<>>]
      /\ ctlQ' = <<>> /\ bgQ' = <<>> /\ ctlDropped' = 0 /\ bgDropped' = 0
      /\ UNCHANGED <<arrived, overrun, isr, loop, delivered>>
  BY DEF Recover, CtlQueue!Clear, BgQueue!Clear
<1>2. discarded' = [discarded EXCEPT
        ![Control] = discarded[Control] + Len(fifo[Control]) + Len(ctlQ) + ctlDropped,
        ![Background] = discarded[Background] + Len(fifo[Background]) + Len(bgQ) + bgDropped]
  BY TwoClasses DEF Recover
<1>3. \A c \in Classes :
        discarded[c] + Len(fifo[c]) + Len(Queued(c)) + DroppedCount(c) \in Nat
  BY Lengths
<1>4. /\ discarded' \in [Classes -> Nat]
      /\ \A c \in Classes : discarded'[c] = discarded[c] + Len(fifo[c]) + Len(Queued(c))
                                            + DroppedCount(c)
  BY <1>2, <1>3, TwoClasses DEF IInv, Shapes
<1>5. fifo' \in [Classes -> Seq(Frames)] /\ \A c \in Classes : fifo'[c] = <<>>
  BY <1>1, EmptySeq
<1>6. \A c \in Classes : Queued(c)' = <<>> /\ DroppedCount(c)' = 0
  BY <1>1 DEF Queued, DroppedCount
<1>7. Shapes'
  BY <1>1, <1>4, <1>5 DEF IInv, Shapes
<1>8. ASSUME NEW c \in Classes PROVE Held(c)' /\ Counted(c)'
  <2>1. Held(c)'
    BY <1>1, <1>5, <1>6, FlowClear DEF IInv, Held
  <2>2. PICK d, f, q, lost, over, gone \in Nat :
          /\ Len(delivered[c]) = d /\ Len(fifo[c]) = f /\ Len(Queued(c)) = q
          /\ DroppedCount(c) = lost /\ overrun[c] = over /\ discarded[c] = gone
          /\ arrived[c] = d + f + q + lost + over + gone
    BY Tally
  <2>3. /\ Len(delivered'[c]) = d /\ Len(fifo'[c]) = 0 /\ Len(Queued(c))' = 0
        /\ DroppedCount(c)' = 0 /\ overrun'[c] = over
        /\ discarded'[c] = gone + f + q + lost
    BY <1>1, <1>4, <1>5, <1>6, <2>2, EmptySeq
  <2>4. arrived'[c] = d + 0 + 0 + 0 + over + (gone + f + q + lost)
    BY <1>1, <2>2
  <2>5. Counted(c)'
    BY <2>3, <2>4 DEF Counted
  <2> QED BY <2>1, <2>5
<1> QED BY <1>7, <1>8 DEF IInv

\* Steps that only move the interrupt handler or the main loop on.
LEMMA MoveStep ==
  ASSUME IInv, isr' \in {"off", "fifo0", "fifo1"},
         loop' \in {"rest", "control", "background"},
         UNCHANGED <<fifo, arrived, overrun, discarded, ctlQ, ctlDropped,
                     bgQ, bgDropped, delivered>>
  PROVE  IInv'
<1>1. \A c \in Classes : Untouched(c)
  BY DEF Untouched, Queued, DroppedCount
<1>2. \A c \in Classes : Held(c)' /\ Counted(c)'
  BY <1>1, StaysSound
<1>3. Shapes'
  BY DEF IInv, Shapes
<1> QED BY <1>2, <1>3 DEF IInv

-------------------------------------------------------------------------------
(* The theorems. *)

LEMMA InitSound ==
  ASSUME Init
  PROVE  IInv
<1>1. /\ fifo = [c \in Classes |-> <<>>] /\ delivered = [c \in Classes |-> <<>>]
      /\ arrived = [c \in Classes |-> 0] /\ overrun = [c \in Classes |-> 0]
      /\ discarded = [c \in Classes |-> 0] /\ isr = "off" /\ loop = "rest"
      /\ ctlQ = <<>> /\ bgQ = <<>> /\ ctlDropped = 0 /\ bgDropped = 0
  BY DEF Init, CtlQueue!Init, BgQueue!Init
<1>2. Shapes
  BY <1>1, EmptySeq DEF Shapes
<1>3. ASSUME NEW c \in Classes PROVE Held(c) /\ Counted(c)
  <2>1. /\ fifo[c] = <<>> /\ delivered[c] = <<>> /\ arrived[c] = 0
        /\ overrun[c] = 0 /\ discarded[c] = 0 /\ Queued(c) = <<>> /\ DroppedCount(c) = 0
    BY <1>1 DEF Queued, DroppedCount
  <2>2. <<>> \in Seq(Frames) /\ Len(<<>>) = 0
    BY EmptySeq
  <2>3. Counted(c)
    BY <2>1, <2>2 DEF Counted
  <2>4. \A i \in 1..0 : FALSE
    BY SMT
  <2>5. Increasing(<<>>) /\ Before(<<>>, <<>>) /\ UpTo(<<>>, 0)
    BY <2>2, <2>4 DEF Increasing, Before, UpTo
  <2>6. Held(c)
    BY <2>1, <2>2, <2>5, Constants DEF Held, Flow, InOrder
  <2> QED BY <2>3, <2>6
<1> QED BY <1>2, <1>3 DEF IInv

LEMMA InterruptStep ==
  ASSUME IInv, RxIrqHandler
  PROVE  IInv'
<1>1. CASE IrqReadFifo0
  <2>1. /\ fifo[Control] # <<>>
        /\ fifo' = [fifo EXCEPT ![Control] = Tail(fifo[Control])]
        /\ UNCHANGED <<arrived, overrun, discarded, bgQ, bgDropped, isr, loop, delivered>>
    BY <1>1 DEF IrqReadFifo0, history, bgVars
  <2>2. \/ /\ Len(ctlQ) < Depth /\ ctlQ' = Append(ctlQ, Head(fifo[Control]))
           /\ ctlDropped' = ctlDropped
        \/ /\ ctlQ' = ctlQ /\ ctlDropped' = (ctlDropped + 1) % DroppedMod
    BY <1>1 DEF IrqReadFifo0, ReadFrame, CtlQueue!Accept, CtlQueue!Refuse
  <2>3. /\ Queued(Control)' = ctlQ' /\ DroppedCount(Control)' = ctlDropped'
        /\ \A k \in Classes \ {Control} :
             Queued(k)' = Queued(k) /\ DroppedCount(k)' = DroppedCount(k)
    BY <2>1 DEF Queued, DroppedCount
  <2> QED BY <2>1, <2>2, <2>3, TwoClasses, ReadStep
<1>2. CASE IrqReadFifo1
  <2>1. /\ fifo[Background] # <<>>
        /\ fifo' = [fifo EXCEPT ![Background] = Tail(fifo[Background])]
        /\ UNCHANGED <<arrived, overrun, discarded, ctlQ, ctlDropped, isr, loop, delivered>>
    BY <1>2 DEF IrqReadFifo1, history, ctlVars
  <2>2. \/ /\ Len(bgQ) < Depth /\ bgQ' = Append(bgQ, Head(fifo[Background]))
           /\ bgDropped' = bgDropped
        \/ /\ bgQ' = bgQ /\ bgDropped' = (bgDropped + 1) % DroppedMod
    BY <1>2 DEF IrqReadFifo1, ReadFrame, BgQueue!Accept, BgQueue!Refuse
  <2>3. /\ Queued(Background)' = bgQ' /\ DroppedCount(Background)' = bgDropped'
        /\ \A k \in Classes \ {Background} :
             Queued(k)' = Queued(k) /\ DroppedCount(k)' = DroppedCount(k)
    BY <2>1, TwoClasses DEF Queued, DroppedCount
  <2> QED BY <2>1, <2>2, <2>3, TwoClasses, ReadStep
<1>3. CASE IrqEnter \/ IrqFifo0Empty \/ IrqExit
  BY <1>3, MoveStep
     DEF IInv, Shapes, IrqEnter, IrqFifo0Empty, IrqExit, history, ctlVars, bgVars
<1> QED BY <1>1, <1>2, <1>3 DEF RxIrqHandler

LEMMA LoopStep ==
  ASSUME IInv, ProcessRx
  PROVE  IInv'
<1>1. CASE DeliverControl
  <2>1. /\ ctlQ # <<>> /\ ctlQ' = Tail(ctlQ) /\ ctlDropped' = ctlDropped
        /\ delivered' = [delivered EXCEPT ![Control] =
                           Append(delivered[Control], Head(ctlQ))]
        /\ UNCHANGED <<fifo, arrived, overrun, discarded, bgQ, bgDropped, isr, loop>>
    BY <1>1 DEF DeliverControl, CtlQueue!Take, history, bgVars
  <2>2. /\ Queued(Control)' = ctlQ' /\ DroppedCount(Control)' = ctlDropped'
        /\ \A k \in Classes \ {Control} :
             Queued(k)' = Queued(k) /\ DroppedCount(k)' = DroppedCount(k)
    BY <2>1 DEF Queued, DroppedCount
  <2> QED BY <2>1, <2>2, TwoClasses, DeliverStep
<1>2. CASE DeliverBackground
  <2>1. /\ bgQ # <<>> /\ bgQ' = Tail(bgQ) /\ bgDropped' = bgDropped
        /\ delivered' = [delivered EXCEPT ![Background] =
                           Append(delivered[Background], Head(bgQ))]
        /\ UNCHANGED <<fifo, arrived, overrun, discarded, ctlQ, ctlDropped, isr, loop>>
    BY <1>2 DEF DeliverBackground, BgQueue!Take, history, ctlVars
  <2>2. /\ Queued(Background)' = bgQ' /\ DroppedCount(Background)' = bgDropped'
        /\ \A k \in Classes \ {Background} :
             Queued(k)' = Queued(k) /\ DroppedCount(k)' = DroppedCount(k)
    BY <2>1, TwoClasses DEF Queued, DroppedCount
  <2> QED BY <2>1, <2>2, TwoClasses, DeliverStep
<1>3. CASE StartProcessRx \/ ControlQueueEmpty \/ BackgroundQueueEmpty
  BY <1>3, MoveStep
     DEF IInv, Shapes, StartProcessRx, ControlQueueEmpty, BackgroundQueueEmpty,
         history, ctlVars, bgVars
<1> QED BY <1>1, <1>2, <1>3 DEF ProcessRx

\* The invariant of the receive path holds whenever the interrupt comes and
\* the main loop recovers (CanDriver_RxIrqHandler, CanDriver_ProcessRx,
\* CanDriver_Recover).
THEOREM InvHolds == Spec => []IInv
<1>1. IInv /\ [Next]_vars => IInv'
  <2>1. CASE UNCHANGED vars
    BY <2>1, MoveStep DEF vars, history, ctlVars, bgVars, IInv, Shapes
  <2> QED BY <2>1, ReceiveStep, InterruptStep, LoopStep, RecoverStep DEF Next
<1> QED BY InitSound, <1>1, PTL DEF Spec

\* FIFOs and queues stay within their depth, and the dropped counters never wrap.
THEOREM TypeCorrect == Spec => []TypeOK
<1>1. ASSUME IInv PROVE TypeOK
  <2>1. \A c \in Classes : /\ Queued(c) \in Seq(Frames) /\ Len(Queued(c)) <= Depth
                           /\ Len(fifo[c]) <= HwDepth
    BY <1>1 DEF IInv, Held, Flow
  <2>2. ASSUME NEW c \in Classes PROVE DroppedCount(c) \in 0..MaxArrivals
    <3>1. PICK d, f, q, lost, over, gone \in Nat :
            /\ Len(delivered[c]) = d /\ Len(fifo[c]) = f /\ Len(Queued(c)) = q
            /\ DroppedCount(c) = lost /\ overrun[c] = over /\ discarded[c] = gone
            /\ arrived[c] = d + f + q + lost + over + gone
      BY <1>1, Tally
    <3>2. lost <= MaxArrivals
      BY <1>1, <3>1, Lengths, Constants
    <3> QED BY <3>1, <3>2, Constants
  <2>3. /\ ctlQ \in Seq(Frames) /\ Len(ctlQ) <= Depth
        /\ bgQ \in Seq(Frames) /\ Len(bgQ) <= Depth
        /\ ctlDropped \in 0..MaxArrivals /\ bgDropped \in 0..MaxArrivals
    BY <2>1, <2>2, TwoClasses
  <2> QED BY <1>1, <2>1, <2>3 DEF TypeOK, IInv, Shapes
<1> QED BY <1>1, InvHolds, PTL

\* Every frame the controller received was delivered, waits, was counted as
\* dropped, overwritten in a full hardware FIFO, or discarded by a recovery.
THEOREM NothingLost == Spec => []EveryFrameAccounted
<1>1. ASSUME IInv PROVE EveryFrameAccounted
  BY <1>1 DEF IInv, Counted, EveryFrameAccounted
<1> QED BY <1>1, InvHolds, PTL

\* The frames of a class reach the callbacks in the order they arrived, through
\* full FIFOs, full queues and recoveries.
THEOREM OrderKept == Spec => []ClassOrderKept
<1>1. ASSUME IInv PROVE ClassOrderKept
  BY <1>1, FlowIsOrdered DEF IInv, Held, ClassOrderKept
<1> QED BY <1>1, InvHolds, PTL
==============================================================================
