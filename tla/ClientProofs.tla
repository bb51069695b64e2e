---------------------------- MODULE ClientProofs ----------------------------
(***************************************************************************)
(* The client of the PC and its scheduler.  The first part is about        *)
(* UdsExchange, the second about QueuedScheduler.                          *)
(*                                                                         *)
(* The response buffer is left alone while it is sent from, and the newest *)
(* message is never dropped, for every capacity of the endpoint's queue,   *)
(* length of transfers, set of services and number of retries.             *)
(*                                                                         *)
(* ResponseIntact is inductive by itself: a busy endpoint is being served  *)
(* (g_isotp_serving), and a served endpoint keeps both ways to the buffer  *)
(* closed.  It is carried through the parts of APP_ServiceIsotp one by     *)
(* one.  For NewestKept the reader must find space after it dropped the    *)
(* oldest message: only the reader adds to the queue.                      *)
(*                                                                         *)
(* For InSync, OneExchange says that until send or receive raises all      *)
(* there is on the link belongs to one request, in the order it is         *)
(* answered in: a request, then any number of NRC 78 and fragments, then   *)
(* at most one final response.                                             *)
(***************************************************************************)
EXTENDS UdsExchange, QueuedScheduler, TLAPS

Sids == Services \cup {"none"}

Whole == [kind : {"request", "wait", "final"}, sid : Sids, n : Nat]
Optional == {None} \cup Whole
Message == {None, Fragment} \cup Whole

NodeStates ==
  [ready : Optional, serving : BOOLEAN, tx : Optional, left : Nat, buffer : Optional,
   pending : Optional, lost : BOOLEAN]

Clients ==
  [pc : {"idle", "send", "receive"}, n : Nat, sid : Sids, attempt : Nat, answer : Optional]

\* The types of the link, the node and the client.
TypeOK ==
  /\ toNode \in Seq(Message) /\ toPc \in Seq(Message) /\ route \in Seq(Message)
  /\ reader \in [pc : {"recv", "put", "drop", "putAgain"}, msg : Message]
  /\ node \in NodeStates
  /\ client \in Clients

\* ResponseIntact of a node.
Intact(n) == Busy(n) => n.serving /\ n.buffer = n.tx

\* The queue keeps its bound, with space once its oldest message was dropped.
QueueBounded ==
  /\ Len(route) <= QueueCapacity
  /\ reader.pc = "putAgain" => ~Full

IInv == TypeOK /\ Intact(node) /\ QueueBounded

\* The nodes that keep their buffer, each with its output.
Outputs == {w \in [node : NodeStates, out : Seq(Message)] : Intact(w.node)}

-------------------------------------------------------------------------------
\* What With builds is taken apart again.
LEMMA WithParts ==
  ASSUME NEW n \in NodeStates, Intact(n), NEW out \in Seq(Message)
  PROVE  With(n, out) \in Outputs
BY DEF With, Outputs

LEMMA OutputsParts ==
  ASSUME NEW w \in Outputs
  PROVE  w.node \in NodeStates /\ Intact(w.node) /\ w.out \in Seq(Message)
BY DEF Outputs

\* A lost response changes nothing the buffer depends on.
LEMMA LostKeeps ==
  ASSUME NEW n \in NodeStates, Intact(n)
  PROVE  Lost(n) \in NodeStates /\ Intact(Lost(n))
BY DEF Lost, NodeStates, Intact, Busy

\* IsotpTx_Start is handed a buffer to which nobody else writes until the
\* endpoint is free.
LEMMA StartKeeps ==
  ASSUME NEW n \in NodeStates, Intact(n), ~n.serving, NEW out \in Seq(Message),
         NEW m \in Whole
  PROVE  Start(n, out, m) \subseteq Outputs
<1>1. ~Busy(n)
  BY DEF Intact
<1> DEFINE sent == [n EXCEPT !.serving = TRUE]
           started == [n EXCEPT !.serving = TRUE, !.buffer = m, !.tx = m,
                                !.left = MaxPolls]
<1>2. sent \in NodeStates /\ Intact(sent)
  BY <1>1 DEF NodeStates, Intact, Busy
<1>3. started \in NodeStates /\ Intact(started)
  BY NodeAssumption DEF NodeStates, Optional, Intact, Busy
<1>4. Append(out, m) \in Seq(Message)
  BY DEF Message
<1> HIDE DEF sent, started
<1>5. {With(sent, Append(out, m)), With(started, out)} \subseteq Outputs
  BY <1>2, <1>3, <1>4, WithParts
<1> QED BY <1>1, <1>5 DEF Start, sent, started

\* What is left of a transfer are fragments.
LEMMA RemainsAreFragments ==
  ASSUME NEW response, NEW frames \in Remains(response)
  PROVE  frames \in Seq({Fragment})
<1>1. PICK f \in Nat : frames = [i \in 1..f |-> Fragment]
  BY NodeAssumption DEF Remains
<1> QED BY <1>1

\* IsotpTx_Poll sends from the buffer or ends the transfer.
LEMMA PollTxKeeps ==
  ASSUME NEW n \in NodeStates, Intact(n), NEW out \in Seq(Message)
  PROVE  PollTx(n, out) \subseteq Outputs
<1> DEFINE m == [n EXCEPT !.left = @ - 1]
<1>1. Ended(n) \in NodeStates /\ Intact(Ended(n))
  BY DEF Ended, NodeStates, Optional, Intact, Busy
<1>2. n.left # 0 => m \in NodeStates /\ Intact(m)
  BY DEF NodeStates, Intact, Busy
<1>3. Append(out, n.buffer) \in Seq(Message)
  BY DEF NodeStates, Optional, Message
<1> HIDE DEF m
<1>4. {With(n, out), With(Ended(n), Append(out, n.buffer))} \subseteq Outputs
  BY <1>1, <1>3, WithParts
<1>6. ASSUME NEW frames \in Remains(n.buffer)
      PROVE  With(Lost(Ended(n)), out \o frames) \in Outputs
  <2>1. frames \in Seq(Message)
    BY RemainsAreFragments DEF Message
  <2>2. out \o frames \in Seq(Message)
    BY <2>1
  <2> QED BY <1>1, <2>2, WithParts, LostKeeps
<1>5. n.left # 0 => With(m, out) \in Outputs
  BY <1>2, WithParts
<1> QED BY <1>4, <1>5, <1>6 DEF PollTx, m

\* A request is served, and the buffer written to, when no response is sent.
LEMMA ServeKeeps ==
  ASSUME NEW n \in NodeStates, Intact(n), NEW out \in Seq(Message)
  PROVE  Serve(n, out) \subseteq Outputs
<1>1. CASE ~MayServe(n)
  BY <1>1, WithParts DEF Serve
<1>2. CASE MayServe(n)
  <2> DEFINE taken == [n EXCEPT !.ready = None]
             waiting == [taken EXCEPT !.pending = n.ready]
  <2>1. n.ready \in Whole
    BY <1>2 DEF MayServe, NodeStates, Optional
  <2>2. Response("final", n.ready) \in Whole /\ Response("wait", n.ready) \in Whole
    BY <2>1 DEF Response, Whole
  <2>3. taken \in NodeStates /\ Intact(taken) /\ ~taken.serving
    BY <1>2 DEF NodeStates, Optional, Busy, Intact, MayServe
  <2>4. waiting \in NodeStates /\ Intact(waiting) /\ ~waiting.serving
    BY <2>1, <2>3 DEF NodeStates, Optional, Busy, Intact
  <2> HIDE DEF taken, waiting
  <2>5. With(Lost(taken), out) \in Outputs
    BY <2>3, LostKeeps, WithParts
  <2>6. Start(taken, out, Response("final", n.ready)) \subseteq Outputs
    BY <2>2, <2>3, StartKeeps
  <2>7. Start(waiting, out, Response("wait", n.ready)) \subseteq Outputs
    BY <2>2, <2>4, StartKeeps
  <2> QED BY <1>2, <2>5, <2>6, <2>7 DEF Serve, taken, waiting
<1> QED BY <1>1, <1>2

\* The deferred response waits until no response is sent.
LEMMA PollPendingKeeps ==
  ASSUME NEW n \in NodeStates, Intact(n), NEW out \in Seq(Message)
  PROVE  PollPending(n, out) \subseteq Outputs
<1>1. CASE ~MayPoll(n)
  BY <1>1, WithParts DEF PollPending
<1>2. CASE MayPoll(n)
  <2> DEFINE taken == [n EXCEPT !.pending = None]
  <2>1. n.pending \in Whole
    BY <1>2 DEF MayPoll, NodeStates, Optional
  <2>2. Response("final", n.pending) \in Whole
    BY <2>1 DEF Response, Whole
  <2>3. taken \in NodeStates /\ Intact(taken) /\ ~taken.serving
    BY <1>2 DEF NodeStates, Optional, Busy, Intact, MayPoll
  <2> QED BY <1>2, <2>2, <2>3, StartKeeps DEF PollPending
<1> QED BY <1>1, <1>2

\* Only an endpoint that is not busy is freed.
LEMMA FreeKeeps ==
  ASSUME NEW n \in NodeStates, Intact(n)
  PROVE  FreeEndpoint(n) \in NodeStates /\ Intact(FreeEndpoint(n))
<1> DEFINE s == n.serving /\ ~MayFree(n)
<1>1. s \in BOOLEAN /\ (Busy(n) => s)
  BY DEF MayFree, Intact, NodeStates
<1>2. FreeEndpoint(n) = [n EXCEPT !.serving = s]
  BY DEF FreeEndpoint
<1> HIDE DEF s
<1> QED BY <1>1, <1>2 DEF NodeStates, Intact, Busy

-------------------------------------------------------------------------------
\* The invariant holds before the first request.
LEMMA InitEstablishes == Init => IInv
BY QueueAssumption DEF Init, LinkInit, NodeInit, ClientInit, IInv, TypeOK, Message, Optional,
   NodeStates,
   Clients, Sids, Intact, Busy, QueueBounded, Full

\* An iteration of the main loop.
LEMMA ServiceKeeps ==
  ASSUME IInv, ServiceIsotp, UNCHANGED clientVars
  PROVE  IInv'
<1>1. PICK polled \in PollTx(node, toPc) :
        \E served \in Serve(polled.node, polled.out) :
          \E done \in PollPending(served.node, served.out) :
            node' = FreeEndpoint(done.node) /\ toPc' = done.out
  BY DEF ServiceIsotp
<1>2. PICK served \in Serve(polled.node, polled.out) :
        \E done \in PollPending(served.node, served.out) :
          node' = FreeEndpoint(done.node) /\ toPc' = done.out
  BY <1>1
<1>3. PICK done \in PollPending(served.node, served.out) :
        node' = FreeEndpoint(done.node) /\ toPc' = done.out
  BY <1>2
<1>4. polled \in Outputs
  BY <1>1, PollTxKeeps DEF IInv, TypeOK
<1>5. served \in Outputs
  BY <1>2, <1>4, OutputsParts, ServeKeeps
<1>6. done \in Outputs
  BY <1>3, <1>5, OutputsParts, PollPendingKeeps
<1>7. node' \in NodeStates /\ Intact(node') /\ toPc' \in Seq(Message)
  BY <1>3, <1>6, OutputsParts, FreeKeeps
<1> QED BY <1>7 DEF ServiceIsotp, IInv, TypeOK, QueueBounded, Full, clientVars, Intact, Busy

\* A request that is routed does not touch the response.
LEMMA RouteKeeps ==
  ASSUME IInv, RouteRequest, UNCHANGED clientVars
  PROVE  IInv'
<1>1. Head(toNode) \in Message /\ Tail(toNode) \in Seq(Message)
  BY DEF RouteRequest, IInv, TypeOK
<1>2. CASE Head(toNode) # Fragment /\ toNode' = Tail(toNode) /\ UNCHANGED toPc
           /\ node' = [node EXCEPT !.ready = IF @ = None THEN Head(toNode) ELSE @]
  <2>1. PICK m \in Optional : node' = [node EXCEPT !.ready = m]
    BY <1>1, <1>2 DEF IInv, TypeOK, NodeStates, Message, Optional
  <2>2. node' \in NodeStates /\ Intact(node')
    BY <2>1 DEF IInv, TypeOK, NodeStates, Intact, Busy
  <2> QED BY <1>1, <1>2, <2>2 DEF RouteRequest, IInv, TypeOK, QueueBounded, Full, clientVars,
             Intact, Busy
<1>3. CASE RouteFragment
  <2>1. node' \in NodeStates /\ Intact(node')
    BY <1>3, LostKeeps DEF RouteFragment, IInv, TypeOK
  <2>2. toNode' \in Seq(Message)
    <3>1. CASE toNode' = Tail(toNode)
      BY <1>1, <3>1
    <3>2. CASE Len(toNode) > 1 /\ toNode' = Tail(Tail(toNode))
      <4> DEFINE t == Tail(toNode)
      <4>1. t \in Seq(Message) /\ Len(t) = Len(toNode) - 1
        BY <1>1, <3>2 DEF IInv, TypeOK
      <4> HIDE DEF t
      <4>2. t # <<>> => Tail(t) \in Seq(Message)
        BY <4>1
      <4>3. t # <<>>
        BY <3>2, <4>1 DEF IInv, TypeOK
      <4> QED BY <3>2, <4>2, <4>3 DEF t
    <3> QED BY <1>3, <3>1, <3>2 DEF RouteFragment
  <2>3. toPc' \in Seq(Message)
    BY <1>3 DEF RouteFragment, IInv, TypeOK, Message
  <2> QED BY <2>1, <2>2, <2>3 DEF RouteRequest, IInv, TypeOK, QueueBounded, Full, clientVars,
             Intact, Busy
<1> QED BY <1>2, <1>3 DEF RouteRequest

\* The reader adds a message when there is space.
LEMMA ReaderKeeps ==
  ASSUME IInv, Reader, UNCHANGED <<node, clientVars>>
  PROVE  IInv'
<1> USE QueueAssumption DEF IInv, TypeOK, QueueBounded, Full, clientVars, Intact, Busy
<1>1. CASE ReaderRecv
  <2>1. Head(toPc) \in Message /\ Tail(toPc) \in Seq(Message)
    BY <1>1 DEF ReaderRecv
  <2> QED BY <1>1, <2>1 DEF ReaderRecv
<1>2. None \in Message
  BY DEF Message
<1>3. ASSUME ~Full
      PROVE  /\ Append(route, reader.msg) \in Seq(Message)
             /\ Len(Append(route, reader.msg)) <= QueueCapacity
  BY <1>3
<1>4. CASE ReaderPut
  <2>1. CASE ~Full
    <3>1. route' = Append(route, reader.msg) /\ reader' = [pc |-> "recv", msg |-> None]
          /\ UNCHANGED <<toNode, toPc>>
      BY <1>4, <2>1 DEF ReaderPut
    <3> QED BY <3>1, <2>1, <1>2, <1>3
  <2>2. CASE Full
    <3>1. reader' = [reader EXCEPT !.pc = "drop"] /\ UNCHANGED <<route, toNode, toPc>>
      BY <1>4, <2>2 DEF ReaderPut
    <3> QED BY <3>1
  <2> QED BY <2>1, <2>2
<1>5. CASE ReaderDropOldest
  <2>1. /\ WithoutOldest(route) \in Seq(Message)
        /\ Len(WithoutOldest(route)) < QueueCapacity
    BY DEF WithoutOldest
  <2> QED BY <1>5, <2>1 DEF ReaderDropOldest
<1>6. CASE ReaderPutAgain
  BY <1>2, <1>3, <1>6 DEF ReaderPutAgain
<1> QED BY <1>1, <1>4, <1>5, <1>6 DEF Reader

\* The client takes messages from the queue and sends requests.
LEMMA ClientKeeps ==
  ASSUME IInv, Client, UNCHANGED node
  PROVE  IInv'
<1> USE DEF IInv, TypeOK, QueueBounded, Full, Intact, Busy
<1>1. ASSUME NEW sid \in Services, Request(sid)
      PROVE  IInv'
  <2>1. client' \in Clients /\ UNCHANGED link
    BY <1>1 DEF Request, Sids, Clients, Optional
  <2> QED BY <2>1 DEF link
<1>2. CASE SendRequest
  <2> DEFINE m == [kind |-> "request", sid |-> client.sid, n |-> client.n]
  <2>1. m \in Message
    BY DEF Message, Whole, Clients
  <2>2. Append(toNode, m) \in Seq(Message)
    BY <2>1
  <2>3. client' \in Clients
    BY <1>2 DEF SendRequest, Clients
  <2> QED BY <1>2, <2>2, <2>3 DEF SendRequest
<1>3. CASE Receive
  <2>1. Tail(route) \in Seq(Message) /\ Len(Tail(route)) < Len(route)
    BY <1>3 DEF Receive
  <2>2. client' \in Clients
    <3>1. Head(route) \in Optional
      BY <1>3 DEF Receive, Message, Optional
    <3> QED BY <1>3, <3>1 DEF Receive, Clients
  <2> QED BY <1>3, <2>1, <2>2, QueueAssumption DEF Receive
<1>4. ASSUME TimedOut PROVE client' \in Clients
  <2>1. client.attempt < Retries => client.attempt + 1 \in Nat
    BY DEF Clients
  <2>2. [client EXCEPT !.pc = "idle"] \in Clients
    BY DEF Clients
  <2>3. CASE client.attempt < Retries
    BY <1>4, <2>1, <2>3 DEF TimedOut, Clients
  <2> QED BY <1>4, <2>2, <2>3 DEF TimedOut
<1>5. CASE Timeout
  <2>1. client' \in Clients /\ UNCHANGED link
    BY <1>4, <1>5 DEF Timeout
  <2> QED BY <2>1 DEF link
<1>6. CASE SendTimeout
  <2>1. Append(toNode, Fragment) \in Seq(Message)
    BY DEF Message
  <2>2. client' \in Clients
    BY <1>4, <1>6 DEF SendTimeout
  <2> QED BY <1>6, <2>1, <2>2 DEF SendTimeout
<1>7. CASE SendDrops
  <2>1. Tail(route) \in Seq(Message) /\ Len(Tail(route)) < Len(route)
    BY <1>7 DEF SendDrops
  <2> QED BY <1>7, <2>1, QueueAssumption DEF SendDrops, clientVars
<1>8. CASE ReceiveFragment
  <2>1. PICK i \in 1..Len(route) : route' = SubSeq(route, i + 1, Len(route))
    <3>1. CASE route' = Tail(route)
      <4>1. Tail(route) = SubSeq(route, 1 + 1, Len(route)) /\ 1 \in 1..Len(route)
        BY <1>8 DEF ReceiveFragment
      <4> QED BY <3>1, <4>1
    <3> QED BY <1>8, <3>1 DEF ReceiveFragment
  <2>2. route' \in Seq(Message) /\ Len(route') < Len(route)
    <3>1. /\ SubSeq(route, i + 1, Len(route)) \in Seq(Message)
          /\ Len(SubSeq(route, i + 1, Len(route))) = Len(route) - i
      OBVIOUS
    <3> QED BY <2>1, <3>1
  <2>3. client' \in Clients
    <3>1. [client EXCEPT !.pc = "idle"] \in Clients
      BY DEF Clients
    <3> QED BY <1>4, <1>8, <3>1 DEF ReceiveFragment
  <2> QED BY <1>8, <2>2, <2>3, QueueAssumption DEF ReceiveFragment
<1> QED BY <1>1, <1>2, <1>3, <1>5, <1>6, <1>7, <1>8 DEF Client, Transport

\* Every step keeps the invariant.
LEMMA NextKeeps == IInv /\ [Next]_vars => IInv'
<1> SUFFICES ASSUME IInv, [Next]_vars PROVE IInv'
  OBVIOUS
<1>1. CASE UNCHANGED vars
  BY <1>1 DEF vars, link, clientVars, IInv, TypeOK, QueueBounded, Full, Intact, Busy
<1>2. CASE NodeLoop /\ UNCHANGED clientVars
  BY <1>2, ServiceKeeps, RouteKeeps DEF NodeLoop
<1> QED BY <1>1, <1>2, ReaderKeeps, ClientKeeps DEF Next

\* Types, the buffer and the bound of the queue hold in every behaviour.
THEOREM InvHolds == Spec => []IInv
<1> QED BY InitEstablishes, NextKeeps, PTL DEF Spec

\* No request and no deferred response is written over one that is being sent
\* (APP_ServiceIsotp), however long transfers last and however they end.
THEOREM BufferLeftAlone == Spec => []ResponseIntact
<1>1. IInv => ResponseIntact
  BY DEF IInv, Intact, ResponseIntact
<1> QED BY <1>1, InvHolds, PTL

\* A queue of any capacity drops its oldest message, never the one that just
\* came (_put_latest).
THEOREM NewestIsKept == Spec => NewestKept
<1>1. IInv /\ [Next]_vars =>
        [reader.pc # "recv" /\ reader'.pc = "recv" => route' = Append(route, reader.msg)]_vars
  <2> SUFFICES ASSUME IInv, Next, reader.pc # "recv", reader'.pc = "recv"
               PROVE  route' = Append(route, reader.msg)
    OBVIOUS
  <2>1. CASE Reader
    BY <2>1 DEF Reader, ReaderRecv, ReaderPut, ReaderDropOldest, ReaderPutAgain, IInv,
       TypeOK, QueueBounded
  <2>2. CASE UNCHANGED reader
    BY <2>2
  <2> QED BY <2>1, <2>2 DEF Next, NodeLoop, RouteRequest, ServiceIsotp, Client, Request,
             Transport, SendRequest, SendTimeout, SendDrops, Receive, ReceiveFragment,
             Timeout, link
<1> QED BY <1>1, InvHolds, PTL DEF Spec, NewestKept
-------------------------------------------------------------------------------
(***************************************************************************)
(* InSync.  Until send or receive raises there are the messages of at most *)
(* one exchange on the link, and of them the final response comes last:    *)
(* when the client has it, nothing is left that the next exchange could    *)
(* take for its answer.                                                    *)
(***************************************************************************)

AnswerTo(k, m) == m = Fragment \/ (m.kind \in {"wait", "final"} /\ m.n = k)

NoFinal(s) == \A i \in 1..Len(s) : s[i].kind # "final"

\* Responses to exchange k and fragments, of which none follows the final one.
Answers(k, s) ==
  \A i \in 1..Len(s) : AnswerTo(k, s[i]) /\ (s[i].kind = "final" => i = Len(s))

\* A node that has nothing to answer, and one that works on exchange k alone.
Silent(n, out) == n.ready = None /\ n.pending = None /\ n.tx = None /\ out = <<>>

Alone(n, out, k) ==
  /\ Answers(k, out)
  /\ n.ready # None => n.ready.n = k /\ n.pending = None /\ n.tx = None /\ out = <<>>
  /\ n.pending # None => /\ n.pending.n = k /\ NoFinal(out)
                         /\ n.tx # None => n.tx.kind = "wait"
  /\ n.tx # None => AnswerTo(k, n.tx) /\ NoFinal(out)

Delivered == route = <<>> /\ reader.msg = None

\* The request, its deferred response or its final response is somewhere, and
\* nothing but NRC 78 and fragments precedes the final response.
OneExchange ==
  /\ toNode # <<>> => /\ Len(toNode) = 1 /\ Head(toNode).n = client.n
                      /\ Head(toNode) # Fragment
                      /\ Silent(node, toPc) /\ Delivered
  /\ node.ready # None => Delivered
  /\ Alone(node, toPc, client.n)
  /\ reader.msg # None => /\ AnswerTo(client.n, reader.msg)
                          /\ reader.msg.kind = "final" => Silent(node, toPc)
  /\ Answers(client.n, route)
  /\ ~NoFinal(route) => Silent(node, toPc) /\ reader.msg = None

SyncInv ==
  ~failed =>
    /\ reader.pc = "recv" <=> reader.msg = None
    /\ client.answer # None => client.answer.n = client.n
    /\ IF client.pc = "receive" THEN OneExchange
       ELSE toNode = <<>> /\ Silent(node, toPc) /\ Delivered

\* What a part of APP_ServiceIsotp may make of a node that works on exchange k.
Steps(n, out, k) ==
  {w \in Outputs : /\ Alone(w.node, w.out, k)
                   /\ n.ready = None => w.node.ready = None
                   /\ Silent(n, out) => Silent(w.node, w.out)}

\* A response is added behind those that announce it.
LEMMA AnswersAppend ==
  ASSUME NEW k \in Nat, NEW s \in Seq(Message), NEW m \in Message,
         NoFinal(s), Answers(k, s), AnswerTo(k, m)
  PROVE  Answers(k, Append(s, m)) /\ (m.kind # "final" => NoFinal(Append(s, m)))
BY DEF Answers, NoFinal, AnswerTo

\* What is left of a transfer comes without a final response.
LEMMA AnswersRemains ==
  ASSUME NEW k \in Nat, NEW s \in Seq(Message), NoFinal(s), Answers(k, s),
         NEW response, NEW frames \in Remains(response)
  PROVE  Answers(k, s \o frames) /\ NoFinal(s \o frames)
<1>1. frames \in Seq({Fragment})
  BY RemainsAreFragments
<1>2. /\ Len(s \o frames) = Len(s) + Len(frames)
      /\ \A i \in 1..Len(s \o frames) :
           (s \o frames)[i] = IF i <= Len(s) THEN s[i] ELSE frames[i - Len(s)]
  BY <1>1
<1>3. \A i \in 1..Len(s \o frames) :
        (i \in 1..Len(s) /\ (s \o frames)[i] = s[i]) \/ (s \o frames)[i] = Fragment
  BY <1>1, <1>2
<1>4. Fragment.kind # "final"
  BY DEF Fragment
<1> QED BY <1>3, <1>4 DEF Answers, NoFinal, AnswerTo

\* Responses are taken from the front.
LEMMA AnswersTail ==
  ASSUME NEW k \in Nat, NEW s \in Seq(Message), Answers(k, s), s # <<>>
  PROVE  /\ AnswerTo(k, Head(s)) /\ Answers(k, Tail(s))
         /\ Head(s).kind = "final" => Tail(s) = <<>>
         /\ NoFinal(s) => NoFinal(Tail(s)) /\ Head(s).kind # "final"
         /\ ~NoFinal(s) /\ Head(s).kind # "final" => Tail(s) # <<>>
<1> DEFINE t == Tail(s)
<1>1. Head(s) = s[1] /\ Len(s) \in Nat /\ Len(s) > 0
  OBVIOUS
<1>2. /\ t \in Seq(Message) /\ Len(t) = Len(s) - 1
      /\ \A i \in 1..Len(t) : t[i] = s[i + 1]
  OBVIOUS
<1> HIDE DEF t
<1>3. 1 \in 1..Len(s) /\ \A i \in 1..Len(t) : i + 1 \in 1..Len(s)
  BY <1>1, <1>2
<1>4. /\ AnswerTo(k, s[1]) /\ Answers(k, t)
      /\ s[1].kind = "final" => Len(t) = 0
  <2>1. \A i \in 1..Len(t) : AnswerTo(k, t[i]) /\ (t[i].kind = "final" => i + 1 = Len(s))
    BY <1>2, <1>3 DEF Answers
  <2> QED BY <1>1, <1>2, <1>3, <2>1 DEF Answers
<1>5. NoFinal(s) => NoFinal(t) /\ s[1].kind # "final"
  BY <1>1, <1>2, <1>3 DEF NoFinal
<1>6. Len(t) = 0 => t = <<>>
  BY <1>2
<1>7. ASSUME t = <<>>, s[1].kind # "final"
      PROVE  NoFinal(s)
  <2>1. Len(t) = 0
    BY <1>7
  <2>2. Len(s) = 1
    BY <1>1, <1>2, <2>1
  <2>3. \A i \in 1..Len(s) : i = 1
    BY <2>2
  <2> QED BY <1>7, <2>3 DEF NoFinal
<1> QED BY <1>1, <1>4, <1>5, <1>6, <1>7 DEF t

\* A node that is silent works on any exchange.
LEMMA SilentIsAlone ==
  ASSUME NEW n, NEW out, NEW k, Silent(n, out)
  PROVE  Alone(n, out, k)
BY DEF Silent, Alone, Answers

LEMMA StepsParts ==
  ASSUME NEW n, NEW out, NEW k, NEW w \in Steps(n, out, k)
  PROVE  /\ w \in Outputs /\ Alone(w.node, w.out, k)
         /\ n.ready = None => w.node.ready = None
         /\ Silent(n, out) => Silent(w.node, w.out)
BY DEF Steps

LEMMA StaysInSteps ==
  ASSUME NEW n \in NodeStates, NEW out, NEW k, Alone(n, out, k), With(n, out) \in Outputs
  PROVE  With(n, out) \in Steps(n, out, k)
<1>1. With(n, out).node = n /\ With(n, out).out = out
  BY DEF With
<1> QED BY <1>1 DEF Steps

\* IsotpTx_Start of a response, when only NRC 78 of the exchange is under way.
LEMMA StartAlone ==
  ASSUME NEW n \in NodeStates, Intact(n), ~n.serving, NEW out \in Seq(Message),
         NEW m \in Whole, NEW k \in Nat, Answers(k, out), NoFinal(out), AnswerTo(k, m),
         n.ready = None,
         n.pending # None => n.pending.n = k /\ m.kind = "wait"
  PROVE  \A w \in Start(n, out, m) : Alone(w.node, w.out, k) /\ w.node.ready = None
<1>1. ~Busy(n)
  BY DEF Intact
<1> DEFINE sent == [n EXCEPT !.serving = TRUE]
           started == [n EXCEPT !.serving = TRUE, !.buffer = m, !.tx = m,
                                !.left = MaxPolls]
<1>2. Answers(k, Append(out, m)) /\ (m.kind = "wait" => NoFinal(Append(out, m)))
  BY AnswersAppend DEF Message
<1>3. /\ sent.ready = None /\ sent.pending = n.pending /\ sent.tx = None
      /\ started.ready = None /\ started.pending = n.pending /\ started.tx = m
  BY <1>1 DEF Busy, NodeStates
<1> HIDE DEF sent, started
<1>4. Alone(sent, Append(out, m), k)
  BY <1>2, <1>3 DEF Alone
<1>5. Alone(started, out, k)
  BY <1>3 DEF Alone
<1>6. Start(n, out, m) = {With(sent, Append(out, m)), With(started, out)}
  BY <1>1 DEF Start, sent, started
<1>7. /\ With(sent, Append(out, m)).node = sent
      /\ With(sent, Append(out, m)).out = Append(out, m)
      /\ With(started, out).node = started /\ With(started, out).out = out
  BY DEF With
<1> QED BY <1>3, <1>4, <1>5, <1>6, <1>7

\* The parts of APP_ServiceIsotp, one by one.
LEMMA PollTxAlone ==
  ASSUME NEW n \in NodeStates, Intact(n), NEW out \in Seq(Message), NEW k \in Nat,
         Alone(n, out, k)
  PROVE  PollTx(n, out) \subseteq Steps(n, out, k)
<1> DEFINE m == [n EXCEPT !.left = @ - 1]
<1>1. PollTx(n, out) \subseteq Outputs
  BY PollTxKeeps
<1>2. CASE ~Busy(n)
  BY <1>1, <1>2, StaysInSteps DEF PollTx
<1>3. CASE Busy(n)
  <2>1. /\ n.tx # None /\ n.ready = None /\ AnswerTo(k, n.tx) /\ NoFinal(out)
        /\ n.buffer = n.tx /\ n.tx \in Message
    BY <1>3 DEF Busy, Alone, Intact, NodeStates, Optional, Message
  <2>2. /\ Answers(k, Append(out, n.buffer))
        /\ n.tx.kind = "wait" => NoFinal(Append(out, n.buffer))
        /\ \A frames \in Remains(n.buffer) :
             Answers(k, out \o frames) /\ NoFinal(out \o frames)
    BY <2>1, AnswersAppend, AnswersRemains DEF Alone
  <2>3. /\ Ended(n).ready = None /\ Ended(n).pending = n.pending /\ Ended(n).tx = None
        /\ Lost(Ended(n)).ready = None /\ Lost(Ended(n)).pending = n.pending
        /\ Lost(Ended(n)).tx = None
        /\ m.ready = None /\ m.pending = n.pending /\ m.tx = n.tx
    BY <2>1 DEF Ended, Lost, NodeStates
  <2> HIDE DEF m
  <2>4. /\ Alone(Ended(n), Append(out, n.buffer), k)
        /\ \A frames \in Remains(n.buffer) : Alone(Lost(Ended(n)), out \o frames, k)
    BY <2>1, <2>2, <2>3 DEF Alone
  <2>5. Alone(m, out, k)
    BY <2>1, <2>3 DEF Alone
  <2>6. ~Silent(n, out)
    BY <2>1 DEF Silent
  <2>7. \A w \in PollTx(n, out) : Alone(w.node, w.out, k) /\ w.node.ready = None
    <3>1. PollTx(n, out) \subseteq
            {With(Ended(n), Append(out, n.buffer)), With(m, out)}
              \cup {With(Lost(Ended(n)), out \o frames) : frames \in Remains(n.buffer)}
      BY <1>3 DEF PollTx, m
    <3>2. \A v, o : With(v, o).node = v /\ With(v, o).out = o
      BY DEF With
    <3> QED BY <3>1, <3>2, <2>3, <2>4, <2>5
  <2> QED BY <1>1, <2>6, <2>7 DEF Steps
<1> QED BY <1>2, <1>3

LEMMA ServeAlone ==
  ASSUME NEW n \in NodeStates, Intact(n), NEW out \in Seq(Message), NEW k \in Nat,
         Alone(n, out, k)
  PROVE  Serve(n, out) \subseteq Steps(n, out, k)
<1>1. Serve(n, out) \subseteq Outputs
  BY ServeKeeps
<1>2. CASE ~MayServe(n)
  BY <1>1, <1>2, StaysInSteps DEF Serve
<1>3. CASE MayServe(n)
  <2> DEFINE taken == [n EXCEPT !.ready = None]
             waiting == [taken EXCEPT !.pending = n.ready]
  <2>1. /\ n.ready \in Whole
        /\ n.ready.n = k /\ n.pending = None /\ n.tx = None /\ out = <<>> /\ ~n.serving
    BY <1>3 DEF MayServe, NodeStates, Optional, Alone
  <2>2. /\ Response("final", n.ready) \in Whole /\ Response("wait", n.ready) \in Whole
        /\ AnswerTo(k, Response("final", n.ready)) /\ AnswerTo(k, Response("wait", n.ready))
        /\ Response("wait", n.ready).kind = "wait"
    BY <2>1 DEF Response, Whole, AnswerTo
  <2>3. Answers(k, out) /\ NoFinal(out)
    BY <2>1 DEF Answers, NoFinal
  <2>4. /\ taken \in NodeStates /\ Intact(taken) /\ ~taken.serving
        /\ taken.ready = None /\ taken.pending = None /\ taken.tx = None
    BY <2>1 DEF NodeStates, Optional, Busy, Intact
  <2>5. /\ waiting \in NodeStates /\ Intact(waiting) /\ ~waiting.serving
        /\ waiting.ready = None /\ waiting.pending = n.ready /\ waiting.tx = None
    BY <2>1, <2>4 DEF NodeStates, Optional, Busy, Intact
  <2>6. Lost(taken).ready = None /\ Lost(taken).pending = None /\ Lost(taken).tx = None
    BY <2>4 DEF Lost, NodeStates
  <2> HIDE DEF taken, waiting
  <2>7. Alone(Lost(taken), out, k)
    BY <2>3, <2>6 DEF Alone
  <2>8. \A w \in Start(taken, out, Response("final", n.ready)) :
          Alone(w.node, w.out, k) /\ w.node.ready = None
    BY <2>2, <2>3, <2>4, StartAlone
  <2>9. \A w \in Start(waiting, out, Response("wait", n.ready)) :
          Alone(w.node, w.out, k) /\ w.node.ready = None
    <3>1. waiting.pending.n = k
      BY <2>1, <2>5
    <3> QED BY <2>2, <2>3, <2>5, <3>1, StartAlone
  <2>10. \A w : w = With(Lost(taken), out) => Alone(w.node, w.out, k)
    <3>1. With(Lost(taken), out).node = Lost(taken) /\ With(Lost(taken), out).out = out
      BY DEF With
    <3> QED BY <2>7, <3>1
  <2>11. \A w \in Serve(n, out) : Alone(w.node, w.out, k)
    BY <1>3, <2>8, <2>9, <2>10 DEF Serve, taken, waiting
  <2>12. n.ready # None /\ ~Silent(n, out)
    BY <1>3 DEF MayServe, Silent
  <2> QED BY <1>1, <2>11, <2>12 DEF Steps
<1> QED BY <1>2, <1>3

LEMMA PollPendingAlone ==
  ASSUME NEW n \in NodeStates, Intact(n), NEW out \in Seq(Message), NEW k \in Nat,
         Alone(n, out, k)
  PROVE  PollPending(n, out) \subseteq Steps(n, out, k)
<1>1. PollPending(n, out) \subseteq Outputs
  BY PollPendingKeeps
<1>2. CASE ~MayPoll(n)
  BY <1>1, <1>2, StaysInSteps DEF PollPending
<1>3. CASE MayPoll(n)
  <2> DEFINE taken == [n EXCEPT !.pending = None]
  <2>1. /\ n.pending \in Whole
        /\ n.pending # None /\ n.pending.n = k /\ n.ready = None /\ ~n.serving
        /\ NoFinal(out) /\ Answers(k, out)
    BY <1>3 DEF MayPoll, NodeStates, Optional, Alone
  <2>2. Response("final", n.pending) \in Whole /\ AnswerTo(k, Response("final", n.pending))
    BY <2>1 DEF Response, Whole, AnswerTo
  <2>3. /\ taken \in NodeStates /\ Intact(taken) /\ ~taken.serving
        /\ taken.ready = None /\ taken.pending = None
    BY <2>1 DEF NodeStates, Optional, Busy, Intact
  <2> HIDE DEF taken
  <2>4. \A w \in Start(taken, out, Response("final", n.pending)) :
          Alone(w.node, w.out, k) /\ w.node.ready = None
    BY <2>1, <2>2, <2>3, StartAlone
  <2>5. \A w \in PollPending(n, out) : Alone(w.node, w.out, k) /\ w.node.ready = None
    BY <1>3, <2>4 DEF PollPending, taken
  <2>6. ~Silent(n, out)
    BY <2>1 DEF Silent
  <2> QED BY <1>1, <2>5, <2>6 DEF Steps
<1> QED BY <1>2, <1>3

\* A whole iteration of the main loop.
LEMMA ServiceAlone ==
  ASSUME IInv, ServiceIsotp, NEW k \in Nat, Alone(node, toPc, k)
  PROVE  /\ Alone(node', toPc', k)
         /\ node.ready = None => node'.ready = None
         /\ Silent(node, toPc) => Silent(node', toPc')
<1>1. PICK polled \in PollTx(node, toPc) :
        \E served \in Serve(polled.node, polled.out) :
          \E done \in PollPending(served.node, served.out) :
            node' = FreeEndpoint(done.node) /\ toPc' = done.out
  BY DEF ServiceIsotp
<1>2. PICK served \in Serve(polled.node, polled.out) :
        \E done \in PollPending(served.node, served.out) :
          node' = FreeEndpoint(done.node) /\ toPc' = done.out
  BY <1>1
<1>3. PICK done \in PollPending(served.node, served.out) :
        node' = FreeEndpoint(done.node) /\ toPc' = done.out
  BY <1>2
<1>4. polled \in Steps(node, toPc, k)
  BY <1>1, PollTxAlone DEF IInv, TypeOK
<1>5. served \in Steps(polled.node, polled.out, k)
  <2>1. /\ polled.node \in NodeStates /\ Intact(polled.node) /\ polled.out \in Seq(Message)
        /\ Alone(polled.node, polled.out, k)
    BY <1>4, StepsParts, OutputsParts
  <2> QED BY <1>2, <2>1, ServeAlone
<1>6. done \in Steps(served.node, served.out, k)
  <2>1. /\ served.node \in NodeStates /\ Intact(served.node) /\ served.out \in Seq(Message)
        /\ Alone(served.node, served.out, k)
    BY <1>5, StepsParts, OutputsParts
  <2> QED BY <1>3, <2>1, PollPendingAlone
<1>7. /\ Alone(done.node, done.out, k) /\ done.node \in NodeStates
      /\ node.ready = None => done.node.ready = None
      /\ Silent(node, toPc) => Silent(done.node, done.out)
  BY <1>4, <1>5, <1>6, StepsParts, OutputsParts
<1>8. /\ FreeEndpoint(done.node).ready = done.node.ready
      /\ FreeEndpoint(done.node).pending = done.node.pending
      /\ FreeEndpoint(done.node).tx = done.node.tx
  BY <1>7 DEF FreeEndpoint, NodeStates
<1> QED BY <1>3, <1>7, <1>8 DEF Alone, Silent

\* Nothing is under way before the first request.
LEMMA SyncInitially == Init => SyncInv
BY DEF Init, LinkInit, NodeInit, ClientInit, SyncInv, Silent, Delivered

\* The node answers no exchange but the one it works on.
LEMMA SyncService ==
  ASSUME IInv, SyncInv, ServiceIsotp, UNCHANGED clientVars
  PROVE  SyncInv'
<1> SUFFICES ASSUME ~failed PROVE SyncInv'
  BY DEF SyncInv, clientVars
<1>1. UNCHANGED <<toNode, route, reader, client, failed>>
  BY DEF ServiceIsotp, clientVars
<1>2. client.n \in Nat
  BY DEF IInv, TypeOK, Clients
<1>3. CASE client.pc = "receive"
  <2>1. OneExchange
    BY <1>3 DEF SyncInv
  <2>2. /\ Alone(node', toPc', client.n)
        /\ node.ready = None => node'.ready = None
        /\ Silent(node, toPc) => Silent(node', toPc')
    BY <1>2, <2>1, ServiceAlone DEF OneExchange
  <2>3. OneExchange'
    BY <1>1, <2>1, <2>2 DEF OneExchange, Delivered
  <2> QED BY <1>1, <1>3, <2>3 DEF SyncInv
<1>4. CASE client.pc # "receive"
  <2>1. Silent(node, toPc)
    BY <1>4 DEF SyncInv
  <2>2. Silent(node', toPc')
    BY <1>2, <2>1, SilentIsAlone, ServiceAlone
  <2> QED BY <1>1, <1>4, <2>2 DEF SyncInv, Delivered
<1> QED BY <1>3, <1>4

\* The request moves on into the endpoint.
LEMMA SyncRoute ==
  ASSUME IInv, SyncInv, RouteRequest, UNCHANGED clientVars
  PROVE  SyncInv'
<1> SUFFICES ASSUME ~failed PROVE SyncInv'
  BY DEF SyncInv, clientVars
<1>1. UNCHANGED <<route, reader, client, failed>> /\ toNode # <<>>
  BY DEF RouteRequest, clientVars
<1>2. client.pc = "receive" /\ OneExchange
  BY <1>1 DEF SyncInv
<1>3. /\ Len(toNode) = 1 /\ Head(toNode).n = client.n /\ Head(toNode) # Fragment
      /\ Silent(node, toPc) /\ Delivered
  BY <1>1, <1>2 DEF OneExchange
<1>4. toNode' = <<>> /\ UNCHANGED toPc
  BY <1>3 DEF RouteRequest, IInv, TypeOK
<1>5. node'.ready = Head(toNode) /\ node'.pending = None /\ node'.tx = None
  BY <1>3 DEF RouteRequest, IInv, TypeOK, NodeStates, Silent
<1>6. Alone(node', toPc', client.n)
  BY <1>1, <1>3, <1>4, <1>5 DEF Alone, Silent, Answers
<1>7. Answers(client.n, <<>>) /\ NoFinal(<<>>)
  BY DEF Answers, NoFinal
<1>8. OneExchange'
  BY <1>1, <1>3, <1>4, <1>6, <1>7 DEF OneExchange, Delivered
<1> QED BY <1>1, <1>2, <1>8 DEF SyncInv

\* Responses move through the reader, in order.
LEMMA SyncReader ==
  ASSUME IInv, SyncInv, Reader, UNCHANGED <<node, clientVars>>
  PROVE  SyncInv'
<1> SUFFICES ASSUME ~failed PROVE SyncInv'
  BY DEF SyncInv, clientVars
<1>1. UNCHANGED <<node, toNode, client, failed>>
  BY DEF Reader, ReaderRecv, ReaderPut, ReaderDropOldest, ReaderPutAgain, clientVars
<1>2. client.n \in Nat
  BY DEF IInv, TypeOK, Clients
<1>3. CASE ReaderRecv
  <2>1. /\ toPc # <<>> /\ toPc \in Seq(Message) /\ reader.msg = None
        /\ reader' = [pc |-> "put", msg |-> Head(toPc)]
        /\ toPc' = Tail(toPc) /\ UNCHANGED route
    BY <1>3 DEF ReaderRecv, SyncInv, IInv, TypeOK
  <2>2. client.pc = "receive" /\ OneExchange
    BY <2>1 DEF SyncInv, Silent
  <2>3. ~Silent(node, toPc) /\ node.ready = None /\ toNode = <<>> /\ Alone(node, toPc, client.n)
    BY <2>1, <2>2 DEF OneExchange, Silent, Alone
  <2>4. /\ AnswerTo(client.n, Head(toPc)) /\ Answers(client.n, Tail(toPc))
        /\ Head(toPc).kind = "final" => Tail(toPc) = <<>>
        /\ NoFinal(toPc) => NoFinal(Tail(toPc)) /\ Head(toPc).kind # "final"
    BY <1>2, <2>1, <2>3, AnswersTail DEF Alone
  <2>5. Head(toPc) # None
    BY <2>4 DEF AnswerTo, None, Fragment
  <2>6. Alone(node, Tail(toPc), client.n)
    BY <2>3, <2>4 DEF Alone
  <2>7. Head(toPc).kind = "final" => Silent(node, Tail(toPc))
    BY <2>3, <2>4 DEF Alone, Silent
  <2>8. NoFinal(route)
    BY <2>2, <2>3 DEF OneExchange
  <2>9. OneExchange'
    BY <1>1, <2>1, <2>2, <2>3, <2>4, <2>6, <2>7, <2>8 DEF OneExchange
  <2> QED BY <1>1, <2>1, <2>2, <2>5, <2>9 DEF SyncInv
<1>4. ASSUME UNCHANGED toPc, reader.pc # "recv", reader.msg # None,
             reader'.pc = "recv" <=> reader'.msg = None,
             OneExchange => OneExchange'
      PROVE  SyncInv'
  <2>1. client.pc = "receive"
    BY <1>4 DEF SyncInv, Delivered
  <2> QED BY <1>1, <1>4, <2>1 DEF SyncInv
<1>5. ASSUME reader.msg # None, UNCHANGED toPc, OneExchange,
             reader' = [pc |-> "recv", msg |-> None],
             route' = Append(route, reader.msg)
      PROVE  OneExchange'
  <2>1. /\ NoFinal(route) /\ Answers(client.n, route) /\ AnswerTo(client.n, reader.msg)
        /\ reader.msg.kind = "final" => Silent(node, toPc)
        /\ toNode = <<>> /\ node.ready = None
    BY <1>5 DEF OneExchange, Delivered
  <2>2. /\ Answers(client.n, route')
        /\ reader.msg.kind # "final" => NoFinal(route')
    BY <1>2, <1>5, <2>1, AnswersAppend DEF IInv, TypeOK
  <2> QED BY <1>1, <1>5, <2>1, <2>2 DEF OneExchange, AnswerTo
<1>6. ASSUME reader.msg # None, UNCHANGED toPc, OneExchange,
             reader'.msg \in {reader.msg, None},
             route' \in {route, WithoutOldest(route)}
      PROVE  OneExchange'
  <2>1. /\ NoFinal(route) /\ Answers(client.n, route) /\ AnswerTo(client.n, reader.msg)
        /\ toNode = <<>> /\ node.ready = None
    BY <1>6 DEF OneExchange, Delivered
  <2>2. Answers(client.n, route') /\ NoFinal(route')
    BY <1>2, <1>6, <2>1, AnswersTail DEF IInv, TypeOK, WithoutOldest
  <2> QED BY <1>1, <1>6, <2>1, <2>2 DEF OneExchange
<1>7. CASE ReaderPut \/ ReaderDropOldest \/ ReaderPutAgain
  <2>1. UNCHANGED toPc /\ reader.pc # "recv" /\ reader.msg # None
    BY <1>7 DEF ReaderPut, ReaderDropOldest, ReaderPutAgain, SyncInv
  <2>2. \/ reader' = [pc |-> "recv", msg |-> None] /\ route' = Append(route, reader.msg)
        \/ reader' = [pc |-> "recv", msg |-> None] /\ route' = route
        \/ /\ reader'.pc # "recv" /\ reader'.msg = reader.msg
           /\ route' \in {route, WithoutOldest(route)}
    BY <1>7 DEF ReaderPut, ReaderDropOldest, ReaderPutAgain, IInv, TypeOK
  <2>3. reader'.pc = "recv" <=> reader'.msg = None
    BY <2>1, <2>2
  <2>4. OneExchange => OneExchange'
    BY <1>5, <1>6, <2>1, <2>2
  <2> QED BY <1>4, <2>1, <2>3, <2>4
<1> QED BY <1>3, <1>7 DEF Reader

\* A client that has its answer has left nothing behind it.
LEMMA SyncClient ==
  ASSUME IInv, SyncInv, Client, UNCHANGED node
  PROVE  SyncInv'
<1>1. ASSUME NEW sid \in Services, Request(sid)
      PROVE  SyncInv'
  BY <1>1 DEF Request, SyncInv, link, Delivered
<1>2. CASE SendRequest
  <2> SUFFICES ASSUME ~failed PROVE SyncInv'
    BY <1>2 DEF SyncInv, SendRequest
  <2> DEFINE m == [kind |-> "request", sid |-> client.sid, n |-> client.n]
  <2>1. /\ toNode = <<>> /\ Silent(node, toPc) /\ Delivered
        /\ reader.pc = "recv" <=> reader.msg = None
        /\ client.answer # None => client.answer.n = client.n
    BY <1>2 DEF SyncInv, SendRequest
  <2>2. /\ toNode' = <<m>> /\ UNCHANGED <<node, toPc, route, reader, failed>>
        /\ client' = [client EXCEPT !.pc = "receive"]
    BY <1>2, <2>1 DEF SendRequest
  <2>3. client'.n = client.n /\ client'.answer = client.answer /\ client'.pc = "receive"
    BY <2>2 DEF IInv, TypeOK, Clients
  <2>4. Len(toNode') = 1 /\ Head(toNode').n = client.n /\ Head(toNode') # Fragment
    BY <2>2 DEF Fragment
  <2>5. Alone(node, toPc, client.n)
    BY <2>1, SilentIsAlone
  <2>6. Answers(client.n, <<>>) /\ NoFinal(<<>>)
    BY DEF Answers, NoFinal
  <2>7. OneExchange'
    BY <2>1, <2>2, <2>3, <2>4, <2>5, <2>6 DEF OneExchange, Delivered
  <2> QED BY <2>1, <2>2, <2>3, <2>7 DEF SyncInv
<1>3. CASE Receive
  <2> SUFFICES ASSUME ~failed PROVE SyncInv'
    BY <1>3 DEF SyncInv, Receive
  <2>1. /\ client.pc = "receive" /\ route # <<>> /\ route' = Tail(route)
        /\ UNCHANGED <<node, toNode, toPc, reader, failed>>
        /\ OneExchange
        /\ reader.pc = "recv" <=> reader.msg = None
        /\ client.answer # None => client.answer.n = client.n
    BY <1>3 DEF SyncInv, Receive
  <2>2. /\ AnswerTo(client.n, Head(route)) /\ Answers(client.n, Tail(route))
        /\ Head(route).kind = "final" => Tail(route) = <<>>
        /\ NoFinal(route) => NoFinal(Tail(route)) /\ Head(route).kind # "final"
    BY <2>1, AnswersTail DEF OneExchange, IInv, TypeOK, Clients
  <2>3. toNode = <<>> /\ node.ready = None
    BY <2>1 DEF OneExchange, Delivered
  <2>4. CASE Head(route).kind = "wait"
    <3>1. UNCHANGED client
      BY <1>3, <2>4 DEF Receive, ResponsePending
    <3>2. OneExchange'
      BY <2>1, <2>2, <2>3, <3>1 DEF OneExchange
    <3> QED BY <2>1, <3>1, <3>2 DEF SyncInv
  <2>5. CASE Head(route).kind # "wait"
    <3>1. client' = [client EXCEPT !.pc = "idle", !.answer = Head(route)]
      BY <1>3, <2>5 DEF Receive, ResponsePending
    <3>2. client'.n = client.n /\ client'.pc = "idle" /\ client'.answer = Head(route)
      BY <3>1 DEF IInv, TypeOK, Clients
    <3>3. Head(route) # Fragment
      BY <1>3 DEF Receive
    <3>4. Tail(route) = <<>> /\ Silent(node, toPc) /\ reader.msg = None
      BY <2>1, <2>2, <2>5, <3>3 DEF OneExchange, AnswerTo
    <3> QED BY <2>1, <2>2, <2>3, <3>2, <3>3, <3>4 DEF SyncInv, Delivered, AnswerTo
  <2> QED BY <2>4, <2>5
<1>4. CASE Timeout \/ SendTimeout \/ ReceiveFragment
  BY <1>4 DEF Timeout, SendTimeout, ReceiveFragment, TimedOut, SyncInv
<1>5. CASE SendDrops
  BY <1>5 DEF SendDrops, clientVars, SyncInv, Delivered
<1> QED BY <1>1, <1>2, <1>3, <1>4, <1>5 DEF Client, Transport

LEMMA SyncKept == IInv /\ SyncInv /\ [Next]_vars => SyncInv'
<1> SUFFICES ASSUME IInv, SyncInv, [Next]_vars PROVE SyncInv'
  OBVIOUS
<1>1. CASE UNCHANGED vars
  BY <1>1 DEF vars, link, clientVars, SyncInv, OneExchange, Delivered
<1>2. CASE NodeLoop /\ UNCHANGED clientVars
  BY <1>2, SyncService, SyncRoute DEF NodeLoop
<1> QED BY <1>1, <1>2, SyncReader, SyncClient DEF Next

\* As long as neither send nor receive has raised, TimeoutError or ValueError,
\* every answer is that to the request it is taken for (UdsClient._transact),
\* also after NRC 78, however long the queue and the transfers.
THEOREM AnswersInSync == Spec => []InSync
<1>1. SyncInv => InSync
  BY DEF SyncInv, InSync
<1> QED BY <1>1, InvHolds, SyncInitially, SyncKept, PTL DEF Spec

-------------------------------------------------------------------------------
(***************************************************************************)
(* Exclusive sessions are exclusive for every number of nodes, every set   *)
(* of sessions and every list of jobs.                                     *)
(*                                                                         *)
(* SessionsExclusive is inductive once it is known that only a job of an   *)
(* exclusive session waits for one, and that jobs ask for no session but   *)
(* the exclusive ones and the default: a worker sets active_session in the *)
(* same critical section in which it saw no conflict, and what it set      *)
(* stays until its own release.                                            *)
(***************************************************************************)

Places == {"get", "acquire", "wait", "run", "release", "report", "stopped"}

Workers ==
  [pc : Places, job : Job \cup {NoJob}, attempts : Nat, expired : BOOLEAN,
   status : {"open", "ok", "timeout", "error", "skipped"}]

\* The types of the queues, the workers and the active sessions.
SchedulerTypeOK ==
  /\ queue \in [Nodes -> Seq(Job \cup {NoJob})]
  /\ worker \in [Nodes -> Workers]
  /\ active \in [Nodes -> Exclusive \cup {Default}]
  /\ submitted \in 0..MaxJobs

\* Only jobs of exclusive sessions get to _acquire_session.
WaitersNeedSession ==
  \A n \in Nodes : worker[n].pc \in {"acquire", "wait"} => NeedsSession(n)

SchedulerInv == SchedulerTypeOK /\ WaitersNeedSession /\ SessionsExclusive

\* What an action on node n leaves of the other workers: at most a waiting one
\* is woken.
OthersOnlyWoken(n) ==
  \A m \in Nodes \ {n} :
    \/ worker'[m] = worker[m]
    \/ /\ worker[m].pc = "wait"
       /\ worker'[m] = [worker[m] EXCEPT !.pc = "acquire"]

-------------------------------------------------------------------------------
\* A notification wakes waiting workers and changes nothing else.
LEMMA NotifyAllWakes ==
  ASSUME NEW w \in [Nodes -> Workers]
  PROVE  /\ NotifyAll(w) \in [Nodes -> Workers]
         /\ \A n \in Nodes :
              \/ NotifyAll(w)[n] = w[n]
              \/ w[n].pc = "wait" /\ NotifyAll(w)[n] = [w[n] EXCEPT !.pc = "acquire"]
         /\ \A n \in Nodes : w[n].pc # "wait" => NotifyAll(w)[n] = w[n]
BY DEF NotifyAll, Workers, Places

\* The invariant holds before the first job.
LEMMA SchedulerInitEstablishes == SchedulerInit => SchedulerInv
BY SchedulerAssumption DEF SchedulerInit, SchedulerInv, SchedulerTypeOK, WaitersNeedSession,
   SessionsExclusive,
   NeedsSession, Executing, Idle, NoJob, Workers, Places, Job

\* Submitting and closing only append to queues.
LEMMA CallerKeeps ==
  ASSUME SchedulerInv, \/ \E n \in Nodes, s \in Exclusive \cup {Default} : Submit(n, s)
               \/ Close
  PROVE  SchedulerInv'
<1>1. queue' \in [Nodes -> Seq(Job \cup {NoJob})] /\ submitted' \in 0..MaxJobs
  <2>1. CASE Close
    BY <2>1 DEF Close, SchedulerInv, SchedulerTypeOK
  <2>2. ASSUME NEW n \in Nodes, NEW s \in Exclusive \cup {Default}, Submit(n, s)
        PROVE  queue' \in [Nodes -> Seq(Job \cup {NoJob})] /\ submitted' \in 0..MaxJobs
    <3>1. submitted' \in 1..MaxJobs
      BY <2>2, SchedulerAssumption DEF Submit, SchedulerInv, SchedulerTypeOK
    <3>2. [id |-> submitted', session |-> s] \in Job
      BY <3>1 DEF Job
    <3>3. queue' = [queue EXCEPT ![n] = Append(@, [id |-> submitted', session |-> s])]
      BY <2>2 DEF Submit
    <3>4. Append(queue[n], [id |-> submitted', session |-> s]) \in Seq(Job \cup {NoJob})
      BY <3>2 DEF SchedulerInv, SchedulerTypeOK
    <3> QED BY <3>1, <3>3, <3>4 DEF SchedulerInv, SchedulerTypeOK
  <2> QED BY <2>1, <2>2
<1>2. UNCHANGED <<worker, active>>
  BY DEF Submit, Close
<1> QED BY <1>1, <1>2 DEF SchedulerInv, SchedulerTypeOK, WaitersNeedSession, SessionsExclusive,
           NeedsSession, Executing

\* A step of one worker that keeps the types, wakes at most others, and leaves
\* that worker's part of the invariant intact keeps the invariant.
LEMMA WorkerKeeps ==
  ASSUME SchedulerInv, NEW n \in Nodes, SchedulerTypeOK', OthersOnlyWoken(n),
         \A m \in Nodes \ {n} : active'[m] = active[m],
         (worker[n].pc \in {"acquire", "wait"} => NeedsSession(n))',
         active'[n] = (IF Executing(n) THEN worker[n].job.session ELSE Default)',
         (Executing(n) /\ NeedsSession(n))' =>
           \/ Executing(n) /\ NeedsSession(n)
           \/ ~Conflict(n)
  PROVE  SchedulerInv'
<1>1. ASSUME NEW m \in Nodes \ {n}
      PROVE  /\ worker'[m].job = worker[m].job
             /\ Executing(m)' <=> Executing(m)
             /\ worker'[m].pc \in {"acquire", "wait"} => worker[m].pc \in {"acquire", "wait"}
  BY <1>1 DEF OthersOnlyWoken, SchedulerInv, SchedulerTypeOK, Workers, Executing
<1>2. WaitersNeedSession'
  BY <1>1 DEF SchedulerInv, WaitersNeedSession, NeedsSession
<1>3. \A m \in Nodes :
        active'[m] = (IF Executing(m) THEN worker[m].job.session ELSE Default)'
  BY <1>1 DEF SchedulerInv, SessionsExclusive
<1>4. ASSUME NEW m \in Nodes \ {n}, (Executing(m) /\ NeedsSession(m))',
             (Executing(n) /\ NeedsSession(n))'
      PROVE  FALSE
  <2>1. Executing(m) /\ NeedsSession(m)
    BY <1>1, <1>4 DEF NeedsSession
  <2>2. active[m] \in Exclusive
    BY <2>1 DEF SchedulerInv, SessionsExclusive, NeedsSession
  <2>3. Conflict(n)
    BY <2>2 DEF Conflict
  <2> QED BY <2>1, <2>3, <1>4 DEF SchedulerInv, SessionsExclusive
<1>5. ASSUME NEW l \in Nodes, NEW m \in Nodes,
             (Executing(l) /\ NeedsSession(l))', (Executing(m) /\ NeedsSession(m))'
      PROVE  l = m
  <2>1. CASE l # n /\ m # n
    BY <2>1, <1>1, <1>5 DEF SchedulerInv, SessionsExclusive, NeedsSession
  <2> QED BY <2>1, <1>4, <1>5
<1> QED BY <1>2, <1>3, <1>5 DEF SchedulerInv, SessionsExclusive

-------------------------------------------------------------------------------
\* _worker_loop takes a job that is not executing yet, or one without session.
LEMMA TakeKeeps == ASSUME SchedulerInv, NEW n \in Nodes, Take(n) PROVE SchedulerInv'
<1> DEFINE job == Head(queue[n])
           next == IF job = NoJob THEN [worker[n] EXCEPT !.pc = "stopped"]
                   ELSE [Idle EXCEPT !.job = job,
                           !.pc = IF job.session \in Exclusive THEN "acquire" ELSE "run"]
<1>1. job \in Job \cup {NoJob} /\ Tail(queue[n]) \in Seq(Job \cup {NoJob})
  BY DEF Take, SchedulerInv, SchedulerTypeOK
<1>2. worker' = [worker EXCEPT ![n] = next] /\ UNCHANGED <<active, submitted>>
  BY DEF Take
<1>3. next \in Workers
  BY <1>1 DEF SchedulerInv, SchedulerTypeOK, Workers, Places, Idle
<1>4. queue' \in [Nodes -> Seq(Job \cup {NoJob})]
  BY <1>1 DEF Take, SchedulerInv, SchedulerTypeOK
<1>5. SchedulerTypeOK'
  BY <1>2, <1>3, <1>4 DEF SchedulerInv, SchedulerTypeOK
<1>6. worker'[n] = next /\ OthersOnlyWoken(n)
  BY <1>2 DEF SchedulerInv, SchedulerTypeOK, OthersOnlyWoken
<1>7. active[n] = Default
  BY DEF Take, SchedulerInv, SessionsExclusive, Executing
<1>8. next.pc \in {"acquire", "wait"} => next.job.session \in Exclusive
  BY <1>1 DEF Idle, SchedulerInv, SchedulerTypeOK, Workers
<1>9. next.pc \in {"run", "release"} => next.job.session = Default
  BY <1>1 DEF Idle, SchedulerInv, SchedulerTypeOK, Workers, Job
<1>10. active'[n] = (IF Executing(n) THEN worker[n].job.session ELSE Default)'
  BY <1>2, <1>6, <1>7, <1>9 DEF Executing
<1>11. ~(Executing(n) /\ NeedsSession(n))'
  BY <1>6, <1>9, SchedulerAssumption DEF Executing, NeedsSession
<1> QED BY <1>2, <1>5, <1>6, <1>8, <1>10, <1>11, WorkerKeeps DEF NeedsSession

\* _acquire_session, by the lock under which it looks and sets.
LEMMA AcquireKeeps == ASSUME SchedulerInv, NEW n \in Nodes, Acquire(n) PROVE SchedulerInv'
<1>1. NeedsSession(n) /\ worker[n].pc = "acquire" /\ active[n] = Default
  BY DEF Acquire, SchedulerInv, WaitersNeedSession, SessionsExclusive, Executing
<1>2. UNCHANGED <<queue, submitted>>
  BY DEF Acquire
<1>3. CASE ~Conflict(n)
  <2> DEFINE w == [worker EXCEPT ![n].pc = "run"]
  <2>1. worker' = NotifyAll(w) /\ active' = [active EXCEPT ![n] = worker[n].job.session]
    BY <1>3 DEF Acquire
  <2>2. w \in [Nodes -> Workers] /\ w[n] = [worker[n] EXCEPT !.pc = "run"]
        /\ \A m \in Nodes \ {n} : w[m] = worker[m]
    BY ZenonT(30) DEF SchedulerInv, SchedulerTypeOK, Workers, Places
  <2>3. w[n].pc = "run" /\ w[n].job = worker[n].job
    BY <2>2 DEF SchedulerInv, SchedulerTypeOK, Workers
  <2> HIDE DEF w
  <2>4. worker'[n] = w[n] /\ worker' \in [Nodes -> Workers] /\ OthersOnlyWoken(n)
    BY <2>1, <2>2, <2>3, NotifyAllWakes DEF OthersOnlyWoken
  <2>5. active' \in [Nodes -> Exclusive \cup {Default}]
    BY <2>1, <1>1 DEF NeedsSession, SchedulerInv, SchedulerTypeOK
  <2>6. SchedulerTypeOK'
    BY <2>4, <2>5, <1>2 DEF SchedulerInv, SchedulerTypeOK
  <2>7. /\ active'[n] = worker[n].job.session
        /\ \A m \in Nodes \ {n} : active'[m] = active[m]
    BY <2>1 DEF SchedulerInv, SchedulerTypeOK
  <2>8. active'[n] = (IF Executing(n) THEN worker[n].job.session ELSE Default)'
    BY <2>3, <2>4, <2>7 DEF Executing
  <2>9. worker'[n].pc = "run"
    BY <2>3, <2>4
  <2> QED BY <1>3, <2>4, <2>6, <2>7, <2>8, <2>9, WorkerKeeps
<1>4. CASE Conflict(n)
  <2>1. PICK pc \in {"report", "wait"}, status \in {worker[n].status, "skipped"} :
          worker' = [worker EXCEPT ![n] = [@ EXCEPT !.pc = pc, !.status = status]]
    <3>1. CASE worker[n].expired
      BY <1>4, <3>1 DEF Acquire, SchedulerInv, SchedulerTypeOK, Workers
    <3>2. CASE ~worker[n].expired
      <4>1. worker' = [worker EXCEPT ![n] = [@ EXCEPT !.pc = "wait"]]
        BY <1>4, <3>2 DEF Acquire
      <4>2. [worker[n] EXCEPT !.pc = "wait"]
              = [worker[n] EXCEPT !.pc = "wait", !.status = worker[n].status]
        BY DEF SchedulerInv, SchedulerTypeOK, Workers
      <4> QED BY <4>1, <4>2
    <3> QED BY <3>1, <3>2
  <2>2. UNCHANGED active
    BY <1>4 DEF Acquire
  <2>3. worker'[n] = [worker[n] EXCEPT !.pc = pc, !.status = status]
    BY <2>1 DEF SchedulerInv, SchedulerTypeOK
  <2>4. worker'[n].pc = pc /\ worker'[n].job = worker[n].job /\ worker'[n] \in Workers
    BY <2>3 DEF SchedulerInv, SchedulerTypeOK, Workers, Places
  <2>5. SchedulerTypeOK' /\ OthersOnlyWoken(n)
    BY <2>1, <2>2, <2>3, <2>4, <1>2 DEF SchedulerInv, SchedulerTypeOK, OthersOnlyWoken
  <2> QED BY <1>1, <2>2, <2>4, <2>5, WorkerKeeps DEF NeedsSession, Executing
<1> QED BY <1>3, <1>4

\* A deadline ends a wait; it decides nothing by itself.
LEMMA DeadlineKeeps == ASSUME SchedulerInv, NEW n \in Nodes, Deadline(n) PROVE SchedulerInv'
<1>1. worker' = [worker EXCEPT ![n] = [@ EXCEPT !.pc = "acquire", !.expired = TRUE]]
      /\ UNCHANGED <<queue, active, submitted>>
  BY DEF Deadline, SchedulerInv, SchedulerTypeOK, Workers
<1>2. worker'[n] = [worker[n] EXCEPT !.pc = "acquire", !.expired = TRUE]
  BY <1>1 DEF SchedulerInv, SchedulerTypeOK
<1>3. worker'[n].pc = "acquire" /\ worker'[n].job = worker[n].job /\ worker'[n] \in Workers
  BY <1>2 DEF SchedulerInv, SchedulerTypeOK, Workers, Places
<1>4. SchedulerTypeOK' /\ OthersOnlyWoken(n)
  BY <1>1, <1>2, <1>3 DEF SchedulerInv, SchedulerTypeOK, OthersOnlyWoken
<1>5. NeedsSession(n) /\ active[n] = Default
  BY DEF Deadline, SchedulerInv, WaitersNeedSession, SessionsExclusive, Executing
<1> QED BY <1>1, <1>3, <1>4, <1>5, WorkerKeeps DEF NeedsSession, Executing

\* A call of the job's function leaves the session alone.
LEMMA AttemptKeeps == ASSUME SchedulerInv, NEW n \in Nodes, Attempt(n) PROVE SchedulerInv'
<1>1. PICK status \in {"ok", "timeout", "error"}, pc \in {"run", "release"},
           attempts \in Nat :
        worker' = [worker EXCEPT ![n] =
                     [@ EXCEPT !.attempts = attempts, !.status = status, !.pc = pc]]
  <2>1. worker[n].attempts + 1 \in Nat
    BY DEF SchedulerInv, SchedulerTypeOK, Workers
  <2>2. PICK status \in {"ok", "timeout", "error"} :
          worker' = [worker EXCEPT ![n].attempts = @ + 1, ![n].status = status,
                       ![n].pc = IF status = "timeout" /\ worker[n].attempts < DefaultRetries
                                 THEN "run" ELSE "release"]
    BY DEF Attempt
  <2> DEFINE pc == IF status = "timeout" /\ worker[n].attempts < DefaultRetries
                   THEN "run" ELSE "release"
  <2>3. pc \in {"run", "release"}
    OBVIOUS
  <2>4. worker' = [worker EXCEPT ![n] =
                     [@ EXCEPT !.attempts = worker[n].attempts + 1, !.status = status,
                               !.pc = pc]]
    BY <2>2 DEF SchedulerInv, SchedulerTypeOK, Workers
  <2> HIDE DEF pc
  <2> QED BY <2>1, <2>3, <2>4
<1>2. UNCHANGED <<queue, active, submitted>>
  BY DEF Attempt
<1>3. worker'[n] = [worker[n] EXCEPT !.attempts = attempts, !.status = status, !.pc = pc]
  BY <1>1 DEF SchedulerInv, SchedulerTypeOK
<1>4. worker'[n].pc = pc /\ worker'[n].job = worker[n].job /\ worker'[n] \in Workers
  BY <1>3 DEF SchedulerInv, SchedulerTypeOK, Workers, Places
<1>5. SchedulerTypeOK' /\ OthersOnlyWoken(n)
  BY <1>1, <1>2, <1>3, <1>4 DEF SchedulerInv, SchedulerTypeOK, OthersOnlyWoken
<1>6. Executing(n) /\ active[n] = worker[n].job.session
  BY DEF Attempt, SchedulerInv, SessionsExclusive, Executing
<1> QED BY <1>2, <1>4, <1>5, <1>6, WorkerKeeps DEF NeedsSession, Executing

\* The finally clause gives back what was acquired, whatever the job did.
LEMMA ReleaseKeeps == ASSUME SchedulerInv, NEW n \in Nodes, Release(n) PROVE SchedulerInv'
<1> DEFINE w == [worker EXCEPT ![n].pc = "report"]
<1>1. /\ w \in [Nodes -> Workers]
      /\ w[n].pc = "report" /\ w[n].job = worker[n].job
      /\ \A m \in Nodes \ {n} : w[m] = worker[m]
  BY DEF SchedulerInv, SchedulerTypeOK, Workers, Places
<1>2. worker' = NotifyAll(w) \/ worker' = w
  BY DEF Release
<1>3. Executing(n) /\ active[n] = worker[n].job.session /\ UNCHANGED <<queue, submitted>>
  BY DEF Release, SchedulerInv, SessionsExclusive, Executing
<1>4. active' = [active EXCEPT ![n] = Default]
  <2>1. CASE MustRelease(n)
    BY <2>1 DEF Release
  <2>2. CASE ~MustRelease(n)
    <3>1. worker[n].job.session = Default
      BY <2>2 DEF MustRelease, NeedsSession, SchedulerInv, SchedulerTypeOK, Workers, Job, NoJob
    <3> QED BY <2>2, <3>1, <1>3 DEF Release, SchedulerInv, SchedulerTypeOK
  <2> QED BY <2>1, <2>2
<1> HIDE DEF w
<1>5. worker'[n] = w[n] /\ worker' \in [Nodes -> Workers] /\ OthersOnlyWoken(n)
  <2>1. CASE worker' = w
    BY <2>1, <1>1 DEF OthersOnlyWoken
  <2>2. CASE worker' = NotifyAll(w)
    BY <2>2, <1>1, NotifyAllWakes DEF OthersOnlyWoken
  <2> QED BY <1>2, <2>1, <2>2
<1>6. SchedulerTypeOK'
  BY <1>3, <1>4, <1>5 DEF SchedulerInv, SchedulerTypeOK
<1>7. active'[n] = Default /\ \A m \in Nodes \ {n} : active'[m] = active[m]
  BY <1>4 DEF SchedulerInv, SchedulerTypeOK
<1>8. worker'[n].pc = "report"
  BY <1>1, <1>5
<1> QED BY <1>5, <1>6, <1>7, <1>8, WorkerKeeps DEF Executing

\* The result of the future is set after the session was given back.
LEMMA ReportKeeps == ASSUME SchedulerInv, NEW n \in Nodes, Report(n) PROVE SchedulerInv'
<1>1. worker' = [worker EXCEPT ![n] = Idle] /\ UNCHANGED <<queue, active, submitted>>
  BY DEF Report
<1>2. Idle \in Workers /\ Idle.pc = "get"
  BY DEF Idle, Workers, Places
<1>3. worker'[n] = Idle /\ OthersOnlyWoken(n) /\ SchedulerTypeOK'
  BY <1>1, <1>2 DEF SchedulerInv, SchedulerTypeOK, OthersOnlyWoken
<1>4. active[n] = Default
  BY DEF Report, SchedulerInv, SessionsExclusive, Executing
<1> QED BY <1>1, <1>2, <1>3, <1>4, WorkerKeeps DEF Executing

\* Every step keeps the invariant.
LEMMA SchedulerNextKeeps == SchedulerInv /\ [SchedulerNext]_schedulerVars => SchedulerInv'
<1> SUFFICES ASSUME SchedulerInv, [SchedulerNext]_schedulerVars PROVE SchedulerInv'
  OBVIOUS
<1>1. CASE UNCHANGED schedulerVars
  BY <1>1 DEF schedulerVars, SchedulerInv, SchedulerTypeOK, WaitersNeedSession,
              SessionsExclusive, NeedsSession,
     Executing
<1>2. ASSUME NEW n \in Nodes, Worker(n) \/ Deadline(n)
      PROVE  SchedulerInv'
  BY <1>2, TakeKeeps, AcquireKeeps, AttemptKeeps, ReleaseKeeps, ReportKeeps, DeadlineKeeps
     DEF Worker
<1> QED BY <1>1, <1>2, CallerKeeps DEF SchedulerNext

\* The types and the exclusion hold in every behaviour.
THEOREM SchedulerInvHolds == SchedulerSpec => []SchedulerInv
<1> QED BY SchedulerInitEstablishes, SchedulerNextKeeps, PTL DEF SchedulerSpec

\* No two nodes execute jobs of exclusive sessions at once, and active_session
\* is right about who does, for any number of nodes, sessions and jobs
\* (_acquire_session, _release_session).
THEOREM Exclusion == SchedulerSpec => []SessionsExclusive
<1>1. SchedulerInv => SessionsExclusive
  BY DEF SchedulerInv
<1> QED BY <1>1, SchedulerInvHolds, PTL
===============================================================================
