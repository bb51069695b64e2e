------------------------------ MODULE IsotpLinks ------------------------------
(***************************************************************************)
(* The links ISO-TP is used on: from node to node, where both ends are     *)
(* those of firmware/common/isotp.c, and between the PC and a node, where  *)
(* one is that of diagnoser/transport/isotp.py.  A behaviour is about one  *)
(* of them.                                                                *)
(***************************************************************************)
EXTENDS IsotpFromPc, IsotpToPc

VARIABLE link   \* "nodes", "request" or "response"

allVars == <<vars, send, recv, link>>

LinksInit ==
  /\ Init
  /\ send = NoSend /\ recv = NoCall
  /\ link \in {"nodes", "request", "response"}

\* Parts of Isotp that leave the PC alone, on the links that have them.
On(links, Action) == link \in links /\ Action /\ UNCHANGED <<send, recv, link>>

\* Steps of the PC.
Requesting(Action) == link = "request" /\ Action /\ UNCHANGED <<recv, link>>
Responding(Action) == link = "response" /\ Action /\ UNCHANGED <<send, link>>

TransmitsS == \E i \in 1..Len(boxS) : TransmitS(i)
TransmitsR == \E i \in 1..Len(boxR) : TransmitR(i)

NodeReceives == On({"nodes", "request"}, RxOnFrame \/ RxPoll \/ RxRead \/ TransmitsR)
NodeSends ==
  \/ On({"nodes"}, \E n \in Lens : TxStart(n))
  \/ On({"response"}, \E n \in Responses : TxStart(n))
  \/ On({"nodes", "response"}, TxOnFrame \/ TxPoll \/ TransmitsS)

Others ==
  \/ On({"nodes"}, AppSends)
  \/ On({"nodes", "request"}, ForeignFc)
  \/ Requesting(OtherRequestFrames)
  \/ Responding(OtherResponseFrames)

Ticks == On({"nodes"}, Tick) \/ Requesting(SendTick) \/ Responding(ReceiveTick)

LinksNext ==
  \/ NodeReceives \/ NodeSends
  \/ Requesting(Sender) \/ Requesting(\E n \in Requests : PcSend(n))
  \/ Responding(Receiver) \/ Responding(PcReceive)
  \/ Others
  \/ Ticks

\* Main loops, controllers and the PC's thread inside a call run, and time
\* passes.  Nobody has to begin a transfer or a call.
LinksFairness ==
  /\ WF_allVars(On({"nodes", "response"}, TxOnFrame))
  /\ WF_allVars(On({"nodes", "response"}, TxPoll))
  /\ WF_allVars(On({"nodes", "request"}, RxOnFrame))
  /\ WF_allVars(On({"nodes", "request"}, RxPoll))
  /\ WF_allVars(On({"nodes", "request"}, RxRead))
  /\ WF_allVars(On({"nodes"}, Transmit))
  /\ WF_allVars(On({"request"}, TransmitsR))
  /\ WF_allVars(On({"response"}, TransmitsS))
  /\ WF_allVars(Requesting(Sender)) /\ WF_allVars(Responding(Receiver))
  /\ WF_allVars(Ticks)

LinksSpec == LinksInit /\ [][LinksNext]_allVars /\ LinksFairness

-------------------------------------------------------------------------------
\* The type invariant of the nodes' state machines, and the ranges of the locals
\* of the PC's calls.
LinksTypeOK ==
  /\ TypeOK
  /\ send.at \in {"idle", "fc", "cf"} /\ send.msg \in 0..MaxMsgs
  /\ send.len \in Requests \cup {0} /\ send.sent \in 0..send.len
  /\ send.inBlock \in 0..send.sent /\ send.left \in 0..SendTimeout
  /\ recv.at \in {"idle", "first", "rest"} /\ recv.declared \in Responses \cup {0}
  /\ recv.index \in 0..(SnMod - 1) /\ Len(recv.payload) <= recv.declared
  /\ recv.left \in 0..CallTimeout

\* Messages to a node, from the PC or another node, arrive whole, each at most
\* once and in order: chunks of two transfers are never mixed and none is skipped
\* or repeated, although frames are lost, sequence numbers wrap, messages are
\* refused and calls of the PC leave flow control behind for the next ones.  Of
\* responses to the PC only WholeUnlessAborted holds.
NodeLink == INSTANCE MessageLink
  WITH submitted <- Len(lens),
       delivered <- IF link = "response" THEN <<>>
                    ELSE [i \in 1..Len(received) |-> NumberOf(received[i])]

NodeLinkSpec == NodeLink!Init /\ [][NodeLink!Next]_(NodeLink!vars)

\* A message is the one whose first frame began it, whole, at most once and in
\* order, although calls of receive() end in the middle of a message and leave
\* its other frames to later calls; only a message whose transfer ran into a
\* timeout may be late or continued by frames of the next.
NumberAt(i) == Head(received[i])[1]
Timely(i) == outcome[NumberAt(i)] # "timeout"

WholeUnlessAborted ==
  \A i \in 1..Len(received) :
    /\ Timely(i) => received[i] = Message(NumberAt(i), lens[NumberAt(i)])
    /\ \A j \in 1..(i - 1) :
         IF Timely(i) /\ Timely(j) THEN NumberAt(j) < NumberAt(i)
                                  ELSE NumberAt(j) # NumberAt(i)

\* No more consecutive frames of a message are on their way than its receiver
\* granted: a sender, a node's or send(), waits for flow control at every block
\* boundary.
RequestInFlight ==
  {i \in 1..Len(toR) : toR[i].type = "CF" /\ toR[i].data[1] = Len(lens)}

GrantRespected ==
  IF link = "request"
  THEN BlockSize > 0 => Cardinality(RequestInFlight) <= BlockSize
  ELSE BlockRespected

\* On a bus that loses nothing the two ends agree on what was transferred.
\* Between nodes a transfer reported complete was read.  send() succeeds if and
\* only if the node reads the message, also when the last consecutive frame ends a
\* block.
EndsAgree ==
  /\ link = "nodes" => CompleteIsDelivered
  /\ link = "request" /\ losses = 0 /\ SendQuiescent =>
       \A m \in 1..Len(lens) :
         lens[m] > 1 /\ outcome[m] # "ongoing" =>
           (outcome[m] = "ok" <=> \E i \in 1..Len(received) : received[i] = Message(m, lens[m]))

\* Neither end of a link stays busy for ever: a node's state machine becomes free
\* and a call of send() or receive() ends, whatever the other end does and whatever
\* is lost or late, also when WAIT has set the deadline of a wait anew.
SenderBusy == tx.ongoing \/ send.at # "idle"
ReceiverBusy == rx.inProgress \/ recv.at # "idle"

NobodyStuck ==
  /\ SenderBusy ~> ~SenderBusy
  /\ ReceiverBusy ~> ~ReceiverBusy
===============================================================================
