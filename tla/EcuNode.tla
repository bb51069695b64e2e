------------------------------- MODULE EcuNode -------------------------------
(***************************************************************************)
(* The main loop of a node as far as it serves requests: CanDriver_-       *)
(* ProcessRx and APP_ServiceIsotp (main.c of both boards), which connect   *)
(* the ISO-TP endpoints, the UDS server and one response buffer.           *)
(*                                                                         *)
(* IsotpTx_Start keeps a pointer to the buffer, so the frames of a         *)
(* transfer carry what the buffer holds when they are sent.  Isotp and     *)
(* UdsServer model the parts: here a transfer lasts up to MaxPolls polls   *)
(* and may be aborted, and the server answers at once, not at all, or      *)
(* announces a deferred response with NRC 78.                              *)
(*                                                                         *)
(* No interrupt touches what APP_ServiceIsotp works on, so a call of it is *)
(* one step: each of its parts maps a node with its output to the set of   *)
(* what may become of them.                                                *)
(***************************************************************************)
EXTENDS SharedCanBus

CONSTANTS
  MaxPolls,      \* polls after which the N_* timeouts end a transfer
  MaxFragments,  \* bound on what is left of an aborted transfer
  Deferred       \* services answered by NRC 78 first

ASSUME NodeAssumption == MaxPolls \in Nat \ {0} /\ MaxFragments \in Nat

VARIABLE
  node   \* endpoints, g_isotp_serving, g_isotp_tx_buffer and the server;
         \* lost says whether a response was not sent or not delivered, or
         \* a request broke off the reception of another

NodeInit ==
  node = [ready |-> None, serving |-> FALSE, tx |-> None, left |-> 0,
          buffer |-> None, pending |-> None, lost |-> FALSE]

Response(kind, req) == [kind |-> kind, sid |-> req.sid, n |-> req.n]

Busy(n) == n.tx # None

Lost(n) == [n EXCEPT !.lost = TRUE]

\* A node with its output.
With(n, out) == [node |-> n, out |-> out]

\* A first frame whose sender gave up may still be answered by a flow control.
\* What comes before the reception has timed out is refused and ends it.
RouteFragment ==
  /\ toPc' \in {toPc, Append(toPc, Fragment)}
  /\ \/ /\ toNode' = Tail(toNode)
        /\ UNCHANGED node
     \/ /\ Len(toNode) > 1
        /\ toNode' = Tail(Tail(toNode))
        /\ node' = Lost(node)

\* CanDriver_ProcessRx, APP_OnCanRx and Isotp_RouteFrame: a request is refused
\* while an earlier one has not been read.
RouteRequest ==
  /\ toNode # <<>>
  /\ \/ /\ Head(toNode) # Fragment
        /\ toNode' = Tail(toNode)
        /\ node' = [node EXCEPT !.ready = IF @ = None THEN Head(toNode) ELSE @]
        /\ UNCHANGED toPc
     \/ /\ Head(toNode) = Fragment
        /\ RouteFragment
  /\ UNCHANGED <<route, reader>>

\* What has been sent of a response when its transfer is aborted: nothing, if
\* it is an NRC 78, which is a single frame.
Remains(response) ==
  {[i \in 1..f |-> Fragment] : f \in IF response.kind = "final" THEN 0..MaxFragments ELSE {0}}

\* IsotpTx_Poll: the transfer goes on, completes or times out.  What is in the
\* buffer after that is not read again.
Ended(n) == [n EXCEPT !.tx = None, !.left = 0, !.buffer = None]

PollTx(n, out) ==
  IF ~Busy(n) THEN {With(n, out)}
  ELSE {With(Ended(n), Append(out, n.buffer))}
         \cup {With(Lost(Ended(n)), out \o frames) : frames \in Remains(n.buffer)}
         \cup (IF n.left = 0 THEN {} ELSE {With([n EXCEPT !.left = @ - 1], out)})

\* A response in the buffer and IsotpTx_Start: it is refused while the
\* endpoint is busy, a single frame may leave at once, and any other transfer
\* goes on in later polls.
Start(n, out, response) ==
  IF Busy(n) THEN {With(Lost([n EXCEPT !.buffer = response]), out)}
  ELSE {With([n EXCEPT !.serving = TRUE], Append(out, response)),
        With([n EXCEPT !.serving = TRUE, !.buffer = response, !.tx = response,
                       !.left = MaxPolls], out)}

\* A complete request is read, processed by UdsEcu_Process and answered.
MayServe_always(n) == n.ready # None
MayServe(n) == n.ready # None /\ ~n.serving

Serve(n, out) ==
  IF ~MayServe(n) THEN {With(n, out)}
  ELSE LET taken == [n EXCEPT !.ready = None] IN
       {With(Lost(taken), out)} \cup Start(taken, out, Response("final", n.ready))
         \cup (IF n.ready.sid \in Deferred
               THEN Start([taken EXCEPT !.pending = n.ready], out,
                          Response("wait", n.ready))
               ELSE {})

\* UdsEcu_PollPending, when no response is being sent.
MayPoll(n) == n.pending # None /\ ~n.serving

PollPending(n, out) ==
  IF ~MayPoll(n) THEN {With(n, out)}
  ELSE Start([n EXCEPT !.pending = None], out, Response("final", n.pending))

\* The response transfer finished: the endpoint is free again.
MayFree_delivered(n) == ~Busy(n) /\ ~n.lost
MayFree(n) == ~Busy(n)

FreeEndpoint(n) == [n EXCEPT !.serving = @ /\ ~MayFree(n)]

ServiceIsotp ==
  /\ \E polled \in PollTx(node, toPc) :
       \E served \in Serve(polled.node, polled.out) :
         \E done \in PollPending(served.node, served.out) :
           /\ node' = FreeEndpoint(done.node)
           /\ toPc' = done.out
  /\ UNCHANGED <<toNode, route, reader>>

NodeLoop == RouteRequest \/ ServiceIsotp
===============================================================================
