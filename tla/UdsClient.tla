------------------------------ MODULE UdsClient ------------------------------
(***************************************************************************)
(* The PC's UDS client: exchanges with timeouts and retries, and responses *)
(* that are announced by NRC 78 (diagnoser/uds/client.py, _transact and    *)
(* _transact_once), over IsoTpTransport.send and receive.  What is left in *)
(* the endpoint's queue by an exchange that failed is not removed before   *)
(* the next one.                                                           *)
(***************************************************************************)
EXTENDS SharedCanBus

CONSTANTS
  Services,      \* services the client uses
  LongRequests,  \* those whose requests take several frames
  Retries,       \* retries
  MaxRequests    \* bound on the exchanges of a behaviour

ASSUME ClientAssumption ==
  /\ LongRequests \subseteq Services
  /\ Retries \in Nat /\ MaxRequests \in Nat

VARIABLES
  client,      \* the client and its last exchange
  failed       \* whether a call of send or receive has raised so far

clientVars == <<client, failed>>

ClientInit ==
  /\ client = [pc |-> "idle", n |-> 0, sid |-> "none", attempt |-> 0, answer |-> None]
  /\ failed = FALSE

Request(sid) ==
  /\ client.pc = "idle" /\ client.n < MaxRequests
  /\ client' = [pc |-> "send", n |-> client.n + 1, sid |-> sid,
                attempt |-> 0, answer |-> None]
  /\ UNCHANGED <<link, failed>>

SendRequest ==
  /\ client.pc = "send"
  /\ toNode' = Append(toNode, [kind |-> "request", sid |-> client.sid, n |-> client.n])
  /\ client' = [client EXCEPT !.pc = "receive"]
  /\ UNCHANGED <<toPc, route, reader, failed>>

\* TimeoutError: the request is sent again or given up.
TimedOut ==
  /\ client' = IF client.attempt < Retries
               THEN [client EXCEPT !.pc = "send", !.attempt = @ + 1]
               ELSE [client EXCEPT !.pc = "idle"]
  /\ failed' = TRUE

\* No flow control came in time, or one that refuses the request.
SendTimeout ==
  /\ client.pc = "send" /\ client.sid \in LongRequests
  /\ toNode' = Append(toNode, Fragment)
  /\ TimedOut
  /\ UNCHANGED <<toPc, route, reader>>

\* While it waits for a flow control, send drops all else.
SendDrops ==
  /\ client.pc = "send" /\ client.sid \in LongRequests
  /\ route # <<>>
  /\ route' = Tail(route)
  /\ UNCHANGED <<toNode, toPc, reader, clientVars>>

\* Any other response, whatever it answers, ends the exchange.
ResponsePending_ignored(m) == FALSE
ResponsePending(m) == m.kind = "wait"

Receive ==
  /\ client.pc = "receive" /\ route # <<>>
  /\ Head(route) # Fragment
  /\ route' = Tail(route)
  /\ client' = IF ResponsePending(Head(route)) THEN client
               ELSE [client EXCEPT !.pc = "idle", !.answer = Head(route)]
  /\ UNCHANGED <<toNode, toPc, reader, failed>>

\* Frames that make no message raise ValueError, which ends the exchange
\* without a retry.  A first frame makes receive drop all but the consecutive
\* frames it waits for.
ReceiveFragment ==
  /\ client.pc = "receive" /\ route # <<>>
  /\ Head(route) = Fragment
  /\ \/ /\ route' = Tail(route)
        /\ client' = [client EXCEPT !.pc = "idle"]
        /\ failed' = TRUE
     \/ /\ \E i \in 1..Len(route) : route' = SubSeq(route, i + 1, Len(route))
        /\ TimedOut
  /\ UNCHANGED <<toNode, toPc, reader>>

\* No response came within P2 or P2*.
Timeout ==
  /\ client.pc = "receive" /\ route = <<>>
  /\ TimedOut
  /\ UNCHANGED link

\* A call of send or receive comes to an end, or receive is called again.
Transport ==
  \/ SendRequest
  \/ SendTimeout
  \/ Receive
  \/ ReceiveFragment

Client == (\E sid \in Services : Request(sid)) \/ SendDrops \/ Transport \/ Timeout
===============================================================================
