----------------------------- MODULE UdsExchange -----------------------------
(***************************************************************************)
(* A UdsClient on the PC and a node's main loop, connected by the bus and  *)
(* the reader thread of SharedCanBus.                                      *)
(***************************************************************************)
EXTENDS EcuNode, UdsClient

vars == <<link, node, clientVars>>

Init == LinkInit /\ NodeInit /\ ClientInit

Next ==
  \/ Reader /\ UNCHANGED <<node, clientVars>>
  \/ NodeLoop /\ UNCHANGED clientVars
  \/ Client /\ UNCHANGED node

\* The reader thread and the main loop run, and the client takes what has
\* arrived.  Nothing is assumed of when a timeout fires.
Fairness ==
  /\ WF_vars(Reader /\ UNCHANGED <<node, clientVars>>)
  /\ WF_vars(RouteRequest /\ UNCHANGED clientVars)
  /\ WF_vars(ServiceIsotp /\ UNCHANGED clientVars)
  /\ WF_vars(Transport /\ UNCHANGED node)

Spec == Init /\ [][Next]_vars /\ Fairness

-------------------------------------------------------------------------------
\* The response buffer is not written to while a transfer sends from it: no
\* request, and no deferred response, is processed before the endpoint is free
\* (g_isotp_serving, which spans iterations of the loop).
ResponseIntact == Busy(node) => node.serving /\ node.buffer = node.tx

\* As long as neither send nor receive has raised, by a timeout or by frames
\* that make no message, the answer to a request is the response to that
\* request, also when it is announced by NRC 78 first.
InSync == ~failed /\ client.answer # None => client.answer.n = client.n

\* The reader never drops the message it holds: a full queue loses its oldest
\* one, whenever the client takes messages meanwhile (_put_latest).
NewestKept ==
  [][reader.pc # "recv" /\ reader'.pc = "recv" => route' = Append(route, reader.msg)]_vars

\* The endpoint becomes free again after every response, also one whose
\* transfer was aborted.
EndpointFreed == node.serving ~> ~node.serving

\* A client need not time out on a link that loses nothing: every request is
\* answered, if deferred by its final response, while retries, late answers
\* and deferred responses compete for the endpoint.
ExchangeAnswered == [](~node.lost) => (client.pc = "receive" ~> client.pc # "receive")
===============================================================================
