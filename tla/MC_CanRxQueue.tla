---------------------------- MODULE MC_CanRxQueue ----------------------------
(* CanRxQueue with two identifiers, two payloads and a ring of three slots. *)
EXTENDS CanRxQueue

CONSTANTS id1, id2, p1, p2

MCIds == {id1, id2}
MCPayloads == {p1, p2}
==============================================================================
