----------------------------- MODULE MCP2PNodes -----------------------------
(***************************************************************************)
(* A light and a switch for TLC.                                           *)
(***************************************************************************)
EXTENDS P2PNodes

MCNode == {Light, Switch}

\* The light may be subscribed more than once.
MCMaxSubs == [n \in {Light, Switch} |-> IF n = Switch THEN 2 ELSE 1]
=============================================================================
