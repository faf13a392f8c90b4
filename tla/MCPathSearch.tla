----------------------------- MODULE MCPathSearch -----------------------------
(***************************************************************************)
(* PathSearch on every graph over five nodes.  Names do not matter to the  *)
(* search, so the core is the first node and the node asked for is the     *)
(* core itself or the second.                                              *)
(***************************************************************************)
EXTENDS PathSearch

CONSTANTS n1, n2

NamedInit == Init /\ root = n1 /\ nodeToFind \in {n1, n2}

NamedSpec == NamedInit /\ [][Next]_vars /\ WF_vars(Next)
===============================================================================
