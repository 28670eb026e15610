----------------------------- MODULE MCAnalysis -----------------------------
(* Small instances of Analysis: three nodes, so that a node can have a       *)
(* neighbour with edges to others.                                           *)
EXTENDS Analysis

CONSTANTS a, b, c

IdsInOrder == <<a, b, c>>

(* a has an edge to itself and one to b, and one from c. *)
ThreeEdges == {<<a, a>>, <<a, b>>, <<c, a>>}

(* Without the loop: two graphs of one edge have as many nodes. *)
InAndOut == {<<a, b>>, <<c, a>>}

Full == [kind |-> "full", ids |-> <<>>]
NodeB == [kind |-> "node", ids |-> <<b>>]
RegionCB == [kind |-> "region", ids |-> <<c, b>>]

FullOnly == {Full}
AllRequests == {Full, NodeB, RegionCB}
=============================================================================
