----------------------------- MODULE MCTemporal -----------------------------
(* Small instances of Temporal: three nodes, of which one may be lost while  *)
(* the others stay.                                                          *)
EXTENDS Temporal

CONSTANTS a, b, c

IdsInOrder == <<a, b, c>>

(* A loop, so that one event samples a node twice, and two edges. *)
LoopAndPath == {<<a, a>>, <<a, b>>, <<b, c>>}
=============================================================================
