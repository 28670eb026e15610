---------------------------- MODULE MCGraphStore ----------------------------
(* Small instances of GraphStore. *)
EXTENDS GraphStore, TLC
=============================================================================
