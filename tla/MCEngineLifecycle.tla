-------------------------- MODULE MCEngineLifecycle --------------------------
(* Small instances of EngineLifecycle; producers are interchangeable. *)
EXTENDS EngineLifecycle, TLC

Symmetry == Permutations(Producers)
=============================================================================
