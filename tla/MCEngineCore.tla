---------------------------- MODULE MCEngineCore ----------------------------
(* Small instances of EngineCore.  Events, readers and users are           *)
(* interchangeable, so safety runs reduce by their permutations.           *)
EXTENDS EngineCore, TLC

Symmetry == Permutations(Events) \cup Permutations(Readers) \cup Permutations(Users)

(* The engine of one worker and its users, without and with user calls. *)
NoCalls == {}
CompactOnly == {"Compact"}
AllCalls == {"Compact", "Reset"}
=============================================================================
