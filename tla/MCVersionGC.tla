----------------------------- MODULE MCVersionGC -----------------------------
(* Small instances of VersionGC. *)
EXTENDS VersionGC, TLC
=============================================================================
