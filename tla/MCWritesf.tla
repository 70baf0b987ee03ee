----------------------------- MODULE MCWritesf -----------------------------
(* Instances of Writesf for TLC. *)
EXTENDS Writesf
=============================================================================
