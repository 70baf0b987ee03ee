------------------------------- MODULE MCJack -------------------------------
(* Instances of Jack for TLC. *)
EXTENDS Jack
=============================================================================
