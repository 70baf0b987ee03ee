------------------------------ MODULE MCPaFifo ------------------------------
(* Instances of PaFifo for TLC. *)
EXTENDS PaFifo
=============================================================================
