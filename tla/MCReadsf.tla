------------------------------ MODULE MCReadsf ------------------------------
(* Instances of Readsf for TLC. *)
EXTENDS Readsf

File(frame, bytes, limit) == [frame |-> frame, bytes |-> bytes, limit |-> limit]

\* One ends inside a vector, one wraps around the buffer, one has no header, one fills
\* the buffer exactly, and two are cut inside their last frame, one of them a byte short
\* of a vector.
SomeFiles == {File(2, 10, 10), File(2, 26, 26), File(2, 18, 99), File(2, 18, 18), File(2, 11, 99),
              File(2, 9, 9)}

\* The theorems about what is played speak of this instance.
ASSUME OneFormat
=============================================================================
