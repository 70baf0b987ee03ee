------------------------------ MODULE MCSched ------------------------------
(* Instances of Sched for TLC. *)
EXTENDS Sched, TLC

CONSTANTS c1, c2, c3

DelaysSmall == {-1, 0, 1}
DelaysPastAndNext == {-1, 1}
NoThreads == {}
OneThread == {"ext1"}
ClockSymmetry == Permutations(Clocks)
=============================================================================
