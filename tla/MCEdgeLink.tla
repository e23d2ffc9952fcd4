----------------------------- MODULE MCEdgeLink -----------------------------
(* A small instance of EdgeLink for TLC: marks 1 and 2, and targets they divide. *)
EXTENDS EdgeLink

TwoTargets == {-2, 2}
TwoMarks   == {1, 2}
=============================================================================
