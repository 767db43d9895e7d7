------------------------------ MODULE MCReadback ------------------------------
(* A small instance of Readback for TLC.                                     *)
EXTENDS Readback, TLC

CONSTANTS q1, l1, m1, m2

OneQuery == {q1}
OneLane == {l1}
TwoModels == {m1, m2}
NoFlusher == {}

Symmetric == Permutations(TwoModels)

=============================================================================
