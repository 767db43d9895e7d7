-------------------------- MODULE MCThreadedRecorder --------------------------
(* A small instance of ThreadedRecorder for TLC.                             *)
EXTENDS ThreadedRecorder, TLC

CONSTANTS w1, w2, l1, l2

TwoWorkers == {w1, w2}
TwoLanes == {l1, l2}
FirstLane == {l1}
WorkersAlike == Permutations(TwoWorkers)

=============================================================================
