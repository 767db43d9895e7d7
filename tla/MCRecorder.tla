------------------------------ MODULE MCRecorder ------------------------------
(* Small instances of Recorder for TLC.                                      *)
EXTENDS Recorder, TLC

CONSTANTS q1, l1, l2, m1, m2, f1

OneQuery == {q1}
OneLane == {l1}
TwoLanes == {l1, l2}
OneModel == {m1}
OneFlusher == {f1}
NoFlusher == {}

=============================================================================
