----------------------------- MODULE MCShadowRun -----------------------------
(* Small instances of ShadowRun for TLC.                                     *)
EXTENDS ShadowRun, TLC

CONSTANTS q1, q2, m1, m2

TwoQueries == {q1, q2}
TwoModels == {m1, m2}
AllLanes == UNION {{q} \X (0..Width[q]) : q \in Queries}
OneShadowEach == q1 :> 1 @@ q2 :> 1
TwoAndOne == q1 :> 2 @@ q2 :> 1
NoLane == {}

=============================================================================
