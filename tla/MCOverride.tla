------------------------------ MODULE MCOverride ------------------------------
(* Small instances of Override for TLC: one query with two shadows.          *)
EXTENDS Override, TLC

CONSTANTS q1, m0, m1, m2, c1, c2

OneQuery == {q1}
AllLanes == {q1} \X (0..2)
TwoShadows == q1 :> 2
AllModels == {m0, m1, m2}
OneClient == {c1}
TwoClients == {c1, c2}
SameDefault == [c \in Clients |-> m0]

\* The primary keeps the agent's model; its last shadow leaves a task behind.
AgentsChoice == <<q1, 0>> :> NoModel @@ <<q1, 1>> :> m1 @@ <<q1, 2>> :> m2
LastShadow == {<<q1, 2>>}

=============================================================================
