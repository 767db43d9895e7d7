---------------------------- MODULE MCToolBoundary ----------------------------
(* Small instances of ToolBoundary for TLC: a create tool and a read tool    *)
(* over one entity, a primary, two shadows, and a thread that lost its lane. *)
EXTENDS ToolBoundary, TLC

CONSTANTS p1, s1, s2, b1, b2, b3, b4, create, read, x, y, r1

OnePrimary == {p1}
TwoShadows == {s1, s2}

FourBranches == {b1, b2, b3, b4}
FourLanes == b1 :> p1 @@ b2 :> s1 @@ b3 :> s2 @@ b4 :> NoLane
FourCalls == b1 :> 2 @@ b2 :> 2 @@ b3 :> 1 @@ b4 :> 1

CreateAndRead == {create, read}

CreateSpec(id) == [linked |-> TRUE, op |-> "write", invents |-> "template", id |-> id,
                   destructive |-> TRUE]
ReadSpec == [linked |-> TRUE, op |-> "read", invents |-> "stub", id |-> NoId,
             destructive |-> FALSE]

MintingSpecs == create :> CreateSpec(NoId) @@ read :> ReadSpec

TwoPayloads == {x, y}
OneId == {r1}
NoIds == {}

Ann(p, r, d) == [present |-> p, readOnly |-> r, destructive |-> d]

Unannotated(c) == [listed |-> TRUE, config |-> c, ann |-> Ann(FALSE, FALSE, FALSE), method |-> "unset"]

\* Around every edge of classify: config against an annotation, a read-only
\* tool that is also destructive, a safe method under an annotation, a safe
\* method alone, and a tool nobody listed.
EdgeHints ==
  {Unannotated("virtual"),
   [Unannotated("passthrough") EXCEPT !.ann = Ann(TRUE, FALSE, TRUE)],
   [Unannotated("unset") EXCEPT !.ann = Ann(TRUE, TRUE, TRUE)],
   [Unannotated("unset") EXCEPT !.ann = Ann(TRUE, FALSE, FALSE),
                                !.method = "safe"],
   [Unannotated("unset") EXCEPT !.method = "safe"],
   [Unannotated("virtual") EXCEPT !.listed = FALSE]}

\* The annotation most read tools have: they run for real in shadows too.
ReadOnly == [Unannotated("unset") EXCEPT !.ann = Ann(TRUE, TRUE, FALSE)]

EdgeChoices ==
  {create :> h @@ read :> Unannotated("virtual") : h \in EdgeHints}
    \cup {create :> Unannotated("virtual") @@ read :> ReadOnly}

PayloadSymmetry == Permutations(TwoPayloads)

=============================================================================
