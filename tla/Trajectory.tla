------------------------------ MODULE Trajectory ------------------------------
(***************************************************************************)
(* The comparison of a primary's tool calls with a shadow's                *)
(* (amc/analysis/selection.py).  Both lanes fan out over the nodes of the  *)
(* agent, so their calls arrive in any order.                              *)
(***************************************************************************)
EXTENDS LaneEvents

-----------------------------------------------------------------------------
(* Alignment: the k-th visit of a node in one lane with the k-th in the    *)
(* other.  Without any node name all calls are of the one node None.       *)

Visits(s, n) == Select(s, LAMBDA c : c.node = n)

CallAt(s, k) == IF k \in DOMAIN s THEN s[k] ELSE None

\* Mutant: the last visits are paired first.
PairedFromTheEnd(n, a, b) ==
  LET shift(v, m) == CallAt(v, Len(v) - m)
      len == Max({Len(a), Len(b)})
  IN  [k \in 1..len |-> [node |-> n, a |-> shift(a, len - k), b |-> shift(b, len - k)]]

Paired(n, a, b) ==
  [k \in 1..Max({Len(a), Len(b)}) |-> [node |-> n, a |-> CallAt(a, k), b |-> CallAt(b, k)]]

\* Node names in order of first appearance, the primary's calls first.
NodeOrder(a, b) ==
  LET all == a \o b
      nodes == [i \in DOMAIN all |-> all[i].node]
  IN  Picked(nodes, {i \in DOMAIN nodes : \A j \in 1..(i - 1) : nodes[j] # nodes[i]})

\* Mutant: only the primary's nodes are visited.
AlignedByPrimary(a, b) ==
  LET order == NodeOrder(a, <<>>)
  IN  FlattenSeq([i \in DOMAIN order |-> Paired(order[i], Visits(a, order[i]), Visits(b, order[i]))])

Aligned(a, b) ==
  LET order == NodeOrder(a, b)
  IN  FlattenSeq([i \in DOMAIN order |-> Paired(order[i], Visits(a, order[i]), Visits(b, order[i]))])

-----------------------------------------------------------------------------
(* describe_divergence, argument_match.                                    *)

ToolOf(c) == IF c = None THEN None ELSE c.tool

Differs(step) == ToolOf(step.a) # ToolOf(step.b)

\* Mutant: a step at which one lane made no call is skipped.
DivergenceStepOfBoth(a, b) ==
  LET steps == Aligned(a, b)
      D == {i \in DOMAIN steps : Differs(steps[i]) /\ None \notin {steps[i].a, steps[i].b}}
  IN  IF D = {} THEN 0 ELSE Min(D)

\* The first step at which the lanes chose differently, 0 if there is none.
DivergenceStep(a, b) ==
  LET steps == Aligned(a, b)
      D == {i \in DOMAIN steps : Differs(steps[i])}
  IN  IF D = {} THEN 0 ELSE Min(D)

Comparable(a, b) == Select(Aligned(a, b), LAMBDA s : None \notin {s.a, s.b} /\ ~Differs(s))

\* Mutant: arguments are compared as they were spelled.
MismatchesAsSpelled(a, b) == Select(Comparable(a, b), LAMBDA s : s.a.args # s.b.args)

Mismatches(a, b) == Select(Comparable(a, b), LAMBDA s : Canon[s.a.args] # Canon[s.b.args])

-----------------------------------------------------------------------------
(* tool_set_overlap, trajectory_match.                                     *)

Names(s) == [i \in DOMAIN s |-> s[i].tool]

Uses(s, t) == Cardinality({i \in DOMAIN s : s[i].tool = t})

\* A multiset as the set of its copies: an element that occurs twice has a first and
\* a second copy.
Copies(s) == {c \in Tools \X (1..Len(s)) : c[2] <= Uses(s, c[1])}

Shared(a, b) == Cardinality(Copies(a) \cap Copies(b))

Union(a, b) == Cardinality(Copies(a) \cup Copies(b))

OnlyIn(a, b) == {t \in Tools : Uses(a, t) > 0 /\ Uses(b, t) = 0}

\* The transitions between the nodes of consecutive calls.
NodeEdges(s) == {<<s[i].node, s[i + 1].node>> : i \in 1..(Len(s) - 1)}

\* Mutant: the multiplicity of a tool is ignored.
SubsetOfNames(a, b) == \A t \in Tools : Uses(a, t) > 0 => Uses(b, t) > 0

SubsetMatch(a, b) == \A t \in Tools : Uses(a, t) <= Uses(b, t)

Match(a, b) ==
  [strict |-> Names(a) = Names(b),
   unordered |-> \A t \in Tools : Uses(a, t) = Uses(b, t),
   subset |-> SubsetMatch(a, b),
   superset |-> SubsetMatch(b, a),
   edges |-> NodeEdges(a) = NodeEdges(b)]

=============================================================================
