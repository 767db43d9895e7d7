----------------------------- MODULE ReportProofs -----------------------------
(***************************************************************************)
(* Theorems about the report: what it says of two lanes that did anything. *)
(* The invariant is small (each lane holds events that can happen, and the *)
(* mark is right); what the analysis computes from such lanes is shown by  *)
(* induction over sequences, with the lemmas of LaneEventsProofs.          *)
(***************************************************************************)
EXTENDS Report, LaneEventsProofs

-----------------------------------------------------------------------------
(* The alignment, for lanes over any set of calls.                           *)

\* The greater of two numbers.
LEMMA MaxOfTwo == ASSUME NEW m \in Nat, NEW n \in Nat PROVE Max({m, n}) = IF m >= n THEN m ELSE n
<1> DEFINE x == IF m >= n THEN m ELSE n
<1>1. x \in {m, n} /\ \A y \in {m, n} : x >= y
  OBVIOUS
<1>2. \A z \in {m, n} : (\A y \in {m, n} : z >= y) => z = x
  OBVIOUS
<1> HIDE DEF x
<1>3. Max({m, n}) \in {m, n} /\ \A y \in {m, n} : Max({m, n}) >= y
  BY <1>1 DEF Max
<1>4. Max({m, n}) = x
  BY <1>2, <1>3
<1> QED BY <1>4 DEF x

\* Calls at a node, and steps over calls in T at nodes in N.
At(T, n) == {e \in T : e.node = n}

StepOf(T, N) == [node : N, a : T \cup {None}, b : T \cup {None}]

OnNode(T, N, n) == {st \in StepOf(T, N) : st.node = n}

\* The visits of a node are the calls that a filter by node keeps.
LEMMA VisitsKept ==
  ASSUME NEW T, NEW a \in Seq(T), NEW n
  PROVE  Visits(a, n) = Keep(a, At(T, n)) /\ Visits(a, n) \in Seq(T)
<1> DEFINE I == {i \in DOMAIN a : a[i].node = n}
           J == {i \in DOMAIN a : a[i] \in At(T, n)}
<1>1. \A i \in 1..Len(a) : i \in I <=> i \in J
  BY DEF At
<1>2. Visits(a, n) = Picked(a, I)
  BY DEF Visits, Select
<1>3. Keep(a, At(T, n)) = Picked(a, J)
  BY DEF Keep
<1> HIDE DEF I, J
<1>4. Picked(a, I) = Picked(a, J)
  BY <1>1, PickedSame
<1> QED BY <1>2, <1>3, <1>4, KeepType

\* A block has a step for each visit of the lane that visited the node more
\* often, with the calls of both lanes there.
LEMMA PairedType ==
  ASSUME NEW T, NEW N, NEW n \in N, NEW a \in Seq(T), NEW b \in Seq(T)
  PROVE  /\ Paired(n, a, b) \in Seq(StepOf(T, N))
         /\ Len(Paired(n, a, b)) = Max({Len(a), Len(b)})
         /\ \A k \in 1..Len(Paired(n, a, b)) :
              Paired(n, a, b)[k] = [node |-> n, a |-> CallAt(a, k), b |-> CallAt(b, k)]
         /\ Max({Len(a), Len(b)}) \in Nat
         /\ Max({Len(a), Len(b)}) = IF Len(a) >= Len(b) THEN Len(a) ELSE Len(b)
<1> DEFINE m == Max({Len(a), Len(b)})
<1>1. m \in Nat /\ m = IF Len(a) >= Len(b) THEN Len(a) ELSE Len(b)
  BY MaxOfTwo
<1> HIDE DEF m
<1>2. \A k \in 1..m : [node |-> n, a |-> CallAt(a, k), b |-> CallAt(b, k)] \in StepOf(T, N)
  BY DEF CallAt, StepOf
<1>3. Paired(n, a, b) = [k \in 1..m |-> [node |-> n, a |-> CallAt(a, k), b |-> CallAt(b, k)]]
  BY DEF Paired, m
<1>4. Paired(n, a, b) \in Seq(StepOf(T, N)) /\ Len(Paired(n, a, b)) = m
  BY <1>1, <1>2, <1>3, IsASeq
<1> QED BY <1>1, <1>3, <1>4 DEF m

\* The same without the set of nodes.
LEMMA PairedIs ==
  ASSUME NEW T, NEW n, NEW a \in Seq(T), NEW b \in Seq(T)
  PROVE  /\ Len(Paired(n, a, b)) = IF Len(a) >= Len(b) THEN Len(a) ELSE Len(b)
         /\ \A k \in 1..Len(Paired(n, a, b)) :
              Paired(n, a, b)[k] = [node |-> n, a |-> CallAt(a, k), b |-> CallAt(b, k)]
<1> DEFINE m == Max({Len(a), Len(b)})
<1>1. m \in Nat /\ m = IF Len(a) >= Len(b) THEN Len(a) ELSE Len(b)
  BY MaxOfTwo
<1>2. Paired(n, a, b) = [k \in 1..m |-> [node |-> n, a |-> CallAt(a, k), b |-> CallAt(b, k)]]
  BY DEF Paired
<1> HIDE DEF m
<1>3. Len(Paired(n, a, b)) = m
  BY <1>1, <1>2
<1> QED BY <1>1, <1>2, <1>3

\* The steps that pair the visits of a node carry that node.
LEMMA PairedVisits ==
  ASSUME NEW T, NEW N, NEW n \in N, NEW a \in Seq(T), NEW b \in Seq(T)
  PROVE  \A k \in 1..Len(Paired(n, Visits(a, n), Visits(b, n))) :
           /\ Paired(n, Visits(a, n), Visits(b, n))[k] \in StepOf(T, N)
           /\ Paired(n, Visits(a, n), Visits(b, n))[k].node = n
<1>1. Visits(a, n) \in Seq(T) /\ Visits(b, n) \in Seq(T)
  BY VisitsKept
<1> DEFINE va == Visits(a, n)
           vb == Visits(b, n)
<1> HIDE DEF va, vb
<1>2. \A k \in 1..Len(Paired(n, va, vb)) : Paired(n, va, vb)[k] \in StepOf(T, N) /\ Paired(n, va, vb)[k].node = n
  <2>1. va \in Seq(T) /\ vb \in Seq(T)
    BY <1>1 DEF va, vb
  <2>2. ASSUME NEW k \in 1..Len(Paired(n, va, vb))
        PROVE  Paired(n, va, vb)[k] \in StepOf(T, N) /\ Paired(n, va, vb)[k].node = n
    <3>1. Paired(n, va, vb) \in Seq(StepOf(T, N))
      BY <2>1, PairedType
    <3>2. Paired(n, va, vb)[k] = [node |-> n, a |-> CallAt(va, k), b |-> CallAt(vb, k)]
      BY <2>1, <2>2, PairedType
    <3> QED BY <2>2, <3>1, <3>2
  <2> QED BY <2>2
<1> QED BY <1>2 DEF va, vb

\* A node that neither lane visited has no step.
LEMMA PairedNothing == ASSUME NEW n PROVE Paired(n, <<>>, <<>>) = <<>>
<1>1. Len(<<>>) = 0 /\ Max({0, 0}) = 0
  BY EmptySeq, MaxOfTwo
<1>2. Paired(n, <<>>, <<>>) = [k \in 1..0 |-> [node |-> n, a |-> CallAt(<<>>, k), b |-> CallAt(<<>>, k)]]
  BY <1>1 DEF Paired
<1> QED BY <1>2

\* The blocks of an alignment, one for each node of the order o.
Blocks(a, b, o) == [i \in DOMAIN o |-> Paired(o[i], Visits(a, o[i]), Visits(b, o[i]))]

\* There is one block for each node of the order, and it pairs the visits there.
AreBlocks(T, N, a, b, q) ==
  /\ Blocks(a, b, q) \in Seq(Seq(StepOf(T, N))) /\ Len(Blocks(a, b, q)) = Len(q)
  /\ \A i \in 1..Len(q) : Blocks(a, b, q)[i] = Paired(q[i], Visits(a, q[i]), Visits(b, q[i]))

\* So it is, for every order of nodes.
LEMMA BlocksType ==
  ASSUME NEW T, NEW N, NEW a \in Seq(T), NEW b \in Seq(T), NEW q \in Seq(N)
  PROVE  AreBlocks(T, N, a, b, q)
<1>1. ASSUME NEW i \in 1..Len(q) PROVE Paired(q[i], Visits(a, q[i]), Visits(b, q[i])) \in Seq(StepOf(T, N))
  <2>1. q[i] \in N
    OBVIOUS
  <2> QED BY <2>1, PairedType, VisitsKept
<1>2. Blocks(a, b, q) = [i \in 1..Len(q) |-> Paired(q[i], Visits(a, q[i]), Visits(b, q[i]))]
  BY DEF Blocks
<1>3. Len(q) \in Nat
  OBVIOUS
<1> QED BY <1>1, <1>2, <1>3, IsASeq DEF AreBlocks

\* A node that comes last adds its block.
LEMMA BlocksAppend ==
  ASSUME NEW T, NEW N, NEW a \in Seq(T), NEW b \in Seq(T), NEW o \in Seq(N), NEW n \in N
  PROVE  Blocks(a, b, Append(o, n)) = Append(Blocks(a, b, o), Paired(n, Visits(a, n), Visits(b, n)))
<1> DEFINE u == Append(o, n)
<1>1. /\ u \in Seq(N) /\ Len(u) = Len(o) + 1 /\ u[Len(o) + 1] = n
      /\ \A i \in 1..Len(o) : u[i] = o[i]
  BY AppendProperties
<1> DEFINE B == Blocks(a, b, o)
           p0 == Paired(n, Visits(a, n), Visits(b, n))
           W == Blocks(a, b, u)
<1>2. /\ W \in Seq(Seq(StepOf(T, N))) /\ Len(W) = Len(o) + 1 /\ W[Len(o) + 1] = p0
      /\ \A i \in 1..Len(o) : W[i] = Paired(o[i], Visits(a, o[i]), Visits(b, o[i]))
  <2>1. u \in Seq(N) /\ Len(o) \in Nat
    BY <1>1
  <2> HIDE DEF u
  <2>2. /\ W \in Seq(Seq(StepOf(T, N))) /\ Len(W) = Len(u)
        /\ \A i \in 1..Len(u) : W[i] = Paired(u[i], Visits(a, u[i]), Visits(b, u[i]))
    <3>1. \A q \in Seq(N) : AreBlocks(T, N, a, b, q)
      BY BlocksType
    <3> QED BY <2>1, <3>1 DEF AreBlocks
  <2>3. Len(o) + 1 \in 1..Len(u) /\ \A i \in 1..Len(o) : i \in 1..Len(u)
    BY <1>1, <2>1
  <2> HIDE DEF W
  <2> QED BY <1>1, <2>2, <2>3
<1>3. /\ B \in Seq(Seq(StepOf(T, N))) /\ Len(B) = Len(o)
      /\ \A i \in 1..Len(o) : B[i] = Paired(o[i], Visits(a, o[i]), Visits(b, o[i]))
  BY BlocksType DEF AreBlocks
<1>4. p0 \in Seq(StepOf(T, N))
  BY PairedType, VisitsKept
<1> DEFINE Q == Seq(StepOf(T, N))
<1> HIDE DEF B, W, p0, u, Q
<1>5. /\ Append(B, p0) \in Seq(Q) /\ Len(Append(B, p0)) = Len(B) + 1
      /\ Append(B, p0)[Len(B) + 1] = p0 /\ \A i \in 1..Len(B) : Append(B, p0)[i] = B[i]
  <2>1. B \in Seq(Q) /\ p0 \in Q
    BY <1>3, <1>4 DEF Q
  <2> QED BY <2>1, AppendProperties
<1>6. W = Append(B, p0)
  <2>1. \A i \in 1..Len(W) : W[i] = Append(B, p0)[i]
    BY <1>2, <1>3, <1>5
  <2>2. W \in Seq(Q)
    BY <1>2 DEF Q
  <2> QED BY <1>2, <1>3, <1>5, <2>1, <2>2, SeqEqual
<1> QED BY <1>6 DEF B, W, p0, u

\* Of the concatenated blocks, those of one node are its own block.
LEMMA BlocksOfNode ==
  ASSUME NEW T, NEW N, NEW a \in Seq(T), NEW b \in Seq(T), NEW n \in N, NEW v \in Seq(N)
  PROVE  /\ Firsts(v) \in Seq(N)
         /\ FlattenSeq(Blocks(a, b, Firsts(v))) \in Seq(StepOf(T, N))
         /\ Keep(FlattenSeq(Blocks(a, b, Firsts(v))), OnNode(T, N, n)) =
              IF n \in ToSet(v) THEN Paired(n, Visits(a, n), Visits(b, n)) ELSE <<>>
<1> DEFINE F(u) == FlattenSeq(Blocks(a, b, Firsts(u)))
           S == StepOf(T, N)
           G == OnNode(T, N, n)
           P == {u \in Seq(N) : Keep(F(u), G) =
                   IF n \in ToSet(u) THEN Paired(n, Visits(a, n), Visits(b, n)) ELSE <<>>}
<1>1. ASSUME NEW u \in Seq(N) PROVE Firsts(u) \in Seq(N)
  BY PickedType DEF Firsts
<1>2. ASSUME NEW u \in Seq(N) PROVE F(u) \in Seq(S)
  BY <1>1, BlocksType, FlattenType DEF AreBlocks
<1>3. <<>> \in P
  <2>1. Firsts(<<>>) = <<>> /\ Blocks(a, b, <<>>) = <<>> /\ ToSet(<<>>) = {} /\ <<>> \in Seq(N)
    BY PickedEmpty, EmptySeq DEF Firsts, Blocks, ToSet
  <2> QED BY <2>1, FlattenEmpty, KeepEmpty
<1>4. ASSUME NEW u \in Seq(N), NEW e \in N, u \in P PROVE Append(u, e) \in P
  <2> DEFINE pe == Paired(e, Visits(a, e), Visits(b, e))
  <2>1. /\ Append(u, e) \in Seq(N) /\ Len(Append(u, e)) = Len(u) + 1
        /\ Append(u, e)[Len(u) + 1] = e /\ \A i \in 1..Len(u) : Append(u, e)[i] = u[i]
    BY AppendProperties
  <2>2. ToSet(Append(u, e)) = ToSet(u) \cup {e}
    BY RangeAppend
  <2>3. CASE e \in ToSet(u)
    <3>1. Firsts(Append(u, e)) = Firsts(u)
      BY <2>3, FirstsAppend
    <3> QED BY <1>4, <2>1, <2>2, <2>3, <3>1
  <2>4. CASE e \notin ToSet(u)
    <3>1. Firsts(Append(u, e)) = Append(Firsts(u), e)
      BY <2>4, FirstsAppend
    <3>2. Blocks(a, b, Firsts(u)) \in Seq(Seq(S)) /\ pe \in Seq(S)
      BY <1>1, BlocksType, PairedType, VisitsKept DEF AreBlocks
    <3>3. Blocks(a, b, Append(Firsts(u), e)) = Append(Blocks(a, b, Firsts(u)), pe)
      <4>1. \A q \in Seq(N) : Blocks(a, b, Append(q, e)) = Append(Blocks(a, b, q), pe)
        <5> HIDE DEF P, S, G, F
        <5>1. SUFFICES ASSUME NEW q \in Seq(N) PROVE Blocks(a, b, Append(q, e)) = Append(Blocks(a, b, q), pe)
          OBVIOUS
        <5> QED BY BlocksAppend
      <4> QED BY <1>1, <4>1
    <3>4. F(Append(u, e)) = F(u) \o pe
      BY <3>1, <3>2, <3>3, FlattenAppend
    <3>5. Keep(F(u) \o pe, G) = Keep(F(u), G) \o Keep(pe, G)
      BY <1>2, <3>2, KeepConcat
    <3>6. \A k \in 1..Len(pe) : pe[k] \in S /\ pe[k].node = e
      BY PairedVisits
    <3>7. Keep(pe, G) = IF e = n THEN pe ELSE <<>>
      <4>1. CASE e = n
        <5>1. \A k \in 1..Len(pe) : pe[k] \in G
          BY <3>6, <4>1 DEF OnNode
        <5> QED BY <3>2, <4>1, <5>1, KeepAll
      <4>2. CASE e # n
        <5>1. \A k \in 1..Len(pe) : pe[k] \notin G
          BY <3>6, <4>2 DEF OnNode
        <5> QED BY <3>2, <4>2, <5>1, KeepNone
      <4> QED BY <4>1, <4>2
    <3>8. Keep(F(u), G) = IF n \in ToSet(u) THEN Paired(n, Visits(a, n), Visits(b, n)) ELSE <<>>
      BY <1>4
    <3>9. CASE e = n
      <4>1. Keep(F(u), G) \o Keep(pe, G) = pe
        BY <2>4, <3>2, <3>7, <3>8, <3>9, ConcatEmptySeq
      <4> QED BY <2>1, <2>2, <3>4, <3>5, <3>9, <4>1
    <3>10. CASE e # n
      <4>1. Keep(F(u), G) \in Seq(S)
        BY <1>2, KeepType
      <4>2. Keep(F(u), G) \o Keep(pe, G) = Keep(F(u), G)
        BY <3>7, <3>10, <4>1, ConcatEmptySeq
      <4> QED BY <2>1, <2>2, <3>4, <3>5, <3>8, <3>10, <4>2
    <3> QED BY <3>9, <3>10
  <2> QED BY <2>3, <2>4
<1> HIDE DEF P
<1>5. \A u \in Seq(N) : u \in P
  BY <1>3, <1>4, SeqInd
<1> QED BY <1>1, <1>2, <1>5 DEF P

NodesOf(t) == [i \in DOMAIN t |-> t[i].node]

\* The alignment holds the steps of a node, as its visits are paired.
AlignedAt(T, N, a, b, n) ==
  Keep(Aligned(a, b), OnNode(T, N, n)) = Paired(n, Visits(a, n), Visits(b, n))

\* So it does, at every node.
LEMMA AlignedAtNode ==
  ASSUME NEW T, NEW N, \A e \in T : e.node \in N,
         NEW a \in Seq(T), NEW b \in Seq(T), NEW n \in N
  PROVE  Aligned(a, b) \in Seq(StepOf(T, N)) /\ AlignedAt(T, N, a, b, n)
<1> DEFINE v == NodesOf(a \o b)
<1>1. /\ a \o b \in Seq(T) /\ Len(a \o b) = Len(a) + Len(b)
      /\ \A i \in 1..Len(a) : (a \o b)[i] = a[i]
      /\ \A i \in 1..Len(b) : (a \o b)[Len(a) + i] = b[i]
  BY ConcatProperties
<1>2. v \in Seq(N) /\ Len(v) = Len(a) + Len(b)
  <2>1. v = [i \in 1..Len(a \o b) |-> (a \o b)[i].node] /\ Len(a \o b) \in Nat
    BY <1>1 DEF NodesOf
  <2>2. \A i \in 1..Len(a \o b) : (a \o b)[i].node \in N
    BY <1>1
  <2> HIDE DEF v
  <2> QED BY <1>1, <2>1, <2>2, IsASeq
<1>3. Aligned(a, b) = FlattenSeq(Blocks(a, b, Firsts(v)))
  BY DEF Aligned, NodeOrder, Blocks, Firsts, NodesOf
<1>4. n \notin ToSet(v) => Visits(a, n) = <<>> /\ Visits(b, n) = <<>>
  <2>1. ASSUME n \notin ToSet(v) PROVE Visits(a, n) = <<>> /\ Visits(b, n) = <<>>
    <3>1. \A i \in 1..Len(v) : (a \o b)[i].node # n
      BY <1>1, <1>2, <2>1 DEF NodesOf, ToSet
    <3>2. \A i \in 1..Len(a) : i \in 1..Len(v) /\ a[i] \notin At(T, n)
      BY <1>1, <1>2, <3>1 DEF At
    <3>3. \A i \in 1..Len(b) : b[i] \notin At(T, n)
      <4>1. \A i \in 1..Len(b) : Len(a) + i \in 1..Len(v)
        BY <1>2
      <4> QED BY <1>1, <3>1, <4>1 DEF At
    <3> QED BY <3>2, <3>3, VisitsKept, KeepNone
  <2> QED BY <2>1
<1>5. Paired(n, <<>>, <<>>) = <<>>
  BY PairedNothing
<1> HIDE DEF v
<1> QED BY <1>2, <1>3, <1>4, <1>5, BlocksOfNode DEF AlignedAt

\* The alignment is a sequence of steps.
LEMMA AlignedType ==
  ASSUME NEW T, NEW N, \A e \in T : e.node \in N, NEW a \in Seq(T), NEW b \in Seq(T)
  PROVE  Aligned(a, b) \in Seq(StepOf(T, N))
<1>1. CASE N = {}
  <2>1. T = {}
    BY <1>1
  <2>2. a = <<>> /\ b = <<>>
    BY <2>1, EmptySeq
  <2>3. a \o b = <<>>
    BY <2>2, ConcatEmptySeq
  <2>4. Aligned(a, b) = FlattenSeq(Blocks(a, b, Firsts(NodesOf(a \o b))))
    BY DEF Aligned, NodeOrder, Blocks, Firsts, NodesOf
  <2>5. NodesOf(<<>>) = <<>> /\ Firsts(<<>>) = <<>> /\ Blocks(a, b, <<>>) = <<>>
    BY PickedEmpty, EmptySeq DEF NodesOf, Firsts, Blocks
  <2> QED BY <2>3, <2>4, <2>5, FlattenEmpty, EmptySeq
<1>2. CASE N # {}
  BY <1>2, AlignedAtNode
<1> QED BY <1>1, <1>2

\* A step that pairs visits of its node.
PairsVisits(N, a, b, st) ==
  \E n \in N : \E k \in 1..Len(Paired(n, Visits(a, n), Visits(b, n))) :
    st = Paired(n, Visits(a, n), Visits(b, n))[k]

\* The steps of the alignment are the paired visits, and nothing else is.
LEMMA StepIsPaired ==
  ASSUME NEW T, NEW N, \A e \in T : e.node \in N, NEW a \in Seq(T), NEW b \in Seq(T), NEW st
  PROVE  st \in ToSet(Aligned(a, b)) <=> PairsVisits(N, a, b, st)
<1>1. \A n \in N : AlignedAt(T, N, a, b, n)
  BY AlignedAtNode
<1> DEFINE Pair(n) == Paired(n, Visits(a, n), Visits(b, n))
           Steps == Aligned(a, b)
<1>2. Steps \in Seq(StepOf(T, N))
  BY AlignedType
<1>3. ASSUME NEW n \in N
      PROVE  ToSet(Pair(n)) = ToSet(Steps) \cap OnNode(T, N, n) /\ Pair(n) \in Seq(StepOf(T, N))
  <2>1. Keep(Steps, OnNode(T, N, n)) = Pair(n)
    BY <1>1 DEF AlignedAt
  <2>2. ToSet(Keep(Steps, OnNode(T, N, n))) = ToSet(Steps) \cap OnNode(T, N, n)
    BY <1>2, KeepRange
  <2>3. Pair(n) \in Seq(StepOf(T, N))
    BY VisitsKept, PairedType
  <2> QED BY <2>1, <2>2, <2>3
<1>4. ASSUME st \in ToSet(Steps)
      PROVE  \E n \in N : \E k \in 1..Len(Pair(n)) : st = Pair(n)[k]
  <2>1. PICK i \in DOMAIN Steps : st = Steps[i]
    BY <1>4 DEF ToSet
  <2>2. st \in StepOf(T, N)
    BY <1>2, <2>1
  <2>3. st.node \in N
    BY <2>2 DEF StepOf
  <2>4. st \in OnNode(T, N, st.node)
    BY <2>2 DEF OnNode
  <2>5. st \in ToSet(Pair(st.node)) /\ Pair(st.node) \in Seq(StepOf(T, N))
    BY <1>3, <1>4, <2>3, <2>4
  <2>6. \E k \in 1..Len(Pair(st.node)) : st = Pair(st.node)[k]
    BY <2>5 DEF ToSet
  <2> QED BY <2>3, <2>6
<1>5. ASSUME NEW n \in N, NEW k \in 1..Len(Pair(n)), st = Pair(n)[k]
      PROVE  st \in ToSet(Steps)
  <2>1. Pair(n) \in Seq(StepOf(T, N)) /\ ToSet(Pair(n)) = ToSet(Steps) \cap OnNode(T, N, n)
    BY <1>3
  <2>2. st \in ToSet(Pair(n))
    BY <1>5, <2>1 DEF ToSet
  <2> QED BY <2>1, <2>2
<1> QED BY <1>4, <1>5 DEF PairsVisits

-----------------------------------------------------------------------------
(* The inductive invariant.                                                  *)

\* What is at the positions of a visit, None where there is none, is the visit.
LEMMA CallsAtKept ==
  ASSUME NEW T, None \notin T, NEW v \in Seq(T), NEW m \in Nat, Len(v) <= m
  PROVE  /\ [k \in 1..m |-> CallAt(v, k)] \in Seq(T \cup {None})
         /\ Keep([k \in 1..m |-> CallAt(v, k)], T) = v
<1> DEFINE w == [k \in 1..(m - Len(v)) |-> None]
           c == [k \in 1..m |-> CallAt(v, k)]
           E == T \cup {None}
<1>1. v \in Seq(E) /\ Len(v) \in Nat /\ m - Len(v) \in Nat
  OBVIOUS
<1>2. w \in Seq(E) /\ Len(w) = m - Len(v) /\ \A k \in 1..Len(w) : w[k] = None
  <2>1. \A k \in 1..(m - Len(v)) : None \in E
    OBVIOUS
  <2>2. w \in Seq(E) /\ Len(w) = m - Len(v)
    BY <1>1, <2>1, IsASeq
  <2> QED BY <2>2
<1>3. c \in Seq(E) /\ Len(c) = m /\ \A k \in 1..m : c[k] = CallAt(v, k)
  <2>1. \A k \in 1..m : CallAt(v, k) \in E
    BY DEF CallAt
  <2> QED BY <2>1, IsASeq
<1> HIDE DEF w, c
<1>4. /\ v \o w \in Seq(E) /\ Len(v \o w) = Len(v) + Len(w)
      /\ \A k \in 1..Len(v) : (v \o w)[k] = v[k]
      /\ \A k \in (Len(v) + 1)..(Len(v) + Len(w)) : (v \o w)[k] = w[k - Len(v)]
  BY <1>1, <1>2, ConcatProperties
<1>5. c = v \o w
  <2>1. ASSUME NEW k \in 1..Len(c) PROVE c[k] = (v \o w)[k]
    <3>1. CASE k <= Len(v)
      BY <1>1, <1>3, <1>4, <3>1 DEF CallAt
    <3>2. CASE k > Len(v)
      <4>1. k \in (Len(v) + 1)..(Len(v) + Len(w)) /\ k - Len(v) \in 1..Len(w) /\ k \notin DOMAIN v
        BY <1>1, <1>2, <1>3, <3>2
      <4> QED BY <1>2, <1>3, <1>4, <4>1 DEF CallAt
    <3>3. k <= Len(v) \/ k > Len(v)
      BY <1>1, <1>3
    <3> QED BY <3>1, <3>2, <3>3
  <2>2. Len(c) = Len(v \o w)
    BY <1>1, <1>2, <1>3, <1>4
  <2> QED BY <1>3, <1>4, <2>1, <2>2, SeqEqual
<1>6. Keep(v, T) = v /\ Keep(w, T) = <<>>
  <2>1. (\A k \in 1..Len(v) : v[k] \in T) /\ \A k \in 1..Len(w) : w[k] \notin T
    BY <1>2
  <2> QED BY <1>1, <1>2, <2>1, KeepAll, KeepNone
<1>7. Keep(v \o w, T) = Keep(v, T) \o Keep(w, T)
  BY <1>1, <1>2, KeepConcat
<1>8. v \o <<>> = v
  BY ConcatEmptySeq
<1>9. c \in Seq(E) /\ Keep(c, T) = v
  BY <1>3, <1>5, <1>6, <1>7, <1>8
<1> QED BY <1>9 DEF c

-----------------------------------------------------------------------------
\* The events that happen, when N are the names stored and k the SDK.
Ends == Substituted \cup Ran \cup Raised \cup {Refused}

CallsAt(N) == {ToolEvent(c, n, o) : c \in Call, n \in N, o \in Ends}

AskedWith(k) ==
  {e \in LaneEvent : \E u \in Usage, ms \in Maybe(Millis) : \E r \in Responses(k, u) :
                       e = ModelEvent(u, ExtractUsage(k, r), ms)}

\* A call is stored under the name of the node it was made at.
StoredCalls == {e \in CallsAt(StoredNames) : e.at \in Nodes /\ e.node = stored[e.at]}

Happened == StoredCalls \cup AskedWith(sdk)

\* The mark m of lane t says whether and where its drift reached the threshold.
RightMark(t, m) ==
  /\ m = 0 => Number(t, Ungrounded) < Threshold
  /\ m # 0 => /\ m \in 1..Len(t) /\ Cardinality({i \in 1..m : Ungrounded(t[i])}) = Threshold
              /\ Ungrounded(t[m])

IInv ==
  /\ load \in Workloads /\ stored \in load.storings /\ sdk \in load.sdks
  /\ run \in [TwoLanes -> Seq(Happened)]
  /\ RightMark(run.shadow, mark)

\* None is no value of any column.
LEMMA NoneElsewhere ==
  /\ None \notin Nat /\ None \notin Nodes /\ None \notin Tools
  /\ \A x \in {"real", "fixture", "schema", "template", "stub", "measured", "replayed"} : None # x
BY NoneAssumption DEF Invented

\* What the columns of a tool event can hold together: whether an answer was
\* made up, replayed or real says whether it has a latency and of which source.
LEMMA CallFields ==
  ASSUME NEW N, NEW e \in CallsAt(N)
  PROVE  /\ e.kind = "tool" /\ IsTool(e) /\ e.node \in N /\ e.tool \in Tools /\ e.args \in Args
         /\ e.latency \in Maybe(Millis) /\ e.blocked \in BOOLEAN
         /\ \/ /\ e.did = "refused" /\ e.blocked /\ e.source = None /\ e.latency = None /\ e.lsource = None
            \/ /\ e.did = "substituted" /\ ~e.blocked /\ e.source \in {"fixture"} \cup Invented
               /\ \/ e.latency = None /\ e.lsource = None
                  \/ e.latency \in Millis /\ e.lsource = "replayed"
            \/ e.did = "ran" /\ ~e.blocked /\ e.source = "real" /\ e.latency \in Millis /\ e.lsource = "measured"
            \/ e.did = "raised" /\ ~e.blocked /\ e.source = None /\ e.latency \in Millis /\ e.lsource = None
<1>1. PICK c \in Call, n \in N, o \in Ends : e = ToolEvent(c, n, o)
  BY DEF CallsAt
<1>2. c.tool \in Tools /\ c.args \in Args
  BY DEF Call
<1>3. \/ o.did = "refused" /\ o.blocked = TRUE /\ o.source = None /\ o.latency = None /\ o.lsource = None
      \/ /\ o.did = "substituted" /\ o.blocked = FALSE /\ o.source \in {"fixture"} \cup Invented
         /\ \/ o.latency = None /\ o.lsource = None
            \/ o.latency \in Millis /\ o.lsource = "replayed"
      \/ o.did = "ran" /\ o.blocked = FALSE /\ o.source = "real" /\ o.latency \in Millis /\ o.lsource = "measured"
      \/ o.did = "raised" /\ o.blocked = FALSE /\ o.source = None /\ o.latency \in Millis /\ o.lsource = None
  BY DEF Ends, Substituted, Ran, Raised, Refused, Outcome
<1>4. /\ e.kind = "tool" /\ e.tool = c.tool /\ e.args = c.args /\ e.node = n /\ e.did = o.did
      /\ e.blocked = o.blocked /\ e.source = o.source /\ e.latency = o.latency /\ e.lsource = o.lsource
  BY <1>1 DEF ToolEvent
<1> QED BY <1>2, <1>3, <1>4 DEF Maybe, IsTool

\* Tool events are events, so None is not one of them.
LEMMA CallIsEvent == ASSUME NEW N, N \subseteq Maybe(Nodes) PROVE CallsAt(N) \subseteq LaneEvent
<1>1. SUFFICES ASSUME NEW c \in Call, NEW n \in N, NEW o \in Ends PROVE ToolEvent(c, n, o) \in LaneEvent
  BY DEF CallsAt
<1>2. c.tool \in Tools /\ c.args \in Args /\ c.at \in Nodes
  BY DEF Call
<1>3. /\ o.did \in {"refused", "substituted", "ran", "raised"} /\ o.blocked \in BOOLEAN
      /\ o.source \in Maybe({"real", "fixture"} \cup Invented) /\ o.latency \in Maybe(Millis)
      /\ o.lsource \in Maybe({"measured", "replayed"})
  <2>1. CASE o \in Substituted
    <3>1. CASE \E src \in {"fixture"} \cup Invented : o = Outcome("substituted", FALSE, src, None, None)
      <4>1. PICK src \in {"fixture"} \cup Invented : o = Outcome("substituted", FALSE, src, None, None)
        BY <3>1
      <4> QED BY <4>1 DEF Outcome, Maybe
    <3>2. CASE \E ms \in Millis : o = Outcome("substituted", FALSE, "fixture", ms, "replayed")
      <4>1. PICK ms \in Millis : o = Outcome("substituted", FALSE, "fixture", ms, "replayed")
        BY <3>2
      <4> QED BY <4>1 DEF Outcome, Maybe
    <3> QED BY <2>1, <3>1, <3>2 DEF Substituted
  <2>2. CASE o \in Ran
    <3>1. PICK ms \in Millis : o = Outcome("ran", FALSE, "real", ms, "measured")
      BY <2>2 DEF Ran
    <3> QED BY <3>1 DEF Outcome, Maybe
  <2>3. CASE o \in Raised
    <3>1. PICK ms \in Millis : o = Outcome("raised", FALSE, None, ms, None)
      BY <2>3 DEF Raised
    <3> QED BY <3>1 DEF Outcome, Maybe
  <2>4. CASE o = Refused
    BY <2>4 DEF Refused, Outcome, Maybe
  <2> QED BY <2>1, <2>2, <2>3, <2>4 DEF Ends
<1> QED BY <1>1, <1>2, <1>3 DEF ToolEvent, LaneEvent

\* What the columns of a model event can hold together.
LEMMA AskedFields ==
  ASSUME NEW k, NEW e \in AskedWith(k)
  PROVE  /\ e.kind = "llm" /\ ~IsTool(e) /\ e.did = "asked" /\ e.source = "real"
         /\ \/ e.latency = None /\ e.lsource = None
            \/ e.latency \in Millis /\ e.lsource = "measured"
         /\ e.in \in Maybe(Nat) /\ e.out \in Maybe(Nat) /\ e.cached \in Maybe(Nat)
<1>1. PICK ms \in Maybe(Millis) : \E u, q : e = ModelEvent(u, q, ms)
  <2>1. PICK u \in Usage, ms \in Maybe(Millis) : \E r \in Responses(k, u) : e = ModelEvent(u, ExtractUsage(k, r), ms)
    BY DEF AskedWith
  <2>2. PICK r \in Responses(k, u) : e = ModelEvent(u, ExtractUsage(k, r), ms)
    BY <2>1
  <2> DEFINE q == ExtractUsage(k, r)
  <2>3. e = ModelEvent(u, q, ms)
    BY <2>2
  <2> HIDE DEF q
  <2> QED BY <2>3
<1>2. e.kind = "llm" /\ e.did = "asked" /\ e.source = "real" /\ e.latency = ms
      /\ e.lsource = IF ms = None THEN None ELSE "measured"
  BY <1>1 DEF ModelEvent
<1>3. e \in LaneEvent
  BY DEF AskedWith
<1>4. e.in \in Maybe(Nat) /\ e.out \in Maybe(Nat) /\ e.cached \in Maybe(Nat)
  BY <1>2, <1>3 DEF LaneEvent
<1> QED BY <1>2, <1>4 DEF Maybe, IsTool

\* The parts of a workload have their types.
LEMMA WorkloadFacts ==
  ASSUME NEW w \in Workloads
  PROVE  /\ w.calls \subseteq Call /\ w.waits \subseteq Maybe(Millis)
         /\ w.storings \subseteq [Nodes -> Maybe(Nodes)]
         /\ w.sdks \subseteq {"openai", "anthropic", "gemini"}
         /\ \A l \in TwoLanes : w.outcomes[l] \subseteq Ends /\ w.usages[l] \subseteq Usage
<1>1. w \in Workload
  BY ReportAssumption
<1> QED BY <1>1 DEF Workload, Ends

\* Each SDK's usage object gives a count or None for every column.
LEMMA ExtractType ==
  ASSUME NEW k \in {"openai", "anthropic", "gemini"}, NEW u \in Usage, NEW r \in Responses(k, u)
  PROVE  LET q == ExtractUsage(k, r)
         IN  q.in \in Maybe(Nat) /\ q.out \in Maybe(Nat) /\ q.cached \in Maybe(Nat)
<1>1. u.fresh \in Nat /\ u.cached \in Nat /\ u.out \in Nat
  BY EventAssumption DEF Usage
<1>2. Prompt(k, u) \in Nat
  BY <1>1 DEF Prompt
<1>3. CASE ~r.usage
  BY <1>3 DEF ExtractUsage, Maybe
<1>4. CASE r.usage
  <2>1. /\ r.prompt \in {Prompt(k, u), None} /\ r.completion \in {u.out, None}
        /\ r.cached \in {Details(k, u.cached), Details(k, None), None}
    <3>1. r # [usage |-> FALSE]
      BY <1>4
    <3>2. r \in [usage : {TRUE}, prompt : {Prompt(k, u), None}, completion : {u.out, None},
                 cached : {Details(k, u.cached), Details(k, None), None}]
      BY <3>1 DEF Responses
    <3> QED BY <3>2
  <2>2. (IF k = "openai" /\ r.cached # None THEN r.cached.tokens ELSE r.cached) \in {u.cached, None}
    BY <2>1 DEF Details
  <2> QED BY <1>1, <1>2, <1>4, <2>1, <2>2 DEF ExtractUsage, Maybe
<1> QED BY <1>3, <1>4

\* The drift of a lane is a count.
LEMMA DriftNumber ==
  ASSUME NEW E, NEW t \in Seq(E)
  PROVE  Number(t, Ungrounded) = Count(t, {e \in E : Ungrounded(e)})
<1>1. {i \in DOMAIN t : Ungrounded(t[i])} = {i \in DOMAIN t : t[i] \in {e \in E : Ungrounded(e)}}
  OBVIOUS
<1> QED BY <1>1 DEF Number, Count

\* The invariant holds of two empty lanes.
LEMMA InitIInv == Init => IInv
<1>1. SUFFICES ASSUME Init PROVE IInv
  OBVIOUS
<1>2. run \in [TwoLanes -> Seq(Happened)]
  BY <1>1, EmptySeq DEF Init
<1>3. Number(run.shadow, Ungrounded) = 0
  <2>1. run.shadow = <<>> /\ <<>> \in Seq({})
    BY <1>1, EmptySeq DEF Init, TwoLanes
  <2> QED BY <2>1, DriftNumber, CountEmpty
<1> QED BY <1>1, <1>2, <1>3, ReportAssumption DEF Init, IInv, RightMark

\* While the names stored, the SDK and the workload stay, so do the events that
\* can happen.
LEMMA SameEvents == UNCHANGED <<stored, sdk, load>> => Happened' = Happened
BY DEF Happened, StoredCalls, CallsAt, AskedWith, StoredNames

\* The mark that a lane with mark m gets when it has become u.
NextMark(u, m) ==
  LET drift == {i \in DOMAIN u : Ungrounded(u[i])}
  IN  IF m = 0 /\ Len(u) \in drift /\ Cardinality(drift) >= Threshold THEN Len(u) ELSE m

\* A mark that was right is right after the next event.
LEMMA MarkStep ==
  ASSUME NEW E, NEW t \in Seq(E), NEW e \in E, NEW m, RightMark(t, m)
  PROVE  RightMark(Append(t, e), NextMark(Append(t, e), m))
<1> DEFINE u == Append(t, e)
           drift == {i \in DOMAIN u : Ungrounded(u[i])}
           G == {x \in E : Ungrounded(x)}
           n == NextMark(u, m)
<1>1. /\ u \in Seq(E) /\ Len(u) = Len(t) + 1 /\ u[Len(t) + 1] = e
      /\ \A i \in 1..Len(t) : u[i] = t[i]
  BY AppendProperties
<1>2. Len(t) \in Nat /\ DOMAIN u = 1..(Len(t) + 1) /\ Threshold \in Nat /\ Threshold # 0
  BY <1>1, ReportAssumption
<1>3. Count(u, G) = IF Ungrounded(e) THEN Count(t, G) + 1 ELSE Count(t, G)
  BY CountAppend
<1>4. Count(t, G) \in Nat
  <2>1. Count(t, G) \in 0..Len(t)
    BY CountType
  <2> QED BY <2>1
<1>5. Number(t, Ungrounded) = Count(t, G) /\ Number(u, Ungrounded) = Count(u, G)
  BY <1>1, DriftNumber
<1> HIDE DEF u, G, n
<1>6. Cardinality(drift) = Number(u, Ungrounded) /\ (Len(u) \in drift <=> Ungrounded(e))
  BY <1>1, <1>2 DEF Number
<1>7. n = IF m = 0 /\ Ungrounded(e) /\ Number(u, Ungrounded) >= Threshold THEN Len(u) ELSE m
  BY <1>6 DEF NextMark, n
<1>8. CASE m = 0 /\ Ungrounded(e) /\ Number(u, Ungrounded) >= Threshold
  <2>1. n = Len(u) /\ Number(u, Ungrounded) = Threshold
    <3>1. Number(t, Ungrounded) < Threshold
      BY <1>8 DEF RightMark
    <3>2. Number(u, Ungrounded) = Number(t, Ungrounded) + 1 /\ Number(t, Ungrounded) \in Nat
      BY <1>3, <1>4, <1>5, <1>8
    <3> QED BY <1>2, <1>7, <1>8, <3>1, <3>2
  <2>2. {i \in 1..n : Ungrounded(u[i])} = drift
    BY <1>1, <1>2, <2>1
  <2> HIDE DEF drift
  <2>3. n \in 1..Len(u) /\ n # 0 /\ Cardinality({i \in 1..n : Ungrounded(u[i])}) = Threshold /\ Ungrounded(u[n])
    <3>1. n = Len(t) + 1 /\ u[n] = e
      BY <1>1, <2>1
    <3>2. Cardinality({i \in 1..n : Ungrounded(u[i])}) = Threshold
      BY <1>6, <2>1, <2>2
    <3>3. n \in 1..Len(u) /\ n # 0
      BY <1>1, <1>2, <3>1
    <3>4. Ungrounded(u[n])
      BY <1>8, <3>1
    <3> QED BY <3>2, <3>3, <3>4
  <2> QED BY <2>3 DEF u, n, RightMark
<1>9. CASE m = 0 /\ ~(Ungrounded(e) /\ Number(u, Ungrounded) >= Threshold)
  <2>1. n = 0
    BY <1>7, <1>9
  <2>2. Number(u, Ungrounded) < Threshold
    <3>1. Number(t, Ungrounded) < Threshold
      BY <1>9 DEF RightMark
    <3>2. CASE Ungrounded(e)
      <4>1. Number(u, Ungrounded) \in Nat /\ ~(Number(u, Ungrounded) >= Threshold)
        BY <1>3, <1>4, <1>5, <1>9, <3>2
      <4> QED BY <1>2, <4>1
    <3>3. CASE ~Ungrounded(e)
      BY <1>3, <1>5, <3>1, <3>3
    <3> QED BY <3>2, <3>3
  <2> QED BY <2>1, <2>2 DEF u, n, RightMark
<1>10. CASE m # 0
  <2>1. n = m /\ m \in 1..Len(t) /\ Ungrounded(t[m])
    BY <1>7, <1>10 DEF RightMark
  <2>2. {i \in 1..m : Ungrounded(u[i])} = {i \in 1..m : Ungrounded(t[i])}
    BY <1>1, <1>2, <2>1
  <2>3. n \in 1..Len(u) /\ u[n] = t[n]
    BY <1>1, <1>2, <2>1
  <2>4. Cardinality({i \in 1..m : Ungrounded(t[i])}) = Threshold
    BY <1>10 DEF RightMark
  <2>5. n # 0 /\ n \in 1..Len(u) /\ Ungrounded(u[n]) /\ Cardinality({i \in 1..n : Ungrounded(u[i])}) = Threshold
    BY <1>10, <2>1, <2>2, <2>3, <2>4
  <2> QED BY <2>5 DEF u, n, RightMark
<1> QED BY <1>8, <1>9, <1>10

\* An event that may happen keeps the invariant, with the mark the recorder then sets.
LEMMA AppendKeeps ==
  ASSUME IInv, NEW l \in TwoLanes, NEW e \in Happened, Appends(l, e),
         mark' = IF l = "shadow" /\ IsTool(e) THEN Marked(run'[l]) ELSE mark,
         ~IsTool(e) => ~Ungrounded(e)
  PROVE  IInv'
<1>1. /\ run \in [TwoLanes -> Seq(Happened)] /\ run' = [run EXCEPT ![l] = Append(@, e)]
      /\ UNCHANGED <<stored, sdk, load>>
  BY DEF IInv, Appends
<1>2. Happened' = Happened
  BY <1>1, SameEvents
<1>3. Append(run[l], e) \in Seq(Happened)
  BY <1>1, AppendProperties
<1>4. run' \in [TwoLanes -> Seq(Happened')]
  BY <1>1, <1>2, <1>3
<1>5. RightMark(run'.shadow, mark')
  <2>1. RightMark(run.shadow, mark)
    BY DEF IInv
  <2>2. CASE l # "shadow"
    <3>1. run'.shadow = run.shadow /\ mark' = mark
      BY <1>1, <2>2 DEF TwoLanes
    <3> QED BY <2>1, <3>1
  <2>3. CASE l = "shadow"
    <3> DEFINE t == run.shadow
               u == Append(t, e)
    <3>1. t \in Seq(Happened) /\ run'.shadow = u /\ run'[l] = u
      BY <1>1, <2>3 DEF TwoLanes
    <3>2. u \in Seq(Happened) /\ Len(u) = Len(t) + 1 /\ u[Len(t) + 1] = e /\ DOMAIN u = 1..Len(u)
      BY <3>1, AppendProperties
    <3>3. mark' = NextMark(u, mark)
      <4>1. CASE IsTool(e)
        <5>1. mark' = Marked(run'[l])
          BY <2>3, <4>1
        <5> QED BY <3>1, <5>1 DEF Marked, NextMark
      <4>2. CASE ~IsTool(e)
        <5>1. ~Ungrounded(u[Len(u)]) /\ mark' = mark
          BY <2>3, <3>2, <4>2
        <5> QED BY <5>1 DEF NextMark
      <4> QED BY <4>1, <4>2
    <3>4. RightMark(u, NextMark(u, mark))
      BY <2>1, <3>1, MarkStep
    <3> QED BY <3>1, <3>3, <3>4
  <2> QED BY <2>2, <2>3
<1>6. load' \in Workloads /\ stored' \in load'.storings /\ sdk' \in load'.sdks
  BY <1>1 DEF IInv
<1>7. RightMark(run.shadow, mark)'
  BY <1>5 DEF RightMark, Number, Ungrounded, IsTool
<1> QED BY <1>4, <1>6, <1>7 DEF IInv

\* A tool call keeps the invariant and appends an event to one lane.
LEMMA ToolCalledKeeps ==
  ASSUME IInv, NEW l \in TwoLanes, NEW c \in load.calls, NEW o \in load.outcomes[l], ToolCalled(l, c, o)
  PROVE  IInv' /\ \E e \in Happened : Appends(l, e)
<1> DEFINE e == ToolEvent(c, stored[c.at], o)
<1>1. c \in Call /\ o \in Ends
  BY WorkloadFacts DEF IInv
<1>2. c.at \in Nodes
  BY <1>1 DEF Call
<1>3. stored[c.at] \in StoredNames
  BY <1>2 DEF StoredNames
<1>4. e \in StoredCalls
  <2>1. e \in CallsAt(StoredNames)
    BY <1>1, <1>3 DEF CallsAt
  <2>2. e.at = c.at /\ e.node = stored[c.at]
    BY DEF ToolEvent
  <2> QED BY <1>2, <2>1, <2>2 DEF StoredCalls
<1>5. e \in Happened /\ IsTool(e)
  BY <1>4, CallFields DEF Happened, StoredCalls
<1>6. Appends(l, e) /\ mark' = IF l = "shadow" THEN Marked(run'[l]) ELSE mark
  BY DEF ToolCalled
<1> HIDE DEF e
<1> QED BY <1>5, <1>6, AppendKeeps

\* A model call keeps the invariant and appends an event to one lane.
LEMMA ModelCalledKeeps ==
  ASSUME IInv, NEW l \in TwoLanes, NEW u \in load.usages[l], NEW ms \in load.waits,
         NEW r \in MayRespond(u), ModelCalled(l, u, r, ms)
  PROVE  IInv' /\ \E e \in Happened : Appends(l, e)
<1> DEFINE q == ExtractUsage(sdk, r)
           e == ModelEvent(u, q, ms)
<1>1. u \in Usage /\ ms \in Maybe(Millis) /\ sdk \in {"openai", "anthropic", "gemini"}
  BY WorkloadFacts DEF IInv
<1>2. r \in Responses(sdk, u)
  <2>1. FullResponse(sdk, u) \in
          [usage : {TRUE}, prompt : {Prompt(sdk, u), None}, completion : {u.out, None},
           cached : {Details(sdk, u.cached), Details(sdk, None), None}]
    BY DEF FullResponse
  <2>2. FullResponse(sdk, u) \in Responses(sdk, u)
    BY <2>1 DEF Responses
  <2> QED BY <2>2 DEF MayRespond
<1>3. q.in \in Maybe(Nat) /\ q.out \in Maybe(Nat) /\ q.cached \in Maybe(Nat)
  BY <1>1, <1>2, ExtractType
<1>4. e \in LaneEvent
  <2> HIDE DEF q
  <2> QED BY <1>1, <1>3 DEF ModelEvent, LaneEvent, Maybe
<1>5. e \in AskedWith(sdk)
  BY <1>1, <1>2, <1>4 DEF AskedWith
<1>6. e \in Happened /\ ~IsTool(e)
  BY <1>5, AskedFields DEF Happened
<1>7. Appends(l, e) /\ mark' = mark
  BY DEF ModelCalled
<1> HIDE DEF e
<1>8. ~Ungrounded(e)
  BY <1>6 DEF Ungrounded
<1> QED BY <1>6, <1>7, <1>8, AppendKeeps

\* Every step keeps the invariant and appends an event to one lane.
LEMMA NextAppends == ASSUME IInv, Next PROVE IInv' /\ \E l \in TwoLanes, e \in Happened : Appends(l, e)
<1>1. PICK l \in TwoLanes :
        \/ \E c \in load.calls, o \in load.outcomes[l] : ToolCalled(l, c, o)
        \/ \E u \in load.usages[l], ms \in load.waits : \E r \in MayRespond(u) : ModelCalled(l, u, r, ms)
  BY DEF Next
<1>2. CASE \E c \in load.calls, o \in load.outcomes[l] : ToolCalled(l, c, o)
  BY <1>2, ToolCalledKeeps
<1>3. CASE \E u \in load.usages[l], ms \in load.waits : \E r \in MayRespond(u) : ModelCalled(l, u, r, ms)
  BY <1>3, ModelCalledKeeps
<1> QED BY <1>1, <1>2, <1>3

\* The invariant is inductive.
LEMMA NextIInv == IInv /\ [Next]_vars => IInv'
<1>1. ASSUME IInv, Next PROVE IInv'
  BY <1>1, NextAppends
<1>2. ASSUME IInv, UNCHANGED vars PROVE IInv'
  <2>1. Happened' = Happened
    BY <1>2, SameEvents DEF vars
  <2> QED BY <1>2, <2>1 DEF IInv, vars, RightMark, Number, Ungrounded, IsTool
<1> QED BY <1>1, <1>2

\* Whatever happened to the two lanes, they hold events that can happen, and the
\* shadow is marked exactly at the event whose drift reached the threshold.
LEMMA Invariance == Spec => []IInv
BY InitIInv, NextIInv, PTL DEF Spec

-----------------------------------------------------------------------------
(* Every call is compared.                                                   *)

Steps == Aligned(p, s)

\* What follows of the events stored.
LEMMA StoredFacts ==
  ASSUME IInv
  PROVE  /\ StoredNames \subseteq Maybe(Nodes)
         /\ StoredCalls \subseteq LaneEvent
         /\ None \notin StoredCalls
         /\ \A e \in StoredCalls : e.node \in StoredNames /\ e.tool \in Tools /\ e.args \in Args
         /\ run.primary \in Seq(Happened) /\ run.shadow \in Seq(Happened)
         /\ \A l \in TwoLanes : run[l] \in Seq(Happened)
<1>1. stored \in [Nodes -> Maybe(Nodes)]
  BY WorkloadFacts DEF IInv
<1>2. StoredNames \subseteq Maybe(Nodes)
  BY <1>1 DEF StoredNames
<1>3. StoredCalls \subseteq LaneEvent
  BY <1>2, CallIsEvent DEF StoredCalls
<1>4. None \notin StoredCalls
  BY <1>3, NoneAssumption
<1>5. \A e \in StoredCalls : e.node \in StoredNames /\ e.tool \in Tools /\ e.args \in Args
  BY CallFields DEF StoredCalls
<1>6. \A l \in TwoLanes : run[l] \in Seq(Happened)
  BY DEF IInv
<1>7. "primary" \in TwoLanes /\ "shadow" \in TwoLanes
  BY DEF TwoLanes
<1> QED BY <1>2, <1>3, <1>4, <1>5, <1>6, <1>7

\* The tool calls of a lane are those a filter keeps.
LEMMA ToolCallsKept ==
  ASSUME NEW t \in Seq(Happened)
  PROVE  ToolCalls(t) = Keep(t, StoredCalls) /\ ToolCalls(t) \in Seq(StoredCalls)
<1> DEFINE I == {i \in DOMAIN t : IsTool(t[i])}
           J == {i \in DOMAIN t : t[i] \in StoredCalls}
<1>1. ASSUME NEW e \in Happened PROVE IsTool(e) <=> e \in StoredCalls
  <2>1. e \in StoredCalls => IsTool(e)
    BY CallFields DEF StoredCalls
  <2>2. e \in AskedWith(sdk) => ~IsTool(e)
    BY AskedFields
  <2> QED BY <2>1, <2>2 DEF Happened, StoredCalls
<1>2. \A i \in 1..Len(t) : i \in I <=> i \in J
  <2>1. \A i \in 1..Len(t) : t[i] \in Happened
    OBVIOUS
  <2> QED BY <1>1, <2>1
<1>3. ToolCalls(t) = Picked(t, I) /\ Keep(t, StoredCalls) = Picked(t, J)
  BY DEF ToolCalls, Select, Keep
<1> HIDE DEF I, J
<1>4. Picked(t, I) = Picked(t, J)
  BY <1>2, PickedSame
<1>5. Keep(t, StoredCalls) \in Seq(Happened \cap StoredCalls)
  BY KeepIn
<1>6. Happened \cap StoredCalls = StoredCalls
  BY DEF Happened, StoredCalls
<1> QED BY <1>3, <1>4, <1>5, <1>6

\* The calls of both lanes are tool events.
LEMMA ChoicesTyped == ASSUME IInv PROVE p \in Seq(StoredCalls) /\ s \in Seq(StoredCalls)
BY StoredFacts, ToolCallsKept DEF p, s

\* What is compared at a node.
LEMMA StepsAtNode ==
  ASSUME IInv, NEW n \in StoredNames
  PROVE  /\ Steps \in Seq(StepOf(StoredCalls, StoredNames))
         /\ Keep(Steps, OnNode(StoredCalls, StoredNames, n)) = Paired(n, Visits(p, n), Visits(s, n))
         /\ Visits(p, n) \in Seq(StoredCalls) /\ Visits(s, n) \in Seq(StoredCalls)
<1>1. \A e \in StoredCalls : e.node \in StoredNames
  BY StoredFacts
<1>2. p \in Seq(StoredCalls) /\ s \in Seq(StoredCalls)
  BY ChoicesTyped
<1> QED BY <1>1, <1>2, AlignedAtNode, VisitsKept DEF Steps, AlignedAt

\* Every call is compared: at each node, the steps hold the visits of both.
LEMMA ComparedHolds == IInv => EveryCallCompared
<1> SUFFICES ASSUME IInv, NEW n \in StoredNames
             PROVE  LET at == Select(Steps, LAMBDA st : st.node = n)
                        side(f) == Select([i \in DOMAIN at |-> at[i][f]], LAMBDA c : c # None)
                    IN  side("a") = Visits(p, n) /\ side("b") = Visits(s, n)
  BY DEF EveryCallCompared, DivergenceReport, Steps, p, s
<1> DEFINE T == StoredCalls
           N == StoredNames
           at == Select(Steps, LAMBDA st : st.node = n)
           va == Visits(p, n)
           vb == Visits(s, n)
           m == Max({Len(va), Len(vb)})
           I == {i \in DOMAIN Steps : Steps[i].node = n}
           J == {i \in DOMAIN Steps : Steps[i] \in OnNode(T, N, n)}
<1>1. /\ Steps \in Seq(StepOf(T, N)) /\ Keep(Steps, OnNode(T, N, n)) = Paired(n, va, vb)
      /\ va \in Seq(T) /\ vb \in Seq(T)
  BY StepsAtNode
<1>2. at = Paired(n, va, vb)
  <2>1. \A i \in 1..Len(Steps) : i \in I <=> i \in J
    BY <1>1 DEF OnNode
  <2>2. at = Picked(Steps, I) /\ Keep(Steps, OnNode(T, N, n)) = Picked(Steps, J)
    BY DEF Select, Keep
  <2> HIDE DEF I, J
  <2>3. Picked(Steps, I) = Picked(Steps, J)
    BY <1>1, <2>1, PickedSame
  <2> QED BY <1>1, <2>2, <2>3
<1>3. m \in Nat /\ Len(va) <= m /\ Len(vb) <= m
  <2>1. Len(va) \in Nat /\ Len(vb) \in Nat
    BY <1>1
  <2> QED BY <2>1, MaxOfTwo
<1>4. at = [k \in 1..m |-> [node |-> n, a |-> CallAt(va, k), b |-> CallAt(vb, k)]]
  BY <1>2 DEF Paired
<1> HIDE DEF at, m, va, vb
<1>5. [i \in DOMAIN at |-> at[i]["a"]] = [k \in 1..m |-> CallAt(va, k)]
  BY <1>4
<1>6. [i \in DOMAIN at |-> at[i]["b"]] = [k \in 1..m |-> CallAt(vb, k)]
  BY <1>4
<1>7. ASSUME NEW v \in Seq(T), Len(v) <= m
      PROVE  Select([k \in 1..m |-> CallAt(v, k)], LAMBDA c : c # None) = v
  <2> DEFINE w == [k \in 1..m |-> CallAt(v, k)]
             K == {i \in DOMAIN w : w[i] # None}
             L == {i \in DOMAIN w : w[i] \in T}
  <2>1. None \notin T
    BY StoredFacts
  <2>2. w \in Seq(T \cup {None}) /\ Keep(w, T) = v
    BY <1>3, <1>7, <2>1, CallsAtKept
  <2> HIDE DEF w
  <2>3. \A i \in 1..Len(w) : i \in K <=> i \in L
    BY <2>1, <2>2
  <2>4. Select(w, LAMBDA c : c # None) = Picked(w, K) /\ Keep(w, T) = Picked(w, L)
    BY DEF Select, Keep
  <2> HIDE DEF K, L
  <2>5. Picked(w, K) = Picked(w, L)
    BY <2>2, <2>3, PickedSame
  <2>6. Select(w, LAMBDA c : c # None) = v
    BY <2>2, <2>4, <2>5
  <2> QED BY <2>6 DEF w
<1>8. Select([i \in DOMAIN at |-> at[i]["a"]], LAMBDA c : c # None) = va
  BY <1>1, <1>3, <1>5, <1>7
<1>9. Select([i \in DOMAIN at |-> at[i]["b"]], LAMBDA c : c # None) = vb
  BY <1>1, <1>3, <1>6, <1>7
<1> QED BY <1>8, <1>9 DEF at, va, vb

\* _aligned_steps (amc/analysis/selection.py) loses no call of either lane,
\* repeats none and keeps their order at every node, whatever the lanes did.
THEOREM AllCompared == Spec => []EveryCallCompared
BY Invariance, ComparedHolds, PTL

-----------------------------------------------------------------------------
(* Divergence.                                                               *)

\* The k-th step at node n.
StepAt(n, k) == [node |-> n, a |-> CallAt(Visits(p, n), k), b |-> CallAt(Visits(s, n), k)]

Longer(n) == IF Len(Visits(p, n)) >= Len(Visits(s, n)) THEN Len(Visits(p, n)) ELSE Len(Visits(s, n))

\* The steps of the report are the steps of the nodes.
LEMMA StepsAre ==
  ASSUME IInv
  PROVE  /\ \A n \in StoredNames :
              /\ Visits(p, n) \in Seq(StoredCalls) /\ Visits(s, n) \in Seq(StoredCalls)
              /\ Longer(n) \in Nat
         /\ \A st : st \in ToSet(Steps) <=> \E n \in StoredNames : \E k \in 1..Longer(n) : st = StepAt(n, k)
<1>1. p \in Seq(StoredCalls) /\ s \in Seq(StoredCalls) /\ \A e \in StoredCalls : e.node \in StoredNames
  BY ChoicesTyped, StoredFacts
<1>2. ASSUME NEW n
      PROVE  /\ Visits(p, n) \in Seq(StoredCalls) /\ Visits(s, n) \in Seq(StoredCalls)
             /\ Longer(n) \in Nat
             /\ Paired(n, Visits(p, n), Visits(s, n)) = [k \in 1..Longer(n) |-> StepAt(n, k)]
  <2>1. Visits(p, n) \in Seq(StoredCalls) /\ Visits(s, n) \in Seq(StoredCalls)
    BY <1>1, VisitsKept
  <2>2. Len(Visits(p, n)) \in Nat /\ Len(Visits(s, n)) \in Nat
    BY <2>1
  <2>3. Longer(n) = Max({Len(Visits(p, n)), Len(Visits(s, n))})
    BY <2>2, MaxOfTwo DEF Longer
  <2> QED BY <2>1, <2>2, <2>3 DEF Paired, StepAt, Longer
<1>3. ASSUME NEW st
      PROVE  st \in ToSet(Steps) <=> \E n \in StoredNames : \E k \in 1..Longer(n) : st = StepAt(n, k)
  <2>1. st \in ToSet(Steps) <=>
          \E n \in StoredNames : \E k \in 1..Len(Paired(n, Visits(p, n), Visits(s, n))) :
            st = Paired(n, Visits(p, n), Visits(s, n))[k]
    BY <1>1, StepIsPaired DEF Steps, PairsVisits
  <2>2. ASSUME NEW n
        PROVE  /\ Len(Paired(n, Visits(p, n), Visits(s, n))) = Longer(n)
               /\ \A k \in 1..Longer(n) : Paired(n, Visits(p, n), Visits(s, n))[k] = StepAt(n, k)
    BY <1>2
  <2> QED BY <2>1, <2>2
<1> QED BY <1>2, <1>3

\* The lanes chose differently at a node if and only if a step there differs.
LEMMA ApartAtNode ==
  ASSUME IInv, NEW n \in StoredNames
  PROVE  Names(Visits(p, n)) # Names(Visits(s, n)) <=> \E k \in 1..Longer(n) : Differs(StepAt(n, k))
<1> DEFINE va == Visits(p, n)
           vb == Visits(s, n)
           T == StoredCalls
<1>1. va \in Seq(T) /\ vb \in Seq(T) /\ \A e \in T : e # None /\ e.tool \in Tools /\ e.tool # None
  BY StepsAre, StoredFacts, NoneElsewhere
<1>2. Len(va) \in Nat /\ Len(vb) \in Nat /\ DOMAIN va = 1..Len(va) /\ DOMAIN vb = 1..Len(vb)
      /\ Longer(n) = IF Len(va) >= Len(vb) THEN Len(va) ELSE Len(vb)
  BY <1>1 DEF Longer
<1>3. \A k : Differs(StepAt(n, k)) <=> ToolOf(CallAt(va, k)) # ToolOf(CallAt(vb, k))
  BY DEF Differs, StepAt
<1> HIDE DEF va, vb, T
<1>4. Len(va) \in Nat /\ Len(vb) \in Nat
      /\ Longer(n) = IF Len(va) >= Len(vb) THEN Len(va) ELSE Len(vb)
  BY <1>2
<1>5. ASSUME NEW v \in Seq(T), NEW k \in Nat
      PROVE  /\ k \in 1..Len(v) => v[k] \in T /\ ToolOf(CallAt(v, k)) = v[k].tool /\ v[k].tool # None
             /\ k \notin 1..Len(v) => ToolOf(CallAt(v, k)) = None
  BY <1>1 DEF ToolOf, CallAt
<1>6. CASE Len(va) = Len(vb)
  <2>1. Longer(n) = Len(va)
    BY <1>2, <1>6
  <2>2. \A k \in 1..Len(va) : k \in Nat /\ ToolOf(CallAt(va, k)) = va[k].tool /\ ToolOf(CallAt(vb, k)) = vb[k].tool
    BY <1>1, <1>2, <1>5, <1>6
  <2>3. Names(va) = Names(vb) <=> \A k \in 1..Len(va) : va[k].tool = vb[k].tool
    BY <1>2, <1>6 DEF Names
  <2> QED BY <1>3, <2>1, <2>2, <2>3 DEF va, vb
<1>7. CASE Len(va) > Len(vb)
  <2>1. Longer(n) = Len(va) /\ Len(va) \in 1..Longer(n) /\ Len(va) \notin 1..Len(vb)
    BY <1>4, <1>7
  <2>2. ToolOf(CallAt(va, Len(va))) # ToolOf(CallAt(vb, Len(va)))
    BY <1>1, <1>2, <1>5, <2>1
  <2>3. DOMAIN Names(va) # DOMAIN Names(vb)
    BY <1>2, <2>1 DEF Names
  <2> QED BY <1>3, <2>1, <2>2, <2>3 DEF va, vb
<1>8. CASE Len(vb) > Len(va)
  <2>1. Longer(n) = Len(vb) /\ Len(vb) \in 1..Longer(n) /\ Len(vb) \notin 1..Len(va)
    BY <1>4, <1>8
  <2>2. ToolOf(CallAt(va, Len(vb))) # ToolOf(CallAt(vb, Len(vb)))
    BY <1>1, <1>2, <1>5, <2>1
  <2>3. DOMAIN Names(va) # DOMAIN Names(vb)
    BY <1>2, <2>1 DEF Names
  <2> QED BY <1>3, <2>1, <2>2, <2>3 DEF va, vb
<1>9. Len(va) = Len(vb) \/ Len(va) > Len(vb) \/ Len(vb) > Len(va)
  BY <1>4
<1> QED BY <1>6, <1>7, <1>8, <1>9

\* The step reported as the point of divergence.
LEMMA PointOfDivergence ==
  ASSUME IInv
  PROVE  DivergenceStep(p, s) = 0 <=> \A st \in ToSet(Steps) : ~Differs(st)
<1> DEFINE D == {i \in DOMAIN Steps : Differs(Steps[i])}
<1>1. DivergenceStep(p, s) = IF D = {} THEN 0 ELSE Min(D)
  BY DEF DivergenceStep, Steps
<1>2. p \in Seq(StoredCalls) /\ s \in Seq(StoredCalls) /\ \A e \in StoredCalls : e.node \in StoredNames
  BY ChoicesTyped, StoredFacts
<1>3. Steps \in Seq(StepOf(StoredCalls, StoredNames))
  BY <1>2, AlignedType DEF Steps
<1>4. D \subseteq Nat /\ 0 \notin D
  BY <1>3
<1>5. D # {} => Min(D) \in D
  <2> HIDE DEF D
  <2>1. D # {} => \E m \in D : \A i \in D : m <= i
    BY <1>4, Least
  <2> QED BY <2>1 DEF Min
<1>6. D = {} <=> \A st \in ToSet(Steps) : ~Differs(st)
  BY DEF ToSet
<1> HIDE DEF D
<1> QED BY <1>1, <1>4, <1>5, <1>6

\* A lane's calls at a node are its visits of the name stored for it, if that name is
\* no other node's.
LEMMA VisitsAreAt ==
  ASSUME NodesTold, NEW c \in Seq(StoredCalls), NEW n \in Nodes
  PROVE  Select(c, LAMBDA e : e.at = n) = Visits(c, stored[n])
<1> DEFINE I == {i \in DOMAIN c : c[i].at = n}
           J == {i \in DOMAIN c : c[i].node = stored[n]}
<1>1. \A i \in 1..Len(c) : c[i] \in StoredCalls
  OBVIOUS
<1>2. \A i \in 1..Len(c) : i \in I <=> i \in J
  BY <1>1 DEF StoredCalls, NodesTold
<1>3. Select(c, LAMBDA e : e.at = n) = Picked(c, I) /\ Visits(c, stored[n]) = Picked(c, J)
  BY DEF Select, Visits
<1> HIDE DEF I, J
<1> QED BY <1>2, <1>3, PickedSame

\* So a difference is reported where the choices at a node differ.
LEMMA DivergesHolds == IInv => DivergesWhereNodesDiffer
<1> SUFFICES ASSUME IInv
             PROVE  LET apart == {n \in StoredNames : Names(Visits(p, n)) # Names(Visits(s, n))}
                    IN  /\ DivergenceStep(p, s) = 0 <=> apart = {}
                        /\ {Steps[i].node : i \in {k \in DOMAIN Steps : Differs(Steps[k])}} = apart
                        /\ NodesTold => (DivergenceStep(p, s) = 0 <=> \A n \in Nodes : AlikeAt(n))
  BY DEF DivergesWhereNodesDiffer, DivergenceReport, Steps, p, s
<1> DEFINE apart == {n \in StoredNames : Names(Visits(p, n)) # Names(Visits(s, n))}
           found == {Steps[i].node : i \in {k \in DOMAIN Steps : Differs(Steps[k])}}
<1>1. \A n : n \in found <=> \E st \in ToSet(Steps) : Differs(st) /\ st.node = n
  BY DEF ToSet
<1>2. \A n : (\E st \in ToSet(Steps) : Differs(st) /\ st.node = n)
               <=> n \in StoredNames /\ \E k \in 1..Longer(n) : Differs(StepAt(n, k))
  <2>1. \A n, k : StepAt(n, k).node = n
    BY DEF StepAt
  <2> QED BY <2>1, StepsAre
<1>3. \A n : n \in apart <=> n \in StoredNames /\ \E k \in 1..Longer(n) : Differs(StepAt(n, k))
  BY ApartAtNode
<1> HIDE DEF apart, found
<1>4. found = apart
  BY <1>1, <1>2, <1>3
<1>5. DivergenceStep(p, s) = 0 <=> apart = {}
  BY <1>1, <1>4, PointOfDivergence
<1>6. NodesTold => \A n \in Nodes : AlikeAt(n) <=> Names(Visits(p, stored[n])) = Names(Visits(s, stored[n]))
  BY ChoicesTyped, VisitsAreAt DEF AlikeAt
<1>7. apart = {} <=> \A n \in Nodes : Names(Visits(p, stored[n])) = Names(Visits(s, stored[n]))
  BY DEF apart, StoredNames
<1>8. NodesTold => (DivergenceStep(p, s) = 0 <=> \A n \in Nodes : AlikeAt(n))
  BY <1>5, <1>6, <1>7
<1> QED BY <1>4, <1>5, <1>8 DEF apart, found

\* describe_divergence reports a divergence if and only if the lanes chose differently
\* under some stored node name, whatever was called under others; if the names stored tell
\* the nodes apart, if and only if they chose differently at some node, however parallel
\* nodes were scheduled.
THEOREM DivergesRight == Spec => []DivergesWhereNodesDiffer
BY Invariance, DivergesHolds, PTL

-----------------------------------------------------------------------------
(* Argument mismatches.                                                      *)

\* Intervals from 1 are equal if their ends are.
LEMMA SameLength == ASSUME NEW m \in Nat, NEW n \in Nat, 1..m = 1..n PROVE m = n
<1>1. m # 0 => m \in 1..n
  OBVIOUS
<1>2. n # 0 => n \in 1..m
  OBVIOUS
<1> QED BY <1>1, <1>2

\* Steps at which both lanes called one tool, with different arguments.
Mismatched(st) == None \notin {st.a, st.b} /\ ~Differs(st) /\ Canon[st.a.args] # Canon[st.b.args]

\* argument_match lists something if and only if some step pairs one tool
\* with different arguments.
LEMMA MismatchesAre ==
  ASSUME IInv
  PROVE  Mismatches(p, s) = <<>> <=> \A st \in ToSet(Steps) : ~Mismatched(st)
<1> DEFINE S == StepOf(StoredCalls, StoredNames)
           CG == {st \in S : None \notin {st.a, st.b} /\ ~Differs(st)}
           MG == {st \in S : Canon[st.a.args] # Canon[st.b.args]}
           I == {i \in DOMAIN Steps : None \notin {Steps[i].a, Steps[i].b} /\ ~Differs(Steps[i])}
           J == {i \in DOMAIN Steps : Steps[i] \in CG}
<1>1. p \in Seq(StoredCalls) /\ s \in Seq(StoredCalls) /\ \A e \in StoredCalls : e.node \in StoredNames
  BY ChoicesTyped, StoredFacts
<1>2. Steps \in Seq(S)
  BY <1>1, AlignedType DEF Steps
<1>3. Comparable(p, s) = Keep(Steps, CG)
  <2>1. \A i \in 1..Len(Steps) : i \in I <=> i \in J
    BY <1>2
  <2>2. Comparable(p, s) = Picked(Steps, I) /\ Keep(Steps, CG) = Picked(Steps, J)
    BY DEF Comparable, Select, Keep, Steps
  <2> HIDE DEF I, J, CG, S
  <2>3. Picked(Steps, I) = Picked(Steps, J)
    BY <1>2, <2>1, PickedSame
  <2> QED BY <2>2, <2>3
<1> DEFINE C == Comparable(p, s)
           K == {i \in DOMAIN C : Canon[C[i].a.args] # Canon[C[i].b.args]}
           L == {i \in DOMAIN C : C[i] \in MG}
<1>4. C \in Seq(S)
  BY <1>2, <1>3, KeepType
<1>5. Mismatches(p, s) = Keep(C, MG)
  <2>1. Mismatches(p, s) = Picked(C, K) /\ Keep(C, MG) = Picked(C, L)
    BY DEF Mismatches, Select, Keep
  <2> HIDE DEF C
  <2>2. \A i \in 1..Len(C) : i \in K <=> i \in L
    BY <1>4
  <2> HIDE DEF K, L, MG, S
  <2>3. Picked(C, K) = Picked(C, L)
    BY <1>4, <2>2, PickedSame
  <2> QED BY <2>1, <2>3
<1>6. Mismatches(p, s) = Keep(Steps, CG \cap MG) /\ Mismatches(p, s) \in Seq(S)
  <2> HIDE DEF C, CG, MG, S
  <2>1. C = Keep(Steps, CG)
    BY <1>3 DEF C
  <2>2. Keep(Keep(Steps, CG), MG) = Keep(Steps, CG \cap MG)
    BY <1>2, KeepKeep
  <2> QED BY <1>2, <1>5, <2>1, <2>2, KeepType
<1>7. ToSet(Mismatches(p, s)) = ToSet(Steps) \cap (CG \cap MG)
  <2> HIDE DEF CG, MG, S
  <2> QED BY <1>2, <1>6, KeepRange
<1>8. Mismatches(p, s) = <<>> <=> ToSet(Mismatches(p, s)) = {}
  <2> DEFINE m == Mismatches(p, s)
  <2>1. m \in Seq(S)
    BY <1>6
  <2> HIDE DEF m, S
  <2>2. m = <<>> <=> Len(m) = 0
    BY <2>1, EmptySeq
  <2>3. Len(m) \in Nat /\ DOMAIN m = 1..Len(m)
    BY <2>1
  <2>4. Len(m) = 0 <=> ToSet(m) = {}
    <3>1. Len(m) = 0 => DOMAIN m = {}
      BY <2>3
    <3>2. Len(m) # 0 => 1 \in DOMAIN m
      BY <2>3
    <3> QED BY <3>1, <3>2 DEF ToSet
  <2> QED BY <2>2, <2>4 DEF m
<1>9. \A st \in ToSet(Steps) : st \in S
  BY <1>2 DEF ToSet
<1> QED BY <1>7, <1>8, <1>9 DEF Mismatched

\* At a node the lanes made the same calls up to spelling if and only if no step
\* there differs or is a mismatch.
LEMMA SameKeysAtNode ==
  ASSUME IInv, NEW n \in StoredNames
  PROVE  [i \in DOMAIN Visits(p, n) |-> Key(Visits(p, n)[i])]
           = [i \in DOMAIN Visits(s, n) |-> Key(Visits(s, n)[i])]
         <=> \A k \in 1..Longer(n) : ~Differs(StepAt(n, k)) /\ ~Mismatched(StepAt(n, k))
<1> DEFINE va == Visits(p, n)
           vb == Visits(s, n)
           T == StoredCalls
           ka == [i \in DOMAIN va |-> Key(va[i])]
           kb == [i \in DOMAIN vb |-> Key(vb[i])]
<1>1. va \in Seq(T) /\ vb \in Seq(T) /\ \A e \in T : e # None
  BY StepsAre, StoredFacts
<1>2. Len(va) \in Nat /\ Len(vb) \in Nat /\ DOMAIN va = 1..Len(va) /\ DOMAIN vb = 1..Len(vb)
  BY <1>1
<1>3. Names(va) # Names(vb) <=> \E k \in 1..Longer(n) : Differs(StepAt(n, k))
  BY ApartAtNode
<1>4. Longer(n) = IF Len(va) >= Len(vb) THEN Len(va) ELSE Len(vb)
  BY DEF Longer
<1>5. \A k : StepAt(n, k).a = CallAt(va, k) /\ StepAt(n, k).b = CallAt(vb, k)
  BY DEF StepAt
<1> HIDE DEF va, vb, T
<1>6. ka = kb => Names(va) = Names(vb)
  <2>1. SUFFICES ASSUME ka = kb PROVE Names(va) = Names(vb)
    OBVIOUS
  <2>2. DOMAIN va = DOMAIN vb
    BY <2>1
  <2>3. ASSUME NEW i \in DOMAIN va PROVE va[i].tool = vb[i].tool
    <3>1. Key(va[i]) = Key(vb[i])
      BY <2>1, <2>2
    <3> QED BY <3>1 DEF Key
  <2> QED BY <2>2, <2>3 DEF Names
<1>7. ASSUME Names(va) = Names(vb)
      PROVE  ka = kb <=> \A k \in 1..Longer(n) : ~Mismatched(StepAt(n, k))
  <2>1. DOMAIN va = DOMAIN vb /\ \A i \in DOMAIN va : va[i].tool = vb[i].tool
    BY <1>7 DEF Names
  <2>2. Longer(n) = Len(va) /\ Len(va) = Len(vb)
    <3>1. 1..Len(va) = 1..Len(vb)
      BY <1>2, <2>1
    <3>2. Len(va) = Len(vb)
      BY <1>2, <3>1, SameLength
    <3> QED BY <1>2, <1>4, <3>2
  <2>3. ASSUME NEW k \in 1..Longer(n)
        PROVE  Mismatched(StepAt(n, k)) <=> Canon[va[k].args] # Canon[vb[k].args]
    <3>1. k \in DOMAIN va /\ k \in DOMAIN vb
      BY <1>2, <2>2
    <3>2. StepAt(n, k).a = va[k] /\ StepAt(n, k).b = vb[k]
      BY <1>5, <3>1 DEF CallAt
    <3>3. va[k] # None /\ vb[k] # None
      BY <1>1, <3>1
    <3>4. ~Differs(StepAt(n, k))
      BY <1>3, <1>7
    <3> QED BY <3>2, <3>3, <3>4 DEF Mismatched
  <2>4. ka = kb <=> \A k \in DOMAIN va : Key(va[k]) = Key(vb[k])
    BY <2>1
  <2>5. \A k \in DOMAIN va : Key(va[k]) = Key(vb[k]) <=> Canon[va[k].args] = Canon[vb[k].args]
    BY <2>1 DEF Key
  <2>6. DOMAIN va = 1..Longer(n)
    BY <1>2, <2>2
  <2> QED BY <2>3, <2>4, <2>5, <2>6
<1>8. ka = kb <=> \A k \in 1..Longer(n) : ~Differs(StepAt(n, k)) /\ ~Mismatched(StepAt(n, k))
  BY <1>3, <1>6, <1>7
<1> QED BY <1>8 DEF va, vb

\* So a clean report means the same calls, and conversely.
LEMMA CleanHolds == IInv => CleanMeansSameCalls
<1> SUFFICES ASSUME IInv
             PROVE  LET keys(lane) == [i \in DOMAIN lane |-> Key(lane[i])]
                    IN  DivergenceStep(p, s) = 0 /\ Mismatches(p, s) = <<>> <=>
                          \A n \in StoredNames : keys(Visits(p, n)) = keys(Visits(s, n))
  BY DEF CleanMeansSameCalls, DivergenceReport, p, s
<1>1. DivergenceStep(p, s) = 0 /\ Mismatches(p, s) = <<>> <=>
        \A st \in ToSet(Steps) : ~Differs(st) /\ ~Mismatched(st)
  BY PointOfDivergence, MismatchesAre
<1>2. (\A st \in ToSet(Steps) : ~Differs(st) /\ ~Mismatched(st)) <=>
        \A n \in StoredNames : \A k \in 1..Longer(n) : ~Differs(StepAt(n, k)) /\ ~Mismatched(StepAt(n, k))
  BY StepsAre
<1>3. \A n \in StoredNames :
        [i \in DOMAIN Visits(p, n) |-> Key(Visits(p, n)[i])]
           = [i \in DOMAIN Visits(s, n) |-> Key(Visits(s, n)[i])]
         <=> \A k \in 1..Longer(n) : ~Differs(StepAt(n, k)) /\ ~Mismatched(StepAt(n, k))
  BY SameKeysAtNode
<1> QED BY <1>1, <1>2, <1>3

\* A report without divergence and without argument mismatch is made exactly of
\* two lanes that made the same calls at every node up to the spelling of arguments.
THEOREM CleanIsRight == Spec => []CleanMeansSameCalls
BY Invariance, CleanHolds, PTL

-----------------------------------------------------------------------------
(* Reports of lanes that still run.                                          *)

\* u begins with t.
Extends(t, u) == Len(t) <= Len(u) /\ \A k \in 1..Len(t) : u[k] = t[k]

\* What two lanes did differently stays, whatever else they do.
LEMMA SettledGrow ==
  ASSUME NEW T, NEW N, \A e \in T : e.node \in N, None \notin T,
         NEW a \in Seq(T), NEW b \in Seq(T), NEW c \in Seq(T), NEW d \in Seq(T),
         \A n \in N : Extends(Visits(a, n), Visits(c, n)) /\ Extends(Visits(b, n), Visits(d, n))
  PROVE  SettledDifferences(a, b) \subseteq SettledDifferences(c, d)
<1> SUFFICES ASSUME NEW st \in SettledDifferences(a, b) PROVE st \in SettledDifferences(c, d)
  OBVIOUS
<1>1. st \in ToSet(Aligned(a, b)) /\ Differs(st) /\ None \notin {st.a, st.b}
  BY DEF SettledDifferences
<1>2. PICK n \in N : \E k \in 1..Len(Paired(n, Visits(a, n), Visits(b, n))) :
                       st = Paired(n, Visits(a, n), Visits(b, n))[k]
  <2>1. st \in ToSet(Aligned(a, b)) <=> PairsVisits(N, a, b, st)
    BY StepIsPaired
  <2> QED BY <1>1, <2>1 DEF PairsVisits
<1> DEFINE va == Visits(a, n)
           vb == Visits(b, n)
           vc == Visits(c, n)
           vd == Visits(d, n)
<1>3. va \in Seq(T) /\ vb \in Seq(T) /\ vc \in Seq(T) /\ vd \in Seq(T)
  BY VisitsKept
<1>4. Extends(va, vc) /\ Extends(vb, vd)
  OBVIOUS
<1>5. st \in ToSet(Aligned(c, d)) <=> PairsVisits(N, c, d, st)
  BY StepIsPaired
<1>6. PICK k \in 1..Len(Paired(n, va, vb)) : st = Paired(n, va, vb)[k]
  BY <1>2
<1>7. (\E i \in 1..Len(Paired(n, vc, vd)) : st = Paired(n, vc, vd)[i]) => st \in ToSet(Aligned(c, d))
  BY <1>5 DEF PairsVisits
<1> HIDE DEF va, vb, vc, vd
<1>8. st = [node |-> n, a |-> CallAt(va, k), b |-> CallAt(vb, k)] /\ k \in Nat
  <2>1. \A i \in 1..Len(Paired(n, va, vb)) : Paired(n, va, vb)[i] = [node |-> n, a |-> CallAt(va, i), b |-> CallAt(vb, i)]
    BY <1>3, PairedIs
  <2> QED BY <1>6, <2>1
<1>9. k \in 1..Len(va) /\ k \in 1..Len(vb)
  BY <1>1, <1>3, <1>8 DEF CallAt
<1>10. k \in 1..Len(vc) /\ k \in 1..Len(vd) /\ vc[k] = va[k] /\ vd[k] = vb[k]
  BY <1>3, <1>4, <1>9 DEF Extends
<1>11. st = [node |-> n, a |-> CallAt(vc, k), b |-> CallAt(vd, k)]
  BY <1>3, <1>8, <1>9, <1>10 DEF CallAt
<1>12. /\ Len(Paired(n, vc, vd)) = IF Len(vc) >= Len(vd) THEN Len(vc) ELSE Len(vd)
       /\ \A i \in 1..Len(Paired(n, vc, vd)) : Paired(n, vc, vd)[i] = [node |-> n, a |-> CallAt(vc, i), b |-> CallAt(vd, i)]
  BY <1>3, PairedIs
<1>13. Len(vc) \in Nat /\ Len(vd) \in Nat
  BY <1>3
<1>14. k \in 1..Len(Paired(n, vc, vd))
  BY <1>10, <1>12, <1>13
<1>15. st \in ToSet(Aligned(c, d))
  BY <1>7, <1>11, <1>12, <1>14
<1> QED BY <1>1, <1>15 DEF SettledDifferences

\* The visits of a node only grow while a lane runs.
LEMMA VisitsExtend ==
  ASSUME NEW t \in Seq(Happened), NEW u, u = t \/ \E e \in Happened : u = Append(t, e)
  PROVE  /\ u \in Seq(Happened)
         /\ \A n : Extends(Visits(ToolCalls(t), n), Visits(ToolCalls(u), n))
<1>1. u \in Seq(Happened)
  BY AppendProperties
<1>2. ASSUME NEW E, NEW v \in Seq(E), NEW e, NEW w, w = v \/ (w = Append(v, e) /\ e \in E)
      PROVE  Extends(v, w) /\ w \in Seq(E)
  <2>1. Len(v) \in Nat
    OBVIOUS
  <2>2. CASE w = v
    BY <2>1, <2>2 DEF Extends
  <2>3. CASE w = Append(v, e) /\ e \in E
    BY <2>1, <2>3, AppendProperties DEF Extends
  <2> QED BY <1>2, <2>2, <2>3
<1>3. ASSUME NEW n PROVE Extends(Visits(ToolCalls(t), n), Visits(ToolCalls(u), n))
  <2>1. CASE u = t
    <3>1. Visits(ToolCalls(t), n) \in Seq(StoredCalls)
      BY ToolCallsKept, VisitsKept
    <3> QED BY <1>2, <2>1, <3>1
  <2>2. CASE \E e \in Happened : u = Append(t, e)
    <3>1. PICK e \in Happened : u = Append(t, e)
      BY <2>2
    <3>2. ToolCalls(u) = IF e \in StoredCalls THEN Append(ToolCalls(t), e) ELSE ToolCalls(t)
      <4>1. ToolCalls(u) = Keep(u, StoredCalls) /\ ToolCalls(t) = Keep(t, StoredCalls)
        BY <1>1, ToolCallsKept
      <4>2. Keep(Append(t, e), StoredCalls) = IF e \in StoredCalls THEN Append(Keep(t, StoredCalls), e) ELSE Keep(t, StoredCalls)
        BY KeepAppend
      <4> QED BY <3>1, <4>1, <4>2
    <3>3. ToolCalls(t) \in Seq(StoredCalls)
      BY ToolCallsKept
    <3> DEFINE v == ToolCalls(t)
               G == At(StoredCalls, n)
    <3>4. Visits(v, n) = Keep(v, G) /\ Visits(v, n) \in Seq(StoredCalls)
      BY <3>3, VisitsKept
    <3>5. CASE e \notin StoredCalls
      <4>1. ToolCalls(u) = ToolCalls(t)
        BY <3>2, <3>5
      <4> QED BY <1>2, <3>4, <4>1
    <3>6. CASE e \in StoredCalls
      <4>1. Append(v, e) \in Seq(StoredCalls) /\ ToolCalls(u) = Append(v, e)
        BY <3>2, <3>3, <3>6, AppendProperties
      <4>2. Visits(Append(v, e), n) = Keep(Append(v, e), G)
        BY <4>1, VisitsKept
      <4>3. Keep(Append(v, e), G) = IF e \in G THEN Append(Keep(v, G), e) ELSE Keep(v, G)
        BY <3>3, <3>6, KeepAppend
      <4> HIDE DEF v, G
      <4>4. Visits(ToolCalls(u), n) = Visits(v, n) \/ (Visits(ToolCalls(u), n) = Append(Visits(v, n), e) /\ e \in StoredCalls)
        BY <3>4, <3>6, <4>1, <4>2, <4>3
      <4>5. Extends(Visits(v, n), Visits(ToolCalls(u), n))
        BY <1>2, <3>4, <4>4
      <4> QED BY <4>5 DEF v
    <3> QED BY <3>5, <3>6
  <2> QED BY <2>1, <2>2
<1> QED BY <1>1, <1>3

\* A step of a lane leaves every settled difference in the report.
LEMMA SettledStep ==
  ASSUME IInv, Next, NEW now, now = run'
  PROVE  SettledDifferences(p, s)
           \subseteq SettledDifferences(ToolCalls(now.primary), ToolCalls(now.shadow))
<1>1. PICK l \in TwoLanes, e \in Happened : Appends(l, e)
  BY NextAppends
<1>2. now = [run EXCEPT ![l] = Append(@, e)] /\ run \in [TwoLanes -> Seq(Happened)]
  BY <1>1 DEF Appends, IInv
<1>3. ASSUME NEW k \in TwoLanes
      PROVE  run[k] \in Seq(Happened) /\ (now[k] = run[k] \/ \E x \in Happened : now[k] = Append(run[k], x))
  BY <1>2
<1>4. ASSUME NEW k \in TwoLanes
      PROVE  /\ now[k] \in Seq(Happened)
             /\ \A n : Extends(Visits(ToolCalls(run[k]), n), Visits(ToolCalls(now[k]), n))
  <2>1. run[k] \in Seq(Happened) /\ (now[k] = run[k] \/ \E x \in Happened : now[k] = Append(run[k], x))
    BY <1>3
  <2> QED BY <2>1, VisitsExtend
<1>5. "primary" \in TwoLanes /\ "shadow" \in TwoLanes
  BY DEF TwoLanes
<1> DEFINE c == ToolCalls(now.primary)
           d == ToolCalls(now.shadow)
<1>6. /\ \A n \in StoredNames : Extends(Visits(p, n), Visits(c, n)) /\ Extends(Visits(s, n), Visits(d, n))
      /\ now.primary \in Seq(Happened) /\ now.shadow \in Seq(Happened)
  BY <1>4, <1>5 DEF p, s
<1>7. c \in Seq(StoredCalls) /\ d \in Seq(StoredCalls) /\ p \in Seq(StoredCalls) /\ s \in Seq(StoredCalls)
  BY <1>6, ToolCallsKept, ChoicesTyped
<1>8. None \notin StoredCalls /\ \A x \in StoredCalls : x.node \in StoredNames
  BY StoredFacts
<1> HIDE DEF c, d
<1>9. SettledDifferences(p, s) \subseteq SettledDifferences(c, d)
  BY <1>6, <1>7, <1>8, SettledGrow
<1> QED BY <1>9 DEF c, d

\* A report made while a lane still runs never retracts a difference between two
\* calls both lanes have made.
THEOREM DifferencesStay == Spec => DifferencesAreSettled
<1>1. IInv /\ [Next]_vars =>
        [\A now \in {run'} :
           SettledDifferences(p, s)
             \subseteq SettledDifferences(ToolCalls(now.primary), ToolCalls(now.shadow))]_vars
  BY SettledStep
<1> QED BY <1>1, Invariance, PTL DEF Spec, DifferencesAreSettled

-----------------------------------------------------------------------------
(* The verdict on a lane.                                                    *)

\* The events of a lane that are of kind g, and how they end.
Ended(did) == {e \in Happened : e.did = did}

\* The counts of summarise are counts of how the calls ended.
LEMMA CountsOfLane ==
  ASSUME NEW t \in Seq(Happened)
  PROVE  /\ \A did \in {"ran", "substituted", "refused", "raised"} :
              Cardinality({i \in DOMAIN t : t[i].did = did}) = Count(t, Ended(did)) /\ Count(t, Ended(did)) \in Nat
         /\ Summary(t).calls = Count(t, StoredCalls) /\ Count(t, StoredCalls) \in Nat
         /\ Summary(t).real = Count(t, Ended("ran"))
<1>1. ASSUME NEW e \in Happened
      PROVE  /\ IsTool(e) <=> e \in StoredCalls
             /\ IsTool(e) /\ ~e.blocked /\ e.source = "real" <=> e \in Ended("ran")
  <2>1. CASE e \in StoredCalls
    BY <2>1, CallFields, NoneElsewhere DEF StoredCalls, Ended, Invented
  <2>2. CASE e \in AskedWith(sdk)
    <3>1. ~IsTool(e) /\ e.did = "asked"
      BY <2>2, AskedFields
    <3>2. e \notin StoredCalls
      BY <3>1, CallFields DEF StoredCalls
    <3> QED BY <3>1, <3>2 DEF Ended
  <2> QED BY <2>1, <2>2 DEF Happened, StoredCalls
<1>2. \A G : Count(t, G) \in Nat
  <2>1. SUFFICES ASSUME NEW G PROVE Count(t, G) \in Nat
    OBVIOUS
  <2>2. Count(t, G) \in 0..Len(t)
    BY CountType
  <2> QED BY <2>2
<1>3. \A i \in DOMAIN t : t[i] \in Happened
  OBVIOUS
<1>4. ASSUME NEW did PROVE Cardinality({i \in DOMAIN t : t[i].did = did}) = Count(t, Ended(did))
  <2>1. {i \in DOMAIN t : t[i].did = did} = {i \in DOMAIN t : t[i] \in Ended(did)}
    BY <1>3 DEF Ended
  <2> QED BY <2>1 DEF Count
<1>5. Summary(t).calls = Count(t, StoredCalls)
  <2>1. {i \in DOMAIN t : IsTool(t[i])} = {i \in DOMAIN t : t[i] \in StoredCalls}
    BY <1>1, <1>3
  <2>2. Summary(t).calls = Cardinality({i \in DOMAIN t : IsTool(t[i])})
    BY DEF Summary, Number
  <2> QED BY <2>1, <2>2 DEF Count
<1>6. Summary(t).real = Count(t, Ended("ran"))
  <2>1. {i \in DOMAIN t : IsTool(t[i]) /\ ~t[i].blocked /\ t[i].source = "real"}
          = {i \in DOMAIN t : t[i] \in Ended("ran")}
    BY <1>1, <1>3
  <2>2. Summary(t).real = Cardinality({i \in DOMAIN t : IsTool(t[i]) /\ ~t[i].blocked /\ t[i].source = "real"})
    BY DEF Summary, Number
  <2> QED BY <2>1, <2>2 DEF Count
<1> QED BY <1>2, <1>4, <1>5, <1>6

\* Every tool call ended in one of four ways.
LEMMA CallsAddUp ==
  \A t \in Seq(Happened) :
    Count(t, StoredCalls) = Count(t, Ended("ran")) + Count(t, Ended("substituted"))
                              + Count(t, Ended("refused")) + Count(t, Ended("raised"))
<1> DEFINE Sums(u) == Count(u, StoredCalls) = Count(u, Ended("ran")) + Count(u, Ended("substituted"))
                              + Count(u, Ended("refused")) + Count(u, Ended("raised"))
           P == {u \in Seq(Happened) : Sums(u)}
<1>1. <<>> \in P
  BY CountEmpty, EmptySeq
<1>2. ASSUME NEW u \in Seq(Happened), NEW e \in Happened, u \in P PROVE Append(u, e) \in P
  <2>1. ASSUME NEW G
        PROVE  /\ Count(u, G) \in Nat
               /\ e \in G => Count(Append(u, e), G) = Count(u, G) + 1
               /\ e \notin G => Count(Append(u, e), G) = Count(u, G)
    <3>1. Count(u, G) \in 0..Len(u)
      BY CountType
    <3>2. Count(Append(u, e), G) = IF e \in G THEN Count(u, G) + 1 ELSE Count(u, G)
      BY CountAppend
    <3> QED BY <3>1, <3>2
  <2>2. Append(u, e) \in Seq(Happened) /\ Sums(u)
    BY <1>2, AppendProperties
  <2> DEFINE did == e.did
             more(d) == IF did = d THEN 1 ELSE 0
             v == Append(u, e)
  <2>3. ASSUME NEW d
        PROVE  Count(u, Ended(d)) \in Nat /\ Count(v, Ended(d)) = Count(u, Ended(d)) + more(d)
    <3>1. e \in Ended(d) <=> did = d
      BY DEF Ended
    <3> QED BY <2>1, <3>1
  <2>4. CASE e \in StoredCalls
    <3>1. did \in {"ran", "substituted", "refused", "raised"}
      BY <2>4, CallFields DEF StoredCalls
    <3>2. more("ran") + more("substituted") + more("refused") + more("raised") = 1
      <4> HIDE DEF did
      <4> QED BY <3>1
    <3>3. Count(v, StoredCalls) = Count(u, StoredCalls) + 1
      BY <2>1, <2>4
    <3>4. more("ran") \in Nat /\ more("substituted") \in Nat /\ more("refused") \in Nat /\ more("raised") \in Nat
      OBVIOUS
    <3> HIDE DEF more, did, v
    <3> DEFINE a == Count(u, Ended("ran"))
               b == Count(u, Ended("substituted"))
               c == Count(u, Ended("refused"))
               d == Count(u, Ended("raised"))
    <3>5. /\ a \in Nat /\ Count(v, Ended("ran")) = a + more("ran")
          /\ b \in Nat /\ Count(v, Ended("substituted")) = b + more("substituted")
          /\ c \in Nat /\ Count(v, Ended("refused")) = c + more("refused")
          /\ d \in Nat /\ Count(v, Ended("raised")) = d + more("raised")
      BY <2>3
    <3>6. Count(u, StoredCalls) = a + b + c + d
      BY <2>2
    <3> HIDE DEF a, b, c, d
    <3>7. (a + b + c + d) + 1
            = (a + more("ran")) + (b + more("substituted")) + (c + more("refused")) + (d + more("raised"))
      <4>1. a \in Nat /\ b \in Nat /\ c \in Nat /\ d \in Nat
        BY <3>5
      <4> DEFINE x == more("ran")
                 y == more("substituted")
                 z == more("refused")
                 w == more("raised")
      <4>2. x \in Nat /\ y \in Nat /\ z \in Nat /\ w \in Nat /\ x + y + z + w = 1
        BY <3>2, <3>4
      <4> HIDE DEF x, y, z, w
      <4>3. (a + b + c + d) + 1 = (a + x) + (b + y) + (c + z) + (d + w)
        BY <4>1, <4>2
      <4> QED BY <4>3 DEF x, y, z, w
    <3>8. Sums(v)
      BY <3>3, <3>5, <3>6, <3>7
    <3> QED BY <2>2, <3>8 DEF v
  <2>5. CASE e \notin StoredCalls
    <3>1. did = "asked"
      BY <2>5, AskedFields DEF Happened, StoredCalls
    <3>2. more("ran") = 0 /\ more("substituted") = 0 /\ more("refused") = 0 /\ more("raised") = 0
      BY <3>1
    <3>3. Count(v, StoredCalls) = Count(u, StoredCalls)
      BY <2>1, <2>5
    <3> HIDE DEF more, did, v
    <3>4. Sums(v)
      BY <2>1, <2>2, <2>3, <3>2, <3>3
    <3> QED BY <2>2, <3>4 DEF v
  <2> QED BY <2>4, <2>5
<1> HIDE DEF P
<1>3. \A u \in Seq(Happened) : u \in P
  BY <1>1, <1>2, SeqInd
<1> QED BY <1>3 DEF P

\* The shadow is marked if and only if its drift reached the threshold, and the
\* events up to the mark have just that drift.
LEMMA MarkMeansDrifted ==
  ASSUME IInv
  PROVE  /\ mark # 0 <=> Number(run.shadow, Ungrounded) >= Threshold
         /\ mark # 0 => LET valid == SubSeq(run.shadow, 1, mark)
                        IN  Number(valid, Ungrounded) = Threshold /\ Ungrounded(Last(valid))
<1> DEFINE t == run.shadow
<1>1. RightMark(t, mark) /\ Threshold \in Nat /\ t \in Seq(Happened)
  BY ReportAssumption, StoredFacts DEF IInv
<1>2. Number(t, Ungrounded) \in Nat /\ IsFiniteSet({i \in DOMAIN t : Ungrounded(t[i])})
  <2>1. IsFiniteSet(1..Len(t))
    BY <1>1, FS_Interval
  <2>2. {i \in DOMAIN t : Ungrounded(t[i])} \subseteq 1..Len(t)
    BY <1>1
  <2> HIDE DEF t
  <2>3. IsFiniteSet({i \in DOMAIN t : Ungrounded(t[i])})
    BY <2>1, <2>2, FS_Subset
  <2> QED BY <2>3, FS_CardinalityType DEF Number
<1>3. mark = 0 => ~(Number(t, Ungrounded) >= Threshold)
  <2> HIDE DEF t
  <2> QED BY <1>1, <1>2 DEF RightMark
<1>4. ASSUME mark # 0
      PROVE  /\ Number(t, Ungrounded) >= Threshold
             /\ LET valid == SubSeq(t, 1, mark)
                IN  Number(valid, Ungrounded) = Threshold /\ Ungrounded(Last(valid))
  <2> HIDE DEF t
  <2>1. /\ mark \in 1..Len(t) /\ Cardinality({i \in 1..mark : Ungrounded(t[i])}) = Threshold
        /\ Ungrounded(t[mark])
    BY <1>1, <1>4 DEF RightMark
  <2>2. {i \in 1..mark : Ungrounded(t[i])} \subseteq {i \in DOMAIN t : Ungrounded(t[i])}
    BY <1>1, <2>1
  <2>3. Cardinality({i \in 1..mark : Ungrounded(t[i])}) <= Number(t, Ungrounded)
    BY <1>2, <2>2, FS_Subset DEF Number
  <2> DEFINE valid == SubSeq(t, 1, mark)
  <2>4. Len(valid) = mark /\ DOMAIN valid = 1..mark /\ \A i \in 1..mark : valid[i] = t[i]
    BY <1>1, <2>1
  <2> HIDE DEF valid
  <2>5. {i \in DOMAIN valid : Ungrounded(valid[i])} = {i \in 1..mark : Ungrounded(t[i])}
    BY <2>4
  <2>6. Number(valid, Ungrounded) = Threshold
    BY <2>1, <2>5 DEF Number
  <2>7. Ungrounded(Last(valid))
    BY <2>1, <2>4 DEF Last
  <2>8. Number(t, Ungrounded) >= Threshold
    BY <1>1, <1>2, <2>1, <2>3
  <2> QED BY <2>6, <2>7, <2>8 DEF valid
<1> QED BY <1>3, <1>4

\* So the verdict follows from what was executed.
LEMMA VerdictHolds == IInv => VerdictFollowsExecution
<1> SUFFICES ASSUME IInv PROVE VerdictFollowsExecution
  OBVIOUS
<1>1. ASSUME NEW l \in TwoLanes
      PROVE  LET drifted == l = "shadow" /\ Number(run.shadow, Ungrounded) >= Threshold
                 unreal == Did(l, "substituted") + Did(l, "refused")
                 mostly(n) == n > Did(l, "ran")
                 excluded == LaneReport(l).excluded
             IN  /\ drifted \/ mostly(unreal) => excluded
                 /\ excluded /\ Did(l, "refused") = 0 => drifted \/ mostly(unreal + Did(l, "raised"))
  <2> DEFINE t == run[l]
             drifted == l = "shadow" /\ Number(run.shadow, Ungrounded) >= Threshold
             excluded == LaneReport(l).excluded
             ran == Count(t, Ended("ran"))
             sub == Count(t, Ended("substituted"))
             ref == Count(t, Ended("refused"))
             rai == Count(t, Ended("raised"))
             few == Summary(t).calls > 0 /\ 2 * Summary(t).real < Summary(t).calls
  <2>1. t \in Seq(Happened)
    BY StoredFacts
  <2>2. excluded <=> drifted \/ few
    <3>1. excluded <=> (IF l = "shadow" THEN mark ELSE 0) # 0 \/ few
      BY DEF LaneReport, LowFidelity
    <3>2. (IF l = "shadow" THEN mark ELSE 0) # 0 <=> drifted
      BY MarkMeansDrifted
    <3> QED BY <3>1, <3>2
  <2>3. /\ Did(l, "ran") = ran /\ Did(l, "substituted") = sub /\ Did(l, "refused") = ref /\ Did(l, "raised") = rai
        /\ ran \in Nat /\ sub \in Nat /\ ref \in Nat /\ rai \in Nat
        /\ Summary(t).real = ran /\ Summary(t).calls = ran + sub + ref + rai
    <3> HIDE DEF t
    <3>1. /\ \A did \in {"ran", "substituted", "refused", "raised"} :
              Cardinality({i \in DOMAIN t : t[i].did = did}) = Count(t, Ended(did)) /\ Count(t, Ended(did)) \in Nat
          /\ Summary(t).calls = Count(t, StoredCalls) /\ Summary(t).real = Count(t, Ended("ran"))
      BY <2>1, CountsOfLane
    <3>2. Count(t, StoredCalls) = ran + sub + ref + rai
      BY <2>1, CallsAddUp
    <3>3. \A did : Did(l, did) = Cardinality({i \in DOMAIN t : t[i].did = did})
      BY DEF Did, Number, t
    <3>4. ASSUME NEW did \in {"ran", "substituted", "refused", "raised"}
          PROVE  Did(l, did) = Count(t, Ended(did)) /\ Count(t, Ended(did)) \in Nat
      BY <3>1, <3>3
    <3>5. /\ Did(l, "ran") = ran /\ ran \in Nat
          /\ Did(l, "substituted") = sub /\ sub \in Nat
          /\ Did(l, "refused") = ref /\ ref \in Nat
          /\ Did(l, "raised") = rai /\ rai \in Nat
      BY <3>4
    <3>6. Summary(t).real = ran /\ Summary(t).calls = ran + sub + ref + rai
      BY <3>1, <3>2
    <3> QED BY <3>5, <3>6
  <2> HIDE DEF t, ran, sub, ref, rai
  <2>4. few <=> sub + ref + rai > ran
    BY <2>3
  <2> HIDE DEF few, drifted, excluded
  <2>5. excluded => drifted \/ sub + ref + rai > ran
    BY <2>2, <2>4
  <2>6. sub + ref > ran => sub + ref + rai > ran
    BY <2>3
  <2>7. drifted \/ sub + ref > ran => excluded
    BY <2>2, <2>4, <2>6
  <2> QED BY <2>3, <2>5, <2>7 DEF drifted, excluded
<1> QED BY <1>1, MarkMeansDrifted DEF VerdictFollowsExecution

\* is_low_fidelity excludes a lane that drifted or most of whose calls were answered
\* without executing them, and a lane without a refused call for nothing less, a call that
\* raised counting as not executed; contaminated_at_step is the event with which the drift
\* reached the threshold.
THEOREM VerdictRight == Spec => []VerdictFollowsExecution
BY Invariance, VerdictHolds, PTL

-----------------------------------------------------------------------------
(* The measures of agreement.                                                *)

\* Calls of one tool, and of one tool at the nodes in W.
Of(T, x) == {e \in T : e.tool = x}
OfAt(T, x, W) == {e \in T : e.tool = x /\ e.node \in W}

\* The uses of a tool are a count.
LEMMA UsesCounted ==
  ASSUME NEW T, NEW t \in Seq(T), NEW x
  PROVE  Uses(t, x) = Count(t, Of(T, x)) /\ Uses(t, x) \in 0..Len(t)
<1>1. {i \in DOMAIN t : t[i].tool = x} = {i \in DOMAIN t : t[i] \in Of(T, x)}
  BY DEF Of
<1>2. Uses(t, x) = Count(t, Of(T, x))
  BY <1>1 DEF Uses, Count
<1> QED BY <1>2, CountType

\* A call appended is one more copy of its tool.
LEMMA CopiesAppend ==
  ASSUME NEW T, \A e \in T : e.tool \in Tools, NEW t \in Seq(T), NEW e \in T
  PROVE  /\ Copies(Append(t, e)) = Copies(t) \cup {<<e.tool, Uses(t, e.tool) + 1>>}
         /\ <<e.tool, Uses(t, e.tool) + 1>> \notin Copies(t)
<1> DEFINE u == Append(t, e)
           c == <<e.tool, Uses(t, e.tool) + 1>>
<1>1. u \in Seq(T) /\ Len(u) = Len(t) + 1 /\ Len(t) \in Nat
  BY AppendProperties
<1>2. ASSUME NEW x
      PROVE  /\ Uses(t, x) \in 0..Len(t)
             /\ Uses(u, x) = IF e.tool = x THEN Uses(t, x) + 1 ELSE Uses(t, x)
  <2>1. Uses(t, x) = Count(t, Of(T, x)) /\ Uses(t, x) \in 0..Len(t)
    BY UsesCounted
  <2>2. Uses(u, x) = Count(u, Of(T, x))
    BY <1>1, UsesCounted
  <2>3. Count(u, Of(T, x)) = IF e \in Of(T, x) THEN Count(t, Of(T, x)) + 1 ELSE Count(t, Of(T, x))
    BY CountAppend
  <2>4. e \in Of(T, x) <=> e.tool = x
    BY DEF Of
  <2> QED BY <2>1, <2>2, <2>3, <2>4
<1> HIDE DEF u
<1>3. ASSUME NEW x \in Tools, NEW k
      PROVE  <<x, k>> \in Copies(u) <=> <<x, k>> \in Copies(t) \/ (x = e.tool /\ k = Uses(t, x) + 1)
  <2>1. <<x, k>> \in Copies(u) <=> k \in 1..Len(u) /\ k <= Uses(u, x)
    BY DEF Copies
  <2>2. <<x, k>> \in Copies(t) <=> k \in 1..Len(t) /\ k <= Uses(t, x)
    BY DEF Copies
  <2>3. Uses(t, x) \in 0..Len(t) /\ Uses(u, x) = IF e.tool = x THEN Uses(t, x) + 1 ELSE Uses(t, x)
    BY <1>2
  <2> QED BY <1>1, <2>1, <2>2, <2>3
<1>4. ASSUME NEW d PROVE d \in Copies(u) <=> d \in Copies(t) \cup {c}
  <2>1. ASSUME d \in Copies(u) PROVE d \in Copies(t) \cup {c}
    <3>1. PICK x \in Tools, k \in 1..Len(u) : d = <<x, k>>
      BY <2>1 DEF Copies
    <3> QED BY <1>3, <2>1, <3>1
  <2>2. ASSUME d \in Copies(t) \cup {c} PROVE d \in Copies(u)
    <3>1. CASE d \in Copies(t)
      <4>1. PICK x \in Tools, k \in 1..Len(t) : d = <<x, k>>
        BY <3>1 DEF Copies
      <4> QED BY <1>3, <3>1, <4>1
    <3>2. CASE d = c
      BY <1>3, <3>2
    <3> QED BY <2>2, <3>1, <3>2
  <2> QED BY <2>1, <2>2
<1>5. c \notin Copies(t)
  <2>1. Uses(t, e.tool) \in 0..Len(t)
    BY <1>2
  <2>2. ASSUME c \in Copies(t) PROVE FALSE
    <3>1. Uses(t, e.tool) + 1 <= Uses(t, e.tool)
      BY <2>2 DEF Copies
    <3> QED BY <2>1, <3>1
  <2> QED BY <2>2
<1> QED BY <1>4, <1>5 DEF u

\* As many copies as calls.
LEMMA CopiesSize ==
  ASSUME NEW T, \A e \in T : e.tool \in Tools, NEW t \in Seq(T)
  PROVE  IsFiniteSet(Copies(t)) /\ Cardinality(Copies(t)) = Len(t)
<1> DEFINE P == {u \in Seq(T) : IsFiniteSet(Copies(u)) /\ Cardinality(Copies(u)) = Len(u)}
<1>1. <<>> \in P
  <2>1. Copies(<<>>) = {}
    BY DEF Copies
  <2> QED BY <2>1, FS_EmptySet, EmptySeq
<1>2. ASSUME NEW u \in Seq(T), NEW e \in T, u \in P PROVE Append(u, e) \in P
  <2>1. Append(u, e) \in Seq(T) /\ Len(Append(u, e)) = Len(u) + 1
    BY AppendProperties
  <2> DEFINE c == <<e.tool, Uses(u, e.tool) + 1>>
  <2>2. Copies(Append(u, e)) = Copies(u) \cup {c} /\ c \notin Copies(u)
    BY CopiesAppend
  <2> HIDE DEF c
  <2>3. IsFiniteSet(Copies(u) \cup {c}) /\ Cardinality(Copies(u) \cup {c}) = Cardinality(Copies(u)) + 1
    BY <1>2, <2>2, FS_AddElement
  <2> QED BY <1>2, <2>1, <2>2, <2>3
<1> HIDE DEF P
<1>3. \A u \in Seq(T) : u \in P
  BY <1>1, <1>2, SeqInd
<1> QED BY <1>3 DEF P

\* The subset mode compares the sets of copies.
LEMMA CopiesOrder ==
  ASSUME NEW T, NEW t \in Seq(T), NEW u \in Seq(T)
  PROVE  SubsetMatch(t, u) <=> Copies(t) \subseteq Copies(u)
<1>1. \A x : Uses(t, x) \in 0..Len(t) /\ Uses(u, x) \in 0..Len(u)
  BY UsesCounted
<1>2. Len(t) \in Nat /\ Len(u) \in Nat
  OBVIOUS
<1>3. ASSUME SubsetMatch(t, u), NEW x \in Tools, NEW k \in 1..Len(t), k <= Uses(t, x)
      PROVE  <<x, k>> \in Copies(u)
  <2>1. Uses(t, x) <= Uses(u, x)
    BY <1>3 DEF SubsetMatch
  <2>2. k \in 1..Len(u) /\ k <= Uses(u, x)
    BY <1>1, <1>2, <1>3, <2>1
  <2> QED BY <2>2 DEF Copies
<1>4. ASSUME Copies(t) \subseteq Copies(u), NEW x \in Tools PROVE Uses(t, x) <= Uses(u, x)
  <2>1. CASE Uses(t, x) = 0
    BY <1>1, <1>2, <2>1
  <2>2. CASE Uses(t, x) # 0
    <3>1. Uses(t, x) \in 1..Len(t) /\ Uses(t, x) <= Uses(t, x)
      BY <1>1, <1>2, <2>2
    <3>2. <<x, Uses(t, x)>> \in Copies(u)
      BY <1>4, <3>1 DEF Copies
    <3> QED BY <3>2 DEF Copies
  <2> QED BY <2>1, <2>2
<1>5. SubsetMatch(t, u) => Copies(t) \subseteq Copies(u)
  BY <1>3 DEF Copies
<1> QED BY <1>4, <1>5 DEF SubsetMatch

\* A lane's calls of a tool are those at the nodes of one set and those at another.
LEMMA CountSplit ==
  ASSUME NEW E, NEW t \in Seq(E), NEW G, NEW H, G \cap H = {}
  PROVE  Count(t, G \cup H) = Count(t, G) + Count(t, H)
<1> DEFINE A == {i \in DOMAIN t : t[i] \in G}
           B == {i \in DOMAIN t : t[i] \in H}
<1>1. IsFiniteSet(A) /\ IsFiniteSet(B)
  BY CountType
<1>2. {i \in DOMAIN t : t[i] \in G \cup H} = A \cup B /\ A \cap B = {}
  OBVIOUS
<1>3. Cardinality(A) \in Nat /\ Cardinality(B) \in Nat
  BY <1>1, FS_CardinalityType
<1>4. Count(t, G \cup H) = Cardinality(A \cup B) /\ Count(t, G) = Cardinality(A) /\ Count(t, H) = Cardinality(B)
  BY <1>2 DEF Count
<1> HIDE DEF A, B
<1>5. Cardinality(A \cup B) = Cardinality(A) + Cardinality(B) - Cardinality(A \cap B)
  BY <1>1, FS_Union
<1>6. Cardinality(A \cap B) = 0
  BY <1>2, FS_EmptySet
<1> QED BY <1>3, <1>5, <1>6, <1>4

\* Both lanes call a tool equally often at each node.
UsedAlike(T, a, b, x) == \A e \in T : Count(a, OfAt(T, x, {e.node})) = Count(b, OfAt(T, x, {e.node}))

\* Lanes that call a tool equally often at each node call it equally often.
LEMMA SameAtNodes ==
  ASSUME NEW T, NEW a \in Seq(T), NEW b \in Seq(T), NEW x, UsedAlike(T, a, b, x)
  PROVE  Uses(a, x) = Uses(b, x)
<1> DEFINE N == {e.node : e \in T}
<1>1. (\A e \in T : e.node \in N) /\ \A n \in N : Count(a, OfAt(T, x, {n})) = Count(b, OfAt(T, x, {n}))
  BY DEF UsedAlike
<1> HIDE DEF N
<1> DEFINE Equal(W) == Count(a, OfAt(T, x, W)) = Count(b, OfAt(T, x, W))
           P == {v \in Seq(N) : Equal(ToSet(v))}
           v == NodesOf(a \o b)
<1>2. <<>> \in P
  <2>1. OfAt(T, x, ToSet(<<>>)) = {}
    BY DEF OfAt, ToSet
  <2>2. Count(a, {}) = 0 /\ Count(b, {}) = 0
    BY FS_EmptySet DEF Count
  <2> QED BY <2>1, <2>2, EmptySeq
<1>3. ASSUME NEW w \in Seq(N), NEW n \in N, w \in P PROVE Append(w, n) \in P
  <2>1. ToSet(Append(w, n)) = ToSet(w) \cup {n} /\ Append(w, n) \in Seq(N)
    BY RangeAppend, AppendProperties
  <2>2. CASE n \in ToSet(w)
    <3>1. ToSet(w) \cup {n} = ToSet(w)
      BY <2>2
    <3> QED BY <1>3, <2>1, <3>1
  <2>3. CASE n \notin ToSet(w)
    <3> DEFINE G == OfAt(T, x, ToSet(w))
               H == OfAt(T, x, {n})
    <3>1. OfAt(T, x, ToSet(w) \cup {n}) = G \cup H /\ G \cap H = {}
      BY <2>3 DEF OfAt
    <3>2. Count(a, G) = Count(b, G) /\ Count(a, H) = Count(b, H)
      BY <1>3, <1>1
    <3> HIDE DEF G, H
    <3>3. Count(a, G \cup H) = Count(a, G) + Count(a, H) /\ Count(b, G \cup H) = Count(b, G) + Count(b, H)
      BY <3>1, CountSplit
    <3>4. Equal(ToSet(w) \cup {n})
      BY <3>1, <3>2, <3>3
    <3> QED BY <2>1, <3>4
  <2> QED BY <2>2, <2>3
<1>4. v \in Seq(N) /\ (\A i \in DOMAIN a : a[i].node \in ToSet(v)) /\ (\A i \in DOMAIN b : b[i].node \in ToSet(v))
  <2>1. /\ a \o b \in Seq(T) /\ Len(a \o b) = Len(a) + Len(b)
        /\ \A i \in 1..Len(a) : (a \o b)[i] = a[i]
        /\ \A i \in 1..Len(b) : (a \o b)[Len(a) + i] = b[i]
    BY ConcatProperties
  <2>2. v = [i \in 1..Len(a \o b) |-> (a \o b)[i].node] /\ Len(a \o b) \in Nat
    BY <2>1 DEF NodesOf
  <2>3. \A i \in 1..Len(a \o b) : (a \o b)[i].node \in N
    BY <1>1, <2>1
  <2> HIDE DEF v
  <2>4. v \in Seq(N) /\ Len(v) = Len(a \o b)
    BY <2>2, <2>3, IsASeq
  <2>5. \A i \in 1..Len(v) : v[i] \in ToSet(v)
    BY <2>4 DEF ToSet
  <2>6. ASSUME NEW i \in DOMAIN a PROVE a[i].node \in ToSet(v)
    <3>1. i \in 1..Len(v) /\ i \in 1..Len(a)
      BY <2>1, <2>4
    <3> QED BY <2>1, <2>2, <2>4, <2>5, <3>1
  <2>7. ASSUME NEW i \in DOMAIN b PROVE b[i].node \in ToSet(v)
    <3>1. Len(a) + i \in 1..Len(v) /\ i \in 1..Len(b)
      BY <2>1, <2>4
    <3> QED BY <2>1, <2>2, <2>4, <2>5, <3>1
  <2> QED BY <2>4, <2>6, <2>7
<1> HIDE DEF P, v
<1>5. \A w \in Seq(N) : w \in P
  BY <1>2, <1>3, SeqInd
<1>6. Equal(ToSet(v))
  BY <1>4, <1>5 DEF P
<1>7. {i \in DOMAIN a : a[i].tool = x} = {i \in DOMAIN a : a[i] \in OfAt(T, x, ToSet(v))}
  BY <1>4 DEF OfAt
<1>8. {i \in DOMAIN b : b[i].tool = x} = {i \in DOMAIN b : b[i] \in OfAt(T, x, ToSet(v))}
  BY <1>4 DEF OfAt
<1> QED BY <1>6, <1>7, <1>8 DEF Uses, Count

\* The calls of a tool at a node are counted alike in the lane and among the visits.
LEMMA UsesAtNode ==
  ASSUME NEW T, NEW t \in Seq(T), NEW n, NEW x
  PROVE  Uses(Visits(t, n), x) = Count(t, OfAt(T, x, {n}))
<1>1. Visits(t, n) = Keep(t, At(T, n)) /\ Visits(t, n) \in Seq(T)
  BY VisitsKept
<1>2. Uses(Visits(t, n), x) = Count(Visits(t, n), Of(T, x))
  BY <1>1, UsesCounted
<1>3. Count(Visits(t, n), Of(T, x)) = Len(Keep(Visits(t, n), Of(T, x)))
  BY <1>1, KeepLen
<1>4. Keep(Keep(t, At(T, n)), Of(T, x)) = Keep(t, At(T, n) \cap Of(T, x))
  BY KeepKeep
<1>5. At(T, n) \cap Of(T, x) = OfAt(T, x, {n})
  BY DEF At, Of, OfAt
<1>6. Len(Keep(t, OfAt(T, x, {n}))) = Count(t, OfAt(T, x, {n}))
  BY KeepLen
<1> QED BY <1>1, <1>2, <1>3, <1>4, <1>5, <1>6

\* Lanes with the same names of tools use each equally often.
LEMMA SameNamesSameUses == \A a, b : Names(a) = Names(b) => \A x : Uses(a, x) = Uses(b, x)
<1> SUFFICES ASSUME NEW a, NEW b, Names(a) = Names(b), NEW x PROVE Uses(a, x) = Uses(b, x)
  OBVIOUS
<1>1. DOMAIN a = DOMAIN b /\ \A i \in DOMAIN a : a[i].tool = b[i].tool
  <2>1. DOMAIN Names(a) = DOMAIN a /\ DOMAIN Names(b) = DOMAIN b
    BY DEF Names
  <2>2. \A i \in DOMAIN a : Names(a)[i] = a[i].tool
    BY DEF Names
  <2>3. \A i \in DOMAIN b : Names(b)[i] = b[i].tool
    BY DEF Names
  <2> QED BY <2>1, <2>2, <2>3
<1>2. {i \in DOMAIN a : a[i].tool = x} = {i \in DOMAIN b : b[i].tool = x}
  BY <1>1
<1> QED BY <1>2 DEF Uses

\* So the measures agree: overlaps of copies are overlaps of uses, and steps that
\* do not differ use each tool equally often at every node.
LEMMA MeasuresHold == IInv => MeasuresAgree
<1> SUFFICES ASSUME IInv
             PROVE  LET m == Match(p, s)
                        point == DivergenceStep(p, s)
                    IN  /\ m.unordered <=> m.subset /\ m.superset
                        /\ m.unordered <=> Shared(p, s) = Union(p, s)
                        /\ m.strict => m.unordered
                        /\ m.subset => OnlyIn(p, s) = {} /\ Shared(p, s) = Len(p)
                        /\ point = 0 => m.unordered
                        /\ StoredNames = {None} => (m.strict <=> point = 0)
  BY DEF MeasuresAgree, DivergenceReport, p, s
<1> DEFINE T == StoredCalls
           m == Match(p, s)
           A == Copies(p)
           B == Copies(s)
<1>1. p \in Seq(T) /\ s \in Seq(T) /\ \A e \in T : e.tool \in Tools /\ e.node \in StoredNames
  BY ChoicesTyped, StoredFacts
<1>2. \A x : Uses(p, x) \in Nat /\ Uses(s, x) \in Nat
  <2>1. \A x : Uses(p, x) \in 0..Len(p) /\ Uses(s, x) \in 0..Len(s)
    BY <1>1, UsesCounted
  <2> QED BY <1>1, <2>1
<1>3. /\ m.strict <=> Names(p) = Names(s)
      /\ m.unordered <=> \A x \in Tools : Uses(p, x) = Uses(s, x)
      /\ m.subset <=> SubsetMatch(p, s)
      /\ m.superset <=> SubsetMatch(s, p)
  BY DEF Match
<1>4. m.unordered <=> m.subset /\ m.superset
  BY <1>2, <1>3 DEF SubsetMatch
<1>5. /\ m.subset <=> A \subseteq B
      /\ m.superset <=> B \subseteq A
      /\ IsFiniteSet(A) /\ IsFiniteSet(B) /\ Cardinality(A) = Len(p)
  BY <1>1, <1>3, CopiesOrder, CopiesSize
<1>6. Shared(p, s) = Cardinality(A \cap B) /\ Union(p, s) = Cardinality(A \cup B)
  BY DEF Shared, Union
<1>7. m.strict => m.unordered
  BY <1>3, SameNamesSameUses
<1> DEFINE point == DivergenceStep(p, s)
<1>8. point = 0 <=> \A n \in StoredNames : Names(Visits(p, n)) = Names(Visits(s, n))
  <2>1. ASSUME NEW n \in StoredNames
        PROVE  Names(Visits(p, n)) = Names(Visits(s, n)) <=> \A k \in 1..Longer(n) : ~Differs(StepAt(n, k))
    BY ApartAtNode
  <2>2. point = 0 <=> \A st \in ToSet(Steps) : ~Differs(st)
    BY PointOfDivergence
  <2>3. (\A st \in ToSet(Steps) : ~Differs(st))
          <=> \A n \in StoredNames : \A k \in 1..Longer(n) : ~Differs(StepAt(n, k))
    BY StepsAre
  <2> QED BY <2>1, <2>2, <2>3
<1>9. point = 0 => m.unordered
  <2>1. SUFFICES ASSUME point = 0, NEW x \in Tools PROVE Uses(p, x) = Uses(s, x)
    BY <1>3
  <2>2. ASSUME NEW n \in StoredNames PROVE Count(p, OfAt(T, x, {n})) = Count(s, OfAt(T, x, {n}))
    <3>1. Uses(Visits(p, n), x) = Uses(Visits(s, n), x)
      BY <1>8, <2>1, SameNamesSameUses
    <3>2. Uses(Visits(p, n), x) = Count(p, OfAt(T, x, {n})) /\ Uses(Visits(s, n), x) = Count(s, OfAt(T, x, {n}))
      BY <1>1, UsesAtNode
    <3> QED BY <3>1, <3>2
  <2>3. UsedAlike(T, p, s, x)
    BY <1>1, <2>2 DEF UsedAlike
  <2> QED BY <1>1, <2>3, SameAtNodes
<1>10. StoredNames = {None} => (m.strict <=> point = 0)
  <2>1. SUFFICES ASSUME StoredNames = {None} PROVE m.strict <=> point = 0
    OBVIOUS
  <2>2. ASSUME NEW t \in Seq(T) PROVE Visits(t, None) = t
    <3>1. \A i \in 1..Len(t) : t[i] \in At(T, None)
      BY <1>1, <2>1 DEF At
    <3>2. Keep(t, At(T, None)) = t
      BY <3>1, KeepAll
    <3> QED BY <3>2, VisitsKept
  <2>3. Visits(p, None) = p /\ Visits(s, None) = s
    BY <1>1, <2>2
  <2> QED BY <1>3, <1>8, <2>1, <2>3
<1>11. m.unordered <=> Shared(p, s) = Union(p, s)
  <2> HIDE DEF A, B, m
  <2>1. IsFiniteSet(A \cup B)
    BY <1>5, FS_Union
  <2>2. Cardinality(A \cup B) = Cardinality(A \cap B) => A \cup B = A \cap B
    BY <2>1, FS_Subset
  <2> QED BY <1>4, <1>5, <1>6, <2>2
<1>12. m.subset => OnlyIn(p, s) = {} /\ Shared(p, s) = Len(p)
  <2>1. SUFFICES ASSUME m.subset PROVE OnlyIn(p, s) = {} /\ Shared(p, s) = Len(p)
    OBVIOUS
  <2>2. OnlyIn(p, s) = {}
    BY <1>2, <1>3, <2>1 DEF OnlyIn, SubsetMatch
  <2>3. A \cap B = A
    BY <1>5, <2>1
  <2> QED BY <1>5, <1>6, <2>2, <2>3
<1> QED BY <1>4, <1>7, <1>9, <1>10, <1>11, <1>12

\* trajectory_match, tool_set_overlap and describe_divergence never contradict each
\* other, whatever the lanes called and whether or not nodes were named.
THEOREM MeasuresAreConsistent == Spec => []MeasuresAgree
BY Invariance, MeasuresHold, PTL

-----------------------------------------------------------------------------
(* What FoldLeft computes, as a sum or as a sorting.                         *)

\* The last position of S, and one step of FoldLeft for the two folds there are: sorting
\* by insertion, or adding.
Upper(S) == CHOOSE m \in S : \A n \in S : m >= n
Start(sorts) == IF sorts THEN <<>> ELSE 0
Fold(sorts, r, v) == IF sorts THEN Inserted(r, v) ELSE r + v
Folded(sorts, ns, f, S) == IF S = {} THEN Start(sorts) ELSE Fold(sorts, f[S \ {Upper(S)}], ns[Upper(S)])

\* f solves the recursion of the fold over N positions.
SolvesFold(sorts, ns, N, f) == f = [S \in SUBSET (1..N) |-> Folded(sorts, ns, f, S)]

\* The last position of an initial part.
LEMMA UpperIs == \A n \in Nat : \A S \in SUBSET (1..n) : n \in S => Upper(S) = n
<1> SUFFICES ASSUME NEW n \in Nat, NEW S \in SUBSET (1..n), n \in S PROVE Upper(S) = n
  OBVIOUS
<1>1. \A k \in S : k \in 1..n
  OBVIOUS
<1>2. \A k \in S : n >= k
  BY <1>1
<1>3. Upper(S) \in S /\ Upper(S) >= n
  BY <1>2 DEF Upper
<1>4. Upper(S) \in 1..n
  BY <1>1, <1>3
<1>5. \A k \in 1..n : k >= n => k = n
  OBVIOUS
<1> QED BY <1>3, <1>4, <1>5

\* The recursion in FoldLeft has a solution, of every length.
LEMMA FoldExists ==
  ASSUME NEW sorts \in BOOLEAN, NEW ns
  PROVE  \A N \in Nat : \E f : SolvesFold(sorts, ns, N, f)
<1> USE DEF SolvesFold
<1> DEFINE Solves(f, N) == SolvesFold(sorts, ns, N, f)
           P == {N \in Nat : \E f : Solves(f, N)}
<1>1. 0 \in P
  <2> DEFINE f == [S \in SUBSET (1..0) |-> Start(sorts)]
  <2>1. \A S \in SUBSET (1..0) : S = {}
    OBVIOUS
  <2>2. Solves(f, 0)
    BY <2>1 DEF Folded
  <2> HIDE DEF f
  <2> QED BY <2>2
<1>2. ASSUME NEW N \in Nat, N \in P PROVE N + 1 \in P
  <2>1. PICK f : Solves(f, N)
    BY <1>2
  <2> DEFINE g == [S \in SUBSET (1..(N + 1)) |-> IF N + 1 \in S THEN Fold(sorts, f[S \ {N + 1}], ns[N + 1]) ELSE f[S]]
  <2>2. ASSUME NEW S \in SUBSET (1..(N + 1)) PROVE g[S] = Folded(sorts, ns, g, S)
    <3>1. ASSUME NEW R \in SUBSET (1..N) PROVE g[R] = f[R]
      OBVIOUS
    <3>2. CASE N + 1 \in S
      <4>1. Upper(S) = N + 1 /\ S # {} /\ S \ {N + 1} \in SUBSET (1..N)
        BY <3>2, UpperIs
      <4>2. g[S \ {N + 1}] = f[S \ {N + 1}]
        BY <3>1, <4>1
      <4>3. g[S] = Fold(sorts, f[S \ {N + 1}], ns[N + 1])
        BY <3>2
      <4> QED BY <4>1, <4>2, <4>3 DEF Folded
    <3>3. CASE N + 1 \notin S
      <4>1. S \in SUBSET (1..N)
        BY <3>3
      <4>2. S \in SUBSET (1..N) /\ S \ {Upper(S)} \in SUBSET (1..N)
        BY <4>1
      <4>3. g[S] = f[S] /\ g[S \ {Upper(S)}] = f[S \ {Upper(S)}]
        BY <3>1, <4>2
      <4>4. f[S] = Folded(sorts, ns, f, S)
        BY <2>1, <4>2
      <4> QED BY <4>3, <4>4 DEF Folded
    <3> QED BY <3>2, <3>3
  <2>3. g = [S \in SUBSET (1..(N + 1)) |-> Folded(sorts, ns, g, S)]
    <3> DEFINE h == [S \in SUBSET (1..(N + 1)) |-> Folded(sorts, ns, g, S)]
    <3>1. \A S \in SUBSET (1..(N + 1)) : g[S] = h[S]
      BY <2>2
    <3>2. DOMAIN g = SUBSET (1..(N + 1)) /\ DOMAIN h = SUBSET (1..(N + 1))
      OBVIOUS
    <3>3. g = [S \in DOMAIN g |-> g[S]] /\ h = [S \in DOMAIN h |-> h[S]]
      OBVIOUS
    <3> HIDE DEF g, h
    <3>4. g = h
      BY <3>1, <3>2, <3>3
    <3> QED BY <3>4 DEF h
  <2> HIDE DEF g
  <2> QED BY <2>3
<1> HIDE DEF P
<1>3. \A N \in Nat : N \in P
  BY <1>1, <1>2, NatInd
<1> QED BY <1>3 DEF P

\* A function that solves the recursion of FoldLeft works through the positions in order.
LEMMA FoldSteps ==
  ASSUME NEW sorts \in BOOLEAN, NEW ns, NEW N \in Nat, NEW f, SolvesFold(sorts, ns, N, f)
  PROVE  f[1..0] = Start(sorts) /\ \A n \in 1..N : f[1..n] = Fold(sorts, f[1..(n - 1)], ns[n])
<1> USE DEF SolvesFold
<1>1. f[1..0] = Start(sorts)
  <2>1. 1..0 \in SUBSET (1..N) /\ 1..0 = {}
    OBVIOUS
  <2> QED BY <2>1 DEF Folded
<1>2. ASSUME NEW n \in 1..N PROVE f[1..n] = Fold(sorts, f[1..(n - 1)], ns[n])
  <2>1. 1..n \in SUBSET (1..N) /\ 1..n # {} /\ n \in 1..n /\ (1..n) \ {n} = 1..(n - 1)
    OBVIOUS
  <2>2. Upper(1..n) = n
    BY <2>1, UpperIs
  <2>3. f[1..n] = Folded(sorts, ns, f, 1..n)
    BY <2>1
  <2> QED BY <2>1, <2>2, <2>3 DEF Folded
<1> QED BY <1>1, <1>2

-----------------------------------------------------------------------------
(* Sums.                                                                     *)

Added(ns, f, S) == IF S = {} THEN 0 ELSE f[S \ {Upper(S)}] + ns[Upper(S)]
Sums(ns) == CHOOSE f : f = [S \in SUBSET DOMAIN ns |-> Added(ns, f, S)]

\* Sum is the last value of the function it defines.
LEMMA SumIs == ASSUME NEW ns PROVE Sum(ns) = Sums(ns)[DOMAIN ns]
BY DEF Sum, FoldLeft, MapThenFoldSet, Sums, Added, Upper, Max

\* So the function in Sum satisfies its recursion.
LEMMA SumSteps ==
  ASSUME NEW ns \in Seq(Nat)
  PROVE  Sums(ns)[1..0] = 0 /\ \A n \in 1..Len(ns) : Sums(ns)[1..n] = Sums(ns)[1..(n - 1)] + ns[n]
<1>1. ASSUME NEW f, NEW S PROVE Added(ns, f, S) = Folded(FALSE, ns, f, S)
  BY DEF Added, Folded, Start, Fold
<1>2. DOMAIN ns = 1..Len(ns) /\ Len(ns) \in Nat
  OBVIOUS
<1>3. ASSUME NEW f
      PROVE  [S \in SUBSET DOMAIN ns |-> Added(ns, f, S)] = [S \in SUBSET (1..Len(ns)) |-> Folded(FALSE, ns, f, S)]
  BY <1>1, <1>2
<1>4. PICK f : SolvesFold(FALSE, ns, Len(ns), f)
  BY <1>2, FoldExists
<1>5. f = [S \in SUBSET DOMAIN ns |-> Added(ns, f, S)]
  BY <1>3, <1>4 DEF SolvesFold
<1>6. Sums(ns) = [S \in SUBSET DOMAIN ns |-> Added(ns, Sums(ns), S)]
  BY <1>5 DEF Sums
<1>7. Sums(ns) = [S \in SUBSET (1..Len(ns)) |-> Folded(FALSE, ns, Sums(ns), S)]
  BY <1>3, <1>6
<1> DEFINE g == Sums(ns)
<1>8. SolvesFold(FALSE, ns, Len(ns), g)
  BY <1>7 DEF SolvesFold
<1> HIDE DEF g
<1>9. g[1..0] = Start(FALSE) /\ \A n \in 1..Len(ns) : g[1..n] = Fold(FALSE, g[1..(n - 1)], ns[n])
  BY <1>2, <1>8, FoldSteps
<1> QED BY <1>9 DEF g, Start, Fold

\* Nothing adds up to 0.
LEMMA SumEmpty == Sum(<<>>) = 0
<1>1. <<>> \in Seq(Nat) /\ DOMAIN <<>> = 1..0
  BY EmptySeq
<1> QED BY <1>1, SumIs, SumSteps

\* Numbers add up to a number.
LEMMA SumType == ASSUME NEW ns \in Seq(Nat) PROVE Sum(ns) \in Nat /\ \A n \in 0..Len(ns) : Sums(ns)[1..n] \in Nat
<1> DEFINE P == {n \in Nat : n <= Len(ns) => Sums(ns)[1..n] \in Nat}
<1>1. 0 \in P
  BY SumSteps
<1>2. ASSUME NEW n \in Nat, n \in P PROVE n + 1 \in P
  <2>1. SUFFICES ASSUME n + 1 <= Len(ns) PROVE Sums(ns)[1..(n + 1)] \in Nat
    OBVIOUS
  <2>2. n + 1 \in 1..Len(ns) /\ (n + 1) - 1 = n /\ n <= Len(ns)
    BY <2>1
  <2>3. Sums(ns)[1..(n + 1)] = Sums(ns)[1..n] + ns[n + 1]
    BY <2>2, SumSteps
  <2>4. ns[n + 1] \in Nat /\ Sums(ns)[1..n] \in Nat
    BY <1>2, <2>2
  <2> QED BY <2>3, <2>4
<1> HIDE DEF P
<1>3. \A n \in Nat : n \in P
  BY <1>1, <1>2, NatInd
<1>4. \A n \in 0..Len(ns) : Sums(ns)[1..n] \in Nat
  BY <1>3 DEF P
<1>5. DOMAIN ns = 1..Len(ns) /\ Len(ns) \in 0..Len(ns)
  OBVIOUS
<1> QED BY <1>4, <1>5, SumIs

\* Equal beginnings have equal sums.
LEMMA SumSame ==
  ASSUME NEW ns \in Seq(Nat), NEW ms \in Seq(Nat), Len(ns) <= Len(ms), \A n \in 1..Len(ns) : ns[n] = ms[n]
  PROVE  Sums(ns)[1..Len(ns)] = Sums(ms)[1..Len(ns)]
<1> DEFINE P == {n \in Nat : n <= Len(ns) => Sums(ns)[1..n] = Sums(ms)[1..n]}
<1>1. 0 \in P
  BY SumSteps
<1>2. ASSUME NEW n \in Nat, n \in P PROVE n + 1 \in P
  <2>1. SUFFICES ASSUME n + 1 <= Len(ns) PROVE Sums(ns)[1..(n + 1)] = Sums(ms)[1..(n + 1)]
    OBVIOUS
  <2>2. n + 1 \in 1..Len(ns) /\ n + 1 \in 1..Len(ms) /\ (n + 1) - 1 = n /\ n <= Len(ns)
    BY <2>1
  <2>3. Sums(ns)[1..(n + 1)] = Sums(ns)[1..n] + ns[n + 1] /\ Sums(ms)[1..(n + 1)] = Sums(ms)[1..n] + ms[n + 1]
    BY <2>2, SumSteps
  <2> QED BY <1>2, <2>2, <2>3
<1> HIDE DEF P
<1>3. \A n \in Nat : n \in P
  BY <1>1, <1>2, NatInd
<1> QED BY <1>3 DEF P

\* A number appended is added.
LEMMA SumAppend == ASSUME NEW ns \in Seq(Nat), NEW v \in Nat PROVE Sum(Append(ns, v)) = Sum(ns) + v
<1> DEFINE ms == Append(ns, v)
<1>1. /\ ms \in Seq(Nat) /\ Len(ms) = Len(ns) + 1 /\ ms[Len(ns) + 1] = v /\ Len(ns) \in Nat
      /\ \A n \in 1..Len(ns) : ms[n] = ns[n]
  BY AppendProperties
<1> HIDE DEF ms
<1>2. DOMAIN ms = 1..(Len(ns) + 1) /\ DOMAIN ns = 1..Len(ns) /\ (Len(ns) + 1) - 1 = Len(ns) /\ Len(ns) + 1 \in 1..Len(ms)
  BY <1>1
<1>3. Sum(ms) = Sums(ms)[1..(Len(ns) + 1)] /\ Sum(ns) = Sums(ns)[1..Len(ns)]
  BY <1>2, SumIs
<1>4. Sums(ms)[1..(Len(ns) + 1)] = Sums(ms)[1..Len(ns)] + v
  BY <1>1, <1>2, SumSteps
<1>5. Sums(ns)[1..Len(ns)] = Sums(ms)[1..Len(ns)]
  BY <1>1, SumSame
<1> QED BY <1>3, <1>4, <1>5 DEF ms

-----------------------------------------------------------------------------
(* Sums of latencies.                                                        *)

\* What an event adds to the latencies, and sets of events whose latencies can be added.
Waited(e) == IF e.latency = None THEN 0 ELSE e.latency
Timeable(E) == \A e \in E : Waited(e) \in Nat

\* Latencies are numbers.
LEMMA WaitsTyped ==
  ASSUME NEW E, NEW t \in Seq(E), Timeable(E)
  PROVE  [i \in DOMAIN t |-> Waited(t[i])] \in Seq(Nat)
<1>1. \A i \in 1..Len(t) : Waited(t[i]) \in Nat
  BY DEF Timeable
<1>2. DOMAIN t = 1..Len(t) /\ Len(t) \in Nat
  OBVIOUS
<1> QED BY <1>1, <1>2, IsASeq

\* No events take no time.
LEMMA TotalEmpty == TotalMs(<<>>) = 0
<1>1. [i \in DOMAIN <<>> |-> IF <<>>[i].latency = None THEN 0 ELSE <<>>[i].latency] = <<>>
  OBVIOUS
<1> QED BY <1>1, SumEmpty DEF TotalMs

\* An event appended adds its latency.
LEMMA TotalAppend ==
  ASSUME NEW E, NEW t \in Seq(E), NEW e \in E, Timeable(E)
  PROVE  TotalMs(Append(t, e)) = TotalMs(t) + Waited(e) /\ TotalMs(t) \in Nat
<1> DEFINE u == Append(t, e)
           ts == [i \in DOMAIN t |-> Waited(t[i])]
           us == [i \in DOMAIN u |-> Waited(u[i])]
<1>1. /\ u \in Seq(E) /\ Len(u) = Len(t) + 1 /\ u[Len(t) + 1] = e /\ Len(t) \in Nat
      /\ \A i \in 1..Len(t) : u[i] = t[i]
  BY AppendProperties
<1>2. TotalMs(t) = Sum(ts) /\ TotalMs(u) = Sum(us)
  BY DEF TotalMs, Waited
<1> HIDE DEF u
<1>3. ts \in Seq(Nat) /\ us \in Seq(Nat) /\ Waited(e) \in Nat
  BY <1>1, WaitsTyped DEF Timeable
<1>4. us = Append(ts, Waited(e))
  <2>1. Len(us) = Len(t) + 1 /\ Len(ts) = Len(t)
    BY <1>1, <1>3
  <2>2. \A i \in 1..Len(t) : us[i] = Waited(t[i]) /\ ts[i] = Waited(t[i])
    BY <1>1
  <2>3. us[Len(t) + 1] = Waited(e)
    BY <1>1
  <2> HIDE DEF us, ts
  <2> DEFINE vs == Append(ts, Waited(e))
  <2>4. vs \in Seq(Nat) /\ Len(vs) = Len(t) + 1 /\ vs[Len(t) + 1] = Waited(e) /\ \A i \in 1..Len(t) : vs[i] = ts[i]
    BY <1>3, <2>1, AppendProperties
  <2> HIDE DEF vs
  <2>5. \A i \in 1..(Len(t) + 1) : us[i] = vs[i]
    BY <1>1, <2>2, <2>3, <2>4
  <2>6. us = vs
    BY <1>3, <2>1, <2>4, <2>5, SeqEqual
  <2> QED BY <2>6 DEF vs
<1> HIDE DEF us, ts
<1>5. Sum(us) = Sum(ts) + Waited(e) /\ Sum(ts) \in Nat
  BY <1>3, <1>4, SumAppend, SumType
<1> QED BY <1>2, <1>5 DEF u

\* The latencies of a lane add up to a number.
LEMMA TotalType == ASSUME NEW E, NEW t \in Seq(E), Timeable(E) PROVE TotalMs(t) \in Nat
<1>1. [i \in DOMAIN t |-> Waited(t[i])] \in Seq(Nat)
  BY WaitsTyped
<1>2. TotalMs(t) = Sum([i \in DOMAIN t |-> Waited(t[i])])
  BY DEF TotalMs, Waited
<1> QED BY <1>1, <1>2, SumType

\* The latencies of a concatenation add up part by part.
LEMMA TotalConcat ==
  ASSUME NEW E, NEW t \in Seq(E), NEW v \in Seq(E), Timeable(E)
  PROVE  TotalMs(t \o v) = TotalMs(t) + TotalMs(v)
<1> DEFINE P == {u \in Seq(E) : TotalMs(t \o u) = TotalMs(t) + TotalMs(u)}
<1>1. <<>> \in P
  <2>1. t \o <<>> = t /\ TotalMs(t) \in Nat
    BY ConcatEmptySeq, TotalType
  <2> QED BY <2>1, TotalEmpty, EmptySeq
<1>2. ASSUME NEW u \in Seq(E), NEW e \in E, u \in P PROVE Append(u, e) \in P
  <2>1. t \o u \in Seq(E) /\ Append(u, e) \in Seq(E)
    BY ConcatProperties, AppendProperties
  <2>2. t \o Append(u, e) = Append(t \o u, e)
    BY <2>1
  <2>3. TotalMs(Append(t \o u, e)) = TotalMs(t \o u) + Waited(e) /\ TotalMs(Append(u, e)) = TotalMs(u) + Waited(e)
    BY <2>1, TotalAppend
  <2>4. TotalMs(t) \in Nat /\ TotalMs(u) \in Nat /\ Waited(e) \in Nat
    BY TotalType DEF Timeable
  <2>5. TotalMs(t \o u) = TotalMs(t) + TotalMs(u)
    BY <1>2
  <2>6. TotalMs(t \o Append(u, e)) = TotalMs(t) + TotalMs(Append(u, e))
    BY <2>2, <2>3, <2>4, <2>5
  <2> QED BY <2>1, <2>6
<1> HIDE DEF P
<1>3. \A u \in Seq(E) : u \in P
  BY <1>1, <1>2, SeqInd
<1> QED BY <1>3 DEF P

\* The latencies of two disjoint sets of events add up.
LEMMA TotalSplit ==
  ASSUME NEW E, NEW t \in Seq(E), Timeable(E), NEW G, NEW H, G \cap H = {}
  PROVE  /\ TotalMs(Keep(t, G \cup H)) = TotalMs(Keep(t, G)) + TotalMs(Keep(t, H))
         /\ TotalMs(Keep(t, G)) \in Nat /\ TotalMs(Keep(t, H)) \in Nat
<1> DEFINE P == {u \in Seq(E) : TotalMs(Keep(u, G \cup H)) = TotalMs(Keep(u, G)) + TotalMs(Keep(u, H))}
<1>1. <<>> \in P
  BY KeepEmpty, TotalEmpty, EmptySeq
<1>2. ASSUME NEW u \in Seq(E), NEW e \in E, u \in P PROVE Append(u, e) \in P
  <2>1. Append(u, e) \in Seq(E)
    BY AppendProperties
  <2>2. ASSUME NEW W
        PROVE  /\ TotalMs(Keep(Append(u, e), W)) = IF e \in W THEN TotalMs(Keep(u, W)) + Waited(e) ELSE TotalMs(Keep(u, W))
               /\ TotalMs(Keep(u, W)) \in Nat
    <3>1. Keep(u, W) \in Seq(E)
      BY KeepType
    <3>2. TotalMs(Append(Keep(u, W), e)) = TotalMs(Keep(u, W)) + Waited(e) /\ TotalMs(Keep(u, W)) \in Nat
      BY <3>1, TotalAppend
    <3>3. Keep(Append(u, e), W) = IF e \in W THEN Append(Keep(u, W), e) ELSE Keep(u, W)
      BY KeepAppend
    <3> QED BY <3>2, <3>3
  <2>3. Waited(e) \in Nat
    BY DEF Timeable
  <2>4. TotalMs(Keep(u, G \cup H)) = TotalMs(Keep(u, G)) + TotalMs(Keep(u, H))
    BY <1>2
  <2> DEFINE T(w, W) == TotalMs(Keep(w, W))
             v == Append(u, e)
  <2>5. /\ T(v, G) = IF e \in G THEN T(u, G) + Waited(e) ELSE T(u, G)
        /\ T(v, H) = IF e \in H THEN T(u, H) + Waited(e) ELSE T(u, H)
        /\ T(v, G \cup H) = IF e \in G \cup H THEN T(u, G \cup H) + Waited(e) ELSE T(u, G \cup H)
        /\ T(u, G) \in Nat /\ T(u, H) \in Nat
    BY <2>2
  <2>6. T(u, G \cup H) = T(u, G) + T(u, H)
    BY <2>4
  <2>7. e \in G => e \notin H
    OBVIOUS
  <2> HIDE DEF T, v
  <2>8. T(v, G \cup H) = T(v, G) + T(v, H)
    BY <2>3, <2>5, <2>6, <2>7
  <2> QED BY <2>1, <2>8 DEF T, v
<1>3. Keep(t, G) \in Seq(E) /\ Keep(t, H) \in Seq(E)
  BY KeepType
<1> HIDE DEF P
<1>4. \A u \in Seq(E) : u \in P
  BY <1>1, <1>2, SeqInd
<1> QED BY <1>4, <1>3, TotalType DEF P

\* Events without a latency add nothing.
LEMMA TotalNothing ==
  ASSUME NEW E, NEW t \in Seq(E), Timeable(E), NEW G, \A e \in E : e \in G => Waited(e) = 0
  PROVE  TotalMs(Keep(t, G)) = 0
<1> DEFINE P == {u \in Seq(E) : TotalMs(Keep(u, G)) = 0}
<1>1. <<>> \in P
  BY KeepEmpty, TotalEmpty, EmptySeq
<1>2. ASSUME NEW u \in Seq(E), NEW e \in E, u \in P PROVE Append(u, e) \in P
  <2>1. Append(u, e) \in Seq(E) /\ Keep(u, G) \in Seq(E)
    BY AppendProperties, KeepType
  <2>2. TotalMs(Append(Keep(u, G), e)) = TotalMs(Keep(u, G)) + Waited(e)
    BY <2>1, TotalAppend
  <2>3. Keep(Append(u, e), G) = IF e \in G THEN Append(Keep(u, G), e) ELSE Keep(u, G)
    BY KeepAppend
  <2>4. TotalMs(Keep(u, G)) = 0
    BY <1>2
  <2>5. TotalMs(Keep(Append(u, e), G)) = 0
    BY <2>2, <2>3, <2>4
  <2> QED BY <2>1, <2>5
<1> HIDE DEF P
<1>3. \A u \in Seq(E) : u \in P
  BY <1>1, <1>2, SeqInd
<1> QED BY <1>3 DEF P

-----------------------------------------------------------------------------
(* The latencies of a lane.                                                  *)

\* Kinds of events, by what their latencies are used for.
Called == {e \in Happened : IsTool(e)}
Asked == {e \in Happened : ~IsTool(e)}
Measured == {e \in Happened : IsMeasured(e)}
Replayed == {e \in Happened : IsSubstituted(e)}
Timed == {e \in Happened : e.latency # None /\ (IsMeasured(e) \/ IsSubstituted(e))}
Untimed == {e \in Happened : e \notin Timed /\ e.did # "raised"}

\* Positions chosen by what is there are a filter.
LEMMA Chosen ==
  ASSUME NEW E, NEW t \in Seq(E), NEW G, NEW I, \A i \in DOMAIN t : i \in I <=> t[i] \in G
  PROVE  Picked(t, I) = Keep(t, G)
<1>1. \A i \in 1..Len(t) : i \in I <=> i \in {j \in DOMAIN t : t[j] \in G}
  OBVIOUS
<1> QED BY <1>1, PickedSame DEF Keep

\* What has a latency is measured or replayed, never both; only tool calls are
\* replayed, a call that raised has neither source, and what is neither timed nor raised
\* has no latency.
LEMMA EventKinds ==
  /\ \A e \in Happened : (e.latency = None \/ e.latency \in Nat) /\ Waited(e) \in Nat
  /\ Timed = Measured \cup Replayed /\ Measured \cap Replayed = {}
  /\ Replayed \subseteq Called
  /\ \A e \in Happened : e \in Ended("raised") => e \notin Timed
  /\ \A e \in Untimed : Waited(e) = 0
<1>1. ASSUME NEW e \in Happened
      PROVE  /\ (e.latency = None \/ e.latency \in Nat) /\ Waited(e) \in Nat
             /\ e.lsource \in {None, "measured", "replayed"}
             /\ e.lsource # None => e.latency # None
             /\ e.lsource = "replayed" => IsTool(e)
             /\ e.did = "raised" => e.lsource = None
             /\ e.did # "raised" /\ e.lsource = None => e.latency = None
  <2>1. Millis \subseteq Nat /\ None \notin Nat /\ None # "measured" /\ None # "replayed"
    BY EventAssumption, NoneElsewhere
  <2>2. CASE e \in StoredCalls
    <3>1. \/ e.did = "refused" /\ e.latency = None /\ e.lsource = None
          \/ e.did = "substituted" /\ \/ e.latency = None /\ e.lsource = None
                                      \/ e.latency \in Millis /\ e.lsource = "replayed"
          \/ e.did = "ran" /\ e.latency \in Millis /\ e.lsource = "measured"
          \/ e.did = "raised" /\ e.latency \in Millis /\ e.lsource = None
      BY <2>2, CallFields DEF StoredCalls
    <3>2. IsTool(e)
      BY <2>2, CallFields DEF StoredCalls
    <3> QED BY <2>1, <3>1, <3>2 DEF Waited
  <2>3. CASE e \in AskedWith(sdk)
    <3>1. e.did = "asked" /\ \/ e.latency = None /\ e.lsource = None
                             \/ e.latency \in Millis /\ e.lsource = "measured"
      BY <2>3, AskedFields
    <3> QED BY <2>1, <3>1 DEF Waited
  <2> QED BY <2>2, <2>3 DEF Happened, StoredCalls
<1>2. None # "measured" /\ None # "replayed"
  BY NoneElsewhere
<1>3. Timed = Measured \cup Replayed
  BY <1>1, <1>2 DEF Timed, Measured, Replayed, IsMeasured, IsSubstituted
<1>4. Measured \cap Replayed = {}
  BY DEF Measured, Replayed, IsMeasured, IsSubstituted
<1>5. Replayed \subseteq Called
  BY <1>1 DEF Replayed, Called, IsSubstituted
<1>6. \A e \in Happened : e \in Ended("raised") => e \notin Timed
  BY <1>1, <1>2 DEF Ended, Timed, IsMeasured, IsSubstituted
<1>7. ASSUME NEW e \in Untimed PROVE Waited(e) = 0
  <2>1. e \in Happened /\ e.did # "raised" /\ e \notin Timed
    BY <1>7 DEF Untimed
  <2>2. e.latency = None
    BY <1>1, <2>1 DEF Timed, IsMeasured, IsSubstituted
  <2> QED BY <2>2 DEF Waited
<1> QED BY <1>1, <1>3, <1>4, <1>5, <1>6, <1>7

\* The parts of a lane that the two modules read are filters of the lane.
LEMMA ProfileKept ==
  ASSUME NEW t \in Seq(Happened)
  PROVE  /\ Profile(t).measured = Keep(t, Measured)
         /\ Profile(t).substituted = Keep(t, Replayed)
         /\ Profile(t).combined = Keep(t, Measured) \o Keep(t, Replayed)
         /\ Profile(t).tool = TotalMs(Keep(t, Timed \cap Called))
         /\ Profile(t).llm = TotalMs(Keep(t, Timed \cap Asked))
         /\ Summary(t).measured = TotalMs(Keep(t, Called \cap Measured))
         /\ Summary(t).substituted = TotalMs(Keep(t, Called \cap Replayed))
<1> DEFINE timed == Select(t, LAMBDA e : e.latency # None /\ (IsMeasured(e) \/ IsSubstituted(e)))
<1>1. timed = Keep(t, Timed)
  <2> DEFINE I == {i \in DOMAIN t : t[i].latency # None /\ (IsMeasured(t[i]) \/ IsSubstituted(t[i]))}
  <2>1. \A i \in DOMAIN t : i \in I <=> t[i] \in Timed
    BY DEF Timed
  <2>2. timed = Picked(t, I)
    BY DEF Select
  <2> HIDE DEF I
  <2> QED BY <2>1, <2>2, Chosen
<1>2. ASSUME NEW u \in Seq(Happened)
      PROVE  /\ Select(u, IsMeasured) = Keep(u, Measured)
             /\ Select(u, IsSubstituted) = Keep(u, Replayed)
             /\ ToolCalls(u) = Keep(u, Called)
             /\ ModelCalls(u) = Keep(u, Asked)
  <2>1. \A i \in DOMAIN u : u[i] \in Happened
    OBVIOUS
  <2>2. {i \in DOMAIN u : IsMeasured(u[i])} = {i \in DOMAIN u : u[i] \in Measured}
    BY <2>1 DEF Measured
  <2>3. {i \in DOMAIN u : IsSubstituted(u[i])} = {i \in DOMAIN u : u[i] \in Replayed}
    BY <2>1 DEF Replayed
  <2>4. {i \in DOMAIN u : IsTool(u[i])} = {i \in DOMAIN u : u[i] \in Called}
    BY <2>1 DEF Called
  <2>5. {i \in DOMAIN u : ~IsTool(u[i])} = {i \in DOMAIN u : u[i] \in Asked}
    BY <2>1 DEF Asked
  <2> QED BY <2>2, <2>3, <2>4, <2>5 DEF Select, Keep, ToolCalls, ModelCalls
<1>3. timed \in Seq(Happened) /\ Keep(t, Called) \in Seq(Happened)
  BY <1>1, KeepType
<1>4. Measured \cap Timed = Measured /\ Replayed \cap Timed = Replayed
      /\ Timed \cap Measured = Measured /\ Timed \cap Replayed = Replayed
  BY EventKinds
<1>5. \A G, H : Keep(Keep(t, G), H) = Keep(t, G \cap H)
  BY KeepKeep
<1> HIDE DEF timed
<1>6. Select(timed, IsMeasured) = Keep(t, Measured) /\ Select(timed, IsSubstituted) = Keep(t, Replayed)
  BY <1>1, <1>2, <1>3, <1>4, <1>5
<1>7. ToolCalls(timed) = Keep(t, Timed \cap Called) /\ ModelCalls(timed) = Keep(t, Timed \cap Asked)
  BY <1>1, <1>2, <1>3, <1>5
<1>8. ToolCalls(t) = Keep(t, Called)
  BY <1>2
<1>9. /\ Select(ToolCalls(t), IsMeasured) = Keep(t, Called \cap Measured)
      /\ Select(ToolCalls(t), IsSubstituted) = Keep(t, Called \cap Replayed)
  BY <1>2, <1>3, <1>5, <1>8
<1>10. /\ Profile(t).measured = Select(timed, IsMeasured)
       /\ Profile(t).substituted = Select(timed, IsSubstituted)
       /\ Profile(t).combined = Select(timed, IsMeasured) \o Select(timed, IsSubstituted)
       /\ Profile(t).tool = TotalMs(ToolCalls(timed)) /\ Profile(t).llm = TotalMs(ModelCalls(timed))
  BY DEF Profile, timed
<1>11. /\ Summary(t).measured = TotalMs(Select(ToolCalls(t), IsMeasured))
       /\ Summary(t).substituted = TotalMs(Select(ToolCalls(t), IsSubstituted))
  BY DEF Summary
<1> QED BY <1>6, <1>7, <1>9, <1>10, <1>11

\* So each latency of a lane is in exactly one of the figures.
LEMMA LatencyHolds == IInv => LatencyAddsUp
<1> SUFFICES ASSUME IInv, NEW l \in TwoLanes
             PROVE  LET t == run[l]
                        raised == TotalMs(Select(t, LAMBDA e : e.did = "raised"))
                    IN  /\ Summary(t).measured + Profile(t).llm = TotalMs(Profile(t).measured)
                        /\ Summary(t).substituted = TotalMs(Profile(t).substituted)
                        /\ Profile(t).tool + Profile(t).llm = TotalMs(Profile(t).combined)
                        /\ TotalMs(t) = TotalMs(Profile(t).combined) + raised
  BY DEF LatencyAddsUp, LaneReport
<1> DEFINE t == run[l]
           T(G) == TotalMs(Keep(t, G))
           rai == Ended("raised")
<1>1. t \in Seq(Happened) /\ Timeable(Happened)
  BY StoredFacts, EventKinds DEF Timeable
<1> HIDE DEF t
<1>2. \A G, H : G \cap H = {} => T(G \cup H) = T(G) + T(H) /\ T(G) \in Nat /\ T(H) \in Nat
  BY <1>1, TotalSplit
<1>3. Called \cap Asked = {} /\ Called \cup Asked = Happened /\ Timed \subseteq Happened
  BY DEF Called, Asked, Timed
<1>4. Timed \cap Asked = Asked \cap Measured /\ Called \cap Replayed = Replayed
  BY EventKinds, <1>3
<1>5. T(Called \cap Measured) + T(Timed \cap Asked) = T(Measured)
  <2>1. (Called \cap Measured) \cup (Asked \cap Measured) = Measured /\ (Called \cap Measured) \cap (Asked \cap Measured) = {}
    BY <1>3 DEF Measured
  <2> QED BY <1>2, <1>4, <2>1
<1>6. T(Timed \cap Called) + T(Timed \cap Asked) = T(Timed)
  <2>1. (Timed \cap Called) \cup (Timed \cap Asked) = Timed /\ (Timed \cap Called) \cap (Timed \cap Asked) = {}
    BY <1>3
  <2> QED BY <1>2, <2>1
<1>7. TotalMs(Keep(t, Measured) \o Keep(t, Replayed)) = T(Timed)
  <2>1. Keep(t, Measured) \in Seq(Happened) /\ Keep(t, Replayed) \in Seq(Happened)
    BY <1>1, KeepType
  <2>2. TotalMs(Keep(t, Measured) \o Keep(t, Replayed)) = T(Measured) + T(Replayed)
    BY <1>1, <2>1, TotalConcat
  <2> QED BY <1>2, <2>2, EventKinds
<1>8. TotalMs(t) = T(Timed) + T(rai)
  <2>1. Happened = (Timed \cup rai) \cup Untimed /\ Timed \cap rai = {} /\ (Timed \cup rai) \cap Untimed = {}
    BY <1>3, EventKinds DEF Ended, Untimed
  <2>2. T(Untimed) = 0
    BY <1>1, EventKinds, TotalNothing
  <2>3. T(Happened) = TotalMs(t)
    <3>1. Keep(t, Happened) = t
      BY <1>1, KeepAll
    <3> QED BY <3>1
  <2>4. T(Timed \cup rai) = T(Timed) + T(rai) /\ T(Timed) \in Nat /\ T(rai) \in Nat
    BY <1>2, <2>1
  <2>5. T((Timed \cup rai) \cup Untimed) = T(Timed \cup rai) + T(Untimed)
    BY <1>2, <2>1
  <2> HIDE DEF T, rai
  <2> QED BY <2>1, <2>2, <2>3, <2>4, <2>5
<1>9. TotalMs(Select(t, LAMBDA e : e.did = "raised")) = T(rai)
  <2> DEFINE I == {i \in DOMAIN t : t[i].did = "raised"}
  <2>1. \A i \in DOMAIN t : i \in I <=> t[i] \in rai
    BY <1>1 DEF Ended
  <2>2. Select(t, LAMBDA e : e.did = "raised") = Picked(t, I)
    BY DEF Select
  <2> HIDE DEF I
  <2> QED BY <1>1, <2>1, <2>2, Chosen
<1>10. /\ Profile(t).measured = Keep(t, Measured)
       /\ Profile(t).substituted = Keep(t, Replayed)
       /\ Profile(t).combined = Keep(t, Measured) \o Keep(t, Replayed)
       /\ Profile(t).tool = T(Timed \cap Called)
       /\ Profile(t).llm = T(Timed \cap Asked)
       /\ Summary(t).measured = T(Called \cap Measured)
       /\ Summary(t).substituted = T(Called \cap Replayed)
  BY <1>1, ProfileKept
<1> QED BY <1>4, <1>5, <1>6, <1>7, <1>8, <1>9, <1>10 DEF t

\* summarise and latency_profile agree on the milliseconds of every
\* lane, count none twice, and leave out exactly the calls that raised.
THEOREM LatencyIsWhole == Spec => []LatencyAddsUp
BY Invariance, LatencyHolds, PTL

-----------------------------------------------------------------------------
(* Order.                                                                    *)

Ordered(t) == \A i, j \in 1..Len(t) : i <= j => t[i] <= t[j]

\* A concatenation is counted part by part.
LEMMA CountConcat ==
  ASSUME NEW E, NEW t \in Seq(E), NEW v \in Seq(E), NEW G
  PROVE  Count(t \o v, G) = Count(t, G) + Count(v, G)
<1>1. t \o v \in Seq(E) /\ Keep(t, G) \in Seq(E) /\ Keep(v, G) \in Seq(E)
  BY ConcatProperties, KeepType
<1>2. Len(Keep(t \o v, G)) = Len(Keep(t, G)) + Len(Keep(v, G))
  BY <1>1, KeepConcat
<1> QED BY <1>1, <1>2, KeepLen

\* What is counted after a filter passes both.
LEMMA CountKeep ==
  ASSUME NEW E, NEW t \in Seq(E), NEW G, NEW H
  PROVE  Count(Keep(t, G), H) = Count(t, G \cap H)
<1>1. Keep(t, G) \in Seq(E)
  BY KeepType
<1> QED BY <1>1, KeepLen, KeepKeep

\* A sequence stays ordered if nothing in it is greater than what is appended.
LEMMA OrderedAppend ==
  ASSUME NEW t \in Seq(Nat), NEW e \in Nat
  PROVE  Ordered(Append(t, e)) <=> Ordered(t) /\ \A w \in ToSet(t) : w <= e
<1> DEFINE u == Append(t, e)
<1>1. Len(u) = Len(t) + 1 /\ u[Len(t) + 1] = e /\ Len(t) \in Nat /\ \A i \in 1..Len(t) : u[i] = t[i]
  BY AppendProperties
<1>2. \A i \in 1..Len(t) : t[i] \in Nat
  OBVIOUS
<1>3. (\A w \in ToSet(t) : w <= e) <=> \A i \in 1..Len(t) : t[i] <= e
  BY DEF ToSet
<1> HIDE DEF u
<1>4. ASSUME Ordered(u) PROVE Ordered(t) /\ \A i \in 1..Len(t) : t[i] <= e
  <2>1. \A i \in 1..Len(t) : i \in 1..Len(u) /\ Len(t) + 1 \in 1..Len(u) /\ i <= Len(t) + 1
    BY <1>1
  <2> QED BY <1>1, <1>4, <2>1 DEF Ordered
<1>5. ASSUME Ordered(t), \A i \in 1..Len(t) : t[i] <= e PROVE Ordered(u)
  <2>1. SUFFICES ASSUME NEW i \in 1..Len(u), NEW j \in 1..Len(u), i <= j PROVE u[i] <= u[j]
    BY DEF Ordered
  <2>2. CASE j = Len(t) + 1
    <3>1. i = Len(t) + 1 \/ i \in 1..Len(t)
      BY <1>1
    <3> QED BY <1>1, <1>5, <2>2, <3>1
  <2>3. CASE j # Len(t) + 1
    <3>1. i \in 1..Len(t) /\ j \in 1..Len(t)
      BY <1>1, <2>1, <2>3
    <3> QED BY <1>1, <1>5, <2>1, <3>1 DEF Ordered
  <2> QED BY <2>2, <2>3
<1> QED BY <1>3, <1>4, <1>5 DEF u

\* A part of an ordered sequence is ordered.
LEMMA OrderedKeep ==
  ASSUME NEW t \in Seq(Nat), Ordered(t), NEW G
  PROVE  Ordered(Keep(t, G))
<1> DEFINE P == {u \in Seq(Nat) : Ordered(u) => Ordered(Keep(u, G))}
<1>1. <<>> \in P
  BY KeepEmpty, EmptySeq
<1>2. ASSUME NEW u \in Seq(Nat), NEW e \in Nat, u \in P PROVE Append(u, e) \in P
  <2>1. SUFFICES ASSUME Ordered(Append(u, e)) PROVE Ordered(Keep(Append(u, e), G))
    BY AppendProperties
  <2>2. Ordered(u) /\ \A w \in ToSet(u) : w <= e
    BY <2>1, OrderedAppend
  <2>3. Ordered(Keep(u, G))
    BY <1>2, <2>2
  <2>4. Keep(u, G) \in Seq(Nat) /\ \A w \in ToSet(Keep(u, G)) : w <= e
    BY <2>2, KeepType, KeepRange
  <2>5. Ordered(Append(Keep(u, G), e))
    BY <2>3, <2>4, OrderedAppend
  <2> QED BY <2>3, <2>5, KeepAppend
<1> HIDE DEF P
<1>3. \A u \in Seq(Nat) : u \in P
  BY <1>1, <1>2, SeqInd
<1> QED BY <1>3 DEF P

\* Two ordered sequences in a row are ordered if the first is nowhere greater.
LEMMA OrderedConcat ==
  ASSUME NEW t \in Seq(Nat), NEW v \in Seq(Nat), Ordered(t), Ordered(v),
         \A x \in ToSet(t) : \A y \in ToSet(v) : x <= y
  PROVE  Ordered(t \o v)
<1> DEFINE u == t \o v
<1>1. /\ Len(u) = Len(t) + Len(v) /\ Len(t) \in Nat /\ Len(v) \in Nat
      /\ \A i \in 1..Len(t) : u[i] = t[i]
      /\ \A i \in (Len(t) + 1)..(Len(t) + Len(v)) : u[i] = v[i - Len(t)]
  BY ConcatProperties
<1>2. \A i \in 1..Len(t) : \A j \in 1..Len(v) : t[i] <= v[j]
  BY DEF ToSet
<1> HIDE DEF u
<1>3. SUFFICES ASSUME NEW i \in 1..Len(u), NEW j \in 1..Len(u), i <= j PROVE u[i] <= u[j]
  BY DEF Ordered, u
<1>4. CASE j <= Len(t)
  <2>1. i \in 1..Len(t) /\ j \in 1..Len(t)
    BY <1>1, <1>3, <1>4
  <2> QED BY <1>1, <1>3, <2>1 DEF Ordered
<1>5. CASE i > Len(t)
  <2>1. /\ i \in (Len(t) + 1)..(Len(t) + Len(v)) /\ j \in (Len(t) + 1)..(Len(t) + Len(v))
        /\ i - Len(t) \in 1..Len(v) /\ j - Len(t) \in 1..Len(v) /\ i - Len(t) <= j - Len(t)
    BY <1>1, <1>3, <1>5
  <2> QED BY <1>1, <2>1 DEF Ordered
<1>6. CASE i <= Len(t) /\ j > Len(t)
  <2>1. i \in 1..Len(t) /\ j \in (Len(t) + 1)..(Len(t) + Len(v)) /\ j - Len(t) \in 1..Len(v)
    BY <1>1, <1>6
  <2> QED BY <1>1, <1>2, <2>1
<1> QED BY <1>1, <1>4, <1>5, <1>6

\* Insertion keeps the order and adds one element.
LEMMA InsertedIs ==
  ASSUME NEW t \in Seq(Nat), Ordered(t), NEW v \in Nat
  PROVE  /\ Inserted(t, v) \in Seq(Nat) /\ Ordered(Inserted(t, v))
         /\ \A G : Count(Inserted(t, v), G) = IF v \in G THEN Count(t, G) + 1 ELSE Count(t, G)
<1> DEFINE L == {w \in Nat : w <= v}
           R == {w \in Nat : w > v}
           a == Keep(t, L)
           b == Append(a, v)
           c == Keep(t, R)
<1>1. \A i \in DOMAIN t : t[i] \in Nat
  OBVIOUS
<1>2. {i \in DOMAIN t : t[i] <= v} = {i \in DOMAIN t : t[i] \in L} /\ {i \in DOMAIN t : t[i] > v} = {i \in DOMAIN t : t[i] \in R}
  BY <1>1
<1>3. a \in Seq(Nat) /\ b \in Seq(Nat) /\ c \in Seq(Nat) /\ b = a \o <<v>>
  <2>1. a \in Seq(Nat) /\ c \in Seq(Nat)
    BY KeepType
  <2> HIDE DEF a, c
  <2> QED BY <2>1
<1>4. Inserted(t, v) = b \o c
  <2>1. Select(t, LAMBDA w : w <= v) = a /\ Select(t, LAMBDA w : w > v) = c
    BY <1>2 DEF Select, Keep
  <2>2. Inserted(t, v) = Select(t, LAMBDA w : w <= v) \o <<v>> \o Select(t, LAMBDA w : w > v)
    BY DEF Inserted
  <2> HIDE DEF a, b, c
  <2> QED BY <1>3, <2>1, <2>2
<1>5. ToSet(a) = ToSet(t) \cap L /\ ToSet(c) = ToSet(t) \cap R /\ ToSet(b) = ToSet(a) \cup {v}
  <2>1. ToSet(a) = ToSet(t) \cap L /\ ToSet(c) = ToSet(t) \cap R
    BY KeepRange
  <2>2. a \in Seq(Nat) /\ v \in Nat
    BY <1>3
  <2> HIDE DEF a, c
  <2>3. ToSet(Append(a, v)) = ToSet(a) \cup {v}
    BY <2>2, RangeAppend
  <2> QED BY <2>1, <2>3
<1>6. Ordered(a) /\ Ordered(c)
  BY OrderedKeep
<1>7. \A w \in ToSet(a) : w <= v
  BY <1>5
<1> DEFINE Counts0(G) == Count(t, L \cap G)
           Counts1(G) == Count(t, R \cap G)
<1>8. \A G : Count(a, G) = Counts0(G) /\ Count(c, G) = Counts1(G)
  BY CountKeep
<1>9. \A x \in ToSet(b) : \A y \in ToSet(c) : x <= y
  BY <1>5
<1> HIDE DEF a, c
<1>10. Ordered(b)
  BY <1>3, <1>6, <1>7, OrderedAppend
<1>11. \A G : Count(b, G) = IF v \in G THEN Count(a, G) + 1 ELSE Count(a, G)
  BY <1>3, CountAppend
<1> HIDE DEF b
<1>12. Ordered(b \o c) /\ b \o c \in Seq(Nat)
  BY <1>3, <1>6, <1>9, <1>10, OrderedConcat, ConcatProperties
<1>13. ASSUME NEW G PROVE Count(b \o c, G) = IF v \in G THEN Count(t, G) + 1 ELSE Count(t, G)
  <2>1. Count(b \o c, G) = Count(b, G) + Count(c, G)
    BY <1>3, CountConcat
  <2>2. (L \cap G) \cap (R \cap G) = {}
    OBVIOUS
  <2>3. Count(t, (L \cap G) \cup (R \cap G)) = Counts0(G) + Counts1(G)
    BY <2>2, CountSplit
  <2>4. Count(t, (L \cap G) \cup (R \cap G)) = Count(t, G)
    <3>1. {i \in DOMAIN t : t[i] \in (L \cap G) \cup (R \cap G)} = {i \in DOMAIN t : t[i] \in G}
      BY <1>1
    <3> QED BY <3>1 DEF Count
  <2>5. Counts0(G) \in Nat /\ Counts1(G) \in Nat
    <3>1. Counts0(G) \in 0..Len(t) /\ Counts1(G) \in 0..Len(t)
      BY CountType
    <3> QED BY <3>1
  <2> HIDE DEF Counts0, Counts1
  <2> QED BY <1>8, <1>11, <2>1, <2>3, <2>4, <2>5
<1> QED BY <1>4, <1>12, <1>13

InsertedLast(ns, f, S) == IF S = {} THEN <<>> ELSE Inserted(f[S \ {Upper(S)}], ns[Upper(S)])
Sorting(ns) == CHOOSE f : f = [S \in SUBSET DOMAIN ns |-> InsertedLast(ns, f, S)]
Latencies(t) == [i \in DOMAIN t |-> t[i].latency]

\* InOrder is the last value of the function it defines.
LEMMA InOrderIs == ASSUME NEW t PROVE InOrder(t) = Sorting(Latencies(t))[DOMAIN Latencies(t)]
BY DEF InOrder, FoldLeft, MapThenFoldSet, Sorting, InsertedLast, Upper, Max, Latencies

\* So the function in InOrder satisfies its recursion.
LEMMA SortingSteps ==
  ASSUME NEW ns \in Seq(Nat)
  PROVE  /\ Sorting(ns)[1..0] = <<>>
         /\ \A n \in 1..Len(ns) : Sorting(ns)[1..n] = Inserted(Sorting(ns)[1..(n - 1)], ns[n])
<1>1. ASSUME NEW f, NEW S PROVE InsertedLast(ns, f, S) = Folded(TRUE, ns, f, S)
  BY DEF InsertedLast, Folded, Start, Fold
<1>2. DOMAIN ns = 1..Len(ns) /\ Len(ns) \in Nat
  OBVIOUS
<1>3. ASSUME NEW f
      PROVE  [S \in SUBSET DOMAIN ns |-> InsertedLast(ns, f, S)] = [S \in SUBSET (1..Len(ns)) |-> Folded(TRUE, ns, f, S)]
  BY <1>1, <1>2
<1>4. PICK f : SolvesFold(TRUE, ns, Len(ns), f)
  BY <1>2, FoldExists
<1>5. f = [S \in SUBSET DOMAIN ns |-> InsertedLast(ns, f, S)]
  BY <1>3, <1>4 DEF SolvesFold
<1>6. Sorting(ns) = [S \in SUBSET DOMAIN ns |-> InsertedLast(ns, Sorting(ns), S)]
  BY <1>5 DEF Sorting
<1>7. Sorting(ns) = [S \in SUBSET (1..Len(ns)) |-> Folded(TRUE, ns, Sorting(ns), S)]
  BY <1>3, <1>6
<1> DEFINE g == Sorting(ns)
<1>8. SolvesFold(TRUE, ns, Len(ns), g)
  BY <1>7 DEF SolvesFold
<1> HIDE DEF g
<1>9. g[1..0] = Start(TRUE) /\ \A n \in 1..Len(ns) : g[1..n] = Fold(TRUE, g[1..(n - 1)], ns[n])
  BY <1>2, <1>8, FoldSteps
<1> QED BY <1>9 DEF g, Start, Fold

\* InOrder sorts: the latencies come in order, each as often as before.
LEMMA Sorts ==
  ASSUME NEW t, Latencies(t) \in Seq(Nat)
  PROVE  /\ InOrder(t) \in Seq(Nat) /\ Ordered(InOrder(t))
         /\ \A G : Count(InOrder(t), G) = Count(Latencies(t), G)
<1> DEFINE ns == Latencies(t)
           upTo(n) == Sorting(ns)[1..n]
           some(n, G) == {i \in 1..n : ns[i] \in G}
           Right(n) == /\ upTo(n) \in Seq(Nat) /\ Ordered(upTo(n))
                       /\ \A G : Count(upTo(n), G) = Cardinality(some(n, G))
           P == {n \in Nat : n <= Len(ns) => Right(n)}
<1>1. ns \in Seq(Nat) /\ Len(ns) \in Nat /\ DOMAIN ns = 1..Len(ns) /\ \A i \in 1..Len(ns) : ns[i] \in Nat
  OBVIOUS
<1>2. InOrder(t) = upTo(Len(ns))
  BY <1>1, InOrderIs
<1> HIDE DEF ns
<1>3. 0 \in P
  <2>1. upTo(0) = <<>>
    BY <1>1, SortingSteps
  <2>2. \A G : some(0, G) = {}
    OBVIOUS
  <2>3. <<>> \in Seq(Nat) /\ Ordered(<<>>) /\ \A G : Count(<<>>, G) = 0
    BY CountEmpty, EmptySeq DEF Ordered
  <2>4. \A G : Cardinality(some(0, G)) = 0
    BY <2>2, FS_EmptySet
  <2> HIDE DEF upTo, some
  <2> QED BY <2>1, <2>3, <2>4
<1>4. ASSUME NEW n \in Nat, n \in P PROVE n + 1 \in P
  <2>1. SUFFICES ASSUME n + 1 <= Len(ns) PROVE Right(n + 1)
    OBVIOUS
  <2>2. n + 1 \in 1..Len(ns) /\ (n + 1) - 1 = n /\ n <= Len(ns)
    BY <1>1, <2>1
  <2>3. upTo(n + 1) = Inserted(upTo(n), ns[n + 1])
    BY <1>1, <2>2, SortingSteps
  <2>4. Right(n) /\ ns[n + 1] \in Nat
    BY <1>1, <1>4, <2>2
  <2>5. /\ upTo(n + 1) \in Seq(Nat) /\ Ordered(upTo(n + 1))
        /\ \A G : Count(upTo(n + 1), G) = IF ns[n + 1] \in G THEN Count(upTo(n), G) + 1 ELSE Count(upTo(n), G)
    <3> DEFINE u == upTo(n)
    <3>1. u \in Seq(Nat) /\ Ordered(u)
      BY <2>4
    <3>2. upTo(n + 1) = Inserted(u, ns[n + 1])
      BY <2>3
    <3> HIDE DEF u, upTo
    <3>3. /\ Inserted(u, ns[n + 1]) \in Seq(Nat) /\ Ordered(Inserted(u, ns[n + 1]))
          /\ \A G : Count(Inserted(u, ns[n + 1]), G) = IF ns[n + 1] \in G THEN Count(u, G) + 1 ELSE Count(u, G)
      BY <2>4, <3>1, InsertedIs
    <3> QED BY <3>2, <3>3 DEF u
  <2>6. ASSUME NEW G PROVE Count(upTo(n + 1), G) = Cardinality(some(n + 1, G))
    <3>1. some(n + 1, G) = IF ns[n + 1] \in G THEN some(n, G) \cup {n + 1} ELSE some(n, G)
      <4>1. 1..(n + 1) = (1..n) \cup {n + 1}
        OBVIOUS
      <4> QED BY <4>1
    <3>2. n + 1 \notin some(n, G)
      OBVIOUS
    <3>3. IsFiniteSet(some(n, G))
      <4>1. IsFiniteSet(1..n) /\ some(n, G) \subseteq 1..n
        BY FS_Interval
      <4> HIDE DEF some
      <4> QED BY <4>1, FS_Subset
    <3>4. Cardinality(some(n, G) \cup {n + 1}) = Cardinality(some(n, G)) + 1
      <4> HIDE DEF some
      <4> QED BY <3>2, <3>3, FS_AddElement
    <3>5. Count(upTo(n), G) = Cardinality(some(n, G))
      BY <2>4
    <3> HIDE DEF some, upTo
    <3> QED BY <2>5, <3>1, <3>4, <3>5
  <2> QED BY <2>5, <2>6
<1> HIDE DEF P
<1>5. \A n \in Nat : n \in P
  BY <1>3, <1>4, NatInd
<1>6. Right(Len(ns))
  <2>1. Len(ns) \in P /\ Len(ns) <= Len(ns)
    BY <1>1, <1>5
  <2> HIDE DEF Right
  <2> QED BY <2>1 DEF P
<1> QED BY <1>1, <1>6, <1>2 DEF Count, ns

\* At least k elements of an ordered sequence are at most v if and only if the k-th is.
LEMMA AtMost ==
  ASSUME NEW t \in Seq(Nat), Ordered(t), NEW k \in 1..Len(t), NEW v \in Nat
  PROVE  Count(t, 0..v) >= k <=> t[k] <= v
<1> DEFINE I == {i \in DOMAIN t : t[i] \in 0..v}
<1>1. DOMAIN t = 1..Len(t) /\ Len(t) \in Nat /\ \A i \in 1..Len(t) : t[i] \in Nat
  OBVIOUS
<1>2. \A i \in 1..Len(t) : i \in I <=> t[i] <= v
  BY <1>1
<1>3. IsFiniteSet(I) /\ Cardinality(I) \in Nat /\ Count(t, 0..v) = Cardinality(I) /\ I \subseteq 1..Len(t)
  <2>1. IsFiniteSet(I)
    BY CountType
  <2>2. Cardinality(I) \in Nat
    BY <2>1, FS_CardinalityType
  <2> QED BY <1>1, <2>1, <2>2 DEF Count
<1> HIDE DEF I
<1>4. ASSUME t[k] <= v PROVE Cardinality(I) >= k
  <2>1. \A i \in 1..k : i \in 1..Len(t) /\ i <= k
    BY <1>1
  <2>2. \A i \in 1..k : t[i] <= t[k]
    BY <2>1 DEF Ordered
  <2>3. ASSUME NEW i \in 1..k PROVE i \in I
    <3>1. t[i] \in Nat /\ t[k] \in Nat /\ t[i] <= t[k] /\ i \in 1..Len(t)
      BY <1>1, <2>1, <2>2
    <3> QED BY <1>2, <1>4, <3>1
  <2>4. 1..k \subseteq I
    BY <2>3
  <2>5. Cardinality(1..k) = k
    BY FS_Interval
  <2>6. Cardinality(1..k) <= Cardinality(I)
    BY <1>3, <2>4, FS_Subset
  <2> QED BY <1>3, <2>5, <2>6
<1>5. ASSUME ~(t[k] <= v) PROVE ~(Cardinality(I) >= k)
  <2>1. ASSUME NEW i \in I PROVE i \in 1..(k - 1)
    <3>1. i \in 1..Len(t) /\ t[i] <= v /\ t[i] \in Nat /\ t[k] \in Nat
      BY <1>1, <1>2, <1>3
    <3>2. k <= i => t[k] <= t[i]
      BY <3>1 DEF Ordered
    <3> QED BY <1>5, <3>1, <3>2
  <2>2. Cardinality(1..(k - 1)) = k - 1 /\ IsFiniteSet(1..(k - 1))
    BY FS_Interval
  <2>3. Cardinality(I) <= Cardinality(1..(k - 1))
    BY <2>1, <2>2, FS_Subset
  <2> QED BY <1>3, <2>2, <2>3
<1> QED BY <1>3, <1>4, <1>5

-----------------------------------------------------------------------------
(* Percentiles.                                                              *)

\* The position of the percentile, and what makes it the right one.
Position(r, n) == IF r = 0 THEN 1 ELSE (r * n + 99) \div 100

\* The position is inside the sequence, and at least r percent of it are c elements
\* if and only if c reaches the position.
LEMMA PositionIs ==
  ASSUME NEW r \in 0..100, NEW n \in Nat \ {0}
  PROVE  /\ Position(r, n) \in 1..n
         /\ r # 0 => Position(r, n) = (r * n + 99) \div 100
         /\ \A c \in Nat : c >= 1 => (100 * c >= r * n <=> c >= Position(r, n))
<1> DEFINE q == r * n
<1>1. q \in Nat /\ (r = 0 => q = 0)
  OBVIOUS
<1>2. q <= 100 * n
  OBVIOUS
<1>3. r # 0 => q >= 1
  OBVIOUS
<1>4. Position(r, n) = IF r = 0 THEN 1 ELSE (q + 99) \div 100
  BY DEF Position
<1> HIDE DEF q
<1>5. (q + 99) \div 100 \in Nat /\ (r # 0 => (q + 99) \div 100 \in 1..n)
  BY <1>1, <1>2, <1>3
<1>6. \A c \in Nat : 100 * c >= q <=> c >= (q + 99) \div 100
  BY <1>1
<1>7. \A c \in Nat : 100 * c >= 0
  OBVIOUS
<1>8. Position(r, n) \in 1..n
  BY <1>4, <1>5
<1>9. \A c \in Nat : c >= 1 => (100 * c >= q <=> c >= Position(r, n))
  BY <1>1, <1>4, <1>6, <1>7
<1> QED BY <1>4, <1>8, <1>9 DEF q

\* Percentile takes the nearest rank from any events that have a latency.
LEMMA PercentileIs ==
  ASSUME NEW E, \A e \in E : e.latency \in Nat, NEW t \in Seq(E), NEW r \in 0..100
  PROVE  LET atMost(v) == Number(t, LAMBDA e : e.latency <= v)
             reached == {v \in {t[i].latency : i \in DOMAIN t} : 100 * atMost(v) >= r * Len(t)}
         IN  Percentile(t, r) = IF t = <<>> THEN None ELSE Min(reached)
<1> DEFINE ns == Latencies(t)
           ys == InOrder(t)
           values == {t[i].latency : i \in DOMAIN t}
           atMost(v) == Number(t, LAMBDA e : e.latency <= v)
           reached == {v \in values : 100 * atMost(v) >= r * Len(t)}
<1>1. /\ ns \in Seq(Nat) /\ Len(ns) = Len(t) /\ Len(t) \in Nat /\ DOMAIN t = 1..Len(t)
      /\ \A i \in 1..Len(t) : ns[i] = t[i].latency /\ t[i].latency \in Nat
  <2>1. DOMAIN t = 1..Len(t) /\ Len(t) \in Nat /\ \A i \in 1..Len(t) : t[i].latency \in Nat
    OBVIOUS
  <2>2. ns = [i \in 1..Len(t) |-> t[i].latency]
    BY <2>1 DEF Latencies
  <2>3. ns \in Seq(Nat) /\ Len(ns) = Len(t)
    BY <2>1, <2>2, IsASeq
  <2> QED BY <2>1, <2>2, <2>3
<1>2. ys \in Seq(Nat) /\ Ordered(ys) /\ \A G : Count(ys, G) = Count(ns, G)
  BY <1>1, Sorts
<1> HIDE DEF ns, ys
<1>3. \A G : Count(ns, G) = Cardinality({i \in DOMAIN t : t[i].latency \in G})
  <2>1. SUFFICES ASSUME NEW G PROVE Count(ns, G) = Cardinality({i \in DOMAIN t : t[i].latency \in G})
    OBVIOUS
  <2>2. {i \in DOMAIN ns : ns[i] \in G} = {i \in DOMAIN t : t[i].latency \in G}
    BY <1>1
  <2> QED BY <2>2 DEF Count
<1>4. Len(ys) = Len(t)
  <2>1. Keep(ys, Nat) = ys /\ Keep(ns, Nat) = ns
    BY <1>1, <1>2, KeepAll
  <2>2. Len(Keep(ys, Nat)) = Count(ys, Nat) /\ Len(Keep(ns, Nat)) = Count(ns, Nat)
    BY <1>1, <1>2, KeepLen
  <2> QED BY <1>1, <1>2, <2>1, <2>2
<1>5. ASSUME NEW v \in Nat PROVE atMost(v) = Count(ys, 0..v)
  <2>1. {i \in DOMAIN t : t[i].latency <= v} = {i \in DOMAIN t : t[i].latency \in 0..v}
    BY <1>1
  <2>2. atMost(v) = Cardinality({i \in DOMAIN t : t[i].latency <= v})
    BY DEF Number
  <2> QED BY <1>2, <1>3, <2>1, <2>2
<1>6. ASSUME NEW v PROVE v \in values <=> v \in ToSet(ys)
  <2>1. Count(ys, {v}) = Cardinality({i \in DOMAIN t : t[i].latency = v})
    <3>1. {i \in DOMAIN t : t[i].latency = v} = {i \in DOMAIN t : t[i].latency \in {v}}
      OBVIOUS
    <3> QED BY <1>2, <1>3, <3>1
  <2>2. Count(ys, {v}) = Cardinality({i \in DOMAIN ys : ys[i] \in {v}})
    BY DEF Count
  <2> DEFINE I == {i \in DOMAIN t : t[i].latency = v}
             J == {i \in DOMAIN ys : ys[i] \in {v}}
  <2>3. IsFiniteSet(I) /\ IsFiniteSet(J)
    <3>1. IsFiniteSet(1..Len(t)) /\ I \subseteq 1..Len(t)
      BY <1>1, FS_Interval
    <3>2. IsFiniteSet(J)
      BY <1>2, CountType
    <3> HIDE DEF I
    <3> QED BY <3>1, <3>2, FS_Subset
  <2>4. v \in values <=> I # {}
    OBVIOUS
  <2>5. v \in ToSet(ys) <=> J # {}
    BY DEF ToSet
  <2>6. Cardinality(I) = Cardinality(J)
    BY <2>1, <2>2
  <2> HIDE DEF I, J
  <2>7. I = {} <=> J = {}
    BY <2>3, <2>6, FS_EmptySet
  <2> QED BY <2>4, <2>5, <2>7
<1>7. CASE t = <<>>
  <2>1. ys = <<>>
    BY <1>2, <1>4, <1>7, EmptySeq
  <2> QED BY <1>7, <2>1 DEF Percentile, ys
<1>8. CASE t # <<>>
  <2> DEFINE n == Len(t)
             k == Position(r, n)
  <2>1. n \in Nat \ {0}
    BY <1>1, <1>8, EmptySeq
  <2>2. ys # <<>> /\ 1..Len(ys) = 1..n /\ 1 \in 1..n
    BY <1>2, <1>4, <2>1
  <2>3. /\ k \in 1..n /\ (r # 0 => k = (r * n + 99) \div 100)
        /\ \A c \in Nat : c >= 1 => (100 * c >= r * n <=> c >= k)
    BY <2>1, PositionIs
  <2>4. Percentile(t, r) = ys[k]
    <3>1. CASE r = 0
      BY <2>2, <3>1 DEF Percentile, Position, ys
    <3>2. CASE r # 0
      <4>1. Percentile(t, r) = ys[Min({(r * Len(ys) + 99) \div 100, Len(ys)})]
        BY <2>2, <3>2 DEF Percentile, ys
      <4>2. Percentile(t, r) = ys[Min({k, n})]
        BY <1>4, <2>3, <3>2, <4>1
      <4>3. Min({k, n}) = k
        <5>1. k \in Nat /\ n \in Nat /\ k <= n
          BY <2>1, <2>3
        <5> HIDE DEF k, n
        <5> QED BY <5>1 DEF Min
      <4> QED BY <4>2, <4>3
    <3> QED BY <3>1, <3>2
  <2> HIDE DEF n, k
  <2>5. ASSUME NEW v \in values PROVE v \in Nat /\ (100 * atMost(v) >= r * Len(t) <=> ys[k] <= v)
    <3>1. v \in Nat
      BY <1>1
    <3>2. v \in ToSet(ys)
      BY <1>6, <2>5
    <3>3. PICK j \in 1..Len(ys) : ys[j] = v
      BY <1>2, <3>2 DEF ToSet
    <3>4. ys[1] <= v
      BY <1>2, <2>2, <3>3, <1>4 DEF Ordered, n
    <3> DEFINE c == Count(ys, 0..v)
    <3>5. c \in Nat /\ c >= 1 /\ (c >= k <=> ys[k] <= v)
      <4>1. Len(ys) \in Nat
        BY <1>2
      <4>2. \A G : Count(ys, G) \in 0..Len(ys)
        <5> SUFFICES ASSUME NEW G PROVE Count(ys, G) \in 0..Len(ys)
          OBVIOUS
        <5> QED BY <1>2, CountType
      <4>3. c \in 0..Len(ys) /\ Len(ys) \in Nat
        BY <4>1, <4>2
      <4>4. 1 \in 1..Len(ys) /\ k \in 1..Len(ys)
        BY <1>4, <2>2, <2>3
      <4>5. (c >= 1 <=> ys[1] <= v) /\ (c >= k <=> ys[k] <= v)
        BY <1>2, <3>1, <4>4, AtMost
      <4> HIDE DEF c
      <4> QED BY <3>4, <4>3, <4>5
    <3>6. atMost(v) = c
      BY <1>5, <3>1
    <3> HIDE DEF c, atMost
    <3> QED BY <2>3, <3>1, <3>5, <3>6 DEF n
  <2>6. ys[k] \in values /\ ys[k] \in Nat
    <3>1. k \in 1..Len(ys)
      BY <2>2, <2>3
    <3>2. ys[k] \in ToSet(ys) /\ ys[k] \in Nat
      BY <1>2, <3>1 DEF ToSet
    <3> QED BY <1>6, <3>2
  <2>7. ys[k] \in reached /\ \A v \in reached : v \in Nat /\ ys[k] <= v
    <3>1. ys[k] <= ys[k]
      BY <2>6
    <3> HIDE DEF values, atMost
    <3> QED BY <2>5, <2>6, <3>1
  <2> HIDE DEF reached
  <2>8. Min(reached) = ys[k]
    BY <2>6, <2>7 DEF Min
  <2> QED BY <1>8, <2>4, <2>8 DEF reached, values
<1> QED BY <1>7, <1>8

\* So the figures of a lane are the nearest ranks of its own latencies.
LEMMA RanksHold == IInv => NearestRank
<1> SUFFICES ASSUME IInv, NEW l \in TwoLanes,
                    NEW xs \in {Profile(run[l]).measured, Profile(run[l]).combined}, NEW r \in Ranks
             PROVE  LET atMost(v) == Number(xs, LAMBDA e : e.latency <= v)
                        reached == {v \in {xs[i].latency : i \in DOMAIN xs} : 100 * atMost(v) >= r * Len(xs)}
                    IN  Percentile(xs, r) = IF xs = <<>> THEN None ELSE Min(reached)
  BY DEF NearestRank
<1>1. \A e \in Timed : e.latency \in Nat
  BY EventKinds DEF Timed
<1>2. xs \in Seq(Timed)
  <2>1. run[l] \in Seq(Happened)
    BY StoredFacts
  <2>2. /\ Profile(run[l]).measured = Keep(run[l], Measured)
        /\ Profile(run[l]).combined = Keep(run[l], Measured) \o Keep(run[l], Replayed)
    BY <2>1, ProfileKept
  <2>3. Keep(run[l], Measured) \in Seq(Happened \cap Measured) /\ Keep(run[l], Replayed) \in Seq(Happened \cap Replayed)
    BY <2>1, KeepIn
  <2>4. Happened \cap Measured \subseteq Timed /\ Happened \cap Replayed \subseteq Timed
    BY EventKinds
  <2>5. Keep(run[l], Measured) \in Seq(Timed) /\ Keep(run[l], Replayed) \in Seq(Timed)
    BY <2>3, <2>4
  <2> DEFINE a == Keep(run[l], Measured)
             b == Keep(run[l], Replayed)
  <2>6. a \in Seq(Timed) /\ b \in Seq(Timed) /\ (xs = a \/ xs = a \o b)
    BY <2>2, <2>5
  <2> HIDE DEF a, b
  <2>7. a \o b \in Seq(Timed)
    BY <2>6, ConcatProperties
  <2> QED BY <2>6, <2>7
<1>3. r \in 0..100
  BY ReportAssumption
<1> QED BY <1>1, <1>2, <1>3, PercentileIs

\* percentile returns the least latency of a lane that at least r percent of its
\* latencies do not exceed, for any lane and every rank from 0 to 100, and None for no
\* latency; it never indexes outside the list.
THEOREM PercentilesAreNearestRanks == Spec => []NearestRank
BY Invariance, RanksHold, PTL

-----------------------------------------------------------------------------
(* Loops.                                                                    *)

\* The recursive function in Loops.
LoopsAfter(c, f, i) ==
  IF i > Len(c) THEN <<>>
  ELSE LET j == EndOfRun(c, i)
       IN  (IF j - i >= 2 THEN <<[start |-> i, length |-> j - i]>> ELSE <<>>) \o f[j]

LoopsFrom(c) == CHOOSE f : f = [i \in 1..(Len(c) + 1) |-> LoopsAfter(c, f, i)]

\* Loops is the first value of the function it defines.
LEMMA LoopsAre == ASSUME NEW c PROVE Loops(c) = LoopsFrom(c)[1]
BY DEF Loops, LoopsFrom, LoopsAfter

\* A run ends at the first call that is another one, or with the calls.
LEMMA EndIs ==
  ASSUME NEW T, NEW c \in Seq(T), NEW i \in 1..Len(c)
  PROVE  /\ EndOfRun(c, i) \in (i + 1)..(Len(c) + 1)
         /\ EndOfRun(c, i) <= Len(c) => Key(c[EndOfRun(c, i)]) # Key(c[i])
         /\ \A k \in i..(EndOfRun(c, i) - 1) : Key(c[k]) = Key(c[i])
<1> DEFINE J == {j \in (i + 1)..(Len(c) + 1) : j > Len(c) \/ Key(c[j]) # Key(c[i])}
           j == EndOfRun(c, i)
<1>1. Len(c) \in Nat /\ J \subseteq Nat /\ Len(c) + 1 \in J
  OBVIOUS
<1>2. j = Min(J)
  BY DEF EndOfRun
<1>3. j \in J /\ \A k \in J : j <= k
  <2> HIDE DEF J, j
  <2>1. \E m \in J : \A k \in J : m <= k
    BY <1>1, Least
  <2> QED BY <1>2, <2>1 DEF Min
<1>4. j \in (i + 1)..(Len(c) + 1) /\ (j > Len(c) \/ Key(c[j]) # Key(c[i]))
  BY <1>3
<1>5. ASSUME NEW k \in i..(j - 1) PROVE Key(c[k]) = Key(c[i])
  <2>1. CASE k = i
    BY <2>1
  <2>2. CASE k # i
    <3> HIDE DEF j
    <3>1. k \in (i + 1)..(Len(c) + 1) /\ ~(j <= k) /\ ~(k > Len(c))
      BY <1>1, <1>4, <1>5, <2>2
    <3>2. k \notin J
      BY <1>3, <3>1
    <3> QED BY <3>1, <3>2
  <2> QED BY <2>1, <2>2
<1> HIDE DEF J, j
<1>6. j <= Len(c) => Key(c[j]) # Key(c[i])
  BY <1>1, <1>4
<1> QED BY <1>4, <1>5, <1>6 DEF j

\* The recursion in Loops has a solution, from any position to the end.
LEMMA LoopsExist ==
  ASSUME NEW T, NEW c \in Seq(T)
  PROVE  \A N \in Nat : N <= Len(c) =>
           \E f : f = [i \in (Len(c) + 1 - N)..(Len(c) + 1) |-> LoopsAfter(c, f, i)]
<1> DEFINE From(N) == (Len(c) + 1 - N)..(Len(c) + 1)
           Solves(N, f) == f = [i \in From(N) |-> LoopsAfter(c, f, i)]
           P == {N \in Nat : N <= Len(c) => \E f : Solves(N, f)}
<1>1. Len(c) \in Nat
  OBVIOUS
<1>2. 0 \in P
  <2> DEFINE f == [i \in From(0) |-> <<>>]
  <2>1. \A i \in From(0) : i > Len(c)
    BY <1>1
  <2>2. Solves(0, f)
    BY <2>1 DEF LoopsAfter
  <2> HIDE DEF f
  <2> QED BY <2>2
<1>3. ASSUME NEW N \in Nat, N \in P PROVE N + 1 \in P
  <2>1. SUFFICES ASSUME N + 1 <= Len(c) PROVE \E f : Solves(N + 1, f)
    OBVIOUS
  <2>2. PICK f : Solves(N, f)
    BY <1>1, <1>3, <2>1
  <2> DEFINE k == Len(c) - N
             g == [i \in From(N + 1) |-> IF i = k THEN LoopsAfter(c, f, i) ELSE f[i]]
  <2>3. /\ k \in 1..Len(c) /\ From(N + 1) = From(N) \cup {k} /\ k \notin From(N)
        /\ From(N) = (k + 1)..(Len(c) + 1)
    BY <1>1, <2>1
  <2>4. ASSUME NEW i \in From(N) PROVE g[i] = f[i] /\ i \in From(N + 1) /\ i \in Nat /\ i >= k
    BY <1>1, <2>1, <2>3
  <2>5. ASSUME NEW i \in From(N + 1), i <= Len(c) PROVE EndOfRun(c, i) \in From(N)
    <3>1. i \in 1..Len(c) /\ i >= k
      BY <1>1, <2>1, <2>5
    <3>2. EndOfRun(c, i) \in (i + 1)..(Len(c) + 1)
      BY <3>1, EndIs
    <3> HIDE DEF k
    <3> QED BY <1>1, <2>3, <3>1, <3>2
  <2>6. ASSUME NEW i \in From(N + 1) PROVE g[i] = LoopsAfter(c, g, i)
    <3>1. LoopsAfter(c, g, i) = LoopsAfter(c, f, i)
      <4>1. CASE i > Len(c)
        BY <4>1 DEF LoopsAfter
      <4>2. CASE i <= Len(c)
        <5>1. g[EndOfRun(c, i)] = f[EndOfRun(c, i)]
          BY <2>4, <2>5, <4>2
        <5> HIDE DEF g
        <5> QED BY <5>1 DEF LoopsAfter
      <4>3. i \in Int
        BY <1>1
      <4> QED BY <1>1, <4>1, <4>2, <4>3
    <3>2. i # k => f[i] = LoopsAfter(c, f, i)
      BY <2>2, <2>3
    <3>3. g[i] = IF i = k THEN LoopsAfter(c, f, i) ELSE f[i]
      OBVIOUS
    <3> QED BY <3>1, <3>2, <3>3
  <2>7. g = [i \in From(N + 1) |-> LoopsAfter(c, g, i)]
    <3> DEFINE h == [i \in From(N + 1) |-> LoopsAfter(c, g, i)]
    <3>1. \A i \in From(N + 1) : g[i] = h[i]
      BY <2>6
    <3>2. DOMAIN g = From(N + 1) /\ DOMAIN h = From(N + 1)
      OBVIOUS
    <3>3. g = [i \in DOMAIN g |-> g[i]] /\ h = [i \in DOMAIN h |-> h[i]]
      OBVIOUS
    <3> HIDE DEF g, h, From
    <3>4. g = h
      BY <3>1, <3>2, <3>3
    <3> QED BY <3>4 DEF h
  <2> HIDE DEF g
  <2> QED BY <2>7
<1> HIDE DEF P
<1>4. \A N \in Nat : N \in P
  BY <1>2, <1>3, NatInd
<1> QED BY <1>4 DEF P

\* So the function in Loops satisfies its recursion.
LEMMA LoopsEquation ==
  ASSUME NEW T, NEW c \in Seq(T), NEW i \in 1..(Len(c) + 1)
  PROVE  LoopsFrom(c)[i] = LoopsAfter(c, LoopsFrom(c), i)
<1>1. Len(c) \in Nat /\ Len(c) <= Len(c) /\ (Len(c) + 1 - Len(c)) = 1
  OBVIOUS
<1>2. \E f : f = [k \in 1..(Len(c) + 1) |-> LoopsAfter(c, f, k)]
  BY <1>1, LoopsExist
<1>3. LoopsFrom(c) = [k \in 1..(Len(c) + 1) |-> LoopsAfter(c, LoopsFrom(c), k)]
  BY <1>2 DEF LoopsFrom
<1> QED BY <1>3

Same(c, i, j) == Key(c[i]) = Key(c[j])

\* The longest stretches of one repeated call, and those that begin at i or later.
Longest(c) ==
  {r \in [start : DOMAIN c, length : 2..Len(c)] :
     LET end == r.start + r.length
     IN  /\ end <= Len(c) + 1
         /\ \A k \in r.start..(end - 1) : Same(c, r.start, k)
         /\ r.start > 1 => ~Same(c, r.start, r.start - 1)
         /\ end <= Len(c) => ~Same(c, r.start, end)}
LongestFrom(c, i) == {r \in Longest(c) : r.start >= i}

\* Ascending starts, and what the recursion returns from a position where a run begins.
Ascending(t) == \A i, j \in 1..Len(t) : i < j => t[i].start < t[j].start
RunStart(c, i) == i > 1 /\ i <= Len(c) => ~Same(c, i, i - 1)
LoopsRight(c, i, t) ==
  t \in Seq(Longest(c)) /\ ToSet(t) = LongestFrom(c, i) /\ Ascending(t)

\* From the beginning of a run there is a loop of its length, if it is one, and then those
\* from its end on.
LEMMA LongestStep ==
  ASSUME NEW T, NEW c \in Seq(T), NEW i \in 1..Len(c), RunStart(c, i)
  PROVE  LET j == EndOfRun(c, i)
         IN  /\ j \in (i + 1)..(Len(c) + 1) /\ RunStart(c, j)
             /\ LongestFrom(c, i) = (IF j - i >= 2 THEN {[start |-> i, length |-> j - i]} ELSE {}) \cup LongestFrom(c, j)
<1> DEFINE j == EndOfRun(c, i)
           this == [start |-> i, length |-> j - i]
<1>1. /\ j \in (i + 1)..(Len(c) + 1) /\ Len(c) \in Nat /\ DOMAIN c = 1..Len(c)
      /\ j <= Len(c) => Key(c[j]) # Key(c[i])
      /\ \A k \in i..(j - 1) : Key(c[k]) = Key(c[i])
  BY EndIs
<1> HIDE DEF j
<1>2. RunStart(c, j)
  <2>1. j - 1 \in i..(j - 1)
    BY <1>1
  <2>2. Key(c[j - 1]) = Key(c[i])
    BY <1>1, <2>1
  <2> QED BY <1>1, <2>2 DEF RunStart, Same
<1>3. ASSUME j - i >= 2 PROVE this \in Longest(c)
  <2>1. this \in [start : DOMAIN c, length : 2..Len(c)] /\ this.start = i /\ this.length = j - i
    BY <1>1, <1>3
  <2>2. i + (j - i) = j
    BY <1>1
  <2>3. \A k \in i..(j - 1) : Same(c, i, k)
    BY <1>1 DEF Same
  <2>4. i > 1 => ~Same(c, i, i - 1)
    BY DEF RunStart
  <2>5. j <= Len(c) => ~Same(c, i, j)
    BY <1>1 DEF Same
  <2> HIDE DEF this
  <2> QED BY <1>1, <2>1, <2>2, <2>3, <2>4, <2>5 DEF Longest
<1>4. ASSUME NEW r \in Longest(c), r.start >= i
      PROVE  r.start >= j \/ (j - i >= 2 /\ r = this)
  <2> DEFINE b == r.start
             n == r.length
  <2>1. /\ r \in [start : DOMAIN c, length : 2..Len(c)]
        /\ b + n <= Len(c) + 1
        /\ \A k \in b..(b + n - 1) : Same(c, b, k)
        /\ b > 1 => ~Same(c, b, b - 1)
        /\ b + n <= Len(c) => ~Same(c, b, b + n)
    BY DEF Longest
  <2>2. b \in 1..Len(c) /\ n \in 2..Len(c) /\ r = [start |-> b, length |-> n] /\ b >= i
    BY <1>1, <1>4, <2>1
  <2> HIDE DEF b, n
  <2>3. CASE b = i
    <3>1. b + n = j
      <4>1. CASE b + n < j
        <5>1. b + n \in i..(j - 1) /\ b + n <= Len(c)
          BY <1>1, <2>2, <2>3, <4>1
        <5>2. Key(c[b + n]) = Key(c[i])
          BY <1>1, <5>1
        <5> QED BY <2>1, <2>3, <5>1, <5>2 DEF Same
      <4>2. CASE b + n > j
        <5>1. j \in b..(b + n - 1) /\ j <= Len(c)
          BY <1>1, <2>1, <2>2, <2>3, <4>2
        <5>2. Same(c, b, j)
          BY <2>1, <5>1
        <5> QED BY <1>1, <2>3, <5>1, <5>2 DEF Same
      <4> QED BY <1>1, <2>2, <4>1, <4>2
    <3>2. n = j - i /\ j - i >= 2
      BY <1>1, <2>2, <2>3, <3>1
    <3> QED BY <2>2, <2>3, <3>2
  <2>4. CASE b # i /\ b < j
    <3>1. b - 1 \in i..(j - 1) /\ b \in i..(j - 1) /\ b > 1
      BY <1>1, <2>2, <2>4
    <3>2. Key(c[b - 1]) = Key(c[i]) /\ Key(c[b]) = Key(c[i])
      BY <1>1, <3>1
    <3> QED BY <2>1, <3>1, <3>2 DEF Same
  <2>5. CASE b >= j
    BY <2>5 DEF b
  <2>6. b \in Nat /\ j \in Nat
    BY <1>1, <2>2
  <2> QED BY <2>3, <2>4, <2>5, <2>6
<1>5. ASSUME NEW r PROVE r \in LongestFrom(c, i) <=> r \in (IF j - i >= 2 THEN {this} ELSE {}) \cup LongestFrom(c, j)
  <2>1. ASSUME r \in LongestFrom(c, i) PROVE r \in (IF j - i >= 2 THEN {this} ELSE {}) \cup LongestFrom(c, j)
    <3>1. r \in Longest(c) /\ r.start >= i
      BY <2>1 DEF LongestFrom
    <3>2. r.start >= j \/ (j - i >= 2 /\ r = this)
      BY <1>4, <3>1
    <3> QED BY <3>1, <3>2 DEF LongestFrom
  <2>2. ASSUME r \in LongestFrom(c, j) PROVE r \in LongestFrom(c, i)
    <3>1. r \in Longest(c) /\ r.start >= j /\ r.start \in DOMAIN c
      BY <2>2 DEF LongestFrom, Longest
    <3>2. r.start \in Nat /\ r.start >= i
      BY <1>1, <3>1
    <3> QED BY <3>1, <3>2 DEF LongestFrom
  <2>3. ASSUME j - i >= 2 PROVE this \in LongestFrom(c, i)
    <3>1. this.start = i /\ i >= i
      OBVIOUS
    <3> QED BY <1>3, <2>3, <3>1 DEF LongestFrom
  <2> HIDE DEF this
  <2> QED BY <2>1, <2>2, <2>3
<1>6. LongestFrom(c, i) = (IF j - i >= 2 THEN {this} ELSE {}) \cup LongestFrom(c, j)
  <2> HIDE DEF this
  <2> QED BY <1>5
<1> QED BY <1>1, <1>2, <1>6 DEF j

\* So, from any position at which a run begins, the loops returned are the longest
\* runs from there on, in order.
LEMMA LoopsHold ==
  ASSUME NEW T, NEW c \in Seq(T)
  PROVE  \A i \in 1..(Len(c) + 1) : RunStart(c, i) => LoopsRight(c, i, LoopsFrom(c)[i])
<1> DEFINE f == LoopsFrom(c)
           P == {d \in Nat : \A i \in 1..(Len(c) + 1) :
                               Len(c) + 1 - i <= d /\ RunStart(c, i) => LoopsRight(c, i, f[i])}
<1>1. Len(c) \in Nat /\ DOMAIN c = 1..Len(c)
  OBVIOUS
<1>2. ASSUME NEW i \in 1..(Len(c) + 1), i > Len(c) PROVE LoopsRight(c, i, f[i])
  <2>1. f[i] = <<>>
    BY <1>2, LoopsEquation DEF LoopsAfter
  <2>2. ASSUME NEW r \in Longest(c) PROVE ~(r.start >= i)
    <3>1. r.start \in DOMAIN c
      BY DEF Longest
    <3> QED BY <1>1, <1>2, <3>1
  <2>3. LongestFrom(c, i) = {}
    BY <2>2 DEF LongestFrom
  <2>4. <<>> \in Seq(Longest(c)) /\ ToSet(<<>>) = {} /\ Ascending(<<>>)
    BY EmptySeq DEF ToSet, Ascending
  <2> QED BY <2>1, <2>3, <2>4 DEF LoopsRight
<1>3. 0 \in P
  <2>1. ASSUME NEW i \in 1..(Len(c) + 1), Len(c) + 1 - i <= 0 PROVE i > Len(c)
    BY <1>1, <2>1
  <2> HIDE DEF f
  <2> QED BY <1>2, <2>1
<1>4. ASSUME NEW d \in Nat, d \in P PROVE d + 1 \in P
  <2>1. SUFFICES ASSUME NEW i \in 1..(Len(c) + 1), Len(c) + 1 - i <= d + 1, RunStart(c, i)
                 PROVE  LoopsRight(c, i, f[i])
    OBVIOUS
  <2>2. CASE i > Len(c)
    BY <1>2, <2>2
  <2>3. CASE i <= Len(c)
    <3> DEFINE j == EndOfRun(c, i)
               this == [start |-> i, length |-> j - i]
               one == IF j - i >= 2 THEN <<this>> ELSE <<>>
    <3>1. i \in 1..Len(c)
      BY <1>1, <2>3
    <3>2. /\ j \in (i + 1)..(Len(c) + 1) /\ RunStart(c, j)
          /\ LongestFrom(c, i) = (IF j - i >= 2 THEN {this} ELSE {}) \cup LongestFrom(c, j)
      BY <2>1, <3>1, LongestStep
    <3>3. f[i] = one \o f[j]
      <4>1. f[i] = LoopsAfter(c, f, i)
        BY LoopsEquation
      <4>2. ~(i > Len(c))
        BY <1>1, <2>3
      <4>3. LoopsAfter(c, f, i) = one \o f[j]
        <5> HIDE DEF f
        <5> QED BY <4>2 DEF LoopsAfter
      <4> HIDE DEF f, one, j
      <4> QED BY <4>1, <4>3
    <3> HIDE DEF j, f
    <3>4. LoopsRight(c, j, f[j])
      <4>1. j \in 1..(Len(c) + 1) /\ Len(c) + 1 - j <= d
        BY <1>1, <2>1, <3>1, <3>2
      <4> QED BY <1>4, <3>2, <4>1
    <3>5. CASE j - i >= 2
      <4> DEFINE t == f[j]
                 u == <<this>> \o t
      <4>1. t \in Seq(Longest(c)) /\ ToSet(t) = LongestFrom(c, j) /\ Ascending(t)
        BY <3>4 DEF LoopsRight
      <4>2. this \in Longest(c)
        BY <3>2, <3>5 DEF LongestFrom
      <4> HIDE DEF t
      <4>3. /\ u \in Seq(Longest(c)) /\ Len(u) = Len(t) + 1 /\ u[1] = this /\ Len(t) \in Nat
            /\ \A k \in 2..(Len(t) + 1) : u[k] = t[k - 1]
        <5> HIDE DEF this
        <5> QED BY <4>1, <4>2
      <4>4. \A k \in 1..Len(t) : t[k] \in LongestFrom(c, j)
        BY <4>1 DEF ToSet
      <4>5. \A k \in 1..Len(t) : t[k].start \in Nat /\ t[k].start > i
        <5>1. \A r \in LongestFrom(c, j) : r.start \in 1..Len(c) /\ r.start >= j
          BY <1>1 DEF LongestFrom, Longest
        <5> QED BY <3>2, <4>4, <5>1
      <4>6. this.start = i
        OBVIOUS
      <4> HIDE DEF this, u
      <4>7. Ascending(u)
        <5>1. SUFFICES ASSUME NEW k \in 1..Len(u), NEW m \in 1..Len(u), k < m PROVE u[k].start < u[m].start
          BY DEF Ascending
        <5>2. m \in 2..(Len(t) + 1) /\ m - 1 \in 1..Len(t) /\ u[m] = t[m - 1]
          BY <4>3, <5>1
        <5>3. CASE k = 1
          BY <4>3, <4>5, <4>6, <5>2, <5>3
        <5>4. CASE k # 1
          <6>1. k \in 2..(Len(t) + 1) /\ k - 1 \in 1..Len(t) /\ u[k] = t[k - 1] /\ k - 1 < m - 1
            BY <4>3, <5>1, <5>4
          <6> QED BY <4>1, <5>2, <6>1 DEF Ascending
        <5> QED BY <5>3, <5>4
      <4>8. ToSet(u) = {this} \cup ToSet(t)
        <5>1. ASSUME NEW r \in ToSet(u) PROVE r \in {this} \cup ToSet(t)
          <6>1. PICK k \in 1..(Len(t) + 1) : r = u[k]
            BY <4>3, <5>1 DEF ToSet
          <6>2. k # 1 => k \in 2..(Len(t) + 1) /\ k - 1 \in 1..Len(t)
            BY <4>3
          <6> QED BY <4>1, <4>3, <6>1, <6>2 DEF ToSet
        <5>2. ASSUME NEW r \in ToSet(t) PROVE r \in ToSet(u)
          <6>1. PICK k \in 1..Len(t) : r = t[k]
            BY <4>1, <5>2 DEF ToSet
          <6>2. k + 1 \in 2..(Len(t) + 1) /\ k + 1 \in 1..Len(u) /\ (k + 1) - 1 = k
            BY <4>3
          <6>3. u[k + 1] = r
            BY <4>3, <6>1, <6>2
          <6> QED BY <4>3, <6>2, <6>3 DEF ToSet
        <5>3. this \in ToSet(u)
          <6>1. 1 \in 1..Len(u) /\ u[1] = this
            BY <4>3
          <6> QED BY <4>3, <6>1 DEF ToSet
        <5> QED BY <5>1, <5>2, <5>3
      <4>9. f[i] = u
        BY <3>3, <3>5 DEF u, t
      <4>10. LongestFrom(c, i) = {this} \cup LongestFrom(c, j)
        BY <3>2, <3>5
      <4> QED BY <4>1, <4>3, <4>7, <4>8, <4>9, <4>10 DEF LoopsRight
    <3>6. CASE ~(j - i >= 2)
      <4>1. f[i] = f[j] /\ LongestFrom(c, i) = LongestFrom(c, j)
        <5>1. f[j] \in Seq(Longest(c))
          BY <3>4 DEF LoopsRight
        <5>2. <<>> \o f[j] = f[j]
          BY <5>1, ConcatEmptySeq
        <5> QED BY <3>2, <3>3, <3>6, <5>2
      <4> QED BY <3>4, <4>1 DEF LoopsRight
    <3> QED BY <3>5, <3>6
  <2> QED BY <1>1, <2>2, <2>3
<1> HIDE DEF P, f
<1>5. \A d \in Nat : d \in P
  BY <1>3, <1>4, NatInd
<1>6. SUFFICES ASSUME NEW i \in 1..(Len(c) + 1), RunStart(c, i) PROVE LoopsRight(c, i, f[i])
  BY DEF f
<1>7. Len(c) \in P /\ Len(c) + 1 - i <= Len(c)
  BY <1>1, <1>5
<1> QED BY <1>6, <1>7 DEF P

\* All loops are returned, each once and in order.
LEMMA LoopsAreRight ==
  ASSUME NEW T, NEW c \in Seq(T)
  PROVE  LET loops == Loops(c)
         IN  /\ loops \in Seq(Longest(c)) /\ ToSet(loops) = Longest(c) /\ Ascending(loops)
             /\ Len(loops) = Cardinality(Longest(c))
<1> DEFINE t == Loops(c)
<1>1. LoopsRight(c, 1, t)
  <2>1. Len(c) \in Nat
    OBVIOUS
  <2>2. 1 \in 1..(Len(c) + 1) /\ RunStart(c, 1)
    BY <2>1 DEF RunStart
  <2> QED BY <2>2, LoopsHold, LoopsAre
<1> HIDE DEF t
<1>2. LongestFrom(c, 1) = Longest(c)
  <2>1. ASSUME NEW r \in Longest(c) PROVE r.start >= 1
    <3>1. r.start \in 1..Len(c)
      BY DEF Longest
    <3> QED BY <3>1
  <2> QED BY <2>1 DEF LongestFrom
<1>3. t \in Seq(Longest(c)) /\ ToSet(t) = Longest(c) /\ Ascending(t)
  BY <1>1, <1>2 DEF LoopsRight
<1>4. Len(t) \in Nat /\ DOMAIN t = 1..Len(t) /\ t \in [1..Len(t) -> Longest(c)]
  BY <1>3
<1>5. ASSUME NEW i \in 1..Len(t), NEW j \in 1..Len(t), t[i] = t[j] PROVE i = j
  <2>1. t[i].start \in Nat
    <3>1. t[i] \in Longest(c)
      BY <1>4
    <3>2. t[i].start \in 1..Len(c)
      BY <3>1 DEF Longest
    <3> QED BY <3>2
  <2>2. CASE i < j
    BY <1>3, <1>5, <2>1, <2>2 DEF Ascending
  <2>3. CASE j < i
    BY <1>3, <1>5, <2>1, <2>3 DEF Ascending
  <2> QED BY <1>4, <2>2, <2>3
<1>6. \A r \in Longest(c) : \E i \in 1..Len(t) : t[i] = r
  BY <1>3, <1>4 DEF ToSet
<1>7. t \in Bijection(1..Len(t), Longest(c))
  BY <1>4, <1>5, <1>6 DEF Bijection, Injection, Surjection, IsInjective
<1>8. Cardinality(Longest(c)) = Len(t)
  <2>1. ExistsBijection(1..Len(t), Longest(c))
    BY <1>7 DEF ExistsBijection
  <2> QED BY <1>4, <2>1, FS_CountingElements
<1> QED BY <1>3, <1>8 DEF t

\* So the property holds of both lanes.
LEMMA LoopsAreLongest == IInv => LoopsAreLongestRuns
<1> SUFFICES ASSUME IInv, NEW c \in {p, s}
             PROVE  LET loops == Loops(c)
                        same(i, j) == Key(c[i]) = Key(c[j])
                        longest == {r \in [start : DOMAIN c, length : 2..Len(c)] :
                                      LET end == r.start + r.length
                                      IN  /\ end <= Len(c) + 1
                                          /\ \A k \in r.start..(end - 1) : same(r.start, k)
                                          /\ r.start > 1 => ~same(r.start, r.start - 1)
                                          /\ end <= Len(c) => ~same(r.start, end)}
                    IN  /\ ToSet(loops) = longest /\ Len(loops) = Cardinality(longest)
                        /\ \A i, j \in DOMAIN loops : i < j => loops[i].start < loops[j].start
  BY DEF LoopsAreLongestRuns
<1>1. c \in Seq(StoredCalls)
  BY ChoicesTyped
<1> DEFINE t == Loops(c)
<1>2. t \in Seq(Longest(c)) /\ ToSet(t) = Longest(c) /\ Ascending(t) /\ Len(t) = Cardinality(Longest(c))
  BY <1>1, LoopsAreRight
<1> HIDE DEF t
<1>3. DOMAIN t = 1..Len(t)
  BY <1>2
<1>4. \A i, j \in DOMAIN t : i < j => t[i].start < t[j].start
  BY <1>2, <1>3 DEF Ascending
<1> QED BY <1>2, <1>4 DEF t, Longest, Same

\* _loops reports every maximal run of one repeated call, from its first call
\* and in its full length, exactly once and in the order of the lane.
THEOREM LoopsAreTheLongestRuns == Spec => []LoopsAreLongestRuns
BY Invariance, LoopsAreLongest, PTL

-----------------------------------------------------------------------------

Mine(c, x) == {i \in DOMAIN c : c[i].tool = x}
Errors(c, x) == {i \in Mine(c, x) : Failed(c[i])}
Retries(c, x) == {i \in Mine(c, x) : i - 1 \in Mine(c, x) /\ Failed(c[i - 1])}

\* _per_tool counts these sets.
LEMMA PerToolIs ==
  ASSUME NEW c, NEW x
  PROVE  LET st == PerTool(c, x)
         IN  /\ st.calls = Cardinality(Mine(c, x)) /\ st.errors = Cardinality(Errors(c, x))
             /\ st.retries = Cardinality(Retries(c, x))
BY DEF PerTool, Mine, Errors, Retries

\* They are sets of positions.
LEMMA MineFinite ==
  ASSUME NEW T, NEW c \in Seq(T), NEW x
  PROVE  /\ Mine(c, x) \subseteq 1..Len(c) /\ Len(c) \in Nat
         /\ IsFiniteSet(Mine(c, x)) /\ IsFiniteSet(Errors(c, x)) /\ IsFiniteSet(Retries(c, x))
<1>1. Mine(c, x) \subseteq 1..Len(c) /\ Len(c) \in Nat /\ IsFiniteSet(1..Len(c))
  BY FS_Interval DEF Mine
<1>2. IsFiniteSet(Mine(c, x))
  BY <1>1, FS_Subset
<1>3. Errors(c, x) \subseteq Mine(c, x) /\ Retries(c, x) \subseteq Mine(c, x)
  BY DEF Errors, Retries
<1> QED BY <1>1, <1>2, <1>3, FS_Subset

\* Every retry has the error just before it, and the last call is before no retry.
LEMMA RetryBefore ==
  ASSUME NEW T, NEW c \in Seq(T), NEW x, NEW E, Errors(c, x) \ {Len(c)} \subseteq E, IsFiniteSet(E)
  PROVE  Cardinality(Retries(c, x)) <= Cardinality(E)
<1> DEFINE f == [i \in Retries(c, x) |-> i - 1]
<1>1. ASSUME NEW i \in Retries(c, x) PROVE i - 1 \in E /\ i \in Nat
  <2>1. i \in 1..Len(c) /\ i - 1 \in 1..Len(c) /\ Len(c) \in Nat
    BY MineFinite DEF Retries
  <2>2. i - 1 \in Errors(c, x) /\ i - 1 # Len(c)
    BY <2>1 DEF Retries, Errors
  <2> QED BY <2>1, <2>2
<1>2. f \in [Retries(c, x) -> E]
  BY <1>1
<1>3. \A i, j \in Retries(c, x) : f[i] = f[j] => i = j
  BY <1>1
<1>4. f \in Injection(Retries(c, x), E)
  BY <1>2, <1>3 DEF Injection, IsInjective
<1> QED BY <1>4, FS_Injection

\* The first call of a tool is not a retry.
LEMMA RetriesBelowCalls ==
  ASSUME NEW T, NEW c \in Seq(T), NEW x, Mine(c, x) # {}
  PROVE  Cardinality(Retries(c, x)) < Cardinality(Mine(c, x))
<1>1. Mine(c, x) \subseteq Nat /\ IsFiniteSet(Mine(c, x))
  BY MineFinite
<1>2. PICK m \in Mine(c, x) : \A i \in Mine(c, x) : m <= i
  BY <1>1, Least
<1>3. m \notin Retries(c, x)
  <2>1. m \in Nat /\ ~(m <= m - 1)
    BY <1>1
  <2> QED BY <1>2, <2>1 DEF Retries
<1>4. Retries(c, x) \subseteq Mine(c, x) \ {m}
  BY <1>3 DEF Retries
<1>5. Cardinality(Mine(c, x) \ {m}) = Cardinality(Mine(c, x)) - 1 /\ IsFiniteSet(Mine(c, x) \ {m})
  BY <1>1, FS_RemoveElement
<1>6. Cardinality(Retries(c, x)) <= Cardinality(Mine(c, x) \ {m}) /\ IsFiniteSet(Retries(c, x))
  BY <1>4, <1>5, FS_Subset
<1>7. Cardinality(Mine(c, x)) \in Nat /\ Cardinality(Retries(c, x)) \in Nat
  BY <1>1, <1>6, FS_CardinalityType
<1> QED BY <1>5, <1>6, <1>7

\* So a tool has at most as many retries as errors, and fewer while the last call of
\* the lane is an error of it.
LEMMA RetriesBelowErrors ==
  ASSUME NEW T, NEW c \in Seq(T), NEW x
  PROVE  /\ Cardinality(Retries(c, x)) <= Cardinality(Errors(c, x))
         /\ c # <<>> /\ Failed(c[Len(c)]) /\ c[Len(c)].tool = x =>
              Cardinality(Retries(c, x)) < Cardinality(Errors(c, x))
<1> DEFINE A == Errors(c, x)
<1>1. IsFiniteSet(A) /\ IsFiniteSet(Retries(c, x))
  BY MineFinite
<1>2. Cardinality(A) \in Nat /\ Cardinality(Retries(c, x)) \in Nat
  BY <1>1, FS_CardinalityType
<1>3. Cardinality(Retries(c, x)) <= Cardinality(A)
  BY <1>1, RetryBefore
<1>4. ASSUME c # <<>>, Failed(c[Len(c)]), c[Len(c)].tool = x
      PROVE  Cardinality(Retries(c, x)) < Cardinality(A)
  <2>1. Len(c) \in A
    <3>1. Len(c) \in 1..Len(c) /\ DOMAIN c = 1..Len(c)
      BY <1>4
    <3> QED BY <1>4, <3>1 DEF Errors, Mine
  <2>2. IsFiniteSet(A \ {Len(c)}) /\ Cardinality(A \ {Len(c)}) = Cardinality(A) - 1
    BY <1>1, <2>1, FS_RemoveElement
  <2>3. Cardinality(Retries(c, x)) <= Cardinality(A \ {Len(c)})
    BY <2>2, RetryBefore
  <2> QED BY <1>2, <2>2, <2>3
<1> QED BY <1>3, <1>4

\* A call repeated until it succeeds is retried each time but the first.
LEMMA RetriesOfLoop ==
  ASSUME NEW T, NEW c \in Seq(T), NEW r \in Longest(c),
         \A k \in r.start..(r.start + r.length - 2) : Failed(c[k])
  PROVE  Cardinality(Retries(c, c[r.start].tool)) >= r.length - 1
<1> DEFINE b == r.start
           n == r.length
           x == c[b].tool
           R == (b + 1)..(b + n - 1)
<1>1. /\ b \in 1..Len(c) /\ n \in 2..Len(c) /\ b + n <= Len(c) + 1 /\ Len(c) \in Nat /\ DOMAIN c = 1..Len(c)
      /\ \A k \in b..(b + n - 1) : Key(c[b]) = Key(c[k])
      /\ \A k \in b..(b + n - 2) : Failed(c[k])
  <2>1. r \in [start : DOMAIN c, length : 2..Len(c)]
    BY DEF Longest
  <2>2. b \in 1..Len(c) /\ n \in 2..Len(c) /\ Len(c) \in Nat /\ DOMAIN c = 1..Len(c)
    BY <2>1
  <2>3. b + n <= Len(c) + 1 /\ \A k \in b..(b + n - 1) : Same(c, b, k)
    BY DEF Longest
  <2> QED BY <2>2, <2>3 DEF Same
<1> HIDE DEF b, n
<1>2. ASSUME NEW k \in b..(b + n - 1) PROVE k \in Mine(c, x)
  <2>1. k \in 1..Len(c)
    BY <1>1
  <2>2. c[k].tool = c[b].tool
    <3>1. Key(c[b]) = Key(c[k])
      BY <1>1
    <3> QED BY <3>1 DEF Key
  <2> QED BY <1>1, <2>1, <2>2 DEF Mine
<1>3. ASSUME NEW k \in R PROVE k \in Retries(c, x)
  <2>1. k \in b..(b + n - 1) /\ k - 1 \in b..(b + n - 1) /\ k - 1 \in b..(b + n - 2)
    BY <1>1
  <2>2. k \in Mine(c, x) /\ k - 1 \in Mine(c, x) /\ Failed(c[k - 1])
    BY <1>1, <1>2, <2>1
  <2> QED BY <2>2 DEF Retries
<1>4. Cardinality(R) = n - 1
  <2>1. b + 1 \in Int /\ b + n - 1 \in Int /\ ~(b + 1 > b + n - 1)
    BY <1>1
  <2>2. Cardinality(R) = (b + n - 1) - (b + 1) + 1
    BY <2>1, FS_Interval
  <2> QED BY <1>1, <2>2
<1>5. R \subseteq Retries(c, x) /\ IsFiniteSet(Retries(c, x))
  BY <1>3, MineFinite
<1> HIDE DEF R
<1>6. Cardinality(R) <= Cardinality(Retries(c, x))
  BY <1>5, FS_Subset
<1>7. Cardinality(Retries(c, x)) \in Nat
  BY <1>5, FS_CardinalityType
<1>8. Cardinality(Retries(c, x)) >= n - 1
  BY <1>1, <1>4, <1>6, <1>7
<1> QED BY <1>8 DEF b, n

\* So the figures of every lane are related in this way.
LEMMA RetriesHold == IInv => RetriesFollowErrors
<1> SUFFICES ASSUME IInv, NEW l \in TwoLanes
             PROVE  LET calls == ToolCalls(run[l])
                        r == LaneReport(l)
                    IN  /\ \A t \in Tools : LET st == r.tools[t]
                                            IN  st.retries <= st.errors /\ (st.calls > 0 => st.retries < st.calls)
                        /\ calls # <<>> /\ Failed(Last(calls)) =>
                             LET st == r.tools[Last(calls).tool] IN st.retries < st.errors
                        /\ \A i \in DOMAIN r.loops :
                             LET lp == r.loops[i]
                                 failing == \A k \in lp.start..(lp.start + lp.length - 2) : Failed(calls[k])
                             IN  failing => r.tools[calls[lp.start].tool].retries >= lp.length - 1
  BY DEF RetriesFollowErrors
<1> DEFINE c == ToolCalls(run[l])
           r == LaneReport(l)
<1>1. c \in Seq(StoredCalls)
  BY StoredFacts, ToolCallsKept
<1>2. r.loops = Loops(c) /\ \A t \in Tools : r.tools[t] = PerTool(c, t)
  BY DEF LaneReport
<1> HIDE DEF c, r
<1>3. \A i \in DOMAIN c : c[i].tool \in Tools
  <2>1. \A i \in DOMAIN c : c[i] \in StoredCalls
    BY <1>1
  <2> QED BY <2>1, StoredFacts
<1>4. ASSUME NEW t \in Tools
      PROVE  LET st == r.tools[t] IN st.retries <= st.errors /\ (st.calls > 0 => st.retries < st.calls)
  <2>1. /\ r.tools[t].calls = Cardinality(Mine(c, t)) /\ r.tools[t].errors = Cardinality(Errors(c, t))
        /\ r.tools[t].retries = Cardinality(Retries(c, t))
    BY <1>2, PerToolIs
  <2>2. Cardinality(Retries(c, t)) <= Cardinality(Errors(c, t))
    BY <1>1, RetriesBelowErrors
  <2>3. Cardinality(Mine(c, t)) > 0 => Mine(c, t) # {}
    BY FS_EmptySet
  <2>4. Mine(c, t) # {} => Cardinality(Retries(c, t)) < Cardinality(Mine(c, t))
    BY <1>1, RetriesBelowCalls
  <2> QED BY <2>1, <2>2, <2>3, <2>4
<1>5. ASSUME c # <<>>, Failed(Last(c)) PROVE LET st == r.tools[Last(c).tool] IN st.retries < st.errors
  <2>1. Last(c) = c[Len(c)] /\ Len(c) \in DOMAIN c
    BY <1>1, <1>5 DEF Last
  <2> DEFINE t == Last(c).tool
  <2>2. t \in Tools
    BY <1>3, <2>1
  <2>3. r.tools[t].errors = Cardinality(Errors(c, t)) /\ r.tools[t].retries = Cardinality(Retries(c, t))
    BY <1>2, <2>2, PerToolIs
  <2>4. Cardinality(Retries(c, t)) < Cardinality(Errors(c, t))
    BY <1>1, <1>5, <2>1, RetriesBelowErrors
  <2> QED BY <2>3, <2>4
<1>6. ASSUME NEW i \in DOMAIN r.loops,
             \A k \in r.loops[i].start..(r.loops[i].start + r.loops[i].length - 2) : Failed(c[k])
      PROVE  r.tools[c[r.loops[i].start].tool].retries >= r.loops[i].length - 1
  <2> DEFINE lp == r.loops[i]
             t == c[lp.start].tool
  <2>1. lp \in Longest(c)
    <3>1. r.loops \in Seq(Longest(c))
      BY <1>1, <1>2, LoopsAreRight
    <3> QED BY <3>1
  <2>2. \A k \in lp.start..(lp.start + lp.length - 2) : Failed(c[k])
    BY <1>6
  <2> HIDE DEF lp
  <2>3. lp.start \in DOMAIN c
    BY <2>1 DEF Longest
  <2>4. t \in Tools
    BY <1>3, <2>3
  <2>5. r.tools[t].retries = Cardinality(Retries(c, t))
    BY <1>2, <2>4, PerToolIs
  <2>6. Cardinality(Retries(c, t)) >= lp.length - 1
    BY <1>1, <2>1, <2>2, RetriesOfLoop
  <2>7. r.tools[t].retries >= lp.length - 1
    BY <2>5, <2>6
  <2> QED BY <2>7 DEF lp
<1> QED BY <1>4, <1>5, <1>6 DEF c, r

\* _per_tool reports no retry without an error of its own just before it, and
\* misses none inside a loop of failing calls that _loops reports.
THEOREM RetriesFollowTheirErrors == Spec => []RetriesFollowErrors
BY Invariance, RetriesHold, PTL

-----------------------------------------------------------------------------
(* Prices, columns of counts and their totals.                               *)

\* A prefix that is not shorter is the whole.
LEMMA PrefixOfSameLength ==
  ASSUME NEW T, NEW a \in Seq(T), NEW b \in Seq(T), IsPrefix(a, b), Len(b) <= Len(a)
  PROVE  a = b
<1>1. Len(a) = Len(b) /\ Len(a) \in Nat /\ SubSeq(a, 1, Len(a)) = SubSeq(b, 1, Len(a))
  BY DEF IsPrefix
<1>2. ASSUME NEW c \in Seq(T) PROVE SubSeq(c, 1, Len(c)) = c
  OBVIOUS
<1> QED BY <1>1, <1>2

\* The longest key that is a prefix of the name is the entry of the vendor.
LEMMA EntryIsVendors == ASSUME NEW m \in Models PROVE ForModel(m) = Vendor[m] /\ Vendor[m] \in Price \cup {None}
<1> DEFINE F == {k \in DOMAIN Prices : IsPrefix(k, m)}
           Best(k) == \A other \in F : Len(other) <= Len(k)
<1>1. {k \in DOMAIN Prices : m # None /\ IsPrefix(k, m)} = F
  BY VendorAssumption
<1>2. CASE F = {}
  <2>1. Vendor[m] = None
    BY <1>2, VendorAssumption
  <2> HIDE DEF F
  <2> QED BY <1>1, <1>2, <2>1 DEF ForModel
<1>3. CASE F # {}
  <2>1. PICK k \in F : Vendor[m] = Prices[k] /\ \A other \in F : IsPrefix(other, k)
    BY <1>3, VendorAssumption
  <2>2. Best(k)
    BY <2>1 DEF IsPrefix
  <2> DEFINE c == CHOOSE j \in F : Best(j)
  <2>3. c \in F /\ Best(c)
    BY <2>2
  <2>4. ForModel(m) = Prices[c]
    BY <1>1, <1>3 DEF ForModel
  <2>5. F \subseteq Seq(STRING) /\ F \subseteq DOMAIN Prices
    BY PriceAssumption
  <2> HIDE DEF c, F
  <2>6. IsPrefix(c, k) /\ Len(k) <= Len(c)
    BY <2>1, <2>3
  <2>7. c = k
    BY <2>1, <2>3, <2>5, <2>6, PrefixOfSameLength
  <2>8. Prices[k] \in Price
    BY <2>1, <2>5, PriceAssumption
  <2> QED BY <2>1, <2>4, <2>7, <2>8
<1> QED BY <1>2, <1>3

-----------------------------------------------------------------------------
\* A column g of events in E holds values in V; the column of the events t.
IsColumn(g, E, V) == g \in [E -> V]
Column(g, t) == [i \in DOMAIN t |-> g[t[i]]]

\* No events have an empty column.
LEMMA ColumnEmpty == ASSUME NEW g PROVE Column(g, <<>>) = <<>>
BY EmptySeq DEF Column

\* An event appended adds its value to the column.
LEMMA ColumnAppend ==
  ASSUME NEW E, NEW V, NEW g, IsColumn(g, E, V), NEW t \in Seq(E), NEW e \in E
  PROVE  /\ Column(g, t) \in Seq(V) /\ g[e] \in V
         /\ Column(g, Append(t, e)) = Append(Column(g, t), g[e])
<1> DEFINE u == Append(t, e)
<1>1. /\ u \in Seq(E) /\ Len(u) = Len(t) + 1 /\ u[Len(t) + 1] = e /\ Len(t) \in Nat
      /\ \A i \in 1..Len(t) : u[i] = t[i]
  BY AppendProperties
<1> HIDE DEF u
<1>2. ASSUME NEW w \in Seq(E) PROVE Column(g, w) \in Seq(V) /\ Len(Column(g, w)) = Len(w)
  <2>1. \A i \in 1..Len(w) : g[w[i]] \in V
    BY DEF IsColumn
  <2>2. DOMAIN w = 1..Len(w) /\ Len(w) \in Nat
    OBVIOUS
  <2> QED BY <2>1, <2>2, IsASeq DEF Column
<1> DEFINE ts == Column(g, t)
           us == Column(g, u)
           vs == Append(ts, g[e])
<1>3. /\ ts \in Seq(V) /\ us \in Seq(V) /\ Len(ts) = Len(t) /\ Len(us) = Len(t) + 1 /\ g[e] \in V
  BY <1>1, <1>2 DEF IsColumn
<1>4. \A i \in 1..(Len(t) + 1) : us[i] = g[u[i]]
  BY <1>1 DEF Column
<1>5. \A i \in 1..Len(t) : ts[i] = g[t[i]]
  BY DEF Column
<1> HIDE DEF ts, us
<1>6. vs \in Seq(V) /\ Len(vs) = Len(t) + 1 /\ vs[Len(t) + 1] = g[e] /\ \A i \in 1..Len(t) : vs[i] = ts[i]
  BY <1>3, AppendProperties
<1> HIDE DEF vs
<1>7. \A i \in 1..(Len(t) + 1) : us[i] = vs[i]
  <2>1. ASSUME NEW i \in 1..(Len(t) + 1) PROVE us[i] = vs[i]
    <3>1. CASE i \in 1..Len(t)
      BY <1>1, <1>4, <1>5, <1>6, <3>1
    <3>2. CASE i = Len(t) + 1
      BY <1>1, <1>4, <1>6, <3>2
    <3> QED BY <1>1, <3>1, <3>2
  <2> QED BY <2>1
<1>8. us = vs
  BY <1>3, <1>6, <1>7, SeqEqual
<1> QED BY <1>3, <1>8 DEF us, vs, ts, u

\* The tokens that a count stands for.
Known(n) == IF n = None THEN 0 ELSE n

\* The counts reported are those that are numbers.
LEMMA ReportsAre == ASSUME NEW ns \in Seq(Maybe(Nat)) PROVE Reports(ns) = Keep(ns, Nat) /\ Reports(ns) \in Seq(Nat)
<1>1. \A i \in DOMAIN ns : ns[i] # None <=> ns[i] \in Nat
  BY NoneElsewhere DEF Maybe
<1>2. {i \in DOMAIN ns : ns[i] # None} = {i \in DOMAIN ns : ns[i] \in Nat}
  BY <1>1
<1>3. Reports(ns) = Keep(ns, Nat)
  BY <1>2 DEF Reports, Select, Keep
<1>4. Keep(ns, Nat) \in Seq(Maybe(Nat) \cap Nat)
  BY KeepIn
<1>5. Maybe(Nat) \cap Nat \subseteq Nat
  OBVIOUS
<1> QED BY <1>3, <1>4, <1>5

\* No calls report nothing and lack nothing.
LEMMA ReportedEmpty == Total(<<>>) = 0 /\ Missing(<<>>) = 0
<1>1. <<>> \in Seq(Maybe(Nat))
  BY EmptySeq
<1>2. Reports(<<>>) = <<>>
  BY <1>1, ReportsAre, KeepEmpty
<1> QED BY <1>2, SumEmpty, EmptySeq DEF Total, Missing

\* A count appended is added if it is given and missing if not.
LEMMA ReportedAppend ==
  ASSUME NEW ns \in Seq(Maybe(Nat)), NEW v \in Maybe(Nat)
  PROVE  /\ Total(ns) \in Nat /\ Missing(ns) \in Nat
         /\ Total(Append(ns, v)) = Total(ns) + Known(v)
         /\ Missing(Append(ns, v)) = IF v = None THEN Missing(ns) + 1 ELSE Missing(ns)
<1> DEFINE ms == Append(ns, v)
           r == Reports(ns)
<1>1. ms \in Seq(Maybe(Nat)) /\ Len(ms) = Len(ns) + 1 /\ Len(ns) \in Nat
  BY AppendProperties
<1>2. r = Keep(ns, Nat) /\ Reports(ms) = Keep(ms, Nat) /\ r \in Seq(Nat)
  BY <1>1, ReportsAre
<1>3. Keep(ms, Nat) = IF v \in Nat THEN Append(Keep(ns, Nat), v) ELSE Keep(ns, Nat)
  BY KeepAppend
<1>4. v \in Nat <=> v # None
  BY NoneElsewhere DEF Maybe
<1>5. /\ Total(ns) = Sum(r) /\ Total(ms) = Sum(Reports(ms))
      /\ Missing(ns) = Len(ns) - Len(r) /\ Missing(ms) = Len(ms) - Len(Reports(ms))
  BY DEF Total, Missing
<1> HIDE DEF ms, r
<1>6. Len(r) \in 0..Len(ns) /\ Sum(r) \in Nat
  <2>1. Len(Keep(ns, Nat)) = Count(ns, Nat) /\ Count(ns, Nat) \in 0..Len(ns)
    BY KeepLen, CountType
  <2> QED BY <1>2, <2>1, SumType
<1>7. CASE v = None
  BY <1>1, <1>2, <1>3, <1>4, <1>5, <1>6, <1>7 DEF ms, Known
<1>8. CASE v # None
  <2>1. Reports(ms) = Append(r, v) /\ v \in Nat
    BY <1>2, <1>3, <1>4, <1>8
  <2>2. Sum(Append(r, v)) = Sum(r) + v /\ Len(Append(r, v)) = Len(r) + 1
    BY <1>2, <2>1, SumAppend, AppendProperties
  <2>3. Total(ms) = Total(ns) + Known(v) /\ Missing(ms) = Missing(ns) /\ Total(ns) \in Nat /\ Missing(ns) \in Nat
    BY <1>1, <1>5, <1>6, <1>8, <2>1, <2>2 DEF Known
  <2> QED BY <1>8, <2>3 DEF ms
<1> QED BY <1>7, <1>8

-----------------------------------------------------------------------------
(* What is reported and what is used.                                        *)

\* The model calls of one model whose counts say all that Accountable asks for.
Accounted(k, m) ==
  {e \in AskedWith(k) : e.used.model = m /\ (e.in # None /\ e.cached = None => e.used.cached = 0)}

Billed(u, price) == u.fresh * price.fresh + u.cached * price.cached + u.out * price.out

\* What the vendor saw of the calls E, as columns.
Seen(E, f) == [e \in E |-> e[f]]
Spent(E, f) == [e \in E |-> e.used[f]]
Bills(E) == [e \in E |-> Billed(e.used, Vendor[e.used.model])]

\* What is reported of such a call is what it used or None.
LEMMA AccountedFields ==
  ASSUME NEW k \in {"openai", "gemini"}, NEW m, NEW e \in Accounted(k, m)
  PROVE  /\ e.used.model = m /\ m \in Models /\ e.used.fresh \in Nat /\ e.used.cached \in Nat /\ e.used.out \in Nat
         /\ e.in \in {e.used.fresh + e.used.cached, None} /\ e.out \in {e.used.out, None}
         /\ e.cached \in {e.used.cached, None}
         /\ e.in # None /\ e.cached = None => e.used.cached = 0
<1>1. e \in AskedWith(k) /\ e.used.model = m /\ (e.in # None /\ e.cached = None => e.used.cached = 0)
  BY DEF Accounted
<1>2. PICK u \in Usage, ms \in Maybe(Millis) : \E r \in Responses(k, u) : e = ModelEvent(u, ExtractUsage(k, r), ms)
  BY <1>1 DEF AskedWith
<1>3. PICK r \in Responses(k, u) : e = ModelEvent(u, ExtractUsage(k, r), ms)
  BY <1>2
<1> DEFINE q == ExtractUsage(k, r)
<1>4. u.model \in Models /\ u.fresh \in Nat /\ u.cached \in Nat /\ u.out \in Nat
  BY EventAssumption DEF Usage
<1>5. q.in \in {u.fresh + u.cached, None} /\ q.out \in {u.out, None} /\ q.cached \in {u.cached, None}
  <2>1. k # "anthropic"
    OBVIOUS
  <2>2. CASE ~r.usage
    BY <2>2 DEF ExtractUsage
  <2>3. CASE r.usage
    <3>1. /\ r.prompt \in {Prompt(k, u), None} /\ r.completion \in {u.out, None}
          /\ r.cached \in {Details(k, u.cached), Details(k, None), None}
      <4>1. r # [usage |-> FALSE]
        BY <2>3
      <4>2. r \in [usage : {TRUE}, prompt : {Prompt(k, u), None}, completion : {u.out, None},
                   cached : {Details(k, u.cached), Details(k, None), None}]
        BY <4>1 DEF Responses
      <4> QED BY <4>2
    <3>2. (IF k = "openai" /\ r.cached # None THEN r.cached.tokens ELSE r.cached) \in {u.cached, None}
      BY <3>1 DEF Details
    <3>3. Prompt(k, u) = u.fresh + u.cached
      BY <2>1 DEF Prompt
    <3> QED BY <2>3, <3>1, <3>2, <3>3 DEF ExtractUsage
  <2>4. r.usage \in BOOLEAN
    <3>1. CASE r = [usage |-> FALSE]
      <4>1. r.usage = FALSE
        BY <3>1
      <4> QED BY <4>1
    <3>2. CASE r \in [usage : {TRUE}, prompt : {Prompt(k, u), None}, completion : {u.out, None},
                      cached : {Details(k, u.cached), Details(k, None), None}]
      BY <3>2
    <3> QED BY <3>1, <3>2 DEF Responses
  <2> QED BY <2>2, <2>3, <2>4
<1> HIDE DEF q
<1>6. e.used = u /\ e.in = q.in /\ e.out = q.out /\ e.cached = q.cached
  BY <1>3 DEF ModelEvent, q
<1> QED BY <1>1, <1>4, <1>5, <1>6

\* The figures of the calls t: what was reported, what was used and what is billed.
Figures(E, t) ==
  [in |-> Total(Column(Seen(E, "in"), t)), cached |-> Total(Column(Seen(E, "cached"), t)),
   out |-> Total(Column(Seen(E, "out"), t)),
   noIn |-> Missing(Column(Seen(E, "in"), t)), noOut |-> Missing(Column(Seen(E, "out"), t)),
   freshUsed |-> Sum(Column(Spent(E, "fresh"), t)), cachedUsed |-> Sum(Column(Spent(E, "cached"), t)),
   outUsed |-> Sum(Column(Spent(E, "out"), t)), bill |-> Sum(Column(Bills(E), t))]

Tallied(f, price) ==
  /\ f.in \in Nat /\ f.cached \in Nat /\ f.out \in Nat /\ f.noIn \in Nat /\ f.noOut \in Nat
  /\ f.freshUsed \in Nat /\ f.cachedUsed \in Nat /\ f.outUsed \in Nat
  /\ f.in <= f.freshUsed + f.cached /\ f.cached <= f.cachedUsed /\ f.out <= f.outUsed
  /\ f.noIn = 0 => f.in = f.freshUsed + f.cachedUsed /\ f.cached = f.cachedUsed
  /\ f.noOut = 0 => f.out = f.outUsed
  /\ f.bill = f.freshUsed * price.fresh + f.cachedUsed * price.cached + f.outUsed * price.out

\* The figures of no calls are 0.
LEMMA FiguresEmpty == ASSUME NEW E, NEW price \in Price PROVE Tallied(Figures(E, <<>>), price)
<1> DEFINE f == Figures(E, <<>>)
<1>1. price.fresh \in Nat /\ price.cached \in Nat /\ price.out \in Nat
  BY DEF Price
<1>2. /\ f.in = 0 /\ f.cached = 0 /\ f.out = 0 /\ f.noIn = 0 /\ f.noOut = 0 /\ f.freshUsed = 0
      /\ f.cachedUsed = 0 /\ f.outUsed = 0 /\ f.bill = 0
  BY ColumnEmpty, ReportedEmpty, SumEmpty DEF Figures
<1> HIDE DEF f
<1>3. f.bill = f.freshUsed * price.fresh + f.cachedUsed * price.cached + f.outUsed * price.out
  <2>1. 0 * price.fresh = 0 /\ 0 * price.cached = 0 /\ 0 * price.out = 0
    BY <1>1
  <2> QED BY <1>2, <2>1
<1>4. Tallied(f, price)
  BY <1>2, <1>3 DEF Tallied
<1> QED BY <1>4 DEF f

\* A bill is a number.
LEMMA BilledType ==
  ASSUME NEW u, u.fresh \in Nat, u.cached \in Nat, u.out \in Nat, NEW price \in Price
  PROVE  Billed(u, price) \in Nat
BY DEF Price, Billed

\* Bounds on totals and on one call are bounds on the new totals.
LEMMA OneMore ==
  ASSUME NEW i \in Nat, NEW c \in Nat, NEW o \in Nat, NEW fu \in Nat, NEW cu \in Nat, NEW ou \in Nat,
         NEW ki \in Nat, NEW kc \in Nat, NEW ko \in Nat, NEW uf \in Nat, NEW uc \in Nat, NEW uo \in Nat,
         i <= fu + c, c <= cu, o <= ou, ki <= uf + kc, kc <= uc, ko <= uo
  PROVE  /\ i + ki \in Nat /\ c + kc \in Nat /\ o + ko \in Nat
         /\ fu + uf \in Nat /\ cu + uc \in Nat /\ ou + uo \in Nat
         /\ i + ki <= (fu + uf) + (c + kc) /\ c + kc <= cu + uc /\ o + ko <= ou + uo
OBVIOUS

\* Multiplication distributes over addition.
LEMMA MoreOf == ASSUME NEW a \in Nat, NEW b \in Nat, NEW c \in Nat PROVE (a + b) * c = a * c + b * c
OBVIOUS

\* One more call, of what it used and reported.
LEMMA FiguresAppend ==
  ASSUME NEW k \in {"openai", "gemini"}, NEW m, NEW price \in Price, Vendor[m] = price,
         NEW E, E = Accounted(k, m), NEW t \in Seq(E), NEW e \in E
  PROVE  LET f == Figures(E, t)
             g == Figures(E, Append(t, e))
         IN  /\ g.in = f.in + Known(e.in) /\ g.cached = f.cached + Known(e.cached) /\ g.out = f.out + Known(e.out)
             /\ g.noIn = (IF e.in = None THEN f.noIn + 1 ELSE f.noIn)
             /\ g.noOut = (IF e.out = None THEN f.noOut + 1 ELSE f.noOut)
             /\ g.freshUsed = f.freshUsed + e.used.fresh /\ g.cachedUsed = f.cachedUsed + e.used.cached
             /\ g.outUsed = f.outUsed + e.used.out /\ g.bill = f.bill + Billed(e.used, price)
             /\ f.bill \in Nat
<1>1. ASSUME NEW d \in E
      PROVE  /\ d.in \in Maybe(Nat) /\ d.cached \in Maybe(Nat) /\ d.out \in Maybe(Nat)
             /\ d.used.fresh \in Nat /\ d.used.cached \in Nat /\ d.used.out \in Nat
             /\ Billed(d.used, Vendor[d.used.model]) = Billed(d.used, price) /\ Billed(d.used, price) \in Nat
  <2>1. /\ d.used.model = m /\ d.used.fresh \in Nat /\ d.used.cached \in Nat /\ d.used.out \in Nat
        /\ d.in \in {d.used.fresh + d.used.cached, None} /\ d.out \in {d.used.out, None}
        /\ d.cached \in {d.used.cached, None}
    BY AccountedFields
  <2>2. Billed(d.used, price) \in Nat
    BY <2>1, BilledType
  <2> QED BY <2>1, <2>2 DEF Maybe
<1>2. ASSUME NEW f \in {"in", "cached", "out"}
      PROVE  /\ Column(Seen(E, f), t) \in Seq(Maybe(Nat)) /\ e[f] \in Maybe(Nat)
             /\ Column(Seen(E, f), Append(t, e)) = Append(Column(Seen(E, f), t), e[f])
  <2> DEFINE g == Seen(E, f)
  <2>1. IsColumn(g, E, Maybe(Nat)) /\ g[e] = e[f]
    BY <1>1 DEF Seen, IsColumn
  <2> HIDE DEF g
  <2>2. Column(g, t) \in Seq(Maybe(Nat)) /\ g[e] \in Maybe(Nat) /\ Column(g, Append(t, e)) = Append(Column(g, t), g[e])
    BY <2>1, ColumnAppend
  <2> QED BY <2>1, <2>2 DEF g
<1>3. ASSUME NEW f \in {"fresh", "cached", "out"}
      PROVE  /\ Column(Spent(E, f), t) \in Seq(Nat) /\ e.used[f] \in Nat
             /\ Column(Spent(E, f), Append(t, e)) = Append(Column(Spent(E, f), t), e.used[f])
  <2> DEFINE g == Spent(E, f)
  <2>1. IsColumn(g, E, Nat) /\ g[e] = e.used[f]
    BY <1>1 DEF Spent, IsColumn
  <2> HIDE DEF g
  <2>2. Column(g, t) \in Seq(Nat) /\ g[e] \in Nat /\ Column(g, Append(t, e)) = Append(Column(g, t), g[e])
    BY <2>1, ColumnAppend
  <2> QED BY <2>1, <2>2 DEF g
<1>4. /\ Column(Bills(E), t) \in Seq(Nat) /\ Billed(e.used, price) \in Nat
      /\ Column(Bills(E), Append(t, e)) = Append(Column(Bills(E), t), Billed(e.used, price))
  <2> DEFINE g == Bills(E)
  <2>1. IsColumn(g, E, Nat) /\ g[e] = Billed(e.used, price)
    BY <1>1 DEF Bills, IsColumn
  <2> HIDE DEF g
  <2>2. Column(g, t) \in Seq(Nat) /\ g[e] \in Nat /\ Column(g, Append(t, e)) = Append(Column(g, t), g[e])
    BY <2>1, ColumnAppend
  <2> QED BY <2>1, <2>2 DEF g
<1> DEFINE f == Figures(E, t)
           g == Figures(E, Append(t, e))
<1>5. /\ f.in = Total(Column(Seen(E, "in"), t)) /\ g.in = Total(Column(Seen(E, "in"), Append(t, e)))
      /\ f.noIn = Missing(Column(Seen(E, "in"), t)) /\ g.noIn = Missing(Column(Seen(E, "in"), Append(t, e)))
  BY DEF Figures
<1>6. /\ f.out = Total(Column(Seen(E, "out"), t)) /\ g.out = Total(Column(Seen(E, "out"), Append(t, e)))
      /\ f.noOut = Missing(Column(Seen(E, "out"), t)) /\ g.noOut = Missing(Column(Seen(E, "out"), Append(t, e)))
      /\ f.cached = Total(Column(Seen(E, "cached"), t)) /\ g.cached = Total(Column(Seen(E, "cached"), Append(t, e)))
  BY DEF Figures
<1>7. /\ f.freshUsed = Sum(Column(Spent(E, "fresh"), t)) /\ g.freshUsed = Sum(Column(Spent(E, "fresh"), Append(t, e)))
      /\ f.cachedUsed = Sum(Column(Spent(E, "cached"), t)) /\ g.cachedUsed = Sum(Column(Spent(E, "cached"), Append(t, e)))
      /\ f.outUsed = Sum(Column(Spent(E, "out"), t)) /\ g.outUsed = Sum(Column(Spent(E, "out"), Append(t, e)))
      /\ f.bill = Sum(Column(Bills(E), t)) /\ g.bill = Sum(Column(Bills(E), Append(t, e)))
  BY DEF Figures
<1> HIDE DEF f, g
<1>8. g.in = f.in + Known(e.in) /\ g.noIn = (IF e.in = None THEN f.noIn + 1 ELSE f.noIn)
  <2> DEFINE ns == Column(Seen(E, "in"), t)
  <2>1. ns \in Seq(Maybe(Nat)) /\ e.in \in Maybe(Nat) /\ Column(Seen(E, "in"), Append(t, e)) = Append(ns, e.in)
    BY <1>2
  <2>2. f.in = Total(ns) /\ f.noIn = Missing(ns) /\ g.in = Total(Append(ns, e.in)) /\ g.noIn = Missing(Append(ns, e.in))
    BY <1>5, <2>1
  <2> HIDE DEF ns
  <2> QED BY <2>1, <2>2, ReportedAppend
<1>9. g.out = f.out + Known(e.out) /\ g.noOut = (IF e.out = None THEN f.noOut + 1 ELSE f.noOut)
  <2> DEFINE ns == Column(Seen(E, "out"), t)
  <2>1. ns \in Seq(Maybe(Nat)) /\ e.out \in Maybe(Nat) /\ Column(Seen(E, "out"), Append(t, e)) = Append(ns, e.out)
    BY <1>2
  <2>2. f.out = Total(ns) /\ f.noOut = Missing(ns) /\ g.out = Total(Append(ns, e.out)) /\ g.noOut = Missing(Append(ns, e.out))
    BY <1>6, <2>1
  <2> HIDE DEF ns
  <2> QED BY <2>1, <2>2, ReportedAppend
<1>10. g.cached = f.cached + Known(e.cached)
  <2> DEFINE ns == Column(Seen(E, "cached"), t)
  <2>1. ns \in Seq(Maybe(Nat)) /\ e.cached \in Maybe(Nat) /\ Column(Seen(E, "cached"), Append(t, e)) = Append(ns, e.cached)
    BY <1>2
  <2>2. f.cached = Total(ns) /\ g.cached = Total(Append(ns, e.cached))
    BY <1>6, <2>1
  <2> HIDE DEF ns
  <2> QED BY <2>1, <2>2, ReportedAppend
<1>11. g.freshUsed = f.freshUsed + e.used.fresh /\ g.cachedUsed = f.cachedUsed + e.used.cached
       /\ g.outUsed = f.outUsed + e.used.out
  <2>1. Sum(Column(Spent(E, "fresh"), Append(t, e))) = Sum(Column(Spent(E, "fresh"), t)) + e.used.fresh
    BY <1>3, SumAppend
  <2>2. Sum(Column(Spent(E, "cached"), Append(t, e))) = Sum(Column(Spent(E, "cached"), t)) + e.used.cached
    BY <1>3, SumAppend
  <2>3. Sum(Column(Spent(E, "out"), Append(t, e))) = Sum(Column(Spent(E, "out"), t)) + e.used.out
    BY <1>3, SumAppend
  <2> QED BY <1>7, <2>1, <2>2, <2>3
<1>12. g.bill = f.bill + Billed(e.used, price) /\ f.bill \in Nat
  BY <1>4, <1>7, SumAppend, SumType
<1> QED BY <1>8, <1>9, <1>10, <1>11, <1>12 DEF f, g

\* So the figures of any calls bound each other: what is missing only lowers them.
LEMMA Tally ==
  ASSUME NEW k \in {"openai", "gemini"}, NEW m, NEW price \in Price, Vendor[m] = price
  PROVE  \A t \in Seq(Accounted(k, m)) : Tallied(Figures(Accounted(k, m), t), price)
<1> DEFINE E == Accounted(k, m)
           P == {t \in Seq(E) : Tallied(Figures(E, t), price)}
<1>1. <<>> \in P
  BY FiguresEmpty, EmptySeq
<1>2. ASSUME NEW t \in Seq(E), NEW e \in E, t \in P PROVE Append(t, e) \in P
  <2> DEFINE f == Figures(E, t)
             g == Figures(E, Append(t, e))
             u == e.used
  <2>1. Tallied(f, price)
    BY <1>2
  <2>2. /\ u.fresh \in Nat /\ u.cached \in Nat /\ u.out \in Nat
        /\ e.in \in {u.fresh + u.cached, None} /\ e.out \in {u.out, None} /\ e.cached \in {u.cached, None}
        /\ e.in # None /\ e.cached = None => u.cached = 0
    BY AccountedFields
  <2>3. /\ g.in = f.in + Known(e.in) /\ g.cached = f.cached + Known(e.cached) /\ g.out = f.out + Known(e.out)
        /\ g.noIn = (IF e.in = None THEN f.noIn + 1 ELSE f.noIn)
        /\ g.noOut = (IF e.out = None THEN f.noOut + 1 ELSE f.noOut)
        /\ g.freshUsed = f.freshUsed + u.fresh /\ g.cachedUsed = f.cachedUsed + u.cached
        /\ g.outUsed = f.outUsed + u.out /\ g.bill = f.bill + Billed(u, price)
    BY FiguresAppend
  <2>4. None \notin Nat
    BY NoneElsewhere
  <2>5. price.fresh \in Nat /\ price.cached \in Nat /\ price.out \in Nat
    BY DEF Price
  <2> HIDE DEF f, g, u
  <2>6. /\ Known(e.in) = (IF e.in = None THEN 0 ELSE u.fresh + u.cached)
        /\ Known(e.cached) = (IF e.cached = None THEN 0 ELSE u.cached)
        /\ Known(e.out) = (IF e.out = None THEN 0 ELSE u.out)
    BY <2>2, <2>4 DEF Known
  <2>7. /\ f.in \in Nat /\ f.cached \in Nat /\ f.out \in Nat /\ f.noIn \in Nat /\ f.noOut \in Nat
        /\ f.freshUsed \in Nat /\ f.cachedUsed \in Nat /\ f.outUsed \in Nat
        /\ f.in <= f.freshUsed + f.cached /\ f.cached <= f.cachedUsed /\ f.out <= f.outUsed
        /\ f.noIn = 0 => f.in = f.freshUsed + f.cachedUsed /\ f.cached = f.cachedUsed
        /\ f.noOut = 0 => f.out = f.outUsed
    BY <2>1 DEF Tallied
  <2> DEFINE ki == Known(e.in)
             kc == Known(e.cached)
             ko == Known(e.out)
  <2>8. ki \in Nat /\ kc \in Nat /\ ko \in Nat /\ ki <= u.fresh + kc /\ kc <= u.cached /\ ko <= u.out
    BY <2>2, <2>6
  <2>9. /\ g.in = f.in + ki /\ g.cached = f.cached + kc /\ g.out = f.out + ko
         /\ g.freshUsed = f.freshUsed + u.fresh /\ g.cachedUsed = f.cachedUsed + u.cached
         /\ g.outUsed = f.outUsed + u.out
    BY <2>3
  <2>10. g.noIn \in Nat /\ g.noOut \in Nat
    BY <2>3, <2>7
  <2>11. u.fresh \in Nat /\ u.cached \in Nat /\ u.out \in Nat
    BY <2>2
  <2> HIDE DEF ki, kc, ko
  <2>12. /\ f.in + ki \in Nat /\ f.cached + kc \in Nat /\ f.out + ko \in Nat
         /\ f.freshUsed + u.fresh \in Nat /\ f.cachedUsed + u.cached \in Nat /\ f.outUsed + u.out \in Nat
         /\ f.in + ki <= (f.freshUsed + u.fresh) + (f.cached + kc) /\ f.cached + kc <= f.cachedUsed + u.cached
         /\ f.out + ko <= f.outUsed + u.out
    <3> DEFINE i == f.in
               c == f.cached
               o == f.out
               fu == f.freshUsed
               cu == f.cachedUsed
               ou == f.outUsed
               uf == u.fresh
               uc == u.cached
               uo == u.out
    <3>1. /\ i \in Nat /\ c \in Nat /\ o \in Nat /\ fu \in Nat /\ cu \in Nat /\ ou \in Nat
          /\ uf \in Nat /\ uc \in Nat /\ uo \in Nat
          /\ i <= fu + c /\ c <= cu /\ o <= ou /\ ki <= uf + kc /\ kc <= uc /\ ko <= uo
      BY <2>7, <2>8, <2>11
    <3> HIDE DEF i, c, o, fu, cu, ou, uf, uc, uo
    <3>2. /\ i + ki \in Nat /\ c + kc \in Nat /\ o + ko \in Nat
          /\ fu + uf \in Nat /\ cu + uc \in Nat /\ ou + uo \in Nat
          /\ i + ki <= (fu + uf) + (c + kc) /\ c + kc <= cu + uc /\ o + ko <= ou + uo
      BY <2>8, <3>1, OneMore
    <3> QED BY <3>2 DEF i, c, o, fu, cu, ou, uf, uc, uo
  <2>13. /\ g.in \in Nat /\ g.cached \in Nat /\ g.out \in Nat /\ g.noIn \in Nat /\ g.noOut \in Nat
        /\ g.freshUsed \in Nat /\ g.cachedUsed \in Nat /\ g.outUsed \in Nat
    BY <2>9, <2>10, <2>12
  <2>14. g.in <= g.freshUsed + g.cached /\ g.cached <= g.cachedUsed /\ g.out <= g.outUsed
    BY <2>9, <2>12
  <2>15. g.noIn = 0 => g.in = g.freshUsed + g.cachedUsed /\ g.cached = g.cachedUsed
    <3>1. g.noIn = 0 => e.in # None /\ f.noIn = 0
      BY <2>3, <2>7
    <3>2. e.in # None => ki = u.fresh + u.cached /\ kc = u.cached
      BY <2>2, <2>6 DEF ki, kc
    <3>3. f.noIn = 0 => f.in = f.freshUsed + f.cachedUsed /\ f.cached = f.cachedUsed
      BY <2>7
    <3>4. /\ f.freshUsed \in Nat /\ f.cachedUsed \in Nat
      BY <2>7
    <3> QED BY <2>9, <2>11, <3>1, <3>2, <3>3, <3>4
  <2>16. g.noOut = 0 => g.out = g.outUsed
    BY <2>2, <2>3, <2>6, <2>7
  <2>17. g.bill = g.freshUsed * price.fresh + g.cachedUsed * price.cached + g.outUsed * price.out
    <3>1. f.bill = f.freshUsed * price.fresh + f.cachedUsed * price.cached + f.outUsed * price.out
      BY <2>1 DEF Tallied
    <3>2. Billed(u, price) = u.fresh * price.fresh + u.cached * price.cached + u.out * price.out
      BY DEF Billed
    <3>3. /\ (f.freshUsed + u.fresh) * price.fresh = f.freshUsed * price.fresh + u.fresh * price.fresh
          /\ (f.cachedUsed + u.cached) * price.cached = f.cachedUsed * price.cached + u.cached * price.cached
          /\ (f.outUsed + u.out) * price.out = f.outUsed * price.out + u.out * price.out
      <4>1. f.freshUsed \in Nat /\ f.cachedUsed \in Nat /\ f.outUsed \in Nat
        BY <2>7
      <4>2. (f.freshUsed + u.fresh) * price.fresh = f.freshUsed * price.fresh + u.fresh * price.fresh
        BY <2>5, <2>11, <4>1, MoreOf
      <4>3. (f.cachedUsed + u.cached) * price.cached = f.cachedUsed * price.cached + u.cached * price.cached
        BY <2>5, <2>11, <4>1, MoreOf
      <4>4. (f.outUsed + u.out) * price.out = f.outUsed * price.out + u.out * price.out
        BY <2>5, <2>11, <4>1, MoreOf
      <4> QED BY <4>2, <4>3, <4>4
    <3> DEFINE a == f.freshUsed * price.fresh
               b == f.cachedUsed * price.cached
               c == f.outUsed * price.out
               x == u.fresh * price.fresh
               y == u.cached * price.cached
               z == u.out * price.out
    <3>4. a \in Nat /\ b \in Nat /\ c \in Nat /\ x \in Nat /\ y \in Nat /\ z \in Nat
      <4>1. \A v, w \in Nat : v * w \in Nat
        OBVIOUS
      <4>2. f.freshUsed \in Nat /\ f.cachedUsed \in Nat /\ f.outUsed \in Nat
        BY <2>7
      <4> QED BY <2>5, <2>11, <4>1, <4>2
    <3>5. g.bill = (a + b + c) + (x + y + z)
      BY <2>3, <3>1, <3>2
    <3>6. /\ g.freshUsed * price.fresh = a + x /\ g.cachedUsed * price.cached = b + y
          /\ g.outUsed * price.out = c + z
      BY <2>3, <3>3
    <3> HIDE DEF a, b, c, x, y, z
    <3> QED BY <3>4, <3>5, <3>6
  <2>18. Tallied(g, price)
    BY <2>13, <2>14, <2>15, <2>16, <2>17 DEF Tallied
  <2>19. Append(t, e) \in Seq(E)
    BY AppendProperties
  <2> HIDE DEF E
  <2> QED BY <2>18, <2>19 DEF g
<1> HIDE DEF P, E
<1>3. \A t \in Seq(E) : t \in P
  BY <1>1, <1>2, SeqInd
<1> QED BY <1>3 DEF P, E

-----------------------------------------------------------------------------
(* The cost of a lane.                                                       *)

\* More tokens cost at least as much.
LEMMA MoreCostsMore ==
  ASSUME NEW a \in Nat, NEW b \in Nat, a <= b, NEW c \in Nat
  PROVE  a * c \in Nat /\ b * c \in Nat /\ a * c <= b * c
<1>1. PICK d \in Nat : b = a + d
  <2>1. b - a \in Nat /\ b = a + (b - a)
    OBVIOUS
  <2> QED BY <2>1
<1>2. (a + d) * c = a * c + d * c
  BY MoreOf
<1>3. a * c \in Nat /\ d * c \in Nat
  OBVIOUS
<1> DEFINE x == a * c
           y == d * c
<1>4. x \in Nat /\ y \in Nat /\ b * c = x + y
  BY <1>1, <1>2, <1>3
<1> HIDE DEF x, y
<1>5. x + y \in Nat /\ x <= x + y
  BY <1>4
<1> QED BY <1>4, <1>5 DEF x

\* What is charged for tallied figures is at most the bill, and the bill if no count is missing.
LEMMA ChargedBounds ==
  ASSUME NEW price \in Price, NEW f, Tallied(f, price),
         NEW t, t.in = f.in, t.cached = f.cached, t.out = f.out
  PROVE  /\ Charged(t, price) <= f.bill
         /\ f.noIn = 0 /\ f.noOut = 0 => Charged(t, price) = f.bill
<1> DEFINE i == f.in
           c == f.cached
           o == f.out
           fu == f.freshUsed
           cu == f.cachedUsed
           ou == f.outUsed
           pf == price.fresh
           pc == price.cached
           po == price.out
           fresh == IF i < c THEN 0 ELSE i - c
<1>1. /\ i \in Nat /\ c \in Nat /\ o \in Nat /\ fu \in Nat /\ cu \in Nat /\ ou \in Nat
      /\ i <= fu + c /\ c <= cu /\ o <= ou
      /\ f.bill = fu * pf + cu * pc + ou * po
      /\ f.noIn = 0 => i = fu + cu /\ c = cu
      /\ f.noOut = 0 => o = ou
  BY DEF Tallied
<1>2. pf \in Nat /\ pc \in Nat /\ po \in Nat
  BY DEF Price
<1>3. Charged(t, price) = fresh * pf + c * pc + o * po
  BY DEF Charged
<1> HIDE DEF i, c, o, fu, cu, ou, pf, pc, po
<1>4. fresh \in Nat /\ fresh <= fu
  BY <1>1
<1> HIDE DEF fresh
<1> DEFINE x == fresh * pf
           y == c * pc
           z == o * po
           xb == fu * pf
           yb == cu * pc
           zb == ou * po
<1>5. x \in Nat /\ xb \in Nat /\ x <= xb
  BY <1>1, <1>2, <1>4, MoreCostsMore
<1>6. y \in Nat /\ yb \in Nat /\ y <= yb
  BY <1>1, <1>2, MoreCostsMore
<1>7. z \in Nat /\ zb \in Nat /\ z <= zb
  BY <1>1, <1>2, MoreCostsMore
<1>8. Charged(t, price) = x + y + z /\ f.bill = xb + yb + zb
  BY <1>1, <1>3
<1>9. ASSUME f.noIn = 0, f.noOut = 0 PROVE x = xb /\ y = yb /\ z = zb
  <2>1. i = fu + cu /\ c = cu /\ o = ou
    BY <1>1, <1>9
  <2>2. fresh = fu
    BY <1>1, <2>1 DEF fresh
  <2> QED BY <2>1, <2>2
<1> HIDE DEF x, y, z, xb, yb, zb
<1>10. x + y + z <= xb + yb + zb
  BY <1>5, <1>6, <1>7
<1> QED BY <1>8, <1>9, <1>10

\* The model calls of a lane are calls that happen.
LEMMA ModelCallsKept ==
  ASSUME IInv, NEW l \in TwoLanes
  PROVE  ModelCalls(run[l]) \in Seq(AskedWith(sdk))
<1> DEFINE t == run[l]
           I == {i \in DOMAIN t : ~IsTool(t[i])}
<1>1. t \in Seq(Happened)
  BY StoredFacts
<1>2. ModelCalls(t) = Picked(t, I)
  BY DEF ModelCalls, Select
<1> HIDE DEF t
<1>3. \A i \in DOMAIN t : i \in I <=> t[i] \in Asked
  BY <1>1 DEF Asked
<1> HIDE DEF I
<1>4. ModelCalls(t) = Keep(t, Asked)
  BY <1>1, <1>2, <1>3, Chosen
<1>5. Keep(t, Asked) \in Seq(Happened \cap Asked)
  BY <1>1, KeepIn
<1>6. Happened \cap Asked \subseteq AskedWith(sdk)
  <2>1. \A e \in StoredCalls : IsTool(e)
    BY CallFields DEF StoredCalls
  <2> QED BY <2>1 DEF Happened, Asked
<1> QED BY <1>4, <1>5, <1>6 DEF t

\* The cost is charged for the totals, at the price of the last model observed.
LEMMA CostOfLane ==
  ASSUME NEW lane, NEW requested, NEW asked, asked = ModelCalls(lane), asked # <<>>,
         NEW m \in Models, m = Last(asked).used.model
  PROVE  LET cost == CostForLane(lane, requested)
             col(f) == [i \in DOMAIN asked |-> asked[i][f]]
             t == TokenTotals(lane)
         IN  /\ t.in = Total(col("in")) /\ t.cached = Total(col("cached")) /\ t.out = Total(col("out"))
             /\ cost.priced <=> Vendor[m] # None
             /\ cost.incomplete <=> ~(Missing(col("in")) = 0 /\ Missing(col("out")) = 0)
             /\ Vendor[m] # None => cost.total = Charged(t, Vendor[m])
<1> DEFINE cost == CostForLane(lane, requested)
           col(f) == [i \in DOMAIN asked |-> asked[i][f]]
           t == TokenTotals(lane)
<1>1. ModelOf(lane, requested) = m
  BY DEF ModelOf
<1>2. ForModel(m) = Vendor[m]
  BY EntryIsVendors
<1>3. /\ cost.priced = (ForModel(m) # None) /\ cost.incomplete = ~t.complete
      /\ cost.total = IF ForModel(m) = None THEN None ELSE Charged(t, ForModel(m))
  BY <1>1 DEF CostForLane
<1>4. /\ t.in = Total(col("in")) /\ t.cached = Total(col("cached")) /\ t.out = Total(col("out"))
      /\ t.complete = (Missing(col("in")) = 0 /\ Missing(col("out")) = 0)
  BY DEF TokenTotals
<1> HIDE DEF cost, t, col
<1>5. (cost.priced <=> Vendor[m] # None) /\ (Vendor[m] # None => cost.total = Charged(t, Vendor[m]))
  BY <1>2, <1>3
<1>6. cost.incomplete <=> ~(Missing(col("in")) = 0 /\ Missing(col("out")) = 0)
  BY <1>3, <1>4
<1> QED BY <1>4, <1>5, <1>6 DEF cost, t, col

\* So it is at most the bill, if the calls can be accounted for.
LEMMA CostHolds == IInv => CostBoundsTheBill
<1> SUFFICES ASSUME IInv, NEW l \in TwoLanes, ModelCalls(run[l]) # <<>>
             PROVE  LET asked == ModelCalls(run[l])
                        cost == LaneReport(l).cost
                    IN  /\ cost.priced <=> Vendor[Last(asked).used.model] # None
                        /\ Accountable(asked) /\ cost.priced =>
                             /\ cost.total <= Bill(asked)
                             /\ ~cost.incomplete => cost.total = Bill(asked)
  BY DEF CostBoundsTheBill
<1> DEFINE lane == run[l]
           asked == ModelCalls(lane)
           cost == LaneReport(l).cost
           m == Last(asked).used.model
           t == TokenTotals(lane)
           col(f) == [i \in DOMAIN asked |-> asked[i][f]]
<1>1. asked \in Seq(AskedWith(sdk)) /\ asked # <<>>
  BY ModelCallsKept
<1>2. cost = CostForLane(lane, load.requested[l])
  BY DEF LaneReport
<1>3. asked = ModelCalls(lane)
  OBVIOUS
<1>4. sdk \in {"openai", "anthropic", "gemini"}
  BY WorkloadFacts DEF IInv
<1> HIDE DEF cost, lane, asked
<1>5. m \in Models /\ \A i \in DOMAIN asked : asked[i] \in AskedWith(sdk)
  <2>1. Len(asked) \in DOMAIN asked /\ Last(asked) = asked[Len(asked)]
    BY <1>1 DEF Last
  <2>2. Last(asked) \in AskedWith(sdk)
    BY <1>1, <2>1
  <2>3. \A e \in AskedWith(sdk) : e.used.model \in Models
    <3>1. SUFFICES ASSUME NEW e \in AskedWith(sdk) PROVE e.used.model \in Models
      OBVIOUS
    <3>2. PICK u \in Usage, ms \in Maybe(Millis) : \E r \in Responses(sdk, u) : e = ModelEvent(u, ExtractUsage(sdk, r), ms)
      BY <3>1 DEF AskedWith
    <3>3. \E q : e = ModelEvent(u, q, ms)
      BY <3>2
    <3>4. e.used = u
      BY <3>3 DEF ModelEvent
    <3> QED BY <3>4 DEF Usage
  <2> QED BY <1>1, <2>2, <2>3
<1>6. /\ t.in = Total(col("in")) /\ t.cached = Total(col("cached")) /\ t.out = Total(col("out"))
      /\ cost.priced <=> Vendor[m] # None
      /\ cost.incomplete <=> ~(Missing(col("in")) = 0 /\ Missing(col("out")) = 0)
      /\ Vendor[m] # None => cost.total = Charged(t, Vendor[m])
  <2> HIDE DEF m
  <2>1. m = Last(asked).used.model
    BY DEF m
  <2> QED BY <1>1, <1>2, <1>3, <1>5, <2>1, CostOfLane
<1>7. ASSUME Accountable(asked), cost.priced
      PROVE  cost.total <= Bill(asked) /\ (~cost.incomplete => cost.total = Bill(asked))
  <2> DEFINE E == Accounted(sdk, m)
             price == Vendor[m]
             f == Figures(E, asked)
  <2>1. sdk \in {"openai", "gemini"}
    BY <1>4, <1>7 DEF Accountable
  <2>2. price \in Price
    <3>1. Vendor[m] # None /\ Vendor[m] \in Price \cup {None}
      BY <1>5, <1>6, <1>7, EntryIsVendors
    <3> QED BY <3>1
  <2>3. \A i \in DOMAIN asked : asked[i] \in E
    BY <1>5, <1>7 DEF Accountable, Accounted
  <2>4. asked \in Seq(E)
    <3>1. asked = [i \in 1..Len(asked) |-> asked[i]] /\ Len(asked) \in Nat /\ DOMAIN asked = 1..Len(asked)
      BY <1>1
    <3> HIDE DEF E
    <3>2. [i \in 1..Len(asked) |-> asked[i]] \in Seq(E)
      BY <2>3, <3>1, IsASeq
    <3> QED BY <3>1, <3>2
  <2>5. Tallied(f, price)
    <3> HIDE DEF m
    <3> QED BY <2>1, <2>2, <2>4, Tally
  <2>6. /\ Column(Seen(E, "in"), asked) = col("in") /\ Column(Seen(E, "cached"), asked) = col("cached")
        /\ Column(Seen(E, "out"), asked) = col("out")
    <3> HIDE DEF E
    <3> QED BY <2>3 DEF Column, Seen
  <2>7. f.bill = Bill(asked)
    <3> HIDE DEF E
    <3>1. Column(Bills(E), asked) = [i \in DOMAIN asked |-> Billed(asked[i].used, Vendor[asked[i].used.model])]
      BY <2>3 DEF Column, Bills
    <3>2. Bill(asked) = Sum([i \in DOMAIN asked |-> Billed(asked[i].used, Vendor[asked[i].used.model])])
      BY DEF Bill, Billed
    <3>3. f.bill = Sum(Column(Bills(E), asked))
      BY DEF Figures
    <3> QED BY <3>1, <3>2, <3>3
  <2>8. /\ f.in = Total(col("in")) /\ f.cached = Total(col("cached")) /\ f.out = Total(col("out"))
        /\ f.noIn = Missing(col("in")) /\ f.noOut = Missing(col("out"))
    <3> HIDE DEF E, col
    <3> QED BY <2>6 DEF Figures
  <2> HIDE DEF E, f, price, m, col, t
  <2>9. t.in = f.in /\ t.cached = f.cached /\ t.out = f.out
    BY <1>6, <2>8
  <2>10. Charged(t, price) <= f.bill /\ (f.noIn = 0 /\ f.noOut = 0 => Charged(t, price) = f.bill)
    BY <2>2, <2>5, <2>9, ChargedBounds
  <2>11. cost.total = Charged(t, price)
    BY <1>6, <1>7 DEF price
  <2>12. ~cost.incomplete => f.noIn = 0 /\ f.noOut = 0
    BY <1>6, <2>8
  <2> QED BY <2>7, <2>10, <2>11, <2>12
<1> QED BY <1>6, <1>7 DEF cost, asked, lane

\* cost_for_lane is a lower bound on what the vendor bills whichever counts the
\* provider left out, and the bill itself unless it is marked incomplete, for any table
\* of prices that has the entries of the vendor (VendorAssumption).
THEOREM CostIsALowerBound == Spec => []CostBoundsTheBill
BY Invariance, CostHolds, PTL

=============================================================================
