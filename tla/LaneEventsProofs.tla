--------------------------- MODULE LaneEventsProofs ---------------------------
(***************************************************************************)
(* What the definitions of LaneEvents return for sequences of any length.  *)
(* The induction theorems of the library take an operator; here a property *)
(* is the set of the sequences that have it, and induction over sequences  *)
(* is one lemma, from the least number in a set.                           *)
(***************************************************************************)
EXTENDS LaneEvents, FiniteSetTheorems, SequenceTheorems, WellFoundedInduction, TLAPS

-----------------------------------------------------------------------------
(* Induction.                                                                *)

\* A set of numbers that is not empty has a least one.
LEMMA Least == ASSUME NEW T, T \subseteq Nat, T # {} PROVE \E m \in T : \A n \in T : m <= n
<1>1. IsWellFoundedOn(OpToRel(<,Nat), Nat)
  BY NatLessThanWellFounded
<1>2. \E x \in T : \A y \in T : ~ (<<y, x>> \in OpToRel(<,Nat))
  BY <1>1, WFMin
<1>3. \A x, y \in Nat : <<y, x>> \in OpToRel(<,Nat) <=> y < x
  BY DEF OpToRel
<1>4. PICK x \in T : \A y \in T : ~ (<<y, x>> \in OpToRel(<,Nat))
  BY <1>2
<1>5. \A y \in T : ~(y < x)
  BY <1>3, <1>4
<1> QED BY <1>5

\* Induction over numbers, for a set instead of a predicate: the least number
\* outside S has no place.
LEMMA NatInd == ASSUME NEW S, 0 \in S, \A n \in Nat : n \in S => n+1 \in S PROVE \A n \in Nat : n \in S
<1> DEFINE T == {n \in Nat : n \notin S}
<1> SUFFICES ASSUME T # {} PROVE FALSE 
  OBVIOUS
<1>1. PICK m \in T : \A n \in T : m <= n
  BY Least
<1> m \in Nat /\ m # 0 OBVIOUS
<1> m-1 \in Nat /\ m-1 \notin T BY <1>1
<1> QED OBVIOUS

\* Induction over sequences, by their length: a set with the empty sequence that
\* is closed under Append holds every sequence.
LEMMA SeqInd ==
  ASSUME NEW E, NEW P, <<>> \in P, \A t \in Seq(E) : \A e \in E : t \in P => Append(t, e) \in P
  PROVE  \A t \in Seq(E) : t \in P
<1> DEFINE S == {n \in Nat : \A t \in Seq(E) : Len(t) = n => t \in P}
<1>1. 0 \in S
  BY EmptySeq
<1>2. ASSUME NEW n \in Nat, n \in S PROVE n + 1 \in S
  <2>1. SUFFICES ASSUME NEW t \in Seq(E), Len(t) = n + 1 PROVE t \in P
    OBVIOUS
  <2>2. t # <<>>
    BY <2>1
  <2>3. PICK u \in Seq(E), e \in E : t = Append(u, e)
    BY <2>2, SequenceEmptyOrAppend
  <2>4. Len(u) = n
    BY <2>1, <2>3
  <2> QED BY <1>2, <2>3, <2>4
<1>3. \A n \in Nat : n \in S
  <2> HIDE DEF S
  <2> QED BY <1>1, <1>2, NatInd
<1> QED BY <1>3, LenProperties

\* The recursive function in Picked, and the equation it solves.
Kept(es, I, f, n) == IF n = 0 THEN <<>>
                    ELSE IF n \in I THEN Append(f[n - 1], es[n]) ELSE f[n - 1]

UpTo(t, I) == CHOOSE f : f = [n \in 0..Len(t) |-> Kept(t, I, f, n)]

\* Picked is the last value of the function it defines.
LEMMA PickedUpTo == ASSUME NEW t, NEW I PROVE Picked(t, I) = UpTo(t, I)[Len(t)]
BY DEF Picked, UpTo, Kept

\* The recursion in Picked has a solution, of every length.
LEMMA UpToExists == ASSUME NEW t, NEW I PROVE \A N \in Nat : \E f : f = [n \in 0..N |-> Kept(t, I, f, n)]
<1> DEFINE S == {N \in Nat : \E f : f = [n \in 0..N |-> Kept(t, I, f, n)]}
<1>1. 0 \in S
  <2> DEFINE f == [n \in 0..0 |-> <<>>]
  <2>1. f = [n \in 0..0 |-> Kept(t, I, f, n)]
    BY DEF Kept
  <2> HIDE DEF f
  <2> QED BY <2>1
<1>2. ASSUME NEW N \in Nat, N \in S PROVE N + 1 \in S
  <2>1. PICK f : f = [n \in 0..N |-> Kept(t, I, f, n)]
    BY <1>2
  <2> DEFINE g == [n \in 0..(N + 1) |-> IF n = N + 1 THEN Kept(t, I, f, n) ELSE f[n]]
  <2>2. ASSUME NEW n \in 0..(N + 1) PROVE g[n] = Kept(t, I, g, n)
    <3>1. n # 0 => n - 1 \in 0..N /\ g[n - 1] = f[n - 1]
      OBVIOUS
    <3>2. Kept(t, I, g, n) = Kept(t, I, f, n)
      BY <3>1 DEF Kept
    <3>3. n # N + 1 => f[n] = Kept(t, I, f, n)
      BY <2>1
    <3> QED BY <3>2, <3>3
  <2>3. g = [n \in 0..(N + 1) |-> Kept(t, I, g, n)]
    <3> DEFINE h == [n \in 0..(N + 1) |-> Kept(t, I, g, n)]
    <3>1. \A n \in 0..(N + 1) : g[n] = h[n]
      BY <2>2
    <3>2. g = h
      BY <3>1
    <3> QED BY <3>2
  <2> HIDE DEF g
  <2> QED BY <2>3
<1> HIDE DEF S
<1>3. \A N \in Nat : N \in S
  BY <1>1, <1>2, NatInd
<1> QED BY <1>3 DEF S

\* So the function in Picked satisfies its recursion.
LEMMA UpToEquation ==
  ASSUME NEW E, NEW t \in Seq(E), NEW I
  PROVE  /\ UpTo(t, I)[0] = <<>>
         /\ \A n \in 1..Len(t) :
              UpTo(t, I)[n] = IF n \in I THEN Append(UpTo(t, I)[n - 1], t[n]) ELSE UpTo(t, I)[n - 1]
<1>1. Len(t) \in Nat
  OBVIOUS
<1>2. \E f : f = [n \in 0..Len(t) |-> Kept(t, I, f, n)]
  BY <1>1, UpToExists
<1>3. UpTo(t, I) = [n \in 0..Len(t) |-> Kept(t, I, UpTo(t, I), n)]
  BY <1>2 DEF UpTo
<1>4. ASSUME NEW n \in 0..Len(t) PROVE UpTo(t, I)[n] = Kept(t, I, UpTo(t, I), n)
  BY <1>3
<1>5. 0 \in 0..Len(t) /\ \A n \in 1..Len(t) : n \in 0..Len(t) /\ n # 0
  BY <1>1
<1> QED BY <1>4, <1>5 DEF Kept

\* The elements picked from a sequence over E are in E.
LEMMA UpToType ==
  ASSUME NEW E, NEW t \in Seq(E), NEW I
  PROVE  \A n \in 0..Len(t) : UpTo(t, I)[n] \in Seq(E)
<1> DEFINE S == {n \in Nat : n <= Len(t) => UpTo(t, I)[n] \in Seq(E)}
<1>1. 0 \in S
  <2>1. UpTo(t, I)[0] = <<>>
    BY UpToEquation
  <2>2. <<>> \in Seq(E)
    BY EmptySeq
  <2> QED BY <2>1, <2>2
<1>2. ASSUME NEW n \in Nat, n \in S PROVE n + 1 \in S
  <2>1. SUFFICES ASSUME n + 1 <= Len(t) PROVE UpTo(t, I)[n + 1] \in Seq(E)
    OBVIOUS
  <2>2. n + 1 \in 1..Len(t) /\ (n + 1) - 1 = n /\ t[n + 1] \in E
    BY <2>1
  <2>3. UpTo(t, I)[n] \in Seq(E)
    BY <1>2, <2>1
  <2>4. Append(UpTo(t, I)[n], t[n + 1]) \in Seq(E)
    BY <2>2, <2>3, AppendProperties
  <2>5. UpTo(t, I)[n + 1] = IF n + 1 \in I THEN Append(UpTo(t, I)[n], t[n + 1]) ELSE UpTo(t, I)[n]
    BY <2>2, UpToEquation
  <2> QED BY <2>3, <2>4, <2>5
<1> HIDE DEF S
<1>3. \A n \in Nat : n \in S
  BY <1>1, <1>2, NatInd
<1> QED BY <1>3 DEF S

\* What is picked from equal beginnings is equal.
LEMMA UpToSame ==
  ASSUME NEW E, NEW t \in Seq(E), NEW u \in Seq(E), NEW I, NEW J,
         NEW m \in Nat, m <= Len(t), m <= Len(u),
         \A n \in 1..m : t[n] = u[n] /\ (n \in I <=> n \in J)
  PROVE  UpTo(t, I)[m] = UpTo(u, J)[m]
<1> DEFINE S == {n \in Nat : n <= m => UpTo(t, I)[n] = UpTo(u, J)[n]}
<1>1. 0 \in S
  BY UpToEquation
<1>2. ASSUME NEW n \in Nat, n \in S PROVE n + 1 \in S
  <2>1. SUFFICES ASSUME n + 1 <= m PROVE UpTo(t, I)[n + 1] = UpTo(u, J)[n + 1]
    OBVIOUS
  <2>2. n + 1 \in 1..Len(t) /\ n + 1 \in 1..Len(u) /\ n + 1 \in 1..m /\ (n + 1) - 1 = n
    BY <2>1
  <2>3. UpTo(t, I)[n] = UpTo(u, J)[n]
    BY <1>2, <2>1
  <2>4. t[n + 1] = u[n + 1] /\ (n + 1 \in I <=> n + 1 \in J)
    BY <2>2
  <2> QED BY <2>2, <2>3, <2>4, UpToEquation
<1> HIDE DEF S
<1>3. \A n \in Nat : n \in S
  BY <1>1, <1>2, NatInd
<1> QED BY <1>3 DEF S

-----------------------------------------------------------------------------
(* Filters and counts.                                                       *)

\* Nothing is picked from nothing.
LEMMA PickedEmpty == ASSUME NEW I PROVE Picked(<<>>, I) = <<>>
<1>1. <<>> \in Seq({}) /\ Len(<<>>) = 0
  BY EmptySeq
<1> QED BY <1>1, PickedUpTo, UpToEquation

\* What is picked from a sequence over E is a sequence over E.
LEMMA PickedType ==
  ASSUME NEW E, NEW t \in Seq(E), NEW I
  PROVE  Picked(t, I) \in Seq(E)
<1>1. Len(t) \in 0..Len(t)
  OBVIOUS
<1> QED BY <1>1, PickedUpTo, UpToType

\* Only the positions that a sequence has matter.
LEMMA PickedSame ==
  ASSUME NEW E, NEW t \in Seq(E), NEW I, NEW J, \A n \in 1..Len(t) : n \in I <=> n \in J
  PROVE  Picked(t, I) = Picked(t, J)
<1>1. Len(t) \in Nat /\ Len(t) <= Len(t)
  OBVIOUS
<1>2. UpTo(t, I)[Len(t)] = UpTo(t, J)[Len(t)]
  BY <1>1, UpToSame
<1> QED BY <1>2, PickedUpTo

\* An event appended to a lane is picked last or not at all.
LEMMA PickedAppend ==
  ASSUME NEW E, NEW t \in Seq(E), NEW e \in E, NEW I
  PROVE  Picked(Append(t, e), I) =
           IF Len(t) + 1 \in I THEN Append(Picked(t, I), e) ELSE Picked(t, I)
<1> DEFINE u == Append(t, e)
<1>1. /\ u \in Seq(E) /\ Len(u) = Len(t) + 1 /\ u[Len(t) + 1] = e
      /\ \A n \in 1..Len(t) : u[n] = t[n]
  BY AppendProperties
<1>2. Len(t) \in Nat /\ Len(t) <= Len(t) /\ Len(t) <= Len(u) /\ Len(t) + 1 \in 1..Len(u)
      /\ (Len(t) + 1) - 1 = Len(t)
  BY <1>1
<1> HIDE DEF u
<1>3. UpTo(t, I)[Len(t)] = UpTo(u, I)[Len(t)]
  <2>1. \A n \in 1..Len(t) : t[n] = u[n] /\ (n \in I <=> n \in I)
    BY <1>1
  <2>2. \A m \in Nat : m <= Len(t) /\ m <= Len(u) /\ (\A n \in 1..m : t[n] = u[n] /\ (n \in I <=> n \in I))
                       => UpTo(t, I)[m] = UpTo(u, I)[m]
    <3>1. SUFFICES ASSUME NEW m \in Nat, m <= Len(t), m <= Len(u), \A n \in 1..m : t[n] = u[n]
                   PROVE  UpTo(t, I)[m] = UpTo(u, I)[m]
      OBVIOUS
    <3>2. u \in Seq(E)
      BY <1>1
    <3>3. \A n \in 1..m : t[n] = u[n] /\ (n \in I <=> n \in I)
      BY <3>1
    <3> QED BY <3>1, <3>2, <3>3, UpToSame
  <2> QED BY <1>2, <2>1, <2>2
<1>4. UpTo(u, I)[Len(u)] = IF Len(t) + 1 \in I THEN Append(UpTo(u, I)[Len(t)], e) ELSE UpTo(u, I)[Len(t)]
  BY <1>1, <1>2, UpToEquation
<1>5. Picked(u, I) = UpTo(u, I)[Len(u)] /\ Picked(t, I) = UpTo(t, I)[Len(t)]
  BY PickedUpTo
<1>6. Picked(u, I) = IF Len(t) + 1 \in I THEN Append(Picked(t, I), e) ELSE Picked(t, I)
  BY <1>3, <1>4, <1>5
<1> QED BY <1>6 DEF u

\* The elements of t that are in G, and how many they are.
Keep(t, G) == Picked(t, {i \in DOMAIN t : t[i] \in G})

Count(t, G) == Cardinality({i \in DOMAIN t : t[i] \in G})

\* Keep returns a sequence over the same set.
LEMMA KeepType == ASSUME NEW E, NEW t \in Seq(E), NEW G PROVE Keep(t, G) \in Seq(E)
BY PickedType DEF Keep

\* Keep of nothing is nothing.
LEMMA KeepEmpty == ASSUME NEW G PROVE Keep(<<>>, G) = <<>>
BY PickedEmpty DEF Keep

\* Keep is a filter: an element appended is kept if it is in G.
LEMMA KeepAppend ==
  ASSUME NEW E, NEW t \in Seq(E), NEW e \in E, NEW G
  PROVE  Keep(Append(t, e), G) = IF e \in G THEN Append(Keep(t, G), e) ELSE Keep(t, G)
<1> DEFINE u == Append(t, e)
           I == {i \in DOMAIN u : u[i] \in G}
           J == {i \in DOMAIN t : t[i] \in G}
<1>1. /\ u \in Seq(E) /\ Len(u) = Len(t) + 1 /\ u[Len(t) + 1] = e
      /\ \A n \in 1..Len(t) : u[n] = t[n]
  BY AppendProperties
<1>2. DOMAIN u = 1..(Len(t) + 1) /\ DOMAIN t = 1..Len(t) /\ Len(t) \in Nat
  BY <1>1
<1> HIDE DEF u
<1>3. \A n \in 1..Len(t) : n \in I <=> n \in J
  BY <1>1, <1>2
<1>4. Len(t) + 1 \in I <=> e \in G
  BY <1>1, <1>2
<1> HIDE DEF I, J
<1>5. Picked(t, I) = Picked(t, J)
  BY <1>3, PickedSame
<1>6. Picked(u, I) = IF Len(t) + 1 \in I THEN Append(Picked(t, I), e) ELSE Picked(t, I)
  BY PickedAppend DEF u
<1>7. Keep(u, G) = Picked(u, I) /\ Keep(t, G) = Picked(t, J)
  BY DEF Keep, I, J
<1>8. Keep(u, G) = IF e \in G THEN Append(Keep(t, G), e) ELSE Keep(t, G)
  BY <1>4, <1>5, <1>6, <1>7
<1> QED BY <1>8 DEF u

\* An empty sequence has no element in G.
LEMMA CountEmpty == ASSUME NEW G PROVE Count(<<>>, G) = 0
<1>1. {i \in DOMAIN <<>> : <<>>[i] \in G} = {}
  BY EmptySeq
<1> QED BY <1>1, FS_EmptySet DEF Count

\* A count is a number, at most the length.
LEMMA CountType == 
  ASSUME NEW E, NEW t \in Seq(E), NEW G 
  PROVE  Count(t, G) \in 0..Len(t) /\ IsFiniteSet({i \in DOMAIN t : t[i] \in G})
<1>1. IsFiniteSet(1..Len(t)) /\ Cardinality(1..Len(t)) = Len(t) /\ DOMAIN t = 1..Len(t)
  <2>1. Len(t) \in Nat /\ DOMAIN t = 1..Len(t) /\ 1 \in Int /\ Len(t) \in Int
    OBVIOUS
  <2> QED BY <2>1, FS_Interval
<1>2. {i \in DOMAIN t : t[i] \in G} \subseteq 1..Len(t)
  BY <1>1
<1> QED BY <1>1, <1>2, FS_Subset, FS_CardinalityType DEF Count

\* An element appended is counted if it is in G.
LEMMA CountAppend ==
  ASSUME NEW E, NEW t \in Seq(E), NEW e \in E, NEW G
  PROVE  Count(Append(t, e), G) = IF e \in G THEN Count(t, G) + 1 ELSE Count(t, G)
<1> DEFINE u == Append(t, e)
           I == {i \in DOMAIN u : u[i] \in G}
           J == {i \in DOMAIN t : t[i] \in G}
<1>1. /\ u \in Seq(E) /\ Len(u) = Len(t) + 1 /\ u[Len(t) + 1] = e
      /\ \A n \in 1..Len(t) : u[n] = t[n]
  BY AppendProperties
<1>2. DOMAIN u = 1..(Len(t) + 1) /\ DOMAIN t = 1..Len(t) /\ Len(t) \in Nat
  BY <1>1
<1> HIDE DEF u
<1>3. I = IF e \in G THEN J \cup {Len(t) + 1} ELSE J
  BY <1>1, <1>2
<1>4. Len(t) + 1 \notin J
  BY <1>2
<1>5. IsFiniteSet(J)
  BY CountType
<1> HIDE DEF I, J
<1>6. Cardinality(I) = IF e \in G THEN Cardinality(J) + 1 ELSE Cardinality(J)
  BY <1>3, <1>4, <1>5, FS_AddElement
<1> QED BY <1>6 DEF Count, I, J, u

\* As many elements are kept as are counted.
LEMMA KeepLen == ASSUME NEW E, NEW t \in Seq(E), NEW G PROVE Len(Keep(t, G)) = Count(t, G)
<1> DEFINE P == {u \in Seq(E) : Len(Keep(u, G)) = Count(u, G)}
<1>1. <<>> \in P
  BY KeepEmpty, CountEmpty, EmptySeq
<1>2. ASSUME NEW u \in Seq(E), NEW e \in E, u \in P PROVE Append(u, e) \in P
  <2>1. Len(Keep(u, G)) = Count(u, G) /\ Append(u, e) \in Seq(E)
    BY <1>2, AppendProperties
  <2>2. Keep(u, G) \in Seq(E)
    BY KeepType
  <2>3. Len(Append(Keep(u, G), e)) = Len(Keep(u, G)) + 1
    BY <2>2, AppendProperties
  <2> QED BY <2>1, <2>3, KeepAppend, CountAppend
<1> HIDE DEF P
<1>3. \A u \in Seq(E) : u \in P
  BY <1>1, <1>2, SeqInd
<1> QED BY <1>3 DEF P

\* A concatenation is filtered part by part.
LEMMA KeepConcat ==
  ASSUME NEW E, NEW t \in Seq(E), NEW v \in Seq(E), NEW G
  PROVE  Keep(t \o v, G) = Keep(t, G) \o Keep(v, G)
<1> DEFINE P == {u \in Seq(E) : Keep(t \o u, G) = Keep(t, G) \o Keep(u, G)}
<1>1. <<>> \in P
  <2>1. t \o <<>> = t /\ Keep(t, G) \o <<>> = Keep(t, G)
    BY KeepType, ConcatEmptySeq
  <2> QED BY <2>1, KeepEmpty, EmptySeq
<1>2. ASSUME NEW u \in Seq(E), NEW e \in E, u \in P PROVE Append(u, e) \in P
  <2>1. Keep(t \o u, G) = Keep(t, G) \o Keep(u, G)
    BY <1>2
  <2>2. Keep(t, G) \in Seq(E) /\ Keep(u, G) \in Seq(E) /\ t \o u \in Seq(E) /\ Append(u, e) \in Seq(E)
    BY KeepType, ConcatProperties, AppendProperties
  <2>3. t \o Append(u, e) = Append(t \o u, e)
    BY <2>2
  <2>4. Keep(t, G) \o Append(Keep(u, G), e) = Append(Keep(t, G) \o Keep(u, G), e)
    BY <2>2
  <2>5. Keep(Append(t \o u, e), G) = IF e \in G THEN Append(Keep(t \o u, G), e) ELSE Keep(t \o u, G)
    BY <2>2, KeepAppend
  <2>6. Keep(Append(u, e), G) = IF e \in G THEN Append(Keep(u, G), e) ELSE Keep(u, G)
    BY <2>2, KeepAppend
  <2> QED BY <2>1, <2>2, <2>3, <2>4, <2>5, <2>6
<1> HIDE DEF P
<1>3. \A u \in Seq(E) : u \in P
  BY <1>1, <1>2, SeqInd
<1> QED BY <1>3 DEF P

\* Two filters are the filter of both.
LEMMA KeepKeep ==
  ASSUME NEW E, NEW t \in Seq(E), NEW G, NEW H
  PROVE  Keep(Keep(t, G), H) = Keep(t, G \cap H)
<1> DEFINE P == {u \in Seq(E) : Keep(Keep(u, G), H) = Keep(u, G \cap H)}
<1>1. <<>> \in P
  BY KeepEmpty, EmptySeq
<1>2. ASSUME NEW u \in Seq(E), NEW e \in E, u \in P PROVE Append(u, e) \in P
  <2>1. Keep(Keep(u, G), H) = Keep(u, G \cap H)
    BY <1>2
  <2>2. Keep(u, G) \in Seq(E) /\ Append(u, e) \in Seq(E)
    BY KeepType, AppendProperties
  <2>3. Keep(Append(Keep(u, G), e), H) =
          IF e \in H THEN Append(Keep(Keep(u, G), H), e) ELSE Keep(Keep(u, G), H)
    BY <2>2, KeepAppend
  <2>4. Keep(Append(u, e), G) = IF e \in G THEN Append(Keep(u, G), e) ELSE Keep(u, G)
    BY KeepAppend
  <2>5. Keep(Append(u, e), G \cap H) =
          IF e \in G \cap H THEN Append(Keep(u, G \cap H), e) ELSE Keep(u, G \cap H)
    BY KeepAppend
  <2>6. CASE e \in G
    <3>1. Keep(Append(u, e), G) = Append(Keep(u, G), e) /\ (e \in G \cap H <=> e \in H)
      BY <2>4, <2>6
    <3>2. Keep(Keep(Append(u, e), G), H) = Keep(Append(u, e), G \cap H)
      BY <2>1, <2>3, <2>5, <3>1
    <3> QED BY <2>2, <3>2
  <2>7. CASE e \notin G
    BY <2>1, <2>2, <2>4, <2>5, <2>7
  <2> QED BY <2>6, <2>7
<1> HIDE DEF P
<1>3. \A u \in Seq(E) : u \in P
  BY <1>1, <1>2, SeqInd
<1> QED BY <1>3 DEF P

\* A filter that every element passes changes nothing.
LEMMA KeepAll ==
  ASSUME NEW E, NEW t \in Seq(E), NEW G, \A i \in 1..Len(t) : t[i] \in G
  PROVE  Keep(t, G) = t
<1> DEFINE P == {u \in Seq(E) : (\A i \in 1..Len(u) : u[i] \in G) => Keep(u, G) = u}
<1>1. <<>> \in P
  BY KeepEmpty, EmptySeq
<1>2. ASSUME NEW u \in Seq(E), NEW e \in E, u \in P PROVE Append(u, e) \in P
  <2>1. Append(u, e) \in Seq(E) /\ Len(Append(u, e)) = Len(u) + 1 /\ Append(u, e)[Len(u) + 1] = e
        /\ \A i \in 1..Len(u) : Append(u, e)[i] = u[i]
    BY AppendProperties
  <2>2. SUFFICES ASSUME \A i \in 1..Len(Append(u, e)) : Append(u, e)[i] \in G
                 PROVE  Keep(Append(u, e), G) = Append(u, e)
    BY <2>1
  <2>3. e \in G /\ \A i \in 1..Len(u) : u[i] \in G
    BY <2>1, <2>2
  <2>4. Keep(u, G) = u
    BY <1>2, <2>3
  <2> QED BY <2>3, <2>4, KeepAppend
<1> HIDE DEF P
<1>3. \A u \in Seq(E) : u \in P
  BY <1>1, <1>2, SeqInd
<1> QED BY <1>3 DEF P

\* A filter that no element passes leaves nothing.
LEMMA KeepNone ==
  ASSUME NEW E, NEW t \in Seq(E), NEW G, \A i \in 1..Len(t) : t[i] \notin G
  PROVE  Keep(t, G) = <<>>
<1> DEFINE P == {u \in Seq(E) : (\A i \in 1..Len(u) : u[i] \notin G) => Keep(u, G) = <<>>}
<1>1. <<>> \in P
  BY KeepEmpty, EmptySeq
<1>2. ASSUME NEW u \in Seq(E), NEW e \in E, u \in P PROVE Append(u, e) \in P
  <2>1. Append(u, e) \in Seq(E) /\ Len(Append(u, e)) = Len(u) + 1 /\ Append(u, e)[Len(u) + 1] = e
        /\ \A i \in 1..Len(u) : Append(u, e)[i] = u[i]
    BY AppendProperties
  <2>2. SUFFICES ASSUME \A i \in 1..Len(Append(u, e)) : Append(u, e)[i] \notin G
                 PROVE  Keep(Append(u, e), G) = <<>>
    BY <2>1
  <2>3. e \notin G /\ \A i \in 1..Len(u) : u[i] \notin G
    BY <2>1, <2>2
  <2>4. Keep(u, G) = <<>>
    BY <1>2, <2>3
  <2> QED BY <2>3, <2>4, KeepAppend
<1> HIDE DEF P
<1>3. \A u \in Seq(E) : u \in P
  BY <1>1, <1>2, SeqInd
<1> QED BY <1>3 DEF P

\* What a filter leaves passes it.
LEMMA KeepIn ==
  ASSUME NEW E, NEW t \in Seq(E), NEW G
  PROVE  Keep(t, G) \in Seq(E \cap G)
<1> DEFINE P == {u \in Seq(E) : Keep(u, G) \in Seq(E \cap G)}
<1>1. <<>> \in P
  BY KeepEmpty, EmptySeq
<1>2. ASSUME NEW u \in Seq(E), NEW e \in E, u \in P PROVE Append(u, e) \in P
  <2>1. Append(u, e) \in Seq(E) /\ Keep(u, G) \in Seq(E \cap G)
    BY <1>2, AppendProperties
  <2>2. e \in G => Append(Keep(u, G), e) \in Seq(E \cap G)
    BY <2>1, AppendProperties
  <2> QED BY <2>1, <2>2, KeepAppend
<1> HIDE DEF P
<1>3. \A u \in Seq(E) : u \in P
  BY <1>1, <1>2, SeqInd
<1> QED BY <1>3 DEF P

-----------------------------------------------------------------------------
(* Concatenation and first appearances.                                      *)

Flattened(ss, f, i) == IF i = 1 THEN ss[i] ELSE f[i - 1] \o ss[i]

FlatTo(ss) == CHOOSE f : f = [i \in 1..Len(ss) |-> Flattened(ss, f, i)]

\* FlattenSeq is the last value of the function it defines.
LEMMA FlattenFlatTo == ASSUME NEW ss, Len(ss) # 0 PROVE FlattenSeq(ss) = FlatTo(ss)[Len(ss)]
BY DEF FlattenSeq, FlatTo, Flattened

\* The recursion in FlattenSeq has a solution, of every length.
LEMMA FlatToExists == ASSUME NEW ss PROVE \A N \in Nat : \E f : f = [i \in 1..N |-> Flattened(ss, f, i)]
<1> DEFINE S == {N \in Nat : \E f : f = [i \in 1..N |-> Flattened(ss, f, i)]}
<1>1. 0 \in S
  <2> DEFINE f == [i \in 1..0 |-> <<>>]
  <2>1. f = [i \in 1..0 |-> Flattened(ss, f, i)]
    OBVIOUS
  <2> HIDE DEF f
  <2> QED BY <2>1
<1>2. ASSUME NEW N \in Nat, N \in S PROVE N + 1 \in S
  <2>1. PICK f : f = [i \in 1..N |-> Flattened(ss, f, i)]
    BY <1>2
  <2> DEFINE g == [i \in 1..(N + 1) |-> IF i = N + 1 THEN Flattened(ss, f, i) ELSE f[i]]
  <2>2. ASSUME NEW i \in 1..(N + 1) PROVE g[i] = Flattened(ss, g, i)
    <3>1. i # 1 => i - 1 \in 1..N /\ g[i - 1] = f[i - 1]
      OBVIOUS
    <3>2. Flattened(ss, g, i) = Flattened(ss, f, i)
      BY <3>1 DEF Flattened
    <3>3. i # N + 1 => f[i] = Flattened(ss, f, i)
      BY <2>1
    <3> QED BY <3>2, <3>3
  <2>3. g = [i \in 1..(N + 1) |-> Flattened(ss, g, i)]
    <3> DEFINE h == [i \in 1..(N + 1) |-> Flattened(ss, g, i)]
    <3>1. \A i \in 1..(N + 1) : g[i] = h[i]
      BY <2>2
    <3>2. g = h
      BY <3>1
    <3> QED BY <3>2
  <2> HIDE DEF g
  <2> QED BY <2>3
<1> HIDE DEF S
<1>3. \A N \in Nat : N \in S
  BY <1>1, <1>2, NatInd
<1> QED BY <1>3 DEF S

\* So the function in FlattenSeq satisfies its recursion.
LEMMA FlatToEquation ==
  ASSUME NEW E, NEW ss \in Seq(E)
  PROVE  /\ Len(ss) # 0 => FlatTo(ss)[1] = ss[1]
         /\ \A i \in 2..Len(ss) : FlatTo(ss)[i] = FlatTo(ss)[i - 1] \o ss[i]
<1>1. Len(ss) \in Nat
  OBVIOUS
<1>2. \E f : f = [i \in 1..Len(ss) |-> Flattened(ss, f, i)]
  BY <1>1, FlatToExists
<1>3. FlatTo(ss) = [i \in 1..Len(ss) |-> Flattened(ss, FlatTo(ss), i)]
  BY <1>2 DEF FlatTo
<1>4. ASSUME NEW i \in 1..Len(ss) PROVE FlatTo(ss)[i] = Flattened(ss, FlatTo(ss), i)
  BY <1>3
<1>5. (Len(ss) # 0 => 1 \in 1..Len(ss)) /\ \A i \in 2..Len(ss) : i \in 1..Len(ss) /\ i # 1
  BY <1>1
<1> QED BY <1>4, <1>5 DEF Flattened

\* Equal beginnings have the same concatenation.
LEMMA FlatToSame ==
  ASSUME NEW E, NEW ss \in Seq(E), NEW uu \in Seq(E), Len(ss) <= Len(uu),
         \A i \in 1..Len(ss) : ss[i] = uu[i]
  PROVE  \A i \in 1..Len(ss) : FlatTo(ss)[i] = FlatTo(uu)[i]
<1> DEFINE S == {n \in Nat : n + 1 <= Len(ss) => FlatTo(ss)[n + 1] = FlatTo(uu)[n + 1]}
<1>1. 0 \in S
  <2>1. Len(ss) # 0 => FlatTo(ss)[1] = ss[1]
    BY FlatToEquation
  <2>2. Len(uu) # 0 => FlatTo(uu)[1] = uu[1]
    BY FlatToEquation
  <2>3. 0 + 1 <= Len(ss) => Len(ss) # 0 /\ Len(uu) # 0 /\ ss[1] = uu[1]
    OBVIOUS
  <2>4. 0 + 1 <= Len(ss) => FlatTo(ss)[1] = FlatTo(uu)[1]
    BY <2>1, <2>2, <2>3
  <2>5. 0 \in Nat /\ 0 + 1 = 1
    OBVIOUS
  <2> QED BY <2>4, <2>5
<1>2. ASSUME NEW n \in Nat, n \in S PROVE n + 1 \in S
  <2>1. SUFFICES ASSUME (n + 1) + 1 <= Len(ss) PROVE FlatTo(ss)[(n + 1) + 1] = FlatTo(uu)[(n + 1) + 1]
    OBVIOUS
  <2>2. (n + 1) + 1 \in 2..Len(ss) /\ (n + 1) + 1 \in 2..Len(uu) /\ ((n + 1) + 1) - 1 = n + 1
        /\ (n + 1) + 1 \in 1..Len(ss)
    BY <2>1
  <2>3. FlatTo(ss)[n + 1] = FlatTo(uu)[n + 1] /\ ss[(n + 1) + 1] = uu[(n + 1) + 1]
    BY <1>2, <2>1, <2>2
  <2>4. FlatTo(ss)[(n + 1) + 1] = FlatTo(ss)[n + 1] \o ss[(n + 1) + 1]
    BY <2>2, FlatToEquation
  <2>5. FlatTo(uu)[(n + 1) + 1] = FlatTo(uu)[n + 1] \o uu[(n + 1) + 1]
    BY <2>2, FlatToEquation
  <2> QED BY <2>3, <2>4, <2>5
<1> HIDE DEF S
<1>3. \A n \in Nat : n \in S
  BY <1>1, <1>2, NatInd
<1>4. ASSUME NEW i \in 1..Len(ss) PROVE FlatTo(ss)[i] = FlatTo(uu)[i]
  <2>1. i - 1 \in Nat /\ (i - 1) + 1 = i /\ i <= Len(ss)
    OBVIOUS
  <2> QED BY <1>3, <2>1 DEF S
<1> QED BY <1>4

\* No blocks make no elements.
LEMMA FlattenEmpty == FlattenSeq(<<>>) = <<>>
BY EmptySeq DEF FlattenSeq

\* A block that is appended comes last.
LEMMA FlattenAppend ==
  ASSUME NEW E, NEW ss \in Seq(Seq(E)), NEW v \in Seq(E)
  PROVE  FlattenSeq(Append(ss, v)) = FlattenSeq(ss) \o v
<1> DEFINE uu == Append(ss, v)
<1>1. /\ uu \in Seq(Seq(E)) /\ Len(uu) = Len(ss) + 1 /\ uu[Len(ss) + 1] = v
      /\ \A i \in 1..Len(ss) : ss[i] = uu[i]
  BY AppendProperties
<1>2. Len(ss) \in Nat
  OBVIOUS
<1> HIDE DEF uu
<1>3. FlattenSeq(uu) = FlatTo(uu)[Len(ss) + 1]
  BY <1>1, <1>2, FlattenFlatTo
<1>4. CASE Len(ss) = 0
  <2>1. ss = <<>> /\ FlattenSeq(ss) = <<>>
    BY <1>4, EmptySeq, FlattenEmpty
  <2>2. FlatTo(uu)[1] = uu[1]
    <3>1. Len(uu) # 0
      BY <1>1, <1>4
    <3> QED BY <1>1, <3>1, FlatToEquation
  <2>3. FlattenSeq(uu) = v
    BY <1>1, <1>3, <1>4, <2>2
  <2>4. <<>> \o v = v
    BY ConcatEmptySeq
  <2> QED BY <2>1, <2>3, <2>4 DEF uu
<1>5. CASE Len(ss) # 0
  <2>1. Len(ss) + 1 \in 2..Len(uu) /\ (Len(ss) + 1) - 1 = Len(ss) /\ Len(ss) \in 1..Len(ss)
        /\ Len(ss) <= Len(uu)
    BY <1>1, <1>2, <1>5
  <2>2. FlatTo(uu)[Len(ss) + 1] = FlatTo(uu)[Len(ss)] \o v
    BY <1>1, <2>1, FlatToEquation
  <2>3. FlatTo(ss)[Len(ss)] = FlatTo(uu)[Len(ss)]
    BY <1>1, <2>1, FlatToSame
  <2>4. FlattenSeq(ss) = FlatTo(ss)[Len(ss)]
    BY <1>5, FlattenFlatTo
  <2> QED BY <1>3, <2>2, <2>3, <2>4 DEF uu
<1> QED BY <1>4, <1>5

\* Blocks over E make a sequence over E.
LEMMA FlattenType ==
  ASSUME NEW E, NEW ss \in Seq(Seq(E))
  PROVE  FlattenSeq(ss) \in Seq(E)
<1> DEFINE P == {uu \in Seq(Seq(E)) : FlattenSeq(uu) \in Seq(E)}
<1>1. <<>> \in P
  BY FlattenEmpty, EmptySeq
<1>2. ASSUME NEW uu \in Seq(Seq(E)), NEW v \in Seq(E), uu \in P PROVE Append(uu, v) \in P
  <2>1. FlattenSeq(uu) \in Seq(E) /\ Append(uu, v) \in Seq(Seq(E))
    BY <1>2, AppendProperties
  <2>2. FlattenSeq(uu) \o v \in Seq(E)
    BY <2>1, ConcatProperties
  <2> QED BY <2>1, <2>2, FlattenAppend
<1> HIDE DEF P
<1>3. \A uu \in Seq(Seq(E)) : uu \in P
  BY <1>1, <1>2, SeqInd
<1> QED BY <1>3 DEF P

\* The members of a sequence that grows.
LEMMA RangeAppend ==
  ASSUME NEW E, NEW w \in Seq(E), NEW e \in E
  PROVE  ToSet(Append(w, e)) = ToSet(w) \cup {e}
<1>1. /\ Append(w, e) \in Seq(E) /\ Len(Append(w, e)) = Len(w) + 1
      /\ Append(w, e)[Len(w) + 1] = e
      /\ \A i \in 1..Len(w) : Append(w, e)[i] = w[i]
  BY AppendProperties
<1>2. DOMAIN Append(w, e) = 1..(Len(w) + 1) /\ DOMAIN w = 1..Len(w) /\ Len(w) \in Nat
  BY <1>1
<1> QED BY <1>1, <1>2 DEF ToSet

\* The members of Keep(t, G) are the members of t in G.
LEMMA KeepRange ==
  ASSUME NEW E, NEW t \in Seq(E), NEW G
  PROVE  ToSet(Keep(t, G)) = ToSet(t) \cap G
<1> DEFINE P == {u \in Seq(E) : ToSet(Keep(u, G)) = ToSet(u) \cap G}
<1>1. <<>> \in P
  <2>1. ToSet(<<>>) = {} /\ <<>> \in Seq(E)
    BY EmptySeq DEF ToSet
  <2> QED BY <2>1, KeepEmpty
<1>2. ASSUME NEW u \in Seq(E), NEW e \in E, u \in P PROVE Append(u, e) \in P
  <2>1. ToSet(Keep(u, G)) = ToSet(u) \cap G /\ Keep(u, G) \in Seq(E) /\ Append(u, e) \in Seq(E)
    BY <1>2, KeepType, AppendProperties
  <2>2. Keep(Append(u, e), G) = IF e \in G THEN Append(Keep(u, G), e) ELSE Keep(u, G)
    BY KeepAppend
  <2>3. ToSet(Append(u, e)) = ToSet(u) \cup {e} /\ ToSet(Append(Keep(u, G), e)) = ToSet(Keep(u, G)) \cup {e}
    BY <2>1, RangeAppend
  <2> QED BY <2>1, <2>2, <2>3
<1> HIDE DEF P
<1>3. \A u \in Seq(E) : u \in P
  BY <1>1, <1>2, SeqInd
<1> QED BY <1>3 DEF P

\* First appearances.
Firsts(t) == Picked(t, {i \in DOMAIN t : \A j \in 1..(i - 1) : t[j] # t[i]})

\* An element appended is a first appearance if it is new.
LEMMA FirstsAppend ==
  ASSUME NEW E, NEW t \in Seq(E), NEW e \in E
  PROVE  Firsts(Append(t, e)) = IF e \in ToSet(t) THEN Firsts(t) ELSE Append(Firsts(t), e)
<1> DEFINE u == Append(t, e)
           I == {i \in DOMAIN u : \A j \in 1..(i - 1) : u[j] # u[i]}
           J == {i \in DOMAIN t : \A j \in 1..(i - 1) : t[j] # t[i]}
<1>1. /\ u \in Seq(E) /\ Len(u) = Len(t) + 1 /\ u[Len(t) + 1] = e
      /\ \A n \in 1..Len(t) : u[n] = t[n]
  BY AppendProperties
<1>2. DOMAIN u = 1..(Len(t) + 1) /\ DOMAIN t = 1..Len(t) /\ Len(t) \in Nat
  BY <1>1
<1> HIDE DEF u
<1>3. ASSUME NEW n \in 1..Len(t) PROVE n \in I <=> n \in J
  <2>1. \A j \in 1..(n - 1) : j \in 1..Len(t)
    BY <1>2
  <2> QED BY <1>1, <1>2, <2>1
<1>4. Len(t) + 1 \in I <=> e \notin ToSet(t)
  <2>1. (Len(t) + 1) - 1 = Len(t) /\ Len(t) + 1 \in DOMAIN u
    BY <1>2
  <2>2. Len(t) + 1 \in I <=> \A j \in 1..Len(t) : u[j] # u[Len(t) + 1]
    BY <2>1
  <2> QED BY <1>1, <1>2, <2>2 DEF ToSet
<1> HIDE DEF I, J
<1>5. Picked(t, I) = Picked(t, J)
  BY <1>3, PickedSame
<1>6. Picked(u, I) = IF Len(t) + 1 \in I THEN Append(Picked(t, I), e) ELSE Picked(t, I)
  BY PickedAppend DEF u
<1>7. Firsts(u) = Picked(u, I) /\ Firsts(t) = Picked(t, J)
  BY DEF Firsts, I, J
<1>8. Firsts(u) = IF e \in ToSet(t) THEN Firsts(t) ELSE Append(Firsts(t), e)
  BY <1>4, <1>5, <1>6, <1>7
<1> QED BY <1>8 DEF u

=============================================================================
