------------------------ MODULE ThreadedRecorderProofs ------------------------
(***************************************************************************)
(* Proofs about ThreadedRecorder: whatever runs for other lanes in threads *)
(* and on the event loop, a lane that makes one call at a time is numbered *)
(* and marked exactly, for all sets of threads and lanes and all bounds.   *)
(***************************************************************************)
EXTENDS ThreadedRecorder, FiniteSetTheorems, TLAPS

-----------------------------------------------------------------------------
(* Types.                                                                  *)

Before == {"row", "replace", "count", "number", "bind", "append"}
Counting == {"tally", "tallied", "look", "mark"}
Places == {"idle"} \cup Before \cup Counting

Types ==
  /\ pc \in [Callers -> Places]
  /\ call \in [Callers -> Call]
  /\ read \in [Callers -> Nat] /\ step \in [Callers -> Nat]
  /\ bound \in [Callers -> ListIds] /\ copy \in Nat
  /\ calls \in [Lanes -> Nat] /\ seq \in [Lanes -> Nat]
  /\ divergence \in [Lanes -> Nat] /\ mark \in [Lanes -> Nat]
  /\ current \in ListIds
  /\ lists \in [ListIds -> SUBSET Event]
  /\ \A c \in Callers : /\ pc[c] \in {"row", "replace"} => c = Loop
                        /\ pc[c] \in Counting => call[c].kind = "ungrounded"

LEMMA InitTypes == (\E l \in Lanes : TRUE) /\ Init => Types
<1> SUFFICES ASSUME Init, NEW l \in Lanes
             PROVE  Types
  OBVIOUS
<1>1. [lane |-> CHOOSE k \in Lanes : TRUE, n |-> 0, kind |-> "tool"] \in Call
  BY DEF Call, Kinds
<1>2. 1 \in ListIds
  BY ThreadAssumption DEF ListIds
<1> QED
  BY <1>1, <1>2 DEF Init, Types, Places, Before, Counting

LEMMA LaneOfCaller == Types => \A c \in Callers : Lane(c) \in Lanes /\ call[c].n \in Nat
  BY DEF Types, Call, Lane

\* The event that a caller records.
LEMMA RecordedEvent == Types => \A c \in Callers : Recorded(c) \in Event
  BY LaneOfCaller DEF Types, Recorded, Event

LEMMA StepTypes == Types /\ [Next]_vars => Types'
<1> SUFFICES ASSUME Types, [Next]_vars
             PROVE  Types'
  OBVIOUS
<1>1. \A c \in Callers : Lane(c) \in Lanes
  BY LaneOfCaller
<1> USE ThreadAssumption DEF Types, Places, Before, Counting, drainVars, Goes
<1>2. ASSUME NEW c \in Callers, NEW l \in Lanes, NEW kind \in Kinds, Begins(c, l, kind)
      PROVE  Types'
  <2>1. [lane |-> l, n |-> calls[l] + 1, kind |-> kind] \in Call
    BY DEF Call
  <2> QED
    BY <1>2, <2>1 DEF Begins
<1>3. ASSUME NEW c \in Callers, NEW renames \in BOOLEAN, LooksAtRow(c, renames)
      PROVE  Types'
  BY <1>1, <1>3 DEF LooksAtRow
<1>4. ASSUME NEW c \in Callers, Renames(c)
      PROVE  Types'
  BY <1>1, <1>4 DEF Renames
<1>5. ASSUME NEW c \in Callers, ReadsCount(c)
      PROVE  Types'
  BY <1>1, <1>5 DEF ReadsCount
<1>6. ASSUME NEW c \in Callers, WritesCount(c)
      PROVE  Types'
  BY <1>1, <1>6 DEF WritesCount
<1>7. ASSUME NEW c \in Callers, BindsList(c)
      PROVE  Types'
  BY <1>1, <1>7 DEF BindsList
<1>8. ASSUME NEW c \in Callers, Appends(c)
      PROVE  Types'
  <2>1. Recorded(c) \in Event
    BY RecordedEvent
  <2>2. lists' \in [ListIds -> SUBSET Event]
    BY <1>8, <2>1 DEF Appends
  <2> QED
    BY <1>8, <2>2 DEF Appends
<1>9. ASSUME NEW c \in Callers, ReadsTally(c)
      PROVE  Types'
  BY <1>1, <1>9 DEF ReadsTally
<1>10. ASSUME NEW c \in Callers, WritesTally(c)
       PROVE  Types'
  BY <1>1, <1>10 DEF WritesTally
<1>11. ASSUME NEW c \in Callers, ReadsRow(c)
       PROVE  Types'
  BY <1>1, <1>11 DEF ReadsRow
<1>12. ASSUME NEW c \in Callers, ReplacesRow(c)
       PROVE  Types'
  BY <1>1, <1>12 DEF ReplacesRow
<1>13. ASSUME NEW others \in BOOLEAN, Swap(others)
       PROVE  Types'
  BY <1>13 DEF Swap, ListIds
<1>14. ASSUME Write
       PROVE  Types'
  BY <1>14 DEF Write
<1>15. ASSUME UNCHANGED vars
       PROVE  Types'
  BY <1>15 DEF vars
<1> QED
  BY <1>2, <1>3, <1>4, <1>5, <1>6, <1>7, <1>8, <1>9, <1>10, <1>11, <1>12, <1>13, <1>14, <1>15
     DEF Next, Works

-----------------------------------------------------------------------------
(* What is true of a lane that makes one call at a time.                   *)

AllEvents == UNION {lists[i] : i \in ListIds}
Drift(l, n) == {e \in Made(l) : e.ungrounded /\ e.seq <= n}

\* The lane's first k calls are recorded, and counted and marked for.
Numbered(l, k) ==
  /\ IsFiniteSet(Made(l)) /\ Cardinality(Made(l)) = k
  /\ \A e \in Made(l) : e.seq = e.n
  /\ {e.seq : e \in Made(l)} = 1..k

Marked(l, k) ==
  /\ mark[l] = 0 => Cardinality(Drift(l, k)) < Threshold
  /\ mark[l] # 0 => /\ mark[l] \in 1..k
                    /\ Cardinality(Drift(l, mark[l])) = Threshold
                    /\ Cardinality(Drift(l, mark[l] - 1)) < Threshold

Settled(l, k) == Numbered(l, k) /\ Marked(l, k) /\ divergence[l] = Cardinality(Drift(l, k))

\* The lane's call number k is being recorded by c and its event is still to come.
Coming(l, c, k) ==
  /\ k > 0 /\ Settled(l, k - 1)
  /\ seq[l] = IF pc[c] \in {"bind", "append"} THEN k ELSE k - 1
  /\ pc[c] = "replace" => copy = mark[l]
  /\ pc[c] = "number" => read[c] = k - 1
  /\ pc[c] \in {"bind", "append"} => step[c] = k

\* Its event is recorded, an ungrounded one, and it is being counted.
Tallying(l, c, k) ==
  LET drift == Cardinality(Drift(l, k)) IN
  /\ k > 0 /\ Numbered(l, k) /\ Marked(l, k - 1)
  /\ seq[l] = k /\ step[c] = k
  /\ Cardinality(Drift(l, k - 1)) = drift - 1
  /\ divergence[l] = IF pc[c] \in {"tally", "tallied"} THEN drift - 1 ELSE drift
  /\ pc[c] = "tallied" => read[c] = drift - 1
  /\ pc[c] \in {"look", "mark"} => drift >= Threshold
  /\ pc[c] = "mark" => mark[l] = 0

Exact(l) ==
  /\ InLane(l) = {} => Settled(l, calls[l]) /\ seq[l] = calls[l]
  /\ \A c \in InLane(l) :
       /\ InLane(l) = {c}
       /\ call[c].n = calls[l]
       /\ pc[c] \in Before => Coming(l, c, calls[l])
       /\ pc[c] \in Counting => Tallying(l, c, calls[l])

IInv == Types /\ \A l \in Sequential : Exact(l)

LEMMA DriftFinite ==
  ASSUME NEW l, IsFiniteSet(Made(l)), NEW n
  PROVE  IsFiniteSet(Drift(l, n)) /\ Cardinality(Drift(l, n)) \in Nat
<1>1. Drift(l, n) \subseteq Made(l)
  BY DEF Drift
<1> QED
  BY <1>1, FS_Subset, FS_CardinalityType

LEMMA InitIInv == (\E l \in Lanes : TRUE) /\ Init => IInv
<1> SUFFICES ASSUME Init, \E l \in Lanes : TRUE
             PROVE  IInv
  OBVIOUS
<1>1. \A l : Made(l) = {}
  BY DEF Init, Made
<1>2. \A l, n : Drift(l, n) = {}
  BY <1>1 DEF Drift
<1>3. IsFiniteSet({}) /\ Cardinality({}) = 0
  BY FS_EmptySet
<1>4. ASSUME NEW l \in Sequential
      PROVE  Exact(l)
  <2>1. calls[l] = 0 /\ seq[l] = 0 /\ divergence[l] = 0 /\ mark[l] = 0
    BY ThreadAssumption DEF Init
  <2>2. InLane(l) = {}
    BY DEF Init, InLane
  <2>3. {e.seq : e \in Made(l)} = {} /\ 1..0 = {}
    BY <1>1
  <2>4. Settled(l, 0)
    BY <1>1, <1>2, <1>3, <2>1, <2>3, ThreadAssumption DEF Settled, Numbered, Marked
  <2> QED
    BY <2>1, <2>2, <2>4 DEF Exact
<1> QED
  BY <1>4, InitTypes DEF IInv

\* What is said of a lane depends on its own events, cells and callers only.
LEMMA Frame ==
  ASSUME NEW l \in Sequential, Exact(l),
         Made(l)' = Made(l), InLane(l)' = InLane(l),
         UNCHANGED <<calls[l], seq[l], divergence[l], mark[l]>>,
         \A c \in InLane(l) : UNCHANGED <<pc[c], call[c], read[c], step[c]>>,
         \A c \in InLane(l) : pc[c] = "replace" => UNCHANGED copy
  PROVE  Exact(l)'
<1>1. \A n : Drift(l, n)' = Drift(l, n)
  BY DEF Drift
<1>2. \A k : Numbered(l, k)' = Numbered(l, k)
  BY DEF Numbered
<1>3. \A k : Marked(l, k)' = Marked(l, k)
  BY <1>1 DEF Marked
<1>4. \A k : Settled(l, k)' = Settled(l, k)
  BY <1>1, <1>2, <1>3 DEF Settled
<1>5. ASSUME NEW c \in InLane(l), pc[c] \in Before
      PROVE  Coming(l, c, calls[l])'
  BY <1>4, <1>5 DEF Coming, Exact
<1>6. ASSUME NEW c \in InLane(l), pc[c] \in Counting
      PROVE  Tallying(l, c, calls[l])'
  BY <1>1, <1>2, <1>3, <1>6 DEF Tallying, Exact
<1> QED
  BY <1>4, <1>5, <1>6 DEF Exact

\* The event that a caller appends is its lane's: the lists hold nothing else new.
LEMMA AppendsOwn ==
  ASSUME Types, NEW c \in Callers, Appends(c)
  PROVE  /\ Made(Lane(c))' = Made(Lane(c)) \cup {Recorded(c)}
         /\ \A l \in Lanes : l # Lane(c) => Made(l)' = Made(l)
<1> DEFINE e == Recorded(c)
<1>1. lists' = [lists EXCEPT ![bound[c]] = lists[bound[c]] \cup {e}] /\ bound[c] \in ListIds
  BY DEF Appends, Types
<1>2. \A i \in ListIds : lists'[i] = IF i = bound[c] THEN lists[i] \cup {e} ELSE lists[i]
  BY <1>1 DEF Types
<1>3. AllEvents' = AllEvents \cup {e}
  BY <1>1, <1>2 DEF AllEvents
<1>4. e.lane = Lane(c)
  BY DEF Recorded
<1>5. UNCHANGED call
  BY DEF Appends
<1>6. \A l : Made(l) = {f \in AllEvents : f.lane = l} /\ Made(l)' = {f \in AllEvents' : f.lane = l}
  BY DEF Made, AllEvents
<1> DEFINE home == Lane(c)
<1> HIDE DEF e, home
<1>7. /\ Made(home)' = Made(home) \cup {e}
      /\ \A l \in Lanes : l # home => Made(l)' = Made(l)
  <2>1. home' = home
    BY <1>5 DEF home, Lane
  <2>2. {f \in AllEvents \cup {e} : f.lane = home} = {f \in AllEvents : f.lane = home} \cup {e}
    BY <1>4 DEF home
  <2>3. \A l \in Lanes : l # home =>
          {f \in AllEvents \cup {e} : f.lane = l} = {f \in AllEvents : f.lane = l}
    BY <1>4 DEF home
  <2> QED
    BY <1>3, <1>6, <2>1, <2>2, <2>3
<1> QED
  BY <1>7 DEF e, home

\* A step of a handler leaves every lane but its own, and the callers in them, alone.
LEMMA WorkFrame ==
  ASSUME Types, NEW c \in Callers, Works(c), NEW l \in Lanes, l # Lane(c)
  PROVE  /\ Made(l)' = Made(l) /\ InLane(l)' = InLane(l)
         /\ UNCHANGED <<calls[l], seq[l], divergence[l], mark[l]>>
         /\ \A d \in InLane(l) : UNCHANGED <<pc[d], call[d], read[d], step[d]>>
         /\ \A d \in InLane(l) : pc[d] = "replace" => UNCHANGED copy
<1> USE DEF Types, Goes, drainVars
<1>1. c \notin InLane(l) /\ UNCHANGED <<call, calls>>
  BY DEF InLane, Lane, Works, LooksAtRow, Renames, ReadsCount, WritesCount, BindsList, Appends,
         ReadsTally, WritesTally, ReadsRow, ReplacesRow
<1>2. \A d \in Callers : d # c => UNCHANGED <<pc[d], call[d], read[d], step[d]>>
  BY DEF Works, LooksAtRow, Renames, ReadsCount, WritesCount, BindsList, Appends,
         ReadsTally, WritesTally, ReadsRow, ReplacesRow
<1>3. UNCHANGED <<calls[l], seq[l], divergence[l], mark[l]>>
  BY DEF Works, LooksAtRow, Renames, ReadsCount, WritesCount, BindsList, Appends,
         ReadsTally, WritesTally, ReadsRow, ReplacesRow
<1>4. pc[c] = "row" \/ UNCHANGED copy
  BY DEF Works, LooksAtRow, Renames, ReadsCount, WritesCount, BindsList, Appends,
         ReadsTally, WritesTally, ReadsRow, ReplacesRow
<1>5. InLane(l)' = InLane(l)
  BY <1>1, <1>2 DEF InLane, Lane
<1>6. Made(l)' = Made(l)
  <2>1. CASE Appends(c)
    BY <2>1, AppendsOwn
  <2>2. CASE ~Appends(c)
    BY <2>2 DEF Made, Works, LooksAtRow, Renames, ReadsCount, WritesCount, BindsList,
                ReadsTally, WritesTally, ReadsRow, ReplacesRow
  <2> QED
    BY <2>1, <2>2
<1>7. \A d \in InLane(l) : d \in Callers /\ d # c
  BY <1>1 DEF InLane
<1> QED
  BY <1>2, <1>3, <1>4, <1>5, <1>6, <1>7

\* The append of the only call of its lane.
LEMMA OwnAppend ==
  ASSUME Types, NEW c \in Callers, Lane(c) \in Lanes, calls[Lane(c)] = call[c].n,
         Coming(Lane(c), c, calls[Lane(c)]), Appends(c)
  PROVE  LET l == Lane(c)
             k == calls[l]
         IN  /\ call[c].kind # "ungrounded" => Settled(l, k)'
             /\ call[c].kind = "ungrounded" => Tallying(l, c, k)'
<1> DEFINE l == Lane(c)
           k == calls[l]
           e == Recorded(c)
<1>1. k \in Nat /\ k > 0 /\ step[c] = k /\ seq[l] = k /\ mark[l] \in Nat /\ Threshold \in Nat \ {0}
  BY ThreadAssumption DEF Types, Coming, Appends, Goes
<1>2. /\ UNCHANGED <<call, calls, step, read, seq, divergence, mark>>
      /\ pc'[c] = IF call[c].kind = "ungrounded" THEN "tally" ELSE "idle"
  BY DEF Appends, Goes, Types
<1>3. Lane(c)' = l /\ calls[Lane(c)]' = k
  BY <1>2 DEF Lane
<1>4. Made(l)' = Made(l) \cup {e}
  BY <1>3, AppendsOwn
<1>5. e.seq = k /\ e.n = k /\ e.ungrounded = (call[c].kind = "ungrounded")
  BY <1>1 DEF Recorded
<1>6. Numbered(l, k - 1) /\ Marked(l, k - 1) /\ divergence[l] = Cardinality(Drift(l, k - 1))
  BY DEF Coming, Settled
<1> HIDE DEF l, k, e
<1>7. \A f \in Made(l) : f.seq \in 1..(k - 1)
  BY <1>6 DEF Numbered
<1>8. e \notin Made(l)
  BY <1>1, <1>5, <1>7
<1>9. IsFiniteSet(Made(l)') /\ Cardinality(Made(l)') = k
  BY <1>1, <1>4, <1>6, <1>8, FS_AddElement DEF Numbered
<1>10. {f.seq : f \in Made(l)'} = 1..k
  <2>1. {f.seq : f \in Made(l)'} = {f.seq : f \in Made(l)} \cup {e.seq}
    BY <1>4
  <2>2. 1..k = 1..(k - 1) \cup {k}
    BY <1>1
  <2> QED
    BY <2>1, <2>2, <1>5, <1>6 DEF Numbered
<1>11. Numbered(l, k)'
  <2>1. \A f \in Made(l)' : f.seq = f.n
    BY <1>4, <1>5, <1>6 DEF Numbered
  <2> QED
    BY <2>1, <1>9, <1>10, <1>3 DEF Numbered, l, k
<1>12. \A n : IsFiniteSet(Drift(l, n)) /\ Cardinality(Drift(l, n)) \in Nat
  BY <1>6, DriftFinite DEF Numbered
<1> DEFINE New(n) == {f \in Made(l)' : f.ungrounded /\ f.seq <= n}
<1>13. \A n \in Nat : n <= k - 1 => New(n) = Drift(l, n)
  BY <1>1, <1>4, <1>5 DEF Drift
<1>14. New(k) = IF e.ungrounded THEN Drift(l, k - 1) \cup {e} ELSE Drift(l, k - 1)
  <2>1. \A f \in Made(l) : f.seq <= k /\ f.seq <= k - 1
    BY <1>1, <1>7
  <2>2. e.seq <= k
    BY <1>1, <1>5
  <2> QED
    BY <2>1, <2>2, <1>4 DEF Drift
<1>15. e \notin Drift(l, k - 1)
  BY <1>8 DEF Drift
<1>16. /\ e.ungrounded => Cardinality(New(k)) = Cardinality(Drift(l, k - 1)) + 1
       /\ ~e.ungrounded => Cardinality(New(k)) = Cardinality(Drift(l, k - 1))
  <2>1. Cardinality(Drift(l, k - 1) \cup {e}) = Cardinality(Drift(l, k - 1)) + 1
    BY <1>12, <1>15, FS_AddElement
  <2>2. CASE e.ungrounded
    BY <2>1, <2>2, <1>14
  <2>3. CASE ~e.ungrounded
    <3>1. New(k) = Drift(l, k - 1)
      BY <2>3, <1>14
    <3> QED
      BY <2>3, <3>1
  <2> QED
    BY <2>2, <2>3
<1>17. \A n : Drift(l, n)' = New(n)
  BY <1>3 DEF Drift, l
<1> HIDE DEF New
<1>18. Cardinality(New(k - 1)) = Cardinality(Drift(l, k - 1))
  BY <1>1, <1>13
<1>19. Marked(l, k - 1)' /\ (~e.ungrounded => Marked(l, k)')
  <2>1. mark' = mark
    BY <1>2
  <2>2. ASSUME mark[l] # 0
        PROVE  /\ mark[l] \in 1..(k - 1) /\ mark[l] \in 1..k
               /\ Cardinality(New(mark[l])) = Threshold
               /\ Cardinality(New(mark[l] - 1)) < Threshold
    <3>1. mark[l] \in 1..(k - 1)
      BY <2>2, <1>6 DEF Marked
    <3>2. New(mark[l]) = Drift(l, mark[l]) /\ New(mark[l] - 1) = Drift(l, mark[l] - 1)
      BY <3>1, <1>1, <1>13
    <3> QED
      BY <3>1, <3>2, <2>2, <1>1, <1>6 DEF Marked
  <2>3. ASSUME mark[l] = 0
        PROVE  /\ Cardinality(New(k - 1)) < Threshold
               /\ ~e.ungrounded => Cardinality(New(k)) < Threshold
    BY <2>3, <1>6, <1>16, <1>18 DEF Marked
  <2>4. (k - 1)' = k - 1 /\ k' = k /\ l' = l
    BY <1>3 DEF k, l
  <2> QED
    BY <2>1, <2>2, <2>3, <2>4, <1>17 DEF Marked
<1>20. ASSUME call[c].kind # "ungrounded"
       PROVE  Settled(l, k)'
  <2>1. ~e.ungrounded
    BY <1>5, <1>20
  <2>2. divergence[l]' = Cardinality(Drift(l, k))'
    BY <2>1, <1>2, <1>3, <1>6, <1>16, <1>17 DEF l, k
  <2> QED
    BY <2>1, <2>2, <1>11, <1>19 DEF Settled
<1>21. ASSUME call[c].kind = "ungrounded"
       PROVE  Tallying(l, c, k)'
  <2>1. e.ungrounded
    BY <1>5, <1>21
  <2>2. pc'[c] = "tally" /\ seq'[l] = k /\ step'[c] = k /\ k' = k /\ l' = l /\ (k - 1)' = k - 1
    BY <1>1, <1>2, <1>3, <1>21 DEF l, k
  <2>3. Cardinality(Drift(l, k))' = Cardinality(New(k)) /\ Cardinality(Drift(l, k - 1))' = Cardinality(New(k - 1))
    BY <2>2, <1>17
  <2>4. Cardinality(Drift(l, k - 1)) \in Nat /\ Cardinality(New(k)) = Cardinality(Drift(l, k - 1)) + 1
    BY <2>1, <1>12, <1>16
  <2>5. divergence'[l] = Cardinality(Drift(l, k - 1))
    BY <1>2, <1>6
  <2> QED
    BY <2>2, <2>3, <2>4, <2>5, <1>1, <1>11, <1>18, <1>19 DEF Tallying
<1> QED
  BY <1>20, <1>21 DEF l, k

\* The only caller of a lane that makes one call at a time keeps the lane exact.
LEMMA OwnWork ==
  ASSUME IInv, NEW c \in Callers, Works(c), Lane(c) \in Sequential
  PROVE  Exact(Lane(c))'
<1> DEFINE l == Lane(c)
           k == calls[l]
<1>1. Types /\ Exact(l) /\ l \in Lanes /\ k \in Nat
  BY ThreadAssumption DEF IInv, Types
<1>2. pc[c] # "idle" /\ UNCHANGED <<call, calls>>
  BY DEF Works, LooksAtRow, Renames, ReadsCount, WritesCount, BindsList, Appends,
         ReadsTally, WritesTally, ReadsRow, ReplacesRow, Goes
<1>3. InLane(l) = {c} /\ call[c].n = k
  BY <1>1, <1>2 DEF Exact, InLane, Lane
<1>4. \A d \in Callers : d # c => UNCHANGED pc[d]
  BY <1>1 DEF Works, LooksAtRow, Renames, ReadsCount, WritesCount, BindsList, Appends,
              ReadsTally, WritesTally, ReadsRow, ReplacesRow, Goes, Types
<1>5. l' = l /\ k' = k
  BY <1>2 DEF Lane
<1>6. InLane(l)' = IF pc'[c] = "idle" THEN {} ELSE {c}
  BY <1>2, <1>3, <1>4 DEF InLane, Lane
<1>7. /\ pc[c] \in Before => Coming(l, c, k)
      /\ pc[c] \in Counting => Tallying(l, c, k)
  BY <1>1, <1>3 DEF Exact
<1> DEFINE Kept == /\ pc'[c] = "idle" => Settled(l, k)' /\ seq'[l] = k
                   /\ pc'[c] \in Before => Coming(l, c, k)'
                   /\ pc'[c] \in Counting => Tallying(l, c, k)'
<1>8. Kept => Exact(l)'
  BY <1>2, <1>3, <1>5, <1>6 DEF Exact
<1>9. pc'[c] \in Before /\ Coming(l, c, k)' => Kept
  BY DEF Before, Counting
<1>10. pc'[c] \in Counting /\ Tallying(l, c, k)' => Kept
  BY DEF Before, Counting
<1>11. pc'[c] = "idle" /\ Settled(l, k)' /\ seq'[l] = k => Kept
  BY DEF Before, Counting
<1> HIDE DEF Kept
<1>12. seq[l] \in Nat /\ divergence[l] \in Nat /\ mark[l] \in Nat /\ read[c] \in Nat /\ step[c] \in Nat
      /\ Threshold \in Nat \ {0}
  BY <1>1, ThreadAssumption DEF Types
<1>13. CASE Appends(c)
  <2>1. Coming(l, c, k) /\ seq[l] = k
    BY <1>7, <1>13 DEF Appends, Goes, Before, Coming
  <2>2. /\ call[c].kind # "ungrounded" => Settled(l, k)'
        /\ call[c].kind = "ungrounded" => Tallying(l, c, k)'
    BY <1>1, <1>3, <1>13, <2>1, OwnAppend
  <2>3. pc'[c] = IF call[c].kind = "ungrounded" THEN "tally" ELSE "idle"
    BY <1>1, <1>13 DEF Appends, Goes, Types
  <2>4. seq'[l] = k
    BY <2>1, <1>13 DEF Appends
  <2>5. Kept
    BY <2>2, <2>3, <2>4, <1>10, <1>11 DEF Counting
  <2> QED
    BY <2>5, <1>8
<1>14. CASE ~Appends(c)
  <2>1. Made(l)' = Made(l)
    BY <1>5, <1>14 DEF Made, Works, LooksAtRow, Renames, ReadsCount, WritesCount, BindsList,
                       ReadsTally, WritesTally, ReadsRow, ReplacesRow
  <2> DEFINE Drifts(n) == Cardinality(Drift(l, n))
  <2>2. \A n : Drift(l, n)' = Drift(l, n)
    BY <2>1, <1>5 DEF Drift
  <2>3. \A n : Numbered(l, n)' = Numbered(l, n)
    BY <2>1, <1>5 DEF Numbered
  <2>4. UNCHANGED mark[l] => \A n : Marked(l, n)' = Marked(l, n)
    BY <2>2, <1>5 DEF Marked
  <2>5. UNCHANGED <<mark[l], divergence[l]>> => \A n : Settled(l, n)' = Settled(l, n)
    BY <2>2, <2>3, <2>4, <1>5 DEF Settled
  <2>6. (k - 1)' = k - 1
    BY <1>5
  <2>7. IsFiniteSet(Made(l))
    BY <1>7, <1>1, <1>2 DEF Coming, Tallying, Settled, Numbered, Types, Places
  <2>8. \A n : Drifts(n) \in Nat
    BY <2>7, DriftFinite
  <2>9. ASSUME NEW renames \in BOOLEAN, LooksAtRow(c, renames)
        PROVE  Kept
    <3>1. Coming(l, c, k) /\ pc'[c] \in {"replace", "count"} /\ copy' = mark[l]
          /\ pc[c] = "row" /\ UNCHANGED <<seq, mark, divergence>>
      BY <1>1, <1>7, <2>9 DEF LooksAtRow, Goes, Types, Before
    <3>2. Settled(l, k - 1)'
      BY <3>1, <2>5, <2>6, <1>5 DEF Coming
    <3>3. Coming(l, c, k)'
      BY <3>1, <3>2, <1>5 DEF Coming
    <3> QED
      BY <3>1, <3>3, <1>9 DEF Before
  <2>10. ASSUME Renames(c)
         PROVE  Kept
    <3>1. Coming(l, c, k) /\ pc'[c] = "count" /\ pc[c] = "replace" /\ UNCHANGED <<seq, divergence>>
      BY <1>1, <1>7, <2>10 DEF Renames, Goes, Types, Before
    <3>2. mark'[l] = mark[l]
      BY <3>1, <1>1, <2>10 DEF Renames, Coming, Types
    <3>3. Settled(l, k - 1)'
      BY <3>1, <3>2, <2>5, <2>6, <1>5 DEF Coming
    <3>4. Coming(l, c, k)'
      BY <3>1, <3>3, <1>5 DEF Coming
    <3> QED
      BY <3>1, <3>4, <1>9 DEF Before
  <2>11. ASSUME ReadsCount(c)
         PROVE  Kept
    <3>1. Coming(l, c, k) /\ pc'[c] = "number" /\ pc[c] = "count" /\ UNCHANGED <<seq, mark, divergence>>
          /\ read'[c] = seq[l]
      BY <1>1, <1>7, <2>11 DEF ReadsCount, Goes, Types, Before
    <3>2. Settled(l, k - 1)'
      BY <3>1, <2>5, <2>6, <1>5 DEF Coming
    <3>3. Coming(l, c, k)'
      BY <3>1, <3>2, <1>5 DEF Coming
    <3> QED
      BY <3>1, <3>3, <1>9 DEF Before
  <2>12. ASSUME WritesCount(c)
         PROVE  Kept
    <3>1. Coming(l, c, k) /\ pc'[c] = "bind" /\ pc[c] = "number" /\ UNCHANGED <<mark, divergence>>
          /\ step'[c] = read[c] + 1 /\ seq'[l] = read[c] + 1
      BY <1>1, <1>7, <2>12 DEF WritesCount, Goes, Types, Before
    <3>2. Settled(l, k - 1)'
      BY <3>1, <2>5, <2>6, <1>5 DEF Coming
    <3>3. read[c] + 1 = k
      BY <3>1, <1>1 DEF Coming
    <3>4. Coming(l, c, k)'
      BY <3>1, <3>2, <3>3, <1>5 DEF Coming
    <3> QED
      BY <3>1, <3>4, <1>9 DEF Before
  <2>13. ASSUME BindsList(c)
         PROVE  Kept
    <3>1. Coming(l, c, k) /\ pc'[c] = "append" /\ pc[c] = "bind" /\ UNCHANGED <<seq, step, mark, divergence>>
      BY <1>1, <1>7, <2>13 DEF BindsList, Goes, Types, Before
    <3>2. Settled(l, k - 1)'
      BY <3>1, <2>5, <2>6, <1>5 DEF Coming
    <3>3. Coming(l, c, k)'
      BY <3>1, <3>2, <1>5 DEF Coming
    <3> QED
      BY <3>1, <3>3, <1>9 DEF Before
  <2>14. ASSUME ReadsTally(c)
         PROVE  Kept
    <3>1. /\ Tallying(l, c, k) /\ pc'[c] = "tallied" /\ pc[c] = "tally"
          /\ UNCHANGED <<seq, step, mark, divergence>> /\ read'[c] = divergence[l]
      BY <1>1, <1>7, <2>14 DEF ReadsTally, Goes, Types, Counting
    <3>2. Tallying(l, c, k)'
      BY <3>1, <2>2, <2>3, <2>4, <2>6, <1>5 DEF Tallying
    <3> QED
      BY <3>1, <3>2, <1>10 DEF Counting
  <2>15. ASSUME WritesTally(c)
         PROVE  Kept
    <3>1. /\ Tallying(l, c, k) /\ pc'[c] = (IF read[c] + 1 < Threshold THEN "idle" ELSE "look")
          /\ pc[c] = "tallied" /\ UNCHANGED <<seq, step, mark>> /\ divergence'[l] = read[c] + 1
      BY <1>1, <1>7, <2>15 DEF WritesTally, Goes, Types, Counting
    <3>2. read[c] + 1 = Drifts(k)
      BY <3>1, <2>8 DEF Tallying
    <3>3. CASE Drifts(k) < Threshold
      <4>1. mark[l] = 0
        <5>1. mark[l] # 0 => mark[l] \in 1..(k - 1) /\ Drifts(mark[l]) = Threshold
          BY <3>1 DEF Tallying, Marked
        <5>2. mark[l] \in 1..(k - 1) => Drift(l, mark[l]) \subseteq Drift(l, k)
          <6> SUFFICES ASSUME mark[l] \in 1..(k - 1), NEW f \in Drift(l, mark[l])
                       PROVE  f \in Drift(l, k)
            OBVIOUS
          <6>1. f \in Made(l) /\ f.ungrounded /\ f.seq <= mark[l]
            BY DEF Drift
          <6>2. f.seq \in 1..k
            BY <6>1, <3>1 DEF Tallying, Numbered
          <6> QED
            BY <6>1, <6>2, <1>1, <1>12 DEF Drift
        <5>3. mark[l] \in 1..(k - 1) => Drifts(mark[l]) <= Drifts(k)
          BY <5>2, <2>7, DriftFinite, FS_Subset
        <5> QED
          BY <5>1, <5>3, <3>3, <2>8, <1>12
      <4>2. Marked(l, k)'
        BY <4>1, <3>1, <3>3, <2>2, <1>5 DEF Marked
      <4>3. Settled(l, k)'
        BY <4>2, <3>1, <3>2, <2>2, <2>3, <1>5 DEF Settled, Tallying
      <4> QED
        BY <4>3, <3>1, <3>2, <3>3, <1>11 DEF Tallying
    <3>4. CASE ~(Drifts(k) < Threshold)
      <4>1. pc'[c] = "look" /\ Drifts(k) >= Threshold /\ divergence'[l] = Drifts(k)
        BY <3>1, <3>2, <3>4, <2>8, <1>12
      <4>2. Tallying(l, c, k)'
        BY <4>1, <3>1, <2>2, <2>3, <2>4, <2>6, <1>5 DEF Tallying
      <4> QED
        BY <4>1, <4>2, <1>10 DEF Counting
    <3> QED
      BY <3>3, <3>4
  <2>16. ASSUME ReadsRow(c)
         PROVE  Kept
    <3>1. /\ Tallying(l, c, k) /\ pc'[c] = (IF mark[l] # 0 THEN "idle" ELSE "mark")
          /\ pc[c] = "look" /\ UNCHANGED <<seq, step, mark, divergence>>
      BY <1>1, <1>7, <2>16 DEF ReadsRow, Goes, Types, Counting
    <3>2. CASE mark[l] # 0
      <4>1. Marked(l, k)
        BY <3>1, <3>2, <1>1 DEF Tallying, Marked
      <4>2. Settled(l, k)'
        BY <4>1, <3>1, <2>3, <2>2, <2>4, <1>5 DEF Settled, Tallying
      <4> QED
        BY <4>2, <3>1, <3>2, <1>11 DEF Tallying
    <3>3. CASE mark[l] = 0
      <4>1. Tallying(l, c, k)'
        BY <3>1, <3>3, <2>2, <2>3, <2>4, <2>6, <1>5 DEF Tallying
      <4> QED
        BY <4>1, <3>1, <3>3, <1>10 DEF Counting
    <3> QED
      BY <3>2, <3>3
  <2>17. ASSUME ReplacesRow(c)
         PROVE  Kept
    <3>1. /\ Tallying(l, c, k) /\ pc'[c] = "idle" /\ pc[c] = "mark"
          /\ UNCHANGED <<seq, step, divergence>> /\ mark'[l] = step[c]
      BY <1>1, <1>7, <2>17 DEF ReplacesRow, Goes, Types, Counting
    <3>2. k > 0 /\ mark'[l] = k /\ seq[l] = k /\ Numbered(l, k) /\ divergence[l] = Drifts(k)
      BY <3>1 DEF Tallying
    <3>3. Drifts(k - 1) < Threshold /\ Drifts(k - 1) = Drifts(k) - 1 /\ Drifts(k) >= Threshold
      BY <3>1 DEF Tallying, Marked
    <3>4. Drifts(k) = Threshold
      BY <3>3, <2>8, <1>12
    <3>5. Marked(l, k)'
      BY <3>2, <3>3, <3>4, <2>2, <1>1, <1>5 DEF Marked
    <3>6. Settled(l, k)'
      BY <3>1, <3>2, <3>5, <2>2, <2>3, <1>5 DEF Settled
    <3> QED
      BY <3>1, <3>2, <3>6, <1>11
  <2>18. Kept
    BY <1>14, <2>9, <2>10, <2>11, <2>12, <2>13, <2>14, <2>15, <2>16, <2>17 DEF Works
  <2> QED
    BY <2>18, <1>8
<1> QED
  BY <1>13, <1>14

\* The first step of a call: its lane is at rest if it makes one call at a time, and no
\* other lane is touched.
LEMMA BeginsExact ==
  ASSUME IInv, NEW c \in Callers, NEW l \in Lanes, NEW kind \in Kinds, Begins(c, l, kind),
         NEW h \in Sequential
  PROVE  Exact(h)'
<1>1. Types /\ Exact(h) /\ h \in Lanes
  BY ThreadAssumption DEF IInv
<1>2. /\ pc[c] = "idle" /\ UNCHANGED <<read, step, copy, seq, divergence, mark, lists>>
      /\ pc'[c] \in {"row", "count"} /\ \A d \in Callers : d # c => UNCHANGED <<pc[d], call[d]>>
      /\ call'[c] = [lane |-> l, n |-> calls[l] + 1, kind |-> kind]
      /\ calls' = [calls EXCEPT ![l] = calls[l] + 1]
  BY <1>1 DEF Begins, Goes, Types
<1>3. \A k : Made(k)' = Made(k)
  BY <1>2 DEF Made
<1>4. CASE h # l
  <2>1. InLane(h)' = InLane(h) /\ c \notin InLane(h)
    BY <1>2, <1>4 DEF InLane
  <2>2. UNCHANGED calls[h]
    BY <1>1, <1>2, <1>4 DEF Types
  <2>3. \A d \in InLane(h) : UNCHANGED <<pc[d], call[d], read[d], step[d]>>
    BY <1>2, <2>1 DEF InLane
  <2> QED
    BY <1>1, <1>2, <1>3, <2>1, <2>2, <2>3, Frame
<1>5. CASE h = l
  <2>1. InLane(h) = {}
    BY <1>5 DEF Begins
  <2>2. InLane(h)' = {c}
    BY <1>2, <1>5, <2>1 DEF InLane
  <2>3. Settled(h, calls[h]) /\ seq[h] = calls[h] /\ calls[h] \in Nat
    BY <1>1, <2>1 DEF Exact, Types
  <2>4. calls'[h] = calls[h] + 1 /\ call'[c].n = calls'[h]
    BY <1>1, <1>2, <1>5 DEF Types
  <2>5. \A n : Drift(h, n)' = Drift(h, n)
    BY <1>3 DEF Drift
  <2>6. \A n : Settled(h, n)' = Settled(h, n)
    BY <1>2, <1>3, <2>5 DEF Settled, Numbered, Marked
  <2>7. (calls[h] - 1)' = calls[h]
    BY <2>3, <2>4
  <2>8. Coming(h, c, calls[h])'
    BY <1>2, <2>3, <2>4, <2>6, <2>7 DEF Coming
  <2> QED
    BY <1>2, <2>2, <2>4, <2>8 DEF Exact, Counting
<1> QED
  BY <1>4, <1>5

LEMMA StepIInv == IInv /\ [Next]_vars => IInv'
<1> SUFFICES ASSUME IInv, [Next]_vars
             PROVE  IInv'
  OBVIOUS
<1>1. Types /\ Types'
  BY StepTypes DEF IInv
<1>2. ASSUME NEW c \in Callers, NEW l \in Lanes, NEW kind \in Kinds, Begins(c, l, kind)
      PROVE  IInv'
  BY <1>1, <1>2, BeginsExact DEF IInv
<1>3. ASSUME NEW c \in Callers, Works(c)
      PROVE  IInv'
  <2>1. ASSUME NEW l \in Sequential
        PROVE  Exact(l)'
    <3>1. CASE l = Lane(c)
      <4>1. Exact(Lane(c))'
        BY <3>1, <1>3, OwnWork
      <4>2. Lane(c)' = Lane(c)
        BY <1>3 DEF Lane, Works, LooksAtRow, Renames, ReadsCount, WritesCount, BindsList, Appends,
                    ReadsTally, WritesTally, ReadsRow, ReplacesRow
      <4> QED
        BY <4>1, <4>2, <3>1
    <3>2. CASE l # Lane(c)
      BY <3>2, <1>1, <1>3, WorkFrame, Frame, ThreadAssumption DEF IInv
    <3> QED
      BY <3>1, <3>2
  <2> QED
    BY <1>1, <2>1 DEF IInv
<1>4. ASSUME \/ \E others \in BOOLEAN : Swap(others)
             \/ Write
             \/ UNCHANGED vars
      PROVE  IInv'
  <2>1. UNCHANGED <<pc, call, read, step, copy, calls, seq, divergence, mark, lists>>
    BY <1>4 DEF Swap, Write, vars
  <2>2. ASSUME NEW l \in Sequential
        PROVE  Exact(l)'
    <3>1. Made(l)' = Made(l) /\ InLane(l)' = InLane(l)
      BY <2>1 DEF Made, InLane
    <3> QED
      BY <2>1, <3>1, Frame DEF IInv
  <2> QED
    BY <1>1, <2>2 DEF IInv
<1> QED
  BY <1>2, <1>3, <1>4 DEF Next

-----------------------------------------------------------------------------
(* The theorem.                                                            *)

LEMMA ExactFromIInv == IInv => OneCallAtATimeIsExact
<1> SUFFICES ASSUME IInv, NEW l \in Sequential
             PROVE  /\ {e.seq : e \in Made(l)} = 1..Cardinality(Made(l))
                    /\ \A e \in Made(l) : e.seq = e.n
                    /\ InLane(l) = {} =>
                         IF mark[l] = 0 THEN Ungrounded(l, seq[l]) < Threshold
                         ELSE /\ Ungrounded(l, mark[l]) = Threshold
                              /\ Ungrounded(l, mark[l] - 1) < Threshold
  BY DEF OneCallAtATimeIsExact
<1>1. Types /\ Exact(l)
  BY DEF IInv
<1>2. \A n : Ungrounded(l, n) = Cardinality(Drift(l, n))
  BY DEF Ungrounded, Drift
<1>3. CASE InLane(l) = {}
  BY <1>1, <1>2, <1>3 DEF Exact, Settled, Numbered, Marked
<1>4. CASE InLane(l) # {}
  <2>1. PICK c \in InLane(l) : TRUE
    BY <1>4
  <2>2. pc[c] \in Before \cup Counting
    BY <2>1, <1>1 DEF InLane, Types, Places
  <2>3. Numbered(l, calls[l] - 1) \/ Numbered(l, calls[l])
    BY <1>1, <2>1, <2>2 DEF Exact, Coming, Tallying, Settled
  <2> QED
    BY <1>4, <2>3 DEF Numbered
<1> QED
  BY <1>3, <1>4

\* A lane that makes one call at a time is numbered without gap, in the order of its
\* calls, and marked at the right step, however the calls of other lanes, in threads and
\* on the event loop, and the drains are switched in between.
THEOREM OneCallExact == Spec => []OneCallAtATimeIsExact
<1>1. CASE \E l \in Lanes : TRUE
  BY <1>1, InitIInv, StepIInv, ExactFromIInv, PTL DEF Spec
<1>2. CASE ~\E l \in Lanes : TRUE
  <2>1. OneCallAtATimeIsExact
    BY <1>2, ThreadAssumption DEF OneCallAtATimeIsExact
  <2> QED
    BY <2>1, PTL
<1> QED
  BY <1>1, <1>2

=============================================================================
