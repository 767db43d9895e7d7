--------------------------- MODULE ShadowRunProofs ---------------------------
(***************************************************************************)
(* Proofs about ShadowRun, for every set of queries, number of shadows,    *)
(* nesting, lanes that leave tasks behind, models and threshold; and about *)
(* Override, which is a run of the runner, so that what is proved of the   *)
(* runner holds of it, for every set of clients, requested models and      *)
(* defaults.                                                               *)
(***************************************************************************)
EXTENDS Override, LaneLedgerProofs

-----------------------------------------------------------------------------
(* Lanes and the shadows of a query.                                      *)

\* Every lane is the primary or a shadow of the query it names.
LEMMA LaneLemma ==
  /\ \A q \in Queries : /\ Primary(q) \in Lanes /\ Primary(q)[1] = q /\ ~IsShadow(Primary(q))
                        /\ ShadowsOf(q) \subseteq Lanes
                        /\ \A l \in ShadowsOf(q) : IsShadow(l) /\ l[1] = q /\ l # Primary(q)
  /\ \A l \in Lanes : /\ l[1] \in Queries
                      /\ ~IsShadow(l) => l = Primary(l[1])
                      /\ IsShadow(l) => l \in ShadowsOf(l[1])
<1>1. ASSUME NEW q \in Queries
      PROVE  Width[q] \in Nat /\ {q} \X (0..Width[q]) \subseteq Lanes
  BY RunAssumption
<1>2. ASSUME NEW q \in Queries
      PROVE  /\ Primary(q) \in Lanes /\ Primary(q)[1] = q /\ ~IsShadow(Primary(q))
             /\ ShadowsOf(q) \subseteq Lanes
             /\ \A l \in ShadowsOf(q) : IsShadow(l) /\ l[1] = q /\ l # Primary(q)
  <2>1. Primary(q) \in {q} \X (0..Width[q])
    BY <1>1 DEF Primary
  <2>2. \A i \in 1..Width[q] : <<q, i>> \in {q} \X (0..Width[q])
    BY <1>1
  <2>3. \A i \in 1..Width[q] : <<q, i>>[2] # 0 /\ <<q, i>>[1] = q /\ <<q, i>> # <<q, 0>>
    BY <1>1
  <2>4. ShadowsOf(q) \subseteq Lanes
    BY <1>1, <2>2 DEF ShadowsOf
  <2> QED
    BY <1>1, <2>1, <2>3, <2>4 DEF Primary, ShadowsOf, IsShadow
<1>3. ASSUME NEW l \in Lanes
      PROVE  /\ l[1] \in Queries
             /\ ~IsShadow(l) => l = Primary(l[1])
             /\ IsShadow(l) => l \in ShadowsOf(l[1])
  <2>1. PICK q \in Queries : l \in {q} \X (0..Width[q])
    BY RunAssumption
  <2>2. PICK i \in 0..Width[q] : l = <<q, i>>
    BY <2>1
  <2>3. l[1] = q /\ l[2] = i
    BY <2>2
  <2>4. i # 0 => i \in 1..Width[q]
    BY <1>1, <2>2
  <2> QED
    BY <2>2, <2>3, <2>4 DEF Primary, ShadowsOf, IsShadow
<1> QED
  BY <1>2, <1>3

\* Spawning the shadows of a query gives those without a row a fresh one.
LEMMA StartShadowsLemma ==
  ASSUME NEW g \in Ledger, NEW q \in Queries
  PROVE  /\ StartShadows(g, q) \in Ledger
         /\ \A l \in Lanes : StartShadows(g, q).rows[l] =
              IF l \in ShadowsOf(q) /\ ~Known(g, l) THEN FreshRow(q) ELSE g.rows[l]
<1> DEFINE rows == [l \in Lanes |-> IF l \in ShadowsOf(q) THEN StartLane(g, l, q).rows[l] ELSE g.rows[l]]
           dirty == g.dirty \cup UNION {StartLane(g, l, q).dirty : l \in ShadowsOf(q)}
<1>1. StartShadows(g, q) = [[g EXCEPT !.rows = rows] EXCEPT !.dirty = dirty]
  BY DEF StartShadows, Ledger
<1>2. \A l \in Lanes : /\ StartLane(g, l, q).rows[l] \in Row \cup {NoRow}
                       /\ StartLane(g, l, q).dirty \in SUBSET Lanes
  BY StartLaneLemma DEF Ledger
<1>3. rows \in [Lanes -> Row \cup {NoRow}]
  BY <1>2 DEF Ledger
<1>4. dirty \in SUBSET Lanes
  BY <1>2, LaneLemma DEF Ledger
<1>5. \A l \in Lanes : rows[l] = IF l \in ShadowsOf(q) /\ ~Known(g, l) THEN FreshRow(q) ELSE g.rows[l]
  BY StartLaneLemma
<1> HIDE DEF rows, dirty
<1>6. StartShadows(g, q) \in Ledger /\ StartShadows(g, q).rows = rows
  BY <1>1, <1>3, <1>4 DEF Ledger
<1> QED
  BY <1>5, <1>6

-----------------------------------------------------------------------------
(* Type correctness.                                                       *)

\* What every action does to the ledger leaves it a ledger.
LEMMA LedgerTypes ==
  ASSUME NEW g \in Ledger, NEW l \in Lanes
  PROVE  /\ \A st \in {"ok", "error"} : FinishLane(g, l, st) \in Ledger
         /\ EnforceDistinct(g, l) \in Ledger
         /\ \A u \in BOOLEAN : RecordToolEvent(g, l, u) \in Ledger
         /\ \A m \in Models \cup {NoModel} : RecordModelCall(g, l, m) \in Ledger
<1>1. \A st \in {"ok", "error"} : FinishLane(g, l, st) \in Ledger
  BY StatusLemma DEF RowsOnly
<1>2. MarkCollision(g, l) \in Ledger
  BY StatusLemma DEF RowsOnly
<1>3. \A u \in BOOLEAN : RecordToolEvent(g, l, u) \in Ledger
  BY RecordLemma DEF Logged
<1>4. \A m \in Models \cup {NoModel} : RecordModelCall(g, l, m) \in Ledger
  BY RecordLemma DEF Logged
<1> QED
  BY <1>1, <1>2, <1>3, <1>4 DEF EnforceDistinct

LEMMA TypeStep == TypeOK /\ [Next]_vars => TypeOK'
<1> SUFFICES ASSUME TypeOK, [Next]_vars
             PROVE  TypeOK'
  OBVIOUS
<1>1. ASSUME NEW q \in Queries, NEW from \in Lanes \cup {Top}, Call(q, from)
      PROVE  TypeOK'
  <2>1. ledger' \in Ledger
    BY <1>1, StartQueryLemma, StartLaneLemma, LaneLemma DEF Call, TypeOK
  <2> QED
    BY <1>1, <2>1 DEF Call, TypeOK
<1>2. ASSUME NEW q \in Queries, PrimaryReturns(q)
      PROVE  TypeOK'
  <2>1. Primary(q) \in Lanes
    BY LaneLemma
  <2>2. FinishLane(ledger, Primary(q), "ok") \in Ledger
    BY <2>1, LedgerTypes DEF TypeOK
  <2>3. ledger' \in Ledger
    BY <1>2, <2>2, StartShadowsLemma DEF PrimaryReturns
  <2>4. phase' \in [Lanes -> {"none", "spawned", "running", "over", "withdrawn"}]
    BY <1>2 DEF PrimaryReturns, TypeOK
  <2> QED
    BY <1>2, <2>3, <2>4 DEF PrimaryReturns, TypeOK
<1>3. ASSUME NEW q \in Queries, PrimaryRaises(q)
      PROVE  TypeOK'
  <2>1. ledger' \in Ledger
    BY <1>3, LaneLemma, LedgerTypes DEF PrimaryRaises, TypeOK
  <2> QED
    BY <1>3, <2>1 DEF PrimaryRaises, TypeOK
<1>4. ASSUME NEW l \in Lanes, Abandoned(l) \/ ShadowStarts(l) \/ ShadowNeverStarts(l)
      PROVE  TypeOK'
  BY <1>4 DEF Abandoned, ShadowStarts, ShadowNeverStarts, TypeOK
<1>5. ASSUME NEW l \in Lanes, ShadowReturns(l)
      PROVE  TypeOK'
  <2>1. ledger' \in Ledger
    BY <1>5, LedgerTypes DEF ShadowReturns, TypeOK
  <2> QED
    BY <1>5, <2>1 DEF ShadowReturns, TypeOK
<1>6. ASSUME NEW l \in Lanes, ShadowRaises(l)
      PROVE  TypeOK'
  <2>1. ledger' \in Ledger
    BY <1>6, LedgerTypes DEF ShadowRaises, TypeOK
  <2> QED
    BY <1>6, <2>1 DEF ShadowRaises, TypeOK
<1>7. ASSUME NEW l \in Lanes, NEW m \in Models \cup {NoModel}, ModelCall(l, m)
      PROVE  TypeOK'
  <2>1. ledger' \in Ledger
    BY <1>7, LedgerTypes DEF ModelCall, TypeOK
  <2> QED
    BY <1>7, <2>1 DEF ModelCall, TypeOK
<1>8. ASSUME NEW l \in Lanes, NEW u \in BOOLEAN, ToolCall(l, u)
      PROVE  TypeOK'
  <2>1. ledger' \in Ledger
    BY <1>8, LedgerTypes DEF ToolCall, TypeOK
  <2> QED
    BY <1>8, <2>1 DEF ToolCall, TypeOK
<1>9. CASE UNCHANGED vars
  BY <1>9 DEF vars, TypeOK
<1> QED
  BY <1>1, <1>2, <1>3, <1>4, <1>5, <1>6, <1>7, <1>8, <1>9 DEF Next, PrimaryEnds

LEMMA TypeInit == Init => TypeOK
<1>1. NewLedger \in Ledger
  BY EmptyTypes
<1> QED
  BY <1>1 DEF Init, TypeOK

\* Lanes, rows, tasks, callers and overlays keep their types.
THEOREM TypeCorrect == Spec => []TypeOK
BY TypeInit, TypeStep, PTL DEF Spec

-----------------------------------------------------------------------------
(* The inductive invariant: a lane has a row exactly when it has a task,   *)
(* and its row says "running" until the task is over.                      *)

RowPerTask == \A l \in Lanes : phase[l] # "none" <=> Known(ledger, l)

OpenUntilOver ==
  \A l \in Lanes : Known(ledger, l) /\ ~Over(l) => ledger.rows[l].status = "running"

IInv ==
  /\ TypeOK
  /\ RowPerTask
  /\ OpenUntilOver
  /\ FiledUnderOwnQuery
  /\ ShadowsFollowSuccess
  /\ CollisionCaught
  /\ OverlaysTornDown

\* What a lane that is active, or was when its task ended, may change.
LEMMA KnownLemma ==
  ASSUME NEW g \in Ledger, NEW l \in Lanes
  PROVE  Known(g, l) <=> g.rows[l] \in Row
BY NoRowAssumption DEF Known, Ledger

LEMMA TouchedLemma ==
  ASSUME IInv, NEW l \in Lanes, Active(l), Touches(ledger, ledger', l)
  PROVE  /\ Known(ledger, l)
         /\ \A k \in Lanes : Known(ledger, k)' <=> Known(ledger, k)
         /\ \A k \in Lanes : k # l => ledger'.rows[k] = ledger.rows[k]
         /\ \A k \in Lanes : IsShadow(k) /\ Known(ledger, k) /\ Running(l) => l # Primary(k[1])
<1>1. Known(ledger, l)
  BY DEF IInv, RowPerTask, Active, Running
<1>2. ledger' \in Ledger /\ ledger \in Ledger
  BY DEF Touches, IInv, TypeOK
<1>3. \A k \in Lanes : Known(ledger, k)' <=> Known(ledger, k)
  BY <1>1, <1>2, NoRowAssumption DEF Touches, Known
<1>4. \A k \in Lanes : IsShadow(k) /\ Known(ledger, k) /\ Running(l) => l # Primary(k[1])
  BY DEF IInv, ShadowsFollowSuccess, Over, Running
<1> QED
  BY <1>1, <1>3, <1>4 DEF Touches

\* The report of an active lane.
LEMMA ReportStep ==
  ASSUME IInv, TypeOK', NEW l \in Lanes, Active(l), Touches(ledger, ledger', l),
         ledger'.rows[l].status = ledger.rows[l].status,
         UNCHANGED <<phase, sampled>>, overlays' \subseteq overlays \cup {l}
  PROVE  IInv'
<1>1. RowPerTask' /\ OpenUntilOver' /\ FiledUnderOwnQuery'
  <2>1. RowPerTask'
    BY TouchedLemma DEF IInv, RowPerTask
  <2>2. OpenUntilOver'
    BY TouchedLemma DEF IInv, OpenUntilOver, Over
  <2>3. FiledUnderOwnQuery'
    BY TouchedLemma DEF IInv, FiledUnderOwnQuery, Touches
  <2> QED
    BY <2>1, <2>2, <2>3
<1>2. ShadowsFollowSuccess'
  <2> SUFFICES ASSUME NEW k \in Lanes, IsShadow(k), Known(ledger, k)'
               PROVE  (k[1] \in sampled /\ Over(Primary(k[1]))
                         /\ ledger.rows[Primary(k[1])].status = "ok")'
    BY DEF ShadowsFollowSuccess
  <2>1. Known(ledger, k) /\ Primary(k[1]) \in Lanes
    BY TouchedLemma, LaneLemma
  <2>2. k[1] \in sampled /\ Over(Primary(k[1])) /\ ledger.rows[Primary(k[1])].status = "ok"
    BY <2>1 DEF IInv, ShadowsFollowSuccess
  <2> QED
    BY <2>1, <2>2, TouchedLemma DEF Over
<1>3. CollisionCaught'
  <2> SUFFICES ASSUME NEW k \in Lanes \ Strays, IsShadow(k), Primary(k[1]) \notin Strays,
                      Known(ledger, k)', ledger'.rows[k].status = "ok"
               PROVE  ~Collides(ledger', k)
    BY DEF CollisionCaught
  <2>1. Known(ledger, k) /\ Primary(k[1]) \in Lanes
    BY TouchedLemma, LaneLemma
  <2>2. ledger.rows[k].status = "ok" /\ ~Collides(ledger, k)
    BY <2>1, TouchedLemma DEF IInv, CollisionCaught
  <2>3. l # k
    BY <2>1, <2>2 DEF IInv, OpenUntilOver, Active, Running, Over
  <2>4. l # Primary(k[1])
    BY <2>1, TouchedLemma DEF Active
  <2> QED
    BY <2>1, <2>2, <2>3, <2>4, TouchedLemma DEF Collides, Observed, Known
<1>4. OverlaysTornDown'
  BY DEF IInv, OverlaysTornDown, Active, Running
<1> QED
  BY <1>1, <1>2, <1>3, <1>4 DEF IInv

\* The end of a lane's task.
LEMMA EndStep ==
  ASSUME IInv, TypeOK', NEW l \in Lanes, Running(l), Touches(ledger, ledger', l),
         IsShadow(l) /\ ledger'.rows[l].status = "ok" => ~Collides(ledger', l),
         phase' = [phase EXCEPT ![l] = "over"], sampled' = sampled, overlays' = overlays \ {l}
  PROVE  IInv'
<1>1. Active(l)
  BY DEF Active
<1>2. /\ phase'[l] = "over"
      /\ \A k \in Lanes : k # l => phase'[k] = phase[k]
  BY DEF IInv, TypeOK
<1>3. RowPerTask' /\ OpenUntilOver' /\ FiledUnderOwnQuery'
  <2>1. RowPerTask'
    BY <1>1, <1>2, TouchedLemma DEF IInv, RowPerTask
  <2>2. OpenUntilOver'
    BY <1>1, <1>2, TouchedLemma DEF IInv, OpenUntilOver, Over
  <2>3. FiledUnderOwnQuery'
    BY <1>1, TouchedLemma DEF IInv, FiledUnderOwnQuery, Touches
  <2> QED
    BY <2>1, <2>2, <2>3
<1>4. ShadowsFollowSuccess'
  <2> SUFFICES ASSUME NEW k \in Lanes, IsShadow(k), Known(ledger, k)'
               PROVE  (k[1] \in sampled /\ Over(Primary(k[1]))
                         /\ ledger.rows[Primary(k[1])].status = "ok")'
    BY DEF ShadowsFollowSuccess
  <2>1. Known(ledger, k) /\ Primary(k[1]) \in Lanes /\ l # Primary(k[1])
    BY <1>1, TouchedLemma, LaneLemma
  <2>2. k[1] \in sampled /\ Over(Primary(k[1])) /\ ledger.rows[Primary(k[1])].status = "ok"
    BY <2>1 DEF IInv, ShadowsFollowSuccess
  <2> QED
    BY <1>1, <1>2, <2>1, <2>2, TouchedLemma DEF Over
<1>5. CollisionCaught'
  <2> SUFFICES ASSUME NEW k \in Lanes \ Strays, IsShadow(k), Primary(k[1]) \notin Strays,
                      Known(ledger, k)', ledger'.rows[k].status = "ok", k # l
               PROVE  ~Collides(ledger', k)
    BY DEF CollisionCaught
  <2>1. Known(ledger, k) /\ Primary(k[1]) \in Lanes /\ l # Primary(k[1])
    BY <1>1, TouchedLemma, LaneLemma
  <2>2. ledger.rows[k].status = "ok" /\ ~Collides(ledger, k)
    BY <1>1, <2>1, TouchedLemma DEF IInv, CollisionCaught
  <2> QED
    BY <1>1, <2>1, <2>2, TouchedLemma DEF Collides, Observed, Known
<1>6. OverlaysTornDown'
  <2> SUFFICES ASSUME NEW k \in overlays' \ Strays
               PROVE  Running(k)'
    BY DEF OverlaysTornDown
  <2>1. k \in overlays \ Strays /\ k # l /\ k \in Lanes
    BY DEF IInv, TypeOK
  <2> QED
    BY <1>2, <2>1 DEF IInv, OverlaysTornDown, Running
<1> QED
  BY <1>3, <1>4, <1>5, <1>6 DEF IInv

\* A query starts: its primary gets a row and a task.
LEMMA CallStep ==
  ASSUME IInv, TypeOK', NEW q \in Queries, NEW from \in Lanes \cup {Top}, Call(q, from)
  PROVE  IInv' /\ \A k \in Lanes : Over(k) => ledger'.rows[k] = ledger.rows[k]
<1> DEFINE p == Primary(q)
           g == StartQuery(ledger, q)
<1>1. p \in Lanes /\ ~IsShadow(p) /\ p[1] = q
  BY LaneLemma
<1>2. g \in Ledger /\ g.rows = ledger.rows /\ ledger' = StartLane(g, p, q)
  BY StartQueryLemma DEF Call, IInv, TypeOK
<1>3. ~Known(ledger, p) /\ ~Known(g, p)
  BY <1>1, <1>2 DEF Call, IInv, RowPerTask, Known
<1>4. /\ ledger'.rows[p] = FreshRow(q)
      /\ \A k \in Lanes : k # p => ledger'.rows[k] = ledger.rows[k]
  BY <1>1, <1>2, <1>3, StartLaneLemma
<1>5. FreshRow(q) # NoRow /\ FreshRow(q).status = "running" /\ FreshRow(q).query = q
  BY NoRowAssumption DEF FreshRow, Row, Status
<1>6. /\ phase'[p] = "running"
      /\ \A k \in Lanes : k # p => phase'[k] = phase[k]
  BY <1>1 DEF Call, IInv, TypeOK
<1>7. sampled \subseteq sampled' /\ overlays' = overlays
  BY DEF Call
<1> HIDE DEF p, g
<1>8. \A k \in Lanes : k # p => (Known(ledger, k)' <=> Known(ledger, k))
  BY <1>4 DEF Known
<1>9. RowPerTask' /\ OpenUntilOver' /\ FiledUnderOwnQuery'
  <2>1. RowPerTask'
    BY <1>4, <1>5, <1>6, <1>8 DEF IInv, RowPerTask, Known
  <2>2. OpenUntilOver'
    BY <1>4, <1>5, <1>6, <1>8 DEF IInv, OpenUntilOver, Over
  <2>3. FiledUnderOwnQuery'
    BY <1>1, <1>4, <1>5, <1>8 DEF IInv, FiledUnderOwnQuery
  <2> QED
    BY <2>1, <2>2, <2>3
<1>10. ASSUME NEW k \in Lanes, IsShadow(k), Known(ledger, k)'
       PROVE  /\ k # p /\ Known(ledger, k) /\ Primary(k[1]) \in Lanes /\ Primary(k[1]) # p
              /\ k[1] \in sampled /\ Over(Primary(k[1]))
              /\ ledger.rows[Primary(k[1])].status = "ok"
  <2>1. k # p /\ Known(ledger, k) /\ Primary(k[1]) \in Lanes
    BY <1>1, <1>8, <1>10, LaneLemma
  <2>2. /\ k[1] \in sampled /\ Over(Primary(k[1]))
        /\ ledger.rows[Primary(k[1])].status = "ok"
    BY <1>10, <2>1 DEF IInv, ShadowsFollowSuccess
  <2>3. Primary(k[1]) # p
    BY <2>2 DEF Call, Over, p
  <2> QED
    BY <2>1, <2>2, <2>3
<1>11. ShadowsFollowSuccess'
  BY <1>4, <1>6, <1>7, <1>10 DEF ShadowsFollowSuccess, Over
<1>12. CollisionCaught'
  BY <1>4, <1>10 DEF IInv, CollisionCaught, Collides, Observed, Known
<1>13. OverlaysTornDown'
  <2> SUFFICES ASSUME NEW k \in overlays' \ Strays
               PROVE  Running(k)'
    BY DEF OverlaysTornDown
  <2>1. k \in Lanes /\ Running(k)
    BY <1>7 DEF IInv, OverlaysTornDown, TypeOK
  <2> QED
    BY <1>6, <2>1 DEF Running
<1>14. ~Over(p)
  BY DEF Call, Over, p
<1> QED
  BY <1>4, <1>9, <1>11, <1>12, <1>13, <1>14 DEF IInv

\* A primary returns, and spawns its shadows if its query was sampled.
LEMMA PrimaryReturnsStep ==
  ASSUME IInv, TypeOK', NEW q \in Queries, PrimaryReturns(q)
  PROVE  IInv' /\ \A k \in Lanes : Over(k) => ledger'.rows[k] = ledger.rows[k]
<1> DEFINE p == Primary(q)
           g == FinishLane(ledger, p, "ok")
<1>1. p \in Lanes /\ ~IsShadow(p) /\ Running(p) /\ Active(p)
  BY LaneLemma DEF PrimaryReturns, MayEnd, Active
<1>2. Known(ledger, p) /\ ledger \in Ledger
  BY <1>1 DEF IInv, RowPerTask, Running, TypeOK
<1>3. Touches(ledger, g, p) /\ g.rows[p].status = "ok"
  BY <1>1, <1>2, TouchLemma
<1>4. ASSUME NEW k \in Lanes, IsShadow(k), Known(ledger, k)
      PROVE  /\ k \notin ShadowsOf(q) /\ Primary(k[1]) \in Lanes /\ Primary(k[1]) # p
             /\ Primary(k[1]) \notin ShadowsOf(q)
  <2>1. Over(Primary(k[1])) /\ k[1] \in Queries
    BY <1>4, LaneLemma DEF IInv, ShadowsFollowSuccess
  <2>2. Primary(k[1]) # p
    BY <1>1, <2>1 DEF Over, Running
  <2> QED
    BY <2>1, <2>2, LaneLemma
<1>5. CASE q \notin sampled
  <2>1. ledger' = g /\ phase' = [phase EXCEPT ![p] = "over"] /\ sampled' = sampled
        /\ overlays' = overlays \ {p}
    BY <1>5 DEF PrimaryReturns
  <2> HIDE DEF p, g
  <2>2. IInv'
    BY <1>1, <1>3, <2>1, EndStep
  <2> QED
    BY <1>1, <1>3, <2>1, <2>2 DEF Touches, Over, Running
<1>6. CASE q \in sampled
  <2>1. /\ ledger' = StartShadows(g, q)
        /\ phase' = [k \in Lanes |-> IF k \in ShadowsOf(q) THEN "spawned"
                                     ELSE [phase EXCEPT ![p] = "over"][k]]
        /\ sampled' = sampled /\ overlays' = overlays \ {p}
    BY <1>6 DEF PrimaryReturns
  <2>2. \A k \in ShadowsOf(q) : k \in Lanes /\ IsShadow(k) /\ k # p /\ k[1] = q
    BY LaneLemma
  <2> HIDE DEF p, g
  <2>3. /\ g \in Ledger /\ g.rows[p] \in Row /\ g.rows[p].query = ledger.rows[p].query
        /\ \A k \in Lanes : k # p => g.rows[k] = ledger.rows[k]
    BY <1>3 DEF Touches
  <2>4. \A k \in ShadowsOf(q) : ~Known(ledger, k) /\ ~Known(g, k)
    BY <1>4, <2>2, <2>3 DEF Known
  <2>5. /\ \A k \in ShadowsOf(q) : ledger'.rows[k] = FreshRow(q)
        /\ \A k \in Lanes \ ShadowsOf(q) : k # p => ledger'.rows[k] = ledger.rows[k]
        /\ ledger'.rows[p] = g.rows[p]
    BY <1>1, <2>1, <2>2, <2>3, <2>4, StartShadowsLemma
  <2>6. /\ \A k \in ShadowsOf(q) : phase'[k] = "spawned"
        /\ \A k \in Lanes \ ShadowsOf(q) : k # p => phase'[k] = phase[k]
        /\ phase'[p] = "over"
    BY <1>1, <2>1, <2>2 DEF IInv, TypeOK
  <2>7. FreshRow(q) # NoRow /\ FreshRow(q).status = "running" /\ FreshRow(q).query = q
    BY NoRowAssumption DEF FreshRow, Row, Status
  <2>8. g.rows[p] # NoRow
    BY <2>3, NoRowAssumption
  <2>9. RowPerTask'
    BY <1>1, <2>5, <2>6, <2>7, <2>8 DEF IInv, RowPerTask, Known
  <2>10. OpenUntilOver'
    BY <1>1, <2>5, <2>6, <2>7 DEF IInv, OpenUntilOver, Known, Over
  <2>11. FiledUnderOwnQuery'
    BY <1>1, <1>2, <2>2, <2>3, <2>5, <2>7 DEF IInv, FiledUnderOwnQuery, Known
  <2>12. ASSUME NEW k \in Lanes, IsShadow(k), k \notin ShadowsOf(q), Known(ledger, k)'
         PROVE  /\ Known(ledger, k) /\ ledger'.rows[k] = ledger.rows[k]
                /\ Primary(k[1]) \in Lanes
                /\ ledger'.rows[Primary(k[1])] = ledger.rows[Primary(k[1])]
                /\ phase'[Primary(k[1])] = phase[Primary(k[1])]
    <3>1. k # p
      BY <1>1, <2>12
    <3>2. Known(ledger, k) /\ ledger'.rows[k] = ledger.rows[k]
      BY <2>5, <2>12, <3>1 DEF Known
    <3> QED
      BY <1>4, <2>5, <2>6, <2>12, <3>2
  <2>13. ShadowsFollowSuccess'
    <3> SUFFICES ASSUME NEW k \in Lanes, IsShadow(k), Known(ledger, k)'
                 PROVE  (k[1] \in sampled /\ Over(Primary(k[1]))
                           /\ ledger.rows[Primary(k[1])].status = "ok")'
      BY DEF ShadowsFollowSuccess
    <3>1. CASE k \in ShadowsOf(q)
      BY <1>3, <1>6, <2>1, <2>2, <2>5, <2>6, <3>1 DEF Over, p
    <3>2. CASE k \notin ShadowsOf(q)
      BY <2>1, <2>12, <3>2 DEF IInv, ShadowsFollowSuccess, Over
    <3> QED
      BY <3>1, <3>2
  <2>14. CollisionCaught'
    <3> SUFFICES ASSUME NEW k \in Lanes \ Strays, IsShadow(k), Primary(k[1]) \notin Strays,
                        Known(ledger, k)', ledger'.rows[k].status = "ok"
                 PROVE  ~Collides(ledger', k)
      BY DEF CollisionCaught
    <3>1. k \notin ShadowsOf(q)
      BY <2>5, <2>7
    <3> QED
      BY <2>12, <3>1 DEF IInv, CollisionCaught, Collides, Observed, Known
  <2>15. OverlaysTornDown'
    <3> SUFFICES ASSUME NEW k \in overlays' \ Strays
                 PROVE  Running(k)'
      BY DEF OverlaysTornDown
    <3>1. k \in Lanes /\ Running(k) /\ k # p
      BY <2>1 DEF IInv, OverlaysTornDown, TypeOK
    <3>2. k \notin ShadowsOf(q)
      BY <2>4, <3>1 DEF IInv, RowPerTask, Running
    <3> QED
      BY <2>6, <3>1, <3>2 DEF Running
  <2>16. \A k \in Lanes : Over(k) => k # p /\ k \notin ShadowsOf(q)
    BY <1>1, <2>4 DEF IInv, RowPerTask, Over, Running
  <2> QED
    BY <2>5, <2>9, <2>10, <2>11, <2>13, <2>14, <2>15, <2>16 DEF IInv
<1> QED
  BY <1>5, <1>6

\* A shadow returns: the verdict is that of its finished row.
LEMMA ShadowReturnsStep ==
  ASSUME IInv, TypeOK', NEW l \in Lanes, ShadowReturns(l)
  PROVE  IInv' /\ Touches(ledger, ledger', l)
<1> DEFINE f == FinishLane(ledger, l, "ok")
<1>1. Running(l) /\ Known(ledger, l) /\ ledger \in Ledger
  BY DEF ShadowReturns, MayEnd, IInv, RowPerTask, Running, TypeOK
<1>2. Touches(ledger, f, l)
  BY <1>1, TouchLemma
<1>3. ledger' = EnforceDistinct(f, l)
  BY DEF ShadowReturns
<1> HIDE DEF f
<1>4. f \in Ledger /\ Known(f, l)
  BY <1>2, NoRowAssumption DEF Touches, Known
<1>5. Touches(f, MarkCollision(f, l), l) /\ MarkCollision(f, l).rows[l].status = "invalid"
  BY <1>4, TouchLemma
<1>6. Touches(ledger, ledger', l) /\ (ledger'.rows[l].status = "ok" => ~Collides(ledger', l))
  <2>1. CASE Collides(f, l)
    <3>1. ledger' = MarkCollision(f, l)
      BY <1>3, <2>1 DEF EnforceDistinct
    <3>2. Touches(ledger, MarkCollision(f, l), l)
      BY <1>2, <1>5 DEF Touches
    <3> QED
      BY <1>5, <3>1, <3>2
  <2>2. CASE ~Collides(f, l)
    BY <1>2, <1>3, <2>2 DEF EnforceDistinct
  <2> QED
    BY <2>1, <2>2
<1> QED
  BY <1>1, <1>6, EndStep DEF ShadowReturns

\* A lane that ends in an error, or without a word.
LEMMA OtherEndStep ==
  ASSUME IInv, TypeOK', NEW l \in Lanes, Running(l), phase' = [phase EXCEPT ![l] = "over"],
         sampled' = sampled, overlays' = overlays \ {l},
         ledger' = ledger \/ ledger' = FinishLane(ledger, l, "error")
  PROVE  IInv' /\ Touches(ledger, ledger', l)
<1>1. Known(ledger, l) /\ ledger \in Ledger /\ ledger.rows[l].status = "running"
  BY DEF IInv, RowPerTask, OpenUntilOver, Running, Over, TypeOK
<1>2. ledger.rows[l] \in Row
  BY <1>1, KnownRowLemma
<1>3. Touches(ledger, ledger', l) /\ ledger'.rows[l].status # "ok"
  <2>1. CASE ledger' = ledger
    BY <1>1, <1>2, <2>1 DEF Touches
  <2>2. CASE ledger' = FinishLane(ledger, l, "error")
    BY <1>1, <2>2, TouchLemma
  <2> QED
    BY <2>1, <2>2
<1> QED
  BY <1>3, EndStep

\* What an active lane reports.
LEMMA ReportedLemma ==
  ASSUME IInv, NEW l \in Lanes,
         (\E m \in Models \cup {NoModel} : ModelCall(l, m)) \/ (\E u \in BOOLEAN : ToolCall(l, u))
  PROVE  /\ Active(l) /\ Touches(ledger, ledger', l)
         /\ ledger'.rows[l].status = ledger.rows[l].status
         /\ UNCHANGED <<phase, sampled>> /\ overlays' \subseteq overlays \cup {l}
<1>1. Active(l) /\ UNCHANGED <<phase, sampled>> /\ overlays' \subseteq overlays \cup {l}
  BY DEF ModelCall, ToolCall
<1>2. Known(ledger, l) /\ ledger \in Ledger
  BY <1>1 DEF IInv, RowPerTask, Active, Running, TypeOK
<1>3. \/ \E m \in Models \cup {NoModel} : ledger' = RecordModelCall(ledger, l, m)
      \/ \E u \in BOOLEAN : ledger' = RecordToolEvent(ledger, l, u)
  BY DEF ModelCall, ToolCall
<1> QED
  BY <1>1, <1>2, <1>3, TouchLemma

\* A spawned task starts, or never does.
LEMMA SpawnedStep ==
  ASSUME IInv, TypeOK', NEW l \in Lanes, ShadowStarts(l) \/ ShadowNeverStarts(l)
  PROVE  IInv'
<1>1. phase[l] = "spawned" /\ UNCHANGED <<ledger, sampled, overlays>>
  BY DEF ShadowStarts, ShadowNeverStarts
<1>2. /\ phase'[l] \notin {"none", "over"}
      /\ \A k \in Lanes : k # l => phase'[k] = phase[k]
  BY DEF ShadowStarts, ShadowNeverStarts, IInv, TypeOK
<1>3. RowPerTask'
  BY <1>1, <1>2 DEF IInv, RowPerTask, Known
<1>4. OpenUntilOver'
  BY <1>1, <1>2 DEF IInv, OpenUntilOver, Known, Over
<1>5. FiledUnderOwnQuery' /\ CollisionCaught'
  BY <1>1 DEF IInv, FiledUnderOwnQuery, CollisionCaught, Collides, Observed, Known
<1>6. ShadowsFollowSuccess'
  BY <1>1, <1>2, LaneLemma DEF IInv, ShadowsFollowSuccess, Known, Over
<1>7. OverlaysTornDown'
  BY <1>1, <1>2 DEF IInv, OverlaysTornDown, Running, TypeOK
<1> QED
  BY <1>3, <1>4, <1>5, <1>6, <1>7 DEF IInv

-----------------------------------------------------------------------------
(* The theorems.                                                           *)

\* How a lane ended is kept, and its whole row if it leaves no task behind.
Kept ==
  \A l \in Lanes : Over(l) =>
    /\ l \notin Strays => ledger'.rows[l] = ledger.rows[l]
    /\ ledger'.rows[l].status = ledger.rows[l].status
    /\ ledger.rows[l].contaminated # 0 =>
         ledger'.rows[l].contaminated = ledger.rows[l].contaminated

LEMMA NextStep == IInv /\ TypeOK' /\ [Next]_vars => IInv' /\ Kept
<1> SUFFICES ASSUME IInv, TypeOK', [Next]_vars
             PROVE  IInv' /\ Kept
  OBVIOUS
<1>1. ASSUME NEW q \in Queries, NEW from \in Lanes \cup {Top}, Call(q, from)
      PROVE  IInv' /\ Kept
  BY <1>1, CallStep DEF Kept
<1>2. ASSUME NEW q \in Queries, PrimaryReturns(q)
      PROVE  IInv' /\ Kept
  BY <1>2, PrimaryReturnsStep DEF Kept
<1>3. ASSUME NEW l \in Lanes, Running(l), IInv' /\ Touches(ledger, ledger', l)
      PROVE  IInv' /\ Kept
  BY <1>3 DEF Kept, Touches, Over, Running
<1>4. ASSUME NEW q \in Queries, PrimaryRaises(q)
      PROVE  IInv' /\ Kept
  <2> DEFINE p == Primary(q)
  <2>1. /\ p \in Lanes /\ Running(p) /\ phase' = [phase EXCEPT ![p] = "over"]
        /\ sampled' = sampled /\ overlays' = overlays \ {p}
        /\ ledger' = FinishLane(ledger, p, "error")
    BY <1>4, LaneLemma DEF PrimaryRaises, MayEnd
  <2> HIDE DEF p
  <2>2. IInv' /\ Touches(ledger, ledger', p)
    BY <2>1, OtherEndStep
  <2> QED
    BY <1>3, <2>1, <2>2
<1>5. ASSUME NEW l \in Lanes, Abandoned(l) \/ ShadowRaises(l)
      PROVE  IInv' /\ Kept
  <2>1. /\ Running(l) /\ phase' = [phase EXCEPT ![l] = "over"]
        /\ sampled' = sampled /\ overlays' = overlays \ {l}
        /\ ledger' = ledger \/ ledger' = FinishLane(ledger, l, "error")
    BY <1>5 DEF Abandoned, ShadowRaises, MayEnd
  <2>2. IInv' /\ Touches(ledger, ledger', l)
    BY <2>1, OtherEndStep
  <2> QED
    BY <1>3, <2>1, <2>2
<1>6. ASSUME NEW l \in Lanes, ShadowReturns(l)
      PROVE  IInv' /\ Kept
  BY <1>3, <1>6, ShadowReturnsStep DEF ShadowReturns, MayEnd
<1>7. ASSUME NEW l \in Lanes, ShadowStarts(l) \/ ShadowNeverStarts(l)
      PROVE  IInv' /\ Kept
  BY <1>7, SpawnedStep DEF ShadowStarts, ShadowNeverStarts, Kept
<1>8. ASSUME NEW l \in Lanes,
             (\E m \in Models \cup {NoModel} : ModelCall(l, m)) \/ (\E u \in BOOLEAN : ToolCall(l, u))
      PROVE  IInv' /\ Kept
  <2>1. /\ Active(l) /\ Touches(ledger, ledger', l)
        /\ ledger'.rows[l].status = ledger.rows[l].status
        /\ UNCHANGED <<phase, sampled>> /\ overlays' \subseteq overlays \cup {l}
    BY <1>8, ReportedLemma
  <2>2. IInv'
    BY <2>1, ReportStep
  <2>3. Kept
    BY <2>1 DEF Kept, Touches, Active, Running, Over
  <2> QED
    BY <2>2, <2>3
<1>9. CASE UNCHANGED vars
  <2>1. UNCHANGED <<ledger, phase, sampled, overlays>>
    BY <1>9 DEF vars
  <2> QED
    BY <2>1 DEF IInv, RowPerTask, OpenUntilOver, FiledUnderOwnQuery, ShadowsFollowSuccess,
                CollisionCaught, Collides, Observed, OverlaysTornDown, Known, Over, Running, Kept
<1> QED
  BY <1>1, <1>2, <1>4, <1>5, <1>6, <1>7, <1>8, <1>9 DEF Next, PrimaryEnds

LEMMA InitStep == Init => IInv
<1> SUFFICES ASSUME Init
             PROVE  IInv
  OBVIOUS
<1>1. \A l \in Lanes : ~Known(ledger, l) /\ phase[l] = "none"
  BY EmptyTypes DEF Init
<1> QED
  BY <1>1, TypeInit DEF Init, IInv, RowPerTask, OpenUntilOver, FiledUnderOwnQuery,
                        ShadowsFollowSuccess, CollisionCaught, OverlaysTornDown

LEMMA Invariance == Spec => []IInv
<1>1. IInv => TypeOK
  BY DEF IInv
<1>2. IInv /\ [Next]_vars => IInv'
  BY <1>1, TypeStep, NextStep
<1> QED
  BY <1>2, InitStep, PTL DEF Spec

\* A shadow lane exists only under a sampled query whose primary returned.
THEOREM ShadowsAfterPrimary == Spec => []ShadowsFollowSuccess
<1>1. IInv => ShadowsFollowSuccess
  BY DEF IInv
<1> QED
  BY <1>1, Invariance, PTL

\* No lane is filed under a query that another task started in the meantime.
THEOREM FiledRight == Spec => []FiledUnderOwnQuery
<1>1. IInv => FiledUnderOwnQuery
  BY DEF IInv
<1> QED
  BY <1>1, Invariance, PTL

\* No shadow is kept as ok if it observed its primary's model, whatever other lanes of
\* any query do in between.
THEOREM NoCollisionKept == Spec => []CollisionCaught
<1>1. IInv => CollisionCaught
  BY DEF IInv
<1> QED
  BY <1>1, Invariance, PTL

\* A lane that is over has no overlay left, however it ended.
THEOREM NoOverlayLeft == Spec => []OverlaysTornDown
<1>1. IInv => OverlaysTornDown
  BY DEF IInv
<1> QED
  BY <1>1, Invariance, PTL

\* The row of a lane that is over and left no task behind is never written again.
THEOREM VerdictsStay == Spec => VerdictsAreFinal
<1>1. IInv /\ IInv' /\ [Next]_vars =>
        [\A l \in Lanes \ Strays : Over(l) => ledger'.rows[l] = ledger.rows[l]]_vars
  BY NextStep DEF IInv, Kept
<1> QED
  BY <1>1, Invariance, PTL DEF Spec, VerdictsAreFinal

\* Tasks a lane left behind neither change how it ended nor take back its mark.
THEOREM EndingsStay == Spec => EndingsAreFinal
<1>1. IInv /\ IInv' /\ [Next]_vars =>
        [\A l \in Lanes : Over(l) /\ Known(ledger, l) =>
           /\ ledger'.rows[l].status = ledger.rows[l].status
           /\ ledger.rows[l].contaminated # 0 =>
                ledger'.rows[l].contaminated = ledger.rows[l].contaminated]_vars
  BY NextStep DEF IInv, Kept
<1> QED
  BY <1>1, Invariance, PTL DEF Spec, EndingsAreFinal

-----------------------------------------------------------------------------
(* Override: whose model a call is served with.                            *)

\* The models a call in lane l can be served with.
Own(l) == {Requested[l]} \cup {Default[c] : c \in Clients}

\* Requests in flight, reports made and models observed are the lane's own.
Routing ==
  /\ sent \in [Lanes -> Models \cup {NoRequest}]
  /\ seen \in [Lanes -> SUBSET Models]
  /\ \A l \in Lanes : sent[l] # NoRequest => sent[l] \in Own(l)
  /\ \A l \in Lanes : seen[l] \subseteq Own(l)

\* A request names a model of its lane.
LEMMA RoutedLemma ==
  ASSUME NEW c \in Clients, NEW l \in Lanes, NEW lost \in BOOLEAN
  PROVE  Routed(c, l, lost) \in Models /\ Routed(c, l, lost) \in Own(l)
BY OverrideAssumption DEF Routed, Own

LEMMA RoutingInit == OverrideInit => Routing
BY DEF OverrideInit, Routing

LEMMA RoutingStep == Routing /\ [OverrideNext]_overrideVars => Routing'
<1> SUFFICES ASSUME Routing, [OverrideNext]_overrideVars
             PROVE  Routing'
  OBVIOUS
<1>1. ASSUME NEW l \in Lanes, NEW c \in Clients, NEW lost \in BOOLEAN, Send(l, c, lost)
      PROVE  Routing'
  BY <1>1, RoutedLemma DEF Send, Routing
<1>2. ASSUME NEW l \in Lanes, NEW named \in BOOLEAN, Receive(l, named)
      PROVE  Routing'
  <2>1. sent[l] \in Models /\ sent[l] \in Own(l)
    BY <1>2 DEF Receive, Routing
  <2> QED
    BY <1>2, <2>1 DEF Receive, Routing
<1>3. ASSUME NEW l \in Lanes, LaneCancelled(l)
      PROVE  Routing'
  BY <1>3 DEF LaneCancelled, Routing
<1>4. ASSUME UNCHANGED <<sent, seen>>
      PROVE  Routing'
  BY <1>4 DEF Routing
<1> QED
  BY <1>1, <1>2, <1>3, <1>4 DEF OverrideNext, LaneBegins, Install, LaneEnds, UsesTool, overrideVars

\* Every step is a step of the runner, or leaves its state alone.
LEMMA RunnerStep ==
  ASSUME Routing, [OverrideNext]_overrideVars
  PROVE  [Next]_vars
<1>1. ASSUME LaneBegins
      PROVE  Next
  BY <1>1 DEF LaneBegins, Next
<1>2. ASSUME NEW l \in Lanes, NEW named \in BOOLEAN, Receive(l, named)
      PROVE  Next
  BY <1>2 DEF Receive, Routing, Next
<1>3. ASSUME NEW l \in Lanes, NEW ungrounded \in BOOLEAN, UsesTool(l, ungrounded)
      PROVE  Next
  BY <1>3 DEF UsesTool, Next
<1>4. ASSUME NEW l \in Lanes, LaneEnds(l) \/ LaneCancelled(l)
      PROVE  Next
  BY <1>4, LaneLemma DEF LaneEnds, LaneCancelled, Next
<1>5. ASSUME \/ \E c \in Clients : Install(c)
             \/ \E l \in Lanes, c \in Clients, lost \in BOOLEAN : Send(l, c, lost)
             \/ UNCHANGED overrideVars
      PROVE  UNCHANGED vars
  BY <1>5 DEF Install, Send, overrideVars
<1> QED
  BY <1>1, <1>2, <1>3, <1>4, <1>5 DEF OverrideNext

\* With clients, requests and responses in between, the runner still behaves as ShadowRun
\* says: the theorems about it hold here too.
THEOREM ImplementsRunner == OverrideSpec => Spec
<1>1. OverrideInit => Init
  BY DEF OverrideInit
<1>2. Routing /\ [OverrideNext]_overrideVars => [Next]_vars
  BY RunnerStep
<1> QED
  BY <1>1, <1>2, RoutingInit, RoutingStep, PTL DEF OverrideSpec, Spec

\* No lane is ever reported a model that belongs to another lane.
THEOREM NoLeak == OverrideSpec => []NoLeakage
<1>1. Routing => NoLeakage
  BY DEF Routing, NoLeakage, Own
<1> QED
  BY <1>1, RoutingInit, RoutingStep, PTL DEF OverrideSpec

-----------------------------------------------------------------------------
(* What the check can promise.                                             *)

ObservedOwn ==
  \A l \in Lanes : Observed(ledger, l) \in Own(l) \cup {NoModel}

\* Only a model call changes what is observed of a lane, except that a new row has
\* observed nothing.
Unobserving(g, h) ==
  \A l \in Lanes : Observed(h, l) \in {Observed(g, l), NoModel}

LEMMA TouchesUnobserving ==
  ASSUME NEW g \in Ledger, NEW h, NEW l \in Lanes, Known(g, l), Touches(g, h, l),
         h.rows[l].observed = g.rows[l].observed
  PROVE  Unobserving(g, h)
BY NoRowAssumption DEF Touches, Unobserving, Observed, Known

LEMMA FinishUnobserving ==
  ASSUME NEW g \in Ledger, NEW l \in Lanes, Known(g, l), NEW st \in {"ok", "error"}
  PROVE  /\ FinishLane(g, l, st) \in Ledger /\ Known(FinishLane(g, l, st), l)
         /\ Unobserving(g, FinishLane(g, l, st))
<1> DEFINE h == FinishLane(g, l, st)
<1>1. Touches(g, h, l) /\ h.rows[l].observed = g.rows[l].observed
  BY TouchLemma
<1> HIDE DEF h
<1>2. h \in Ledger /\ Known(h, l) /\ Unobserving(g, h)
  BY <1>1, TouchesUnobserving, NoRowAssumption DEF Touches, Known
<1> QED
  BY <1>2 DEF h

LEMMA RunnerUnobserving ==
  ASSUME IInv,
         \/ \E q \in Queries : PrimaryEnds(q) \/ \E from \in Lanes \cup {Top} : Call(q, from)
         \/ \E l \in Lanes : Abandoned(l) \/ ShadowStarts(l) \/ ShadowNeverStarts(l)
                               \/ ShadowReturns(l) \/ ShadowRaises(l)
         \/ \E l \in Lanes, u \in BOOLEAN : ToolCall(l, u)
         \/ UNCHANGED ledger
  PROVE  Unobserving(ledger, ledger')
<1>1. ledger \in Ledger
  BY DEF IInv, TypeOK
<1>2. ASSUME NEW l \in Lanes, Active(l)
      PROVE  Known(ledger, l)
  BY <1>2 DEF IInv, RowPerTask, Active, Running
<1>3. ASSUME NEW q \in Queries, NEW from \in Lanes \cup {Top}, Call(q, from)
      PROVE  Unobserving(ledger, ledger')
  <2> DEFINE g == StartQuery(ledger, q)
  <2>1. g \in Ledger /\ g.rows = ledger.rows /\ ledger' = StartLane(g, Primary(q), q)
    BY <1>1, <1>3, StartQueryLemma DEF Call
  <2> HIDE DEF g
  <2>2. /\ Primary(q) \in Lanes
        /\ \A l \in Lanes : ledger'.rows[l] = ledger.rows[l] \/ ledger'.rows[l] = FreshRow(q)
    <3>1. Primary(q) \in Lanes
      BY LaneLemma
    <3>2. /\ \A k \in Lanes : k # Primary(q) => ledger'.rows[k] = g.rows[k]
          /\ ledger'.rows[Primary(q)] = g.rows[Primary(q)] \/ ledger'.rows[Primary(q)] = FreshRow(q)
      BY <2>1, <3>1, StartLaneLemma
    <3> QED
      BY <2>1, <3>1, <3>2
  <2> QED
    BY <2>2 DEF Unobserving, Observed, Known, FreshRow
<1>4. ASSUME NEW q \in Queries, PrimaryEnds(q)
      PROVE  Unobserving(ledger, ledger')
  <2> DEFINE p == Primary(q)
  <2>1. p \in Lanes /\ Known(ledger, p)
    <3>1. p \in Lanes /\ Running(p)
      BY <1>4, LaneLemma DEF PrimaryEnds, PrimaryReturns, PrimaryRaises, MayEnd
    <3> QED
      BY <1>2, <3>1 DEF Active
  <2>2. ASSUME NEW st \in {"ok", "error"}
        PROVE  FinishLane(ledger, p, st) \in Ledger /\ Unobserving(ledger, FinishLane(ledger, p, st))
    BY <1>1, <2>1, FinishUnobserving
  <2>3. ASSUME NEW g \in Ledger, Unobserving(ledger, g)
        PROVE  Unobserving(ledger, StartShadows(g, q))
    <3> DEFINE h == StartShadows(g, q)
    <3>1. \A l \in Lanes : h.rows[l] = g.rows[l] \/ h.rows[l] = FreshRow(q)
      BY StartShadowsLemma
    <3> HIDE DEF h
    <3>2. \A l \in Lanes : Observed(h, l) = Observed(g, l) \/ Observed(h, l) = NoModel
      BY <3>1 DEF Observed, Known, FreshRow
    <3>3. Unobserving(ledger, h)
      BY <2>3, <3>2 DEF Unobserving
    <3> QED
      BY <3>3 DEF h
  <2>4. \/ ledger' = FinishLane(ledger, p, "ok") \/ ledger' = FinishLane(ledger, p, "error")
        \/ ledger' = StartShadows(FinishLane(ledger, p, "ok"), q)
    BY <1>4 DEF PrimaryEnds, PrimaryReturns, PrimaryRaises
  <2> QED
    BY <2>2, <2>3, <2>4
<1>5. ASSUME NEW l \in Lanes, ShadowReturns(l) \/ ShadowRaises(l)
      PROVE  Unobserving(ledger, ledger')
  <2>1. Known(ledger, l)
    BY <1>2, <1>5 DEF ShadowReturns, ShadowRaises, MayEnd, Active
  <2>2. CASE ShadowRaises(l)
    BY <1>1, <2>1, <2>2, FinishUnobserving DEF ShadowRaises
  <2>3. CASE ShadowReturns(l)
    <3> DEFINE f == FinishLane(ledger, l, "ok")
    <3>1. f \in Ledger /\ Known(f, l) /\ Unobserving(ledger, f)
      BY <1>1, <2>1, FinishUnobserving
    <3>2. ledger' = f \/ ledger' = MarkCollision(f, l)
      BY <2>3 DEF ShadowReturns, EnforceDistinct
    <3> HIDE DEF f
    <3>3. Unobserving(f, MarkCollision(f, l))
      BY <3>1, TouchLemma, TouchesUnobserving
    <3>4. Unobserving(ledger, MarkCollision(f, l))
      BY <3>1, <3>3 DEF Unobserving
    <3> QED
      BY <3>1, <3>2, <3>4
  <2> QED
    BY <1>5, <2>2, <2>3
<1>6. ASSUME NEW l \in Lanes, NEW u \in BOOLEAN, ToolCall(l, u)
      PROVE  Unobserving(ledger, ledger')
  <2>1. Known(ledger, l) /\ ledger' = RecordToolEvent(ledger, l, u)
    BY <1>2, <1>6 DEF ToolCall
  <2>2. Unobserving(ledger, RecordToolEvent(ledger, l, u))
    BY <1>1, <2>1, TouchLemma, TouchesUnobserving
  <2> QED
    BY <2>1, <2>2
<1>7. ASSUME UNCHANGED ledger
      PROVE  Unobserving(ledger, ledger')
  BY <1>7 DEF Unobserving
<1> QED
  BY <1>3, <1>4, <1>5, <1>6, <1>7 DEF Abandoned, ShadowStarts, ShadowNeverStarts

LEMMA ObservedStep ==
  ASSUME IInv, Routing, ObservedOwn, [OverrideNext]_overrideVars
  PROVE  ObservedOwn'
<1>1. ASSUME NEW l \in Lanes, NEW named \in BOOLEAN, Receive(l, named)
      PROVE  ObservedOwn'
  <2>1. PICK m \in Own(l) \cup {NoModel} :
          m \in Models \cup {NoModel} /\ ledger' = RecordModelCall(ledger, l, m)
    BY <1>1 DEF Receive, ModelCall, Routing
  <2>2. Known(ledger, l) /\ ledger \in Ledger
    BY <1>1 DEF Receive, ModelCall, IInv, RowPerTask, Active, Running, TypeOK
  <2>3. Touches(ledger, ledger', l) /\ ledger'.rows[l].observed \in {ledger.rows[l].observed, m}
    BY <2>1, <2>2, TouchLemma
  <2>4. ledger.rows[l].observed \in Own(l) \cup {NoModel}
    BY <2>2 DEF ObservedOwn, Observed
  <2>5. \A k \in Lanes : k # l => Observed(ledger', k) = Observed(ledger, k)
    BY <2>3 DEF Touches, Observed, Known
  <2> QED
    BY <2>3, <2>4, <2>5 DEF ObservedOwn, Observed, Own
<1>2. ASSUME Unobserving(ledger, ledger')
      PROVE  ObservedOwn'
  BY <1>2 DEF ObservedOwn, Unobserving, Own
<1>3. ASSUME LaneBegins \/ \E l \in Lanes : LaneEnds(l) \/ LaneCancelled(l)
      PROVE  Unobserving(ledger, ledger')
  BY <1>3, LaneLemma, RunnerUnobserving DEF LaneBegins, LaneEnds, LaneCancelled
<1>4. ASSUME \/ \E c \in Clients : Install(c)
             \/ \E l \in Lanes, c \in Clients, lost \in BOOLEAN : Send(l, c, lost)
             \/ \E l \in Lanes, ungrounded \in BOOLEAN : UsesTool(l, ungrounded)
             \/ UNCHANGED overrideVars
      PROVE  Unobserving(ledger, ledger')
  BY <1>4, RunnerUnobserving DEF Install, Send, UsesTool, overrideVars, vars
<1> QED
  BY <1>1, <1>2, <1>3, <1>4 DEF OverrideNext

LEMMA ObservedInit == OverrideInit => ObservedOwn
BY EmptyTypes DEF OverrideInit, Init, ObservedOwn, Observed

\* A shadow whose override failed onto the primary's model is never kept as ok.
THEOREM FailureCaught == OverrideSpec => []FailureOnPrimarysModelCaught
<1>1. IInv /\ ObservedOwn => FailureOnPrimarysModelCaught
  <2> SUFFICES ASSUME IInv, ObservedOwn, NEW l \in Lanes \ Strays,
                      IsShadow(l), Known(ledger, l), ledger.rows[l].status = "ok",
                      Primary(l[1]) \notin Strays, Requested[Primary(l[1])] = NoModel,
                      \A c, d \in Clients : Default[c] = Default[d],
                      Observed(ledger, Primary(l[1])) # NoModel,
                      Observed(ledger, l) \notin {NoModel, Requested[l]}
               PROVE  FALSE
    BY DEF FailureOnPrimarysModelCaught
  <2>1. Primary(l[1]) \in Lanes
    BY LaneLemma
  <2>2. PICK c \in Clients : Observed(ledger, l) = Default[c]
    BY DEF ObservedOwn, Own
  <2>3. PICK d \in Clients : Observed(ledger, Primary(l[1])) = Default[d]
    BY <2>1 DEF ObservedOwn, Own
  <2>4. Collides(ledger, l)
    BY <2>2, <2>3 DEF Collides
  <2> QED
    BY <2>4 DEF IInv, CollisionCaught
<1>2. OverrideInit => IInv /\ Routing /\ ObservedOwn
  BY InitStep, RoutingInit, ObservedInit DEF OverrideInit
<1>3. IInv /\ Routing /\ ObservedOwn /\ [OverrideNext]_overrideVars => (IInv /\ Routing /\ ObservedOwn)'
  <2> SUFFICES ASSUME IInv, Routing, ObservedOwn, [OverrideNext]_overrideVars
               PROVE  IInv' /\ Routing' /\ ObservedOwn'
    OBVIOUS
  <2>1. [Next]_vars
    BY RunnerStep
  <2>2. TypeOK /\ TypeOK'
    BY <2>1, TypeStep DEF IInv
  <2> QED
    BY <2>1, <2>2, NextStep, RoutingStep, ObservedStep
<1> QED
  BY <1>1, <1>2, <1>3, PTL DEF OverrideSpec

==============================================================================
