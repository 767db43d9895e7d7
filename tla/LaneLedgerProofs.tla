-------------------------- MODULE LaneLedgerProofs --------------------------
(***************************************************************************)
(* What the recorder's methods do to a ledger, for every ledger, lane and  *)
(* model: lemmas the proofs about Recorder and ShadowRun rest on.          *)
(***************************************************************************)
EXTENDS LaneLedger, TLAPS

\* h differs from g by rows only, and only by rows that are now dirty.
RowsOnly(g, h) ==
  /\ h \in Ledger
  /\ h.seq = g.seq /\ h.events = g.events
  /\ h.queries = g.queries /\ h.latest = g.latest
  /\ g.dirty \subseteq h.dirty
  /\ \A k \in Lanes : k \notin h.dirty => h.rows[k] = g.rows[k]
  /\ \A k \in Lanes : Known(g, k) => Known(h, k)

\* h is g with the next event of lane l.
Logged(g, h, l, u, m) ==
  /\ h \in Ledger
  /\ h.seq = [g.seq EXCEPT ![l] = @ + 1]
  /\ h.events = g.events \cup {[lane |-> l, seq |-> g.seq[l] + 1, ungrounded |-> u, observed |-> m]}
  /\ h.queries = g.queries /\ h.latest = g.latest
  /\ g.dirty \subseteq h.dirty
  /\ \A k \in Lanes : k \notin h.dirty => h.rows[k] = g.rows[k]
  /\ \A k \in Lanes : Known(g, k) => Known(h, k)
  /\ Known(h, l)

\* Storing a row of the right type changes rows only, and makes it known.
LEMMA PutRowLemma ==
  ASSUME NEW g \in Ledger, NEW l \in Lanes, NEW row \in Row
  PROVE  RowsOnly(g, PutRow(g, l, row)) /\ Known(PutRow(g, l, row), l)
                                        /\ PutRow(g, l, row).rows[l] = row
<1> DEFINE h == PutRow(g, l, row)
<1>1. row # NoRow
  BY NoRowAssumption
<1>2. h = [g EXCEPT !.rows = [g.rows EXCEPT ![l] = row], !.dirty = g.dirty \cup {l}]
  BY DEF PutRow, Ledger
<1>3. h \in Ledger
  <2>1. [g.rows EXCEPT ![l] = row] \in [Lanes -> Row \cup {NoRow}]
    BY DEF Ledger
  <2>2. g.dirty \cup {l} \in SUBSET Lanes
    BY DEF Ledger
  <2> HIDE DEF h
  <2> QED
    BY <1>2, <2>1, <2>2 DEF Ledger
<1>4. h.rows = [g.rows EXCEPT ![l] = row] /\ h.dirty = g.dirty \cup {l}
  BY <1>2 DEF Ledger
<1> QED
  BY <1>1, <1>2, <1>3, <1>4 DEF RowsOnly, Known, Ledger

\* Opening a row for an unknown lane, announced or not, changes rows only.
LEMMA OpenLaneLemma ==
  ASSUME NEW g \in Ledger, NEW l \in Lanes, NEW q \in Queries \cup {NoQuery}
  PROVE  /\ RowsOnly(g, StartLane(g, l, q)) /\ Known(StartLane(g, l, q), l)
         /\ RowsOnly(g, OrphanLane(g, l)) /\ Known(OrphanLane(g, l), l)
<1>1. FreshRow(q) \in Row /\ FreshRow(g.latest) \in Row
  BY DEF FreshRow, Row, Status, Ledger
<1>2. RowsOnly(g, g)
  BY DEF RowsOnly
<1> QED
  BY <1>1, <1>2, PutRowLemma DEF StartLane, OrphanLane

\* RowsOnly steps compose, with each other and before and after an event.
LEMMA ComposeLemma ==
  ASSUME NEW g, NEW h, NEW k, NEW l, NEW u, NEW m
  PROVE  /\ RowsOnly(g, h) /\ RowsOnly(h, k) => RowsOnly(g, k)
         /\ RowsOnly(g, h) /\ Logged(h, k, l, u, m) => Logged(g, k, l, u, m)
         /\ l \in Lanes /\ Logged(g, h, l, u, m) /\ RowsOnly(h, k) => Logged(g, k, l, u, m)
<1>1. RowsOnly(g, h) /\ RowsOnly(h, k) => RowsOnly(g, k)
  BY DEF RowsOnly
<1>2. RowsOnly(g, h) /\ Logged(h, k, l, u, m) => Logged(g, k, l, u, m)
  BY DEF RowsOnly, Logged
<1>3. l \in Lanes /\ Logged(g, h, l, u, m) /\ RowsOnly(h, k) => Logged(g, k, l, u, m)
  BY DEF RowsOnly, Logged
<1> QED
  BY <1>1, <1>2, <1>3

\* A row with one column changed is still a row.
LEMMA RowColumnLemma ==
  ASSUME NEW row \in Row, NEW s \in Status, NEW m \in Models \cup {NoModel}, NEW n \in Nat
  PROVE  /\ [row EXCEPT !.status = s] \in Row
         /\ [row EXCEPT !.observed = m] \in Row
         /\ [row EXCEPT !.contaminated = n] \in Row
BY DEF Row

LEMMA KnownRowLemma ==
  ASSUME NEW g \in Ledger, NEW l \in Lanes, Known(g, l)
  PROVE  g.rows[l] \in Row
BY DEF Known, Ledger

\* finish_lane, mark_collision and the observed model change rows only.
LEMMA StatusLemma ==
  ASSUME NEW g \in Ledger, NEW l \in Lanes
  PROVE  /\ \A s \in {"ok", "error"} : RowsOnly(g, FinishLane(g, l, s))
         /\ RowsOnly(g, MarkCollision(g, l))
         /\ \A m \in Models \cup {NoModel} : Known(g, l) =>
              RowsOnly(g, Observe(g, l, m)) /\ Known(Observe(g, l, m), l)
<1> RowsOnly(g, g)
  BY DEF RowsOnly
<1>1. ASSUME NEW s \in {"ok", "error"}
      PROVE  RowsOnly(g, FinishLane(g, l, s))
  <2> DEFINE h == OrphanLane(g, l)
  <2>1. RowsOnly(g, h) /\ Known(h, l) /\ h \in Ledger
    BY OpenLaneLemma, NoQuery \in Queries \cup {NoQuery} DEF RowsOnly
  <2>2. [h.rows[l] EXCEPT !.status = s] \in Row
    <3> HIDE DEF h
    <3> QED
      BY <2>1, KnownRowLemma DEF Row, Status
  <2>3. RowsOnly(h, PutRow(h, l, [h.rows[l] EXCEPT !.status = s]))
    BY <2>1, <2>2, PutRowLemma
  <2> QED
    BY <2>1, <2>3, ComposeLemma DEF FinishLane
<1>2. RowsOnly(g, MarkCollision(g, l))
  <2>1. CASE Known(g, l)
    <3>1. [g.rows[l] EXCEPT !.status = "invalid"] \in Row
      BY <2>1, KnownRowLemma DEF Row, Status
    <3> QED
      BY <2>1, <3>1, PutRowLemma DEF MarkCollision
  <2>2. CASE ~Known(g, l)
    BY <2>2 DEF MarkCollision
  <2> QED
    BY <2>1, <2>2
<1>3. ASSUME NEW m \in Models \cup {NoModel}, Known(g, l)
      PROVE  RowsOnly(g, Observe(g, l, m)) /\ Known(Observe(g, l, m), l)
  <2>1. [g.rows[l] EXCEPT !.observed = m] \in Row
    BY <1>3, KnownRowLemma DEF Row
  <2>2. CASE m \in {NoModel, g.rows[l].observed}
    BY <1>3, <2>2 DEF Observe
  <2>3. CASE m \notin {NoModel, g.rows[l].observed}
    BY <2>1, <2>3, PutRowLemma DEF Observe
  <2> QED
    BY <2>2, <2>3
<1> QED
  BY <1>1, <1>2, <1>3

\* Appending an event to a known lane logs it.
LEMMA AppendEventLemma ==
  ASSUME NEW g \in Ledger, NEW l \in Lanes, NEW u \in BOOLEAN, NEW m \in Models \cup {NoModel},
         Known(g, l)
  PROVE  Logged(g, AppendEvent(g, l, u, m), l, u, m)
<1> DEFINE e == [lane |-> l, seq |-> g.seq[l] + 1, ungrounded |-> u, observed |-> m]
           h == AppendEvent(g, l, u, m)
<1>1. g.seq[l] + 1 \in Nat \ {0}
  BY DEF Ledger
<1>2. e \in Event
  BY <1>1 DEF Event
<1>3. h = [g EXCEPT !.seq = [g.seq EXCEPT ![l] = g.seq[l] + 1], !.events = g.events \cup {e}]
  BY DEF AppendEvent, Ledger
<1>4. [g.seq EXCEPT ![l] = g.seq[l] + 1] \in [Lanes -> Nat]
  BY <1>1 DEF Ledger
<1>5. g.events \cup {e} \in SUBSET Event
  BY <1>2 DEF Ledger
<1>6. h \in Ledger
  <2> HIDE DEF h, e
  <2> QED
    BY <1>3, <1>4, <1>5 DEF Ledger
<1>7. /\ h.seq = [g.seq EXCEPT ![l] = g.seq[l] + 1] /\ h.events = g.events \cup {e}
      /\ h.rows = g.rows /\ h.dirty = g.dirty /\ h.queries = g.queries /\ h.latest = g.latest
  <2> HIDE DEF h, e
  <2> QED
    BY <1>3 DEF Ledger
<1>8. [g.seq EXCEPT ![l] = g.seq[l] + 1] = [g.seq EXCEPT ![l] = @ + 1]
  OBVIOUS
<1> HIDE DEF h
<1>9. Logged(g, h, l, u, m)
  BY <1>6, <1>7, <1>8 DEF Logged, Known
<1> QED
  BY <1>9 DEF h

\* Counting a divergence touches the counter and at most the lane's mark.
LEMMA CountDivergenceLemma ==
  ASSUME NEW g \in Ledger, NEW l \in Lanes
  PROVE  RowsOnly(g, CountDivergence(g, l))
<1> DEFINE h == [g EXCEPT !.divergence[l] = g.divergence[l] + 1]
<1>1. h = [g EXCEPT !.divergence = [g.divergence EXCEPT ![l] = g.divergence[l] + 1]]
  BY DEF Ledger
<1>2. [g.divergence EXCEPT ![l] = g.divergence[l] + 1] \in [Lanes -> Nat]
  BY DEF Ledger
<1>3. h \in Ledger
  <2> HIDE DEF h
  <2> QED
    BY <1>1, <1>2 DEF Ledger
<1>4. RowsOnly(g, h)
  <2> HIDE DEF h
  <2> QED
    BY <1>1, <1>3 DEF Ledger, RowsOnly, Known
<1>5. CountDivergence(g, l) =
        IF g.divergence[l] + 1 < Threshold \/ ~Known(g, l) \/ g.rows[l].contaminated # 0
        THEN h
        ELSE PutRow(h, l, [h.rows[l] EXCEPT !.contaminated = h.seq[l]])
  BY DEF CountDivergence
<1> HIDE DEF h
<1>6. ASSUME Known(g, l)
      PROVE  RowsOnly(h, PutRow(h, l, [h.rows[l] EXCEPT !.contaminated = h.seq[l]]))
  <2>1. h.rows[l] \in Row
    BY <1>3, <1>4, <1>6, KnownRowLemma DEF RowsOnly
  <2>2. h.seq[l] \in Nat
    BY <1>3 DEF Ledger
  <2>3. [h.rows[l] EXCEPT !.contaminated = h.seq[l]] \in Row
    BY <2>1, <2>2 DEF Row
  <2> QED
    BY <1>3, <2>3, PutRowLemma
<1>7. Known(g, l) =>
        RowsOnly(g, PutRow(h, l, [h.rows[l] EXCEPT !.contaminated = h.seq[l]]))
  BY <1>4, <1>6, ComposeLemma
<1> QED
  BY <1>4, <1>5, <1>7

\* A tool event and a model call log one event of their lane.
LEMMA RecordLemma ==
  ASSUME NEW g \in Ledger, NEW l \in Lanes
  PROVE  /\ \A u \in BOOLEAN : Logged(g, RecordToolEvent(g, l, u), l, u, NoModel)
         /\ \A m \in Models \cup {NoModel} : Logged(g, RecordModelCall(g, l, m), l, FALSE, m)
<1>1. ASSUME NEW u \in BOOLEAN
      PROVE  Logged(g, RecordToolEvent(g, l, u), l, u, NoModel)
  <2> DEFINE o == OrphanLane(g, l)
             h == AppendEvent(o, l, u, NoModel)
  <2>1. RowsOnly(g, o) /\ Known(o, l) /\ o \in Ledger
    BY OpenLaneLemma, NoQuery \in Queries \cup {NoQuery} DEF RowsOnly
  <2>2. Logged(o, h, l, u, NoModel)
    BY <2>1, AppendEventLemma
  <2>3. Logged(g, h, l, u, NoModel)
    BY <2>1, <2>2, ComposeLemma
  <2>4. h \in Ledger
    BY <2>2 DEF Logged
  <2>5. RowsOnly(h, CountDivergence(h, l))
    BY <2>4, CountDivergenceLemma
  <2>6. Logged(g, CountDivergence(h, l), l, u, NoModel)
    BY <2>3, <2>5, ComposeLemma
  <2> QED
    BY <2>3, <2>6 DEF RecordToolEvent
<1>2. ASSUME NEW m \in Models \cup {NoModel}
      PROVE  Logged(g, RecordModelCall(g, l, m), l, FALSE, m)
  <2> DEFINE s == StartLane(g, l, g.latest)
             o == Observe(s, l, m)
  <2>1. RowsOnly(g, s) /\ Known(s, l) /\ s \in Ledger
    BY OpenLaneLemma, g.latest \in Queries \cup {NoQuery} DEF RowsOnly, Ledger
  <2>2. RowsOnly(s, o) /\ Known(o, l) /\ o \in Ledger
    <3> HIDE DEF s
    <3>1. RowsOnly(s, o) /\ Known(o, l)
      BY <2>1, StatusLemma
    <3>2. o \in Ledger
      BY <3>1 DEF RowsOnly
    <3> QED
      BY <3>1, <3>2
  <2>3. Logged(o, AppendEvent(o, l, FALSE, m), l, FALSE, m)
    BY <2>2, AppendEventLemma
  <2>4. RowsOnly(g, o)
    BY <2>1, <2>2, ComposeLemma
  <2> QED
    BY <2>3, <2>4, ComposeLemma DEF RecordModelCall
<1> QED
  BY <1>1, <1>2

\* A drain takes every buffered row and leaves rows, numbers and counters be.
LEMMA SwapLemma ==
  ASSUME NEW g \in Ledger
  PROVE  /\ Taken(g) \in Batch
         /\ Taken(g).queries = g.queries /\ Taken(g).events = g.events
         /\ \A l \in Lanes : Taken(g).rows[l] = IF l \in g.dirty THEN g.rows[l] ELSE NoRow
         /\ Swapped(g) \in Ledger
         /\ Swapped(g).queries = {} /\ Swapped(g).dirty = {} /\ Swapped(g).events = {}
         /\ Swapped(g).rows = g.rows /\ Swapped(g).seq = g.seq
<1>1. [l \in Lanes |-> IF l \in g.dirty THEN g.rows[l] ELSE NoRow] \in [Lanes -> Row \cup {NoRow}]
  BY DEF Ledger
<1>2. Taken(g) \in Batch
  BY <1>1 DEF Taken, Batch, Ledger
<1>3. Swapped(g) = [[[g EXCEPT !.queries = {}] EXCEPT !.dirty = {}] EXCEPT !.events = {}]
  BY DEF Swapped, Ledger
<1>4. Swapped(g) \in Ledger
  BY <1>3 DEF Ledger
<1> QED
  BY <1>2, <1>3, <1>4 DEF Ledger, Taken

LEMMA EmptyTypes ==
  /\ EmptyBatch \in Batch
  /\ EmptyBatch.queries = {} /\ EmptyBatch.events = {} /\ EmptyBatch.rows = NoRows
  /\ \A l \in Lanes : EmptyBatch.rows[l] = NoRow /\ ~Known(NewLedger, l)
  /\ NewLedger \in Ledger
<1>1. NoRows \in [Lanes -> Row \cup {NoRow}]
  BY DEF NoRows
<1>2. [l \in Lanes |-> 0] \in [Lanes -> Nat]
  OBVIOUS
<1>3. EmptyBatch \in Batch
  BY <1>1 DEF EmptyBatch, Batch
<1>4. NewLedger \in Ledger
  BY <1>1, <1>2 DEF NewLedger, Ledger
<1>5. \A l \in Lanes : NoRows[l] = NoRow
  BY DEF NoRows
<1>6. EmptyBatch.queries = {} /\ EmptyBatch.events = {} /\ EmptyBatch.rows = NoRows
  BY DEF EmptyBatch
<1>7. NewLedger.rows = NoRows
  BY DEF NewLedger
<1> QED
  BY <1>3, <1>4, <1>5, <1>6, <1>7 DEF Known

LEMMA StartQueryLemma ==
  ASSUME NEW g \in Ledger, NEW q \in Queries
  PROVE  /\ StartQuery(g, q) \in Ledger
         /\ StartQuery(g, q).queries = g.queries \cup {q}
         /\ StartQuery(g, q).rows = g.rows /\ StartQuery(g, q).seq = g.seq
         /\ StartQuery(g, q).dirty = g.dirty /\ StartQuery(g, q).events = g.events
<1>1. StartQuery(g, q) = [[g EXCEPT !.latest = q] EXCEPT !.queries = g.queries \cup {q}]
  BY DEF StartQuery, Ledger
<1> DEFINE h == StartQuery(g, q)
<1> HIDE DEF h
<1>2. g.queries \cup {q} \in SUBSET Queries /\ q \in Queries \cup {NoQuery}
  BY DEF Ledger
<1>3. h = [[g EXCEPT !.latest = q] EXCEPT !.queries = g.queries \cup {q}]
  BY <1>1 DEF h
<1>4. h \in Ledger
  BY <1>2, <1>3 DEF Ledger
<1>5. /\ h.queries = g.queries \cup {q} /\ h.rows = g.rows /\ h.seq = g.seq
      /\ h.dirty = g.dirty /\ h.events = g.events
  BY <1>3 DEF Ledger
<1> QED
  BY <1>4, <1>5 DEF h

\* h is g with at most the row of lane l changed, which keeps its query and, once
\* it is set, its contamination.
Touches(g, h, l) ==
  /\ h \in Ledger
  /\ h.rows[l] \in Row
  /\ h.rows[l].query = g.rows[l].query
  /\ g.rows[l].contaminated # 0 => h.rows[l].contaminated = g.rows[l].contaminated
  /\ \A k \in Lanes : k # l => h.rows[k] = g.rows[k]

\* What finishing, a verdict and the reports of a lane change in its row.
LEMMA TouchLemma ==
  ASSUME NEW g \in Ledger, NEW l \in Lanes, Known(g, l)
  PROVE  /\ \A st \in {"ok", "error"} :
              /\ Touches(g, FinishLane(g, l, st), l)
              /\ FinishLane(g, l, st).rows[l].status = st
              /\ FinishLane(g, l, st).rows[l].observed = g.rows[l].observed
         /\ Touches(g, MarkCollision(g, l), l) /\ MarkCollision(g, l).rows[l].status = "invalid"
         /\ MarkCollision(g, l).rows[l].observed = g.rows[l].observed
         /\ \A u \in BOOLEAN : /\ Touches(g, RecordToolEvent(g, l, u), l)
                               /\ RecordToolEvent(g, l, u).rows[l].status = g.rows[l].status
                               /\ RecordToolEvent(g, l, u).rows[l].observed = g.rows[l].observed
         /\ \A m \in Models \cup {NoModel} :
              /\ Touches(g, RecordModelCall(g, l, m), l)
              /\ RecordModelCall(g, l, m).rows[l].status = g.rows[l].status
              /\ RecordModelCall(g, l, m).rows[l].observed \in {g.rows[l].observed, m}
<1>1. g.rows[l] \in Row
  BY KnownRowLemma
<1>2. ASSUME NEW f \in Ledger, NEW row \in Row
      PROVE  /\ PutRow(f, l, row) \in Ledger /\ PutRow(f, l, row).rows[l] = row
             /\ \A k \in Lanes : k # l => PutRow(f, l, row).rows[k] = f.rows[k]
             /\ PutRow(f, l, row).seq = f.seq
  <2>1. PutRow(f, l, row) = [f EXCEPT !.rows = [f.rows EXCEPT ![l] = row], !.dirty = f.dirty \cup {l}]
    BY DEF PutRow, Ledger
  <2>2. PutRow(f, l, row) \in Ledger
    BY PutRowLemma DEF RowsOnly
  <2> QED
    BY <2>1, <2>2 DEF Ledger
<1>3. ASSUME NEW f \in Ledger, f.rows = g.rows, NEW row \in Row, row.query = g.rows[l].query,
             g.rows[l].contaminated # 0 => row.contaminated = g.rows[l].contaminated
      PROVE  Touches(g, PutRow(f, l, row), l) /\ PutRow(f, l, row).rows[l] = row
  BY <1>2, <1>3 DEF Touches
<1>4. ASSUME NEW st \in Status
      PROVE  /\ Touches(g, PutRow(g, l, [g.rows[l] EXCEPT !.status = st]), l)
             /\ PutRow(g, l, [g.rows[l] EXCEPT !.status = st]).rows[l].status = st
             /\ PutRow(g, l, [g.rows[l] EXCEPT !.status = st]).rows[l].observed = g.rows[l].observed
  <2> DEFINE r == [g.rows[l] EXCEPT !.status = st]
  <2>1. r \in Row /\ r.status = st /\ r.query = g.rows[l].query
        /\ r.observed = g.rows[l].observed /\ r.contaminated = g.rows[l].contaminated
    BY <1>1 DEF Row
  <2> HIDE DEF r
  <2>2. /\ Touches(g, PutRow(g, l, r), l) /\ PutRow(g, l, r).rows[l].status = st
        /\ PutRow(g, l, r).rows[l].observed = g.rows[l].observed
    BY <1>3, <2>1
  <2> QED
    BY <2>2 DEF r
<1>5. ASSUME NEW st \in {"ok", "error"}
      PROVE  /\ Touches(g, FinishLane(g, l, st), l) /\ FinishLane(g, l, st).rows[l].status = st
             /\ FinishLane(g, l, st).rows[l].observed = g.rows[l].observed
  <2>1. FinishLane(g, l, st) = PutRow(g, l, [g.rows[l] EXCEPT !.status = st])
    BY DEF FinishLane, OrphanLane
  <2> QED
    BY <1>4, <2>1 DEF Status
<1>6. /\ Touches(g, MarkCollision(g, l), l) /\ MarkCollision(g, l).rows[l].status = "invalid"
      /\ MarkCollision(g, l).rows[l].observed = g.rows[l].observed
  BY <1>4 DEF Status, MarkCollision
<1>7. ASSUME NEW u \in BOOLEAN
      PROVE  /\ Touches(g, RecordToolEvent(g, l, u), l)
             /\ RecordToolEvent(g, l, u).rows[l].status = g.rows[l].status
             /\ RecordToolEvent(g, l, u).rows[l].observed = g.rows[l].observed
  <2> DEFINE h == AppendEvent(g, l, u, NoModel)
             d == [h EXCEPT !.divergence[l] = h.divergence[l] + 1]
  <2>1. Logged(g, h, l, u, NoModel) /\ h \in Ledger
    BY AppendEventLemma DEF Logged
  <2>2. h.rows = g.rows
    BY DEF AppendEvent, Ledger
  <2>3. RecordToolEvent(g, l, u) = IF u THEN CountDivergence(h, l) ELSE h
    BY DEF RecordToolEvent, OrphanLane
  <2>4. d \in Ledger /\ d.rows = h.rows /\ d.seq = h.seq
    <3> HIDE DEF h
    <3>1. d = [h EXCEPT !.divergence = [h.divergence EXCEPT ![l] = h.divergence[l] + 1]]
      BY <2>1 DEF Ledger
    <3>2. [h.divergence EXCEPT ![l] = h.divergence[l] + 1] \in [Lanes -> Nat]
      BY <2>1 DEF Ledger
    <3> QED
      BY <2>1, <3>1, <3>2 DEF Ledger
  <2>5. CountDivergence(h, l) = IF h.divergence[l] + 1 < Threshold \/ ~Known(h, l) \/ h.rows[l].contaminated # 0
                                THEN d
                                ELSE PutRow(d, l, [d.rows[l] EXCEPT !.contaminated = d.seq[l]])
    BY DEF CountDivergence
  <2>6. d.seq[l] \in Nat
    BY <2>4 DEF Ledger
  <2> HIDE DEF h, d
  <2>7. LET r == [d.rows[l] EXCEPT !.contaminated = d.seq[l]]
        IN  r \in Row /\ r.status = g.rows[l].status /\ r.query = g.rows[l].query
            /\ r.observed = g.rows[l].observed
    BY <1>1, <2>2, <2>4, <2>6 DEF Row
  <2>8. CASE ~u
    BY <1>1, <2>1, <2>2, <2>3, <2>8 DEF Touches
  <2>9. CASE u
    <3>1. CASE h.divergence[l] + 1 < Threshold \/ ~Known(h, l) \/ h.rows[l].contaminated # 0
      BY <1>1, <2>2, <2>3, <2>4, <2>5, <2>9, <3>1 DEF Touches
    <3>2. CASE ~(h.divergence[l] + 1 < Threshold \/ ~Known(h, l) \/ h.rows[l].contaminated # 0)
      <4>1. RecordToolEvent(g, l, u) = PutRow(d, l, [d.rows[l] EXCEPT !.contaminated = d.seq[l]])
        BY <2>3, <2>5, <2>9, <3>2
      <4>2. g.rows[l].contaminated = 0
        BY <2>2, <3>2
      <4> DEFINE r == [d.rows[l] EXCEPT !.contaminated = d.seq[l]]
      <4> HIDE DEF r
      <4>3. r \in Row /\ r.status = g.rows[l].status /\ r.query = g.rows[l].query
            /\ r.observed = g.rows[l].observed
        BY <2>7 DEF r
      <4>4. /\ Touches(g, PutRow(d, l, r), l) /\ PutRow(d, l, r).rows[l].status = g.rows[l].status
            /\ PutRow(d, l, r).rows[l].observed = g.rows[l].observed
        BY <1>3, <2>2, <2>4, <4>2, <4>3
      <4> QED
        BY <4>1, <4>4 DEF r
    <3> QED
      BY <3>1, <3>2
  <2> QED
    BY <2>8, <2>9
<1>8. ASSUME NEW m \in Models \cup {NoModel}
      PROVE  /\ Touches(g, RecordModelCall(g, l, m), l)
             /\ RecordModelCall(g, l, m).rows[l].status = g.rows[l].status
             /\ RecordModelCall(g, l, m).rows[l].observed \in {g.rows[l].observed, m}
  <2> DEFINE o == Observe(g, l, m)
  <2>1. RecordModelCall(g, l, m) = AppendEvent(o, l, FALSE, m)
    BY DEF RecordModelCall, StartLane
  <2>2. RowsOnly(g, o) /\ Known(o, l) /\ o \in Ledger
    <3>1. RowsOnly(g, o) /\ Known(o, l)
      BY StatusLemma
    <3> HIDE DEF o
    <3> QED
      BY <3>1 DEF RowsOnly
  <2>3. LET r == [g.rows[l] EXCEPT !.observed = m]
        IN  r \in Row /\ r.status = g.rows[l].status /\ r.query = g.rows[l].query
            /\ r.contaminated = g.rows[l].contaminated /\ r.observed = m
    BY <1>1 DEF Row
  <2>4. /\ Touches(g, o, l) /\ o.rows[l].status = g.rows[l].status
        /\ o.rows[l].observed \in {g.rows[l].observed, m}
    <3>1. CASE m \in {NoModel, g.rows[l].observed}
      BY <1>1, <3>1 DEF Observe, Touches
    <3>2. CASE m \notin {NoModel, g.rows[l].observed}
      BY <1>2, <2>3, <3>2 DEF Observe, Touches
    <3> QED
      BY <3>1, <3>2
  <2> HIDE DEF o
  <2>5. AppendEvent(o, l, FALSE, m) \in Ledger
    BY <2>2, AppendEventLemma DEF Logged
  <2>6. AppendEvent(o, l, FALSE, m).rows = o.rows
    BY <2>2 DEF AppendEvent, Ledger
  <2> QED
    BY <2>1, <2>4, <2>5, <2>6 DEF Touches
<1> QED
  BY <1>5, <1>6, <1>7, <1>8

\* Announcing a lane gives it a fresh row if it had none, and changes no other.
LEMMA StartLaneLemma ==
  ASSUME NEW g \in Ledger, NEW l \in Lanes, NEW q \in Queries
  PROVE  /\ StartLane(g, l, q) \in Ledger
         /\ StartLane(g, l, q).rows[l] = IF Known(g, l) THEN g.rows[l] ELSE FreshRow(q)
         /\ \A k \in Lanes : k # l => StartLane(g, l, q).rows[k] = g.rows[k]
<1>1. FreshRow(q) \in Row
  BY DEF FreshRow, Row, Status
<1>2. PutRow(g, l, FreshRow(q)) \in Ledger
  BY <1>1, PutRowLemma DEF RowsOnly
<1>3. PutRow(g, l, FreshRow(q)) =
        [g EXCEPT !.rows = [g.rows EXCEPT ![l] = FreshRow(q)], !.dirty = g.dirty \cup {l}]
  BY DEF PutRow, Ledger
<1>4. /\ PutRow(g, l, FreshRow(q)).rows[l] = FreshRow(q)
      /\ \A k \in Lanes : k # l => PutRow(g, l, FreshRow(q)).rows[k] = g.rows[k]
  BY <1>2, <1>3 DEF Ledger
<1> QED
  BY <1>2, <1>4 DEF StartLane

=============================================================================
