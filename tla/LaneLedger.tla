----------------------------- MODULE LaneLedger -----------------------------
(***************************************************************************)
(* What the recorder keeps in memory (amc/recorder.py): one row per lane,  *)
(* a step counter and a divergence counter per lane, and three buffers of  *)
(* rows not yet handed to the store.  Every record_* method is a total     *)
(* function from ledger to ledger that runs without awaiting, so a caller  *)
(* that makes several of them in one turn of the event loop composes them. *)
(*                                                                         *)
(* A step number is 1, 2, 3, ... within its lane; 0 in "contaminated"      *)
(* stands for contaminated_at_step = None.  Names, payloads, timestamps    *)
(* and token counts of a row are left out.  An event carries which model   *)
(* the response it records named, NoModel for a tool call: the store keeps *)
(* no such column, it is what rows are compared with in the properties.    *)
(***************************************************************************)
EXTENDS Naturals, FiniteSets

CONSTANTS
  Queries,     \* query ids
  Lanes,       \* lane ids
  Models,      \* models a provider may report as the one it used
  NoQuery,     \* the "" an orphan lane is filed under when no query was seen
  NoModel,     \* model_observed = None
  NoRow,       \* no LaneRow for this lane
  Threshold    \* contamination_threshold

ASSUME LedgerAssumption ==
  /\ NoQuery \notin Queries
  /\ NoModel \notin Models
  /\ Threshold \in Nat

Status == {"running", "ok", "error", "invalid"}

Row == [query : Queries \cup {NoQuery}, status : Status,
        observed : Models \cup {NoModel}, contaminated : Nat]

ASSUME NoRowAssumption == NoRow \notin Row

Event == [lane : Lanes, seq : Nat \ {0}, ungrounded : BOOLEAN, observed : Models \cup {NoModel}]

\* The rows one drain hands to the store: new queries, the whole row of every
\* dirty lane, new events.
Batch == [queries : SUBSET Queries, rows : [Lanes -> Row \cup {NoRow}],
          events : SUBSET Event]

NoRows == [l \in Lanes |-> NoRow]

EmptyBatch == [queries |-> {}, rows |-> NoRows, events |-> {}]

Ledger == [latest : Queries \cup {NoQuery}, rows : [Lanes -> Row \cup {NoRow}],
           seq : [Lanes -> Nat], divergence : [Lanes -> Nat],
           queries : SUBSET Queries, dirty : SUBSET Lanes, events : SUBSET Event]

NewLedger ==
  [latest |-> NoQuery, rows |-> NoRows, seq |-> [l \in Lanes |-> 0],
   divergence |-> [l \in Lanes |-> 0], queries |-> {}, dirty |-> {}, events |-> {}]

Known(g, l) == g.rows[l] # NoRow

-----------------------------------------------------------------------------
(* Rows.  Every method that changes a row also marks the lane dirty.       *)

FreshRow(q) ==
  [query |-> q, status |-> "running", observed |-> NoModel, contaminated |-> 0]

PutRow(g, l, row) ==
  [g EXCEPT !.rows[l] = row, !.dirty = @ \cup {l}]

StartQuery(g, q) == [g EXCEPT !.latest = q, !.queries = @ \cup {q}]

\* Mutants: the new row is not marked dirty; it is filed under the last query.
StartLaneUnmarked(g, l, q) == IF Known(g, l) THEN g ELSE [g EXCEPT !.rows[l] = FreshRow(q)]

StartLaneUnderLatest(g, l, q) == IF Known(g, l) THEN g ELSE PutRow(g, l, FreshRow(g.latest))

\* Idempotent: an orphan row made earlier keeps the query it was filed under.
StartLane(g, l, q) == IF Known(g, l) THEN g ELSE PutRow(g, l, FreshRow(q))

\* Mutants: the orphan row is not marked dirty; a known lane gets a new row.
OrphanLaneUnmarked(g, l) == IF Known(g, l) THEN g ELSE [g EXCEPT !.rows[l] = FreshRow(g.latest)]

OrphanLaneAnew(g, l) == PutRow(g, l, FreshRow(g.latest))

\* A lane nobody announced is filed under the query started last.
OrphanLane(g, l) == IF Known(g, l) THEN g ELSE PutRow(g, l, FreshRow(g.latest))

\* No caller passes contaminated_at_step, so finishing keeps the mark.
FinishLane(g, l, s) ==
  LET h == OrphanLane(g, l)
  IN  PutRow(h, l, [h.rows[l] EXCEPT !.status = s])

MarkCollision(g, l) ==
  IF Known(g, l) THEN PutRow(g, l, [g.rows[l] EXCEPT !.status = "invalid"]) ELSE g

\* Mutant: the observed model changes a row that is not marked dirty.
ObserveUnmarked(g, l, m) == IF m = NoModel THEN g ELSE [g EXCEPT !.rows[l].observed = m]

Observe(g, l, m) ==
  IF m \in {NoModel, g.rows[l].observed}
  THEN g
  ELSE PutRow(g, l, [g.rows[l] EXCEPT !.observed = m])

-----------------------------------------------------------------------------
(* Events and contamination.                                               *)

\* Mutant: the event gets the count before it is advanced.
AppendEventOffByOne(g, l, ungrounded, observed) ==
  [g EXCEPT !.seq[l] = @ + 1,
            !.events = @ \cup {[lane |-> l, seq |-> g.seq[l], ungrounded |-> ungrounded,
                               observed |-> observed]}]

AppendEvent(g, l, ungrounded, observed) ==
  LET n == g.seq[l] + 1
  IN  [g EXCEPT !.seq[l] = n,
                !.events = @ \cup {[lane |-> l, seq |-> n, ungrounded |-> ungrounded,
                                   observed |-> observed]}]

\* Mutant: the mark is set one divergence after the threshold.
CountDivergenceLate(g, l) ==
  LET n == g.divergence[l] + 1
      h == [g EXCEPT !.divergence[l] = n]
  IN  IF n <= Threshold \/ ~Known(g, l) \/ g.rows[l].contaminated # 0
      THEN h
      ELSE PutRow(h, l, [h.rows[l] EXCEPT !.contaminated = h.seq[l]])

\* The lane's first step at which the count reaches the threshold is kept.
CountDivergence(g, l) ==
  LET n == g.divergence[l] + 1
      h == [g EXCEPT !.divergence[l] = n]
  IN  IF n < Threshold \/ ~Known(g, l) \/ g.rows[l].contaminated # 0
      THEN h
      ELSE PutRow(h, l, [h.rows[l] EXCEPT !.contaminated = h.seq[l]])

RecordToolEvent(g, l, ungrounded) ==
  LET h == AppendEvent(OrphanLane(g, l), l, ungrounded, NoModel)
  IN  IF ungrounded THEN CountDivergence(h, l) ELSE h

RecordModelCall(g, l, m) ==
  AppendEvent(Observe(StartLane(g, l, g.latest), l, m), l, FALSE, m)

-----------------------------------------------------------------------------
(* The swap at the head of _drain: what it takes, and what it leaves.      *)

Taken(g) ==
  [queries |-> g.queries,
   rows |-> [l \in Lanes |-> IF l \in g.dirty THEN g.rows[l] ELSE NoRow],
   events |-> g.events]

\* Mutants: the step counters are cleared too; the event buffer is not.
SwappedWithCounters(g) ==
  [g EXCEPT !.queries = {}, !.dirty = {}, !.events = {}, !.seq = [l \in Lanes |-> 0]]

SwappedKeepingEvents(g) == [g EXCEPT !.queries = {}, !.dirty = {}]

Swapped(g) == [g EXCEPT !.queries = {}, !.dirty = {}, !.events = {}]

=============================================================================
