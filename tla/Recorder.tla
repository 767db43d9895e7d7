------------------------------ MODULE Recorder ------------------------------
(***************************************************************************)
(* The recorder's path to the store: amc/recorder.py with the SqliteStore  *)
(* of amc/store.py.  Handlers run on one event loop; each drain swaps the  *)
(* buffers out and hands the batch to a thread (asyncio.to_thread), where  *)
(* the store applies it under a lock and all or nothing.  Three kinds of   *)
(* task drain: the flush loop, callers of flush(), and aclose().           *)
(*                                                                         *)
(* A task's job goes queued -> running -> ok | failed, and the task goes   *)
(* on in a later turn of the loop.  The pool has several workers, so the   *)
(* commits of two running jobs come in either order.                       *)
(***************************************************************************)
EXTENDS LaneLedger

CONSTANTS
  Flushers,    \* tasks that call flush()
  Loop,        \* the flush loop
  Closer,      \* the task that calls aclose()
  MaxSeq,      \* bound: events per lane
  MaxFails     \* bound: store writes that fail while the store is open

Drainers == Flushers \cup {Loop, Closer}

ASSUME DrainerAssumption ==
  /\ Loop # Closer
  /\ Loop \notin Flushers
  /\ Closer \notin Flushers
  /\ MaxSeq \in Nat
  /\ MaxFails \in Nat

VARIABLES
  asked,       \* queries the callers have announced
  ledger,      \* the recorder's memory
  attached,    \* the interceptor's sink is record_tool_event
  closed,      \* _closed
  loop,        \* the flush task
  closer,      \* where aclose() is
  stage,       \* where each drainer's job is
  batch,       \* the rows of that job
  owed,        \* what a flush() in progress owes its caller
  store,       \* the tables
  storeOpen,   \* the connection
  fails,       \* writes failed so far
  lost         \* rows whose batch was dropped

drainVars == <<stage, batch, owed>>
storeVars == <<store, storeOpen, fails>>
vars == <<asked, ledger, attached, closed, loop, closer, drainVars, storeVars, lost>>

Store == [queries : SUBSET Queries, rows : [Lanes -> Row \cup {NoRow}],
          events : SUBSET Event]

Lost == [queries : SUBSET Queries, lanes : SUBSET Lanes, events : SUBSET Event]

TypeOK ==
  /\ asked \subseteq Queries
  /\ ledger \in Ledger
  /\ attached \in BOOLEAN
  /\ closed \in BOOLEAN
  /\ loop \in {"none", "sleeping", "draining", "dead", "cancelled"}
  /\ closer \in {"open", "joining", "draining", "closing", "closed", "failed"}
  /\ stage \in [Drainers -> {"idle", "queued", "running", "ok", "failed", "returned"}]
  /\ batch \in [Drainers -> Batch]
  /\ owed \in [Flushers -> SUBSET Event]
  /\ store \in Store
  /\ storeOpen \in BOOLEAN
  /\ fails \in 0..MaxFails
  /\ lost \in Lost

Init ==
  /\ asked = {}
  /\ ledger = NewLedger
  /\ attached = FALSE
  /\ closed = FALSE
  /\ loop = "none"
  /\ closer = "open"
  /\ stage = [d \in Drainers |-> "idle"]
  /\ batch = [d \in Drainers |-> EmptyBatch]
  /\ owed = [f \in Flushers |-> {}]
  /\ store = EmptyBatch
  /\ storeOpen = TRUE
  /\ fails = 0
  /\ lost = [queries |-> {}, lanes |-> {}, events |-> {}]

-----------------------------------------------------------------------------
(* Recording.  None of these waits, and all but MarkCollision restart the  *)
(* flush loop if there is no task for it yet.                              *)

\* Mutant: only a recorder that was started has a flush loop.
EnsureFlushLoopOnceStarted ==
  loop' = IF loop = "none" /\ ~closed /\ attached THEN "sleeping" ELSE loop

\* Callers run on the event loop.  A call from a thread without one finds no loop and
\* returns (recorder.py:104-105): that return is left out.
EnsureFlushLoop ==
  loop' = IF loop = "none" /\ ~closed THEN "sleeping" ELSE loop

Record(g) ==
  /\ ledger' = g
  /\ EnsureFlushLoop
  /\ UNCHANGED <<attached, closed, closer, drainVars, storeVars, lost>>

Start ==
  /\ ~attached /\ ~closed
  /\ attached' = TRUE
  /\ EnsureFlushLoop
  /\ UNCHANGED <<asked, ledger, closed, closer, drainVars, storeVars, lost>>

\* The runner announces a query once.
DoStartQuery(q) ==
  /\ q \notin asked
  /\ asked' = asked \cup {q}
  /\ Record(StartQuery(ledger, q))

DoStartLane(l, q) ==
  /\ q \in asked
  /\ Record(StartLane(ledger, l, q))
  /\ UNCHANGED asked

\* The runner finishes a lane at most once, before any collision check.
DoFinishLane(l, s) ==
  /\ Known(ledger, l) => ledger.rows[l].status = "running"
  /\ Record(FinishLane(ledger, l, s))
  /\ UNCHANGED asked

\* Called in the turn that finished the lane ok; when the row is drained is
\* another matter.
DoMarkCollision(l) ==
  /\ Known(ledger, l)
  /\ ledger.rows[l].status = "ok"
  /\ ledger' = MarkCollision(ledger, l)
  /\ UNCHANGED <<asked, attached, closed, loop, closer, drainVars, storeVars, lost>>

DoRecordToolEvent(l, ungrounded) ==
  /\ attached
  /\ ledger.seq[l] < MaxSeq
  /\ Record(RecordToolEvent(ledger, l, ungrounded))
  /\ UNCHANGED asked

DoRecordModelCall(l, m) ==
  /\ ledger.seq[l] < MaxSeq
  /\ Record(RecordModelCall(ledger, l, m))
  /\ UNCHANGED asked

-----------------------------------------------------------------------------
(* Draining.                                                               *)

\* Swap the buffers and submit the batch; nothing is submitted when empty.
Drain(d) ==
  LET b == Taken(ledger)
  IN  /\ ledger' = Swapped(ledger)
      /\ batch' = [batch EXCEPT ![d] = b]
      /\ stage' = [stage EXCEPT ![d] = IF b = EmptyBatch THEN "idle" ELSE "queued"]

InFlight == UNION {batch[d].events : d \in Drainers}

FlushCall(f) ==
  /\ stage[f] = "idle"
  /\ owed' = [owed EXCEPT ![f] = ledger.events \cup InFlight]
  /\ \/ /\ Taken(ledger) = EmptyBatch
        /\ stage' = [stage EXCEPT ![f] = "returned"]
        /\ UNCHANGED <<ledger, batch>>
     \/ /\ Taken(ledger) # EmptyBatch
        /\ Drain(f)
  /\ UNCHANGED <<asked, attached, closed, loop, closer, storeVars, lost>>

FlushResume(f) ==
  /\ stage[f] = "ok"
  /\ stage' = [stage EXCEPT ![f] = "returned"]
  /\ UNCHANGED <<asked, ledger, attached, closed, loop, closer, batch, owed, storeVars, lost>>

\* The caller has its answer: a return, or the write's exception.
FlushEnd(f) ==
  /\ stage[f] \in {"returned", "failed"}
  /\ stage' = [stage EXCEPT ![f] = "idle"]
  /\ owed' = [owed EXCEPT ![f] = {}]
  /\ UNCHANGED <<asked, ledger, attached, closed, loop, closer, batch, storeVars, lost>>

LoopWake ==
  /\ loop = "sleeping"
  /\ Taken(ledger) # EmptyBatch
  /\ Drain(Loop)
  /\ loop' = "draining"
  /\ UNCHANGED <<asked, attached, closed, closer, owed, storeVars, lost>>

\* The write's exception ends the flush loop; _flush_task keeps it.
LoopResume ==
  /\ loop = "draining"
  /\ stage[Loop] \in {"ok", "failed"}
  /\ loop' = IF stage[Loop] = "ok" THEN "sleeping" ELSE "dead"
  /\ stage' = [stage EXCEPT ![Loop] = "idle"]
  /\ UNCHANGED <<asked, ledger, attached, closed, closer, batch, owed, storeVars, lost>>

-----------------------------------------------------------------------------
(* The pool and the store.                                                 *)

\* Nobody waits for a job whose task was cancelled.
Answer(d, r) ==
  stage' = [stage EXCEPT ![d] = IF d = Loop /\ loop = "cancelled" THEN "idle" ELSE r]

Forget(d) == batch' = [batch EXCEPT ![d] = EmptyBatch]

Lose(b) ==
  lost' = [queries |-> lost.queries \cup b.queries,
           lanes |-> lost.lanes \cup {l \in Lanes : b.rows[l] # NoRow},
           events |-> lost.events \cup b.events]

Pickup(d) ==
  /\ stage[d] = "queued"
  /\ stage' = [stage EXCEPT ![d] = "running"]
  /\ UNCHANGED <<asked, ledger, attached, closed, loop, closer, batch, owed, storeVars, lost>>

\* Mutant: a batch replaces the stored events.
ApplyReplacing(s, b) ==
  [queries |-> s.queries \cup b.queries,
   rows |-> [l \in Lanes |-> IF b.rows[l] = NoRow THEN s.rows[l] ELSE b.rows[l]],
   events |-> b.events]

\* INSERT OR IGNORE, whole-row upsert, INSERT OR REPLACE, in one transaction.
Apply(s, b) ==
  [queries |-> s.queries \cup b.queries,
   rows |-> [l \in Lanes |-> IF b.rows[l] = NoRow THEN s.rows[l] ELSE b.rows[l]],
   events |-> s.events \cup b.events]

Commit(d) ==
  /\ stage[d] = "running"
  /\ storeOpen
  /\ store' = Apply(store, batch[d])
  /\ Forget(d)
  /\ Answer(d, "ok")
  /\ UNCHANGED <<asked, ledger, attached, closed, loop, closer, owed, storeOpen, fails, lost>>

\* Rolled back and raised: a database error, or any write once it is closed.
Fail(d) ==
  /\ stage[d] = "running"
  /\ storeOpen => fails < MaxFails
  /\ fails' = IF storeOpen THEN fails + 1 ELSE fails
  /\ Lose(batch[d])
  /\ Forget(d)
  /\ Answer(d, "failed")
  /\ UNCHANGED <<asked, ledger, attached, closed, loop, closer, owed, store, storeOpen>>

-----------------------------------------------------------------------------
(* aclose().                                                               *)

\* The final drain: with nothing to write it goes straight to closing.
FinalDrain ==
  /\ Drain(Closer)
  /\ closer' = IF Taken(ledger) = EmptyBatch THEN "closing" ELSE "draining"

\* With no flush task it drains in the same turn.
AcloseNoTask ==
  /\ ~closed /\ loop = "none"
  /\ closed' = TRUE
  /\ attached' = FALSE
  /\ FinalDrain
  /\ UNCHANGED <<asked, loop, owed, storeVars, lost>>

\* Cancelling a waiting flush loop withdraws a queued job; a running one goes
\* on with nobody waiting for it, a finished one's answer is dropped.
AcloseCancel ==
  /\ ~closed /\ loop \in {"sleeping", "draining"}
  /\ closed' = TRUE
  /\ attached' = FALSE
  /\ loop' = "cancelled"
  /\ closer' = "joining"
  /\ stage' = [stage EXCEPT ![Loop] = IF @ = "running" THEN @ ELSE "idle"]
  /\ \/ /\ stage[Loop] = "queued"
        /\ Lose(batch[Loop])
        /\ Forget(Loop)
     \/ /\ stage[Loop] # "queued"
        /\ UNCHANGED <<batch, lost>>
  /\ UNCHANGED <<asked, ledger, owed, storeVars>>

\* Awaiting a dead flush task raises the write's exception out of aclose().
AcloseDead ==
  /\ ~closed /\ loop = "dead"
  /\ closed' = TRUE
  /\ attached' = FALSE
  /\ closer' = "failed"
  /\ UNCHANGED <<asked, ledger, loop, drainVars, storeVars, lost>>

CloserJoin ==
  /\ closer = "joining"
  /\ FinalDrain
  /\ UNCHANGED <<asked, attached, closed, loop, owed, storeVars, lost>>

\* Mutant: a failed final write is waited for again.
CloserResumeOnSuccess ==
  /\ closer = "draining"
  /\ stage[Closer] = "ok"
  /\ closer' = "closing"
  /\ stage' = [stage EXCEPT ![Closer] = "idle"]
  /\ UNCHANGED <<asked, ledger, attached, closed, loop, batch, owed, storeVars, lost>>

CloserResume ==
  /\ closer = "draining"
  /\ stage[Closer] \in {"ok", "failed"}
  /\ closer' = IF stage[Closer] = "ok" THEN "closing" ELSE "failed"
  /\ stage' = [stage EXCEPT ![Closer] = "idle"]
  /\ UNCHANGED <<asked, ledger, attached, closed, loop, batch, owed, storeVars, lost>>

CloseStore ==
  /\ closer = "closing"
  /\ storeOpen' = FALSE
  /\ closer' = "closed"
  /\ UNCHANGED <<asked, ledger, attached, closed, loop, drainVars, store, fails, lost>>

-----------------------------------------------------------------------------

Recording ==
  \/ Start
  \/ \E q \in Queries : DoStartQuery(q)
  \/ \E l \in Lanes, q \in Queries : DoStartLane(l, q)
  \/ \E l \in Lanes, s \in {"ok", "error"} : DoFinishLane(l, s)
  \/ \E l \in Lanes : DoMarkCollision(l)
  \/ \E l \in Lanes, u \in BOOLEAN : DoRecordToolEvent(l, u)
  \/ \E l \in Lanes, m \in Models \cup {NoModel} : DoRecordModelCall(l, m)

Aclose == AcloseNoTask \/ AcloseCancel \/ AcloseDead

\* The steps the event loop and the pool take by themselves.
Running ==
  \/ LoopWake
  \/ LoopResume
  \/ \E f \in Flushers : FlushResume(f) \/ FlushEnd(f)
  \/ \E d \in Drainers : Pickup(d) \/ Commit(d) \/ Fail(d)
  \/ CloserJoin
  \/ CloserResume
  \/ CloseStore

Next == Recording \/ (\E f \in Flushers : FlushCall(f)) \/ Aclose \/ Running

Spec == Init /\ [][Next]_vars

\* A ready task and a ready thread eventually run; a write eventually ends.
\* Callers owe nothing: they may stop recording, flushing or closing.
FairSpec ==
  /\ Spec
  /\ WF_vars(LoopWake)
  /\ WF_vars(LoopResume)
  /\ \A f \in Flushers : WF_vars(FlushResume(f)) /\ WF_vars(FlushEnd(f))
  /\ \A d \in Drainers : WF_vars(Pickup(d)) /\ WF_vars(Commit(d) \/ Fail(d))
  /\ WF_vars(CloserJoin)
  /\ WF_vars(CloserResume)
  /\ WF_vars(CloseStore)

-----------------------------------------------------------------------------
(* Properties.                                                             *)

Recorded == ledger.events \cup InFlight \cup store.events \cup lost.events

\* Every event is in exactly one place: still buffered, in the batch of one
\* job, stored, or dropped with its batch.  Swapping the buffers before the
\* await, never after it, is what this rests on.
OnePlace ==
  /\ ledger.events \cap (InFlight \cup store.events \cup lost.events) = {}
  /\ InFlight \cap (store.events \cup lost.events) = {}
  /\ store.events \cap lost.events = {}
  /\ \A c, d \in Drainers : c # d => batch[c].events \cap batch[d].events = {}

\* The step numbers of a lane are 1..n without gap or repetition, whatever
\* the interleaving of handlers, drains, failures and cancellation.
DenseSteps ==
  /\ \A e \in Recorded : e.seq <= ledger.seq[e.lane]
  /\ \A l \in Lanes : \A n \in 1..ledger.seq[l] :
       \E e \in Recorded : e.lane = l /\ e.seq = n
  /\ \A e, f \in Recorded : e.lane = f.lane /\ e.seq = f.seq => e = f

OnTheWay(l) == l \in ledger.dirty \/ \E d \in Drainers : batch[d].rows[l] # NoRow

\* A recorded event has a lane, the lane's row was or will be written unless a
\* dropped batch held it, and the same holds of the query that row names.
NothingUnattached ==
  /\ \A e \in Recorded : Known(ledger, e.lane)
  /\ \A l \in Lanes : Known(ledger, l) =>
       OnTheWay(l) \/ store.rows[l] # NoRow \/ l \in lost.lanes
  /\ \A q \in asked :
       \/ q \in ledger.queries \cup store.queries \cup lost.queries
       \/ \E d \in Drainers : q \in batch[d].queries

\* While only the flush loop drains and no write has failed, the store may be
\* read at any moment: no event without its lane, no lane without its query.
ReadableWhileOpen ==
  closer = "open" /\ fails = 0 =>
    /\ \A e \in store.events : store.rows[e.lane] # NoRow
    /\ \A l \in Lanes : store.rows[l] # NoRow =>
         store.rows[l].query \in store.queries \cup {NoQuery}

\* ... and a row that is neither dirty nor in a batch is stored as it is in
\* memory: no change of a row is forgotten by the dirty set.
CurrentWhileOpen ==
  closer = "open" /\ fails = 0 =>
    \A l \in Lanes : Known(ledger, l) /\ ~OnTheWay(l) => store.rows[l] = ledger.rows[l]

UngroundedUpTo(l, n) ==
  Cardinality({e \in Recorded : e.lane = l /\ e.ungrounded /\ e.seq <= n})

\* A lane is contaminated from the very step at which its ungrounded events
\* reach the threshold, and that step never moves afterwards.
ContaminatedFromThreshold ==
  \A l \in Lanes : Known(ledger, l) =>
    LET step == ledger.rows[l].contaminated IN
    IF step = 0
    THEN LET n == UngroundedUpTo(l, ledger.seq[l]) IN n = 0 \/ n < Threshold
    ELSE /\ \E e \in Recorded : e.lane = l /\ e.seq = step /\ e.ungrounded
         /\ UngroundedUpTo(l, step) >= Threshold
         /\ \/ UngroundedUpTo(l, step - 1) = 0
            \/ UngroundedUpTo(l, step - 1) < Threshold

\* Seen from outside the recorder is a journal of events.
J == INSTANCE Journal WITH
       count <- ledger.seq,
       pending <- ledger.events \cup InFlight,
       durable <- store.events,
       dropped <- lost.events

KeepsAJournal == J!Spec

\* Every recorded event reaches the store, unless aclose() was called or a write failed.
EventuallyStored ==
  \A l \in Lanes : \A n \in 1..MaxSeq :
    (ledger.seq[l] >= n)
      ~> (closed \/ fails > 0 \/ \E e \in store.events : e.lane = l /\ e.seq = n)

\* aclose() ends, whatever was in flight when it was called.
AcloseEnds == closed ~> closer \in {"closed", "failed"}

\* roadmap.md:106, "a background loop drains to the store": what is buffered
\* does not stay buffered, unless aclose() was called.
BufferDrains == ledger.events # {} ~> (ledger.events = {} \/ closed)

\* recorder.py:81, "Drain every buffered row to the store now. Await this
\* before reading the store back": every event recorded before flush() was
\* called is stored when it returns.
FlushMakesDurable ==
  \A f \in Flushers : stage[f] = "returned" => owed[f] \subseteq store.events

\* roadmap.md:113, "a full run reconstructable from the store alone": after
\* aclose() has closed a store no write to which failed, it holds every event
\* recorded before that and the last state of every lane.
ClosedStoreIsComplete ==
  closer = "closed" /\ fails = 0 =>
    \A l \in Lanes : Known(ledger, l) /\ ~OnTheWay(l) =>
      /\ store.rows[l] = ledger.rows[l]
      /\ \A e \in Recorded \ ledger.events : e.lane = l => e \in store.events

=============================================================================
