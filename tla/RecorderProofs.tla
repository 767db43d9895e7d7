--------------------------- MODULE RecorderProofs ---------------------------
(***************************************************************************)
(* Proofs about Recorder, for every number of queries, lanes, models and   *)
(* flush() callers, every threshold and every bound.                       *)
(***************************************************************************)
EXTENDS Recorder, LaneLedgerProofs, FiniteSetTheorems

-----------------------------------------------------------------------------
(* Type correctness.                                                       *)

\* The types of everything but the ledger and the batches of jobs.
LEMMA ApplyTypes ==
  ASSUME NEW s \in Store, NEW b \in Batch
  PROVE  /\ Apply(s, b) \in Store
         /\ Apply(s, b).queries = s.queries \cup b.queries
         /\ Apply(s, b).events = s.events \cup b.events
         /\ \A l \in Lanes : Apply(s, b).rows[l] =
                               IF b.rows[l] = NoRow THEN s.rows[l] ELSE b.rows[l]
<1>1. [l \in Lanes |-> IF b.rows[l] = NoRow THEN s.rows[l] ELSE b.rows[l]]
        \in [Lanes -> Row \cup {NoRow}]
  BY DEF Store, Batch
<1> QED
  BY <1>1 DEF Apply, Store, Batch

LEMMA LoseTypes ==
  ASSUME TypeOK, NEW b \in Batch, Lose(b)
  PROVE  lost' \in Lost
BY DEF Lose, TypeOK, Lost, Batch

\* What every recording step does: the ledger gains rows, a query or an event,
\* and nothing after the buffers moves.
RecordingEffect ==
  /\ ledger' \in Ledger
  /\ asked' \subseteq Queries
  /\ attached' \in BOOLEAN
  /\ loop' # loop => loop = "none" /\ loop' = "sleeping" /\ ~closed
  /\ UNCHANGED <<closed, closer, stage, batch, owed, store, storeOpen, fails, lost>>
  /\ ledger.dirty \subseteq ledger'.dirty
  /\ \A k \in Lanes : k \notin ledger'.dirty => ledger'.rows[k] = ledger.rows[k]
  /\ \A k \in Lanes : Known(ledger, k) => Known(ledger', k)
  /\ asked \subseteq asked'
  /\ ledger'.queries = ledger.queries \cup (asked' \ asked)
  /\ \/ ledger'.seq = ledger.seq /\ ledger'.events = ledger.events
     \/ \E l \in Lanes, u \in BOOLEAN, m \in Models \cup {NoModel} : Logged(ledger, ledger', l, u, m)

LEMMA RecordEffect ==
  ASSUME TypeOK, NEW g, Record(g), UNCHANGED asked,
         RowsOnly(ledger, g) \/ \E l \in Lanes, u \in BOOLEAN, m \in Models \cup {NoModel} :
                                   Logged(ledger, g, l, u, m)
  PROVE  RecordingEffect
<1>1. /\ ledger' = g /\ attached' = attached
      /\ loop' # loop => loop = "none" /\ loop' = "sleeping" /\ ~closed
      /\ UNCHANGED <<closed, closer, stage, batch, owed, store, storeOpen, fails, lost>>
  BY DEF Record, EnsureFlushLoop, drainVars, storeVars
<1>2. asked' \subseteq Queries /\ attached' \in BOOLEAN
  BY <1>1 DEF TypeOK
<1>3. CASE RowsOnly(ledger, g)
  BY <1>1, <1>2, <1>3 DEF RecordingEffect, RowsOnly
<1>4. CASE \E l \in Lanes, u \in BOOLEAN, m \in Models \cup {NoModel} : Logged(ledger, g, l, u, m)
  BY <1>1, <1>2, <1>4 DEF RecordingEffect, Logged
<1> QED
  BY <1>3, <1>4

LEMMA RecordingLemma ==
  ASSUME TypeOK, Recording
  PROVE  RecordingEffect
<1> ledger \in Ledger /\ asked \subseteq Queries /\ attached \in BOOLEAN
  BY DEF TypeOK
<1>1. CASE Start
  BY <1>1 DEF Start, EnsureFlushLoop, RecordingEffect, drainVars, storeVars
<1>2. ASSUME NEW q \in Queries, DoStartQuery(q)
      PROVE  RecordingEffect
  <2>1. /\ ledger' = StartQuery(ledger, q) /\ asked' = asked \cup {q} /\ q \notin asked
        /\ attached' = attached
        /\ loop' # loop => loop = "none" /\ loop' = "sleeping" /\ ~closed
        /\ UNCHANGED <<closed, closer, stage, batch, owed, store, storeOpen, fails, lost>>
    BY <1>2 DEF DoStartQuery, Record, EnsureFlushLoop, drainVars, storeVars
  <2>2. /\ ledger' \in Ledger /\ ledger'.rows = ledger.rows /\ ledger'.seq = ledger.seq
        /\ ledger'.queries = ledger.queries \cup {q}
        /\ ledger'.dirty = ledger.dirty /\ ledger'.events = ledger.events
    BY <2>1, StartQueryLemma
  <2>3. asked' \ asked = {q}
    BY <2>1
  <2> QED
    BY <2>1, <2>2, <2>3 DEF RecordingEffect, Known
<1>3. ASSUME NEW l \in Lanes, NEW q \in Queries, DoStartLane(l, q)
      PROVE  RecordingEffect
  BY <1>3, OpenLaneLemma, RecordEffect DEF DoStartLane
<1>4. ASSUME NEW l \in Lanes, NEW s \in {"ok", "error"}, DoFinishLane(l, s)
      PROVE  RecordingEffect
  BY <1>4, StatusLemma, RecordEffect DEF DoFinishLane
<1>5. ASSUME NEW l \in Lanes, DoMarkCollision(l)
      PROVE  RecordingEffect
  <2>1. RowsOnly(ledger, ledger')
    BY <1>5, StatusLemma DEF DoMarkCollision
  <2> QED
    BY <1>5, <2>1 DEF DoMarkCollision, RecordingEffect, RowsOnly, drainVars, storeVars
<1>6. ASSUME NEW l \in Lanes, NEW u \in BOOLEAN, DoRecordToolEvent(l, u)
      PROVE  RecordingEffect
  BY <1>6, RecordLemma, RecordEffect DEF DoRecordToolEvent
<1>7. ASSUME NEW l \in Lanes, NEW m \in Models \cup {NoModel}, DoRecordModelCall(l, m)
      PROVE  RecordingEffect
  <2>1. Logged(ledger, RecordModelCall(ledger, l, m), l, FALSE, m)
    BY RecordLemma
  <2> QED
    BY <1>7, <2>1, RecordEffect DEF DoRecordModelCall
<1> QED
  BY <1>1, <1>2, <1>3, <1>4, <1>5, <1>6, <1>7 DEF Recording

\* A drain's effect on the typed state.
LEMMA DrainLemma ==
  ASSUME TypeOK, NEW d \in Drainers, Drain(d)
  PROVE  /\ ledger' \in Ledger /\ ledger' = Swapped(ledger)
         /\ batch' = [batch EXCEPT ![d] = Taken(ledger)]
         /\ batch' \in [Drainers -> Batch]
         /\ stage' = [stage EXCEPT ![d] = IF Taken(ledger) = EmptyBatch THEN "idle" ELSE "queued"]
BY SwapLemma DEF Drain, TypeOK

LEMMA InitTypeOK == Init => TypeOK
<1>1. 0 \in 0..MaxFails
  BY DrainerAssumption
<1>2. [queries |-> {}, lanes |-> {}, events |-> {}] \in Lost
  BY DEF Lost
<1> QED
  BY <1>1, <1>2, EmptyTypes DEF Init, TypeOK, Store, Batch

\* Every step keeps the types.
LEMMA StepTypeOK == TypeOK /\ [Next]_vars => TypeOK'
<1> SUFFICES ASSUME TypeOK, [Next]_vars
             PROVE  TypeOK'
  OBVIOUS
<1> USE DEF drainVars, storeVars
<1>1. CASE Recording
  BY <1>1, RecordingLemma DEF TypeOK, RecordingEffect
<1>2. ASSUME NEW f \in Flushers, FlushCall(f)
      PROVE  TypeOK'
  <2> f \in Drainers
    BY DEF Drainers
  <2>1. ledger.events \cup InFlight \in SUBSET Event
    BY DEF TypeOK, InFlight, Ledger, Batch
  <2>2. CASE Taken(ledger) = EmptyBatch
    BY <1>2, <2>1, <2>2 DEF FlushCall, TypeOK
  <2>3. CASE Taken(ledger) # EmptyBatch
    <3>1. Drain(f)
      BY <1>2, <2>3 DEF FlushCall
    <3> QED
      BY <1>2, <2>1, <3>1, DrainLemma DEF FlushCall, TypeOK
  <2> QED
    BY <2>2, <2>3
<1>3. CASE AcloseNoTask
  BY <1>3, DrainLemma DEF AcloseNoTask, FinalDrain, TypeOK, Drainers
<1>4. CASE AcloseCancel
  <2> Loop \in Drainers
    BY DEF Drainers
  <2>1. batch[Loop] \in Batch /\ EmptyBatch \in Batch
    BY EmptyTypes DEF TypeOK
  <2>2. lost' \in Lost /\ batch' \in [Drainers -> Batch]
    BY <1>4, <2>1, LoseTypes DEF AcloseCancel, Forget, TypeOK
  <2>3. stage' \in [Drainers -> {"idle", "queued", "running", "ok", "failed", "returned"}]
    BY <1>4 DEF AcloseCancel, TypeOK
  <2> QED
    BY <1>4, <2>2, <2>3 DEF AcloseCancel, TypeOK
<1>5. CASE AcloseDead
  BY <1>5 DEF AcloseDead, TypeOK
<1>6. CASE LoopWake
  BY <1>6, DrainLemma DEF LoopWake, TypeOK, Drainers
<1>7. CASE LoopResume
  BY <1>7 DEF LoopResume, TypeOK
<1>8. ASSUME NEW f \in Flushers, FlushResume(f) \/ FlushEnd(f)
      PROVE  TypeOK'
  BY <1>8 DEF FlushResume, FlushEnd, TypeOK
<1>9. ASSUME NEW d \in Drainers, Pickup(d)
      PROVE  TypeOK'
  BY <1>9 DEF Pickup, TypeOK
<1>10. ASSUME NEW d \in Drainers, Commit(d)
       PROVE  TypeOK'
  <2>1. store' \in Store
    BY <1>10, ApplyTypes DEF Commit, TypeOK
  <2> QED
    BY <1>10, <2>1, EmptyTypes DEF Commit, Forget, Answer, TypeOK
<1>11. ASSUME NEW d \in Drainers, Fail(d)
       PROVE  TypeOK'
  <2>1. lost' \in Lost
    BY <1>11, LoseTypes DEF Fail, TypeOK
  <2>2. fails' \in 0..MaxFails
    BY <1>11, DrainerAssumption DEF Fail, TypeOK
  <2> QED
    BY <1>11, <2>1, <2>2, EmptyTypes DEF Fail, Forget, Answer, TypeOK
<1>12. CASE CloserJoin
  BY <1>12, DrainLemma DEF CloserJoin, FinalDrain, TypeOK, Drainers
<1>13. CASE CloserResume
  BY <1>13 DEF CloserResume, TypeOK
<1>14. CASE CloseStore
  BY <1>14 DEF CloseStore, TypeOK
<1>15. CASE UNCHANGED vars
  BY <1>15 DEF vars, TypeOK
<1> QED
  BY <1>1, <1>2, <1>3, <1>4, <1>5, <1>6, <1>7, <1>8, <1>9, <1>10, <1>11, <1>12,
     <1>13, <1>14, <1>15 DEF Next, Aclose, Running

\* The recorder's memory, jobs and tables always have their types.
THEOREM TypeCorrect == Spec => []TypeOK
<1>1. Init => TypeOK
  BY InitTypeOK
<1>2. TypeOK /\ [Next]_vars => TypeOK'
  BY StepTypeOK
<1> QED
  BY <1>1, <1>2, PTL DEF Spec

-----------------------------------------------------------------------------
(* Where each task is, and what the steps do to the rows on their way.     *)

\* Only a job that is queued or running has rows, and a task that is about to
\* drain has no job: this is why a swap never overwrites a batch.
Pipeline ==
  /\ \A d \in Drainers : stage[d] \notin {"queued", "running"} => batch[d] = EmptyBatch
  /\ loop \in {"none", "sleeping", "dead"} => stage[Loop] = "idle"
  /\ loop = "cancelled" => stage[Loop] \in {"idle", "running"}
  /\ closer \in {"open", "joining"} => stage[Closer] = "idle"
  /\ ~closed => closer = "open"
  /\ loop = "cancelled" => closed

LEMMA InitPipeline == Init => Pipeline
BY DEF Init, Pipeline, Drainers

LEMMA StepPipeline == TypeOK /\ Pipeline /\ [Next]_vars => Pipeline'
<1> SUFFICES ASSUME TypeOK, Pipeline, [Next]_vars
             PROVE  Pipeline'
  OBVIOUS
<1> USE DrainerAssumption DEF drainVars, storeVars
<1> Loop \in Drainers /\ Closer \in Drainers /\ Flushers \subseteq Drainers
  BY DEF Drainers
<1> batch \in [Drainers -> Batch] /\ stage \in [Drainers -> {"idle", "queued", "running", "ok", "failed", "returned"}]
  BY DEF TypeOK
<1>1. CASE Recording
  BY <1>1, RecordingLemma DEF Pipeline, RecordingEffect
<1>2. ASSUME NEW f \in Flushers, FlushCall(f)
      PROVE  Pipeline'
  <2>1. f # Loop /\ f # Closer /\ f \in Drainers /\ stage[f] = "idle"
    BY <1>2 DEF FlushCall
  <2>2. UNCHANGED <<loop, closer, closed>>
    BY <1>2 DEF FlushCall
  <2>3. CASE Taken(ledger) = EmptyBatch
    BY <1>2, <2>1, <2>2, <2>3 DEF FlushCall, Pipeline
  <2>4. CASE Taken(ledger) # EmptyBatch
    BY <1>2, <2>1, <2>2, <2>4 DEF FlushCall, Drain, Pipeline
  <2> QED
    BY <2>3, <2>4
<1>3. CASE AcloseNoTask
  BY <1>3 DEF AcloseNoTask, FinalDrain, Drain, Pipeline
<1>4. CASE AcloseCancel
  <2>1. stage[Loop] = "queued" => batch' = [batch EXCEPT ![Loop] = EmptyBatch]
    BY <1>4 DEF AcloseCancel, Forget
  <2>2. stage[Loop] # "queued" => batch' = batch
    BY <1>4 DEF AcloseCancel
  <2> QED
    BY <1>4, <2>1, <2>2 DEF AcloseCancel, Pipeline
<1>5. CASE AcloseDead
  BY <1>5 DEF AcloseDead, Pipeline
<1>6. CASE LoopWake
  BY <1>6 DEF LoopWake, Drain, Pipeline
<1>7. CASE LoopResume
  BY <1>7 DEF LoopResume, Pipeline
<1>8. ASSUME NEW f \in Flushers, FlushResume(f) \/ FlushEnd(f)
      PROVE  Pipeline'
  BY <1>8 DEF FlushResume, FlushEnd, Pipeline
<1>9. ASSUME NEW d \in Drainers, Pickup(d)
      PROVE  Pipeline'
  BY <1>9 DEF Pickup, Pipeline
<1>10. ASSUME NEW d \in Drainers, Commit(d) \/ Fail(d)
       PROVE  Pipeline'
  <2>1. /\ stage[d] = "running" /\ batch' = [batch EXCEPT ![d] = EmptyBatch]
        /\ UNCHANGED <<loop, closer, closed>>
        /\ \E r \in {"ok", "failed"} :
             stage' = [stage EXCEPT ![d] = IF d = Loop /\ loop = "cancelled" THEN "idle" ELSE r]
    BY <1>10 DEF Commit, Fail, Forget, Answer
  <2> QED
    BY <2>1 DEF Pipeline
<1>11. CASE CloserJoin
  BY <1>11 DEF CloserJoin, FinalDrain, Drain, Pipeline
<1>12. CASE CloserResume
  BY <1>12 DEF CloserResume, Pipeline
<1>13. CASE CloseStore
  BY <1>13 DEF CloseStore, Pipeline
<1>14. CASE UNCHANGED vars
  BY <1>14 DEF vars, Pipeline
<1> QED
  BY <1>1, <1>2, <1>3, <1>4, <1>5, <1>6, <1>7, <1>8, <1>9, <1>10, <1>11, <1>12,
     <1>13, <1>14 DEF Next, Aclose, Running

\* The four things that can happen to rows after they are recorded.
Swaps(d) ==
  /\ batch[d] = EmptyBatch
  /\ batch' = [batch EXCEPT ![d] = Taken(ledger)]
  /\ ledger' = Swapped(ledger)
  /\ UNCHANGED <<asked, store, lost>>

Stores(d) ==
  /\ store' = Apply(store, batch[d])
  /\ batch' = [batch EXCEPT ![d] = EmptyBatch]
  /\ UNCHANGED <<asked, ledger, lost>>

Drops(d) ==
  /\ Lose(batch[d])
  /\ batch' = [batch EXCEPT ![d] = EmptyBatch]
  /\ UNCHANGED <<asked, ledger, store>>

Rests == UNCHANGED <<asked, ledger, batch, store, lost>>

\* Every step records, swaps one task's batch out, settles one batch, or
\* leaves the rows where they are.
LEMMA StepKind ==
  ASSUME TypeOK, Pipeline, [Next]_vars
  PROVE  \/ Recording /\ RecordingEffect
         \/ \E d \in Drainers : Swaps(d) \/ Stores(d) \/ Drops(d)
         \/ Rests
<1> USE DrainerAssumption DEF drainVars, storeVars
<1> Loop \in Drainers /\ Closer \in Drainers /\ Flushers \subseteq Drainers
  BY DEF Drainers
<1>1. CASE Recording
  BY <1>1, RecordingLemma
<1>2. ASSUME NEW f \in Flushers, FlushCall(f)
      PROVE  Swaps(f) \/ Rests
  <2>1. batch[f] = EmptyBatch
    BY <1>2 DEF FlushCall, Pipeline
  <2> QED
    BY <1>2, <2>1 DEF FlushCall, Drain, Swaps, Rests
<1>3. CASE AcloseNoTask
  <2>1. batch[Closer] = EmptyBatch
    BY <1>3 DEF AcloseNoTask, Pipeline
  <2> QED
    BY <1>3, <2>1 DEF AcloseNoTask, FinalDrain, Drain, Swaps
<1>4. CASE AcloseCancel
  BY <1>4 DEF AcloseCancel, Forget, Drops, Rests
<1>5. CASE LoopWake
  <2>1. batch[Loop] = EmptyBatch
    BY <1>5 DEF LoopWake, Pipeline
  <2> QED
    BY <1>5, <2>1 DEF LoopWake, Drain, Swaps
<1>6. CASE CloserJoin
  <2>1. batch[Closer] = EmptyBatch
    BY <1>6 DEF CloserJoin, Pipeline
  <2> QED
    BY <1>6, <2>1 DEF CloserJoin, FinalDrain, Drain, Swaps
<1>7. ASSUME NEW d \in Drainers, Commit(d) \/ Fail(d)
      PROVE  Stores(d) \/ Drops(d)
  BY <1>7 DEF Commit, Fail, Forget, Stores, Drops
<1>8. CASE \/ AcloseDead \/ LoopResume \/ CloserResume \/ CloseStore
           \/ \E f \in Flushers : FlushResume(f) \/ FlushEnd(f)
           \/ \E d \in Drainers : Pickup(d)
           \/ UNCHANGED vars
  BY <1>8 DEF AcloseDead, LoopResume, CloserResume, CloseStore, FlushResume, FlushEnd,
              Pickup, vars, Rests
<1> QED
  BY <1>1, <1>2, <1>3, <1>4, <1>5, <1>6, <1>7, <1>8 DEF Next, Aclose, Running

-----------------------------------------------------------------------------
(* Events: each in one place, numbered without gaps.                       *)

LEMMA InFlightMember ==
  /\ \A e : e \in InFlight <=> \E d \in Drainers : e \in batch[d].events
  /\ \A e : e \in InFlight' <=> \E d \in Drainers : e \in batch'[d].events
BY DEF InFlight

\* OnePlace and DenseSteps, as membership of the four places.
EventsInv ==
  /\ \A e \in ledger.events : e \notin store.events /\ e \notin lost.events
  /\ \A e \in store.events : e \notin lost.events
  /\ \A d \in Drainers : \A e \in batch[d].events :
       e \notin ledger.events /\ e \notin store.events /\ e \notin lost.events
  /\ \A c, d \in Drainers : c # d => batch[c].events \cap batch[d].events = {}
  /\ DenseSteps

LEMMA EventsImply == EventsInv => OnePlace /\ DenseSteps
BY InFlightMember DEF EventsInv, OnePlace

LEMMA InitEvents == Init => EventsInv
<1> SUFFICES ASSUME Init
             PROVE  EventsInv
  OBVIOUS
<1>1. /\ ledger.events = {} /\ store.events = {} /\ lost.events = {}
      /\ \A d \in Drainers : batch[d].events = {}
      /\ \A l \in Lanes : ledger.seq[l] = 0
  BY EmptyTypes DEF Init, NewLedger
<1>2. Recorded = {}
  BY <1>1, InFlightMember DEF Recorded
<1> QED
  BY <1>1, <1>2 DEF EventsInv, DenseSteps

\* The events of the four places, and of all of them, after each kind of step.
LEMMA SwapsEvents ==
  ASSUME TypeOK, NEW d \in Drainers, Swaps(d)
  PROVE  /\ ledger'.events = {} /\ ledger'.seq = ledger.seq
         /\ batch[d].events = {} /\ batch'[d].events = ledger.events
         /\ \A c \in Drainers : c # d => batch'[c] = batch[c]
         /\ UNCHANGED <<store, lost>>
         /\ Recorded' = Recorded
<1>1. /\ ledger'.events = {} /\ ledger'.seq = ledger.seq
      /\ batch[d].events = {} /\ batch'[d].events = ledger.events
      /\ \A c \in Drainers : c # d => batch'[c] = batch[c]
      /\ UNCHANGED <<store, lost>>
  BY SwapLemma, EmptyTypes DEF Swaps, TypeOK
<1>2. InFlight' = ledger.events \cup InFlight
  BY <1>1, InFlightMember
<1> QED
  BY <1>1, <1>2 DEF Recorded

LEMMA SettlesEvents ==
  ASSUME TypeOK, NEW d \in Drainers, Stores(d) \/ Drops(d)
  PROVE  /\ ledger' = ledger
         /\ batch'[d].events = {}
         /\ \A c \in Drainers : c # d => batch'[c] = batch[c]
         /\ Stores(d) => store'.events = store.events \cup batch[d].events /\ lost' = lost
         /\ Drops(d) => lost'.events = lost.events \cup batch[d].events /\ store' = store
         /\ Recorded' = Recorded
<1>0. batch[d] \in Batch /\ store \in Store
  BY DEF TypeOK
<1>1. /\ ledger' = ledger
      /\ batch'[d].events = {}
      /\ \A c \in Drainers : c # d => batch'[c] = batch[c]
  BY EmptyTypes DEF Stores, Drops, TypeOK
<1>2. Stores(d) => store'.events = store.events \cup batch[d].events /\ lost' = lost
  BY <1>0, ApplyTypes DEF Stores
<1>3. Drops(d) => lost'.events = lost.events \cup batch[d].events /\ store' = store
  BY DEF Drops, Lose
<1>4. InFlight' \cup batch[d].events = InFlight
  BY <1>1, InFlightMember
<1> QED
  BY <1>1, <1>2, <1>3, <1>4 DEF Recorded

LEMMA LogsEvents ==
  ASSUME TypeOK, RecordingEffect, NEW l \in Lanes, NEW u \in BOOLEAN,
         NEW m \in Models \cup {NoModel}, Logged(ledger, ledger', l, u, m)
  PROVE  LET e == [lane |-> l, seq |-> ledger.seq[l] + 1, ungrounded |-> u, observed |-> m] IN
           /\ ledger'.events = ledger.events \cup {e}
           /\ Recorded' = Recorded \cup {e}
           /\ ledger'.seq[l] = ledger.seq[l] + 1 /\ ledger.seq[l] \in Nat
           /\ \A k \in Lanes : k # l => ledger'.seq[k] = ledger.seq[k]
           /\ UNCHANGED <<batch, store, lost>>
<1> DEFINE e == [lane |-> l, seq |-> ledger.seq[l] + 1, ungrounded |-> u, observed |-> m]
<1>1. ledger'.events = ledger.events \cup {e}
  BY DEF Logged
<1>2. UNCHANGED <<batch, store, lost>>
  BY DEF RecordingEffect
<1>3. InFlight' = InFlight
  BY <1>2, InFlightMember
<1>4. Recorded' = Recorded \cup {e}
  BY <1>1, <1>2, <1>3 DEF Recorded
<1>5. ledger.seq \in [Lanes -> Nat] /\ ledger'.seq = [ledger.seq EXCEPT ![l] = @ + 1]
  BY DEF TypeOK, Ledger, Logged
<1> QED
  BY <1>1, <1>2, <1>4, <1>5

LEMMA RecordedType == TypeOK => Recorded \subseteq Event
BY DEF TypeOK, Recorded, InFlight, Ledger, Batch, Store, Lost

LEMMA StepEvents == TypeOK /\ Pipeline /\ EventsInv /\ [Next]_vars => EventsInv'
<1> SUFFICES ASSUME TypeOK, Pipeline, EventsInv, [Next]_vars
             PROVE  EventsInv'
  OBVIOUS
<1> Recorded \subseteq Event
  BY RecordedType
<1>1. ASSUME NEW l \in Lanes, NEW u \in BOOLEAN, NEW m \in Models \cup {NoModel},
             Logged(ledger, ledger', l, u, m), RecordingEffect
      PROVE  EventsInv'
  <2> DEFINE n == ledger.seq[l] + 1
             e == [lane |-> l, seq |-> n, ungrounded |-> u, observed |-> m]
  <2>1. /\ ledger'.events = ledger.events \cup {e}
        /\ Recorded' = Recorded \cup {e}
        /\ ledger'.seq[l] = n /\ ledger.seq[l] \in Nat
        /\ \A k \in Lanes : k # l => ledger'.seq[k] = ledger.seq[k]
        /\ UNCHANGED <<batch, store, lost>>
    BY <1>1, LogsEvents
  <2>2. \A k \in Lanes : ledger.seq[k] \in Nat
    BY DEF TypeOK, Ledger
  <2>3. e.lane = l /\ e.seq = n
    OBVIOUS
  <2> HIDE DEF e
  <2>4. e \notin Recorded
    BY <2>1, <2>3 DEF EventsInv, DenseSteps, n
  <2>5. DenseSteps'
    <3>1. \A f \in Recorded' : f.seq <= ledger'.seq[f.lane]
      BY <2>1, <2>2, <2>3 DEF EventsInv, DenseSteps, Event
    <3>2. \A k \in Lanes : \A i \in 1..ledger'.seq[k] :
            \E f \in Recorded' : f.lane = k /\ f.seq = i
      <4> SUFFICES ASSUME NEW k \in Lanes, NEW i \in 1..ledger'.seq[k]
                   PROVE  \E f \in Recorded' : f.lane = k /\ f.seq = i
        OBVIOUS
      <4>1. CASE i \in 1..ledger.seq[k]
        BY <2>1, <4>1 DEF EventsInv, DenseSteps
      <4>2. CASE i \notin 1..ledger.seq[k]
        <5>1. k = l /\ i = n
          BY <2>1, <2>2, <4>2
        <5> QED
          BY <2>1, <2>3, <5>1
      <4> QED
        BY <4>1, <4>2
    <3>3. \A f, g \in Recorded' : f.lane = g.lane /\ f.seq = g.seq => f = g
      BY <2>1, <2>2, <2>3 DEF EventsInv, DenseSteps, Event
    <3> QED
      BY <3>1, <3>2, <3>3 DEF DenseSteps
  <2>6. e \notin store.events /\ e \notin lost.events /\ \A d \in Drainers : e \notin batch[d].events
    BY <2>4, InFlightMember DEF Recorded
  <2> QED
    BY <2>1, <2>5, <2>6 DEF EventsInv
<1>2. ASSUME RecordingEffect, ledger'.seq = ledger.seq, ledger'.events = ledger.events
      PROVE  EventsInv'
  <2>1. UNCHANGED <<batch, store, lost>>
    BY <1>2 DEF RecordingEffect
  <2>2. Recorded' = Recorded
    BY <1>2, <2>1, InFlightMember DEF Recorded
  <2> QED
    BY <1>2, <2>1, <2>2 DEF EventsInv, DenseSteps
<1>3. ASSUME NEW d \in Drainers, Swaps(d)
      PROVE  EventsInv'
  BY <1>3, SwapsEvents DEF EventsInv, DenseSteps
<1>4. ASSUME NEW d \in Drainers, Stores(d) \/ Drops(d)
      PROVE  EventsInv'
  <2>1. DenseSteps'
    BY <1>4, SettlesEvents DEF EventsInv, DenseSteps
  <2> QED
    BY <1>4, <2>1, SettlesEvents DEF EventsInv
<1>5. CASE Rests
  <2>1. Recorded' = Recorded
    BY <1>5 DEF Rests, Recorded, InFlight
  <2> QED
    BY <1>5, <2>1 DEF Rests, EventsInv, DenseSteps
<1> QED
  BY <1>1, <1>2, <1>3, <1>4, <1>5, StepKind DEF RecordingEffect

IInv == TypeOK /\ Pipeline /\ EventsInv

LEMMA Invariance == Spec => []IInv
<1>1. Init => IInv
  BY InitTypeOK, InitPipeline, InitEvents DEF IInv
<1>2. IInv /\ [Next]_vars => IInv'
  BY StepTypeOK, StepPipeline, StepEvents DEF IInv
<1> QED
  BY <1>1, <1>2, PTL DEF Spec

\* An event is never duplicated and never vanishes between the buffer, the
\* jobs, the store and the dropped batches.
THEOREM OnePlaceHolds == Spec => []OnePlace
<1>1. IInv => OnePlace
  BY EventsImply DEF IInv
<1> QED
  BY <1>1, Invariance, PTL

\* Step numbers are dense and unique per lane.
THEOREM DenseStepsHold == Spec => []DenseSteps
<1>1. IInv => DenseSteps
  BY EventsImply DEF IInv
<1> QED
  BY <1>1, Invariance, PTL

-----------------------------------------------------------------------------
(* Lanes and queries: nothing recorded is left without its row.            *)

LEMMA InitAttached == Init => NothingUnattached
<1> SUFFICES ASSUME Init
             PROVE  NothingUnattached
  OBVIOUS
<1>1. /\ ledger.events = {} /\ store.events = {} /\ lost.events = {}
      /\ \A d \in Drainers : batch[d].events = {}
      /\ asked = {}
      /\ \A l \in Lanes : ~Known(ledger, l)
  BY EmptyTypes DEF Init, NewLedger
<1>2. Recorded = {}
  BY <1>1, InFlightMember DEF Recorded
<1> QED
  BY <1>1, <1>2 DEF NothingUnattached

\* Rows and queries, taken with a batch, are in it; settled, they are in the
\* store or dropped.
LEMMA StepAttached == TypeOK /\ Pipeline /\ NothingUnattached /\ [Next]_vars => NothingUnattached'
<1> SUFFICES ASSUME TypeOK, Pipeline, NothingUnattached, [Next]_vars
             PROVE  NothingUnattached'
  OBVIOUS
<1> ledger \in Ledger /\ store \in Store /\ lost \in Lost /\ asked \subseteq Queries
    /\ batch \in [Drainers -> Batch]
  BY DEF TypeOK
<1> Recorded \subseteq Event
  BY RecordedType
<1>1. CASE RecordingEffect
  <2>1. UNCHANGED <<batch, store, lost>>
    BY <1>1 DEF RecordingEffect
  <2>2. \A e \in Recorded' : Known(ledger', e.lane)
    <3>1. ASSUME NEW l \in Lanes, NEW u \in BOOLEAN, NEW m \in Models \cup {NoModel},
                 Logged(ledger, ledger', l, u, m)
          PROVE  \A e \in Recorded' : Known(ledger', e.lane)
      <4>1. Recorded' = Recorded \cup {[lane |-> l, seq |-> ledger.seq[l] + 1, ungrounded |-> u, observed |-> m]}
        BY <1>1, <3>1, LogsEvents
      <4>2. Known(ledger', l)
        BY <3>1 DEF Logged
      <4> QED
        BY <1>1, <4>1, <4>2 DEF RecordingEffect, NothingUnattached, Event
    <3>2. ASSUME ledger'.events = ledger.events
          PROVE  \A e \in Recorded' : Known(ledger', e.lane)
      <4>1. Recorded' = Recorded
        BY <2>1, <3>2, InFlightMember DEF Recorded
      <4> QED
        BY <1>1, <4>1 DEF RecordingEffect, NothingUnattached, Event
    <3> QED
      BY <1>1, <3>1, <3>2 DEF RecordingEffect
  <2>3. ASSUME NEW l \in Lanes, Known(ledger', l)
        PROVE  OnTheWay(l)' \/ store'.rows[l] # NoRow \/ l \in lost'.lanes
    <3>1. CASE l \in ledger'.dirty
      BY <3>1 DEF OnTheWay
    <3>2. CASE l \notin ledger'.dirty
      <4>1. Known(ledger, l) /\ l \notin ledger.dirty
        BY <1>1, <2>3, <3>2 DEF RecordingEffect, Known
      <4> QED
        BY <2>1, <4>1 DEF NothingUnattached, OnTheWay
    <3> QED
      BY <3>1, <3>2
  <2>4. ASSUME NEW q \in asked'
        PROVE  \/ q \in ledger'.queries \cup store'.queries \cup lost'.queries
               \/ \E d \in Drainers : q \in batch'[d].queries
    BY <1>1, <2>1 DEF RecordingEffect, NothingUnattached
  <2> QED
    BY <2>2, <2>3, <2>4 DEF NothingUnattached
<1>2. ASSUME NEW d \in Drainers, Swaps(d)
      PROVE  NothingUnattached'
  <2>1. /\ ledger'.rows = ledger.rows
        /\ batch[d] = EmptyBatch
        /\ batch'[d].queries = ledger.queries
        /\ \A l \in Lanes : batch'[d].rows[l] = IF l \in ledger.dirty THEN ledger.rows[l] ELSE NoRow
        /\ \A c \in Drainers : c # d => batch'[c] = batch[c]
        /\ UNCHANGED <<asked, store, lost>>
    BY <1>2, SwapLemma DEF Swaps
  <2>2. Recorded' = Recorded
    BY <1>2, SwapsEvents
  <2>3. ASSUME NEW l \in Lanes, Known(ledger, l), OnTheWay(l)
        PROVE  \E c \in Drainers : batch'[c].rows[l] # NoRow
    BY <2>1, <2>3, EmptyTypes DEF OnTheWay, Known
  <2>4. \A l \in Lanes : Known(ledger', l) =>
          OnTheWay(l)' \/ store'.rows[l] # NoRow \/ l \in lost'.lanes
    BY <2>1, <2>3 DEF NothingUnattached, OnTheWay, Known
  <2>5. ASSUME NEW q \in asked'
        PROVE  \/ q \in ledger'.queries \cup store'.queries \cup lost'.queries
               \/ \E c \in Drainers : q \in batch'[c].queries
    BY <2>1, EmptyTypes DEF NothingUnattached
  <2> QED
    BY <2>1, <2>2, <2>4, <2>5 DEF NothingUnattached, Known
<1>3. ASSUME NEW d \in Drainers, Stores(d) \/ Drops(d)
      PROVE  NothingUnattached'
  <2>1. /\ UNCHANGED <<asked, ledger>>
        /\ batch'[d] = EmptyBatch
        /\ \A c \in Drainers : c # d => batch'[c] = batch[c]
    BY <1>3 DEF Stores, Drops
  <2>2. Recorded' = Recorded
    BY <1>3, SettlesEvents
  <2>3. /\ store.queries \cup lost.queries \cup batch[d].queries \subseteq store'.queries \cup lost'.queries
        /\ \A l \in Lanes : batch[d].rows[l] # NoRow \/ store.rows[l] # NoRow \/ l \in lost.lanes
             => store'.rows[l] # NoRow \/ l \in lost'.lanes
    <3>1. CASE Stores(d)
      BY <3>1, ApplyTypes DEF Stores
    <3>2. CASE Drops(d)
      BY <3>2 DEF Drops, Lose
    <3> QED
      BY <1>3, <3>1, <3>2
  <2>4. \A l \in Lanes : Known(ledger', l) =>
          OnTheWay(l)' \/ store'.rows[l] # NoRow \/ l \in lost'.lanes
    BY <2>1, <2>3 DEF NothingUnattached, OnTheWay
  <2>5. ASSUME NEW q \in asked'
        PROVE  \/ q \in ledger'.queries \cup store'.queries \cup lost'.queries
               \/ \E c \in Drainers : q \in batch'[c].queries
    BY <2>1, <2>3 DEF NothingUnattached
  <2> QED
    BY <2>1, <2>2, <2>4, <2>5 DEF NothingUnattached
<1>4. CASE Rests
  <2>1. Recorded' = Recorded
    BY <1>4 DEF Rests, Recorded, InFlight
  <2> QED
    BY <1>4, <2>1 DEF Rests, NothingUnattached, OnTheWay
<1> QED
  BY <1>1, <1>2, <1>3, <1>4, StepKind

\* Whatever drains, fails or is cancelled, an event's lane and a lane's query
\* are stored, on the way to the store, or in a batch that was dropped.
THEOREM NothingUnattachedHolds == Spec => []NothingUnattached
<1>1. Init => NothingUnattached
  BY InitAttached
<1>2. IInv /\ NothingUnattached /\ [Next]_vars => NothingUnattached'
  BY StepAttached DEF IInv
<1> QED
  BY <1>1, <1>2, Invariance, PTL DEF Spec

-----------------------------------------------------------------------------
(* The recorder implements Journal.                                        *)

LEMMA InitJournal == Init => J!Init
BY EmptyTypes, InFlightMember DEF Init, J!Init, NewLedger

LEMMA StepJournal == IInv /\ [Next]_vars => [J!Next]_(J!vars)
<1> SUFFICES ASSUME IInv, [Next]_vars
             PROVE  [J!Next]_(J!vars)
  OBVIOUS
<1> TypeOK /\ Pipeline /\ EventsInv
  BY DEF IInv
<1> DEFINE pending == ledger.events \cup InFlight
<1>1. ASSUME NEW l \in Lanes, NEW u \in BOOLEAN, NEW m \in Models \cup {NoModel},
             Logged(ledger, ledger', l, u, m), RecordingEffect
      PROVE  J!Record(l)
  <2>1. /\ ledger'.events = ledger.events \cup {[lane |-> l, seq |-> ledger.seq[l] + 1, ungrounded |-> u, observed |-> m]}
        /\ UNCHANGED <<batch, store, lost>>
    BY <1>1, LogsEvents
  <2>2. InFlight' = InFlight
    BY <2>1, InFlightMember
  <2>3. ledger'.seq = [ledger.seq EXCEPT ![l] = @ + 1]
    BY <1>1 DEF Logged
  <2>4. pending' = pending \cup {[lane |-> l, seq |-> ledger.seq[l] + 1, ungrounded |-> u, observed |-> m]}
    BY <2>1, <2>2
  <2> QED
    BY <2>1, <2>3, <2>4 DEF J!Record
<1>2. ASSUME RecordingEffect, ledger'.seq = ledger.seq, ledger'.events = ledger.events
      PROVE  UNCHANGED J!vars
  <2>1. UNCHANGED <<batch, store, lost>>
    BY <1>2 DEF RecordingEffect
  <2> QED
    BY <1>2, <2>1, InFlightMember DEF J!vars
<1>3. ASSUME NEW d \in Drainers, Swaps(d)
      PROVE  UNCHANGED J!vars
  <2>1. pending' = pending
    BY <1>3, SwapsEvents, InFlightMember
  <2> QED
    BY <1>3, <2>1, SwapsEvents DEF J!vars
<1>4. ASSUME NEW d \in Drainers, Stores(d) \/ Drops(d)
      PROVE  J!Persist(batch[d].events) \/ J!Drop(batch[d].events)
  <2>1. pending' = pending \ batch[d].events
    BY <1>4, SettlesEvents, InFlightMember DEF EventsInv
  <2>2. CASE Stores(d)
    BY <2>1, <2>2, SettlesEvents DEF J!Persist
  <2>3. CASE Drops(d)
    BY <2>1, <2>3, SettlesEvents DEF J!Drop
  <2> QED
    BY <1>4, <2>2, <2>3
<1>5. \A d \in Drainers : batch[d].events \in SUBSET pending
  BY InFlightMember
<1>6. ASSUME NEW d \in Drainers, Stores(d) \/ Drops(d)
      PROVE  J!Next
  BY <1>4, <1>5, <1>6 DEF J!Next
<1>7. CASE Rests
  BY <1>7 DEF Rests, J!vars, InFlight
<1> QED
  BY <1>1, <1>2, <1>3, <1>6, <1>7, StepKind DEF J!Next, RecordingEffect

\* Recording is atomic, batches settle as a whole, and an event settles once:
\* the recorder and its store are a journal of events.
THEOREM RecorderIsAJournal == Spec => KeepsAJournal
<1>1. Init => J!Init
  BY InitJournal
<1>2. IInv /\ [Next]_vars => [J!Next]_(J!vars)
  BY StepJournal
<1> QED
  BY <1>1, <1>2, Invariance, PTL DEF Spec, KeepsAJournal, J!Spec

-----------------------------------------------------------------------------
(* What the recorded rows say: the step at which a lane was contaminated,  *)
(* and what the store holds while the flush loop is the only drainer.      *)

(* What the recorder's methods do to queries, divergences and marks.       *)

\* From g to h no lane loses its row, its query or its mark; a new row is
\* filed under q and unmarked.
KeepsRows(g, h, q) ==
  /\ \A k \in Lanes : Known(g, k) => Known(h, k)
  /\ \A k \in Lanes : Known(h, k) =>
       /\ h.rows[k].query = IF Known(g, k) THEN g.rows[k].query ELSE q
       /\ h.rows[k].contaminated = IF Known(g, k) THEN g.rows[k].contaminated ELSE 0

\* ... and no divergence is counted.
Keeps(g, h, q) == KeepsRows(g, h, q) /\ h.divergence = g.divergence

LEMMA KeepsCompose ==
  ASSUME NEW g, NEW h, NEW f, NEW q
  PROVE  /\ Keeps(g, g, q)
         /\ Keeps(g, h, q) /\ Keeps(h, f, q) => Keeps(g, f, q)
BY DEF Keeps, KeepsRows

LEMMA PutRowKeeps ==
  ASSUME NEW g \in Ledger, NEW l \in Lanes, NEW q, NEW row \in Row,
         row.query = IF Known(g, l) THEN g.rows[l].query ELSE q,
         row.contaminated = IF Known(g, l) THEN g.rows[l].contaminated ELSE 0
  PROVE  Keeps(g, PutRow(g, l, row), q)
<1> DEFINE h == PutRow(g, l, row)
<1>1. h = [g EXCEPT !.rows = [g.rows EXCEPT ![l] = row], !.dirty = g.dirty \cup {l}]
  BY DEF PutRow, Ledger
<1>2. h.rows = [g.rows EXCEPT ![l] = row] /\ h.divergence = g.divergence
  BY <1>1 DEF Ledger
<1>3. g.rows \in [Lanes -> Row \cup {NoRow}] /\ row # NoRow
  BY NoRowAssumption DEF Ledger
<1> HIDE DEF h
<1>4. h.rows[l] = row /\ \A k \in Lanes : k # l => h.rows[k] = g.rows[k]
  BY <1>2, <1>3
<1>5. Keeps(g, h, q)
  BY <1>2, <1>3, <1>4 DEF Keeps, KeepsRows, Known
<1> QED
  BY <1>5 DEF h

LEMMA FreshRowLemma ==
  ASSUME NEW q \in Queries \cup {NoQuery}
  PROVE  FreshRow(q) \in Row /\ FreshRow(q).query = q /\ FreshRow(q).contaminated = 0
BY DEF FreshRow, Row, Status

\* Every method but one counts no divergence.
LEMMA MethodsKeep ==
  ASSUME NEW g \in Ledger, NEW l \in Lanes
  PROVE  /\ \A q \in Queries \cup {NoQuery} : Keeps(g, StartLane(g, l, q), q)
         /\ Keeps(g, OrphanLane(g, l), g.latest)
         /\ \A st \in {"ok", "error"} : Keeps(g, FinishLane(g, l, st), g.latest)
         /\ Keeps(g, MarkCollision(g, l), g.latest)
         /\ \A u \in BOOLEAN, m \in Models \cup {NoModel} : Keeps(g, AppendEvent(g, l, u, m), g.latest)
         /\ \A m \in Models \cup {NoModel} : Keeps(g, RecordModelCall(g, l, m), g.latest)
<1>0. g.latest \in Queries \cup {NoQuery}
  BY DEF Ledger
<1>1. ASSUME NEW q \in Queries \cup {NoQuery}
      PROVE  Keeps(g, StartLane(g, l, q), q)
  BY <1>1, FreshRowLemma, PutRowKeeps, KeepsCompose DEF StartLane
<1>2. Keeps(g, OrphanLane(g, l), g.latest)
  BY <1>0, <1>1 DEF OrphanLane, StartLane
<1>3. ASSUME NEW f \in Ledger, Known(f, l), NEW st \in Status, NEW q
      PROVE  Keeps(f, PutRow(f, l, [f.rows[l] EXCEPT !.status = st]), q)
  <2> DEFINE r == [f.rows[l] EXCEPT !.status = st]
  <2>1. f.rows[l] \in Row
    BY <1>3, KnownRowLemma
  <2>2. r \in Row /\ r.query = f.rows[l].query /\ r.contaminated = f.rows[l].contaminated
    BY <2>1 DEF Row
  <2> HIDE DEF r
  <2>3. Keeps(f, PutRow(f, l, r), q)
    BY <1>3, <2>2, PutRowKeeps
  <2> QED
    BY <2>3 DEF r
<1>4. ASSUME NEW st \in {"ok", "error"}
      PROVE  Keeps(g, FinishLane(g, l, st), g.latest)
  <2> DEFINE o == OrphanLane(g, l)
  <2>1. o \in Ledger /\ Known(o, l)
    BY OpenLaneLemma, NoQuery \in Queries \cup {NoQuery} DEF RowsOnly
  <2>2. Keeps(o, PutRow(o, l, [o.rows[l] EXCEPT !.status = st]), g.latest)
    BY <1>3, <2>1 DEF Status
  <2>3. FinishLane(g, l, st) = PutRow(o, l, [o.rows[l] EXCEPT !.status = st])
    BY DEF FinishLane
  <2> QED
    BY <1>2, <2>2, <2>3, KeepsCompose
<1>5. Keeps(g, MarkCollision(g, l), g.latest)
  BY <1>3, KeepsCompose DEF MarkCollision, Status
<1>6. ASSUME NEW f \in Ledger, NEW u, NEW m, NEW q
      PROVE  Keeps(f, AppendEvent(f, l, u, m), q)
  <2>1. /\ AppendEvent(f, l, u, m).rows = f.rows
        /\ AppendEvent(f, l, u, m).divergence = f.divergence
    BY DEF AppendEvent, Ledger
  <2> QED
    BY <2>1 DEF Keeps, KeepsRows, Known
<1>7. ASSUME NEW m \in Models \cup {NoModel}
      PROVE  Keeps(g, RecordModelCall(g, l, m), g.latest)
  <2> DEFINE s == StartLane(g, l, g.latest)
             o == Observe(s, l, m)
  <2>1. Keeps(g, s, g.latest)
    BY <1>0, <1>1
  <2>2. s \in Ledger /\ Known(s, l)
    BY <1>0, OpenLaneLemma DEF RowsOnly
  <2> HIDE DEF s
  <2>3. Keeps(s, o, g.latest) /\ o \in Ledger
    <3> DEFINE r == [s.rows[l] EXCEPT !.observed = m]
    <3>1. s.rows[l] \in Row
      BY <2>2, KnownRowLemma
    <3>2. r \in Row /\ r.query = s.rows[l].query /\ r.contaminated = s.rows[l].contaminated
      BY <3>1 DEF Row
    <3>3. o = s \/ o = PutRow(s, l, r)
      BY DEF Observe
    <3> HIDE DEF r, o
    <3>4. Keeps(s, PutRow(s, l, r), g.latest) /\ PutRow(s, l, r) \in Ledger
      BY <2>2, <3>2, PutRowKeeps, PutRowLemma DEF RowsOnly
    <3> QED
      BY <2>2, <3>3, <3>4, KeepsCompose
  <2> HIDE DEF o
  <2>4. Keeps(o, AppendEvent(o, l, FALSE, m), g.latest)
    BY <1>6, <2>3
  <2>5. RecordModelCall(g, l, m) = AppendEvent(o, l, FALSE, m)
    BY DEF RecordModelCall, s, o
  <2>6. Keeps(g, o, g.latest)
    BY <2>1, <2>3, KeepsCompose
  <2>7. Keeps(g, AppendEvent(o, l, FALSE, m), g.latest)
    BY <2>4, <2>6, KeepsCompose
  <2> QED
    BY <2>5, <2>7
<1> QED
  BY <1>1, <1>2, <1>4, <1>5, <1>6, <1>7

\* What a lane's mark becomes when g counts a divergence of l.
MarkAfter(g, l) ==
  LET old == IF Known(g, l) THEN g.rows[l].contaminated ELSE 0
  IN  IF g.divergence[l] + 1 < Threshold \/ old # 0 THEN old ELSE g.seq[l] + 1

\* From g to h a divergence of l is counted, and nothing else of a row moves.
Counts(g, h, l, q) ==
  /\ h.divergence = [g.divergence EXCEPT ![l] = @ + 1]
  /\ \A k \in Lanes : Known(g, k) => Known(h, k)
  /\ Known(h, l)
  /\ \A k \in Lanes : Known(h, k) =>
       /\ h.rows[k].query = IF Known(g, k) THEN g.rows[k].query ELSE q
       /\ k # l => h.rows[k].contaminated = IF Known(g, k) THEN g.rows[k].contaminated ELSE 0
  /\ h.rows[l].contaminated = MarkAfter(g, l)

LEMMA CountsLemma ==
  ASSUME NEW g \in Ledger, NEW l \in Lanes
  PROVE  /\ Keeps(g, RecordToolEvent(g, l, FALSE), g.latest)
         /\ Counts(g, RecordToolEvent(g, l, TRUE), l, g.latest)
<1> DEFINE o == OrphanLane(g, l)
<1>1. o \in Ledger /\ Known(o, l) /\ o.seq = g.seq
  BY OpenLaneLemma, NoQuery \in Queries \cup {NoQuery} DEF RowsOnly
<1>2. Keeps(g, o, g.latest)
  BY MethodsKeep
<1> HIDE DEF o
<1>3. ASSUME NEW u \in BOOLEAN
      PROVE  /\ AppendEvent(o, l, u, NoModel) \in Ledger
             /\ AppendEvent(o, l, u, NoModel).rows = o.rows
             /\ AppendEvent(o, l, u, NoModel).divergence = o.divergence
             /\ AppendEvent(o, l, u, NoModel).seq[l] = g.seq[l] + 1
  <2>1. AppendEvent(o, l, u, NoModel) \in Ledger
    BY <1>1, AppendEventLemma DEF Logged
  <2>2. /\ AppendEvent(o, l, u, NoModel).rows = o.rows
        /\ AppendEvent(o, l, u, NoModel).divergence = o.divergence
        /\ AppendEvent(o, l, u, NoModel).seq = [o.seq EXCEPT ![l] = o.seq[l] + 1]
    BY <1>1 DEF AppendEvent, Ledger
  <2>3. o.seq \in [Lanes -> Nat]
    BY <1>1 DEF Ledger
  <2> QED
    BY <1>1, <2>1, <2>2, <2>3
<1>4. Keeps(g, RecordToolEvent(g, l, FALSE), g.latest)
  BY <1>2, <1>3 DEF RecordToolEvent, Keeps, KeepsRows, Known, o
<1>5. Counts(g, RecordToolEvent(g, l, TRUE), l, g.latest)
  <2> DEFINE a == AppendEvent(o, l, TRUE, NoModel)
             d == [a EXCEPT !.divergence[l] = a.divergence[l] + 1]
  <2>1. RecordToolEvent(g, l, TRUE) = CountDivergence(a, l)
    BY DEF RecordToolEvent, o
  <2>2. CountDivergence(a, l) =
          IF a.divergence[l] + 1 < Threshold \/ ~Known(a, l) \/ a.rows[l].contaminated # 0
          THEN d
          ELSE PutRow(d, l, [d.rows[l] EXCEPT !.contaminated = d.seq[l]])
    BY DEF CountDivergence
  <2>3. a \in Ledger /\ a.rows = o.rows /\ a.divergence = o.divergence /\ a.seq[l] = g.seq[l] + 1
    BY <1>3
  <2> HIDE DEF a
  <2>4. /\ d \in Ledger /\ d.rows = o.rows /\ d.seq = a.seq
        /\ d.divergence = [g.divergence EXCEPT ![l] = @ + 1]
    <3>1. d = [a EXCEPT !.divergence = [a.divergence EXCEPT ![l] = a.divergence[l] + 1]]
      BY <2>3 DEF Ledger
    <3>2. [a.divergence EXCEPT ![l] = a.divergence[l] + 1] \in [Lanes -> Nat]
      BY <2>3 DEF Ledger
    <3>3. a.divergence = g.divergence
      BY <1>2, <2>3 DEF Keeps
    <3> QED
      BY <2>3, <3>1, <3>2, <3>3 DEF Ledger
  <2> HIDE DEF d
  <2>5. /\ a.divergence[l] = g.divergence[l]
        /\ Known(a, l)
        /\ a.rows[l].contaminated = IF Known(g, l) THEN g.rows[l].contaminated ELSE 0
    BY <1>1, <1>2, <2>3 DEF Keeps, KeepsRows, Known
  <2>6. CASE a.divergence[l] + 1 < Threshold \/ a.rows[l].contaminated # 0
    <3>1. RecordToolEvent(g, l, TRUE) = d
      BY <2>1, <2>2, <2>6
    <3>2. d.rows[l].contaminated = MarkAfter(g, l)
      BY <2>3, <2>4, <2>5, <2>6 DEF MarkAfter
    <3>3. Counts(g, d, l, g.latest)
      BY <1>1, <1>2, <2>4, <3>2 DEF Counts, Keeps, KeepsRows, Known
    <3> QED
      BY <3>1, <3>3
  <2>7. CASE ~(a.divergence[l] + 1 < Threshold \/ a.rows[l].contaminated # 0)
    <3> DEFINE r == [d.rows[l] EXCEPT !.contaminated = d.seq[l]]
               h == PutRow(d, l, r)
    <3>1. RecordToolEvent(g, l, TRUE) = h
      BY <2>1, <2>2, <2>5, <2>7
    <3>2. d.rows[l] \in Row /\ d.seq[l] \in Nat
      BY <1>1, <2>4, KnownRowLemma DEF Known, Ledger
    <3>3. r \in Row /\ r.query = d.rows[l].query /\ r.contaminated = g.seq[l] + 1
      BY <2>3, <2>4, <3>2 DEF Row
    <3>4. MarkAfter(g, l) = g.seq[l] + 1
      BY <2>5, <2>7 DEF MarkAfter
    <3> HIDE DEF r
    <3>5. /\ h.rows = [d.rows EXCEPT ![l] = r] /\ h.divergence = d.divergence
      <4>1. h = [d EXCEPT !.rows = [d.rows EXCEPT ![l] = r], !.dirty = d.dirty \cup {l}]
        BY <2>4 DEF PutRow, Ledger
      <4> QED
        BY <2>4, <4>1 DEF Ledger
    <3>6. d.rows \in [Lanes -> Row \cup {NoRow}] /\ r # NoRow
      BY <2>4, <3>3, NoRowAssumption DEF Ledger
    <3> HIDE DEF h
    <3>7. h.rows[l] = r /\ \A k \in Lanes : k # l => h.rows[k] = o.rows[k]
      BY <2>4, <3>5, <3>6
    <3>8. Known(h, l) /\ \A k \in Lanes : Known(h, k) <=> Known(o, k)
      BY <1>1, <3>6, <3>7 DEF Known
    <3>9. \A k \in Lanes : Known(h, k) =>
            /\ h.rows[k].query = IF Known(g, k) THEN g.rows[k].query ELSE g.latest
            /\ k # l => h.rows[k].contaminated = IF Known(g, k) THEN g.rows[k].contaminated ELSE 0
      BY <1>1, <1>2, <2>4, <3>3, <3>7, <3>8 DEF Keeps, KeepsRows
    <3>10. Counts(g, h, l, g.latest)
      BY <1>2, <2>4, <3>3, <3>4, <3>5, <3>7, <3>8, <3>9 DEF Counts, Keeps, KeepsRows
    <3> QED
      BY <3>1, <3>10
  <2> QED
    BY <2>6, <2>7
<1> QED
  BY <1>4, <1>5

\* A recording step counts a divergence or keeps what the rows say, and files new
\* rows under a query that was announced.
RecordsRows ==
  /\ ledger'.latest \in asked' \cup {ledger.latest}
  /\ \E q \in asked \cup {ledger.latest} :
       \/ /\ Keeps(ledger, ledger', q)
          /\ \/ ledger'.seq = ledger.seq /\ ledger'.events = ledger.events
             \/ \E l \in Lanes, m \in Models \cup {NoModel} : Logged(ledger, ledger', l, FALSE, m)
       \/ \E l \in Lanes : /\ Counts(ledger, ledger', l, q)
                           /\ Logged(ledger, ledger', l, TRUE, NoModel)

LEMMA RecordingRows ==
  ASSUME TypeOK, Recording
  PROVE  RecordsRows
<1> ledger \in Ledger /\ asked \subseteq Queries
  BY DEF TypeOK
<1>1. CASE Start
  <2>1. ledger' = ledger
    BY <1>1 DEF Start
  <2> QED
    BY <2>1, KeepsCompose DEF RecordsRows
<1>2. ASSUME NEW q \in Queries, DoStartQuery(q)
      PROVE  RecordsRows
  <2>1. ledger' = StartQuery(ledger, q) /\ asked' = asked \cup {q}
    BY <1>2 DEF DoStartQuery, Record
  <2>2. /\ ledger'.rows = ledger.rows /\ ledger'.seq = ledger.seq /\ ledger'.events = ledger.events
    BY <2>1, StartQueryLemma
  <2>3. ledger'.latest = q /\ ledger'.divergence = ledger.divergence
    BY <2>1 DEF StartQuery, Ledger
  <2> QED
    BY <2>1, <2>2, <2>3 DEF RecordsRows, Keeps, KeepsRows, Known
<1>3. ASSUME NEW l \in Lanes, NEW q \in Queries, DoStartLane(l, q)
      PROVE  RecordsRows
  <2>1. ledger' = StartLane(ledger, l, q) /\ asked' = asked /\ q \in asked
    BY <1>3 DEF DoStartLane, Record
  <2>2. Keeps(ledger, ledger', q) /\ RowsOnly(ledger, ledger')
    BY <2>1, MethodsKeep, OpenLaneLemma
  <2> QED
    BY <2>1, <2>2 DEF RecordsRows, RowsOnly
<1>4. ASSUME NEW l \in Lanes,
             (\E s \in {"ok", "error"} : DoFinishLane(l, s)) \/ DoMarkCollision(l)
      PROVE  RecordsRows
  <2>1. Keeps(ledger, ledger', ledger.latest) /\ RowsOnly(ledger, ledger')
    BY <1>4, MethodsKeep, StatusLemma DEF DoFinishLane, DoMarkCollision, Record
  <2> QED
    BY <2>1 DEF RecordsRows, RowsOnly
<1>5. ASSUME NEW l \in Lanes, NEW u \in BOOLEAN, DoRecordToolEvent(l, u)
      PROVE  RecordsRows
  <2>1. ledger' = RecordToolEvent(ledger, l, u) /\ Logged(ledger, ledger', l, u, NoModel)
    BY <1>5, RecordLemma DEF DoRecordToolEvent, Record
  <2>2. u => Counts(ledger, ledger', l, ledger.latest)
    BY <2>1, CountsLemma
  <2>3. ~u => Keeps(ledger, ledger', ledger.latest)
    BY <2>1, CountsLemma
  <2>4. u = TRUE \/ u = FALSE
    OBVIOUS
  <2> QED
    BY <2>1, <2>2, <2>3, <2>4 DEF RecordsRows, Logged
<1>6. ASSUME NEW l \in Lanes, NEW m \in Models \cup {NoModel}, DoRecordModelCall(l, m)
      PROVE  RecordsRows
  <2>1. ledger' = RecordModelCall(ledger, l, m)
    BY <1>6 DEF DoRecordModelCall, Record
  <2>2. Keeps(ledger, ledger', ledger.latest) /\ Logged(ledger, ledger', l, FALSE, m)
    BY <2>1, MethodsKeep, RecordLemma
  <2> QED
    BY <2>2 DEF RecordsRows, Logged
<1> QED
  BY <1>1, <1>2, <1>3, <1>4, <1>5, <1>6 DEF Recording

-----------------------------------------------------------------------------
(* The step at which a lane was contaminated.                              *)

Ungrounded(R, l, n) == {e \in R : e.lane = l /\ e.ungrounded /\ e.seq <= n}

\* The divergence counter is the number of ungrounded events, and the mark is
\* what ContaminatedFromThreshold says.
MarksInv ==
  /\ IsFiniteSet(Recorded)
  /\ \A l \in Lanes : ledger.divergence[l] = Cardinality(Ungrounded(Recorded, l, ledger.seq[l]))
  /\ \A l \in Lanes : Known(ledger, l) =>
       LET step == ledger.rows[l].contaminated IN
       /\ step = 0 => ledger.divergence[l] = 0 \/ ledger.divergence[l] < Threshold
       /\ step # 0 => /\ [lane |-> l, seq |-> step, ungrounded |-> TRUE, observed |-> NoModel] \in Recorded
                      /\ Cardinality(Ungrounded(Recorded, l, step)) >= Threshold
                      /\ \/ Cardinality(Ungrounded(Recorded, l, step - 1)) = 0
                         \/ Cardinality(Ungrounded(Recorded, l, step - 1)) < Threshold

LEMMA MarksImply == MarksInv => ContaminatedFromThreshold
<1> SUFFICES ASSUME MarksInv, NEW l \in Lanes, Known(ledger, l), ledger.rows[l].contaminated # 0
             PROVE  \E e \in Recorded : e.lane = l /\ e.seq = ledger.rows[l].contaminated /\ e.ungrounded
  BY DEF MarksInv, ContaminatedFromThreshold, UngroundedUpTo, Ungrounded
<1> DEFINE e == [lane |-> l, seq |-> ledger.rows[l].contaminated, ungrounded |-> TRUE,
                 observed |-> NoModel]
<1>1. e \in Recorded
  BY DEF MarksInv
<1>2. e.lane = l /\ e.seq = ledger.rows[l].contaminated /\ e.ungrounded
  OBVIOUS
<1> QED
  BY <1>1, <1>2

LEMMA InitMarks == Init => MarksInv
<1> SUFFICES ASSUME Init
             PROVE  MarksInv
  OBVIOUS
<1>1. /\ ledger.events = {} /\ store.events = {} /\ lost.events = {}
      /\ \A d \in Drainers : batch[d].events = {}
      /\ \A l \in Lanes : ~Known(ledger, l) /\ ledger.divergence[l] = 0
  BY EmptyTypes DEF Init, NewLedger
<1>2. Recorded = {}
  BY <1>1, InFlightMember DEF Recorded
<1>3. \A l, n : Ungrounded(Recorded, l, n) = {}
  BY <1>2 DEF Ungrounded
<1> QED
  BY <1>1, <1>2, <1>3, FS_EmptySet DEF MarksInv

\* Nothing was counted for a lane without a row.
LEMMA QuietLane ==
  ASSUME NothingUnattached, MarksInv, NEW l \in Lanes, ~Known(ledger, l)
  PROVE  ledger.divergence[l] = 0
<1>1. Ungrounded(Recorded, l, ledger.seq[l]) = {}
  BY DEF NothingUnattached, Ungrounded
<1> QED
  BY <1>1, FS_EmptySet DEF MarksInv

LEMMA UngroundedCount ==
  ASSUME MarksInv, NEW l, NEW n
  PROVE  IsFiniteSet(Ungrounded(Recorded, l, n)) /\ Cardinality(Ungrounded(Recorded, l, n)) \in Nat
<1>1. IsFiniteSet(Recorded) /\ Ungrounded(Recorded, l, n) \in SUBSET Recorded
  BY DEF MarksInv, Ungrounded
<1>2. IsFiniteSet(Ungrounded(Recorded, l, n))
  BY <1>1, FS_Subset
<1> QED
  BY <1>2, FS_CardinalityType

\* A step that records nothing ungrounded leaves every count as it was.
LEMMA MarksKept ==
  ASSUME TypeOK, DenseSteps, NothingUnattached, MarksInv, NEW q, Keeps(ledger, ledger', q),
         \/ Recorded' = Recorded /\ ledger'.seq = ledger.seq
         \/ \E l \in Lanes, n \in Nat, m \in Models \cup {NoModel} :
              /\ Recorded' = Recorded \cup {[lane |-> l, seq |-> n, ungrounded |-> FALSE, observed |-> m]}
              /\ \A k \in Lanes : ledger'.seq[k] >= ledger.seq[k] /\ ledger'.seq[k] \in Nat
  PROVE  MarksInv'
<1> Recorded \subseteq Event
  BY RecordedType
<1> \A k \in Lanes : ledger.seq[k] \in Nat
  BY DEF TypeOK, Ledger
<1>1. IsFiniteSet(Recorded')
  <2>1. \A x : IsFiniteSet(Recorded \cup {x})
    BY FS_AddElement DEF MarksInv
  <2> QED
    BY <2>1 DEF MarksInv
<1>2. \A l \in Lanes : \A n : Ungrounded(Recorded', l, n) = Ungrounded(Recorded, l, n)
  BY DEF Ungrounded
<1>4. \A l \in Lanes : Ungrounded(Recorded, l, ledger'.seq[l]) = Ungrounded(Recorded, l, ledger.seq[l])
  <2> SUFFICES ASSUME NEW l \in Lanes, NEW e \in Recorded, e.lane = l
               PROVE  e.seq <= ledger'.seq[l] <=> e.seq <= ledger.seq[l]
    BY DEF Ungrounded
  <2>1. e.seq <= ledger.seq[l] /\ e.seq \in Nat
    BY DEF DenseSteps, Event
  <2> QED
    BY <2>1
<1>5. \A l \in Lanes : ledger'.divergence[l] = Cardinality(Ungrounded(Recorded, l, ledger.seq[l]))
  BY DEF Keeps, MarksInv
<1>6. \A l \in Lanes : Known(ledger', l) =>
        LET step == ledger'.rows[l].contaminated IN
        /\ step = 0 => ledger'.divergence[l] = 0 \/ ledger'.divergence[l] < Threshold
        /\ step # 0 => /\ [lane |-> l, seq |-> step, ungrounded |-> TRUE, observed |-> NoModel] \in Recorded'
                       /\ Cardinality(Ungrounded(Recorded, l, step)) >= Threshold
                       /\ \/ Cardinality(Ungrounded(Recorded, l, step - 1)) = 0
                          \/ Cardinality(Ungrounded(Recorded, l, step - 1)) < Threshold
  <2> SUFFICES ASSUME NEW l \in Lanes, Known(ledger', l)
               PROVE  LET step == ledger'.rows[l].contaminated IN
                      /\ step = 0 => ledger'.divergence[l] = 0 \/ ledger'.divergence[l] < Threshold
                      /\ step # 0 => /\ [lane |-> l, seq |-> step, ungrounded |-> TRUE, observed |-> NoModel] \in Recorded'
                                     /\ Cardinality(Ungrounded(Recorded, l, step)) >= Threshold
                                     /\ \/ Cardinality(Ungrounded(Recorded, l, step - 1)) = 0
                                        \/ Cardinality(Ungrounded(Recorded, l, step - 1)) < Threshold
    OBVIOUS
  <2>1. ledger'.divergence[l] = ledger.divergence[l]
    BY DEF Keeps
  <2>2. CASE Known(ledger, l)
    <3>1. ledger'.rows[l].contaminated = ledger.rows[l].contaminated
      BY <2>2 DEF Keeps, KeepsRows
    <3> QED
      BY <2>1, <2>2, <3>1 DEF MarksInv
  <2>3. CASE ~Known(ledger, l)
    <3>1. ledger'.rows[l].contaminated = 0 /\ ledger.divergence[l] = 0
      BY <2>3, QuietLane DEF Keeps, KeepsRows
    <3> QED
      BY <2>1, <3>1
  <2> QED
    BY <2>2, <2>3
<1> QED
  BY <1>1, <1>2, <1>4, <1>5, <1>6 DEF MarksInv

\* An ungrounded event adds one to its lane's count, and sets its mark when the
\* count has reached the threshold.
LEMMA MarksCounted ==
  ASSUME TypeOK, DenseSteps, NothingUnattached, MarksInv,
         NEW l \in Lanes, NEW q, Counts(ledger, ledger', l, q),
         Recorded' = Recorded \cup {[lane |-> l, seq |-> ledger.seq[l] + 1, ungrounded |-> TRUE, observed |-> NoModel]},
         ledger'.seq[l] = ledger.seq[l] + 1,
         \A k \in Lanes : k # l => ledger'.seq[k] = ledger.seq[k]
  PROVE  MarksInv'
<1> DEFINE n == ledger.seq[l]
           e == [lane |-> l, seq |-> n + 1, ungrounded |-> TRUE, observed |-> NoModel]
<1>1. n \in Nat /\ ledger.divergence \in [Lanes -> Nat] /\ Recorded \subseteq Event
  BY RecordedType DEF TypeOK, Ledger
<1>2. e.lane = l /\ e.seq = n + 1 /\ e.ungrounded /\ Recorded' = Recorded \cup {e}
  OBVIOUS
<1>3. \A f \in Recorded : f.seq \in Nat /\ (f.lane = l => f.seq <= n)
  BY <1>1 DEF DenseSteps, Event
<1> HIDE DEF n, e
<1>4. IsFiniteSet(Recorded')
  <2>1. \A x : IsFiniteSet(Recorded \cup {x})
    BY FS_AddElement DEF MarksInv
  <2> QED
    BY <1>2, <2>1
<1>5. \A k \in Lanes : k # l => \A i : Ungrounded(Recorded', k, i) = Ungrounded(Recorded, k, i)
  BY <1>2 DEF Ungrounded
<1>6. \A i \in 0..n : Ungrounded(Recorded', l, i) = Ungrounded(Recorded, l, i)
  BY <1>1, <1>2 DEF Ungrounded
<1>7. Ungrounded(Recorded', l, n + 1) = Ungrounded(Recorded, l, n) \cup {e}
  <2>1. \A f \in Recorded : f.lane = l => f.seq <= n /\ f.seq <= n + 1
    BY <1>1, <1>3
  <2> QED
    BY <1>1, <1>2, <2>1 DEF Ungrounded
<1>8. Cardinality(Ungrounded(Recorded', l, n + 1)) = ledger.divergence[l] + 1
  <2>1. e \notin Ungrounded(Recorded, l, n)
    BY <1>1, <1>2 DEF Ungrounded
  <2>2. IsFiniteSet(Ungrounded(Recorded, l, n))
    BY UngroundedCount
  <2>3. Cardinality(Ungrounded(Recorded, l, n) \cup {e}) = Cardinality(Ungrounded(Recorded, l, n)) + 1
    BY <2>1, <2>2, FS_AddElement
  <2> QED
    BY <1>7, <2>3 DEF MarksInv, n
<1>9. /\ ledger'.divergence[l] = ledger.divergence[l] + 1
      /\ \A k \in Lanes : k # l => ledger'.divergence[k] = ledger.divergence[k]
  BY <1>1 DEF Counts
<1>10. \A k \in Lanes : ledger'.divergence[k] = Cardinality(Ungrounded(Recorded', k, ledger'.seq[k]))
  BY <1>5, <1>8, <1>9 DEF MarksInv, n
<1>11. ASSUME NEW k \in Lanes, Known(ledger', k)
       PROVE  LET step == ledger'.rows[k].contaminated IN
              /\ step = 0 => ledger'.divergence[k] = 0 \/ ledger'.divergence[k] < Threshold
              /\ step # 0 => /\ [lane |-> k, seq |-> step, ungrounded |-> TRUE, observed |-> NoModel] \in Recorded'
                             /\ Cardinality(Ungrounded(Recorded', k, step)) >= Threshold
                             /\ \/ Cardinality(Ungrounded(Recorded', k, step - 1)) = 0
                                \/ Cardinality(Ungrounded(Recorded', k, step - 1)) < Threshold
  <2> DEFINE old == IF Known(ledger, k) THEN ledger.rows[k].contaminated ELSE 0
  <2>1. /\ old = 0 => ledger.divergence[k] = 0 \/ ledger.divergence[k] < Threshold
        /\ old # 0 => /\ [lane |-> k, seq |-> old, ungrounded |-> TRUE, observed |-> NoModel] \in Recorded
                      /\ Cardinality(Ungrounded(Recorded, k, old)) >= Threshold
                      /\ \/ Cardinality(Ungrounded(Recorded, k, old - 1)) = 0
                         \/ Cardinality(Ungrounded(Recorded, k, old - 1)) < Threshold
    BY QuietLane DEF MarksInv
  <2> HIDE DEF old
  <2>2. CASE k # l
    <3>1. ledger'.rows[k].contaminated = old
      BY <1>11, <2>2 DEF Counts, old
    <3> QED
      BY <1>2, <1>5, <1>9, <2>1, <2>2, <3>1
  <2>3. CASE k = l
    <3>1. ledger'.rows[l].contaminated =
            IF ledger.divergence[l] + 1 < Threshold \/ old # 0 THEN old ELSE n + 1
      BY <2>3 DEF Counts, MarkAfter, old, n
    <3>2. CASE old # 0
      <4>1. [lane |-> l, seq |-> old, ungrounded |-> TRUE, observed |-> NoModel] \in Recorded
        BY <2>1, <2>3, <3>2
      <4>2. old \in Nat \ {0} /\ old <= n
        BY <1>1, <1>3, <4>1 DEF Event
      <4>3. old \in 0..n /\ old - 1 \in 0..n
        BY <1>1, <4>2
      <4> QED
        BY <1>2, <1>6, <2>1, <2>3, <3>1, <3>2, <4>3
    <3>3. CASE old = 0 /\ ledger.divergence[l] + 1 < Threshold
      BY <1>9, <2>3, <3>1, <3>3
    <3>4. CASE old = 0 /\ ~(ledger.divergence[l] + 1 < Threshold)
      <4>1. ledger'.rows[l].contaminated = n + 1 /\ n + 1 # 0 /\ n + 1 - 1 = n /\ n \in 0..n
        BY <1>1, <3>1, <3>4
      <4>2. Cardinality(Ungrounded(Recorded', l, n)) = ledger.divergence[l]
        BY <1>6, <4>1 DEF MarksInv, n
      <4>3. ledger.divergence[l] + 1 >= Threshold
        BY <1>1, <3>4, LedgerAssumption
      <4>4. [lane |-> l, seq |-> n + 1, ungrounded |-> TRUE, observed |-> NoModel] \in Recorded'
        BY <1>2 DEF e
      <4> QED
        BY <1>8, <2>1, <2>3, <3>4, <4>1, <4>2, <4>3, <4>4
    <3> QED
      BY <3>2, <3>3, <3>4
  <2> QED
    BY <2>2, <2>3
<1> QED
  BY <1>4, <1>10, <1>11 DEF MarksInv

LEMMA StepMarks == IInv /\ NothingUnattached /\ MarksInv /\ [Next]_vars => MarksInv'
<1> SUFFICES ASSUME IInv, NothingUnattached, MarksInv, [Next]_vars
             PROVE  MarksInv'
  OBVIOUS
<1> TypeOK /\ Pipeline /\ EventsInv /\ DenseSteps
  BY DEF IInv, EventsInv
<1> ledger \in Ledger
  BY DEF TypeOK
<1>1. CASE Recording /\ RecordingEffect
  <2>1. UNCHANGED <<batch, store, lost>>
    BY <1>1 DEF RecordingEffect
  <2>2. PICK q \in asked \cup {ledger.latest} :
       \/ /\ Keeps(ledger, ledger', q)
          /\ \/ ledger'.seq = ledger.seq /\ ledger'.events = ledger.events
             \/ \E l \in Lanes, m \in Models \cup {NoModel} : Logged(ledger, ledger', l, FALSE, m)
       \/ \E l \in Lanes : /\ Counts(ledger, ledger', l, q)
                           /\ Logged(ledger, ledger', l, TRUE, NoModel)
    BY <1>1, RecordingRows DEF RecordsRows
  <2>3. ASSUME Keeps(ledger, ledger', q), ledger'.seq = ledger.seq, ledger'.events = ledger.events
        PROVE  MarksInv'
    <3>1. Recorded' = Recorded
      BY <2>1, <2>3, InFlightMember DEF Recorded
    <3> QED
      BY <2>3, <3>1, MarksKept
  <2>4. ASSUME Keeps(ledger, ledger', q), NEW l \in Lanes, NEW m \in Models \cup {NoModel},
             Logged(ledger, ledger', l, FALSE, m)
        PROVE  MarksInv'
    <3>1. /\ Recorded' = Recorded \cup {[lane |-> l, seq |-> ledger.seq[l] + 1, ungrounded |-> FALSE, observed |-> m]}
          /\ ledger'.seq[l] = ledger.seq[l] + 1
          /\ \A k \in Lanes : k # l => ledger'.seq[k] = ledger.seq[k]
      BY <1>1, <2>4, FALSE \in BOOLEAN, LogsEvents
    <3>2. ledger.seq[l] + 1 \in Nat /\ \A k \in Lanes : ledger.seq[k] \in Nat
      BY DEF Ledger
    <3>3. \A k \in Lanes : ledger'.seq[k] >= ledger.seq[k] /\ ledger'.seq[k] \in Nat
      BY <3>1, <3>2
    <3> QED
      BY <2>4, <3>1, <3>2, <3>3, MarksKept
  <2>5. ASSUME NEW l \in Lanes, Counts(ledger, ledger', l, q),
             Logged(ledger, ledger', l, TRUE, NoModel)
        PROVE  MarksInv'
    BY <1>1, <2>5, LogsEvents, MarksCounted
  <2> QED
    BY <2>2, <2>3, <2>4, <2>5
<1>2. ASSUME Recorded' = Recorded, ledger'.seq = ledger.seq, ledger'.rows = ledger.rows,
             ledger'.divergence = ledger.divergence
      PROVE  MarksInv'
  BY <1>2 DEF MarksInv, Known
<1>3. ASSUME NEW d \in Drainers, Swaps(d)
      PROVE  MarksInv'
  <2>1. ledger'.rows = ledger.rows /\ ledger'.divergence = ledger.divergence
    BY <1>3 DEF Swaps, Swapped, Ledger
  <2> QED
    BY <1>2, <1>3, <2>1, SwapsEvents
<1>4. ASSUME NEW d \in Drainers, Stores(d) \/ Drops(d)
      PROVE  MarksInv'
  BY <1>2, <1>4, SettlesEvents
<1>5. CASE Rests
  <2>1. Recorded' = Recorded
    BY <1>5 DEF Rests, Recorded, InFlight
  <2> QED
    BY <1>2, <1>5, <2>1 DEF Rests
<1> QED
  BY <1>1, <1>3, <1>4, <1>5, StepKind

\* A lane is contaminated from the step at which its divergences reached the
\* threshold, wherever its events are by then, and the step never moves.
THEOREM ContaminationHolds == Spec => []ContaminatedFromThreshold
<1>1. Init => MarksInv
  BY InitMarks
<1>2. IInv /\ NothingUnattached /\ MarksInv /\ [Next]_vars => MarksInv'
  BY StepMarks
<1>3. MarksInv => ContaminatedFromThreshold
  BY MarksImply
<1> QED
  BY <1>1, <1>2, <1>3, Invariance, NothingUnattachedHolds, PTL DEF Spec

-----------------------------------------------------------------------------
(* What the store holds while the flush loop alone drains.                 *)

\* Rows are filed under queries that were announced, or under none.
Filed ==
  /\ ledger.latest \in asked \cup {NoQuery}
  /\ \A l \in Lanes : Known(ledger, l) => ledger.rows[l].query \in asked \cup {NoQuery}

LEMMA InitFiled == Init => Filed
<1> SUFFICES ASSUME Init
             PROVE  Filed
  OBVIOUS
<1>1. ledger.latest = NoQuery
  BY DEF Init, NewLedger
<1>2. \A l \in Lanes : ~Known(ledger, l)
  BY EmptyTypes DEF Init
<1> QED
  BY <1>1, <1>2 DEF Filed

LEMMA StepFiled == TypeOK /\ Pipeline /\ Filed /\ [Next]_vars => Filed'
<1> SUFFICES ASSUME TypeOK, Pipeline, Filed, [Next]_vars
             PROVE  Filed'
  OBVIOUS
<1> ledger \in Ledger
  BY DEF TypeOK
<1>1. CASE Recording /\ RecordingEffect
  <2>1. asked \subseteq asked'
    BY <1>1 DEF RecordingEffect
  <2>2. PICK q \in asked \cup {ledger.latest} :
          \A k \in Lanes : Known(ledger', k) =>
            ledger'.rows[k].query = IF Known(ledger, k) THEN ledger.rows[k].query ELSE q
    BY <1>1, RecordingRows DEF RecordsRows, Keeps, KeepsRows, Counts
  <2>3. ledger'.latest \in asked' \cup {ledger.latest}
    BY <1>1, RecordingRows DEF RecordsRows
  <2> QED
    BY <2>1, <2>2, <2>3 DEF Filed
<1>2. ASSUME NEW d \in Drainers, Swaps(d)
      PROVE  Filed'
  <2>1. ledger'.rows = ledger.rows /\ ledger'.latest = ledger.latest /\ asked' = asked
    BY <1>2 DEF Swaps, Swapped, Ledger
  <2> QED
    BY <2>1 DEF Filed, Known
<1>3. ASSUME NEW d \in Drainers, Stores(d) \/ Drops(d)
      PROVE  Filed'
  BY <1>3 DEF Stores, Drops, Filed
<1>4. CASE Rests
  BY <1>4 DEF Rests, Filed
<1> QED
  BY <1>1, <1>2, <1>3, <1>4, StepKind

\* aclose() was not called and no write failed.
Calm == closer = "open" /\ fails = 0

OpenUntilClosed == closer # "closed" => storeOpen

LEMMA StepOpen == Pipeline /\ OpenUntilClosed /\ [Next]_vars => OpenUntilClosed'
<1> SUFFICES ASSUME Pipeline, OpenUntilClosed, [Next]_vars
             PROVE  OpenUntilClosed'
  OBVIOUS
<1> USE DEF drainVars, storeVars
<1>1. CASE Recording
  <2>1. UNCHANGED <<closer, storeOpen>>
    BY <1>1 DEF Recording, Start, DoStartQuery, DoStartLane, DoFinishLane, DoMarkCollision,
                DoRecordToolEvent, DoRecordModelCall, Record
  <2> QED
    BY <2>1 DEF OpenUntilClosed
<1>2. CASE Aclose \/ CloserJoin \/ CloserResume \/ CloseStore
  BY <1>2 DEF Pipeline, OpenUntilClosed, Aclose, AcloseNoTask, AcloseCancel, AcloseDead, FinalDrain,
              CloserJoin, CloserResume, CloseStore
<1>3. CASE \/ \E f \in Flushers : FlushCall(f) \/ FlushResume(f) \/ FlushEnd(f)
           \/ LoopWake \/ LoopResume
           \/ \E d \in Drainers : Pickup(d) \/ Commit(d) \/ Fail(d)
           \/ UNCHANGED vars
  <2>1. UNCHANGED <<closer, storeOpen>>
    BY <1>3 DEF FlushCall, FlushResume, FlushEnd, LoopWake, LoopResume, Pickup, Commit, Fail, vars
  <2> QED
    BY <2>1 DEF OpenUntilClosed
<1> QED
  BY <1>1, <1>2, <1>3 DEF Next, Running

\* Up to then the rows are moved by recording and by the flush loop.
LEMMA CalmStep ==
  ASSUME Flushers = {}, TypeOK, Pipeline, OpenUntilClosed, [Next]_vars, Calm'
  PROVE  /\ Calm
         /\ \/ Recording /\ RecordingEffect
            \/ Swaps(Loop)
            \/ Stores(Loop)
            \/ Rests
<1> USE DrainerAssumption DEF drainVars, storeVars
<1> Drainers = {Loop, Closer} /\ fails \in Nat
  BY DEF Drainers, TypeOK
<1>1. CASE Recording
  BY <1>1, RecordingLemma DEF RecordingEffect, Calm
<1>2. ~Aclose
  BY DEF Aclose, AcloseNoTask, AcloseCancel, AcloseDead, FinalDrain, Calm
<1>3. CASE LoopWake
  <2>1. batch[Loop] = EmptyBatch
    BY <1>3 DEF LoopWake, Pipeline
  <2> QED
    BY <1>3, <2>1 DEF LoopWake, Drain, Swaps, Calm
<1>4. CASE LoopResume \/ UNCHANGED vars \/ \E d \in Drainers : Pickup(d)
  BY <1>4 DEF LoopResume, Pickup, vars, Rests, Calm
<1>5. ~(CloserJoin \/ CloserResume \/ CloseStore)
  BY DEF CloserJoin, FinalDrain, CloserResume, CloseStore, Calm
<1>6. ASSUME NEW d \in Drainers, Commit(d)
      PROVE  Calm /\ Stores(Loop)
  <2>1. Calm /\ Stores(d) /\ stage[d] = "running"
    BY <1>6 DEF Commit, Forget, Stores, Calm
  <2>2. d # Closer
    BY <2>1 DEF Pipeline, Calm
  <2> QED
    BY <2>1, <2>2
<1>7. ASSUME NEW d \in Drainers, Fail(d)
      PROVE  FALSE
  <2>1. closer = "open" /\ fails' = 0
    BY <1>7 DEF Fail, Calm
  <2>2. storeOpen
    BY <2>1 DEF OpenUntilClosed
  <2> QED
    BY <1>7, <2>1, <2>2 DEF Fail
<1> QED
  BY <1>1, <1>2, <1>3, <1>4, <1>5, <1>6, <1>7 DEF Next, Running

\* A clean row is in the loop's batch or stored, and neither an event nor a row
\* gets there before what it refers to.
Current ==
  /\ lost.queries = {}
  /\ \A l \in Lanes : Known(ledger, l) /\ l \notin ledger.dirty =>
       ledger.rows[l] = IF batch[Loop].rows[l] # NoRow THEN batch[Loop].rows[l] ELSE store.rows[l]
  /\ \A e \in store.events : store.rows[e.lane] # NoRow
  /\ \A e \in batch[Loop].events : batch[Loop].rows[e.lane] # NoRow \/ store.rows[e.lane] # NoRow
  /\ \A l \in Lanes : store.rows[l] # NoRow =>
       store.rows[l].query \in store.queries \cup {NoQuery}
  /\ \A l \in Lanes : batch[Loop].rows[l] # NoRow =>
       batch[Loop].rows[l].query \in store.queries \cup batch[Loop].queries \cup {NoQuery}

LEMMA InitCurrent == Init => Current
BY EmptyTypes, DrainerAssumption DEF Init, Current, Drainers

LEMMA StepCurrent ==
  ASSUME Flushers = {}, IInv, NothingUnattached, Filed, OpenUntilClosed, Calm => Current,
         [Next]_vars
  PROVE  (Calm => Current)'
<1> SUFFICES ASSUME Calm'
             PROVE  Current'
  OBVIOUS
<1> TypeOK /\ Pipeline
  BY DEF IInv
<1> USE DrainerAssumption
<1> Drainers = {Loop, Closer} /\ Loop \in Drainers
  BY DEF Drainers
<1> /\ ledger \in Ledger /\ store \in Store /\ batch \in [Drainers -> Batch]
    /\ batch[Loop] \in Batch
  BY DEF TypeOK
<1>0. Calm /\ Current
  BY CalmStep
<1>1. CASE Recording /\ RecordingEffect
  <2>1. UNCHANGED <<batch, store, lost>>
    BY <1>1 DEF RecordingEffect
  <2>2. \A l \in Lanes : Known(ledger', l) /\ l \notin ledger'.dirty =>
          Known(ledger, l) /\ l \notin ledger.dirty /\ ledger'.rows[l] = ledger.rows[l]
    BY <1>1 DEF RecordingEffect, Known
  <2> QED
    BY <1>0, <2>1, <2>2 DEF Current
<1>2. CASE Swaps(Loop)
  <2>1. /\ ledger'.rows = ledger.rows /\ ledger'.dirty = {}
        /\ batch'[Loop].queries = ledger.queries /\ batch'[Loop].events = ledger.events
        /\ \A l \in Lanes : batch'[Loop].rows[l] = IF l \in ledger.dirty THEN ledger.rows[l] ELSE NoRow
        /\ batch[Loop] = EmptyBatch
        /\ UNCHANGED <<asked, store, lost>>
    BY <1>2, SwapLemma DEF Swaps
  <2>2. batch[Closer] = EmptyBatch
    BY <1>0 DEF Pipeline, Calm
  <2>3. asked \subseteq ledger.queries \cup store.queries
    BY <1>0, <2>1, <2>2, EmptyTypes DEF NothingUnattached, Current
  <2>4. \A l \in Lanes : Known(ledger, l) =>
          ledger.rows[l] = IF batch'[Loop].rows[l] # NoRow THEN batch'[Loop].rows[l] ELSE store.rows[l]
    BY <1>0, <2>1, EmptyTypes DEF Current, Known
  <2>5. \A e \in ledger.events : e.lane \in Lanes /\ Known(ledger, e.lane)
    BY DEF NothingUnattached, Recorded, Ledger, Event
  <2>6. \A e \in ledger.events : batch'[Loop].rows[e.lane] # NoRow \/ store.rows[e.lane] # NoRow
    BY <2>4, <2>5 DEF Known
  <2>7. \A l \in Lanes : batch'[Loop].rows[l] # NoRow =>
          batch'[Loop].rows[l].query \in store.queries \cup ledger.queries \cup {NoQuery}
    BY <2>1, <2>3 DEF Filed, Known
  <2> QED
    BY <1>0, <2>1, <2>4, <2>6, <2>7 DEF Current, Known
<1>3. CASE Stores(Loop)
  <2>1. /\ UNCHANGED <<ledger, lost>>
        /\ batch'[Loop] = EmptyBatch
        /\ store' = Apply(store, batch[Loop])
    BY <1>3 DEF Stores
  <2>2. /\ store'.queries = store.queries \cup batch[Loop].queries
        /\ store'.events = store.events \cup batch[Loop].events
        /\ \A l \in Lanes : store'.rows[l] =
             IF batch[Loop].rows[l] = NoRow THEN store.rows[l] ELSE batch[Loop].rows[l]
    BY <2>1, ApplyTypes
  <2>3. \A e \in store.events \cup batch[Loop].events : e.lane \in Lanes
    BY DEF Store, Batch, Event
  <2>4. \A e \in store'.events : store'.rows[e.lane] # NoRow
    BY <1>0, <2>2, <2>3 DEF Current
  <2>5. \A l \in Lanes : store'.rows[l] # NoRow =>
          store'.rows[l].query \in store'.queries \cup {NoQuery}
    BY <1>0, <2>2 DEF Current
  <2>6. \A l \in Lanes : Known(ledger, l) /\ l \notin ledger.dirty => ledger.rows[l] = store'.rows[l]
    BY <1>0, <2>2 DEF Current
  <2> QED
    BY <1>0, <2>1, <2>4, <2>5, <2>6, EmptyTypes DEF Current
<1>4. CASE Rests
  BY <1>0, <1>4 DEF Rests, Current
<1> QED
  BY <1>1, <1>2, <1>3, <1>4, CalmStep

LEMMA CurrentInvariance ==
  Flushers = {} => (Spec => [](TypeOK /\ Pipeline /\ (Calm => Current)))
<1> SUFFICES ASSUME Flushers = {}
             PROVE  Spec => [](TypeOK /\ Pipeline /\ (Calm => Current))
  OBVIOUS
<1>1. Init => Filed /\ OpenUntilClosed /\ (Calm => Current)
  BY InitFiled, InitCurrent DEF Init, OpenUntilClosed
<1>2. /\ IInv /\ NothingUnattached /\ Filed /\ OpenUntilClosed /\ (Calm => Current)
      /\ [Next]_vars
      => (Filed /\ OpenUntilClosed /\ (Calm => Current))'
  BY StepFiled, StepOpen, StepCurrent DEF IInv
<1>3. IInv => TypeOK /\ Pipeline
  BY DEF IInv
<1> QED
  BY <1>1, <1>2, <1>3, Invariance, NothingUnattachedHolds, PTL DEF Spec

\* While only the flush loop drains and no write has failed, what is stored has
\* its lane and its query stored too.
THEOREM ReadableHolds == Flushers = {} => (Spec => []ReadableWhileOpen)
<1> SUFFICES ASSUME Flushers = {}
             PROVE  Spec => []ReadableWhileOpen
  OBVIOUS
<1>1. TypeOK /\ Pipeline /\ (Calm => Current) => ReadableWhileOpen
  BY DEF Calm, Current, ReadableWhileOpen
<1> QED
  BY <1>1, CurrentInvariance, PTL

\* ... and every row that is neither dirty nor in a batch is stored as it is in
\* memory: no change of a row escapes the dirty set.
THEOREM CurrentHolds == Flushers = {} => (Spec => []CurrentWhileOpen)
<1> SUFFICES ASSUME Flushers = {}
             PROVE  Spec => []CurrentWhileOpen
  OBVIOUS
<1>1. TypeOK /\ Pipeline /\ (Calm => Current) => CurrentWhileOpen
  BY DEF Calm, Current, CurrentWhileOpen, OnTheWay, Drainers
<1> QED
  BY <1>1, CurrentInvariance, PTL

=============================================================================
