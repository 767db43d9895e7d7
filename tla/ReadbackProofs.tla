--------------------------- MODULE ReadbackProofs ---------------------------
(***************************************************************************)
(* Proofs about Readback: what is read of a lane while it is recorded, for *)
(* every number of queries, lanes and reads, as long as the flush loop     *)
(* alone drains.                                                           *)
(***************************************************************************)
EXTENDS Readback, RecorderProofs

\* Reading changes nothing of the recorder.
LEMMA ReadStep == [ReadNext]_<<vars, readVars>> => [Next]_vars
BY DEF ReadNext, Reading, ReadQuery, ReadLanes, ReadEvents, Loaded, readVars

LEMMA ReadsOfRecorder == ReadSpec => Spec
<1>1. ReadInit => Init
  BY DEF ReadInit
<1> QED
  BY <1>1, ReadStep, PTL DEF ReadSpec, Spec

-----------------------------------------------------------------------------
(* The steps of a lane reach the store in their order.                     *)

Steps(E, l) == {e.seq : e \in {f \in E : f.lane = l}}

\* A lane's steps are stored up to some number, in the loop's batch up to
\* another, and buffered from there on.
InOrderUpTo(l, s, b) ==
  /\ s \in Nat /\ b \in Nat /\ s <= b /\ b <= ledger.seq[l]
  /\ Steps(store.events, l) = 1..s
  /\ Steps(batch[Loop].events, l) = (s + 1)..b
  /\ Steps(ledger.events, l) = (b + 1)..ledger.seq[l]

Ordered == \A l \in Lanes : \E s, b \in Nat : InOrderUpTo(l, s, b)

LEMMA InitOrdered == Init => Ordered
<1> SUFFICES ASSUME Init, NEW l \in Lanes
             PROVE  InOrderUpTo(l, 0, 0)
  BY DEF Ordered
<1>1. ledger.events = {} /\ store.events = {} /\ batch[Loop].events = {} /\ ledger.seq[l] = 0
  BY EmptyTypes DEF Init, NewLedger, Drainers
<1>2. Steps({}, l) = {} /\ 1..0 = {} /\ (0 + 1)..0 = {}
  BY DEF Steps
<1> QED
  BY <1>1, <1>2 DEF InOrderUpTo

LEMMA StepsOfNone ==
  ASSUME NEW E, NEW l, E = {}
  PROVE  Steps(E, l) = {}
BY DEF Steps

LEMMA StepsOfUnion ==
  ASSUME NEW E, NEW F, NEW l
  PROVE  Steps(E \cup F, l) = Steps(E, l) \cup Steps(F, l)
BY DEF Steps

LEMMA StepsOfOne ==
  ASSUME NEW e, NEW l
  PROVE  Steps({e}, l) = IF e.lane = l THEN {e.seq} ELSE {}
BY DEF Steps

LEMMA StepOrdered ==
  ASSUME Flushers = {}, IInv, OpenUntilClosed, Calm => Ordered, [Next]_vars
  PROVE  (Calm => Ordered)'
<1> SUFFICES ASSUME Calm'
             PROVE  Ordered'
  OBVIOUS
<1> TypeOK /\ Pipeline
  BY DEF IInv
<1> Loop \in Drainers
  BY DEF Drainers
<1> /\ ledger \in Ledger /\ store \in Store /\ batch[Loop] \in Batch
    /\ \A l \in Lanes : ledger.seq[l] \in Nat
  BY DEF TypeOK, Ledger
<1>0. Calm /\ Ordered
  BY CalmStep
<1> SUFFICES ASSUME NEW l \in Lanes
             PROVE  \E s, b \in Nat : InOrderUpTo(l, s, b)'
  BY DEF Ordered
<1>1. PICK s \in Nat, b \in Nat : InOrderUpTo(l, s, b)
  BY <1>0 DEF Ordered
<1>n. PICK n \in Nat : n = ledger.seq[l]
  OBVIOUS
<1>a. /\ s <= b /\ b <= n /\ n \in Nat
      /\ Steps(store.events, l) = 1..s
      /\ Steps(batch[Loop].events, l) = (s + 1)..b
      /\ Steps(ledger.events, l) = (b + 1)..n
  BY <1>1, <1>n DEF InOrderUpTo
<1>b. /\ (1..s) \cup ((s + 1)..b) = 1..b
      /\ (b + 1)..b = {} /\ (n + 1)..n = {}
      /\ ((b + 1)..n) \cup {n + 1} = (b + 1)..(n + 1)
      /\ (s + 1)..b = {} => b = s
  BY <1>a
<1>2. CASE Recording /\ RecordingEffect
  <2>1. batch' = batch /\ store' = store
    BY <1>2 DEF RecordingEffect
  <2>2. ASSUME ledger'.seq = ledger.seq, ledger'.events = ledger.events
        PROVE  InOrderUpTo(l, s, b)'
    BY <1>1, <2>1, <2>2 DEF InOrderUpTo
  <2>3. ASSUME NEW k \in Lanes, NEW u \in BOOLEAN, NEW m \in Models \cup {NoModel},
               Logged(ledger, ledger', k, u, m)
        PROVE  InOrderUpTo(l, s, b)'
    <3> DEFINE e == [lane |-> k, seq |-> ledger.seq[k] + 1, ungrounded |-> u, observed |-> m]
    <3>1. /\ ledger'.events = ledger.events \cup {e}
          /\ ledger'.seq[k] = ledger.seq[k] + 1
          /\ \A i \in Lanes : i # k => ledger'.seq[i] = ledger.seq[i]
      BY <1>2, <2>3, LogsEvents
    <3>2. e.lane = k /\ e.seq = ledger.seq[k] + 1
      OBVIOUS
    <3> HIDE DEF e
    <3>3. Steps(ledger'.events, l) = Steps(ledger.events, l) \cup Steps({e}, l)
      BY <3>1, StepsOfUnion
    <3>4. CASE k = l
      <4>1. Steps({e}, l) = {n + 1} /\ ledger'.seq[l] = n + 1
        BY <3>1, <3>2, <3>4, <1>n, StepsOfOne
      <4>2. Steps(ledger'.events, l) = (b + 1)..(n + 1)
        BY <1>a, <1>b, <3>3, <4>1, Zenon
      <4>3. b <= n + 1
        BY <1>a
      <4> QED
        BY <1>a, <2>1, <4>1, <4>2, <4>3 DEF InOrderUpTo
    <3>5. CASE k # l
      <4>1. Steps({e}, l) = {} /\ ledger'.seq[l] = n
        BY <3>1, <3>2, <3>5, <1>n, StepsOfOne
      <4>2. Steps(ledger'.events, l) = (b + 1)..n
        BY <1>a, <3>3, <4>1
      <4> QED
        BY <1>a, <2>1, <4>1, <4>2 DEF InOrderUpTo
    <3> QED
      BY <3>4, <3>5
  <2> QED
    BY <1>2, <2>2, <2>3 DEF RecordingEffect
<1>3. CASE Swaps(Loop)
  <2>1. /\ ledger'.events = {} /\ ledger'.seq = ledger.seq
        /\ batch[Loop].events = {} /\ batch'[Loop].events = ledger.events
        /\ store' = store
    BY <1>3, SwapsEvents
  <2>2. b = s
    <3>1. Steps(batch[Loop].events, l) = {}
      BY <2>1, StepsOfNone
    <3> QED
      BY <1>a, <1>b, <3>1, Zenon
  <2>3. ledger'.seq[l] = n /\ s <= n /\ n <= n /\ n \in Nat
    BY <1>a, <1>n, <2>1
  <2>4. Steps(ledger'.events, l) = {}
    BY <2>1, StepsOfNone
  <2>5. Steps(ledger'.events, l) = (n + 1)..n
    BY <1>b, <2>4, Zenon
  <2>6. Steps(batch'[Loop].events, l) = (s + 1)..n /\ Steps(store'.events, l) = 1..s
    <3>1. Steps(batch'[Loop].events, l) = Steps(ledger.events, l)
      BY <2>1
    <3>2. Steps(batch'[Loop].events, l) = (b + 1)..n
      BY <1>a, <3>1, Zenon
    <3>3. Steps(store'.events, l) = 1..s
      BY <1>a, <2>1, Zenon
    <3>4. (b + 1)..n = (s + 1)..n
      BY <2>2
    <3> QED
      BY <3>2, <3>3, <3>4, Zenon
  <2>7. InOrderUpTo(l, s, n)'
    BY <1>a, <2>2, <2>3, <2>5, <2>6, Zenon DEF InOrderUpTo
  <2> QED
    BY <1>a, <2>7
<1>4. CASE Stores(Loop)
  <2>1. /\ ledger' = ledger /\ batch'[Loop].events = {}
        /\ store'.events = store.events \cup batch[Loop].events
    BY <1>4, SettlesEvents
  <2>2. Steps(store'.events, l) = 1..b
    <3>1. Steps(store'.events, l) = Steps(store.events, l) \cup Steps(batch[Loop].events, l)
      BY <2>1, StepsOfUnion
    <3>2. Steps(store'.events, l) = (1..s) \cup ((s + 1)..b)
      BY <1>a, <3>1
    <3> QED
      BY <1>b, <3>2
  <2>3. ledger'.seq[l] = n
    BY <1>n, <2>1
  <2>4. Steps(batch'[Loop].events, l) = {}
    BY <2>1, StepsOfNone
  <2>5. Steps(batch'[Loop].events, l) = (b + 1)..b
    BY <1>b, <2>4, Zenon
  <2>6. Steps(ledger'.events, l) = (b + 1)..n
    BY <1>a, <2>1, Zenon
  <2>7. b <= b
    OBVIOUS
  <2>8. InOrderUpTo(l, b, b)'
    BY <1>a, <2>2, <2>3, <2>5, <2>6, <2>7, Zenon DEF InOrderUpTo
  <2> QED
    BY <2>8
<1>5. CASE Rests
  BY <1>1, <1>5 DEF Rests, InOrderUpTo
<1> QED
  BY <1>2, <1>3, <1>4, <1>5, CalmStep

-----------------------------------------------------------------------------
(* What a row says is backed by events.                                    *)

\* A lane without a row is recorded as the orphan it becomes first.
LEMMA AsOrphan ==
  ASSUME NEW g \in Ledger, NEW l \in Lanes
  PROVE  LET o == OrphanLane(g, l) IN
         /\ o \in Ledger /\ Known(o, l)
         /\ \A k \in Lanes : k # l => o.rows[k] = g.rows[k]
         /\ ~Known(g, l) => o.rows[l].observed = NoModel
         /\ Known(g, l) => o = g
         /\ \A st \in {"ok", "error"} : FinishLane(g, l, st) = FinishLane(o, l, st)
         /\ \A u \in BOOLEAN : RecordToolEvent(g, l, u) = RecordToolEvent(o, l, u)
         /\ \A m \in Models \cup {NoModel} : RecordModelCall(g, l, m) = RecordModelCall(o, l, m)
<1> DEFINE o == OrphanLane(g, l)
<1>1. o \in Ledger /\ Known(o, l)
  BY OpenLaneLemma, NoQuery \in Queries \cup {NoQuery} DEF RowsOnly
<1>2. Known(g, l) => o = g
  BY DEF OrphanLane
<1>3. ASSUME ~Known(g, l)
      PROVE  o.rows = [g.rows EXCEPT ![l] = FreshRow(g.latest)]
  <2>1. o = [g EXCEPT !.rows = [g.rows EXCEPT ![l] = FreshRow(g.latest)], !.dirty = g.dirty \cup {l}]
    BY <1>3 DEF OrphanLane, PutRow, Ledger
  <2> QED
    BY <2>1 DEF Ledger
<1>4. /\ \A k \in Lanes : k # l => o.rows[k] = g.rows[k]
      /\ ~Known(g, l) => o.rows[l].observed = NoModel
  <2> HIDE DEF o
  <2> QED
    BY <1>1, <1>2, <1>3 DEF Ledger, FreshRow
<1>5. OrphanLane(o, l) = o /\ StartLane(o, l, o.latest) = o /\ StartLane(g, l, g.latest) = o
  BY <1>1 DEF OrphanLane, StartLane
<1>6. /\ \A st \in {"ok", "error"} : FinishLane(g, l, st) = FinishLane(o, l, st)
      /\ \A u \in BOOLEAN : RecordToolEvent(g, l, u) = RecordToolEvent(o, l, u)
      /\ \A m \in Models \cup {NoModel} : RecordModelCall(g, l, m) = RecordModelCall(o, l, m)
  BY <1>5 DEF FinishLane, RecordToolEvent, RecordModelCall
<1> QED
  BY <1>1, <1>2, <1>4, <1>6

\* E holds a call of lane l whose response named model m.
Named(E, l, m) == \E e \in E : e.lane = l /\ e.observed = m

\* A row that names a model named it before, or a call that named it is in the buffer.
Observes(g, h) ==
  \A k \in Lanes : Known(h, k) /\ h.rows[k].observed # NoModel =>
    \/ Known(g, k) /\ g.rows[k].observed = h.rows[k].observed
    \/ Named(h.events, k, h.rows[k].observed)

LEMMA MethodsObserve ==
  ASSUME NEW g \in Ledger, NEW l \in Lanes
  PROVE  /\ \A q \in Queries : Observes(g, StartLane(g, l, q))
         /\ \A st \in {"ok", "error"} : Observes(g, FinishLane(g, l, st))
         /\ Observes(g, MarkCollision(g, l))
         /\ \A u \in BOOLEAN : Observes(g, RecordToolEvent(g, l, u))
         /\ \A m \in Models \cup {NoModel} : Observes(g, RecordModelCall(g, l, m))
<1> DEFINE o == OrphanLane(g, l)
<1>1. /\ o \in Ledger /\ Known(o, l)
      /\ \A k \in Lanes : k # l => o.rows[k] = g.rows[k]
      /\ ~Known(g, l) => o.rows[l].observed = NoModel
      /\ Known(g, l) => o = g
  BY AsOrphan
<1> HIDE DEF o
<1>2. ASSUME NEW h, Touches(o, h, l),
             \/ h.rows[l].observed = o.rows[l].observed
             \/ Named(h.events, l, h.rows[l].observed)
      PROVE  Observes(g, h)
  BY <1>1, <1>2 DEF Touches, Observes, Known
<1>3. ASSUME NEW q \in Queries
      PROVE  Observes(g, StartLane(g, l, q))
  <2>1. FreshRow(q).observed = NoModel
    BY DEF FreshRow
  <2>2. /\ StartLane(g, l, q).rows[l] = IF Known(g, l) THEN g.rows[l] ELSE FreshRow(q)
        /\ \A k \in Lanes : k # l => StartLane(g, l, q).rows[k] = g.rows[k]
    BY <1>3, StartLaneLemma
  <2> QED
    BY <2>1, <2>2 DEF Observes, Known
<1>4. ASSUME NEW st \in {"ok", "error"}
      PROVE  Observes(g, FinishLane(g, l, st))
  <2>1. FinishLane(g, l, st) = FinishLane(o, l, st)
    BY AsOrphan DEF o
  <2>2. /\ Touches(o, FinishLane(o, l, st), l)
        /\ FinishLane(o, l, st).rows[l].observed = o.rows[l].observed
    BY <1>1, TouchLemma
  <2> QED
    BY <1>2, <2>1, <2>2
<1>5. Observes(g, MarkCollision(g, l))
  <2>1. CASE Known(g, l)
    <3>1. /\ Touches(o, MarkCollision(g, l), l)
          /\ MarkCollision(g, l).rows[l].observed = o.rows[l].observed
      BY <1>1, <2>1, TouchLemma
    <3> QED
      BY <1>2, <3>1
  <2>2. CASE ~Known(g, l)
    BY <2>2 DEF MarkCollision, Observes
  <2> QED
    BY <2>1, <2>2
<1>6. ASSUME NEW h, NEW m \in Models \cup {NoModel}, Logged(g, h, l, FALSE, m)
      PROVE  Named(h.events, l, m)
  <2> DEFINE e == [lane |-> l, seq |-> g.seq[l] + 1, ungrounded |-> FALSE, observed |-> m]
  <2>1. e \in h.events
    BY <1>6 DEF Logged
  <2>2. e.lane = l /\ e.observed = m
    OBVIOUS
  <2> QED
    BY <2>1, <2>2 DEF Named
<1>7. ASSUME NEW u \in BOOLEAN
      PROVE  Observes(g, RecordToolEvent(g, l, u))
  <2>1. RecordToolEvent(g, l, u) = RecordToolEvent(o, l, u)
    BY AsOrphan DEF o
  <2>2. /\ Touches(o, RecordToolEvent(o, l, u), l)
        /\ RecordToolEvent(o, l, u).rows[l].observed = o.rows[l].observed
    BY <1>1, TouchLemma
  <2> QED
    BY <1>2, <2>1, <2>2
<1>8. ASSUME NEW m \in Models \cup {NoModel}
      PROVE  Observes(g, RecordModelCall(g, l, m))
  <2>1. RecordModelCall(g, l, m) = RecordModelCall(o, l, m)
    BY AsOrphan DEF o
  <2>2. /\ Touches(o, RecordModelCall(o, l, m), l)
        /\ RecordModelCall(o, l, m).rows[l].observed \in {o.rows[l].observed, m}
    BY <1>1, TouchLemma
  <2>3. Named(RecordModelCall(g, l, m).events, l, m)
    BY <1>6, RecordLemma
  <2> QED
    BY <1>2, <2>1, <2>2, <2>3
<1> QED
  BY <1>3, <1>4, <1>5, <1>7, <1>8

Seen == \A l \in Lanes : Known(ledger, l) /\ ledger.rows[l].observed # NoModel =>
          Named(Recorded, l, ledger.rows[l].observed)

\* More events name no fewer models.
LEMMA NamedMore ==
  ASSUME NEW E, NEW F, NEW l, NEW m, Named(E, l, m), E \subseteq F
  PROVE  Named(F, l, m)
BY DEF Named

LEMMA InitSeen == Init => Seen
BY EmptyTypes DEF Init, Seen

LEMMA StepSeen == TypeOK /\ Pipeline /\ Seen /\ [Next]_vars => Seen'
<1> SUFFICES ASSUME TypeOK, Pipeline, Seen, [Next]_vars
             PROVE  Seen'
  OBVIOUS
<1> ledger \in Ledger
  BY DEF TypeOK
<1>1. CASE Recording /\ RecordingEffect
  <2>1. Observes(ledger, ledger')
    <3>1. CASE Start
      BY <3>1 DEF Start, Observes
    <3>2. ASSUME NEW q \in Queries, DoStartQuery(q)
          PROVE  Observes(ledger, ledger')
      BY <3>2, StartQueryLemma DEF DoStartQuery, Record, Observes, Known
    <3>3. ASSUME NEW l \in Lanes, NEW q \in Queries, DoStartLane(l, q)
          PROVE  Observes(ledger, ledger')
      BY <3>3, MethodsObserve DEF DoStartLane, Record
    <3>4. ASSUME NEW l \in Lanes, NEW st \in {"ok", "error"}, DoFinishLane(l, st)
          PROVE  Observes(ledger, ledger')
      BY <3>4, MethodsObserve DEF DoFinishLane, Record
    <3>5. ASSUME NEW l \in Lanes, DoMarkCollision(l)
          PROVE  Observes(ledger, ledger')
      BY <3>5, MethodsObserve DEF DoMarkCollision
    <3>6. ASSUME NEW l \in Lanes, NEW u \in BOOLEAN, DoRecordToolEvent(l, u)
          PROVE  Observes(ledger, ledger')
      BY <3>6, MethodsObserve DEF DoRecordToolEvent, Record
    <3>7. ASSUME NEW l \in Lanes, NEW m \in Models \cup {NoModel}, DoRecordModelCall(l, m)
          PROVE  Observes(ledger, ledger')
      BY <3>7, MethodsObserve DEF DoRecordModelCall, Record
    <3> QED
      BY <1>1, <3>1, <3>2, <3>3, <3>4, <3>5, <3>6, <3>7 DEF Recording
  <2>2. UNCHANGED <<batch, store, lost>>
    BY <1>1 DEF RecordingEffect
  <2>3. ledger.events \subseteq ledger'.events
    BY <1>1 DEF RecordingEffect, Logged
  <2>4. Recorded \subseteq Recorded' /\ ledger'.events \subseteq Recorded'
    BY <2>2, <2>3, InFlightMember DEF Recorded
  <2> QED
    BY <2>1, <2>4, NamedMore DEF Seen, Observes
<1>2. ASSUME NEW d \in Drainers, Swaps(d)
      PROVE  Seen'
  <2>1. ledger'.rows = ledger.rows
    BY <1>2, SwapLemma DEF Swaps
  <2> QED
    BY <1>2, <2>1, SwapsEvents DEF Seen, Known
<1>3. ASSUME NEW d \in Drainers, Stores(d) \/ Drops(d)
      PROVE  Seen'
  BY <1>3, SettlesEvents DEF Seen
<1>4. CASE Rests
  <2>1. Recorded' = Recorded
    BY <1>4 DEF Rests, Recorded, InFlight
  <2> QED
    BY <1>4, <2>1 DEF Rests, Seen
<1> QED
  BY <1>1, <1>2, <1>3, <1>4, StepKind

\* The events of E show what a row of lane l says.
Backs(E, l, row) ==
  /\ row.contaminated # 0 => \E e \in E : e.lane = l /\ e.seq = row.contaminated /\ e.ungrounded
  /\ row.observed # NoModel => Named(E, l, row.observed)

Backed ==
  /\ lost.events = {}
  /\ \A l \in Lanes : store.rows[l] # NoRow => Backs(store.events, l, store.rows[l])
  /\ \A l \in Lanes : batch[Loop].rows[l] # NoRow =>
       Backs(store.events \cup batch[Loop].events, l, batch[Loop].rows[l])

LEMMA InitBacked == Init => Backed
BY EmptyTypes DEF Init, Backed, Drainers

LEMMA BacksMore ==
  ASSUME NEW E, NEW F, NEW l, NEW row, Backs(E, l, row), E \subseteq F
  PROVE  Backs(F, l, row)
BY NamedMore DEF Backs

LEMMA LedgerBacked ==
  ASSUME MarksInv, Seen, NEW l \in Lanes, Known(ledger, l)
  PROVE  Backs(Recorded, l, ledger.rows[l])
<1>1. ASSUME ledger.rows[l].contaminated # 0
      PROVE  \E e \in Recorded : e.lane = l /\ e.seq = ledger.rows[l].contaminated /\ e.ungrounded
  <2> DEFINE e == [lane |-> l, seq |-> ledger.rows[l].contaminated, ungrounded |-> TRUE,
                   observed |-> NoModel]
  <2>1. e \in Recorded
    BY <1>1 DEF MarksInv
  <2>2. e.lane = l /\ e.seq = ledger.rows[l].contaminated /\ e.ungrounded
    OBVIOUS
  <2> QED
    BY <2>1, <2>2
<1> QED
  BY <1>1 DEF Backs, Seen

LEMMA StepBacked ==
  ASSUME Flushers = {}, IInv, MarksInv, Seen, OpenUntilClosed, Calm => Backed, [Next]_vars
  PROVE  (Calm => Backed)'
<1> SUFFICES ASSUME Calm'
             PROVE  Backed'
  OBVIOUS
<1> TypeOK /\ Pipeline
  BY DEF IInv
<1> USE DrainerAssumption
<1> Drainers = {Loop, Closer} /\ Loop \in Drainers
  BY DEF Drainers
<1> ledger \in Ledger /\ store \in Store /\ batch \in [Drainers -> Batch] /\ batch[Loop] \in Batch
  BY DEF TypeOK
<1>0. Calm /\ Backed
  BY CalmStep
<1>1. CASE Recording /\ RecordingEffect
  BY <1>0, <1>1 DEF RecordingEffect, Backed
<1>2. CASE Swaps(Loop)
  <2>1. /\ batch'[Loop].events = ledger.events
        /\ \A l \in Lanes : batch'[Loop].rows[l] = IF l \in ledger.dirty THEN ledger.rows[l] ELSE NoRow
        /\ batch[Loop] = EmptyBatch
        /\ UNCHANGED <<store, lost>>
    BY <1>2, SwapLemma DEF Swaps
  <2>2. batch[Closer] = EmptyBatch
    BY <1>0 DEF Pipeline, Calm
  <2>3. Recorded \subseteq store.events \cup batch'[Loop].events
    BY <1>0, <2>1, <2>2, EmptyTypes, InFlightMember DEF Recorded, Backed
  <2>4. ASSUME NEW l \in Lanes, batch'[Loop].rows[l] # NoRow
        PROVE  Backs(store.events \cup batch'[Loop].events, l, batch'[Loop].rows[l])
    <3>1. Known(ledger, l) /\ batch'[Loop].rows[l] = ledger.rows[l]
      BY <2>1, <2>4 DEF Known
    <3> QED
      BY <2>3, <3>1, LedgerBacked, BacksMore
  <2> QED
    BY <1>0, <2>1, <2>4 DEF Backed
<1>3. CASE Stores(Loop)
  <2>1. /\ UNCHANGED lost
        /\ batch'[Loop] = EmptyBatch
        /\ store' = Apply(store, batch[Loop])
    BY <1>3 DEF Stores
  <2>2. /\ store'.events = store.events \cup batch[Loop].events
        /\ \A l \in Lanes : store'.rows[l] =
             IF batch[Loop].rows[l] = NoRow THEN store.rows[l] ELSE batch[Loop].rows[l]
    BY <2>1, ApplyTypes
  <2>3. ASSUME NEW l \in Lanes, store'.rows[l] # NoRow
        PROVE  Backs(store'.events, l, store'.rows[l])
    <3>1. CASE batch[Loop].rows[l] = NoRow
      <4>1. Backs(store.events, l, store'.rows[l]) /\ store.events \subseteq store'.events
        BY <1>0, <2>2, <2>3, <3>1 DEF Backed
      <4> QED
        BY <4>1, BacksMore
    <3>2. CASE batch[Loop].rows[l] # NoRow
      <4>1. /\ Backs(store.events \cup batch[Loop].events, l, store'.rows[l])
            /\ store.events \cup batch[Loop].events \subseteq store'.events
        BY <1>0, <2>2, <3>2 DEF Backed
      <4> QED
        BY <4>1, BacksMore
    <3> QED
      BY <3>1, <3>2
  <2> QED
    BY <1>0, <2>1, <2>3, EmptyTypes DEF Backed
<1>4. CASE Rests
  BY <1>0, <1>4 DEF Rests, Backed
<1> QED
  BY <1>1, <1>2, <1>3, <1>4, CalmStep

-----------------------------------------------------------------------------
(* The reader.                                                             *)

\* What holds of the recorder at every moment.
RecorderInv ==
  /\ IInv /\ MarksInv /\ Seen /\ OpenUntilClosed
  /\ Calm => Ordered /\ Backed

LEMMA RecorderInvariance == Flushers = {} => (Spec => []RecorderInv)
<1> SUFFICES ASSUME Flushers = {}
             PROVE  Spec => []RecorderInv
  OBVIOUS
<1>1. Init => MarksInv /\ Seen /\ OpenUntilClosed /\ (Calm => Ordered) /\ (Calm => Backed)
  BY InitMarks, InitSeen, InitOrdered, InitBacked DEF Init, OpenUntilClosed
<1>2. /\ IInv /\ NothingUnattached /\ MarksInv /\ Seen /\ OpenUntilClosed
      /\ (Calm => Ordered) /\ (Calm => Backed)
      /\ [Next]_vars
      => (MarksInv /\ Seen /\ OpenUntilClosed /\ (Calm => Ordered) /\ (Calm => Backed))'
  BY StepMarks, StepSeen, StepOpen, StepOrdered, StepBacked DEF IInv
<1>3. /\ IInv /\ MarksInv /\ Seen /\ OpenUntilClosed /\ (Calm => Ordered) /\ (Calm => Backed)
      => RecorderInv
  BY DEF RecorderInv
<1> QED
  BY <1>1, <1>2, <1>3, Invariance, NothingUnattachedHolds, PTL DEF Spec

\* A row that was read is backed by what is stored, and once its events were read
\* too, by them; those are the first steps of the lane.
ReadInv ==
  /\ todo \subseteq Lanes
  /\ eventsRead \in [Lanes -> SUBSET Event]
  /\ Calm => \A l \in Lanes : rowsRead[l] # NoRow =>
       /\ Backs(store.events, l, rowsRead[l])
       /\ l \notin todo =>
            /\ Backs(eventsRead[l], l, rowsRead[l])
            /\ \A e \in eventsRead[l] : e.lane = l
            /\ \E n \in 0..ledger.seq[l] : Steps(eventsRead[l], l) = 1..n

LEMMA InitReadInv == ReadInit => ReadInv
BY DEF ReadInit, ReadInv, NoRows

\* Events stay stored and numbers only grow.
LEMMA CalmGrowth ==
  ASSUME Flushers = {}, RecorderInv, [Next]_vars, Calm'
  PROVE  /\ Calm
         /\ store.events \subseteq store'.events
         /\ \A l \in Lanes : ledger.seq[l] \in Nat /\ ledger'.seq[l] \in Nat
                             /\ ledger.seq[l] <= ledger'.seq[l]
<1> TypeOK /\ Pipeline /\ OpenUntilClosed
  BY DEF RecorderInv, IInv
<1> Loop \in Drainers
  BY DEF Drainers
<1>0. \A l \in Lanes : ledger.seq[l] \in Nat
  BY DEF TypeOK, Ledger
<1>1. CASE Recording /\ RecordingEffect
  <2>1. store' = store
    BY <1>1 DEF RecordingEffect
  <2>2. \A l \in Lanes : ledger'.seq[l] = ledger.seq[l] \/ ledger'.seq[l] = ledger.seq[l] + 1
    BY <1>1, LogsEvents DEF RecordingEffect
  <2> QED
    BY <1>0, <2>1, <2>2, CalmStep
<1>2. CASE Swaps(Loop)
  <2>1. store' = store /\ ledger'.seq = ledger.seq
    BY <1>2, SwapsEvents
  <2> QED
    BY <1>0, <2>1, CalmStep
<1>3. CASE Stores(Loop)
  <2>1. ledger' = ledger /\ store.events \subseteq store'.events
    BY <1>3, SettlesEvents
  <2> QED
    BY <1>0, <2>1, CalmStep
<1>4. CASE Rests
  BY <1>0, <1>4, CalmStep DEF Rests
<1> QED
  BY <1>1, <1>2, <1>3, <1>4, CalmStep

LEMMA StepReadInv ==
  ASSUME Flushers = {}, RecorderInv, ReadInv, [ReadNext]_<<vars, readVars>>
  PROVE  ReadInv'
<1> TypeOK /\ \A l \in Lanes : ledger.seq[l] \in Nat
  BY DEF RecorderInv, IInv, TypeOK, Ledger
<1> store.events \subseteq Event
  BY DEF TypeOK, Store
<1>1. CASE [Next]_vars /\ UNCHANGED readVars
  <2>1. UNCHANGED <<todo, rowsRead, eventsRead>>
    BY <1>1 DEF readVars
  <2> SUFFICES ASSUME Calm', NEW l \in Lanes, rowsRead[l] # NoRow
               PROVE  /\ Backs(store'.events, l, rowsRead[l])
                      /\ l \notin todo => \E n \in 0..ledger'.seq[l] : Steps(eventsRead[l], l) = 1..n
                      /\ l \notin todo => /\ Backs(eventsRead[l], l, rowsRead[l])
                                          /\ \A e \in eventsRead[l] : e.lane = l
    BY <2>1 DEF ReadInv
  <2>2. /\ Calm /\ store.events \subseteq store'.events
        /\ ledger'.seq[l] \in Nat /\ ledger.seq[l] <= ledger'.seq[l]
    BY <1>1, CalmGrowth
  <2>3. 0..ledger.seq[l] \subseteq 0..ledger'.seq[l]
    BY <2>2
  <2> QED
    BY <2>2, <2>3, BacksMore DEF ReadInv
<1>2. ASSUME NEW q \in Queries, ReadQuery(q)
      PROVE  ReadInv'
  BY <1>2 DEF ReadQuery, ReadInv, NoRows
<1>3. ASSUME UNCHANGED vars
      PROVE  Calm' = Calm /\ UNCHANGED <<store, ledger>>
  BY <1>3 DEF vars, storeVars, Calm
<1>4. CASE ReadLanes
  <2>1. /\ UNCHANGED <<vars, eventsRead>>
        /\ todo' = LanesOf(loading)
        /\ rowsRead' = [l \in Lanes |-> IF l \in LanesOf(loading) THEN store.rows[l] ELSE NoRow]
    BY <1>4 DEF ReadLanes
  <2>2. \A l \in Lanes : rowsRead'[l] # NoRow =>
          l \in todo' /\ rowsRead'[l] = store.rows[l] /\ store.rows[l] # NoRow
    BY <2>1 DEF LanesOf
  <2>3. todo' \subseteq Lanes
    BY <2>1 DEF LanesOf
  <2>4. Calm' => \A l \in Lanes : rowsRead'[l] # NoRow => Backs(store'.events, l, rowsRead'[l])
    BY <1>3, <2>1, <2>2 DEF RecorderInv, Backed
  <2> QED
    BY <2>1, <2>2, <2>3, <2>4 DEF ReadInv
<1>5. ASSUME NEW k \in Lanes, ReadEvents(k)
      PROVE  ReadInv'
  <2> DEFINE E == {e \in store.events : e.lane = k}
  <2>1. /\ UNCHANGED <<vars, rowsRead>> /\ k \in todo
        /\ todo' = todo \ {k} /\ eventsRead' = [eventsRead EXCEPT ![k] = E]
    BY <1>5 DEF ReadEvents
  <2>2. E \in SUBSET Event
    OBVIOUS
  <2>3. todo' \subseteq Lanes /\ eventsRead' \in [Lanes -> SUBSET Event]
    BY <2>1, <2>2 DEF ReadInv
  <2>4. ASSUME Calm, rowsRead[k] # NoRow
        PROVE  /\ Backs(E, k, rowsRead[k])
               /\ \A e \in E : e.lane = k
               /\ \E n \in 0..ledger.seq[k] : Steps(E, k) = 1..n
    <3>1. Backs(store.events, k, rowsRead[k])
      BY <2>4 DEF ReadInv
    <3>2. Steps(E, k) = Steps(store.events, k)
      BY DEF Steps
    <3>3. PICK s \in Nat, b \in Nat : InOrderUpTo(k, s, b)
      BY <2>4 DEF RecorderInv, Ordered
    <3>4. s \in 0..ledger.seq[k] /\ Steps(store.events, k) = 1..s
      BY <3>3 DEF InOrderUpTo
    <3> QED
      BY <3>1, <3>2, <3>4 DEF Backs, Named
  <2>5. /\ eventsRead'[k] = E
        /\ \A l \in Lanes : l # k => eventsRead'[l] = eventsRead[l] /\ (l \in todo' <=> l \in todo)
    BY <2>1 DEF ReadInv
  <2> HIDE DEF E
  <2>6. ASSUME Calm', NEW l \in Lanes, rowsRead'[l] # NoRow
        PROVE  /\ Backs(store'.events, l, rowsRead'[l])
               /\ l \notin todo' =>
                    /\ Backs(eventsRead'[l], l, rowsRead'[l])
                    /\ \A e \in eventsRead'[l] : e.lane = l
                    /\ \E n \in 0..ledger'.seq[l] : Steps(eventsRead'[l], l) = 1..n
    <3>1. Calm /\ store' = store /\ ledger' = ledger /\ rowsRead' = rowsRead
      BY <1>3, <2>1, <2>6
    <3>2. CASE l = k
      BY <2>4, <2>5, <2>6, <3>1, <3>2 DEF ReadInv
    <3>3. CASE l # k
      BY <2>5, <2>6, <3>1, <3>3 DEF ReadInv
    <3> QED
      BY <3>2, <3>3
  <2> QED
    BY <2>3, <2>6 DEF ReadInv
<1>6. CASE Loaded
  <2>1. UNCHANGED <<vars, todo, rowsRead, eventsRead>>
    BY <1>6 DEF Loaded
  <2> QED
    BY <1>3, <2>1 DEF ReadInv
<1> QED
  BY <1>1, <1>2, <1>4, <1>5, <1>6 DEF ReadNext, Reading

LEMMA ReadInvariance == Flushers = {} => (ReadSpec => []ReadInv)
<1> SUFFICES ASSUME Flushers = {}
             PROVE  ReadSpec => []ReadInv
  OBVIOUS
<1>1. RecorderInv /\ ReadInv /\ [ReadNext]_<<vars, readVars>> => ReadInv'
  BY StepReadInv
<1>2. ReadInit => ReadInv
  BY InitReadInv
<1> QED
  BY <1>1, <1>2, ReadsOfRecorder, RecorderInvariance, PTL DEF ReadSpec

\* However reads and drains interleave, what is read of a lane is its first steps
\* without gap.
THEOREM PrefixHolds == Flushers = {} => (ReadSpec => []PrefixRead)
<1> SUFFICES ASSUME Flushers = {}
             PROVE  ReadSpec => []PrefixRead
  OBVIOUS
<1>1. ReadInv => PrefixRead
  <2> SUFFICES ASSUME ReadInv, Calm, NEW l \in Lanes, IsRead(l)
               PROVE  \E n \in 0..ledger.seq[l] : {e.seq : e \in eventsRead[l]} = 1..n
    BY DEF PrefixRead, Calm
  <2>1. /\ \A e \in eventsRead[l] : e.lane = l
        /\ \E n \in 0..ledger.seq[l] : Steps(eventsRead[l], l) = 1..n
    BY DEF ReadInv, IsRead
  <2>2. {e.seq : e \in eventsRead[l]} = Steps(eventsRead[l], l)
    BY <2>1 DEF Steps
  <2> QED
    BY <2>1, <2>2
<1> QED
  BY <1>1, ReadInvariance, PTL

\* A row never runs ahead of the events read with it: they hold the step that
\* contaminated the lane, and a call whose response named the model the row names.
THEOREM RowsBacked == Flushers = {} => (ReadSpec => []RowBackedByEvents)
<1> SUFFICES ASSUME Flushers = {}
             PROVE  ReadSpec => []RowBackedByEvents
  OBVIOUS
<1>1. ReadInv => RowBackedByEvents
  BY DEF ReadInv, IsRead, Calm, Backs, Named, RowBackedByEvents
<1> QED
  BY <1>1, ReadInvariance, PTL

=============================================================================
