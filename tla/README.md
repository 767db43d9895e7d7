# A TLA+ model of agent-model-compare

`amc` wraps an agent's entry point with `@shadow`: the primary model answers the
caller, and the same agent is run again in the background on other models
("shadows") whose side effects must be contained. Every lane's steps are
recorded to a store, and a report compares the lanes afterwards. This directory
holds the specifications of the parts that run concurrently and of the analysis,
the TLC configurations that check them on small instances, and TLAPS proofs for
every instance.

    tlc -workers 2 -config MCReadback.cfg MCReadback     # any row of "Runs"
    tlapm RecorderProofs.tla                             # any *Proofs.tla

## 1. Inventory

| part | source | state | operations | talks to |
|---|---|---|---|---|
| runner | `amc/runner.py` | the background tasks | wrap a call: sample, await the primary, spawn shadows, finish lanes, check collisions | recorder (rows), overlays (teardown), provider check |
| recorder | `amc/recorder.py` | a row, a step count and a divergence count per lane; three buffers; the flush task; `_closed` | `start`, `start_query`, `start_lane`, `finish_lane`, `mark_collision`, `record_tool_event`, `record_model_call`, `flush`, `aclose` | store, through threads; interceptor, as its sink |
| store | `amc/store.py` | three tables, a connection, a lock | `write` (one transaction), reads, `close` | called from the thread pool |
| policy | `amc/policy.py` | none | `classify` | operator's config, MCP annotations, HTTP methods |
| interceptor | `amc/interceptor.py` | the sink | decide per tool call: real, virtual, stub; capture fixtures; emit events | lane context, policy, virtual layer, recorder |
| virtual layer | `amc/virtual/` | fixtures (process-wide), one overlay per lane | `resolve`, `dispatch`, latency replay | interceptor |
| lane context | `amc/context.py` | a context variable | `lane_scope`, `current_lane` | runner, interceptor, provider |
| provider | `amc/provider/` | patched clients | override the model of a request, read the observed model and the usage, collision check | recorder, runner |
| fidelity | `amc/fidelity.py` | none | counts of a lane's calls by source, the low-fidelity verdict | report |
| analysis | `amc/analysis/` | none | load a run; align and compare calls; latency profile; cost; loops and retries | store (reads), report |
| report | `amc/report.py` | none | `build_report`, rendering | analysis, fidelity |

How they interact. The runner calls the recorder's methods synchronously; a
handler never waits, so what runs between two awaits is one step. The recorder
hands batches to a thread with `asyncio.to_thread`, which is where two drains
overlap. The interceptor calls the recorder through one process-wide sink, after
the tool or after the replayed latency; a synchronous tool that the agent runs in
a worker thread calls it there. The virtual layer shares its fixtures between
all lanes and keeps an overlay per lane, discarded when the lane's agent callable
is over. The lanes of a query share the agent's SDK clients; a client is patched
once, and its requests name the model of whichever lane they are made in. The
report reads the store, possibly while the recorder still writes to it.

What is hard. Up to three kinds of task drain at once (flush loop, `flush()`,
`aclose()`), and cancelling a task does not stop its thread. Failure of a write
kills the flush loop. Queries, lanes and branches of a lane interleave at every
await; lanes are cancelled, may call another wrapped function, and may leave
tasks behind. Fixtures come and go while shadows read them. A load makes one
read per lane, with drains in between. The lanes that the analysis compares fan
out, repeat, fail, drift and differ in length, and what providers report has
gaps. `PROJECT.json` lists each hazard at its line with the property that covers it.

What makes each part correct:

- recorder and store: nothing recorded is duplicated, renumbered or silently
  forgotten; the store is readable and current; contamination is marked at the
  right step; what is read while recording is a prefix; shutting down ends.
- runner and provider: the primary waits for nobody, no lane is served another
  lane's model, a collision is caught and stays caught, shadows exist only under
  a sampled query that succeeded, rows are filed under their own query, overlays
  go with their lane.
- boundary: nothing forbidden runs for real, whatever interleaves; what shadows
  are served was observed by a primary, written by themselves, or reported as
  drift.
- analysis: every call is compared once, with the right one; verdicts follow
  what was executed; figures add up and never exceed what was spent; what a
  report says of two calls still stands when more calls arrive.

## 2. Modules

| module | models | state and actions |
|---|---|---|
| `LaneLedger` | the recorder's memory as a record, and each `record_*` method as an operator from ledger to ledger | `StartQuery`, `StartLane`, `FinishLane`, `MarkCollision`, `RecordToolEvent`, `RecordModelCall`, the swap of `_drain`, what is made of calls for lanes the recorder does not know |
| `Recorder` | the recorder with its store | recording handlers (`DoStart...`), `FlushCall/Resume/End`, `LoopWake/Resume`, the pool (`Pickup`, `Commit`, `Fail`), `aclose()` in its three entries (`AcloseNoTask`, `AcloseCancel`, `AcloseDead`) and its continuation |
| `Journal` | what the recorder promises, in four variables | `Record`, `Persist`, `Drop` |
| `Readback` | `load_query` over the store's reads, while `Recorder` runs | `ReadQuery`, `ReadLanes`, `ReadEvents`, `Loaded` |
| `ThreadedRecorder` | `record_tool_event` in worker threads and on the loop, `record_model_call` on the loop, one step per access to shared data | `Begins`; `LooksAtRow`, `Renames` for a model call; `ReadsCount`, `WritesCount`, `BindsList`, `Appends` for both; `ReadsTally` ... `ReplacesRow` for an ungrounded answer; `Swap`, `Write` on the loop and in the store's thread |
| `ShadowRun` | the runner, over the same ledger | `Call`, `PrimaryReturns/Raises`, `ShadowStarts/NeverStarts/Returns/Raises`, `Abandoned`, `ModelCall`, `ToolCall` |
| `Override` | the three adapters' `override_model`, over `ShadowRun` | `Install`, `Send`, `Receive`, and the runner's actions |
| `ToolBoundary` | policy, interceptor and the virtual layer | `StubCall`, `RealCall/Return/Raises`, `VirtualCall`, `SleepEnds`, `LaneEnds` |
| `LaneEvents` | the events of a lane as the analysis reads them | none: records and the helpers shared by the next five |
| `Fidelity`, `Latency`, `Efficiency`, `Cost`, `Trajectory` | `fidelity.py`; `analysis/latency.py`, `efficiency.py`, `cost.py` (with `extract_usage`), `selection.py` | none: pure operators |
| `Report` | `build_report` over two lanes that grow by any event of a workload | `ToolCalled`, `ModelCalled` |
| `LaneLedgerProofs`, `RecorderProofs`, `ReadbackProofs`, `ThreadedRecorderProofs`, `ShadowRunProofs` (with `Override`), `ToolBoundaryProofs`, `LaneEventsProofs`, `ReportProofs` (with the five before it) | the theorems about the module in their name | |
| `MC...` | the instances TLC checks | |

`LaneLedger` is used by `Recorder` (where the rows go) and by `ShadowRun` (who
writes the rows), so the two share one translation of the recorder's methods.
`Readback` extends `Recorder`, `Override` extends `ShadowRun`: each takes the
actions of the module it extends and adds its own.

Operators named in a comment as *mutants* are plausible bugs of the definition
that follows them. Replacing the definition by its mutant makes TLC refute the
property paired with it in `PROJECT.json`; nothing else uses them.

What the data abstracts to. A row keeps its query, status, observed model and
contamination step; an event keeps lane, step, whether it was ungrounded and, for a
model call, the model its response named (the table keeps the name asked for; the
observed one is carried so that the row can be compared with the calls behind it). A
contamination step of 0 stands for None. An answer of the virtual layer keeps
its identifier, its source and the arguments of the record it answers. For the
analysis an event keeps tool, arguments, node, source, latencies and token
counts; arguments are members of a set with a function `Canon` to their canonical
form, and a model's name is the sequence of its segments, so that the table's
longest-prefix rule keeps its meaning. Three fields of an event are the truth
that no row keeps (`at`, `did`, `used`): the properties compare the report with
them. Payloads, timestamps and wording are left out.

Grain. A handler is one step, except at an await. A job handed to a thread is
`queued`, `running`, then `ok` or `failed`; its task goes on in a later step.
`SqliteStore.write` holds a lock and commits or rolls back, so it is one step,
and each `read_*` is one statement under the same lock, another. A real tool call
is two steps, a virtual one is two when latency is replayed, a model call under
`Override` is two, the request and the response. A synchronous tool on the loop
returns in the turn that called it, which is the case of no step in between; in a
worker thread (`ThreadedRecorder`) the interpreter may switch between any two
accesses to a dict, list or set.

## 3. Runs

| run | config | question | result |
|---|---|---|---|
| recorder_loop | `MCReadback.cfg` | with one drainer and no failure, are steps dense, the store readable and current, marks right, is what is read meanwhile a prefix of each lane, and does it back what the row says? | holds (1.86 million states) |
| recorder_races | `MCRecorderRaces.cfg` | with `flush()`, loop and `aclose()` racing and a failing write, is anything duplicated or forgotten? does it implement `Journal`? is everything stored in the end, does `aclose()` end? | holds (351,000) |
| threads | `MCThreadedRecorder.cfg` | is a lane exact that makes one call at a time, on the loop or in any thread, next to a lane whose calls overlap? | holds (2.04 million) |
| recorder_flush | `MCRecorderFlush.cfg` | is what was recorded before `flush()` stored when it returns? | violated |
| recorder_close | `MCRecorderClose.cfg` | is the store complete once `aclose()` closed it? | violated |
| recorder_death | `MCRecorderDeath.cfg` | does the background loop always drain? | violated |
| shadow_run | `MCShadowRun.cfg` | are collisions caught, lanes attributed, overlays torn down, primaries undelayed? | holds (2.5 million) |
| override | `MCOverride.cfg` | does a client shared by lanes keep their models apart, is a failed override caught, do endings stay, with a task that outlives its lane? | holds (1.0 million) |
| shadow_nested | `MCShadowRunNested.cfg` | can a shadow cause real effects through a nested wrapper? | violated |
| tool_boundary | `MCToolBoundary.cfg` | containment, grounded fixtures, read-your-writes where the virtual layer answers, timely drift | holds (1.31 million) |
| report | `MCReport.cfg` | alignment, divergence, matching modes, latency, verdicts, loops, retries and cost, at any moment of any workload | holds (229,000) |
| trajectory_noise | `MCReportNoise.cfg` | are lanes that chose alike at every node said not to diverge? | violated |

What the five violations show, in order: (1) `flush()` swaps empty buffers and
returns while the flush loop's thread still holds the rows; (2) `aclose()`
cancels the flush loop in the middle of a write and does not wait for the
thread; (3) one exception ends the flush loop and `_ensure_flush_loop` never
starts another; (4) the wrapper makes a primary lane whatever lane calls it;
(5) the recorder stores no node name for a tool call, so alignment by node never
happens, and parallel branches that finish in another order count as divergence
(`selection.py:76-78` and `roadmap.md:380-382` admit the positional fallback; the
run shows what it costs).
Each is quoted against the text it disagrees with under "findings".

Disagreements met while modelling that have no run of their own; the properties
except them where they matter, and the exception says so:

- A lane that ends after the final drain of `aclose()` is never stored.
- Calls that overlap in one lane, in two worker threads or in one and on the loop, can
  take the same step number; a late append can go to a list already taken and written; a
  model call can put back a row without its mark.
- A shadow's read that may run for real, as `readOnlyHint` lets it by default, never
  consults the overlay: a shadow that creates a user does not see it in `get_user`,
  which virtual-tool-layer.md:68-72 says it does.
- A shadow that raises is kept as an error and never compared with its primary.
- The collision check compares the last observed models only, and only with the
  primary's: earlier calls on the wrong model, and two shadows on one model, pass.
- A task that outlives its lane opens an overlay nobody discards and goes on
  reporting models in a row whose collision check is over.
- An overlay base holds records where `resolve` unpacks pairs, so a read from it raises.
- An identifier that a template supplies makes invented records collide.
- A refused call does not contaminate a shadow, though virtual-tool-layer.md:157 says
  `block` marks the lane; it only counts as not real.
- The divergence section compares a contaminated shadow beyond the step of its mark.
- A real call that raises has no source and counts as not real.
- A missing cached count next to a prompt count is taken for 0 and raises the cost
  without a mark; unreported counts are printed as 0; a lane served by several
  models is priced at the last one; Anthropic's prompt count lacks the cached
  tokens that the cost subtracts from it.
- Parallel branches interleave in arrival order, which hides a loop in one of them.

Bounds, and why they are enough.

- `MCReadback`: one lane, one query, two models, three events with threshold 2: below,
  at and past the threshold, with model calls before or between; the load goes
  on while batches are taken and committed, and may be repeated. Rows of two
  lanes do not interact in the ledger; the proofs cover any number. No failure
  and no flusher: the properties of this run are about that case.
- `MCRecorderRaces`: one flusher, the loop and the closer can all hold a batch
  at once, one of them may fail. One event is enough to be in two places; the
  proofs cover any number.
- `MCThreadedRecorder`: two threads and the loop, two lanes of two calls of any kind,
  threshold 2, one drain. One lane makes one call at a time, in a different thread each
  time if it likes; the other overlaps its calls, so that numbers repeat there and a list
  is written before its last append, next to the lane that is exact. A mark put back
  takes three overlapping calls and is left to the proof, which covers any number.
- `MCShadowRun`: a query with two shadows and one with one; each may be called
  from any lane of the other; one event per lane, threshold 1. Symmetry is not used.
- `MCOverride`: one query with a primary on the agent's model and two shadows, the last
  of which leaves a task behind; two clients, of which one has requests the adapter
  rewrites; two events per lane, so that the last report differs from the first.
- `MCToolBoundary`: one primary with two calls, a shadow with two, another with
  one, and a branch without a lane; two payloads; six ways to declare the create
  tool, chosen around the edges of `classify`, next to a read tool that is served
  virtually, and a read tool with `readOnlyHint`, which runs for real. Payloads are
  symmetric and no liveness is checked there.
- `MCReport`: five workloads, each varying what one part of the report reads and
  keeping the rest fixed. *TwoNodeChoices*: up to four calls over two lanes and two
  nodes, of a tool with three spellings of arguments, two of them equal, or of one
  with a single spelling, and both, one or none of the node names stored. *Endings*:
  four events of a shadow, every source and outcome with and without latency. *Repeats*: five calls, which is a loop of four next to
  another call, or two loops. *Drift*: four events in two lanes at threshold 2.
  *Spending*: two model calls, every usage with any part missing, three SDKs.

Deadlock is not checked: a process in which all lanes are over, the bounds are
used up and the recorder is closed may stop.

Fairness. `Recorder!FairSpec`: a ready task is run by the event loop, a ready
job by the pool, and a write ends. `ShadowRun!FairSpec`: an agent called as a
primary eventually returns, raises or is cancelled; nothing is assumed of
shadows, which is the point of `PrimaryNeverWaits`. Callers owe nothing: they
may stop recording, never flush and never close.

## 4. Proofs

All theorems hold for all values of the constants under the named ASSUMEs of the
modules they are about: special values are distinct (`EventAssumption`,
`NoneAssumption`, `RequestAssumption` ...), bounds are numbers, a minted identifier is no
real one, which is the purpose of the prefix `Overlay.new_id` adds
(`BoundaryAssumption`), and the price table is right (`VendorAssumption`). Each is listed under "theorems" in `PROJECT.json` with the property it states.

`LaneLedgerProofs` says once what each ledger operator does to rows, counters,
events and the dirty set; the recorder's and the runner's proofs rest on it.

`RecorderProofs`: `TypeCorrect`, `OnePlaceHolds`, `DenseStepsHold`,
`NothingUnattachedHolds`, and `RecorderIsAJournal`, the refinement of `Journal`
under count = step counters, pending = buffer and batches, durable = the events
table, dropped = the batches lost. `OnePlace` is not inductive alone: that a new
event is in no batch follows from its number being above all numbers of its lane,
which is part of `DenseSteps`; and that a committed batch leaves nothing behind
needs that an idle drainer holds no batch. The inductive invariant `IInv` is
`TypeOK`, that pipeline fact, and the event invariants together. `StepKind` first
shows that every action is one of five kinds as far as events are concerned
(records one event, swaps the buffers into an empty batch, commits, loses, or
leaves them alone), so that each conjunct is proved per kind and not per action.

Its second part is about the rows: `ContaminationHolds` for any drainers, from `MarksInv`: the
divergence counter is the number of ungrounded events recorded, a cardinality that
one new event raises by one. `ReadableHolds` and `CurrentHolds` are proved under
`Flushers = {}`, which the properties need: with `flush()` racing, whole rows are
upserted in the order of the threads. Their invariant says that, while the
recorder is open and nothing failed, at most the loop holds a batch, every event
or row on its way has its lane and query at most as far behind as itself, and a row
that is neither dirty nor in that batch is the stored one.

`ReadbackProofs`: `PrefixHolds` and `RowsBacked`, under the same condition.
The stored, the batched and the buffered steps of a lane are consecutive intervals
(`Ordered`), so the events table holds a prefix at every moment; and a call
that named the model a row names, like the one that contaminated it, is stored no later
than the row (`Named`, `Backed`). A read takes a
snapshot; commits afterwards only add. `ReadsOfRecorder` shows that reading is a
stutter of `Recorder`, so that its invariants carry over.

`ShadowRunProofs`: types, `ShadowsAfterPrimary`, `FiledRight`, `NoCollisionKept`,
`NoOverlayLeft`, and the action properties `VerdictsStay` and `EndingsStay`.
`IInv` adds to the properties that a lane has a row exactly if its task got far
enough (`RowPerTask`), and that a row is open until its lane is over, so that the
comparison with the primary is made with a primary whose row is final.

Its second part is about `Override`: `ImplementsRunner` (`OverrideSpec => Spec`: a lane that is served
the model it asked for is one that may be served any), hence the theorems about
`ShadowRun` hold under `Override`; `NoLeak` and `FailureCaught`, from an invariant
that relates the request a lane waits for, and the last model its row observed, to
what the clients can have named in that lane.

`ToolBoundaryProofs`: `TypeCorrect`, `ContainedHolds`, `FixturesGroundedHolds`,
`ReadYourWritesHolds`, `DriftIsCountedHolds`, and `InventedStayApartHolds` under
`TemplatesWithoutIds`. `Contained` is inductive alone: nothing declared changes
later, so a permission that held when a tool ran holds for good. `ReadYourWrites` needs `Kept`: what a running
shadow was told of is filed under its identifier, or a later record is.
`InventedStayApart` needs `Apart`, the numbers of invented records are at most the
overlay's counter, together with `RealFixtures`. `DriftIsCounted` needs that the
invented records are finitely many, and that an invented creation is reported in
the very step that files it: it replays no latency. `StepFrame` reduces every step
to the one action that touches a group of variables.

`ThreadedRecorderProofs`: `OneCallExact`. Every access to shared data is a step, so
the invariant says, for each place at which a caller may be in a call of a sequential
lane, that what it has read of its lane is still true there: the count, the
tally, the row. No other caller is in that lane, and neither a drain nor a handler of
another lane touches them. It holds for any number of threads, whichever of them a
call runs in, and with a model call on the loop like any other.

`ReportProofs`: all eleven properties of `Report`, for lanes of any length over any
tools, nodes and arguments. The invariant is small: each lane holds events that can
happen, and the mark is where `Marked` put it. The work is in what the analysis
computes from such lanes, which is recursion over sequences, and the library's
induction theorems cannot be used. The proofs take the least
number at which a statement fails instead, and a set of sequences where induction
would need a predicate. For that, `Select` is a recursive function (`Picked`)
and not the built-in `SelectSeq`, and sums and sorting are folds whose step is shown
once (`LaneEventsProofs` and the sections on sums and order). The arguments:

- *alignment*: a node's part of `Aligned` is its two visits, paired; a filter by node
  of the concatenation over all nodes is that part (`AllCompared`, and from it
  `DivergesRight`, `CleanIsRight`). These speak of the node names as stored, which the
  recorder leaves out for tool calls; where the names tell the nodes apart, a stored
  name's visits are the node's, whatever order the nodes ran in. `DifferencesStay` needs that a lane which grows
  extends each of its visits, so that pairs with two calls stay pairs.
- *measures*: a multiset is the set of its copies, so that the sizes of intersections
  and unions are cardinalities of finite sets.
- *latency*: a sum over a sequence is the sum over its parts by any test;
  insertion keeps order and the number of values up to any bound, which
  makes the value at the nearest rank the smallest one that enough do not exceed.
- *loops and retries*: the recursion of `Loops` has a solution, shown from the end of
  the calls backwards; where a run begins it returns that run, if it is a loop, and
  what it returns from the run's end. Retries and errors are sets of positions, and
  each retry has the error just before it.
- *cost*: what is reported of a prompt is at most what was used of it, count by count,
  so each charge is at most its bill, and equal if nothing is missing. This needs
  `VendorAssumption`, the table has the vendor's prices: without it no bound on
  the bill could hold.

Only model-checked: liveness (`EventuallyStored`, `AcloseEnds`,
`PrimaryNeverWaits`), which TLAPS cannot do under fairness.

## 5. Not modelled

- The SDKs themselves. What their responses hold is taken from how the adapters
  read them; that Anthropic counts cached prompt tokens apart is its convention.
- `run_in_thread` copies the context and so keeps the lane; that copying is the
  interpreter's. A call that lost its lane is in `ToolBoundary` and `Override`.
- Cancellation of a task waiting in `flush()`, a second `Recorder` in the
  process, and `start()` after `aclose()`.
- `on_shadow_error` and `on_model_collision` raising: it changes no modelled
  state, the task's exception goes to the loop.
- Crash of the process: SQLite's own recovery is trusted; what was buffered is
  gone, as after a lost batch.
- A handler called where no loop runs, whose `_ensure_flush_loop` returns without a task
  (recorder.py:104-105): `Recorder`'s handlers run on the loop. What is recorded off it
  waits for a handler on the loop, `flush()` or `aclose()`.
- A response that is no dict is not filed in the overlay (dispatch.py:77); the
  model's writes answer dicts. Overlay keys are identifiers, of one entity.
- The counts of distinct and redundant calls, which no property is about.
- `Overlay.delete`, tombstones and `keys`, and the sources `SAMPLED` and `MEDIAN`,
  which nothing in the package uses; the values schema synthesis fills in.
- The rendering of the reports, sums of latency per node, the divergence sentence.
- `percentile` computes `ceil(q / 100 * n)` in floating point; the model computes it
  exactly. The report asks for 50 and 95 only.
- Lanes whose responses name no model: `Cost` prices by the last name reported.

## 6. What is left

1. `Recorder` composed with `ShadowRun`, so that collision verdicts are followed to
   the store: today the two share `LaneLedger` only.
2. `flush()` racing the loop in `Readback`, with the properties that remain true.
3. More than one shadow in `Report`: the comparison of shadows with each other is
   a row of the report, but no two shadows are aligned with one another.
