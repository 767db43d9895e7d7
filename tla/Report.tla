-------------------------------- MODULE Report --------------------------------
(***************************************************************************)
(* The report over a query with one shadow (amc/report.py), made at any    *)
(* moment from the events stored so far.  What happens to the two lanes is *)
(* drawn from a workload: their calls, how those end, what model calls use *)
(* and what the SDK reports of it.                                         *)
(***************************************************************************)
EXTENDS Trajectory, Fidelity, Latency, Cost, Efficiency

CONSTANTS
  Destructive,   \* tools whose invented answers count as drift
  Threshold,     \* contamination_threshold
  Vendor,        \* what each model really costs, None if the table has no entry for it
  Ranks,         \* percentiles asked for
  Workloads

TwoLanes == {"primary", "shadow"}

Workload ==
  [calls : SUBSET Call,
   outcomes : [TwoLanes -> SUBSET (Substituted \cup Ran \cup Raised \cup {Refused})],
   usages : [TwoLanes -> SUBSET Usage],
   waits : SUBSET Maybe(Millis),
   gaps : BOOLEAN,                              \* usage objects may be incomplete
   storings : SUBSET [Nodes -> Maybe(Nodes)],
   sdks : SUBSET {"openai", "anthropic", "gemini"},
   requested : [TwoLanes -> Maybe(Models)],
   max : Nat]                                   \* bound: events of both lanes

ASSUME ReportAssumption ==
  /\ Destructive \subseteq Tools /\ Threshold \in Nat \ {0}
  /\ Ranks \subseteq 0..100
  /\ \A w \in Workloads : w \in Workload

\* The table has the vendor's prices: a model costs what the entry says that fits its
\* name best, every other entry that fits being a prefix of that one.
ASSUME VendorAssumption ==
  /\ None \notin Models /\ None \notin Price
  /\ \A m \in Models :
       LET fitting == {k \in DOMAIN Prices : IsPrefix(k, m)}
       IN  IF fitting = {} THEN Vendor[m] = None
           ELSE \E k \in fitting : Vendor[m] = Prices[k] /\ \A other \in fitting : IsPrefix(other, k)

VARIABLES
  run,         \* the events (LaneEvent) of each lane, in the order of seq
  mark,        \* contaminated_at_step of the shadow, 0 for None
  stored,      \* the node name stored for a call made at a node
  sdk,         \* the SDK of the agent's client
  load

vars == <<run, mark, stored, sdk, load>>

\* What the recorder stores for a tool call, wherever it was made.
RecordedNode == [n \in Nodes |-> None]

Init ==
  /\ run = [l \in TwoLanes |-> <<>>]
  /\ mark = 0
  /\ load \in Workloads
  /\ stored \in load.storings /\ sdk \in load.sdks

Appends(l, e) ==
  /\ Len(run.primary) + Len(run.shadow) < load.max
  /\ run' = [run EXCEPT ![l] = Append(@, e)]
  /\ UNCHANGED <<stored, sdk, load>>

Ungrounded(e) == IsTool(e) /\ e.tool \in Destructive /\ e.source \in Invented

\* Mutant: every answer that was made up counts as drift.
MarkedByAny(lane) ==
  LET invented == {i \in DOMAIN lane : lane[i].source \in Invented}
  IN  IF Cardinality(invented) = Threshold /\ Len(lane) \in invented THEN Len(lane) ELSE mark

\* A shadow is marked once, at the event whose drift reaches the threshold.
Marked(lane) ==
  LET drift == {i \in DOMAIN lane : Ungrounded(lane[i])}
  IN  IF mark = 0 /\ Len(lane) \in drift /\ Cardinality(drift) >= Threshold THEN Len(lane) ELSE mark

ToolCalled(l, c, o) ==
  /\ Appends(l, ToolEvent(c, stored[c.at], o))
  /\ mark' = IF l = "shadow" THEN Marked(run'[l]) ELSE mark

ModelCalled(l, u, r, ms) ==
  /\ Appends(l, ModelEvent(u, ExtractUsage(sdk, r), ms))
  /\ UNCHANGED mark

MayRespond(u) == IF load.gaps THEN Responses(sdk, u) ELSE {FullResponse(sdk, u)}

Next ==
  \E l \in TwoLanes :
    \/ \E c \in load.calls, o \in load.outcomes[l] : ToolCalled(l, c, o)
    \/ \E u \in load.usages[l], ms \in load.waits : \E r \in MayRespond(u) : ModelCalled(l, u, r, ms)

Spec == Init /\ [][Next]_vars

-----------------------------------------------------------------------------
(* build_report.                                                           *)

LaneReport(l) ==
  LET fidelity == Summary(run[l])
  IN  [tokens |-> TokenTotals(run[l]), cost |-> CostForLane(run[l], load.requested[l]),
       latency |-> Profile(run[l]), fidelity |-> fidelity,
       loops |-> Loops(ToolCalls(run[l])),
       tools |-> [t \in Tools |-> PerTool(ToolCalls(run[l]), t)],
       excluded |-> LowFidelity(IF l = "shadow" THEN mark ELSE 0, fidelity)]

DivergenceReport ==
  LET p == ToolCalls(run.primary)
      s == ToolCalls(run.shadow)
  IN  [steps |-> Aligned(p, s), point |-> DivergenceStep(p, s), mismatches |-> Mismatches(p, s),
       shared |-> Shared(p, s), union |-> Union(p, s), onlyPrimary |-> OnlyIn(p, s),
       onlyShadow |-> OnlyIn(s, p), match |-> Match(p, s)]

-----------------------------------------------------------------------------
(* Properties of the comparison.                                           *)

p == ToolCalls(run.primary)
s == ToolCalls(run.shadow)
StoredNames == {stored[n] : n \in Nodes}

\* Both lanes called the same tools at node n, in the same order.
AlikeAt(n) ==
  LET at(lane) == Select(lane, LAMBDA c : c.at = n) IN Names(at(p)) = Names(at(s))

\* The names stored tell every two nodes apart.
NodesTold == \A m, n \in Nodes : stored[m] = stored[n] => m = n

\* Every call of either lane is compared exactly once, under the node name stored
\* for it and in the order the lane made its calls there.
EveryCallCompared ==
  LET steps == DivergenceReport.steps IN
  \A n \in StoredNames :
    LET at == Select(steps, LAMBDA st : st.node = n)
        side(f) == Select([i \in DOMAIN at |-> at[i][f]], LAMBDA c : c # None)
    IN  side("a") = Visits(p, n) /\ side("b") = Visits(s, n)

\* A difference is reported at a stored node name if and only if the lanes chose
\* differently under that name, whatever was called under others.  Where the names stored
\* tell the nodes apart, the order in which parallel nodes run never shows up as a
\* divergence: there is one exactly where a node's own calls differ.  The recorder names
\* no node of a tool call (recorder.py:213-238), see NoSchedulingNoise.
DivergesWhereNodesDiffer ==
  LET r == DivergenceReport
      apart == {n \in StoredNames : Names(Visits(p, n)) # Names(Visits(s, n))}
  IN  /\ r.point = 0 <=> apart = {}
      /\ {r.steps[i].node : i \in {k \in DOMAIN r.steps : Differs(r.steps[k])}} = apart
      /\ NodesTold => (r.point = 0 <=> \A n \in Nodes : AlikeAt(n))

\* No divergence and no argument mismatch mean that the lanes made the same calls
\* under every stored node name up to spelling, and only then.
CleanMeansSameCalls ==
  LET r == DivergenceReport
      keys(lane) == [i \in DOMAIN lane |-> Key(lane[i])]
  IN  r.point = 0 /\ r.mismatches = <<>> <=>
        \A n \in StoredNames : keys(Visits(p, n)) = keys(Visits(s, n))

\* The measures agree with each other: the matching modes among themselves, with the
\* multiset overlap, and with the divergence when nothing names a node.
MeasuresAgree ==
  LET r == DivergenceReport
      m == r.match
  IN  /\ m.unordered <=> m.subset /\ m.superset
      /\ m.unordered <=> r.shared = r.union
      /\ m.strict => m.unordered
      /\ m.subset => r.onlyPrimary = {} /\ r.shared = Len(p)
      /\ r.point = 0 => m.unordered
      /\ StoredNames = {None} => (m.strict <=> r.point = 0)

\* Steps at which both lanes made a call, and not the same one.
SettledDifferences(a, b) ==
  {st \in ToSet(Aligned(a, b)) : Differs(st) /\ None \notin {st.a, st.b}}

\* A report made while a lane still runs is right about the calls both lanes have made:
\* two calls said to differ are never said to agree later, and what the valid part of a
\* contaminated shadow shows of two calls stays in the report.
DifferencesAreSettled ==
  [][\A now \in {run'} :
       SettledDifferences(p, s)
         \subseteq SettledDifferences(ToolCalls(now.primary), ToolCalls(now.shadow))]_vars

\* architecture.md:161-163, "arrival order varies for scheduling reasons unrelated to
\* the model. Comparing position 3 against position 3 reports noise as divergence":
\* lanes that chose alike at every node are not said to diverge.
NoSchedulingNoise == (\A n \in Nodes : AlikeAt(n)) => DivergenceReport.point = 0

-----------------------------------------------------------------------------
(* Properties of a lane's figures.                                         *)

Did(l, what) == Number(run[l], LAMBDA e : e.did = what)

\* The two modules that read latencies agree, nothing is in both the measured and the
\* substituted figure, and what is left out is exactly the calls that raised.
LatencyAddsUp ==
  \A l \in TwoLanes :
    LET r == LaneReport(l)
        raised == TotalMs(Select(run[l], LAMBDA e : e.did = "raised"))
    IN  /\ r.fidelity.measured + r.latency.llm = TotalMs(r.latency.measured)
        /\ r.fidelity.substituted = TotalMs(r.latency.substituted)
        /\ r.latency.tool + r.latency.llm = TotalMs(r.latency.combined)
        /\ TotalMs(run[l]) = TotalMs(r.latency.combined) + raised

\* latency.py:19, "Nearest-rank percentile": the smallest observed value that at least
\* r percent of the observed values do not exceed, and None for no value.
NearestRank ==
  \A l \in TwoLanes : LET profile == Profile(run[l]) IN
    \A xs \in {profile.measured, profile.combined}, r \in Ranks :
      LET atMost(v) == Number(xs, LAMBDA e : e.latency <= v)
          reached == {v \in {xs[i].latency : i \in DOMAIN xs} : 100 * atMost(v) >= r * Len(xs)}
      IN  Percentile(xs, r) = IF xs = <<>> THEN None ELSE Min(reached)

\* A lane that drifted leaves the headline comparison, and so does one more than half of
\* whose calls were answered without executing them; a lane leaves for nothing less, a
\* call that raised counting as one that was not executed.  Excepted from the last is a
\* lane with a refused call, which virtual-tool-layer.md:157 wants contaminated and which
\* the code lets stay.  A shadow drifted at the event with which its ungrounded
\* destructive calls reached the threshold, and for good.
VerdictFollowsExecution ==
  /\ \A l \in TwoLanes :
       LET drifted == l = "shadow" /\ Number(run.shadow, Ungrounded) >= Threshold
           unreal == Did(l, "substituted") + Did(l, "refused")
           mostly(n) == n > Did(l, "ran")
           excluded == LaneReport(l).excluded
       IN  /\ drifted \/ mostly(unreal) => excluded
           /\ excluded /\ Did(l, "refused") = 0 => drifted \/ mostly(unreal + Did(l, "raised"))
  /\ mark # 0 => LET valid == SubSeq(run.shadow, 1, mark)
                 IN  Number(valid, Ungrounded) = Threshold /\ Ungrounded(Last(valid))

\* The loops are exactly the longest stretches of one repeated call, each once and in
\* the order of their first steps.
LoopsAreLongestRuns ==
  \A calls \in {p, s} :
    LET loops == Loops(calls)
        same(i, j) == Key(calls[i]) = Key(calls[j])
        longest == {r \in [start : DOMAIN calls, length : 2..Len(calls)] :
                      LET end == r.start + r.length
                      IN  /\ end <= Len(calls) + 1
                          /\ \A k \in r.start..(end - 1) : same(r.start, k)
                          /\ r.start > 1 => ~same(r.start, r.start - 1)
                          /\ end <= Len(calls) => ~same(r.start, end)}
    IN  /\ ToSet(loops) = longest /\ Len(loops) = Cardinality(longest)
        /\ \A i, j \in DOMAIN loops : i < j => loops[i].start < loops[j].start

\* A tool is retried at most once for each of its errors, the last error of a lane is not
\* retried yet, and a call repeated until it succeeds is retried each time but the first.
RetriesFollowErrors ==
  \A l \in TwoLanes :
    LET calls == ToolCalls(run[l])
        r == LaneReport(l)
    IN  /\ \A t \in Tools : LET st == r.tools[t]
                            IN  st.retries <= st.errors /\ (st.calls > 0 => st.retries < st.calls)
        /\ calls # <<>> /\ Failed(Last(calls)) =>
             LET st == r.tools[Last(calls).tool] IN st.retries < st.errors
        /\ \A i \in DOMAIN r.loops :
             LET lp == r.loops[i]
                 failing == \A k \in lp.start..(lp.start + lp.length - 2) : Failed(calls[k])
             IN  failing => r.tools[calls[lp.start].tool].retries >= lp.length - 1

-----------------------------------------------------------------------------
(* Properties of the cost.                                                 *)

\* What the vendor bills for the model calls of a lane.
Bill(asked) ==
  LET billed(used, price) == used.fresh * price.fresh + used.cached * price.cached + used.out * price.out
  IN  Sum([i \in DOMAIN asked |-> billed(asked[i].used, Vendor[asked[i].used.model])])

\* One model made all calls, the prompt counts contain the cached tokens and where a
\* count is given the cached one is too: what the code cannot know is left out.
Accountable(asked) ==
  /\ sdk # "anthropic"
  /\ \A i \in DOMAIN asked : /\ asked[i].used.model = Last(asked).used.model
                             /\ asked[i].in # None /\ asked[i].cached = None => asked[i].used.cached = 0

\* A lane is priced exactly when the table has an entry for its model.  Its cost is never
\* more than what the vendor bills, report.py:238-239, a "lower bound" whichever counts
\* are missing, and it is the bill unless it is marked as partial.
CostBoundsTheBill ==
  \A l \in TwoLanes :
    LET asked == ModelCalls(run[l])
        cost == LaneReport(l).cost
    IN  asked # <<>> =>
          /\ cost.priced <=> Vendor[Last(asked).used.model] # None
          /\ Accountable(asked) /\ cost.priced =>
               /\ cost.total <= Bill(asked)
               /\ ~cost.incomplete => cost.total = Bill(asked)

=============================================================================
