-------------------------------- MODULE Latency --------------------------------
(***************************************************************************)
(* amc/analysis/latency.py: percentiles, and the profile of a lane with    *)
(* measured and substituted latencies kept apart.                          *)
(***************************************************************************)
EXTENDS LaneEvents

\* sorted(), by insertion.
Inserted(xs, v) == Select(xs, LAMBDA w : w <= v) \o <<v>> \o Select(xs, LAMBDA w : w > v)

InOrder(lane) == FoldLeft(Inserted, <<>>, [i \in DOMAIN lane |-> lane[i].latency])

\* Mutant: the rank is rounded down.
PercentileRoundedDown(lane, r) ==
  LET xs == InOrder(lane)
      rank == (r * Len(xs)) \div 100
  IN  IF xs = <<>> THEN None ELSE IF rank = 0 THEN xs[1] ELSE xs[rank]

\* Nearest rank: the value at ceil(r/100 * N).
Percentile(lane, r) ==
  LET xs == InOrder(lane)
      rank == (r * Len(xs) + 99) \div 100
  IN  IF xs = <<>> THEN None ELSE IF r = 0 THEN xs[1] ELSE xs[Min({rank, Len(xs)})]

\* Mutant: whatever has a latency is counted.
ProfileOfAll(lane) ==
  LET timed == Select(lane, LAMBDA e : e.latency # None)
      measured == Select(timed, LAMBDA e : ~IsSubstituted(e))
      substituted == Select(timed, IsSubstituted)
  IN  [measured |-> measured, substituted |-> substituted, combined |-> measured \o substituted,
       tool |-> TotalMs(ToolCalls(timed)), llm |-> TotalMs(ModelCalls(timed))]

\* A latency without a source is counted neither way.
Profile(lane) ==
  LET timed == Select(lane, LAMBDA e : e.latency # None /\ (IsMeasured(e) \/ IsSubstituted(e)))
      measured == Select(timed, IsMeasured)
      substituted == Select(timed, IsSubstituted)
  IN  [measured |-> measured, substituted |-> substituted, combined |-> measured \o substituted,
       tool |-> TotalMs(ToolCalls(timed)), llm |-> TotalMs(ModelCalls(timed))]

=============================================================================
