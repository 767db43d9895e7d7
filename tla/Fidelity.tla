------------------------------- MODULE Fidelity -------------------------------
(***************************************************************************)
(* amc/fidelity.py: how much of a lane was executed for real, and whether  *)
(* that is too little for a comparison.                                    *)
(***************************************************************************)
EXTENDS LaneEvents

Summary(lane) ==
  LET tools == ToolCalls(lane)
      from(src) == Number(lane, LAMBDA e : IsTool(e) /\ ~e.blocked /\ e.source = src)
  IN  [calls |-> Number(lane, IsTool), real |-> from("real"), fixture |-> from("fixture"),
       schema |-> from("schema"), template |-> from("template"), stub |-> from("stub"),
       blocked |-> Number(lane, LAMBDA e : IsTool(e) /\ e.blocked),
       measured |-> TotalMs(Select(tools, IsMeasured)),
       substituted |-> TotalMs(Select(tools, IsSubstituted))]

\* At the default threshold of one half; without calls the fraction is 1.
LowFidelity(mark, sum) == mark # 0 \/ (sum.calls > 0 /\ 2 * sum.real < sum.calls)

=============================================================================
