------------------------------- MODULE MCReport -------------------------------
(* Small instances of Report for TLC.  Each workload varies what one part of *)
(* the report reads, up to the length at which its cases happen, and keeps   *)
(* the rest fixed.                                                           *)
EXTENDS Report, TLC

CONSTANTS t1, t2, x, x2, y, n1, n2

TwoTools == {t1, t2}
TwoNodes == {n1, n2}
ThreeArgs == {x, x2, y}
OneDestructive == {t1}

\* x2 is x in another spelling.
Spelling == x :> x @@ x2 :> x @@ y :> y

\* 0 ms is not None; the ranks are the report's and the two ends.
SomeMillis == {0, 1, 3}
SomeRanks == {0, 50, 95, 100}
SomeCounts == {0, 2}

\* A family of models, a cheaper branch of it and a model without an entry.  Prices have
\* gaps, so that no two mistakes cancel.
Large == <<"gpt-4o", "0806">>
Mini == <<"gpt-4o", "mini", "0718">>
Other == <<"other">>
SomeModels == {Large, Mini, Other}
LargePrice == [fresh |-> 9, cached |-> 5, out |-> 40]
MiniPrice == [fresh |-> 2, cached |-> 1, out |-> 7]
Table == <<"gpt-4o">> :> LargePrice @@ <<"gpt-4o", "mini">> :> MiniPrice
Rates == Large :> LargePrice @@ Mini :> MiniPrice @@ Other :> None

Named == [n \in Nodes |-> n]
OneNamed == [n \in Nodes |-> IF n = n1 THEN n ELSE None]

Quick == Outcome("ran", FALSE, "real", 1, "measured")
Failing == Outcome("raised", FALSE, None, 1, None)
Stubbed == Outcome("substituted", FALSE, "stub", None, None)
Replays(ms) == Outcome("substituted", FALSE, "fixture", ms, "replayed")
AtOne(tools, args) == [tool : tools, args : args, at : {n1}]
Small(m) == [model |-> m, fresh |-> 2, cached |-> 0, out |-> 2]

Idle ==
  [calls |-> {}, outcomes |-> [l \in TwoLanes |-> {Quick}], usages |-> [l \in TwoLanes |-> {}],
   waits |-> {None}, gaps |-> FALSE, storings |-> {RecordedNode}, sdks |-> {"openai"},
   requested |-> [primary |-> None, shadow |-> Mini], max |-> 0]

\* The choices of both lanes, over two nodes.
TwoNodeChoices == [Idle EXCEPT !.calls = {c \in Call : c.tool = t1 \/ c.args = x},
     !.storings = {Named, RecordedNode, OneNamed}, !.max = 4]

\* Everything that can become of a call, and model calls in between.
Endings ==
  [Idle EXCEPT !.calls = AtOne({t1}, {x}), !.usages.shadow = {Small(Mini)},
     !.outcomes = [primary |-> {},
                   shadow |-> Ran \cup Raised \cup {Refused} \cup {Replays(ms) : ms \in Millis}
                     \cup {Outcome("substituted", FALSE, src, None, None) : src \in Invented}],
     !.waits = Maybe({0, 3}), !.max = 4]

\* Repetitions and errors.
Repeats ==
  [Idle EXCEPT !.calls = AtOne(Tools, {x, y}),
     !.outcomes = [primary |-> {}, shadow |-> {Quick, Failing}], !.max = 5]

\* A shadow that drifts next to its primary.
Drift ==
  [Idle EXCEPT !.calls = AtOne(Tools, {x}), !.usages.shadow = {Small(Large)},
     !.outcomes = [primary |-> {Quick, Failing},
                   shadow |-> {Quick, Failing, Refused, Stubbed, Replays(1)}], !.max = 4]

\* What model calls use, and what their SDK says of it.
Spending ==
  [Idle EXCEPT !.usages.shadow = {u \in Usage : u.out = 2}, !.gaps = TRUE, !.max = 2,
     !.sdks = {"openai", "anthropic", "gemini"}]

AllWorkloads == {TwoNodeChoices, Endings, Repeats, Drift, Spending}
OnlyChoices == {[TwoNodeChoices EXCEPT !.storings = {RecordedNode}]}

=============================================================================
