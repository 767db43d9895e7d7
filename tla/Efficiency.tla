----------------------------- MODULE Efficiency -----------------------------
(***************************************************************************)
(* amc/analysis/efficiency.py: loops, errors and retries in the tool calls *)
(* of a lane.                                                              *)
(***************************************************************************)
EXTENDS LaneEvents

Failed(e) == e.did = "raised"

\* Mutant: only one repetition is looked for.
EndOfRunOnce(calls, i) ==
  IF i < Len(calls) /\ Key(calls[i + 1]) = Key(calls[i]) THEN i + 2 ELSE i + 1

\* The first call after i that is another one, or the end.
EndOfRun(calls, i) ==
  Min({j \in (i + 1)..(Len(calls) + 1) : j > Len(calls) \/ Key(calls[j]) # Key(calls[i])})

Loops(calls) ==
  LET from[i \in 1..(Len(calls) + 1)] ==
        IF i > Len(calls) THEN <<>>
        ELSE LET j == EndOfRun(calls, i)
             IN  (IF j - i >= 2 THEN <<[start |-> i, length |-> j - i]>> ELSE <<>>) \o from[j]
  IN  from[1]

\* Mutant: an error is forgotten only when the same tool succeeds.
PerToolSticky(calls, t) ==
  LET mine == {i \in DOMAIN calls : calls[i].tool = t}
  IN  [calls |-> Cardinality(mine), errors |-> Cardinality({i \in mine : Failed(calls[i])}),
       retries |-> Cardinality({i \in mine : \E j \in mine : j < i /\ Failed(calls[j])})]

\* A retry is a call right after a failed call of the same tool.
PerTool(calls, t) ==
  LET mine == {i \in DOMAIN calls : calls[i].tool = t}
  IN  [calls |-> Cardinality(mine), errors |-> Cardinality({i \in mine : Failed(calls[i])}),
       retries |-> Cardinality({i \in mine : i - 1 \in mine /\ Failed(calls[i - 1])})]

=============================================================================
