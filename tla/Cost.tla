--------------------------------- MODULE Cost ---------------------------------
(***************************************************************************)
(* From the usage object of a response to the cost of a lane               *)
(* (amc/provider/, amc/analysis/cost.py).  A call uses fresh and cached    *)
(* prompt tokens and output tokens; what the provider reports of them may  *)
(* have gaps.  A model's name is the sequence of its segments, so that     *)
(* "prefix" keeps its meaning.                                             *)
(***************************************************************************)
EXTENDS LaneEvents

CONSTANT Prices    \* the table: key, a sequence of segments -> price per token of each kind

Price == [fresh : Nat, cached : Nat, out : Nat]

ASSUME PriceAssumption == Prices \in [DOMAIN Prices -> Price] /\ DOMAIN Prices \subseteq Seq(STRING)

-----------------------------------------------------------------------------
(* Responses and adapters.                                                 *)

\* Anthropic counts the prompt tokens read from its cache apart from the others.
Prompt(sdk, u) == IF sdk = "anthropic" THEN u.fresh ELSE u.fresh + u.cached

\* OpenAI reports cached tokens in an object of their own.
Details(sdk, n) == IF sdk = "openai" THEN [tokens |-> n] ELSE n

FullResponse(sdk, u) ==
  [usage |-> TRUE, prompt |-> Prompt(sdk, u), completion |-> u.out,
   cached |-> Details(sdk, u.cached)]

\* A provider fills in any part of the usage object, or sends none.
Responses(sdk, u) ==
  {[usage |-> FALSE]} \cup
    [usage : {TRUE}, prompt : {Prompt(sdk, u), None}, completion : {u.out, None},
     cached : {Details(sdk, u.cached), Details(sdk, None), None}]

ExtractUsage(sdk, r) ==
  IF ~r.usage THEN [in |-> None, out |-> None, cached |-> None]
  ELSE [in |-> r.prompt, out |-> r.completion,
        cached |-> IF sdk = "openai" /\ r.cached # None THEN r.cached.tokens ELSE r.cached]

-----------------------------------------------------------------------------
(* cost.py.                                                                *)

\* The price under the longest key that is a prefix of the model's name.
ForModel(m) ==
  LET keys == {k \in DOMAIN Prices : m # None /\ IsPrefix(k, m)}
  IN  IF keys = {} THEN None
      ELSE Prices[CHOOSE k \in keys : \A other \in keys : Len(other) <= Len(k)]

Reports(ns) == Select(ns, LAMBDA n : n # None)
Missing(ns) == Len(ns) - Len(Reports(ns))
Total(ns) == Sum(Reports(ns))

\* Mutant: a missing prompt count is taken to be like the last one reported.
TokenTotalsEstimated(lane) ==
  LET asked == ModelCalls(lane)
      field(f) == [i \in DOMAIN asked |-> asked[i][f]]
      in == field("in")
      estimate == IF Reports(in) = <<>> THEN 0 ELSE Missing(in) * Last(Reports(in))
  IN  [in |-> Total(in) + estimate, out |-> Total(field("out")), cached |-> Total(field("cached")),
       complete |-> Missing(in) = 0 /\ Missing(field("out")) = 0]

\* A missing cached count is not among the missing ones.
TokenTotals(lane) ==
  LET asked == ModelCalls(lane)
      field(f) == [i \in DOMAIN asked |-> asked[i][f]]
  IN  [in |-> Total(field("in")), out |-> Total(field("out")), cached |-> Total(field("cached")),
       complete |-> Missing(field("in")) = 0 /\ Missing(field("out")) = 0]

\* What the reported totals cost.  No report makes the fresh tokens negative.
Charged(t, price) ==
  (IF t.in < t.cached THEN 0 ELSE t.in - t.cached) * price.fresh
    + t.cached * price.cached + t.out * price.out

\* The model observed last prices all calls of the lane.  Every response names the
\* model it came from; the one asked for stands in when there was none.
ModelOf(lane, requested) ==
  IF ModelCalls(lane) = <<>> THEN requested ELSE Last(ModelCalls(lane)).used.model

CostForLane(lane, requested) ==
  LET t == TokenTotals(lane)
      price == ForModel(ModelOf(lane, requested))
  IN  [priced |-> price # None, incomplete |-> ~t.complete,
       total |-> IF price = None THEN None ELSE Charged(t, price)]

=============================================================================
