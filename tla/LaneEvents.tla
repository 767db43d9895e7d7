------------------------------ MODULE LaneEvents ------------------------------
(***************************************************************************)
(* The events of a lane as the interceptor and the recorder make them, for *)
(* the analysis to read.  A tool event keeps what was called, where its    *)
(* answer came from and how long it took; a model event keeps the counts   *)
(* its provider reported.  Three fields say what no row keeps: "at", the   *)
(* node a call was made at, "did", what happened to it, and "used", what a *)
(* model call really consumed.                                             *)
(***************************************************************************)
EXTENDS Naturals, SequencesExt

CONSTANTS
  Tools, Args, Nodes,
  Canon,       \* the canonical form of each spelling of arguments
  Models,      \* names of models, as the sequences of their segments
  Counts,      \* token counts
  Millis,      \* latencies
  None

ASSUME EventAssumption ==
  /\ Canon \in [Args -> Args]
  /\ Counts \subseteq Nat /\ Millis \subseteq Nat

Call == [tool : Tools, args : Args, at : Nodes]
Usage == [model : Models, fresh : Counts, cached : Counts, out : Counts]

Outcome(did, blocked, source, latency, lsource) ==
  [did |-> did, blocked |-> blocked, source |-> source, latency |-> latency,
   lsource |-> lsource]

Invented == {"schema", "template", "stub"}

\* A call that was refused, answered by the virtual layer (with or without an
\* observation to replay), executed, and executed but raised.
Refused == Outcome("refused", TRUE, None, None, None)

Substituted ==
  {Outcome("substituted", FALSE, src, None, None) : src \in {"fixture"} \cup Invented}
    \cup {Outcome("substituted", FALSE, "fixture", ms, "replayed") : ms \in Millis}

Ran == {Outcome("ran", FALSE, "real", ms, "measured") : ms \in Millis}

Raised == {Outcome("raised", FALSE, None, ms, None) : ms \in Millis}

\* "node" is the node_name stored with the event.
ToolEvent(c, node, o) ==
  [kind |-> "tool", tool |-> c.tool, args |-> c.args, at |-> c.at, node |-> node,
   did |-> o.did, blocked |-> o.blocked, source |-> o.source,
   latency |-> o.latency, lsource |-> o.lsource]

\* Every model call is real, and timed if the agent passed its latency on.
ModelEvent(u, reported, ms) ==
  [kind |-> "llm", used |-> u, in |-> reported.in, out |-> reported.out,
   cached |-> reported.cached, did |-> "asked", blocked |-> FALSE, source |-> "real",
   latency |-> ms, lsource |-> IF ms = None THEN None ELSE "measured"]

Maybe(S) == S \cup {None}

LaneEvent ==
  [kind : {"tool"}, tool : Tools, args : Args, at : Nodes, node : Maybe(Nodes),
   did : {"refused", "substituted", "ran", "raised"}, blocked : BOOLEAN,
   source : Maybe({"real", "fixture"} \cup Invented), latency : Maybe(Millis),
   lsource : Maybe({"measured", "replayed"})]
  \cup
  [kind : {"llm"}, used : Usage, in : Maybe(Nat), out : Maybe(Nat), cached : Maybe(Nat),
   did : {"asked"}, blocked : {FALSE}, source : {"real"}, latency : Maybe(Millis),
   lsource : Maybe({"measured"})]

ASSUME NoneAssumption ==
  /\ None \notin Nat /\ None \notin {"real", "fixture", "measured", "replayed"} \cup Invented
  /\ None \notin Nodes /\ None \notin Tools /\ None \notin LaneEvent

-----------------------------------------------------------------------------
(* What the analysis does with a sequence.  SelectSeq is built into the      *)
(* tools; a recursive function is a definition that a proof can unfold.      *)

\* The elements of s at the positions in I.
Picked(s, I) ==
  LET upTo[n \in 0..Len(s)] ==
        IF n = 0 THEN <<>>
        ELSE IF n \in I THEN Append(upTo[n - 1], s[n]) ELSE upTo[n - 1]
  IN  upTo[Len(s)]

Select(s, Test(_)) == Picked(s, {i \in DOMAIN s : Test(s[i])})

Number(s, Test(_)) == Cardinality({i \in DOMAIN s : Test(s[i])})

Sum(ns) == FoldLeft(+, 0, ns)

-----------------------------------------------------------------------------

IsTool(e) == e.kind = "tool"
ToolCalls(lane) == Select(lane, IsTool)
ModelCalls(lane) == Select(lane, LAMBDA e : ~IsTool(e))

\* Arguments are compared in canonical form.
Key(e) == <<e.tool, Canon[e.args]>>

\* The sum of the latencies that were reported.
TotalMs(lane) == Sum([i \in DOMAIN lane |-> IF lane[i].latency = None THEN 0 ELSE lane[i].latency])

IsMeasured(e) == e.lsource = "measured"
IsSubstituted(e) == e.lsource = "replayed"

=============================================================================
