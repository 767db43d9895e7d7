----------------------------- MODULE ToolBoundary -----------------------------
(***************************************************************************)
(* The tool boundary: amc/policy.py classifies a tool, amc/interceptor.py  *)
(* decides per call whether it runs for real, and amc/virtual/ answers a   *)
(* shadow's call to a tool that may not run, from the lane's overlay, from *)
(* what a primary was answered (fixtures), or by invention.                *)
(*                                                                         *)
(* A branch is a task that calls tools one after another under a lane, or  *)
(* under none (a thread that lost the context variable).  A call is two    *)
(* steps where the code awaits: the real tool, or the replayed latency.    *)
(***************************************************************************)
EXTENDS Naturals, FiniteSets

CONSTANTS
  Primaries, Shadows,   \* lanes
  Branches,
  LaneOf,               \* the lane of each branch, or NoLane
  Tools,
  Specs,                \* VirtualSpec of each tool
  HintChoices,          \* what an operator may have declared about the tools
  Payloads,             \* arguments of calls that create records
  RealIds,              \* identifiers real tools give
  BaseIds,              \* identifiers present in the overlay base
  NoId, NoLane, NoReply, NoFixture, NoOverlay,
  MaxCalls,             \* bound: calls of each branch
  MaxMinted             \* bound: ids an overlay mints

Lanes == Primaries \cup Shadows

\* Ids minted by an overlay carry the lane and that overlay's counter.
MintedIds == Shadows \X (1..MaxMinted)

Ids == RealIds \cup MintedIds \cup {NoId}

\* A non-empty MCP annotation: its readOnlyHint and destructiveHint are True.
Annotations == [present : BOOLEAN, readOnly : BOOLEAN, destructive : BOOLEAN]

\* "listed": the tool was passed to classify(); the three sources of hints.
Hints == [listed : BOOLEAN,
          config : {"unset", "passthrough", "virtual", "block"},
          ann : Annotations,
          method : {"unset", "safe", "unsafe"}]

Invented == {"schema", "template", "stub"}

Sources == {"real", "fixture", "blocked", "raised", "cancelled"} \cup Invented

\* What a call answers: the identifier in it, where it came from, and the
\* arguments the record was made with.
Reply == [id : Ids, source : Sources, arg : Payloads \cup Ids]

\* entity # None, op, where an invented answer comes from and the id in it.
ToolSpec == [linked : BOOLEAN, op : {"read", "write"}, invents : Invented,
          id : RealIds \cup {NoId}, destructive : BOOLEAN]

\* A lane's delta by identifier, and how many identifiers it minted.
Overlay == [delta : [Ids -> Reply \cup {NoReply}], minted : Nat]

Modes == {"idle", "real", "sleep"}

ASSUME BoundaryAssumption ==
  /\ Primaries \cap Shadows = {}
  /\ NoLane \notin Lanes
  /\ LaneOf \in [Branches -> Lanes \cup {NoLane}]
  /\ Specs \in [Tools -> ToolSpec]
  /\ HintChoices \subseteq [Tools -> Hints]
  /\ BaseIds \subseteq RealIds
  /\ MaxCalls \in [Branches -> Nat]
  /\ MaxMinted \in Nat
  /\ Payloads \cap Ids = {}
  /\ RealIds \cap MintedIds = {}
  /\ NoId \notin RealIds \cup MintedIds

ASSUME NothingAssumption ==
  /\ NoReply \notin Reply
  /\ NoFixture \notin Reply
  /\ NoOverlay \notin Overlay

VARIABLES
  hints,       \* declared about each tool, for good
  running,     \* lanes whose agent is running
  fixtures,    \* the process-wide fixture store
  overlays,    \* the overlay of each lane
  call,        \* what each branch is doing, and its last answer
  calls,       \* calls made by each branch
  drift,       \* events with ungrounded_destructive, per lane
  effects,     \* <<lane, tool>> of every real execution
  answered,    \* what primaries were answered, per call
  made         \* records whose creation a shadow was told of

vars == <<hints, running, fixtures, overlays, call, calls, drift, effects, answered, made>>

-----------------------------------------------------------------------------
(* policy.py: config, then annotation, then transport, then deny.          *)

\* Mutant: a read-only hint is believed of a destructive tool.
AnnotatedReadOnly(a) == a.readOnly

AnnotatedSafe(a) == a.readOnly /\ ~a.destructive

Classify(h) ==
  IF h.config # "unset" THEN h.config
  ELSE IF (IF h.ann.present THEN AnnotatedSafe(h.ann) ELSE h.method = "safe")
       THEN "passthrough" ELSE "block"

(* interceptor.py.                                                         *)

Isolated == [passthrough |-> "real", virtual |-> "virtual", block |-> "stub"]

Decide(l, h) ==
  IF l = NoLane THEN "stub"
  ELSE IF l \in Primaries THEN "real"
  ELSE IF ~h.listed THEN "stub" ELSE Isolated[Classify(h)]

-----------------------------------------------------------------------------
(* The virtual layer (dispatch.py, overlay.py).                            *)

FreshOverlay == [delta |-> [i \in Ids |-> NoReply], minted |-> 0]

OverlayFor(l) == IF overlays[l] = NoOverlay THEN FreshOverlay ELSE overlays[l]

\* Mutants: ids are minted from 0; the counter is not kept; only what was
\* invented is filed.
FiledFromZero(l, t, reply) ==
  LET o == OverlayFor(l)
      mint == reply.id = NoId
      r == IF mint THEN [reply EXCEPT !.id = <<l, o.minted>>] ELSE reply
  IN  IF Specs[t].op = "write" /\ Specs[t].linked
      THEN [reply |-> r, overlay |-> [o EXCEPT !.minted = IF mint THEN @ + 1 ELSE @]]
      ELSE [reply |-> reply, overlay |-> o]

FiledUncounted(l, t, reply) ==
  LET o == OverlayFor(l)
      r == IF reply.id = NoId THEN [reply EXCEPT !.id = <<l, 1>>] ELSE reply
  IN  IF Specs[t].op = "write" /\ Specs[t].linked
      THEN [reply |-> r, overlay |-> [o EXCEPT !.delta[r.id] = r]]
      ELSE [reply |-> reply, overlay |-> o]

FiledIfInvented(l, t, reply) ==
  LET o == OverlayFor(l)
      mint == reply.id = NoId
      n == IF mint THEN o.minted + 1 ELSE o.minted
      r == IF mint THEN [reply EXCEPT !.id = <<l, n>>] ELSE reply
  IN  IF Specs[t].op = "write" /\ Specs[t].linked
      THEN [reply |-> r,
            overlay |-> IF r.source \in Invented
                        THEN [delta |-> [o.delta EXCEPT ![r.id] = r], minted |-> n] ELSE o]
      ELSE [reply |-> reply, overlay |-> o]

\* A write is filed under its identifier; one without gets a minted one.  Answers are
\* records, so the return for any other response is left out; the key of a record is its
\* identifier, for all linked tools are of one entity.
Filed(l, t, reply) ==
  LET o == OverlayFor(l)
      mint == reply.id = NoId
      n == IF mint THEN o.minted + 1 ELSE o.minted
      r == IF mint THEN [reply EXCEPT !.id = <<l, n>>] ELSE reply
  IN  IF Specs[t].op = "write" /\ Specs[t].linked
      THEN [reply |-> r, overlay |-> [delta |-> [o.delta EXCEPT ![r.id] = r], minted |-> n]]
      ELSE [reply |-> reply, overlay |-> o]

Invention(t, a) ==
  [id |-> Specs[t].id, source |-> Specs[t].invents, arg |-> a]

Looks(t, a) == Specs[t].op = "read" /\ Specs[t].linked /\ a # NoId

\* The lane itself wrote the record it asks for.
Own(l, t, a) == Looks(t, a) /\ OverlayFor(l).delta[a] # NoReply

\* The fixture served for a call, if any.
Lookup(t, a) == fixtures[<<t, a>>]

\* The answer of resolve(): own writes, then the base, then a fixture, then
\* invention.  The base holds plain records, and unpacking one as the pair
\* (record, source) raises.
Resolved(l, t, a) ==
  LET o == OverlayFor(l)
      fx == Lookup(t, a)
  IN  CASE Own(l, t, a) -> [reply |-> o.delta[a], overlay |-> o]
        [] ~Own(l, t, a) /\ Looks(t, a) /\ a \in BaseIds ->
             [reply |-> [id |-> a, source |-> "raised", arg |-> a], overlay |-> o]
        [] OTHER ->
             Filed(l, t, IF fx # NoFixture THEN [fx EXCEPT !.source = "fixture"]
                                           ELSE Invention(t, a))

\* Only an answer nobody observed, given for the first time, is a divergence.
Ungrounded(l, t, a) ==
  /\ Specs[t].destructive
  /\ ~Own(l, t, a)
  /\ Resolved(l, t, a).reply.source \in Invented

-----------------------------------------------------------------------------

Calls == {k \in Tools \X (Payloads \cup Ids) :
            Specs[k[1]].op = "write" <=> k[2] \in Payloads}

Idle == [mode |-> "idle", tool |-> NoReply, arg |-> NoId, reply |-> NoReply,
         ungrounded |-> FALSE]

TypeOK ==
  /\ hints \in [Tools -> Hints]
  /\ running \subseteq Lanes
  /\ fixtures \in [Calls -> Reply \cup {NoFixture}]
  /\ overlays \in [Shadows -> Overlay \cup {NoOverlay}]
  /\ call \in [Branches ->
       [mode : Modes, tool : Tools \cup {NoReply}, arg : Payloads \cup Ids,
        reply : Reply \cup {NoReply}, ungrounded : BOOLEAN]]
  /\ calls \in [Branches -> Nat]
  /\ drift \in [Shadows -> Nat]
  /\ effects \subseteq (Lanes \cup {NoLane}) \X Tools
  /\ answered \in [Calls -> SUBSET Reply]
  /\ made \in [Shadows -> SUBSET Reply]

Init ==
  /\ hints \in HintChoices
  /\ running = Lanes
  /\ fixtures = [k \in Calls |-> NoFixture]
  /\ overlays = [l \in Shadows |-> NoOverlay]
  /\ call = [b \in Branches |-> Idle]
  /\ calls = [b \in Branches |-> 0]
  /\ drift = [l \in Shadows |-> 0]
  /\ effects = {}
  /\ answered = [k \in Calls |-> {}]
  /\ made = [l \in Shadows |-> {}]

\* Identifiers an agent can ask for: real ones and those it was answered.
Knows(b) ==
  RealIds \cup IF LaneOf[b] \in Shadows THEN {r.id : r \in made[LaneOf[b]]} \ {NoId} ELSE {}

MayCall(b, t, a) ==
  /\ call[b].mode = "idle"
  /\ LaneOf[b] \in running \cup {NoLane}
  /\ calls[b] < MaxCalls[b]
  /\ IF Specs[t].op = "write" THEN a \in Payloads ELSE a \in Knows(b)

Entered(b) == calls' = [calls EXCEPT ![b] = @ + 1]

Answer(b, t, a, m, reply, ungrounded) ==
  call' = [call EXCEPT ![b] = [mode |-> m, tool |-> t, arg |-> a, reply |-> reply,
                               ungrounded |-> ungrounded]]

\* Synthetic success; the tool is not touched and nothing counts as drift.
StubCall(b, t, a) ==
  /\ MayCall(b, t, a)
  /\ Decide(LaneOf[b], hints[t]) = "stub"
  /\ Entered(b)
  /\ Answer(b, t, a, "idle", [id |-> NoId, source |-> "blocked", arg |-> a], FALSE)
  /\ UNCHANGED <<hints, running, fixtures, overlays, drift, effects, answered, made>>

RealCall(b, t, a) ==
  /\ MayCall(b, t, a)
  /\ Decide(LaneOf[b], hints[t]) = "real"
  /\ Entered(b)
  /\ Answer(b, t, a, "real", NoReply, FALSE)
  /\ effects' = effects \cup {<<LaneOf[b], t>>}
  /\ UNCHANGED <<hints, running, fixtures, overlays, drift, answered, made>>

\* Mutant: what a shadow was answered becomes a fixture too.
CapturesAll(l) == l \in Lanes

\* Only a primary's answers become fixtures, the last one per call.
Captures(l) == l \in Primaries

Captured(l, k, r) == IF Captures(l) THEN [fixtures EXCEPT ![k] = r] ELSE fixtures

\* A real tool finds the records it gave identifiers to, no minted one.
Returned(t, a) == IF Specs[t].op = "read" THEN {IF a \in RealIds THEN a ELSE NoId} ELSE RealIds \cup {NoId}

RealReturn(b) ==
  /\ call[b].mode = "real"
  /\ \E i \in Returned(call[b].tool, call[b].arg) :
       LET k == <<call[b].tool, call[b].arg>>
           r == [id |-> i, source |-> "real", arg |-> call[b].arg]
       IN  /\ call' = [call EXCEPT ![b].mode = "idle", ![b].reply = r]
           /\ fixtures' = Captured(LaneOf[b], k, r)
           /\ answered' = IF LaneOf[b] \in Primaries
                          THEN [answered EXCEPT ![k] = @ \cup {r}] ELSE answered
  /\ UNCHANGED <<hints, running, overlays, calls, drift, effects, made>>

\* The tool raised or the task was cancelled in it: nothing is captured.
RealRaises(b) ==
  /\ call[b].mode = "real"
  /\ call' = [call EXCEPT ![b].mode = "idle",
                          ![b].reply = [id |-> NoId, source |-> "raised", arg |-> call[b].arg]]
  /\ UNCHANGED <<hints, running, fixtures, overlays, calls, drift, effects, answered, made>>

Emits(l, ungrounded) ==
  drift' = IF ungrounded THEN [drift EXCEPT ![l] = @ + 1] ELSE drift

\* Mutant: some latency is replayed for every virtual call.
SleepsAlways(t, a) == TRUE

\* Latency is replayed only when a primary was observed making this call.
Sleeps(t, a) == Lookup(t, a) # NoFixture

\* resolve() runs at once; the event is emitted after the sleep, if any.
VirtualCall(b, t, a) ==
  LET l == LaneOf[b]
      r == Resolved(l, t, a)
      u == Ungrounded(l, t, a)
      raised == r.reply.source = "raised"
      sleeps == Sleeps(t, a) /\ ~raised
  IN  /\ MayCall(b, t, a)
      /\ Decide(l, hints[t]) = "virtual"
      /\ r.overlay.minted <= MaxMinted
      /\ Entered(b)
      /\ overlays' = [overlays EXCEPT ![l] = r.overlay]
      /\ made' = IF Specs[t].op = "write" /\ Specs[t].linked
                 THEN [made EXCEPT ![l] = @ \cup {r.reply}] ELSE made
      /\ Answer(b, t, a, IF sleeps THEN "sleep" ELSE "idle", r.reply, u)
      /\ Emits(l, u /\ ~sleeps)
      /\ UNCHANGED <<hints, running, fixtures, effects, answered>>

\* The sleep ends, or the task is cancelled in it and no event is emitted.
SleepEnds(b) ==
  /\ call[b].mode = "sleep"
  /\ \/ /\ call' = [call EXCEPT ![b].mode = "idle"]
        /\ Emits(LaneOf[b], call[b].ungrounded)
     \/ /\ call' = [call EXCEPT ![b].mode = "idle",
                                ![b].reply = [id |-> NoId, source |-> "cancelled", arg |-> call[b].arg]]
        /\ UNCHANGED drift
  /\ UNCHANGED <<hints, running, fixtures, overlays, calls, effects, answered, made>>

\* The agent callable is over, its branches joined: the overlay goes with it.
LaneEnds(l) ==
  /\ l \in running
  /\ \A b \in Branches : LaneOf[b] = l => call[b].mode = "idle"
  /\ running' = running \ {l}
  /\ overlays' = IF l \in Shadows THEN [overlays EXCEPT ![l] = NoOverlay] ELSE overlays
  /\ UNCHANGED <<hints, fixtures, call, calls, drift, effects, answered, made>>

Next ==
  \/ \E b \in Branches, t \in Tools, a \in Payloads \cup Ids :
       StubCall(b, t, a) \/ RealCall(b, t, a) \/ VirtualCall(b, t, a)
  \/ \E b \in Branches : RealReturn(b) \/ RealRaises(b) \/ SleepEnds(b)
  \/ \E l \in Lanes : LaneEnds(l)

Spec == Init /\ [][Next]_vars

-----------------------------------------------------------------------------
(* Properties.                                                             *)

\* What an operator's declarations permit a shadow to run for real: config
\* says so, or is silent and the annotation is read-only and not destructive,
\* or there is neither and the HTTP method is safe.
Permitted(h) ==
  /\ h.listed
  /\ \/ h.config = "passthrough"
     \/ h.config = "unset" /\ h.ann.present /\ h.ann.readOnly /\ ~h.ann.destructive
     \/ h.config = "unset" /\ ~h.ann.present /\ h.method = "safe"

\* No tool ever runs for real outside a lane, or in a shadow without leave.
Contained ==
  \A e \in effects : e[1] \in Primaries \/ (e[1] \in Shadows /\ Permitted(hints[e[2]]))

\* A fixture is an answer some primary got for this very call, however calls
\* of shadows that run for real interleave with it.
FixturesGrounded ==
  \A k \in Calls : fixtures[k] = NoFixture \/ fixtures[k] \in answered[k]

\* A shadow whose read the virtual layer answers gets, for an identifier it was given by
\* a write, a record of its own, also while fixtures come and go and its branches
\* interleave.  Excepted is a read that may run for real, as readOnlyHint lets it by
\* default: it asks the real tool for a record that only the overlay has, although
\* virtual-tool-layer.md:68-72 has a lane that creates a user see it in get_user.
ReadYourWrites ==
  [][\A b \in Branches :
       LET l == LaneOf[b]
           t == call'[b].tool
       IN  /\ calls'[b] # calls[b] /\ l \in Shadows
           /\ Decide(l, hints[t]) = "virtual"
           /\ Looks(t, call'[b].arg)
           /\ \E r \in made[l] : r.id = call'[b].arg
           => call'[b].reply \in made[l]]_vars

\* dispatch.py:75, "If the response has no grounded identifier, mint a lane-scoped
\* one so a later read can find the record": every record whose creation was
\* invented stays readable under its identifier while the lane runs.
InventedStayApart ==
  \A l \in Shadows \cap running : \A r \in made[l] :
    r.source \in Invented => OverlayFor(l).delta[r.id] = r

\* A lane never holds more invented records than it has reported as drift, so
\* contamination is never declared late.
DriftIsCounted ==
  (\A t \in Tools : Specs[t].op = "write" => Specs[t].destructive) =>
    \A l \in Shadows \cap running :
      Cardinality({i \in Ids : OverlayFor(l).delta[i] # NoReply
                                 /\ OverlayFor(l).delta[i].source \in Invented}) <= drift[l]

=============================================================================
