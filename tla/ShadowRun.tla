------------------------------ MODULE ShadowRun ------------------------------
(***************************************************************************)
(* The life of a query under @shadow (amc/runner.py): the wrapped agent is *)
(* awaited as the primary lane, and when it has returned, one background   *)
(* task per model runs it again as a shadow lane.  The runner keeps the    *)
(* recorder's rows (LaneLedger) and checks, when a shadow returns, that    *)
(* the model it observed is not the primary's.                             *)
(*                                                                         *)
(* Lane <<q, 0>> is the primary of query q, <<q, i>> its i-th shadow.  A   *)
(* recorder is attached.  An agent may itself call a function wrapped by   *)
(* @shadow, which makes a query of its own, and may leave tasks behind     *)
(* that go on calling models and tools when its own call is over.          *)
(***************************************************************************)
EXTENDS LaneLedger

CONSTANTS
  Width,       \* number of shadow models of the wrapper each query goes through
  Top,         \* the caller of a query made by no lane
  MayNest,     \* agents call wrapped functions
  Strays,      \* lanes whose agent leaves tasks behind
  MaxSeq       \* bound: events per lane

ASSUME RunAssumption ==
  /\ Width \in [Queries -> Nat]
  /\ MayNest \in BOOLEAN
  /\ MaxSeq \in Nat
  /\ Lanes = UNION {{q} \X (0..Width[q]) : q \in Queries}
  /\ Strays \subseteq Lanes
  /\ Top \notin Lanes

Primary(q) == <<q, 0>>
ShadowsOf(q) == {<<q, i>> : i \in 1..Width[q]}
IsShadow(l) == l[2] # 0

VARIABLES
  ledger,      \* the recorder's rows
  phase,       \* each lane's task
  sampled,     \* queries that will spawn shadows
  caller,      \* the lane that called each query's wrapper
  overlays,    \* lanes with an overlay
  effects      \* lanes that ran a tool with side effects for real

vars == <<ledger, phase, sampled, caller, overlays, effects>>

TypeOK ==
  /\ ledger \in Ledger
  /\ phase \in [Lanes -> {"none", "spawned", "running", "over", "withdrawn"}]
  /\ sampled \subseteq Queries
  /\ caller \in [Queries -> Lanes \cup {Top}]
  /\ overlays \subseteq Lanes
  /\ effects \subseteq Lanes

Init ==
  /\ ledger = NewLedger
  /\ phase = [l \in Lanes |-> "none"]
  /\ sampled = {}
  /\ caller = [q \in Queries |-> Top]
  /\ overlays = {}
  /\ effects = {}

Running(l) == phase[l] = "running"

\* A task created inside a lane has the lane in its context as long as it runs.
Active(l) == Running(l) \/ (l \in Strays /\ phase[l] = "over")

-----------------------------------------------------------------------------
(* The wrapper around the primary.                                         *)

\* Sampling is decided once, up front: models, switches and the dice.
MaySample(q) == Width[q] > 0

Call(q, from) ==
  /\ phase[Primary(q)] = "none"
  /\ from # Top => MayNest /\ Running(from)
  /\ caller' = [caller EXCEPT ![q] = from]
  /\ \E s \in {FALSE, MaySample(q)} : sampled' = IF s THEN sampled \cup {q} ELSE sampled
  /\ ledger' = StartLane(StartQuery(ledger, q), Primary(q), q)
  /\ phase' = [phase EXCEPT ![Primary(q)] = "running"]
  /\ UNCHANGED <<overlays, effects>>

\* Mutant: the end of a lane waits for the shadows of every query.
MayEndAfterShadows(l) ==
  /\ Running(l)
  /\ \A k \in Lanes : IsShadow(k) /\ k # l => phase[k] \notin {"spawned", "running"}

\* An agent awaits the wrapped functions it calls.
MayEnd(l) ==
  /\ Running(l)
  /\ \A q \in Queries : caller[q] = l => phase[Primary(q)] = "over"

\* start_lane for every model; the tasks run in a later turn of the loop.
StartShadows(g, q) ==
  [g EXCEPT !.rows = [l \in Lanes |-> IF l \in ShadowsOf(q) THEN StartLane(g, l, q).rows[l] ELSE @[l]],
            !.dirty = @ \cup UNION {StartLane(g, l, q).dirty : l \in ShadowsOf(q)}]

PrimaryReturns(q) ==
  LET l == Primary(q)
      g == FinishLane(ledger, l, "ok")
      ended == [phase EXCEPT ![l] = "over"]
  IN  /\ MayEnd(l)
      /\ overlays' = overlays \ {l}
      /\ IF q \in sampled
         THEN /\ ledger' = StartShadows(g, q)
              /\ phase' = [k \in Lanes |-> IF k \in ShadowsOf(q) THEN "spawned" ELSE ended[k]]
         ELSE /\ ledger' = g
              /\ phase' = ended
      /\ UNCHANGED <<sampled, caller, effects>>

\* Mutant: the shadows are spawned in a finally block.
PrimaryRaisesSpawning(q) ==
  LET l == Primary(q)
      shadows == IF q \in sampled THEN ShadowsOf(q) ELSE {}
      g == FinishLane(ledger, l, "error")
  IN  /\ MayEnd(l)
      /\ ledger' = IF q \in sampled THEN StartShadows(g, q) ELSE g
      /\ phase' = [k \in Lanes |-> IF k = l THEN "over"
                                   ELSE IF k \in shadows THEN "spawned" ELSE phase[k]]
      /\ overlays' = overlays \ {l}
      /\ UNCHANGED <<sampled, caller, effects>>

\* The exception goes on to the caller; no shadow is spawned.
PrimaryRaises(q) ==
  /\ MayEnd(Primary(q))
  /\ ledger' = FinishLane(ledger, Primary(q), "error")
  /\ phase' = [phase EXCEPT ![Primary(q)] = "over"]
  /\ overlays' = overlays \ {Primary(q)}
  /\ UNCHANGED <<sampled, caller, effects>>

\* A task that is cancelled, or whose result cannot be stringified, leaves
\* without finish_lane: only the overlay is discarded.
Abandoned(l) ==
  /\ MayEnd(l)
  /\ phase' = [phase EXCEPT ![l] = "over"]
  /\ overlays' = overlays \ {l}
  /\ UNCHANGED <<ledger, sampled, caller, effects>>

-----------------------------------------------------------------------------
(* Shadow tasks.                                                           *)

ShadowStarts(l) ==
  /\ phase[l] = "spawned"
  /\ phase' = [phase EXCEPT ![l] = "running"]
  /\ UNCHANGED <<ledger, sampled, caller, overlays, effects>>

\* Cancelled before its first step, a task runs none of its code.
ShadowNeverStarts(l) ==
  /\ phase[l] = "spawned"
  /\ phase' = [phase EXCEPT ![l] = "withdrawn"]
  /\ UNCHANGED <<ledger, sampled, caller, overlays, effects>>

Observed(g, l) == IF Known(g, l) THEN g.rows[l].observed ELSE NoModel

\* Unknown on either side is not a collision.
Collides(g, l) ==
  /\ Observed(g, l) # NoModel
  /\ Observed(g, l) = Observed(g, Primary(l[1]))

\* The check follows finish_lane in the same turn of the loop, so its verdict
\* is the row's last state.
EnforceDistinct(g, l) == IF Collides(g, l) THEN MarkCollision(g, l) ELSE g

\* Mutant: the check runs before the lane is finished.
ShadowReturnsCheckedFirst(l) ==
  /\ IsShadow(l) /\ MayEnd(l)
  /\ ledger' = FinishLane(EnforceDistinct(ledger, l), l, "ok")
  /\ phase' = [phase EXCEPT ![l] = "over"]
  /\ overlays' = overlays \ {l}
  /\ UNCHANGED <<sampled, caller, effects>>

ShadowReturns(l) ==
  /\ IsShadow(l) /\ MayEnd(l)
  /\ ledger' = EnforceDistinct(FinishLane(ledger, l, "ok"), l)
  /\ phase' = [phase EXCEPT ![l] = "over"]
  /\ overlays' = overlays \ {l}
  /\ UNCHANGED <<sampled, caller, effects>>

\* Mutants: the error is charged to the primary; the overlay is only discarded
\* by a shadow that returns.
ShadowRaisesOnPrimary(l) ==
  /\ IsShadow(l) /\ MayEnd(l)
  /\ ledger' = FinishLane(ledger, Primary(l[1]), "error")
  /\ phase' = [phase EXCEPT ![l] = "over"]
  /\ overlays' = overlays \ {l}
  /\ UNCHANGED <<sampled, caller, effects>>

ShadowRaisesKeepingOverlay(l) ==
  /\ IsShadow(l) /\ MayEnd(l)
  /\ ledger' = FinishLane(ledger, l, "error")
  /\ phase' = [phase EXCEPT ![l] = "over"]
  /\ UNCHANGED <<sampled, caller, overlays, effects>>

\* The handler returns before the check is reached.
ShadowRaises(l) ==
  /\ IsShadow(l) /\ MayEnd(l)
  /\ ledger' = FinishLane(ledger, l, "error")
  /\ phase' = [phase EXCEPT ![l] = "over"]
  /\ overlays' = overlays \ {l}
  /\ UNCHANGED <<sampled, caller, effects>>

-----------------------------------------------------------------------------
(* What an agent, and what it left behind, does in its lane.               *)

ModelCall(l, m) ==
  /\ Active(l)
  /\ ledger.seq[l] < MaxSeq
  /\ ledger' = RecordModelCall(ledger, l, m)
  /\ UNCHANGED <<phase, sampled, caller, overlays, effects>>

\* A tool with side effects: for real in a primary lane, answered by the
\* virtual layer in a shadow, where it opens the lane's overlay.
ToolCall(l, ungrounded) ==
  /\ Active(l)
  /\ ledger.seq[l] < MaxSeq
  /\ \/ ~IsShadow(l) /\ ~ungrounded /\ effects' = effects \cup {l} /\ UNCHANGED overlays
     \/ IsShadow(l) /\ overlays' = overlays \cup {l} /\ UNCHANGED effects
  /\ ledger' = RecordToolEvent(ledger, l, ungrounded)
  /\ UNCHANGED <<phase, sampled, caller>>

-----------------------------------------------------------------------------

PrimaryEnds(q) == PrimaryReturns(q) \/ PrimaryRaises(q)

Next ==
  \/ \E q \in Queries : PrimaryEnds(q) \/ \E from \in Lanes \cup {Top} : Call(q, from)
  \/ \E l \in Lanes : Abandoned(l) \/ ShadowStarts(l) \/ ShadowNeverStarts(l)
                        \/ ShadowReturns(l) \/ ShadowRaises(l)
  \/ \E l \in Lanes, m \in Models \cup {NoModel} : ModelCall(l, m)
  \/ \E l \in Lanes, u \in BOOLEAN : ToolCall(l, u)

Spec == Init /\ [][Next]_vars

\* Agents called as primaries end some day.  Nothing is assumed of shadows:
\* they may never start, and never end.
FairSpec == Spec /\ \A q \in Queries : WF_vars(PrimaryEnds(q) \/ Abandoned(Primary(q)))

-----------------------------------------------------------------------------
(* Properties.                                                             *)

Over(l) == phase[l] = "over"

\* A shadow reported ok observed another model than its primary, or one of the
\* two is unknown, unless a task left behind reports a model after the check.
CollisionCaught ==
  \A l \in Lanes \ Strays :
    IsShadow(l) /\ Primary(l[1]) \notin Strays /\ Known(ledger, l) /\ ledger.rows[l].status = "ok"
      => ~Collides(ledger, l)

\* Nothing rewrites the row of a lane that is over: not a sibling's failure,
\* not a later query, and no verdict is taken back.
VerdictsAreFinal ==
  [][\A l \in Lanes \ Strays : Over(l) => ledger'.rows[l] = ledger.rows[l]]_vars

\* Whatever the tasks left behind report about a lane that is over, they do not
\* change how it ended, nor take back a contamination.
EndingsAreFinal ==
  [][\A l \in Lanes : Over(l) /\ Known(ledger, l) =>
       /\ ledger'.rows[l].status = ledger.rows[l].status
       /\ ledger.rows[l].contaminated # 0 =>
            ledger'.rows[l].contaminated = ledger.rows[l].contaminated]_vars

\* A shadow lane exists only under a sampled query whose primary returned.
ShadowsFollowSuccess ==
  \A l \in Lanes : IsShadow(l) /\ Known(ledger, l) =>
    l[1] \in sampled /\ Over(Primary(l[1])) /\ ledger.rows[Primary(l[1])].status = "ok"

\* Rows are filed under the query that made the lane, whichever query other
\* tasks started in the meantime.
FiledUnderOwnQuery ==
  \A l \in Lanes : Known(ledger, l) => ledger.rows[l].query = l[1]

\* virtual/overlay.py:11, every lane's delta is gone when the lane is over, unless a
\* task it left behind opens another.
OverlaysTornDown == \A l \in overlays \ Strays : Running(l)

\* The primary's result does not wait for any shadow (invariant 1), unless it
\* was called by one.
PrimaryNeverWaits ==
  \A q \in Queries : Running(Primary(q)) ~> Over(Primary(q))

\* product.md:21, a shadow "cannot perform real side effects": not even through
\* the wrapped functions its agent calls.
NoEffectUnderShadow ==
  \A q \in Queries : caller[q] # Top /\ IsShadow(caller[q]) => Primary(q) \notin effects

=============================================================================
