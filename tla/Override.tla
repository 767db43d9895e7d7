------------------------------- MODULE Override -------------------------------
(***************************************************************************)
(* Where the model of a call comes from (amc/provider/): the lanes of a    *)
(* query share the agent's clients, override_model patches a client once,  *)
(* and the patched client names the model of whichever lane it is called   *)
(* in.  The runner's lanes are those of ShadowRun; instead of any model,   *)
(* a lane is served the one its requests named.                            *)
(***************************************************************************)
EXTENDS ShadowRun

CONSTANTS
  Clients,     \* the SDK clients the agent uses
  Default,     \* the model the agent asks of each client
  Requested,   \* Lane.model, NoModel for None
  Rewritable,  \* clients whose requests have the shape their adapter rewrites
  MayLose,     \* agents call from threads that have no lane
  NoRequest

ASSUME OverrideAssumption ==
  /\ Default \in [Clients -> Models]
  /\ Requested \in [Lanes -> Models \cup {NoModel}]
  /\ \A l \in Lanes : IsShadow(l) => Requested[l] # NoModel
  /\ Rewritable \subseteq Clients
  /\ MayLose \in BOOLEAN

ASSUME RequestAssumption == NoRequest \notin Models

VARIABLES
  patched,     \* clients with the override installed
  sent,        \* the model in the request each lane waits for
  seen         \* every model reported for a lane, not only the last one

overrideVars == <<vars, patched, sent, seen>>

OverrideInit ==
  /\ Init
  /\ patched \in SUBSET Clients
  /\ sent = [l \in Lanes |-> NoRequest]
  /\ seen = [l \in Lanes |-> {}]

\* Patching twice leaves one patch.
Install(c) ==
  /\ c \notin patched
  /\ patched' = patched \cup {c}
  /\ UNCHANGED <<vars, sent, seen>>

\* Mutant: the override keeps the lane in a global variable, the last one set.
RoutedByLastLane(c, l, lost) ==
  LET last == CHOOSE k \in Lanes : Active(k) /\ \A j \in Lanes : Active(j) => j[2] <= k[2]
  IN  IF c \in patched \cap Rewritable /\ ~lost /\ Requested[last] # NoModel
      THEN Requested[last] ELSE Default[c]

\* Whether the request is changed is decided while it is built, in the caller's
\* context: no lane, no model asked for, or a request of another shape than the
\* adapter knows, and it goes out as the agent made it.
Routed(c, l, lost) ==
  IF c \in patched \cap Rewritable /\ ~lost /\ Requested[l] # NoModel
  THEN Requested[l] ELSE Default[c]

Send(l, c, lost) ==
  /\ Active(l) /\ sent[l] = NoRequest
  /\ ledger.seq[l] < MaxSeq
  /\ lost => MayLose
  /\ sent' = [sent EXCEPT ![l] = Routed(c, l, lost)]
  /\ UNCHANGED <<vars, patched, seen>>

\* The agent hands the response to record_model_call; it may not name a model.
Receive(l, named) ==
  /\ sent[l] # NoRequest
  /\ ModelCall(l, IF named THEN sent[l] ELSE NoModel)
  /\ sent' = [sent EXCEPT ![l] = NoRequest]
  /\ seen' = [seen EXCEPT ![l] = IF named THEN @ \cup {sent[l]} ELSE @]
  /\ UNCHANGED patched

\* Only a cancellation ends an agent that waits for a response itself.
LaneEnds(l) ==
  /\ \/ ShadowReturns(l) \/ ShadowRaises(l)
     \/ ~IsShadow(l) /\ PrimaryEnds(l[1])
  /\ sent[l] = NoRequest \/ l \in Strays
  /\ UNCHANGED <<patched, sent, seen>>

LaneCancelled(l) ==
  /\ Abandoned(l)
  /\ sent' = [sent EXCEPT ![l] = NoRequest]
  /\ UNCHANGED <<patched, seen>>

UsesTool(l, ungrounded) == ToolCall(l, ungrounded) /\ UNCHANGED <<patched, sent, seen>>

LaneBegins ==
  /\ \/ \E q \in Queries, from \in Lanes \cup {Top} : Call(q, from)
     \/ \E l \in Lanes : ShadowStarts(l) \/ ShadowNeverStarts(l)
  /\ UNCHANGED <<patched, sent, seen>>

OverrideNext ==
  \/ LaneBegins
  \/ \E c \in Clients : Install(c)
  \/ \E l \in Lanes, c \in Clients, lost \in BOOLEAN : Send(l, c, lost)
  \/ \E l \in Lanes, named \in BOOLEAN : Receive(l, named)
  \/ \E l \in Lanes, ungrounded \in BOOLEAN : UsesTool(l, ungrounded)
  \/ \E l \in Lanes : LaneEnds(l) \/ LaneCancelled(l)

OverrideSpec == OverrideInit /\ [][OverrideNext]_overrideVars

-----------------------------------------------------------------------------
(* Properties.                                                             *)

\* A patched client serves concurrent lanes without leaking: what was reported for
\* a lane is its own model or one the agent itself asked for, and never another lane's.
NoLeakage ==
  \A l \in Lanes : seen[l] \subseteq {Requested[l]} \cup {Default[c] : c \in Clients}

\* What the check can promise: if the agent asks every client for the one
\* model that its primary keeps, a shadow that leaves no task behind and whose last
\* report shows that the override failed is never kept as ok.
FailureOnPrimarysModelCaught ==
  \A l \in Lanes \ Strays :
    /\ IsShadow(l) /\ Known(ledger, l) /\ ledger.rows[l].status = "ok"
    /\ Primary(l[1]) \notin Strays
    /\ Requested[Primary(l[1])] = NoModel /\ \A c, d \in Clients : Default[c] = Default[d]
    /\ Observed(ledger, Primary(l[1])) # NoModel
    => Observed(ledger, l) \in {NoModel, Requested[l]}

=============================================================================
