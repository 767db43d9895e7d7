--------------------------- MODULE ThreadedRecorder ---------------------------
(***************************************************************************)
(* The recorder called from the event loop and from worker threads at the  *)
(* same time: a synchronous tool that runs off the event loop calls the    *)
(* sink where it runs, and the recorder has no lock.  The interpreter may  *)
(* switch threads between any two of the steps below; each step alone is   *)
(* one dict, list or set operation.                                        *)
(*                                                                         *)
(* record_tool_event reads the step count, writes it back, appends to the  *)
(* list that self._events was when it looked, and for an ungrounded answer *)
(* counts the divergence and replaces the lane's row.  record_model_call,  *)
(* on the event loop, looks at the row first, replaces it if the response  *)
(* names another model, and numbers and appends its event the same way.    *)
(* _drain swaps the buffers on the event loop, and the list it took is     *)
(* still the one that a late append goes to; the store's write reads it in *)
(* another thread.  Every lane has its row already, of which only the mark *)
(* is kept here: replacing a row writes back the mark of the row read.     *)
(* The dirty set is left out.                                              *)
(***************************************************************************)
EXTENDS Naturals, FiniteSets

CONSTANTS
  Threads,
  Loop,        \* the event loop's own thread
  Lanes,
  Sequential,  \* lanes whose agent waits for each call before it makes the next
  MaxCalls,    \* bound: calls per lane
  Drains,      \* bound: drains
  Threshold    \* contamination_threshold

ASSUME ThreadAssumption ==
  /\ Loop \notin Threads
  /\ Sequential \subseteq Lanes
  /\ MaxCalls \in Nat /\ Drains \in Nat
  /\ Threshold \in Nat \ {0}

Callers == Threads \cup {Loop}
Kinds == {"model", "tool", "ungrounded"}

VARIABLES
  pc,          \* where each caller is in record_tool_event or record_model_call
  call,        \* the call it records: its lane, which call of the lane, its kind
  read,        \* the count each caller has read
  step,        \* the step number of its event
  bound,       \* the list it will append to
  copy,        \* the mark in the row that the event loop will write back
  calls,       \* calls begun in each lane
  seq,         \* _seq
  divergence,  \* _divergence
  mark,        \* contaminated_at_step in each lane's row, 0 for none
  current,     \* the list self._events is; lists are numbered by the swaps
  lists,       \* the events in each list
  writing,     \* the list the store's thread has still to read, 0 for none
  stored       \* the events table

drainVars == <<current, writing, stored>>
vars == <<pc, call, read, step, bound, copy, calls, seq, divergence, mark, lists, drainVars>>

Call == [lane : Lanes, n : Nat, kind : Kinds]
Event == [lane : Lanes, n : Nat, seq : Nat, ungrounded : BOOLEAN]
ListIds == 1..(Drains + 1)

Init ==
  /\ pc = [c \in Callers |-> "idle"]
  /\ call = [c \in Callers |-> [lane |-> CHOOSE l \in Lanes : TRUE, n |-> 0, kind |-> "tool"]]
  /\ read = [c \in Callers |-> 0] /\ step = [c \in Callers |-> 0]
  /\ bound = [c \in Callers |-> 1] /\ copy = 0
  /\ calls = [l \in Lanes |-> 0]
  /\ seq = [l \in Lanes |-> 0] /\ divergence = [l \in Lanes |-> 0]
  /\ mark = [l \in Lanes |-> 0]
  /\ current = 1 /\ writing = 0
  /\ lists = [i \in ListIds |-> {}] /\ stored = {}

InLane(l) == {c \in Callers : pc[c] # "idle" /\ call[c].lane = l}
Lane(c) == call[c].lane

-----------------------------------------------------------------------------
(* The two handlers, in whichever thread calls them.                       *)

Goes(c, from, to) == pc[c] = from /\ pc' = [pc EXCEPT ![c] = to]

\* A tool may run in any thread of the pool or on the event loop; model calls are
\* recorded on the event loop.
Begins(c, l, kind) ==
  /\ Goes(c, "idle", IF kind = "model" THEN "row" ELSE "count")
  /\ kind = "model" => c = Loop
  /\ calls[l] < MaxCalls
  /\ l \in Sequential => InLane(l) = {}
  /\ call' = [call EXCEPT ![c] = [lane |-> l, n |-> calls[l] + 1, kind |-> kind]]
  /\ calls' = [calls EXCEPT ![l] = @ + 1]
  /\ UNCHANGED <<read, step, bound, copy, seq, divergence, mark, lists, drainVars>>

\* record_model_call: the row is replaced if the response names a model that it does not.
LooksAtRow(c, renames) ==
  /\ Goes(c, "row", IF renames THEN "replace" ELSE "count")
  /\ copy' = mark[Lane(c)]
  /\ UNCHANGED <<call, read, step, bound, calls, seq, divergence, mark, lists, drainVars>>

Renames(c) ==
  /\ Goes(c, "replace", "count")
  /\ mark' = [mark EXCEPT ![Lane(c)] = copy]
  /\ UNCHANGED <<call, read, step, bound, copy, calls, seq, divergence, lists, drainVars>>

ReadsCount(c) ==
  /\ Goes(c, "count", "number")
  /\ read' = [read EXCEPT ![c] = seq[Lane(c)]]
  /\ UNCHANGED <<call, step, bound, copy, calls, seq, divergence, mark, lists, drainVars>>

WritesCount(c) ==
  /\ Goes(c, "number", "bind")
  /\ step' = [step EXCEPT ![c] = read[c] + 1]
  /\ seq' = [seq EXCEPT ![Lane(c)] = read[c] + 1]
  /\ UNCHANGED <<call, read, bound, copy, calls, divergence, mark, lists, drainVars>>

\* self._events is looked up before the event to append is made; record_model_call looks
\* it up before it numbers the event, which is the same list, as the loop does the swaps.
BindsList(c) ==
  /\ Goes(c, "bind", "append")
  /\ bound' = [bound EXCEPT ![c] = current]
  /\ UNCHANGED <<call, read, step, copy, calls, seq, divergence, mark, lists, drainVars>>

Recorded(c) == [lane |-> Lane(c), n |-> call[c].n, seq |-> step[c],
                ungrounded |-> call[c].kind = "ungrounded"]

Appends(c) ==
  /\ Goes(c, "append", IF call[c].kind = "ungrounded" THEN "tally" ELSE "idle")
  /\ lists' = [lists EXCEPT ![bound[c]] = @ \cup {Recorded(c)}]
  /\ UNCHANGED <<call, read, step, bound, copy, calls, seq, divergence, mark, drainVars>>

ReadsTally(c) ==
  /\ Goes(c, "tally", "tallied")
  /\ read' = [read EXCEPT ![c] = divergence[Lane(c)]]
  /\ UNCHANGED <<call, step, bound, copy, calls, seq, divergence, mark, lists, drainVars>>

\* Mutant: the threshold has to be passed.
WritesTallyPast(c) ==
  /\ Goes(c, "tallied", IF read[c] < Threshold THEN "idle" ELSE "look")
  /\ divergence' = [divergence EXCEPT ![Lane(c)] = read[c] + 1]
  /\ UNCHANGED <<call, read, step, bound, copy, calls, seq, mark, lists, drainVars>>

WritesTally(c) ==
  /\ Goes(c, "tallied", IF read[c] + 1 < Threshold THEN "idle" ELSE "look")
  /\ divergence' = [divergence EXCEPT ![Lane(c)] = read[c] + 1]
  /\ UNCHANGED <<call, read, step, bound, copy, calls, seq, mark, lists, drainVars>>

ReadsRow(c) ==
  /\ Goes(c, "look", IF mark[Lane(c)] # 0 THEN "idle" ELSE "mark")
  /\ UNCHANGED <<call, read, step, bound, copy, calls, seq, divergence, mark, lists, drainVars>>

ReplacesRow(c) ==
  /\ Goes(c, "mark", "idle")
  /\ mark' = [mark EXCEPT ![Lane(c)] = step[c]]
  /\ UNCHANGED <<call, read, step, bound, copy, calls, seq, divergence, lists, drainVars>>

Works(c) ==
  \/ \E renames \in BOOLEAN : LooksAtRow(c, renames)
  \/ Renames(c) \/ ReadsCount(c) \/ WritesCount(c) \/ BindsList(c) \/ Appends(c)
  \/ ReadsTally(c) \/ WritesTally(c) \/ ReadsRow(c) \/ ReplacesRow(c)

-----------------------------------------------------------------------------
(* Draining.                                                               *)

\* The flush loop swaps the lists and waits for its write.  An empty batch, no event
\* and no row of another kind, is not written.
Swap(others) ==
  /\ current <= Drains /\ writing = 0 /\ pc[Loop] = "idle"
  /\ current' = current + 1
  /\ writing' = IF lists[current] # {} \/ others THEN current ELSE 0
  /\ UNCHANGED <<pc, call, read, step, bound, copy, calls, seq, divergence, mark, lists, stored>>

\* The batch is the list itself, read when the store has its lock.
Write ==
  /\ writing # 0
  /\ stored' = stored \cup lists[writing]
  /\ writing' = 0
  /\ UNCHANGED <<pc, call, read, step, bound, copy, calls, seq, divergence, mark, lists, current>>

Next ==
  \/ \E c \in Callers, l \in Lanes, kind \in Kinds : Begins(c, l, kind)
  \/ \E c \in Callers : Works(c)
  \/ \E others \in BOOLEAN : Swap(others)
  \/ Write

Spec == Init /\ [][Next]_vars

-----------------------------------------------------------------------------
(* Properties.                                                             *)

Made(l) == {e \in UNION {lists[i] : i \in ListIds} : e.lane = l}
Ungrounded(l, n) == Cardinality({e \in Made(l) : e.ungrounded /\ e.seq <= n})

\* A lane that makes one call at a time is recorded as on the event loop, whichever
\* threads its tools run in and whatever calls of other lanes, in threads and on the
\* loop, and drains run between any two steps of its own: its model and tool calls are
\* numbered 1, 2, 3, ... in the order they were made, and between calls it is
\* contaminated from the step at which its ungrounded answers reached the threshold.
OneCallAtATimeIsExact ==
  \A l \in Sequential :
    /\ {e.seq : e \in Made(l)} = 1..Cardinality(Made(l))
    /\ \A e \in Made(l) : e.seq = e.n
    /\ InLane(l) = {} =>
         IF mark[l] = 0 THEN Ungrounded(l, seq[l]) < Threshold
         ELSE Ungrounded(l, mark[l]) = Threshold /\ Ungrounded(l, mark[l] - 1) < Threshold

=============================================================================
