------------------------------- MODULE Readback -------------------------------
(***************************************************************************)
(* Reading a query back while it is still recorded: load_query of          *)
(* amc/analysis/runs.py over the reads of amc/store.py.  Each read takes   *)
(* the store's lock for one statement, so a drain may commit between the   *)
(* query and its lanes, and between the lanes and the events of each.      *)
(***************************************************************************)
EXTENDS Recorder

CONSTANT NoReader    \* no query is being loaded

ASSUME ReaderAssumption == NoReader \notin Queries

VARIABLES
  loading,     \* the query being loaded
  found,       \* whether its lanes were read already
  todo,        \* lanes of it whose events are still to be read
  rowsRead,    \* the lane rows
  eventsRead   \* the events of each lane

readVars == <<loading, found, todo, rowsRead, eventsRead>>

ReadInit ==
  /\ Init
  /\ loading = NoReader /\ found = FALSE /\ todo = {}
  /\ rowsRead = NoRows
  /\ eventsRead = [l \in Lanes |-> {}]

\* read_query; a query that is not stored raises KeyError and ends the load.
ReadQuery(q) ==
  /\ loading = NoReader /\ storeOpen
  /\ q \in store.queries
  /\ loading' = q
  /\ found' = FALSE
  /\ rowsRead' = NoRows
  /\ eventsRead' = [l \in Lanes |-> {}]
  /\ UNCHANGED <<vars, todo>>

LanesOf(q) == {l \in Lanes : store.rows[l] # NoRow /\ store.rows[l].query = q}

ReadLanes ==
  /\ loading # NoReader /\ ~found /\ storeOpen
  /\ found' = TRUE
  /\ rowsRead' = [l \in Lanes |-> IF l \in LanesOf(loading) THEN store.rows[l] ELSE NoRow]
  /\ todo' = LanesOf(loading)
  /\ UNCHANGED <<vars, loading, eventsRead>>

\* Mutant: the row is read again after the events.
ReadEventsRefreshing(l) ==
  /\ l \in todo /\ storeOpen
  /\ \/ /\ eventsRead[l] = {}
        /\ eventsRead' = [eventsRead EXCEPT ![l] = {e \in store.events : e.lane = l}]
        /\ UNCHANGED <<rowsRead, todo>>
     \/ /\ eventsRead[l] # {}
        /\ rowsRead' = [rowsRead EXCEPT ![l] = store.rows[l]]
        /\ todo' = todo \ {l}
        /\ UNCHANGED eventsRead
  /\ UNCHANGED <<vars, loading, found>>

ReadEvents(l) ==
  /\ l \in todo /\ storeOpen
  /\ eventsRead' = [eventsRead EXCEPT ![l] = {e \in store.events : e.lane = l}]
  /\ todo' = todo \ {l}
  /\ UNCHANGED <<vars, loading, found, rowsRead>>

\* The report is made; another load may follow.
Loaded ==
  /\ found /\ todo = {}
  /\ loading' = NoReader
  /\ found' = FALSE
  /\ UNCHANGED <<vars, todo, rowsRead, eventsRead>>

Reading ==
  \/ \E q \in Queries : ReadQuery(q)
  \/ ReadLanes
  \/ \E l \in Lanes : ReadEvents(l)
  \/ Loaded

ReadNext == (Next /\ UNCHANGED readVars) \/ Reading

ReadSpec == ReadInit /\ [][ReadNext]_<<vars, readVars>>

-----------------------------------------------------------------------------
(* Properties.  A lane is read once its row and its events have been.      *)

IsRead(l) == rowsRead[l] # NoRow /\ l \notin todo

\* The events read of a lane are its first steps without gap, although buffers are
\* swapped and committed while the reader is at work.
PrefixRead ==
  closer = "open" /\ fails = 0 =>
    \A l \in Lanes : IsRead(l) =>
      \E n \in 0..ledger.seq[l] : {e.seq : e \in eventsRead[l]} = 1..n

\* A row never runs ahead of the events read with it: the step at which the lane was
\* contaminated is among them, and so is a call whose response named the model it names.
RowBackedByEvents ==
  closer = "open" /\ fails = 0 =>
    \A l \in Lanes : IsRead(l) =>
      LET row == rowsRead[l] IN
      /\ row.contaminated # 0 => \E e \in eventsRead[l] : e.seq = row.contaminated /\ e.ungrounded
      /\ row.observed # NoModel => \E e \in eventsRead[l] : e.observed = row.observed

=============================================================================
