------------------------------- MODULE Journal -------------------------------
(***************************************************************************)
(* What a recorder with a store promises about events, seen from outside:  *)
(* an event gets the next step number of its lane when it is recorded,     *)
(* waits, and then becomes durable or is dropped, for good, once, and      *)
(* together with the rest of its batch.                                    *)
(***************************************************************************)
EXTENDS Naturals

CONSTANTS
  Lanes,
  Models, NoModel

VARIABLES
  count,       \* events recorded so far, per lane
  pending,     \* recorded, not yet settled
  durable,     \* in the store
  dropped      \* never to be in the store

vars == <<count, pending, durable, dropped>>

Event == [lane : Lanes, seq : Nat \ {0}, ungrounded : BOOLEAN, observed : Models \cup {NoModel}]

Init ==
  /\ count = [l \in Lanes |-> 0]
  /\ pending = {}
  /\ durable = {}
  /\ dropped = {}

Record(l) ==
  /\ count' = [count EXCEPT ![l] = @ + 1]
  /\ \E u \in BOOLEAN, m \in Models \cup {NoModel} :
       pending' = pending \cup
         {[lane |-> l, seq |-> count[l] + 1, ungrounded |-> u, observed |-> m]}
  /\ UNCHANGED <<durable, dropped>>

Persist(S) ==
  /\ pending' = pending \ S
  /\ durable' = durable \cup S
  /\ UNCHANGED <<count, dropped>>

Drop(S) ==
  /\ pending' = pending \ S
  /\ dropped' = dropped \cup S
  /\ UNCHANGED <<count, durable>>

Next ==
  \/ \E l \in Lanes : Record(l)
  \/ \E S \in SUBSET pending : Persist(S) \/ Drop(S)

Spec == Init /\ [][Next]_vars

=============================================================================
