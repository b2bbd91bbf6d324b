------------------------------- MODULE RunLease -------------------------------
(***************************************************************************)
(* What a claim on an agent promises (apps/web/lib/agents): a row is free  *)
(* or held by one run; the request that carries that run gives it up in    *)
(* the step in which it stops; nobody else ever frees it, except that a    *)
(* claim that has got old may be taken back, from a request that was lost  *)
(* with it or from one that goes on too long.                              *)
(***************************************************************************)

CONSTANTS
    Agents,   \* what is claimed
    Runs,     \* who claims it
    None

VARIABLES
    holder,   \* whose each agent is
    atWork,   \* the runs whose request is under way
    late      \* those of the holders and of the runs at work whose claim is too old

lease == <<holder, atWork, late>>

HoldsARow(r) == \E a \in Agents : holder[a] = r

LeaseInit ==
    /\ holder = [a \in Agents |-> None]
    /\ atWork = {}
    /\ late = {}

\* A run that nothing is left of takes a free row.
Acquire(a, r) ==
    /\ holder[a] = None
    /\ ~HoldsARow(r)
    /\ r \notin atWork
    /\ holder' = [holder EXCEPT ![a] = r]
    /\ atWork' = atWork \cup {r}
    /\ UNCHANGED late

\* The holder's own request frees the row and stops.
GiveUp(a) ==
    /\ holder[a] \in atWork
    /\ holder' = [holder EXCEPT ![a] = None]
    /\ atWork' = atWork \ {holder[a]}
    /\ late' = late \ {holder[a]}

\* A claim that is too old is taken back, whether its request goes on or not.
TakeBack(a) ==
    /\ holder[a] \in late
    /\ holder' = [holder EXCEPT ![a] = None]
    /\ late' = late \ ({holder[a]} \ atWork)
    /\ UNCHANGED atWork

\* A claim gets too old.
Lapse(r) ==
    /\ HoldsARow(r)
    /\ late' = late \cup {r}
    /\ UNCHANGED <<holder, atWork>>

\* Requests stop without their row: they are lost, or find it taken back.
Leave(rs) ==
    /\ atWork' = atWork \ rs
    /\ late' = {r \in late : r \in rs => HoldsARow(r)}
    /\ UNCHANGED holder

LeaseNext ==
    \/ \E a \in Agents : GiveUp(a) \/ TakeBack(a) \/ \E r \in Runs : Acquire(a, r)
    \/ \E r \in Runs : Lapse(r)
    \/ \E rs \in SUBSET atWork : Leave(rs)

LeaseSpec == LeaseInit /\ [][LeaseNext]_lease
=============================================================================
