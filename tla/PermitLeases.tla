---------------------------- MODULE PermitLeases ----------------------------
(***************************************************************************)
(* The concurrency cap every instance shares (apps/web/lib/rateLimit/      *)
(* leases.ts) and its one user, the data.call gate of Tools                *)
(* (apps/web/lib/tools/limits.ts), for one key.                            *)
(*                                                                         *)
(* Taking a permit is one statement, but two steps of the database: the    *)
(* lowest free slot is looked up in the statement's snapshot, and the row  *)
(* is inserted or overwritten under its lock.  Time is abstracted to which *)
(* rows have run out.                                                      *)
(***************************************************************************)
EXTENDS Naturals, FiniteSets, Rows

CONSTANTS
    Callers,       \* holder ids, one per call; an id nothing names is minted again
    Instances,     \* processes of the runtime
    Cap,           \* DATA_CALL_CONCURRENCY
    PermitFaults   \* "down", "deaf", "keep", "die"

ASSUME PermitAssumption ==
    /\ Cap \in Nat \ {0}
    /\ PermitFaults \subseteq {"down", "deaf", "keep", "die"}
    /\ None \notin Callers

VARIABLES
    lease,    \* rate_limit_leases: the holder of each slot's row
    lapsed,   \* the slots whose row has run out
    call      \* what each call is doing

permitVars == <<lease, lapsed, call>>

-----------------------------------------------------------------------------

Slots == 0..Cap - 1

\* `seen` is the holder of the row the statement saw on its slot.  `late` is no state
\* of the program: it remembers that the call outlived its permit.
CallRecord ==
    [pc : {"out", "taking", "working", "gated"}, at : Instances \cup {None}, slot : Slots,
     seen : Callers \cup {None}, late : BOOLEAN]

PermitTypeOK ==
    /\ lease \in [Slots -> Callers \cup {None}]
    /\ lapsed \subseteq {s \in Slots : lease[s] # None}
    /\ call \in [Callers -> CallRecord]

NoCall == [pc |-> "out", at |-> None, slot |-> 0, seen |-> None, late |-> FALSE]

PermitInit ==
    /\ lease = [s \in Slots |-> None]
    /\ lapsed = {}
    /\ call = [c \in Callers |-> NoCall]

-----------------------------------------------------------------------------

\* A slot no unexpired row holds.
Free(s) == lease[s] = None \/ s \in lapsed

\* A holder id that nothing names: randomUUID.
Fresh(c) ==
    /\ call[c].pc = "out"
    /\ \A s \in Slots : lease[s] # c
    /\ \A b \in Callers : call[b].seen # c

\* The calls the in-process gate of instance i counts.
Running(i) == {c \in Callers : call[c].pc = "gated" /\ call[c].at = i}

\* With the store unreachable, the in-process gate decides.
Gate(c, i) == IF Cardinality(Running(i)) < Cap THEN [NoCall EXCEPT !.pc = "gated", !.at = i] ELSE NoCall

\* The first half of the statement: the lowest free slot; with none, the call is refused.
LookUp(c, i) ==
    /\ Fresh(c)
    /\ \E s \in Slots :
          /\ Free(s)
          /\ \A t \in 0..s - 1 : ~Free(t)
          /\ call' = [call EXCEPT ![c] = [pc |-> "taking", at |-> i, slot |-> s, seen |-> lease[s], late |-> FALSE]]
    /\ UNCHANGED <<lease, lapsed>>

\* bug: ON CONFLICT DO UPDATE without its WHERE.
Overwrites(x) == TRUE

\* The row goes in: no conflict, or one with a row that had run out when the
\* statement began, which can only be the row it saw.
GoesIn(x) == lease[x.slot] \in {None, x.seen}

\* Slot s is c's from now on.
Inserted(c, s) ==
    /\ lease' = [lease EXCEPT ![s] = c]
    /\ lapsed' = lapsed \ {s}

Insert(c) ==
    /\ call[c].pc = "taking"
    /\ GoesIn(call[c])
    /\ Inserted(c, call[c].slot)
    /\ call' = [call EXCEPT ![c].pc = "working", ![c].seen = None]

\* Another call was faster: a false "busy".
Refuse(c) ==
    /\ call[c].pc = "taking"
    /\ ~GoesIn(call[c])
    /\ call' = [call EXCEPT ![c] = NoCall]
    /\ UNCHANGED <<lease, lapsed>>

\* The store is unreachable, before the statement ran ...
StoreDown(c, i) ==
    /\ "down" \in PermitFaults
    /\ Fresh(c)
    /\ call' = [call EXCEPT ![c] = Gate(c, i)]
    /\ UNCHANGED <<lease, lapsed>>

\* ... or after: its answer is lost, and the row stays until it runs out.
AnswerLost(c) ==
    /\ "deaf" \in PermitFaults
    /\ call[c].pc = "taking"
    /\ GoesIn(call[c])
    /\ Inserted(c, call[c].slot)
    /\ call' = [call EXCEPT ![c] = Gate(c, call[c].at)]

\* bug: the holder is blanked and the expiry stays.
Blanked(S) ==
    /\ lease' = [s \in Slots |-> IF s \in S THEN None ELSE lease[s]]
    /\ UNCHANGED lapsed

\* The rows of some slots are deleted.
Deleted(S) ==
    /\ lease' = [s \in Slots |-> IF s \in S THEN None ELSE lease[s]]
    /\ lapsed' = lapsed \ S

\* bug: the slot is freed whoever holds it.
Emptied(c) == {call[c].slot}

\* The row a release deletes: its slot's, if it is still its own.
OwnRow(c) == {s \in {call[c].slot} : lease[s] = c}

\* The call is over and gives its slot back.
Release(c) ==
    /\ call[c].pc = "working"
    /\ Deleted(OwnRow(c))
    /\ call' = [call EXCEPT ![c] = NoCall]

\* A release that fails is logged and forgotten.
ReleaseFails(c) ==
    /\ "keep" \in PermitFaults
    /\ call[c].pc = "working"
    /\ call' = [call EXCEPT ![c] = NoCall]
    /\ UNCHANGED <<lease, lapsed>>

LeaveGate(c) ==
    /\ call[c].pc = "gated"
    /\ call' = [call EXCEPT ![c] = NoCall]
    /\ UNCHANGED <<lease, lapsed>>

\* A statement whose instance died is not undone.
InstanceDies(i) ==
    /\ "die" \in PermitFaults
    /\ \E c \in Callers : call[c].at = i
    /\ call' = [c \in Callers |-> IF call[c].at = i THEN NoCall ELSE call[c]]
    /\ UNCHANGED <<lease, lapsed>>

\* DATA_CALL_LEASE_MS is over.
Lapse(s) ==
    /\ lease[s] # None /\ s \notin lapsed
    /\ lapsed' = lapsed \cup {s}
    /\ call' = [call EXCEPT ![lease[s]].late = call[lease[s]].pc = "working"]
    /\ UNCHANGED lease

\* pruneLeases, nightly.
Prune ==
    /\ lapsed # {}
    /\ Deleted(lapsed)
    /\ UNCHANGED call

PermitNext ==
    \/ \E c \in Callers, i \in Instances : LookUp(c, i) \/ StoreDown(c, i)
    \/ \E c \in Callers : Insert(c) \/ Refuse(c) \/ AnswerLost(c) \/ Release(c) \/ ReleaseFails(c) \/ LeaveGate(c)
    \/ \E i \in Instances : InstanceDies(i)
    \/ \E s \in Slots : Lapse(s)
    \/ Prune

PermitSpec == PermitInit /\ [][PermitNext]_permitVars

-----------------------------------------------------------------------------
(* Properties *)

\* The calls at work on a permit that has not run out.
OnPermit == {c \in Callers : call[c].pc = "working" /\ ~call[c].late}

\* A call at work on time still has its row, whatever late releases, takeovers and
\* prunes went by.
SlotKept == \A c \in OnPermit : lease[call[c].slot] = c /\ call[c].slot \notin lapsed

\* "At most N of these at once" (leases.ts), of the calls that have not outlived
\* their permit: a racing insert, a crash, a lost answer or a late release of a slot
\* that went to another never lets in one more.
WithinCap == Cardinality(OnPermit) <= Cap

\* The table is a semaphore: a row is taken only while fewer than Cap unexpired
\* rows are held, and only by an id that holds none (acquireLease).
Taken == {s \in Slots : ~Free(s)}
Held == {lease[s] : s \in Taken}

TheCap == INSTANCE Semaphore WITH Holders <- Callers, Permits <- Cap, held <- Held

AtMostCapHeld == TheCap!SemaphoreSpec
=============================================================================
