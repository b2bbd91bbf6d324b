----------------------------- MODULE NoteOutbox -----------------------------
(***************************************************************************)
(* The projection outbox (apps/web/lib/notes/projections.ts): a save, a    *)
(* rename or a delete of a note commits together with a job row that says  *)
(* its derived rows are owed; the request then applies the job inline and  *)
(* deletes the row, and a drain retries whatever was left behind.          *)
(*                                                                         *)
(* One action is one transaction or one statement.  A mutation finds the   *)
(* row of its note by path, outside its transaction, and changes it by id; *)
(* the row may be moved, trashed or restored in between.  The derived rows *)
(* of a path (links, record, replicas) are abstracted to the version of    *)
(* the note they were derived from; version 0 is "no live note here" and   *)
(* "no derived rows".  runAfter is abstracted to whether the row is due.   *)
(***************************************************************************)
EXTENDS Naturals, FiniteSets, Rows

CONSTANTS
    Paths,         \* paths of one context
    Requests,      \* requests that change notes, and reconcilers
    Drains,        \* drain passes that may overlap
    Jobs,          \* ids of note_projection_job rows; an id nothing names is minted again
    Kinds,         \* what requests do: "write", "entity", "restore", "rename", "delete", "reconcile"
    OutboxFaults,  \* "die", "throw", "swallow"
    MaxEdits,      \* bound on what requests begin
    MaxAttempts    \* MAX_ATTEMPTS

ASSUME OutboxAssumption ==
    /\ Kinds \subseteq {"write", "entity", "restore", "rename", "delete", "reconcile"}
    /\ OutboxFaults \subseteq {"die", "throw", "swallow"}
    /\ MaxEdits \in Nat
    /\ MaxAttempts \in Nat \ {0}
    /\ Requests \cap Drains = {}
    /\ None \notin Paths \cup Jobs

VARIABLES
    note,      \* the version that is live at each path
    derived,   \* the version each path's derived rows describe
    job,       \* the job rows
    worker,    \* what each request and each drain is doing
    rowAt,     \* no column: where the row that a request found is by now, None in the trash
    edits,     \* how much requests have begun; numbers the versions they write
    torn       \* no column: the paths on which the protocol below was ever broken into

outboxVars == <<note, derived, job, worker, rowAt, edits, torn>>

-----------------------------------------------------------------------------

\* The note that is there at the start, if any, has the version after the last.
Versions == 0..MaxEdits + 1
Workers == Requests \cup Drains
AtWork == {"entity", "live", "derive", "settle"}

\* `reset` is no column: it remembers that a failed settle set the attempts back.
JobRow ==
    [state : {"none", "pending", "parked"}, kind : {"write", "rename", "delete"}, path : Paths \cup {None},
     from : Paths \cup {None}, attempts : 0..MaxAttempts, due : BOOLEAN, reset : BOOLEAN]

WorkerRecord ==
    [pc : {"idle", "found", "tx", "due"} \cup AtWork, kind : {"write", "rename", "delete"},
     found : {"nothing", "live", "trash"}, path : Paths \cup {None}, from : Paths \cup {None},
     job : Jobs \cup {None}, view : Versions, seen : 0..MaxAttempts]

OutboxTypeOK ==
    /\ note \in [Paths -> Versions]
    /\ derived \in [Paths -> Versions]
    /\ job \in [Jobs -> JobRow]
    /\ worker \in [Workers -> WorkerRecord]
    /\ rowAt \in [Requests -> Paths \cup {None}]
    /\ edits \in 0..MaxEdits
    /\ torn \subseteq Paths

NoJob == [state |-> "none", kind |-> "write", path |-> None, from |-> None, attempts |-> 0, due |-> FALSE, reset |-> FALSE]

IdleWorker ==
    [pc |-> "idle", kind |-> "write", found |-> "nothing", path |-> None, from |-> None,
     job |-> None, view |-> 0, seen |-> 0]

OutboxInit ==
    /\ \E old \in Paths \cup {None} : note = [p \in Paths |-> IF p = old THEN MaxEdits + 1 ELSE 0]
    /\ derived = note
    /\ job = [j \in Jobs |-> NoJob]
    /\ worker = [w \in Workers |-> IdleWorker]
    /\ rowAt = [q \in Requests |-> None]
    /\ edits = 0
    /\ torn = {}

-----------------------------------------------------------------------------

\* The paths a job or a worker is about.
Touches(x) == {x.path, x.from} \ {None}

Busy(w) == worker[w].pc \in AtWork

Unnamed(j) ==
    /\ job[j].state = "none"
    /\ \A w \in Workers : worker[w].job # j

\* The pending write job of a path, which the next write coalesces onto.
Pending(p) == {j \in Jobs : job[j].state = "pending" /\ job[j].kind = "write" /\ job[j].path = p}

\* Worker w goes to work as x, its commit having torn `lost`: on a path where another
\* is at work already, they cross.
GoesToWork(w, x, lost) ==
    /\ worker' = [worker EXCEPT ![w] = x]
    /\ torn' = torn \cup lost
                    \cup {p \in Touches(x) : \E v \in Workers \ {w} : Busy(v) /\ p \in Touches(worker[v])}

Owing(x) == [NoJob EXCEPT !.state = "pending", !.kind = x.kind, !.path = x.path, !.from = x.from, !.due = TRUE]

-----------------------------------------------------------------------------
(* The note store: a mutation finds its row by path ... *)

\* Request q has read what its mutation x is to be of; a write of it will be of the
\* next version.
Finds(q, x, p) ==
    /\ worker[q].pc = "idle"
    /\ edits < MaxEdits
    /\ edits' = edits + 1
    /\ worker' = [worker EXCEPT ![q] = [x EXCEPT !.pc = "found", !.view = edits + 1]]
    /\ rowAt' = [rowAt EXCEPT ![q] = p]
    /\ UNCHANGED <<note, derived, job, torn>>

\* writeNote and createNote: a note is at the path, or is to be.
WriteNote(q, p) ==
    /\ "write" \in Kinds
    /\ IF note[p] = 0 THEN Finds(q, [IdleWorker EXCEPT !.path = p], None)
                       ELSE Finds(q, [IdleWorker EXCEPT !.found = "live", !.path = p], p)

\* restoreTrash: some row is in the trash, and the path it is to return to is free.
RestoreTrash(q, p) ==
    /\ "restore" \in Kinds
    /\ note[p] = 0
    /\ Finds(q, [IdleWorker EXCEPT !.found = "trash", !.path = p], None)

RenameNote(q, from, to) ==
    /\ "rename" \in Kinds
    /\ note[from] # 0 /\ note[to] = 0 /\ from # to
    /\ Finds(q, [IdleWorker EXCEPT !.kind = "rename", !.found = "live", !.path = to, !.from = from], from)

DeleteNote(q, p) ==
    /\ "delete" \in Kinds
    /\ note[p] # 0
    /\ Finds(q, [IdleWorker EXCEPT !.kind = "delete", !.found = "live", !.path = p], p)

-----------------------------------------------------------------------------
(* ... and changes it by id, with its job, in one transaction *)

\* Does x put a row at its path?
Puts(x) == x.kind = "rename" \/ (x.kind = "write" /\ x.found # "live")

\* A transaction that has written a row, or put one at a path, makes the others wait.
Locked(q) ==
    \E r \in Requests \ {q} :
        /\ worker[r].pc = "tx"
        /\ \/ rowAt[q] # None /\ rowAt[r] = rowAt[q]
           \/ Puts(worker[q]) /\ Puts(worker[r]) /\ worker[q].path = worker[r].path

\* Where the row is once q's mutation has changed it: a save leaves it where it is by
\* now, a rename of one trashed meanwhile leaves it in the trash.
Lands(q) ==
    LET x == worker[q] IN
    IF x.kind = "delete" THEN None
    ELSE IF Puts(x) /\ ~(x.kind = "rename" /\ rowAt[q] = None) THEN x.path ELSE rowAt[q]

\* Its text: a rename keeps it, and a restore of a row that is back already.
Text(q) == IF worker[q].kind # "rename" /\ (worker[q].found = "live" \/ rowAt[q] = None)
               THEN worker[q].view ELSE note[rowAt[q]]

\* No other live row has the path where the row lands.
PathFree(q) == \A p \in {Lands(q)} \ {None, rowAt[q]} : note[p] = 0

\* The notes after q's commit.
Mutated(q) ==
    [p \in Paths |-> IF p = Lands(q) THEN Text(q) ELSE IF p = rowAt[q] THEN 0 ELSE note[p]]

\* The requests that may have found the row that q restores.
Trashed(q) ==
    {r \in Requests : worker[r].pc \in {"found", "tx"} /\ worker[r].found # "nothing" /\ rowAt[r] = None}

\* Whoever found the same row will change it where it is now.
RowsFollow(q) ==
    \E same \in IF worker[q].found = "trash" /\ rowAt[q] = None THEN SUBSET Trashed(q) ELSE {{}} :
        rowAt' = [r \in Requests |-> IF r = q THEN None
                                     ELSE IF r \in same \/ (rowAt[q] # None /\ rowAt[r] = rowAt[q]) THEN Lands(q)
                                     ELSE rowAt[r]]

\* The path that a row has left for another since q found it: no job is of that path.
LeftBehind(q) == {rowAt[q]} \ (Touches(worker[q]) \cup {None})

\* The note is changed and job j says so.  The request goes to work on it; a delete
\* has no text to read and goes straight to its hooks.
CommitAs(q, j, row) ==
    LET x == worker[q] IN
    /\ PathFree(q)
    /\ note' = Mutated(q)
    /\ RowsFollow(q)
    /\ job' = [job EXCEPT ![j] = row]
    /\ GoesToWork(q, [x EXCEPT !.pc = IF x.kind = "delete" THEN "derive" ELSE "live", !.found = "nothing",
                               !.job = j, !.view = 0], LeftBehind(q))
    /\ UNCHANGED <<derived, edits>>

\* A rename or a delete never coalesces.
Mutate(q) ==
    /\ worker[q].pc = "found" /\ worker[q].kind # "write"
    /\ ~Locked(q)
    /\ \E j \in Jobs : Unnamed(j) /\ CommitAs(q, j, Owing(worker[q]))

\* A write changes the row, which it holds from then on, and looks for a pending job ...
FindPending(q) ==
    LET found == Pending(worker[q].path) IN
    /\ worker[q].pc = "found" /\ worker[q].kind = "write"
    /\ ~Locked(q) /\ PathFree(q)
    /\ \E j \in IF found = {} THEN {None} ELSE found :
           worker' = [worker EXCEPT ![q].pc = "tx", ![q].job = j]
    /\ UNCHANGED <<note, derived, job, rowAt, edits, torn>>

\* The mutation is rolled back, and nothing came of the request.
RolledBack(q) ==
    /\ worker' = [worker EXCEPT ![q] = IdleWorker]
    /\ rowAt' = [rowAt EXCEPT ![q] = None]
    /\ UNCHANGED <<note, derived, job, edits, torn>>

\* ... to create one, or to update the one it found by id.  One parked meanwhile stays
\* parked; if it was deleted the update throws.
Coalesce(q) ==
    LET x == worker[q]  row == job[x.job] IN
    /\ x.pc = "tx"
    /\ IF x.job = None THEN \E j \in Jobs : Unnamed(j) /\ CommitAs(q, j, Owing(x))
       ELSE IF row.state = "none" THEN RolledBack(q)
       ELSE CommitAs(q, x.job, [row EXCEPT !.due = TRUE])

\* Another row has the path, perhaps in the trash, or the row found was purged from it.
MutationFails(q) ==
    /\ worker[q].pc = "found"
    /\ Puts(worker[q]) \/ rowAt[q] = None
    /\ RolledBack(q)

\* createNote under an entity: the job is enqueued on its own, before the folder
\* and the note are built.
EnqueueEntity(q) ==
    LET x == worker[q] IN
    /\ "entity" \in Kinds
    /\ x.pc = "found" /\ x.kind = "write" /\ x.found = "nothing"
    /\ \E j \in IF Pending(x.path) # {} THEN Pending(x.path) ELSE {i \in Jobs : Unnamed(i)} :
          /\ job' = [job EXCEPT ![j] = IF @.state = "pending" THEN [@ EXCEPT !.due = TRUE] ELSE Owing(x)]
          /\ GoesToWork(q, [x EXCEPT !.pc = "entity", !.job = j], {})
    /\ UNCHANGED <<note, derived, rowAt, edits>>

BuildEntity(q) ==
    LET x == worker[q] IN
    /\ x.pc = "entity"
    /\ ~Locked(q)
    /\ note' = IF note[x.path] = 0 THEN [note EXCEPT ![x.path] = x.view] ELSE note
    /\ GoesToWork(q, [x EXCEPT !.pc = "live", !.view = 0], {})
    /\ UNCHANGED <<derived, job, rowAt, edits>>

\* reconcileContext applies a write to a live note, with no job behind it.
Reconcile(q, p) ==
    LET x == [IdleWorker EXCEPT !.pc = "live", !.path = p] IN
    /\ "reconcile" \in Kinds
    /\ worker[q].pc = "idle"
    /\ edits < MaxEdits
    /\ edits' = edits + 1
    /\ note[p] # 0
    /\ GoesToWork(q, x, {})
    /\ UNCHANGED <<note, derived, job, rowAt>>

-----------------------------------------------------------------------------
(* applyProjections, for a request and for a drain *)

\* The text is read once; a write or a rename whose note is gone is a no-op, the
\* rename's also for the path it left.
ReadLive(w) ==
    LET x == worker[w] IN
    /\ x.pc = "live"
    /\ worker' = [worker EXCEPT ![w].pc = IF note[x.path] = 0 THEN "settle" ELSE "derive",
                                ![w].view = note[x.path]]
    /\ torn' = IF x.kind = "rename" /\ note[x.path] = 0 THEN torn \cup {x.from} ELSE torn
    /\ UNCHANGED <<note, derived, job, rowAt, edits>>

\* bug: a rename leaves what was derived at the path it left.
DerivedHere(x) == [derived EXCEPT ![x.path] = x.view]

\* The hooks write what the worker read; a rename also drops what was derived at
\* the path it left, and a delete drops what was derived at its own.
DerivedBy(x) == [p \in Paths |-> IF p = x.path THEN x.view ELSE IF p = x.from THEN 0 ELSE derived[p]]

Derive(w) ==
    /\ worker[w].pc = "derive"
    /\ derived' = DerivedBy(worker[w])
    /\ torn' = torn \cup {p \in Touches(worker[w]) : derived'[p] = 0 /\ note[p] # 0}
    /\ worker' = [worker EXCEPT ![w].pc = "settle", ![w].view = 0]
    /\ UNCHANGED <<note, job, rowAt, edits>>

Done(w, j, row) ==
    /\ job' = IF j = None THEN job ELSE [job EXCEPT ![j] = row]
    /\ worker' = [worker EXCEPT ![w] = IdleWorker]
    /\ UNCHANGED <<note, derived, rowAt, edits, torn>>

\* The job is done: its row is deleted by id.
SettleJob(w) ==
    /\ worker[w].pc = "settle"
    /\ Done(w, worker[w].job, NoJob)

\* bug: a failed job is deleted like a settled one.
Dropped(row) == NoJob

\* A failed settle leaves a pending row to the drain, one attempt used.
Recorded(row) ==
    IF row.state = "pending" THEN [row EXCEPT !.attempts = 1, !.due = FALSE, !.reset = TRUE] ELSE row

\* A hook throws, before or after the derived rows were written, or the settle does.
\* A request records that on the row; a drain has counted the attempt already.
HookThrows(w) ==
    LET j == worker[w].job IN
    /\ "throw" \in OutboxFaults
    /\ worker[w].pc \in {"live", "derive", "settle"}
    /\ Done(w, j, IF j # None /\ w \in Requests THEN Recorded(job[j]) ELSE job[j])

-----------------------------------------------------------------------------
(* drainProjections *)

\* A pass reads its due rows and visits them one by one.  A row visited late is one
\* that another drain has read early, so each drain is modelled with one row at a time.
DrainRead(d, j) ==
    /\ worker[d].pc = "idle"
    /\ job[j].state = "pending" /\ job[j].due
    /\ worker' = [worker EXCEPT ![d] = [IdleWorker EXCEPT !.pc = "due", !.job = j, !.seen = job[j].attempts]]
    /\ UNCHANGED <<note, derived, job, rowAt, edits, torn>>

\* Has a row that was read burned its attempts?
Spent(n) == n >= MaxAttempts

\* A row that has burned its attempts is parked, if it is still pending.
ParkJob(d) ==
    LET j == worker[d].job IN
    /\ worker[d].pc = "due"
    /\ Spent(worker[d].seen)
    /\ Done(d, j, IF job[j].state = "pending" THEN [job[j] EXCEPT !.state = "parked"] ELSE job[j])

\* bug: the claim takes any pending row, whatever its attempts are by now.
AnyPending(x) == job[x.job].state = "pending"

\* The claim's compare-and-swap: pending, and at the attempts that were read.
AsRead(x) == job[x.job].state = "pending" /\ job[x.job].attempts = x.seen

\* bug: an attempt is counted only by its failure.
NotCounted(n) == n

\* The claim counts the attempt before it is made.
Counted(n) == n + 1

ClaimJob(d) ==
    LET j == worker[d].job  row == job[j] IN
    /\ worker[d].pc = "due"
    /\ ~Spent(worker[d].seen)
    /\ AsRead(worker[d])
    /\ job' = [job EXCEPT ![j].attempts = Counted(worker[d].seen), ![j].due = FALSE]
    /\ GoesToWork(d, [IdleWorker EXCEPT !.pc = IF row.kind = "delete" THEN "derive" ELSE "live",
                          !.kind = row.kind, !.path = row.path, !.from = row.from, !.job = j], {})
    /\ UNCHANGED <<note, derived, rowAt, edits>>

\* Another instance took it, or its request settled it.
PassJob(d) ==
    /\ worker[d].pc = "due"
    /\ ~Spent(worker[d].seen)
    /\ ~AsRead(worker[d])
    /\ worker' = [worker EXCEPT ![d] = IdleWorker]
    /\ UNCHANGED <<note, derived, job, rowAt, edits, torn>>

-----------------------------------------------------------------------------
(* Time and faults *)

BackoffEnds(j) ==
    /\ job[j].state = "pending" /\ ~job[j].due
    /\ job' = [job EXCEPT ![j].due = TRUE]
    /\ UNCHANGED <<note, derived, worker, rowAt, edits, torn>>

\* syncContextLinks catches its own errors: nothing was derived and nobody is told.
HookSwallows(w) ==
    /\ "swallow" \in OutboxFaults
    /\ worker[w].pc = "derive"
    /\ worker' = [worker EXCEPT ![w].pc = "settle"]
    /\ torn' = torn \cup Touches(worker[w])
    /\ UNCHANGED <<note, derived, job, rowAt, edits>>

\* The instance dies; an open transaction is rolled back.  A drain that dies before
\* its claim leaves nothing behind, which is as if it had not read.
WorkerDies(w) ==
    /\ "die" \in OutboxFaults
    /\ worker[w].pc \in {"found", "tx"} \/ Busy(w)
    /\ worker' = [worker EXCEPT ![w] = IdleWorker]
    /\ rowAt' = [q \in Requests |-> IF q = w THEN None ELSE rowAt[q]]
    /\ UNCHANGED <<note, derived, job, edits, torn>>

-----------------------------------------------------------------------------

Apply(w) == ReadLive(w) \/ Derive(w) \/ SettleJob(w)

RequestStep(q) ==
    Mutate(q) \/ FindPending(q) \/ Coalesce(q) \/ MutationFails(q) \/ EnqueueEntity(q) \/ BuildEntity(q) \/ Apply(q)

DrainStep(d) == (\E j \in Jobs : DrainRead(d, j)) \/ ParkJob(d) \/ ClaimJob(d) \/ PassJob(d) \/ Apply(d)

OutboxNext ==
    \/ \E q \in Requests : \/ RequestStep(q)
                           \/ \E p \in Paths : \/ WriteNote(q, p) \/ RestoreTrash(q, p) \/ DeleteNote(q, p)
                                               \/ Reconcile(q, p)
                                               \/ \E to \in Paths : RenameNote(q, p, to)
    \/ \E d \in Drains : DrainStep(d)
    \/ \E w \in Workers : HookThrows(w) \/ HookSwallows(w) \/ WorkerDies(w)
    \/ \E j \in Jobs : BackoffEnds(j)

OutboxSpec == OutboxInit /\ [][OutboxNext]_outboxVars

\* Live requests run on, every tick drains, and a backoff ends.  Nobody is obliged
\* to change a note, and nothing is obliged to fail.
OutboxFairness ==
    /\ \A q \in Requests : WF_outboxVars(RequestStep(q))
    /\ \A d \in Drains : WF_outboxVars(DrainStep(d))
    /\ \A j \in Jobs : WF_outboxVars(BackoffEnds(j))

OutboxFairSpec == OutboxSpec /\ OutboxFairness

-----------------------------------------------------------------------------
(* Properties *)

\* Do the derived rows of p describe something else than its note, with no job row,
\* pending or parked, and no worker of a job left to put it right?
Forgotten(p) ==
    /\ derived[p] # note[p]
    /\ \A j \in Jobs : job[j].state # "none" => p \notin Touches(job[j])
    /\ \A w \in Workers : Busy(w) /\ worker[w].job # None => p \notin Touches(worker[w])

\* "A failure is now RECORDED and RETRIED instead of vanishing" (settleProjection):
\* whatever dies or throws, what a note owes is never forgotten.
NothingForgotten == \A p \in Paths : ~Forgotten(p)

\* Does applying x put right what is derived at p?
Rights(x, p) ==
    IF note[p] = 0 THEN (x.kind = "delete" /\ x.path = p) \/ (x.kind = "rename" /\ x.from = p)
    ELSE x.kind # "delete" /\ x.path = p

\* The paths with a job row, pending or parked, that will put right what is derived there.
OnRecord == {p \in Paths : \E j \in Jobs : job[j].state # "none" /\ Rights(job[j], p)}

Promise == INSTANCE Projection WITH owed <- OnRecord

\* A job row is what its path is owed: a commit that changes a note leaves one that will
\* right its derived rows, they are only ever brought up to the note as it is, and the row
\* goes only once they are (enqueueProjection, settleProjection), torn paths aside.
OutboxPromise == Promise!ProjectionSpec

\* Where a path was never torn, the outbox keeps its promise through every death,
\* throw and retry.  Five things tear a path: two workers at work on it at once, a
\* hook that swallows its error, a delete or rename retried after a note came back
\* to the path, a rename retried after the note left again (applyProjections), and
\* a mutation whose row had left for the path since it was found (findLive).
OnlyTornForgotten == \A p \in Paths : Forgotten(p) => p \in torn

\* "Two instances draining at the same minute cannot both run one job"
\* (drainProjections): a drain claims a job that another is applying only once the
\* row is due again, or a save's failed settle has set its attempts back.
OneDrainPerAttempt ==
    [][\A d, e \in Drains, j \in Jobs :
           /\ d # e
           /\ Busy(d) /\ worker[d].job = j
           /\ ~Busy(e) /\ Busy(e)' /\ worker'[e].job = j
           => job[j].due \/ job[j].reset]_outboxVars

\* A job does not wait for ever: it is settled or, its attempts burned, parked
\* (drainProjections), although drains and requests may die under it again and again.
JobsEnd == \A j \in Jobs : job[j].state = "pending" ~> job[j].state # "pending"
=============================================================================
