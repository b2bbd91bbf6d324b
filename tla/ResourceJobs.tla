---------------------------- MODULE ResourceJobs ----------------------------
(***************************************************************************)
(* The work a resource owes (apps/web/lib/resources/jobs.ts), for one      *)
(* resource: one row per kind of work, drains that claim a batch of rows   *)
(* and work them one after the other, and a lease per row that frees the   *)
(* work of a drain that died.                                              *)
(*                                                                         *)
(* A claim is one UPDATE of rows picked FOR UPDATE SKIP LOCKED, and one    *)
(* step.  runAfter and lockedUntil are abstracted to whether they passed.  *)
(***************************************************************************)
EXTENDS Naturals, FiniteSets, Rows

CONSTANTS
    JobKinds,     \* "rendition", "extract", "unfurl", "refresh", "scan"
    Drainers,     \* drains: an upload's own, a pull, the tick
    Batch,        \* rows a drain claims at once
    Backoffs,     \* how many steps BACKOFF_MS has
    MaxAsks,      \* bound on enqueueJobs
    MaxDeaths     \* bound on drains that die

ASSUME JobsAssumption ==
    /\ Batch \in Nat \ {0}
    /\ Backoffs \in Nat
    /\ MaxAsks \in Nat
    /\ MaxDeaths \in Nat
    /\ IsFiniteSet(Drainers)

VARIABLES
    queue,     \* resource_jobs
    drainer,   \* what each drain has claimed
    stored,    \* is there a row of the resource?
    asks,      \* how often work was queued
    deaths     \* how many drains died

jobVars == <<queue, drainer, stored, asks, deaths>>

-----------------------------------------------------------------------------

GiveUp == Backoffs + 1

\* Two fields are no columns.  `owed`: work was queued and no run of it has begun since;
\* "late" if a run was going on when it was queued.  `loose`: since it was last claimed
\* with nobody holding it, its lease lapsed or it was queued again.
QueueRow ==
    [state : {"none", "queued", "running", "done", "failed"}, attempts : 0..GiveUp, due : BOOLEAN,
     lapsed : BOOLEAN, owed : {"no", "yes", "late"}, loose : BOOLEAN]

\* What a claim returns of a row.
Claimed == [kind : JobKinds, attempts : 1..GiveUp]

ASSUME ClaimAssumption == None \notin Claimed

JobsTypeOK ==
    /\ queue \in [JobKinds -> QueueRow]
    /\ drainer \in [Drainers -> [batch : SUBSET Claimed, now : Claimed \cup {None}]]
    /\ stored \in BOOLEAN
    /\ ~stored => \A k \in JobKinds : queue[k].state = "none"
    /\ asks \in 0..MaxAsks
    /\ deaths \in 0..MaxDeaths

NoRow == [state |-> "none", attempts |-> 0, due |-> FALSE, lapsed |-> FALSE, owed |-> "no", loose |-> FALSE]

NoBatch == [batch |-> {}, now |-> None]

JobsInit ==
    /\ queue = [k \in JobKinds |-> NoRow]
    /\ drainer = [d \in Drainers |-> NoBatch]
    /\ stored = TRUE
    /\ asks = 0
    /\ deaths = 0

-----------------------------------------------------------------------------

\* The drains that run a kind of work right now.
RunningNow(k) == {d \in Drainers : drainer[d].now # None /\ drainer[d].now.kind = k}

\* The drains that have claimed it and not settled it.
Holding(k) == {d \in Drainers : \E job \in (drainer[d].batch \cup {drainer[d].now}) \ {None} : job.kind = k}

\* bug: a kind that has a row already is left as it is.
AskedOnce(row) == IF row.state = "none" THEN [NoRow EXCEPT !.state = "queued", !.due = TRUE] ELSE row

\* enqueueJobs: the row is queued afresh, whatever it was.
Asked(row) == [row EXCEPT !.state = "queued", !.attempts = 0, !.due = TRUE, !.lapsed = FALSE]

Ask(k) ==
    /\ stored
    /\ asks < MaxAsks
    /\ asks' = asks + 1
    /\ queue' = [queue EXCEPT ![k] = [Asked(@) EXCEPT !.owed = IF RunningNow(k) = {} THEN "yes" ELSE "late",
                                                      !.loose = TRUE]]
    /\ UNCHANGED <<drainer, stored, deaths>>

\* bug: the lease of a running row is not looked at.
Unfinished(row) == row.state \in {"queued", "running"} /\ row.due

\* bug: a claim takes queued rows only.
Queued(row) == row.state = "queued" /\ row.due

Claimable(row) == (row.state = "queued" \/ (row.state = "running" /\ row.lapsed)) /\ row.due

\* bug: the attempts of a row grow past its last backoff.
OneMoreAttempt(n) == n + 1

\* One attempt more; past the last backoff they all count the same.
Attempt(n) == IF n < GiveUp THEN n + 1 ELSE n

\* A drain with nothing left claims up to Batch rows.
Claim(d, K) ==
    /\ drainer[d] = NoBatch
    /\ K # {} /\ \A k \in K : Claimable(queue[k])
    /\ Cardinality(K) = Batch \/ (Cardinality(K) < Batch /\ \A k \in JobKinds \ K : ~Claimable(queue[k]))
    /\ queue' = [k \in JobKinds |->
                    IF k \in K THEN [queue[k] EXCEPT !.state = "running", !.attempts = Attempt(@),
                                                     !.lapsed = FALSE, !.loose = @ /\ Holding(k) # {}]
                    ELSE queue[k]]
    /\ drainer' = [drainer EXCEPT ![d].batch = {[kind |-> k, attempts |-> Attempt(queue[k].attempts)] : k \in K}]
    /\ UNCHANGED <<stored, asks, deaths>>

\* The next of the batch is run, whatever became of its row since the claim.
RunOne(d, job) ==
    /\ drainer[d].now = None
    /\ job \in drainer[d].batch
    /\ drainer' = [drainer EXCEPT ![d] = [batch |-> @.batch \ {job}, now |-> job]]
    /\ queue' = [queue EXCEPT ![job.kind].owed = "no"]
    /\ UNCHANGED <<stored, asks, deaths>>

\* settle, of a run that went well, and of one that failed at its nth attempt.
SettledDone(row) == [row EXCEPT !.state = "done", !.lapsed = FALSE]

SettledFailed(row, n) ==
    IF n <= Backoffs THEN [row EXCEPT !.state = "queued", !.lapsed = FALSE, !.due = FALSE]
    ELSE [row EXCEPT !.state = "failed", !.lapsed = FALSE]

\* By id, and unconditionally.  The update of a row that is gone throws, and with it
\* the whole drain ends; what it had claimed waits for its lease to lapse.
Settle(d) ==
    LET job == drainer[d].now  row == queue[job.kind] IN
    /\ job # None
    /\ IF row.state = "none"
          THEN drainer' = [drainer EXCEPT ![d] = NoBatch] /\ UNCHANGED queue
          ELSE /\ drainer' = [drainer EXCEPT ![d].now = None]
               /\ \E settled \in {SettledDone(row), SettledFailed(row, job.attempts)} :
                     queue' = [queue EXCEPT ![job.kind] = settled]
    /\ UNCHANGED <<stored, asks, deaths>>

-----------------------------------------------------------------------------
(* Time and faults *)

BackoffOver(k) ==
    /\ queue[k].state = "queued" /\ ~queue[k].due
    /\ queue' = [queue EXCEPT ![k].due = TRUE]
    /\ UNCHANGED <<drainer, stored, asks, deaths>>

\* LEASE_SECONDS are over.
LeaseLapses(k) ==
    /\ queue[k].state = "running" /\ ~queue[k].lapsed
    /\ queue' = [queue EXCEPT ![k].lapsed = TRUE, ![k].loose = TRUE]
    /\ UNCHANGED <<drainer, stored, asks, deaths>>

DrainerDies(d) ==
    /\ drainer[d] # NoBatch
    /\ deaths < MaxDeaths
    /\ deaths' = deaths + 1
    /\ drainer' = [drainer EXCEPT ![d] = NoBatch]
    /\ UNCHANGED <<queue, stored, asks>>

\* bug: the rows of a resource outlive it.
Kept == queue

\* ON DELETE CASCADE.
Cascaded == [k \in JobKinds |-> NoRow]

\* The resource is deleted, and its rows with it.
ResourceGoes ==
    /\ stored
    /\ stored' = FALSE
    /\ queue' = Cascaded
    /\ UNCHANGED <<drainer, asks, deaths>>

DrainerStep(d) ==
    \/ \E K \in SUBSET JobKinds : Claim(d, K)
    \/ \E job \in drainer[d].batch : RunOne(d, job)
    \/ Settle(d)

JobsNext ==
    \/ \E k \in JobKinds : Ask(k) \/ BackoffOver(k) \/ LeaseLapses(k)
    \/ \E d \in Drainers : DrainerStep(d) \/ DrainerDies(d)
    \/ ResourceGoes

JobsSpec == JobsInit /\ [][JobsNext]_jobVars

\* A drain runs on (the tick comes every minute), and time passes.
JobsFairness ==
    /\ \A d \in Drainers : WF_jobVars(DrainerStep(d))
    /\ \A k \in JobKinds : WF_jobVars(BackoffOver(k)) /\ WF_jobVars(LeaseLapses(k))

JobsFairSpec == JobsSpec /\ JobsFairness

-----------------------------------------------------------------------------
(* Properties *)

\* "N instances racing run it once" (jobs.ts): two drains are at one job only after
\* its lease lapsed, as it does under a batch worked one by one, or after it was
\* queued again under the one that ran it.
OnlyLooseJobsRunTwice ==
    \A k \in JobKinds : stored /\ Cardinality(RunningNow(k)) > 1 => queue[k].loose

\* "A kind already queued or done is queued again" (enqueueJobs): work that was queued
\* is not over before a run of it has begun since, unless it was queued under a run,
\* whose settle takes it for its own.
NothingAskedIsDropped == \A k \in JobKinds : queue[k].state \in {"done", "failed"} => queue[k].owed # "yes"

\* "A claimer that dies is retried" and "failures back off and give up" (jobs.ts):
\* whatever lapses, dies or fails, a job does not stay open for ever.
JobSettles == \A k \in JobKinds : queue[k].state \in {"queued", "running"} ~> queue[k].state \notin {"queued", "running"}
=============================================================================
