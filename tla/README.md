# Visvine: a verification project

Visvine is a web application (Next.js, Prisma over PostgreSQL) that runs as N
identical instances with nothing shared but the database and an object store.
What it does unattended, it does through rows that several requests of several
instances race on: a cron request every minute, requests dispatched by it, people,
and events. The correctness of those parts rests on compare-and-swap updates, leases
and advisory locks, and on what happens when a request dies between two statements.
That is what this project models.

The **agent scheduler** is modelled in detail and model-checked. Nine **services** beside it
each have a module. Every safety property that the passing runs check is a theorem, for any number of requests, rows and faults, and holds of the
services' composition by theorem as well. Claims on agents are proved to implement an abstract lease, the permits of the rate limits
a counting semaphore, and the outbox an abstract promise of what is owed to a note's derived rows. Liveness is
model-checked. The parts that are left out are listed with their reasons.

Contents: [inventory](#inventory) · [the scheduler's model](#the-agent-scheduler) ·
[the services' models](#the-services) · [runs](#what-the-runs-check) · [disagreements](#where-the-code-and-its-comments-disagree) ·
[proofs](#what-is-proved) · [limits](#what-is-not-modelled) · [plan](#plan)

## Inventory

Paths are relative to `apps/web/lib/` unless they say otherwise.

### Agent scheduler (`agents/`)
- *State.* `agent_state` (one row per agent: `active`, `status` with `current_run_id` and
  `running_since`, `next_run_at`, `last_run_at`, `consecutive_failures`), `agent_events` (the
  mailbox: pending rows, unique per dedupe key), `agent_runs` (the ledger of runs).
- *Operations.* `tick` (reclaim stale rows, select due rows, claim, judge, create,
  dispatch, fan out), `claimManualRun` (a person, a chained agent, a Tool), `executeRun` and
  `release`, `enqueueAgentEvent`, `syncAgentState` (re-derive a row), `configureAgent`,
  `switchOffAgent`, `deactivateAgent`.
- *Interacts with* the projection outbox (a saved note sends events and re-derives
  briefs), the machines (a run may lease one), the model providers (outside).
- *Hard.* Overlapping ticks; a reclaim racing the release of the run it takes for dead; late
  executors; an event inserted at any moment of a claim; a re-derive that writes what it read
  several queries ago; deaths between any two statements.
- *Correct when* a live claim is never taken from its run, an agent has one live run, every
  claim and every run row ends, no failure is counted twice and a failing agent goes off,
  mail and clocks are not forgotten, and an agent that is off stays off.

### Agent chat (`agents/chat.ts`, `agents/chatTurn.ts`)
- *State.* One thread per person and agent with the id of the reply it waits for; messages; the
  agent's ledger of the month.
- *Operations.* Send (budget, then a conditional update of the claim), the model's turns, store the
  answer and give up the claim, meter, clear, take over a claim older than `CHAT_CLAIM_MS`.
- *Hard.* A turn that outlives its claim answers after the next began; the budget is read before the
  claim and written after it; what a turn of the model costs is known only once it is over.
- *Correct when* a turn loses its thread only to one that found it stale, a thread comes free again,
  and spending beyond the cap is bounded.

### Note store and projection outbox (`notes/store.ts`, `notes/projections.ts`)
- *State.* Notes and revisions; `note_projection_jobs` (path, kind, `attempts`, `run_after`, parked).
- *Operations.* A mutation finds its row by path, then changes it by id and enqueues its projection in one
  transaction (writes of one path coalesce onto the pending row), `settleProjection` applies it inline, `settleBatch` does so for
  folder moves, `drainProjections` retries what nobody settled and parks after `MAX_ATTEMPTS`.
- *Hard.* A note that is renamed, trashed or restored between a mutation's read and its update; a write
  coalescing onto a row while it is being applied; inline and drain at once; a
  delete or rename retried after the path came back to life.
- *Correct when* every committed mutation is projected or parked in the end, and projections
  end up reflecting the last text.

### Nightly clean (`notes/cleanSchedule.ts`)
- *State.* One schedule row per space: what is on, whom it runs as, `next_run_at`.
- *Operations.* Save one field at a time; claim a due night by a conditional update; read again,
  find the person, clean, embed.
- *Hard.* Overlapping saves; several ticks that read one hour as due; a save between their read and their claim.
- *Correct when* a save changes what it was for, and an hour has one pass.

### Resource jobs (`resources/jobs.ts`)
- *State.* `resource_jobs` (state, `attempts`, `locked_until`, `run_after`).
- *Operations.* Enqueue, claim a batch with `SKIP LOCKED` and a two-minute lease, run in
  sequence, settle with back-off or failure.
- *Hard.* A batch worked one by one outlives the lease of its last jobs; settle writes by id.
- *Correct when* an owed stage is done or failed after its attempts, and work that was asked for runs.

### Uploads and resources (`resources/upload.ts`, `resources/service.ts`)
- *State.* A resource row (`uploading`, ready), its object in the bucket, the work it owes.
- *Operations.* Begin, append a chunk, complete (stat, judge, mark, finish), abandon, reap; delete.
- *Hard.* Complete racing the reaper; an object without a row and a row without an object; a death
  between "ready" and the queueing of its work.

### Space machines (`vm/lease.ts`, `vm/quota.ts`, `apps/agent-edge/src/`)
- *State.* `agent_vms`, metering rows; at the edge a durable object around a container.
- *Operations.* Lease (create or reuse), execute, put to sleep after a run; the tick's reap,
  reconcile, meter and quota stop.
- *Hard.* The row and the container disagree after a lost answer, the platform's own timer, or two
  requests at one machine; ticks that last up to 27 minutes and overlap, whose increments nothing guards
  and which may die between the meter and the stop.

### Rate limiting (`rateLimit/`, `tools/limits.ts`)
- *State.* Token buckets and `rate_limit_leases` (key, slot, holder, expiry); an in-process gate.
- *Operations.* Take a token; acquire, release and prune leases; a memory fallback.
- *Correct when* live leases never exceed the cap, and a late release leaves another holder's
  slot alone.

### Connectors (`connectors/connections.ts`, `oauth.ts`, `accounts.ts`)
- *State.* One row per connection: tokens, expiry, `broken_at`. At the provider: which refresh
  tokens it still honours.
- *Operations.* Connect, disconnect; resolve a bearer, renewing it when it is about to expire.
- *Hard.* The provider is called outside any transaction and may retire a refresh token when it is
  used: two runs that renew at once hold one token between them.
- *Correct when* a connection stops working only for a reason a person would recognise.

### Tools: listing and review (`tools/listings.ts`, `registry.ts`, `review/`)
- *State.* A version's `marketplace_status`, its review runs, the newest report on record.
- *Operations.* Request, co-sign, withdraw; queue, claim, run, finish, put back a review; a
  reviewer's verdict; the fast path of a verified publisher.
- *Hard.* A review takes minutes and decides by what it read before; runs are claimed again after
  ten minutes while the first may be alive; verdicts and withdrawals are written by id.
- *Correct when* a version is listed on the review it had, and a queued review ends.

### Messages, the rest of tools, spaces, identity, shells, packages
Single-statement or single-transaction operations, checks over one snapshot, calls to outside
systems, or user interface. They hold no protocol between requests, so a model would restate
them. `PROJECT.json` lists each of them with its reason.

## The agent scheduler

`AgentScheduler.tla` models `agents/{schedule,events,runner,runs,hooks,wakeGate,dispatch,record}.ts`
and the two methods of `service.ts` that switch agents. One action is one database statement, or
one read with the decision it feeds; between two statements of a request every other request
may step. Record types, state functions, one section per request, time and faults, the
next-state relation, safety, liveness, in that order.

| Variable | Code |
| --- | --- |
| `active`, `failures`, `next` | columns of `agent_state`; `active` is also the record's, which lives in that column (`record.ts`) |
| `current` | `current_run_id`; `None` exactly when `status` is `idle`. The reclaim's compare-and-swap on `running_since` is on the run too: each claim writes both |
| `clockCome` | has `schedule` fired since `last_run_at`? What `nextFire` and `dueIdentities` compute from it |
| `mail` | pending `agent_events` rows, a set since the pending dedupe key is unique |
| `ledger` | `agent_runs.status` |
| `run` | the request that carries a run: its phase, how it was claimed, the mail it took, how many identities its fire still owes, what release decided |
| `tick` | each tick request: what it read as stale, as due, as busy, what it carries, what it created |
| `sender`, `editor`, `sync` | each `enqueueAgentEvent`, each person's request, and what each `syncAgentState` has read |

`RunLease.tla` is the abstract promise of all that: who holds each agent, which requests are at work, which claims
are late, and five ways in which that may change.

**Actions.**
- *Mailbox:* `CountPending`, `InsertEvent`, `PullForInsert`, the three statements of `enqueueAgentEvent`.
- *Tick:* `TickStart`, `ReclaimRow`, `FailStaleRun`, `TickSwitchOff` (`reclaimStale`); `SelectDue`,
  `ReadBusySpaces`, `PassRow`, `ScheduledClaim`, `ClaimEvents`, `GateWake`, `HandBack`,
  `CreateScheduledRun`, `Dispatch`, `FanOut`, `CreateFanOutRun` (`tick`).
- *Manual doors:* `AskManualRun`, `ManualClaim`, `ClaimEvents`, `ResetToClock`, `CreateManualRun`.
- *Executor:* `StartRun`, `FinishRun`, `ReadForRelease`, `ReleaseRow`, `RearmIfPending`,
  `PullForRelease`, `SettleRun`, `RunSwitchOff` (`executeRun`, `finishRun`, `release`,
  `deactivateAgent`). The model calls an agent makes in between are one step that ends in any
  of four outcomes: success, a failure that does not count (`quiet`), one that does, one that
  switches the agent off (`fatal`).
- *People:* `Activate` (`configureAgent`), `SaveBrief` (`agentNoteWritten`), `PersonSwitchOff`, and
  `SyncRead`, `SyncDerive`, `SyncWrite`, which a tick also runs for a record it finds inactive.
- *Time and faults:* `ClockComes`, `DebounceEnds`, `Overstay` (a claim gets older than
  `MAX_RUN_MS` plus its grace), `LoseDispatch`, `RunDies`, `TickDies`, `GroupDies`, `SenderDies`, `EditorDies`,
  `ReleaseThrows`, `RearmFails`.

**Abstractions.** Times are what the statements compare: `next_run_at` is null (`never`), the next
occurrence (`later`), pulled forward (`soon`) or `due`. A run id that nothing names any more is
minted again for a new uuid (`Unnamed`): that is what keeps a system that mints ids for ever finite,
and the proofs show that it confuses no one. A streak counts to one past its limit, after which
no comparison tells two values apart. A claimed mailbox is taken whole, since `MAX_EVENTS_PER_RUN`
(50) exceeds `MAX_PENDING_EVENTS` (20) by more than senders overshoot. A fire that goes on to further
identities creates their runs one after another, each after the dispatch of the one before has answered.

A statement of `release` that throws (`ReleaseThrows`) sends the executor into its `catch`, which finishes
and releases the same run a second time; one of its re-arm is swallowed (`RearmFails`). A person's request may die between
the store and the sync (`EditorDies`), a sender between the insert of its event and the pull of the agent's clock (`SenderDies`), which
is also what a failing statement there comes to: the event stays, and a later one of its key is a no-op.

## The services

Each module has its own variables, `Init`, `Next` and fairness, and one action per statement, transaction
or outside call. A variable the code does not have is named as such where it is declared: it remembers
what happened, so that a property can say "unless". `Rows.tla` declares the null column they share.

| Module | Code | State | What stands for what |
| --- | --- | --- | --- |
| `NoteOutbox` | `notes/projections.ts`, the mutators of `notes/store.ts` | notes, derived rows, job rows, workers, where the row a request found is by now (`rowAt`, the identity of the row) | derived rows are the *version* they were made from; `run_after` is whether it passed. `WriteNote`, `RestoreTrash`, `RenameNote`, `DeleteNote` find the row by path; `Mutate`, or `FindPending` and `Coalesce`, are the transaction that changes it by id (`Locked` is the row lock, `MutationFails` its rollback); `EnqueueEntity`, `BuildEntity` are a create under an entity; `ReadLive`, `Derive`, `SettleJob`, `HookThrows`, `HookSwallows` an application, inline or drained; `DrainRead`, `ParkJob`, `ClaimJob` the drain |
| `Projection` | what the outbox promises | note, derived rows, what is owed, what was torn | the abstract specification `NoteOutbox` implements: a path is owed while a job row is there that will right it (`OnRecord`) |
| `PermitLeases` | `rateLimit/leases.ts`, `tools/limits.ts` | the lease rows of one key, which have expired, the calls | `acquireLease` is one statement and two steps: the slot it looks up in its snapshot (`LookUp`) and the row it then inserts or overwrites under a lock (`Insert`). `StoreDown` and `AnswerLost` lead to the in-process gate |
| `Semaphore` | what a cap promises | who holds a permit | the abstract specification `PermitLeases` implements |
| `MachineLease` | `vm/lease.ts`, `vm/quota.ts`, `agent-edge/src/machine.ts` | the row, the container, calls, ticks, usage | ticks overlap and may die at any of their steps (`TickDies`); every call to the edge may be refused, or done with its answer lost (`Edge`); usage is in ticks; whether the row is still the one a request read stands for its id |
| `ResourceJobs` | `resources/jobs.ts` | one row per kind of work, drains and their batches | leases and back-offs are whether they passed |
| `Uploads` | `resources/upload.ts`, `service.ts` | row, object, owed work, the requests | the bucket and the scanner answer as they please |
| `AgentChat` | `agents/chat.ts`, `agents/budget.ts` | threads, turns, the ledger | money is in units, of which a turn of the model costs from one to `MaxTurn`, more than the cap if it is so dear; the ledger is what chats put there |
| `ConnectorTokens` | `connectors/connections.ts` | the row, the renewals, and the provider: which refresh tokens it honours, whether it rotates them | tokens are numbers in the order they were issued; `updated_at` is whether the row is as it was read |
| `ToolReviews` | `tools/review/`, `listings.ts`, `registry.ts` | the listing of one version ("asked" until its author co-signs), its runs, its report, workers, people | every request reads first and updates by id; findings are "clear" or "block"; whether the publisher is verified is left to `AutoApprove` or `LeaveToReviewer` |
| `CleanSchedule` | `notes/cleanSchedule.ts` | the schedule row, saves, ticks | `next_run_at` is null, ahead or due, and as a tick read it or not; a save may put back the very hour that ticks have read |
| `MCServices` | | all of the above and `at`, the service a behaviour is about | the services share no table, so their composition is a choice, never an interleaving |

The scheduler and the services do meet: a run leases a machine and calls Tools, a saved note sends
events, the tick drives every drain. Each module takes the others' calls as requests that may come at any time,
which allows more than any caller does.

## What the runs check

`MCAgentScheduler` gives the scheduler its small sets and its symmetry, `MCServices` composes the services, and `MCRaces` takes the two
whose races need more room than that run has, the outbox and the machine. Every run names its bounds in its `.cfg`.

| Run | Asks | Properties |
| --- | --- | --- |
| `fires` | a scheduled agent with a fan-out; executors and the tick die, run late or meet a failing database | `TypeOK`, `ClaimHeld`, `FailureCountedOnce`, `SuccessStands` |
| `streaks` | a person's runs beside the tick's, late executors and deaths | `ClaimsAreLeases`, `ClockKept`, `OnlyADeathOrphans` |
| `mail` | an event-only agent, two senders of two kinds of event, a gate that declines, a person who switches the agent on and off; executors, senders, ticks and edits may die | `MailBounded`, `OnlyTheseStrandMail` |
| `edits` | a person activates, saves, runs and switches off a scheduled agent; any of the requests may die half way | `OnlyAKeptRowLosesTheClock`, `OnlyTheseLeaveItOn` |
| `live` | executors and senders die, dispatches are lost, statements fail, under fairness | `ClaimsFreed`, `RunRowsEnd`, `ClockedMailTaken` |
| `races` | every kind of mutation by two requests on two paths, two drains, hooks that throw, deaths; and a call and two overlapping ticks at one machine, one of which may die | `OnlyTornForgotten`, `OutboxPromise`, `OverrunBounded` |
| `services` | the nine services, one at a time, under fairness | `ServicesTypeOK` and the properties below |
| `stranded`, `crowded`, `revived`, `forgotten`, `unmetered` | what a comment says of the code, and TLC refutes | one each, see below |

**Bounds, and why they are enough.** The scheduler's passing runs have one agent, because nothing their
properties speak of crosses agents: the rows, the mailbox and the ledger are per agent,
and only the busy-space check relates two (`crowded` has two). They have one or two run ids: two
lets a run that overstayed or was superseded coexist with its successor; a third would have to
coexist with both. `mail` and `edits` have one, minted again as soon as nothing names it, which leaves room for a person who edits;
that a late run changes nothing there is left to the theorems, which cover any number. In `mail` a person switches the agent on and off and
does not save its brief, and no statement fails: with `save` and `db` it would not end in time, and `MailIsArmed` covers them. They have
one tick: its requests overlap with manual claims and with late executors in all of them,
and the proofs cover any number of ticks. Two senders are what the race of count and
insert needs, two keys let one event follow another, `MaxPending = 1` puts the cap one insert away,
`MaxFailures = 1` the limit one failure away, `MaxOthers = 1` gives a fire one
further identity, and `MaxPerTick = 1` is met by every claim.

`races` has two paths, because a rename needs two and nothing a third; two requests, so that one may change the note another has found; two job
rows, since a write coalesces unless the row is parked or under work; two overlapping drains; two edits, one to be
applied late and one to be lost; and one attempt, after which a job is parked (`services` has two). A hook that swallows its error only tears
its paths, and is left to `services` and the theorem. The machine has a call that was cleared before the cap, two ticks that meter it
together and one death of a tick, which is each term of `OverrunBounded` once; its usage is counted up to one above that bound.

`services` keeps each service small and its faults whole: three calls for two permits, so that one is
always refused; two calls and a tick at one machine with an allowance of one tick or uncapped; one job row of the outbox for two drains, so that what another
write would create waits; two drains of resource jobs with a batch of
two and one back-off; two completions against a remover; two messages on one thread with a cap of one unit and turns that
cost one or two; two renewals and three refresh tokens, one for each of them and one to
start with; a ticking worker and a reviewer's at one version, which had two attempts; two admins, two fields and two ticks at the schedule.
Whatever ids the code mints, an id nothing names any more is minted again,
so none of these bounds ends a behaviour; `MaxEdits`, `MaxAsks`, `MaxDeaths`, `MaxTickDeaths`, `MaxMinted`, `MaxSpent` do, and each is named in its module.

Ids of runs, jobs and workers are interchangeable, and in `mail` senders and keys too, which may all be declined; hence the symmetry of the safety runs. The
runs that check liveness use none.

**Deadlock** is checked in every run of the scheduler and in `unmetered`: a tick can always start or go on. A service may
come to rest once its bounded requests are done, so `races`, `forgotten` and `services` do not ask for it.

**Fairness** is weak and per request: the cron service posts a tick every minute, a request that lives goes on to its next
statement, clocks come round, and claims, leases and back-offs get old. Nobody has to send, press Run,
edit, save, die or lose a message. One assumption is strong: `SF(AskStatus)`, the
edge is not unreachable every time it is asked. `Overstay` is fair only for
a claim whose request was lost, or in runs whose faults include `late`: a live executor stops itself
within the grace. `live` leaves the death of the tick itself out, because with it `RunRowsEnd` fails;
`OnlyADeathOrphans` (in `streaks`, where ticks die) says exactly when.

**Properties of the scheduler.**
- `ClaimHeld`: from the claim to the compare-and-swap of its release, and for as long
  as it has not overstayed, a run holds its row; so an agent never has two live runs (`OneLiveRun`, which is proved from it).
- `ClaimsAreLeases`: seen from outside, an agent's row is a lease (`RunLease`). It is taken only when it is free, by a run nothing is
  left of; its holder's request frees it in the step in which it stops; anyone else frees it only once the claim has
  overstayed. `AtWork` and `Late` read who works and whose claim is too old off the state of the runs.
- `FailureCountedOnce`, `OnlyTheseLeaveItOn`: the streak goes up only in the step that frees the
  row, and whoever counts the failure that reaches the limit goes on to switch the agent off,
  unless that request dies or the release had read the agent as off, or a streak that was another's to act on. After that only a person
  brings the agent back on with that streak, or a sync that had read it as on.
- `SuccessStands`: a success is undone by nobody but its own executor's catch.
- `OnlyADeathOrphans`: a run row is left `running` for ever only after an overstay and by a death between two named statements.
- `ClockKept`, `OnlyAKeptRowLosesTheClock`: a scheduled agent that is on has a next fire; when
  people edit it as well, only two things take that away: a sync that kept what it read of a running row, and the
  death of a request (an editor's or a tick's) that had yet to derive one.
- `MailBounded`: the cap can be overshot by one event per sender between its count and its insert, no more.
- `OnlyTheseStrandMail`: mail is left with nothing to wake its agent only by the two steps that free a row and do not re-arm it, by a
  sender that died or failed between the insert and the pull, by a release that died or failed as it was to re-arm its row, and by a
  sync that kept what it read, derived too early, or died.
- `ClaimsFreed`, `RunRowsEnd`, `ClockedMailTaken`: claims, run rows and mail end.

**Properties of the services.**
- Outbox: `OutboxPromise`, the outbox implements `Projection`: a commit that changes a note leaves a row that will right what is
  derived from it, that is only ever brought up to the note as it is, and the row goes only once it is; `OnlyTornForgotten`, a
  note's projections are stale with no job left to say so only after one of five named tears: two workers at work on a path at once, a hook that
  swallows its error, a delete or rename retried after a note came back, a rename retried after the note left again, and a mutation whose row had
  left for another path since it was found; `OneDrainPerAttempt`, two drains work one attempt of a job only through the two named gaps; `JobsEnd`.
- Permits: `WithinCap`, calls at work on a live permit never exceed the cap; `AtMostCapHeld`, the table
  implements `Semaphore`, with the holders of unexpired rows as the semaphore's.
- Machine: `OnlyOvertakenVerdictsUnmeter`, an awake machine's row stops saying so only in three named ways;
  `OverrunBounded`, past its cap a space is metered once by each tick that is under way, once more by each of them for every call
  cleared before, and once for every tick that died before its stop;
  `SleeperNoticed`, nobody is billed for a sleeping machine for ever.
- Resource jobs: `OnlyLooseJobsRunTwice`, `NothingAskedIsDropped`, `JobSettles`.
- Uploads: `OnlyCrossedBreaks`, a file people can open has its bytes unless it was completed and
  thrown away at once; `OnlyHaltedOwesNothing`, its work is queued unless a request halted between the two.
- Chat: `ClaimLostToTheLate`; `OvershootBounded`, each request may spend the cap anew, less a unit, and then one turn as dear
  as turns get; `ThreadComesFree`.
- Connectors: `OnlyTheseEndAConnection`, a connection that can be used stops being so only by a person, an expiry without a refresh
  token, a death or an outage of the provider, or the refusal of a renewal that another has outrun.
- Tool reviews: `ListedOnItsReview`, a version goes onto the shelf from a pending listing on a review that found
  nothing, unless what the decision rests on was written since it was read; `ReviewsEnd`, a
  queued review ends or has used up its attempts with nobody at it.
- Nightly clean: `OnlyOvertakenSavesRevert`, a save changes only its own field unless another came between; `OnePassPerHour`, however
  many ticks have read an hour as due, a pass begins just as it takes a due hour away.

Each of these has, in `PROJECT.json`, a mutant of the code that breaks it: a definition marked
`bug:` in the module that takes the place of the one below it. A loss that the code accepts and a property names as
an exception stands in the note of its hazard: the property documents it and refuses everything else.

## Where the code and its comments disagree

Five have a run of their own, whose counterexample TLC finds within seconds.

- `stranded`: an event that arrives while the tick judges an event-only agent's claim
  stays pending with `next_run_at` null once the claim is handed back (the reclaim does the same), although
  `events.ts` and `schedule.ts` say such mail is re-armed at release. The next event cures it.
- `crowded`: two overlapping ticks (or a tick and a manual run) put two agents of one space to work
  together: the busy spaces are read before the claims and the claim does not look at them.
- `revived`: a brief saved while the agent is being switched off turns it on again.
- `forgotten`: a write coalesces onto a job row while that row is being applied, whose worker then deletes it by
  id; when the write's own settle fails, there is no row left to record that in, and nothing retries it.
- `unmetered`: the run that ends puts a machine to sleep and says so in its row, while another call's
  command boots it again without touching the row: it runs on and no tick meters it.

Others are allowed for by an "unless" of a property above, or are only text:

- An agent that is switched on again keeps its failure streak: the store has already set the column by which
  `syncAgentState` asks whether it became active (`hooks.ts:181`, "starts clean").
- An inactive agent that is activated during a person's run of it can be left on with no next fire
  (`hooks.ts:182-184`; `OnlyAKeptRowLosesTheClock`).
- A tick that dies between freeing a stale row and failing its run leaves that run row `running`
  (`schedule.ts:49`, "Fail the run, free the row"; `OnlyADeathOrphans`).
- `agents/budget.ts:6` bounds the overshoot of the cap by one turn of the model; turns that read the ledger together overshoot once
  each, and by as much as its turn costs (`OvershootBounded`). A thread cleared under a turn makes the store throw and the turn is never metered.
- `connections.ts:15-23` says the loser of a race to renew "re-reads and uses the winner's token". That
  holds when the provider answered both. At one that rotates, the loser is refused, and `markBroken` writes
  by id over the connection the winner has just renewed, or a person has just repaired (`OnlyTheseEndAConnection`).
- `vm/quota.ts:14` calls the cap "soft by one tick": ticks that overlap, and calls that were cleared before, overrun it by
  more (`OverrunBounded`).
- A save whose note is renamed between its read and its update writes the note at its new path, and owes a projection for the old
  (`notes/store.ts:520`; the fifth tear).
- A review whose worker dies in its last attempt stays `running`: no tick may claim it and whoever asks for another is
  told it is busy. A worker that puts a run back late may leave it `queued` with no attempts left (`ReviewsEnd`).
- The fast path approves by the listing status read before the stages, over a rejection or a
  withdrawal that came since; a version whose review was given up may be approved with no report (`ListedOnItsReview`).
- `cleanSchedule.ts:152-154` promises that a field that was not sent keeps its value; of two overlapping saves
  the later writes the earlier's field back (`OnlyOvertakenSavesRevert`).
- `agents/runner.ts:16` speaks of three failures switching an agent off, the constant in `agents/limits.ts` is ten.

## What is proved

Each theorem is checked by TLAPS from the definitions of its module alone; the runs above show what it says on a small
instance. Where a model needs an assumption on its constants it is named there, and TLC evaluates it in every run: limits
are naturals, kinds of fault are the ones the code has, `None` is none of the values it stands beside. Assumptions that
say more than that are given below.

### The scheduler

`AgentSchedulerProofs`, for any agents, run ids, overlapping ticks, editors and doors, any finite number of
senders, and every fault:

| Theorem | States | While |
| --- | --- | --- |
| `TypeCorrect` | `Spec => []TypeOK` | |
| `ClaimNeverTaken` | `Spec => []ClaimHeld` | |
| `OneRunAtATime` | `Spec => []OneLiveRun` | |
| `ClaimsLeased` | `Spec => ClaimsAreLeases`, the refinement of `RunLease` | |
| `FailuresCounted` | `Spec => FailureCountedOnce` | |
| `SuccessKept` | `Spec => SuccessStands` | |
| `DeathsOrphan` | `Spec => OnlyADeathOrphans` | |
| `ClockLostByTwo` | `Spec => OnlyAKeptRowLosesTheClock` | |
| `MailHasABound` | `Spec => []MailBounded` | |
| `LimitBinds` | `Spec => OnlyTheseLeaveItOn` | |
| `LimitBindsUnedited` | `Spec => OnlyADeathLeavesItOn` | `Edits \subseteq {"off"}` |
| `ClocksAreKept` | `Spec => []ClockKept` | `Edits \subseteq {"off"}` |
| `MailIsArmed` | `Spec => OnlyTheseStrandMail` | |

The last column is what the property needs to be true: a sync that re-derives a row writes back what it read, so with
`activate` or `save` among the edits an agent goes on failing past its limit (run `revived`) and loses its clock as
`ClockLostByTwo` says. What holds of every edit is `LimitBinds`, which names each way in which that happens; without those edits
all of them but a death are impossible, and that is `LimitBindsUnedited`.

**The argument.** `TypeOK` is not inductive: a request under way must also name the agent or run it
works on, or its next step would write nobody's row. `NamedTypes` adds that to the record types, and
the lemma `NamedStep` preserves it together with `CreatedIsOwned` (no two ticks hold the same created run).

`ClaimHeld` is not inductive either. Its strengthening `IInv` adds, each for a step that would break it:
- `RowNamesItsRun`: a row names a run of its own agent, whose request carries it or was lost with it
  (for every compare-and-swap);
- `StaleIsOverstayed`: what a tick read as stale and is still so has overstayed (for `ReclaimRow`,
  which frees a row that was read some time ago);
- `CarriedIsClaimed`, `CreatedIsOwned`: a run that a tick carries or created is that tick's alone (for
  `HandBack`, `Dispatch` and the tick's death);
- `AskedIsUnnamed`: a manual run that only asked is named nowhere else (for `ManualClaim`);
- `FailedHoldsNothing`, `LedgerFollows`: what the run row says at each phase (for `FailStaleRun`, which
  must not stop a run from starting under its claim).

`IInvStep` takes the actions of `Next` one by one; most follow from a lemma about what the step
touches (`QuietStep`, `TickOnlyStep`, `OwnStep`, `WorkStep`, `SameClaim`, `MoveStep`, `EndStep`, `ClaimStep`).
The other theorems stand on it, and each adds what its own steps read:
- `MailInv` keeps mailboxes finite, and bounds what is pending together with what was counted and is still to come.
- `SyncInv`: a sync under way belongs to a request that is syncing, and one that wants a scheduled agent on has a next fire
  to write. `OffStays`: without editors who activate, what is re-derived is off and stays off.
- `RowInv`: the row of a run that has finished does not say `running`, a tick names a run only while it fails or carries
  it, and what it is about to fail has overstayed. So the only rows left `running` are those two deaths leave.
- `StreakAsRead`: a release that writes a streak at the limit goes on to switch the agent off, unless the streak was there before.
- `ComesOn`, `StreakMoves`, `SyncStays`: who can switch an agent on, who writes its streak, and how a sync ends. `LimitBinds` and
  `MailIsArmed` take the steps apart by what they write (the claim, the streak, `next_run_at`, the mail), not by name.
- `AskedIsOnTime`: who has only asked has no claim that could be late. With it every step is shown to take, give up, take back or
  let lapse a lease, or to let requests go (`LeaseTaken`, `LeaseGiven`, `LeaseTakenBack`, `LeaseLapsed`, `LeaseLeft`).

The proofs corrected properties that held in the runs because their bounds left a case out. A clock may also be lost with the *tick*
that was re-deriving a row (the faults of `edits` now include that), and a switch-off is owed only by a tick that fails a run
which reached the limit. They also showed where the cap of the mailbox rests on there being finitely many senders.

### The permit leases

`PermitLeasesProofs`, for any cap, calls, processes and faults:

| Theorem | States |
| --- | --- |
| `PermitsTyped` | `PermitSpec => []PermitTypeOK` |
| `CallsKeepTheirSlot` | `PermitSpec => []SlotKept` |
| `PermitsWithinCap` | `PermitSpec => []WithinCap` |
| `PermitsAreASemaphore` | `PermitSpec => AtMostCapHeld`, the refinement of `Semaphore` |

A statement looks up its slot in a snapshot and overwrites the row later, so `SlotKept` is not inductive. `PermitInv` adds
`StatementsSound`: the expired row a statement saw is expired for as long as it is there, because an id that a row or a
statement names is not minted again; and `OneRowEach`: a holder is on one row at most. From it, the row that goes in never replaces one in
force. `PermitsWithinCap` maps each call at work to its slot, one to one, and counts; for the refinement, each step of
the code takes a permit when one is free, gives one back, or leaves the holders as they are.

### Work and uploads of resources

`ResourceProofs`, for any kinds of work, batches, back-offs and faults, any finite number of drains, and any number of requests
that complete an upload:

| Theorem | States |
| --- | --- |
| `JobsRunOnce` | `JobsSpec => []OnlyLooseJobsRunTwice` |
| `AskedIsRun` | `JobsSpec => []NothingAskedIsDropped` |
| `ReadyIsWhole` | `UploadSpec => []OnlyCrossedBreaks` |
| `ReadyOwesItsWork` | `UploadSpec => []OnlyHaltedOwesNothing` |

A batch is claimed at once and worked one by one, so `JobsInv` speaks of all a drain has in hand: one job of each kind, and
one that two drains have, or that another may claim, is loose (`HeldOnce`); and a run owes nothing that was queued before it
(`RunsOweNothing`). `UploadInv` says what each phase of a completion has seen, `WholeOrCrossed`, what the remover may still throw
away, `RemoverMinds`, and who will queue the work of a ready file, `WorkOwed`.

### Machine hours and model turns

`BudgetProofs`, for any finite number of calls and of overlapping ticks, any allowance and whatever the edge answers; and for any threads, any
finite number of messages, any budget and any price of a turn:

| Theorem | States |
| --- | --- |
| `MachineInvariant` | `MachineSpec => []MachineInv` |
| `OverrunIsSoft` | `MachineSpec => []OverrunBounded` |
| `OutageKeepsMetering` | `MachineSpec => OnlyOvertakenVerdictsUnmeter` |
| `ChatInvariant` | `ChatSpec => []ChatInv` |
| `CapBinds` | `ChatSpec => []OvershootBounded` |
| `ClaimHolds` | `ChatSpec => ClaimLostToTheLate` |

Both budgets are checked before the work and counted after it, so neither bound is inductive: what is spent has to be bounded
together with what may still come. For machines that is once for each tick that is still to meter what runs, and every tick once for
each call that was cleared (`OverrunLeft`); a tick that is past the meter and sure to stop the machine no longer counts, and one that dies there
counts once more. For turns it is the most that a request may read and use (`Reach`), whole for each that is quiet and the rest of it for the
others (`EachWithin`, `SpendShared`). The counters stop at `MaxUsage` and
`MaxSpent`; the assumptions put these above the bound that is proved, so that it is never the counter that keeps it.

### The projection outbox

`NoteOutboxProofs`, for any paths, requests, drains, job ids, edits, attempts and faults:

| Theorem | States |
| --- | --- |
| `OutboxInvariant` | `OutboxSpec => []OutboxInv` |
| `OutboxKeepsPromise` | `OutboxSpec => OutboxPromise`, the refinement of `Projection` |
| `TornOrRemembered` | `OutboxSpec => []OnlyTornForgotten` |
| `OneDrainRuns` | `OutboxSpec => OneDrainPerAttempt` |

`OutboxInv` follows a path's debt from hand to hand. A row that a request has found is a note where it says (`RowLive`). A worker is where its kind of work goes and the row it names is about the
same (`Shaped`, `RowFits`); two workers at one path have torn it (`NoCrossing`), and so has whoever took the row from
under one (`RowKept`); what a worker read is what is there (`ViewCurrent`); it settles only what it has done (`DoneBeforeSettled`);
and what is derived wrongly on a path that was never torn is on a row that rights it (`Owed`). `AttemptsGrow` is what the two claims of one
attempt need. What one worker's step may touch is stated once, and each part is shown to survive it for all the others.

The refinement reads off the job rows what each path is owed. A step does nothing to an untorn path, or leaves a row that will
right it, or brings its derived rows up to the note (`Pays`, which each kind of step brings). A row that goes was settled by a worker that
had done what it was for (`DoneBeforeSettled`, `RowFits`), so the debt that goes with it is paid (`DebtMoves`). A save that leaves a note's
text as it was is owed all the same, which `Owe` allows.

### Reviews of Tools and renewals of tokens

`ToolConnectorProofs`, for any workers, people, runs of the review and numbers of attempts; and for any number of
renewals and refresh tokens at a provider that rotates them or does not:

| Theorem | States |
| --- | --- |
| `ReviewInvariant` | `ReviewSpec => []ReviewInv` |
| `ShelvedOnReview` | `ReviewSpec => ListedOnItsReview` |
| `TokenInvariant` | `TokenSpec => []TokenInv` |
| `ConnectionsEndByThese` | `TokenSpec => OnlyTheseEndAConnection` |

Who decides has read, some steps ago, what the verdict rests on: `ReviewInv` says that it is still so unless it was overtaken
(`CarrierSees`, `PersonSees`), and that a review that is done has left its report. `TokenInv` says the same of the row a renewal read
(`AsReadHolds`), and that no two renewals hold one answer (`ComeAlone`), which stays honoured until it is stored (`AnswerHonoured`).

### The nightly pass

`CleanScheduleProofs`, for any admins and any overlapping ticks:

| Theorem | States |
| --- | --- |
| `CleanTyped` | `CleanSpec => []CleanTypeOK` |
| `PatchesKeepFields` | `CleanSpec => OnlyOvertakenSavesRevert` |
| `HourHasOnePass` | `CleanSpec => OnePassPerHour` |

A save writes every field, so that it changes only its own rests on what it is about to write. `CleanInv` adds
`PatchIsCurrent`: until another save comes, what a save is about to write agrees with the row on every other field. `PassHasRow`, a
tick is busy only where there is a row, is what the types of a claim need. `ReadIsDue`, an hour that is as a tick read it is due, is
what a pass needs.

### The services together

`ServicesProofs`, for the composition `MCServices` whatever its constants:

| Theorem | States |
| --- | --- |
| `ServicesCompose` | `MCSpec` implies the specification of each of the nine services |
| `ServicesTyped` | `MCSpec => []ServicesTypeOK` |
| `ServicesSafe` | `MCSpec` implies the seven safety invariants of the services |
| `ServicesStepsSafe` | `MCSpec` implies their eight action properties |

The services share no table, so a step of the composition is a step of the service that runs and leaves the variables of every other
one alone. What is proved of a service by itself then holds of the composition, and the run `services` and the theorems speak of the same thing.

**Only model-checked.** All liveness (`ClaimsFreed`, `RunRowsEnd`, `ClockedMailTaken`, `JobsEnd`, `JobSettles`, `SleeperNoticed`,
`ThreadComesFree`, `ReviewsEnd`), since fairness and `ENABLED` are beyond the prover. The other properties of the passing runs
are theorems. No operator of the models is recursive, so nothing here waits for an induction over data.

## What is not modelled

- *Scheduler:* run-in copies of an agent, a brief deleted and re-created under its name, renames, the
  settings a note carries, the pruning of old runs, the depth limit of chains, the `take` of the due
  select and its order, the loop of model and tool calls inside `executeRun`, the wake judge's reasons.
- *Outbox:* `settleBatch` and the mutators of whole folders; the hooks one by one (their writes are one step); the two statements
  by which a create under an entity enqueues its job outside a transaction.
- *Rate limiting:* the token bucket, arithmetic on real time in one statement.
- *Machines:* the compile of the network policy, the spend alert, the egress log, snapshots and windows at the edge, and
  more than one machine, hence the choice of `RECONCILE_PER_TICK` rows.
- *Chat:* the monthly cap of the model's key (`chat.ts:242-256`), which refuses and stops as the agent's does; what the agent's own
  runs add to its ledger; the tools a turn calls; reading a thread.
- *Uploads:* folders, shares, replacement, trash and restore.
- *Connectors:* the authorization redirect, the registration of clients, the calls themselves.
- *Tools:* drafts, publishing, installs, upgrades and transfers, the bridge, incidents, other versions of the same Tool.
- *Nightly clean:* the person a pass runs as, what the clean and the embed do to notes, and the record of runs.

`PROJECT.json` lists under `components` the parts with no module, each with its reason.

## Plan

1. Abstract promises of the other claims: a resource job and a thread of a chat are leased too.
2. Pure operators: `dueIdentities` and `nextFire`, the chain depth, the budget stop, against reference
   definitions over bounded inputs, with lemmas about what they return.
3. Scheduler revisions: briefs re-created under their name, run-in copies. Outbox: `settleBatch`.
