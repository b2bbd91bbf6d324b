--------------------------- MODULE AgentScheduler ---------------------------
(***************************************************************************)
(* The scheduler of unattended agents (apps/web/lib/agents): overlapping   *)
(* tick requests, manual callers, executors, event senders and the people  *)
(* who switch agents on and off all race on the rows of agent_state.       *)
(*                                                                         *)
(* One action is one database statement (or one read-then-decide) of one   *)
(* request; everything between two statements of a request may be          *)
(* interleaved with every other request.  Wall-clock time is abstracted to *)
(* what the statements compare: next_run_at is "never" (null), "later"     *)
(* (the clock's next occurrence), "soon" (pulled forward to now+debounce)  *)
(* or "due", and a claim is overstayed once running_since is older than    *)
(* MAX_RUN_MS + RECLAIM_GRACE_MS.                                          *)
(***************************************************************************)
EXTENDS Naturals, FiniteSets

CONSTANTS
    Agents,        \* rows of agent_state
    SpaceOf,       \* the space of each agent
    Clocked,       \* agents whose record has a schedule; the others wake on events only
    Keys,          \* event identities (dedupe keys) a mailbox can hold
    Declinable,    \* the keys of note_written events to agents without `wake: always`
    Runs,          \* run ids; an id no row, request or snapshot names is minted again
    Ticks,         \* tick requests that may be in their claim phase at once
    Senders,       \* requests that enqueue an event
    Editors,       \* requests that change or re-derive an agent's row
    Doors,         \* the manual doors in use: "person", "chain", "tool"
    Edits,         \* what editors do: "activate", "save", "off"
    Faults,        \* "run", "tick", "edit", "send": that request may die; "late": a live run
                   \* may overstay; "db": a statement of a release may fail
    MaxFailures,   \* MAX_CONSECUTIVE_FAILURES
    MaxPending,    \* MAX_PENDING_EVENTS
    MaxPerTick,    \* MAX_RUNS_PER_TICK
    MaxOthers,     \* MAX_FANOUT_SUBSCRIBERS
    None

ASSUME SchedulerAssumption ==
    /\ Clocked \subseteq Agents
    /\ Declinable \subseteq Keys
    /\ Doors \subseteq {"person", "chain", "tool"}
    /\ Edits \subseteq {"activate", "save", "off"}
    /\ IsFiniteSet(Senders)
    /\ Faults \subseteq {"run", "tick", "edit", "send", "late", "db"}
    /\ MaxFailures \in Nat \ {0}
    /\ MaxPending \in Nat \ {0}
    /\ MaxPerTick \in Nat \ {0}
    /\ MaxOthers \in Nat
    /\ Ticks \cap Editors = {}
    /\ None \notin Agents
    /\ None \notin Runs

VARIABLES
    active,        \* agent_state.active, which is also the record's `active`
    current,       \* agent_state.current_run_id; null exactly when status is idle
    next,          \* agent_state.next_run_at
    clockCome,     \* has the clock come round since agent_state.last_run_at?
    failures,      \* agent_state.consecutive_failures
    mail,          \* the pending rows of agent_events, one per dedupe key
    run,           \* what the request that carries each run is doing
    ledger,        \* agent_runs.status
    tick, sender, editor,
    sync           \* what each syncAgentState under way has read

row == <<active, current, next, clockCome, failures>>
vars == <<active, current, next, clockCome, failures, mail, run, ledger, tick, sender, editor, sync>>

-----------------------------------------------------------------------------
(* Types *)

\* Streaks are counted up to one past the limit they are compared with.
Streaks == 0..MaxFailures + 1
OneMoreUncapped(n) == n + 1
OneMore(n) == IF n > MaxFailures THEN n ELSE n + 1

Times == {"never", "later", "soon", "due"}
Modes == {"scheduled", "fanout", "person", "chain", "tool"}
Outcomes == {"success", "quiet", "failure", "fatal"}
ClaimPhases == {"claimed", "mailed", "gated", "reset"}
WorkPhases == {"created", "dispatched", "executing", "finished", "releasing"}
AfterPhases == {"rearm", "pull", "settle", "switch", "switched"}
RunPhases == {"free", "asked", "over", "lost", "dead"} \cup ClaimPhases \cup WorkPhases \cup AfterPhases

StaleRow == [agent : Agents, run : Runs, failures : Streaks]
RunRecord ==
    [pc : RunPhases, agent : Agents \cup {None}, mode : Modes, mail : SUBSET Keys, others : 0..MaxOthers,
     outcome : Outcomes, streak : Streaks, off : BOOLEAN, overstayed : BOOLEAN]
TickRecord ==
    [pc : {"idle", "reclaim", "fail", "switch", "switched", "select", "busy", "visit", "sync", "carry", "dispatch"},
     stale : SUBSET StaleRow, agent : Agents \cup {None}, run : Runs \cup {None}, failures : Streaks,
     due : SUBSET [agent : Agents, come : BOOLEAN], busy : SUBSET {SpaceOf[a] : a \in Agents},
     come : BOOLEAN, claimed : SUBSET Runs]
SenderRecord == [pc : {"idle", "counted", "inserted"}, agent : Agents \cup {None}, key : Keys \cup {None}]
EditorRecord ==
    [pc : {"idle", "syncing", "switched"}, agent : Agents \cup {None},
     op : {"activate", "save", "off"}]
Syncers == Ticks \cup Editors
SyncRecord ==
    [pc : {"none", "read", "derive", "write"}, agent : Agents \cup {None}, sawActive : BOOLEAN,
     sawRunning : BOOLEAN, sawNext : Times, want : BOOLEAN, fresh : Times]

TypeOK ==
    /\ active \in [Agents -> BOOLEAN]
    /\ current \in [Agents -> Runs \cup {None}]
    /\ next \in [Agents -> Times]
    /\ clockCome \in [Agents -> BOOLEAN]
    /\ failures \in [Agents -> Streaks]
    /\ mail \in [Agents -> SUBSET Keys]
    /\ run \in [Runs -> RunRecord]
    /\ ledger \in [Runs -> {"none", "running", "succeeded", "failed"}]
    /\ tick \in [Ticks -> TickRecord]
    /\ sender \in [Senders -> SenderRecord]
    /\ editor \in [Editors -> EditorRecord]
    /\ sync \in [Syncers -> SyncRecord]

-----------------------------------------------------------------------------
(* State functions.  A definition followed by "bug:" is a form the code could *)
(* plausibly have had; the mutants of the runs put it in the place of the one *)
(* below it.                                                                  *)

Idle(a) == current[a] = None

BusySpaces == {SpaceOf[a] : a \in {b \in Agents : ~Idle(b)}}

\* bug: a running agent is given no next occurrence.
OccurrenceIfIdle(a) == IF a \in Clocked /\ Idle(a) THEN "later" ELSE "never"

\* The clock's next occurrence, or null for an agent with no schedule.
NextOccurrence(a) == IF a \in Clocked THEN "later" ELSE "never"

\* LEAST(next_run_at, now + debounce)
PulledForward(n) == IF n = "due" THEN "due" ELSE "soon"

\* bug: the release asks only whether the row is running.
HeldByAnyRun(r) == ~Idle(run[r].agent)

\* Does the row still belong to run r?  updateMany's `where: { id, currentRunId }`.
Holds(r) == current[run[r].agent] = r

\* bug: the reclaim frees every row it read, without a compare-and-swap.
StaleAsRead(s) == TRUE

\* bug: the reclaim's compare-and-swap never matches.
NeverStale(s) == FALSE

\* Does the row still carry the claim that was read as stale?
StillStale(s) == current[s.agent] = s.run

\* bug: failStaleRun writes by id alone.
FailedById(r) == "failed"

\* bug: the reclaim leaves the run row alone.
LeftAsItWas(r) == ledger[r]

\* failStaleRun touches only a run that is still `running`.
FailedIfRunning(r) == IF ledger[r] = "running" THEN "failed" ELSE ledger[r]

\* bug: the limit is off by one.
PastLimit(n) == n > MaxFailures

\* Has a streak reached the number of failures an agent is allowed?
AtLimit(n) == n >= MaxFailures

\* bug: the cap is off by one.
HasRoomAtCap(a) == Cardinality(mail[a]) <= MaxPending

\* Is the mailbox under its cap?
HasRoom(a) == Cardinality(mail[a]) < MaxPending

\* bug: pending mail is not seen.
SeesNoMail(a) == FALSE

HasPending(a) == mail[a] # {}

\* A run id that nothing in the system names any more stands for a new uuid.
\* What is left of a fire may name the run it was opened by, and no other does.
Unnamed(r) ==
    /\ run[r].pc \in {"free", "over", "lost", "dead"}
    /\ ledger[r] # "running"
    /\ \A a \in Agents : current[a] # r
    /\ \A t \in Ticks : /\ tick[t].run # r
                        /\ r \notin tick[t].claimed
                        /\ \A s \in tick[t].stale : s.run # r

NewRun(a, m, p) ==
    [pc |-> p, agent |-> a, mode |-> m, mail |-> {}, others |-> 0, outcome |-> "success",
     streak |-> 0, off |-> FALSE, overstayed |-> FALSE]

IdleTick ==
    [pc |-> "idle", stale |-> {}, agent |-> None, run |-> None, failures |-> 0,
     due |-> {}, busy |-> {}, come |-> FALSE, claimed |-> {}]

IdleSender == [pc |-> "idle", agent |-> None, key |-> None]

IdleEditor == [pc |-> "idle", agent |-> None, op |-> "save"]

NoSync ==
    [pc |-> "none", agent |-> None, sawActive |-> FALSE,
     sawRunning |-> FALSE, sawNext |-> "never", want |-> FALSE, fresh |-> "never"]

\* The advisory lock of withAgentRecord, held from the store to the end of the sync.
RecordLocked(a) == \E e \in Editors : editor[e].agent = a /\ editor[e].op = "activate"

Init ==
    /\ active \in [Agents -> BOOLEAN]
    /\ current = [a \in Agents |-> None]
    /\ next = [a \in Agents |-> IF active[a] THEN NextOccurrence(a) ELSE "never"]
    /\ clockCome = [a \in Agents |-> FALSE]
    /\ failures = [a \in Agents |-> 0]
    /\ mail = [a \in Agents |-> {}]
    /\ run = [r \in Runs |-> NewRun(None, "scheduled", "free")]
    /\ ledger = [r \in Runs |-> "none"]
    /\ tick = [t \in Ticks |-> IdleTick]
    /\ sender = [s \in Senders |-> IdleSender]
    /\ editor = [e \in Editors |-> IdleEditor]
    /\ sync = [x \in Syncers |-> NoSync]

-----------------------------------------------------------------------------
(* Statements several requests share *)

\* The claim's compare-and-swap moved the row: it is this run's now.
ClaimRow(a, r) ==
    /\ current' = [current EXCEPT ![a] = r]
    /\ clockCome' = [clockCome EXCEPT ![a] = FALSE]

\* deactivateAgent: the record is switched off under its lock, then the row again outside it.
SwitchOff(a) == active' = [active EXCEPT ![a] = FALSE]

PullForward(a) ==
    next' = IF active[a] /\ Idle(a) THEN [next EXCEPT ![a] = PulledForward(next[a])] ELSE next

MoveRun(r, p) == run' = [run EXCEPT ![r].pc = p]

\* The request is over; what it held in memory goes with it.
Ended(x, p) ==
    [NewRun(IF p = "over" /\ x.others = 0 THEN None ELSE x.agent, "scheduled", p) EXCEPT
        !.others = x.others, !.overstayed = p # "over" /\ x.overstayed]
EndRun(r, p) == run' = [run EXCEPT ![r] = Ended(@, p)]

MoveTick(t, p) == tick' = [tick EXCEPT ![t].pc = p]

BeginSync(x, a) == sync' = [sync EXCEPT ![x] = [NoSync EXCEPT !.pc = "read", !.agent = a]]

-----------------------------------------------------------------------------
(* The mailbox: enqueueAgentEvent *)

\* Counts the pending rows; at the cap the event is dropped.
CountPending(s, a, k) ==
    /\ sender[s].pc = "idle"
    /\ HasRoom(a)
    /\ sender' = [sender EXCEPT ![s] = [pc |-> "counted", agent |-> a, key |-> k]]
    /\ UNCHANGED <<row, mail, run, ledger, tick, editor, sync>>

\* INSERT ... ON CONFLICT DO NOTHING: an identical pending key is a no-op.
InsertEvent(s) ==
    LET a == sender[s].agent  k == sender[s].key IN
    /\ sender[s].pc = "counted"
    /\ mail' = [mail EXCEPT ![a] = @ \cup {k}]
    /\ sender' = [sender EXCEPT ![s] = IF k \in mail[a] THEN IdleSender ELSE [@ EXCEPT !.pc = "inserted"]]
    /\ UNCHANGED <<row, run, ledger, tick, editor, sync>>

PullForInsert(s) ==
    /\ sender[s].pc = "inserted"
    /\ PullForward(sender[s].agent)
    /\ sender' = [sender EXCEPT ![s] = IdleSender]
    /\ UNCHANGED <<active, current, clockCome, failures, mail, run, ledger, tick, editor, sync>>

-----------------------------------------------------------------------------
(* The tick, first half: reclaimStale *)

\* Reads the rows stuck in running past the cutoff.
TickStart(t) ==
    /\ tick[t].pc = "idle"
    /\ tick' = [tick EXCEPT ![t] = [IdleTick EXCEPT
           !.pc = "reclaim",
           !.stale = {[agent |-> a, run |-> current[a], failures |-> failures[a]] :
                         a \in {b \in Agents : ~Idle(b) /\ run[current[b]].overstayed}}]]
    /\ UNCHANGED <<row, mail, run, ledger, sender, editor, sync>>

\* Frees a stale row by compare-and-swap on running_since, which names the claim.
ReclaimRow(t, s) ==
    /\ tick[t].pc = "reclaim"
    /\ s \in tick[t].stale
    /\ IF StillStale(s)
          THEN /\ current' = [current EXCEPT ![s.agent] = None]
               /\ failures' = [failures EXCEPT ![s.agent] = OneMore(s.failures)]
               /\ tick' = [tick EXCEPT ![t].pc = "fail", ![t].stale = @ \ {s}, ![t].agent = s.agent,
                                       ![t].run = s.run, ![t].failures = OneMore(s.failures)]
          ELSE /\ tick' = [tick EXCEPT ![t].stale = @ \ {s}]
               /\ UNCHANGED <<current, failures>>
    /\ UNCHANGED <<active, next, clockCome, mail, run, ledger, sender, editor, sync>>

\* failStaleRun: only a run still `running` is failed.
FailStaleRun(t) ==
    LET r == tick[t].run IN
    /\ tick[t].pc = "fail"
    /\ ledger' = [ledger EXCEPT ![r] = FailedIfRunning(r)]
    /\ tick' = [tick EXCEPT ![t].pc = IF AtLimit(tick[t].failures) THEN "switch" ELSE "reclaim",
                            ![t].run = None, ![t].failures = 0,
                            ![t].agent = IF AtLimit(tick[t].failures) THEN @ ELSE None]
    /\ UNCHANGED <<row, mail, run, sender, editor, sync>>

TickSwitchOff(t) ==
    LET a == tick[t].agent IN
    /\ \/ /\ tick[t].pc = "switch"
          /\ ~RecordLocked(a)
          /\ MoveTick(t, "switched")
       \/ /\ tick[t].pc = "switched"
          /\ tick' = [tick EXCEPT ![t].pc = "reclaim", ![t].agent = None]
    /\ SwitchOff(a)
    /\ UNCHANGED <<current, next, clockCome, failures, mail, run, ledger, sender, editor, sync>>

-----------------------------------------------------------------------------
(* The tick, second half: selecting, claiming and creating runs *)

\* Selects the due rows, with the last_run_at each had.
SelectDue(t) ==
    /\ tick[t].pc = "reclaim"
    /\ tick[t].stale = {}
    /\ tick' = [tick EXCEPT ![t].pc = "busy",
           ![t].due = {[agent |-> a, come |-> clockCome[a]] :
                          a \in {b \in Agents : active[b] /\ Idle(b) /\ next[b] = "due"}}]
    /\ UNCHANGED <<row, mail, run, ledger, sender, editor, sync>>

ReadBusySpaces(t) ==
    /\ tick[t].pc = "busy"
    /\ tick' = [tick EXCEPT ![t].pc = "visit", ![t].busy = BusySpaces]
    /\ UNCHANGED <<row, mail, run, ledger, sender, editor, sync>>

\* May the loop take its next due row d?
Visiting(t, d) ==
    /\ tick[t].pc = "visit"
    /\ Cardinality(tick[t].claimed) < MaxPerTick
    /\ d \in tick[t].due

\* A busy space is skipped; a record that no longer says active is re-derived;
\* a row another request moved since the select fails the compare-and-swap.
PassRow(t, d) ==
    /\ Visiting(t, d)
    /\ \/ /\ SpaceOf[d.agent] \in tick[t].busy
          /\ tick' = [tick EXCEPT ![t].due = @ \ {d}]
          /\ UNCHANGED sync
       \/ /\ SpaceOf[d.agent] \notin tick[t].busy
          /\ ~active[d.agent]
          /\ tick' = [tick EXCEPT ![t].due = @ \ {d}, ![t].pc = "sync"]
          /\ BeginSync(t, d.agent)
       \/ /\ SpaceOf[d.agent] \notin tick[t].busy
          /\ active[d.agent]
          /\ ~(Idle(d.agent) /\ next[d.agent] = "due")
          /\ tick' = [tick EXCEPT ![t].due = @ \ {d}]
          /\ UNCHANGED sync
    /\ UNCHANGED <<row, mail, run, ledger, sender, editor>>

\* The scheduled claim: due, active and idle, and next_run_at advances.
ScheduledClaim(t, d, r) ==
    LET a == d.agent IN
    /\ Visiting(t, d)
    /\ SpaceOf[a] \notin tick[t].busy
    /\ active[a] /\ Idle(a) /\ next[a] = "due"
    /\ Unnamed(r) /\ run[r].others = 0
    /\ ClaimRow(a, r)
    /\ next' = [next EXCEPT ![a] = NextOccurrence(a)]
    /\ run' = [run EXCEPT ![r] = NewRun(a, "scheduled", "claimed")]
    /\ ledger' = [ledger EXCEPT ![r] = "none"]
    /\ tick' = [tick EXCEPT ![t].pc = "carry", ![t].due = @ \ {d}, ![t].run = r, ![t].come = d.come]
    /\ UNCHANGED <<active, failures, mail, sender, editor, sync>>

\* claimEvents: every pending row is stamped with the run, the tick's or a manual caller's.
ClaimEvents(r) ==
    LET a == run[r].agent IN
    /\ run[r].pc = "claimed"
    /\ run[r].mode # "fanout"
    /\ run' = [run EXCEPT ![r].pc = "mailed", ![r].mail = mail[a]]
    /\ mail' = [mail EXCEPT ![a] = {}]
    /\ UNCHANGED <<row, ledger, tick, sender, editor, sync>>

\* gateWake: the judge may decline saves; a webhook or a reply is never judged.
GateWake(r) ==
    /\ run[r].pc = "mailed"
    /\ run[r].mode = "scheduled"
    /\ \E declined \in SUBSET (run[r].mail \cap Declinable) :
           run' = [run EXCEPT ![r].pc = "gated", ![r].mail = @ \ declined]
    /\ UNCHANGED <<row, mail, ledger, tick, sender, editor, sync>>

\* Is there anything, or anyone, to run for?
DueForSomething(t, r) ==
    \/ run[r].mail # {}
    \/ run[r].agent \in Clocked /\ tick[t].come

\* The claim is handed back: idle, next_run_at and last_run_at as they were.
HandBack(t) ==
    LET r == tick[t].run  a == run[r].agent IN
    /\ tick[t].pc = "carry"
    /\ run[r].pc = "gated"
    /\ ~DueForSomething(t, r)
    /\ IF Holds(r)
          THEN /\ current' = [current EXCEPT ![a] = None]
               /\ next' = [next EXCEPT ![a] = NextOccurrence(a)]
               /\ clockCome' = [clockCome EXCEPT ![a] = @ \/ tick[t].come]
          ELSE UNCHANGED <<current, next, clockCome>>
    /\ EndRun(r, "over")
    /\ tick' = [tick EXCEPT ![t].pc = "visit", ![t].run = None, ![t].come = FALSE]
    /\ UNCHANGED <<active, failures, mail, ledger, sender, editor, sync>>

\* createRun, for the agent's own identity and up to MaxOthers others after it.
CreateScheduledRun(t) ==
    LET r == tick[t].run  a == run[r].agent IN
    /\ tick[t].pc = "carry"
    /\ run[r].pc = "gated"
    /\ DueForSomething(t, r)
    /\ \E n \in 0..MaxOthers : run' = [run EXCEPT ![r].pc = "created", ![r].others = n]
    /\ ledger' = [ledger EXCEPT ![r] = "running"]
    /\ tick' = [tick EXCEPT ![t].pc = "visit", ![t].run = None, ![t].come = FALSE,
                            ![t].busy = @ \cup {SpaceOf[a]}, ![t].claimed = @ \cup {r}]
    /\ UNCHANGED <<row, mail, sender, editor, sync>>

\* The loop is over: every run it created is posted to the run endpoint.
Dispatch(t) ==
    /\ tick[t].pc = "visit"
    /\ tick[t].due = {} \/ Cardinality(tick[t].claimed) >= MaxPerTick
    /\ run' = [r \in Runs |-> IF r \in tick[t].claimed THEN [run[r] EXCEPT !.pc = "dispatched"] ELSE run[r]]
    /\ tick' = [tick EXCEPT ![t] = IdleTick]
    /\ UNCHANGED <<row, mail, ledger, sender, editor, sync>>

\* bug: the later claims of a fire do not ask for an idle row.
FiresOnIfActive(a) == active[a]

\* The compare-and-swap of the claims after a fire's first.
FiresOn(a) == active[a] /\ Idle(a)

\* Once a dispatch has answered, the fire goes on to its next identity through
\* the same claim, and stops where the agent is no longer active and idle.
FanOut(p, r) ==
    LET a == run[p].agent IN
    /\ run[p].others > 0
    /\ run[p].pc \in {"over", "lost", "dead"}
    /\ IF FiresOn(a)
          THEN /\ Unnamed(r)
               /\ r = p \/ run[r].others = 0
               /\ ClaimRow(a, r)
               /\ run' = [run EXCEPT ![p].others = 0,
                                     ![r] = [NewRun(a, "fanout", "claimed") EXCEPT !.others = run[p].others - 1]]
               /\ ledger' = [ledger EXCEPT ![r] = "none"]
          ELSE /\ r = p
               /\ run' = [run EXCEPT ![p].others = 0]
               /\ UNCHANGED <<current, clockCome, ledger>>
    /\ UNCHANGED <<active, next, failures, mail, tick, sender, editor, sync>>

CreateFanOutRun(r) ==
    /\ run[r].pc = "claimed"
    /\ run[r].mode = "fanout"
    /\ MoveRun(r, "dispatched")
    /\ ledger' = [ledger EXCEPT ![r] = "running"]
    /\ UNCHANGED <<row, mail, tick, sender, editor, sync>>

-----------------------------------------------------------------------------
(* The manual claim: claimManualRun *)

\* The row and the busy spaces are read: only a person may run an inactive
\* agent, and only a chained run may start in a space that is busy.
AskManualRun(r, a, door) ==
    /\ Unnamed(r) /\ run[r].others = 0
    /\ door # "person" => active[a]
    /\ Idle(a)
    /\ door # "chain" => SpaceOf[a] \notin BusySpaces
    /\ run' = [run EXCEPT ![r] = NewRun(a, door, "asked")]
    /\ ledger' = [ledger EXCEPT ![r] = "none"]
    /\ UNCHANGED <<row, mail, tick, sender, editor, sync>>

\* bug: the manual claim trusts the row it read.
ClaimableAsRead(r) == run[r].mode # "person" => active[run[r].agent]

\* The compare-and-swap of the manual claim: idle, and active unless a person asks.
Claimable(r) == Idle(run[r].agent) /\ (run[r].mode # "person" => active[run[r].agent])

ManualClaim(r) ==
    LET a == run[r].agent IN
    /\ run[r].pc = "asked"
    /\ IF Claimable(r)
          THEN ClaimRow(a, r) /\ MoveRun(r, "claimed")
          ELSE EndRun(r, "over") /\ UNCHANGED <<current, clockCome>>
    /\ UNCHANGED <<active, next, failures, mail, ledger, tick, sender, editor, sync>>

\* With the mail taken, next_run_at goes back to the clock's next occurrence.
ResetToClock(r) ==
    LET a == run[r].agent IN
    /\ run[r].pc = "mailed"
    /\ run[r].mode \in {"person", "chain", "tool"}
    /\ next' = IF Holds(r) THEN [next EXCEPT ![a] = NextOccurrence(a)] ELSE next
    /\ MoveRun(r, "reset")
    /\ UNCHANGED <<active, current, clockCome, failures, mail, ledger, tick, sender, editor, sync>>

CreateManualRun(r) ==
    /\ run[r].pc = "reset"
    /\ MoveRun(r, "dispatched")
    /\ ledger' = [ledger EXCEPT ![r] = "running"]
    /\ UNCHANGED <<row, mail, tick, sender, editor, sync>>

-----------------------------------------------------------------------------
(* The executor: executeRun and release *)

\* A run that is no longer `running` (reclaimed before it started) is not executed.
StartRun(r) ==
    /\ run[r].pc = "dispatched"
    /\ IF ledger[r] = "running" THEN MoveRun(r, "executing") ELSE EndRun(r, "over")
    /\ UNCHANGED <<row, mail, ledger, tick, sender, editor, sync>>

\* finishRun writes the outcome by id, whatever the run row says by now.
FinishRun(r) ==
    /\ run[r].pc = "executing"
    /\ \E o \in Outcomes :
           /\ run' = [run EXCEPT ![r].pc = "finished", ![r].outcome = o, ![r].mail = {}]
           /\ ledger' = [ledger EXCEPT ![r] = IF o = "success" THEN "succeeded" ELSE "failed"]
    /\ UNCHANGED <<row, mail, tick, sender, editor, sync>>

Counts(o) == o \in {"failure", "fatal"}

\* The streak after an outcome: counted, kept by a quiet failure, cleared by a success.
StreakAfter(o, n) == IF Counts(o) THEN OneMore(n) ELSE IF o = "quiet" THEN n ELSE 0

\* Release reads the row.  With the outcome that decides the streak to write, and
\* whether the agent is switched off after it: a fatal outcome or a streak at its
\* limit does that to an agent that was on.
ReadForRelease(r) ==
    LET a == run[r].agent  o == run[r].outcome  n == StreakAfter(o, failures[a]) IN
    /\ run[r].pc = "finished"
    /\ IF Holds(r)
          THEN run' = [run EXCEPT ![r].pc = "releasing", ![r].outcome = "success", ![r].streak = n,
                           ![r].off = active[a] /\ (o = "fatal" \/ (Counts(o) /\ AtLimit(n)))]
          ELSE EndRun(r, "over")
    /\ UNCHANGED <<row, mail, ledger, tick, sender, editor, sync>>

\* The row is freed only while it still belongs to this run.
ReleaseRow(r) ==
    LET a == run[r].agent IN
    /\ run[r].pc = "releasing"
    /\ IF Holds(r)
          THEN /\ current' = [current EXCEPT ![a] = None]
               /\ failures' = [failures EXCEPT ![a] = run[r].streak]
               /\ run' = [run EXCEPT ![r].pc = "rearm", ![r].streak = 0]
          ELSE EndRun(r, "over") /\ UNCHANGED <<current, failures>>
    /\ UNCHANGED <<active, next, clockCome, mail, ledger, tick, sender, editor, sync>>

\* rearmIfPending: is there mail that came while the row was running?
RearmIfPending(r) ==
    /\ run[r].pc = "rearm"
    /\ MoveRun(r, IF HasPending(run[r].agent) THEN "pull" ELSE "settle")
    /\ UNCHANGED <<row, mail, ledger, tick, sender, editor, sync>>

PullForRelease(r) ==
    /\ run[r].pc = "pull"
    /\ PullForward(run[r].agent)
    /\ MoveRun(r, "settle")
    /\ UNCHANGED <<active, current, clockCome, failures, mail, ledger, tick, sender, editor, sync>>

SettleRun(r) ==
    /\ run[r].pc = "settle"
    /\ IF run[r].off THEN MoveRun(r, "switch") ELSE EndRun(r, "over")
    /\ UNCHANGED <<row, mail, ledger, tick, sender, editor, sync>>

RunSwitchOff(r) ==
    LET a == run[r].agent IN
    /\ \/ /\ run[r].pc = "switch"
          /\ ~RecordLocked(a)
          /\ MoveRun(r, "switched")
       \/ /\ run[r].pc = "switched"
          /\ EndRun(r, "over")
    /\ SwitchOff(a)
    /\ UNCHANGED <<current, next, clockCome, failures, mail, ledger, tick, sender, editor, sync>>

-----------------------------------------------------------------------------
(* The people: configureAgent, switchOffAgent, and the re-derive after a brief is saved *)

\* configureAgent under the record lock: storeAgentConfig writes the row's own
\* `active` column before the sync reads it.
Activate(e, a) ==
    /\ editor[e].pc = "idle"
    /\ ~RecordLocked(a)
    /\ active' = [active EXCEPT ![a] = TRUE]
    /\ editor' = [editor EXCEPT ![e] = [pc |-> "syncing", agent |-> a, op |-> "activate"]]
    /\ BeginSync(e, a)
    /\ UNCHANGED <<current, next, clockCome, failures, mail, run, ledger, tick, sender>>

\* agentNoteWritten for a brief: the sync runs outside the record lock.
SaveBrief(e, a) ==
    /\ editor[e].pc = "idle"
    /\ editor' = [editor EXCEPT ![e] = [IdleEditor EXCEPT !.pc = "syncing", !.agent = a]]
    /\ BeginSync(e, a)
    /\ UNCHANGED <<row, mail, run, ledger, tick, sender>>

\* switchOffAgent: deactivateAgent asked for by a person.
PersonSwitchOff(e, a) ==
    /\ \/ /\ editor[e].pc = "idle"
          /\ ~RecordLocked(a)
          /\ editor' = [editor EXCEPT ![e] = [IdleEditor EXCEPT !.pc = "switched", !.agent = a, !.op = "off"]]
       \/ /\ editor[e].pc = "switched"
          /\ editor[e].agent = a
          /\ editor' = [editor EXCEPT ![e] = IdleEditor]
    /\ SwitchOff(a)
    /\ UNCHANGED <<current, next, clockCome, failures, mail, run, ledger, tick, sender, sync>>

-----------------------------------------------------------------------------
(* syncAgentState: an editor's, or a tick's for a row whose record read as inactive *)

\* It reads the row as it is ...
SyncRead(x) ==
    LET a == sync[x].agent IN
    /\ sync[x].pc = "read"
    /\ sync' = [sync EXCEPT ![x].pc = "derive", ![x].sawActive = active[a],
                            ![x].sawRunning = ~Idle(a), ![x].sawNext = next[a]]
    /\ UNCHANGED <<row, mail, run, ledger, tick, sender, editor>>

\* ... then the record and the mailbox, from which it derives the row ...
SyncDerive(x) ==
    LET a == sync[x].agent IN
    /\ sync[x].pc = "derive"
    /\ sync' = [sync EXCEPT ![x].pc = "write", ![x].want = active[a],
           ![x].fresh = IF ~active[a] THEN "never" ELSE IF HasPending(a) THEN "soon" ELSE NextOccurrence(a)]
    /\ UNCHANGED <<row, mail, run, ledger, tick, sender, editor>>

\* ... and writes it, whatever moved in between.
SyncWrite(x) ==
    LET a == sync[x].agent  saw == sync[x] IN
    /\ saw.pc = "write"
    /\ active' = [active EXCEPT ![a] = saw.want]
    /\ next' = [next EXCEPT ![a] = IF saw.sawRunning /\ saw.want THEN saw.sawNext ELSE saw.fresh]
    /\ failures' = IF saw.want /\ ~saw.sawActive THEN [failures EXCEPT ![a] = 0] ELSE failures
    /\ sync' = [sync EXCEPT ![x] = NoSync]
    /\ tick' = IF x \in Ticks THEN [tick EXCEPT ![x].pc = "visit"] ELSE tick
    /\ editor' = IF x \in Editors THEN [editor EXCEPT ![x] = IdleEditor] ELSE editor
    /\ UNCHANGED <<current, clockCome, mail, run, ledger, sender>>

-----------------------------------------------------------------------------
(* Time and faults *)

\* The agent's clock comes round.
ClockComes(a) ==
    /\ a \in Clocked
    /\ ~clockCome[a] \/ next[a] \in {"later", "soon"}
    /\ clockCome' = [clockCome EXCEPT ![a] = TRUE]
    /\ next' = [next EXCEPT ![a] = IF @ = "never" THEN "never" ELSE "due"]
    /\ UNCHANGED <<active, current, failures, mail, run, ledger, tick, sender, editor, sync>>

DebounceEnds(a) ==
    /\ next[a] = "soon"
    /\ next' = [next EXCEPT ![a] = "due"]
    /\ UNCHANGED <<active, current, clockCome, failures, mail, run, ledger, tick, sender, editor, sync>>

\* A claim gets older than the cap plus its grace.  A live request releases
\* inside the grace unless it is late.
Overstay(r) ==
    /\ \E a \in Agents : current[a] = r
    /\ ~run[r].overstayed
    /\ run[r].pc \in {"lost", "dead"} \/ "late" \in Faults
    /\ run' = [run EXCEPT ![r].overstayed = TRUE]
    /\ UNCHANGED <<row, mail, ledger, tick, sender, editor, sync>>

\* The dispatch never reaches the run endpoint.
LoseDispatch(r) ==
    /\ "run" \in Faults
    /\ run[r].pc = "dispatched"
    /\ EndRun(r, "lost")
    /\ UNCHANGED <<row, mail, ledger, tick, sender, editor, sync>>

\* The instance of an executor or of a manual caller dies; a group being
\* fanned out after it goes on, since the tick request carries that.
RunDies(r) ==
    /\ "run" \in Faults
    /\ \/ run[r].pc \in (WorkPhases \ {"created", "dispatched"}) \cup AfterPhases
       \/ run[r].pc \in {"claimed", "mailed", "reset"} /\ run[r].mode \in {"person", "chain", "tool"}
    /\ EndRun(r, "dead")
    /\ UNCHANGED <<row, mail, ledger, tick, sender, editor, sync>>

\* A tick request dies, with the run it is carrying and those it has not dispatched.
TickDies(t) ==
    /\ "tick" \in Faults
    /\ tick[t].pc # "idle"
    /\ run' = [r \in Runs |-> IF r \in tick[t].claimed \/ (tick[t].pc = "carry" /\ r = tick[t].run)
                                 THEN [Ended(run[r], "dead") EXCEPT !.others = 0] ELSE run[r]]
    /\ tick' = [tick EXCEPT ![t] = IdleTick]
    /\ sync' = [sync EXCEPT ![t] = NoSync]
    /\ UNCHANGED <<row, mail, ledger, sender, editor>>

\* A statement of a successful run's release fails: the executor's catch finishes
\* the run a second time, as crashed, and releases it as a failure.
ReleaseThrows(r) ==
    /\ "db" \in Faults
    /\ run[r].pc \in {"finished", "releasing"}
    /\ ledger[r] = "succeeded"
    /\ run' = [run EXCEPT ![r].pc = "finished", ![r].outcome = "failure", ![r].streak = 0, ![r].off = FALSE]
    /\ ledger' = [ledger EXCEPT ![r] = "failed"]
    /\ UNCHANGED <<row, mail, tick, sender, editor, sync>>

\* A statement of the re-arm fails: release takes the error for "nothing to re-arm".
RearmFails(r) ==
    /\ "db" \in Faults
    /\ run[r].pc \in {"rearm", "pull"}
    /\ MoveRun(r, "settle")
    /\ UNCHANGED <<row, mail, ledger, tick, sender, editor, sync>>

\* A sender dies or a statement of its enqueue fails, which agentNoteWritten only
\* logs: an event it has inserted stays, and a later one of its key is a no-op.
SenderDies(s) ==
    /\ "send" \in Faults
    /\ sender[s].pc # "idle"
    /\ sender' = [sender EXCEPT ![s] = IdleSender]
    /\ UNCHANGED <<row, mail, run, ledger, tick, editor, sync>>

\* An editor's request dies, and its record lock with it.
EditorDies(e) ==
    /\ "edit" \in Faults
    /\ editor[e].pc # "idle"
    /\ editor' = [editor EXCEPT ![e] = IdleEditor]
    /\ sync' = [sync EXCEPT ![e] = NoSync]
    /\ UNCHANGED <<row, mail, run, ledger, tick, sender>>

\* A tick request dies while it fans a fire out, perhaps just after a claim.
GroupDies(r) ==
    /\ "tick" \in Faults
    /\ \/ /\ run[r].others > 0
          /\ run[r].pc # "created"
          /\ run' = [run EXCEPT ![r].others = 0]
       \/ /\ run[r].pc = "claimed"
          /\ run[r].mode = "fanout"
          /\ run' = [run EXCEPT ![r].pc = "dead", ![r].others = 0]
    /\ UNCHANGED <<row, mail, ledger, tick, sender, editor, sync>>

-----------------------------------------------------------------------------

SyncStep(x) == SyncRead(x) \/ SyncDerive(x) \/ SyncWrite(x)

SenderStep(s) == InsertEvent(s) \/ PullForInsert(s)

TickStep(t) ==
    \/ \E s \in tick[t].stale : ReclaimRow(t, s)
    \/ FailStaleRun(t) \/ TickSwitchOff(t)
    \/ SelectDue(t) \/ ReadBusySpaces(t) \/ SyncStep(t)
    \/ \E d \in tick[t].due : PassRow(t, d) \/ \E r \in Runs : ScheduledClaim(t, d, r)
    \/ HandBack(t) \/ CreateScheduledRun(t) \/ Dispatch(t)

\* The steps of the request that carries run r.
RunStep(r) ==
    \/ ClaimEvents(r) \/ GateWake(r)
    \/ CreateFanOutRun(r) \/ ManualClaim(r) \/ ResetToClock(r) \/ CreateManualRun(r)
    \/ StartRun(r) \/ FinishRun(r) \/ ReadForRelease(r) \/ ReleaseRow(r)
    \/ RearmIfPending(r) \/ PullForRelease(r) \/ SettleRun(r) \/ RunSwitchOff(r)
    \/ \E q \in Runs : FanOut(r, q)

TimePasses == \E a \in Agents : ClockComes(a) \/ DebounceEnds(a)

Next ==
    \/ \E s \in Senders : SenderStep(s) \/ SenderDies(s) \/ \E a \in Agents, k \in Keys : CountPending(s, a, k)
    \/ \E t \in Ticks : TickStart(t) \/ TickStep(t) \/ TickDies(t)
    \/ \E r \in Runs : \/ RunStep(r) \/ Overstay(r)
                       \/ LoseDispatch(r) \/ RunDies(r) \/ GroupDies(r)
                       \/ ReleaseThrows(r) \/ RearmFails(r)
                       \/ \E a \in Agents, d \in Doors : AskManualRun(r, a, d)
    \/ \E e \in Editors : \/ SyncStep(e) \/ EditorDies(e)
                          \/ \E a \in Agents : \/ "activate" \in Edits /\ Activate(e, a)
                                               \/ "save" \in Edits /\ SaveBrief(e, a)
                                               \/ "off" \in Edits /\ PersonSwitchOff(e, a)
    \/ TimePasses

Spec == Init /\ [][Next]_vars

\* Cloud Scheduler posts a tick every minute, requests that live run on, and
\* time passes.  Nobody is obliged to send, to press Run, to edit or to fail.
Fairness ==
    /\ \A t \in Ticks : WF_vars(TickStart(t) \/ TickStep(t))
    /\ \A r \in Runs : WF_vars(RunStep(r) \/ Overstay(r))
    /\ \A s \in Senders : WF_vars(SenderStep(s))
    /\ \A e \in Editors : WF_vars(SyncStep(e))
    /\ \A a \in Agents : WF_vars(ClockComes(a) \/ DebounceEnds(a))

FairSpec == Spec /\ Fairness

-----------------------------------------------------------------------------
(* Safety *)

\* A request that carries a run holds the agent's row for as long as the claim
\* has not overstayed, from the claim to the compare-and-swap of its release:
\* neither a late release, nor a hand-back, nor a reclaim that read the row
\* earlier ever frees the row under it (schedule.ts claim, runner.ts release).
ClaimHeld ==
    \A r \in Runs :
        run[r].pc \in ClaimPhases \cup WorkPhases /\ ~run[r].overstayed => current[run[r].agent] = r

\* So an agent never has two runs in flight, unless one of them is past the cap
\* and its grace (the claim is "correct across ten instances", schedule.ts).
OneLiveRun ==
    \A r, q \in Runs :
        /\ run[r].pc \in ClaimPhases \cup WorkPhases /\ ~run[r].overstayed
        /\ run[q].pc \in ClaimPhases \cup WorkPhases /\ ~run[q].overstayed
        /\ run[r].agent = run[q].agent
        => r = q

\* The requests that carry a claimed run, and which of those and of the runs that
\* hold a row are past the cap and its grace.
AtWork == {r \in Runs : run[r].pc \in ClaimPhases \cup WorkPhases}
Late == {r \in Runs : run[r].overstayed /\ (r \in AtWork \/ \E a \in Agents : current[a] = r)}

Lease == INSTANCE RunLease WITH holder <- current, atWork <- AtWork, late <- Late

\* Claims are leases: whatever ticks, doors, executors and deaths interleave, a row is
\* taken only when free, freed only by its holder's request as it stops, and taken
\* back only from a claim that has overstayed (schedule.ts, runner.ts release).
ClaimsAreLeases == Lease!LeaseSpec

\* A failure is counted only by the statement that takes a claim off the row, so
\* a release and a reclaim of the same run never count it twice (reclaimStale).
FailureCountedOnce ==
    [][\A a \in Agents : failures'[a] > failures[a] => current[a] # None /\ current'[a] = None]_vars

\* A run that succeeded stays succeeded, although its executor may die before the
\* release and the tick then reclaims the row (failStaleRun fails only `running`):
\* nobody but its own executor's catch ever overwrites a success (executeRun).
SuccessStands ==
    [][\A r \in Runs : ledger[r] = "succeeded" =>
           \/ ledger'[r] = "succeeded"
           \/ run'[r].pc \in {"asked", "claimed"}
           \/ run[r].pc \in {"finished", "releasing"} /\ run'[r].outcome = "failure"]_vars

\* Is some request about to switch agent a off?
SwitchOffComing(a) ==
    \/ \E r \in Runs : run[r].agent = a /\ run[r].off /\ run[r].pc \in AfterPhases
    \/ \E t \in Ticks : /\ tick[t].agent = a
                       /\ \/ tick[t].pc = "switch"
                          \/ tick[t].pc = "fail" /\ tick[t].failures >= MaxFailures

\* Is agent a on with its streak at the limit, and nobody about to switch it off?
FailsOn(a) == active[a] /\ failures[a] >= MaxFailures /\ ~SwitchOffComing(a)

\* An agent whose streak has reached the limit does not stay switched on: whoever
\* counted the last failure goes on to switch it off (release, reclaimStale), unless
\* that request dies, or the release read the agent as off, or a streak that another
\* request was about to act on.  After that only a person brings it back, or a sync
\* that read it as on before (configureAgent, syncAgentState).
OnlyTheseLeaveItOn ==
    [][\A a \in Agents : ~FailsOn(a) /\ FailsOn(a)' =>
           \/ \E t \in Ticks : /\ tick[t].agent = a /\ tick[t].pc \in {"fail", "switch"}
                               /\ tick'[t].pc = "idle"
           \/ \E r \in Runs : /\ run[r].agent = a
                              /\ \/ run[r].off /\ run'[r].pc = "dead"
                                 \/ ~run[r].off /\ ReleaseRow(r)
           \/ \E e \in Editors : Activate(e, a)
           \/ \E x \in Syncers : sync[x].agent = a /\ sync[x].sawActive /\ SyncWrite(x)]_vars

\* Does the run row of r say `running` with no claim, no request and no tick to change that?
Orphaned(r) ==
    /\ ledger[r] = "running"
    /\ run[r].pc \in {"free", "over", "lost", "dead"}
    /\ \A a \in Agents : current[a] # r
    /\ \A t \in Ticks : tick[t].run # r

\* "Fail the run, free the row" (reclaimStale): a run row is left `running` for ever
\* only after its claim overstayed, and by two deaths: of the tick, between the two
\* statements, or of a request so late that it created the run after the reclaim.
OnlyADeathOrphans ==
    [][\A r \in Runs : ~Orphaned(r) /\ Orphaned(r)' =>
           /\ run[r].overstayed
           /\ \/ \E t \in Ticks : tick[t].pc = "fail" /\ tick[t].run = r /\ tick'[t].pc = "idle"
              \/ ~Holds(r) /\ run[r].pc \in WorkPhases /\ run'[r].pc \in {"lost", "dead"}]_vars

\* A scheduled agent that is switched on always has a next fire, through claims,
\* hand-backs, pull-forwards and reclaims alike.
ClockKept == \A a \in Clocked : active[a] => next[a] # "never"

\* Requests that counted the mailbox at the same time may overshoot its cap, but
\* only by one event each (enqueueAgentEvent counts and inserts in two statements).
MailBounded ==
    \A a \in Agents :
        Cardinality(mail[a]) + Cardinality({s \in Senders : sender[s].pc = "counted" /\ sender[s].agent = a})
            <= MaxPending + Cardinality(Senders) - 1

\* "One at a time per space" (busySpaces).
OneRunPerSpace ==
    \A a, b \in Agents : a # b /\ SpaceOf[a] = SpaceOf[b] => Idle(a) \/ Idle(b)

\* Is some request about to pull agent a's next_run_at forward, or to derive it anew?
PullComing(a) ==
    \/ \E s \in Senders : sender[s].pc = "inserted" /\ sender[s].agent = a
    \/ \E r \in Runs : run[r].pc \in {"rearm", "pull"} /\ run[r].agent = a
    \/ \E x \in Syncers : sync[x].agent = a

\* Does mail wait at an active, idle agent that no tick will select?
Stranded(a) == active[a] /\ Idle(a) /\ mail[a] # {} /\ next[a] = "never" /\ ~PullComing(a)

\* Mail that waits for an idle, active agent has a tick to wait for: a running
\* agent "is re-armed by `rearmIfPending` at release" (events.ts pullForward).
NoMailStranded == \A a \in Agents : ~Stranded(a)

\* Mail is stranded by the two steps that free a row and do not re-arm it, the
\* hand-back and the reclaim; by the death or the error of a sender between its insert
\* and its pull-forward, and of a release between freeing its row and re-arming it
\* (enqueueAgentEvent, rearmIfPending); and by a sync, which kept what it read of a
\* running row, derived the row before the mail came, or died (syncAgentState).  No
\* interleaving of live requests leaves any other gap, mail deduped or taken by a claim
\* between two statements of a sender included.
OnlyTheseStrandMail ==
    [][\A a \in Agents : ~Stranded(a) /\ Stranded(a)' =>
           \/ \E t \in Ticks : /\ tick[t].pc \in {"carry", "reclaim"}
                               /\ current[a] # None /\ current'[a] = None
           \/ \E s \in Senders : sender[s].agent = a /\ sender[s].pc = "inserted" /\ SenderDies(s)
           \/ \E r \in Runs : /\ run[r].agent = a /\ run[r].pc \in {"rearm", "pull"}
                              /\ RunDies(r) \/ RearmFails(r)
           \/ \E x \in Syncers : /\ sync[x].agent = a
                                 /\ \/ SyncWrite(x) /\ (sync[x].sawRunning \/ sync[x].fresh = "never")
                                    \/ x \in Editors /\ EditorDies(x)
                                    \/ x \in Ticks /\ TickDies(x)]_vars

\* An agent that was switched off comes back on only because a person switches it
\* on ("a thing a person then has to notice and undo", limits.ts).
OnlyAPersonSwitchesOn ==
    [][\A a \in Agents : ~active[a] /\ active'[a] =>
           \E e \in Editors : /\ editor'[e].agent = a \/ editor[e].agent = a
                              /\ "activate" \in {editor[e].op, editor'[e].op}]_vars

\* Is a scheduled agent on, with no next fire and nobody about to derive one?
ClockLost(a) == active[a] /\ next[a] = "never" /\ \A x \in Syncers : sync[x].agent # a

\* Whatever people, briefs, runs and ticks do to a scheduled agent together, only
\* two steps take its clock away while it is on: a sync that found the row running
\* and kept the next_run_at it had read (syncAgentState), and the death of the
\* request whose sync would have given it one (configureAgent, tick).
OnlyAKeptRowLosesTheClock ==
    [][\A a \in Clocked : ~ClockLost(a) /\ ClockLost(a)' =>
           \E x \in Syncers : /\ sync[x].agent = a
                              /\ \/ sync[x].sawRunning /\ SyncWrite(x)
                                 \/ x \in Editors /\ EditorDies(x)
                                 \/ x \in Ticks /\ TickDies(x)]_vars

-----------------------------------------------------------------------------
(* Liveness *)

\* A claim is always given up in the end: by its own request, or by a reclaim
\* when that request died.
ClaimsFreed == \A a \in Agents, r \in Runs : current[a] = r ~> current[a] # r

\* A run row does not say `running` for ever.
RunRowsEnd == \A r \in Runs : ledger[r] = "running" ~> ledger[r] # "running"

\* Mail for a scheduled agent that stays on is taken by a run in the end, also
\* when runs die and rows are reclaimed around it.
ClockedMailTaken ==
    \A a \in Clocked, k \in Keys : k \in mail[a] ~> (k \notin mail[a] \/ ~active[a])
=============================================================================
