------------------------- MODULE AgentSchedulerProofs -------------------------
(***************************************************************************)
(* Theorems about AgentScheduler, for any sets of agents, runs, ticks,     *)
(* senders and editors: a live claim is never taken from its run, and an   *)
(* agent has one live run at a time; a failure is counted once, the limit  *)
(* on failures binds, and a success stands; a mailbox is bounded, and mail *)
(* that waits is armed; a clock and a run row are lost only to named       *)
(* steps.                                                                  *)
(*                                                                         *)
(* ClaimHeld is not inductive.  A reclaim may free a row under a live run  *)
(* unless what it read as stale was overstayed, a dispatch may revive a    *)
(* run unless only its own tick names it, and a run id may be minted twice *)
(* unless every row, snapshot and request that names an id is known to.    *)
(* TypeOK is not inductive either: a request that is under way must also   *)
(* name what it works on, or a step of it would write a row that is        *)
(* nobody's.  NamedTypes is TypeOK over records that say so.               *)
(***************************************************************************)
EXTENDS AgentScheduler, FiniteSetTheorems, TLAPS

-----------------------------------------------------------------------------
(* Types *)

Carrying == {"asked"} \cup ClaimPhases \cup WorkPhases \cup AfterPhases

\* The records of requests that name what they work on.
NamedRuns == {x \in RunRecord : x.pc \in Carrying \/ x.others > 0 => x.agent \in Agents}
NamedTicks == {x \in TickRecord : x.pc \in {"fail", "carry"} => x.run \in Runs}
NamedSenders == {x \in SenderRecord : x.pc # "idle" => x.agent \in Agents /\ x.key \in Keys}
NamedSyncs == {x \in SyncRecord : x.pc # "none" => x.agent \in Agents}

NamedTypes ==
    /\ active \in [Agents -> BOOLEAN]
    /\ current \in [Agents -> Runs \cup {None}]
    /\ next \in [Agents -> Times]
    /\ clockCome \in [Agents -> BOOLEAN]
    /\ failures \in [Agents -> Streaks]
    /\ mail \in [Agents -> SUBSET Keys]
    /\ run \in [Runs -> NamedRuns]
    /\ ledger \in [Runs -> {"none", "running", "succeeded", "failed"}]
    /\ tick \in [Ticks -> NamedTicks]
    /\ sender \in [Senders -> NamedSenders]
    /\ editor \in [Editors -> EditorRecord]
    /\ sync \in [Syncers -> NamedSyncs]

\* No two ticks have the same run created and not dispatched yet.
CreatedIsOwned ==
    /\ \A t \in Ticks : \A r \in tick[t].claimed : run[r].pc = "created"
    /\ \A t, u \in Ticks : t # u => tick[t].claimed \cap tick[u].claimed = {}

-----------------------------------------------------------------------------
(* The records the actions write *)

\* What the assumption on the constants gives: streaks and fan-outs start at zero,
\* and a counted failure stays within the streaks.
LEMMA Constants ==
    /\ 0 \in Streaks
    /\ 0 \in 0..MaxOthers
    /\ MaxOthers \in Nat
    /\ None \notin Runs
    /\ None \notin Agents
    /\ \A n \in Streaks : OneMore(n) \in Streaks
BY SchedulerAssumption DEF SchedulerAssumption, Streaks, OneMore

\* The phases of a request, sorted by whether it still works on an agent.
LEMMA PhaseNames ==
    /\ {"free", "asked", "over", "lost", "dead"} \cup ClaimPhases \cup WorkPhases \cup AfterPhases = RunPhases
    /\ Carrying \subseteq RunPhases
    /\ \A p \in {"over", "lost", "dead"} : p \in RunPhases \ Carrying
    /\ {"asked", "claimed", "mailed", "gated", "reset", "created", "dispatched", "executing", "finished", "releasing",
        "rearm", "pull", "settle", "switch", "switched"} = Carrying
BY DEF RunPhases, Carrying, ClaimPhases, WorkPhases, AfterPhases

\* A request that is idle names nothing, and a sync that begins names its agent.
LEMMA IdleIsNamed ==
    /\ IdleTick \in NamedTicks
    /\ IdleSender \in NamedSenders
    /\ IdleEditor \in EditorRecord
    /\ NoSync \in NamedSyncs
    /\ \A a \in Agents : [NoSync EXCEPT !.pc = "read", !.agent = a] \in NamedSyncs
<1>1. IdleTick \in NamedTicks BY Constants DEF IdleTick, NamedTicks, TickRecord
<1>2. IdleSender \in NamedSenders BY DEF IdleSender, NamedSenders, SenderRecord
<1>3. IdleEditor \in EditorRecord BY DEF IdleEditor, EditorRecord
<1>4. NoSync \in NamedSyncs BY DEF NoSync, NamedSyncs, SyncRecord, Times
<1>5. \A a \in Agents : [NoSync EXCEPT !.pc = "read", !.agent = a] \in NamedSyncs
  BY DEF NoSync, NamedSyncs, SyncRecord, Times
<1> QED BY <1>1, <1>2, <1>3, <1>4, <1>5

\* A new run of an agent names it.
LEMMA NewIsNamed ==
    ASSUME NEW a \in Agents, NEW m \in Modes, NEW p \in RunPhases
    PROVE  NewRun(a, m, p) \in NamedRuns
BY Constants DEF NewRun, NamedRuns, RunRecord, Outcomes

\* A run that moves on from a phase in which it works on an agent still names it.
LEMMA MovedIsNamed ==
    ASSUME NEW x \in NamedRuns, NEW p \in RunPhases, x.pc \in Carrying \/ p \notin Carrying
    PROVE  [x EXCEPT !.pc = p] \in NamedRuns
BY DEF NamedRuns, RunRecord

\* A run that ends names its agent for as long as others of its fire are to come.
LEMMA EndedIsNamed ==
    ASSUME NEW x \in NamedRuns, NEW p \in {"over", "lost", "dead"}
    PROVE  Ended(x, p) \in NamedRuns
<1>1. "scheduled" \in Modes BY DEF Modes
<1>2. "success" \in Outcomes BY DEF Outcomes
<1>3. p \in RunPhases /\ p \notin Carrying BY PhaseNames
<1>4. x \in RunRecord /\ (x.others > 0 => x.agent \in Agents) BY DEF NamedRuns
<1>5. Ended(x, p) \in RunRecord BY <1>1, <1>2, <1>3, <1>4, Constants DEF RunRecord, Ended, NewRun
<1>6. Ended(x, p).pc = p /\ Ended(x, p).others = x.others
  BY <1>4 DEF Ended, NewRun
<1>7. x.others > 0 => Ended(x, p).agent = x.agent
  BY <1>4 DEF Ended, NewRun
<1> QED BY <1>3, <1>4, <1>5, <1>6, <1>7 DEF NamedRuns

\* So a step that only moves one run keeps the runs named ...
LEMMA MoveKeepsNames ==
    ASSUME NamedTypes, NEW r \in Runs, NEW p \in RunPhases, run[r].pc \in Carrying \/ p \notin Carrying, MoveRun(r, p)
    PROVE  run' \in [Runs -> NamedRuns]
<1>1. [run[r] EXCEPT !.pc = p] \in NamedRuns BY MovedIsNamed DEF NamedTypes
<1> QED BY <1>1 DEF NamedTypes, MoveRun

\* ... and so does one that only ends one.
LEMMA EndKeepsNames ==
    ASSUME NamedTypes, NEW r \in Runs, NEW p \in {"over", "lost", "dead"}, EndRun(r, p)
    PROVE  run' \in [Runs -> NamedRuns]
<1>1. Ended(run[r], p) \in NamedRuns BY EndedIsNamed DEF NamedTypes
<1> QED BY <1>1 DEF NamedTypes, EndRun

-----------------------------------------------------------------------------

\* Initially nothing is under way.
LEMMA InitIsNamed == Init => NamedTypes
<1> SUFFICES ASSUME Init PROVE NamedTypes OBVIOUS
<1>1. NewRun(None, "scheduled", "free") \in NamedRuns
  <2>1. NewRun(None, "scheduled", "free") \in RunRecord
    BY Constants DEF NewRun, RunRecord, Modes, Outcomes, RunPhases
  <2> QED BY <2>1 DEF NewRun, NamedRuns, Carrying, ClaimPhases, WorkPhases, AfterPhases
<1>2. run \in [Runs -> NamedRuns] BY <1>1 DEF Init
<1>3. next \in [Agents -> Times] BY DEF Init, NextOccurrence, Times
<1> QED BY <1>2, <1>3, IdleIsNamed, Constants DEF Init, NamedTypes

\* Every step keeps the types, and every request it leaves under way named.
LEMMA NamedStep ==
    ASSUME NamedTypes, CreatedIsOwned, [Next]_vars
    PROVE  NamedTypes'
<1>1. ASSUME NEW s \in Senders, NEW a \in Agents, NEW k \in Keys, CountPending(s, a, k)
     PROVE  NamedTypes'
  <2>1. [pc |-> "counted", agent |-> a, key |-> k] \in NamedSenders
    BY DEF NamedSenders, SenderRecord
  <2>2. sender' \in [Senders -> NamedSenders]
    BY <1>1, <2>1 DEF CountPending, NamedTypes
  <2> QED BY <1>1, <2>2 DEF CountPending, NamedTypes, row
<1>2. ASSUME NEW s \in Senders, InsertEvent(s)
     PROVE  NamedTypes'
  <2>1. sender[s] \in SenderRecord /\ sender[s].agent \in Agents /\ sender[s].key \in Keys
    BY <1>2 DEF InsertEvent, NamedTypes, NamedSenders
  <2>2. [sender[s] EXCEPT !.pc = "inserted"] \in NamedSenders
    BY <2>1 DEF NamedSenders, SenderRecord
  <2>3. mail' \in [Agents -> SUBSET Keys]
    BY <1>2, <2>1 DEF InsertEvent, NamedTypes, row
  <2>4. sender' \in [Senders -> NamedSenders]
    BY <1>2, <2>1, <2>2, IdleIsNamed DEF InsertEvent, NamedTypes
  <2> QED BY <1>2, <2>3, <2>4 DEF InsertEvent, NamedTypes, row
<1>3. ASSUME NEW s \in Senders, PullForInsert(s)
     PROVE  NamedTypes'
  <2>1. next' \in [Agents -> Times]
    BY <1>3 DEF PullForInsert, PullForward, PulledForward, Times, NamedTypes, row
  <2>2. sender' \in [Senders -> NamedSenders]
    BY <1>3, IdleIsNamed DEF PullForInsert, NamedTypes
  <2> QED BY <1>3, <2>1, <2>2 DEF PullForInsert, NamedTypes, row
<1>4. ASSUME NEW t \in Ticks, TickStart(t)
     PROVE  NamedTypes'
  <2>1. \A a \in Agents : ~Idle(a) => [agent |-> a, run |-> current[a], failures |-> failures[a]] \in StaleRow
    BY DEF NamedTypes, Idle, StaleRow
  <2>2. {[agent |-> a, run |-> current[a], failures |-> failures[a]] :
            a \in {b \in Agents : ~Idle(b) /\ run[current[b]].overstayed}} \in SUBSET StaleRow
    BY <2>1
  <2>3. \A S \in SUBSET StaleRow : [IdleTick EXCEPT !.pc = "reclaim", !.stale = S] \in NamedTicks
    BY Constants DEF IdleTick, NamedTicks, TickRecord
  <2>4. tick' \in [Ticks -> NamedTicks]
    BY <1>4, <2>1, <2>2, <2>3 DEF TickStart, NamedTypes
  <2> QED BY <1>4, <2>4 DEF TickStart, NamedTypes, row
<1>5. ASSUME NEW t \in Ticks, NEW s \in tick[t].stale, ReclaimRow(t, s)
     PROVE  NamedTypes'
  <2>1. tick[t] \in TickRecord
    BY DEF NamedTypes, NamedTicks
  <2>2. s \in StaleRow
    BY <2>1 DEF TickRecord
  <2>3. s.agent \in Agents /\ s.run \in Runs /\ OneMore(s.failures) \in Streaks
    BY <2>2, Constants DEF StaleRow
  <2>4. tick[t].stale \ {s} \in SUBSET StaleRow
    BY <2>1 DEF TickRecord
  <2>5. [tick[t] EXCEPT !.stale = @ \ {s}] \in NamedTicks
    BY <2>1, <2>4, <1>5 DEF ReclaimRow, NamedTicks, TickRecord
  <2>6. [tick[t] EXCEPT !.pc = "fail", !.stale = @ \ {s}, !.agent = s.agent,
                       !.run = s.run, !.failures = OneMore(s.failures)] \in NamedTicks
    BY <2>1, <2>3, <2>4 DEF NamedTicks, TickRecord
  <2>7. current' \in [Agents -> Runs \cup {None}]
    BY <1>5, <2>1, <2>2, <2>3, <2>4 DEF ReclaimRow, NamedTypes, row
  <2>8. failures' \in [Agents -> Streaks]
    BY <1>5, <2>1, <2>2, <2>3, <2>4 DEF ReclaimRow, NamedTypes, row
  <2>9. tick' \in [Ticks -> NamedTicks]
    BY <1>5, <2>1, <2>2, <2>3, <2>4, <2>5, <2>6 DEF ReclaimRow, NamedTypes
  <2> QED BY <1>5, <2>7, <2>8, <2>9 DEF ReclaimRow, NamedTypes, row
<1>6. ASSUME NEW t \in Ticks, FailStaleRun(t)
     PROVE  NamedTypes'
  <2>1. tick[t] \in TickRecord /\ tick[t].run \in Runs
    BY <1>6 DEF FailStaleRun, NamedTypes, NamedTicks
  <2>2. \A p \in {"switch", "reclaim"}, b \in Agents \cup {None} :
           [tick[t] EXCEPT !.pc = p, !.run = None, !.failures = 0, !.agent = b] \in NamedTicks
    BY <2>1, Constants DEF NamedTicks, TickRecord
  <2>3. tick[t].agent \in Agents \cup {None}
    BY <2>1 DEF TickRecord
  <2>4. ledger' \in [Runs -> {"none", "running", "succeeded", "failed"}]
    BY <1>6, <2>1, <2>3 DEF FailStaleRun, FailedIfRunning, NamedTypes
  <2>5. tick' \in [Ticks -> NamedTicks]
    BY <1>6, <2>1, <2>2, <2>3 DEF FailStaleRun, NamedTypes
  <2> QED BY <1>6, <2>4, <2>5 DEF FailStaleRun, NamedTypes, row
<1>7. ASSUME NEW t \in Ticks, TickSwitchOff(t)
     PROVE  NamedTypes'
  <2>1. tick[t] \in TickRecord
    BY DEF NamedTypes, NamedTicks
  <2>2. [tick[t] EXCEPT !.pc = "switched"] \in NamedTicks
    BY <2>1 DEF NamedTicks, TickRecord
  <2>3. [tick[t] EXCEPT !.pc = "reclaim", !.agent = None] \in NamedTicks
    BY <2>1 DEF NamedTicks, TickRecord
  <2>4. active' \in [Agents -> BOOLEAN]
    BY <1>7, <2>1 DEF TickSwitchOff, SwitchOff, NamedTypes, row
  <2>5. tick' \in [Ticks -> NamedTicks]
    BY <1>7, <2>1, <2>2, <2>3 DEF TickSwitchOff, MoveTick, NamedTypes
  <2> QED BY <1>7, <2>4, <2>5 DEF TickSwitchOff, NamedTypes, row
<1>8. ASSUME NEW t \in Ticks, SelectDue(t)
     PROVE  NamedTypes'
  <2>1. tick[t] \in TickRecord
    BY DEF NamedTypes, NamedTicks
  <2>2. {[agent |-> a, come |-> clockCome[a]] : a \in {b \in Agents : active[b] /\ Idle(b) /\ next[b] = "due"}}
          \in SUBSET [agent : Agents, come : BOOLEAN]
    BY DEF NamedTypes
  <2>3. \A S \in SUBSET [agent : Agents, come : BOOLEAN] : [tick[t] EXCEPT !.pc = "busy", !.due = S] \in NamedTicks
    BY <2>1 DEF NamedTicks, TickRecord
  <2>4. tick' \in [Ticks -> NamedTicks]
    BY <1>8, <2>1, <2>2, <2>3 DEF SelectDue, NamedTypes
  <2> QED BY <1>8, <2>4 DEF SelectDue, NamedTypes, row
<1>9. ASSUME NEW t \in Ticks, ReadBusySpaces(t)
     PROVE  NamedTypes'
  <2>1. tick[t] \in TickRecord
    BY DEF NamedTypes, NamedTicks
  <2>2. BusySpaces \in SUBSET {SpaceOf[a] : a \in Agents}
    BY DEF BusySpaces
  <2>3. \A S \in SUBSET {SpaceOf[a] : a \in Agents} : [tick[t] EXCEPT !.pc = "visit", !.busy = S] \in NamedTicks
    BY <2>1 DEF NamedTicks, TickRecord
  <2>4. tick' \in [Ticks -> NamedTicks]
    BY <1>9, <2>1, <2>2, <2>3 DEF ReadBusySpaces, NamedTypes
  <2> QED BY <1>9, <2>4 DEF ReadBusySpaces, NamedTypes, row
<1>10. ASSUME NEW t \in Ticks, NEW d \in tick[t].due, PassRow(t, d)
     PROVE  NamedTypes'
  <2>1. tick[t] \in TickRecord
    BY DEF NamedTypes, NamedTicks
  <2>2. d.agent \in Agents /\ d.come \in BOOLEAN
    BY <2>1 DEF TickRecord
  <2>3. tick[t].due \ {d} \in SUBSET [agent : Agents, come : BOOLEAN]
    BY <2>1 DEF TickRecord
  <2>4. [tick[t] EXCEPT !.due = @ \ {d}] \in NamedTicks
    BY <2>1, <2>3, <1>10 DEF PassRow, Visiting, NamedTicks, TickRecord
  <2>5. [tick[t] EXCEPT !.due = @ \ {d}, !.pc = "sync"] \in NamedTicks
    BY <2>1, <2>3 DEF NamedTicks, TickRecord
  <2>6. tick' \in [Ticks -> NamedTicks]
    BY <1>10, <2>1, <2>2, <2>3, <2>4, <2>5, IdleIsNamed DEF PassRow, NamedTypes
  <2>7. sync' \in [Syncers -> NamedSyncs]
    BY <1>10, <2>1, <2>2, <2>3, IdleIsNamed DEF PassRow, BeginSync, Syncers, NamedTypes
  <2> QED BY <1>10, <2>6, <2>7 DEF PassRow, NamedTypes, row
<1>11. ASSUME NEW t \in Ticks, NEW d \in tick[t].due, NEW r \in Runs, ScheduledClaim(t, d, r)
     PROVE  NamedTypes'
  <2>1. tick[t] \in TickRecord
    BY DEF NamedTypes, NamedTicks
  <2>2. d.agent \in Agents /\ d.come \in BOOLEAN
    BY <2>1 DEF TickRecord
  <2>3. tick[t].due \ {d} \in SUBSET [agent : Agents, come : BOOLEAN]
    BY <2>1 DEF TickRecord
  <2>4. [tick[t] EXCEPT !.pc = "carry", !.due = @ \ {d}, !.run = r, !.come = d.come] \in NamedTicks
    BY <2>1, <2>2, <2>3 DEF NamedTicks, TickRecord
  <2>5. NewRun(d.agent, "scheduled", "claimed") \in NamedRuns
    BY <2>2, NewIsNamed, PhaseNames DEF Modes, RunPhases, ClaimPhases
  <2>6. current' \in [Agents -> Runs \cup {None}]
    BY <1>11, <2>1, <2>2, <2>3 DEF ScheduledClaim, ClaimRow, NamedTypes, row
  <2>7. next' \in [Agents -> Times]
    BY <1>11, <2>1, <2>2, <2>3 DEF ScheduledClaim, NextOccurrence, Times, NamedTypes, row
  <2>8. clockCome' \in [Agents -> BOOLEAN]
    BY <1>11, <2>1, <2>2, <2>3 DEF ScheduledClaim, ClaimRow, NamedTypes, row
  <2>9. ledger' \in [Runs -> {"none", "running", "succeeded", "failed"}]
    BY <1>11, <2>1, <2>2, <2>3 DEF ScheduledClaim, NamedTypes
  <2>10. run' \in [Runs -> NamedRuns]
    BY <1>11, <2>1, <2>2, <2>3, <2>5 DEF ScheduledClaim, NamedTypes
  <2>11. tick' \in [Ticks -> NamedTicks]
    BY <1>11, <2>1, <2>2, <2>3, <2>4 DEF ScheduledClaim, NamedTypes
  <2> QED BY <1>11, <2>6, <2>7, <2>8, <2>9, <2>10, <2>11 DEF ScheduledClaim, NamedTypes, row
<1>12. ASSUME NEW t \in Ticks, HandBack(t)
     PROVE  NamedTypes'
  <2>1. tick[t] \in TickRecord /\ tick[t].run \in Runs
    BY <1>12 DEF HandBack, NamedTypes, NamedTicks
  <2>2. run[tick[t].run].agent \in Agents
    BY <2>1, PhaseNames, <1>12 DEF HandBack, NamedTypes, NamedRuns
  <2>3. [tick[t] EXCEPT !.pc = "visit", !.run = None, !.come = FALSE] \in NamedTicks
    BY <2>1 DEF NamedTicks, TickRecord
  <2>4. current' \in [Agents -> Runs \cup {None}]
    BY <1>12, <2>1, <2>2 DEF HandBack, NamedTypes, row
  <2>5. next' \in [Agents -> Times]
    BY <1>12, <2>1, <2>2 DEF HandBack, NextOccurrence, Times, NamedTypes, row
  <2>6. clockCome' \in [Agents -> BOOLEAN]
    BY <1>12, <2>1, <2>2 DEF HandBack, NamedTypes, row
  <2>7. run' \in [Runs -> NamedRuns]
    BY <1>12, EndKeepsNames, <2>1 DEF HandBack, NamedTypes
  <2>8. tick' \in [Ticks -> NamedTicks]
    BY <1>12, <2>1, <2>2, <2>3 DEF HandBack, NamedTypes
  <2> QED BY <1>12, <2>4, <2>5, <2>6, <2>7, <2>8 DEF HandBack, NamedTypes, row
<1>13. ASSUME NEW t \in Ticks, CreateScheduledRun(t)
     PROVE  NamedTypes'
  <2>1. tick[t] \in TickRecord /\ tick[t].run \in Runs
    BY <1>13 DEF CreateScheduledRun, NamedTypes, NamedTicks
  <2>2. run[tick[t].run] \in RunRecord /\ run[tick[t].run].agent \in Agents
    BY <2>1, PhaseNames, <1>13 DEF CreateScheduledRun, NamedTypes, NamedRuns
  <2>3. tick[t].busy \cup {SpaceOf[run[tick[t].run].agent]} \in SUBSET {SpaceOf[a] : a \in Agents}
        /\ tick[t].claimed \cup {tick[t].run} \in SUBSET Runs
    BY <2>1, <2>2 DEF TickRecord
  <2>4. \A S \in SUBSET {SpaceOf[a] : a \in Agents}, C \in SUBSET Runs :
           [tick[t] EXCEPT !.pc = "visit", !.run = None, !.come = FALSE, !.busy = S, !.claimed = C] \in NamedTicks
    BY <2>1 DEF NamedTicks, TickRecord
  <2>5. \A n \in 0..MaxOthers : [run[tick[t].run] EXCEPT !.pc = "created", !.others = n] \in NamedRuns
    BY <2>2, PhaseNames DEF NamedRuns, RunRecord
  <2>6. ledger' \in [Runs -> {"none", "running", "succeeded", "failed"}]
    BY <1>13, <2>1, <2>2, <2>3 DEF CreateScheduledRun, NamedTypes
  <2>7. run' \in [Runs -> NamedRuns]
    BY <1>13, <2>1, <2>2, <2>3, <2>5 DEF CreateScheduledRun, NamedTypes
  <2>8. tick' \in [Ticks -> NamedTicks]
    BY <1>13, <2>1, <2>2, <2>3, <2>4 DEF CreateScheduledRun, NamedTypes
  <2> QED BY <1>13, <2>6, <2>7, <2>8 DEF CreateScheduledRun, NamedTypes, row
<1>14. ASSUME NEW t \in Ticks, Dispatch(t)
     PROVE  NamedTypes'
  <2>1. tick[t] \in TickRecord
    BY DEF NamedTypes, NamedTicks
  <2>2. \A r \in Runs : r \in tick[t].claimed => run[r].agent \in Agents
    BY <1>14, PhaseNames DEF NamedTypes, NamedRuns, CreatedIsOwned
  <2>3. \A r \in Runs : r \in tick[t].claimed => [run[r] EXCEPT !.pc = "dispatched"] \in NamedRuns
    BY <2>2, PhaseNames DEF NamedTypes, NamedRuns, RunRecord
  <2>4. run' \in [Runs -> NamedRuns]
    BY <1>14, <2>1, <2>2, <2>3 DEF Dispatch, NamedTypes
  <2>5. tick' \in [Ticks -> NamedTicks]
    BY <1>14, <2>1, <2>2, IdleIsNamed DEF Dispatch, NamedTypes
  <2> QED BY <1>14, <2>4, <2>5 DEF Dispatch, NamedTypes, row
<1>15. ASSUME NEW t \in Ticks, TickDies(t)
     PROVE  NamedTypes'
  <2>1. \A r \in Runs : Ended(run[r], "dead") \in NamedRuns
    BY EndedIsNamed DEF NamedTypes
  <2>2. \A x \in NamedRuns : x.pc = "dead" => [x EXCEPT !.others = 0] \in NamedRuns
    BY Constants, PhaseNames DEF NamedRuns, RunRecord
  <2>3. \A r \in Runs : Ended(run[r], "dead").pc = "dead"
    BY DEF Ended, NewRun
  <2>4. \A r \in Runs : [Ended(run[r], "dead") EXCEPT !.others = 0] \in NamedRuns
    BY <2>1, <2>2, <2>3
  <2>5. run' \in [Runs -> NamedRuns]
    BY <1>15, <2>1, <2>2, <2>3, <2>4 DEF TickDies, NamedTypes
  <2>6. tick' \in [Ticks -> NamedTicks]
    BY <1>15, <2>3, IdleIsNamed DEF TickDies, NamedTypes
  <2>7. sync' \in [Syncers -> NamedSyncs]
    BY <1>15, <2>3, IdleIsNamed DEF TickDies, Syncers, NamedTypes
  <2> QED BY <1>15, <2>5, <2>6, <2>7 DEF TickDies, NamedTypes, row
<1>16. ASSUME NEW r \in Runs, ClaimEvents(r)
     PROVE  NamedTypes'
  <2>1. run[r] \in RunRecord /\ run[r].agent \in Agents
    BY <1>16, PhaseNames DEF ClaimEvents, NamedTypes, NamedRuns
  <2>2. \A S \in SUBSET Keys : [run[r] EXCEPT !.pc = "mailed", !.mail = S] \in NamedRuns
    BY <2>1, PhaseNames DEF NamedRuns, RunRecord
  <2>3. mail[run[r].agent] \in SUBSET Keys
    BY <2>1 DEF NamedTypes
  <2>4. mail' \in [Agents -> SUBSET Keys]
    BY <1>16, <2>1, <2>3 DEF ClaimEvents, NamedTypes, row
  <2>5. run' \in [Runs -> NamedRuns]
    BY <1>16, <2>1, <2>2, <2>3 DEF ClaimEvents, NamedTypes
  <2> QED BY <1>16, <2>4, <2>5 DEF ClaimEvents, NamedTypes, row
<1>17. ASSUME NEW r \in Runs, GateWake(r)
     PROVE  NamedTypes'
  <2>1. run[r] \in RunRecord /\ run[r].agent \in Agents
    BY <1>17, PhaseNames DEF GateWake, NamedTypes, NamedRuns
  <2>2. \A S \in SUBSET Keys : [run[r] EXCEPT !.pc = "gated", !.mail = S] \in NamedRuns
    BY <2>1, PhaseNames DEF NamedRuns, RunRecord
  <2>3. \A declined : run[r].mail \ declined \in SUBSET Keys
    BY <2>1 DEF RunRecord
  <2>4. \E S \in SUBSET Keys : run' = [run EXCEPT ![r].pc = "gated", ![r].mail = S]
    BY <1>17, <2>3 DEF GateWake
  <2>5. run' \in [Runs -> NamedRuns]
    BY <1>17, <2>2, <2>4 DEF NamedTypes
  <2> QED BY <1>17, <2>5 DEF GateWake, NamedTypes, row
<1>18. ASSUME NEW p \in Runs, NEW r \in Runs, FanOut(p, r)
     PROVE  NamedTypes'
  <2>1. run[p] \in RunRecord /\ run[p].agent \in Agents /\ run[p].others - 1 \in 0..MaxOthers
    BY <1>18, Constants DEF FanOut, NamedTypes, NamedRuns, RunRecord
  <2>2. [NewRun(run[p].agent, "fanout", "claimed") EXCEPT !.others = run[p].others - 1] \in NamedRuns
    BY <2>1, Constants, PhaseNames DEF NewRun, NamedRuns, RunRecord, Modes, Outcomes, RunPhases, ClaimPhases
  <2>3. [run[p] EXCEPT !.others = 0] \in NamedRuns
    BY <2>1, Constants DEF NamedTypes, NamedRuns, RunRecord
  <2>4. current' \in [Agents -> Runs \cup {None}]
    BY <1>18, <2>1 DEF FanOut, ClaimRow, NamedTypes, row
  <2>5. clockCome' \in [Agents -> BOOLEAN]
    BY <1>18, <2>1 DEF FanOut, ClaimRow, NamedTypes, row
  <2>6. ledger' \in [Runs -> {"none", "running", "succeeded", "failed"}]
    BY <1>18, <2>1 DEF FanOut, NamedTypes
  <2>7. run' \in [Runs -> NamedRuns]
    BY <1>18, <2>1, <2>2, <2>3 DEF FanOut, NamedTypes
  <2> QED BY <1>18, <2>4, <2>5, <2>6, <2>7 DEF FanOut, NamedTypes, row
<1>19. ASSUME NEW r \in Runs, CreateFanOutRun(r)
     PROVE  NamedTypes'
  <2>1. ledger' \in [Runs -> {"none", "running", "succeeded", "failed"}]
    BY <1>19 DEF CreateFanOutRun, NamedTypes
  <2>2. run' \in [Runs -> NamedRuns]
    BY <1>19, MoveKeepsNames, PhaseNames DEF CreateFanOutRun, NamedTypes
  <2> QED BY <1>19, <2>1, <2>2 DEF CreateFanOutRun, NamedTypes, row
<1>20. ASSUME NEW r \in Runs, NEW a \in Agents, NEW door \in Doors, AskManualRun(r, a, door)
     PROVE  NamedTypes'
  <2>1. NewRun(a, door, "asked") \in NamedRuns
    BY NewIsNamed, PhaseNames, SchedulerAssumption DEF SchedulerAssumption, Modes, RunPhases
  <2>2. ledger' \in [Runs -> {"none", "running", "succeeded", "failed"}]
    BY <1>20 DEF AskManualRun, NamedTypes
  <2>3. run' \in [Runs -> NamedRuns]
    BY <1>20, <2>1 DEF AskManualRun, NamedTypes
  <2> QED BY <1>20, <2>2, <2>3 DEF AskManualRun, NamedTypes, row
<1>21. ASSUME NEW r \in Runs, ManualClaim(r)
     PROVE  NamedTypes'
  <2>1. current' \in [Agents -> Runs \cup {None}]
    BY <1>21 DEF ManualClaim, ClaimRow, NamedTypes, row
  <2>2. clockCome' \in [Agents -> BOOLEAN]
    BY <1>21 DEF ManualClaim, ClaimRow, NamedTypes, row
  <2>3. run' \in [Runs -> NamedRuns]
    BY <1>21, MoveKeepsNames, EndKeepsNames, PhaseNames DEF ManualClaim, NamedTypes
  <2> QED BY <1>21, <2>1, <2>2, <2>3 DEF ManualClaim, NamedTypes, row
<1>22. ASSUME NEW r \in Runs, ResetToClock(r)
     PROVE  NamedTypes'
  <2>1. next' \in [Agents -> Times]
    BY <1>22 DEF ResetToClock, NextOccurrence, Times, NamedTypes, row
  <2>2. run' \in [Runs -> NamedRuns]
    BY <1>22, MoveKeepsNames, PhaseNames DEF ResetToClock, NamedTypes
  <2> QED BY <1>22, <2>1, <2>2 DEF ResetToClock, NamedTypes, row
<1>23. ASSUME NEW r \in Runs, CreateManualRun(r)
     PROVE  NamedTypes'
  <2>1. ledger' \in [Runs -> {"none", "running", "succeeded", "failed"}]
    BY <1>23 DEF CreateManualRun, NamedTypes
  <2>2. run' \in [Runs -> NamedRuns]
    BY <1>23, MoveKeepsNames, PhaseNames DEF CreateManualRun, NamedTypes
  <2> QED BY <1>23, <2>1, <2>2 DEF CreateManualRun, NamedTypes, row
<1>24. ASSUME NEW r \in Runs, StartRun(r)
     PROVE  NamedTypes'
  <2>1. run' \in [Runs -> NamedRuns]
    BY <1>24, MoveKeepsNames, EndKeepsNames, PhaseNames DEF StartRun, NamedTypes
  <2> QED BY <1>24, <2>1 DEF StartRun, NamedTypes, row
<1>25. ASSUME NEW r \in Runs, FinishRun(r)
     PROVE  NamedTypes'
  <2>1. run[r] \in RunRecord /\ run[r].agent \in Agents
    BY <1>25, PhaseNames DEF FinishRun, NamedTypes, NamedRuns
  <2>2. \A o \in Outcomes : [run[r] EXCEPT !.pc = "finished", !.outcome = o, !.mail = {}] \in NamedRuns
    BY <2>1, PhaseNames DEF NamedRuns, RunRecord
  <2>3. \E o \in Outcomes : run' = [run EXCEPT ![r].pc = "finished", ![r].outcome = o, ![r].mail = {}]
    BY <1>25 DEF FinishRun
  <2>4. ledger' \in [Runs -> {"none", "running", "succeeded", "failed"}]
    BY <1>25, <2>1 DEF FinishRun, NamedTypes
  <2>5. run' \in [Runs -> NamedRuns]
    BY <1>25, <2>2, <2>3 DEF NamedTypes
  <2> QED BY <1>25, <2>4, <2>5 DEF FinishRun, NamedTypes, row
<1>26. ASSUME NEW r \in Runs, ReadForRelease(r)
     PROVE  NamedTypes'
  <2>1. run[r] \in RunRecord /\ run[r].agent \in Agents
    BY <1>26, PhaseNames DEF ReadForRelease, NamedTypes, NamedRuns
  <2>2. StreakAfter(run[r].outcome, failures[run[r].agent]) \in Streaks
    BY <2>1, Constants DEF NamedTypes, StreakAfter
  <2>3. \A n \in Streaks, b \in BOOLEAN :
           [run[r] EXCEPT !.pc = "releasing", !.outcome = "success", !.streak = n, !.off = b] \in NamedRuns
    BY <2>1, PhaseNames DEF NamedRuns, RunRecord, Outcomes
  <2>4. run' \in [Runs -> NamedRuns]
    BY <1>26, <2>2, <2>3, EndKeepsNames DEF ReadForRelease, NamedTypes
  <2> QED BY <1>26, <2>4 DEF ReadForRelease, NamedTypes, row
<1>27. ASSUME NEW r \in Runs, ReleaseRow(r)
     PROVE  NamedTypes'
  <2>1. run[r] \in RunRecord /\ run[r].agent \in Agents
    BY <1>27, PhaseNames DEF ReleaseRow, NamedTypes, NamedRuns
  <2>2. [run[r] EXCEPT !.pc = "rearm", !.streak = 0] \in NamedRuns
    BY <2>1, PhaseNames, Constants DEF NamedRuns, RunRecord
  <2>3. run[r].streak \in Streaks
    BY <2>1 DEF RunRecord
  <2>4. current' \in [Agents -> Runs \cup {None}]
    BY <1>27, <2>1, <2>3 DEF ReleaseRow, NamedTypes, row
  <2>5. failures' \in [Agents -> Streaks]
    BY <1>27, <2>1, <2>3 DEF ReleaseRow, NamedTypes, row
  <2>6. run' \in [Runs -> NamedRuns]
    BY <1>27, <2>2, EndKeepsNames DEF ReleaseRow, NamedTypes
  <2> QED BY <1>27, <2>4, <2>5, <2>6 DEF ReleaseRow, NamedTypes, row
<1>28. ASSUME NEW r \in Runs, RearmIfPending(r)
     PROVE  NamedTypes'
  <2>1. run' \in [Runs -> NamedRuns]
    BY <1>28, MoveKeepsNames, PhaseNames DEF RearmIfPending, NamedTypes
  <2> QED BY <1>28, <2>1 DEF RearmIfPending, NamedTypes, row
<1>29. ASSUME NEW r \in Runs, PullForRelease(r)
     PROVE  NamedTypes'
  <2>1. next' \in [Agents -> Times]
    BY <1>29 DEF PullForRelease, PullForward, PulledForward, Times, NamedTypes, row
  <2>2. run' \in [Runs -> NamedRuns]
    BY <1>29, MoveKeepsNames, PhaseNames DEF PullForRelease, NamedTypes
  <2> QED BY <1>29, <2>1, <2>2 DEF PullForRelease, NamedTypes, row
<1>30. ASSUME NEW r \in Runs, SettleRun(r)
     PROVE  NamedTypes'
  <2>1. run' \in [Runs -> NamedRuns]
    BY <1>30, MoveKeepsNames, EndKeepsNames, PhaseNames DEF SettleRun, NamedTypes
  <2> QED BY <1>30, <2>1 DEF SettleRun, NamedTypes, row
<1>31. ASSUME NEW r \in Runs, RunSwitchOff(r)
     PROVE  NamedTypes'
  <2>1. active' \in [Agents -> BOOLEAN]
    BY <1>31 DEF RunSwitchOff, SwitchOff, NamedTypes, row
  <2>2. run' \in [Runs -> NamedRuns]
    BY <1>31, MoveKeepsNames, EndKeepsNames, PhaseNames DEF RunSwitchOff, NamedTypes
  <2> QED BY <1>31, <2>1, <2>2 DEF RunSwitchOff, NamedTypes, row
<1>32. ASSUME NEW r \in Runs, Overstay(r)
     PROVE  NamedTypes'
  <2>1. run[r] \in NamedRuns
    BY DEF NamedTypes
  <2>2. [run[r] EXCEPT !.overstayed = TRUE] \in NamedRuns
    BY <2>1 DEF NamedRuns, RunRecord
  <2>3. run' \in [Runs -> NamedRuns]
    BY <1>32, <2>1, <2>2 DEF Overstay, NamedTypes
  <2> QED BY <1>32, <2>3 DEF Overstay, NamedTypes, row
<1>33. ASSUME NEW r \in Runs, LoseDispatch(r)
     PROVE  NamedTypes'
  <2>1. run' \in [Runs -> NamedRuns]
    BY <1>33, EndKeepsNames, PhaseNames DEF LoseDispatch, NamedTypes
  <2> QED BY <1>33, <2>1 DEF LoseDispatch, NamedTypes, row
<1>34. ASSUME NEW r \in Runs, RunDies(r)
     PROVE  NamedTypes'
  <2>1. run' \in [Runs -> NamedRuns]
    BY <1>34, EndKeepsNames, PhaseNames DEF RunDies, NamedTypes
  <2> QED BY <1>34, <2>1 DEF RunDies, NamedTypes, row
<1>35. ASSUME NEW r \in Runs, GroupDies(r)
     PROVE  NamedTypes'
  <2>1. run[r] \in NamedRuns /\ run[r] \in RunRecord
    BY DEF NamedTypes, NamedRuns
  <2>2. [run[r] EXCEPT !.others = 0] \in NamedRuns
    BY <2>1, Constants DEF NamedRuns, RunRecord
  <2>3. [run[r] EXCEPT !.pc = "dead", !.others = 0] \in RunRecord
    BY <2>1, Constants, PhaseNames DEF RunRecord
  <2>4. [run[r] EXCEPT !.pc = "dead", !.others = 0].pc = "dead" /\ [run[r] EXCEPT !.pc = "dead",
        !.others = 0].others = 0
    BY <2>1 DEF RunRecord
  <2>5. \A x \in RunRecord : x.pc = "dead" /\ x.others = 0 => x \in NamedRuns
    BY PhaseNames DEF NamedRuns
  <2>6. [run[r] EXCEPT !.pc = "dead", !.others = 0] \in NamedRuns
    BY <2>3, <2>4, <2>5
  <2>7. run' \in [Runs -> NamedRuns]
    BY <1>35, <2>2, <2>6 DEF GroupDies, NamedTypes
  <2> QED BY <1>35, <2>7 DEF GroupDies, NamedTypes, row
<1>36. ASSUME NEW e \in Editors, NEW a \in Agents, Activate(e, a)
     PROVE  NamedTypes'
  <2>1. [pc |-> "syncing", agent |-> a, op |-> "activate"] \in EditorRecord
    BY DEF NamedTypes, EditorRecord
  <2>2. active' \in [Agents -> BOOLEAN]
    BY <1>36 DEF Activate, NamedTypes, row
  <2>3. editor' \in [Editors -> EditorRecord]
    BY <1>36, <2>1, IdleIsNamed DEF Activate, NamedTypes
  <2>4. sync' \in [Syncers -> NamedSyncs]
    BY <1>36, IdleIsNamed DEF Activate, BeginSync, Syncers, NamedTypes
  <2> QED BY <1>36, <2>2, <2>3, <2>4 DEF Activate, NamedTypes, row
<1>37. ASSUME NEW e \in Editors, NEW a \in Agents, SaveBrief(e, a)
     PROVE  NamedTypes'
  <2>1. [IdleEditor EXCEPT !.pc = "syncing", !.agent = a] \in EditorRecord
    BY DEF IdleEditor, EditorRecord
  <2>2. editor' \in [Editors -> EditorRecord]
    BY <1>37, <2>1, IdleIsNamed DEF SaveBrief, NamedTypes
  <2>3. sync' \in [Syncers -> NamedSyncs]
    BY <1>37, IdleIsNamed DEF SaveBrief, BeginSync, Syncers, NamedTypes
  <2> QED BY <1>37, <2>2, <2>3 DEF SaveBrief, NamedTypes, row
<1>38. ASSUME NEW e \in Editors, NEW a \in Agents, PersonSwitchOff(e, a)
     PROVE  NamedTypes'
  <2>1. [IdleEditor EXCEPT !.pc = "switched", !.agent = a, !.op = "off"] \in EditorRecord
    BY DEF IdleEditor, EditorRecord
  <2>2. active' \in [Agents -> BOOLEAN]
    BY <1>38 DEF PersonSwitchOff, SwitchOff, NamedTypes, row
  <2>3. editor' \in [Editors -> EditorRecord]
    BY <1>38, <2>1, IdleIsNamed DEF PersonSwitchOff, NamedTypes
  <2> QED BY <1>38, <2>2, <2>3 DEF PersonSwitchOff, NamedTypes, row
<1>39. ASSUME NEW x \in Syncers, SyncRead(x)
     PROVE  NamedTypes'
  <2>1. sync[x] \in SyncRecord /\ sync[x].agent \in Agents
    BY <1>39 DEF SyncRead, NamedTypes, NamedSyncs
  <2>2. \A b, c \in BOOLEAN, n \in Times :
           [sync[x] EXCEPT !.pc = "derive", !.sawActive = b, !.sawRunning = c, !.sawNext = n] \in NamedSyncs
    BY <2>1 DEF NamedSyncs, SyncRecord
  <2>3. sync' \in [Syncers -> NamedSyncs]
    BY <1>39, <2>1, <2>2 DEF SyncRead, NamedTypes, Idle
  <2> QED BY <1>39, <2>3 DEF SyncRead, NamedTypes, row
<1>40. ASSUME NEW x \in Syncers, SyncDerive(x)
     PROVE  NamedTypes'
  <2>1. sync[x] \in SyncRecord /\ sync[x].agent \in Agents
    BY <1>40 DEF SyncDerive, NamedTypes, NamedSyncs
  <2>2. \A b \in BOOLEAN, n \in Times :
           [sync[x] EXCEPT !.pc = "write", !.want = b, !.fresh = n] \in NamedSyncs
    BY <2>1 DEF NamedSyncs, SyncRecord
  <2>3. NextOccurrence(sync[x].agent) \in Times /\ "never" \in Times /\ "soon" \in Times
    BY DEF NextOccurrence, Times
  <2>4. sync' \in [Syncers -> NamedSyncs]
    BY <1>40, <2>1, <2>2, <2>3 DEF SyncDerive, NamedTypes
  <2> QED BY <1>40, <2>4 DEF SyncDerive, NamedTypes, row
<1>41. ASSUME NEW x \in Syncers, SyncWrite(x)
     PROVE  NamedTypes'
  <2>1. sync[x] \in SyncRecord /\ sync[x].agent \in Agents
    BY <1>41 DEF SyncWrite, NamedTypes, NamedSyncs
  <2>2. sync[x].want \in BOOLEAN /\ sync[x].sawNext \in Times /\ sync[x].fresh \in Times
    BY <2>1 DEF SyncRecord
  <2>3. x \in Ticks => [tick[x] EXCEPT !.pc = "visit"] \in NamedTicks
    BY DEF NamedTypes, NamedTicks, TickRecord
  <2>4. active' \in [Agents -> BOOLEAN]
    BY <1>41, <2>1, <2>2 DEF SyncWrite, NamedTypes, row
  <2>5. next' \in [Agents -> Times]
    BY <1>41, <2>1, <2>2 DEF SyncWrite, Times, NamedTypes, row
  <2>6. failures' \in [Agents -> Streaks]
    BY <1>41, Constants DEF SyncWrite, NamedTypes, row
  <2>7. tick' \in [Ticks -> NamedTicks]
    BY <1>41, <2>1, <2>2, <2>3, IdleIsNamed DEF SyncWrite, NamedTypes
  <2>8. editor' \in [Editors -> EditorRecord]
    BY <1>41, <2>1, <2>2, IdleIsNamed DEF SyncWrite, NamedTypes
  <2>9. sync' \in [Syncers -> NamedSyncs]
    BY <1>41, <2>1, <2>2, IdleIsNamed DEF SyncWrite, Syncers, NamedTypes
  <2> QED BY <1>41, <2>4, <2>5, <2>6, <2>7, <2>8, <2>9 DEF SyncWrite, NamedTypes, row
<1>42. ASSUME NEW a \in Agents, ClockComes(a)
     PROVE  NamedTypes'
  <2>1. next' \in [Agents -> Times]
    BY <1>42 DEF ClockComes, Times, NamedTypes, row
  <2>2. clockCome' \in [Agents -> BOOLEAN]
    BY <1>42 DEF ClockComes, NamedTypes, row
  <2> QED BY <1>42, <2>1, <2>2 DEF ClockComes, NamedTypes, row
<1>43. ASSUME NEW a \in Agents, DebounceEnds(a)
     PROVE  NamedTypes'
  <2>1. next' \in [Agents -> Times]
    BY <1>43 DEF DebounceEnds, Times, NamedTypes, row
  <2> QED BY <1>43, <2>1 DEF DebounceEnds, NamedTypes, row
<1>44. CASE UNCHANGED vars
  BY <1>44 DEF NamedTypes, vars, row
<1>45. ASSUME NEW e \in Editors, EditorDies(e)
     PROVE  NamedTypes'
  <2>1. editor' \in [Editors -> EditorRecord]
    BY <1>45, IdleIsNamed DEF EditorDies, NamedTypes
  <2>2. sync' \in [Syncers -> NamedSyncs]
    BY <1>45, IdleIsNamed DEF EditorDies, Syncers, NamedTypes
  <2> QED BY <1>45, <2>1, <2>2 DEF EditorDies, NamedTypes, row
<1>46. ASSUME NEW r \in Runs, ReleaseThrows(r)
     PROVE  NamedTypes'
  <2>1. run[r] \in NamedRuns /\ run[r] \in RunRecord /\ run[r].agent \in Agents
    BY <1>46 DEF ReleaseThrows, NamedTypes, NamedRuns, Carrying, WorkPhases
  <2> DEFINE caught == [run[r] EXCEPT !.pc = "finished", !.outcome = "failure", !.streak = 0, !.off = FALSE]
  <2>2. caught \in RunRecord
    BY <2>1, Constants, PhaseNames DEF RunRecord, Outcomes
  <2>3. caught.agent \in Agents /\ caught.pc = "finished"
    BY <2>1 DEF RunRecord
  <2>4. caught \in NamedRuns
    BY <2>1, <2>2, <2>3 DEF NamedRuns, RunRecord, Carrying, WorkPhases, ClaimPhases, AfterPhases
  <2>5. run' \in [Runs -> NamedRuns]
    BY <1>46, <2>4 DEF ReleaseThrows, NamedTypes
  <2>6. ledger' \in [Runs -> {"none", "running", "succeeded", "failed"}]
    BY <1>46 DEF ReleaseThrows, NamedTypes
  <2> QED BY <1>46, <2>5, <2>6 DEF ReleaseThrows, NamedTypes, row
<1>47. ASSUME NEW r \in Runs, RearmFails(r)
     PROVE  NamedTypes'
  <2>1. run' \in [Runs -> NamedRuns]
    BY <1>47, MoveKeepsNames, PhaseNames DEF RearmFails, NamedTypes
  <2> QED BY <1>47, <2>1 DEF RearmFails, NamedTypes, row
<1>48. ASSUME NEW s \in Senders, SenderDies(s)
     PROVE  NamedTypes'
  <2>1. sender' \in [Senders -> NamedSenders]
    BY <1>48, IdleIsNamed DEF SenderDies, NamedTypes
  <2> QED BY <1>48, <2>1 DEF SenderDies, NamedTypes, row
<1> QED
  BY <1>1, <1>2, <1>3, <1>4, <1>5, <1>6, <1>7, <1>8, <1>9, <1>10, <1>11, <1>12, <1>13, <1>14, <1>15, <1>16,
        <1>17, <1>18, <1>19, <1>20, <1>21, <1>22, <1>23, <1>24, <1>25, <1>26, <1>27, <1>28, <1>29, <1>30,
        <1>31, <1>32, <1>33, <1>34, <1>35, <1>36, <1>37, <1>38, <1>39, <1>40, <1>41, <1>42, <1>43, <1>44, <1>45,
        <1>46, <1>47, <1>48
  DEF Next, SenderStep, TickStep, RunStep, SyncStep, TimePasses, Syncers

-----------------------------------------------------------------------------
(* The claims *)

Holding == ClaimPhases \cup WorkPhases \cup {"lost", "dead"}

\* A row names a run that carries it, or one whose request was lost with it.
RowNamesItsRun ==
    \A a \in Agents : current[a] # None => run[current[a]].pc \in Holding /\ run[current[a]].agent = a

\* What a tick read as stale, and is still so, has overstayed.
StaleIsOverstayed ==
    \A t \in Ticks : \A s \in tick[t].stale : current[s.agent] = s.run => run[s.run].overstayed

\* A run that has only asked for its row is named by nobody else.
AskedIsUnnamed ==
    \A r \in Runs : run[r].pc = "asked" =>
        \A t \in Ticks : /\ tick[t].run # r
                         /\ r \notin tick[t].claimed
                         /\ \A s \in tick[t].stale : s.run # r

\* The run a tick is about to fail holds no row.
FailedHoldsNothing ==
    \A t \in Ticks : tick[t].pc = "fail" => \A a \in Agents : current[a] # tick[t].run

\* A tick carries a scheduled run of its own through the claim.
CarriedIsClaimed ==
    /\ \A t \in Ticks : tick[t].pc = "carry" =>
           run[tick[t].run].pc \in {"claimed", "mailed", "gated"} /\ run[tick[t].run].mode = "scheduled"
    /\ \A t, u \in Ticks : t # u /\ tick[t].pc = "carry" /\ tick[u].pc = "carry" => tick[t].run # tick[u].run

\* What the run row says at each phase of its request.
LedgerFollows(r) ==
    /\ run[r].pc \in {"asked"} \cup ClaimPhases => ledger[r] = "none"
    /\ run[r].pc \in {"created", "dispatched", "executing"} => ledger[r] \in {"running", "failed"}
    /\ run[r].pc \in {"created", "dispatched"} /\ current[run[r].agent] = r => ledger[r] = "running"

\* The inductive invariant.
IInv ==
    /\ NamedTypes
    /\ RowNamesItsRun
    /\ StaleIsOverstayed
    /\ AskedIsUnnamed
    /\ FailedHoldsNothing
    /\ CarriedIsClaimed
    /\ CreatedIsOwned
    /\ \A r \in Runs : LedgerFollows(r)
    /\ ClaimHeld

-----------------------------------------------------------------------------
(* Steps that keep the invariant, by what they touch *)

\* What a tick holds names agents and runs.
LEMMA TickFields ==
    ASSUME NamedTypes, NEW t \in Ticks
    PROVE  /\ tick[t] \in TickRecord
           /\ tick[t].claimed \subseteq Runs
           /\ \A s \in tick[t].stale : s.agent \in Agents /\ s.run \in Runs
           /\ tick[t].pc \in {"fail", "carry"} => tick[t].run \in Runs
BY DEF NamedTypes, NamedTicks, TickRecord, StaleRow

\* A step that leaves the rows, the runs, the run rows and the ticks alone keeps the invariant.
LEMMA QuietStep ==
    ASSUME IInv, NamedTypes', UNCHANGED <<current, run, ledger, tick>>
    PROVE  IInv'
BY DEF IInv, RowNamesItsRun, StaleIsOverstayed, AskedIsUnnamed, FailedHoldsNothing, CarriedIsClaimed,
      CreatedIsOwned, LedgerFollows, ClaimHeld

\* So does a step of one tick that takes nothing up but what it read as stale.
LEMMA TickOnlyStep ==
    ASSUME IInv, NamedTypes', UNCHANGED <<current, run>>, NEW t \in Ticks,
           \A u \in Ticks : u # t => tick'[u] = tick[u],
           \A s \in tick'[t].stale : s \in tick[t].stale \/ (run[s.run].overstayed /\ run[s.run].pc # "asked"),
           tick'[t].claimed \subseteq tick[t].claimed,
           tick'[t].run # None => tick'[t].run = tick[t].run,
           tick'[t].pc \in {"fail", "carry"} => tick'[t].pc = tick[t].pc /\ tick'[t].run = tick[t].run,
           \A q \in Runs : \/ ledger'[q] = ledger[q]
                           \/ ledger[q] = "running" /\ ledger'[q] = "failed" /\ \A a \in Agents : current[a] # q
    PROVE  IInv'
<1>1. RowNamesItsRun' BY DEF IInv, RowNamesItsRun
<1>2. StaleIsOverstayed' BY DEF IInv, StaleIsOverstayed
<1>3. AskedIsUnnamed' BY Constants DEF IInv, AskedIsUnnamed
<1>4. FailedHoldsNothing' BY DEF IInv, FailedHoldsNothing
<1>5. CarriedIsClaimed' BY DEF IInv, CarriedIsClaimed
<1>6. CreatedIsOwned' BY DEF IInv, CreatedIsOwned
<1>7. ASSUME NEW q \in Runs PROVE LedgerFollows(q)'
  <2>1. run[q].pc \in {"created", "dispatched"} => run[q].agent \in Agents
    BY DEF IInv, NamedTypes, NamedRuns, Carrying, WorkPhases
  <2> QED BY <2>1 DEF IInv, LedgerFollows, ClaimPhases
<1>8. ClaimHeld' BY DEF IInv, ClaimHeld
<1> QED BY <1>1, <1>2, <1>3, <1>4, <1>5, <1>6, <1>7, <1>8 DEF IInv

\* A step of one run that changes no row keeps the invariant, if a run that a row
\* names stays its holder and one that a tick carries or created stays the tick's.
LEMMA OwnStep ==
    ASSUME IInv, NamedTypes', UNCHANGED <<current, tick>>, NEW r \in Runs,
           \A q \in Runs : q # r => run'[q] = run[q] /\ ledger'[q] = ledger[q],
           \A a \in Agents : current[a] = r =>
               run'[r].pc \in Holding /\ run'[r].agent = a /\ (run[r].overstayed => run'[r].overstayed),
           run[r].pc = "created" => run'[r].pc = "created",
           run'[r].pc = "asked" => run[r].pc = "asked" \/ Unnamed(r),
           run[r].pc \in {"claimed", "mailed", "gated"} /\ run[r].mode = "scheduled" =>
               run'[r].pc \in {"claimed", "mailed", "gated"} /\ run'[r].mode = "scheduled",
           LedgerFollows(r)',
           run'[r].pc \in ClaimPhases \cup WorkPhases /\ ~run'[r].overstayed => current[run'[r].agent] = r
    PROVE  IInv'
<1>0. NamedTypes /\ \A t \in Ticks : tick[t].claimed \subseteq Runs
      /\ \A s \in tick[t].stale : s.agent \in Agents /\ s.run \in Runs
  BY DEF IInv, NamedTypes, NamedTicks, TickRecord, StaleRow
<1>1. RowNamesItsRun' BY <1>0 DEF IInv, RowNamesItsRun, NamedTypes
<1>2. StaleIsOverstayed' BY <1>0 DEF IInv, StaleIsOverstayed
<1>3. AskedIsUnnamed' BY DEF IInv, AskedIsUnnamed, Unnamed
<1>4. FailedHoldsNothing' BY DEF IInv, FailedHoldsNothing
<1>5. CarriedIsClaimed'
  <2>1. \A t \in Ticks : tick[t].pc = "carry" => tick[t].run \in Runs
    BY <1>0 DEF NamedTypes, NamedTicks
  <2> QED BY <2>1 DEF IInv, CarriedIsClaimed
<1>6. CreatedIsOwned' BY <1>0 DEF IInv, CreatedIsOwned
<1>7. ASSUME NEW q \in Runs PROVE LedgerFollows(q)'
  BY <1>7 DEF IInv, LedgerFollows
<1>8. ClaimHeld' BY DEF IInv, ClaimHeld
<1> QED BY <1>1, <1>2, <1>3, <1>4, <1>5, <1>6, <1>7, <1>8 DEF IInv

\* What a run that moves to another phase keeps.
LEMMA Moved ==
    ASSUME NamedTypes, NEW r \in Runs, NEW p \in RunPhases, MoveRun(r, p)
    PROVE  /\ \A q \in Runs : q # r => run'[q] = run[q]
           /\ run'[r].pc = p
           /\ run'[r].agent = run[r].agent
           /\ run'[r].mode = run[r].mode
           /\ run'[r].overstayed = run[r].overstayed
BY DEF NamedTypes, NamedRuns, RunRecord, MoveRun

\* What a run that ends keeps.
LEMMA EndedRun ==
    ASSUME NamedTypes, NEW r \in Runs, NEW p \in {"over", "lost", "dead"}, EndRun(r, p)
    PROVE  /\ \A q \in Runs : q # r => run'[q] = run[q]
           /\ run'[r].pc = p
           /\ p # "over" => run'[r].agent = run[r].agent
           /\ p # "over" => run'[r].overstayed = run[r].overstayed
BY DEF NamedTypes, NamedRuns, RunRecord, EndRun, Ended, NewRun

\* A run is named by no row but its own agent's.
LEMMA NamesOne ==
    ASSUME IInv, NEW r \in Runs, NEW a \in Agents, current[a] = r
    PROVE  run[r].pc \in Holding /\ run[r].agent = a
BY Constants DEF IInv, RowNamesItsRun

\* A run that goes from one phase of its work to another keeps the invariant ...
LEMMA WorkStep ==
    ASSUME IInv, NamedTypes', NEW r \in Runs, UNCHANGED <<current, tick>>,
           \A q \in Runs : q # r => run'[q] = run[q] /\ ledger'[q] = ledger[q],
           run[r].pc \in WorkPhases \ {"created"}, run'[r].pc \in WorkPhases \ {"created"},
           run'[r].agent = run[r].agent, run'[r].overstayed = run[r].overstayed,
           LedgerFollows(r)'
    PROVE  IInv'
<1>1. \A a \in Agents : current[a] = r => run[r].agent = a BY NamesOne
<1>2. ~run[r].overstayed => current[run[r].agent] = r BY DEF IInv, ClaimHeld
<1> QED BY <1>1, <1>2, OwnStep DEF Holding, WorkPhases

\* ... so does one that takes its mail or is gated within its claim ...
LEMMA SameClaim ==
    ASSUME IInv, NamedTypes', NEW r \in Runs, UNCHANGED <<current, tick, ledger>>,
           \A q \in Runs : q # r => run'[q] = run[q],
           run[r].pc \in ClaimPhases, run'[r].pc \in {"mailed", "gated"},
           run'[r].agent = run[r].agent, run'[r].mode = run[r].mode, run'[r].overstayed = run[r].overstayed
    PROVE  IInv'
<1>1. \A a \in Agents : current[a] = r => run[r].agent = a BY NamesOne
<1>2. ~run[r].overstayed => current[run[r].agent] = r BY DEF IInv, ClaimHeld
<1>3. LedgerFollows(r)' BY DEF IInv, LedgerFollows, ClaimPhases
<1> QED BY <1>1, <1>2, <1>3, OwnStep DEF Holding, ClaimPhases, WorkPhases

\* ... one that moves on, if it was not a tick's ...
LEMMA MoveStep ==
    ASSUME IInv, NamedTypes', NEW r \in Runs, NEW p \in RunPhases, MoveRun(r, p), UNCHANGED <<current, tick>>,
           \A q \in Runs : q # r => ledger'[q] = ledger[q],
           run[r].pc \in Holding => p \in Holding,
           p \in ClaimPhases \cup WorkPhases => run[r].pc \in ClaimPhases \cup WorkPhases,
           run[r].pc # "created" /\ p # "asked",
           run[r].pc \in {"claimed", "mailed", "gated"} => run[r].mode # "scheduled",
           LedgerFollows(r)'
    PROVE  IInv'
<1>1. /\ run'[r].pc = p /\ run'[r].agent = run[r].agent /\ run'[r].mode = run[r].mode
      /\ run'[r].overstayed = run[r].overstayed /\ \A q \in Runs : q # r => run'[q] = run[q]
  BY Moved DEF IInv
<1>2. \A a \in Agents : current[a] = r => run[r].pc \in Holding /\ run[r].agent = a BY NamesOne
<1>3. run[r].pc \in ClaimPhases \cup WorkPhases /\ ~run[r].overstayed => current[run[r].agent] = r
  BY DEF IInv, ClaimHeld
<1> QED BY <1>1, <1>2, <1>3, OwnStep

\* ... and one that ends, if its row is another's by then or its request was lost.
LEMMA EndStep ==
    ASSUME IInv, NamedTypes', NEW r \in Runs, NEW p \in {"over", "lost", "dead"}, EndRun(r, p),
           UNCHANGED <<current, tick, ledger>>,
           p = "over" => \A a \in Agents : current[a] # r,
           run[r].pc # "created",
           run[r].pc \in {"claimed", "mailed", "gated"} => run[r].mode # "scheduled"
    PROVE  IInv'
<1>1. /\ run'[r].pc = p /\ \A q \in Runs : q # r => run'[q] = run[q]
      /\ p # "over" => run'[r].agent = run[r].agent /\ run'[r].overstayed = run[r].overstayed
  BY EndedRun DEF IInv
<1>2. \A a \in Agents : current[a] = r => run[r].agent = a BY NamesOne
<1>3. LedgerFollows(r)' BY <1>1 DEF LedgerFollows, ClaimPhases
<1> QED BY <1>1, <1>2, <1>3, OwnStep DEF Holding, ClaimPhases, WorkPhases

\* A claim of an idle row keeps the invariant: nobody has named the run before.
LEMMA ClaimStep ==
    ASSUME IInv, NamedTypes', NEW a \in Agents, NEW r \in Runs,
           current[a] = None, current' = [current EXCEPT ![a] = r],
           \A b \in Agents : current[b] # r,
           \A t \in Ticks : tick[t].run # r /\ r \notin tick[t].claimed /\ \A s \in tick[t].stale : s.run # r,
           run'[r].pc = "claimed", run'[r].agent = a,
           \A q \in Runs : q # r => /\ run'[q].pc = run[q].pc /\ run'[q].agent = run[q].agent
                                    /\ run'[q].mode = run[q].mode /\ run'[q].overstayed = run[q].overstayed
                                    /\ ledger'[q] = ledger[q],
           ledger'[r] = "none",
           \A t \in Ticks : tick'[t].stale = tick[t].stale /\ tick'[t].claimed = tick[t].claimed,
           \/ tick' = tick
           \/ \E t \in Ticks : /\ tick'[t].pc = "carry" /\ tick'[t].run = r /\ run'[r].mode = "scheduled"
                               /\ \A u \in Ticks : u # t => tick'[u] = tick[u]
    PROVE  IInv'
<1>0. NamedTypes /\ \A t \in Ticks : /\ tick[t].claimed \subseteq Runs
                                     /\ \A s \in tick[t].stale : s.agent \in Agents /\ s.run \in Runs
                                     /\ tick[t].pc \in {"fail", "carry"} => tick[t].run \in Runs
  BY DEF IInv, NamedTypes, NamedTicks, TickRecord, StaleRow
<1>9. \A b \in Agents : current'[b] = IF b = a THEN r ELSE current[b]
  BY <1>0 DEF NamedTypes
<1>1. RowNamesItsRun' BY <1>0, <1>9, Constants DEF IInv, RowNamesItsRun, Holding, ClaimPhases, NamedTypes
<1>2. StaleIsOverstayed' BY <1>0, <1>9 DEF IInv, StaleIsOverstayed
<1>3. AskedIsUnnamed' BY <1>0 DEF IInv, AskedIsUnnamed
<1>4. FailedHoldsNothing' BY <1>0, <1>9 DEF IInv, FailedHoldsNothing
<1>5. CarriedIsClaimed' BY <1>0 DEF IInv, CarriedIsClaimed
<1>6. CreatedIsOwned' BY <1>0 DEF IInv, CreatedIsOwned
<1>7. ASSUME NEW q \in Runs PROVE LedgerFollows(q)'
  <2>1. CASE q = r BY <2>1 DEF LedgerFollows
  <2>2. CASE q # r
    <3>1. run[q].pc \in {"created", "dispatched"} => run[q].agent \in Agents
      BY <1>0 DEF NamedTypes, NamedRuns, Carrying, WorkPhases
    <3> QED BY <2>2, <1>9, <3>1 DEF IInv, LedgerFollows
  <2> QED BY <2>1, <2>2
<1>8. ClaimHeld'
  <2>1. \A q \in Runs : run[q].pc \in ClaimPhases \cup WorkPhases => run[q].agent \in Agents
    BY <1>0 DEF NamedTypes, NamedRuns, Carrying
  <2> QED BY <1>9, <2>1, Constants DEF IInv, ClaimHeld
<1> QED BY <1>0, <1>1, <1>2, <1>3, <1>4, <1>5, <1>6, <1>7, <1>8 DEF IInv

-----------------------------------------------------------------------------

\* Every step keeps the invariant, one action of Next at a time.
LEMMA IInvStep ==
    ASSUME IInv, NamedTypes', [Next]_vars
    PROVE  IInv'
<1>1. ASSUME NEW s \in Senders, NEW a \in Agents, NEW k \in Keys, CountPending(s, a, k)
     PROVE  IInv'
  BY <1>1, QuietStep DEF CountPending, row
<1>2. ASSUME NEW s \in Senders, InsertEvent(s)
     PROVE  IInv'
  BY <1>2, QuietStep DEF InsertEvent, row
<1>3. ASSUME NEW s \in Senders, PullForInsert(s)
     PROVE  IInv'
  BY <1>3, QuietStep DEF PullForInsert, row
<1>4. ASSUME NEW t \in Ticks, TickStart(t)
     PROVE  IInv'
  <2>1. ASSUME NEW b \in Agents, ~Idle(b) PROVE current[b] \in Runs /\ run[current[b]].pc # "asked"
    <3>1. current[b] \in Runs BY <2>1 DEF IInv, NamedTypes, Idle
    <3>2. run[current[b]].pc \in Holding BY <3>1, NamesOne
    <3> QED BY <3>1, <3>2 DEF Holding, ClaimPhases, WorkPhases
  <2>2. \A s \in tick'[t].stale : run[s.run].overstayed /\ run[s.run].pc # "asked"
    BY <1>4, <2>1 DEF TickStart, IInv, NamedTypes, IdleTick
  <2>3. tick'[t].pc = "reclaim" /\ tick'[t].claimed = {} /\ tick'[t].run = None
        /\ \A u \in Ticks : u # t => tick'[u] = tick[u]
    BY <1>4 DEF TickStart, IInv, NamedTypes, IdleTick
  <2> QED BY <1>4, <2>2, <2>3, TickOnlyStep DEF TickStart, row
<1>5. ASSUME NEW t \in Ticks, NEW s \in tick[t].stale, ReclaimRow(t, s)
     PROVE  IInv'
  <2>1. CASE ~StillStale(s)
    <3>1. /\ \A u \in Ticks : u # t => tick'[u] = tick[u]
          /\ tick'[t].stale \subseteq tick[t].stale /\ tick'[t].claimed = tick[t].claimed
          /\ tick'[t].run = tick[t].run /\ tick'[t].pc = tick[t].pc
      BY <1>5, <2>1, TickFields DEF IInv, NamedTypes, TickRecord, ReclaimRow
    <3> QED BY <1>5, <2>1, <3>1, TickOnlyStep DEF ReclaimRow, row
  <2>2. CASE StillStale(s)
    <3>0. NamedTypes BY DEF IInv
    <3>1. s.agent \in Agents /\ s.run \in Runs /\ current[s.agent] = s.run /\ run[s.run].overstayed
      BY <2>2, <3>0, TickFields DEF IInv, StaleIsOverstayed, StillStale
    <3>2. run[s.run].pc \in Holding /\ run[s.run].agent = s.agent
      BY <3>1, NamesOne
    <3>3. /\ run' = run /\ ledger' = ledger
          /\ \A b \in Agents : current'[b] = IF b = s.agent THEN None ELSE current[b]
          /\ \A u \in Ticks : u # t => tick'[u] = tick[u]
          /\ tick'[t].pc = "fail" /\ tick'[t].run = s.run
          /\ tick'[t].stale \subseteq tick[t].stale /\ tick'[t].claimed = tick[t].claimed
      BY <1>5, <2>2, <3>0, TickFields DEF NamedTypes, TickRecord, ReclaimRow
    <3>4. RowNamesItsRun' BY <3>3 DEF IInv, RowNamesItsRun
    <3>5. StaleIsOverstayed' BY <3>0, <3>3, TickFields, Constants DEF IInv, StaleIsOverstayed
    <3>6. AskedIsUnnamed' BY <3>2, <3>3 DEF IInv, AskedIsUnnamed, Holding, ClaimPhases, WorkPhases
    <3>7. FailedHoldsNothing'
      <4>1. \A b \in Agents : current'[b] # s.run BY <3>1, <3>2, <3>3, NamesOne, Constants
      <4>2. \A u \in Ticks : u # t /\ tick[u].pc = "fail" => tick[u].run \in Runs BY <3>0, TickFields
      <4> QED BY <3>3, <4>1, <4>2, Constants DEF IInv, FailedHoldsNothing
    <3>8. CarriedIsClaimed' BY <3>3 DEF IInv, CarriedIsClaimed
    <3>9. CreatedIsOwned' BY <3>3 DEF IInv, CreatedIsOwned
    <3>10. ASSUME NEW q \in Runs PROVE LedgerFollows(q)'
      <4>1. run[q].pc \in {"created", "dispatched"} => run[q].agent \in Agents
        BY <3>0 DEF NamedTypes, NamedRuns, Carrying, WorkPhases
      <4> QED BY <3>3, <4>1, Constants DEF IInv, LedgerFollows
    <3>11. ClaimHeld'
      <4>1. \A q \in Runs : run[q].pc \in ClaimPhases \cup WorkPhases => run[q].agent \in Agents
        BY <3>0 DEF NamedTypes, NamedRuns, Carrying
      <4> QED BY <3>1, <3>3, <4>1 DEF IInv, ClaimHeld
    <3> QED BY <3>4, <3>5, <3>6, <3>7, <3>8, <3>9, <3>10, <3>11 DEF IInv
  <2> QED BY <2>1, <2>2
<1>6. ASSUME NEW t \in Ticks, FailStaleRun(t)
     PROVE  IInv'
  <2>1. /\ \A u \in Ticks : u # t => tick'[u] = tick[u]
        /\ tick'[t].stale = tick[t].stale /\ tick'[t].claimed = tick[t].claimed /\ tick'[t].run = None
        /\ tick'[t].pc \notin {"fail", "carry"}
    BY <1>6, TickFields DEF IInv, NamedTypes, TickRecord, FailStaleRun
  <2>2. \A q \in Runs : \/ ledger'[q] = ledger[q]
                        \/ ledger[q] = "running" /\ ledger'[q] = "failed" /\ \A a \in Agents : current[a] # q
    BY <1>6 DEF IInv, NamedTypes, FailedHoldsNothing, FailStaleRun, FailedIfRunning
  <2> QED BY <1>6, <2>1, <2>2, TickOnlyStep DEF FailStaleRun, row
<1>7. ASSUME NEW t \in Ticks, TickSwitchOff(t)
     PROVE  IInv'
  <2>0. NamedTypes /\ tick[t] \in TickRecord BY TickFields DEF IInv
  <2>1. /\ \A u \in Ticks : u # t => tick'[u] = tick[u]
        /\ tick'[t].stale = tick[t].stale /\ tick'[t].claimed = tick[t].claimed
        /\ tick'[t].run = tick[t].run /\ tick'[t].pc \notin {"fail", "carry"}
    BY <1>7, <2>0 DEF NamedTypes, TickRecord, TickSwitchOff, MoveTick
  <2> QED BY <1>7, <2>1, TickOnlyStep DEF TickSwitchOff, row
<1>8. ASSUME NEW t \in Ticks, SelectDue(t)
     PROVE  IInv'
  <2>1. /\ \A u \in Ticks : u # t => tick'[u] = tick[u]
        /\ \A s1 \in tick'[t].stale : s1 \in tick[t].stale \/ (run[s1.run].overstayed /\ run[s1.run].pc # "asked")
        /\ tick'[t].claimed \subseteq tick[t].claimed
        /\ tick'[t].run # None => tick'[t].run = tick[t].run
        /\ tick'[t].pc \in {"fail", "carry"} => tick'[t].pc = tick[t].pc /\ tick'[t].run = tick[t].run
    BY <1>8, TickFields DEF IInv, NamedTypes, TickRecord, SelectDue
  <2> QED BY <1>8, <2>1, TickOnlyStep DEF SelectDue, row
<1>9. ASSUME NEW t \in Ticks, ReadBusySpaces(t)
     PROVE  IInv'
  <2>1. /\ \A u \in Ticks : u # t => tick'[u] = tick[u]
        /\ \A s1 \in tick'[t].stale : s1 \in tick[t].stale \/ (run[s1.run].overstayed /\ run[s1.run].pc # "asked")
        /\ tick'[t].claimed \subseteq tick[t].claimed
        /\ tick'[t].run # None => tick'[t].run = tick[t].run
        /\ tick'[t].pc \in {"fail", "carry"} => tick'[t].pc = tick[t].pc /\ tick'[t].run = tick[t].run
    BY <1>9, TickFields DEF IInv, NamedTypes, TickRecord, ReadBusySpaces
  <2> QED BY <1>9, <2>1, TickOnlyStep DEF ReadBusySpaces, row
<1>10. ASSUME NEW t \in Ticks, NEW d \in tick[t].due, PassRow(t, d)
     PROVE  IInv'
  <2>1. /\ \A u \in Ticks : u # t => tick'[u] = tick[u]
        /\ \A s1 \in tick'[t].stale : s1 \in tick[t].stale \/ (run[s1.run].overstayed /\ run[s1.run].pc # "asked")
        /\ tick'[t].claimed \subseteq tick[t].claimed
        /\ tick'[t].run # None => tick'[t].run = tick[t].run
        /\ tick'[t].pc \in {"fail", "carry"} => tick'[t].pc = tick[t].pc /\ tick'[t].run = tick[t].run
    BY <1>10, TickFields DEF IInv, NamedTypes, TickRecord, PassRow, Visiting
  <2> QED BY <1>10, <2>1, TickOnlyStep DEF PassRow, row
<1>11. ASSUME NEW t \in Ticks, NEW d \in tick[t].due, NEW r \in Runs, ScheduledClaim(t, d, r)
     PROVE  IInv'
  <2>0. NamedTypes /\ tick[t] \in TickRecord BY TickFields DEF IInv
  <2>1. d.agent \in Agents BY <2>0 DEF TickRecord
  <2>2. /\ current[d.agent] = None
        /\ current' = [current EXCEPT ![d.agent] = r]
        /\ run' = [run EXCEPT ![r] = NewRun(d.agent, "scheduled", "claimed")]
        /\ ledger' = [ledger EXCEPT ![r] = "none"]
    BY <1>11 DEF ScheduledClaim, ClaimRow, Idle
  <2>3. run'[r].pc = "claimed" /\ run'[r].agent = d.agent /\ run'[r].mode = "scheduled" /\ ledger'[r] = "none"
        /\ \A q \in Runs : q # r => run'[q] = run[q] /\ ledger'[q] = ledger[q]
    BY <2>0, <2>2 DEF NamedTypes, NewRun
  <2>4. /\ tick'[t].pc = "carry" /\ tick'[t].run = r /\ \A u \in Ticks : u # t => tick'[u] = tick[u]
        /\ tick'[t].stale = tick[t].stale /\ tick'[t].claimed = tick[t].claimed
    BY <1>11, <2>0 DEF ScheduledClaim, NamedTypes, TickRecord
  <2>5. /\ \A b \in Agents : current[b] # r
        /\ \A u \in Ticks : tick[u].run # r /\ r \notin tick[u].claimed /\ \A s \in tick[u].stale : s.run # r
    BY <1>11 DEF ScheduledClaim, Unnamed
  <2>6. \E u \in Ticks : /\ tick'[u].pc = "carry" /\ tick'[u].run = r /\ run'[r].mode = "scheduled"
                         /\ \A v \in Ticks : v # u => tick'[v] = tick[v]
    BY <2>3, <2>4
  <2>7. \A u \in Ticks : tick'[u].stale = tick[u].stale /\ tick'[u].claimed = tick[u].claimed
    BY <2>4
  <2> HIDE DEF NamedTypes
  <2> QED BY <2>1, <2>2, <2>3, <2>5, <2>6, <2>7, ClaimStep
<1>12. ASSUME NEW t \in Ticks, HandBack(t)
     PROVE  IInv'
  <2> DEFINE r == tick[t].run
             a == run[r].agent
  <2>0. NamedTypes BY DEF IInv
  <2>1. r \in Runs /\ run[r].pc = "gated" /\ tick[t].pc = "carry"
    BY <1>12, <2>0, TickFields DEF HandBack
  <2>2. a \in Agents BY <2>0, <2>1 DEF NamedTypes, NamedRuns, Carrying, ClaimPhases
  <2>3. \A b \in Agents : current[b] = r => b = a BY <2>1, NamesOne
  <2>4. \A b \in Agents : current'[b] = IF b = a /\ current[a] = r THEN None ELSE current[b]
    BY <1>12, <2>0 DEF HandBack, NamedTypes, Holds
  <2>5. EndRun(r, "over") /\ ledger' = ledger BY <1>12 DEF HandBack
  <2>6. run'[r].pc = "over" /\ \A q \in Runs : q # r => run'[q] = run[q]
    BY <2>0, <2>1, <2>5, EndedRun
  <2>7. /\ \A u \in Ticks : u # t => tick'[u] = tick[u]
        /\ tick'[t].pc = "visit" /\ tick'[t].run = None
        /\ tick'[t].stale = tick[t].stale /\ tick'[t].claimed = tick[t].claimed
    BY <1>12, <2>0, TickFields DEF HandBack, NamedTypes, TickRecord
  <2> HIDE DEF a, r
  <2>8. \A b \in Agents : current'[b] # None => current'[b] = current[b] /\ current'[b] # r
    BY <2>3, <2>4
  <2>9. RowNamesItsRun' BY <2>0, <2>6, <2>8, Constants DEF IInv, RowNamesItsRun, NamedTypes
  <2>10. StaleIsOverstayed'
    <3>1. \A u \in Ticks : tick'[u].stale = tick[u].stale BY <2>7
    <3> QED BY <2>0, <3>1, <2>6, <2>8, TickFields, Constants DEF IInv, StaleIsOverstayed
  <2>11. AskedIsUnnamed' BY <2>6, <2>7, Constants DEF IInv, AskedIsUnnamed
  <2>12. FailedHoldsNothing' BY <2>0, <2>7, <2>8, TickFields, Constants DEF IInv, FailedHoldsNothing
  <2>13. CarriedIsClaimed' BY <2>0, <2>1, <2>6, <2>7, TickFields DEF IInv, CarriedIsClaimed, r
  <2>14. CreatedIsOwned' BY <2>0, <2>1, <2>6, <2>7, TickFields DEF IInv, CreatedIsOwned
  <2>15. ASSUME NEW q \in Runs PROVE LedgerFollows(q)'
    <3>1. run[q].pc \in {"created", "dispatched"} => run[q].agent \in Agents
      BY <2>0 DEF NamedTypes, NamedRuns, Carrying, WorkPhases
    <3>2. q = r => LedgerFollows(q)' BY <2>6 DEF LedgerFollows, ClaimPhases
    <3> QED BY <2>5, <2>6, <2>8, <3>1, <3>2, Constants DEF IInv, LedgerFollows
  <2>16. ClaimHeld'
    <3>1. \A q \in Runs : run[q].pc \in ClaimPhases \cup WorkPhases => run[q].agent \in Agents
      BY <2>0 DEF NamedTypes, NamedRuns, Carrying
    <3> QED BY <2>4, <2>6, <3>1 DEF IInv, ClaimHeld, ClaimPhases, WorkPhases
  <2> QED BY <2>9, <2>10, <2>11, <2>12, <2>13, <2>14, <2>15, <2>16 DEF IInv
<1>13. ASSUME NEW t \in Ticks, CreateScheduledRun(t)
     PROVE  IInv'
  <2> DEFINE r == tick[t].run
  <2>0. NamedTypes BY DEF IInv
  <2>1. r \in Runs /\ run[r].pc = "gated" /\ tick[t].pc = "carry"
    BY <1>13, <2>0, TickFields DEF CreateScheduledRun
  <2>2. /\ run'[r].pc = "created" /\ run'[r].agent = run[r].agent /\ run'[r].overstayed = run[r].overstayed
        /\ \A q \in Runs : q # r => run'[q] = run[q]
    BY <1>13, <2>0, <2>1 DEF CreateScheduledRun, NamedTypes, NamedRuns, RunRecord
  <2>3. ledger'[r] = "running" /\ (\A q \in Runs : q # r => ledger'[q] = ledger[q]) /\ current' = current
    BY <1>13, <2>0, <2>1 DEF CreateScheduledRun, NamedTypes, row
  <2>4. /\ \A u \in Ticks : u # t => tick'[u] = tick[u]
        /\ tick'[t].pc = "visit" /\ tick'[t].run = None
        /\ tick'[t].stale = tick[t].stale /\ tick'[t].claimed = tick[t].claimed \cup {r}
    BY <1>13, <2>0, TickFields DEF CreateScheduledRun, NamedTypes, TickRecord
  <2>5. \A u \in Ticks : tick'[u].stale = tick[u].stale BY <2>4
  <2>6. run[r].mode = "scheduled" /\ \A u \in Ticks : u # t /\ tick[u].pc = "carry" => tick[u].run # r
    BY <2>1 DEF IInv, CarriedIsClaimed
  <2> HIDE DEF r
  <2>7. RowNamesItsRun' BY <2>0, <2>2, <2>3 DEF IInv, RowNamesItsRun, NamedTypes, Holding, WorkPhases
  <2>8. StaleIsOverstayed' BY <2>0, <2>2, <2>3, <2>5, TickFields DEF IInv, StaleIsOverstayed
  <2>9. AskedIsUnnamed' BY <2>2, <2>4, <2>5, Constants DEF IInv, AskedIsUnnamed
  <2>10. FailedHoldsNothing' BY <2>3, <2>4 DEF IInv, FailedHoldsNothing
  <2>11. CarriedIsClaimed' BY <2>0, <2>2, <2>4, <2>6, TickFields DEF IInv, CarriedIsClaimed
  <2>12. CreatedIsOwned' BY <2>0, <2>1, <2>2, <2>4, TickFields DEF IInv, CreatedIsOwned
  <2>13. ASSUME NEW q \in Runs PROVE LedgerFollows(q)'
    <3>1. q = r => LedgerFollows(q)' BY <2>2, <2>3 DEF LedgerFollows, ClaimPhases
    <3> QED BY <2>2, <2>3, <3>1 DEF IInv, LedgerFollows
  <2>14. ClaimHeld' BY <2>1, <2>2, <2>3 DEF IInv, ClaimHeld, ClaimPhases
  <2> QED BY <2>7, <2>8, <2>9, <2>10, <2>11, <2>12, <2>13, <2>14 DEF IInv
<1>14. ASSUME NEW t \in Ticks, Dispatch(t)
     PROVE  IInv'
  <2>0. NamedTypes BY DEF IInv
  <2>1. /\ \A r \in tick[t].claimed : r \in Runs /\ run[r].pc = "created"
        /\ \A u \in Ticks : u # t => tick[t].claimed \cap tick[u].claimed = {}
    BY <2>0, TickFields DEF IInv, CreatedIsOwned
  <2>2. /\ \A r \in tick[t].claimed : /\ run'[r].pc = "dispatched" /\ run'[r].agent = run[r].agent
                                      /\ run'[r].overstayed = run[r].overstayed
        /\ \A r \in Runs : r \notin tick[t].claimed => run'[r] = run[r]
    BY <1>14, <2>0, <2>1 DEF Dispatch, NamedTypes, NamedRuns, RunRecord
  <2>3. tick'[t] = IdleTick /\ \A u \in Ticks : u # t => tick'[u] = tick[u]
    BY <1>14, <2>0 DEF Dispatch, NamedTypes
  <2>4. tick'[t].pc = "idle" /\ tick'[t].run = None /\ tick'[t].claimed = {} /\ tick'[t].stale = {}
    BY <2>3 DEF IdleTick
  <2>5. UNCHANGED <<current, ledger>> BY <1>14 DEF Dispatch, row
  <2>6. RowNamesItsRun' BY <2>0, <2>1, <2>2, <2>5 DEF IInv, RowNamesItsRun, NamedTypes, Holding, WorkPhases
  <2>7. StaleIsOverstayed' BY <2>0, <2>2, <2>3, <2>4, <2>5, TickFields DEF IInv, StaleIsOverstayed
  <2>8. AskedIsUnnamed' BY <2>2, <2>3, <2>4, Constants DEF IInv, AskedIsUnnamed
  <2>9. FailedHoldsNothing' BY <2>3, <2>4, <2>5 DEF IInv, FailedHoldsNothing
  <2>10. CarriedIsClaimed'
    <3>1. \A u \in Ticks : tick[u].pc = "carry" => tick[u].run \in Runs /\ tick[u].run \notin tick[t].claimed
      BY <2>0, <2>1, TickFields DEF IInv, CarriedIsClaimed
    <3> QED BY <2>2, <2>3, <2>4, <3>1 DEF IInv, CarriedIsClaimed
  <2>11. CreatedIsOwned' BY <2>0, <2>1, <2>2, <2>3, <2>4, TickFields DEF IInv, CreatedIsOwned
  <2>12. ASSUME NEW q \in Runs PROVE LedgerFollows(q)'
    BY <2>1, <2>2, <2>5 DEF IInv, LedgerFollows, ClaimPhases
  <2>13. ClaimHeld'
    BY <2>1, <2>2, <2>5 DEF IInv, ClaimHeld, WorkPhases
  <2> QED BY <2>6, <2>7, <2>8, <2>9, <2>10, <2>11, <2>12, <2>13 DEF IInv
<1>15. ASSUME NEW t \in Ticks, TickDies(t)
     PROVE  IInv'
  <2> DEFINE lost == {r \in Runs : r \in tick[t].claimed \/ (tick[t].pc = "carry" /\ r = tick[t].run)}
  <2>0. NamedTypes BY DEF IInv
  <2>1. \A r \in lost : /\ run[r].pc \in {"created", "claimed", "mailed", "gated"}
                        /\ \A u \in Ticks : u # t => r \notin tick[u].claimed
                              /\ (tick[u].pc = "carry" => tick[u].run # r)
    BY DEF IInv, CreatedIsOwned, CarriedIsClaimed
  <2>2. /\ \A r \in lost : /\ run'[r].pc = "dead" /\ run'[r].agent = run[r].agent
                           /\ run'[r].overstayed = run[r].overstayed
        /\ \A r \in Runs : r \notin lost => run'[r] = run[r]
    <3>1. ASSUME NEW r \in Runs
          PROVE  LET x == [Ended(run[r], "dead") EXCEPT !.others = 0] IN
                 x.pc = "dead" /\ x.agent = run[r].agent /\ x.overstayed = run[r].overstayed
      BY <2>0 DEF NamedTypes, NamedRuns, RunRecord, Ended, NewRun
    <3> QED BY <1>15, <3>1, <2>0 DEF TickDies, NamedTypes
  <2>3. tick'[t] = IdleTick /\ \A u \in Ticks : u # t => tick'[u] = tick[u]
    BY <1>15, <2>0 DEF TickDies, NamedTypes
  <2>4. tick'[t].pc = "idle" /\ tick'[t].run = None /\ tick'[t].claimed = {} /\ tick'[t].stale = {}
    BY <2>3 DEF IdleTick
  <2>5. UNCHANGED <<current, ledger>> BY <1>15 DEF TickDies, row
  <2> HIDE DEF lost
  <2>6. RowNamesItsRun' BY <2>0, <2>2, <2>5 DEF IInv, RowNamesItsRun, NamedTypes, Holding
  <2>7. StaleIsOverstayed' BY <2>0, <2>2, <2>3, <2>4, <2>5, TickFields DEF IInv, StaleIsOverstayed
  <2>8. AskedIsUnnamed' BY <2>2, <2>3, <2>4, Constants DEF IInv, AskedIsUnnamed
  <2>9. FailedHoldsNothing' BY <2>3, <2>4, <2>5 DEF IInv, FailedHoldsNothing
  <2>10. CarriedIsClaimed' BY <2>0, <2>1, <2>2, <2>3, <2>4, TickFields DEF IInv, CarriedIsClaimed
  <2>11. CreatedIsOwned' BY <2>0, <2>1, <2>2, <2>3, <2>4, TickFields DEF IInv, CreatedIsOwned
  <2>12. ASSUME NEW q \in Runs PROVE LedgerFollows(q)'
    BY <2>2, <2>5 DEF IInv, LedgerFollows, ClaimPhases
  <2>13. ClaimHeld'
    BY <2>2, <2>5 DEF IInv, ClaimHeld, ClaimPhases, WorkPhases
  <2> QED BY <2>6, <2>7, <2>8, <2>9, <2>10, <2>11, <2>12, <2>13 DEF IInv
<1>16. ASSUME NEW r \in Runs, ClaimEvents(r)
     PROVE  IInv'
  <2>1. /\ run[r].pc = "claimed" /\ UNCHANGED <<current, ledger, tick>>
        /\ run'[r].pc = "mailed" /\ run'[r].agent = run[r].agent /\ run'[r].mode = run[r].mode
        /\ run'[r].overstayed = run[r].overstayed /\ \A q \in Runs : q # r => run'[q] = run[q]
    BY <1>16 DEF IInv, NamedTypes, NamedRuns, RunRecord, ClaimEvents, row
  <2> QED BY <2>1, SameClaim DEF ClaimPhases
<1>17. ASSUME NEW r \in Runs, GateWake(r)
     PROVE  IInv'
  <2>1. /\ run[r].pc = "mailed" /\ UNCHANGED <<current, ledger, tick>>
        /\ run'[r].pc = "gated" /\ run'[r].agent = run[r].agent /\ run'[r].mode = run[r].mode
        /\ run'[r].overstayed = run[r].overstayed /\ \A q \in Runs : q # r => run'[q] = run[q]
    BY <1>17 DEF IInv, NamedTypes, NamedRuns, RunRecord, GateWake, row
  <2> QED BY <2>1, SameClaim DEF ClaimPhases
<1>18. ASSUME NEW p \in Runs, NEW r \in Runs, FanOut(p, r)
     PROVE  IInv'
  <2>0. NamedTypes BY DEF IInv
  <2>1. CASE FiresOn(run[p].agent)
    <3>1. run[p].agent \in Agents
      BY <1>18, <2>0 DEF FanOut, NamedTypes, NamedRuns
    <3>2. /\ current[run[p].agent] = None
          /\ current' = [current EXCEPT ![run[p].agent] = r]
          /\ run' = [run EXCEPT ![p].others = 0,
                                ![r] = [NewRun(run[p].agent, "fanout", "claimed")
                                          EXCEPT !.others = run[p].others - 1]]
          /\ ledger' = [ledger EXCEPT ![r] = "none"]
          /\ tick' = tick
          /\ Unnamed(r)
      BY <1>18, <2>1 DEF FanOut, ClaimRow, FiresOn, Idle
    <3>3. run'[r].pc = "claimed" /\ run'[r].agent = run[p].agent /\ ledger'[r] = "none"
      BY <2>0, <3>2 DEF NamedTypes, NewRun
    <3>4. \A q \in Runs : q # r => /\ run'[q].pc = run[q].pc /\ run'[q].agent = run[q].agent
                                   /\ run'[q].mode = run[q].mode /\ run'[q].overstayed = run[q].overstayed
                                   /\ ledger'[q] = ledger[q]
      BY <2>0, <3>2 DEF NamedTypes, NamedRuns, RunRecord
    <3>5. /\ \A b \in Agents : current[b] # r
          /\ \A u \in Ticks : tick[u].run # r /\ r \notin tick[u].claimed /\ \A s \in tick[u].stale : s.run # r
      BY <3>2 DEF Unnamed
    <3>6. /\ current[run[p].agent] = None /\ current' = [current EXCEPT ![run[p].agent] = r]
          /\ tick' = tick
      BY <3>2
    <3>7. \A u \in Ticks : tick'[u].stale = tick[u].stale /\ tick'[u].claimed = tick[u].claimed
      BY <3>6
    <3> QED BY <3>1, <3>3, <3>4, <3>5, <3>6, <3>7, ClaimStep
  <2>2. CASE ~FiresOn(run[p].agent)
    <3>1. /\ run' = [run EXCEPT ![p].others = 0]
          /\ UNCHANGED <<current, ledger, tick>>
          /\ run[p].pc \in {"over", "lost", "dead"}
      BY <1>18, <2>2 DEF FanOut
    <3>2. /\ run'[p].pc = run[p].pc /\ run'[p].agent = run[p].agent
          /\ run'[p].mode = run[p].mode /\ run'[p].overstayed = run[p].overstayed
          /\ \A q \in Runs : q # p => run'[q] = run[q]
      BY <2>0, <3>1 DEF NamedTypes, NamedRuns, RunRecord
    <3>3. LedgerFollows(p)' BY <3>1, <3>2 DEF LedgerFollows, ClaimPhases
    <3>4. \A b \in Agents : current[b] = p => run[p].pc \in Holding /\ run[p].agent = b BY NamesOne
    <3> QED BY <3>1, <3>2, <3>3, <3>4, OwnStep DEF ClaimPhases, WorkPhases
  <2> QED BY <2>1, <2>2
<1>19. ASSUME NEW r \in Runs, CreateFanOutRun(r)
     PROVE  IInv'
  <2>1. MoveRun(r, "dispatched") /\ UNCHANGED <<current, tick>>
    BY <1>19 DEF CreateFanOutRun, row
  <2>2. LedgerFollows(r)'
    BY <1>19, Moved DEF IInv, NamedTypes, LedgerFollows, CreateFanOutRun, RunPhases, ClaimPhases, WorkPhases,
          AfterPhases
  <2> QED BY <1>19, <2>1, <2>2, MoveStep DEF IInv, NamedTypes, CreateFanOutRun, Holding, RunPhases,
        ClaimPhases, WorkPhases, AfterPhases
<1>20. ASSUME NEW r \in Runs, NEW a \in Agents, NEW door \in Doors, AskManualRun(r, a, door)
     PROVE  IInv'
  <2>1. /\ run[r].pc \in {"free", "over", "lost", "dead"} /\ Unnamed(r) /\ \A b \in Agents : current[b] # r
        /\ UNCHANGED <<current, tick>>
    BY <1>20 DEF AskManualRun, Unnamed, row
  <2>2. /\ run'[r].pc = "asked" /\ ledger'[r] = "none"
        /\ \A q \in Runs : q # r => run'[q] = run[q] /\ ledger'[q] = ledger[q]
    BY <1>20 DEF IInv, NamedTypes, NewRun, AskManualRun
  <2>3. LedgerFollows(r)' BY <2>2 DEF LedgerFollows
  <2> QED BY <2>1, <2>2, <2>3, OwnStep DEF ClaimPhases, WorkPhases
<1>21. ASSUME NEW r \in Runs, ManualClaim(r)
     PROVE  IInv'
  <2>0. NamedTypes BY DEF IInv
  <2>1. CASE Claimable(r)
    <3>1. run[r].agent \in Agents /\ \A b \in Agents : current[b] # r
      BY <1>21, <2>0, NamesOne DEF ManualClaim, NamedTypes, NamedRuns, Carrying, Holding, ClaimPhases, WorkPhases
    <3>2. current[run[r].agent] = None /\ current' = [current EXCEPT ![run[r].agent] = r] /\ MoveRun(r, "claimed")
      BY <1>21, <2>1 DEF ManualClaim, ClaimRow, Claimable, Idle
    <3>3. "claimed" \in RunPhases BY DEF RunPhases, ClaimPhases
    <3>4. /\ run'[r].pc = "claimed" /\ run'[r].agent = run[r].agent
          /\ \A q \in Runs : q # r => run'[q] = run[q]
      BY <2>0, <3>2, <3>3, Moved
    <3>5. ledger[r] = "none" /\ ledger' = ledger /\ tick' = tick
      BY <1>21 DEF IInv, LedgerFollows, ManualClaim
    <3>6. \A u \in Ticks : tick[u].run # r /\ r \notin tick[u].claimed /\ \A s \in tick[u].stale : s.run # r
      BY <1>21 DEF IInv, AskedIsUnnamed, ManualClaim
    <3> QED BY <3>1, <3>2, <3>4, <3>5, <3>6, ClaimStep
  <2>2. CASE ~Claimable(r)
    <3>1. \A b \in Agents : current[b] # r
      BY <1>21, NamesOne DEF ManualClaim, Holding, ClaimPhases, WorkPhases
    <3>2. EndRun(r, "over") /\ UNCHANGED <<current, ledger, tick>> /\ run[r].pc = "asked"
      BY <1>21, <2>2 DEF ManualClaim
    <3>3. run'[r].pc = "over" /\ \A q \in Runs : q # r => run'[q] = run[q]
      BY <2>0, <3>2, EndedRun
    <3>4. LedgerFollows(r)' BY <3>3 DEF LedgerFollows, ClaimPhases
    <3> QED BY <3>1, <3>2, <3>3, <3>4, OwnStep DEF ClaimPhases, WorkPhases
  <2> QED BY <2>1, <2>2
<1>22. ASSUME NEW r \in Runs, ResetToClock(r)
     PROVE  IInv'
  <2>1. MoveRun(r, "reset") /\ UNCHANGED <<current, tick>>
    BY <1>22 DEF ResetToClock, row
  <2>2. LedgerFollows(r)'
    BY <1>22, Moved DEF IInv, NamedTypes, LedgerFollows, ResetToClock, RunPhases, ClaimPhases, WorkPhases, AfterPhases
  <2> QED BY <1>22, <2>1, <2>2, MoveStep DEF IInv, NamedTypes, ResetToClock, Holding, RunPhases, ClaimPhases,
        WorkPhases, AfterPhases
<1>23. ASSUME NEW r \in Runs, CreateManualRun(r)
     PROVE  IInv'
  <2>1. MoveRun(r, "dispatched") /\ UNCHANGED <<current, tick>>
    BY <1>23 DEF CreateManualRun, row
  <2>2. LedgerFollows(r)'
    BY <1>23, Moved DEF IInv, NamedTypes, LedgerFollows, CreateManualRun, RunPhases, ClaimPhases, WorkPhases,
          AfterPhases
  <2> QED BY <1>23, <2>1, <2>2, MoveStep DEF IInv, NamedTypes, CreateManualRun, Holding, RunPhases,
        ClaimPhases, WorkPhases, AfterPhases
<1>24. ASSUME NEW r \in Runs, StartRun(r)
     PROVE  IInv'
  <2>1. CASE ledger[r] = "running"
    <3>1. LedgerFollows(r)'
      BY <1>24, <2>1, Moved DEF IInv, NamedTypes, LedgerFollows, StartRun, RunPhases, ClaimPhases, WorkPhases,
            AfterPhases
    <3> QED BY <1>24, <2>1, <3>1, MoveStep DEF StartRun, row, Holding, RunPhases, ClaimPhases, WorkPhases, AfterPhases
  <2>2. CASE ledger[r] # "running"
    <3>1. \A a \in Agents : current[a] # r
      BY <1>24, <2>2, NamesOne DEF IInv, LedgerFollows, StartRun
    <3> QED BY <1>24, <2>2, <3>1, EndStep DEF StartRun, row
  <2> QED BY <2>1, <2>2
<1>25. ASSUME NEW r \in Runs, FinishRun(r)
     PROVE  IInv'
  <2>1. /\ run[r].pc = "executing" /\ UNCHANGED <<current, tick>>
        /\ run'[r].pc = "finished" /\ run'[r].agent = run[r].agent /\ run'[r].overstayed = run[r].overstayed
        /\ \A q \in Runs : q # r => run'[q] = run[q] /\ ledger'[q] = ledger[q]
    BY <1>25 DEF IInv, NamedTypes, NamedRuns, RunRecord, FinishRun, row
  <2>2. LedgerFollows(r)' BY <2>1 DEF LedgerFollows, ClaimPhases
  <2> QED BY <2>1, <2>2, WorkStep DEF WorkPhases
<1>26. ASSUME NEW r \in Runs, ReadForRelease(r)
     PROVE  IInv'
  <2>1. CASE Holds(r)
    <3>1. /\ run[r].pc = "finished" /\ UNCHANGED <<current, ledger, tick>>
          /\ run'[r].pc = "releasing" /\ run'[r].agent = run[r].agent /\ run'[r].overstayed = run[r].overstayed
          /\ \A q \in Runs : q # r => run'[q] = run[q]
      BY <1>26, <2>1 DEF IInv, NamedTypes, NamedRuns, RunRecord, ReadForRelease, row
    <3>2. LedgerFollows(r)' BY <3>1 DEF LedgerFollows, ClaimPhases
    <3> QED BY <3>1, <3>2, WorkStep DEF WorkPhases
  <2>2. CASE ~Holds(r)
    <3>1. \A a \in Agents : current[a] # r BY <2>2, NamesOne DEF Holds
    <3> QED BY <1>26, <2>2, <3>1, EndStep DEF ReadForRelease, row
  <2> QED BY <2>1, <2>2
<1>27. ASSUME NEW r \in Runs, ReleaseRow(r)
     PROVE  IInv'
  <2>0. NamedTypes BY DEF IInv
  <2>1. CASE ~Holds(r)
    <3>1. EndRun(r, "over") /\ UNCHANGED <<current, ledger, tick>> /\ run[r].pc = "releasing"
      BY <1>27, <2>1 DEF ReleaseRow
    <3>2. \A b \in Agents : current[b] # r BY <2>1, NamesOne DEF Holds
    <3>3. run'[r].pc = "over" /\ \A q \in Runs : q # r => run'[q] = run[q]
      BY <2>0, <3>1, EndedRun
    <3>4. LedgerFollows(r)' BY <3>3 DEF LedgerFollows, ClaimPhases
    <3> QED BY <3>1, <3>2, <3>3, <3>4, OwnStep DEF ClaimPhases, WorkPhases
  <2>2. CASE Holds(r)
    <3> DEFINE a == run[r].agent
    <3>1. a \in Agents BY <1>27, <2>0 DEF ReleaseRow, NamedTypes, NamedRuns, Carrying, WorkPhases
    <3>2. current[a] = r /\ (\A b \in Agents : current[b] = r => b = a) BY <2>2, NamesOne DEF Holds
    <3>3. /\ \A b \in Agents : current'[b] = IF b = a THEN None ELSE current[b]
          /\ UNCHANGED <<ledger, tick>>
      BY <1>27, <2>0, <2>2 DEF ReleaseRow, NamedTypes
    <3>4. run'[r].pc = "rearm" /\ \A q \in Runs : q # r => run'[q] = run[q]
      BY <1>27, <2>0, <2>2 DEF ReleaseRow, NamedTypes, NamedRuns, RunRecord
    <3>5. RowNamesItsRun' BY <2>0, <3>2, <3>3, <3>4 DEF IInv, RowNamesItsRun, NamedTypes
    <3>6. StaleIsOverstayed' BY <2>0, <3>2, <3>3, <3>4, TickFields, Constants DEF IInv, StaleIsOverstayed
    <3>7. AskedIsUnnamed' BY <3>3, <3>4 DEF IInv, AskedIsUnnamed
    <3>8. FailedHoldsNothing' BY <2>0, <3>3, TickFields, Constants DEF IInv, FailedHoldsNothing
    <3>9. CarriedIsClaimed'
      BY <1>27, <2>0, <3>3, <3>4, TickFields DEF IInv, CarriedIsClaimed, ReleaseRow
    <3>10. CreatedIsOwned' BY <1>27, <2>0, <3>3, <3>4, TickFields DEF IInv, CreatedIsOwned, ReleaseRow
    <3>11. ASSUME NEW q \in Runs PROVE LedgerFollows(q)'
      <4>1. run[q].pc \in {"created", "dispatched"} => run[q].agent \in Agents
        BY <2>0 DEF NamedTypes, NamedRuns, Carrying, WorkPhases
      <4>2. q = r => LedgerFollows(q)' BY <3>4 DEF LedgerFollows, ClaimPhases
      <4> QED BY <3>3, <3>4, <4>1, <4>2, Constants DEF IInv, LedgerFollows
    <3>12. ClaimHeld'
      <4>1. \A q \in Runs : run[q].pc \in ClaimPhases \cup WorkPhases => run[q].agent \in Agents
        BY <2>0 DEF NamedTypes, NamedRuns, Carrying
      <4> QED BY <3>2, <3>3, <3>4, <4>1 DEF IInv, ClaimHeld, ClaimPhases, WorkPhases
    <3> QED BY <3>5, <3>6, <3>7, <3>8, <3>9, <3>10, <3>11, <3>12 DEF IInv
  <2> QED BY <2>1, <2>2
<1>28. ASSUME NEW r \in Runs, RearmIfPending(r)
     PROVE  IInv'
  <2>1. PICK p \in {"pull", "settle"} : MoveRun(r, p)
    BY <1>28 DEF RearmIfPending
  <2>2. LedgerFollows(r)'
    BY <1>28, <2>1, Moved DEF IInv, NamedTypes, LedgerFollows, RearmIfPending, RunPhases, ClaimPhases,
          WorkPhases, AfterPhases
  <2> QED BY <1>28, <2>1, <2>2, MoveStep DEF RearmIfPending, row, Holding, RunPhases, ClaimPhases, WorkPhases,
        AfterPhases
<1>29. ASSUME NEW r \in Runs, PullForRelease(r)
     PROVE  IInv'
  <2>1. MoveRun(r, "settle") /\ UNCHANGED <<current, tick>>
    BY <1>29 DEF PullForRelease, row
  <2>2. LedgerFollows(r)'
    BY <1>29, Moved DEF IInv, NamedTypes, LedgerFollows, PullForRelease, RunPhases, ClaimPhases, WorkPhases,
          AfterPhases
  <2> QED BY <1>29, <2>1, <2>2, MoveStep DEF IInv, NamedTypes, PullForRelease, Holding, RunPhases, ClaimPhases,
        WorkPhases, AfterPhases
<1>30. ASSUME NEW r \in Runs, SettleRun(r)
     PROVE  IInv'
  <2>1. CASE run[r].off
    <3>1. LedgerFollows(r)'
      BY <1>30, <2>1, Moved DEF IInv, NamedTypes, LedgerFollows, SettleRun, RunPhases, ClaimPhases, WorkPhases,
            AfterPhases
    <3> QED BY <1>30, <2>1, <3>1, MoveStep DEF SettleRun, row, Holding, RunPhases, ClaimPhases, WorkPhases,
          AfterPhases
  <2>2. CASE ~run[r].off
    <3>1. \A a \in Agents : current[a] # r
      BY <1>30, NamesOne DEF SettleRun, Holding, ClaimPhases, WorkPhases
    <3> QED BY <1>30, <2>2, <3>1, EndStep DEF SettleRun, row
  <2> QED BY <2>1, <2>2
<1>31. ASSUME NEW r \in Runs, RunSwitchOff(r)
     PROVE  IInv'
  <2>1. CASE run[r].pc = "switch" /\ MoveRun(r, "switched")
    <3>1. LedgerFollows(r)'
      BY <1>31, <2>1, Moved DEF IInv, NamedTypes, LedgerFollows, RunSwitchOff, RunPhases, ClaimPhases,
            WorkPhases, AfterPhases
    <3> QED BY <1>31, <2>1, <3>1, MoveStep DEF RunSwitchOff, Holding, RunPhases, ClaimPhases, WorkPhases, AfterPhases
  <2>2. CASE run[r].pc = "switched" /\ EndRun(r, "over")
    <3>1. \A a \in Agents : current[a] # r
      BY <2>2, NamesOne DEF Holding, ClaimPhases, WorkPhases
    <3> QED BY <1>31, <2>2, <3>1, EndStep DEF RunSwitchOff
  <2> QED BY <1>31, <2>1, <2>2 DEF RunSwitchOff
<1>32. ASSUME NEW r \in Runs, Overstay(r)
     PROVE  IInv'
  <2>1. /\ UNCHANGED <<current, ledger, tick>>
        /\ run'[r].pc = run[r].pc /\ run'[r].agent = run[r].agent /\ run'[r].mode = run[r].mode
        /\ run'[r].overstayed = TRUE
        /\ \A q \in Runs : q # r => run'[q] = run[q]
    BY <1>32 DEF IInv, NamedTypes, NamedRuns, RunRecord, Overstay, row
  <2>2. LedgerFollows(r)' BY <2>1 DEF IInv, LedgerFollows
  <2>3. \A a \in Agents : current[a] = r => run[r].pc \in Holding /\ run[r].agent = a BY NamesOne
  <2> QED BY <2>1, <2>2, <2>3, OwnStep
<1>33. ASSUME NEW r \in Runs, LoseDispatch(r)
     PROVE  IInv'
  <2> QED BY <1>33, EndStep DEF LoseDispatch, row
<1>34. ASSUME NEW r \in Runs, RunDies(r)
     PROVE  IInv'
  <2> QED BY <1>34, EndStep DEF RunDies, row, RunPhases, ClaimPhases, WorkPhases, AfterPhases
<1>35. ASSUME NEW r \in Runs, GroupDies(r)
     PROVE  IInv'
  <2>1. UNCHANGED <<current, ledger, tick>> /\ \A q \in Runs : q # r => run'[q] = run[q]
    BY <1>35 DEF IInv, NamedTypes, GroupDies, row
  <2>2. run'[r].agent = run[r].agent /\ run'[r].mode = run[r].mode /\ run'[r].overstayed = run[r].overstayed
    BY <1>35 DEF IInv, NamedTypes, NamedRuns, RunRecord, GroupDies
  <2>3. \/ run'[r].pc = run[r].pc
        \/ run[r].pc = "claimed" /\ run[r].mode = "fanout" /\ run'[r].pc = "dead"
    BY <1>35 DEF IInv, NamedTypes, NamedRuns, RunRecord, GroupDies
  <2>4. LedgerFollows(r)' BY <2>1, <2>2, <2>3 DEF IInv, LedgerFollows, ClaimPhases
  <2>5. \A a \in Agents : current[a] = r => run[r].pc \in Holding /\ run[r].agent = a BY NamesOne
  <2>6. run'[r].pc \in ClaimPhases \cup WorkPhases /\ ~run'[r].overstayed => current[run'[r].agent] = r
    BY <2>2, <2>3 DEF IInv, ClaimHeld, ClaimPhases, WorkPhases
  <2> QED BY <2>1, <2>2, <2>3, <2>4, <2>5, <2>6, OwnStep DEF Holding
<1>36. ASSUME NEW e \in Editors, NEW a \in Agents, Activate(e, a)
     PROVE  IInv'
  BY <1>36, QuietStep DEF Activate, row
<1>37. ASSUME NEW e \in Editors, NEW a \in Agents, SaveBrief(e, a)
     PROVE  IInv'
  BY <1>37, QuietStep DEF SaveBrief, row
<1>38. ASSUME NEW e \in Editors, NEW a \in Agents, PersonSwitchOff(e, a)
     PROVE  IInv'
  BY <1>38, QuietStep DEF PersonSwitchOff, row
<1>39. ASSUME NEW x \in Syncers, SyncRead(x)
     PROVE  IInv'
  BY <1>39, QuietStep DEF SyncRead, row
<1>40. ASSUME NEW x \in Syncers, SyncDerive(x)
     PROVE  IInv'
  BY <1>40, QuietStep DEF SyncDerive, row
<1>41. ASSUME NEW x \in Syncers, SyncWrite(x)
     PROVE  IInv'
  <2>1. CASE x \in Ticks
    <3>1. /\ \A u \in Ticks : u # x => tick'[u] = tick[u]
          /\ tick'[x].stale = tick[x].stale /\ tick'[x].claimed = tick[x].claimed
          /\ tick'[x].run = tick[x].run /\ tick'[x].pc = "visit"
      BY <1>41, <2>1, TickFields DEF IInv, NamedTypes, TickRecord, SyncWrite
    <3> QED BY <1>41, <2>1, <3>1, TickOnlyStep DEF SyncWrite
  <2>2. CASE x \notin Ticks
    BY <1>41, <2>2, QuietStep DEF SyncWrite
  <2> QED BY <2>1, <2>2
<1>42. ASSUME NEW a \in Agents, ClockComes(a)
     PROVE  IInv'
  BY <1>42, QuietStep DEF ClockComes, row
<1>43. ASSUME NEW a \in Agents, DebounceEnds(a)
     PROVE  IInv'
  BY <1>43, QuietStep DEF DebounceEnds, row
<1>44. CASE UNCHANGED vars
  BY <1>44, QuietStep DEF vars, row
<1>45. ASSUME NEW e \in Editors, EditorDies(e)
     PROVE  IInv'
  BY <1>45, QuietStep DEF EditorDies, row
<1>46. ASSUME NEW r \in Runs, ReleaseThrows(r)
     PROVE  IInv'
  <2>1. UNCHANGED <<current, tick>> /\ \A q \in Runs : q # r => run'[q] = run[q] /\ ledger'[q] = ledger[q]
    BY <1>46 DEF IInv, NamedTypes, ReleaseThrows, row
  <2>2. /\ run'[r].pc = "finished" /\ run[r].pc \in {"finished", "releasing"}
        /\ run'[r].agent = run[r].agent /\ run'[r].overstayed = run[r].overstayed
    BY <1>46 DEF IInv, NamedTypes, NamedRuns, RunRecord, ReleaseThrows
  <2>3. LedgerFollows(r)' BY <2>2 DEF LedgerFollows, ClaimPhases
  <2>4. \A a \in Agents : current[a] = r => run[r].agent = a BY NamesOne
  <2>5. run'[r].pc \in ClaimPhases \cup WorkPhases /\ ~run'[r].overstayed => current[run'[r].agent] = r
    BY <2>1, <2>2 DEF IInv, ClaimHeld, ClaimPhases, WorkPhases
  <2> QED BY <2>1, <2>2, <2>3, <2>4, <2>5, OwnStep DEF Holding, WorkPhases
<1>47. ASSUME NEW r \in Runs, RearmFails(r)
     PROVE  IInv'
  <2>1. MoveRun(r, "settle") BY <1>47 DEF RearmFails
  <2>2. LedgerFollows(r)'
    BY <1>47, <2>1, Moved DEF IInv, NamedTypes, LedgerFollows, RearmFails, RunPhases, ClaimPhases,
          WorkPhases, AfterPhases
  <2> QED BY <1>47, <2>1, <2>2, MoveStep DEF RearmFails, row, Holding, RunPhases, ClaimPhases, WorkPhases,
        AfterPhases
<1>48. ASSUME NEW s \in Senders, SenderDies(s)
     PROVE  IInv'
  BY <1>48, QuietStep DEF SenderDies, row
<1> QED
  BY <1>1, <1>2, <1>3, <1>4, <1>5, <1>6, <1>7, <1>8, <1>9, <1>10, <1>11, <1>12, <1>13, <1>14, <1>15, <1>16,
        <1>17, <1>18, <1>19, <1>20, <1>21, <1>22, <1>23, <1>24, <1>25, <1>26, <1>27, <1>28, <1>29, <1>30,
        <1>31, <1>32, <1>33, <1>34, <1>35, <1>36, <1>37, <1>38, <1>39, <1>40, <1>41, <1>42, <1>43, <1>44, <1>45,
        <1>46, <1>47, <1>48
  DEF Next, SenderStep, TickStep, RunStep, SyncStep, TimePasses, Syncers

-----------------------------------------------------------------------------

\* The invariant holds in every state the scheduler reaches.
THEOREM Inductive == Spec => []IInv
<1>1. Init => IInv
  <2> SUFFICES ASSUME Init PROVE IInv OBVIOUS
  <2>1. NamedTypes BY InitIsNamed
  <2>2. \A r \in Runs : run[r].pc = "free" /\ ledger[r] = "none" BY DEF Init, NewRun
  <2>3. \A t \in Ticks : tick[t].pc = "idle" /\ tick[t].stale = {} /\ tick[t].claimed = {} BY DEF Init, IdleTick
  <2>4. \A a \in Agents : current[a] = None BY DEF Init
  <2> QED
    BY <2>1, <2>2, <2>3, <2>4
    DEF IInv, RowNamesItsRun, StaleIsOverstayed, AskedIsUnnamed, FailedHoldsNothing, CarriedIsClaimed,
        CreatedIsOwned, LedgerFollows, ClaimHeld, ClaimPhases, WorkPhases
<1>2. IInv /\ [Next]_vars => IInv'
  <2> SUFFICES ASSUME IInv, [Next]_vars PROVE IInv' OBVIOUS
  <2>1. NamedTypes' BY NamedStep DEF IInv
  <2> QED BY <2>1, IInvStep
<1> QED BY <1>1, <1>2, PTL DEF Spec

\* Every variable keeps its type (TypeOK), whatever interleaves with whatever dies.
THEOREM TypeCorrect == Spec => []TypeOK
<1>1. IInv => TypeOK
  BY DEF IInv, NamedTypes, TypeOK, NamedRuns, NamedTicks, NamedSenders, NamedSyncs
<1> QED BY <1>1, Inductive, PTL

\* The compare-and-swaps on current_run_id keep a live claim with its run (ClaimHeld):
\* no release, hand-back or reclaim of another request frees the row under it.
THEOREM ClaimNeverTaken == Spec => []ClaimHeld
<1>1. IInv => ClaimHeld BY DEF IInv
<1> QED BY <1>1, Inductive, PTL

\* So an agent has one live run at a time (OneLiveRun), whichever doors it is claimed by.
THEOREM OneRunAtATime == Spec => []OneLiveRun
<1>1. IInv => OneLiveRun BY DEF IInv, ClaimHeld, OneLiveRun
<1> QED BY <1>1, Inductive, PTL

\* A release and a reclaim of the same run never count its failure twice
\* (FailureCountedOnce): only the step that frees the row raises the streak.
THEOREM FailuresCounted == Spec => FailureCountedOnce
<1> DEFINE Counted == \A a \in Agents : failures'[a] > failures[a] => current[a] # None /\ current'[a] = None
<1>1. ASSUME IInv, [Next]_vars PROVE Counted
  <2>0. NamedTypes /\ \A a \in Agents : failures[a] \in Nat
    BY <1>1, SchedulerAssumption DEF SchedulerAssumption, IInv, NamedTypes, Streaks
  <2>1. ASSUME failures' = failures PROVE Counted
    BY <2>0, <2>1
  <2>2. ASSUME NEW t \in Ticks, NEW s \in tick[t].stale, ReclaimRow(t, s) PROVE Counted
    <3>1. s.agent \in Agents /\ s.run \in Runs BY <2>0, TickFields
    <3> QED BY <2>0, <2>1, <2>2, <3>1, Constants DEF ReclaimRow, StillStale, NamedTypes
  <2>3. ASSUME NEW r \in Runs, ReleaseRow(r) PROVE Counted
    BY <2>0, <2>1, <2>3, Constants DEF ReleaseRow, Holds, NamedTypes
  <2>4. ASSUME NEW x \in Syncers, SyncWrite(x) PROVE Counted
    BY <2>0, <2>1, <2>4 DEF SyncWrite, NamedTypes
  <2>5. ASSUME NEW s \in Senders, SenderStep(s) \/ SenderDies(s) \/ (\E a \in Agents, k \in Keys : CountPending(s, a, k)) PROVE Counted
    BY <2>1, <2>5 DEF SenderStep, CountPending, InsertEvent, PullForInsert, SenderDies, row
  <2>6. ASSUME NEW t \in Ticks, TickStart(t) \/ TickStep(t) \/ TickDies(t) PROVE Counted
    <3>1. CASE TickStart(t) \/ TickDies(t) BY <2>1, <3>1 DEF TickStart, TickDies, row
    <3>2. CASE FailStaleRun(t) \/ TickSwitchOff(t) \/ SelectDue(t) \/ ReadBusySpaces(t)
      BY <2>1, <3>2 DEF FailStaleRun, TickSwitchOff, SelectDue, ReadBusySpaces, row
    <3>3. CASE SyncStep(t) BY <2>1, <2>4, <3>3 DEF SyncStep, SyncRead, SyncDerive, row, Syncers
    <3>4. CASE \E d \in tick[t].due : PassRow(t, d) \/ \E r \in Runs : ScheduledClaim(t, d, r)
      BY <2>1, <3>4 DEF PassRow, ScheduledClaim, row
    <3>5. CASE HandBack(t) \/ CreateScheduledRun(t) \/ Dispatch(t)
      BY <2>1, <3>5 DEF HandBack, CreateScheduledRun, Dispatch, row
    <3> QED BY <2>2, <2>6, <3>1, <3>2, <3>3, <3>4, <3>5 DEF TickStep
  <2>7. ASSUME NEW r \in Runs, RunStep(r) PROVE Counted
    <3>1. CASE ClaimEvents(r) \/ GateWake(r) \/ CreateFanOutRun(r) \/ ManualClaim(r) \/ ResetToClock(r)
          \/ CreateManualRun(r)
      BY <2>1, <3>1 DEF ClaimEvents, GateWake, CreateFanOutRun, ManualClaim, ResetToClock, CreateManualRun, row
    <3>2. CASE StartRun(r) \/ FinishRun(r) \/ ReadForRelease(r) \/ RearmIfPending(r)
      BY <2>1, <3>2 DEF StartRun, FinishRun, ReadForRelease, RearmIfPending, row
    <3>3. CASE PullForRelease(r) \/ SettleRun(r) \/ RunSwitchOff(r) \/ \E q \in Runs : FanOut(r, q)
      BY <2>1, <3>3 DEF PullForRelease, SettleRun, RunSwitchOff, FanOut, row
    <3> QED BY <2>3, <2>7, <3>1, <3>2, <3>3 DEF RunStep
  <2>8. ASSUME NEW r \in Runs,
               \/ Overstay(r) \/ LoseDispatch(r) \/ RunDies(r) \/ GroupDies(r) \/ ReleaseThrows(r) \/ RearmFails(r)
               \/ \E a \in Agents, d \in Doors : AskManualRun(r, a, d)
        PROVE  Counted
    BY <2>1, <2>8 DEF Overstay, LoseDispatch, RunDies, GroupDies, ReleaseThrows, RearmFails, AskManualRun, row
  <2>9. ASSUME NEW e \in Editors, NEW a \in Agents, Activate(e, a) \/ SaveBrief(e, a) \/ PersonSwitchOff(e, a)
        PROVE  Counted
    BY <2>1, <2>9 DEF Activate, SaveBrief, PersonSwitchOff, row
  <2>10. ASSUME NEW e \in Editors, SyncStep(e) \/ EditorDies(e) PROVE Counted
    BY <2>1, <2>4, <2>10 DEF EditorDies, SyncStep, SyncRead, SyncDerive, row, Syncers
  <2>11. ASSUME TimePasses \/ UNCHANGED vars PROVE Counted
    BY <2>1, <2>11 DEF TimePasses, ClockComes, DebounceEnds, vars, row
  <2> QED BY <1>1, <2>5, <2>6, <2>7, <2>8, <2>9, <2>10, <2>11 DEF Next
<1> QED BY <1>1, Inductive, PTL DEF Spec, FailureCountedOnce

\* The reclaim of a run that died after it succeeded does not fail it (SuccessStands).
THEOREM SuccessKept == Spec => SuccessStands
<1> DEFINE Stands == \A r \in Runs : ledger[r] = "succeeded" =>
                         \/ ledger'[r] = "succeeded"
                         \/ run'[r].pc \in {"asked", "claimed"}
                         \/ run[r].pc \in {"finished", "releasing"} /\ run'[r].outcome = "failure"
<1>1. ASSUME IInv, [Next]_vars PROVE Stands
  <2>0. NamedTypes /\ \A r \in Runs : LedgerFollows(r) BY <1>1 DEF IInv
  <2>1. ASSUME ledger' = ledger PROVE Stands BY <2>1
  <2>2. ASSUME NEW r \in Runs, ledger[r] # "succeeded", \A q \in Runs : q # r => ledger'[q] = ledger[q]
        PROVE  Stands
    BY <2>2
  <2>3. ASSUME NEW r \in Runs, run'[r].pc \in {"asked", "claimed"}, \A q \in Runs : q # r => ledger'[q] = ledger[q]
        PROVE  Stands
    BY <2>3
  <2>4. ASSUME NEW s \in Senders, SenderStep(s) \/ SenderDies(s) \/ (\E a \in Agents, k \in Keys : CountPending(s, a, k)) PROVE Stands
    BY <2>1, <2>4 DEF SenderStep, CountPending, InsertEvent, PullForInsert, SenderDies
  <2>5. ASSUME NEW t \in Ticks, TickStart(t) \/ TickStep(t) \/ TickDies(t) PROVE Stands
    <3>1. CASE FailStaleRun(t)
      BY <2>0, <3>1 DEF FailStaleRun, FailedIfRunning, NamedTypes
    <3>2. CASE CreateScheduledRun(t)
      <4>1. tick[t].run \in Runs /\ ledger[tick[t].run] = "none"
        BY <2>0, <3>2, TickFields DEF CreateScheduledRun, LedgerFollows, ClaimPhases
      <4> QED BY <2>0, <2>2, <3>2, <4>1 DEF CreateScheduledRun, NamedTypes
    <3>3. ASSUME NEW d \in tick[t].due, NEW r \in Runs, ScheduledClaim(t, d, r) PROVE Stands
      <4>1. run'[r].pc = "claimed" /\ \A q \in Runs : q # r => ledger'[q] = ledger[q]
        BY <2>0, <3>3 DEF ScheduledClaim, NamedTypes, NewRun
      <4> QED BY <2>3, <4>1
    <3>4. CASE TickStart(t) \/ TickDies(t) \/ TickSwitchOff(t) \/ SelectDue(t) \/ ReadBusySpaces(t)
          \/ HandBack(t) \/ Dispatch(t)
      BY <2>1, <3>4 DEF TickStart, TickDies, TickSwitchOff, SelectDue, ReadBusySpaces, HandBack, Dispatch
    <3>5. CASE (\E s \in tick[t].stale : ReclaimRow(t, s)) \/ SyncStep(t) \/ \E d \in tick[t].due : PassRow(t, d)
      BY <2>1, <3>5 DEF ReclaimRow, SyncStep, SyncRead, SyncDerive, SyncWrite, PassRow
    <3> QED BY <2>5, <3>1, <3>2, <3>3, <3>4, <3>5 DEF TickStep
  <2>6. ASSUME NEW r \in Runs, RunStep(r) PROVE Stands
    <3>1. CASE CreateFanOutRun(r) \/ CreateManualRun(r) \/ FinishRun(r)
      <4>1. ledger[r] # "succeeded"
        BY <2>0, <3>1 DEF CreateFanOutRun, CreateManualRun, FinishRun, LedgerFollows, ClaimPhases
      <4>2. \A q \in Runs : q # r => ledger'[q] = ledger[q]
        BY <2>0, <3>1 DEF CreateFanOutRun, CreateManualRun, FinishRun, NamedTypes
      <4> QED BY <2>2, <4>1, <4>2
    <3>2. ASSUME NEW q \in Runs, FanOut(r, q) PROVE Stands
      <4>1. CASE FiresOn(run[r].agent)
        <5>1. run'[q].pc = "claimed" /\ \A p \in Runs : p # q => ledger'[p] = ledger[p]
          BY <2>0, <3>2, <4>1 DEF FanOut, NamedTypes, NewRun
        <5> QED BY <2>3, <5>1
      <4>2. CASE ~FiresOn(run[r].agent) BY <2>1, <3>2, <4>2 DEF FanOut
      <4> QED BY <4>1, <4>2
    <3>3. CASE ClaimEvents(r) \/ GateWake(r) \/ ManualClaim(r) \/ ResetToClock(r) \/ StartRun(r) \/ ReadForRelease(r)
      BY <2>1, <3>3 DEF ClaimEvents, GateWake, ManualClaim, ResetToClock, StartRun, ReadForRelease
    <3>4. CASE ReleaseRow(r) \/ RearmIfPending(r) \/ PullForRelease(r) \/ SettleRun(r) \/ RunSwitchOff(r)
      BY <2>1, <3>4 DEF ReleaseRow, RearmIfPending, PullForRelease, SettleRun, RunSwitchOff
    <3> QED BY <2>6, <3>1, <3>2, <3>3, <3>4 DEF RunStep
  <2>7. ASSUME NEW r \in Runs, NEW a \in Agents, NEW d \in Doors, AskManualRun(r, a, d) PROVE Stands
    <3>1. run'[r].pc = "asked" /\ \A q \in Runs : q # r => ledger'[q] = ledger[q]
      BY <2>0, <2>7 DEF AskManualRun, NamedTypes, NewRun
    <3> QED BY <2>3, <3>1
  <2>8. ASSUME NEW r \in Runs, \/ Overstay(r) \/ LoseDispatch(r) \/ RunDies(r) \/ GroupDies(r) \/ RearmFails(r)
        PROVE  Stands
    BY <2>1, <2>8 DEF Overstay, LoseDispatch, RunDies, GroupDies, RearmFails
  <2>9. ASSUME NEW e \in Editors,
               SyncStep(e) \/ EditorDies(e) \/ \E a \in Agents : Activate(e, a) \/ SaveBrief(e, a) \/ PersonSwitchOff(e, a)
        PROVE  Stands
    BY <2>1, <2>9 DEF SyncStep, SyncRead, SyncDerive, SyncWrite, EditorDies, Activate, SaveBrief, PersonSwitchOff
  <2>10. ASSUME TimePasses \/ UNCHANGED vars PROVE Stands
    BY <2>1, <2>10 DEF TimePasses, ClockComes, DebounceEnds, vars
  <2>11. ASSUME NEW r \in Runs, ReleaseThrows(r) PROVE Stands
    BY <2>0, <2>11 DEF ReleaseThrows, NamedTypes, NamedRuns, RunRecord
  <2> QED BY <1>1, <2>4, <2>5, <2>6, <2>7, <2>8, <2>9, <2>10, <2>11 DEF Next
<1> QED BY <1>1, Inductive, PTL DEF Spec, SuccessStands

-----------------------------------------------------------------------------
(* The mailbox *)

Counted(a) == {s \in Senders : sender[s].pc = "counted" /\ sender[s].agent = a}

\* A mailbox is finite, and bounded together with what is about to come into it.
MailInv ==
    /\ \A a \in Agents : IsFiniteSet(mail[a])
    /\ MailBounded

\* The events that have been counted and not yet inserted are at most one per sender.
LEMMA SendersCount ==
    /\ MaxPending \in Nat \ {0}
    /\ IsFiniteSet(Senders) /\ Cardinality(Senders) \in Nat
    /\ \A a \in Agents : /\ IsFiniteSet(Counted(a)) /\ Cardinality(Counted(a)) \in Nat
                         /\ Cardinality(Counted(a)) <= Cardinality(Senders)
<1>1. IsFiniteSet(Senders) /\ MaxPending \in Nat \ {0} BY SchedulerAssumption DEF SchedulerAssumption
<1>2. ASSUME NEW a \in Agents
     PROVE  /\ IsFiniteSet(Counted(a))
            /\ Cardinality(Counted(a)) <= Cardinality(Senders)
  <2>1. Counted(a) \subseteq Senders BY DEF Counted
  <2> QED BY <1>1, <2>1, FS_Subset
<1> QED BY <1>1, <1>2, FS_CardinalityType

\* Only the two statements of a send, and a run that takes its mail, touch mailboxes.
LEMMA MailMoves ==
    ASSUME [Next]_vars
    PROVE  \/ UNCHANGED <<mail, sender>>
           \/ \E s \in Senders, a \in Agents, k \in Keys : CountPending(s, a, k)
           \/ \E s \in Senders : InsertEvent(s) \/ PullForInsert(s) \/ SenderDies(s)
           \/ \E r \in Runs : ClaimEvents(r)
<1>1. ASSUME NEW t \in Ticks, TickStart(t) \/ TickStep(t) \/ TickDies(t)
     PROVE  UNCHANGED <<mail, sender>>
  BY <1>1 DEF TickStart, TickStep, TickDies, ReclaimRow, FailStaleRun, TickSwitchOff, SelectDue, ReadBusySpaces,
              SyncStep, SyncRead, SyncDerive, SyncWrite, PassRow, ScheduledClaim, HandBack, CreateScheduledRun, Dispatch
<1>2. ASSUME NEW r \in Runs, RunStep(r), ~ClaimEvents(r)
     PROVE  UNCHANGED <<mail, sender>>
  BY <1>2 DEF RunStep, GateWake, CreateFanOutRun, ManualClaim, ResetToClock, CreateManualRun, StartRun, FinishRun,
              ReadForRelease, ReleaseRow, RearmIfPending, PullForRelease, SettleRun, RunSwitchOff, FanOut
<1>3. ASSUME NEW r \in Runs,
             \/ Overstay(r) \/ LoseDispatch(r) \/ RunDies(r) \/ GroupDies(r) \/ ReleaseThrows(r) \/ RearmFails(r)
             \/ \E a \in Agents, d \in Doors : AskManualRun(r, a, d)
     PROVE  UNCHANGED <<mail, sender>>
  BY <1>3 DEF Overstay, LoseDispatch, RunDies, GroupDies, ReleaseThrows, RearmFails, AskManualRun
<1>4. ASSUME NEW e \in Editors,
             \/ SyncStep(e) \/ EditorDies(e)
             \/ \E a \in Agents : Activate(e, a) \/ SaveBrief(e, a) \/ PersonSwitchOff(e, a)
     PROVE  UNCHANGED <<mail, sender>>
  BY <1>4 DEF SyncStep, SyncRead, SyncDerive, SyncWrite, EditorDies, Activate, SaveBrief, PersonSwitchOff
<1>5. TimePasses => UNCHANGED <<mail, sender>>
  BY DEF TimePasses, ClockComes, DebounceEnds
<1>6. UNCHANGED vars => UNCHANGED <<mail, sender>> BY DEF vars
<1> QED BY <1>1, <1>2, <1>3, <1>4, <1>5, <1>6 DEF Next, SenderStep

\* Every step keeps a mailbox within its bound together with what is about to come into it.
LEMMA MailStep ==
    ASSUME IInv, MailInv, [Next]_vars
    PROVE  MailInv'
<1> DEFINE Fits(a) == /\ IsFiniteSet(mail[a])
                      /\ Cardinality(mail[a]) + Cardinality(Counted(a)) <= MaxPending + Cardinality(Senders) - 1
<1>0. /\ \A a \in Agents : Fits(a)
      /\ \A a \in Agents : Cardinality(mail[a]) \in Nat
  BY FS_CardinalityType DEF MailInv, MailBounded, Counted
<1>9. (\A a \in Agents : Fits(a)') => MailInv' BY DEF MailInv, MailBounded, Counted
<1>N. NamedTypes BY DEF IInv
<1>1. ASSUME NEW s \in Senders, NEW b \in Agents, NEW k \in Keys, CountPending(s, b, k), NEW a \in Agents
     PROVE  Fits(a)'
  <2>1. \A q \in Senders : sender'[q] = IF q = s THEN [pc |-> "counted", agent |-> b, key |-> k] ELSE sender[q]
    BY <1>1, <1>N DEF CountPending, NamedTypes
  <2>2. mail' = mail /\ s \notin Counted(a) BY <1>1 DEF CountPending, Counted
  <2>3. CASE a # b
    <3>1. Counted(a)' = Counted(a) BY <2>1, <2>2, <2>3 DEF Counted
    <3> QED BY <1>0, <2>2, <3>1
  <2>4. CASE a = b
    <3>1. Counted(a)' = Counted(a) \cup {s} BY <2>1, <2>4 DEF Counted
    <3>2. Cardinality(Counted(a)') = Cardinality(Counted(a)) + 1
      BY <3>1, <2>2, SendersCount, FS_AddElement
    <3>3. Cardinality(Counted(a)') <= Cardinality(Senders)
      <4>1. Counted(a)' \subseteq Senders BY DEF Counted
      <4> QED BY <4>1, SendersCount, FS_Subset
    <3>4. Cardinality(mail[a]) < MaxPending BY <1>1, <2>4 DEF CountPending, HasRoom
    <3> QED BY <1>0, <2>2, <3>2, <3>3, <3>4, SendersCount
  <2> QED BY <2>3, <2>4
<1>2. ASSUME NEW s \in Senders, InsertEvent(s), NEW a \in Agents
     PROVE  Fits(a)'
  <2> DEFINE b == sender[s].agent
  <2>1. /\ \A q \in Senders : q # s => sender'[q] = sender[q]
        /\ sender'[s].pc # "counted"
    BY <1>2, <1>N DEF InsertEvent, NamedTypes, NamedSenders, SenderRecord, IdleSender
  <2>2. mail'[a] = IF a = b THEN mail[a] \cup {sender[s].key} ELSE mail[a]
    BY <1>2, <1>N DEF InsertEvent, NamedTypes
  <2>3. CASE a # b
    <3>1. Counted(a)' = Counted(a) BY <2>1, <2>3 DEF Counted
    <3> QED BY <1>0, <2>2, <2>3, <3>1
  <2>4. CASE a = b
    <3>1. Counted(a)' = Counted(a) \ {s} BY <2>1 DEF Counted
    <3>2. s \in Counted(a) BY <1>2, <2>4 DEF InsertEvent, Counted
    <3>3. Cardinality(Counted(a)') = Cardinality(Counted(a)) - 1
      BY <3>1, <3>2, SendersCount, FS_RemoveElement
    <3>4. IsFiniteSet(mail'[a]) /\ Cardinality(mail'[a]) <= Cardinality(mail[a]) + 1 /\ Cardinality(mail'[a]) \in Nat
      <4> DEFINE k == sender[s].key
      <4>1. mail'[a] = mail[a] \cup {k} BY <2>2, <2>4
      <4>2. IsFiniteSet(mail[a]) BY <1>0
      <4>3. /\ IsFiniteSet(mail[a] \cup {k})
            /\ Cardinality(mail[a] \cup {k}) = IF k \in mail[a] THEN Cardinality(mail[a]) ELSE Cardinality(mail[a]) + 1
        BY <4>2, FS_AddElement
      <4>4. Cardinality(mail[a]) \in Nat BY <1>0
      <4> HIDE DEF k
      <4> QED BY <4>1, <4>3, <4>4
    <3> QED BY <1>0, <3>3, <3>4, SendersCount
  <2> QED BY <2>3, <2>4
<1>3. ASSUME NEW s \in Senders, PullForInsert(s), NEW a \in Agents
     PROVE  Fits(a)'
  <2>1. /\ \A q \in Senders : q # s => sender'[q] = sender[q]
        /\ sender[s].pc # "counted" /\ sender'[s].pc # "counted"
        /\ mail' = mail
    BY <1>3, <1>N DEF PullForInsert, NamedTypes, IdleSender
  <2>2. Counted(a)' = Counted(a) BY <2>1 DEF Counted
  <2> QED BY <1>0, <2>1, <2>2
<1>4. ASSUME NEW r \in Runs, ClaimEvents(r), NEW a \in Agents
     PROVE  Fits(a)'
  <2>1. sender' = sender BY <1>4 DEF ClaimEvents
  <2>2. Counted(a)' = Counted(a) BY <2>1 DEF Counted
  <2>3. mail'[a] = {} \/ mail'[a] = mail[a]
    BY <1>4, <1>N DEF ClaimEvents, NamedTypes
  <2>4. IsFiniteSet({}) /\ Cardinality({}) = 0 BY FS_EmptySet
  <2>5. CASE mail'[a] = {}
    <3>1. Cardinality(mail'[a]) = 0 /\ IsFiniteSet(mail'[a]) BY <2>4, <2>5
    <3>2. /\ Cardinality(Counted(a)) <= Cardinality(Senders)
          /\ Cardinality(Counted(a)) \in Nat /\ Cardinality(Senders) \in Nat /\ MaxPending \in Nat \ {0}
      BY SendersCount
    <3> HIDE DEF Counted
    <3>3. Cardinality(mail'[a]) + Cardinality(Counted(a)') <= MaxPending + Cardinality(Senders) - 1
      BY <2>2, <3>1, <3>2
    <3> QED BY <3>1, <3>3
  <2>6. CASE mail'[a] = mail[a] BY <1>0, <2>2, <2>6
  <2> QED BY <2>3, <2>5, <2>6
<1>6. ASSUME NEW s \in Senders, SenderDies(s), NEW a \in Agents
     PROVE  Fits(a)'
  <2>1. /\ \A q \in Senders : q # s => sender'[q] = sender[q]
        /\ sender'[s].pc # "counted"
        /\ mail' = mail
    BY <1>6, <1>N DEF SenderDies, NamedTypes, IdleSender
  <2>2. Counted(a)' \subseteq Counted(a) BY <2>1 DEF Counted
  <2>3. IsFiniteSet(Counted(a)) /\ IsFiniteSet(Counted(a)')
    <3>1. Counted(a) \subseteq Senders /\ Counted(a)' \subseteq Senders BY DEF Counted
    <3> QED BY <3>1, SendersCount, FS_Subset
  <2>4. Cardinality(Counted(a)') <= Cardinality(Counted(a)) BY <2>2, <2>3, FS_Subset
  <2>5. Cardinality(Counted(a)') \in Nat /\ Cardinality(Counted(a)) \in Nat BY <2>3, FS_CardinalityType
  <2> HIDE DEF Counted
  <2> QED BY <1>0, <2>1, <2>4, <2>5, SendersCount
<1>5. ASSUME UNCHANGED <<mail, sender>>, NEW a \in Agents
     PROVE  Fits(a)'
  <2>1. Counted(a)' = Counted(a) BY <1>5 DEF Counted
  <2> QED BY <1>0, <1>5, <2>1
<1> HIDE DEF Fits
<1> QED BY <1>1, <1>2, <1>3, <1>4, <1>5, <1>6, <1>9, MailMoves

\* Requests that counted the mailbox together overshoot its cap by at most one event
\* each (enqueueAgentEvent), however many there are, because what was counted and is not
\* yet inserted is bounded together with what is pending.
THEOREM MailHasABound == Spec => []MailBounded
<1>1. Init => MailInv
  <2> SUFFICES ASSUME Init PROVE MailInv OBVIOUS
  <2>1. \A a \in Agents : mail[a] = {} /\ Counted(a) = {} BY DEF Init, IdleSender, Counted
  <2> QED BY <2>1, SendersCount, FS_EmptySet DEF MailInv, MailBounded, Counted
<1>2. IInv /\ MailInv /\ [Next]_vars => MailInv' BY MailStep
<1>3. MailInv => MailBounded BY DEF MailInv
<1> QED BY <1>1, <1>2, <1>3, Inductive, PTL DEF Spec

-----------------------------------------------------------------------------
(* The clock *)

\* Only a request that is re-deriving a row holds what it read of it.
SyncsAtWork ==
    /\ \A t \in Ticks : tick[t].pc # "sync" => sync[t].agent = None
    /\ \A e \in Editors : editor[e].pc # "syncing" => sync[e].agent = None

\* A scheduled agent that is to be on gets a next fire.
WantedHasAFire ==
    \A x \in Syncers : sync[x].pc = "write" /\ sync[x].want /\ sync[x].agent \in Clocked => sync[x].fresh # "never"

SyncInv == SyncsAtWork /\ WantedHasAFire

\* A step that begins or ends no sync, switches nobody on and takes no clock away.
Undisturbed ==
    /\ UNCHANGED sync
    /\ \A a \in Agents : active'[a] => active[a]
    /\ \A a \in Clocked : next'[a] = "never" => next[a] = "never"
    /\ \A t \in Ticks : tick[t].pc = "sync" => tick'[t].pc = "sync"
    /\ \A e \in Editors : editor[e].pc = "syncing" => editor'[e].pc = "syncing"

\* A switch-off switches nobody on.
LEMMA Switching ==
    ASSUME NamedTypes, NEW a, SwitchOff(a), NEW b \in Agents, active'[b]
    PROVE  active[b]
BY DEF NamedTypes, SwitchOff

\* A tick disturbs no sync and takes no clock away, unless it begins, makes or ends its own sync.
LEMMA TickUndisturbed ==
    ASSUME NamedTypes, NEW t \in Ticks, TickStart(t) \/ TickStep(t)
    PROVE  Undisturbed \/ SyncStep(t) \/ \E d \in tick[t].due : PassRow(t, d)
<1>0. Clocked \subseteq Agents BY SchedulerAssumption DEF SchedulerAssumption
<1>1. CASE TickStart(t) BY <1>1 DEF TickStart, Undisturbed, NamedTypes, row
<1>2. ASSUME NEW s \in tick[t].stale, ReclaimRow(t, s) PROVE Undisturbed
  BY <1>2 DEF ReclaimRow, Undisturbed, NamedTypes
<1>3. CASE FailStaleRun(t) BY <1>3 DEF FailStaleRun, Undisturbed, NamedTypes, row
<1>4. CASE TickSwitchOff(t)
  <2>1. \A b \in Agents : active'[b] => active[b] BY <1>0, <1>4, Switching DEF TickSwitchOff
  <2>2. \A u \in Ticks : tick[u].pc = "sync" => tick'[u].pc = "sync"
    BY <1>4 DEF TickSwitchOff, MoveTick, NamedTypes
  <2>3. UNCHANGED <<next, sync, editor>> BY <1>4 DEF TickSwitchOff
  <2> QED BY <2>1, <2>2, <2>3 DEF Undisturbed
<1>5. CASE SelectDue(t) BY <1>5 DEF SelectDue, Undisturbed, NamedTypes, row
<1>6. CASE ReadBusySpaces(t) BY <1>6 DEF ReadBusySpaces, Undisturbed, NamedTypes, row
<1>7. ASSUME NEW d \in tick[t].due, NEW r \in Runs, ScheduledClaim(t, d, r) PROVE Undisturbed
  <2>1. \A b \in Clocked : next'[b] = "never" => next[b] = "never"
    BY <1>0, <1>7 DEF ScheduledClaim, NextOccurrence, NamedTypes
  <2>2. \A u \in Ticks : tick[u].pc = "sync" => tick'[u].pc = "sync"
    BY <1>7 DEF ScheduledClaim, Visiting, NamedTypes
  <2>3. UNCHANGED <<active, sync, editor>> BY <1>7 DEF ScheduledClaim
  <2> QED BY <2>1, <2>2, <2>3 DEF Undisturbed
<1>8. CASE HandBack(t)
  <2>1. \A b \in Clocked : next'[b] = "never" => next[b] = "never"
    BY <1>0, <1>8 DEF HandBack, NextOccurrence, NamedTypes
  <2>2. \A u \in Ticks : tick[u].pc = "sync" => tick'[u].pc = "sync"
    BY <1>8 DEF HandBack, NamedTypes
  <2>3. UNCHANGED <<active, sync, editor>> BY <1>8 DEF HandBack
  <2> QED BY <2>1, <2>2, <2>3 DEF Undisturbed
<1>9. CASE CreateScheduledRun(t) BY <1>9 DEF CreateScheduledRun, Undisturbed, NamedTypes, row
<1>10. CASE Dispatch(t) BY <1>10 DEF Dispatch, Undisturbed, NamedTypes, row
<1> QED BY <1>1, <1>2, <1>3, <1>4, <1>5, <1>6, <1>7, <1>8, <1>9, <1>10 DEF TickStep

\* The steps of runs disturb no sync and take no clock away.
LEMMA RunUndisturbed ==
    ASSUME NamedTypes, NEW r \in Runs,
           \/ RunStep(r) \/ Overstay(r) \/ LoseDispatch(r) \/ RunDies(r) \/ GroupDies(r) \/ ReleaseThrows(r) \/ RearmFails(r)
           \/ \E a \in Agents, d \in Doors : AskManualRun(r, a, d)
    PROVE  Undisturbed
<1>0. Clocked \subseteq Agents BY SchedulerAssumption DEF SchedulerAssumption
<1>1. UNCHANGED <<active, next, sync, tick, editor>> => Undisturbed BY DEF Undisturbed
<1>2. CASE ResetToClock(r)
  <2>1. \A b \in Clocked : next'[b] = "never" => next[b] = "never"
    BY <1>0, <1>2 DEF ResetToClock, NextOccurrence, NamedTypes
  <2>2. UNCHANGED <<active, sync, editor, tick>> BY <1>2 DEF ResetToClock
  <2> QED BY <2>1, <2>2 DEF Undisturbed
<1>3. CASE PullForRelease(r)
  <2>1. \A b \in Clocked : next'[b] = "never" => next[b] = "never"
    BY <1>0, <1>3 DEF PullForRelease, PullForward, PulledForward, NamedTypes
  <2>2. UNCHANGED <<active, sync, editor, tick>> BY <1>3 DEF PullForRelease
  <2> QED BY <2>1, <2>2 DEF Undisturbed
<1>4. CASE RunSwitchOff(r)
  <2>1. \A b \in Agents : active'[b] => active[b] BY <1>0, <1>4, Switching DEF RunSwitchOff
  <2>2. UNCHANGED <<next, sync, editor, tick>> BY <1>4 DEF RunSwitchOff
  <2> QED BY <2>1, <2>2 DEF Undisturbed
<1>5. ASSUME RunStep(r), ~ResetToClock(r), ~PullForRelease(r), ~RunSwitchOff(r)
     PROVE  UNCHANGED <<active, next, sync, tick, editor>>
  BY <1>5 DEF RunStep, ClaimEvents, GateWake, CreateFanOutRun, ManualClaim, CreateManualRun, StartRun, FinishRun,
              ReadForRelease, ReleaseRow, RearmIfPending, SettleRun, FanOut, row
<1>6. ASSUME \/ Overstay(r) \/ LoseDispatch(r) \/ RunDies(r) \/ GroupDies(r) \/ ReleaseThrows(r) \/ RearmFails(r)
             \/ \E a \in Agents, d \in Doors : AskManualRun(r, a, d)
     PROVE  UNCHANGED <<active, next, sync, tick, editor>>
  BY <1>6 DEF Overstay, LoseDispatch, RunDies, GroupDies, ReleaseThrows, RearmFails, AskManualRun, row
<1> QED BY <1>1, <1>2, <1>3, <1>4, <1>5, <1>6

\* So only syncs, those who begin one and the deaths of those who make one do.
LEMMA SyncMoves ==
    ASSUME NamedTypes, [Next]_vars
    PROVE  \/ Undisturbed
           \/ \E x \in Syncers : SyncStep(x)
           \/ \E t \in Ticks : TickDies(t) \/ \E d \in tick[t].due : PassRow(t, d)
           \/ \E e \in Editors : \/ EditorDies(e)
                                 \/ \E a \in Agents : \/ "activate" \in Edits /\ Activate(e, a)
                                                      \/ "save" \in Edits /\ SaveBrief(e, a)
<1>0. Clocked \subseteq Agents BY SchedulerAssumption DEF SchedulerAssumption
<1>1. UNCHANGED <<active, next, sync, tick, editor>> => Undisturbed BY DEF Undisturbed
<1>2. ASSUME NEW s \in Senders, SenderStep(s) \/ SenderDies(s) \/ \E a \in Agents, k \in Keys : CountPending(s, a, k)
     PROVE  Undisturbed
  <2>1. CASE InsertEvent(s) BY <1>1, <2>1 DEF InsertEvent, row
  <2>2. CASE PullForInsert(s)
    <3>1. \A b \in Clocked : next'[b] = "never" => next[b] = "never"
      BY <1>0, <2>2 DEF PullForInsert, PullForward, PulledForward, NamedTypes
    <3>2. UNCHANGED <<active, sync, editor, tick>> BY <2>2 DEF PullForInsert
    <3> QED BY <3>1, <3>2 DEF Undisturbed
  <2>3. CASE SenderDies(s) \/ \E a \in Agents, k \in Keys : CountPending(s, a, k)
    BY <1>1, <2>3 DEF SenderDies, CountPending, row
  <2> QED BY <1>2, <2>1, <2>2, <2>3 DEF SenderStep
<1>3. ASSUME NEW a \in Agents, ClockComes(a) \/ DebounceEnds(a)
     PROVE  Undisturbed
  <2>1. \A b \in Clocked : next'[b] = "never" => next[b] = "never"
    BY <1>0, <1>3 DEF ClockComes, DebounceEnds, NamedTypes
  <2>2. UNCHANGED <<active, sync, editor, tick>> BY <1>3 DEF ClockComes, DebounceEnds
  <2> QED BY <2>1, <2>2 DEF Undisturbed
<1>4. ASSUME NEW e \in Editors, NEW a \in Agents, PersonSwitchOff(e, a)
     PROVE  Undisturbed
  <2>1. \A b \in Agents : active'[b] => active[b] BY <1>0, <1>4, Switching DEF PersonSwitchOff
  <2>2. \A f \in Editors : editor[f].pc = "syncing" => editor'[f].pc = "syncing"
    BY <1>4 DEF PersonSwitchOff, NamedTypes
  <2>3. UNCHANGED <<next, sync, tick>> BY <1>4 DEF PersonSwitchOff
  <2> QED BY <2>1, <2>2, <2>3 DEF Undisturbed
<1>5. UNCHANGED vars => Undisturbed BY <1>1 DEF vars, row
<1> HIDE DEF Undisturbed
<1> QED
  BY <1>2, <1>3, <1>4, <1>5, TickUndisturbed, RunUndisturbed DEF Next, TimePasses, Syncers

\* What a sync names, by its phase, and who makes one.
LEMMA SyncTypes ==
    ASSUME NamedTypes
    PROVE  /\ \A x \in Syncers : sync[x].pc # "none" => sync[x].agent \in Agents
           /\ \A x \in Syncers : sync[x].agent \in Agents \cup {None}
           /\ sync \in [Syncers -> SyncRecord]
           /\ tick \in [Ticks -> TickRecord] /\ editor \in [Editors -> EditorRecord]
           /\ Ticks \cap Editors = {} /\ Ticks \subseteq Syncers /\ Editors \subseteq Syncers
           /\ Clocked \subseteq Agents /\ None \notin Agents
<1>1. /\ Ticks \cap Editors = {} /\ Clocked \subseteq Agents /\ None \notin Agents
  BY SchedulerAssumption DEF SchedulerAssumption
<1> QED BY <1>1 DEF NamedTypes, NamedSyncs, NamedTicks, Syncers, SyncRecord

\* What a sync's three steps do to it.
LEMMA SyncReads ==
    ASSUME NamedTypes, NEW x \in Syncers, SyncRead(x)
    PROVE  /\ \A y \in Syncers : sync'[y].agent = sync[y].agent
           /\ \A y \in Syncers : y # x => sync'[y] = sync[y]
           /\ sync'[x].pc = "derive" /\ sync[x].pc # "none"
           /\ sync'[x].want = sync[x].want
           /\ UNCHANGED <<active, current, next, mail, tick, editor, sender, run, failures>>
BY SyncTypes DEF SyncRead, SyncRecord, row

\* The second step decides whether the agent is to be on, and derives its next fire.
LEMMA SyncDerives ==
    ASSUME NamedTypes, NEW x \in Syncers, SyncDerive(x)
    PROVE  /\ \A y \in Syncers : sync'[y].agent = sync[y].agent
           /\ \A y \in Syncers : y # x => sync'[y] = sync[y]
           /\ sync'[x].pc = "write" /\ sync[x].pc # "none"
           /\ sync'[x].want = active[sync[x].agent]
           /\ active[sync[x].agent] /\ sync[x].agent \in Clocked => sync'[x].fresh # "never"
           /\ UNCHANGED <<active, current, next, mail, tick, editor, sender, run, failures>>
<1>1. /\ \A y \in Syncers : sync'[y].agent = sync[y].agent
      /\ \A y \in Syncers : y # x => sync'[y] = sync[y]
      /\ sync'[x].pc = "write" /\ sync[x].pc # "none"
      /\ UNCHANGED <<active, current, next, mail, tick, editor, sender, run, failures>>
  BY SyncTypes DEF SyncDerive, SyncRecord, row
<1>2. sync'[x].want = active[sync[x].agent]
  BY Zenon, SyncTypes DEF SyncDerive, SyncRecord
<1>3. ASSUME active[sync[x].agent], sync[x].agent \in Clocked
     PROVE  sync'[x].fresh # "never"
  BY <1>3, SyncTypes DEF SyncDerive, SyncRecord, NextOccurrence
<1> QED BY <1>1, <1>2, <1>3

\* The third writes both, and keeps the next fire it read of a running row.
LEMMA SyncWrites ==
    ASSUME NamedTypes, NEW x \in Syncers, SyncWrite(x)
    PROVE  /\ sync[x].pc = "write" /\ sync[x].agent \in Agents
           /\ sync'[x] = NoSync
           /\ \A y \in Syncers : y # x => sync'[y] = sync[y]
           /\ active'[sync[x].agent] = sync[x].want
           /\ \A b \in Agents : b # sync[x].agent => active'[b] = active[b] /\ next'[b] = next[b]
           /\ sync[x].want /\ ~sync[x].sawRunning => next'[sync[x].agent] = sync[x].fresh
           /\ ~sync[x].want => UNCHANGED failures
           /\ UNCHANGED <<current, mail, run, sender>>
           /\ \A t \in Ticks : t # x => tick'[t] = tick[t]
           /\ \A t \in Ticks : tick'[t].agent = tick[t].agent /\ (tick[t].pc # "sync" /\ t # x => tick'[t].pc = tick[t].pc)
           /\ \A e \in Editors : e # x => editor'[e] = editor[e]
<1>1. sync[x].pc = "write" BY DEF SyncWrite
<1>2. sync[x].agent \in Agents BY <1>1, SyncTypes
<1>3. /\ sync'[x] = NoSync
      /\ \A y \in Syncers : y # x => sync'[y] = sync[y]
      /\ UNCHANGED <<current, mail, run, sender>>
  BY SyncTypes DEF SyncWrite
<1>4. active' = [active EXCEPT ![sync[x].agent] = sync[x].want] BY DEF SyncWrite
<1>5. active'[sync[x].agent] = sync[x].want /\ \A b \in Agents : b # sync[x].agent => active'[b] = active[b]
  BY Zenon, <1>2, <1>4 DEF NamedTypes
<1>6. next' = [next EXCEPT ![sync[x].agent] = IF sync[x].sawRunning /\ sync[x].want THEN sync[x].sawNext ELSE sync[x].fresh]
  BY DEF SyncWrite
<1>7. \A b \in Agents : b # sync[x].agent => next'[b] = next[b] BY Zenon, <1>2, <1>6 DEF NamedTypes
<1>8. ASSUME ~sync[x].sawRunning PROVE next'[sync[x].agent] = sync[x].fresh
  BY Zenon, <1>2, <1>6, <1>8 DEF NamedTypes
<1>9. ~sync[x].want => UNCHANGED failures BY Zenon DEF SyncWrite
<1>10. /\ \A t \in Ticks : t # x => tick'[t] = tick[t]
       /\ \A t \in Ticks : tick'[t].agent = tick[t].agent
       /\ \A e \in Editors : e # x => editor'[e] = editor[e]
  BY SyncTypes DEF SyncWrite, TickRecord
<1> QED BY <1>1, <1>2, <1>3, <1>5, <1>7, <1>8, <1>9, <1>10

\* A request begins its sync, or dies.
LEMMA SyncBegins ==
    ASSUME NamedTypes, NEW x \in Syncers, NEW a \in Agents, BeginSync(x, a)
    PROVE  /\ sync'[x].pc = "read" /\ sync'[x].agent = a /\ sync'[x].want = FALSE
           /\ \A y \in Syncers : y # x => sync'[y] = sync[y]
<1>1. sync'[x].pc = "read" /\ sync'[x].agent = a /\ \A y \in Syncers : y # x => sync'[y] = sync[y]
  BY SyncTypes DEF BeginSync, NoSync
<1>2. sync'[x].want = FALSE BY Zenon, SyncTypes DEF BeginSync, NoSync
<1> QED BY <1>1, <1>2

\* An agent comes on because a person switches it on, or because a sync wants it on.
LEMMA ComesOn ==
    ASSUME NamedTypes, [Next]_vars, NEW a \in Agents, ~active[a], active'[a]
    PROVE  \/ \E e \in Editors : Activate(e, a)
           \/ \E x \in Syncers : SyncWrite(x) /\ sync[x].agent = a /\ sync[x].want
<1>1. CASE Undisturbed BY <1>1 DEF Undisturbed
<1>2. ASSUME NEW x \in Syncers, SyncRead(x) \/ SyncDerive(x) PROVE FALSE
  <2>1. active' = active BY <1>2, SyncReads, SyncDerives
  <2> QED BY <2>1
<1>3. ASSUME NEW x \in Syncers, SyncWrite(x) PROVE sync[x].agent = a /\ sync[x].want
  <2>1. sync[x].agent = a BY <1>3, SyncWrites
  <2>2. active'[a] = sync[x].want BY <1>3, <2>1, SyncWrites
  <2> QED BY Zenon, <2>1, <2>2
<1>4. ASSUME NEW t \in Ticks, TickDies(t) \/ \E d \in tick[t].due : PassRow(t, d) PROVE FALSE
  BY <1>4 DEF TickDies, PassRow, row
<1>5. ASSUME NEW e \in Editors, EditorDies(e) \/ \E b \in Agents : SaveBrief(e, b) PROVE FALSE
  BY <1>5 DEF EditorDies, SaveBrief, row
<1>6. ASSUME NEW e \in Editors, NEW b \in Agents, Activate(e, b) PROVE b = a
  BY <1>6 DEF Activate, NamedTypes
<1> QED BY <1>1, <1>2, <1>3, <1>4, <1>5, <1>6, SyncMoves DEF SyncStep

\* A sync that was re-deriving an agent still is, or it wrote the row, or its request died.
LEMMA SyncStays ==
    ASSUME NamedTypes, SyncsAtWork, [Next]_vars, NEW a \in Agents, NEW x \in Syncers, sync[x].agent = a, sync'[x].agent # a
    PROVE  \/ SyncWrite(x)
           \/ x \in Editors /\ EditorDies(x)
           \/ x \in Ticks /\ TickDies(x)
<1>0. a # None /\ Ticks \subseteq Syncers /\ Editors \subseteq Syncers BY SyncTypes
<1>1. CASE Undisturbed BY <1>1 DEF Undisturbed
<1>2. ASSUME NEW y \in Syncers, SyncRead(y) \/ SyncDerive(y) PROVE FALSE
  <2>1. sync'[x].agent = sync[x].agent BY <1>2, SyncReads, SyncDerives
  <2> QED BY <2>1
<1>3. ASSUME NEW y \in Syncers, SyncWrite(y) PROVE SyncWrite(x)
  <2>1. y # x => sync'[x] = sync[x] BY <1>3, SyncWrites
  <2> QED BY <1>3, <2>1
<1>4. ASSUME NEW t \in Ticks, TickDies(t) PROVE x \in Ticks /\ TickDies(x)
  <2>1. t # x => sync'[x] = sync[x] BY <1>4, SyncTypes DEF TickDies
  <2> QED BY <1>4, <2>1
<1>5. ASSUME NEW e \in Editors, EditorDies(e) PROVE x \in Editors /\ EditorDies(x)
  <2>1. e # x => sync'[x] = sync[x] BY <1>5, SyncTypes DEF EditorDies
  <2> QED BY <1>5, <2>1
<1>6. ASSUME NEW t \in Ticks, NEW d \in tick[t].due, PassRow(t, d) PROVE FALSE
  <2>1. tick[t].pc = "visit" BY <1>6 DEF PassRow, Visiting
  <2>2. t # x BY <1>0, <2>1 DEF SyncsAtWork
  <2>3. sync'[x] = sync[x] BY <1>6, <2>2, SyncTypes DEF PassRow, BeginSync
  <2> QED BY <2>3
<1>7. ASSUME NEW e \in Editors, NEW b \in Agents, Activate(e, b) \/ SaveBrief(e, b) PROVE FALSE
  <2>1. editor[e].pc = "idle" /\ BeginSync(e, b) BY <1>7 DEF Activate, SaveBrief
  <2>2. e # x BY <1>0, <2>1 DEF SyncsAtWork
  <2>3. sync'[x] = sync[x] BY <1>0, <2>1, <2>2, SyncBegins
  <2> QED BY <2>3
<1> QED BY <1>1, <1>2, <1>3, <1>4, <1>5, <1>6, <1>7, SyncMoves DEF SyncStep

\* Every step keeps the invariant of syncs.
LEMMA SyncInvStep ==
    ASSUME IInv, SyncInv, [Next]_vars
    PROVE  SyncInv'
<1>N. NamedTypes BY DEF IInv
<1>0. NoSync.agent = None /\ NoSync.pc = "none" BY DEF NoSync
<1>1. CASE Undisturbed
  <2>1. SyncsAtWork' BY <1>1 DEF Undisturbed, SyncInv, SyncsAtWork
  <2>2. WantedHasAFire' BY <1>1 DEF Undisturbed, SyncInv, WantedHasAFire
  <2> QED BY <2>1, <2>2 DEF SyncInv
<1>2. ASSUME NEW x \in Syncers, SyncRead(x) PROVE SyncInv'
  <2>1. SyncsAtWork' BY <1>2, <1>N, SyncReads, SyncTypes DEF SyncInv, SyncsAtWork
  <2>2. WantedHasAFire' BY <1>2, <1>N, SyncReads DEF SyncInv, WantedHasAFire
  <2> QED BY <2>1, <2>2 DEF SyncInv
<1>3. ASSUME NEW x \in Syncers, SyncDerive(x) PROVE SyncInv'
  <2>1. SyncsAtWork' BY <1>3, <1>N, SyncDerives, SyncTypes DEF SyncInv, SyncsAtWork
  <2>2. WantedHasAFire' BY <1>3, <1>N, SyncDerives DEF SyncInv, WantedHasAFire
  <2> QED BY <2>1, <2>2 DEF SyncInv
<1>4. ASSUME NEW x \in Syncers, SyncWrite(x) PROVE SyncInv'
  <2>1. SyncsAtWork' BY <1>4, <1>N, <1>0, SyncWrites, SyncTypes DEF SyncInv, SyncsAtWork
  <2>2. WantedHasAFire' BY <1>4, <1>N, <1>0, SyncWrites DEF SyncInv, WantedHasAFire
  <2> QED BY <2>1, <2>2 DEF SyncInv
<1>5. ASSUME NEW t \in Ticks, TickDies(t) PROVE SyncInv'
  <2>1. /\ sync'[t] = NoSync /\ \A y \in Syncers : y # t => sync'[y] = sync[y]
        /\ \A u \in Ticks : u # t => tick'[u] = tick[u]
        /\ editor' = editor
    BY <1>5, <1>N, SyncTypes DEF TickDies
  <2>2. SyncsAtWork' BY <2>1, <1>0, <1>N, SyncTypes DEF SyncInv, SyncsAtWork
  <2>3. WantedHasAFire' BY <2>1, <1>0 DEF SyncInv, WantedHasAFire
  <2> QED BY <2>2, <2>3 DEF SyncInv
<1>6. ASSUME NEW e \in Editors, EditorDies(e) PROVE SyncInv'
  <2>1. /\ sync'[e] = NoSync /\ \A y \in Syncers : y # e => sync'[y] = sync[y]
        /\ \A f \in Editors : f # e => editor'[f] = editor[f]
        /\ tick' = tick
    BY <1>6, <1>N, SyncTypes DEF EditorDies
  <2>2. SyncsAtWork' BY <2>1, <1>0, <1>N, SyncTypes DEF SyncInv, SyncsAtWork
  <2>3. WantedHasAFire' BY <2>1, <1>0 DEF SyncInv, WantedHasAFire
  <2> QED BY <2>2, <2>3 DEF SyncInv
<1>7. ASSUME NEW t \in Ticks, NEW d \in tick[t].due, PassRow(t, d) PROVE SyncInv'
  <2>0. d.agent \in Agents BY <1>N, SyncTypes DEF TickRecord
  <2>1. tick[t].pc = "visit" /\ editor' = editor /\ \A u \in Ticks : u # t => tick'[u] = tick[u]
    BY <1>7, <1>N, SyncTypes DEF PassRow, Visiting
  <2>2. CASE sync' = sync /\ tick'[t].pc = "visit"
    BY <2>1, <2>2, <1>N, SyncTypes DEF SyncInv, SyncsAtWork, WantedHasAFire
  <2>3. CASE BeginSync(t, d.agent) /\ tick'[t].pc = "sync"
    <3>1. /\ sync'[t].pc = "read" /\ \A y \in Syncers : y # t => sync'[y] = sync[y]
      BY <2>0, <2>3, <1>N, SyncBegins, SyncTypes
    <3>2. SyncsAtWork' BY <2>1, <2>3, <3>1, <1>N, SyncTypes DEF SyncInv, SyncsAtWork
    <3>3. WantedHasAFire' BY <3>1 DEF SyncInv, WantedHasAFire
    <3> QED BY <3>2, <3>3 DEF SyncInv
  <2>4. (sync' = sync /\ tick'[t].pc = "visit") \/ (BeginSync(t, d.agent) /\ tick'[t].pc = "sync")
    BY <1>7, <1>N, SyncTypes DEF PassRow, Visiting, TickRecord
  <2> QED BY <2>2, <2>3, <2>4
<1>8. ASSUME NEW e \in Editors, NEW a \in Agents, Activate(e, a) \/ SaveBrief(e, a) PROVE SyncInv'
  <2>1. /\ BeginSync(e, a) /\ tick' = tick /\ editor'[e].pc = "syncing"
        /\ \A f \in Editors : f # e => editor'[f] = editor[f]
    <3>1. ASSUME NEW n, n.pc = "syncing", editor' = [editor EXCEPT ![e] = n]
         PROVE  editor'[e].pc = "syncing" /\ \A f \in Editors : f # e => editor'[f] = editor[f]
      BY <3>1, <1>N DEF NamedTypes
    <3>2. [IdleEditor EXCEPT !.pc = "syncing", !.agent = a].pc = "syncing" BY DEF IdleEditor
    <3>3. \E n : n.pc = "syncing" /\ editor' = [editor EXCEPT ![e] = n] BY <1>8, <3>2 DEF Activate, SaveBrief
    <3>4. BeginSync(e, a) /\ tick' = tick BY <1>8 DEF Activate, SaveBrief
    <3> QED BY <3>1, <3>3, <3>4
  <2>2. /\ sync'[e].pc = "read" /\ \A y \in Syncers : y # e => sync'[y] = sync[y]
    BY <2>1, <1>N, SyncBegins, SyncTypes
  <2>3. SyncsAtWork' BY <2>1, <2>2, <1>N, SyncTypes DEF SyncInv, SyncsAtWork
  <2>4. WantedHasAFire' BY <2>2 DEF SyncInv, WantedHasAFire
  <2> QED BY <2>3, <2>4 DEF SyncInv
<1> HIDE DEF SyncInv
<1> QED BY <1>1, <1>2, <1>3, <1>4, <1>5, <1>6, <1>7, <1>8, <1>N, SyncMoves DEF SyncStep

\* A sync is held by a request at work, and a scheduled agent it is to leave on gets a fire.
LEMMA SyncInvHolds == Spec => []SyncInv
<1>1. Init => SyncInv
  BY DEF Init, SyncInv, SyncsAtWork, WantedHasAFire, NoSync, Syncers
<1> QED BY <1>1, SyncInvStep, Inductive, PTL DEF Spec

\* Whatever people, briefs, runs and ticks do together, a scheduled agent that is on
\* loses its clock only to a sync that kept what it had read of a running row, or to
\* the death of the request whose sync would have given it one (syncAgentState).
THEOREM ClockLostByTwo == Spec => OnlyAKeptRowLosesTheClock
<1> DEFINE Blamed(a) ==
      \E x \in Syncers : /\ sync[x].agent = a
                         /\ \/ sync[x].sawRunning /\ SyncWrite(x)
                            \/ x \in Editors /\ EditorDies(x)
                            \/ x \in Ticks /\ TickDies(x)
<1>1. ASSUME IInv, SyncInv, [Next]_vars, NEW a \in Clocked, ~ClockLost(a), ClockLost(a)'
     PROVE  Blamed(a)
  <2>N. NamedTypes /\ a \in Agents /\ a # None /\ SyncsAtWork
    <3>1. NamedTypes /\ SyncsAtWork BY <1>1 DEF IInv, SyncInv
    <3> QED BY <3>1, SyncTypes
  <2>0. active'[a] /\ next'[a] = "never" /\ \A y \in Syncers : sync'[y].agent # a BY <1>1 DEF ClockLost
  <2>9. active[a] /\ next[a] = "never" => \E y \in Syncers : sync[y].agent = a BY <1>1 DEF ClockLost
  <2> HIDE DEF Blamed
  <2>1. CASE Undisturbed
    BY <2>0, <2>1, <2>9, <2>N DEF Undisturbed
  <2>2. ASSUME NEW x \in Syncers, SyncRead(x) \/ SyncDerive(x) PROVE FALSE
    <3>1. UNCHANGED <<active, next>> /\ \A y \in Syncers : sync'[y].agent = sync[y].agent
      BY <2>2, <2>N, SyncReads, SyncDerives
    <3> QED BY <2>0, <2>9, <3>1
  <2>3. ASSUME NEW x \in Syncers, SyncWrite(x) PROVE Blamed(a)
    <3>1. CASE a # sync[x].agent
      <4>1. active'[a] = active[a] /\ next'[a] = next[a] /\ \A y \in Syncers : y # x => sync'[y] = sync[y]
        BY <2>3, <2>N, <3>1, SyncWrites
      <4> QED BY <2>0, <2>9, <3>1, <4>1
    <3>2. CASE a = sync[x].agent
      <4>1. sync[x].pc = "write" /\ active'[a] = sync[x].want BY <2>3, <2>N, <3>2, SyncWrites
      <4>2. sync[x].want /\ ~sync[x].sawRunning => next'[a] = sync[x].fresh BY <2>3, <2>N, <3>2, SyncWrites
      <4>3. sync[x].want => sync[x].fresh # "never" BY <1>1, <3>2, <4>1 DEF SyncInv, WantedHasAFire
      <4>4. sync[x].sawRunning BY Zenon, <2>0, <4>1, <4>2, <4>3
      <4> QED BY <2>3, <3>2, <4>4 DEF Blamed
    <3> QED BY <3>1, <3>2
  <2>4. ASSUME NEW t \in Ticks, TickDies(t) PROVE Blamed(a)
    <3>1. UNCHANGED <<active, next>> /\ \A y \in Syncers : y # t => sync'[y] = sync[y]
      BY <2>4, <2>N, SyncTypes DEF TickDies, row
    <3>2. sync[t].agent = a BY <2>0, <2>9, <3>1
    <3> QED BY <2>4, <3>2, <2>N, SyncTypes DEF Blamed
  <2>5. ASSUME NEW e \in Editors, EditorDies(e) PROVE Blamed(a)
    <3>1. UNCHANGED <<active, next>> /\ \A y \in Syncers : y # e => sync'[y] = sync[y]
      BY <2>5, <2>N, SyncTypes DEF EditorDies, row
    <3>2. sync[e].agent = a BY <2>0, <2>9, <3>1
    <3> QED BY <2>5, <3>2, <2>N, SyncTypes DEF Blamed
  <2>6. ASSUME NEW t \in Ticks, NEW d \in tick[t].due, PassRow(t, d) PROVE FALSE
    <3>1. UNCHANGED <<active, next>> /\ tick[t].pc = "visit" BY <2>6 DEF PassRow, Visiting, row
    <3>2. \A y \in Syncers : y # t => sync'[y] = sync[y]
      BY <2>6, <2>N, SyncTypes DEF PassRow, BeginSync
    <3>3. sync[t].agent = None BY <3>1, <2>N DEF SyncsAtWork
    <3> QED BY <2>0, <2>9, <2>N, <3>1, <3>2, <3>3
  <2>7. ASSUME NEW e \in Editors, NEW b \in Agents, Activate(e, b) \/ SaveBrief(e, b) PROVE FALSE
    <3>1. next' = next /\ editor[e].pc = "idle" /\ BeginSync(e, b) BY <2>7 DEF Activate, SaveBrief, row
    <3>2. sync'[e].agent = b /\ \A y \in Syncers : y # e => sync'[y] = sync[y]
      BY <3>1, <2>N, SyncBegins, SyncTypes
    <3>3. sync[e].agent = None BY <3>1, <2>N DEF SyncsAtWork
    <3>4. a # b BY <2>0, <2>N, <3>2, SyncTypes
    <3>5. active'[a] = active[a] BY <2>7, <2>N, <3>4 DEF Activate, SaveBrief, NamedTypes, row
    <3> QED BY <2>0, <2>9, <2>N, <3>1, <3>2, <3>3, <3>5
  <2> QED BY <1>1, <2>1, <2>2, <2>3, <2>4, <2>5, <2>6, <2>7, <2>N, SyncMoves DEF SyncStep
<1>2. IInv /\ SyncInv /\ [Next]_vars => [\A a \in Clocked : ~ClockLost(a) /\ ClockLost(a)' => Blamed(a)]_vars
  <2> HIDE DEF Blamed
  <2> QED BY <1>1
<1> QED BY <1>2, Inductive, SyncInvHolds, PTL DEF Spec, OnlyAKeptRowLosesTheClock

-----------------------------------------------------------------------------
(* The clock, while nobody switches an agent on or saves its brief *)

\* What is being re-derived is off and is to stay off.
OffStays == \A x \in Syncers : sync[x].agent # None => ~active[sync[x].agent] /\ ~sync[x].want

\* With nobody to switch an agent on, none is switched on.
LEMMA NoneComesOn ==
    ASSUME IInv, OffStays, [Next]_vars, Edits \subseteq {"off"}
    PROVE  OffStays' /\ \A a \in Agents : active'[a] => active[a]
<1>N. NamedTypes BY DEF IInv
<1>0. NoSync.agent = None /\ NoSync.pc = "none" BY DEF NoSync
<1>1. CASE Undisturbed
  BY <1>1, <1>N, SyncTypes DEF Undisturbed, OffStays
<1>2. ASSUME NEW x \in Syncers, SyncRead(x) PROVE OffStays' /\ active' = active
  BY <1>2, <1>N, SyncReads, SyncTypes DEF OffStays
<1>3. ASSUME NEW x \in Syncers, SyncDerive(x) PROVE OffStays' /\ active' = active
  <2>1. \A y \in Syncers : y # x => sync'[y] = sync[y] BY <1>3, <1>N, SyncDerives
  <2>2. /\ sync'[x].agent = sync[x].agent /\ sync[x].agent \in Agents /\ sync[x].agent # None
        /\ sync'[x].want = active[sync[x].agent] /\ active' = active
    BY <1>3, <1>N, SyncDerives, SyncTypes
  <2>3. ~active[sync[x].agent] BY <2>2 DEF OffStays
  <2>4. ~sync'[x].want BY Zenon, <2>2, <2>3
  <2> QED BY <2>1, <2>2, <2>3, <2>4 DEF OffStays
<1>4. ASSUME NEW x \in Syncers, SyncWrite(x) PROVE OffStays' /\ \A a \in Agents : active'[a] => active[a]
  <2>1. ~sync[x].want BY <1>4, <1>N, SyncWrites, SyncTypes DEF OffStays
  <2>2. \A a \in Agents : active'[a] => active[a] BY <1>4, <1>N, <2>1, SyncWrites
  <2>3. OffStays' BY <1>4, <1>N, <1>0, <2>2, SyncWrites, SyncTypes DEF OffStays
  <2> QED BY <2>2, <2>3
<1>5. ASSUME NEW t \in Ticks, TickDies(t) PROVE OffStays' /\ active' = active
  <2>1. /\ sync'[t] = NoSync /\ \A y \in Syncers : y # t => sync'[y] = sync[y]
        /\ active' = active
    BY <1>5, <1>N, SyncTypes DEF TickDies, row
  <2> QED BY <2>1, <1>0 DEF OffStays
<1>6. ASSUME NEW e \in Editors, EditorDies(e) PROVE OffStays' /\ active' = active
  <2>1. /\ sync'[e] = NoSync /\ \A y \in Syncers : y # e => sync'[y] = sync[y]
        /\ active' = active
    BY <1>6, <1>N, SyncTypes DEF EditorDies, row
  <2> QED BY <2>1, <1>0 DEF OffStays
<1>7. ASSUME NEW t \in Ticks, NEW d \in tick[t].due, PassRow(t, d) PROVE OffStays' /\ active' = active
  <2>0. d.agent \in Agents BY <1>N, SyncTypes DEF TickRecord
  <2>1. active' = active /\ (sync' = sync \/ (BeginSync(t, d.agent) /\ ~active[d.agent]))
    BY <1>7 DEF PassRow, row
  <2>2. ASSUME BeginSync(t, d.agent), ~active[d.agent] PROVE OffStays'
    <3>1. /\ sync'[t].agent = d.agent /\ sync'[t].want = FALSE /\ \A y \in Syncers : y # t => sync'[y] = sync[y]
      BY <2>0, <2>2, <1>N, SyncBegins, SyncTypes
    <3> QED BY <2>1, <2>2, <3>1 DEF OffStays
  <2>3. sync' = sync => OffStays' BY <2>1 DEF OffStays
  <2> QED BY <2>1, <2>2, <2>3
<1>8. "activate" \notin Edits /\ "save" \notin Edits OBVIOUS
<1>9. CASE Undisturbed \/ (\E x \in Syncers : SyncStep(x))
           \/ (\E t \in Ticks : TickDies(t) \/ \E d \in tick[t].due : PassRow(t, d))
           \/ (\E e \in Editors : EditorDies(e))
  BY <1>1, <1>2, <1>3, <1>4, <1>5, <1>6, <1>7, <1>9 DEF SyncStep
<1> QED BY <1>8, <1>9, <1>N, SyncMoves

\* Clocked agents that are on keep a next fire.
LEMMA ClockStep ==
    ASSUME IInv, OffStays, ClockKept, [Next]_vars, Edits \subseteq {"off"}
    PROVE  ClockKept'
<1>N. NamedTypes BY DEF IInv
<1>1. \A a \in Clocked : active'[a] => a \in Agents /\ active[a] /\ next[a] # "never"
  BY <1>N, NoneComesOn, SyncTypes DEF ClockKept
<1>2. SUFFICES ASSUME NEW a \in Clocked, active[a], a \in Agents, next[a] # "never" PROVE next'[a] # "never"
  BY <1>1 DEF ClockKept
<1>3. CASE Undisturbed BY <1>2, <1>3 DEF Undisturbed
<1>4. ASSUME NEW x \in Syncers, SyncRead(x) \/ SyncDerive(x) PROVE next' = next
  BY <1>4, <1>N, SyncReads, SyncDerives
<1>5. ASSUME NEW x \in Syncers, SyncWrite(x) PROVE next'[a] = next[a]
  <2>1. sync[x].agent # a BY <1>2, <1>5, <1>N, SyncWrites, SyncTypes DEF OffStays
  <2> QED BY <1>2, <1>5, <1>N, <2>1, SyncWrites
<1>6. ASSUME NEW t \in Ticks, TickDies(t) \/ \E d \in tick[t].due : PassRow(t, d) PROVE next' = next
  BY <1>6 DEF TickDies, PassRow, row
<1>7. ASSUME NEW e \in Editors, EditorDies(e) PROVE next' = next
  BY <1>7 DEF EditorDies, row
<1>8. "activate" \notin Edits /\ "save" \notin Edits OBVIOUS
<1> QED BY <1>2, <1>3, <1>4, <1>5, <1>6, <1>7, <1>8, <1>N, SyncMoves DEF SyncStep

\* While people only switch agents off, what a tick re-derives is off and stays off.
LEMMA OffStaysOff ==
    ASSUME Edits \subseteq {"off"}
    PROVE  Spec => []OffStays
<1>1. Init => OffStays
  BY DEF Init, OffStays, NoSync
<1>2. IInv /\ OffStays /\ [Next]_vars => OffStays' BY NoneComesOn
<1> QED BY <1>1, <1>2, Inductive, PTL DEF Spec

\* While people only switch agents off, a scheduled agent that is on always has a next
\* fire: no claim, hand-back, reclaim, release or pull-forward takes it away.
THEOREM ClocksAreKept ==
    ASSUME Edits \subseteq {"off"}
    PROVE  Spec => []ClockKept
<1>1. Init => ClockKept
  BY SchedulerAssumption DEF SchedulerAssumption, Init, ClockKept, NextOccurrence
<1>2. IInv /\ OffStays /\ ClockKept /\ [Next]_vars => ClockKept' BY ClockStep
<1> QED BY <1>1, <1>2, Inductive, OffStaysOff, PTL DEF Spec

-----------------------------------------------------------------------------
(* Mail that waits *)

\* A run that is about to pull its row forward still is.
PullsKept ==
    \A q \in Runs : run[q].pc \in {"rearm", "pull"} => run'[q].pc \in {"rearm", "pull"} /\ run'[q].agent = run[q].agent

\* A step of one run that is not about to pull its row forward loses no such pull.
LEMMA OneRunMoves ==
    ASSUME NamedTypes, NEW r \in Runs, NEW n, run' = [run EXCEPT ![r] = n], run[r].pc \notin {"rearm", "pull"}
    PROVE  PullsKept
BY DEF PullsKept, NamedTypes

\* No tick loses a pull that a release owes.
LEMMA TicksKeepPulls ==
    ASSUME IInv, NEW t \in Ticks, TickStart(t) \/ TickStep(t) \/ TickDies(t)
    PROVE  PullsKept
<1>N. NamedTypes BY DEF IInv
<1>0. /\ run \in [Runs -> NamedRuns]
      /\ tick[t].claimed \subseteq Runs /\ \A q \in tick[t].claimed : run[q].pc = "created"
      /\ tick[t].pc = "carry" => tick[t].run \in Runs /\ run[tick[t].run].pc \in {"claimed", "mailed", "gated"}
  BY <1>N, TickFields DEF IInv, CreatedIsOwned, CarriedIsClaimed, NamedTypes
<1>1. run' = run => PullsKept BY DEF PullsKept
<1>2. CASE Dispatch(t)
  <2>1. run' = [q \in Runs |-> IF q \in tick[t].claimed THEN [run[q] EXCEPT !.pc = "dispatched"] ELSE run[q]]
    BY <1>2 DEF Dispatch
  <2> QED BY <1>0, <2>1 DEF PullsKept
<1>3. CASE TickDies(t)
  <2>1. run' = [q \in Runs |-> IF q \in tick[t].claimed \/ (tick[t].pc = "carry" /\ q = tick[t].run)
                                 THEN [Ended(run[q], "dead") EXCEPT !.others = 0] ELSE run[q]]
    BY <1>3 DEF TickDies
  <2> QED BY <1>0, <2>1 DEF PullsKept
<1>4. ASSUME NEW d \in tick[t].due, NEW r \in Runs, ScheduledClaim(t, d, r)
     PROVE  PullsKept
  BY <1>4, <1>N, OneRunMoves DEF ScheduledClaim, Unnamed
<1>5. CASE HandBack(t)
  BY <1>5, <1>N, <1>0, OneRunMoves DEF HandBack, EndRun
<1>6. CASE CreateScheduledRun(t)
  <2>1. PICK n \in 0..MaxOthers : run' = [run EXCEPT ![tick[t].run].pc = "created", ![tick[t].run].others = n]
    BY <1>6 DEF CreateScheduledRun
  <2>2. tick[t].run \in Runs /\ run[tick[t].run].pc = "gated" BY <1>6, <1>0 DEF CreateScheduledRun
  <2> QED BY <2>1, <2>2, <1>0 DEF PullsKept
<1>7. TickStart(t) => run' = run BY DEF TickStart
<1>8. ASSUME TickStep(t), ~Dispatch(t), ~HandBack(t), ~CreateScheduledRun(t),
             \A d \in tick[t].due, r \in Runs : ~ScheduledClaim(t, d, r)
     PROVE  run' = run
  BY <1>8 DEF TickStep, ReclaimRow, FailStaleRun, TickSwitchOff, SelectDue, ReadBusySpaces, SyncStep, SyncRead,
              SyncDerive, SyncWrite, PassRow
<1> QED BY <1>1, <1>2, <1>3, <1>4, <1>5, <1>6, <1>7, <1>8

\* Neither does a run, short of its death: it re-arms the row or pulls it.
LEMMA RunsKeepPulls ==
    ASSUME IInv, NEW r \in Runs,
           \/ RunStep(r) \/ Overstay(r) \/ LoseDispatch(r) \/ GroupDies(r) \/ ReleaseThrows(r)
           \/ \E a \in Agents, d \in Doors : AskManualRun(r, a, d)
    PROVE  PullsKept \/ RearmIfPending(r) \/ PullForRelease(r)
<1>N. NamedTypes /\ run \in [Runs -> NamedRuns] BY DEF IInv, NamedTypes
<1>1. ASSUME NEW q \in Runs, FanOut(r, q) PROVE PullsKept
  <2>1. CASE FiresOn(run[r].agent)
    <3>1. run[r].pc \notin {"rearm", "pull"} /\ run[q].pc \notin {"rearm", "pull"}
      BY <1>1, <2>1 DEF FanOut, Unnamed
    <3>2. run' = [run EXCEPT ![r].others = 0, ![q] = [NewRun(run[r].agent, "fanout", "claimed") EXCEPT !.others = run[r].others - 1]]
      BY <1>1, <2>1 DEF FanOut
    <3> QED BY <3>1, <3>2, <1>N DEF PullsKept
  <2>2. CASE ~FiresOn(run[r].agent)
    BY <1>1, <2>2, <1>N DEF FanOut, PullsKept
  <2> QED BY <2>1, <2>2
<1>2. CASE GroupDies(r)
  <2>1. CASE run' = [run EXCEPT ![r].others = 0]
    <3>1. run'[r].pc = run[r].pc /\ run'[r].agent = run[r].agent /\ \A q \in Runs : q # r => run'[q] = run[q]
      BY <2>1, <1>N DEF NamedRuns, RunRecord
    <3> QED BY <3>1 DEF PullsKept
  <2>2. CASE run[r].pc = "claimed" /\ run' = [run EXCEPT ![r].pc = "dead", ![r].others = 0]
    BY <2>2, <1>N DEF PullsKept
  <2> QED BY <1>2, <2>1, <2>2 DEF GroupDies
<1>3. CASE Overstay(r)
  <2>1. run'[r].pc = run[r].pc /\ run'[r].agent = run[r].agent /\ \A q \in Runs : q # r => run'[q] = run[q]
    BY <1>3, <1>N DEF Overstay, NamedRuns, RunRecord
  <2> QED BY <2>1 DEF PullsKept
<1>4. CASE SettleRun(r)
  BY <1>4, <1>N, OneRunMoves DEF SettleRun, MoveRun, EndRun
<1>5. CASE \/ ClaimEvents(r) \/ GateWake(r) \/ CreateFanOutRun(r) \/ ManualClaim(r) \/ ResetToClock(r)
           \/ CreateManualRun(r) \/ StartRun(r) \/ FinishRun(r) \/ ReadForRelease(r) \/ ReleaseRow(r)
           \/ RunSwitchOff(r) \/ LoseDispatch(r) \/ ReleaseThrows(r)
           \/ \E a \in Agents, d \in Doors : AskManualRun(r, a, d)
  <2>1. run[r].pc \notin {"rearm", "pull"} /\ \E n : run' = [run EXCEPT ![r] = n]
    <3>1. CASE ClaimEvents(r) \/ GateWake(r) \/ CreateFanOutRun(r) \/ ManualClaim(r) \/ ResetToClock(r)
      BY <3>1 DEF ClaimEvents, GateWake, CreateFanOutRun, ManualClaim, ResetToClock, MoveRun, EndRun
    <3>2. CASE CreateManualRun(r) \/ StartRun(r) \/ FinishRun(r) \/ ReadForRelease(r) \/ ReleaseRow(r)
      BY <3>2 DEF CreateManualRun, StartRun, FinishRun, ReadForRelease, ReleaseRow, MoveRun, EndRun
    <3>3. CASE RunSwitchOff(r) \/ LoseDispatch(r) \/ ReleaseThrows(r)
      BY <3>3 DEF RunSwitchOff, LoseDispatch, ReleaseThrows, MoveRun, EndRun
    <3>4. CASE \E a \in Agents, d \in Doors : AskManualRun(r, a, d)
      BY <3>4 DEF AskManualRun, Unnamed
    <3> QED BY <1>5, <3>1, <3>2, <3>3, <3>4
  <2> QED BY <2>1, <1>N, OneRunMoves
<1> QED BY <1>1, <1>2, <1>3, <1>4, <1>5 DEF RunStep

\* So no step does but those of the run itself and its death.
LEMMA PullMoves ==
    ASSUME IInv, [Next]_vars
    PROVE  PullsKept \/ \E r \in Runs : RearmIfPending(r) \/ RearmFails(r) \/ PullForRelease(r) \/ RunDies(r)
<1>1. run' = run => PullsKept BY DEF PullsKept
<1>2. ASSUME NEW s \in Senders, SenderStep(s) \/ SenderDies(s) \/ \E a \in Agents, k \in Keys : CountPending(s, a, k)
     PROVE  run' = run
  BY <1>2 DEF SenderStep, InsertEvent, PullForInsert, CountPending, SenderDies
<1>3. ASSUME NEW e \in Editors,
             \/ SyncStep(e) \/ EditorDies(e)
             \/ \E a \in Agents : Activate(e, a) \/ SaveBrief(e, a) \/ PersonSwitchOff(e, a)
     PROVE  run' = run
  BY <1>3 DEF SyncStep, SyncRead, SyncDerive, SyncWrite, EditorDies, Activate, SaveBrief, PersonSwitchOff
<1>4. TimePasses => run' = run BY DEF TimePasses, ClockComes, DebounceEnds
<1>5. UNCHANGED vars => run' = run BY DEF vars
<1> HIDE DEF PullsKept
<1> QED BY <1>1, <1>2, <1>3, <1>4, <1>5, TicksKeepPulls, RunsKeepPulls DEF Next

\* A row that loses its run is handed back, reclaimed or released by that run.
LEMMA RowFreed ==
    ASSUME IInv, [Next]_vars, NEW a \in Agents, current[a] # None, current'[a] # current[a]
    PROVE  \/ \E t \in Ticks : HandBack(t) /\ tick[t].run = current[a]
           \/ \E t \in Ticks : \E s \in tick[t].stale : ReclaimRow(t, s) /\ s.run = current[a] /\ tick'[t].run = current[a]
           \/ \E r \in Runs : ReleaseRow(r) /\ Holds(r) /\ run[r].agent = a
<1>N. NamedTypes /\ None \notin Runs BY Constants DEF IInv
<1>1. ASSUME NEW s \in Senders, SenderStep(s) \/ SenderDies(s) \/ \E b \in Agents, k \in Keys : CountPending(s, b, k)
     PROVE  current' = current
  BY <1>1 DEF SenderStep, InsertEvent, PullForInsert, CountPending, SenderDies, row
<1>2. ASSUME NEW t \in Ticks, TickStart(t) \/ TickStep(t) \/ TickDies(t)
     PROVE  \/ HandBack(t) /\ tick[t].run = current[a]
            \/ \E s \in tick[t].stale : ReclaimRow(t, s) /\ s.run = current[a] /\ tick'[t].run = current[a]
  <2>1. ASSUME NEW d \in tick[t].due, NEW r \in Runs, ScheduledClaim(t, d, r) PROVE FALSE
    BY <1>N, <2>1 DEF ScheduledClaim, ClaimRow, Idle, NamedTypes
  <2>2. ASSUME NEW s \in tick[t].stale, ReclaimRow(t, s)
       PROVE  s.run = current[a] /\ tick'[t].run = current[a]
    <3>1. StillStale(s) /\ s.agent = a BY <1>N, <2>2 DEF ReclaimRow, NamedTypes
    <3>2. tick' = [tick EXCEPT ![t].pc = "fail", ![t].stale = @ \ {s}, ![t].agent = s.agent,
                               ![t].run = s.run, ![t].failures = OneMore(s.failures)]
      BY <2>2, <3>1 DEF ReclaimRow
    <3>3. tick[t] \in TickRecord /\ tick \in [Ticks -> NamedTicks] BY <1>N, TickFields DEF NamedTypes
    <3>4. tick'[t].run = s.run BY <3>2, <3>3 DEF TickRecord
    <3> QED BY <3>1, <3>4 DEF StillStale
  <2>3. CASE HandBack(t)
    <3>1. Holds(tick[t].run) /\ run[tick[t].run].agent = a BY <1>N, <2>3 DEF HandBack, NamedTypes
    <3> QED BY <2>3, <3>1 DEF Holds
  <2>4. ASSUME \A d \in tick[t].due, r \in Runs : ~ScheduledClaim(t, d, r), ~HandBack(t), \A s \in tick[t].stale : ~ReclaimRow(t, s)
       PROVE  current' = current
    BY <1>2, <2>4 DEF TickStart, TickStep, TickDies, FailStaleRun, TickSwitchOff, SelectDue, ReadBusySpaces,
                      SyncStep, SyncRead, SyncDerive, SyncWrite, PassRow, CreateScheduledRun, Dispatch, row
  <2> QED BY <2>1, <2>2, <2>3, <2>4
<1>3. ASSUME NEW r \in Runs, RunStep(r)
     PROVE  ReleaseRow(r) /\ Holds(r) /\ run[r].agent = a
  <2>1. CASE ReleaseRow(r) BY <1>N, <2>1 DEF ReleaseRow, NamedTypes
  <2>2. CASE ManualClaim(r) BY <1>N, <2>2 DEF ManualClaim, Claimable, ClaimRow, Idle, NamedTypes
  <2>3. ASSUME NEW q \in Runs, FanOut(r, q) PROVE FALSE
    BY <1>N, <2>3 DEF FanOut, FiresOn, ClaimRow, Idle, NamedTypes
  <2>4. ASSUME ~ReleaseRow(r), ~ManualClaim(r), \A q \in Runs : ~FanOut(r, q) PROVE current' = current
    BY <1>3, <2>4 DEF RunStep, ClaimEvents, GateWake, CreateFanOutRun, ResetToClock, CreateManualRun, StartRun, FinishRun,
                      ReadForRelease, RearmIfPending, PullForRelease, SettleRun, RunSwitchOff, row
  <2> QED BY <2>1, <2>2, <2>3, <2>4
<1>4. ASSUME NEW r \in Runs,
             \/ Overstay(r) \/ LoseDispatch(r) \/ RunDies(r) \/ GroupDies(r) \/ ReleaseThrows(r) \/ RearmFails(r)
             \/ \E b \in Agents, d \in Doors : AskManualRun(r, b, d)
     PROVE  current' = current
  BY <1>4 DEF Overstay, LoseDispatch, RunDies, GroupDies, ReleaseThrows, RearmFails, AskManualRun, row
<1>5. ASSUME NEW e \in Editors,
             \/ SyncStep(e) \/ EditorDies(e)
             \/ \E b \in Agents : Activate(e, b) \/ SaveBrief(e, b) \/ PersonSwitchOff(e, b)
     PROVE  current' = current
  BY <1>5 DEF SyncStep, SyncRead, SyncDerive, SyncWrite, EditorDies, Activate, SaveBrief, PersonSwitchOff, row
<1>6. TimePasses => current' = current BY DEF TimePasses, ClockComes, DebounceEnds
<1>7. UNCHANGED vars => current' = current BY DEF vars, row
<1> QED BY <1>1, <1>2, <1>3, <1>4, <1>5, <1>6, <1>7 DEF Next

\* A next fire is taken away by what leaves the row running or frees it, or by a sync.
LEMMA FireLost ==
    ASSUME IInv, [Next]_vars, NEW a \in Agents, next[a] # "never", next'[a] = "never"
    PROVE  \/ current'[a] # None \/ current[a] # None
           \/ \E x \in Syncers : SyncWrite(x) /\ sync[x].agent = a
<1>N. NamedTypes /\ None \notin Runs BY Constants DEF IInv
<1>1. ASSUME NEW s \in Senders, SenderStep(s) \/ SenderDies(s) \/ \E b \in Agents, k \in Keys : CountPending(s, b, k)
     PROVE  FALSE
  BY <1>1, <1>N DEF SenderStep, InsertEvent, PullForInsert, CountPending, SenderDies, PullForward, PulledForward, NamedTypes, row
<1>2. ASSUME NEW x \in Syncers, SyncStep(x)
     PROVE  \E y \in Syncers : SyncWrite(y) /\ sync[y].agent = a
  BY <1>2, <1>N, SyncReads, SyncDerives, SyncWrites DEF SyncStep
<1>3. ASSUME NEW t \in Ticks, TickStart(t) \/ TickStep(t) \/ TickDies(t), ~SyncStep(t)
     PROVE  current'[a] # None \/ current[a] # None
  <2>1. ASSUME NEW d \in tick[t].due, NEW r \in Runs, ScheduledClaim(t, d, r) PROVE current'[a] # None
    BY <1>N, <2>1 DEF ScheduledClaim, ClaimRow, NamedTypes
  <2>2. CASE HandBack(t)
    <3>1. Holds(tick[t].run) /\ run[tick[t].run].agent = a BY <1>N, <2>2 DEF HandBack, NamedTypes
    <3>2. tick[t].run \in Runs BY <1>N, <2>2, TickFields DEF HandBack
    <3> QED BY <1>N, <3>1, <3>2 DEF Holds
  <2>3. ASSUME ~HandBack(t), \A d \in tick[t].due, r \in Runs : ~ScheduledClaim(t, d, r) PROVE next' = next
    BY <1>3, <2>3 DEF TickStart, TickStep, TickDies, ReclaimRow, FailStaleRun, TickSwitchOff, SelectDue, ReadBusySpaces,
                      PassRow, CreateScheduledRun, Dispatch, row
  <2> QED BY <2>1, <2>2, <2>3
<1>4. ASSUME NEW r \in Runs, RunStep(r)
     PROVE  current'[a] # None \/ current[a] # None
  <2>1. CASE ResetToClock(r)
    <3>1. Holds(r) /\ run[r].agent = a BY <1>N, <2>1 DEF ResetToClock, NamedTypes
    <3> QED BY <1>N, <3>1 DEF Holds
  <2>2. CASE PullForRelease(r)
    BY <1>N, <2>2 DEF PullForRelease, PullForward, PulledForward, NamedTypes
  <2>3. ASSUME ~ResetToClock(r), ~PullForRelease(r) PROVE next' = next
    BY <1>4, <2>3 DEF RunStep, ClaimEvents, GateWake, CreateFanOutRun, ManualClaim, CreateManualRun, StartRun, FinishRun,
                      ReadForRelease, ReleaseRow, RearmIfPending, SettleRun, RunSwitchOff, FanOut, row
  <2> QED BY <2>1, <2>2, <2>3
<1>5. ASSUME NEW r \in Runs,
             \/ Overstay(r) \/ LoseDispatch(r) \/ RunDies(r) \/ GroupDies(r) \/ ReleaseThrows(r) \/ RearmFails(r)
             \/ \E b \in Agents, d \in Doors : AskManualRun(r, b, d)
     PROVE  next' = next
  BY <1>5 DEF Overstay, LoseDispatch, RunDies, GroupDies, ReleaseThrows, RearmFails, AskManualRun, row
<1>6. ASSUME NEW e \in Editors,
             \/ EditorDies(e) \/ \E b \in Agents : Activate(e, b) \/ SaveBrief(e, b) \/ PersonSwitchOff(e, b)
     PROVE  next' = next
  BY <1>6 DEF EditorDies, Activate, SaveBrief, PersonSwitchOff, row
<1>7. ASSUME NEW b \in Agents, ClockComes(b) \/ DebounceEnds(b) PROVE FALSE
  BY <1>7, <1>N DEF ClockComes, DebounceEnds, NamedTypes
<1>8. UNCHANGED vars => next' = next BY DEF vars, row
<1> QED BY <1>1, <1>2, <1>3, <1>4, <1>5, <1>6, <1>7, <1>8 DEF Next, TimePasses, Syncers

\* Mail that waits at an agent that is on is left without a fire to come by what frees
\* its row and does not re-arm it, by a sender or a release that dies or fails before it
\* has pulled the row forward, and by a sync that kept what it had read, derived too
\* early or died (events.ts, runner.ts).
THEOREM MailIsArmed == Spec => OnlyTheseStrandMail
<1> DEFINE Freed(a) == \E t \in Ticks : /\ tick[t].pc \in {"carry", "reclaim"}
                                        /\ current[a] # None /\ current'[a] = None
           Unsent(a) == \E s \in Senders : sender[s].agent = a /\ sender[s].pc = "inserted" /\ SenderDies(s)
           Unarmed(a) == \E r \in Runs : /\ run[r].agent = a /\ run[r].pc \in {"rearm", "pull"}
                                         /\ RunDies(r) \/ RearmFails(r)
           Rederived(a) == \E x \in Syncers : /\ sync[x].agent = a
                                              /\ \/ SyncWrite(x) /\ (sync[x].sawRunning \/ sync[x].fresh = "never")
                                                 \/ x \in Editors /\ EditorDies(x)
                                                 \/ x \in Ticks /\ TickDies(x)
<1>1. ASSUME IInv, SyncInv, [Next]_vars, NEW a \in Agents, ~Stranded(a), Stranded(a)'
     PROVE  Freed(a) \/ Unsent(a) \/ Unarmed(a) \/ Rederived(a)
  <2>N. NamedTypes /\ SyncsAtWork /\ a # None BY <1>1, Constants DEF IInv, SyncInv
  <2>1. /\ active'[a] /\ current'[a] = None /\ mail'[a] # {} /\ next'[a] = "never"
        /\ \A s \in Senders : ~(sender'[s].pc = "inserted" /\ sender'[s].agent = a)
        /\ \A r \in Runs : ~(run'[r].pc \in {"rearm", "pull"} /\ run'[r].agent = a)
        /\ \A x \in Syncers : sync'[x].agent # a
    BY <1>1 DEF Stranded, PullComing, Idle
  <2>6. ASSUME NEW x \in Syncers, SyncWrite(x), sync[x].agent = a PROVE Rederived(a)
    <3>1. active'[a] = sync[x].want BY <2>6, <2>N, SyncWrites
    <3>2. ~sync[x].sawRunning => next'[a] = sync[x].fresh
      <4>1. sync[x].want BY Zenon, <2>1, <3>1
      <4> QED BY <4>1, <2>6, <2>N, SyncWrites
    <3> QED BY <2>1, <2>6, <3>2
  <2>7. ASSUME NEW x \in Syncers, sync[x].agent = a PROVE Rederived(a)
    <3>1. sync'[x].agent # a BY <2>1
    <3>2. CASE SyncWrite(x) BY <2>6, <2>7, <3>2
    <3>3. CASE (x \in Editors /\ EditorDies(x)) \/ (x \in Ticks /\ TickDies(x)) BY <2>7, <3>3
    <3> QED BY <1>1, <2>7, <2>N, <3>1, <3>2, <3>3, SyncStays
  <2> HIDE DEF Rederived
  <2>8. CASE ~active[a]
    <3>1. ASSUME NEW e \in Editors, Activate(e, a) PROVE FALSE
      <4>1. sync'[e].agent = a BY <3>1, <2>N, SyncBegins, SyncTypes DEF Activate
      <4> QED BY <2>1, <2>N, <4>1, SyncTypes
    <3> QED BY <1>1, <2>1, <2>7, <2>8, <2>N, <3>1, ComesOn
  <2>9. SUFFICES ASSUME active[a], \A x \in Syncers : sync[x].agent # a
                 PROVE  Freed(a) \/ Unsent(a) \/ Unarmed(a)
    BY <2>7, <2>8
  <2>2. active[a] BY <2>9
  <2>3. \A x \in Syncers : sync[x].agent # a BY <2>9
  <2>4. CASE current[a] # None
    <3>1. ASSUME NEW t \in Ticks, HandBack(t) \/ \E s \in tick[t].stale : ReclaimRow(t, s)
         PROVE  tick[t].pc \in {"carry", "reclaim"}
      BY <3>1 DEF HandBack, ReclaimRow
    <3>2. ASSUME NEW r \in Runs, ReleaseRow(r), Holds(r), run[r].agent = a PROVE FALSE
      <4>1. run'[r].pc = "rearm" /\ run'[r].agent = a
        BY <2>N, <3>2 DEF ReleaseRow, NamedTypes, NamedRuns, RunRecord
      <4> QED BY <2>1, <4>1
    <3> QED BY <1>1, <2>1, <2>4, <3>1, <3>2, RowFreed
  <2>5. CASE current[a] = None
    <3>1. next[a] = "never" BY <1>1, <2>1, <2>3, <2>5, FireLost
    <3>2. ASSUME NEW s \in Senders, InsertEvent(s), sender[s].agent = a
         PROVE  mail[a] # {}
      <4>1. sender'[s].pc = "inserted" => sender'[s].agent = a
        BY <2>N, <3>2 DEF InsertEvent, NamedTypes, NamedSenders, SenderRecord, IdleSender
      <4>2. sender'[s].pc # "inserted" BY <2>1, <4>1
      <4>3. sender[s].key \in mail[a]
        BY <2>N, <3>2, <4>2 DEF InsertEvent, NamedTypes, NamedSenders, SenderRecord
      <4> QED BY <4>3
    <3>3. mail[a] # {}
      <4>1. ASSUME NEW s \in Senders, InsertEvent(s), sender[s].agent # a PROVE mail'[a] = mail[a]
        BY <2>N, <4>1 DEF InsertEvent, NamedTypes
      <4>2. ASSUME NEW s \in Senders, NEW b \in Agents, NEW k \in Keys, CountPending(s, b, k) PROVE mail' = mail
        BY <4>2 DEF CountPending
      <4>3. ASSUME NEW s \in Senders, PullForInsert(s) \/ SenderDies(s) PROVE mail' = mail
        BY <4>3 DEF PullForInsert, SenderDies
      <4>4. ASSUME NEW r \in Runs, ClaimEvents(r) PROVE mail'[a] = {} \/ mail'[a] = mail[a]
        BY <2>N, <4>4 DEF ClaimEvents, NamedTypes
      <4> QED BY <1>1, <2>1, <3>2, <4>1, <4>2, <4>3, <4>4, MailMoves
    <3>4. PullComing(a) BY <1>1, <2>2, <2>5, <3>1, <3>3 DEF Stranded, Idle
    <3>5. ASSUME NEW s \in Senders, sender[s].pc = "inserted", sender[s].agent = a PROVE Unsent(a)
      <4>1. ASSUME PullForInsert(s) PROVE FALSE
        BY <2>1, <2>2, <2>5, <2>N, <4>1, <3>5 DEF PullForInsert, PullForward, PulledForward, Idle, NamedTypes
      <4>2. ASSUME NEW q \in Senders, q # s, InsertEvent(q) \/ PullForInsert(q) PROVE sender'[s] = sender[s]
        BY <2>N, <4>2 DEF InsertEvent, PullForInsert, NamedTypes
      <4>3. ASSUME NEW q \in Senders, NEW b \in Agents, NEW k \in Keys, CountPending(q, b, k) PROVE sender'[s] = sender[s]
        BY <2>N, <3>5, <4>3 DEF CountPending, NamedTypes
      <4>4. ASSUME NEW r \in Runs, ClaimEvents(r) PROVE sender' = sender BY <4>4 DEF ClaimEvents
      <4>5. ~InsertEvent(s) BY <3>5 DEF InsertEvent
      <4>6. ASSUME NEW q \in Senders, q # s, SenderDies(q) PROVE sender'[s] = sender[s]
        BY <2>N, <4>6 DEF SenderDies, NamedTypes
      <4>7. CASE SenderDies(s) BY <3>5, <4>7
      <4> QED BY <1>1, <2>1, <3>5, <4>1, <4>2, <4>3, <4>4, <4>5, <4>6, <4>7, MailMoves
    <3>6. ASSUME NEW r \in Runs, run[r].pc \in {"rearm", "pull"}, run[r].agent = a PROVE Unarmed(a)
      <4>1. CASE PullsKept BY <2>1, <3>6, <4>1 DEF PullsKept
      <4>2. ASSUME NEW q \in Runs, q # r, RearmIfPending(q) \/ RearmFails(q) \/ PullForRelease(q) PROVE FALSE
        <5>1. run'[r] = run[r] BY <2>N, <4>2 DEF RearmIfPending, RearmFails, PullForRelease, MoveRun, NamedTypes
        <5> QED BY <2>1, <3>6, <5>1
      <4>3. CASE RearmIfPending(r)
        <5>1. run'[r].pc = "pull" /\ run'[r].agent = a
          BY <2>N, <3>3, <3>6, <4>3 DEF RearmIfPending, HasPending, MoveRun, NamedTypes, NamedRuns, RunRecord
        <5> QED BY <2>1, <5>1
      <4>4. CASE PullForRelease(r)
        BY <2>1, <2>2, <2>5, <2>N, <4>4, <3>6 DEF PullForRelease, PullForward, PulledForward, Idle, NamedTypes
      <4>5. ASSUME NEW q \in Runs, q # r, RunDies(q) PROVE FALSE
        <5>1. run'[r] = run[r] BY <2>N, <4>5, EndedRun DEF RunDies
        <5> QED BY <2>1, <3>6, <5>1
      <4>6. CASE RunDies(r) \/ RearmFails(r) BY <3>6, <4>6
      <4> QED BY <1>1, <4>1, <4>2, <4>3, <4>4, <4>5, <4>6, PullMoves
    <3> QED BY <2>3, <3>4, <3>5, <3>6 DEF PullComing
  <2> QED BY <2>4, <2>5
<1>2. IInv /\ SyncInv /\ [Next]_vars
          => [\A a \in Agents : ~Stranded(a) /\ Stranded(a)' =>
                 \/ Freed(a)
                 \/ Unsent(a)
                 \/ Unarmed(a)
                 \/ Rederived(a)]_vars
  <2> HIDE DEF Freed, Unsent, Unarmed, Rederived
  <2> QED BY <1>1
<1> QED BY <1>2, Inductive, SyncInvHolds, PTL DEF Spec, OnlyTheseStrandMail

-----------------------------------------------------------------------------
(* Run rows that say `running` *)

\* The phases of a request that has finished its run, or of none.
Rested == {"free", "over", "finished", "releasing"} \cup AfterPhases

\* The row of a run that has finished does not say `running`.
RowRests(r) == run[r].pc \in Rested => ledger[r] # "running"

\* A tick names a run only while it fails or carries it.
BusyNames == \A t \in Ticks : tick[t].pc \notin {"fail", "carry"} => tick[t].run = None

\* What a tick is about to fail has overstayed, unless it has come to its end since.
Outlived(r) == run[r].overstayed \/ run[r].pc = "over"
FailedHasOverstayed == \A t \in Ticks : tick[t].pc = "fail" => Outlived(tick[t].run)

RowInv ==
    /\ \A r \in Runs : RowRests(r)
    /\ BusyNames
    /\ FailedHasOverstayed

\* What a step may do to a run and its row: a row that rests stays so, and one that
\* does not is given up only by a request that is lost.
Passage(r) ==
    /\ RowRests(r)'
    /\ Outlived(r) /\ ~Unnamed(r) => Outlived(r)'
    /\ run[r].pc \in {"created", "dispatched", "executing"} /\ run'[r].pc \in Rested \cup {"lost", "dead"} =>
           \/ ledger'[r] # "running"
           \/ run'[r].pc \in {"lost", "dead"} /\ current' = current
    /\ ledger'[r] = "running" =>
           \/ ledger[r] = "running"
           \/ run'[r].pc \in {"created", "dispatched"}

\* A run that does not move, with a row nobody sets to `running`, passes.
LEMMA Untouched ==
    ASSUME NEW r \in Runs, RowRests(r), run'[r].pc = run[r].pc, run'[r].overstayed = run[r].overstayed,
           ledger'[r] = ledger[r] \/ ledger'[r] = "failed"
    PROVE  Passage(r)
BY DEF Passage, RowRests, Outlived, Rested, AfterPhases

\* A run that moves on.
LEMMA Moving ==
    ASSUME NamedTypes, NEW q \in Runs, NEW p \in RunPhases, MoveRun(q, p), run[q].pc # "over", p \notin {"lost", "dead"},
           NEW r \in Runs, RowRests(r), r # q => ledger'[r] = ledger[r],
           p \in Rested => ledger'[q] # "running",
           ledger'[q] = "running" => ledger[q] = "running" \/ p \in {"created", "dispatched"}
    PROVE  Passage(r)
<1>1. /\ \A o \in Runs : o # q => run'[o] = run[o]
      /\ run'[q].pc = p /\ run'[q].overstayed = run[q].overstayed
  BY Moved
<1>2. CASE r # q BY <1>1, <1>2, Untouched
<1>3. CASE r = q BY <1>1, <1>3 DEF Passage, RowRests, Outlived
<1> QED BY <1>2, <1>3

\* A run that ends.
LEMMA Ending ==
    ASSUME NamedTypes, NEW q \in Runs, NEW p \in {"over", "lost", "dead"}, EndRun(q, p), run[q].pc # "over",
           NEW r \in Runs, RowRests(r), ledger' = ledger,
           p = "over" => ledger[q] # "running", p # "over" => current' = current
    PROVE  Passage(r)
<1>1. /\ \A o \in Runs : o # q => run'[o] = run[o]
      /\ run'[q].pc = p /\ (p # "over" => run'[q].overstayed = run[q].overstayed)
  BY EndedRun
<1>2. CASE r # q BY <1>1, <1>2, Untouched
<1>3. CASE r = q BY <1>1, <1>3 DEF Passage, RowRests, Outlived, Rested, AfterPhases
<1> QED BY <1>2, <1>3

\* A run that is minted.
LEMMA Minting ==
    ASSUME NamedTypes, NEW q \in Runs, Unnamed(q), run'[q].pc \in {"asked", "claimed"}, ledger'[q] = "none",
           NEW r \in Runs, RowRests(r),
           r # q => /\ run'[r].pc = run[r].pc /\ run'[r].overstayed = run[r].overstayed /\ ledger'[r] = ledger[r]
    PROVE  Passage(r)
<1>1. CASE r # q BY <1>1, Untouched
<1>2. CASE r = q BY <1>2 DEF Passage, RowRests, Outlived, Rested, AfterPhases, Unnamed
<1> QED BY <1>1, <1>2

\* What ticks do to runs and their rows.
LEMMA TicksPass ==
    ASSUME IInv, NEW t \in Ticks, TickStart(t) \/ TickStep(t) \/ TickDies(t), NEW r \in Runs, RowRests(r)
    PROVE  Passage(r)
<1>N. NamedTypes /\ LedgerFollows(r) BY DEF IInv
<1>0. /\ run \in [Runs -> NamedRuns]
      /\ tick[t].claimed \subseteq Runs /\ \A q \in tick[t].claimed : run[q].pc = "created"
      /\ tick[t].pc = "carry" =>
             /\ tick[t].run \in Runs
             /\ run[tick[t].run].pc \in {"claimed", "mailed", "gated"} /\ ledger[tick[t].run] = "none"
  <2>1. tick[t].pc = "carry" =>
             /\ tick[t].run \in Runs
             /\ run[tick[t].run].pc \in {"claimed", "mailed", "gated"}
    BY <1>N, TickFields DEF IInv, CarriedIsClaimed
  <2>2. \A q \in Runs : run[q].pc \in {"claimed", "mailed", "gated"} => ledger[q] = "none"
    BY DEF IInv, LedgerFollows, ClaimPhases
  <2> QED BY <1>N, <2>1, <2>2, TickFields DEF IInv, CreatedIsOwned, NamedTypes
<1>1. run' = run /\ ledger' = ledger => Passage(r) BY Untouched
<1>2. CASE Dispatch(t)
  <2>1. /\ run' = [q \in Runs |-> IF q \in tick[t].claimed THEN [run[q] EXCEPT !.pc = "dispatched"] ELSE run[q]]
        /\ ledger' = ledger
    BY <1>2 DEF Dispatch
  <2>2. CASE r \notin tick[t].claimed BY <2>1, <2>2, Untouched
  <2>3. CASE r \in tick[t].claimed
    <3>1. run'[r].pc = "dispatched" /\ run'[r].overstayed = run[r].overstayed /\ run[r].pc = "created"
      BY <1>0, <2>1, <2>3 DEF NamedRuns, RunRecord
    <3> QED BY <2>1, <3>1 DEF Passage, RowRests, Outlived, Rested, AfterPhases
  <2> QED BY <2>2, <2>3
<1>3. CASE TickDies(t)
  <2>1. /\ run' = [q \in Runs |-> IF q \in tick[t].claimed \/ (tick[t].pc = "carry" /\ q = tick[t].run)
                                    THEN [Ended(run[q], "dead") EXCEPT !.others = 0] ELSE run[q]]
        /\ ledger' = ledger /\ current' = current
    BY <1>3 DEF TickDies, row
  <2>2. CASE ~(r \in tick[t].claimed \/ (tick[t].pc = "carry" /\ r = tick[t].run)) BY <2>1, <2>2, Untouched
  <2>3. CASE r \in tick[t].claimed \/ (tick[t].pc = "carry" /\ r = tick[t].run)
    <3>1. run'[r] = [Ended(run[r], "dead") EXCEPT !.others = 0] BY <2>1, <2>3
    <3>2. run'[r].pc = "dead" /\ run'[r].overstayed = run[r].overstayed
      BY <1>0, <3>1 DEF Ended, NewRun, NamedRuns, RunRecord
    <3>3. run[r].pc \in {"created", "claimed", "mailed", "gated"} BY <1>0, <2>3
    <3> QED BY <2>1, <3>2, <3>3 DEF Passage, RowRests, Outlived, Rested, AfterPhases
  <2> QED BY <2>2, <2>3
<1>4. ASSUME NEW d \in tick[t].due, NEW q \in Runs, ScheduledClaim(t, d, q)
     PROVE  Passage(r)
  <2>1. /\ run' = [run EXCEPT ![q] = NewRun(d.agent, "scheduled", "claimed")]
        /\ ledger' = [ledger EXCEPT ![q] = "none"] /\ Unnamed(q)
    BY <1>4 DEF ScheduledClaim
  <2>2. run'[q].pc = "claimed" /\ ledger'[q] = "none" BY <1>N, <2>1 DEF NamedTypes, NewRun
  <2>3. r # q => run'[r] = run[r] /\ ledger'[r] = ledger[r] BY <1>N, <2>1 DEF NamedTypes
  <2> QED BY <1>N, <2>1, <2>2, <2>3, Minting
<1>5. CASE HandBack(t)
  BY <1>5, <1>N, <1>0, Ending DEF HandBack
<1>6. CASE CreateScheduledRun(t)
  <2> DEFINE q == tick[t].run
  <2>1. PICK n \in 0..MaxOthers : run' = [run EXCEPT ![q].pc = "created", ![q].others = n]
    BY <1>6 DEF CreateScheduledRun
  <2>2. q \in Runs /\ run[q].pc = "gated" BY <1>6, <1>0 DEF CreateScheduledRun
  <2>3. r # q => run'[r] = run[r] /\ ledger'[r] = ledger[r]
    BY <1>6, <1>N, <2>1 DEF CreateScheduledRun, NamedTypes
  <2>4. run'[q].pc = "created" /\ run'[q].overstayed = run[q].overstayed
    BY <1>0, <2>1, <2>2 DEF NamedRuns, RunRecord
  <2>5. CASE r # q BY <2>3, <2>5, Untouched
  <2>6. CASE r = q
    BY <2>2, <2>4, <2>6 DEF Passage, RowRests, Outlived, Rested, AfterPhases
  <2> QED BY <2>5, <2>6
<1>7. CASE FailStaleRun(t)
  <2>1. run' = run /\ ledger' = [ledger EXCEPT ![tick[t].run] = FailedIfRunning(tick[t].run)]
    BY <1>7 DEF FailStaleRun
  <2>2. ledger'[r] = ledger[r] \/ ledger'[r] = "failed"
    BY <1>N, <2>1 DEF FailedIfRunning, NamedTypes
  <2> QED BY <2>1, <2>2, Untouched
<1>8. TickStart(t) => run' = run /\ ledger' = ledger BY DEF TickStart
<1>9. ASSUME TickStep(t), ~Dispatch(t), ~HandBack(t), ~CreateScheduledRun(t), ~FailStaleRun(t),
             \A d \in tick[t].due, q \in Runs : ~ScheduledClaim(t, d, q)
     PROVE  run' = run /\ ledger' = ledger
  BY <1>9 DEF TickStep, ReclaimRow, TickSwitchOff, SelectDue, ReadBusySpaces, SyncStep, SyncRead,
              SyncDerive, SyncWrite, PassRow
<1> HIDE DEF Passage
<1> QED BY <1>1, <1>2, <1>3, <1>4, <1>5, <1>6, <1>7, <1>8, <1>9

\* A run that is written over in place.
LEMMA Writing ==
    ASSUME NamedTypes, NEW q \in Runs, NEW r \in Runs, RowRests(r),
           \A o \in Runs : o # q => run'[o] = run[o],
           run'[q].overstayed = run[q].overstayed, run[q].pc # "over", run'[q].pc \notin {"lost", "dead"},
           r # q => ledger'[r] = ledger[r],
           run'[q].pc \in Rested => ledger'[q] # "running",
           ledger'[q] = "running" => ledger[q] = "running" \/ run'[q].pc \in {"created", "dispatched"}
    PROVE  Passage(r)
<1>1. CASE r # q BY <1>1, Untouched
<1>2. CASE r = q BY <1>2 DEF Passage, RowRests, Outlived
<1> QED BY <1>1, <1>2

\* What the steps of a request that is under way leave its run.
LEMMA WritesInPlace ==
    ASSUME NamedTypes, NEW q \in Runs,
           ClaimEvents(q) \/ GateWake(q) \/ FinishRun(q) \/ ReleaseThrows(q)
           \/ (ReadForRelease(q) /\ Holds(q)) \/ (ReleaseRow(q) /\ Holds(q))
    PROVE  /\ \A o \in Runs : o # q => run'[o] = run[o]
           /\ run'[q].overstayed = run[q].overstayed
           /\ run'[q].agent = run[q].agent
<1>0. run \in [Runs -> NamedRuns] /\ run[q] \in RunRecord BY DEF NamedTypes, NamedRuns
<1>1. CASE ClaimEvents(q) BY <1>0, <1>1 DEF ClaimEvents, RunRecord
<1>2. CASE GateWake(q)
  <2>1. PICK m : run' = [run EXCEPT ![q].pc = "gated", ![q].mail = @ \ m] BY <1>2 DEF GateWake
  <2> QED BY <1>0, <2>1 DEF RunRecord
<1>3. CASE FinishRun(q)
  <2>1. PICK o : run' = [run EXCEPT ![q].pc = "finished", ![q].outcome = o, ![q].mail = {}] BY <1>3 DEF FinishRun
  <2> QED BY <1>0, <2>1 DEF RunRecord
<1>4. CASE ReleaseThrows(q) BY <1>0, <1>4 DEF ReleaseThrows, RunRecord
<1>5. CASE ReadForRelease(q) /\ Holds(q) BY <1>0, <1>5 DEF ReadForRelease, RunRecord
<1>6. CASE ReleaseRow(q) /\ Holds(q) BY <1>0, <1>6 DEF ReleaseRow, RunRecord
<1> QED BY <1>1, <1>2, <1>3, <1>4, <1>5, <1>6

\* What a run does up to its first statement under way, and at its birth.
LEMMA ClaimsPass ==
    ASSUME IInv, NEW q \in Runs, NEW r \in Runs, \A o \in Runs : RowRests(o),
           \/ ClaimEvents(q) \/ GateWake(q) \/ CreateFanOutRun(q) \/ ManualClaim(q) \/ ResetToClock(q) \/ CreateManualRun(q)
           \/ \E o \in Runs : FanOut(q, o)
           \/ \E a \in Agents, d \in Doors : AskManualRun(q, a, d)
    PROVE  Passage(r)
<1>N. NamedTypes /\ LedgerFollows(q) BY DEF IInv
<1>0. run \in [Runs -> NamedRuns] /\ run[q] \in RunRecord BY <1>N DEF NamedTypes, NamedRuns
<1> HIDE DEF Passage
<1>1. CASE ClaimEvents(q)
  <2>1. ledger' = ledger /\ run[q].pc = "claimed" /\ run'[q].pc = "mailed" BY <1>1, <1>0 DEF ClaimEvents
  <2> QED BY <1>1, <1>N, <2>1, WritesInPlace, Writing DEF Rested, AfterPhases
<1>2. CASE GateWake(q)
  <2>0. PICK m : run' = [run EXCEPT ![q].pc = "gated", ![q].mail = @ \ m] BY <1>2 DEF GateWake
  <2>1. ledger' = ledger /\ run[q].pc = "mailed" /\ run'[q].pc = "gated" BY <1>2, <2>0, <1>0 DEF GateWake, RunRecord
  <2> QED BY <1>2, <1>N, <2>1, WritesInPlace, Writing DEF Rested, AfterPhases
<1>3. CASE CreateFanOutRun(q) \/ CreateManualRun(q)
  <2>1. /\ MoveRun(q, "dispatched") /\ run[q].pc \in {"claimed", "reset"}
        /\ r # q => ledger'[r] = ledger[r]
    BY <1>3, <1>N DEF CreateFanOutRun, CreateManualRun, NamedTypes
  <2>2. "dispatched" \in RunPhases BY DEF RunPhases, WorkPhases
  <2> QED BY <1>N, <2>1, <2>2, Moving DEF Rested, AfterPhases
<1>4. CASE ManualClaim(q)
  <2>1. ledger' = ledger /\ run[q].pc = "asked" /\ (MoveRun(q, "claimed") \/ EndRun(q, "over"))
    BY <1>4 DEF ManualClaim
  <2>2. ledger[q] = "none" BY <1>N, <2>1 DEF LedgerFollows
  <2>3. "claimed" \in RunPhases BY DEF RunPhases, ClaimPhases
  <2>4. CASE MoveRun(q, "claimed") BY <1>N, <2>1, <2>2, <2>3, <2>4, Moving
  <2>5. CASE EndRun(q, "over") BY <1>N, <2>1, <2>2, <2>5, Ending
  <2> QED BY <2>1, <2>4, <2>5
<1>5. CASE ResetToClock(q)
  <2>1. ledger' = ledger /\ run[q].pc = "mailed" /\ MoveRun(q, "reset") BY <1>5 DEF ResetToClock
  <2>2. "reset" \in RunPhases BY DEF RunPhases, ClaimPhases
  <2> QED BY <1>N, <2>1, <2>2, Moving DEF Rested, AfterPhases
<1>6. ASSUME NEW o \in Runs, FanOut(q, o) PROVE Passage(r)
  <2>1. CASE FiresOn(run[q].agent)
    <3>1. /\ run' = [run EXCEPT ![q].others = 0,
                                ![o] = [NewRun(run[q].agent, "fanout", "claimed") EXCEPT !.others = run[q].others - 1]]
          /\ ledger' = [ledger EXCEPT ![o] = "none"] /\ Unnamed(o)
      BY <1>6, <2>1 DEF FanOut
    <3>2. run'[o].pc = "claimed" /\ ledger'[o] = "none"
      BY <1>N, <1>0, <3>1 DEF NamedTypes, NewRun
    <3>3. ASSUME r # o
         PROVE  run'[r].pc = run[r].pc /\ run'[r].overstayed = run[r].overstayed /\ ledger'[r] = ledger[r]
      <4>1. ledger'[r] = ledger[r] BY <1>N, <3>1, <3>3 DEF NamedTypes
      <4>2. r # q => run'[r] = run[r] BY <1>0, <3>1, <3>3
      <4>3. r = q => run'[r] = [run[r] EXCEPT !.others = 0] BY <1>0, <3>1, <3>3
      <4>4. r = q => run'[r].pc = run[r].pc /\ run'[r].overstayed = run[r].overstayed
        BY <1>0, <4>3 DEF NamedRuns, RunRecord
      <4> QED BY <4>1, <4>2, <4>4
    <3> QED BY <1>N, <3>1, <3>2, <3>3, Minting
  <2>2. CASE ~FiresOn(run[q].agent)
    <3>1. run' = [run EXCEPT ![q].others = 0] /\ ledger' = ledger BY <1>6, <2>2 DEF FanOut
    <3>2. run'[r].pc = run[r].pc /\ run'[r].overstayed = run[r].overstayed
      BY <1>0, <3>1 DEF NamedRuns, RunRecord
    <3> QED BY <3>1, <3>2, Untouched
  <2> QED BY <2>1, <2>2
<1>7. ASSUME NEW a \in Agents, NEW d \in Doors, AskManualRun(q, a, d) PROVE Passage(r)
  <2>1. /\ run' = [run EXCEPT ![q] = NewRun(a, d, "asked")]
        /\ ledger' = [ledger EXCEPT ![q] = "none"] /\ Unnamed(q)
    BY <1>7 DEF AskManualRun
  <2>2. run'[q].pc = "asked" /\ ledger'[q] = "none" BY <1>N, <2>1 DEF NamedTypes, NewRun
  <2>3. r # q => run'[r] = run[r] /\ ledger'[r] = ledger[r] BY <1>N, <2>1 DEF NamedTypes
  <2> QED BY <1>N, <2>1, <2>2, <2>3, Minting
<1> QED BY <1>1, <1>2, <1>3, <1>4, <1>5, <1>6, <1>7

\* What it does from there on, and what befalls it.
LEMMA WorkPasses ==
    ASSUME IInv, NEW q \in Runs, NEW r \in Runs, \A o \in Runs : RowRests(o),
           \/ StartRun(q) \/ FinishRun(q) \/ ReadForRelease(q) \/ ReleaseRow(q) \/ RearmIfPending(q)
           \/ PullForRelease(q) \/ SettleRun(q) \/ RunSwitchOff(q)
           \/ Overstay(q) \/ LoseDispatch(q) \/ RunDies(q) \/ GroupDies(q) \/ ReleaseThrows(q) \/ RearmFails(q)
    PROVE  Passage(r)
<1>N. NamedTypes /\ LedgerFollows(q) BY DEF IInv
<1>0. run \in [Runs -> NamedRuns] /\ run[q] \in RunRecord BY <1>N DEF NamedTypes, NamedRuns
<1>P. /\ {"executing", "finished", "settle", "pull", "switch", "switched"} \subseteq RunPhases
      /\ run[q].pc \in Rested => ledger[q] # "running"
  BY DEF RunPhases, WorkPhases, AfterPhases, RowRests
<1> HIDE DEF Passage
<1>1. CASE StartRun(q)
  <2>1. ledger' = ledger /\ run[q].pc = "dispatched" BY <1>1 DEF StartRun
  <2>2. CASE MoveRun(q, "executing") BY <1>N, <1>P, <2>1, <2>2, Moving DEF Rested, AfterPhases
  <2>3. CASE ledger[q] # "running" /\ EndRun(q, "over") BY <1>N, <2>1, <2>3, Ending
  <2> QED BY <1>1, <2>2, <2>3 DEF StartRun
<1>2. CASE FinishRun(q)
  <2>1. PICK o \in Outcomes :
            /\ run' = [run EXCEPT ![q].pc = "finished", ![q].outcome = o, ![q].mail = {}]
            /\ ledger' = [ledger EXCEPT ![q] = IF o = "success" THEN "succeeded" ELSE "failed"]
    BY <1>2 DEF FinishRun
  <2>2. run'[q].pc = "finished" /\ ledger'[q] # "running" /\ (r # q => ledger'[r] = ledger[r])
    BY <1>N, <1>0, <2>1 DEF NamedTypes
  <2>3. run[q].pc = "executing" BY <1>2 DEF FinishRun
  <2> QED BY <1>2, <1>N, <2>2, <2>3, WritesInPlace, Writing
<1>3. CASE ReadForRelease(q)
  <2>1. ledger' = ledger /\ run[q].pc = "finished" BY <1>3 DEF ReadForRelease
  <2>2. ledger[q] # "running" BY <1>P, <2>1 DEF Rested
  <2>3. CASE Holds(q)
    <3>1. run'[q].pc = "releasing" BY <1>0, <1>3, <2>3 DEF ReadForRelease, RunRecord
    <3> QED BY <1>3, <1>N, <2>1, <2>2, <2>3, <3>1, WritesInPlace, Writing
  <2>4. CASE ~Holds(q)
    <3>1. EndRun(q, "over") BY <1>3, <2>4 DEF ReadForRelease
    <3> QED BY <1>N, <2>1, <2>2, <3>1, Ending
  <2> QED BY <2>3, <2>4
<1>4. CASE ReleaseRow(q)
  <2>1. ledger' = ledger /\ run[q].pc = "releasing" BY <1>4 DEF ReleaseRow
  <2>2. ledger[q] # "running" BY <1>P, <2>1 DEF Rested
  <2>3. CASE Holds(q)
    <3>1. run'[q].pc = "rearm" BY <1>0, <1>4, <2>3 DEF ReleaseRow, RunRecord
    <3> QED BY <1>4, <1>N, <2>1, <2>2, <2>3, <3>1, WritesInPlace, Writing
  <2>4. CASE ~Holds(q)
    <3>1. EndRun(q, "over") BY <1>4, <2>4 DEF ReleaseRow
    <3> QED BY <1>N, <2>1, <2>2, <3>1, Ending
  <2> QED BY <2>3, <2>4
<1>5. CASE RearmIfPending(q) \/ RearmFails(q) \/ PullForRelease(q)
  <2>1. ledger' = ledger /\ run[q].pc \in {"rearm", "pull"} /\ (MoveRun(q, "pull") \/ MoveRun(q, "settle"))
    BY <1>5 DEF RearmIfPending, RearmFails, PullForRelease
  <2>2. ledger[q] # "running" BY <1>P, <2>1 DEF Rested, AfterPhases
  <2> QED BY <1>N, <1>P, <2>1, <2>2, Moving
<1>6. CASE SettleRun(q) \/ RunSwitchOff(q)
  <2>1. /\ ledger' = ledger /\ run[q].pc \in {"settle", "switch", "switched"}
        /\ MoveRun(q, "switch") \/ MoveRun(q, "switched") \/ EndRun(q, "over")
    BY <1>6 DEF SettleRun, RunSwitchOff
  <2>2. ledger[q] # "running" BY <1>P, <2>1 DEF Rested, AfterPhases
  <2> QED BY <1>N, <1>P, <2>1, <2>2, Moving, Ending
<1>7. CASE Overstay(q)
  <2>1. run' = [run EXCEPT ![q].overstayed = TRUE] /\ ledger' = ledger BY <1>7 DEF Overstay
  <2>2. r # q => run'[r] = run[r] BY <1>0, <2>1
  <2>3. run'[q].pc = run[q].pc /\ run'[q].overstayed BY <1>0, <2>1 DEF RunRecord
  <2>4. CASE r # q BY <2>1, <2>2, <2>4, Untouched
  <2>5. CASE r = q BY <2>1, <2>3, <2>5 DEF Passage, RowRests, Outlived, Rested, AfterPhases
  <2> QED BY <2>4, <2>5
<1>8. CASE LoseDispatch(q)
  <2>1. ledger' = ledger /\ current' = current /\ run[q].pc = "dispatched" /\ EndRun(q, "lost")
    BY <1>8 DEF LoseDispatch, row
  <2> QED BY <1>N, <2>1, Ending
<1>9. CASE RunDies(q)
  <2>1. ledger' = ledger /\ current' = current /\ run[q].pc # "over" /\ EndRun(q, "dead")
    BY <1>9 DEF RunDies, row, WorkPhases, AfterPhases
  <2> QED BY <1>N, <2>1, Ending
<1>10. CASE GroupDies(q)
  <2>1. ledger' = ledger BY <1>10 DEF GroupDies
  <2>2. CASE run' = [run EXCEPT ![q].others = 0]
    <3>1. run'[r].pc = run[r].pc /\ run'[r].overstayed = run[r].overstayed
      BY <1>0, <2>2 DEF NamedRuns, RunRecord
    <3> QED BY <2>1, <3>1, Untouched
  <2>3. CASE run[q].pc = "claimed" /\ run' = [run EXCEPT ![q].pc = "dead", ![q].others = 0]
    <3>1. r # q => run'[r] = run[r] BY <1>0, <2>3
    <3>2. run'[q].pc = "dead" /\ run'[q].overstayed = run[q].overstayed BY <1>0, <2>3 DEF RunRecord
    <3>3. CASE r # q BY <2>1, <3>1, <3>3, Untouched
    <3>4. CASE r = q BY <2>1, <2>3, <3>2, <3>4 DEF Passage, RowRests, Outlived, Rested, AfterPhases
    <3> QED BY <3>3, <3>4
  <2> QED BY <1>10, <2>2, <2>3 DEF GroupDies
<1>11. CASE ReleaseThrows(q)
  <2>1. run[q].pc \in {"finished", "releasing"} /\ run'[q].pc = "finished" /\ ledger'[q] = "failed"
        /\ (r # q => ledger'[r] = ledger[r])
    BY <1>11, <1>N, <1>0 DEF ReleaseThrows, NamedTypes
  <2> QED BY <1>11, <1>N, <2>1, WritesInPlace, Writing
<1> QED BY <1>1, <1>2, <1>3, <1>4, <1>5, <1>6, <1>7, <1>8, <1>9, <1>10, <1>11

\* So every step passes for every run.
LEMMA RunsPass ==
    ASSUME IInv, \A o \in Runs : RowRests(o), [Next]_vars, NEW r \in Runs
    PROVE  Passage(r)
<1> HIDE DEF Passage
<1>1. ASSUME NEW s \in Senders, SenderStep(s) \/ SenderDies(s) \/ \E a \in Agents, k \in Keys : CountPending(s, a, k)
     PROVE  UNCHANGED <<run, ledger>>
  BY <1>1 DEF SenderStep, InsertEvent, PullForInsert, CountPending, SenderDies
<1>2. ASSUME NEW e \in Editors,
             \/ SyncStep(e) \/ EditorDies(e)
             \/ \E a \in Agents : Activate(e, a) \/ SaveBrief(e, a) \/ PersonSwitchOff(e, a)
     PROVE  UNCHANGED <<run, ledger>>
  BY <1>2 DEF SyncStep, SyncRead, SyncDerive, SyncWrite, EditorDies, Activate, SaveBrief, PersonSwitchOff
<1>3. TimePasses => UNCHANGED <<run, ledger>> BY DEF TimePasses, ClockComes, DebounceEnds
<1>4. UNCHANGED vars => UNCHANGED <<run, ledger>> BY DEF vars
<1>5. UNCHANGED <<run, ledger>> => Passage(r) BY Untouched
<1>6. ASSUME NEW q \in Runs,
             \/ RunStep(q) \/ Overstay(q) \/ LoseDispatch(q) \/ RunDies(q) \/ GroupDies(q) \/ ReleaseThrows(q) \/ RearmFails(q)
             \/ \E a \in Agents, d \in Doors : AskManualRun(q, a, d)
     PROVE  Passage(r)
  BY <1>6, ClaimsPass, WorkPasses DEF RunStep
<1>7. ASSUME NEW t \in Ticks, TickStart(t) \/ TickStep(t) \/ TickDies(t) PROVE Passage(r)
  BY <1>7, TicksPass
<1> QED BY <1>1, <1>2, <1>3, <1>4, <1>5, <1>6, <1>7 DEF Next

\* A tick is moved by its own steps alone.
LEMMA TickAlone ==
    ASSUME NamedTypes, [Next]_vars, NEW t \in Ticks
    PROVE  tick'[t] = tick[t] \/ TickStart(t) \/ TickStep(t) \/ TickDies(t)
<1>N. tick \in [Ticks -> TickRecord] /\ Ticks \cap Editors = {} /\ Ticks \subseteq Syncers /\ Editors \subseteq Syncers
  BY SyncTypes
<1>1. ASSUME NEW x \in Syncers, x # t, SyncStep(x) PROVE tick'[t] = tick[t]
  BY <1>1, SyncWrites DEF SyncStep, SyncRead, SyncDerive
<1>2. ASSUME NEW u \in Ticks, TickStart(u) \/ TickStep(u) \/ TickDies(u), ~SyncStep(u), u # t PROVE tick'[t] = tick[t]
  BY <1>N, <1>2 DEF TickStart, TickStep, TickDies, ReclaimRow, FailStaleRun, TickSwitchOff, MoveTick, SelectDue,
                     ReadBusySpaces, PassRow, ScheduledClaim, HandBack, CreateScheduledRun, Dispatch
<1>3. ASSUME NEW r \in Runs,
             \/ RunStep(r) \/ Overstay(r) \/ LoseDispatch(r) \/ RunDies(r) \/ GroupDies(r) \/ ReleaseThrows(r) \/ RearmFails(r)
             \/ \E a \in Agents, d \in Doors : AskManualRun(r, a, d)
     PROVE  tick' = tick
  BY <1>3 DEF RunStep, ClaimEvents, GateWake, CreateFanOutRun, ManualClaim, ResetToClock, CreateManualRun, StartRun,
              FinishRun, ReadForRelease, ReleaseRow, RearmIfPending, PullForRelease, SettleRun, RunSwitchOff, FanOut,
              Overstay, LoseDispatch, RunDies, GroupDies, ReleaseThrows, RearmFails, AskManualRun
<1>4. ASSUME NEW s \in Senders, SenderStep(s) \/ SenderDies(s) \/ \E a \in Agents, k \in Keys : CountPending(s, a, k) PROVE tick' = tick
  BY <1>4 DEF SenderStep, InsertEvent, PullForInsert, CountPending, SenderDies
<1>5. ASSUME NEW e \in Editors,
             EditorDies(e) \/ \E a \in Agents : Activate(e, a) \/ SaveBrief(e, a) \/ PersonSwitchOff(e, a)
     PROVE  tick' = tick
  BY <1>5 DEF EditorDies, Activate, SaveBrief, PersonSwitchOff
<1>6. TimePasses \/ UNCHANGED vars => tick' = tick BY DEF TimePasses, ClockComes, DebounceEnds, vars
<1>7. ASSUME NEW e \in Editors, SyncStep(e) PROVE tick'[t] = tick[t]
  BY <1>7, <1>1, <1>N
<1>8. ASSUME NEW u \in Ticks, TickStart(u) \/ TickStep(u) \/ TickDies(u), u # t PROVE tick'[t] = tick[t]
  BY <1>8, <1>1, <1>2, <1>N
<1> QED BY <1>3, <1>4, <1>5, <1>6, <1>7, <1>8 DEF Next

\* A tick that is to fail a run, or carries one, goes on to do so or dies.
TickGoesOn(t) ==
    /\ tick'[t].pc \notin {"fail", "carry"} => tick'[t].run = None
    /\ tick'[t].pc = "fail" =>
           \/ tick[t].pc = "fail" /\ tick'[t].run = tick[t].run
           \/ run' = run /\ tick'[t].run \in Runs /\ run[tick'[t].run].overstayed
    /\ tick[t].pc = "fail" =>
           \/ tick'[t].pc = "fail" /\ tick'[t].run = tick[t].run
           \/ FailStaleRun(t) \/ TickDies(t)

\* A tick that names a run keeps it until it has failed or handed on that run, or dies.
LEMMA TickNames ==
    ASSUME IInv, BusyNames, SyncInv, [Next]_vars, NEW t \in Ticks
    PROVE  TickGoesOn(t)
<1>N. /\ NamedTypes /\ tick[t] \in TickRecord /\ tick \in [Ticks -> TickRecord]
      /\ tick[t].pc \notin {"fail", "carry"} => tick[t].run = None
  <2>1. NamedTypes BY DEF IInv
  <2> QED BY <2>1, SyncTypes DEF BusyNames
<1>0. tick'[t] = tick[t] => TickGoesOn(t) BY <1>N DEF TickGoesOn
<1>1. ASSUME TickStart(t) PROVE TickGoesOn(t)
  <2>1. tick'[t].pc = "reclaim" /\ tick'[t].run = None /\ tick[t].pc = "idle"
    BY <1>N, <1>1 DEF TickStart, IdleTick
  <2> QED BY <2>1 DEF TickGoesOn
<1>2. ASSUME NEW s \in tick[t].stale, ReclaimRow(t, s) PROVE TickGoesOn(t)
  <2>1. tick[t].pc = "reclaim" /\ run' = run /\ tick[t].run = None BY <1>2, <1>N DEF ReclaimRow
  <2>2. CASE StillStale(s)
    <3>1. tick' = [tick EXCEPT ![t].pc = "fail", ![t].stale = @ \ {s}, ![t].agent = s.agent,
                               ![t].run = s.run, ![t].failures = OneMore(s.failures)]
      BY <1>2, <2>2 DEF ReclaimRow
    <3>2. tick'[t].pc = "fail" /\ tick'[t].run = s.run BY <3>1, <1>N DEF TickRecord
    <3>3. run[s.run].overstayed /\ s.run \in Runs BY <1>2, <1>N, <2>2, TickFields DEF IInv, StaleIsOverstayed, StillStale
    <3> QED BY <2>1, <3>2, <3>3 DEF TickGoesOn
  <2>3. CASE ~StillStale(s)
    <3>1. tick' = [tick EXCEPT ![t].stale = @ \ {s}] BY <1>2, <2>3 DEF ReclaimRow
    <3>2. tick'[t].pc = "reclaim" /\ tick'[t].run = None BY <2>1, <3>1, <1>N DEF TickRecord
    <3> QED BY <2>1, <3>2 DEF TickGoesOn
  <2> QED BY <2>2, <2>3
<1>3. CASE FailStaleRun(t)
  <2>1. tick'[t].run = None /\ tick'[t].pc \in {"switch", "reclaim"} BY <1>3, <1>N DEF FailStaleRun, TickRecord
  <2> QED BY <1>3, <2>1 DEF TickGoesOn
<1>4. ASSUME TickSwitchOff(t) \/ SelectDue(t) \/ ReadBusySpaces(t) PROVE TickGoesOn(t)
  <2>1. /\ tick[t].pc \notin {"fail", "carry"} /\ tick'[t].pc \notin {"fail", "carry"} /\ tick'[t].run = tick[t].run
    BY <1>4, <1>N DEF TickSwitchOff, SelectDue, ReadBusySpaces, MoveTick, TickRecord
  <2> QED BY <1>N, <2>1 DEF TickGoesOn
<1>5. ASSUME NEW d \in tick[t].due, PassRow(t, d) PROVE TickGoesOn(t)
  <2>1. /\ tick[t].pc = "visit" /\ tick'[t].pc \in {"visit", "sync"} /\ tick'[t].run = tick[t].run
    BY <1>5, <1>N DEF PassRow, Visiting, TickRecord
  <2> QED BY <1>N, <2>1 DEF TickGoesOn
<1>6. ASSUME NEW d \in tick[t].due, NEW r \in Runs, ScheduledClaim(t, d, r) PROVE TickGoesOn(t)
  <2>1. /\ tick[t].pc = "visit" /\ tick'[t].pc = "carry"
    BY <1>6, <1>N DEF ScheduledClaim, Visiting, TickRecord
  <2> QED BY <2>1 DEF TickGoesOn
<1>7. CASE HandBack(t) \/ CreateScheduledRun(t)
  <2>1. /\ tick[t].pc = "carry" /\ tick'[t].pc = "visit" /\ tick'[t].run = None
    BY <1>7, <1>N DEF HandBack, CreateScheduledRun, TickRecord
  <2> QED BY <2>1 DEF TickGoesOn
<1>8. CASE Dispatch(t) \/ TickDies(t)
  <2>1. /\ tick'[t].pc = "idle" /\ tick'[t].run = None /\ (tick[t].pc = "visit" \/ TickDies(t))
    BY <1>8, <1>N DEF Dispatch, TickDies, IdleTick
  <2> QED BY <2>1 DEF TickGoesOn
<1>9. CASE SyncStep(t)
  <2>1. SyncRead(t) \/ SyncDerive(t) => tick' = tick BY DEF SyncRead, SyncDerive
  <2>2. CASE SyncWrite(t)
    <3>1. sync[t].agent # None BY <1>N, <2>2, SyncWrites, SyncTypes
    <3>2. tick[t].pc = "sync" BY <3>1 DEF SyncInv, SyncsAtWork
    <3>3. tick' = [tick EXCEPT ![t].pc = "visit"] BY <2>2 DEF SyncWrite
    <3>4. tick'[t].pc = "visit" /\ tick'[t].run = tick[t].run BY <1>N, <3>3 DEF TickRecord
    <3> QED BY <1>N, <3>2, <3>4 DEF TickGoesOn
  <2> QED BY <1>0, <1>9, <2>1, <2>2 DEF SyncStep
<1> HIDE DEF TickGoesOn
<1>10. ASSUME TickStart(t) \/ TickStep(t) \/ TickDies(t) PROVE TickGoesOn(t)
  BY <1>1, <1>2, <1>3, <1>4, <1>5, <1>6, <1>7, <1>8, <1>9, <1>10 DEF TickStep
<1> QED BY <1>N, <1>0, <1>10, TickAlone

\* Every step keeps the rows of finished runs at rest, and what is to be failed overstayed.
LEMMA RowInvStep ==
    ASSUME IInv, SyncInv, RowInv, [Next]_vars
    PROVE  RowInv'
<1>N. NamedTypes /\ None \notin Runs BY Constants DEF IInv
<1>1. \A r \in Runs : RowRests(r)' BY RunsPass DEF RowInv, Passage
<1>2. \A t \in Ticks : TickGoesOn(t) BY TickNames DEF RowInv
<1>3. BusyNames' BY <1>2 DEF BusyNames, TickGoesOn
<1>4. ASSUME NEW t \in Ticks, tick'[t].pc = "fail", NEW r, r = tick'[t].run PROVE Outlived(r)'
  <2>1. CASE tick[t].pc = "fail" /\ r = tick[t].run
    <3>1. r \in Runs /\ Outlived(r) BY <1>N, <2>1, TickFields DEF RowInv, FailedHasOverstayed
    <3>2. ~Unnamed(r) BY <2>1 DEF Unnamed
    <3> QED BY <3>1, <3>2, RunsPass DEF RowInv, Passage
  <2>2. CASE run' = run /\ run[r].overstayed BY <2>2 DEF Outlived
  <2> QED BY <1>2, <1>4, <2>1, <2>2 DEF TickGoesOn
<1>5. FailedHasOverstayed' BY <1>4 DEF FailedHasOverstayed, Outlived
<1> QED BY <1>1, <1>3, <1>5 DEF RowInv

\* A run row says `running` only for a run that is not finished.
LEMMA RowInvHolds == Spec => []RowInv
<1>1. Init => RowInv
  <2> SUFFICES ASSUME Init PROVE RowInv OBVIOUS
  <2>1. \A r \in Runs : RowRests(r) BY DEF Init, RowRests
  <2>2. BusyNames /\ FailedHasOverstayed BY DEF Init, BusyNames, FailedHasOverstayed, IdleTick
  <2> QED BY <2>1, <2>2 DEF RowInv
<1> QED BY <1>1, RowInvStep, Inductive, SyncInvHolds, PTL DEF Spec

\* A run row is left `running` for ever only by two deaths after its claim overstayed
\* (reclaimStale): of the tick between its two statements, or of a request so late that
\* it created the run after the reclaim.
THEOREM DeathsOrphan == Spec => OnlyADeathOrphans
<1> DEFINE Blamed(r) ==
      /\ run[r].overstayed
      /\ \/ \E t \in Ticks : tick[t].pc = "fail" /\ tick[t].run = r /\ tick'[t].pc = "idle"
         \/ ~Holds(r) /\ run[r].pc \in WorkPhases /\ run'[r].pc \in {"lost", "dead"}
<1>1. ASSUME IInv, SyncInv, RowInv, [Next]_vars, NEW r \in Runs, ~Orphaned(r), Orphaned(r)'
     PROVE  Blamed(r)
  <2>N. /\ NamedTypes /\ LedgerFollows(r) /\ RowRests(r) /\ BusyNames /\ Passage(r)
        /\ \A t \in Ticks : TickGoesOn(t)
    BY <1>1, RunsPass, TickNames DEF IInv, RowInv
  <2>0. None \notin Runs BY Constants
  <2>1. /\ ledger'[r] = "running" /\ run'[r].pc \in {"free", "over", "lost", "dead"}
        /\ \A a \in Agents : current'[a] # r
        /\ \A t \in Ticks : tick'[t].run # r
    BY <1>1 DEF Orphaned
  <2>2. ledger[r] = "running" BY <2>1, <2>N DEF Passage
  <2>3. run[r].pc \in {"created", "dispatched", "executing", "lost", "dead"}
    <3>1. run[r].pc \in RunPhases BY <2>N DEF NamedTypes, NamedRuns, RunRecord
    <3> QED BY <2>2, <2>N, <3>1 DEF RowRests, LedgerFollows, Rested, AfterPhases, ClaimPhases, WorkPhases, RunPhases
  <2>4. ASSUME NEW t \in Ticks, tick[t].run = r PROVE Blamed(r)
    <3>1. tick[t].pc \in {"fail", "carry"} BY <2>N, <2>0, <2>4 DEF BusyNames
    <3>2. tick[t].pc = "fail"
      <4>1. tick[t].pc = "carry" => run[r].pc \in {"claimed", "mailed", "gated"}
        BY <1>1, <2>4 DEF IInv, CarriedIsClaimed
      <4> QED BY <2>3, <3>1, <4>1
    <3>3. FailStaleRun(t) \/ TickDies(t) BY <2>N, <2>1, <2>4, <3>2 DEF TickGoesOn
    <3>4. ASSUME FailStaleRun(t) PROVE FALSE
      <4>1. ledger'[r] = "failed" BY <2>N, <2>2, <2>4, <3>4 DEF FailStaleRun, FailedIfRunning, NamedTypes
      <4> QED BY <2>1, <4>1
    <3>5. tick'[t].pc = "idle" BY <2>N, <3>3, <3>4 DEF TickDies, NamedTypes, IdleTick
    <3>6. run[r].overstayed BY <1>1, <2>3, <2>4, <3>2 DEF RowInv, FailedHasOverstayed, Outlived
    <3> QED BY <2>4, <3>2, <3>5, <3>6
  <2>5. ASSUME NEW a \in Agents, current[a] = r PROVE \E t \in Ticks : tick[t].run = r
    <3>1. current[a] # None /\ current'[a] # current[a] BY <2>0, <2>1, <2>5
    <3>2. ASSUME NEW q \in Runs, ReleaseRow(q), Holds(q), run[q].agent = a PROVE FALSE
      <4>1. q = r /\ run[q].pc = "releasing" BY <2>5, <3>2 DEF ReleaseRow, Holds
      <4> QED BY <2>3, <4>1
    <3>3. ASSUME NEW t \in Ticks, tick'[t].run = current[a] PROVE FALSE BY <2>1, <2>5, <3>3
    <3> QED BY <1>1, <2>5, <3>1, <3>2, <3>3, RowFreed
  <2>6. CASE run[r].pc \in {"created", "dispatched", "executing"} /\ \A a \in Agents : current[a] # r
    <3>1. run'[r].pc \in {"lost", "dead"} BY <2>N, <2>1, <2>6 DEF Passage, Rested
    <3>2. run[r].agent \in Agents /\ run[r].pc \in WorkPhases
      BY <2>N, <2>6 DEF NamedTypes, NamedRuns, Carrying, WorkPhases
    <3>3. ~Holds(r) BY <2>6, <3>2 DEF Holds
    <3>4. run[r].overstayed BY <1>1, <3>2, <3>3 DEF IInv, ClaimHeld, Holds
    <3> QED BY <3>1, <3>2, <3>3, <3>4
  <2> HIDE DEF Blamed
  <2> QED BY <1>1, <2>2, <2>3, <2>4, <2>5, <2>6 DEF Orphaned
<1>2. IInv /\ SyncInv /\ RowInv /\ [Next]_vars => [\A r \in Runs : ~Orphaned(r) /\ Orphaned(r)' => Blamed(r)]_vars
  <2> HIDE DEF Blamed
  <2> QED BY <1>1
<1> QED BY <1>2, Inductive, SyncInvHolds, RowInvHolds, PTL DEF Spec, OnlyADeathOrphans

-----------------------------------------------------------------------------
(* Agents whose streak is at its limit *)

\* A release that writes a streak at its limit goes on to switch an agent off that was
\* on, unless the streak was there before.
StreakAsRead ==
    \A r \in Runs :
        run[r].pc = "releasing" /\ Holds(r) /\ active[run[r].agent] /\ run[r].streak >= MaxFailures =>
            run[r].off \/ failures[run[r].agent] >= MaxFailures

\* What a step may do to a run that is being released, or was.
LateMoves(r) ==
    /\ run'[r].pc = "releasing" =>
           \/ ReadForRelease(r) /\ Holds(r)
           \/ /\ run[r].pc = "releasing"
              /\ run'[r].agent = run[r].agent /\ run'[r].streak = run[r].streak /\ run'[r].off = run[r].off
    /\ run[r].pc \in AfterPhases /\ run[r].off =>
           \/ run'[r].pc \in AfterPhases /\ run'[r].agent = run[r].agent /\ run'[r].off = run[r].off
           \/ RunSwitchOff(r)
           \/ run'[r].pc = "dead"

\* A run that stays in its phase keeps what its release decided.
LEMMA LateOthers ==
    ASSUME NEW r \in Runs, run'[r] = run[r] \/ run'[r] = [run[r] EXCEPT !.others = 0] \/ run'[r] = [run[r] EXCEPT !.overstayed = TRUE],
           run[r] \in RunRecord
    PROVE  LateMoves(r)
<1>1. /\ run'[r].pc = run[r].pc /\ run'[r].agent = run[r].agent /\ run'[r].streak = run[r].streak
      /\ run'[r].off = run[r].off
  BY DEF RunRecord
<1> QED BY <1>1 DEF LateMoves

\* A run that is not being released, and does not begin to be, has decided nothing.
LEMMA NotLate ==
    ASSUME NEW r \in Runs, run[r].pc \notin AfterPhases, run'[r].pc # "releasing"
    PROVE  LateMoves(r)
BY DEF LateMoves

\* No tick touches what a release decided.
LEMMA TicksLate ==
    ASSUME IInv, NEW t \in Ticks, TickStart(t) \/ TickStep(t) \/ TickDies(t), NEW r \in Runs
    PROVE  LateMoves(r)
<1>N. NamedTypes /\ run \in [Runs -> NamedRuns] /\ run[r] \in RunRecord
  BY DEF IInv, NamedTypes, NamedRuns
<1>0. /\ \A q \in tick[t].claimed : run[q].pc = "created"
      /\ tick[t].pc = "carry" => tick[t].run \in Runs /\ run[tick[t].run].pc \in {"claimed", "mailed", "gated"}
  BY <1>N, TickFields DEF IInv, CreatedIsOwned, CarriedIsClaimed
<1> HIDE DEF LateMoves
<1>2. CASE Dispatch(t)
  <2>1. run' = [q \in Runs |-> IF q \in tick[t].claimed THEN [run[q] EXCEPT !.pc = "dispatched"] ELSE run[q]]
    BY <1>2 DEF Dispatch
  <2>2. r \notin tick[t].claimed => run'[r] = run[r] BY <2>1
  <2>3. r \in tick[t].claimed => run[r].pc = "created" /\ run'[r].pc = "dispatched" BY <1>N, <1>0, <2>1 DEF RunRecord
  <2> QED BY <1>N, <2>2, <2>3, LateOthers, NotLate DEF AfterPhases
<1>3. CASE TickDies(t)
  <2>1. run' = [q \in Runs |-> IF q \in tick[t].claimed \/ (tick[t].pc = "carry" /\ q = tick[t].run)
                                  THEN [Ended(run[q], "dead") EXCEPT !.others = 0] ELSE run[q]]
    BY <1>3 DEF TickDies
  <2>2. CASE ~(r \in tick[t].claimed \/ (tick[t].pc = "carry" /\ r = tick[t].run))
    BY <1>N, <2>1, <2>2, LateOthers
  <2>3. CASE r \in tick[t].claimed \/ (tick[t].pc = "carry" /\ r = tick[t].run)
    <3>1. run'[r] = [Ended(run[r], "dead") EXCEPT !.others = 0] BY <2>1, <2>3
    <3>2. run'[r].pc = "dead" BY <1>N, <3>1 DEF Ended, NewRun, RunRecord
    <3>3. run[r].pc \in {"created", "claimed", "mailed", "gated"} BY <1>0, <2>3
    <3> QED BY <3>2, <3>3, NotLate DEF AfterPhases
  <2> QED BY <2>2, <2>3
<1>4. ASSUME NEW d \in tick[t].due, NEW q \in Runs, ScheduledClaim(t, d, q) PROVE LateMoves(r)
  <2>1. run' = [run EXCEPT ![q] = NewRun(d.agent, "scheduled", "claimed")] /\ Unnamed(q) BY <1>4 DEF ScheduledClaim
  <2>2. r = q => run'[r].pc = "claimed" /\ run[r].pc \notin AfterPhases
    BY <1>N, <2>1 DEF NewRun, Unnamed, AfterPhases
  <2>3. r # q => run'[r] = run[r] BY <1>N, <2>1
  <2> QED BY <1>N, <2>2, <2>3, NotLate, LateOthers
<1>5. CASE HandBack(t)
  <2>1. tick[t].run \in Runs /\ EndRun(tick[t].run, "over") /\ run[tick[t].run].pc = "gated" BY <1>0, <1>5 DEF HandBack
  <2>2. r # tick[t].run => run'[r] = run[r] BY <1>N, <2>1, EndedRun
  <2>3. r = tick[t].run => run'[r].pc = "over" BY <1>N, <2>1, EndedRun
  <2> QED BY <1>N, <2>1, <2>2, <2>3, NotLate, LateOthers DEF AfterPhases
<1>6. CASE CreateScheduledRun(t)
  <2>1. PICK n \in 0..MaxOthers : run' = [run EXCEPT ![tick[t].run].pc = "created", ![tick[t].run].others = n]
    BY <1>6 DEF CreateScheduledRun
  <2>2. tick[t].run \in Runs /\ run[tick[t].run].pc = "gated" BY <1>6, <1>0 DEF CreateScheduledRun
  <2>3. r # tick[t].run => run'[r] = run[r] BY <1>N, <2>1
  <2>4. r = tick[t].run => run'[r].pc = "created" BY <1>N, <2>1 DEF RunRecord
  <2> QED BY <1>N, <2>2, <2>3, <2>4, NotLate, LateOthers DEF AfterPhases
<1>7. TickStart(t) => run' = run BY DEF TickStart
<1>8. ASSUME TickStep(t), ~Dispatch(t), ~HandBack(t), ~CreateScheduledRun(t),
             \A d \in tick[t].due, q \in Runs : ~ScheduledClaim(t, d, q)
     PROVE  run' = run
  BY <1>8 DEF TickStep, ReclaimRow, FailStaleRun, TickSwitchOff, SelectDue, ReadBusySpaces, SyncStep, SyncRead,
              SyncDerive, SyncWrite, PassRow
<1> QED BY <1>N, <1>2, <1>3, <1>4, <1>5, <1>6, <1>7, <1>8, LateOthers

\* A run that is to switch its agent off keeps that until it does, or dies.
LEMMA RunsLate ==
    ASSUME IInv, NEW q \in Runs, NEW r \in Runs,
           \/ RunStep(q) \/ Overstay(q) \/ LoseDispatch(q) \/ RunDies(q) \/ GroupDies(q) \/ ReleaseThrows(q) \/ RearmFails(q)
           \/ \E a \in Agents, d \in Doors : AskManualRun(q, a, d)
    PROVE  LateMoves(r)
<1>N. NamedTypes /\ run \in [Runs -> NamedRuns] /\ run[r] \in RunRecord /\ run[q] \in RunRecord
  BY DEF IInv, NamedTypes, NamedRuns
<1>P. {"claimed", "reset", "dispatched", "executing", "pull", "settle", "switch", "switched"} \subseteq RunPhases
  BY DEF RunPhases, ClaimPhases, WorkPhases, AfterPhases
<1> HIDE DEF LateMoves
<1>0. run'[r] = run[r] => LateMoves(r) BY <1>N, LateOthers
<1>1. ASSUME NEW p \in RunPhases, MoveRun(q, p), run[q].pc \notin AfterPhases, p # "releasing" PROVE LateMoves(r)
  <2>1. r # q => run'[r] = run[r] BY <1>N, <1>1, Moved
  <2>2. run'[q].pc = p BY <1>N, <1>1, Moved
  <2> QED BY <1>0, <1>1, <2>1, <2>2, NotLate
<1>2. ASSUME NEW p \in {"over", "lost", "dead"}, EndRun(q, p), run[q].pc \notin AfterPhases PROVE LateMoves(r)
  <2>1. r # q => run'[r] = run[r] BY <1>N, <1>2, EndedRun
  <2>2. run'[q].pc = p BY <1>N, <1>2, EndedRun
  <2> QED BY <1>0, <1>2, <2>1, <2>2, NotLate
<1>3. ASSUME ClaimEvents(q) \/ GateWake(q) \/ FinishRun(q) \/ ReleaseThrows(q) \/ (ReleaseRow(q) /\ Holds(q))
     PROVE  LateMoves(r)
  <2>1. r # q => run'[r] = run[r] BY <1>N, <1>3, WritesInPlace
  <2>2. run[q].pc \notin AfterPhases
    BY <1>3 DEF ClaimEvents, GateWake, FinishRun, ReleaseThrows, ReleaseRow, AfterPhases
  <2>3. CASE ClaimEvents(q)
    <3>1. run'[q].pc = "mailed" BY <1>N, <2>3 DEF ClaimEvents, RunRecord
    <3> QED BY <1>0, <2>1, <2>2, <3>1, NotLate
  <2>4. CASE GateWake(q)
    <3>1. PICK m : run' = [run EXCEPT ![q].pc = "gated", ![q].mail = @ \ m] BY <2>4 DEF GateWake
    <3>2. run'[q].pc = "gated" BY <1>N, <3>1 DEF RunRecord
    <3> QED BY <1>0, <2>1, <2>2, <3>2, NotLate
  <2>5. CASE FinishRun(q)
    <3>1. PICK o : run' = [run EXCEPT ![q].pc = "finished", ![q].outcome = o, ![q].mail = {}] BY <2>5 DEF FinishRun
    <3>2. run'[q].pc = "finished" BY <1>N, <3>1 DEF RunRecord
    <3> QED BY <1>0, <2>1, <2>2, <3>2, NotLate
  <2>6. CASE ReleaseThrows(q)
    <3>1. run'[q].pc = "finished" BY <1>N, <2>6 DEF ReleaseThrows, RunRecord
    <3> QED BY <1>0, <2>1, <2>2, <3>1, NotLate
  <2>7. CASE ReleaseRow(q) /\ Holds(q)
    <3>1. run'[q].pc = "rearm" BY <1>N, <2>7 DEF ReleaseRow, RunRecord
    <3> QED BY <1>0, <2>1, <2>2, <3>1, NotLate
  <2> QED BY <1>3, <2>3, <2>4, <2>5, <2>6, <2>7
<1>4. CASE ReadForRelease(q) /\ Holds(q)
  <2>1. r # q => run'[r] = run[r] BY <1>N, <1>4, WritesInPlace
  <2>2. run[q].pc = "finished" BY <1>4 DEF ReadForRelease
  <2> QED BY <1>0, <1>4, <2>1, <2>2 DEF LateMoves, AfterPhases
<1>5. CASE (ReadForRelease(q) \/ ReleaseRow(q)) /\ ~Holds(q)
  BY <1>2, <1>5 DEF ReadForRelease, ReleaseRow, AfterPhases
<1>6. CASE CreateFanOutRun(q) \/ ManualClaim(q) \/ ResetToClock(q) \/ CreateManualRun(q) \/ StartRun(q) \/ LoseDispatch(q)
  BY <1>1, <1>2, <1>6, <1>P DEF CreateFanOutRun, ManualClaim, ResetToClock, CreateManualRun, StartRun, LoseDispatch, AfterPhases
<1>7. CASE RunDies(q)
  <2>1. EndRun(q, "dead") BY <1>7 DEF RunDies
  <2>2. r # q => run'[r] = run[r] BY <1>N, <2>1, EndedRun
  <2>3. run'[q].pc = "dead" BY <1>N, <2>1, EndedRun
  <2> QED BY <1>0, <2>2, <2>3 DEF LateMoves
<1>8. CASE RearmIfPending(q) \/ RearmFails(q) \/ PullForRelease(q) \/ (SettleRun(q) /\ run[q].off)
  <2>1. PICK p \in {"pull", "settle", "switch"} : MoveRun(q, p)
    BY <1>8 DEF RearmIfPending, RearmFails, PullForRelease, SettleRun
  <2>2. p \in RunPhases BY <1>P
  <2>3. r # q => run'[r] = run[r] BY <1>N, <2>1, <2>2, Moved
  <2>4. run'[q].pc = p /\ run'[q].agent = run[q].agent /\ run'[q].off = run[q].off
    BY <1>N, <2>1 DEF MoveRun, RunRecord
  <2> QED BY <1>0, <2>3, <2>4 DEF LateMoves, AfterPhases
<1>9. CASE SettleRun(q) /\ ~run[q].off
  <2>1. EndRun(q, "over") BY <1>9 DEF SettleRun
  <2>2. r # q => run'[r] = run[r] BY <1>N, <2>1, EndedRun
  <2>3. run'[q].pc = "over" BY <1>N, <2>1, EndedRun
  <2> QED BY <1>0, <1>9, <2>2, <2>3 DEF LateMoves
<1>10. CASE RunSwitchOff(q)
  <2>1. MoveRun(q, "switched") \/ EndRun(q, "over") BY <1>10 DEF RunSwitchOff
  <2>2. r # q => run'[r] = run[r] BY <1>N, <1>P, <2>1, Moved, EndedRun
  <2>3. run'[q].pc \in {"switched", "over"} BY <1>N, <1>P, <2>1, Moved, EndedRun
  <2> QED BY <1>0, <1>10, <2>2, <2>3 DEF LateMoves
<1>11. CASE Overstay(q)
  <2>1. run'[r] = run[r] \/ run'[r] = [run[r] EXCEPT !.overstayed = TRUE] BY <1>N, <1>11 DEF Overstay
  <2> QED BY <1>N, <2>1, LateOthers
<1>12. CASE GroupDies(q)
  <2>1. CASE run' = [run EXCEPT ![q].others = 0]
    <3>1. run'[r] = run[r] \/ run'[r] = [run[r] EXCEPT !.others = 0] BY <1>N, <2>1
    <3> QED BY <1>N, <3>1, LateOthers
  <2>2. CASE run[q].pc = "claimed" /\ run' = [run EXCEPT ![q].pc = "dead", ![q].others = 0]
    <3>1. r # q => run'[r] = run[r] BY <1>N, <2>2
    <3>2. run'[q].pc = "dead" BY <1>N, <2>2 DEF RunRecord
    <3> QED BY <1>0, <2>2, <3>1, <3>2, NotLate DEF AfterPhases
  <2> QED BY <1>12, <2>1, <2>2 DEF GroupDies
<1>13. ASSUME NEW a \in Agents, NEW d \in Doors, AskManualRun(q, a, d) PROVE LateMoves(r)
  <2>1. run' = [run EXCEPT ![q] = NewRun(a, d, "asked")] /\ Unnamed(q) BY <1>13 DEF AskManualRun
  <2>2. run'[q].pc = "asked" /\ run[q].pc \notin AfterPhases BY <1>N, <2>1 DEF NewRun, Unnamed, AfterPhases
  <2>3. r # q => run'[r] = run[r] BY <1>N, <2>1
  <2> QED BY <1>0, <2>2, <2>3, NotLate
<1>14. ASSUME NEW o \in Runs, FanOut(q, o) PROVE LateMoves(r)
  <2>1. CASE FiresOn(run[q].agent)
    <3>1. /\ run' = [run EXCEPT ![q].others = 0,
                                ![o] = [NewRun(run[q].agent, "fanout", "claimed") EXCEPT !.others = run[q].others - 1]]
          /\ Unnamed(o)
      BY <1>14, <2>1 DEF FanOut
    <3>2. run'[o].pc = "claimed" /\ run[o].pc \notin AfterPhases BY <1>N, <3>1 DEF NewRun, Unnamed, AfterPhases
    <3>3. r # o => run'[r] = run[r] \/ run'[r] = [run[r] EXCEPT !.others = 0] BY <1>N, <3>1
    <3> QED BY <1>N, <3>2, <3>3, NotLate, LateOthers
  <2>2. CASE ~FiresOn(run[q].agent)
    <3>1. run' = [run EXCEPT ![q].others = 0] BY <1>14, <2>2 DEF FanOut
    <3>2. run'[r] = run[r] \/ run'[r] = [run[r] EXCEPT !.others = 0] BY <1>N, <3>1
    <3> QED BY <1>N, <3>2, LateOthers
  <2> QED BY <2>1, <2>2
<1> QED BY <1>3, <1>4, <1>5, <1>6, <1>7, <1>8, <1>9, <1>10, <1>11, <1>12, <1>13, <1>14 DEF RunStep

\* So every step leaves what a release decided to its own run.
LEMMA AllLate ==
    ASSUME IInv, [Next]_vars, NEW r \in Runs
    PROVE  LateMoves(r)
<1> HIDE DEF LateMoves
<1>1. ASSUME NEW s \in Senders, SenderStep(s) \/ SenderDies(s) \/ \E a \in Agents, k \in Keys : CountPending(s, a, k)
     PROVE  run' = run
  BY <1>1 DEF SenderStep, InsertEvent, PullForInsert, CountPending, SenderDies
<1>2. ASSUME NEW e \in Editors,
             \/ SyncStep(e) \/ EditorDies(e)
             \/ \E a \in Agents : Activate(e, a) \/ SaveBrief(e, a) \/ PersonSwitchOff(e, a)
     PROVE  run' = run
  BY <1>2 DEF SyncStep, SyncRead, SyncDerive, SyncWrite, EditorDies, Activate, SaveBrief, PersonSwitchOff
<1>3. TimePasses \/ UNCHANGED vars => run' = run BY DEF TimePasses, ClockComes, DebounceEnds, vars
<1>4. run' = run => LateMoves(r)
  <2>1. run[r] \in RunRecord BY DEF IInv, NamedTypes, NamedRuns
  <2> QED BY <2>1, LateOthers
<1> QED BY <1>1, <1>2, <1>3, <1>4, TicksLate, RunsLate DEF Next

\* Has tick t counted the failure that is to switch agent a off?
WillSwitch(t, a) ==
    /\ tick[t].agent = a
    /\ tick[t].pc = "switch" \/ (tick[t].pc = "fail" /\ tick[t].failures >= MaxFailures)

\* A tick that counted the last failure switches the agent off, or dies.
LEMMA TickSwitches ==
    ASSUME IInv, SyncInv, [Next]_vars, NEW t \in Ticks, NEW a \in Agents, WillSwitch(t, a), active'[a]
    PROVE  WillSwitch(t, a)' \/ tick'[t].pc = "idle"
<1>N. /\ NamedTypes /\ tick[t] \in TickRecord /\ tick \in [Ticks -> TickRecord] /\ tick[t].agent = a
      /\ tick[t].pc \in {"switch", "fail"} /\ t \in Syncers
  <2>1. NamedTypes BY DEF IInv
  <2> QED BY <2>1, SyncTypes DEF WillSwitch
<1>1. CASE tick'[t] = tick[t] BY <1>1 DEF WillSwitch
<1>2. CASE FailStaleRun(t)
  <2>1. AtLimit(tick[t].failures) BY <1>2 DEF FailStaleRun, WillSwitch, AtLimit
  <2>2. tick'[t].agent = a /\ tick'[t].pc = "switch" BY <1>2, <2>1, <1>N DEF FailStaleRun, TickRecord
  <2> QED BY <2>2 DEF WillSwitch
<1>3. CASE TickSwitchOff(t)
  <2>1. ~active'[a] BY <1>3, <1>N DEF TickSwitchOff, SwitchOff, NamedTypes
  <2> QED BY <2>1
<1>4. CASE TickDies(t) BY <1>4, <1>N DEF TickDies, IdleTick
<1>5. CASE SyncStep(t)
  <2>1. sync[t].agent # None BY <1>5, <1>N, SyncReads, SyncDerives, SyncTypes DEF SyncStep, SyncWrite
  <2> QED BY <2>1, <1>N DEF SyncInv, SyncsAtWork
<1>6. CASE TickStart(t) BY <1>6, <1>N DEF TickStart
<1>7. ASSUME TickStep(t), ~FailStaleRun(t), ~TickSwitchOff(t), ~SyncStep(t) PROVE FALSE
  BY <1>7, <1>N DEF TickStep, ReclaimRow, SelectDue, ReadBusySpaces, PassRow, Visiting, ScheduledClaim, HandBack,
                    CreateScheduledRun, Dispatch
<1> QED BY <1>N, <1>1, <1>2, <1>3, <1>4, <1>5, <1>6, <1>7, TickAlone

\* A run comes to hold a row only by its claim.
LEMMA NewHolder ==
    ASSUME IInv, [Next]_vars, NEW a \in Agents, NEW r \in Runs, current'[a] = r, current[a] # r
    PROVE  run'[r].pc = "claimed"
<1>N. NamedTypes /\ None \notin Runs /\ run \in [Runs -> NamedRuns] BY Constants DEF IInv, NamedTypes
<1>1. ASSUME NEW s \in Senders, SenderStep(s) \/ SenderDies(s) \/ \E b \in Agents, k \in Keys : CountPending(s, b, k)
     PROVE  current' = current
  BY <1>1 DEF SenderStep, InsertEvent, PullForInsert, CountPending, SenderDies, row
<1>2. ASSUME NEW t \in Ticks, TickStart(t) \/ TickStep(t) \/ TickDies(t)
     PROVE  run'[r].pc = "claimed"
  <2>1. ASSUME NEW d \in tick[t].due, NEW q \in Runs, ScheduledClaim(t, d, q) PROVE run'[r].pc = "claimed"
    <3>1. current' = [current EXCEPT ![d.agent] = q] /\ run' = [run EXCEPT ![q] = NewRun(d.agent, "scheduled", "claimed")]
      BY <2>1 DEF ScheduledClaim, ClaimRow
    <3>2. q = r BY <1>N, <3>1 DEF NamedTypes
    <3> QED BY <1>N, <3>1, <3>2 DEF NewRun
  <2>2. ASSUME NEW s \in tick[t].stale, ReclaimRow(t, s) PROVE FALSE
    BY <1>N, <2>2 DEF ReclaimRow, NamedTypes
  <2>3. CASE HandBack(t) BY <1>N, <2>3 DEF HandBack, NamedTypes
  <2>4. ASSUME \A d \in tick[t].due, q \in Runs : ~ScheduledClaim(t, d, q), ~HandBack(t), \A s \in tick[t].stale : ~ReclaimRow(t, s)
       PROVE  current' = current
    BY <1>2, <2>4 DEF TickStart, TickStep, TickDies, FailStaleRun, TickSwitchOff, SelectDue, ReadBusySpaces,
                      SyncStep, SyncRead, SyncDerive, SyncWrite, PassRow, CreateScheduledRun, Dispatch, row
  <2> QED BY <2>1, <2>2, <2>3, <2>4
<1>3. ASSUME NEW q \in Runs, RunStep(q)
     PROVE  run'[r].pc = "claimed"
  <2>1. CASE ReleaseRow(q) BY <1>N, <2>1 DEF ReleaseRow, NamedTypes
  <2>2. CASE ManualClaim(q)
    <3>1. Claimable(q) /\ ClaimRow(run[q].agent, q) /\ MoveRun(q, "claimed") BY <2>2 DEF ManualClaim
    <3>2. q = r BY <1>N, <3>1 DEF ClaimRow, NamedTypes
    <3>3. "claimed" \in RunPhases BY DEF RunPhases, ClaimPhases
    <3> QED BY <1>N, <3>1, <3>2, <3>3, Moved
  <2>3. ASSUME NEW o \in Runs, FanOut(q, o) PROVE run'[r].pc = "claimed"
    <3>1. /\ ClaimRow(run[q].agent, o)
          /\ run' = [run EXCEPT ![q].others = 0,
                                ![o] = [NewRun(run[q].agent, "fanout", "claimed") EXCEPT !.others = run[q].others - 1]]
      BY <2>3 DEF FanOut
    <3>2. o = r BY <1>N, <3>1 DEF ClaimRow, NamedTypes
    <3> QED BY <1>N, <3>1, <3>2 DEF NewRun
  <2>4. ASSUME ~ReleaseRow(q), ~ManualClaim(q), \A o \in Runs : ~FanOut(q, o) PROVE current' = current
    BY <1>3, <2>4 DEF RunStep, ClaimEvents, GateWake, CreateFanOutRun, ResetToClock, CreateManualRun, StartRun, FinishRun,
                      ReadForRelease, RearmIfPending, PullForRelease, SettleRun, RunSwitchOff, row
  <2> QED BY <2>1, <2>2, <2>3, <2>4
<1>4. ASSUME NEW q \in Runs,
             \/ Overstay(q) \/ LoseDispatch(q) \/ RunDies(q) \/ GroupDies(q) \/ ReleaseThrows(q) \/ RearmFails(q)
             \/ \E b \in Agents, d \in Doors : AskManualRun(q, b, d)
     PROVE  current' = current
  BY <1>4 DEF Overstay, LoseDispatch, RunDies, GroupDies, ReleaseThrows, RearmFails, AskManualRun, row
<1>5. ASSUME NEW e \in Editors,
             \/ SyncStep(e) \/ EditorDies(e)
             \/ \E b \in Agents : Activate(e, b) \/ SaveBrief(e, b) \/ PersonSwitchOff(e, b)
     PROVE  current' = current
  BY <1>5 DEF SyncStep, SyncRead, SyncDerive, SyncWrite, EditorDies, Activate, SaveBrief, PersonSwitchOff, row
<1>6. TimePasses \/ UNCHANGED vars => current' = current BY DEF TimePasses, ClockComes, DebounceEnds, vars, row
<1> QED BY <1>1, <1>2, <1>3, <1>4, <1>5, <1>6 DEF Next

\* A streak is written by what takes the claim off the row, or set back by a sync that
\* switches its agent on.
LEMMA StreakMoves ==
    ASSUME IInv, [Next]_vars, NEW a \in Agents, failures'[a] # failures[a]
    PROVE  \/ \E t \in Ticks : \E s \in tick[t].stale : ReclaimRow(t, s) /\ StillStale(s) /\ s.agent = a
           \/ \E r \in Runs : ReleaseRow(r) /\ Holds(r) /\ run[r].agent = a
           \/ \E x \in Syncers : SyncWrite(x) /\ sync[x].want /\ sync[x].agent = a /\ failures'[a] = 0
<1>N. NamedTypes /\ None \notin Runs BY Constants DEF IInv
<1>1. ASSUME NEW s \in Senders, SenderStep(s) \/ SenderDies(s) \/ \E b \in Agents, k \in Keys : CountPending(s, b, k)
     PROVE  failures' = failures
  BY <1>1 DEF SenderStep, InsertEvent, PullForInsert, CountPending, SenderDies, row
<1>2. ASSUME NEW x \in Syncers, SyncStep(x)
     PROVE  SyncWrite(x) /\ sync[x].want /\ sync[x].agent = a /\ failures'[a] = 0
  <2>1. SyncRead(x) \/ SyncDerive(x) => failures' = failures BY <1>N, SyncReads, SyncDerives
  <2>2. SyncWrite(x) BY <1>2, <2>1 DEF SyncStep
  <2>3. sync[x].want BY <2>2, <1>N, SyncWrites
  <2>4. failures' = failures \/ failures' = [failures EXCEPT ![sync[x].agent] = 0] BY Zenon, <2>2 DEF SyncWrite
  <2>5. sync[x].agent = a /\ failures'[a] = 0 BY <1>N, <2>4 DEF NamedTypes
  <2> QED BY <2>2, <2>3, <2>5
<1>3. ASSUME NEW t \in Ticks, TickStart(t) \/ TickStep(t) \/ TickDies(t), ~SyncStep(t)
     PROVE  \E s \in tick[t].stale : ReclaimRow(t, s) /\ StillStale(s) /\ s.agent = a
  <2>1. ASSUME NEW s \in tick[t].stale, ReclaimRow(t, s) PROVE StillStale(s) /\ s.agent = a
    BY <1>N, <2>1 DEF ReclaimRow, NamedTypes
  <2>2. ASSUME \A s \in tick[t].stale : ~ReclaimRow(t, s) PROVE failures' = failures
    BY <1>3, <2>2 DEF TickStart, TickStep, TickDies, FailStaleRun, TickSwitchOff, SelectDue, ReadBusySpaces,
                      PassRow, ScheduledClaim, HandBack, CreateScheduledRun, Dispatch, row
  <2> QED BY <2>1, <2>2
<1>4. ASSUME NEW r \in Runs, RunStep(r)
     PROVE  ReleaseRow(r) /\ Holds(r) /\ run[r].agent = a
  <2>1. CASE ReleaseRow(r) BY <1>N, <2>1 DEF ReleaseRow, NamedTypes
  <2>2. ASSUME ~ReleaseRow(r) PROVE failures' = failures
    BY <1>4, <2>2 DEF RunStep, ClaimEvents, GateWake, CreateFanOutRun, ManualClaim, ResetToClock, CreateManualRun, StartRun,
                      FinishRun, ReadForRelease, RearmIfPending, PullForRelease, SettleRun, RunSwitchOff, FanOut, row
  <2> QED BY <2>1, <2>2
<1>5. ASSUME NEW r \in Runs,
             \/ Overstay(r) \/ LoseDispatch(r) \/ RunDies(r) \/ GroupDies(r) \/ ReleaseThrows(r) \/ RearmFails(r)
             \/ \E b \in Agents, d \in Doors : AskManualRun(r, b, d)
     PROVE  failures' = failures
  BY <1>5 DEF Overstay, LoseDispatch, RunDies, GroupDies, ReleaseThrows, RearmFails, AskManualRun, row
<1>6. ASSUME NEW e \in Editors,
             EditorDies(e) \/ \E b \in Agents : Activate(e, b) \/ SaveBrief(e, b) \/ PersonSwitchOff(e, b)
     PROVE  failures' = failures
  BY <1>6 DEF EditorDies, Activate, SaveBrief, PersonSwitchOff, row
<1>7. TimePasses \/ UNCHANGED vars => failures' = failures BY DEF TimePasses, ClockComes, DebounceEnds, vars, row
<1> QED BY <1>1, <1>2, <1>3, <1>4, <1>5, <1>6, <1>7 DEF Next, Syncers

\* While nobody is switched on, only what takes the claim off the row writes it.
LEMMA StreakWritten ==
    ASSUME IInv, OffStays, [Next]_vars, NEW a \in Agents, failures'[a] # failures[a]
    PROVE  \/ \E t \in Ticks : \E s \in tick[t].stale : ReclaimRow(t, s) /\ StillStale(s) /\ s.agent = a
           \/ \E r \in Runs : ReleaseRow(r) /\ Holds(r) /\ run[r].agent = a
<1>1. NamedTypes /\ None \notin Agents BY SyncTypes DEF IInv
<1>2. ASSUME NEW x \in Syncers, sync[x].want, sync[x].agent = a PROVE FALSE
  BY Zenon, <1>1, <1>2 DEF OffStays
<1> QED BY <1>2, StreakMoves

\* A release decides on the streak it writes.
LEMMA StreakRead ==
    ASSUME NamedTypes, NEW r \in Runs, ReadForRelease(r), Holds(r), active[run[r].agent], run'[r].streak >= MaxFailures
    PROVE  run'[r].off \/ failures[run[r].agent] >= MaxFailures
<1> DEFINE a == run[r].agent
<1> DEFINE o == run[r].outcome
<1> DEFINE n == StreakAfter(o, failures[a])
<1> DEFINE off == active[a] /\ (o = "fatal" \/ (Counts(o) /\ AtLimit(n)))
<1>1. run[r] \in RunRecord /\ run \in [Runs -> NamedRuns] /\ MaxFailures \in Nat \ {0}
  BY SchedulerAssumption DEF SchedulerAssumption, NamedTypes, NamedRuns
<1>2. run' = [run EXCEPT ![r].pc = "releasing", ![r].outcome = "success", ![r].streak = n, ![r].off = off]
  BY DEF ReadForRelease
<1> HIDE DEF n, off
<1>3. run'[r].streak = n BY <1>1, <1>2 DEF RunRecord
<1>4. run'[r].off = off BY Zenon, <1>1, <1>2 DEF RunRecord
<1>5. CASE Counts(o)
  <2>1. off BY <1>3, <1>5 DEF off, AtLimit
  <2> QED BY Zenon, <1>4, <2>1
<1>6. CASE ~Counts(o)
  <2>1. n = failures[a] \/ n = 0 BY <1>6 DEF n, StreakAfter
  <2>2. n # 0 BY <1>1, <1>3
  <2> QED BY <1>3, <2>1, <2>2
<1> QED BY <1>5, <1>6

\* What a release decides stays right until its row is written: while it holds the row nobody else counts.
LEMMA StreakAsReadStep ==
    ASSUME IInv, OffStays, StreakAsRead, [Next]_vars, Edits \subseteq {"off"}
    PROVE  StreakAsRead'
<1>N. NamedTypes /\ NamedTypes' /\ None \notin Runs
  BY Constants, NamedStep DEF IInv
<1>1. SUFFICES ASSUME NEW r \in Runs, run'[r].pc = "releasing", NEW a \in Agents, a = run'[r].agent, current'[a] = r,
                      active'[a], run'[r].streak >= MaxFailures
               PROVE  run'[r].off \/ failures'[a] >= MaxFailures
  <2>1. \A r \in Runs : run'[r].pc = "releasing" => run'[r].agent \in Agents
    BY <1>N DEF NamedTypes, NamedRuns, Carrying, WorkPhases
  <2> QED BY <2>1 DEF StreakAsRead, Holds
<1>2. active[a] BY <1>1, NoneComesOn
<1>3. current[a] = r BY <1>1, NewHolder
<1>4. failures'[a] = failures[a]
  <2>1. ASSUME NEW t \in Ticks, NEW s \in tick[t].stale, ReclaimRow(t, s), StillStale(s), s.agent = a PROVE FALSE
    BY <1>N, <1>1, <2>1 DEF ReclaimRow, NamedTypes
  <2>2. ASSUME NEW q \in Runs, ReleaseRow(q), Holds(q), run[q].agent = a PROVE FALSE
    BY <1>N, <1>1, <2>2 DEF ReleaseRow, NamedTypes
  <2> QED BY <1>1, <2>1, <2>2, StreakWritten
<1>5. CASE ReadForRelease(r) /\ Holds(r)
  <2>1. run'[r].agent = run[r].agent BY <1>N, <1>5, WritesInPlace
  <2> QED BY <1>N, <1>1, <1>2, <1>4, <1>5, <2>1, StreakRead
<1>6. CASE /\ run[r].pc = "releasing"
           /\ run'[r].agent = run[r].agent /\ run'[r].streak = run[r].streak /\ run'[r].off = run[r].off
  <2>1. run[r].off \/ failures[a] >= MaxFailures BY <1>1, <1>2, <1>3, <1>6 DEF StreakAsRead, Holds
  <2>2. CASE run[r].off BY Zenon, <1>6, <2>2
  <2>3. CASE failures[a] >= MaxFailures BY <1>4, <2>3
  <2> QED BY <2>1, <2>2, <2>3
<1> QED BY <1>1, <1>5, <1>6, AllLate DEF LateMoves

\* A request that is to switch an agent off does so, or dies.
LEMMA SwitchOffComes ==
    ASSUME IInv, SyncInv, [Next]_vars, NEW a \in Agents, SwitchOffComing(a), active'[a]
    PROVE  \/ SwitchOffComing(a)'
           \/ \E t \in Ticks : tick[t].agent = a /\ tick[t].pc \in {"fail", "switch"} /\ tick'[t].pc = "idle"
           \/ \E r \in Runs : run[r].agent = a /\ run[r].off /\ run'[r].pc = "dead"
<1>1. ASSUME NEW r \in Runs, run[r].agent = a, run[r].off, run[r].pc \in AfterPhases
     PROVE  SwitchOffComing(a)' \/ run'[r].pc = "dead"
  <2>1. ASSUME RunSwitchOff(r) PROVE FALSE
    BY <1>1, <2>1 DEF RunSwitchOff, SwitchOff, IInv, NamedTypes
  <2>2. run'[r].pc \in AfterPhases /\ run'[r].agent = run[r].agent /\ run'[r].off = run[r].off => SwitchOffComing(a)'
    BY <1>1 DEF SwitchOffComing
  <2> QED BY <1>1, <2>1, <2>2, AllLate DEF LateMoves
<1>2. ASSUME NEW t \in Ticks, WillSwitch(t, a)
     PROVE  \/ SwitchOffComing(a)'
            \/ tick[t].agent = a /\ tick[t].pc \in {"fail", "switch"} /\ tick'[t].pc = "idle"
  BY <1>2, TickSwitches DEF WillSwitch, SwitchOffComing
<1> QED BY <1>1, <1>2 DEF SwitchOffComing, WillSwitch

\* The limit of failures in a row binds (release, reclaimStale): an agent that is on with
\* its streak at the limit has somebody who is to switch it off, unless that request died,
\* a release had read the agent as off or wrote a streak it had not counted, a person
\* switched it on again, or a sync wrote back that it was on.
THEOREM LimitBinds == Spec => OnlyTheseLeaveItOn
<1> DEFINE Died(a) == \E t \in Ticks : /\ tick[t].agent = a /\ tick[t].pc \in {"fail", "switch"}
                                       /\ tick'[t].pc = "idle"
           Released(a) == \E r \in Runs : /\ run[r].agent = a
                                          /\ \/ run[r].off /\ run'[r].pc = "dead"
                                             \/ ~run[r].off /\ ReleaseRow(r)
           Activated(a) == \E e \in Editors : Activate(e, a)
           Revived(a) == \E x \in Syncers : sync[x].agent = a /\ sync[x].sawActive /\ SyncWrite(x)
<1>1. ASSUME IInv, SyncInv, [Next]_vars, NEW a \in Agents, ~FailsOn(a), FailsOn(a)'
     PROVE  Died(a) \/ Released(a) \/ Activated(a) \/ Revived(a)
  <2>N. NamedTypes /\ MaxFailures \in Nat \ {0}
    BY <1>1, SchedulerAssumption DEF IInv, SchedulerAssumption
  <2>1. active'[a] /\ failures'[a] >= MaxFailures /\ ~SwitchOffComing(a)' BY <1>1 DEF FailsOn
  <2>0. failures'[a] # 0 BY <2>N, <2>1
  <2>2. CASE SwitchOffComing(a) BY <1>1, <2>1, <2>2, SwitchOffComes
  <2>3. CASE ~active[a]
    <3>1. ASSUME NEW x \in Syncers, SyncWrite(x), sync[x].agent = a, sync[x].want PROVE sync[x].sawActive
      <4>1. ~sync[x].sawActive => failures' = [failures EXCEPT ![a] = 0] BY Zenon, <3>1 DEF SyncWrite
      <4>2. failures' # [failures EXCEPT ![a] = 0] BY <2>N, <2>0 DEF NamedTypes
      <4> QED BY Zenon, <4>1, <4>2
    <3> QED BY <1>1, <2>N, <2>1, <2>3, <3>1, ComesOn
  <2>4. CASE ~(failures[a] >= MaxFailures)
    <3>1. ASSUME NEW t \in Ticks, NEW s \in tick[t].stale, ReclaimRow(t, s), StillStale(s), s.agent = a PROVE FALSE
      <4>1. /\ failures' = [failures EXCEPT ![a] = OneMore(s.failures)]
            /\ tick' = [tick EXCEPT ![t].pc = "fail", ![t].stale = @ \ {s}, ![t].agent = s.agent,
                                    ![t].run = s.run, ![t].failures = OneMore(s.failures)]
        BY <3>1 DEF ReclaimRow
      <4>2. failures'[a] = OneMore(s.failures) BY <2>N, <4>1 DEF NamedTypes
      <4>3. tick[t] \in TickRecord /\ tick \in [Ticks -> TickRecord] BY <2>N, SyncTypes
      <4>4. tick'[t].pc = "fail" /\ tick'[t].agent = a /\ tick'[t].failures = OneMore(s.failures)
        BY <3>1, <4>1, <4>3 DEF TickRecord
      <4>5. SwitchOffComing(a)' BY <2>1, <4>2, <4>4 DEF SwitchOffComing
      <4> QED BY <2>1, <4>5
    <3>2. ASSUME NEW r \in Runs, ReleaseRow(r), Holds(r), run[r].agent = a, run[r].off PROVE FALSE
      <4>1. run' = [run EXCEPT ![r].pc = "rearm", ![r].streak = 0] BY <3>2 DEF ReleaseRow
      <4>2. run[r] \in RunRecord /\ run \in [Runs -> NamedRuns] BY <2>N DEF NamedTypes, NamedRuns
      <4>3. run'[r].pc = "rearm" /\ run'[r].agent = a /\ run'[r].off = run[r].off BY <3>2, <4>1, <4>2 DEF RunRecord
      <4>4. run'[r].off BY Zenon, <3>2, <4>3
      <4>5. SwitchOffComing(a)' BY <4>3, <4>4 DEF SwitchOffComing, AfterPhases
      <4> QED BY <2>1, <4>5
    <3>3. failures'[a] # failures[a] BY <2>1, <2>4
    <3>4. ASSUME NEW r \in Runs, ReleaseRow(r), Holds(r), run[r].agent = a PROVE Released(a)
      BY Zenon, <3>2, <3>4
    <3> HIDE DEF Released
    <3> QED BY <1>1, <2>0, <3>1, <3>3, <3>4, StreakMoves
  <2> HIDE DEF Died, Released, Activated, Revived
  <2> QED BY <1>1, <2>2, <2>3, <2>4 DEF FailsOn
<1>2. IInv /\ SyncInv /\ [Next]_vars
          => [\A a \in Agents : ~FailsOn(a) /\ FailsOn(a)' =>
                 \/ Died(a)
                 \/ Released(a)
                 \/ Activated(a)
                 \/ Revived(a)]_vars
  <2> HIDE DEF Died, Released, Activated, Revived
  <2> QED BY <1>1
<1> QED BY <1>2, Inductive, SyncInvHolds, PTL DEF Spec, OnlyTheseLeaveItOn

\* Only the death of the request that is to switch an agent off leaves it on at its limit.
OnlyADeathLeavesItOn ==
    [][\A a \in Agents : ~FailsOn(a) /\ FailsOn(a)' =>
           \/ \E t \in Ticks : /\ tick[t].agent = a /\ tick[t].pc \in {"fail", "switch"}
                               /\ tick'[t].pc = "idle"
           \/ \E r \in Runs : run[r].agent = a /\ run[r].off /\ run'[r].pc = "dead"]_vars

\* While people only switch agents off, a release never writes a streak that nobody acts
\* on, and nothing but a death is left of the causes above.
THEOREM LimitBindsUnedited ==
    ASSUME Edits \subseteq {"off"}
    PROVE  Spec => OnlyADeathLeavesItOn
<1> DEFINE Blamed(a) ==
      \/ \E t \in Ticks : /\ tick[t].agent = a /\ tick[t].pc \in {"fail", "switch"}
                          /\ tick'[t].pc = "idle"
      \/ \E r \in Runs : run[r].agent = a /\ run[r].off /\ run'[r].pc = "dead"
<1>1. ASSUME IInv, SyncInv, OffStays, StreakAsRead, [Next]_vars, NEW a \in Agents, ~FailsOn(a), FailsOn(a)'
     PROVE  Blamed(a)
  <2>N. NamedTypes BY <1>1 DEF IInv
  <2>1. active'[a] /\ failures'[a] >= MaxFailures /\ ~SwitchOffComing(a)' BY <1>1 DEF FailsOn
  <2>2. active[a] BY <1>1, <2>1, NoneComesOn
  <2>3. CASE SwitchOffComing(a) BY <1>1, <2>1, <2>3, SwitchOffComes
  <2>4. CASE ~(failures[a] >= MaxFailures)
    <3>1. ASSUME NEW t \in Ticks, NEW s \in tick[t].stale, ReclaimRow(t, s), StillStale(s), s.agent = a PROVE FALSE
      <4>1. /\ failures' = [failures EXCEPT ![a] = OneMore(s.failures)]
            /\ tick' = [tick EXCEPT ![t].pc = "fail", ![t].stale = @ \ {s}, ![t].agent = s.agent,
                                    ![t].run = s.run, ![t].failures = OneMore(s.failures)]
        BY <3>1 DEF ReclaimRow
      <4>2. failures'[a] = OneMore(s.failures) BY <2>N, <4>1 DEF NamedTypes
      <4>3. tick[t] \in TickRecord /\ tick \in [Ticks -> TickRecord] BY <2>N, SyncTypes
      <4>4. tick'[t].pc = "fail" /\ tick'[t].agent = a /\ tick'[t].failures = OneMore(s.failures)
        BY <3>1, <4>1, <4>3 DEF TickRecord
      <4>5. SwitchOffComing(a)' BY <2>1, <4>2, <4>4 DEF SwitchOffComing
      <4> QED BY <2>1, <4>5
    <3>2. ASSUME NEW r \in Runs, ReleaseRow(r), Holds(r), run[r].agent = a PROVE FALSE
      <4>1. /\ run[r].pc = "releasing"
            /\ failures' = [failures EXCEPT ![a] = run[r].streak]
            /\ run' = [run EXCEPT ![r].pc = "rearm", ![r].streak = 0]
        BY <3>2 DEF ReleaseRow
      <4>2. failures'[a] = run[r].streak BY <2>N, <4>1 DEF NamedTypes
      <4>3. run[r].off BY <1>1, <2>1, <2>2, <2>4, <3>2, <4>1, <4>2 DEF StreakAsRead
      <4>4. run[r] \in RunRecord /\ run \in [Runs -> NamedRuns] BY <2>N DEF NamedTypes, NamedRuns
      <4>5. run'[r].pc = "rearm" /\ run'[r].agent = a /\ run'[r].off = run[r].off
        BY <3>2, <4>1, <4>4 DEF RunRecord
      <4>6. run'[r].off BY Zenon, <4>3, <4>5
      <4>7. SwitchOffComing(a)' BY <4>5, <4>6 DEF SwitchOffComing, AfterPhases
      <4> QED BY <2>1, <4>7
    <3>3. failures'[a] # failures[a] BY <2>1, <2>4
    <3> QED BY <1>1, <3>1, <3>2, <3>3, StreakWritten
  <2> HIDE DEF Blamed
  <2> QED BY <1>1, <2>2, <2>3, <2>4 DEF FailsOn
<1>2. Init => StreakAsRead BY DEF Init, StreakAsRead, NewRun
<1>3. IInv /\ OffStays /\ StreakAsRead /\ [Next]_vars => StreakAsRead' BY StreakAsReadStep
<1>4. IInv /\ SyncInv /\ OffStays /\ StreakAsRead /\ [Next]_vars
          => [\A a \in Agents : ~FailsOn(a) /\ FailsOn(a)' => Blamed(a)]_vars
  <2> HIDE DEF Blamed
  <2> QED BY <1>1
<1> QED BY <1>2, <1>3, <1>4, Inductive, SyncInvHolds, OffStaysOff, PTL DEF Spec, OnlyADeathLeavesItOn

-----------------------------------------------------------------------------
(* Claims are leases.  Which requests are at work, and which claims are late, *)
(* is read off the runs; every step is then shown to take a lease, to give    *)
(* one up, to take one back, to let one lapse or to let requests go.          *)

Working == ClaimPhases \cup WorkPhases
HasRow(r) == \E a \in Agents : current[a] = r

\* Run r does not come to work in this step, nor does its claim get old while it counts.
Keeps(r) ==
    /\ run'[r].pc \in Working => run[r].pc \in Working
    /\ run'[r].pc \in Working \/ HasRow(r) => run'[r].overstayed = run[r].overstayed

\* A step changes nothing that matters to the lease of any run but q.
OthersKeep(q) ==
    \A r \in Runs : r # q => run'[r].pc = run[r].pc /\ run'[r].overstayed = run[r].overstayed

\* A row that is held names a run of its own agent, at work, lost or dead.
LEMMA RowIsItsRuns ==
    ASSUME IInv, NEW a \in Agents, current[a] # None
    PROVE  /\ current[a] \in Runs /\ run[current[a]].agent = a
           /\ run[current[a]].pc \in Working \cup {"lost", "dead"}
BY DEF IInv, NamedTypes, RowNamesItsRun, Holding, Working

\* Who has no row while it works, or is in a phase that has none.
LEMMA NoRow ==
    ASSUME IInv, NEW r \in Runs, ~Holds(r) \/ run[r].pc \notin Working \cup {"lost", "dead"}
    PROVE  ~HasRow(r)
<1>1. None \notin Runs BY Constants
<1> QED BY <1>1, RowIsItsRuns DEF HasRow, Holds

\* A run that stays in its phase keeps its place in the lease,
LEMMA KeptByItself ==
    ASSUME NEW r \in Runs, run'[r].pc = run[r].pc, run'[r].overstayed = run[r].overstayed
    PROVE  Keeps(r)
BY DEF Keeps

\* one that moves on does, unless that is how it comes to work,
LEMMA KeptByMoving ==
    ASSUME NamedTypes, NEW q \in Runs, NEW p \in RunPhases, MoveRun(q, p), p \in Working => run[q].pc \in Working,
           NEW r \in Runs
    PROVE  Keeps(r)
<1>1. /\ \A o \in Runs : o # q => run'[o] = run[o]
      /\ run'[q].pc = p /\ run'[q].overstayed = run[q].overstayed
  BY Moved
<1> QED BY <1>1 DEF Keeps

\* and one that ends does, if it ends without a row.
LEMMA KeptByEnding ==
    ASSUME NamedTypes, NEW q \in Runs, NEW p \in {"over", "lost", "dead"}, EndRun(q, p), p = "over" => ~HasRow(q),
           NEW r \in Runs
    PROVE  Keeps(r)
<1>1. /\ \A o \in Runs : o # q => run'[o] = run[o]
      /\ run'[q].pc = p /\ (p # "over" => run'[q].overstayed = run[q].overstayed)
  BY EndedRun
<1>2. p \notin Working BY DEF Working, ClaimPhases, WorkPhases
<1> QED BY <1>1, <1>2 DEF Keeps

\* A step that moves no row and brings nobody to work lets some requests go, or none.
LEMMA LeaseLeft ==
    ASSUME current' = current, \A r \in Runs : Keeps(r)
    PROVE  Lease!LeaseNext
<1> DEFINE gone == AtWork \ AtWork'
<1>1. AtWork' \subseteq AtWork BY DEF AtWork, Keeps, Working
<1>2. AtWork' = AtWork \ gone BY <1>1
<1>3. ASSUME NEW r \in Runs PROVE r \in Late' <=> r \in Late /\ (r \in gone => HasRow(r))
  <2>1. r \in Late' <=> run'[r].overstayed /\ (r \in AtWork' \/ HasRow(r)) BY <1>3 DEF Late, HasRow
  <2>2. r \in Late <=> run[r].overstayed /\ (r \in AtWork \/ HasRow(r)) BY <1>3 DEF Late, HasRow
  <2>3. r \in AtWork' \/ HasRow(r) => run'[r].overstayed = run[r].overstayed BY <1>3 DEF Keeps, AtWork, Working
  <2>4. CASE r \in AtWork' \/ HasRow(r)
    <3>1. run'[r].overstayed = run[r].overstayed BY <2>3, <2>4
    <3>2. r \in Late' <=> run'[r].overstayed BY Zenon, <2>1, <2>4
    <3>3. r \in Late <=> run[r].overstayed BY Zenon, <1>1, <2>2, <2>4
    <3>4. r \in gone => HasRow(r) BY <2>4
    <3> QED BY Zenon, <3>1, <3>2, <3>3, <3>4
  <2>5. CASE ~(r \in AtWork' \/ HasRow(r))
    <3>1. r \notin Late' BY Zenon, <2>1, <2>5
    <3>2. r \in Late => r \in AtWork BY Zenon, <2>2, <2>5
    <3>3. ~(r \in Late /\ (r \in gone => HasRow(r))) BY <2>5, <3>2
    <3> QED BY <3>1, <3>3
  <2> QED BY <2>4, <2>5
<1>4. Late \subseteq Runs /\ Late' \subseteq Runs BY DEF Late
<1>5. Late' = {r \in Late : r \in gone => HasRow(r)} BY <1>3, <1>4
<1>6. Lease!Leave(gone) BY <1>2, <1>5 DEF Lease!Leave, Lease!HoldsARow, HasRow
<1> QED BY <1>6 DEF Lease!LeaseNext

\* A claim takes the row.
LEMMA LeaseTaken ==
    ASSUME NamedTypes, NEW a \in Agents, NEW q \in Runs, current[a] = None, current' = [current EXCEPT ![a] = q],
           run[q].pc \notin Working, ~HasRow(q), run'[q].pc = "claimed", ~run'[q].overstayed, OthersKeep(q)
    PROVE  Lease!LeaseNext
<1>1. "claimed" \in Working BY DEF Working, ClaimPhases
<1>2. AtWork' = AtWork \cup {q} BY <1>1 DEF AtWork, OthersKeep, Working
<1>3. q \notin AtWork /\ q \notin Late BY DEF AtWork, Working, Late, HasRow
<1>4. q \notin Late' BY DEF Late
<1>5. ASSUME NEW r \in Runs, r # q PROVE r \in Late' <=> r \in Late
  <2>1. r \in AtWork' <=> r \in AtWork BY <1>2, <1>5
  <2>2. HasRow(r)' <=> HasRow(r) BY <1>5, Constants DEF HasRow, NamedTypes
  <2>3. run'[r].overstayed = run[r].overstayed BY <1>5 DEF OthersKeep
  <2> QED BY Zenon, <2>1, <2>2, <2>3, <1>5 DEF Late, HasRow
<1>6. Late' = Late BY <1>3, <1>4, <1>5 DEF Late
<1>7. Lease!Acquire(a, q) BY <1>2, <1>3, <1>6 DEF Lease!Acquire, Lease!HoldsARow, HasRow
<1> QED BY <1>7 DEF Lease!LeaseNext

\* A release and a hand-back give it up,
LEMMA LeaseGiven ==
    ASSUME IInv, NEW a \in Agents, NEW q \in Runs, current[a] = q, current' = [current EXCEPT ![a] = None],
           run[q].pc \in Working, run'[q].pc \notin Working, OthersKeep(q)
    PROVE  Lease!LeaseNext
<1>N. NamedTypes /\ None \notin Runs BY Constants DEF IInv
<1>1. AtWork' = AtWork \ {q} /\ q \in AtWork BY DEF AtWork, OthersKeep, Working
<1>2. \A b \in Agents : current'[b] # q
  <2>1. \A b \in Agents : current[b] = q => b = a BY <1>N, RowIsItsRuns
  <2> QED BY <1>N, <2>1 DEF NamedTypes
<1>3. q \notin Late' BY <1>1, <1>2 DEF Late
<1>4. ASSUME NEW r \in Runs, r # q PROVE r \in Late' <=> r \in Late
  <2>1. r \in AtWork' <=> r \in AtWork BY <1>1, <1>4
  <2>2. HasRow(r)' <=> HasRow(r) BY <1>4, <1>N DEF HasRow, NamedTypes
  <2>3. run'[r].overstayed = run[r].overstayed BY <1>4 DEF OthersKeep
  <2> QED BY Zenon, <2>1, <2>2, <2>3, <1>4 DEF Late, HasRow
<1>5. Late' = Late \ {q} BY <1>3, <1>4 DEF Late
<1>6. Lease!GiveUp(a) BY <1>1, <1>5 DEF Lease!GiveUp
<1> QED BY <1>6 DEF Lease!LeaseNext

\* a reclaim takes it back,
LEMMA LeaseTakenBack ==
    ASSUME IInv, NEW a \in Agents, NEW q \in Runs, current[a] = q, current' = [current EXCEPT ![a] = None],
           run' = run, run[q].overstayed
    PROVE  Lease!LeaseNext
<1>N. NamedTypes /\ None \notin Runs BY Constants DEF IInv
<1>1. AtWork' = AtWork BY DEF AtWork
<1>2. \A b \in Agents : current'[b] # q
  <2>1. \A b \in Agents : current[b] = q => b = a BY <1>N, RowIsItsRuns
  <2> QED BY <1>N, <2>1 DEF NamedTypes
<1>3. q \in Late BY DEF Late
<1>4. q \in Late' <=> q \in AtWork BY <1>1, <1>2 DEF Late
<1>5. ASSUME NEW r \in Runs, r # q PROVE r \in Late' <=> r \in Late
  <2>2. HasRow(r)' <=> HasRow(r) BY <1>5, <1>N DEF HasRow, NamedTypes
  <2> QED BY <1>1, <2>2, <1>5 DEF Late, HasRow
<1>6. Late' = Late \ ({q} \ AtWork) BY <1>3, <1>4, <1>5 DEF Late
<1>7. Lease!TakeBack(a) BY <1>1, <1>3, <1>6 DEF Lease!TakeBack
<1> QED BY <1>7 DEF Lease!LeaseNext

\* and time makes it old.
LEMMA LeaseLapsed ==
    ASSUME IInv, NEW q \in Runs, Overstay(q)
    PROVE  Lease!LeaseNext
<1>N. run \in [Runs -> NamedRuns] BY DEF IInv, NamedTypes
<1>1. /\ run' = [run EXCEPT ![q].overstayed = TRUE] /\ current' = current /\ \E a \in Agents : current[a] = q
  BY DEF Overstay, row
<1>2. \A r \in Runs : r # q => run'[r] = run[r] BY <1>N, <1>1
<1>3. run'[q].pc = run[q].pc /\ run'[q].overstayed BY <1>N, <1>1 DEF NamedRuns, RunRecord
<1>4. AtWork' = AtWork BY <1>2, <1>3 DEF AtWork
<1>5. Late' = Late \cup {q} BY <1>1, <1>2, <1>3, <1>4 DEF Late
<1>6. Lease!Lapse(q) BY <1>1, <1>4, <1>5 DEF Lease!Lapse, Lease!HoldsARow
<1> QED BY <1>6 DEF Lease!LeaseNext

\* A run that has only asked has no claim to get old.
AskedIsOnTime == \A r \in Runs : run[r].pc = "asked" => ~run[r].overstayed

\* A tick claims, hands back and takes back; what else it does is nothing to the lease.
LEMMA TicksLease ==
    ASSUME IInv, NEW t \in Ticks, TickStart(t) \/ TickStep(t) \/ TickDies(t)
    PROVE  Lease!LeaseNext
<1>N. NamedTypes /\ None \notin Runs /\ run \in [Runs -> NamedRuns] BY Constants DEF IInv, NamedTypes
<1>0. /\ tick[t].claimed \subseteq Runs /\ \A q \in tick[t].claimed : run[q].pc = "created"
      /\ tick[t].pc = "carry" => tick[t].run \in Runs
  BY <1>N, TickFields DEF IInv, CreatedIsOwned
<1> HIDE DEF Keeps
<1>1. current' = current /\ run' = run => Lease!LeaseNext BY KeptByItself, LeaseLeft
<1>2. CASE Dispatch(t)
  <2>1. /\ run' = [q \in Runs |-> IF q \in tick[t].claimed THEN [run[q] EXCEPT !.pc = "dispatched"] ELSE run[q]]
        /\ current' = current
    BY <1>2 DEF Dispatch, row
  <2>2. ASSUME NEW r \in Runs PROVE Keeps(r)
    <3>1. CASE r \notin tick[t].claimed BY <2>1, <3>1, KeptByItself
    <3>2. CASE r \in tick[t].claimed
      <4>1. run'[r] = [run[r] EXCEPT !.pc = "dispatched"] BY <2>1, <3>2
      <4>2. run'[r].overstayed = run[r].overstayed /\ run[r].pc = "created"
        BY <1>N, <1>0, <3>2, <4>1 DEF NamedRuns, RunRecord
      <4> QED BY <4>2 DEF Keeps, Working, WorkPhases
    <3> QED BY <3>1, <3>2
  <2> QED BY <2>1, <2>2, LeaseLeft
<1>3. CASE TickDies(t)
  <2>1. /\ run' = [q \in Runs |-> IF q \in tick[t].claimed \/ (tick[t].pc = "carry" /\ q = tick[t].run)
                                    THEN [Ended(run[q], "dead") EXCEPT !.others = 0] ELSE run[q]]
        /\ current' = current
    BY <1>3 DEF TickDies, row
  <2>2. ASSUME NEW r \in Runs PROVE Keeps(r)
    <3>1. CASE ~(r \in tick[t].claimed \/ (tick[t].pc = "carry" /\ r = tick[t].run)) BY <2>1, <3>1, KeptByItself
    <3>2. CASE r \in tick[t].claimed \/ (tick[t].pc = "carry" /\ r = tick[t].run)
      <4>1. run'[r] = [Ended(run[r], "dead") EXCEPT !.others = 0] BY <2>1, <3>2
      <4>2. run'[r].pc = "dead" /\ run'[r].overstayed = run[r].overstayed
        BY <1>N, <4>1 DEF Ended, NewRun, NamedRuns, RunRecord
      <4> QED BY <4>2 DEF Keeps, Working, ClaimPhases, WorkPhases
    <3> QED BY <3>1, <3>2
  <2> QED BY <2>1, <2>2, LeaseLeft
<1>4. ASSUME NEW d \in tick[t].due, NEW q \in Runs, ScheduledClaim(t, d, q) PROVE Lease!LeaseNext
  <2>1. /\ run' = [run EXCEPT ![q] = NewRun(d.agent, "scheduled", "claimed")]
        /\ current' = [current EXCEPT ![d.agent] = q] /\ current[d.agent] = None /\ Unnamed(q)
    BY <1>4 DEF ScheduledClaim, ClaimRow, Idle
  <2>2. d.agent \in Agents BY <1>N, SyncTypes DEF TickRecord
  <2>3. run'[q].pc = "claimed" /\ ~run'[q].overstayed /\ OthersKeep(q) BY <1>N, <2>1 DEF NewRun, OthersKeep
  <2>4. run[q].pc \notin Working /\ ~HasRow(q) BY <2>1 DEF Unnamed, HasRow, Working, ClaimPhases, WorkPhases
  <2> QED BY <1>N, <2>1, <2>2, <2>3, <2>4, LeaseTaken
<1>5. CASE HandBack(t)
  <2> DEFINE q == tick[t].run
  <2>1. q \in Runs /\ run[q].pc = "gated" /\ EndRun(q, "over") BY <1>0, <1>5 DEF HandBack
  <2>2. run[q].agent \in Agents BY <1>N, <2>1 DEF NamedRuns, Carrying, ClaimPhases
  <2>3. run[q].pc \in Working /\ run'[q].pc \notin Working /\ OthersKeep(q)
    BY <1>N, <2>1, EndedRun DEF Working, ClaimPhases, WorkPhases, OthersKeep
  <2>4. CASE Holds(q)
    <3>1. current' = [current EXCEPT ![run[q].agent] = None] BY <1>5, <2>4 DEF HandBack
    <3> QED BY <2>1, <2>2, <2>3, <2>4, <3>1, LeaseGiven DEF Holds
  <2>5. CASE ~Holds(q)
    <3>1. current' = current BY <1>5, <2>5 DEF HandBack
    <3> QED BY <1>N, <2>1, <2>5, <3>1, NoRow, KeptByEnding, LeaseLeft
  <2> QED BY <2>4, <2>5
<1>6. CASE CreateScheduledRun(t)
  <2> DEFINE q == tick[t].run
  <2>1. PICK n \in 0..MaxOthers : run' = [run EXCEPT ![q].pc = "created", ![q].others = n]
    BY <1>6 DEF CreateScheduledRun
  <2>2. q \in Runs /\ run[q].pc = "gated" /\ current' = current BY <1>6, <1>0 DEF CreateScheduledRun, row
  <2>3. OthersKeep(q) BY <1>N, <2>1 DEF OthersKeep
  <2>4. run'[q].overstayed = run[q].overstayed BY <1>N, <2>1, <2>2 DEF NamedRuns, RunRecord
  <2>5. Keeps(q) BY <2>2, <2>4 DEF Keeps, Working, ClaimPhases
  <2> QED BY <2>2, <2>3, <2>5, KeptByItself, LeaseLeft DEF OthersKeep
<1>7. ASSUME NEW s \in tick[t].stale, ReclaimRow(t, s) PROVE Lease!LeaseNext
  <2>1. s.agent \in Agents /\ s.run \in Runs /\ run' = run BY <1>N, <1>7, TickFields DEF ReclaimRow
  <2>2. CASE StillStale(s)
    <3>1. current' = [current EXCEPT ![s.agent] = None] /\ current[s.agent] = s.run
      BY <1>7, <2>2 DEF ReclaimRow, StillStale
    <3>2. run[s.run].overstayed BY <1>7, <3>1 DEF IInv, StaleIsOverstayed
    <3> QED BY <2>1, <3>1, <3>2, LeaseTakenBack
  <2>3. CASE ~StillStale(s) BY <1>1, <1>7, <2>1, <2>3 DEF ReclaimRow
  <2> QED BY <2>2, <2>3
<1>8. ASSUME TickStart(t) \/ TickStep(t), ~Dispatch(t), ~HandBack(t), ~CreateScheduledRun(t),
             \A d \in tick[t].due, q \in Runs : ~ScheduledClaim(t, d, q), \A s \in tick[t].stale : ~ReclaimRow(t, s)
     PROVE  current' = current /\ run' = run
  BY <1>8 DEF TickStart, TickStep, FailStaleRun, TickSwitchOff, SelectDue, ReadBusySpaces, SyncStep, SyncRead,
              SyncDerive, SyncWrite, PassRow, row
<1> QED BY <1>1, <1>2, <1>3, <1>4, <1>5, <1>6, <1>7, <1>8

\* A run's own steps claim and give up; it never takes a row back.
LEMMA RunsLease ==
    ASSUME IInv, AskedIsOnTime, NEW q \in Runs,
           \/ RunStep(q) \/ Overstay(q) \/ LoseDispatch(q) \/ RunDies(q) \/ GroupDies(q) \/ ReleaseThrows(q) \/ RearmFails(q)
           \/ \E a \in Agents, d \in Doors : AskManualRun(q, a, d)
    PROVE  Lease!LeaseNext
<1>N. NamedTypes /\ None \notin Runs /\ run \in [Runs -> NamedRuns] /\ run[q] \in RunRecord
  BY Constants DEF IInv, NamedTypes, NamedRuns
<1>P. /\ {"claimed", "reset", "dispatched", "executing", "pull", "settle", "switch", "switched"} \subseteq RunPhases
      /\ Working = {"claimed", "mailed", "gated", "reset", "created", "dispatched", "executing", "finished", "releasing"}
      /\ run[q].pc \in Carrying => run[q].agent \in Agents
  BY <1>N DEF RunPhases, ClaimPhases, WorkPhases, AfterPhases, Working, NamedRuns
<1> HIDE DEF Keeps
<1>1. ASSUME NEW p \in RunPhases, MoveRun(q, p), p \in Working => run[q].pc \in Working, current' = current
     PROVE  Lease!LeaseNext
  BY <1>N, <1>1, KeptByMoving, LeaseLeft
<1>2. ASSUME NEW p \in {"over", "lost", "dead"}, EndRun(q, p), p = "over" => ~HasRow(q), current' = current
     PROVE  Lease!LeaseNext
  BY <1>N, <1>2, KeptByEnding, LeaseLeft
<1>3. ASSUME OthersKeep(q), Keeps(q), current' = current PROVE Lease!LeaseNext
  BY <1>3, KeptByItself, LeaseLeft DEF OthersKeep
<1>4. CASE ClaimEvents(q) \/ GateWake(q) \/ FinishRun(q) \/ ReleaseThrows(q) \/ (ReadForRelease(q) /\ Holds(q))
  <2>1. OthersKeep(q) /\ run'[q].overstayed = run[q].overstayed BY <1>N, <1>4, WritesInPlace DEF OthersKeep
  <2>2. run[q].pc \in Working /\ current' = current
    BY <1>4, <1>P DEF ClaimEvents, GateWake, FinishRun, ReleaseThrows, ReadForRelease, row
  <2> QED BY <1>3, <2>1, <2>2 DEF Keeps
<1>5. CASE ReleaseRow(q) /\ Holds(q)
  <2>1. OthersKeep(q) BY <1>N, <1>5, WritesInPlace DEF OthersKeep
  <2>2. /\ run[q].pc = "releasing" /\ current' = [current EXCEPT ![run[q].agent] = None]
        /\ run' = [run EXCEPT ![q].pc = "rearm", ![q].streak = 0]
    BY <1>5 DEF ReleaseRow
  <2>3. run'[q].pc = "rearm" BY <1>N, <2>2 DEF RunRecord
  <2>4. run[q].agent \in Agents BY <1>P, <2>2 DEF Carrying, WorkPhases
  <2>5. current[run[q].agent] = q BY <1>5 DEF Holds
  <2>6. run[q].pc \in Working /\ run'[q].pc \notin Working BY <1>P, <2>2, <2>3
  <2>7. current' = [current EXCEPT ![run[q].agent] = None] BY <2>2
  <2> HIDE DEF Working
  <2> QED BY <2>1, <2>4, <2>5, <2>6, <2>7, LeaseGiven
<1>6. CASE (ReadForRelease(q) \/ ReleaseRow(q)) /\ ~Holds(q)
  <2>1. EndRun(q, "over") /\ current' = current BY <1>6 DEF ReadForRelease, ReleaseRow, row
  <2> QED BY <1>2, <1>6, <2>1, NoRow
<1>7. CASE CreateFanOutRun(q) \/ ResetToClock(q) \/ CreateManualRun(q)
  <2>1. \E p \in {"dispatched", "reset"} : MoveRun(q, p)
    BY <1>7 DEF CreateFanOutRun, ResetToClock, CreateManualRun
  <2>2. current' = current /\ run[q].pc \in Working
    BY <1>7, <1>P DEF CreateFanOutRun, ResetToClock, CreateManualRun, row
  <2> QED BY <1>1, <1>P, <2>1, <2>2
<1>8. CASE StartRun(q)
  <2>1. current' = current /\ run[q].pc = "dispatched" BY <1>8 DEF StartRun, row
  <2>2. CASE MoveRun(q, "executing") BY <1>1, <1>P, <2>1, <2>2
  <2>3. CASE ledger[q] # "running" /\ EndRun(q, "over")
    <3>1. ~Holds(q) BY <2>1, <2>3 DEF IInv, LedgerFollows, Holds
    <3> QED BY <1>2, <2>1, <2>3, <3>1, NoRow
  <2> QED BY <1>8, <2>2, <2>3 DEF StartRun
<1>9. CASE RearmIfPending(q) \/ RearmFails(q) \/ PullForRelease(q) \/ SettleRun(q) \/ RunSwitchOff(q)
  <2>1. /\ current' = current /\ run[q].pc \in AfterPhases
        /\ (\E p \in {"pull", "settle", "switch", "switched"} : MoveRun(q, p)) \/ EndRun(q, "over")
    BY <1>9 DEF RearmIfPending, RearmFails, PullForRelease, SettleRun, RunSwitchOff, AfterPhases, row
  <2>2. ~HasRow(q) BY <2>1, <1>P, NoRow DEF AfterPhases
  <2> QED BY <1>1, <1>2, <1>P, <2>1, <2>2
<1>10. CASE ManualClaim(q)
  <2>1. run[q].pc = "asked" BY <1>10 DEF ManualClaim
  <2>2. ~HasRow(q) /\ ~run[q].overstayed /\ run[q].agent \in Agents /\ run[q].pc \notin Working
    BY <2>1, <1>P, NoRow DEF AskedIsOnTime, Carrying
  <2>3. CASE Claimable(q)
    <3>1. /\ current' = [current EXCEPT ![run[q].agent] = q] /\ MoveRun(q, "claimed")
          /\ current[run[q].agent] = None
      BY <1>10, <2>3 DEF ManualClaim, ClaimRow, Claimable, Idle
    <3>2. run'[q].pc = "claimed" /\ run'[q].overstayed = run[q].overstayed /\ OthersKeep(q)
      BY <1>N, <1>P, <3>1, Moved DEF OthersKeep
    <3>3. ~run'[q].overstayed BY Zenon, <2>2, <3>2
    <3> QED BY <1>N, <2>2, <3>1, <3>2, <3>3, LeaseTaken
  <2>4. CASE ~Claimable(q) BY <1>2, <1>10, <2>2, <2>4 DEF ManualClaim
  <2> QED BY <2>3, <2>4
<1>11. ASSUME NEW o \in Runs, FanOut(q, o) PROVE Lease!LeaseNext
  <2>1. CASE FiresOn(run[q].agent)
    <3>1. /\ run' = [run EXCEPT ![q].others = 0,
                                ![o] = [NewRun(run[q].agent, "fanout", "claimed") EXCEPT !.others = run[q].others - 1]]
          /\ current' = [current EXCEPT ![run[q].agent] = o] /\ current[run[q].agent] = None /\ Unnamed(o)
          /\ run[q].others > 0
      BY <1>11, <2>1 DEF FanOut, FiresOn, ClaimRow, Idle
    <3>2. run'[o] = [NewRun(run[q].agent, "fanout", "claimed") EXCEPT !.others = run[q].others - 1] BY <1>N, <3>1
    <3>3. run'[o].pc = "claimed" /\ ~run'[o].overstayed BY <3>2 DEF NewRun
    <3>4. ASSUME NEW r \in Runs, r # o PROVE run'[r].pc = run[r].pc /\ run'[r].overstayed = run[r].overstayed
      <4>1. r # q => run'[r] = run[r] BY <1>N, <3>1, <3>4
      <4>2. r = q => run'[r] = [run[r] EXCEPT !.others = 0] BY <1>N, <3>1, <3>4
      <4> QED BY <1>N, <4>1, <4>2 DEF RunRecord
    <3>5. run[o].pc \notin Working /\ ~HasRow(o) BY <3>1, <1>P DEF Unnamed, HasRow
    <3>6. run[q].agent \in Agents BY <1>N, <3>1 DEF NamedRuns
    <3> QED BY <1>N, <3>1, <3>3, <3>4, <3>5, <3>6, LeaseTaken DEF OthersKeep
  <2>2. CASE ~FiresOn(run[q].agent)
    <3>1. run' = [run EXCEPT ![q].others = 0] /\ current' = current BY <1>11, <2>2 DEF FanOut
    <3>2. OthersKeep(q) BY <1>N, <3>1 DEF OthersKeep
    <3>3. run'[q].pc = run[q].pc /\ run'[q].overstayed = run[q].overstayed BY <1>N, <3>1 DEF RunRecord
    <3> QED BY <1>3, <3>1, <3>2, <3>3, KeptByItself
  <2> QED BY <2>1, <2>2
<1>12. CASE LoseDispatch(q) \/ RunDies(q)
  <2>1. \E p \in {"lost", "dead"} : EndRun(q, p) BY <1>12 DEF LoseDispatch, RunDies
  <2>2. current' = current BY <1>12 DEF LoseDispatch, RunDies, row
  <2> QED BY <1>2, <2>1, <2>2
<1>13. CASE GroupDies(q)
  <2>1. current' = current /\ \E p \in {run[q].pc, "dead"} : run' = [run EXCEPT ![q].pc = p, ![q].others = 0]
    <3>1. CASE run' = [run EXCEPT ![q].others = 0]
      <4>1. [run EXCEPT ![q].others = 0] = [run EXCEPT ![q].pc = run[q].pc, ![q].others = 0]
        BY <1>N DEF RunRecord
      <4> QED BY <1>13, <3>1, <4>1 DEF GroupDies, row
    <3> QED BY <1>13, <3>1 DEF GroupDies, row
  <2>2. PICK p \in {run[q].pc, "dead"} : run' = [run EXCEPT ![q].pc = p, ![q].others = 0] BY <2>1
  <2>3. OthersKeep(q) BY <1>N, <2>2 DEF OthersKeep
  <2>4. run'[q].pc = p /\ run'[q].overstayed = run[q].overstayed BY <1>N, <2>2 DEF RunRecord
  <2>5. Keeps(q) BY <1>P, <2>4 DEF Keeps
  <2> QED BY <1>3, <2>1, <2>3, <2>5
<1>14. ASSUME NEW a \in Agents, NEW d \in Doors, AskManualRun(q, a, d) PROVE Lease!LeaseNext
  <2>1. run' = [run EXCEPT ![q] = NewRun(a, d, "asked")] /\ Unnamed(q) /\ current' = current
    BY <1>14 DEF AskManualRun, row
  <2>2. OthersKeep(q) /\ run'[q].pc = "asked" /\ ~HasRow(q) BY <1>N, <2>1 DEF OthersKeep, NewRun, Unnamed, HasRow
  <2>3. Keeps(q) BY <2>2, <1>P DEF Keeps
  <2> QED BY <1>3, <2>1, <2>2, <2>3
<1> QED
  BY <1>4, <1>5, <1>6, <1>7, <1>8, <1>9, <1>10, <1>11, <1>12, <1>13, <1>14, LeaseLapsed DEF RunStep

\* A run that asks has not overstayed after the step.
OnTime(r) == run'[r].pc = "asked" => ~run'[r].overstayed

\* A run that asks and stays as it was has not, nor has one that does not ask.
LEMMA OnTimeByRest ==
    ASSUME AskedIsOnTime, NEW r \in Runs,
           \/ run'[r].pc # "asked"
           \/ run'[r].pc = run[r].pc /\ run'[r].overstayed = run[r].overstayed
    PROVE  OnTime(r)
BY DEF AskedIsOnTime, OnTime

\* No tick touches a run that asks.
LEMMA TicksOnTime ==
    ASSUME IInv, AskedIsOnTime, NEW t \in Ticks, TickStart(t) \/ TickStep(t) \/ TickDies(t), NEW r \in Runs
    PROVE  OnTime(r)
<1>N. NamedTypes /\ run \in [Runs -> NamedRuns] /\ run[r] \in RunRecord
  BY DEF IInv, NamedTypes, NamedRuns
<1>0. tick[t].pc = "carry" => tick[t].run \in Runs BY <1>N, TickFields
<1> HIDE DEF OnTime
<1>1. run'[r] = run[r] => OnTime(r) BY OnTimeByRest
<1>2. CASE Dispatch(t)
  <2>1. run' = [q \in Runs |-> IF q \in tick[t].claimed THEN [run[q] EXCEPT !.pc = "dispatched"] ELSE run[q]]
    BY <1>2 DEF Dispatch
  <2>2. r \notin tick[t].claimed => run'[r] = run[r] BY <2>1
  <2>3. r \in tick[t].claimed => run'[r].pc = "dispatched" BY <1>N, <2>1 DEF RunRecord
  <2> QED BY <1>1, <2>2, <2>3, OnTimeByRest
<1>3. CASE TickDies(t)
  <2>1. run' = [q \in Runs |-> IF q \in tick[t].claimed \/ (tick[t].pc = "carry" /\ q = tick[t].run)
                                  THEN [Ended(run[q], "dead") EXCEPT !.others = 0] ELSE run[q]]
    BY <1>3 DEF TickDies
  <2>2. run'[r] = run[r] \/ run'[r] = [Ended(run[r], "dead") EXCEPT !.others = 0] BY <2>1
  <2>3. [Ended(run[r], "dead") EXCEPT !.others = 0].pc = "dead" BY <1>N DEF Ended, NewRun, RunRecord
  <2> QED BY <1>1, <2>2, <2>3, OnTimeByRest
<1>4. ASSUME NEW d \in tick[t].due, NEW q \in Runs, ScheduledClaim(t, d, q) PROVE OnTime(r)
  <2>1. run' = [run EXCEPT ![q] = NewRun(d.agent, "scheduled", "claimed")] BY <1>4 DEF ScheduledClaim
  <2>2. run'[r] = run[r] \/ run'[r].pc = "claimed" BY <1>N, <2>1 DEF NewRun
  <2> QED BY <1>1, <2>2, OnTimeByRest
<1>5. CASE HandBack(t)
  <2>1. tick[t].run \in Runs /\ EndRun(tick[t].run, "over") BY <1>0, <1>5 DEF HandBack
  <2>2. run'[r] = run[r] \/ run'[r].pc = "over" BY <1>N, <2>1, EndedRun
  <2> QED BY <1>1, <2>2, OnTimeByRest
<1>6. CASE CreateScheduledRun(t)
  <2>1. PICK n \in 0..MaxOthers : run' = [run EXCEPT ![tick[t].run].pc = "created", ![tick[t].run].others = n]
    BY <1>6 DEF CreateScheduledRun
  <2>2. run'[r] = run[r] \/ run'[r].pc = "created" BY <1>N, <2>1 DEF RunRecord
  <2> QED BY <1>1, <2>2, OnTimeByRest
<1>7. TickStart(t) => run' = run BY DEF TickStart
<1>8. ASSUME TickStep(t), ~Dispatch(t), ~HandBack(t), ~CreateScheduledRun(t),
             \A d \in tick[t].due, q \in Runs : ~ScheduledClaim(t, d, q)
     PROVE  run' = run
  BY <1>8 DEF TickStep, ReclaimRow, FailStaleRun, TickSwitchOff, SelectDue, ReadBusySpaces, SyncStep, SyncRead,
              SyncDerive, SyncWrite, PassRow
<1> QED BY <1>1, <1>2, <1>3, <1>4, <1>5, <1>6, <1>7, <1>8

\* A run asks with a claim that is yet to be made, and only a row that names it makes it late.
LEMMA RunsOnTime ==
    ASSUME IInv, AskedIsOnTime, NEW q \in Runs, NEW r \in Runs,
           \/ RunStep(q) \/ Overstay(q) \/ LoseDispatch(q) \/ RunDies(q) \/ GroupDies(q) \/ ReleaseThrows(q) \/ RearmFails(q)
           \/ \E a \in Agents, d \in Doors : AskManualRun(q, a, d)
    PROVE  OnTime(r)
<1>N. NamedTypes /\ run \in [Runs -> NamedRuns] /\ run[r] \in RunRecord /\ run[q] \in RunRecord
  BY DEF IInv, NamedTypes, NamedRuns
<1>P. {"claimed", "reset", "dispatched", "executing", "pull", "settle", "switch", "switched"} \subseteq RunPhases
  BY DEF RunPhases, ClaimPhases, WorkPhases, AfterPhases
<1> HIDE DEF OnTime
<1>0. run'[r] = run[r] => OnTime(r) BY OnTimeByRest
<1>1. ASSUME NEW p \in RunPhases, MoveRun(q, p), p # "asked" PROVE OnTime(r)
  BY <1>0, <1>1, <1>N, Moved, OnTimeByRest
<1>2. ASSUME NEW p \in {"over", "lost", "dead"}, EndRun(q, p) PROVE OnTime(r)
  BY <1>0, <1>2, <1>N, EndedRun, OnTimeByRest
<1>3. CASE ClaimEvents(q) \/ GateWake(q) \/ FinishRun(q) \/ ReleaseThrows(q)
           \/ (ReadForRelease(q) /\ Holds(q)) \/ (ReleaseRow(q) /\ Holds(q))
  <2>1. r # q => run'[r] = run[r] BY <1>N, <1>3, WritesInPlace
  <2>2. run'[q].overstayed = run[q].overstayed BY <1>N, <1>3, WritesInPlace
  <2>3. run'[q].pc # "asked"
    <3>1. CASE ClaimEvents(q) BY <1>N, <3>1 DEF ClaimEvents, RunRecord
    <3>2. CASE GateWake(q)
      <4>1. PICK m : run' = [run EXCEPT ![q].pc = "gated", ![q].mail = @ \ m] BY <3>2 DEF GateWake
      <4> QED BY <1>N, <4>1 DEF RunRecord
    <3>3. CASE FinishRun(q)
      <4>1. PICK o : run' = [run EXCEPT ![q].pc = "finished", ![q].outcome = o, ![q].mail = {}] BY <3>3 DEF FinishRun
      <4> QED BY <1>N, <4>1 DEF RunRecord
    <3>4. CASE ReleaseThrows(q) BY <1>N, <3>4 DEF ReleaseThrows, RunRecord
    <3>5. CASE ReadForRelease(q) /\ Holds(q)
      <4>1. PICK n, f : run' = [run EXCEPT ![q].pc = "releasing", ![q].outcome = "success", ![q].streak = n, ![q].off = f]
        BY <3>5 DEF ReadForRelease
      <4> QED BY <1>N, <4>1 DEF RunRecord
    <3>6. CASE ReleaseRow(q) /\ Holds(q)
      <4>1. run' = [run EXCEPT ![q].pc = "rearm", ![q].streak = 0] BY <3>6 DEF ReleaseRow
      <4> QED BY <1>N, <4>1 DEF RunRecord
    <3> QED BY <1>3, <3>1, <3>2, <3>3, <3>4, <3>5, <3>6
  <2> QED BY <1>0, <2>1, <2>3, OnTimeByRest
<1>4. CASE (ReadForRelease(q) \/ ReleaseRow(q)) /\ ~Holds(q)
  BY <1>2, <1>4 DEF ReadForRelease, ReleaseRow
<1>5. CASE \/ CreateFanOutRun(q) \/ ManualClaim(q) \/ ResetToClock(q) \/ CreateManualRun(q) \/ StartRun(q)
           \/ LoseDispatch(q) \/ RunDies(q)
  BY <1>1, <1>2, <1>5, <1>P
     DEF CreateFanOutRun, ManualClaim, ResetToClock, CreateManualRun, StartRun, LoseDispatch, RunDies
<1>6. CASE RearmIfPending(q) \/ RearmFails(q) \/ PullForRelease(q) \/ SettleRun(q) \/ RunSwitchOff(q)
  <2>1. (\E p \in {"pull", "settle", "switch", "switched"} : MoveRun(q, p)) \/ EndRun(q, "over")
    BY <1>6 DEF RearmIfPending, RearmFails, PullForRelease, SettleRun, RunSwitchOff
  <2> QED BY <1>1, <1>2, <1>P, <2>1
<1>7. CASE Overstay(q)
  <2>1. run' = [run EXCEPT ![q].overstayed = TRUE] /\ HasRow(q) BY <1>7 DEF Overstay, HasRow
  <2>2. r # q => run'[r] = run[r] BY <1>N, <2>1
  <2>3. run'[q].pc = run[q].pc BY <1>N, <2>1 DEF RunRecord
  <2>4. run[q].pc # "asked" BY <2>1, NoRow DEF Working, ClaimPhases, WorkPhases
  <2> QED BY <1>0, <2>2, <2>3, <2>4, OnTimeByRest
<1>8. CASE GroupDies(q)
  <2>1. run' = [run EXCEPT ![q].others = 0] \/ run' = [run EXCEPT ![q].pc = "dead", ![q].others = 0]
    BY <1>8 DEF GroupDies
  <2>2. \/ run'[r].pc = run[r].pc /\ run'[r].overstayed = run[r].overstayed
        \/ run'[r].pc = "dead"
    <3>1. r # q => run'[r] = run[r] BY <1>N, <2>1
    <3>2. CASE run' = [run EXCEPT ![q].others = 0] BY <1>N, <3>1, <3>2 DEF RunRecord
    <3>3. CASE run' = [run EXCEPT ![q].pc = "dead", ![q].others = 0] BY <1>N, <3>1, <3>3 DEF RunRecord
    <3> QED BY <2>1, <3>2, <3>3
  <2> QED BY <2>2, OnTimeByRest
<1>9. ASSUME NEW a \in Agents, NEW d \in Doors, AskManualRun(q, a, d) PROVE OnTime(r)
  <2>1. run' = [run EXCEPT ![q] = NewRun(a, d, "asked")] BY <1>9 DEF AskManualRun
  <2>2. r # q => run'[r] = run[r] BY <1>N, <2>1
  <2>3. ~run'[q].overstayed BY <1>N, <2>1 DEF NewRun
  <2>4. OnTime(q) BY Zenon, <2>3 DEF OnTime
  <2> QED BY <1>0, <2>2, <2>4
<1>10. ASSUME NEW o \in Runs, FanOut(q, o) PROVE OnTime(r)
  <2>1. CASE FiresOn(run[q].agent)
    <3>1. run' = [run EXCEPT ![q].others = 0,
                             ![o] = [NewRun(run[q].agent, "fanout", "claimed") EXCEPT !.others = run[q].others - 1]]
      BY <1>10, <2>1 DEF FanOut
    <3>2. run'[o].pc = "claimed" BY <1>N, <3>1 DEF NewRun
    <3>3. r # o => run'[r].pc = run[r].pc /\ run'[r].overstayed = run[r].overstayed
      <4>1. r # o => run'[r] = run[r] \/ run'[r] = [run[r] EXCEPT !.others = 0] BY <1>N, <3>1
      <4> QED BY <1>N, <4>1 DEF RunRecord
    <3> QED BY <3>2, <3>3, OnTimeByRest
  <2>2. CASE ~FiresOn(run[q].agent)
    <3>1. run' = [run EXCEPT ![q].others = 0] BY <1>10, <2>2 DEF FanOut
    <3>2. run'[r] = run[r] \/ run'[r] = [run[r] EXCEPT !.others = 0] BY <1>N, <3>1
    <3>3. run'[r].pc = run[r].pc /\ run'[r].overstayed = run[r].overstayed BY <1>N, <3>2 DEF RunRecord
    <3> QED BY <3>3, OnTimeByRest
  <2> QED BY <2>1, <2>2
<1> QED BY <1>3, <1>4, <1>5, <1>6, <1>7, <1>8, <1>9, <1>10 DEF RunStep

\* Requests that send, edit or let time pass leave runs and rows to their claims.
LEMMA ClaimsUndisturbed ==
    ASSUME NEW s, \/ s \in Senders /\ (SenderStep(s) \/ SenderDies(s) \/ \E a \in Agents, k \in Keys : CountPending(s, a, k))
                  \/ s \in Editors /\ (\/ SyncStep(s) \/ EditorDies(s)
                                       \/ \E a \in Agents : Activate(s, a) \/ SaveBrief(s, a) \/ PersonSwitchOff(s, a))
                  \/ TimePasses
    PROVE  run' = run /\ current' = current
<1>1. SenderStep(s) \/ SenderDies(s) \/ (\E a \in Agents, k \in Keys : CountPending(s, a, k)) => run' = run /\ current' = current
  BY DEF SenderStep, InsertEvent, PullForInsert, CountPending, SenderDies, row
<1>2. SyncStep(s) \/ EditorDies(s) => run' = run /\ current' = current
  BY DEF SyncStep, SyncRead, SyncDerive, SyncWrite, EditorDies, row
<1>3. (\E a \in Agents : Activate(s, a) \/ SaveBrief(s, a) \/ PersonSwitchOff(s, a)) => run' = run /\ current' = current
  BY DEF Activate, SaveBrief, PersonSwitchOff, row
<1>4. TimePasses => run' = run /\ current' = current BY DEF TimePasses, ClockComes, DebounceEnds
<1> QED BY <1>1, <1>2, <1>3, <1>4

\* Every step leaves a run that asks without a claim that could be late.
LEMMA AskedStaysOnTime ==
    ASSUME IInv, AskedIsOnTime, [Next]_vars
    PROVE  AskedIsOnTime'
<1> HIDE DEF OnTime
<1>1. ASSUME run' = run /\ current' = current, NEW r \in Runs PROVE OnTime(r) BY <1>1, OnTimeByRest
<1>2. UNCHANGED vars => run' = run /\ current' = current BY DEF vars, row
<1>3. \A r \in Runs : OnTime(r)
  BY <1>1, <1>2, ClaimsUndisturbed, TicksOnTime, RunsOnTime DEF Next
<1> QED BY <1>3 DEF OnTime, AskedIsOnTime

\* Every step of the scheduler is a step of the lease, or none.
LEMMA StepsLease ==
    ASSUME IInv, AskedIsOnTime, [Next]_vars
    PROVE  [Lease!LeaseNext]_<<current, AtWork, Late>>
<1>1. ASSUME run' = run, current' = current PROVE Lease!LeaseNext
  BY <1>1, KeptByItself, LeaseLeft
<1>2. UNCHANGED vars => run' = run /\ current' = current BY DEF vars, row
<1> QED BY <1>1, <1>2, ClaimsUndisturbed, TicksLease, RunsLease DEF Next

\* Claims are leases.
THEOREM ClaimsLeased == Spec => ClaimsAreLeases
<1>1. Init => AskedIsOnTime BY DEF Init, AskedIsOnTime, NewRun
<1>2. Init => Lease!LeaseInit
  <2>1. SUFFICES ASSUME Init PROVE Lease!LeaseInit OBVIOUS
  <2>2. \A r \in Runs : run[r].pc = "free" BY <2>1 DEF Init, NewRun
  <2>3. AtWork = {} BY <2>2 DEF AtWork, ClaimPhases, WorkPhases
  <2>4. \A r \in Runs, a \in Agents : current[a] # r BY <2>1, Constants DEF Init
  <2>5. Late = {} BY <2>3, <2>4 DEF Late
  <2> QED BY <2>1, <2>3, <2>5 DEF Lease!LeaseInit, Init
<1>3. IInv /\ AskedIsOnTime /\ [Next]_vars => AskedIsOnTime' BY AskedStaysOnTime
<1>4. IInv /\ AskedIsOnTime /\ [Next]_vars => [Lease!LeaseNext]_<<current, AtWork, Late>> BY StepsLease
<1> HIDE DEF AskedIsOnTime
<1> QED BY <1>1, <1>2, <1>3, <1>4, Inductive, PTL DEF Spec, ClaimsAreLeases, Lease!LeaseSpec, Lease!lease
=============================================================================
