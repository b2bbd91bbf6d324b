---------------------------- MODULE MachineLease ----------------------------
(***************************************************************************)
(* The machine of one agent (apps/web/lib/vm/lease.ts, quota.ts): calls    *)
(* that lease it and run a command on it, runs that put it to sleep when   *)
(* they are over, and the tick's reap, reconcile, meter and quota stop.    *)
(*                                                                         *)
(* The row of agent_vms is one thing and the container at the edge         *)
(* (apps/agent-edge/src/machine.ts) another; every step between the two is *)
(* a request that may be refused, or done and its answer lost.  A tick may *)
(* last for minutes and one is posted every minute: several are under way, *)
(* and any may die, or fail on a query, between its steps.  The space has  *)
(* this one machine, and its usage is counted in ticks.                    *)
(***************************************************************************)
EXTENDS Naturals, FiniteSets, Rows

CONSTANTS
    Calls,          \* requests and runs that use the machine
    Tickers,        \* the housekeeping of the ticks that may be under way at once
    EdgeFaults,     \* "refuse", "deaf", "die", "nap"
    Allowances,     \* what a space's hours a month may be, in ticks; None is uncapped
    MaxUsage,       \* the counter of usage stops here
    MaxTickDeaths   \* as many ticks die, all in all

ASSUME MachineAssumption ==
    /\ EdgeFaults \subseteq {"refuse", "deaf", "die", "nap"}
    /\ IsFiniteSet(Calls)
    /\ IsFiniteSet(Tickers) /\ Tickers # {}
    /\ MaxUsage \in Nat
    /\ MaxTickDeaths \in Nat
    /\ \A n \in Allowances \ {None} :
          n \in Nat /\ MaxUsage > n + Cardinality(Tickers) * (Cardinality(Calls) + 1) + MaxTickDeaths
    /\ Calls \cap Tickers = {}

VARIABLES
    vm,      \* the row of the machine
    awake,   \* is the container running?
    actor,   \* what each call, and each tick, is doing
    usage,   \* the space's metered ticks this month
    hours,   \* its vmMonthlyHours, in ticks
    tickDeaths   \* how many ticks died

machineVars == <<vm, awake, actor, usage, hours, tickDeaths>>

-----------------------------------------------------------------------------

Actors == Calls \cup Tickers
States == {"provisioning", "running", "unavailable", "asleep"}

\* `stale`: expiresAt has passed.
MachineRow == [state : States, stale : BOOLEAN]

ASSUME MachineRowAssumption == None \notin MachineRow

CallPhases == {"idle", "cleared", "leasing", "leased", "failed", "ready", "exec", "status", "stop", "asleep"}
TickPhases == {"idle", "reap", "delete", "reconcile", "status", "slept", "meter", "counted", "quota", "stop",
               "stopped"}

\* Is the row still the one an actor read, by its id?  `sure` is no state of the program:
\* the actor has seen the container down, or taken it down, itself.
ActorRecord == [pc : CallPhases \cup TickPhases, same : BOOLEAN, sure : BOOLEAN]

MachineTypeOK ==
    /\ vm \in MachineRow \cup {None}
    /\ awake \in BOOLEAN
    /\ actor \in [Actors -> ActorRecord]
    /\ \A c \in Calls : actor[c].pc \in CallPhases
    /\ \A t \in Tickers : actor[t].pc \in TickPhases
    /\ \A a \in Actors : actor[a].same => vm # None
    /\ usage \in 0..MaxUsage
    /\ hours \in Allowances
    /\ tickDeaths \in 0..MaxTickDeaths

AtRest == [pc |-> "idle", same |-> FALSE, sure |-> FALSE]

MachineInit ==
    /\ vm = None
    /\ awake = FALSE
    /\ actor = [a \in Actors |-> AtRest]
    /\ usage = 0
    /\ hours \in Allowances
    /\ tickDeaths = 0

-----------------------------------------------------------------------------

\* Does the row say the machine is awake?  What the meter and the stops go by.
SaysRunning == vm # None /\ vm.state = "running"

\* An update by id reaches a row that is still there.
WithState(a, state) == IF actor[a].same THEN [vm EXCEPT !.state = state] ELSE vm

\* checkQuota.
Allowed == hours # None => usage < hours

Goes(a, phase) == actor' = [actor EXCEPT ![a].pc = phase]
Rests(a) == actor' = [actor EXCEPT ![a] = AtRest]

\* The edge is asked to do what leaves the container up or down.  a goes to `yes` when
\* it is told so, to `no` when the call fails: refused, or done with the answer lost.
Edge(a, up, yes, no) ==
    \/ /\ awake' = up
       /\ actor' = [actor EXCEPT ![a].pc = yes, ![a].sure = ~up]
    \/ /\ "refuse" \in EdgeFaults
       /\ Goes(a, no)
       /\ UNCHANGED awake
    \/ /\ "deaf" \in EdgeFaults
       /\ awake' = up
       /\ Goes(a, no)

-----------------------------------------------------------------------------
(* leaseMachine, runOnMachine, browseOnMachine *)

\* allowedToRun: a space over its cap is refused.
CheckQuota(c) ==
    /\ actor[c].pc = "idle"
    /\ Allowed
    /\ Goes(c, "cleared")
    /\ UNCHANGED <<vm, awake, usage, hours, tickDeaths>>

\* compileForSpace: no policy, no machine.
NoPolicy(c) ==
    /\ actor[c].pc = "cleared"
    /\ Rests(c)
    /\ UNCHANGED <<vm, awake, usage, hours, tickDeaths>>

UpsertVm(c) ==
    /\ actor[c].pc = "cleared"
    /\ vm' = IF vm = None THEN [state |-> "provisioning", stale |-> FALSE] ELSE [vm EXCEPT !.stale = FALSE]
    /\ actor' = [actor EXCEPT ![c].pc = "leasing", ![c].same = TRUE]
    /\ UNCHANGED <<awake, usage, hours, tickDeaths>>

EdgeLease(c) ==
    /\ actor[c].pc = "leasing"
    /\ Edge(c, TRUE, "leased", "failed")
    /\ UNCHANGED <<vm, usage, hours, tickDeaths>>

\* The row says so.  If it was reaped the update throws, and so does the catch's.
MarkRunning(c) ==
    /\ actor[c].pc = "leased"
    /\ vm' = WithState(c, "running")
    /\ IF actor[c].same THEN Goes(c, "ready") ELSE Rests(c)
    /\ UNCHANGED <<awake, usage, hours, tickDeaths>>

MarkUnavailable(c) ==
    /\ actor[c].pc = "failed"
    /\ vm' = WithState(c, "unavailable")
    /\ Rests(c)
    /\ UNCHANGED <<awake, usage, hours, tickDeaths>>

\* A command, or a page, wakes a machine that went down meanwhile.
Exec(c) ==
    /\ actor[c].pc = "ready"
    /\ awake' = TRUE
    /\ Goes(c, "exec")
    /\ UNCHANGED <<vm, usage, hours, tickDeaths>>

\* lastActiveAt and the count of commands are written; no decision reads them.
ExecEnds(c) ==
    /\ actor[c].pc = "exec"
    /\ Rests(c)
    /\ UNCHANGED <<vm, awake, usage, hours, tickDeaths>>

-----------------------------------------------------------------------------
(* releaseMachineAfterRun *)

FindRunning(c) ==
    /\ actor[c].pc = "idle"
    /\ SaysRunning
    /\ actor' = [actor EXCEPT ![c].pc = "status", ![c].same = TRUE]
    /\ UNCHANGED <<vm, awake, usage, hours, tickDeaths>>

\* A container that is down already is only written down; one that somebody watches
\* is left alone, and so is one the edge cannot answer for.
AskBeforeStop(c) ==
    /\ actor[c].pc = "status"
    /\ \/ ~awake /\ actor' = [actor EXCEPT ![c].pc = "asleep", ![c].sure = TRUE]
       \/ awake /\ Goes(c, "stop")
       \/ (awake \/ "refuse" \in EdgeFaults) /\ Rests(c)
    /\ UNCHANGED <<vm, awake, usage, hours, tickDeaths>>

\* A stop that fails leaves the row to the platform's timer.
StopAfterRun(c) ==
    /\ actor[c].pc = "stop"
    /\ Edge(c, FALSE, "asleep", "idle")
    /\ UNCHANGED <<vm, usage, hours, tickDeaths>>

MarkAsleep(c) ==
    /\ actor[c].pc = "asleep"
    /\ vm' = WithState(c, "asleep")
    /\ Rests(c)
    /\ UNCHANGED <<awake, usage, hours, tickDeaths>>

-----------------------------------------------------------------------------
(* The tick: reapExpiredLeases, then vmHousekeeping *)

\* A row whose lease ran out is reaped.
TickBegins(t) ==
    /\ actor[t].pc = "idle"
    /\ actor' = [actor EXCEPT ![t] =
                    IF vm # None /\ vm.stale THEN [pc |-> "reap", same |-> TRUE, sure |-> FALSE]
                    ELSE [AtRest EXCEPT !.pc = "reconcile"]]
    /\ UNCHANGED <<vm, awake, usage, hours, tickDeaths>>

ReapStop(t) ==
    /\ actor[t].pc = "reap"
    /\ Edge(t, FALSE, "delete", "delete")
    /\ UNCHANGED <<vm, usage, hours, tickDeaths>>

\* By id, and whatever became of it since it was read.
ReapRow(t) ==
    /\ actor[t].pc = "delete"
    /\ vm' = IF actor[t].same THEN None ELSE vm
    /\ actor' = [a \in Actors |-> IF a = t THEN [AtRest EXCEPT !.pc = "reconcile"]
                                 ELSE [actor[a] EXCEPT !.same = @ /\ ~actor[t].same]]
    /\ UNCHANGED <<awake, usage, hours, tickDeaths>>

\* bug: only rows nobody leases any more are asked about.
Stale == SaysRunning /\ vm.stale

\* The rows the tick asks about.
ToReconcile == SaysRunning

ReadRunning(t) ==
    /\ actor[t].pc = "reconcile"
    /\ actor' = [actor EXCEPT ![t] = IF ToReconcile THEN [pc |-> "status", same |-> TRUE, sure |-> FALSE]
                                          ELSE [AtRest EXCEPT !.pc = "meter"]]
    /\ UNCHANGED <<vm, awake, usage, hours, tickDeaths>>

\* bug: a machine the edge cannot answer for is taken to be down.
ThenDown == "slept"

\* A machine the edge cannot answer for counts as awake.
ThenAwake == "meter"

AskStatus(t) ==
    /\ actor[t].pc = "status"
    /\ \/ awake /\ Goes(t, "meter")
       \/ ~awake /\ actor' = [actor EXCEPT ![t].pc = "slept", ![t].sure = TRUE]
    /\ UNCHANGED <<vm, awake, usage, hours, tickDeaths>>

StatusFails(t) ==
    /\ "refuse" \in EdgeFaults
    /\ actor[t].pc = "status"
    /\ Goes(t, ThenAwake)
    /\ UNCHANGED <<vm, awake, usage, hours, tickDeaths>>

MarkSlept(t) ==
    /\ actor[t].pc = "slept"
    /\ vm' = WithState(t, "asleep")
    /\ actor' = [actor EXCEPT ![t] = [AtRest EXCEPT !.pc = "meter"]]
    /\ UNCHANGED <<awake, usage, hours, tickDeaths>>

\* bug: a tick counts once for the machine and once for its space.
Twice(n) == n + 2

\* One tick more, up to where the model counts.  The usage of a space without a cap is
\* compared with nothing, and the model leaves it at 0.
Metered(n) == IF n < MaxUsage THEN n + 1 ELSE n

\* meterAwakeMachines first counts the rows that say "running" ...
CountAwake(t) ==
    /\ actor[t].pc = "meter"
    /\ actor' = [actor EXCEPT ![t] = [AtRest EXCEPT !.pc = IF SaysRunning THEN "counted" ELSE "quota"]]
    /\ UNCHANGED <<vm, awake, usage, hours, tickDeaths>>

\* ... and adds them to the usage, whatever has become of them or of the usage since.
Meter(t) ==
    /\ actor[t].pc = "counted"
    /\ usage' = IF hours # None THEN Metered(usage) ELSE usage
    /\ actor' = [actor EXCEPT ![t] = [AtRest EXCEPT !.pc = "quota"]]
    /\ UNCHANGED <<vm, awake, hours, tickDeaths>>

\* stopOverspendingSpaces reads the running rows and judges their space.
JudgeSpace(t) ==
    /\ actor[t].pc = "quota"
    /\ actor' = [actor EXCEPT ![t] = IF SaysRunning /\ ~Allowed
                                          THEN [pc |-> "stop", same |-> TRUE, sure |-> FALSE] ELSE AtRest]
    /\ UNCHANGED <<vm, awake, usage, hours, tickDeaths>>

\* bug: a stop that fails ends the sweep.
GivenUp == "idle"

\* Where a failed stop leads: the row moves all the same.
AfterFailedStop == "stopped"

QuotaStop(t) ==
    /\ actor[t].pc = "stop"
    /\ Edge(t, FALSE, "stopped", AfterFailedStop)
    /\ UNCHANGED <<vm, usage, hours, tickDeaths>>

MarkStopped(t) ==
    /\ actor[t].pc = "stopped"
    /\ vm' = WithState(t, "asleep")
    /\ Rests(t)
    /\ UNCHANGED <<awake, usage, hours, tickDeaths>>

-----------------------------------------------------------------------------
(* Time and faults *)

\* The platform's idle timer: nobody is told.  A lease of a running container may not
\* count as activity ("nap").
ContainerSleeps ==
    /\ awake
    /\ \A c \in Calls : actor[c].pc \notin IF "nap" \in EdgeFaults THEN {"exec"} ELSE {"leased", "ready", "exec"}
    /\ awake' = FALSE
    /\ UNCHANGED <<vm, actor, usage, hours, tickDeaths>>

\* LEASE_DAYS without a lease.  A call does not last as long.
LeaseRunsOut ==
    /\ vm # None /\ ~vm.stale
    /\ \A c \in Calls : actor[c].pc = "idle"
    /\ vm' = [vm EXCEPT !.stale = TRUE]
    /\ UNCHANGED <<awake, actor, usage, hours, tickDeaths>>

\* The instance dies under a call.
CallDies(c) ==
    /\ "die" \in EdgeFaults
    /\ actor[c].pc # "idle"
    /\ Rests(c)
    /\ UNCHANGED <<vm, awake, usage, hours, tickDeaths>>

\* The instance dies under a tick, or a query of its fails and the rest is not done.
TickDies(t) ==
    /\ "die" \in EdgeFaults
    /\ actor[t].pc # "idle"
    /\ tickDeaths < MaxTickDeaths
    /\ tickDeaths' = tickDeaths + 1
    /\ Rests(t)
    /\ UNCHANGED <<vm, awake, usage, hours>>

CallStep(c) ==
    \/ CheckQuota(c) \/ NoPolicy(c) \/ UpsertVm(c) \/ EdgeLease(c) \/ MarkRunning(c) \/ MarkUnavailable(c)
    \/ Exec(c) \/ ExecEnds(c)
    \/ FindRunning(c) \/ AskBeforeStop(c) \/ StopAfterRun(c) \/ MarkAsleep(c)

TickStep(t) ==
    \/ TickBegins(t) \/ ReapStop(t) \/ ReapRow(t) \/ ReadRunning(t) \/ AskStatus(t) \/ StatusFails(t)
    \/ MarkSlept(t) \/ CountAwake(t) \/ Meter(t) \/ JudgeSpace(t) \/ QuotaStop(t) \/ MarkStopped(t)

MachineNext ==
    \/ \E c \in Calls : CallStep(c) \/ CallDies(c)
    \/ \E t \in Tickers : TickStep(t) \/ TickDies(t)
    \/ ContainerSleeps
    \/ LeaseRunsOut

MachineSpec == MachineInit /\ [][MachineNext]_machineVars

\* Every minute has its tick, and the edge is not unreachable for ever.
MachineFairness == \A t \in Tickers : WF_machineVars(TickStep(t)) /\ SF_machineVars(AskStatus(t))

MachineFairSpec == MachineSpec /\ MachineFairness

-----------------------------------------------------------------------------
(* Properties *)

\* "Every awake minute is still metered" (shared/limits.ts): with nobody between two
\* steps, an awake machine has a row that says so, and the meter counts it.
AwakeIsOnRecord ==
    awake /\ (\A a \in Actors : actor[a].pc = "idle") => SaysRunning

\* "An edge outage must not silently zero a space's usage" (reconcileSleptMachines):
\* the row of an awake machine that said "running" stops saying so only by an actor
\* that has itself had the container down, and was overtaken by a call that woke it;
\* by a quota stop or a reap whose stop failed; or by a lease that failed.
OnlyOvertakenVerdictsUnmeter ==
    [][awake /\ awake' /\ SaysRunning /\ ~SaysRunning' =>
          \/ \E a \in Actors : actor[a].sure /\ ~actor'[a].sure
          \/ \E t \in Tickers : actor[t].pc \in {"stopped", "delete"} /\ actor'[t].pc # actor[t].pc
          \/ \E c \in Calls : actor[c].pc = "failed" /\ actor'[c].pc = "idle"]_machineVars

\* "Soft by one tick" (quota.ts), where ticks overlap and die: past its cap a space is
\* metered once by every tick that is under way, until one of them stops the machine.
\* Each call that was cleared before may wake it once more for all of them, and each
\* tick that dies before it came to the stop is metered for nothing.
OverrunBounded ==
    hours # None => usage <= hours + Cardinality(Tickers) * (Cardinality(Calls) + 1) - 1 + tickDeaths

\* "The meter bills a sleeping machine every minute" (reconcileSleptMachines) is what
\* the tick prevents: the row of a container that went down follows.
SleeperNoticed == SaysRunning /\ ~awake ~> ~SaysRunning \/ awake
=============================================================================
