---------------------------- MODULE BudgetProofs ----------------------------
(***************************************************************************)
(* Theorems about what an agent may use: machine hours (MachineLease), for *)
(* any number of calls, any allowance and whatever the edge does; and      *)
(* turns of a model (AgentChat), for any threads, messages and budget.     *)
(*                                                                         *)
(* Both are checked before work is begun and counted after it is done.     *)
(* Each bound rests on what is left to come: the calls that were cleared,  *)
(* or the turns that read the ledger, before it was full.                  *)
(***************************************************************************)
EXTENDS MachineLease, AgentChat, FiniteSetTheorems, TLAPS

-----------------------------------------------------------------------------
(* The machine: the inductive invariant *)

ClearedPhases == {"cleared", "leasing", "leased"}

\* Calls that may still make the row say that the machine runs.
Cleared == {c \in Calls : actor[c].pc \in ClearedPhases}

\* Is a tick past the meter, and sure to stop the machine that runs over its cap?  The row
\* it was to stop may have been reaped, and then it is not.
Past(x) ==
    \/ x.pc = "quota"
    \/ x.pc \in {"stop", "stopped"} /\ x.same

\* The ticks that have counted the machine, or will count it while its row says so.
Metering == {t \in Tickers : actor[t].pc = "counted" \/ (SaysRunning /\ ~Past(actor[t]))}

\* Past its cap, a space is metered once more by each tick that is still to meter what
\* runs, and by every tick once for each call that was cleared before.
OverrunLeft ==
    hours # None /\ usage >= hours =>
        usage + Cardinality(Tickers) * Cardinality(Cleared) + Cardinality(Metering)
           <= hours + Cardinality(Tickers) * (Cardinality(Calls) + 1) - 1 + tickDeaths

\* Who writes down a container as asleep has had it down.
SureWhenSaid == \A a \in Actors : actor[a].pc \in {"asleep", "slept"} => actor[a].sure

MachineInv == MachineTypeOK /\ OverrunLeft /\ SureWhenSaid

-----------------------------------------------------------------------------
(* The machine: lemmas about its steps *)

\* A tick is none of the calls.
LEMMA ActorsApart ==
  Calls \subseteq Actors /\ Tickers \subseteq Actors /\ Actors = Calls \cup Tickers /\ Calls \cap Tickers = {}
  BY MachineAssumption DEF Actors

\* What a step makes of an actor's record.
LEMMA PhaseSet ==
  ASSUME NEW x \in ActorRecord, NEW p \in CallPhases \cup TickPhases
  PROVE  /\ [x EXCEPT !.pc = p] \in ActorRecord
         /\ [x EXCEPT !.pc = p].pc = p /\ [x EXCEPT !.pc = p].same = x.same /\ [x EXCEPT !.pc = p].sure = x.sure
BY DEF ActorRecord

\* The same, for an actor that has read the row.
LEMMA PhaseSame ==
  ASSUME NEW x \in ActorRecord, NEW p \in CallPhases \cup TickPhases
  PROVE  /\ [x EXCEPT !.pc = p, !.same = TRUE] \in ActorRecord
         /\ [x EXCEPT !.pc = p, !.same = TRUE].pc = p /\ [x EXCEPT !.pc = p, !.same = TRUE].sure = x.sure
BY DEF ActorRecord

\* The same, for an actor that has said, or not, what the machine is.
LEMMA PhaseSure ==
  ASSUME NEW x \in ActorRecord, NEW p \in CallPhases \cup TickPhases
  PROVE  /\ [x EXCEPT !.pc = p, !.sure = TRUE] \in ActorRecord
         /\ [x EXCEPT !.pc = p, !.sure = TRUE].pc = p /\ [x EXCEPT !.pc = p, !.sure = TRUE].same = x.same
         /\ [x EXCEPT !.pc = p, !.sure = TRUE].sure
         /\ [x EXCEPT !.pc = p, !.sure = FALSE] \in ActorRecord
         /\ [x EXCEPT !.pc = p, !.sure = FALSE].pc = p /\ [x EXCEPT !.pc = p, !.sure = FALSE].same = x.same
BY DEF ActorRecord

\* And for one whose row is gone.
LEMMA RowGone ==
  ASSUME NEW x \in ActorRecord
  PROVE  /\ [x EXCEPT !.same = FALSE] \in ActorRecord
         /\ [x EXCEPT !.same = FALSE].pc = x.pc /\ [x EXCEPT !.same = FALSE].sure = x.sure
         /\ [x EXCEPT !.same = FALSE].same = FALSE
BY DEF ActorRecord

\* Records at rest are well typed.
LEMMA RestTypes ==
  /\ AtRest \in ActorRecord /\ AtRest.pc = "idle" /\ AtRest.same = FALSE /\ AtRest.sure = FALSE
  /\ \A p \in TickPhases : /\ [AtRest EXCEPT !.pc = p] \in ActorRecord
                           /\ [AtRest EXCEPT !.pc = p].pc = p /\ [AtRest EXCEPT !.pc = p].same = FALSE
                           /\ [pc |-> p, same |-> TRUE, sure |-> FALSE] \in ActorRecord
BY DEF AtRest, ActorRecord, CallPhases, TickPhases

\* Every tick once, for each of some calls: one call fewer, and no more than all of them.
LEMMA TicksTimes ==
  ASSUME NEW n \in Nat, NEW k \in Nat, NEW m \in Nat, k <= m
  PROVE  n * k \in Nat /\ n * k <= n * m /\ n * (m + 1) = n * m + n /\ (k > 0 => n * (k - 1) = n * k - n)
OBVIOUS

\* The numbers the bound is about.
LEMMA Counts ==
  ASSUME MachineTypeOK
  PROVE  /\ Cardinality(Calls) \in Nat /\ IsFiniteSet(Cleared) /\ Cardinality(Cleared) \in Nat
         /\ Cardinality(Cleared) <= Cardinality(Calls)
         /\ Cardinality(Tickers) \in Nat \ {0} /\ IsFiniteSet(Metering) /\ Cardinality(Metering) \in Nat
         /\ Cardinality(Metering) <= Cardinality(Tickers)
         /\ usage \in Nat /\ tickDeaths \in Nat /\ (hours # None => hours \in Nat)
<1>1. IsFiniteSet(Calls) /\ Cleared \in SUBSET Calls /\ IsFiniteSet(Tickers) /\ Metering \in SUBSET Tickers
  BY MachineAssumption DEF Cleared, Metering
<1>2. /\ IsFiniteSet(Cleared) /\ Cardinality(Cleared) <= Cardinality(Calls)
      /\ IsFiniteSet(Metering) /\ Cardinality(Metering) <= Cardinality(Tickers)
  BY <1>1, FS_Subset
<1>3. usage \in Nat /\ tickDeaths \in Nat /\ (hours # None => hours \in Nat)
  BY MachineAssumption DEF MachineTypeOK
<1>4. Cardinality(Tickers) # 0
  BY <1>1, MachineAssumption, FS_EmptySet
<1> QED
  BY <1>1, <1>2, <1>3, <1>4, FS_CardinalityType

\* What is still to come is less, or a death more makes up for it.
LEMMA BalanceKept ==
  ASSUME NEW u \in Nat, NEW h \in Nat, NEW b \in Nat, NEW x \in Nat, NEW xx \in Nat, NEW m \in Nat, NEW mm \in Nat,
         NEW d \in Nat, NEW dd \in Nat, u + x + m <= h + b - 1 + d, xx <= x, mm + d <= m + dd
  PROVE  u + xx + mm <= h + b - 1 + dd
OBVIOUS

\* Where no call is cleared and no tick begins to meter, but one for each that dies, the
\* bound holds on.
LEMMA NothingNew ==
  ASSUME MachineTypeOK, MachineTypeOK', OverrunLeft, UNCHANGED <<usage, hours>>, Cleared' \subseteq Cleared,
         Cardinality(Metering') + tickDeaths <= Cardinality(Metering) + tickDeaths'
  PROVE  OverrunLeft'
<1> DEFINE n == Cardinality(Tickers)
           k == Cardinality(Cleared)
           kk == Cardinality(Cleared')
           m == Cardinality(Metering)
           mm == Cardinality(Metering')
           b == n * (Cardinality(Calls) + 1)
<1>1. k \in Nat /\ m \in Nat /\ n \in Nat /\ b \in Nat
  <2>1. k \in Nat /\ m \in Nat /\ n \in Nat /\ Cardinality(Calls) + 1 \in Nat
    BY Counts
  <2> HIDE DEF n, k, m
  <2> QED
    BY <2>1, TicksTimes
<1>2. kk \in Nat /\ kk <= k /\ mm \in Nat
  <2>1. IsFiniteSet(Cleared') /\ Cardinality(Cleared') <= Cardinality(Cleared)
    BY Counts, FS_Subset
  <2>2. IsFiniteSet(Metering')
    BY MachineAssumption, FS_Subset DEF Metering
  <2> QED
    BY <2>1, <2>2, FS_CardinalityType
<1>3. usage \in Nat /\ tickDeaths \in Nat /\ tickDeaths' \in Nat /\ (hours # None => hours \in Nat)
  BY Counts, MachineAssumption DEF MachineTypeOK
<1>4. OverrunLeft <=> (hours # None /\ usage >= hours => usage + n * k + m <= hours + b - 1 + tickDeaths)
  BY DEF OverrunLeft
<1>5. OverrunLeft' <=> (hours # None /\ usage >= hours => usage + n * kk + mm <= hours + b - 1 + tickDeaths')
  BY DEF OverrunLeft
<1>6. mm + tickDeaths <= m + tickDeaths'
  OBVIOUS
<1> HIDE DEF n, k, kk, m, mm, b
<1> DEFINE x == n * k
           xx == n * kk
<1>7. x \in Nat /\ xx \in Nat /\ xx <= x
  BY <1>1, <1>2, TicksTimes
<1>8. OverrunLeft <=> (hours # None /\ usage >= hours => usage + x + m <= hours + b - 1 + tickDeaths)
  BY <1>4
<1>9. OverrunLeft' <=> (hours # None /\ usage >= hours => usage + xx + mm <= hours + b - 1 + tickDeaths')
  BY <1>5
<1> HIDE DEF x, xx
<1>10. ASSUME hours # None, usage >= hours
       PROVE  usage + xx + mm <= hours + b - 1 + tickDeaths'
  <2>1. usage + x + m <= hours + b - 1 + tickDeaths
    BY <1>8, <1>10
  <2>2. hours \in Nat
    BY <1>3, <1>10
  <2> QED
    BY <1>1, <1>2, <1>3, <1>6, <1>7, <2>1, <2>2, BalanceKept
<1> QED
  BY <1>9, <1>10

\* The same, where nobody dies.
LEMMA NobodyNew ==
  ASSUME MachineTypeOK, MachineTypeOK', OverrunLeft, UNCHANGED <<usage, hours, tickDeaths>>, Cleared' \subseteq Cleared,
         Metering' \subseteq Metering
  PROVE  OverrunLeft'
<1>1. IsFiniteSet(Metering') /\ Cardinality(Metering') <= Cardinality(Metering)
  BY Counts, FS_Subset
<1>2. Cardinality(Metering') \in Nat /\ Cardinality(Metering) \in Nat /\ tickDeaths \in Nat
  BY <1>1, Counts, FS_CardinalityType
<1>3. Cardinality(Metering') + tickDeaths <= Cardinality(Metering) + tickDeaths'
  BY <1>1, <1>2
<1> QED
  BY <1>3, NothingNew

\* What a step of one actor must bring for the invariant but for its bound.
Sound(a, r) ==
    /\ r \in ActorRecord
    /\ r.pc \in IF a \in Tickers THEN TickPhases ELSE CallPhases
    /\ r.pc \in {"asleep", "slept"} => r.sure

\* A step of one actor keeps the types and what is said of the machine, of them all.
LEMMA MoveKeeps ==
  ASSUME MachineInv, NEW a \in Actors, NEW r, Sound(a, r), actor' = [actor EXCEPT ![a] = r],
         vm' \in MachineRow \cup {None}, vm # None => vm' # None, r.same => vm' # None,
         awake' \in BOOLEAN, usage' \in 0..MaxUsage, tickDeaths' \in 0..MaxTickDeaths, UNCHANGED hours
  PROVE  MachineTypeOK' /\ SureWhenSaid'
<1> USE DEF MachineInv
<1>1. r \in ActorRecord /\ \A b \in Actors : actor'[b] = IF b = a THEN r ELSE actor[b]
  BY DEF MachineTypeOK, Sound
<1>2. actor' \in [Actors -> ActorRecord]
  BY <1>1 DEF MachineTypeOK
<1>3. (\A c \in Calls : actor'[c].pc \in CallPhases) /\ (\A t \in Tickers : actor'[t].pc \in TickPhases)
  BY <1>1, ActorsApart DEF MachineTypeOK, Sound
<1>4. \A b \in Actors : actor'[b].same => vm' # None
  BY <1>1 DEF MachineTypeOK
<1>5. MachineTypeOK'
  BY <1>2, <1>3, <1>4 DEF MachineTypeOK
<1>6. SureWhenSaid'
  BY <1>1 DEF SureWhenSaid, Sound
<1> QED
  BY <1>5, <1>6

\* A call that is not cleared by its step, and does not set the row to running.
LEMMA CallMoves ==
  ASSUME MachineInv, NEW c \in Calls, NEW r, Sound(c, r), actor' = [actor EXCEPT ![c] = r],
         vm' \in MachineRow \cup {None}, vm # None => vm' # None, r.same => vm' # None,
         SaysRunning' => SaysRunning, r.pc \in ClearedPhases => actor[c].pc \in ClearedPhases,
         awake' \in BOOLEAN, UNCHANGED <<usage, hours, tickDeaths>>
  PROVE  MachineInv'
<1>1. MachineTypeOK' /\ SureWhenSaid'
  BY MoveKeeps, ActorsApart DEF MachineInv, MachineTypeOK
<1>2. \A b \in Actors : actor'[b] = IF b = c THEN r ELSE actor[b]
  BY DEF MachineInv, MachineTypeOK
<1>3. Cleared' \subseteq Cleared
  BY <1>2, ActorsApart DEF Cleared
<1>4. Metering' \subseteq Metering
  BY <1>2, ActorsApart DEF Metering
<1>5. OverrunLeft'
  BY <1>1, <1>3, <1>4, NobodyNew DEF MachineInv
<1> QED
  BY <1>1, <1>5 DEF MachineInv

\* A tick, where it does not come to meter what it would not have metered.
LEMMA TickMoves ==
  ASSUME MachineInv, NEW t \in Tickers, NEW r, Sound(t, r), actor' = [actor EXCEPT ![t] = r],
         vm' \in MachineRow \cup {None}, vm # None => vm' # None, r.same => vm' # None,
         SaysRunning' => SaysRunning, r.pc = "counted" => t \in Metering,
         SaysRunning' /\ ~Past(r) => ~Past(actor[t]), awake' \in BOOLEAN, UNCHANGED <<usage, hours, tickDeaths>>
  PROVE  MachineInv'
<1>1. MachineTypeOK' /\ SureWhenSaid'
  BY MoveKeeps, ActorsApart DEF MachineInv, MachineTypeOK
<1>2. \A b \in Actors : actor'[b] = IF b = t THEN r ELSE actor[b]
  BY DEF MachineInv, MachineTypeOK
<1>3. Cleared' \subseteq Cleared
  BY <1>2, ActorsApart DEF Cleared
<1>4. Metering' \subseteq Metering
  <2>1. \A u \in Tickers \ {t} : actor'[u] = actor[u]
    BY <1>2, ActorsApart
  <2>2. actor'[t] = r
    BY <1>2, ActorsApart
  <2>3. \A u \in Tickers \ {t} : u \in Metering' => u \in Metering
    BY <2>1 DEF Metering
  <2>4. t \in Metering' => t \in Metering
    BY <2>2 DEF Metering
  <2> QED
    BY <2>3, <2>4 DEF Metering
<1>5. OverrunLeft'
  BY <1>1, <1>3, <1>4, NobodyNew DEF MachineInv
<1> QED
  BY <1>1, <1>5 DEF MachineInv

\* An actor after it asked for the container.
LEMMA EdgeUp ==
  ASSUME MachineTypeOK, NEW a \in Actors,
         NEW yes \in CallPhases \cup TickPhases, NEW no \in CallPhases \cup TickPhases, Edge(a, TRUE, yes, no)
  PROVE  \E r \in ActorRecord :
            /\ actor' = [actor EXCEPT ![a] = r]
            /\ r.same = actor[a].same
            /\ r.pc \in {yes, no}
            /\ awake' \in BOOLEAN
<1>1. actor[a] \in ActorRecord /\ awake \in BOOLEAN
  BY DEF MachineTypeOK
<1> DEFINE told == [actor[a] EXCEPT !.pc = yes, !.sure = FALSE]
           not == [actor[a] EXCEPT !.pc = no]
<1>2. told \in ActorRecord /\ told.pc = yes /\ told.same = actor[a].same
  BY <1>1, PhaseSure
<1>3. not \in ActorRecord /\ not.pc = no /\ not.same = actor[a].same
  BY <1>1, PhaseSet
<1>4. ASSUME actor' = [actor EXCEPT ![a].pc = yes, ![a].sure = FALSE]
      PROVE  actor' = [actor EXCEPT ![a] = told]
  BY <1>4 DEF MachineTypeOK
<1>5. ASSUME actor' = [actor EXCEPT ![a].pc = no]
      PROVE  actor' = [actor EXCEPT ![a] = not]
  BY <1>5 DEF MachineTypeOK
<1>6. awake' \in BOOLEAN
  BY <1>1 DEF Edge
<1>7. \/ actor' = [actor EXCEPT ![a].pc = yes, ![a].sure = FALSE]
      \/ actor' = [actor EXCEPT ![a].pc = no]
  BY DEF Edge, Goes
<1> HIDE DEF told, not
<1> QED
  BY <1>2, <1>3, <1>4, <1>5, <1>6, <1>7

\* a has gone to `yes`, sure that the container is down, or to `no`.
TookDown(a, yes, no) ==
  \E r \in ActorRecord :
     /\ actor' = [actor EXCEPT ![a] = r]
     /\ r.same = actor[a].same
     /\ ((r.pc = yes /\ r.sure) \/ r.pc = no)
     /\ awake' \in BOOLEAN

\* An actor after it took the container down, and was told so or was not.
LEMMA EdgeDown ==
  ASSUME MachineTypeOK, NEW a \in Actors,
         NEW yes \in CallPhases \cup TickPhases, NEW no \in CallPhases \cup TickPhases, Edge(a, FALSE, yes, no)
  PROVE  TookDown(a, yes, no)
<1>1. actor[a] \in ActorRecord /\ awake \in BOOLEAN
  BY DEF MachineTypeOK
<1> DEFINE told == [actor[a] EXCEPT !.pc = yes, !.sure = TRUE]
           not == [actor[a] EXCEPT !.pc = no]
<1>2. told \in ActorRecord /\ told.pc = yes /\ told.sure /\ told.same = actor[a].same
  BY <1>1, PhaseSure
<1>3. not \in ActorRecord /\ not.pc = no /\ not.same = actor[a].same
  BY <1>1, PhaseSet
<1>4. ASSUME actor' = [actor EXCEPT ![a].pc = yes, ![a].sure = TRUE]
      PROVE  actor' = [actor EXCEPT ![a] = told]
  BY <1>4 DEF MachineTypeOK
<1>5. ASSUME actor' = [actor EXCEPT ![a].pc = no]
      PROVE  actor' = [actor EXCEPT ![a] = not]
  BY <1>5 DEF MachineTypeOK
<1>6. awake' \in BOOLEAN
  BY <1>1 DEF Edge
<1>7. \/ actor' = [actor EXCEPT ![a].pc = yes, ![a].sure = TRUE]
      \/ actor' = [actor EXCEPT ![a].pc = no]
  BY DEF Edge, Goes
<1> HIDE DEF told, not
<1> QED
  BY <1>2, <1>3, <1>4, <1>5, <1>6, <1>7 DEF TookDown

\* An update by id leaves a row a row, and sets its state if it is there.
LEMMA StateWritten ==
  ASSUME MachineTypeOK, NEW a \in Actors, NEW state \in States
  PROVE  /\ WithState(a, state) \in MachineRow \cup {None}
         /\ WithState(a, state) = None <=> vm = None
         /\ actor[a].same => WithState(a, state) # None /\ WithState(a, state).state = state
         /\ ~actor[a].same => WithState(a, state) = vm
<1>1. CASE actor[a].same
  <2>1. vm \in MachineRow /\ vm # None
    BY <1>1 DEF MachineTypeOK
  <2>2. [vm EXCEPT !.state = state] \in MachineRow /\ [vm EXCEPT !.state = state].state = state
    BY <2>1 DEF MachineRow
  <2> QED
    BY <1>1, <2>1, <2>2, MachineRowAssumption DEF WithState
<1>2. CASE ~actor[a].same
  BY <1>2 DEF WithState, MachineTypeOK
<1> QED
  BY <1>1, <1>2
-----------------------------------------------------------------------------
(* The machine: one lemma for each action *)

\* A call that comes to rest leaves the invariant as it was.
LEMMA AtEase ==
  ASSUME MachineInv, NEW c \in Calls, Rests(c), vm' \in MachineRow \cup {None}, vm # None => vm' # None,
         SaysRunning' => SaysRunning, UNCHANGED <<awake, usage, hours, tickDeaths>>
  PROVE  MachineInv'
<1>1. Sound(c, AtRest) /\ AtRest.pc \notin ClearedPhases /\ AtRest.same = FALSE
  BY RestTypes, ActorsApart DEF Sound, CallPhases, ClearedPhases
<1>2. actor' = [actor EXCEPT ![c] = AtRest] /\ awake' \in BOOLEAN
  BY DEF Rests, MachineInv, MachineTypeOK
<1> QED
  BY <1>1, <1>2, CallMoves

\* A call goes on, and nothing else.
LEMMA CallGoes ==
  ASSUME MachineInv, NEW c \in Calls, NEW p \in CallPhases \ {"asleep"}, Goes(c, p),
         vm' \in MachineRow \cup {None}, vm # None => vm' # None,
         SaysRunning' => SaysRunning, p \in ClearedPhases => actor[c].pc \in ClearedPhases,
         awake' \in BOOLEAN, UNCHANGED <<usage, hours, tickDeaths>>
  PROVE  MachineInv'
<1> DEFINE r == [actor[c] EXCEPT !.pc = p]
<1>1. actor[c] \in ActorRecord /\ (actor[c].same => vm # None)
  BY ActorsApart DEF MachineInv, MachineTypeOK
<1>2. r \in ActorRecord /\ r.pc = p /\ r.same = actor[c].same
  BY <1>1, PhaseSet
<1>3. actor' = [actor EXCEPT ![c] = r]
  BY DEF Goes, MachineInv, MachineTypeOK
<1> HIDE DEF r
<1>4. Sound(c, r)
  BY <1>2, ActorsApart DEF Sound, CallPhases
<1> QED
  BY <1>1, <1>2, <1>3, <1>4, CallMoves

\* CheckQuota keeps every part of the invariant.
LEMMA CheckQuotaStep ==
  ASSUME MachineInv, NEW c \in Calls, CheckQuota(c)
  PROVE  MachineInv'
<1> DEFINE r == [actor[c] EXCEPT !.pc = "cleared"]
<1>1. actor[c] \in ActorRecord /\ (actor[c].same => vm # None) /\ "cleared" \in CallPhases
  BY ActorsApart DEF MachineInv, MachineTypeOK, CallPhases
<1>2. r \in ActorRecord /\ r.pc = "cleared" /\ r.same = actor[c].same
  BY <1>1, PhaseSet
<1>3. actor' = [actor EXCEPT ![c] = r] /\ UNCHANGED <<vm, awake, usage, hours, tickDeaths>> /\ Allowed
  BY DEF CheckQuota, Goes, MachineInv, MachineTypeOK
<1> HIDE DEF r
<1>4. Sound(c, r)
  BY <1>1, <1>2, ActorsApart DEF Sound
<1>5. vm' \in MachineRow \cup {None} /\ awake' \in BOOLEAN /\ usage' \in 0..MaxUsage /\ tickDeaths' \in 0..MaxTickDeaths
  BY <1>3 DEF MachineInv, MachineTypeOK
<1>6. MachineTypeOK' /\ SureWhenSaid'
  BY <1>1, <1>2, <1>3, <1>4, <1>5, MoveKeeps, ActorsApart
<1>7. hours' # None => usage' < hours'
  BY <1>3 DEF Allowed
<1>8. OverrunLeft'
  BY <1>3, <1>6, <1>7, Counts, MachineAssumption DEF OverrunLeft, MachineInv, MachineTypeOK
<1> QED
  BY <1>6, <1>8 DEF MachineInv

\* NoPolicy keeps every part of the invariant.
LEMMA NoPolicyStep ==
  ASSUME MachineInv, NEW c \in Calls, NoPolicy(c)
  PROVE  MachineInv'
BY AtEase DEF NoPolicy, SaysRunning, MachineInv, MachineTypeOK

\* UpsertVm keeps every part of the invariant.
LEMMA UpsertVmStep ==
  ASSUME MachineInv, NEW c \in Calls, UpsertVm(c)
  PROVE  MachineInv'
<1> DEFINE r == [actor[c] EXCEPT !.pc = "leasing", !.same = TRUE]
<1>1. actor[c] \in ActorRecord /\ "leasing" \in CallPhases
  BY ActorsApart DEF MachineInv, MachineTypeOK, CallPhases
<1>2. r \in ActorRecord /\ r.pc = "leasing"
  BY <1>1, PhaseSame
<1>3. actor' = [actor EXCEPT ![c] = r] /\ UNCHANGED <<awake, usage, hours, tickDeaths>> /\ actor[c].pc = "cleared"
  BY DEF UpsertVm, MachineInv, MachineTypeOK
<1> HIDE DEF r
<1>4. Sound(c, r)
  BY <1>1, <1>2, ActorsApart DEF Sound
<1>5. awake' \in BOOLEAN
  BY <1>3 DEF MachineInv, MachineTypeOK
<1>6. vm' \in MachineRow /\ (SaysRunning' => SaysRunning)
  <2>1. CASE vm = None
    <3>1. vm' = [state |-> "provisioning", stale |-> FALSE]
      BY <2>1 DEF UpsertVm
    <3> QED
      BY <3>1 DEF MachineRow, States, SaysRunning
  <2>2. CASE vm # None
    <3>1. vm \in MachineRow /\ vm' = [vm EXCEPT !.stale = FALSE]
      BY <2>2 DEF UpsertVm, MachineInv, MachineTypeOK
    <3>2. vm' \in MachineRow /\ vm'.state = vm.state
      BY <3>1 DEF MachineRow
    <3> QED
      BY <2>2, <3>2 DEF SaysRunning
  <2> QED
    BY <2>1, <2>2
<1>7. vm' # None
  BY <1>6, MachineRowAssumption
<1>8. r.pc \in ClearedPhases => actor[c].pc \in ClearedPhases
  BY <1>3 DEF ClearedPhases
<1> QED
  BY <1>2, <1>3, <1>4, <1>5, <1>6, <1>7, <1>8, CallMoves

\* EdgeLease keeps every part of the invariant.
LEMMA EdgeLeaseStep ==
  ASSUME MachineInv, NEW c \in Calls, EdgeLease(c)
  PROVE  MachineInv'
<1>1. /\ MachineTypeOK /\ Edge(c, TRUE, "leased", "failed")
      /\ "leased" \in CallPhases \cup TickPhases /\ "failed" \in CallPhases \cup TickPhases
  BY DEF EdgeLease, MachineInv, CallPhases
<1>2. PICK r \in ActorRecord : /\ actor' = [actor EXCEPT ![c] = r] /\ r.same = actor[c].same
                               /\ r.pc \in {"leased", "failed"} /\ awake' \in BOOLEAN
  <2>1. c \in Actors
    BY ActorsApart
  <2>2. \E r \in ActorRecord : /\ actor' = [actor EXCEPT ![c] = r] /\ r.same = actor[c].same
                               /\ r.pc \in {"leased", "failed"} /\ awake' \in BOOLEAN
    BY <1>1, <2>1, EdgeUp, ZenonT(30)
  <2> QED
    BY <2>2
<1>3. Sound(c, r)
  BY <1>2, ActorsApart DEF Sound, CallPhases
<1>4. UNCHANGED <<vm, usage, hours, tickDeaths>> /\ actor[c].pc = "leasing"
  BY DEF EdgeLease
<1>5. (r.same => vm' # None) /\ vm' \in MachineRow \cup {None}
  BY <1>2, <1>4, ActorsApart DEF MachineInv, MachineTypeOK
<1>6. r.pc \in ClearedPhases => actor[c].pc \in ClearedPhases
  BY <1>4 DEF ClearedPhases
<1>7. SaysRunning' => SaysRunning
  BY <1>4 DEF SaysRunning
<1> QED
  BY <1>2, <1>3, <1>4, <1>5, <1>6, <1>7, CallMoves

\* A call that was cleared is so no longer: what it may add moves to the row.
LEMMA MarkRunningStep ==
  ASSUME MachineInv, NEW c \in Calls, MarkRunning(c)
  PROVE  MachineInv'
<1>1. CASE ~actor[c].same
  BY <1>1, AtEase, ActorsApart DEF MarkRunning, WithState, SaysRunning, MachineInv, MachineTypeOK
<1>2. CASE actor[c].same
  <2> DEFINE r == [actor[c] EXCEPT !.pc = "ready"]
  <2>1. actor[c] \in ActorRecord /\ "ready" \in CallPhases /\ "running" \in States
    BY ActorsApart DEF MachineInv, MachineTypeOK, CallPhases, States
  <2>2. r \in ActorRecord /\ r.pc = "ready"
    BY <2>1, PhaseSet
  <2>3. actor' = [actor EXCEPT ![c] = r] /\ UNCHANGED <<awake, usage, hours, tickDeaths>> /\ actor[c].pc = "leased"
    BY <1>2 DEF MarkRunning, Goes, MachineInv, MachineTypeOK
  <2> HIDE DEF r
  <2>4. Sound(c, r)
    BY <2>1, <2>2, ActorsApart DEF Sound
  <2>5. vm' \in MachineRow \cup {None} /\ vm' # None
    BY <1>2, <2>1, ActorsApart, StateWritten DEF MarkRunning, MachineInv
  <2>6. awake' \in BOOLEAN /\ usage' \in 0..MaxUsage /\ tickDeaths' \in 0..MaxTickDeaths
    BY <2>3 DEF MachineInv, MachineTypeOK
  <2>7. MachineTypeOK' /\ SureWhenSaid'
    BY <2>3, <2>4, <2>5, <2>6, MoveKeeps, ActorsApart
  <2>8. \A b \in Actors : actor'[b] = IF b = c THEN r ELSE actor[b]
    BY <2>3 DEF MachineInv, MachineTypeOK
  <2>9. c \in Cleared /\ Cleared' = Cleared \ {c}
    BY <2>2, <2>3, <2>8, ActorsApart DEF Cleared, ClearedPhases
  <2>10. IsFiniteSet(Cleared) /\ Cardinality(Cleared) \in Nat
    BY Counts DEF MachineInv
  <2>11. Cardinality(Cleared') = Cardinality(Cleared) - 1
    BY <2>9, <2>10, FS_RemoveElement
  <2>12. OverrunLeft'
    <3> DEFINE n == Cardinality(Tickers)
               k == Cardinality(Cleared)
               m == Cardinality(Metering)
               mm == Cardinality(Metering')
               b == n * (Cardinality(Calls) + 1)
    <3>1. n \in Nat /\ k \in Nat /\ m \in Nat /\ mm \in Nat /\ mm <= n
      <4>1. MachineTypeOK /\ MachineTypeOK'
        BY <2>7 DEF MachineInv
      <4>2. IsFiniteSet(Metering') /\ Cardinality(Metering') <= Cardinality(Tickers)
        BY MachineAssumption, FS_Subset DEF Metering
      <4> QED
        BY <4>1, <4>2, Counts, FS_CardinalityType
    <3>2. k > 0 /\ Cardinality(Cleared') = k - 1
      BY <2>9, <2>10, <2>11, FS_EmptySet
    <3>3. OverrunLeft <=> (hours # None /\ usage >= hours => usage + n * k + m <= hours + b - 1 + tickDeaths)
      BY DEF OverrunLeft
    <3>4. OverrunLeft' <=> (hours' # None /\ usage' >= hours' =>
                              usage' + n * (k - 1) + mm <= hours' + b - 1 + tickDeaths')
      BY <3>2 DEF OverrunLeft
    <3>5. b \in Nat
      BY <3>1, Counts, TicksTimes DEF MachineInv
    <3> HIDE DEF n, k, m, mm, b
    <3>6. n * k \in Nat /\ n * (k - 1) = n * k - n
      BY <3>1, <3>2, TicksTimes
    <3>7. OverrunLeft /\ UNCHANGED <<usage, hours, tickDeaths>> /\ usage \in Nat /\ tickDeaths \in Nat /\ (hours # None => hours \in Nat)
      BY <2>3, Counts DEF MachineInv
    <3> QED
      BY <3>1, <3>3, <3>4, <3>5, <3>6, <3>7
  <2> QED
    BY <2>7, <2>12 DEF MachineInv
<1> QED
  BY <1>1, <1>2

\* MarkUnavailable keeps every part of the invariant.
LEMMA MarkUnavailableStep ==
  ASSUME MachineInv, NEW c \in Calls, MarkUnavailable(c)
  PROVE  MachineInv'
<1>1. vm' = WithState(c, "unavailable") /\ Rests(c) /\ UNCHANGED <<awake, usage, hours, tickDeaths>> /\ "unavailable" \in States /\ c \in Actors
  BY ActorsApart DEF MarkUnavailable, States
<1>2. vm' \in MachineRow \cup {None} /\ (vm # None => vm' # None) /\ (SaysRunning' => SaysRunning)
  BY <1>1, StateWritten DEF MachineInv, SaysRunning
<1> QED
  BY <1>1, <1>2, AtEase

\* Exec keeps every part of the invariant.
LEMMA ExecStep ==
  ASSUME MachineInv, NEW c \in Calls, Exec(c)
  PROVE  MachineInv'
BY CallGoes DEF Exec, SaysRunning, CallPhases, ClearedPhases, MachineInv, MachineTypeOK

\* ExecEnds keeps every part of the invariant.
LEMMA ExecEndsStep ==
  ASSUME MachineInv, NEW c \in Calls, ExecEnds(c)
  PROVE  MachineInv'
BY AtEase DEF ExecEnds, SaysRunning, MachineInv, MachineTypeOK

\* FindRunning keeps every part of the invariant.
LEMMA FindRunningStep ==
  ASSUME MachineInv, NEW c \in Calls, FindRunning(c)
  PROVE  MachineInv'
<1> DEFINE r == [actor[c] EXCEPT !.pc = "status", !.same = TRUE]
<1>1. actor[c] \in ActorRecord /\ "status" \in CallPhases
  BY ActorsApart DEF MachineInv, MachineTypeOK, CallPhases
<1>2. r \in ActorRecord /\ r.pc = "status"
  BY <1>1, PhaseSame
<1>3. actor' = [actor EXCEPT ![c] = r] /\ UNCHANGED <<vm, awake, usage, hours, tickDeaths>> /\ vm # None
  BY DEF FindRunning, SaysRunning, MachineInv, MachineTypeOK
<1> HIDE DEF r
<1>4. Sound(c, r) /\ r.pc \notin ClearedPhases
  BY <1>1, <1>2, ActorsApart DEF Sound, ClearedPhases
<1>5. vm' \in MachineRow \cup {None} /\ awake' \in BOOLEAN
  BY <1>3 DEF MachineInv, MachineTypeOK
<1>6. SaysRunning' => SaysRunning
  BY <1>3 DEF SaysRunning
<1> QED
  BY <1>3, <1>4, <1>5, <1>6, CallMoves

\* AskBeforeStop keeps every part of the invariant.
LEMMA AskBeforeStopStep ==
  ASSUME MachineInv, NEW c \in Calls, AskBeforeStop(c)
  PROVE  MachineInv'
<1>1. CASE actor' = [actor EXCEPT ![c].pc = "asleep", ![c].sure = TRUE]
  <2> DEFINE r == [actor[c] EXCEPT !.pc = "asleep", !.sure = TRUE]
  <2>1. actor[c] \in ActorRecord /\ (actor[c].same => vm # None) /\ "asleep" \in CallPhases
    BY ActorsApart DEF MachineInv, MachineTypeOK, CallPhases
  <2>2. r \in ActorRecord /\ r.pc = "asleep" /\ r.sure /\ r.same = actor[c].same
    BY <2>1, PhaseSure
  <2>3. actor' = [actor EXCEPT ![c] = r] /\ UNCHANGED <<vm, awake, usage, hours, tickDeaths>>
    BY <1>1 DEF AskBeforeStop, MachineInv, MachineTypeOK
  <2> HIDE DEF r
  <2>4. Sound(c, r) /\ r.pc \notin ClearedPhases
    BY <2>1, <2>2, ActorsApart DEF Sound, ClearedPhases
  <2>5. vm' \in MachineRow \cup {None} /\ awake' \in BOOLEAN
    BY <2>3 DEF MachineInv, MachineTypeOK
  <2>6. SaysRunning' => SaysRunning
    BY <2>3 DEF SaysRunning
  <2> QED
    BY <2>1, <2>2, <2>3, <2>4, <2>5, <2>6, CallMoves
<1>2. CASE Goes(c, "stop")
  BY <1>2, CallGoes DEF AskBeforeStop, SaysRunning, CallPhases, ClearedPhases, MachineInv, MachineTypeOK
<1>3. CASE Rests(c)
  BY <1>3, AtEase DEF AskBeforeStop, SaysRunning, MachineInv, MachineTypeOK
<1> QED
  BY <1>1, <1>2, <1>3 DEF AskBeforeStop

\* StopAfterRun keeps every part of the invariant.
LEMMA StopAfterRunStep ==
  ASSUME MachineInv, NEW c \in Calls, StopAfterRun(c)
  PROVE  MachineInv'
<1>1. /\ MachineTypeOK /\ Edge(c, FALSE, "asleep", "idle") /\ c \in Actors
      /\ "asleep" \in CallPhases \cup TickPhases /\ "idle" \in CallPhases \cup TickPhases
  BY ActorsApart DEF StopAfterRun, MachineInv, CallPhases
<1>2. TookDown(c, "asleep", "idle")
  BY <1>1, EdgeDown
<1>3. PICK r \in ActorRecord : /\ actor' = [actor EXCEPT ![c] = r] /\ r.same = actor[c].same
                               /\ ((r.pc = "asleep" /\ r.sure) \/ r.pc = "idle")
                               /\ awake' \in BOOLEAN
  BY <1>2 DEF TookDown
<1>4. Sound(c, r) /\ r.pc \notin ClearedPhases
  BY <1>3, ActorsApart DEF Sound, CallPhases, ClearedPhases
<1>5. UNCHANGED <<vm, usage, hours, tickDeaths>>
  BY DEF StopAfterRun
<1>6. (r.same => vm' # None) /\ vm' \in MachineRow \cup {None}
  BY <1>1, <1>3, <1>5 DEF MachineTypeOK
<1>7. SaysRunning' => SaysRunning
  BY <1>5 DEF SaysRunning
<1> QED
  BY <1>3, <1>4, <1>5, <1>6, <1>7, CallMoves

\* MarkAsleep keeps every part of the invariant.
LEMMA MarkAsleepStep ==
  ASSUME MachineInv, NEW c \in Calls, MarkAsleep(c)
  PROVE  MachineInv'
<1>1. vm' = WithState(c, "asleep") /\ Rests(c) /\ UNCHANGED <<awake, usage, hours, tickDeaths>> /\ "asleep" \in States /\ c \in Actors
  BY ActorsApart DEF MarkAsleep, States
<1>2. vm' \in MachineRow \cup {None} /\ (vm # None => vm' # None) /\ (SaysRunning' => SaysRunning)
  BY <1>1, StateWritten DEF MachineInv, SaysRunning
<1> QED
  BY <1>1, <1>2, AtEase

\* CallDies keeps every part of the invariant.
LEMMA CallDiesStep ==
  ASSUME MachineInv, NEW c \in Calls, CallDies(c)
  PROVE  MachineInv'
BY AtEase DEF CallDies, SaysRunning, MachineInv, MachineTypeOK

\* A tick goes on to a phase at which it holds no row, or one it just read.
LEMMA TickGoes ==
  ASSUME MachineInv, NEW t \in Tickers, NEW p \in TickPhases,
         \/ actor' = [actor EXCEPT ![t] = [AtRest EXCEPT !.pc = p]]
         \/ vm # None /\ actor' = [actor EXCEPT ![t] = [pc |-> p, same |-> TRUE, sure |-> FALSE]],
         p # "slept", p = "counted" => SaysRunning, ~Past(actor[t]),
         vm' \in MachineRow \cup {None}, vm # None => vm' # None, SaysRunning' => SaysRunning,
         UNCHANGED <<awake, usage, hours, tickDeaths>>
  PROVE  MachineInv'
<1> DEFINE rest == [AtRest EXCEPT !.pc = p]
           held == [pc |-> p, same |-> TRUE, sure |-> FALSE]
<1>0. /\ rest \in ActorRecord /\ rest.pc = p /\ rest.same = FALSE
      /\ held \in ActorRecord /\ held.pc = p /\ held.same = TRUE
  BY RestTypes
<1>1. PICK r : /\ actor' = [actor EXCEPT ![t] = r] /\ r.pc = p /\ r \in ActorRecord /\ (r.same => vm # None)
  <2>1. CASE actor' = [actor EXCEPT ![t] = rest]
    <3> HIDE DEF rest
    <3> QED
      BY <1>0, <2>1
  <2>2. CASE actor' = [actor EXCEPT ![t] = held] /\ vm # None
    <3> HIDE DEF held
    <3> QED
      BY <1>0, <2>2
  <2> QED
    BY <2>1, <2>2
<1>2. Sound(t, r)
  BY <1>1 DEF Sound, TickPhases
<1>3. awake' \in BOOLEAN
  BY DEF MachineInv, MachineTypeOK
<1>4. r.pc = "counted" => t \in Metering
  BY <1>1 DEF Metering
<1> QED
  BY <1>1, <1>2, <1>3, <1>4, TickMoves

\* TickBegins keeps every part of the invariant.
LEMMA TickBeginsStep ==
  ASSUME MachineInv, NEW t \in Tickers, TickBegins(t)
  PROVE  MachineInv'
<1>1. UNCHANGED <<vm, awake, usage, hours, tickDeaths>> /\ vm' \in MachineRow \cup {None} /\ ~Past(actor[t])
  BY DEF TickBegins, Past, MachineInv, MachineTypeOK
<1>2. SaysRunning' => SaysRunning
  BY <1>1 DEF SaysRunning
<1>3. CASE vm # None /\ vm.stale
  <2>1. actor' = [actor EXCEPT ![t] = [pc |-> "reap", same |-> TRUE, sure |-> FALSE]] /\ "reap" \in TickPhases
    BY <1>3 DEF TickBegins, TickPhases
  <2> QED
    BY <1>1, <1>2, <1>3, <2>1, TickGoes
<1>4. CASE ~(vm # None /\ vm.stale)
  <2>1. actor' = [actor EXCEPT ![t] = [AtRest EXCEPT !.pc = "reconcile"]] /\ "reconcile" \in TickPhases
    BY <1>4 DEF TickBegins, TickPhases
  <2> QED
    BY <1>1, <1>2, <2>1, TickGoes
<1> QED
  BY <1>3, <1>4

\* ReapStop keeps every part of the invariant.
LEMMA ReapStopStep ==
  ASSUME MachineInv, NEW t \in Tickers, ReapStop(t)
  PROVE  MachineInv'
<1>1. /\ MachineTypeOK /\ Edge(t, FALSE, "delete", "delete") /\ t \in Actors
      /\ "delete" \in CallPhases \cup TickPhases
  BY ActorsApart DEF ReapStop, MachineInv, TickPhases
<1>2. TookDown(t, "delete", "delete")
  BY <1>1, EdgeDown
<1>3. PICK r \in ActorRecord : /\ actor' = [actor EXCEPT ![t] = r] /\ r.same = actor[t].same
                               /\ r.pc = "delete" /\ awake' \in BOOLEAN
  BY <1>2 DEF TookDown
<1>4. UNCHANGED <<vm, usage, hours, tickDeaths>> /\ ~Past(actor[t])
  BY DEF ReapStop, Past
<1>5. Sound(t, r) /\ r.pc # "counted"
  BY <1>3 DEF Sound, TickPhases
<1>6. (r.same => vm' # None) /\ vm' \in MachineRow \cup {None}
  BY <1>1, <1>3, <1>4 DEF MachineTypeOK
<1>7. SaysRunning' => SaysRunning
  BY <1>4 DEF SaysRunning
<1> QED
  BY <1>3, <1>4, <1>5, <1>6, <1>7, TickMoves

\* Nobody holds a row that is gone.
LEMMA ReapRowStep ==
  ASSUME MachineInv, NEW t \in Tickers, ReapRow(t)
  PROVE  MachineInv'
<1>1. CASE ~actor[t].same
  <2>1. UNCHANGED <<vm, awake, usage, hours, tickDeaths>> /\ vm' \in MachineRow \cup {None} /\ ~Past(actor[t])
    BY <1>1 DEF ReapRow, Past, MachineInv, MachineTypeOK
  <2>2. \A b \in Actors : [actor[b] EXCEPT !.same = @ /\ ~actor[t].same] = actor[b]
    BY <1>1 DEF MachineInv, MachineTypeOK, ActorRecord
  <2>3. actor' = [actor EXCEPT ![t] = [AtRest EXCEPT !.pc = "reconcile"]] /\ "reconcile" \in TickPhases
    BY <2>2, ActorsApart DEF ReapRow, MachineInv, MachineTypeOK, TickPhases
  <2>4. SaysRunning' => SaysRunning
    BY <2>1 DEF SaysRunning
  <2> QED
    BY <2>1, <2>3, <2>4, TickGoes
<1>2. CASE actor[t].same
  <2> USE DEF MachineInv
  <2> DEFINE next == [AtRest EXCEPT !.pc = "reconcile"]
             gone(b) == [actor[b] EXCEPT !.same = FALSE]
  <2>1. next \in ActorRecord /\ next.pc = "reconcile" /\ next.same = FALSE
    BY RestTypes DEF TickPhases
  <2>2. \A b \in Actors : /\ gone(b) \in ActorRecord /\ gone(b).pc = actor[b].pc
                          /\ gone(b).sure = actor[b].sure /\ gone(b).same = FALSE
    BY RowGone DEF MachineTypeOK
  <2>3. \A b \in Actors : [actor[b] EXCEPT !.same = @ /\ ~actor[t].same] = gone(b)
    BY <1>2 DEF MachineTypeOK, ActorRecord
  <2>4. actor' = [b \in Actors |-> IF b = t THEN next ELSE gone(b)]
    BY <2>3 DEF ReapRow
  <2> HIDE DEF next, gone
  <2>5. t \in Actors /\ actor'[t] = next /\ \A b \in Actors \ {t} : actor'[b] = gone(b)
    BY <2>4, ActorsApart
  <2>6. vm' = None /\ UNCHANGED <<awake, usage, hours, tickDeaths>>
    BY <1>2 DEF ReapRow
  <2>7. actor' \in [Actors -> ActorRecord]
    BY <2>1, <2>2, <2>4
  <2>8. /\ \A u \in Tickers : actor'[u].pc \in TickPhases
        /\ \A c \in Calls : actor'[c].pc \in CallPhases
    BY <2>1, <2>2, <2>5, ActorsApart DEF MachineTypeOK, TickPhases
  <2>9. \A b \in Actors : ~actor'[b].same
    BY <2>1, <2>2, <2>5
  <2>10. MachineTypeOK'
    BY <2>6, <2>7, <2>8, <2>9 DEF MachineTypeOK
  <2>11. SureWhenSaid'
    BY <2>1, <2>2, <2>5 DEF SureWhenSaid
  <2>12. Cleared' \subseteq Cleared
    BY <2>2, <2>5, ActorsApart DEF Cleared
  <2>13. Metering' \subseteq Metering
    <3>1. ~SaysRunning'
      BY <2>6 DEF SaysRunning
    <3>2. \A u \in Tickers : actor'[u].pc = "counted" => actor[u].pc = "counted"
      BY <2>1, <2>2, <2>5, ActorsApart
    <3> QED
      BY <3>1, <3>2 DEF Metering
  <2>14. OverrunLeft'
    BY <2>6, <2>10, <2>12, <2>13, NobodyNew
  <2> QED
    BY <2>10, <2>11, <2>14
<1> QED
  BY <1>1, <1>2

\* ReadRunning keeps every part of the invariant.
LEMMA ReadRunningStep ==
  ASSUME MachineInv, NEW t \in Tickers, ReadRunning(t)
  PROVE  MachineInv'
<1>1. UNCHANGED <<vm, awake, usage, hours, tickDeaths>> /\ vm' \in MachineRow \cup {None} /\ ~Past(actor[t])
  BY DEF ReadRunning, Past, MachineInv, MachineTypeOK
<1>2. SaysRunning' => SaysRunning
  BY <1>1 DEF SaysRunning
<1>3. CASE ToReconcile
  <2>1. /\ actor' = [actor EXCEPT ![t] = [pc |-> "status", same |-> TRUE, sure |-> FALSE]]
        /\ "status" \in TickPhases /\ vm # None
    BY <1>3 DEF ReadRunning, TickPhases, ToReconcile, SaysRunning
  <2> QED
    BY <1>1, <1>2, <2>1, TickGoes
<1>4. CASE ~ToReconcile
  <2>1. actor' = [actor EXCEPT ![t] = [AtRest EXCEPT !.pc = "meter"]] /\ "meter" \in TickPhases
    BY <1>4 DEF ReadRunning, TickPhases
  <2> QED
    BY <1>1, <1>2, <2>1, TickGoes
<1> QED
  BY <1>3, <1>4

\* A tick goes on with the row it holds to the meter, which it had before it.
LEMMA OnToMeter ==
  ASSUME MachineInv, NEW t \in Tickers, Goes(t, "meter"), actor[t].pc = "status", UNCHANGED <<vm, awake, usage, hours, tickDeaths>>
  PROVE  MachineInv'
<1> DEFINE r == [actor[t] EXCEPT !.pc = "meter"]
<1>1. actor[t] \in ActorRecord /\ (actor[t].same => vm # None) /\ "meter" \in TickPhases
  BY ActorsApart DEF MachineInv, MachineTypeOK, TickPhases
<1>2. r \in ActorRecord /\ r.pc = "meter" /\ r.same = actor[t].same
  BY <1>1, PhaseSet
<1>3. actor' = [actor EXCEPT ![t] = r] /\ vm' \in MachineRow \cup {None} /\ awake' \in BOOLEAN
  BY DEF Goes, MachineInv, MachineTypeOK
<1> HIDE DEF r
<1>4. Sound(t, r) /\ ~Past(actor[t])
  BY <1>1, <1>2 DEF Sound, Past
<1>5. SaysRunning' => SaysRunning
  BY DEF SaysRunning
<1> QED
  BY <1>1, <1>2, <1>3, <1>4, <1>5, TickMoves

\* AskStatus keeps every part of the invariant.
LEMMA AskStatusStep ==
  ASSUME MachineInv, NEW t \in Tickers, AskStatus(t)
  PROVE  MachineInv'
<1>1. CASE Goes(t, "meter")
  BY <1>1, OnToMeter DEF AskStatus
<1>2. CASE actor' = [actor EXCEPT ![t].pc = "slept", ![t].sure = TRUE]
  <2> DEFINE r == [actor[t] EXCEPT !.pc = "slept", !.sure = TRUE]
  <2>1. actor[t] \in ActorRecord /\ (actor[t].same => vm # None) /\ "slept" \in TickPhases
    BY ActorsApart DEF MachineInv, MachineTypeOK, TickPhases
  <2>2. r \in ActorRecord /\ r.pc = "slept" /\ r.sure /\ r.same = actor[t].same
    BY <2>1, PhaseSure
  <2>3. actor' = [actor EXCEPT ![t] = r] /\ UNCHANGED <<vm, awake, usage, hours, tickDeaths>> /\ actor[t].pc = "status"
    BY <1>2 DEF AskStatus, MachineInv, MachineTypeOK
  <2> HIDE DEF r
  <2>4. Sound(t, r) /\ ~Past(actor[t])
    BY <2>1, <2>2, <2>3 DEF Sound, Past
  <2>5. vm' \in MachineRow \cup {None} /\ awake' \in BOOLEAN
    BY <2>3 DEF MachineInv, MachineTypeOK
  <2>6. SaysRunning' => SaysRunning
    BY <2>3 DEF SaysRunning
  <2> QED
    BY <2>1, <2>2, <2>3, <2>4, <2>5, <2>6, TickMoves
<1> QED
  BY <1>1, <1>2 DEF AskStatus

\* StatusFails keeps every part of the invariant.
LEMMA StatusFailsStep ==
  ASSUME MachineInv, NEW t \in Tickers, StatusFails(t)
  PROVE  MachineInv'
BY OnToMeter DEF StatusFails, ThenAwake

\* MarkSlept keeps every part of the invariant.
LEMMA MarkSleptStep ==
  ASSUME MachineInv, NEW t \in Tickers, MarkSlept(t)
  PROVE  MachineInv'
<1>1. /\ vm' = WithState(t, "asleep") /\ UNCHANGED <<awake, usage, hours, tickDeaths>> /\ "asleep" \in States
      /\ actor' = [actor EXCEPT ![t] = [AtRest EXCEPT !.pc = "meter"]] /\ "meter" \in TickPhases
      /\ ~Past(actor[t])
  BY DEF MarkSlept, States, TickPhases, Past
<1>2. vm' \in MachineRow \cup {None} /\ (vm # None => vm' # None) /\ (SaysRunning' => SaysRunning)
  BY <1>1, ActorsApart, StateWritten DEF MachineInv, SaysRunning
<1> QED
  BY <1>1, <1>2, TickGoes

\* CountAwake keeps every part of the invariant.
LEMMA CountAwakeStep ==
  ASSUME MachineInv, NEW t \in Tickers, CountAwake(t)
  PROVE  MachineInv'
<1>1. UNCHANGED <<vm, awake, usage, hours, tickDeaths>> /\ vm' \in MachineRow \cup {None} /\ ~Past(actor[t])
  BY DEF CountAwake, Past, MachineInv, MachineTypeOK
<1>2. SaysRunning' => SaysRunning
  BY <1>1 DEF SaysRunning
<1>3. CASE SaysRunning
  <2>1. actor' = [actor EXCEPT ![t] = [AtRest EXCEPT !.pc = "counted"]] /\ "counted" \in TickPhases
    BY <1>3 DEF CountAwake, TickPhases
  <2> QED
    BY <1>1, <1>2, <1>3, <2>1, TickGoes
<1>4. CASE ~SaysRunning
  <2>1. actor' = [actor EXCEPT ![t] = [AtRest EXCEPT !.pc = "quota"]] /\ "quota" \in TickPhases
    BY <1>4 DEF CountAwake, TickPhases
  <2> QED
    BY <1>1, <1>2, <2>1, TickGoes
<1> QED
  BY <1>3, <1>4

\* What the tick would have added is added, and until it has stopped the machine no more.
LEMMA MeterStep ==
  ASSUME MachineInv, NEW t \in Tickers, Meter(t)
  PROVE  MachineInv'
<1> DEFINE r == [AtRest EXCEPT !.pc = "quota"]
<1>1. r \in ActorRecord /\ r.pc = "quota" /\ r.same = FALSE
  BY RestTypes DEF TickPhases
<1>2. actor' = [actor EXCEPT ![t] = r] /\ UNCHANGED <<vm, awake, hours, tickDeaths>> /\ actor[t].pc = "counted"
  BY DEF Meter
<1> HIDE DEF r
<1>3. Sound(t, r) /\ t \in Actors
  BY <1>1, ActorsApart DEF Sound, TickPhases
<1>4. vm' \in MachineRow \cup {None} /\ awake' \in BOOLEAN /\ tickDeaths' \in 0..MaxTickDeaths
  BY <1>2 DEF MachineInv, MachineTypeOK
<1>5. usage' \in 0..MaxUsage /\ usage' <= usage + 1
  BY Counts, MachineAssumption DEF Meter, Metered, MachineInv, MachineTypeOK
<1>6. MachineTypeOK' /\ SureWhenSaid'
  BY <1>1, <1>2, <1>3, <1>4, <1>5, MoveKeeps
<1>7. \A b \in Actors : actor'[b] = IF b = t THEN r ELSE actor[b]
  BY <1>2 DEF MachineInv, MachineTypeOK
<1>8. t \in Metering /\ Metering' \subseteq Metering \ {t} /\ Cleared' = Cleared
  <2>1. t \in Metering
    BY <1>2 DEF Metering
  <2>2. t \notin Metering'
    <3>1. actor'[t].pc = "quota"
      BY <1>1, <1>3, <1>7
    <3>2. Past(actor'[t]) /\ actor'[t].pc # "counted"
      BY <3>1 DEF Past
    <3> QED
      BY <3>2 DEF Metering
  <2>3. \A u \in Tickers \ {t} : actor'[u] = actor[u]
    BY <1>7, ActorsApart
  <2>4. Metering' \subseteq Metering
    BY <1>2, <2>1, <2>3 DEF Metering, SaysRunning
  <2>5. Cleared' = Cleared
    BY <1>7, ActorsApart DEF Cleared
  <2> QED
    BY <2>1, <2>2, <2>4, <2>5
<1>9. OverrunLeft'
  <2> DEFINE n == Cardinality(Tickers)
             k == Cardinality(Cleared)
             c == Cardinality(Calls)
             m == Cardinality(Metering)
             mm == Cardinality(Metering')
  <2>1. n \in Nat /\ k \in Nat /\ c \in Nat /\ k <= c /\ m \in Nat /\ m <= n
    BY Counts DEF MachineInv
  <2>2. mm \in Nat /\ mm + 1 <= m
    <3>1. IsFiniteSet(Metering \ {t}) /\ Cardinality(Metering \ {t}) = m - 1
      BY <1>8, Counts, FS_RemoveElement DEF MachineInv
    <3>2. IsFiniteSet(Metering') /\ mm <= m - 1
      BY <1>8, <3>1, FS_Subset
    <3> QED
      BY <2>1, <3>2, FS_CardinalityType
  <2>3. OverrunLeft <=> (hours # None /\ usage >= hours => usage + n * k + m <= hours + n * (c + 1) - 1 + tickDeaths)
    BY DEF OverrunLeft
  <2>4. OverrunLeft' <=> (hours # None /\ usage' >= hours => usage' + n * k + mm <= hours + n * (c + 1) - 1 + tickDeaths)
    BY <1>2, <1>8 DEF OverrunLeft
  <2>5. OverrunLeft /\ usage \in Nat /\ tickDeaths \in Nat /\ usage' \in Nat /\ (hours # None => hours \in Nat)
    BY <1>5, Counts, MachineAssumption DEF MachineInv
  <2> HIDE DEF n, k, c, m, mm
  <2>6. n * k \in Nat /\ n * c \in Nat /\ n * k <= n * c /\ n * (c + 1) = n * c + n
    BY <2>1, TicksTimes
  <2>7. ASSUME hours # None, usage' >= hours
        PROVE  usage' + n * k + mm <= hours + n * (c + 1) - 1 + tickDeaths
    <3>1. CASE usage >= hours
      BY <1>5, <2>1, <2>2, <2>3, <2>5, <2>6, <2>7, <3>1
    <3>2. CASE usage < hours
      BY <1>5, <2>1, <2>2, <2>5, <2>6, <2>7, <3>2
    <3> QED
      BY <2>5, <2>7, <3>1, <3>2
  <2> QED
    BY <2>4, <2>7
<1> QED
  BY <1>6, <1>9 DEF MachineInv

\* A space that is spared the stop is below its cap, or has nothing that runs.
LEMMA JudgeSpaceStep ==
  ASSUME MachineInv, NEW t \in Tickers, JudgeSpace(t)
  PROVE  MachineInv'
<1>1. UNCHANGED <<vm, awake, usage, hours, tickDeaths>> /\ vm' \in MachineRow \cup {None} /\ actor[t].pc = "quota"
  BY DEF JudgeSpace, MachineInv, MachineTypeOK
<1>2. awake' \in BOOLEAN /\ usage' \in 0..MaxUsage /\ tickDeaths' \in 0..MaxTickDeaths
  BY <1>1 DEF MachineInv, MachineTypeOK
<1>3. CASE SaysRunning /\ ~Allowed
  <2> DEFINE r == [pc |-> "stop", same |-> TRUE, sure |-> FALSE]
  <2>1. actor' = [actor EXCEPT ![t] = r] /\ vm # None
    BY <1>3 DEF JudgeSpace, SaysRunning
  <2>2. r \in ActorRecord /\ r.pc = "stop" /\ r.same
    BY DEF ActorRecord, TickPhases
  <2> HIDE DEF r
  <2>3. Sound(t, r) /\ Past(r)
    BY <2>2 DEF Sound, TickPhases, Past
  <2>4. SaysRunning' => SaysRunning
    BY <1>1 DEF SaysRunning
  <2> QED
    BY <1>1, <1>2, <2>1, <2>2, <2>3, <2>4, TickMoves
<1>4. CASE ~(SaysRunning /\ ~Allowed)
  <2>1. actor' = [actor EXCEPT ![t] = AtRest]
    BY <1>4 DEF JudgeSpace
  <2>2. AtRest \in ActorRecord /\ AtRest.pc = "idle" /\ AtRest.same = FALSE
    BY RestTypes
  <2>3. Sound(t, AtRest) /\ t \in Actors
    BY <2>2, ActorsApart DEF Sound, TickPhases
  <2>4. CASE ~SaysRunning
    <3>1. ~SaysRunning'
      BY <1>1, <2>4 DEF SaysRunning
    <3> QED
      BY <1>1, <1>2, <2>1, <2>2, <2>3, <3>1, TickMoves
  <2>5. CASE Allowed
    <3>1. MachineTypeOK' /\ SureWhenSaid'
      BY <1>1, <1>2, <2>1, <2>2, <2>3, MoveKeeps
    <3>2. OverrunLeft'
      BY <1>1, <2>5, Counts DEF Allowed, OverrunLeft, MachineInv
    <3> QED
      BY <3>1, <3>2 DEF MachineInv
  <2> QED
    BY <1>4, <2>4, <2>5
<1> QED
  BY <1>3, <1>4

\* QuotaStop keeps every part of the invariant.
LEMMA QuotaStopStep ==
  ASSUME MachineInv, NEW t \in Tickers, QuotaStop(t)
  PROVE  MachineInv'
<1>1. /\ MachineTypeOK /\ Edge(t, FALSE, "stopped", "stopped") /\ t \in Actors
      /\ "stopped" \in CallPhases \cup TickPhases
  BY ActorsApart DEF QuotaStop, MachineInv, TickPhases, AfterFailedStop
<1>2. TookDown(t, "stopped", "stopped")
  BY <1>1, EdgeDown
<1>3. PICK r \in ActorRecord : /\ actor' = [actor EXCEPT ![t] = r] /\ r.same = actor[t].same
                               /\ r.pc = "stopped" /\ awake' \in BOOLEAN
  BY <1>2 DEF TookDown
<1>4. UNCHANGED <<vm, usage, hours, tickDeaths>> /\ actor[t].pc = "stop"
  BY DEF QuotaStop
<1>5. Sound(t, r) /\ (Past(r) <=> Past(actor[t])) /\ r.pc # "counted"
  BY <1>3, <1>4 DEF Sound, TickPhases, Past
<1>6. (r.same => vm' # None) /\ vm' \in MachineRow \cup {None}
  BY <1>1, <1>3, <1>4 DEF MachineTypeOK
<1>7. SaysRunning' => SaysRunning
  BY <1>4 DEF SaysRunning
<1> QED
  BY <1>3, <1>4, <1>5, <1>6, <1>7, TickMoves

\* The row the tick holds no longer says that the machine runs.
LEMMA MarkStoppedStep ==
  ASSUME MachineInv, NEW t \in Tickers, MarkStopped(t)
  PROVE  MachineInv'
<1>1. /\ vm' = WithState(t, "asleep") /\ UNCHANGED <<awake, usage, hours, tickDeaths>> /\ "asleep" \in States
      /\ actor' = [actor EXCEPT ![t] = AtRest] /\ t \in Actors /\ actor[t].pc = "stopped"
  BY ActorsApart DEF MarkStopped, Rests, States
<1>2. vm' \in MachineRow \cup {None} /\ (vm # None => vm' # None) /\ (SaysRunning' => SaysRunning)
  BY <1>1, StateWritten DEF MachineInv, SaysRunning
<1>3. actor[t].same => ~SaysRunning'
  BY <1>1, StateWritten DEF MachineInv, SaysRunning
<1>4. SaysRunning' => ~Past(actor[t])
  BY <1>1, <1>3 DEF Past
<1>5. Sound(t, AtRest) /\ awake' \in BOOLEAN /\ AtRest.pc = "idle" /\ AtRest.same = FALSE
  BY <1>1, RestTypes DEF Sound, TickPhases, MachineInv, MachineTypeOK
<1> QED
  BY <1>1, <1>2, <1>4, <1>5, TickMoves

\* A tick that dies may be followed by one that meters anew: the death is counted.
LEMMA TickDiesStep ==
  ASSUME MachineInv, NEW t \in Tickers, TickDies(t)
  PROVE  MachineInv'
<1>1. /\ actor' = [actor EXCEPT ![t] = AtRest] /\ UNCHANGED <<vm, awake, usage, hours>> /\ tickDeaths' = tickDeaths + 1
      /\ t \in Actors /\ tickDeaths \in Nat /\ tickDeaths' \in 0..MaxTickDeaths
  BY ActorsApart, MachineAssumption DEF TickDies, Rests, MachineInv, MachineTypeOK
<1>2. Sound(t, AtRest) /\ AtRest.same = FALSE
  BY RestTypes DEF Sound, TickPhases
<1>3. vm' \in MachineRow \cup {None} /\ awake' \in BOOLEAN /\ usage' \in 0..MaxUsage
  BY <1>1 DEF MachineInv, MachineTypeOK
<1>4. MachineTypeOK' /\ SureWhenSaid'
  BY <1>1, <1>2, <1>3, MoveKeeps
<1>5. \A b \in Actors \ {t} : actor'[b] = actor[b]
  BY <1>1 DEF MachineInv, MachineTypeOK
<1>6. Cleared' \subseteq Cleared /\ Metering' \subseteq Metering \cup {t}
  BY <1>1, <1>5, ActorsApart DEF Cleared, Metering, SaysRunning
<1>7. Cardinality(Metering') + tickDeaths <= Cardinality(Metering) + tickDeaths'
  <2>1. IsFiniteSet(Metering) /\ Cardinality(Metering) \in Nat
    BY Counts DEF MachineInv
  <2>2. /\ IsFiniteSet(Metering \cup {t}) /\ Cardinality(Metering \cup {t}) \in Nat
        /\ Cardinality(Metering \cup {t}) <= Cardinality(Metering) + 1
    <3>1. CASE t \in Metering
      <4>1. Metering \cup {t} = Metering
        BY <3>1
      <4> QED
        BY <2>1, <4>1
    <3>2. CASE t \notin Metering
      <4>1. IsFiniteSet(Metering \cup {t}) /\ Cardinality(Metering \cup {t}) = Cardinality(Metering) + 1
        BY <2>1, <3>2, FS_AddElement
      <4> QED
        BY <2>1, <4>1
    <3> QED
      BY <3>1, <3>2
  <2>3. IsFiniteSet(Metering') /\ Cardinality(Metering') <= Cardinality(Metering \cup {t})
    BY <1>6, <2>2, FS_Subset
  <2> QED
    BY <1>1, <2>1, <2>2, <2>3, FS_CardinalityType
<1>8. OverrunLeft'
  BY <1>1, <1>4, <1>6, <1>7, NothingNew DEF MachineInv
<1> QED
  BY <1>4, <1>8 DEF MachineInv

\* A row is written, or the container goes down, and no actor moves.
LEMMA NobodyMoves ==
  ASSUME MachineInv, UNCHANGED <<actor, usage, hours, tickDeaths>>, vm' \in MachineRow \cup {None}, vm # None => vm' # None,
         awake' \in BOOLEAN, SaysRunning' => SaysRunning
  PROVE  MachineInv'
<1>1. MachineTypeOK' /\ SureWhenSaid'
  BY DEF MachineInv, MachineTypeOK, SureWhenSaid
<1>2. Cleared' \subseteq Cleared /\ Metering' \subseteq Metering
  BY DEF Cleared, Metering
<1> QED
  BY <1>1, <1>2, NobodyNew DEF MachineInv

\* ContainerSleeps keeps every part of the invariant.
LEMMA ContainerSleepsStep ==
  ASSUME MachineInv, ContainerSleeps
  PROVE  MachineInv'
<1>1. UNCHANGED <<vm, actor, usage, hours, tickDeaths>> /\ awake' = FALSE /\ vm' \in MachineRow \cup {None}
  BY DEF ContainerSleeps, MachineInv, MachineTypeOK
<1>2. SaysRunning' => SaysRunning
  BY <1>1 DEF SaysRunning
<1>3. awake' \in BOOLEAN
  BY <1>1
<1> QED
  BY <1>1, <1>2, <1>3, NobodyMoves

\* LeaseRunsOut keeps every part of the invariant.
LEMMA LeaseRunsOutStep ==
  ASSUME MachineInv, LeaseRunsOut
  PROVE  MachineInv'
<1>1. UNCHANGED <<awake, actor, usage, hours, tickDeaths>> /\ vm \in MachineRow /\ vm' = [vm EXCEPT !.stale = TRUE] /\ vm # None
  BY DEF LeaseRunsOut, MachineInv, MachineTypeOK
<1>2. vm' \in MachineRow /\ vm'.state = vm.state
  BY <1>1 DEF MachineRow
<1>3. vm' # None /\ (SaysRunning' => SaysRunning)
  BY <1>1, <1>2, MachineRowAssumption DEF SaysRunning
<1>4. awake' \in BOOLEAN
  BY <1>1 DEF MachineInv, MachineTypeOK
<1> QED
  BY <1>1, <1>2, <1>3, <1>4, NobodyMoves

-----------------------------------------------------------------------------
(* The machine: theorems *)

\* Nothing is metered and nobody is cleared at the start.
LEMMA MachineStart ==
  ASSUME MachineInit
  PROVE  MachineInv
<1>1. actor = [a \in Actors |-> AtRest] /\ vm = None /\ awake = FALSE /\ usage = 0 /\ hours \in Allowances /\ tickDeaths = 0
  BY DEF MachineInit
<1> HIDE DEF AtRest
<1>2. \A a \in Actors : actor[a] = AtRest
  BY <1>1
<1>3. MachineTypeOK
  <2>1. vm \in MachineRow \cup {None} /\ awake \in BOOLEAN /\ usage \in 0..MaxUsage /\ tickDeaths \in 0..MaxTickDeaths
    <3>1. usage \in 0..MaxUsage /\ tickDeaths \in 0..MaxTickDeaths /\ vm \in MachineRow \cup {None}
      BY <1>1, MachineAssumption
    <3>2. awake \in BOOLEAN
      BY <1>1
    <3> QED
      BY <3>1, <3>2
  <2>2. actor \in [Actors -> ActorRecord]
    BY <1>1, RestTypes
  <2>3. \A a \in Actors : ~actor[a].same
    BY <1>2, RestTypes
  <2>4. (\A c \in Calls : actor[c].pc \in CallPhases) /\ (\A t \in Tickers : actor[t].pc \in TickPhases)
    BY <1>2, RestTypes, ActorsApart DEF CallPhases, TickPhases
  <2> QED
    BY <1>1, <2>1, <2>2, <2>3, <2>4 DEF MachineTypeOK
<1>4. SureWhenSaid
  BY <1>2, RestTypes DEF SureWhenSaid
<1>5. OverrunLeft
  <2> DEFINE n == Cardinality(Tickers)
             k == Cardinality(Calls) + 1
  <2>1. Cleared = {} /\ Metering = {}
    BY <1>1, <1>2, RestTypes, ActorsApart DEF Cleared, ClearedPhases, Metering, SaysRunning
  <2>2. Cardinality(Cleared) = 0 /\ Cardinality(Metering) = 0
    BY <2>1, FS_EmptySet
  <2>3. n \in Nat \ {0} /\ k \in Nat \ {0}
    BY <1>3, Counts
  <2>4. hours # None => hours \in Nat
    BY <1>3, Counts
  <2> HIDE DEF n, k
  <2>5. n * 0 = 0 /\ n * k \in Nat /\ n * k >= 1
    BY <2>3
  <2>6. hours # None => usage + n * 0 + 0 <= hours + n * k - 1 + tickDeaths
    BY <1>1, <2>4, <2>5
  <2> QED
    BY <2>2, <2>6 DEF OverrunLeft, n, k
<1> QED
  BY <1>3, <1>4, <1>5 DEF MachineInv

\* Every step of the machine keeps the invariant.
LEMMA MachineStep ==
  ASSUME MachineInv, [MachineNext]_machineVars
  PROVE  MachineInv'
<1>1. ASSUME NEW c \in Calls, CallStep(c) \/ CallDies(c)
      PROVE  MachineInv'
  BY <1>1, CheckQuotaStep, NoPolicyStep, UpsertVmStep, EdgeLeaseStep, MarkRunningStep, MarkUnavailableStep,
     ExecStep, ExecEndsStep, FindRunningStep, AskBeforeStopStep, StopAfterRunStep, MarkAsleepStep, CallDiesStep
     DEF CallStep
<1>2. ASSUME NEW t \in Tickers, TickStep(t) \/ TickDies(t)
      PROVE  MachineInv'
  BY <1>2, TickBeginsStep, ReapStopStep, ReapRowStep, ReadRunningStep, AskStatusStep, StatusFailsStep,
     MarkSleptStep, CountAwakeStep, MeterStep, JudgeSpaceStep, QuotaStopStep, MarkStoppedStep, TickDiesStep
     DEF TickStep
<1>3. CASE UNCHANGED machineVars
  <2>1. UNCHANGED <<actor, usage, hours, tickDeaths>> /\ vm' \in MachineRow \cup {None} /\ awake' \in BOOLEAN /\ vm' = vm
    BY <1>3 DEF machineVars, MachineInv, MachineTypeOK
  <2>2. SaysRunning' => SaysRunning
    BY <2>1 DEF SaysRunning
  <2> QED
    BY <2>1, <2>2, NobodyMoves
<1> QED
  BY <1>1, <1>2, <1>3, ContainerSleepsStep, LeaseRunsOutStep DEF MachineNext

\* The invariant of the machine, its row and its meter.
THEOREM MachineInvariant == MachineSpec => []MachineInv
<1> QED
  BY MachineStart, MachineStep, PTL DEF MachineSpec

\* "Soft by one tick" (quota.ts), where ticks overlap and die: past its cap a space is
\* metered once by each tick under way, once more by each of them for every call that was
\* cleared before, and once for every tick that died before its stop.
THEOREM OverrunIsSoft == MachineSpec => []OverrunBounded
<1>1. ASSUME MachineInv
      PROVE  OverrunBounded
  <2> DEFINE n == Cardinality(Tickers)
             k == Cardinality(Cleared)
             c == Cardinality(Calls) + 1
             m == Cardinality(Metering)
  <2>1. n \in Nat \ {0} /\ k \in Nat /\ c \in Nat \ {0} /\ m \in Nat
    BY <1>1, Counts DEF MachineInv
  <2>2. usage \in Nat /\ tickDeaths \in Nat /\ (hours # None => hours \in Nat)
    BY <1>1, Counts DEF MachineInv
  <2>3. hours # None /\ usage >= hours => usage + n * k + m <= hours + n * c - 1 + tickDeaths
    BY <1>1 DEF MachineInv, OverrunLeft
  <2> HIDE DEF n, k, c, m
  <2>4. n * k \in Nat /\ n * c \in Nat /\ n * c >= 1
    BY <2>1
  <2>5. hours # None => usage <= hours + n * c - 1 + tickDeaths
    BY <2>1, <2>2, <2>3, <2>4
  <2> QED
    BY <2>5 DEF OverrunBounded, n, c
<1> QED
  BY <1>1, MachineInvariant, PTL

\* The steps of a call that leave a row that says "running" saying so.
LEMMA CallLeavesRunning ==
  ASSUME MachineInv, SaysRunning, NEW c \in Calls,
         \/ CheckQuota(c) \/ NoPolicy(c) \/ UpsertVm(c) \/ EdgeLease(c) \/ MarkRunning(c) \/ Exec(c)
         \/ ExecEnds(c) \/ FindRunning(c) \/ AskBeforeStop(c) \/ StopAfterRun(c) \/ CallDies(c)
  PROVE  SaysRunning'
<1>1. vm \in MachineRow /\ vm # None /\ vm.state = "running"
  BY DEF SaysRunning, MachineInv, MachineTypeOK
<1>2. CASE UpsertVm(c)
  <2>1. vm' = [vm EXCEPT !.stale = FALSE]
    BY <1>1, <1>2 DEF UpsertVm
  <2>2. vm' \in MachineRow /\ vm'.state = "running"
    BY <1>1, <2>1 DEF MachineRow
  <2> QED
    BY <2>2, MachineRowAssumption DEF SaysRunning
<1>3. CASE MarkRunning(c)
  <2>1. vm' = WithState(c, "running") /\ "running" \in States /\ c \in Actors
    BY <1>3, ActorsApart DEF MarkRunning, States
  <2> QED
    BY <1>1, <2>1, StateWritten DEF SaysRunning, MachineInv
<1>4. CASE UNCHANGED vm
  BY <1>1, <1>4 DEF SaysRunning
<1> QED
  BY <1>2, <1>3, <1>4 DEF CheckQuota, NoPolicy, EdgeLease, Exec, ExecEnds, FindRunning, AskBeforeStop, StopAfterRun, CallDies

\* The steps by which a row stops saying so, and on what ground.
LEMMA UnmeteredBy ==
  ASSUME MachineInv, [MachineNext]_machineVars, SaysRunning, ~SaysRunning'
  PROVE  \/ \E a \in Actors : actor[a].sure /\ ~actor'[a].sure
         \/ \E t \in Tickers : actor[t].pc \in {"stopped", "delete"} /\ actor'[t].pc # actor[t].pc
         \/ \E c \in Calls : actor[c].pc = "failed" /\ actor'[c].pc = "idle"
<1> DEFINE Goal == \/ \E a \in Actors : actor[a].sure /\ ~actor'[a].sure
                   \/ \E t \in Tickers : actor[t].pc \in {"stopped", "delete"} /\ actor'[t].pc # actor[t].pc
                   \/ \E c \in Calls : actor[c].pc = "failed" /\ actor'[c].pc = "idle"
<1>1. ASSUME NEW a \in Actors, Rests(a)
      PROVE  actor'[a].pc = "idle" /\ ~actor'[a].sure
  <2>1. actor'[a] = AtRest
    BY <1>1 DEF Rests, MachineInv, MachineTypeOK
  <2> QED
    BY <2>1, RestTypes
<1>2. ASSUME NEW c \in Calls, MarkAsleep(c)
      PROVE  Goal
  <2>1. actor[c].sure /\ c \in Actors /\ Rests(c)
    BY <1>2, ActorsApart DEF MarkAsleep, MachineInv, SureWhenSaid
  <2> QED
    BY <1>1, <2>1
<1>3. ASSUME NEW c \in Calls, MarkUnavailable(c)
      PROVE  Goal
  <2>1. actor[c].pc = "failed" /\ c \in Actors /\ Rests(c)
    BY <1>3, ActorsApart DEF MarkUnavailable
  <2> QED
    BY <1>1, <2>1
<1>4. ASSUME NEW t \in Tickers, MarkSlept(t)
      PROVE  Goal
  <2> DEFINE next == [AtRest EXCEPT !.pc = "meter"]
  <2>1. actor[t].sure /\ t \in Actors /\ actor'[t] = next
    BY <1>4, ActorsApart DEF MarkSlept, MachineInv, SureWhenSaid, MachineTypeOK
  <2>2. ~next.sure
    BY DEF AtRest
  <2> HIDE DEF next
  <2> QED
    BY <2>1, <2>2
<1>5. ASSUME NEW t \in Tickers, MarkStopped(t)
      PROVE  Goal
  <2>1. actor[t].pc = "stopped" /\ t \in Actors /\ Rests(t)
    BY <1>5, ActorsApart DEF MarkStopped
  <2> QED
    BY <1>1, <2>1
<1>6. ASSUME NEW t \in Tickers, ReapRow(t)
      PROVE  Goal
  <2> DEFINE next == [AtRest EXCEPT !.pc = "reconcile"]
  <2>1. actor[t].pc = "delete" /\ actor'[t] = next
    BY <1>6, ActorsApart DEF ReapRow
  <2>2. next.pc = "reconcile"
    BY DEF AtRest
  <2> HIDE DEF next
  <2> QED
    BY <2>1, <2>2
<1>7. ASSUME LeaseRunsOut
      PROVE  FALSE
  <2>1. vm \in MachineRow /\ vm' = [vm EXCEPT !.stale = TRUE] /\ vm.state = "running"
    BY <1>7 DEF LeaseRunsOut, SaysRunning, MachineInv, MachineTypeOK
  <2>2. vm' \in MachineRow /\ vm'.state = "running"
    BY <2>1 DEF MachineRow
  <2> QED
    BY <2>2, MachineRowAssumption DEF SaysRunning
<1>8. UNCHANGED vm => FALSE
  BY DEF SaysRunning
<1>9. ASSUME \/ \E t \in Tickers : \/ TickBegins(t) \/ ReapStop(t) \/ ReadRunning(t) \/ AskStatus(t)
                                    \/ StatusFails(t) \/ CountAwake(t) \/ Meter(t) \/ JudgeSpace(t)
                                    \/ QuotaStop(t) \/ TickDies(t)
             \/ ContainerSleeps \/ UNCHANGED machineVars
      PROVE  FALSE
  BY <1>8, <1>9 DEF TickBegins, ReapStop, ReadRunning, AskStatus, StatusFails, CountAwake, Meter, JudgeSpace,
                    QuotaStop, TickDies, ContainerSleeps, machineVars
<1> HIDE DEF Goal
<1>10. Goal
  BY <1>2, <1>3, <1>4, <1>5, <1>6, <1>7, <1>9, CallLeavesRunning DEF MachineNext, CallStep, TickStep
<1> QED
  BY <1>10 DEF Goal

\* "An edge outage must not silently zero a space's usage" (reconcileSleptMachines): an
\* awake machine ceases to be metered only by who has had it down and was overtaken,
\* by a quota stop or a reap whose stop failed, or by a lease that failed.
THEOREM OutageKeepsMetering == MachineSpec => OnlyOvertakenVerdictsUnmeter
<1> DEFINE A == awake /\ awake' /\ SaysRunning /\ ~SaysRunning' =>
                  \/ \E a \in Actors : actor[a].sure /\ ~actor'[a].sure
                  \/ \E t \in Tickers : actor[t].pc \in {"stopped", "delete"} /\ actor'[t].pc # actor[t].pc
                  \/ \E c \in Calls : actor[c].pc = "failed" /\ actor'[c].pc = "idle"
<1>1. ASSUME MachineInv, [MachineNext]_machineVars
      PROVE  [A]_machineVars
  BY <1>1, UnmeteredBy
<1> QED
  BY <1>1, MachineInvariant, PTL DEF MachineSpec, OnlyOvertakenVerdictsUnmeter

-----------------------------------------------------------------------------
(* The chat: the inductive invariant *)

\* Requests that have nothing to spend any more, or not yet.
Quiet == {u \in Messages : turn[u].pc = "idle"}

\* A turn asks the model only below the cap, by what it read and has used itself.
EachWithin ==
    MonthlyCap # None =>
        \A u \in Messages \ Quiet : turn[u].saw <= Reach /\ turn[u].saw + turn[u].used <= Reach

\* What is spent is the budget of each request that is quiet; or that, and what one of
\* the others has read: it will add no more than the rest of its own budget.
SpendShared ==
    MonthlyCap # None =>
        \/ spent <= Reach * Cardinality(Quiet)
        \/ \E u \in Messages \ Quiet : spent <= Reach * Cardinality(Quiet) + turn[u].saw

ChatInv == ChatTypeOK /\ EachWithin /\ SpendShared

-----------------------------------------------------------------------------
(* The chat: lemmas about its steps *)

\* One budget more of what is allowed covers one request more.
LEMMA OneCapMore ==
  ASSUME NEW m \in Nat, NEW n \in Nat
  PROVE  m * (n + 1) = m * n + m /\ m * n \in Nat
OBVIOUS

\* More requests, more that they may spend.
LEMMA CapsGrow ==
  ASSUME NEW m \in Nat, NEW n \in Nat, NEW k \in Nat, n <= k
  PROVE  m * n <= m * k
OBVIOUS

\* There are finitely many requests, and so finitely many quiet ones.
LEMMA QuietCounts ==
  /\ Cardinality(Messages) \in Nat /\ IsFiniteSet(Quiet) /\ Cardinality(Quiet) \in Nat
  /\ Cardinality(Quiet) <= Cardinality(Messages)
  /\ MonthlyCap # None => MonthlyCap \in Nat /\ Reach \in Nat
<1>1. IsFiniteSet(Messages) /\ Quiet \in SUBSET Messages
  BY ChatAssumption DEF Quiet
<1>2. IsFiniteSet(Quiet) /\ Cardinality(Quiet) <= Cardinality(Messages)
  BY <1>1, FS_Subset
<1> QED
  BY <1>1, <1>2, FS_CardinalityType, ChatAssumption DEF Reach

\* A request at rest has a well-typed record.
LEMMA NoTurnType ==
  /\ NoTurn \in TurnRecord /\ NoTurn.pc = "idle" /\ NoTurn.saw = 0 /\ NoTurn.used = 0
BY DEF NoTurn, TurnRecord

\* The budget where every turn keeps what it has read, and its place.
LEMMA SpendKept ==
  ASSUME ChatInv, UNCHANGED spent,
         \A u \in Messages : /\ turn'[u].pc = "idle" <=> turn[u].pc = "idle"
                             /\ turn'[u].saw = turn[u].saw
                             /\ \/ turn'[u].used = turn[u].used
                                \/ MonthlyCap # None => turn'[u].saw + turn'[u].used <= Reach
  PROVE  EachWithin' /\ SpendShared'
<1>1. Quiet' = Quiet
  BY DEF Quiet
<1>2. EachWithin'
  BY <1>1 DEF EachWithin, ChatInv
<1>3. SpendShared'
  BY <1>1 DEF SpendShared, ChatInv
<1> QED
  BY <1>2, <1>3

\* A request that ends joins the quiet ones, with what it spent or without.
LEMMA SpendEnds ==
  ASSUME ChatInv, NEW u \in Messages, turn[u].pc # "idle", Ends(u), spent' \in {spent, spent + turn[u].used}
  PROVE  EachWithin' /\ SpendShared'
<1>1. \A w \in Messages : turn'[w] = IF w = u THEN NoTurn ELSE turn[w]
  BY DEF Ends, ChatInv, ChatTypeOK
<1>2. Quiet' = Quiet \cup {u} /\ u \notin Quiet
  BY <1>1, NoTurnType DEF Quiet
<1>3. EachWithin'
  BY <1>1, <1>2 DEF EachWithin, ChatInv
<1>4. ASSUME MonthlyCap # None
      PROVE  \/ spent' <= Reach * Cardinality(Quiet')
             \/ \E w \in Messages \ Quiet' : spent' <= Reach * Cardinality(Quiet') + turn'[w].saw
  <2> DEFINE q == Cardinality(Quiet)
             b == Reach * q
  <2>1. q \in Nat /\ Reach \in Nat /\ Cardinality(Quiet') = q + 1
    BY <1>2, <1>4, QuietCounts, FS_AddElement
  <2>2. b \in Nat /\ Reach * Cardinality(Quiet') = b + Reach
    BY <2>1, OneCapMore
  <2>3. spent \in Nat /\ \A w \in Messages : turn[w].saw \in Nat /\ turn[w].used \in Nat
    BY ChatAssumption DEF ChatInv, ChatTypeOK, TurnRecord
  <2>4. turn[u].saw + turn[u].used <= Reach
    BY <1>2, <1>4 DEF EachWithin, ChatInv
  <2>5. spent <= b \/ \E w \in Messages \ Quiet : spent <= b + turn[w].saw
    BY <1>4 DEF SpendShared, ChatInv
  <2> HIDE DEF q, b
  <2>6. spent' <= spent + turn[u].used
    BY <2>3
  <2>7. spent' \in Nat
    BY <2>3
  <2>8. CASE spent <= b \/ spent <= b + turn[u].saw
    <3>1. spent' <= b + Reach
      BY <2>1, <2>2, <2>3, <2>4, <2>6, <2>7, <2>8
    <3> QED
      BY <2>2, <3>1
  <2>9. ASSUME NEW w \in Messages \ Quiet, w # u, spent <= b + turn[w].saw
        PROVE  w \in Messages \ Quiet' /\ spent' <= (b + Reach) + turn'[w].saw
    <3>1. w \in Messages \ Quiet' /\ turn'[w] = turn[w]
      BY <1>1, <1>2, <2>9
    <3>2. turn[w].saw \in Nat
      BY <2>3
    <3>3. spent' <= (b + Reach) + turn[w].saw
      BY <2>1, <2>2, <2>3, <2>4, <2>6, <2>7, <2>9, <3>2
    <3> QED
      BY <3>1, <3>3
  <2> QED
    BY <2>2, <2>5, <2>8, <2>9
<1>5. SpendShared'
  BY <1>4 DEF SpendShared
<1> QED
  BY <1>3, <1>5

\* What a request reads and writes is well typed.
LEMMA TurnTypes ==
  ASSUME ChatTypeOK, NEW u \in Messages, NEW r \in TurnRecord, r.pc # "idle" \/ r = NoTurn,
         turn' = [turn EXCEPT ![u] = r], UNCHANGED thread, spent' \in 0..MaxSpent
  PROVE  ChatTypeOK'
<1>1. \A w \in Messages : turn'[w] = IF w = u THEN r ELSE turn[w]
  BY DEF ChatTypeOK
<1>2. turn' \in [Messages -> TurnRecord] /\ \A w \in Messages : turn'[w].pc = "idle" => turn'[w] = NoTurn
  BY <1>1 DEF ChatTypeOK
<1> QED
  BY <1>2 DEF ChatTypeOK

-----------------------------------------------------------------------------
(* The chat: one lemma for each action *)

\* A turn that is under way goes on: its record is r.
LEMMA TurnGoesOn ==
  ASSUME ChatInv, NEW u \in Messages, NEW r \in TurnRecord, turn[u].pc # "idle", r.pc # "idle",
         turn' = [turn EXCEPT ![u] = r], r.saw = turn[u].saw, UNCHANGED spent,
         r.used = turn[u].used \/ (MonthlyCap # None => r.saw + r.used <= Reach)
  PROVE  EachWithin' /\ SpendShared'
<1>1. \A w \in Messages : turn'[w] = IF w = u THEN r ELSE turn[w]
  BY DEF ChatInv, ChatTypeOK
<1>2. \A w \in Messages : /\ turn'[w].pc = "idle" <=> turn[w].pc = "idle"
                          /\ turn'[w].saw = turn[w].saw
                          /\ \/ turn'[w].used = turn[w].used
                             \/ MonthlyCap # None => turn'[w].saw + turn'[w].used <= Reach
  BY <1>1
<1> QED
  BY <1>2, SpendKept

\* A turn that ends adds to the month what it has used, or nothing.
LEMMA EndsStep ==
  ASSUME ChatInv, NEW u \in Messages, turn[u].pc # "idle", Ends(u), UNCHANGED thread,
         spent' \in {spent, spent + turn[u].used}, spent' \in 0..MaxSpent
  PROVE  ChatInv'
<1>1. EachWithin' /\ SpendShared'
  BY SpendEnds
<1>2. ChatTypeOK'
  BY NoTurnType, TurnTypes DEF Ends, ChatInv
<1> QED
  BY <1>1, <1>2 DEF ChatInv

\* Who reads the ledger below the cap takes its own budget out, and counts what it read.
LEMMA SendMessageStep ==
  ASSUME ChatInv, NEW u \in Messages, SendMessage(u)
  PROVE  ChatInv'
<1>1. PICK h \in Threads : turn' = [turn EXCEPT ![u] = [NoTurn EXCEPT !.pc = "asked", !.on = h, !.saw = spent]]
  BY DEF SendMessage
<1> DEFINE r == [NoTurn EXCEPT !.pc = "asked", !.on = h, !.saw = spent]
<1>2. spent \in Nat /\ spent \in 0..MaxSpent /\ turn \in [Messages -> TurnRecord]
  BY ChatAssumption DEF ChatInv, ChatTypeOK
<1>3. r \in TurnRecord /\ r.pc = "asked" /\ r.saw = spent /\ r.used = 0
  BY <1>2 DEF NoTurn, TurnRecord
<1>4. /\ turn' = [turn EXCEPT ![u] = r] /\ UNCHANGED <<thread, spent>> /\ turn[u].pc = "idle"
      /\ MonthlyCap # None => Reach \in Nat /\ spent <= Reach
  <2>1. MonthlyCap # None => Reach \in Nat /\ spent <= Reach
    BY <1>2, QuietCounts, ChatAssumption DEF SendMessage, WithinBudget, AtCap, Reach
  <2>2. turn' = [turn EXCEPT ![u] = r]
    BY <1>1
  <2> QED
    BY <2>1, <2>2 DEF SendMessage
<1> HIDE DEF r
<1>5. ChatTypeOK'
  BY <1>2, <1>3, <1>4, TurnTypes DEF ChatInv
<1>6. \A w \in Messages : turn'[w] = IF w = u THEN r ELSE turn[w]
  BY <1>2, <1>4
<1>7. Quiet' = Quiet \ {u}
  BY <1>3, <1>6 DEF Quiet
<1>8. EachWithin'
  BY <1>2, <1>3, <1>4, <1>6, <1>7 DEF EachWithin, ChatInv
<1>9. ASSUME MonthlyCap # None
      PROVE  u \in Messages \ Quiet' /\ spent' <= Reach * Cardinality(Quiet') + turn'[u].saw
  <2>1. IsFiniteSet(Quiet') /\ Cardinality(Quiet') \in Nat /\ Reach \in Nat
    BY <1>4, <1>7, <1>9, QuietCounts, FS_Subset, FS_CardinalityType
  <2>2. Reach * Cardinality(Quiet') \in Nat
    BY <2>1, OneCapMore
  <2> QED
    BY <1>2, <1>3, <1>4, <1>6, <1>7, <2>2
<1>10. SpendShared'
  BY <1>9 DEF SpendShared
<1> QED
  BY <1>5, <1>8, <1>10 DEF ChatInv

\* ClaimThread keeps every part of the invariant.
LEMMA ClaimThreadStep ==
  ASSUME ChatInv, NEW u \in Messages, ClaimThread(u)
  PROVE  ChatInv'
<1> DEFINE r == [turn[u] EXCEPT !.pc = "work", !.row = TRUE]
           claim == [pending |-> u, stale |-> FALSE]
           h == turn[u].on
<1>1. turn[u] \in TurnRecord /\ turn \in [Messages -> TurnRecord] /\ thread \in [Threads -> ThreadRow \cup {None}]
  BY DEF ChatInv, ChatTypeOK
<1>2. r \in TurnRecord /\ r.pc = "work" /\ r.saw = turn[u].saw /\ r.used = turn[u].used
  BY <1>1 DEF TurnRecord
<1>3. /\ turn' = [turn EXCEPT ![u] = r] /\ thread' = [thread EXCEPT ![h] = claim]
      /\ UNCHANGED spent /\ turn[u].pc = "asked"
  BY <1>1 DEF ClaimThread
<1>4. claim \in ThreadRow /\ claim.pending = u /\ u # None
  BY ChatAssumption DEF ThreadRow
<1> HIDE DEF r, claim, h
<1>5. EachWithin' /\ SpendShared'
  BY <1>2, <1>3, TurnGoesOn
<1>6. \A w \in Messages : turn'[w] = IF w = u THEN r ELSE turn[w]
  BY <1>1, <1>3
<1>7. turn' \in [Messages -> TurnRecord] /\ \A w \in Messages : turn'[w].pc = "idle" => turn'[w] = NoTurn
  BY <1>1, <1>2, <1>3, <1>6 DEF ChatInv, ChatTypeOK
<1>8. \A k \in Threads : thread'[k] = thread[k] \/ thread'[k] = claim
  BY <1>1, <1>3
<1>9. thread' \in [Threads -> ThreadRow \cup {None}]
  BY <1>1, <1>3, <1>4
<1>10. ChatTypeOK'
  BY <1>3, <1>4, <1>7, <1>8, <1>9 DEF ChatInv, ChatTypeOK
<1> QED
  BY <1>5, <1>10 DEF ChatInv

\* ThreadBusy keeps every part of the invariant.
LEMMA ThreadBusyStep ==
  ASSUME ChatInv, NEW u \in Messages, ThreadBusy(u)
  PROVE  ChatInv'
BY EndsStep DEF ThreadBusy, ChatInv, ChatTypeOK

\* The model is asked below the cap only.
LEMMA ModelTurnStep ==
  ASSUME ChatInv, NEW u \in Messages, ModelTurn(u)
  PROVE  ChatInv'
<1>1. turn[u] \in TurnRecord /\ turn \in [Messages -> TurnRecord] /\ spent \in 0..MaxSpent
  BY DEF ChatInv, ChatTypeOK
<1>2. turn[u].saw \in Nat /\ turn[u].used \in Nat /\ MaxTurn \in Nat
  BY <1>1, ChatAssumption DEF TurnRecord
<1>3. PICK cost \in 1..MaxTurn : turn' = [turn EXCEPT ![u].used = @ + cost]
  BY DEF ModelTurn
<1> DEFINE r == [turn[u] EXCEPT !.used = @ + cost]
<1>4. r \in TurnRecord /\ r.pc = turn[u].pc /\ r.saw = turn[u].saw /\ r.used = turn[u].used + cost
  BY <1>1, <1>2 DEF TurnRecord
<1>5. turn' = [turn EXCEPT ![u] = r] /\ UNCHANGED <<thread, spent>> /\ turn[u].pc = "work"
  BY <1>1, <1>3 DEF ModelTurn
<1> HIDE DEF r
<1>6. MonthlyCap # None => r.saw + r.used <= Reach
  BY <1>2, <1>4, QuietCounts DEF ModelTurn, WithinBudget, AtCap, Reach
<1>7. EachWithin' /\ SpendShared'
  BY <1>4, <1>5, <1>6, TurnGoesOn
<1>8. ChatTypeOK'
  BY <1>1, <1>4, <1>5, TurnTypes DEF ChatInv
<1> QED
  BY <1>7, <1>8 DEF ChatInv

\* TurnOver keeps every part of the invariant.
LEMMA TurnOverStep ==
  ASSUME ChatInv, NEW u \in Messages, TurnOver(u)
  PROVE  ChatInv'
<1> DEFINE r == [turn[u] EXCEPT !.pc = "store"]
<1>1. turn[u] \in TurnRecord /\ turn \in [Messages -> TurnRecord] /\ spent \in 0..MaxSpent
  BY DEF ChatInv, ChatTypeOK
<1>2. r \in TurnRecord /\ r.pc = "store" /\ r.saw = turn[u].saw /\ r.used = turn[u].used
  BY <1>1 DEF TurnRecord
<1>3. turn' = [turn EXCEPT ![u] = r] /\ UNCHANGED <<thread, spent>> /\ turn[u].pc = "work"
  BY <1>1 DEF TurnOver, TurnGoes
<1> HIDE DEF r
<1>4. EachWithin' /\ SpendShared'
  BY <1>2, <1>3, TurnGoesOn
<1>5. ChatTypeOK'
  BY <1>1, <1>2, <1>3, TurnTypes DEF ChatInv
<1> QED
  BY <1>4, <1>5 DEF ChatInv

\* StoreAnswer keeps every part of the invariant.
LEMMA StoreAnswerStep ==
  ASSUME ChatInv, NEW u \in Messages, StoreAnswer(u)
  PROVE  ChatInv'
<1> DEFINE r == [turn[u] EXCEPT !.pc = "meter"]
           h == turn[u].on
           row == Answered(turn[u].on)
<1>1. turn[u] \in TurnRecord /\ turn \in [Messages -> TurnRecord] /\ thread \in [Threads -> ThreadRow \cup {None}]
  BY DEF ChatInv, ChatTypeOK
<1>2. r \in TurnRecord /\ r.pc = "meter" /\ r.saw = turn[u].saw /\ r.used = turn[u].used
  BY <1>1 DEF TurnRecord
<1>3. /\ turn' = [turn EXCEPT ![u] = r] /\ thread' = [thread EXCEPT ![h] = row]
      /\ UNCHANGED spent /\ turn[u].pc = "store"
  BY <1>1 DEF StoreAnswer, TurnGoes
<1>4. row \in ThreadRow /\ row.stale = FALSE
  BY DEF Answered, ThreadRow
<1> HIDE DEF r, row, h
<1>5. EachWithin' /\ SpendShared'
  BY <1>2, <1>3, TurnGoesOn
<1>6. \A w \in Messages : turn'[w] = IF w = u THEN r ELSE turn[w]
  BY <1>1, <1>3
<1>7. turn' \in [Messages -> TurnRecord] /\ \A w \in Messages : turn'[w].pc = "idle" => turn'[w] = NoTurn
  BY <1>1, <1>2, <1>3, <1>6 DEF ChatInv, ChatTypeOK
<1>8. \A k \in Threads : thread'[k] = thread[k] \/ thread'[k] = row
  BY <1>1, <1>3
<1>9. thread' \in [Threads -> ThreadRow \cup {None}]
  BY <1>1, <1>3, <1>4
<1>10. ChatTypeOK'
  BY <1>3, <1>4, <1>7, <1>8, <1>9 DEF ChatInv, ChatTypeOK
<1> QED
  BY <1>5, <1>10 DEF ChatInv

\* StoreFails keeps every part of the invariant.
LEMMA StoreFailsStep ==
  ASSUME ChatInv, NEW u \in Messages, StoreFails(u)
  PROVE  ChatInv'
BY EndsStep DEF StoreFails, ChatInv, ChatTypeOK

\* MeterTurn keeps every part of the invariant.
LEMMA MeterTurnStep ==
  ASSUME ChatInv, NEW u \in Messages, MeterTurn(u)
  PROVE  ChatInv'
<1>1. turn[u].used \in Nat /\ spent \in Nat /\ spent \in 0..MaxSpent
  BY ChatAssumption DEF ChatInv, ChatTypeOK, TurnRecord
<1>2. spent' \in {spent, spent + turn[u].used} /\ spent' \in 0..MaxSpent
  BY <1>1, ChatAssumption DEF MeterTurn
<1> QED
  BY <1>2, EndsStep DEF MeterTurn

\* ClearChat keeps every part of the invariant.
LEMMA ClearChatStep ==
  ASSUME ChatInv, NEW h \in Threads, ClearChat(h)
  PROVE  ChatInv'
<1> DEFINE cut(u) == [turn[u] EXCEPT !.row = FALSE]
<1>1. turn \in [Messages -> TurnRecord] /\ thread \in [Threads -> ThreadRow \cup {None}]
  BY DEF ChatInv, ChatTypeOK
<1>2. \A u \in Messages : /\ cut(u) \in TurnRecord /\ cut(u).pc = turn[u].pc
                          /\ cut(u).saw = turn[u].saw /\ cut(u).used = turn[u].used
                          /\ (turn[u] = NoTurn => cut(u) = NoTurn)
  <2>1. [NoTurn EXCEPT !.row = FALSE] = NoTurn
    <3>1. NoTurn = [pc |-> "idle", on |-> None, saw |-> 0, used |-> 0, row |-> FALSE]
      BY DEF NoTurn
    <3>2. NoTurn.row = FALSE
      BY <3>1
    <3>3. [NoTurn EXCEPT !["row"] = FALSE] = [f \in DOMAIN NoTurn |-> IF f = "row" THEN FALSE ELSE NoTurn[f]]
      OBVIOUS
    <3>4. NoTurn = [f \in DOMAIN NoTurn |-> NoTurn[f]]
      BY <3>1
    <3> QED
      BY <3>2, <3>3, <3>4
  <2>2. \A u \in Messages : turn[u] = NoTurn => cut(u) = NoTurn
    BY <2>1
  <2>3. \A u \in Messages : /\ cut(u) \in TurnRecord /\ cut(u).pc = turn[u].pc
                            /\ cut(u).saw = turn[u].saw /\ cut(u).used = turn[u].used
    BY <1>1 DEF TurnRecord
  <2> QED
    BY <2>2, <2>3
<1>3. /\ thread' = [thread EXCEPT ![h] = None] /\ UNCHANGED spent
      /\ turn' = [u \in Messages |-> IF turn[u].on = h THEN cut(u) ELSE turn[u]]
  BY DEF ClearChat
<1> HIDE DEF cut
<1>4. \A u \in Messages : turn'[u] = turn[u] \/ turn'[u] = cut(u)
  BY <1>3
<1>5. EachWithin' /\ SpendShared'
  <2>1. \A u \in Messages : /\ turn'[u].pc = "idle" <=> turn[u].pc = "idle"
                            /\ turn'[u].saw = turn[u].saw
                            /\ turn'[u].used = turn[u].used
    BY <1>2, <1>4
  <2> QED
    BY <1>3, <2>1, SpendKept
<1>6. turn' \in [Messages -> TurnRecord]
  BY <1>1, <1>2, <1>3
<1>7. \A u \in Messages : turn'[u].pc = "idle" => turn'[u] = NoTurn
  BY <1>2, <1>4 DEF ChatInv, ChatTypeOK
<1>8. thread' \in [Threads -> ThreadRow \cup {None}] /\ \A k \in Threads : thread'[k] = thread[k] \/ thread'[k] = None
  BY <1>1, <1>3
<1>9. ChatTypeOK'
  BY <1>3, <1>6, <1>7, <1>8 DEF ChatInv, ChatTypeOK
<1> QED
  BY <1>5, <1>9 DEF ChatInv

\* ClaimGoesStale keeps every part of the invariant.
LEMMA ClaimGoesStaleStep ==
  ASSUME ChatInv, NEW h \in Threads, ClaimGoesStale(h)
  PROVE  ChatInv'
<1> DEFINE row == [thread[h] EXCEPT !.stale = TRUE]
<1>1. thread[h] \in ThreadRow /\ thread[h].pending # None /\ thread \in [Threads -> ThreadRow \cup {None}]
  BY DEF ClaimGoesStale, ChatInv, ChatTypeOK
<1>2. row \in ThreadRow /\ row.pending # None
  BY <1>1 DEF ThreadRow
<1>3. thread' = [thread EXCEPT ![h] = row] /\ UNCHANGED <<turn, spent>>
  BY <1>1 DEF ClaimGoesStale
<1> HIDE DEF row
<1>4. thread' \in [Threads -> ThreadRow \cup {None}] /\ \A k \in Threads : thread'[k] = thread[k] \/ thread'[k] = row
  BY <1>1, <1>2, <1>3
<1>5. ChatTypeOK'
  BY <1>2, <1>3, <1>4 DEF ChatInv, ChatTypeOK
<1>6. EachWithin' /\ SpendShared'
  BY <1>3, SpendKept
<1> QED
  BY <1>5, <1>6 DEF ChatInv

\* TurnDies keeps every part of the invariant.
LEMMA TurnDiesStep ==
  ASSUME ChatInv, NEW u \in Messages, TurnDies(u)
  PROVE  ChatInv'
BY EndsStep DEF TurnDies, ChatInv, ChatTypeOK

-----------------------------------------------------------------------------
(* The chat: theorems *)

\* At first nobody has spent anything.
LEMMA ChatStart ==
  ASSUME ChatInit
  PROVE  ChatInv
<1> HIDE DEF NoTurn
<1>1. /\ thread = [h \in Threads |-> None] /\ turn = [u \in Messages |-> NoTurn] /\ spent = 0
      /\ \A u \in Messages : turn[u] = NoTurn
  BY DEF ChatInit
<1>2. ChatTypeOK
  BY <1>1, NoTurnType, ChatAssumption DEF ChatTypeOK
<1>3. Quiet = Messages
  BY <1>1, NoTurnType DEF Quiet
<1>4. EachWithin
  BY <1>3 DEF EachWithin
<1>5. MonthlyCap # None => spent <= Reach * Cardinality(Quiet)
  <2>1. MonthlyCap # None => Reach * Cardinality(Quiet) \in Nat
    BY QuietCounts, OneCapMore
  <2> QED
    BY <1>1, <2>1
<1>6. SpendShared
  BY <1>5 DEF SpendShared
<1> QED
  BY <1>2, <1>4, <1>6 DEF ChatInv

\* Every step of the chat keeps the invariant.
LEMMA ChatStep ==
  ASSUME ChatInv, [ChatNext]_chatVars
  PROVE  ChatInv'
<1>1. ASSUME NEW u \in Messages, SendMessage(u) \/ ModelTurn(u) \/ TurnStep(u) \/ TurnDies(u)
      PROVE  ChatInv'
  BY <1>1, SendMessageStep, ModelTurnStep, ClaimThreadStep, ThreadBusyStep, TurnOverStep, StoreAnswerStep,
     StoreFailsStep, MeterTurnStep, TurnDiesStep DEF TurnStep
<1>2. CASE UNCHANGED chatVars
  BY <1>2 DEF chatVars, ChatInv, ChatTypeOK, EachWithin, SpendShared, Quiet
<1> QED
  BY <1>1, <1>2, ClearChatStep, ClaimGoesStaleStep DEF ChatNext

\* The invariant of the threads, their turns and the ledger.
THEOREM ChatInvariant == ChatSpec => []ChatInv
<1> QED
  BY ChatStart, ChatStep, PTL DEF ChatSpec

\* "So the agent's cap binds" (chat.ts): whatever the number of threads, the ledger
\* is within what each request may spend that began below the cap: the cap, and a turn.
THEOREM CapBinds == ChatSpec => []OvershootBounded
<1>1. ASSUME ChatInv
      PROVE  OvershootBounded
  <2>1. SUFFICES ASSUME MonthlyCap # None
                 PROVE  spent <= Reach * Cardinality(Messages)
    BY DEF OvershootBounded
  <2> DEFINE q == Cardinality(Quiet)
             n == Cardinality(Messages)
  <2>2. q \in Nat /\ n \in Nat /\ q <= n /\ Reach \in Nat /\ IsFiniteSet(Quiet) /\ IsFiniteSet(Messages)
    BY <2>1, QuietCounts, ChatAssumption
  <2>3. spent \in Nat /\ \A u \in Messages : turn[u].saw \in Nat
    BY <1>1, ChatAssumption DEF ChatInv, ChatTypeOK, TurnRecord
  <2>4. Reach * q \in Nat /\ Reach * n \in Nat /\ Reach * (q + 1) = Reach * q + Reach
    BY <2>2, OneCapMore
  <2>5. ASSUME spent <= Reach * q
        PROVE  spent <= Reach * n
    <3>1. Reach * q <= Reach * n
      BY <2>2, CapsGrow
    <3> HIDE DEF q, n
    <3> QED
      BY <2>3, <2>4, <2>5, <3>1
  <2>6. ASSUME NEW u \in Messages \ Quiet, spent <= Reach * q + turn[u].saw
        PROVE  spent <= Reach * n
    <3>1. Cardinality(Quiet \cup {u}) = q + 1 /\ Quiet \cup {u} \subseteq Messages
      BY <2>2, FS_AddElement DEF Quiet
    <3>2. q + 1 <= n
      BY <2>2, <3>1, FS_Subset
    <3>3. Reach * (q + 1) <= Reach * n
      BY <2>2, <3>2, CapsGrow
    <3>4. turn[u].saw \in Nat /\ turn[u].saw <= Reach
      BY <1>1, <2>1, <2>3 DEF ChatInv, EachWithin
    <3> HIDE DEF q, n
    <3> QED
      BY <2>2, <2>3, <2>4, <2>6, <3>3, <3>4
  <2> HIDE DEF q, n
  <2>7. spent <= Reach * q \/ \E u \in Messages \ Quiet : spent <= Reach * q + turn[u].saw
    BY <1>1, <2>1 DEF ChatInv, SpendShared, q
  <2> QED
    BY <2>5, <2>6, <2>7 DEF n
<1> QED
  BY <1>1, ChatInvariant, PTL

\* A step that takes a claim from a turn that has yet to store its answer.
LEMMA ClaimTaken ==
  ASSUME ChatInv, [ChatNext]_chatVars, NEW u \in Messages, NEW h \in Threads,
         OnThread(u, h), thread[h] # None, OnThread(u, h)', thread'[h] # None, thread[h].pending = u
  PROVE  \/ thread'[h].pending = u
         \/ thread[h].stale
         \/ \E v \in Messages \ {u} : OnThread(v, h) /\ ~OnThread(v, h)'
<1>1. thread \in [Threads -> ThreadRow \cup {None}] /\ turn \in [Messages -> TurnRecord] /\ u # None
  BY ChatAssumption DEF ChatInv, ChatTypeOK
<1>2. CASE UNCHANGED thread
  BY <1>2
<1>3. ASSUME NEW v \in Messages, ClaimThread(v), turn[v].on = h
      PROVE  thread[h].stale
  BY <1>1, <1>3 DEF ClaimThread, Takeable
<1>4. ASSUME NEW v \in Messages, ClaimThread(v) \/ StoreAnswer(v), turn[v].on # h
      PROVE  thread'[h].pending = u
  BY <1>1, <1>4 DEF ClaimThread, StoreAnswer
<1>5. ASSUME NEW v \in Messages, StoreAnswer(v), turn[v].on = h
      PROVE  v # u /\ OnThread(v, h) /\ ~OnThread(v, h)'
  <2>1. turn'[v].pc = "meter" /\ turn[v].pc = "store"
    BY <1>1, <1>5 DEF StoreAnswer, TurnGoes, TurnRecord
  <2> QED
    BY <1>5, <2>1 DEF OnThread
<1>6. ASSUME NEW k \in Threads, ClearChat(k)
      PROVE  thread'[h].pending = u
  BY <1>1, <1>6 DEF ClearChat
<1>7. ASSUME NEW k \in Threads, ClaimGoesStale(k)
      PROVE  thread'[h].pending = u
  BY <1>1, <1>7 DEF ClaimGoesStale, ThreadRow
<1>8. ASSUME NEW v \in Messages, SendMessage(v) \/ ModelTurn(v) \/ TurnStep(v) \/ TurnDies(v)
      PROVE  \/ UNCHANGED thread
             \/ ClaimThread(v)
             \/ StoreAnswer(v)
  BY <1>8 DEF SendMessage, ModelTurn, TurnStep, TurnDies, ThreadBusy, TurnOver, StoreFails, MeterTurn
<1> QED
  BY <1>2, <1>3, <1>4, <1>5, <1>6, <1>7, <1>8 DEF ChatNext, chatVars

\* "One turn per thread at a time" (chat.ts): a claim is lost only to who found it stale,
\* to a clearing of the thread, or to a turn that had been overtaken itself.
THEOREM ClaimHolds == ChatSpec => ClaimLostToTheLate
<1> DEFINE A == \A u \in Messages, h \in Threads :
                  /\ OnThread(u, h) /\ thread[h] # None
                  /\ OnThread(u, h)' /\ thread'[h] # None
                  /\ thread[h].pending = u
                  => \/ thread'[h].pending = u
                     \/ thread[h].stale
                     \/ \E v \in Messages \ {u} : OnThread(v, h) /\ ~OnThread(v, h)'
<1>1. ASSUME ChatInv, [ChatNext]_chatVars
      PROVE  [A]_chatVars
  BY <1>1, ClaimTaken
<1> QED
  BY <1>1, ChatInvariant, PTL DEF ChatSpec, ClaimLostToTheLate
=============================================================================
