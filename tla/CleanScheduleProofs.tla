------------------------- MODULE CleanScheduleProofs -------------------------
(***************************************************************************)
(* Theorems about CleanSchedule, for any admins and any overlapping ticks: *)
(* its types, that a save which nobody overtook changes only the field it  *)
(* was for, and that a pass begins just as it takes a due hour away.       *)
(*                                                                         *)
(* A save writes every field, so the second rests on what it is about to   *)
(* write: PatchIsCurrent says that a save nobody has overtaken still       *)
(* agrees with the row on every other field.  The third rests on           *)
(* ReadIsDue: what a tick read as due and has not moved since is due.      *)
(***************************************************************************)
EXTENDS CleanSchedule, TLAPS

\* A save that nobody overtook agrees with the row on every field it was not for.
PatchIsCurrent ==
    \A a \in Admins : save[a].pc = "write" /\ save[a].field # "any" =>
        \A f \in Fields \ {save[a].field} : save[a].writes[f] = Current[f]

\* A tick is busy with the space only where it has a row.
PassHasRow == \A t \in CleanTicks : pass[t].pc # "idle" => sched # None

\* An hour that is as a tick read it is due.
ReadIsDue == \A t \in CleanTicks : pass[t].asRead => sched # None /\ sched.next = "due"

CleanInv == CleanTypeOK /\ PassHasRow /\ PatchIsCurrent /\ ReadIsDue

-----------------------------------------------------------------------------
(* Types *)

USE RowAssumption

\* The settings of a space without a row, and of one with a row, are settings.
LEMMA CurrentType == CleanTypeOK => Current \in Settings
<1>1. Default \in Settings
  BY DEF Default, Settings
<1> QED
  BY <1>1 DEF CleanTypeOK, Current, SchedRow

\* A request and a tick that do nothing have the types of their records.
LEMMA IdleTypes == NoSave \in SaveRecord /\ NoPass \in PassRecord
  BY DEF NoSave, NoPass, SaveRecord, PassRecord, Default, Settings

\* A tick is where it was when next_run_at is moved, or put back, under it.
LEMMA Moved ==
    \A p \in PassRecord, read \in BOOLEAN :
        LET q == [p EXCEPT !.asRead = read] IN q \in PassRecord /\ q.pc = p.pc /\ q.asRead = read
<1> SUFFICES ASSUME NEW p \in PassRecord, NEW read \in BOOLEAN
             PROVE  LET q == [p EXCEPT !.asRead = read] IN q \in PassRecord /\ q.pc = p.pc /\ q.asRead = read
  OBVIOUS
<1>1. [p EXCEPT !.asRead = read] \in PassRecord
  BY DEF PassRecord
<1>2. [p EXCEPT !.asRead = read].pc = p.pc /\ [p EXCEPT !.asRead = read].asRead = read
  BY DEF PassRecord
<1> QED
  BY <1>1, <1>2

\* A row asks for a pass just when something is on.
LEMMA ActiveIsOn == \A on \in Settings : Active(on) <=> on # [f \in Fields |-> FALSE]
<1> SUFFICES ASSUME NEW on \in Settings
             PROVE  Active(on) <=> on # [f \in Fields |-> FALSE]
  OBVIOUS
<1>1. CASE Active(on)
  BY <1>1 DEF Active
<1>2. CASE ~Active(on)
  <2>1. on = [f \in Fields |-> on[f]]
    BY DEF Settings
  <2>2. \A f \in Fields : on[f] = FALSE
    BY <1>2 DEF Active, Settings
  <2> QED
    BY <1>2, <2>1, <2>2
<1> QED
  BY <1>1, <1>2

\* A read that is about to write: settings whose fields are the row's, but for one.
LEMMA SaveReadsKeeps ==
  ASSUME CleanInv, NEW a \in Admins, SaveReads(a)
  PROVE  CleanInv'
<1> USE DEF CleanInv
<1>1. PICK f \in Fields \cup {"hour"}, to \in BOOLEAN :
        save' = [save EXCEPT ![a] = [pc |-> "write", field |-> f,
                                     writes |-> [g \in Fields |-> IF g = f THEN to ELSE Base[g]]]]
  BY DEF SaveReads
<1> DEFINE w == [g \in Fields |-> IF g = f THEN to ELSE Base[g]]
<1>2. w \in Settings
  BY CurrentType DEF Base, Settings
<1>3. \A g \in Fields \ {f} : w[g] = Current[g]
  BY DEF Base
<1> HIDE DEF w
<1>4. [pc |-> "write", field |-> f, writes |-> w] \in SaveRecord
  BY <1>2 DEF SaveRecord
<1>5. save' = [save EXCEPT ![a] = [pc |-> "write", field |-> f, writes |-> w]]
  BY <1>1 DEF w
<1>6. CleanTypeOK'
  BY <1>4, <1>5 DEF CleanTypeOK, SaveReads
<1>7. PatchIsCurrent'
  BY <1>3, <1>5 DEF PatchIsCurrent, SaveReads, Current, CleanTypeOK
<1>8. PassHasRow' /\ ReadIsDue'
  BY DEF PassHasRow, ReadIsDue, SaveReads
<1> QED
  BY <1>6, <1>7, <1>8

\* A write overtakes every other: what they are about to write is no longer a patch.
LEMMA SaveWritesKeeps ==
  ASSUME CleanInv, NEW a \in Admins, SaveWrites(a)
  PROVE  CleanInv'
<1> USE DEF CleanInv
<1>1. save[a].writes \in Settings
  BY DEF CleanTypeOK, SaveRecord
<1>0. PICK next \in IF Active(save[a].writes) THEN {"later", "due"} ELSE {"never"},
           same \in SUBSET {t \in CleanTicks : pass[t].pc = "claim"} :
          /\ sched' = [on |-> save[a].writes, next |-> next]
          /\ pass' = [t \in CleanTicks |-> [pass[t] EXCEPT !.asRead = next = "due" /\ t \in same]]
  BY DEF SaveWrites
<1>2. sched' \in SchedRow /\ (sched'.next = "never" <=> sched'.on = [f \in Fields |-> FALSE]) /\ sched'.next = next
  BY <1>0, <1>1, ActiveIsOn DEF SchedRow
<1>3. \A b \in Admins : save'[b] \in SaveRecord /\ (save'[b].pc = "write" => save'[b].field = "any")
  <2> SUFFICES ASSUME NEW b \in Admins
               PROVE  save'[b] \in SaveRecord /\ (save'[b].pc = "write" => save'[b].field = "any")
    OBVIOUS
  <2>1. save[b] \in SaveRecord
    BY DEF CleanTypeOK
  <2>2. CASE b = a \/ save[b].pc = "idle"
    BY <2>2, IdleTypes DEF SaveWrites, NoSave
  <2>3. CASE ~(b = a \/ save[b].pc = "idle")
    BY <2>1, <2>3 DEF SaveWrites, SaveRecord
  <2> QED
    BY <2>2, <2>3
<1>4. save' \in [Admins -> SaveRecord]
  BY <1>3 DEF SaveWrites
<1>5. \A t \in CleanTicks : /\ pass'[t] \in PassRecord /\ pass'[t].pc = pass[t].pc
                            /\ pass'[t].asRead => next = "due"
  <2> SUFFICES ASSUME NEW t \in CleanTicks
               PROVE  /\ pass'[t] \in PassRecord /\ pass'[t].pc = pass[t].pc
                      /\ pass'[t].asRead => next = "due"
    OBVIOUS
  <2> DEFINE read == next = "due" /\ t \in same
  <2>1. pass[t] \in PassRecord /\ pass'[t] = [pass[t] EXCEPT !.asRead = read] /\ read \in BOOLEAN
    BY <1>0 DEF CleanTypeOK
  <2> QED
    BY <2>1, Moved
<1>6. pass' \in [CleanTicks -> PassRecord]
  BY <1>0, <1>5
<1>7. CleanTypeOK'
  BY <1>2, <1>4, <1>6 DEF CleanTypeOK, SaveWrites
<1>8. PassHasRow' /\ ReadIsDue'
  BY <1>2, <1>5 DEF PassHasRow, ReadIsDue
<1>9. PatchIsCurrent'
  BY <1>3 DEF PatchIsCurrent
<1> QED
  BY <1>7, <1>8, <1>9

\* The hour coming and the claim move next_run_at alone, of a row that is there.
LEMMA ClockKeeps ==
  ASSUME CleanInv, HourComes \/ \E t \in CleanTicks : ClaimClean(t)
  PROVE  CleanInv' /\ (sched # None => sched'.on = sched.on)
<1> USE DEF CleanInv
<1>1. CASE HourComes
  <2>1. sched \in SchedRow
    BY <1>1 DEF HourComes, CleanTypeOK
  <2>2. sched' \in SchedRow /\ sched'.on = sched.on /\ sched.next # "never" /\ sched'.next # "never"
    BY <1>1, <2>1 DEF HourComes, SchedRow
  <2>3. CleanTypeOK'
    BY <1>1, <2>2 DEF HourComes, CleanTypeOK
  <2>4. PassHasRow' /\ PatchIsCurrent'
    BY <1>1, <2>1, <2>2 DEF HourComes, PassHasRow, PatchIsCurrent, Current
  <2>5. ReadIsDue'
    BY <1>1, <2>1 DEF HourComes, ReadIsDue, SchedRow
  <2> QED
    BY <2>2, <2>3, <2>4, <2>5
<1>2. ASSUME NEW t \in CleanTicks, ClaimClean(t)
      PROVE  CleanInv' /\ (sched # None => sched'.on = sched.on)
  <2>1. sched # None /\ sched \in SchedRow
    BY <1>2 DEF ClaimClean, PassHasRow, CleanTypeOK
  <2>2. sched' \in SchedRow /\ sched'.on = sched.on /\ (sched'.next = "never" <=> sched'.on = [f \in Fields |-> FALSE])
    <3>1. CASE StillDue(t)
      <4>1. sched' = [sched EXCEPT !.next = "later"]
        BY <1>2, <3>1 DEF ClaimClean
      <4>2. sched' \in SchedRow /\ sched'.on = sched.on /\ sched'.next = "later"
        BY <2>1, <4>1 DEF SchedRow
      <4>3. sched.on # [f \in Fields |-> FALSE]
        BY <2>1, <3>1, ActiveIsOn DEF StillDue, SchedRow
      <4> QED
        BY <4>2, <4>3
    <3>2. CASE ~StillDue(t)
      BY <1>2, <2>1, <3>2 DEF ClaimClean, CleanTypeOK
    <3> QED
      BY <3>1, <3>2
  <2>3. pass' \in [CleanTicks -> PassRecord]
    <3>1. [NoPass EXCEPT !.pc = "pass"] \in PassRecord
      BY DEF NoPass, PassRecord
    <3>2. \A s \in CleanTicks : [pass[s] EXCEPT !.asRead = FALSE] \in PassRecord
      BY Moved DEF CleanTypeOK
    <3> QED
      BY <1>2, <3>1, <3>2, IdleTypes DEF ClaimClean, CleanTypeOK
  <2>4. CleanTypeOK'
    BY <1>2, <2>2, <2>3 DEF ClaimClean, CleanTypeOK
  <2>5. PassHasRow' /\ PatchIsCurrent'
    BY <1>2, <2>1, <2>2 DEF ClaimClean, PassHasRow, PatchIsCurrent, Current
  <2>6. ReadIsDue'
    <3>1. CASE StillDue(t)
      <4>1. \A s \in CleanTicks : pass'[s] = IF s = t THEN [NoPass EXCEPT !.pc = "pass"]
                                                    ELSE [pass[s] EXCEPT !.asRead = FALSE]
        BY <1>2, <3>1 DEF ClaimClean
      <4>2. [NoPass EXCEPT !.pc = "pass"].asRead = FALSE
        BY DEF NoPass
      <4>3. \A s \in CleanTicks : [pass[s] EXCEPT !.asRead = FALSE].asRead = FALSE
        BY Moved DEF CleanTypeOK
      <4>4. \A s \in CleanTicks : ~pass'[s].asRead
        BY <4>1, <4>2, <4>3
      <4> QED
        BY <4>4 DEF ReadIsDue
    <3>2. CASE ~StillDue(t)
      BY <1>2, <3>2 DEF ClaimClean, ReadIsDue, CleanTypeOK, NoPass
    <3> QED
      BY <3>1, <3>2
  <2> QED
    BY <2>2, <2>4, <2>5, <2>6
<1> QED
  BY <1>1, <1>2

\* The rest of a tick moves only itself, and starts only where there is a row.
LEMMA PassKeeps ==
  ASSUME CleanInv, NEW t \in CleanTicks, ReadDue(t) \/ PassEnds(t)
  PROVE  CleanInv' /\ UNCHANGED sched
<1> USE DEF CleanInv
<1>1. PICK p \in PassRecord : /\ pass' = [pass EXCEPT ![t] = p]
                              /\ p.asRead => sched # None /\ sched.next = "due"
  <2>1. CASE ReadDue(t)
    <3>1. [NoPass EXCEPT !.pc = "claim", !.asRead = TRUE] \in PassRecord
      BY DEF NoPass, PassRecord
    <3> QED
      BY <2>1, <3>1 DEF ReadDue
  <2>2. CASE PassEnds(t)
    BY <2>2, IdleTypes DEF PassEnds, NoPass
  <2> QED
    BY <2>1, <2>2
<1>2. UNCHANGED <<sched, save>> /\ sched # None
  BY DEF ReadDue, PassEnds, PassHasRow
<1>3. CleanTypeOK'
  BY <1>1, <1>2 DEF CleanTypeOK
<1>4. PassHasRow' /\ PatchIsCurrent' /\ ReadIsDue'
  BY <1>1, <1>2 DEF PassHasRow, PatchIsCurrent, Current, ReadIsDue, CleanTypeOK
<1> QED
  BY <1>2, <1>3, <1>4

-----------------------------------------------------------------------------
(* The inductive invariant *)

\* No request and no tick is at anything yet, so nothing can be overtaken.
LEMMA InitHolds == CleanInit => CleanInv
  BY IdleTypes DEF CleanInit, CleanInv, CleanTypeOK, PassHasRow, PatchIsCurrent, ReadIsDue, NoSave, NoPass

\* Every step of an admin, of a tick and of a fault keeps the invariant.
LEMMA NextKeeps == CleanInv /\ [CleanNext]_cleanVars => CleanInv'
<1> SUFFICES ASSUME CleanInv, [CleanNext]_cleanVars
             PROVE  CleanInv'
  OBVIOUS
<1>1. CASE UNCHANGED cleanVars
  BY <1>1 DEF cleanVars, CleanInv, CleanTypeOK, PassHasRow, PatchIsCurrent, ReadIsDue, Current
<1>2. CASE HourComes \/ \E t \in CleanTicks : ClaimClean(t)
  BY <1>2, ClockKeeps
<1>3. ASSUME NEW a \in Admins, SaveReads(a) PROVE CleanInv'
  BY <1>3, SaveReadsKeeps
<1>4. ASSUME NEW a \in Admins, SaveWrites(a) PROVE CleanInv'
  BY <1>4, SaveWritesKeeps
<1>5. ASSUME NEW t \in CleanTicks, ReadDue(t) \/ PassEnds(t) PROVE CleanInv'
  BY <1>5, PassKeeps
<1> QED
  BY <1>1, <1>2, <1>3, <1>4, <1>5 DEF CleanNext

\* The row, the saves and the ticks keep their types, and a schedule waits for its hour
\* just when something is on, whoever saves and however many ticks overlap.
THEOREM CleanTyped == CleanSpec => []CleanTypeOK
<1>1. CleanInv => CleanTypeOK
  BY DEF CleanInv
<1> QED
  BY InitHolds, NextKeeps, <1>1, PTL DEF CleanSpec

\* A field changes only by a save that was for it, or by one that another save overtook
\* (saveCleanSchedule writes every field over what it read).
THEOREM PatchesKeepFields == CleanSpec => OnlyOvertakenSavesRevert
<1> DEFINE Kept == \A f \in Fields :
                sched # None /\ sched' # None /\ sched.on[f] # sched'.on[f] =>
                    \E a \in Admins : SaveWrites(a) /\ save[a].field \in {f, "any"}
<1>1. CleanInv /\ [CleanNext]_cleanVars => [Kept]_cleanVars
  <2> SUFFICES ASSUME CleanInv, CleanNext, NEW f \in Fields,
                      sched # None, sched' # None, sched.on[f] # sched'.on[f]
               PROVE  \E a \in Admins : SaveWrites(a) /\ save[a].field \in {f, "any"}
    BY DEF cleanVars
  <2>1. sched'.on # sched.on
    OBVIOUS
  <2>2. ~(HourComes \/ \E t \in CleanTicks : ClaimClean(t))
    BY <2>1, ClockKeeps
  <2>3. sched' # sched
    BY <2>1
  <2>4. PICK a \in Admins : SaveWrites(a)
    BY <2>2, <2>3, PassKeeps DEF CleanNext, SaveReads
  <2>5. sched'.on = save[a].writes /\ save[a].pc = "write"
    BY <2>4 DEF SaveWrites
  <2>6. save[a].field \in {f, "any"}
    BY <2>5 DEF CleanInv, PatchIsCurrent, Current
  <2> QED
    BY <2>4, <2>6
<1> QED
  BY InitHolds, NextKeeps, <1>1, PTL DEF CleanSpec, OnlyOvertakenSavesRevert

\* A pass begins just as it takes a due hour away, for any ticks that have read it as due
\* and any saves that move it or put it back (runDueCleans claims by what it read).
THEOREM HourHasOnePass == CleanSpec => OnePassPerHour
<1> DEFINE Taken == \A t \in CleanTicks : pass[t].pc # "pass" /\ pass'[t].pc = "pass" =>
                        sched # None /\ sched.next = "due" /\ sched'.next = "later"
<1>1. CleanInv /\ [CleanNext]_cleanVars => [Taken]_cleanVars
  <2> SUFFICES ASSUME CleanInv, CleanNext, NEW t \in CleanTicks, pass[t].pc # "pass", pass'[t].pc = "pass"
               PROVE  sched # None /\ sched.next = "due" /\ sched'.next = "later"
    BY DEF cleanVars
  <2>1. \A s \in CleanTicks : pass[s] \in PassRecord
    BY DEF CleanInv, CleanTypeOK
  <2>2. ASSUME NEW a \in Admins, SaveWrites(a) PROVE FALSE
    <3>1. PICK next \in IF Active(save[a].writes) THEN {"later", "due"} ELSE {"never"},
               same \in SUBSET {s \in CleanTicks : pass[s].pc = "claim"} :
              pass' = [s \in CleanTicks |-> [pass[s] EXCEPT !.asRead = next = "due" /\ s \in same]]
      BY <2>2 DEF SaveWrites
    <3> DEFINE read == next = "due" /\ t \in same
    <3>2. pass'[t] = [pass[t] EXCEPT !.asRead = read] /\ read \in BOOLEAN
      BY <3>1
    <3> QED
      BY <2>1, <3>2, Moved
  <2>3. ~(HourComes \/ \E a \in Admins : SaveReads(a))
    BY DEF HourComes, SaveReads
  <2>4. \A s \in CleanTicks : ~(ReadDue(s) \/ PassEnds(s))
    <3> SUFFICES ASSUME NEW s \in CleanTicks, ReadDue(s) \/ PassEnds(s) PROVE FALSE
      OBVIOUS
    <3>1. PICK p : pass' = [pass EXCEPT ![s] = p] /\ p.pc # "pass"
      BY DEF ReadDue, PassEnds, NoPass
    <3> QED
      BY <3>1 DEF CleanInv, CleanTypeOK
  <2>5. PICK s \in CleanTicks : ClaimClean(s)
    BY <2>2, <2>3, <2>4 DEF CleanNext
  <2>6. StillDue(s)
    BY <2>5 DEF ClaimClean, NoPass, CleanInv, CleanTypeOK
  <2>7. sched # None /\ sched.next = "due" /\ sched \in SchedRow
    BY <2>6 DEF StillDue, CleanInv, ReadIsDue, CleanTypeOK
  <2> QED
    BY <2>5, <2>6, <2>7 DEF ClaimClean, SchedRow
<1> QED
  BY InitHolds, NextKeeps, <1>1, PTL DEF CleanSpec, OnePassPerHour
=============================================================================
