--------------------------- MODULE CleanSchedule ---------------------------
(***************************************************************************)
(* The nightly pass of one space (apps/web/lib/notes/cleanSchedule.ts):    *)
(* its schedule row, the admins who save it one field at a time, and the   *)
(* ticks that claim it when its hour has come.                             *)
(*                                                                         *)
(* A save is a patch over what it read, written whole; a claim is a        *)
(* conditional update that moves next_run_at on.  What the pass then does, *)
(* and as whom, changes nothing of the schedule.                           *)
(***************************************************************************)
EXTENDS FiniteSets, Rows

CONSTANTS
    Admins,         \* the requests of admins that save the schedule
    CleanTicks      \* ticks that run due cleans

VARIABLES
    sched,      \* the schedule row
    save,       \* what each admin's request is writing
    pass        \* what each tick is doing with the space

cleanVars == <<sched, save, pass>>

-----------------------------------------------------------------------------

Fields == {"enabled", "embed"}

Settings == [Fields -> BOOLEAN]

\* What is on, and next_run_at: null, ahead, or passed.
SchedRow == [on : Settings, next : {"never", "later", "due"}]

ASSUME RowAssumption == None \notin SchedRow

\* The field the request was for (or the hour, which settles nothing else), and the
\* settings it is about to write.  Once another has saved, `field` is "any".
SaveRecord == [pc : {"idle", "write"}, field : Fields \cup {"hour", "any"}, writes : Settings]

\* `asRead`: next_run_at is what the tick read.
PassRecord == [pc : {"idle", "claim", "pass"}, asRead : BOOLEAN]

\* DEFAULT_CLEAN_SETTINGS: the embed is on where nothing says otherwise.
Default == [f \in Fields |-> f = "embed"]

NoSave == [pc |-> "idle", field |-> "hour", writes |-> Default]
NoPass == [pc |-> "idle", asRead |-> FALSE]

CleanTypeOK ==
    /\ sched \in SchedRow \cup {None}
    /\ save \in [Admins -> SaveRecord]
    /\ pass \in [CleanTicks -> PassRecord]
    /\ sched # None => (sched.next = "never" <=> sched.on = [f \in Fields |-> FALSE])

CleanInit ==
    /\ sched = None
    /\ save = [a \in Admins |-> NoSave]
    /\ pass = [t \in CleanTicks |-> NoPass]

\* scheduleActive.
Active(on) == \E f \in Fields : on[f]

\* settingsOf.
Current == IF sched = None THEN Default ELSE sched.on

-----------------------------------------------------------------------------
(* Saving *)

\* bug: a field that was not sent falls to its default.
OverDefault == Default

\* A patch is over what is there.
Base == Current

SaveReads(a) ==
    /\ save[a].pc = "idle"
    /\ \E f \in Fields \cup {"hour"}, to \in BOOLEAN :
        save' = [save EXCEPT ![a] = [pc |-> "write", field |-> f,
                                     writes |-> [g \in Fields |-> IF g = f THEN to ELSE Base[g]]]]
    /\ UNCHANGED <<sched, pass>>

\* The whole row.  The next fire is the next time its hour comes, as it was worked out
\* before: it may have come since, and be the very hour that some ticks had read.
SaveWrites(a) ==
    /\ save[a].pc = "write"
    /\ \E next \in IF Active(save[a].writes) THEN {"later", "due"} ELSE {"never"},
          same \in SUBSET {t \in CleanTicks : pass[t].pc = "claim"} :
          /\ sched' = [on |-> save[a].writes, next |-> next]
          /\ pass' = [t \in CleanTicks |-> [pass[t] EXCEPT !.asRead = next = "due" /\ t \in same]]
    /\ save' = [b \in Admins |-> IF b = a \/ save[b].pc = "idle" THEN NoSave ELSE [save[b] EXCEPT !.field = "any"]]

-----------------------------------------------------------------------------
(* The tick: runDueCleans *)

HourComes ==
    /\ sched # None /\ sched.next = "later"
    /\ sched' = [sched EXCEPT !.next = "due"]
    /\ UNCHANGED <<save, pass>>

ReadDue(t) ==
    /\ pass[t].pc = "idle"
    /\ sched # None /\ sched.next = "due"
    /\ pass' = [pass EXCEPT ![t] = [NoPass EXCEPT !.pc = "claim", !.asRead = TRUE]]
    /\ UNCHANGED <<sched, save>>

\* bug: the claim looks at what is on alone.
AnyHour(t) == Active(sched.on)

\* next_run_at is what was read, and something is on.
StillDue(t) == pass[t].asRead /\ Active(sched.on)

ClaimClean(t) ==
    /\ pass[t].pc = "claim"
    /\ IF StillDue(t)
       THEN /\ sched' = [sched EXCEPT !.next = "later"]
            /\ pass' = [s \in CleanTicks |-> IF s = t THEN [NoPass EXCEPT !.pc = "pass"] ELSE [pass[s] EXCEPT !.asRead = FALSE]]
       ELSE /\ pass' = [pass EXCEPT ![t] = NoPass]
            /\ UNCHANGED sched
    /\ UNCHANGED save

\* The pass is over, or it failed, or its tick died in it or before.
PassEnds(t) ==
    /\ pass[t].pc # "idle"
    /\ pass' = [pass EXCEPT ![t] = NoPass]
    /\ UNCHANGED <<sched, save>>

CleanNext ==
    \/ HourComes
    \/ \E a \in Admins : SaveReads(a) \/ SaveWrites(a)
    \/ \E t \in CleanTicks : ReadDue(t) \/ ClaimClean(t) \/ PassEnds(t)

CleanSpec == CleanInit /\ [][CleanNext]_cleanVars

-----------------------------------------------------------------------------
(* Properties *)

\* What a person switched off stays off until a person switches it on ("a field it did
\* not send keeps its value", saveCleanSchedule), unless the save that brings it back
\* was overtaken: it writes every field, and the older value of those it did not send.
OnlyOvertakenSavesRevert ==
    [][\A f \in Fields :
        sched # None /\ sched' # None /\ sched.on[f] # sched'.on[f] =>
            \E a \in Admins : SaveWrites(a) /\ save[a].field \in {f, "any"}]_cleanVars

\* "Only the instance whose update matched a row runs it" (runDueCleans): however many
\* ticks have read an hour as due, a pass begins just as it takes a due hour away.  It
\* has no second pass unless a save that had worked it out before puts it back.
OnePassPerHour ==
    [][\A t \in CleanTicks : pass[t].pc # "pass" /\ pass'[t].pc = "pass" =>
            sched # None /\ sched.next = "due" /\ sched'.next = "later"]_cleanVars
=============================================================================
