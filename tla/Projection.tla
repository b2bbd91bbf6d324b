----------------------------- MODULE Projection -----------------------------
(***************************************************************************)
(* What the projection outbox promises (the comments of enqueueProjection  *)
(* and settleProjection, apps/web/lib/notes/projections.ts): a change of a *)
(* note is owed to the rows derived from it from the same commit on, they  *)
(* are only ever brought up to the note as it is, and the debt is struck   *)
(* off only once they are.  A path that was torn is promised nothing more. *)
(*                                                                         *)
(* A rename changes two paths in one step, so a step is one of every path. *)
(***************************************************************************)

CONSTANT Paths

VARIABLES
    note,      \* the version of the note at each path
    derived,   \* the version its derived rows describe
    owed,      \* the paths that are on record to be brought up to date
    torn       \* the paths that were torn

projectionVars == <<note, derived, owed, torn>>

ProjectionInit ==
    /\ derived = note
    /\ owed = {}
    /\ torn = {}

\* The note is changed, or only saved, and is owed from then on.
Owe(p) ==
    /\ derived'[p] = derived[p]
    /\ p \in owed'

\* The derived rows are brought up to the note, which strikes nothing off.
Project(p) ==
    /\ note'[p] = note[p]
    /\ derived'[p] = note[p]
    /\ p \in owed' <=> p \in owed

\* What was owed and is up to date is struck off.
Settle(p) ==
    /\ note'[p] = note[p]
    /\ derived[p] = note[p] /\ derived'[p] = note[p]
    /\ p \in owed \ owed'

Rest(p) ==
    /\ note'[p] = note[p]
    /\ derived'[p] = derived[p]
    /\ p \in owed' <=> p \in owed

ProjectionNext ==
    /\ torn \subseteq torn'
    /\ \A p \in Paths \ torn' : Owe(p) \/ Project(p) \/ Settle(p) \/ Rest(p)

ProjectionSpec == ProjectionInit /\ [][ProjectionNext]_projectionVars
=============================================================================
