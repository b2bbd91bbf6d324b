------------------------------ MODULE Uploads ------------------------------
(***************************************************************************)
(* One resumable upload (apps/web/lib/resources/upload.ts, service.ts):    *)
(* its row and its object, the requests that complete it, the tick that    *)
(* reaps it when nobody did, and its deletion.                             *)
(*                                                                         *)
(* The row is in the database and the bytes are in a bucket; the code      *)
(* judges an upload by what it read before several calls to the bucket     *)
(* and the scanner.                                                        *)
(***************************************************************************)
EXTENDS Naturals

CONSTANTS
    Finishers,      \* requests that complete the upload
    Remover,        \* the tick's reapAbandonedUploads, or a person's deleteResource
    UploadFaults    \* "die", "stuck"

ASSUME UploadAssumption ==
    /\ UploadFaults \subseteq {"die", "stuck"}
    /\ Remover \notin Finishers

VARIABLES
    upload,    \* the row: "none", "uploading" or "ready"
    bytes,     \* is the whole object in the bucket?
    old,       \* was the upload begun more than ABANDONED_MS ago?
    owes,      \* was its work queued (ResourceJobs)?
    hand,      \* what each finisher, and the remover, is about to do
    crossed,   \* no column: an upload was completed and thrown away at once
    halted     \* no column: a finisher died, or threw, between the two writes of a completion

uploadVars == <<upload, bytes, old, owes, hand, crossed, halted>>

-----------------------------------------------------------------------------

Hands == Finishers \cup {Remover}

UploadTypeOK ==
    /\ upload \in {"none", "uploading", "ready"}
    /\ bytes \in BOOLEAN /\ old \in BOOLEAN /\ owes \in BOOLEAN
    /\ hand \in [Hands -> {"idle", "stat", "judge", "mark", "finish", "drop", "unrow", "forget", "empty"}]
    /\ crossed \in BOOLEAN /\ halted \in BOOLEAN
    /\ owes => upload = "ready"

\* initUpload has created the row; the session is open.
UploadInit ==
    /\ upload = "uploading"
    /\ bytes = FALSE
    /\ old = FALSE
    /\ owes = FALSE
    /\ hand = [h \in Hands |-> "idle"]
    /\ crossed = FALSE
    /\ halted = FALSE

Hand(h, next) == hand' = [hand EXCEPT ![h] = next]

\* Is somebody about to throw the upload away?
Dropping == \E h \in Hands : hand[h] \in {"drop", "unrow"}

\* Is somebody about to complete it?
Completing == \E f \in Finishers : hand[f] \in {"judge", "mark"}

-----------------------------------------------------------------------------

\* The last chunk: put into the bucket's session, or receiveLocalChunk.
BytesArrive ==
    /\ upload = "uploading"
    /\ ~bytes
    /\ bytes' = TRUE
    /\ UNCHANGED <<upload, old, owes, hand, crossed, halted>>

\* completeUpload reads the row; one that is gone is a 404, one that is ready is done.
ReadPending(f) ==
    /\ hand[f] = "idle"
    /\ upload = "uploading"
    /\ Hand(f, "stat")
    /\ UNCHANGED <<upload, bytes, old, owes, crossed, halted>>

\* bug: the object is not looked for.
Assumed == TRUE

\* statResourceObject.
Arrived == bytes

\* An object that is not whole yet is a 409; one that is too large is thrown away.
StatObject(f) ==
    /\ hand[f] = "stat"
    /\ IF Arrived THEN Hand(f, "judge") \/ Hand(f, "drop") ELSE Hand(f, "idle")
    /\ UNCHANGED <<upload, bytes, old, owes, crossed, halted>>

\* What the bytes are, and what the scanner says of them.
Judge(f) ==
    /\ hand[f] = "judge"
    /\ Hand(f, "mark") \/ Hand(f, "drop")
    /\ UNCHANGED <<upload, bytes, old, owes, crossed, halted>>

\* bug: the rest is left to the tick.
ThenIdle == "idle"

\* What follows the update.
ThenFinish == "finish"

\* The update throws if the row is gone; its state is not looked at again.
MarkReady(f) ==
    /\ hand[f] = "mark"
    /\ IF upload = "none" THEN Hand(f, "idle") /\ UNCHANGED <<upload, crossed>>
       ELSE Hand(f, ThenFinish) /\ upload' = "ready" /\ crossed' = (crossed \/ Dropping)
    /\ UNCHANGED <<bytes, old, owes, halted>>

\* bug: what was just updated is taken to be there.
NotLookedFor == TRUE

\* findUniqueOrThrow.
Found == upload = "ready"

\* finishUpload: entity, shares, and the work it owes; with the row gone it throws.
FinishUpload(f) ==
    /\ hand[f] = "finish"
    /\ Hand(f, "idle")
    /\ owes' = Found
    /\ UNCHANGED <<upload, bytes, old, crossed, halted>>

\* A database or storage error ends the request there.
FinishThrows(f) ==
    /\ "stuck" \in UploadFaults
    /\ hand[f] = "finish"
    /\ Hand(f, "idle")
    /\ halted' = TRUE
    /\ UNCHANGED <<upload, bytes, old, owes, crossed>>

-----------------------------------------------------------------------------
(* Throwing away: abandon, and deleteResource *)

\* bug: uploads are reaped by age alone.
OldEnough == upload # "none" /\ old

Abandoned == upload = "uploading" /\ old

ReapReads ==
    /\ hand[Remover] = "idle"
    /\ Abandoned
    /\ Hand(Remover, "drop")
    /\ UNCHANGED <<upload, bytes, old, owes, crossed, halted>>

\* abandon: the object first; an upload being completed under it is crossed.
DropObject(h) ==
    /\ hand[h] = "drop"
    /\ \/ bytes' = FALSE
       \/ "stuck" \in UploadFaults /\ UNCHANGED bytes
    /\ crossed' = (crossed \/ Completing \/ (h \in Finishers /\ upload = "ready"))
    /\ Hand(h, "unrow")
    /\ UNCHANGED <<upload, old, owes, halted>>

\* Then the row, by id.
Unrowed(h, next) ==
    /\ upload' = "none"
    /\ owes' = FALSE
    /\ Hand(h, next)

DropRow(h) ==
    /\ hand[h] = "unrow"
    /\ Unrowed(h, "idle")
    /\ UNCHANGED <<bytes, old, crossed, halted>>

\* deleteResource: the row first, "an orphaned record costs a broken page".
DeleteReads ==
    /\ hand[Remover] = "idle"
    /\ upload = "ready"
    /\ Hand(Remover, "forget")
    /\ UNCHANGED <<upload, bytes, old, owes, crossed, halted>>

\* The delete throws if the row is gone meanwhile.
DeleteRow ==
    /\ hand[Remover] = "forget"
    /\ IF upload = "none" THEN Hand(Remover, "idle") /\ UNCHANGED <<upload, owes>>
       ELSE Unrowed(Remover, "empty")
    /\ UNCHANGED <<bytes, old, crossed, halted>>

DeleteObject ==
    /\ hand[Remover] = "empty"
    /\ bytes' = FALSE
    /\ Hand(Remover, "idle")
    /\ UNCHANGED <<upload, old, owes, crossed, halted>>

-----------------------------------------------------------------------------

\* ABANDONED_MS have passed.
GrowsOld ==
    /\ upload = "uploading" /\ ~old
    /\ old' = TRUE
    /\ UNCHANGED <<upload, bytes, owes, hand, crossed, halted>>

\* An instance dies.  A throwing-away ends there too when its delete fails, which is
\* swallowed.
HandDies(h) ==
    /\ "die" \in UploadFaults
    /\ hand[h] # "idle"
    /\ Hand(h, "idle")
    /\ halted' = (halted \/ hand[h] = "finish")
    /\ UNCHANGED <<upload, bytes, old, owes, crossed>>

UploadNext ==
    \/ BytesArrive \/ GrowsOld
    \/ \E f \in Finishers : ReadPending(f) \/ StatObject(f) \/ Judge(f) \/ MarkReady(f) \/ FinishUpload(f) \/ FinishThrows(f)
    \/ ReapReads \/ DeleteReads \/ DeleteRow \/ DeleteObject
    \/ \E h \in Hands : DropObject(h) \/ DropRow(h) \/ HandDies(h)

UploadSpec == UploadInit /\ [][UploadNext]_uploadVars

-----------------------------------------------------------------------------
(* Properties *)

\* A file people can open has its bytes ("an orphaned record costs a broken page",
\* deleteResource), unless its upload was completed while a reap, or a completion that
\* refused it, was throwing it away: neither looks at the row again.
OnlyCrossedBreaks == upload = "ready" /\ ~bytes => crossed

\* A ready upload owes its renditions and its text (finishUpload), unless the request
\* that made it ready died or threw before it queued them: a second completion finds it
\* ready and goes no further.
OnlyHaltedOwesNothing ==
    upload = "ready" /\ (\A f \in Finishers : hand[f] = "idle") => owes \/ halted
=============================================================================
