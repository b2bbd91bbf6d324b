---------------------------- MODULE ToolReviews ----------------------------
(***************************************************************************)
(* The review of one version of a Tool that was offered for listing        *)
(* (apps/web/lib/tools/review/queue.ts and run.ts, listings.ts, and the    *)
(* verdict in registry.ts).                                                *)
(*                                                                         *)
(* A review run is queued when the listing is co-signed, and again when a  *)
(* reviewer asks.  The tick claims it by a conditional update; a run that  *)
(* is still `running` after STALE_RUN_MS is claimed again, until it has    *)
(* had its attempts.  The version may go onto the shelf by a carrier's    *)
(* verdict, or, for a verified publisher, by the run itself.               *)
(***************************************************************************)
EXTENDS Naturals, Rows

CONSTANTS
    ReviewRuns,         \* ids of review runs; one that nothing names is a new one
    ReviewTicks,        \* ticks that drain the queue
    Reviewers,          \* reviewers' requests that run a review now
    People,             \* admins and authors who ask, reviewers who decide
    MaxReviewAttempts,
    ReviewFaults        \* "die", "slow", "throw"

ASSUME ReviewAssumption ==
    /\ MaxReviewAttempts \in Nat \ {0}
    /\ ReviewFaults \subseteq {"die", "slow", "throw"}
    /\ None \notin ReviewRuns
    /\ ReviewTicks \cap Reviewers = {}

VARIABLES
    listing,    \* listingRequestState: marketplaceStatus, or "asked" for a request that awaits its co-sign
    review,     \* the rows of app_tool_review_runs
    newest,     \* the one created last
    report,     \* the newest dynamic stage on record
    carrier,    \* what each worker is doing
    person      \* what each person's request is doing

reviewVars == <<listing, review, newest, report, carrier, person>>

-----------------------------------------------------------------------------

ReviewWorkers == ReviewTicks \cup Reviewers

\* "done" is passed, flagged, blocked or unavailable; `stale` is whether startedAt is
\* older than STALE_RUN_MS.  Past the limit no comparison tells two counts apart.
ReviewRow == [status : {"queued", "running", "done", "error"}, stale : BOOLEAN,
              attempts : 0..(MaxReviewAttempts + 1)]

ASSUME ReviewRowAssumption == None \notin ReviewRow

\* `asRead`: nobody has claimed, finished or put back the row since it was read;
\* `pending` and `last` are what runReview read: was the listing pending, was it the
\* last try?  `moved` is no variable of the code: what the request decides by has been
\* written since it read it.
CarrierRecord == [pc : {"idle", "picked", "look", "queue", "take", "read", "stages", "finish", "approve", "putback"},
                  on : ReviewRuns \cup {None}, asRead : BOOLEAN, moved : BOOLEAN,
                  pending : BOOLEAN, last : BOOLEAN, clear : BOOLEAN]

PersonRecord == [pc : {"idle", "request", "cosign", "look", "queue", "judge", "approve", "reject", "withdraw", "takeback"},
                 moved : BOOLEAN]

NoWork == [pc |-> "idle", on |-> None, asRead |-> FALSE, moved |-> FALSE, pending |-> FALSE, last |-> FALSE, clear |-> FALSE]
Unbusy == [pc |-> "idle", moved |-> FALSE]

ReviewTypeOK ==
    /\ listing \in {"none", "asked", "pending", "approved", "rejected", "withdrawn"}
    /\ review \in [ReviewRuns -> ReviewRow \cup {None}]
    /\ newest \in ReviewRuns \cup {None}
    /\ report \in {"none", "clear", "block"}
    /\ carrier \in [ReviewWorkers -> CarrierRecord]
    /\ person \in [People -> PersonRecord]
    /\ newest # None => review[newest] # None

ReviewInit ==
    /\ listing = "none"
    /\ review = [r \in ReviewRuns |-> None]
    /\ newest = None
    /\ report = "none"
    /\ carrier = [w \in ReviewWorkers |-> NoWork]
    /\ person = [p \in People |-> Unbusy]

Status(r) == IF review[r] = None THEN "none" ELSE review[r].status

Open(r) == Status(r) \in {"queued", "running"}

\* The id of a run that has ended and that no request works on stands for a new one.
Unheld(r) == ~Open(r) /\ \A w \in ReviewWorkers : carrier[w].on # r

\* Everyone's record after a step of `x`: its own is `mine`, the others have lost what
\* they read, of the row `r` or of what a verdict depends on.
CarriersAfter(x, mine, r, verdict) ==
    carrier' = [w \in ReviewWorkers |-> IF w = x THEN mine
        ELSE [carrier[w] EXCEPT !.asRead = @ /\ carrier[w].on # r,
                                !.moved = @ \/ (verdict /\ carrier[w].pending)]]

PeopleAfter(x, mine, verdict) ==
    person' = [p \in People |-> IF p = x THEN mine
        ELSE [person[p] EXCEPT !.moved = @ \/ (verdict /\ person[p].pc \in {"judge", "approve"})]]

-----------------------------------------------------------------------------
(* Asking for a listing, and taking it back *)

\* requestListing, its read.
ReadOffer(p) ==
    /\ person[p].pc = "idle"
    /\ listing \in {"none", "rejected", "withdrawn"}
    /\ PeopleAfter(p, [Unbusy EXCEPT !.pc = "request"], FALSE)
    /\ UNCHANGED <<listing, review, newest, report, carrier>>

\* Its update, by id: a request from before is replaced, whatever became of it.  An
\* admin who wrote the version co-signs at once.
RequestListing(p) ==
    /\ person[p].pc = "request"
    /\ listing' = "asked"
    /\ CarriersAfter(None, NoWork, None, TRUE)
    /\ \E next \in {"cosign", "idle"} : PeopleAfter(p, [Unbusy EXCEPT !.pc = next], TRUE)
    /\ UNCHANGED <<review, newest, report>>

\* cosignListing, its read.
ReadAsked(p) ==
    /\ person[p].pc = "idle"
    /\ listing = "asked"
    /\ PeopleAfter(p, [Unbusy EXCEPT !.pc = "cosign"], FALSE)
    /\ UNCHANGED <<listing, review, newest, report, carrier>>

\* By id.
Cosign(p) ==
    /\ person[p].pc = "cosign"
    /\ listing' = "pending"
    /\ CarriersAfter(None, NoWork, None, TRUE)
    /\ PeopleAfter(p, [Unbusy EXCEPT !.pc = "look"], TRUE)
    /\ UNCHANGED <<review, newest, report>>

\* enqueueReview, its read: one that is waiting will do.
Waiting == {r \in ReviewRuns : Open(r)}

LookForWaiting(p) ==
    /\ person[p].pc = "look"
    /\ PeopleAfter(p, IF Waiting = {} THEN [Unbusy EXCEPT !.pc = "queue"] ELSE Unbusy, FALSE)
    /\ UNCHANGED <<listing, review, newest, report, carrier>>

\* And its insert.
QueuedRun(r) ==
    /\ Unheld(r)
    /\ review' = [review EXCEPT ![r] = [status |-> "queued", stale |-> FALSE, attempts |-> 0]]
    /\ newest' = r

QueueReview(p) ==
    /\ person[p].pc = "queue"
    /\ \E r \in ReviewRuns : QueuedRun(r)
    /\ CarriersAfter(None, NoWork, None, TRUE)
    /\ PeopleAfter(p, Unbusy, TRUE)
    /\ UNCHANGED <<listing, report>>

\* withdrawListing, its read.
ReadWithdraw(p) ==
    /\ person[p].pc = "idle"
    /\ listing \in {"asked", "pending"}
    /\ PeopleAfter(p, [Unbusy EXCEPT !.pc = IF listing = "asked" THEN "takeback" ELSE "withdraw"], FALSE)
    /\ UNCHANGED <<listing, review, newest, report, carrier>>

\* Its transaction: the listing, by id, and the runs nobody has begun.  A request that
\* was co-signed meanwhile is not taken back.
Withdraw(p) ==
    /\ person[p].pc \in {"withdraw", "takeback"}
    /\ listing' = IF person[p].pc = "withdraw" THEN "withdrawn" ELSE IF listing = "asked" THEN "none" ELSE listing
    /\ review' = [r \in ReviewRuns |-> IF Status(r) = "queued" THEN [review[r] EXCEPT !.status = "error"] ELSE review[r]]
    /\ carrier' = [w \in ReviewWorkers |->
        [carrier[w] EXCEPT !.asRead = @ /\ Status(carrier[w].on) # "queued",
                           !.moved = @ \/ carrier[w].pending]]
    /\ PeopleAfter(p, Unbusy, TRUE)
    /\ UNCHANGED <<newest, report>>

-----------------------------------------------------------------------------
(* A carrier's verdict: reviewVersion *)

\* The row: only a pending one is judged.
ReadPendingListing(p) ==
    /\ person[p].pc = "idle"
    /\ listing = "pending"
    /\ \E next \in {"judge", "reject"} : PeopleAfter(p, [Unbusy EXCEPT !.pc = next], FALSE)
    /\ UNCHANGED <<listing, review, newest, report, carrier>>

\* bug: a run that has not finished does not hold the version.
HeldBackByBlock == newest = None \/ report = "block"

\* globalStagesHold: no run, one that has not finished, or a block on record.
HeldBack == newest = None \/ Open(newest) \/ report = "block"

JudgeStages(p) ==
    /\ person[p].pc = "judge"
    /\ PeopleAfter(p, IF HeldBack THEN Unbusy ELSE [person[p] EXCEPT !.pc = "approve"], FALSE)
    /\ UNCHANGED <<listing, review, newest, report, carrier>>

\* decideListing: by id.
WriteVerdict(p) ==
    /\ person[p].pc \in {"approve", "reject"}
    /\ listing' = IF person[p].pc = "approve" THEN "approved" ELSE "rejected"
    /\ CarriersAfter(None, NoWork, None, TRUE)
    /\ PeopleAfter(p, Unbusy, TRUE)
    /\ UNCHANGED <<review, newest, report>>

-----------------------------------------------------------------------------
(* Claiming a run: claimReview, and runReviewNow *)

\* bug: a run whose worker died is left to it.
OnlyQueued(r) == Status(r) = "queued" /\ review[r].attempts < MaxReviewAttempts

Candidate(r) ==
    /\ Status(r) = "queued" \/ (Status(r) = "running" /\ review[r].stale)
    /\ review[r].attempts < MaxReviewAttempts

\* The oldest first.
PickReview(w, r) ==
    /\ carrier[w].pc = "idle"
    /\ Candidate(r)
    /\ r = newest => \A s \in ReviewRuns \ {r} : ~Candidate(s)
    /\ carrier' = [carrier EXCEPT ![w] = [NoWork EXCEPT !.pc = "picked", !.on = r, !.asRead = TRUE]]
    /\ UNCHANGED <<listing, review, newest, report, person>>

Begun(r) == [status |-> "running", stale |-> FALSE,
             attempts |-> IF review[r].attempts > MaxReviewAttempts THEN review[r].attempts ELSE review[r].attempts + 1]

\* The conditional update; a candidate that has moved is passed over.
ClaimReview(w) ==
    /\ carrier[w].pc = "picked"
    /\ IF carrier[w].asRead
       THEN /\ review' = [review EXCEPT ![carrier[w].on] = Begun(carrier[w].on)]
            /\ CarriersAfter(w, [NoWork EXCEPT !.pc = "read", !.on = carrier[w].on], carrier[w].on, FALSE)
       ELSE /\ carrier' = [carrier EXCEPT ![w] = NoWork]
            /\ UNCHANGED review
    /\ UNCHANGED <<listing, newest, report, person>>

\* A reviewer asks for the review now: the one that is waiting, or a new one.
AskReview(w) ==
    /\ carrier[w].pc = "idle"
    /\ listing \in {"pending", "approved"}
    /\ carrier' = [carrier EXCEPT ![w] = [NoWork EXCEPT !.pc = "look"]]
    /\ UNCHANGED <<listing, review, newest, report, person>>

LookForReview(w) ==
    /\ carrier[w].pc = "look"
    /\ IF Waiting = {} THEN carrier' = [carrier EXCEPT ![w].pc = "queue"]
       ELSE \E r \in Waiting : carrier' = [carrier EXCEPT ![w].pc = "take", ![w].on = r]
    /\ UNCHANGED <<listing, review, newest, report, person>>

QueueOwn(w) ==
    /\ carrier[w].pc = "queue"
    /\ \E r \in ReviewRuns :
        /\ QueuedRun(r)
        /\ CarriersAfter(w, [NoWork EXCEPT !.pc = "take", !.on = r], None, TRUE)
    /\ PeopleAfter(None, Unbusy, TRUE)
    /\ UNCHANGED <<listing, report>>

\* Only a queued one is taken, whatever its attempts; any other is busy.
TakeQueued(w) ==
    /\ carrier[w].pc = "take"
    /\ IF Status(carrier[w].on) = "queued"
       THEN /\ review' = [review EXCEPT ![carrier[w].on] = Begun(carrier[w].on)]
            /\ CarriersAfter(w, [NoWork EXCEPT !.pc = "read", !.on = carrier[w].on], carrier[w].on, FALSE)
       ELSE /\ carrier' = [carrier EXCEPT ![w] = NoWork]
            /\ UNCHANGED review
    /\ UNCHANGED <<listing, newest, report, person>>

-----------------------------------------------------------------------------
(* Running it: runReview *)

\* The row, then the version: the listing is not read again.
ReadVersion(w) ==
    /\ carrier[w].pc = "read"
    /\ carrier' = [carrier EXCEPT ![w] = [NoWork EXCEPT !.pc = "stages", !.on = carrier[w].on,
                                        !.pending = listing = "pending",
                                        !.last = review[carrier[w].on].attempts >= MaxReviewAttempts]]
    /\ UNCHANGED <<listing, review, newest, report, person>>

\* The model's read, then the browser's: on record are a block, none, or that the
\* browser did not run, which blocks nothing and clears nothing.
RecordStages(w) ==
    /\ carrier[w].pc = "stages"
    /\ \E found \in {"clear", "block"}, ran \in BOOLEAN :
        /\ report' = found
        /\ CarriersAfter(w, [carrier[w] EXCEPT !.pc = "finish", !.clear = ran /\ found = "clear"], None, TRUE)
    /\ PeopleAfter(None, Unbusy, TRUE)
    /\ UNCHANGED <<listing, review, newest>>

\* bug: whatever the listing was.
WasAny(w) == TRUE

\* Only a listing that was pending when the run began.
WasPending(w) == carrier[w].pending

\* By id, whoever holds the row by now.
FinishReview(w) ==
    /\ carrier[w].pc = "finish"
    /\ review' = [review EXCEPT ![carrier[w].on] = [@ EXCEPT !.status = "done", !.stale = FALSE]]
    /\ CarriersAfter(w, IF carrier[w].clear /\ WasPending(w) THEN [carrier[w] EXCEPT !.pc = "approve"] ELSE NoWork, carrier[w].on, TRUE)
    /\ PeopleAfter(None, Unbusy, TRUE)
    /\ UNCHANGED <<listing, newest, report>>

\* shouldAutoApprove: a verified publisher, an earlier listed version, nothing new asked.
AutoApprove(w) ==
    /\ carrier[w].pc = "approve"
    /\ listing' = "approved"
    /\ CarriersAfter(w, NoWork, None, TRUE)
    /\ PeopleAfter(None, Unbusy, TRUE)
    /\ UNCHANGED <<review, newest, report>>

LeaveToReviewer(w) ==
    /\ carrier[w].pc = "approve"
    /\ carrier' = [carrier EXCEPT ![w] = NoWork]
    /\ UNCHANGED <<listing, review, newest, report, person>>

\* A honeypot that cannot be made, a database error: also after the run was finished.
ReviewThrows(w) ==
    /\ "throw" \in ReviewFaults
    /\ carrier[w].pc \in {"stages", "finish", "approve"}
    /\ carrier' = [carrier EXCEPT ![w] = [NoWork EXCEPT !.pc = "putback", !.on = carrier[w].on, !.last = carrier[w].last]]
    /\ UNCHANGED <<listing, review, newest, report, person>>

\* It has tries left.
TriesLeft(w) == ~carrier[w].last

PutBack(w) ==
    /\ carrier[w].pc = "putback"
    /\ review' = [review EXCEPT ![carrier[w].on] =
                    [@ EXCEPT !.status = IF TriesLeft(w) THEN "queued" ELSE "error", !.stale = FALSE]]
    /\ CarriersAfter(w, NoWork, carrier[w].on, TRUE)
    /\ PeopleAfter(None, Unbusy, TRUE)
    /\ UNCHANGED <<listing, newest, report>>

-----------------------------------------------------------------------------
(* Time and faults *)

Carried(r) == \E w \in ReviewWorkers : carrier[w].on = r /\ carrier[w].pc \in {"read", "stages", "finish", "approve", "putback"}

\* STALE_RUN_MS have passed, which a live run does not reach unless it is slow.
RunGoesStale(r) ==
    /\ Status(r) = "running" /\ ~review[r].stale
    /\ Carried(r) => "slow" \in ReviewFaults
    /\ review' = [review EXCEPT ![r].stale = TRUE]
    /\ UNCHANGED <<listing, newest, report, carrier, person>>

\* A tick that dies before its claim leaves nothing behind: the next picks the same run.
ReviewDies(w) ==
    /\ "die" \in ReviewFaults
    /\ carrier[w].pc \notin {"idle", "picked"}
    /\ carrier' = [carrier EXCEPT ![w] = NoWork]
    /\ UNCHANGED <<listing, review, newest, report, person>>

ReviewerStep(w) ==
    \/ w \in ReviewTicks /\ \E r \in ReviewRuns : PickReview(w, r)
    \/ ClaimReview(w) \/ LookForReview(w) \/ QueueOwn(w) \/ TakeQueued(w)
    \/ ReadVersion(w) \/ RecordStages(w) \/ FinishReview(w) \/ AutoApprove(w) \/ LeaveToReviewer(w) \/ PutBack(w)

PersonStep(p) ==
    \/ ReadOffer(p) \/ RequestListing(p) \/ ReadAsked(p) \/ Cosign(p) \/ LookForWaiting(p) \/ QueueReview(p)
    \/ ReadWithdraw(p) \/ Withdraw(p) \/ ReadPendingListing(p) \/ JudgeStages(p) \/ WriteVerdict(p)

ReviewNext ==
    \/ \E w \in ReviewWorkers : ReviewerStep(w) \/ ReviewThrows(w) \/ ReviewDies(w)
    \/ \E w \in Reviewers : AskReview(w)
    \/ \E p \in People : PersonStep(p)
    \/ \E r \in ReviewRuns : RunGoesStale(r)

ReviewSpec == ReviewInit /\ [][ReviewNext]_reviewVars

ReviewFairness ==
    /\ \A w \in ReviewWorkers : WF_reviewVars(ReviewerStep(w))
    /\ \A r \in ReviewRuns : WF_reviewVars(RunGoesStale(r))

ReviewFairSpec == ReviewSpec /\ ReviewFairness

-----------------------------------------------------------------------------
(* Properties *)

\* A version goes onto the shelf from a pending listing whose last review found nothing
\* that blocks it, or was given up ("never before the stages have run", run.ts); unless
\* what the decision rests on was written between its read and its write: a run decides
\* by the listing it read before its stages, a reviewer by a row read some queries ago.
ListedOnItsReview ==
    [][listing # "approved" /\ listing' = "approved" =>
        \/ \E w \in ReviewWorkers :
            /\ AutoApprove(w)
            /\ carrier[w].moved \/ (listing = "pending" /\ report = "clear")
        \/ \E p \in People :
            /\ WriteVerdict(p)
            /\ \/ person[p].moved
               \/ /\ listing = "pending" /\ ~Open(newest)
                  /\ report = "clear" \/ (report = "none" /\ Status(newest) = "error")]_reviewVars

\* Open, out of attempts, and with nobody at it: neither the tick nor a carrier's request
\* begins it again, unless it is queued and a reviewer asks.
Hung(r) == Open(r) /\ review[r].attempts >= MaxReviewAttempts /\ ~Carried(r)

\* A queued review is brought to its end, or given up for good: by a death in its last
\* attempt, or by a late worker that puts it back when its attempts are gone.
ReviewsEnd == \A r \in ReviewRuns : Status(r) = "queued" ~> ~Open(r) \/ Hung(r)
=============================================================================
