------------------------ MODULE ToolConnectorProofs ------------------------
(***************************************************************************)
(* What the review of a Tool's version and the renewal of a connection's   *)
(* token keep, for any number of workers, people and runs.                 *)
(***************************************************************************)
EXTENDS ToolReviews, ConnectorTokens, TLAPS

-----------------------------------------------------------------------------
(* The invariant of the review *)

\* A worker that holds a run holds a row, and does nothing else without one.
HoldsARow(w) ==
    /\ carrier[w].on # None => review[carrier[w].on] # None
    /\ carrier[w].pc \in {"picked", "take", "read", "stages", "finish", "approve", "putback"} => carrier[w].on # None

\* A candidate that nobody has moved is still open.
PickStands(w) == carrier[w].pc = "picked" /\ carrier[w].asRead => Open(carrier[w].on)

\* A run with stages behind it has left a report.
Reported(w) ==
    /\ carrier[w].pc = "stages" => ~carrier[w].clear
    /\ carrier[w].pc \in {"finish", "approve"} => report # "none"
    /\ carrier[w].pc = "approve" => carrier[w].pending /\ carrier[w].clear

\* What a run decides by is still so, until something it decides by is written.
CarrierSees(w) ==
    carrier[w].pc \in {"stages", "finish", "approve"} /\ carrier[w].pending /\ ~carrier[w].moved =>
        /\ listing = "pending"
        /\ carrier[w].clear => report = "clear"

\* And so it is for a reviewer.
PersonSees(p) ==
    ~person[p].moved =>
        /\ person[p].pc \in {"judge", "approve"} => listing = "pending"
        /\ person[p].pc = "approve" => ~HeldBack

\* A review that is done has left its report.
DoneIsReported == report = "none" => \A r \in ReviewRuns : Status(r) # "done"

CarriersHold == \A w \in ReviewWorkers : HoldsARow(w) /\ PickStands(w) /\ Reported(w) /\ CarrierSees(w)

PeopleHold == \A p \in People : PersonSees(p)

ReviewInv == ReviewTypeOK /\ CarriersHold /\ PeopleHold /\ DoneIsReported

-----------------------------------------------------------------------------
(* What its steps leave behind *)

\* A worker at rest has a well-typed record.
LEMMA NoWorkFields ==
    /\ NoWork \in CarrierRecord
    /\ NoWork.pc = "idle" /\ NoWork.on = None
    /\ NoWork.asRead = FALSE /\ NoWork.moved = FALSE /\ NoWork.pending = FALSE /\ NoWork.clear = FALSE
BY DEF NoWork, CarrierRecord

\* A record from which something has been taken: what it read of a row, or of a verdict.
Lost(c, d) ==
    /\ d.pc = c.pc /\ d.on = c.on
    /\ d.asRead => c.asRead
    /\ c.moved => d.moved
    /\ d.pending => c.pending
    /\ d.clear => c.clear
    /\ c.pending => d.pending
    /\ c.clear => d.clear

\* Another's write of what a verdict rests on overtakes who has read it.
LEMMA LostToAVerdict ==
    ASSUME NEW c \in CarrierRecord, NEW r
    PROVE  LET d == [c EXCEPT !.asRead = @ /\ c.on # r, !.moved = @ \/ (TRUE /\ c.pending)]
           IN  d \in CarrierRecord /\ Lost(c, d) /\ (d.asRead => c.on # r) /\ (c.pending => d.moved)
<1> DEFINE d == [c EXCEPT !.asRead = @ /\ c.on # r, !.moved = @ \/ (TRUE /\ c.pending)]
<1>1. d \in CarrierRecord
      BY DEF CarrierRecord
<1>2. d.pc = c.pc /\ d.on = c.on
      BY DEF CarrierRecord
<1>3. d.asRead = (c.asRead /\ c.on # r) /\ d.moved = (c.moved \/ (TRUE /\ c.pending))
      BY DEF CarrierRecord
<1>4. d.pending = c.pending /\ d.clear = c.clear
      BY DEF CarrierRecord
<1> HIDE DEF d
<1>5. Lost(c, d) /\ (d.asRead => c.on # r) /\ (c.pending => d.moved)
      BY Zenon, <1>2, <1>3, <1>4 DEF Lost
<1> QED BY <1>1, <1>5 DEF d

\* A claim only ends what others have read of its row.
LEMMA LostToAClaim ==
    ASSUME NEW c \in CarrierRecord, NEW r
    PROVE  LET d == [c EXCEPT !.asRead = @ /\ c.on # r, !.moved = @ \/ (FALSE /\ c.pending)]
           IN  d \in CarrierRecord /\ Lost(c, d) /\ (d.asRead => c.on # r)
<1> DEFINE d == [c EXCEPT !.asRead = @ /\ c.on # r, !.moved = @ \/ (FALSE /\ c.pending)]
<1>1. d \in CarrierRecord
      BY DEF CarrierRecord
<1>2. d.pc = c.pc /\ d.on = c.on
      BY DEF CarrierRecord
<1>3. d.asRead = (c.asRead /\ c.on # r) /\ d.moved = (c.moved \/ (FALSE /\ c.pending))
      BY DEF CarrierRecord
<1>4. d.pending = c.pending /\ d.clear = c.clear
      BY DEF CarrierRecord
<1> HIDE DEF d
<1>5. Lost(c, d) /\ (d.asRead => c.on # r)
      BY Zenon, <1>2, <1>3, <1>4 DEF Lost
<1> QED BY <1>1, <1>5 DEF d

\* A withdrawal ends what was read of rows nobody has begun.
LEMMA LostToAWithdrawal ==
    ASSUME NEW c \in CarrierRecord
    PROVE  LET d == [c EXCEPT !.asRead = @ /\ Status(c.on) # "queued", !.moved = @ \/ c.pending]
           IN  d \in CarrierRecord /\ Lost(c, d) /\ (d.asRead => Status(c.on) # "queued") /\ (c.pending => d.moved)
<1> DEFINE s == Status(c.on)
<1> HIDE DEF s
<1> DEFINE d == [c EXCEPT !.asRead = @ /\ s # "queued", !.moved = @ \/ c.pending]
<1>1. d \in CarrierRecord
      BY DEF CarrierRecord
<1>2. d.pc = c.pc /\ d.on = c.on
      BY DEF CarrierRecord
<1>3. d.asRead = (c.asRead /\ s # "queued") /\ d.moved = (c.moved \/ c.pending)
      BY DEF CarrierRecord
<1>4. d.pending = c.pending /\ d.clear = c.clear
      BY DEF CarrierRecord
<1> HIDE DEF d
<1>5. Lost(c, d) /\ (d.asRead => s # "queued") /\ (c.pending => d.moved)
      BY Zenon, <1>2, <1>3, <1>4 DEF Lost
<1> QED BY <1>1, <1>5 DEF d, s

\* What a person has read, after a verdict.
LEMMA PersonOvertaken ==
    ASSUME NEW q \in PersonRecord
    PROVE  LET d == [q EXCEPT !.moved = @ \/ (TRUE /\ q.pc \in {"judge", "approve"})]
           IN  d \in PersonRecord /\ d.pc = q.pc /\ (q.pc \in {"judge", "approve"} => d.moved = TRUE)
BY DEF PersonRecord

\* A read does not overtake anyone.
LEMMA PersonAlone ==
    ASSUME NEW q \in PersonRecord
    PROVE  LET d == [q EXCEPT !.moved = @ \/ (FALSE /\ q.pc \in {"judge", "approve"})]
           IN  d \in PersonRecord /\ d.pc = q.pc /\ d.moved = q.moved
BY DEF PersonRecord

\* The workers after such a write: one has moved, the others have been overtaken.
LEMMA CarriersAfterVerdict ==
    ASSUME carrier \in [ReviewWorkers -> CarrierRecord], NEW x, NEW mine \in CarrierRecord, NEW r,
           CarriersAfter(x, mine, r, TRUE)
    PROVE  /\ carrier' \in [ReviewWorkers -> CarrierRecord]
           /\ x \in ReviewWorkers => carrier'[x] = mine
           /\ \A v \in ReviewWorkers \ {x} :
                /\ Lost(carrier[v], carrier'[v])
                /\ carrier'[v].asRead => carrier[v].on # r
                /\ carrier[v].pending => carrier'[v].moved
<1>1. ASSUME NEW v \in ReviewWorkers \ {x}
      PROVE  /\ carrier'[v] \in CarrierRecord /\ Lost(carrier[v], carrier'[v])
             /\ carrier'[v].asRead => carrier[v].on # r
             /\ carrier[v].pending => carrier'[v].moved
  <2>1. carrier[v] \in CarrierRecord
        OBVIOUS
  <2> DEFINE d == [carrier[v] EXCEPT !.asRead = @ /\ carrier[v].on # r, !.moved = @ \/ (TRUE /\ carrier[v].pending)]
  <2>2. carrier'[v] = d
        BY DEF CarriersAfter
  <2>3. /\ d \in CarrierRecord /\ Lost(carrier[v], d)
        /\ (d.asRead => carrier[v].on # r) /\ (carrier[v].pending => d.moved)
        BY <2>1, LostToAVerdict
  <2> HIDE DEF d
  <2> QED BY <2>2, <2>3
<1>2. x \in ReviewWorkers => carrier'[x] = mine
      BY DEF CarriersAfter
<1>3. carrier' \in [ReviewWorkers -> CarrierRecord]
  <2>1. carrier' = [v \in ReviewWorkers |-> carrier'[v]]
        BY DEF CarriersAfter
  <2>2. \A v \in ReviewWorkers : carrier'[v] \in CarrierRecord
        BY <1>1, <1>2
  <2> QED BY Zenon, <2>1, <2>2
<1> QED BY <1>1, <1>2, <1>3

\* The workers after a claim.
LEMMA CarriersAfterClaim ==
    ASSUME carrier \in [ReviewWorkers -> CarrierRecord], NEW x, NEW mine \in CarrierRecord, NEW r,
           CarriersAfter(x, mine, r, FALSE)
    PROVE  /\ carrier' \in [ReviewWorkers -> CarrierRecord]
           /\ x \in ReviewWorkers => carrier'[x] = mine
           /\ \A v \in ReviewWorkers \ {x} :
                /\ Lost(carrier[v], carrier'[v])
                /\ carrier'[v].asRead => carrier[v].on # r
<1>1. ASSUME NEW v \in ReviewWorkers \ {x}
      PROVE  /\ carrier'[v] \in CarrierRecord /\ Lost(carrier[v], carrier'[v])
             /\ carrier'[v].asRead => carrier[v].on # r
  <2>1. carrier[v] \in CarrierRecord
        OBVIOUS
  <2>2. carrier'[v] = [carrier[v] EXCEPT !.asRead = @ /\ carrier[v].on # r, !.moved = @ \/ (FALSE /\ carrier[v].pending)]
        BY DEF CarriersAfter
  <2> QED BY Zenon, <2>1, <2>2, LostToAClaim
<1>2. x \in ReviewWorkers => carrier'[x] = mine
      BY DEF CarriersAfter
<1>3. carrier' \in [ReviewWorkers -> CarrierRecord]
  <2>1. carrier' = [v \in ReviewWorkers |-> carrier'[v]]
        BY DEF CarriersAfter
  <2>2. \A v \in ReviewWorkers : carrier'[v] \in CarrierRecord
        BY <1>1, <1>2
  <2> QED BY Zenon, <2>1, <2>2
<1> QED BY <1>1, <1>2, <1>3

\* The people after a write: whoever is at a verdict has been overtaken.
LEMMA PeopleAfterVerdict ==
    ASSUME person \in [People -> PersonRecord], NEW x, NEW mine \in PersonRecord,
           PeopleAfter(x, mine, TRUE)
    PROVE  /\ person' \in [People -> PersonRecord]
           /\ x \in People => person'[x] = mine
           /\ \A q \in People \ {x} : person'[q].pc \in {"judge", "approve"} => person'[q].moved
<1>1. ASSUME NEW q \in People \ {x}
      PROVE  person'[q] \in PersonRecord /\ (person'[q].pc \in {"judge", "approve"} => person'[q].moved)
  <2>1. person[q] \in PersonRecord
        OBVIOUS
  <2> DEFINE d == [person[q] EXCEPT !.moved = @ \/ (TRUE /\ person[q].pc \in {"judge", "approve"})]
  <2>2. person'[q] = d
        BY DEF PeopleAfter
  <2>3. d \in PersonRecord /\ d.pc = person[q].pc /\ (person[q].pc \in {"judge", "approve"} => d.moved = TRUE)
        BY <2>1, PersonOvertaken
  <2> HIDE DEF d
  <2> QED BY <2>2, <2>3
<1>2. x \in People => person'[x] = mine
      BY DEF PeopleAfter
<1>3. person' \in [People -> PersonRecord]
  <2>1. person' = [q \in People |-> person'[q]]
        BY DEF PeopleAfter
  <2>2. \A q \in People : person'[q] \in PersonRecord
        BY <1>1, <1>2
  <2> QED BY Zenon, <2>1, <2>2
<1> QED BY <1>1, <1>2, <1>3

\* The people after a read.
LEMMA PeopleAfterRead ==
    ASSUME person \in [People -> PersonRecord], NEW x, NEW mine \in PersonRecord,
           PeopleAfter(x, mine, FALSE)
    PROVE  /\ person' \in [People -> PersonRecord]
           /\ x \in People => person'[x] = mine
           /\ \A q \in People \ {x} : person'[q].pc = person[q].pc /\ person'[q].moved = person[q].moved
<1>1. ASSUME NEW q \in People \ {x}
      PROVE  person'[q] \in PersonRecord /\ person'[q].pc = person[q].pc /\ person'[q].moved = person[q].moved
  <2>1. person[q] \in PersonRecord
        OBVIOUS
  <2>2. person'[q] = [person[q] EXCEPT !.moved = @ \/ (FALSE /\ person[q].pc \in {"judge", "approve"})]
        BY DEF PeopleAfter
  <2> QED BY <2>1, <2>2, PersonAlone
<1>2. x \in People => person'[x] = mine
      BY DEF PeopleAfter
<1>3. person' \in [People -> PersonRecord]
  <2>1. person' = [q \in People |-> person'[q]]
        BY DEF PeopleAfter
  <2>2. \A q \in People : person'[q] \in PersonRecord
        BY <1>1, <1>2
  <2> QED BY Zenon, <2>1, <2>2
<1> QED BY <1>1, <1>2, <1>3

-----------------------------------------------------------------------------

WorkerKept(w) == HoldsARow(w) /\ PickStands(w) /\ Reported(w) /\ CarrierSees(w)

\* No row is ever taken away.
RowsStay == \A r \in ReviewRuns : review[r] # None => review'[r] # None

\* A worker that is overtaken keeps its part of the invariant.
LEMMA LoserKept ==
    ASSUME NEW v \in ReviewWorkers, WorkerKept(v), Lost(carrier[v], carrier'[v]),
           carrier[v].on \in ReviewRuns \cup {None}, RowsStay,
           carrier[v].on # None /\ carrier'[v].asRead /\ Open(carrier[v].on) => Open(carrier[v].on)',
           report # "none" => report' # "none",
           \/ listing' = listing /\ report' = report
           \/ carrier[v].pending => carrier'[v].moved
    PROVE  WorkerKept(v)'
<1>1. HoldsARow(v)'
      BY DEF WorkerKept, HoldsARow, Lost, RowsStay
<1>2. PickStands(v)'
  <2>1. SUFFICES ASSUME carrier'[v].pc = "picked", carrier'[v].asRead PROVE Open(carrier[v].on)'
        BY Zenon DEF PickStands, Lost, Open, Status
  <2>2. carrier[v].pc = "picked" /\ carrier[v].asRead /\ carrier[v].on # None
        BY Zenon, <2>1 DEF WorkerKept, HoldsARow, Lost
  <2> QED BY Zenon, <2>1, <2>2 DEF WorkerKept, PickStands
<1>3. Reported(v)'
      BY Zenon DEF WorkerKept, Reported, Lost
<1>4. CarrierSees(v)'
      BY Zenon DEF WorkerKept, CarrierSees, Lost
<1> QED BY <1>1, <1>2, <1>3, <1>4 DEF WorkerKept

\* A worker that nothing touches, and the tables as they were.
LEMMA BystanderKept ==
    ASSUME NEW v \in ReviewWorkers, WorkerKept(v), carrier'[v] = carrier[v], UNCHANGED <<listing, review, report>>
    PROVE  WorkerKept(v)'
BY Zenon DEF WorkerKept, HoldsARow, PickStands, Reported, CarrierSees, Open, Status

\* After a write every person's part holds: who is at a verdict has been overtaken.
LEMMA PeopleAfterWrite ==
    ASSUME person \in [People -> PersonRecord], NEW x, NEW mine \in PersonRecord,
           mine.pc \notin {"judge", "approve"}, PeopleAfter(x, mine, TRUE)
    PROVE  person' \in [People -> PersonRecord] /\ PeopleHold'
<1>1. /\ person' \in [People -> PersonRecord]
      /\ x \in People => person'[x] = mine
      /\ \A q \in People \ {x} : person'[q].pc \in {"judge", "approve"} => person'[q].moved
      BY PeopleAfterVerdict
<1>2. ASSUME NEW q \in People PROVE PersonSees(q)'
  <2>1. person'[q].pc \in {"judge", "approve"} => person'[q].moved
        BY <1>1
  <2> QED BY Zenon, <2>1 DEF PersonSees
<1> QED BY <1>1, <1>2 DEF PeopleHold

\* And it holds while what a verdict rests on stands.
LEMMA PeopleUntouched ==
    ASSUME PeopleHold, person' = person, listing' = listing, newest' = newest, report' = report,
           newest # None => (Open(newest)' => Open(newest))
    PROVE  PeopleHold'
<1>1. HeldBack' => HeldBack
      BY DEF HeldBack
<1> QED BY Zenon, <1>1 DEF PeopleHold, PersonSees

\* The records of people are well typed.
LEMMA UnbusyType ==
    /\ Unbusy \in PersonRecord /\ Unbusy.pc = "idle"
    /\ \A c \in {"request", "cosign", "takeback", "look", "queue", "judge", "approve", "reject", "withdraw"} :
         [Unbusy EXCEPT !.pc = c] \in PersonRecord /\ [Unbusy EXCEPT !.pc = c].pc = c
BY DEF Unbusy, PersonRecord

\* A row of the queue stays well typed, and is never taken for a missing one.
LEMMA RowType ==
    ASSUME NEW c \in ReviewRow
    PROVE  /\ c # None /\ c.status \in {"queued", "running", "done", "error"}
           /\ \A s \in {"queued", "running", "done", "error"} :
                /\ [c EXCEPT !.status = s] \in ReviewRow /\ [c EXCEPT !.status = s].status = s
                /\ [c EXCEPT !.status = s, !.stale = FALSE] \in ReviewRow /\ [c EXCEPT !.status = s, !.stale = FALSE].status = s
           /\ [c EXCEPT !.stale = TRUE] \in ReviewRow /\ [c EXCEPT !.stale = TRUE].status = c.status
<1>1. c # None
      BY ReviewRowAssumption
<1>2. c.status \in {"queued", "running", "done", "error"}
      BY DEF ReviewRow
<1>3. \A s \in {"queued", "running", "done", "error"} :
        /\ [c EXCEPT !.status = s] \in ReviewRow /\ [c EXCEPT !.status = s].status = s
        /\ [c EXCEPT !.status = s, !.stale = FALSE] \in ReviewRow /\ [c EXCEPT !.status = s, !.stale = FALSE].status = s
      BY DEF ReviewRow
<1>4. [c EXCEPT !.stale = TRUE] \in ReviewRow /\ [c EXCEPT !.stale = TRUE].status = c.status
      BY DEF ReviewRow
<1> QED BY <1>1, <1>2, <1>3, <1>4

\* A claim makes a row that runs.
LEMMA BegunType ==
    ASSUME NEW r, review[r] \in ReviewRow
    PROVE  Begun(r) \in ReviewRow /\ Begun(r).status = "running"
<1>1. review[r].attempts \in 0..(MaxReviewAttempts + 1)
      BY DEF ReviewRow
<1> QED BY <1>1, ReviewAssumption DEF Begun, ReviewRow

\* A request makes one that is queued.
LEMMA QueuedType ==
    LET c == [status |-> "queued", stale |-> FALSE, attempts |-> 0]
    IN  c \in ReviewRow /\ c.status = "queued" /\ c # None
<1>1. [status |-> "queued", stale |-> FALSE, attempts |-> 0] \in ReviewRow
      BY ReviewAssumption DEF ReviewRow
<1> QED BY <1>1, ReviewRowAssumption

\* What a write of one row does to the table.
LEMMA RowWrittenTo ==
    ASSUME review \in [ReviewRuns -> ReviewRow \cup {None}], NEW r \in ReviewRuns, NEW c \in ReviewRow,
           review' = [review EXCEPT ![r] = c]
    PROVE  /\ review' \in [ReviewRuns -> ReviewRow \cup {None}]
           /\ RowsStay
           /\ review'[r] # None
           /\ Status(r)' = c.status
           /\ \A s \in ReviewRuns \ {r} : review'[s] = review[s] /\ Status(s)' = Status(s)
           /\ Open(r)' <=> c.status \in {"queued", "running"}
           /\ \A s \in ReviewRuns \ {r} : (Open(s)' <=> Open(s))
<1>1. c # None
      BY RowType
<1>2. review' \in [ReviewRuns -> ReviewRow \cup {None}] /\ review'[r] = c /\ RowsStay
      BY <1>1 DEF RowsStay
<1>3. Status(r)' = c.status
      BY <1>1, <1>2 DEF Status
<1>4. ASSUME NEW s \in ReviewRuns \ {r} PROVE review'[s] = review[s] /\ Status(s)' = Status(s)
      BY DEF Status
<1>5. Open(r)' <=> c.status \in {"queued", "running"}
      BY <1>3 DEF Open
<1>6. ASSUME NEW s \in ReviewRuns \ {r} PROVE Open(s)' <=> Open(s)
      BY <1>4 DEF Open
<1> QED BY <1>1, <1>2, <1>3, <1>4, <1>5, <1>6

-----------------------------------------------------------------------------

\* The invariant, worker by worker and person by person.
LEMMA ReviewFacts ==
    ASSUME ReviewInv
    PROVE  /\ carrier \in [ReviewWorkers -> CarrierRecord] /\ person \in [People -> PersonRecord]
           /\ review \in [ReviewRuns -> ReviewRow \cup {None}]
           /\ \A w \in ReviewWorkers : WorkerKept(w) /\ carrier[w].on \in ReviewRuns \cup {None}
           /\ \A p \in People : PersonSees(p)
BY DEF ReviewInv, ReviewTypeOK, CarriersHold, PeopleHold, WorkerKept, CarrierRecord

\* A worker that is at nothing a run depends on.
LEMMA ResterKept ==
    ASSUME NEW w \in ReviewWorkers, carrier'[w].on = None, carrier'[w].pc \in {"idle", "look", "queue"}
    PROVE  WorkerKept(w)'
<1>1. carrier'[w].pc \notin {"picked", "take", "read", "stages", "finish", "approve", "putback"}
      OBVIOUS
<1> QED BY Zenon, <1>1 DEF WorkerKept, HoldsARow, PickStands, Reported, CarrierSees

\* One that holds a run it has not begun to judge, or will put back.
LEMMA HolderKept ==
    ASSUME NEW w \in ReviewWorkers, carrier'[w].on # None, review'[carrier'[w].on] # None,
           carrier'[w].pc \in {"take", "read", "putback"}
    PROVE  WorkerKept(w)'
<1>1. carrier'[w].pc \notin {"picked", "stages", "finish", "approve"}
      OBVIOUS
<1> QED BY Zenon, <1>1 DEF WorkerKept, HoldsARow, PickStands, Reported, CarrierSees

\* A step of one worker that writes no table.
LEMMA QuietStep ==
    ASSUME ReviewInv, NEW w \in ReviewWorkers, NEW mine \in CarrierRecord,
           carrier' = [carrier EXCEPT ![w] = mine],
           UNCHANGED <<listing, review, newest, report, person>>,
           carrier'[w] = mine => WorkerKept(w)'
    PROVE  ReviewInv'
<1>1. carrier' \in [ReviewWorkers -> CarrierRecord] /\ carrier'[w] = mine /\ \A v \in ReviewWorkers \ {w} : carrier'[v] = carrier[v]
      BY ReviewFacts
<1>2. ReviewTypeOK'
      BY <1>1 DEF ReviewInv, ReviewTypeOK
<1>3. \A v \in ReviewWorkers : WorkerKept(v)'
      BY <1>1, BystanderKept, ReviewFacts
<1>4. PeopleHold'
  <2>1. Open(newest)' => Open(newest)
        BY DEF Open, Status
  <2> QED BY <2>1, PeopleUntouched DEF ReviewInv
<1>5. DoneIsReported'
      BY DEF ReviewInv, DoneIsReported, Status
<1> QED BY <1>2, <1>3, <1>4, <1>5 DEF ReviewInv, CarriersHold, WorkerKept

\* A worker may give up at any time.
LEMMA RestKeeps ==
    ASSUME ReviewInv, NEW w \in ReviewWorkers, carrier' = [carrier EXCEPT ![w] = NoWork],
           UNCHANGED <<listing, review, newest, report, person>>
    PROVE  ReviewInv'
<1>1. carrier'[w] = NoWork => WorkerKept(w)'
      BY NoWorkFields, ResterKept
<1> QED BY <1>1, NoWorkFields, QuietStep

\* The records a step leaves behind.
LEMMA WorkTypes ==
    /\ \A c \in {"look", "queue"} :
         [NoWork EXCEPT !.pc = c] \in CarrierRecord /\ [NoWork EXCEPT !.pc = c].pc = c /\ [NoWork EXCEPT !.pc = c].on = None
    /\ \A c \in {"take", "read"}, r \in ReviewRuns :
         [NoWork EXCEPT !.pc = c, !.on = r] \in CarrierRecord /\ [NoWork EXCEPT !.pc = c, !.on = r].pc = c /\ [NoWork EXCEPT !.pc = c, !.on = r].on = r
    /\ \A r \in ReviewRuns : LET d == [NoWork EXCEPT !.pc = "picked", !.on = r, !.asRead = TRUE]
         IN d \in CarrierRecord /\ d.pc = "picked" /\ d.on = r
BY DEF NoWork, CarrierRecord

\* Who picks a candidate has read an open row.
LEMMA PickKeeps ==
    ASSUME ReviewInv, NEW w \in ReviewWorkers, NEW r \in ReviewRuns, PickReview(w, r)
    PROVE  ReviewInv'
<1> DEFINE mine == [NoWork EXCEPT !.pc = "picked", !.on = r, !.asRead = TRUE]
<1>1. mine \in CarrierRecord /\ mine.pc = "picked" /\ mine.on = r
      BY WorkTypes
<1>2. carrier' = [carrier EXCEPT ![w] = mine] /\ UNCHANGED <<listing, review, newest, report, person>> /\ Open(r)
      BY DEF PickReview, Candidate, Open
<1> HIDE DEF mine
<1>3. ASSUME carrier'[w] = mine PROVE WorkerKept(w)'
  <2>1. Open(r)' /\ review'[r] # None
        BY <1>2 DEF Open, Status
  <2>2. carrier'[w].pc = "picked" /\ carrier'[w].on = r /\ r # None
        BY <1>1, <1>3, ReviewAssumption
  <2>3. Open(carrier[w].on)'
        BY <2>1, <2>2 DEF Open, Status
  <2>4. HoldsARow(w)' /\ PickStands(w)'
        BY Zenon, <2>1, <2>2, <2>3 DEF HoldsARow, PickStands
  <2>5. carrier'[w].pc \notin {"stages", "finish", "approve"}
        BY <2>2
  <2>6. Reported(w)' /\ CarrierSees(w)'
        BY Zenon, <2>5 DEF Reported, CarrierSees
  <2> QED BY <2>4, <2>6 DEF WorkerKept
<1> QED BY <1>1, <1>2, <1>3, QuietStep

\* A reviewer asks for a review.
LEMMA ReviewAskKeeps ==
    ASSUME ReviewInv, NEW w \in ReviewWorkers, AskReview(w)
    PROVE  ReviewInv'
<1> DEFINE mine == [NoWork EXCEPT !.pc = "look"]
<1>1. mine \in CarrierRecord /\ mine.pc = "look" /\ mine.on = None
      BY WorkTypes
<1>2. carrier' = [carrier EXCEPT ![w] = mine] /\ UNCHANGED <<listing, review, newest, report, person>>
      BY DEF AskReview
<1>3. carrier'[w] = mine => WorkerKept(w)'
      BY <1>1, ResterKept
<1> QED BY <1>1, <1>2, <1>3, QuietStep

\* And takes one that waits, or none.
LEMMA LookKeeps ==
    ASSUME ReviewInv, NEW w \in ReviewWorkers, LookForReview(w)
    PROVE  ReviewInv'
<1>1. carrier[w].pc = "look" /\ UNCHANGED <<listing, review, newest, report, person>> /\ carrier[w] \in CarrierRecord
      BY ReviewFacts DEF LookForReview
<1>2. CASE carrier' = [carrier EXCEPT ![w].pc = "queue"]
  <2> DEFINE mine == [carrier[w] EXCEPT !.pc = "queue"]
  <2>1. mine \in CarrierRecord /\ mine.pc = "queue" /\ mine.on = carrier[w].on
        BY <1>1 DEF CarrierRecord
  <2>2. carrier' = [carrier EXCEPT ![w] = mine]
        BY <1>2
  <2> HIDE DEF mine
  <2>3. ASSUME carrier'[w] = mine PROVE WorkerKept(w)'
    <3>1. carrier'[w].pc = "queue" /\ carrier'[w].on = carrier[w].on
          BY <2>1, <2>3
    <3>2. carrier'[w].pc \notin {"picked", "take", "read", "stages", "finish", "approve", "putback"}
          BY <3>1
    <3>3. HoldsARow(w)
          BY ReviewFacts DEF WorkerKept
    <3> QED BY Zenon, <1>1, <3>1, <3>2, <3>3 DEF WorkerKept, HoldsARow, PickStands, Reported, CarrierSees
  <2> QED BY <1>1, <2>1, <2>2, <2>3, QuietStep
<1>3. ASSUME NEW r \in Waiting, carrier' = [carrier EXCEPT ![w].pc = "take", ![w].on = r] PROVE ReviewInv'
  <2> DEFINE mine == [carrier[w] EXCEPT !.pc = "take", !.on = r]
  <2>1. r \in ReviewRuns /\ Open(r) /\ r # None
        BY ReviewAssumption DEF Waiting
  <2>2. mine \in CarrierRecord /\ mine.pc = "take" /\ mine.on = r
        BY <1>1, <2>1 DEF CarrierRecord
  <2>3. carrier' = [carrier EXCEPT ![w] = mine]
        BY <1>3, ReviewFacts
  <2> HIDE DEF mine
  <2>4. carrier'[w] = mine => WorkerKept(w)'
        BY <1>1, <2>1, <2>2, HolderKept DEF Open, Status
  <2> QED BY <1>1, <2>2, <2>3, <2>4, QuietStep
<1> QED BY <1>2, <1>3 DEF LookForReview

\* The run reads whether the listing is pending.
LEMMA ReadKeepsReview ==
    ASSUME ReviewInv, NEW w \in ReviewWorkers, ReadVersion(w)
    PROVE  ReviewInv'
<1> DEFINE o == carrier[w].on
           sees == listing = "pending"
           tried == review[o].attempts >= MaxReviewAttempts
           mine == [NoWork EXCEPT !.pc = "stages", !.on = o, !.pending = sees, !.last = tried]
<1>1. o \in ReviewRuns /\ o # None /\ review[o] # None
      BY ReviewFacts DEF ReadVersion, WorkerKept, HoldsARow
<1>2. mine \in CarrierRecord /\ mine.pc = "stages" /\ mine.on = o /\ mine.pending = sees /\ mine.clear = FALSE
  <2>1. sees \in BOOLEAN /\ tried \in BOOLEAN
        OBVIOUS
  <2> HIDE DEF sees, tried, o
  <2> QED BY <1>1, <2>1 DEF NoWork, CarrierRecord
<1>3. carrier' = [carrier EXCEPT ![w] = mine] /\ UNCHANGED <<listing, review, newest, report, person>>
      BY DEF ReadVersion
<1> HIDE DEF mine
<1>4. ASSUME carrier'[w] = mine PROVE WorkerKept(w)'
  <2>1. carrier'[w].pc = "stages" /\ carrier'[w].on = o /\ review'[o] # None
        BY <1>1, <1>2, <1>3, <1>4
  <2>2. carrier'[w].pending => listing' = "pending"
        BY <1>2, <1>3, <1>4
  <2>3. ~carrier'[w].clear
        BY <1>2, <1>4
  <2>4. carrier'[w].on # None /\ review'[carrier'[w].on] # None
        BY <1>1, <2>1
  <2>5. carrier'[w].pc \notin {"picked", "finish", "approve"}
        BY <2>1
  <2>6. HoldsARow(w)' /\ PickStands(w)' /\ Reported(w)'
        BY Zenon, <2>3, <2>4, <2>5 DEF HoldsARow, PickStands, Reported
  <2>7. CarrierSees(w)'
        BY Zenon, <2>2, <2>3 DEF CarrierSees
  <2> QED BY <2>6, <2>7 DEF WorkerKept
<1> QED BY <1>2, <1>3, <1>4, QuietStep

\* A run that throws goes on to put its row back.
LEMMA ThrowKeeps ==
    ASSUME ReviewInv, NEW w \in ReviewWorkers, ReviewThrows(w)
    PROVE  ReviewInv'
<1> DEFINE o == carrier[w].on
           mine == [NoWork EXCEPT !.pc = "putback", !.on = o, !.last = carrier[w].last]
<1>1. o \in ReviewRuns /\ o # None /\ review[o] # None /\ carrier[w].last \in BOOLEAN
      BY ReviewFacts DEF ReviewThrows, WorkerKept, HoldsARow, CarrierRecord
<1>2. mine \in CarrierRecord /\ mine.pc = "putback" /\ mine.on = o
  <2> DEFINE l == carrier[w].last
  <2>1. l \in BOOLEAN
        BY <1>1
  <2> HIDE DEF l, o
  <2> QED BY <1>1, <2>1 DEF NoWork, CarrierRecord, l
<1>3. carrier' = [carrier EXCEPT ![w] = mine] /\ UNCHANGED <<listing, review, newest, report, person>>
      BY DEF ReviewThrows
<1> HIDE DEF mine
<1>4. carrier'[w] = mine => WorkerKept(w)'
      BY <1>1, <1>2, <1>3, HolderKept
<1> QED BY <1>2, <1>3, <1>4, QuietStep

-----------------------------------------------------------------------------

\* The conditional update and the take: the row goes on running, whoever else waits for it.
LEMMA BeginKeeps ==
    ASSUME ReviewInv, NEW w \in ReviewWorkers, NEW o \in ReviewRuns, review[o] # None, Open(o),
           review' = [review EXCEPT ![o] = Begun(o)],
           CarriersAfter(w, [NoWork EXCEPT !.pc = "read", !.on = o], o, FALSE),
           UNCHANGED <<listing, newest, report, person>>
    PROVE  ReviewInv'
<1> DEFINE mine == [NoWork EXCEPT !.pc = "read", !.on = o]
<1>1. mine \in CarrierRecord /\ mine.pc = "read" /\ mine.on = o /\ o # None
      BY ReviewAssumption DEF NoWork, CarrierRecord
<1>2. Begun(o) \in ReviewRow /\ Begun(o).status = "running"
      BY ReviewFacts, BegunType
<1> HIDE DEF mine
<1>3. /\ review' \in [ReviewRuns -> ReviewRow \cup {None}] /\ RowsStay /\ review'[o] # None
      /\ Status(o)' = "running" /\ Open(o)'
      /\ \A s \in ReviewRuns \ {o} : Status(s)' = Status(s) /\ (Open(s)' <=> Open(s))
      BY <1>2, RowWrittenTo, ReviewFacts
<1>4. CarriersAfter(w, mine, o, FALSE)
      BY DEF mine
<1>5. /\ carrier' \in [ReviewWorkers -> CarrierRecord] /\ carrier'[w] = mine
      /\ \A v \in ReviewWorkers \ {w} : Lost(carrier[v], carrier'[v]) /\ (carrier'[v].asRead => carrier[v].on # o)
      BY <1>1, <1>4, CarriersAfterClaim, ReviewFacts
<1>6. ReviewTypeOK'
      BY <1>3, <1>5 DEF ReviewInv, ReviewTypeOK, RowsStay
<1>7. WorkerKept(w)'
      BY <1>1, <1>3, <1>5, HolderKept
<1>8. ASSUME NEW v \in ReviewWorkers \ {w} PROVE WorkerKept(v)'
  <2>1. WorkerKept(v) /\ carrier[v].on \in ReviewRuns \cup {None}
        BY ReviewFacts
  <2>2. ASSUME NEW k \in ReviewRuns, k = carrier[v].on, Open(k) PROVE Open(carrier[v].on)'
    <3>1. Open(k)' /\ k = carrier'[v].on
          BY <1>3, <1>5, <2>2 DEF Lost
    <3> QED BY <3>1
  <2>3. carrier[v].on # None /\ Open(carrier[v].on) => Open(carrier[v].on)'
        BY <2>1, <2>2
  <2> QED BY Zenon, <1>3, <1>5, <2>1, <2>3, LoserKept
<1>9. PeopleHold'
  <2>1. newest # None => (Open(newest)' => Open(newest))
        BY <1>3 DEF ReviewInv, ReviewTypeOK
  <2> QED BY <2>1, PeopleUntouched DEF ReviewInv
<1>10. DoneIsReported'
      BY <1>3 DEF ReviewInv, DoneIsReported
<1> QED BY <1>6, <1>7, <1>8, <1>9, <1>10 DEF ReviewInv, CarriersHold, WorkerKept

\* The claim of a picked row.
LEMMA ReviewClaimKeeps ==
    ASSUME ReviewInv, NEW w \in ReviewWorkers, ClaimReview(w)
    PROVE  ReviewInv'
<1>1. carrier[w].pc = "picked" /\ UNCHANGED <<listing, newest, report, person>>
      BY DEF ClaimReview
<1>2. carrier[w].on \in ReviewRuns /\ review[carrier[w].on] # None
      BY <1>1, ReviewFacts DEF WorkerKept, HoldsARow
<1>3. CASE carrier[w].asRead
  <2>1. Open(carrier[w].on)
    <3>1. PickStands(w)
          BY ReviewFacts DEF WorkerKept
    <3> QED BY Zenon, <1>1, <1>3, <3>1 DEF PickStands
  <2>2. /\ review' = [review EXCEPT ![carrier[w].on] = Begun(carrier[w].on)]
        /\ CarriersAfter(w, [NoWork EXCEPT !.pc = "read", !.on = carrier[w].on], carrier[w].on, FALSE)
        BY Zenon, <1>3 DEF ClaimReview
  <2> QED BY <1>1, <1>2, <2>1, <2>2, BeginKeeps
<1>4. CASE ~carrier[w].asRead
  <2>1. carrier' = [carrier EXCEPT ![w] = NoWork] /\ review' = review
        BY Zenon, <1>4 DEF ClaimReview
  <2> QED BY <1>1, <2>1, RestKeeps
<1> QED BY <1>3, <1>4

\* The take of a queued one.
LEMMA TakeKeeps ==
    ASSUME ReviewInv, NEW w \in ReviewWorkers, TakeQueued(w)
    PROVE  ReviewInv'
<1>1. carrier[w].pc = "take" /\ UNCHANGED <<listing, newest, report, person>>
      BY DEF TakeQueued
<1>2. carrier[w].on \in ReviewRuns /\ review[carrier[w].on] # None
      BY <1>1, ReviewFacts DEF WorkerKept, HoldsARow
<1>3. CASE Status(carrier[w].on) = "queued"
      BY <1>1, <1>2, <1>3, BeginKeeps DEF TakeQueued, Open
<1>4. CASE Status(carrier[w].on) # "queued"
      BY <1>1, <1>4, RestKeeps DEF TakeQueued
<1> QED BY <1>3, <1>4

-----------------------------------------------------------------------------

\* A write that a verdict may rest on: who has read what it changes, has been overtaken.
LEMMA WriteStep ==
    ASSUME ReviewInv, NEW x, NEW mine \in CarrierRecord, NEW r, CarriersAfter(x, mine, r, TRUE),
           NEW y, NEW yours \in PersonRecord, yours.pc \notin {"judge", "approve"}, PeopleAfter(y, yours, TRUE),
           listing' \in {"none", "asked", "pending", "approved", "rejected", "withdrawn"},
           report' \in {"none", "clear", "block"}, report # "none" => report' # "none",
           review' \in [ReviewRuns -> ReviewRow \cup {None}], RowsStay,
           newest' \in ReviewRuns \cup {None}, newest' # None => review'[newest'] # None,
           \A k \in ReviewRuns \ {r} : Open(k) => Open(k)',
           x \in ReviewWorkers /\ carrier'[x] = mine => WorkerKept(x)',
           DoneIsReported'
    PROVE  ReviewInv'
<1>1. /\ carrier' \in [ReviewWorkers -> CarrierRecord] /\ (x \in ReviewWorkers => carrier'[x] = mine)
      /\ \A v \in ReviewWorkers \ {x} :
            /\ Lost(carrier[v], carrier'[v]) /\ (carrier'[v].asRead => carrier[v].on # r)
            /\ (carrier[v].pending => carrier'[v].moved)
      BY CarriersAfterVerdict, ReviewFacts
<1>2. person' \in [People -> PersonRecord] /\ PeopleHold'
      BY PeopleAfterWrite, ReviewFacts
<1>3. ReviewTypeOK'
      BY <1>1, <1>2 DEF ReviewTypeOK
<1>4. ASSUME NEW v \in ReviewWorkers \ {x} PROVE WorkerKept(v)'
  <2>1. WorkerKept(v) /\ carrier[v].on \in ReviewRuns \cup {None}
        BY ReviewFacts
  <2>2. ASSUME NEW k \in ReviewRuns \ {r}, k = carrier[v].on, Open(k) PROVE Open(carrier[v].on)'
    <3>1. Open(k)' /\ k = carrier'[v].on
          BY <1>1, <2>2 DEF Lost
    <3> QED BY <3>1
  <2>3. carrier[v].on # None /\ carrier'[v].asRead /\ Open(carrier[v].on) => Open(carrier[v].on)'
    <3>1. carrier'[v].asRead => carrier[v].on # r
          BY <1>1
    <3> QED BY Zenon, <2>1, <2>2, <3>1
  <2>4. Lost(carrier[v], carrier'[v]) /\ (carrier[v].pending => carrier'[v].moved)
        BY <1>1
  <2> QED BY Zenon, <2>1, <2>3, <2>4, LoserKept
<1>5. x \in ReviewWorkers => WorkerKept(x)'
      BY <1>1
<1> QED BY <1>2, <1>3, <1>4, <1>5 DEF ReviewInv, CarriersHold, WorkerKept

\* A new row is one that nobody was at.
LEMMA NewRow ==
    ASSUME ReviewInv, NEW r \in ReviewRuns, QueuedRun(r)
    PROVE  /\ review' \in [ReviewRuns -> ReviewRow \cup {None}] /\ RowsStay
           /\ newest' = r /\ review'[r] # None /\ Status(r)' = "queued"
           /\ \A k \in ReviewRuns : (Open(k) => Open(k)') /\ (Status(k)' = "done" => Status(k) = "done")
<1> DEFINE c == [status |-> "queued", stale |-> FALSE, attempts |-> 0]
<1>1. c \in ReviewRow /\ c.status = "queued"
      BY QueuedType
<1>2. review' = [review EXCEPT ![r] = c] /\ newest' = r /\ ~Open(r)
      BY DEF QueuedRun, Unheld
<1> HIDE DEF c
<1> QED BY <1>1, <1>2, RowWrittenTo, ReviewFacts

\* A reviewer's request makes a row of its own.
LEMMA QueueOwnKeeps ==
    ASSUME ReviewInv, NEW w \in ReviewWorkers, QueueOwn(w)
    PROVE  ReviewInv'
<1>1. PICK r \in ReviewRuns : QueuedRun(r) /\ CarriersAfter(w, [NoWork EXCEPT !.pc = "take", !.on = r], None, TRUE)
      BY DEF QueueOwn
<1> DEFINE mine == [NoWork EXCEPT !.pc = "take", !.on = r]
<1>2. mine \in CarrierRecord /\ mine.pc = "take" /\ mine.on = r /\ r # None
      BY ReviewAssumption DEF NoWork, CarrierRecord
<1>3. CarriersAfter(w, mine, None, TRUE)
      BY <1>1
<1> HIDE DEF mine
<1>4. PeopleAfter(None, Unbusy, TRUE) /\ listing' = listing /\ report' = report
      BY DEF QueueOwn
<1>5. /\ review' \in [ReviewRuns -> ReviewRow \cup {None}] /\ RowsStay
      /\ newest' = r /\ review'[r] # None
      /\ \A k \in ReviewRuns : (Open(k) => Open(k)') /\ (Status(k)' = "done" => Status(k) = "done")
      BY <1>1, NewRow
<1>6. carrier'[w] = mine => WorkerKept(w)'
      BY <1>2, <1>5, HolderKept
<1>7. DoneIsReported'
      BY <1>4, <1>5 DEF ReviewInv, DoneIsReported
<1>8. listing \in {"none", "asked", "pending", "approved", "rejected", "withdrawn"} /\ report \in {"none", "clear", "block"}
      BY DEF ReviewInv, ReviewTypeOK
<1>9. newest' \in ReviewRuns \cup {None} /\ review'[newest'] # None /\ Unbusy.pc \notin {"judge", "approve"}
      BY <1>5, UnbusyType
<1>10. /\ listing' \in {"none", "asked", "pending", "approved", "rejected", "withdrawn"} /\ report' \in {"none", "clear", "block"}
       /\ (report # "none" => report' # "none")
      BY <1>4, <1>8
<1>11. (newest' # None => review'[newest'] # None) /\ (w \in ReviewWorkers /\ carrier'[w] = mine => WorkerKept(w)')
       /\ \A k \in ReviewRuns \ {None} : Open(k) => Open(k)'
      BY <1>5, <1>6, <1>9
<1>12. Unbusy \in PersonRecord /\ PeopleAfter(None, Unbusy, TRUE)
      BY <1>4, UnbusyType
<1> QED BY <1>2, <1>3, <1>5, <1>7, <1>9, <1>10, <1>11, <1>12, WriteStep

\* The stages leave a report, and the run keeps what it found.
LEMMA RecordKeeps ==
    ASSUME ReviewInv, NEW w \in ReviewWorkers, RecordStages(w)
    PROVE  ReviewInv'
<1>1. PICK found \in {"clear", "block"}, ran \in BOOLEAN :
          /\ report' = found
          /\ CarriersAfter(w, [carrier[w] EXCEPT !.pc = "finish", !.clear = ran /\ found = "clear"], None, TRUE)
      BY DEF RecordStages
<1> DEFINE cl == ran /\ found = "clear"
           mine == [carrier[w] EXCEPT !.pc = "finish", !.clear = cl]
<1>2. carrier[w].pc = "stages" /\ PeopleAfter(None, Unbusy, TRUE) /\ UNCHANGED <<listing, review, newest>>
      BY DEF RecordStages
<1>3. cl \in BOOLEAN /\ (cl => report' = "clear")
      BY <1>1
<1>4. CarriersAfter(w, mine, None, TRUE)
      BY <1>1
<1> HIDE DEF cl
<1>5. /\ mine \in CarrierRecord /\ mine.pc = "finish" /\ mine.on = carrier[w].on
      /\ mine.pending = carrier[w].pending /\ mine.moved = carrier[w].moved /\ mine.clear = cl
      BY <1>3, ReviewFacts DEF CarrierRecord
<1> HIDE DEF mine
<1>6. report' \in {"clear", "block"}
      BY <1>1
<1>7. ASSUME carrier'[w] = mine PROVE WorkerKept(w)'
  <2>1. HoldsARow(w) /\ CarrierSees(w)
        BY ReviewFacts DEF WorkerKept
  <2>2. /\ carrier'[w].pc = "finish" /\ carrier'[w].on = carrier[w].on
        /\ carrier'[w].pending = carrier[w].pending /\ carrier'[w].moved = carrier[w].moved /\ carrier'[w].clear = cl
        BY <1>5, <1>7
  <2>3. HoldsARow(w)'
        BY <1>2, <2>1, <2>2 DEF HoldsARow
  <2>4. PickStands(w)' /\ Reported(w)'
        BY <1>6, <2>2 DEF PickStands, Reported
  <2>5. CarrierSees(w)'
        BY Zenon, <1>2, <1>3, <2>1, <2>2 DEF CarrierSees
  <2> QED BY <2>3, <2>4, <2>5 DEF WorkerKept
<1>8. DoneIsReported'
      BY <1>6 DEF DoneIsReported
<1>9. /\ listing' \in {"none", "asked", "pending", "approved", "rejected", "withdrawn"}
      /\ newest' \in ReviewRuns \cup {None} /\ (newest' # None => review'[newest'] # None)
      /\ review' \in [ReviewRuns -> ReviewRow \cup {None}] /\ RowsStay
      /\ Unbusy \in PersonRecord /\ Unbusy.pc \notin {"judge", "approve"}
      BY <1>2, UnbusyType DEF ReviewInv, ReviewTypeOK, RowsStay
<1>10. \A k \in ReviewRuns : Open(k) => Open(k)'
      BY <1>2 DEF Open, Status
<1> QED BY <1>2, <1>4, <1>5, <1>6, <1>7, <1>8, <1>9, <1>10, WriteStep

\* The run writes its row by id, and goes on to approve only what it found clear and
\* pending.
LEMMA ReviewFinishKeeps ==
    ASSUME ReviewInv, NEW w \in ReviewWorkers, FinishReview(w)
    PROVE  ReviewInv'
<1>0. PICK o \in ReviewRuns : o = carrier[w].on /\ o # None /\ review[o] # None
  <2>1. HoldsARow(w) /\ carrier[w].on \in ReviewRuns \cup {None} /\ carrier[w].pc = "finish"
        BY ReviewFacts DEF WorkerKept, FinishReview
  <2> QED BY <2>1 DEF HoldsARow
<1> DEFINE c == [review[o] EXCEPT !.status = "done", !.stale = FALSE]
           goes == [carrier[w] EXCEPT !.pc = "approve"]
           mine == IF carrier[w].clear /\ WasPending(w) THEN goes ELSE NoWork
<1>1. /\ carrier[w].pc = "finish" /\ UNCHANGED <<listing, newest, report>> /\ PeopleAfter(None, Unbusy, TRUE)
      /\ review' = [review EXCEPT ![o] = c] /\ CarriersAfter(w, mine, o, TRUE)
      BY <1>0 DEF FinishReview
<1>2. report # "none"
  <2>1. Reported(w)
        BY ReviewFacts DEF WorkerKept
  <2> QED BY <1>1, <2>1 DEF Reported
<1>3. c \in ReviewRow
  <2>1. review[o] \in ReviewRow
        BY <1>0, ReviewFacts
  <2> QED BY <2>1 DEF ReviewRow
<1>4. /\ goes \in CarrierRecord /\ goes.pc = "approve" /\ goes.on = o
      /\ goes.pending = carrier[w].pending /\ goes.moved = carrier[w].moved /\ goes.clear = carrier[w].clear
      BY <1>0, ReviewFacts DEF CarrierRecord
<1> HIDE DEF c, goes
<1>5. mine \in CarrierRecord
      BY Zenon, <1>4, NoWorkFields
<1>6. /\ review' \in [ReviewRuns -> ReviewRow \cup {None}] /\ RowsStay
      /\ \A k \in ReviewRuns \ {o} : Open(k) => Open(k)'
      BY <1>0, <1>1, <1>3, RowWrittenTo, ReviewFacts
<1>7. ASSUME carrier'[w] = mine PROVE WorkerKept(w)'
  <2>1. ASSUME carrier[w].clear, WasPending(w), carrier'[w] = goes PROVE WorkerKept(w)'
    <3>1. HoldsARow(w) /\ CarrierSees(w)
          BY ReviewFacts DEF WorkerKept
    <3>2. /\ carrier'[w].pc = "approve" /\ carrier'[w].on = o
          /\ carrier'[w].pending = carrier[w].pending /\ carrier'[w].moved = carrier[w].moved
          /\ carrier'[w].clear = carrier[w].clear
          BY <1>4, <2>1
    <3>3. o # None /\ review'[o] # None
          BY <1>0, <1>6 DEF RowsStay
    <3>4. HoldsARow(w)' /\ PickStands(w)'
          BY <3>2, <3>3 DEF HoldsARow, PickStands
    <3>5. Reported(w)'
          BY Zenon, <1>1, <1>2, <2>1, <3>2 DEF Reported, WasPending
    <3>6. CarrierSees(w)'
          BY Zenon, <1>1, <3>1, <3>2 DEF CarrierSees
    <3> QED BY <3>4, <3>5, <3>6 DEF WorkerKept
  <2>2. ASSUME carrier'[w] = NoWork PROVE WorkerKept(w)'
        BY <2>2, NoWorkFields, ResterKept
  <2> QED BY Zenon, <1>7, <2>1, <2>2
<1>8. DoneIsReported'
      BY <1>1, <1>2 DEF DoneIsReported
<1>9. /\ listing' \in {"none", "asked", "pending", "approved", "rejected", "withdrawn"} /\ report' \in {"none", "clear", "block"}
      /\ newest' \in ReviewRuns \cup {None} /\ (newest' # None => review'[newest'] # None)
      /\ report' # "none" /\ Unbusy \in PersonRecord /\ Unbusy.pc \notin {"judge", "approve"}
      BY <1>1, <1>2, <1>6, UnbusyType DEF ReviewInv, ReviewTypeOK, RowsStay
<1> HIDE DEF mine
<1>10. carrier'[w] = mine => WorkerKept(w)'
      BY <1>7
<1>11. CarriersAfter(w, mine, o, TRUE) /\ PeopleAfter(None, Unbusy, TRUE)
      BY <1>1
<1>12. w \in ReviewWorkers /\ carrier'[w] = mine => WorkerKept(w)'
      BY <1>10
<1> QED BY <1>5, <1>6, <1>8, <1>9, <1>11, <1>12, WriteStep

\* A run that threw leaves its row queued or given up, never done.
LEMMA PutBackKeeps ==
    ASSUME ReviewInv, NEW w \in ReviewWorkers, PutBack(w)
    PROVE  ReviewInv'
<1>0. PICK o \in ReviewRuns : o = carrier[w].on /\ review[o] # None
  <2>1. HoldsARow(w) /\ carrier[w].on \in ReviewRuns \cup {None} /\ carrier[w].pc = "putback"
        BY ReviewFacts DEF WorkerKept, PutBack
  <2> QED BY <2>1 DEF HoldsARow
<1>2. PICK s \in {"queued", "error"} : s = IF TriesLeft(w) THEN "queued" ELSE "error"
      OBVIOUS
<1> DEFINE c == [review[o] EXCEPT !.status = s, !.stale = FALSE]
<1>1. /\ carrier[w].pc = "putback" /\ UNCHANGED <<listing, newest, report>> /\ PeopleAfter(None, Unbusy, TRUE)
      /\ review' = [review EXCEPT ![o] = c] /\ CarriersAfter(w, NoWork, o, TRUE)
      BY <1>0, <1>2 DEF PutBack
<1>3. c \in ReviewRow /\ c.status = s
  <2>1. review[o] \in ReviewRow
        BY <1>0, ReviewFacts
  <2> QED BY <2>1 DEF ReviewRow
<1> HIDE DEF c
<1>5. /\ review' \in [ReviewRuns -> ReviewRow \cup {None}] /\ RowsStay
      /\ Status(o)' = s
      /\ \A k \in ReviewRuns \ {o} : (Open(k) => Open(k)') /\ Status(k)' = Status(k)
      BY <1>1, <1>3, RowWrittenTo, ReviewFacts
<1>6. carrier'[w] = NoWork => WorkerKept(w)'
      BY NoWorkFields, ResterKept
<1>7. DoneIsReported'
      BY <1>1, <1>2, <1>5 DEF ReviewInv, DoneIsReported
<1>8. /\ listing' \in {"none", "asked", "pending", "approved", "rejected", "withdrawn"} /\ report' \in {"none", "clear", "block"}
      /\ newest' \in ReviewRuns \cup {None} /\ (newest' # None => review'[newest'] # None)
      /\ report' = report /\ Unbusy \in PersonRecord /\ Unbusy.pc \notin {"judge", "approve"}
      BY <1>1, <1>5, UnbusyType DEF ReviewInv, ReviewTypeOK, RowsStay
<1> QED BY <1>1, <1>5, <1>6, <1>7, <1>8, NoWorkFields, WriteStep

\* A write of the listing alone, by a worker or a person.
LEMMA ListingWritten ==
    ASSUME ReviewInv, NEW x, CarriersAfter(x, NoWork, None, TRUE),
           NEW y, NEW yours \in PersonRecord, yours.pc \notin {"judge", "approve"}, PeopleAfter(y, yours, TRUE),
           listing' \in {"none", "asked", "pending", "approved", "rejected", "withdrawn"},
           UNCHANGED <<review, newest, report>>
    PROVE  ReviewInv'
<1>1. x \in ReviewWorkers /\ carrier'[x] = NoWork => WorkerKept(x)'
      BY NoWorkFields, ResterKept
<1>2. /\ report' \in {"none", "clear", "block"} /\ report' = report
      /\ newest' \in ReviewRuns \cup {None} /\ (newest' # None => review'[newest'] # None)
      /\ review' \in [ReviewRuns -> ReviewRow \cup {None}] /\ RowsStay
      BY DEF ReviewInv, ReviewTypeOK, RowsStay
<1>3. \A k \in ReviewRuns : Open(k) => Open(k)'
      BY DEF Open, Status
<1>4. DoneIsReported'
      BY DEF ReviewInv, DoneIsReported, Status
<1> QED BY <1>1, <1>2, <1>3, <1>4, NoWorkFields, WriteStep

\* A person's request makes a row.
LEMMA QueueKeeps ==
    ASSUME ReviewInv, NEW p \in People, QueueReview(p)
    PROVE  ReviewInv'
<1>1. PICK r \in ReviewRuns : QueuedRun(r)
      BY DEF QueueReview
<1>2. CarriersAfter(None, NoWork, None, TRUE) /\ PeopleAfter(p, Unbusy, TRUE) /\ listing' = listing /\ report' = report
      BY DEF QueueReview
<1>3. /\ review' \in [ReviewRuns -> ReviewRow \cup {None}] /\ RowsStay
      /\ newest' = r /\ review'[r] # None
      /\ \A k \in ReviewRuns : (Open(k) => Open(k)') /\ (Status(k)' = "done" => Status(k) = "done")
      BY <1>1, NewRow
<1>4. None \in ReviewWorkers /\ carrier'[None] = NoWork => WorkerKept(None)'
      BY NoWorkFields, ResterKept
<1>5. DoneIsReported'
      BY <1>2, <1>3 DEF ReviewInv, DoneIsReported
<1>6. /\ listing \in {"none", "asked", "pending", "approved", "rejected", "withdrawn"} /\ report \in {"none", "clear", "block"}
      /\ newest' \in ReviewRuns \cup {None} /\ review'[newest'] # None
      /\ Unbusy \in PersonRecord /\ Unbusy.pc \notin {"judge", "approve"}
      BY <1>3, UnbusyType DEF ReviewInv, ReviewTypeOK
<1> QED BY <1>2, <1>3, <1>4, <1>5, <1>6, NoWorkFields, WriteStep

\* The runs nobody has begun are given up, which ends every claim that was about to be made.
LEMMA WithdrawKeeps ==
    ASSUME ReviewInv, NEW p \in People, Withdraw(p)
    PROVE  ReviewInv'
<1>1. /\ listing' \in {"withdrawn", "none", listing} /\ newest' = newest /\ report' = report /\ PeopleAfter(p, Unbusy, TRUE)
      /\ review' = [r \in ReviewRuns |-> IF Status(r) = "queued" THEN [review[r] EXCEPT !.status = "error"] ELSE review[r]]
      BY DEF Withdraw
<1>2. ASSUME NEW r \in ReviewRuns
      PROVE  /\ review'[r] \in ReviewRow \cup {None}
             /\ review[r] # None => review'[r] # None
             /\ Status(r)' = "done" => Status(r) = "done"
             /\ Open(r) /\ Status(r) # "queued" => Open(r)'
  <2>1. CASE Status(r) = "queued"
    <3> DEFINE c == [review[r] EXCEPT !.status = "error"]
    <3>1. review[r] \in ReviewRow /\ review'[r] = c
          BY <1>1, <2>1, ReviewFacts DEF Status
    <3>2. c \in ReviewRow /\ c.status = "error"
          BY <3>1 DEF ReviewRow
    <3> HIDE DEF c
    <3> QED BY <2>1, <3>1, <3>2, ReviewRowAssumption DEF Status
  <2>2. CASE Status(r) # "queued"
        BY <1>1, <2>2, ReviewFacts DEF Status, Open
  <2> QED BY <2>1, <2>2
<1>3. review' \in [ReviewRuns -> ReviewRow \cup {None}] /\ RowsStay
  <2>1. review' = [r \in ReviewRuns |-> review'[r]]
        BY <1>1
  <2> QED BY <1>2, <2>1 DEF RowsStay
<1>4. person' \in [People -> PersonRecord] /\ PeopleHold'
      BY <1>1, PeopleAfterWrite, ReviewFacts, UnbusyType
<1>5. ASSUME NEW v \in ReviewWorkers
      PROVE  /\ carrier'[v] \in CarrierRecord /\ Lost(carrier[v], carrier'[v])
             /\ carrier'[v].asRead => Status(carrier[v].on) # "queued"
             /\ carrier[v].pending => carrier'[v].moved
  <2> DEFINE d == [carrier[v] EXCEPT !.asRead = @ /\ Status(carrier[v].on) # "queued", !.moved = @ \/ carrier[v].pending]
  <2>1. carrier'[v] = d
        BY DEF Withdraw
  <2>2. /\ d \in CarrierRecord /\ Lost(carrier[v], d)
        /\ d.asRead => Status(carrier[v].on) # "queued"
        /\ carrier[v].pending => d.moved
        BY ReviewFacts, LostToAWithdrawal
  <2> HIDE DEF d
  <2> QED BY <2>1, <2>2
<1>6. carrier' \in [ReviewWorkers -> CarrierRecord]
  <2>1. carrier' = [v \in ReviewWorkers |-> carrier'[v]]
        BY DEF Withdraw
  <2>2. \A v \in ReviewWorkers : carrier'[v] \in CarrierRecord
        BY <1>5
  <2> QED BY Zenon, <2>1, <2>2
<1>7. ASSUME NEW v \in ReviewWorkers PROVE WorkerKept(v)'
  <2>1. WorkerKept(v) /\ carrier[v].on \in ReviewRuns \cup {None}
        BY ReviewFacts
  <2>2. ASSUME NEW k \in ReviewRuns, k = carrier[v].on, Open(k), Status(k) # "queued" PROVE Open(carrier[v].on)'
    <3>1. Open(k)' /\ k = carrier'[v].on
          BY <1>2, <1>5, <2>2 DEF Lost
    <3> QED BY <3>1
  <2>3. carrier[v].on # None /\ carrier'[v].asRead /\ Open(carrier[v].on) => Open(carrier[v].on)'
    <3>1. carrier'[v].asRead => Status(carrier[v].on) # "queued"
          BY <1>5
    <3> QED BY Zenon, <2>1, <2>2, <3>1
  <2>4. Lost(carrier[v], carrier'[v]) /\ (carrier[v].pending => carrier'[v].moved)
        BY <1>5
  <2>5. report # "none" => report' # "none"
        BY <1>1
  <2> QED BY Zenon, <1>3, <2>1, <2>3, <2>4, <2>5, LoserKept
<1>8. ReviewTypeOK'
      BY <1>1, <1>3, <1>4, <1>6 DEF ReviewInv, ReviewTypeOK, RowsStay
<1>9. DoneIsReported'
      BY <1>1, <1>2 DEF ReviewInv, DoneIsReported
<1> QED BY <1>4, <1>7, <1>8, <1>9 DEF ReviewInv, CarriersHold, WorkerKept

\* A person's read leaves everything else alone.
LEMMA PersonReads ==
    ASSUME ReviewInv, NEW p \in People, NEW mine \in PersonRecord, PeopleAfter(p, mine, FALSE),
           UNCHANGED <<listing, review, newest, report, carrier>>,
           person'[p] = mine => PersonSees(p)'
    PROVE  ReviewInv'
<1>1. /\ person' \in [People -> PersonRecord] /\ person'[p] = mine
      /\ \A q \in People \ {p} : person'[q].pc = person[q].pc /\ person'[q].moved = person[q].moved
      BY PeopleAfterRead, ReviewFacts
<1>2. HeldBack' <=> HeldBack
      BY DEF HeldBack, Open, Status
<1>3. ASSUME NEW q \in People \ {p} PROVE PersonSees(q)'
  <2>1. PersonSees(q) /\ person'[q].pc = person[q].pc /\ person'[q].moved = person[q].moved /\ listing' = listing
        BY <1>1, ReviewFacts
  <2> QED BY Zenon, <1>2, <2>1 DEF PersonSees
<1>4. PeopleHold'
      BY <1>1, <1>3 DEF PeopleHold
<1>5. ReviewTypeOK'
      BY <1>1 DEF ReviewInv, ReviewTypeOK
<1>6. \A v \in ReviewWorkers : WorkerKept(v)'
      BY BystanderKept, ReviewFacts
<1>7. DoneIsReported'
      BY DEF ReviewInv, DoneIsReported, Status
<1> QED BY <1>4, <1>5, <1>6, <1>7 DEF ReviewInv, CarriersHold, WorkerKept

\* A person who is at no verdict, and one who begins with a pending listing.
LEMMA PersonFree ==
    ASSUME NEW p \in People, NEW mine, mine.pc \notin {"judge", "approve"}, person'[p] = mine
    PROVE  PersonSees(p)'
<1>1. person'[p].pc \notin {"judge", "approve"}
      OBVIOUS
<1> QED BY Zenon, <1>1 DEF PersonSees

\* So one who reads what to ask, or to co-sign, leaves everything else alone.
LEMMA PersonAsks ==
    ASSUME ReviewInv, NEW p \in People, NEW mine \in PersonRecord, mine.pc \notin {"judge", "approve"},
           PeopleAfter(p, mine, FALSE), UNCHANGED <<listing, review, newest, report, carrier>>
    PROVE  ReviewInv'
<1>1. person'[p] = mine => PersonSees(p)'
      BY PersonFree
<1> QED BY <1>1, PersonReads

\* A reviewer begins with a pending listing.
LEMMA PersonBegins ==
    ASSUME NEW p \in People, NEW mine, mine.pc # "approve", person'[p] = mine, listing' = "pending"
    PROVE  PersonSees(p)'
<1>1. person'[p].pc # "approve"
      OBVIOUS
<1> QED BY Zenon, <1>1 DEF PersonSees

\* And goes on to approve only what is not held back.
LEMMA JudgeKeeps ==
    ASSUME ReviewInv, NEW p \in People, JudgeStages(p)
    PROVE  ReviewInv'
<1>1. person[p].pc = "judge" /\ UNCHANGED <<listing, review, newest, report, carrier>>
      BY DEF JudgeStages
<1>2. CASE HeldBack
  <2>1. PeopleAfter(p, Unbusy, FALSE)
        BY <1>2 DEF JudgeStages
  <2>2. person'[p] = Unbusy => PersonSees(p)'
        BY UnbusyType, PersonFree
  <2> QED BY <1>1, <2>1, <2>2, UnbusyType, PersonReads
<1>3. CASE ~HeldBack
  <2> DEFINE mine == [person[p] EXCEPT !.pc = "approve"]
  <2>1. PeopleAfter(p, mine, FALSE)
        BY <1>3 DEF JudgeStages
  <2>2. mine \in PersonRecord /\ mine.pc = "approve" /\ mine.moved = person[p].moved
        BY ReviewFacts DEF PersonRecord
  <2> HIDE DEF mine
  <2>3. ASSUME person'[p] = mine PROVE PersonSees(p)'
    <3>1. PersonSees(p) /\ person'[p].moved = person[p].moved /\ person'[p].pc = "approve"
          BY <2>2, <2>3, ReviewFacts
    <3>2. ~HeldBack'
          BY <1>1, <1>3 DEF HeldBack, Open, Status
    <3> QED BY Zenon, <1>1, <3>1, <3>2 DEF PersonSees
  <2>4. person'[p] = mine => PersonSees(p)'
        BY <2>3
  <2> QED BY <1>1, <2>1, <2>2, <2>4, PersonReads
<1> QED BY <1>2, <1>3

\* Every step of a person keeps the invariant.
LEMMA PersonKeeps ==
    ASSUME ReviewInv, NEW p \in People, PersonStep(p)
    PROVE  ReviewInv'
<1>1. CASE RequestListing(p)
  <2>1. PICK next \in {"cosign", "idle"} : PeopleAfter(p, [Unbusy EXCEPT !.pc = next], TRUE)
        BY <1>1 DEF RequestListing
  <2>2. [Unbusy EXCEPT !.pc = next] \in PersonRecord /\ [Unbusy EXCEPT !.pc = next].pc \notin {"judge", "approve"}
        BY DEF Unbusy, PersonRecord
  <2> QED BY <1>1, <2>1, <2>2, ListingWritten DEF RequestListing
<1>2. CASE Cosign(p)
      BY <1>2, UnbusyType, ListingWritten DEF Cosign
<1>3. CASE LookForWaiting(p)
  <2>1. PICK mine \in PersonRecord : mine.pc \notin {"judge", "approve"} /\ PeopleAfter(p, mine, FALSE)
        BY <1>3, UnbusyType DEF LookForWaiting
  <2>2. person'[p] = mine => PersonSees(p)'
        BY <2>1, PersonFree
  <2> QED BY <1>3, <2>1, <2>2, PersonReads DEF LookForWaiting
<1>4. CASE QueueReview(p)
      BY <1>4, QueueKeeps
<1>5. CASE ReadWithdraw(p)
  <2>1. PICK mine \in PersonRecord : mine.pc \notin {"judge", "approve"} /\ PeopleAfter(p, mine, FALSE)
        BY <1>5, UnbusyType DEF ReadWithdraw
  <2>2. person'[p] = mine => PersonSees(p)'
        BY <2>1, PersonFree
  <2> QED BY <1>5, <2>1, <2>2, PersonReads DEF ReadWithdraw
<1>6. CASE Withdraw(p)
      BY <1>6, WithdrawKeeps
<1>7. CASE ReadPendingListing(p)
  <2>1. PICK mine \in PersonRecord : mine.pc # "approve" /\ PeopleAfter(p, mine, FALSE)
        BY <1>7, UnbusyType DEF ReadPendingListing
  <2>2. person'[p] = mine => PersonSees(p)'
        BY <1>7, <2>1, PersonBegins DEF ReadPendingListing
  <2> QED BY <1>7, <2>1, <2>2, PersonReads DEF ReadPendingListing
<1>8. CASE JudgeStages(p)
      BY <1>8, JudgeKeeps
<1>9. CASE WriteVerdict(p)
      BY <1>9, UnbusyType, ListingWritten DEF WriteVerdict
<1>10. CASE ReadOffer(p)
      BY <1>10, UnbusyType, PersonAsks DEF ReadOffer
<1>11. CASE ReadAsked(p)
      BY <1>11, UnbusyType, PersonAsks DEF ReadAsked
<1> QED BY <1>1, <1>2, <1>3, <1>4, <1>5, <1>6, <1>7, <1>8, <1>9, <1>10, <1>11 DEF PersonStep

\* A run that goes stale is still open.
LEMMA StaleKeeps ==
    ASSUME ReviewInv, NEW r \in ReviewRuns, RunGoesStale(r)
    PROVE  ReviewInv'
<1> DEFINE c == [review[r] EXCEPT !.stale = TRUE]
<1>1. Status(r) = "running" /\ UNCHANGED <<listing, newest, report, carrier, person>>
      BY DEF RunGoesStale
<1>2. review[r] \in ReviewRow /\ review[r].status = "running"
      BY <1>1, ReviewFacts DEF Status
<1>3. c \in ReviewRow /\ c.status = "running"
      BY <1>2, RowType
<1>4. review' = [review EXCEPT ![r] = c]
      BY ReviewFacts DEF RunGoesStale
<1> HIDE DEF c
<1>5. /\ review' \in [ReviewRuns -> ReviewRow \cup {None}] /\ RowsStay
      /\ \A k \in ReviewRuns : (Open(k)' <=> Open(k)) /\ Status(k)' = Status(k)
      BY <1>1, <1>3, <1>4, RowWrittenTo, ReviewFacts DEF Open
<1>6. ReviewTypeOK'
      BY <1>1, <1>5 DEF ReviewInv, ReviewTypeOK, RowsStay
<1>7. ASSUME NEW v \in ReviewWorkers PROVE WorkerKept(v)'
  <2>1. WorkerKept(v) /\ carrier[v].on \in ReviewRuns \cup {None} /\ Lost(carrier[v], carrier'[v])
        BY <1>1, ReviewFacts DEF Lost
  <2>2. ASSUME NEW k \in ReviewRuns, k = carrier[v].on, Open(k) PROVE Open(carrier[v].on)'
    <3>1. Open(k)' /\ k = carrier'[v].on
          BY <1>1, <1>5, <2>2
    <3> QED BY <3>1
  <2>3. carrier[v].on # None /\ Open(carrier[v].on) => Open(carrier[v].on)'
        BY <2>1, <2>2
  <2> QED BY Zenon, <1>1, <1>5, <2>1, <2>3, LoserKept
<1>8. PeopleHold'
  <2>1. newest # None => (Open(newest)' => Open(newest))
        BY <1>1, <1>5 DEF ReviewInv, ReviewTypeOK
  <2> QED BY <1>1, <2>1, PeopleUntouched DEF ReviewInv
<1>9. DoneIsReported'
      BY <1>1, <1>5 DEF ReviewInv, DoneIsReported
<1> QED BY <1>6, <1>7, <1>8, <1>9 DEF ReviewInv, CarriersHold, WorkerKept

-----------------------------------------------------------------------------

\* At first there is no listing, and no review.
LEMMA ReviewInvInit == ReviewInit => ReviewInv
<1> SUFFICES ASSUME ReviewInit PROVE ReviewInv
    OBVIOUS
<1>1. ReviewTypeOK
      BY NoWorkFields, UnbusyType DEF ReviewInit, ReviewTypeOK
<1>2. ASSUME NEW w \in ReviewWorkers PROVE HoldsARow(w) /\ PickStands(w) /\ Reported(w) /\ CarrierSees(w)
  <2>1. carrier[w].pc = "idle" /\ carrier[w].on = None
        BY NoWorkFields DEF ReviewInit
  <2> QED BY <2>1 DEF HoldsARow, PickStands, Reported, CarrierSees
<1>3. ASSUME NEW p \in People PROVE PersonSees(p)
  <2>1. person[p].pc = "idle"
        BY UnbusyType DEF ReviewInit
  <2> QED BY <2>1 DEF PersonSees
<1>4. DoneIsReported
      BY DEF ReviewInit, DoneIsReported, Status
<1> QED BY <1>1, <1>2, <1>3, <1>4 DEF ReviewInv, CarriersHold, PeopleHold

\* Every step of the review keeps the invariant.
LEMMA ReviewInvStep ==
    ASSUME ReviewInv, [ReviewNext]_reviewVars
    PROVE  ReviewInv'
<1>1. ASSUME NEW w \in ReviewWorkers, ReviewerStep(w) PROVE ReviewInv'
  <2>1. CASE \E r \in ReviewRuns : PickReview(w, r)
        BY <2>1, PickKeeps
  <2>2. CASE ClaimReview(w) \/ LookForReview(w) \/ QueueOwn(w) \/ TakeQueued(w)
        BY <2>2, ReviewClaimKeeps, LookKeeps, QueueOwnKeeps, TakeKeeps
  <2>3. CASE ReadVersion(w) \/ RecordStages(w) \/ FinishReview(w) \/ PutBack(w)
        BY <2>3, ReadKeepsReview, RecordKeeps, ReviewFinishKeeps, PutBackKeeps
  <2>4. CASE AutoApprove(w)
        BY <2>4, UnbusyType, ListingWritten DEF AutoApprove
  <2>5. CASE LeaveToReviewer(w)
        BY <2>5, RestKeeps DEF LeaveToReviewer
  <2> QED BY <1>1, <2>1, <2>2, <2>3, <2>4, <2>5 DEF ReviewerStep
<1>2. ASSUME NEW w \in ReviewWorkers, ReviewThrows(w) \/ ReviewDies(w) PROVE ReviewInv'
      BY <1>2, ThrowKeeps, RestKeeps DEF ReviewDies
<1>3. ASSUME NEW w \in Reviewers, AskReview(w) PROVE ReviewInv'
      BY <1>3, ReviewAskKeeps DEF ReviewWorkers
<1>4. ASSUME NEW p \in People, PersonStep(p) PROVE ReviewInv'
      BY <1>4, PersonKeeps
<1>5. ASSUME NEW r \in ReviewRuns, RunGoesStale(r) PROVE ReviewInv'
      BY <1>5, StaleKeeps
<1>6. CASE UNCHANGED reviewVars
  <2>1. \A w \in ReviewWorkers : WorkerKept(w)'
        BY <1>6, BystanderKept, ReviewFacts DEF reviewVars
  <2>2. PeopleHold'
    <3>1. Open(newest)' => Open(newest)
          BY <1>6 DEF reviewVars, Open, Status
    <3> QED BY <1>6, <3>1, PeopleUntouched DEF ReviewInv, reviewVars
  <2>3. ReviewTypeOK' /\ DoneIsReported'
        BY <1>6 DEF reviewVars, ReviewInv, ReviewTypeOK, DoneIsReported, Status
  <2> QED BY <2>1, <2>2, <2>3 DEF ReviewInv, CarriersHold, WorkerKept
<1> QED BY <1>1, <1>2, <1>3, <1>4, <1>5, <1>6 DEF ReviewNext

\* (listing, review, newest, report) Whoever decides has read what the verdict rests on,
\* and it still is as it was read, unless `moved` says that it was overtaken.
THEOREM ReviewInvariant == ReviewSpec => []ReviewInv
<1> QED BY ReviewInvInit, ReviewInvStep, PTL DEF ReviewSpec

\* (listing) No version goes onto the shelf but on the review that was made of it.
THEOREM ShelvedOnReview == ReviewSpec => ListedOnItsReview
<1> DEFINE A == listing # "approved" /\ listing' = "approved" =>
        \/ \E w \in ReviewWorkers :
            /\ AutoApprove(w)
            /\ carrier[w].moved \/ (listing = "pending" /\ report = "clear")
        \/ \E p \in People :
            /\ WriteVerdict(p)
            /\ \/ person[p].moved
               \/ /\ listing = "pending" /\ ~Open(newest)
                  /\ report = "clear" \/ (report = "none" /\ Status(newest) = "error")
<1>1. ASSUME ReviewInv, ReviewNext, listing # "approved", listing' = "approved" PROVE A
  <2>1. ASSUME NEW w \in ReviewWorkers, AutoApprove(w)
        PROVE  carrier[w].moved \/ (listing = "pending" /\ report = "clear")
    <3>1. carrier[w].pc = "approve" /\ Reported(w) /\ CarrierSees(w)
          BY <1>1, <2>1, ReviewFacts DEF AutoApprove, WorkerKept
    <3> QED BY Zenon, <3>1 DEF Reported, CarrierSees
  <2>2. ASSUME NEW p \in People, WriteVerdict(p)
        PROVE  \/ person[p].moved
               \/ /\ listing = "pending" /\ ~Open(newest)
                  /\ report = "clear" \/ (report = "none" /\ Status(newest) = "error")
    <3>1. person[p].pc = "approve"
          BY <1>1, <2>2 DEF WriteVerdict
    <3>2. ASSUME ~person[p].moved PROVE listing = "pending" /\ ~HeldBack
          BY Zenon, <1>1, <3>1, <3>2, ReviewFacts DEF PersonSees
    <3>3. ASSUME ~HeldBack PROVE ~Open(newest) /\ (report = "clear" \/ (report = "none" /\ Status(newest) = "error"))
      <4>1. newest \in ReviewRuns /\ review[newest] # None /\ ~Open(newest) /\ report \in {"clear", "none"}
            BY <1>1, <3>3 DEF HeldBack, ReviewInv, ReviewTypeOK
      <4>2. Status(newest) \in {"done", "error"}
        <5>1. review[newest] \in ReviewRow
              BY <1>1, <4>1, ReviewFacts
        <5>2. review[newest].status \in {"queued", "running", "done", "error"}
              BY <5>1, RowType
        <5> QED BY <4>1, <5>2 DEF Open, Status
      <4>3. report = "none" => Status(newest) # "done"
            BY <1>1, <4>1 DEF ReviewInv, DoneIsReported
      <4> QED BY <4>1, <4>2, <4>3
    <3> QED BY Zenon, <3>2, <3>3
  <2>3. CASE \E w \in ReviewWorkers : AutoApprove(w)
        BY Zenon, <2>1, <2>3
  <2>4. CASE \E p \in People : WriteVerdict(p)
        BY Zenon, <2>2, <2>4
  <2>5. ASSUME NEW w \in ReviewWorkers, ReviewerStep(w), ~AutoApprove(w) PROVE FALSE
        BY <1>1, <2>5 DEF ReviewerStep, PickReview, ClaimReview, LookForReview, QueueOwn, TakeQueued, ReadVersion,
             RecordStages, FinishReview, LeaveToReviewer, PutBack
  <2>6. ASSUME NEW w \in ReviewWorkers, ReviewThrows(w) \/ ReviewDies(w) PROVE FALSE
        BY <1>1, <2>6 DEF ReviewThrows, ReviewDies
  <2>7. ASSUME NEW w \in Reviewers, AskReview(w) PROVE FALSE
        BY <1>1, <2>7 DEF AskReview
  <2>8. ASSUME NEW p \in People, PersonStep(p), ~WriteVerdict(p) PROVE FALSE
        BY <1>1, <2>8 DEF PersonStep, ReadOffer, RequestListing, ReadAsked, Cosign, LookForWaiting, QueueReview, ReadWithdraw, Withdraw,
             ReadPendingListing, JudgeStages
  <2>9. ASSUME NEW r \in ReviewRuns, RunGoesStale(r) PROVE FALSE
        BY <1>1, <2>9 DEF RunGoesStale
  <2> QED BY Zenon, <1>1, <2>3, <2>4, <2>5, <2>6, <2>7, <2>8, <2>9 DEF ReviewNext
<1>2. ASSUME ReviewInv, [ReviewNext]_reviewVars
      PROVE  [A]_reviewVars
      BY <1>1, <1>2
<1> QED BY <1>2, ReviewInvariant, PTL DEF ReviewSpec, ListedOnItsReview

-----------------------------------------------------------------------------
(* The invariant of the connection *)

\* Nothing names a refresh token that has not been issued.
OnlyIssued ==
    /\ conn # None => conn.token \in (1..minted) \cup {None}
    /\ \A w \in Renewers : renewal[w].token \in (1..minted) \cup {None}

\* The row as it was read: of what a renewal asked with, or will be refused for.
AsReadHolds(w) ==
    renewal[w].asRead =>
        /\ conn # None /\ ~conn.fresh /\ ~conn.broken
        /\ renewal[w].pc \in {"ask", "mark"} => renewal[w].token = conn.token

\* Why a renewal gives up: a token it was refused for stays refused.
RefusedForGood(w) ==
    renewal[w].pc = "mark" =>
        /\ renewal[w].why # "none"
        /\ renewal[w].why = "refused" => renewal[w].token \notin grants

\* The token that has come is nobody else's, with a provider that rotates.
ComeAlone(w) ==
    rotates /\ renewal[w].pc = "store" =>
        /\ renewal[w].token # None
        /\ conn # None => renewal[w].token # conn.token
        /\ \A v \in Renewers \ {w} : renewal[v].pc \in {"ask", "store"} => renewal[v].token # renewal[w].token

\* And it is honoured, or nothing is.
AnswerHonoured(w) == renewal[w].pc = "store" /\ renewal[w].asRead => renewal[w].token \in grants \/ grants = {}

\* Only one that has read the row as it is asks with its token.
AsksAsRead(w) == rotates /\ Connected /\ renewal[w].pc = "ask" /\ renewal[w].token = conn.token /\ conn.token # None => renewal[w].asRead

\* A row whose access token is fresh has a refresh token that is honoured, or none.
FreshHonoured == Connected /\ conn.fresh => conn.token = None \/ conn.token \in grants \/ grants = {}

TokenInv ==
    /\ TokenTypeOK /\ OnlyIssued /\ FreshHonoured
    /\ \A w \in Renewers : AsReadHolds(w) /\ RefusedForGood(w) /\ ComeAlone(w) /\ AnswerHonoured(w) /\ AsksAsRead(w)

-----------------------------------------------------------------------------
(* What its steps leave behind *)

\* A run at rest has a well-typed record.
LEMMA NoRenewalType == NoRenewal \in Renewal
BY DEF NoRenewal, Renewal

\* What a write to the row does to what the runs have read.
LEMMA RenewalMoves ==
    ASSUME NEW r \in Renewal
    PROVE  /\ [r EXCEPT !.asRead = FALSE] \in Renewal
           /\ [r EXCEPT !.asRead = FALSE].pc = r.pc
           /\ [r EXCEPT !.asRead = FALSE].token = r.token
           /\ [r EXCEPT !.asRead = FALSE].why = r.why
           /\ [r EXCEPT !.asRead = FALSE].asRead = FALSE
           /\ [r EXCEPT !.asRead = FALSE].same = r.same
           /\ [r EXCEPT !.same = FALSE, !.asRead = FALSE] \in Renewal
           /\ [r EXCEPT !.same = FALSE, !.asRead = FALSE].pc = r.pc
           /\ [r EXCEPT !.same = FALSE, !.asRead = FALSE].token = r.token
           /\ [r EXCEPT !.same = FALSE, !.asRead = FALSE].why = r.why
           /\ [r EXCEPT !.same = FALSE, !.asRead = FALSE].asRead = FALSE
BY DEF Renewal

\* The row stays well typed when a flag of it is written.
LEMMA RowMarked ==
    ASSUME NEW r \in ConnRow
    PROVE  /\ [r EXCEPT !.fresh = FALSE] \in ConnRow
           /\ [r EXCEPT !.fresh = FALSE].token = r.token
           /\ [r EXCEPT !.fresh = FALSE].fresh = FALSE
           /\ [r EXCEPT !.fresh = FALSE].broken = r.broken
           /\ [r EXCEPT !.broken = TRUE] \in ConnRow
           /\ [r EXCEPT !.broken = TRUE].token = r.token
           /\ [r EXCEPT !.broken = TRUE].broken = TRUE
           /\ [r EXCEPT !.broken = TRUE].fresh = r.fresh
BY DEF ConnRow

\* A run that brings a new token to the row.
LEMMA RenewalSteps ==
    ASSUME NEW r \in Renewal, NEW t \in RefreshTokens \cup {None}
    PROVE  /\ [r EXCEPT !.pc = "store", !.token = t] \in Renewal
           /\ [r EXCEPT !.pc = "store", !.token = t].pc = "store"
           /\ [r EXCEPT !.pc = "store", !.token = t].token = t
           /\ [r EXCEPT !.pc = "store", !.token = t].asRead = r.asRead
BY DEF Renewal

\* A run that brings the old one, or gives up.
LEMMA RenewalStops ==
    ASSUME NEW r \in Renewal
    PROVE  /\ [r EXCEPT !.pc = "mark", !.why = "refused"] \in Renewal
           /\ [r EXCEPT !.pc = "mark", !.why = "refused"].pc = "mark"
           /\ [r EXCEPT !.pc = "mark", !.why = "refused"].why = "refused"
           /\ [r EXCEPT !.pc = "mark", !.why = "refused"].token = r.token
           /\ [r EXCEPT !.pc = "mark", !.why = "refused"].asRead = r.asRead
           /\ [r EXCEPT !.pc = "mark", !.why = "outage"] \in Renewal
           /\ [r EXCEPT !.pc = "mark", !.why = "outage"].pc = "mark"
           /\ [r EXCEPT !.pc = "mark", !.why = "outage"].why = "outage"
           /\ [r EXCEPT !.pc = "mark", !.why = "outage"].token = r.token
           /\ [r EXCEPT !.pc = "mark", !.why = "outage"].asRead = r.asRead
           /\ [r EXCEPT !.pc = "store"] \in Renewal
           /\ [r EXCEPT !.pc = "store"].pc = "store"
           /\ [r EXCEPT !.pc = "store"].token = r.token
           /\ [r EXCEPT !.pc = "store"].asRead = r.asRead
BY DEF Renewal

\* What a run has read of a row is well typed.
LEMMA Reading ==
    ASSUME NEW t \in RefreshTokens \cup {None}
    PROVE  [pc |-> "ask", token |-> t, same |-> TRUE, asRead |-> TRUE, why |-> "none"] \in Renewal
BY DEF Renewal

\* So is a row that is written anew.
LEMMA RowWritten ==
    ASSUME NEW t \in RefreshTokens \cup {None}
    PROVE  [token |-> t, fresh |-> TRUE, broken |-> FALSE] \in ConnRow
BY DEF ConnRow

\* And the token of a row.
LEMMA RowToken ==
    ASSUME NEW c \in ConnRow
    PROVE  c.token \in RefreshTokens \cup {None}
BY DEF ConnRow

\* And the one a run holds.
LEMMA RenewalToken ==
    ASSUME NEW r \in Renewal
    PROVE  r.token \in RefreshTokens \cup {None}
BY DEF Renewal

\* A step of one run leaves the others alone.
LEMMA RenewalGoesOn ==
    ASSUME renewal \in [Renewers -> Renewal], NEW w \in Renewers, NEW r \in Renewal, RenewalGoes(w, r)
    PROVE  /\ renewal' \in [Renewers -> Renewal]
           /\ renewal'[w] = r
           /\ \A v \in Renewers \ {w} : renewal'[v] = renewal[v]
BY DEF RenewalGoes

\* A run that ends is at rest.
LEMMA RenewalOver ==
    ASSUME renewal \in [Renewers -> Renewal], NEW w \in Renewers, RowMoves(w) \/ RenewalEnds(w)
    PROVE  renewal' \in [Renewers -> Renewal] /\ renewal'[w] = NoRenewal
<1>1. CASE RowMoves(w)
      BY <1>1, RenewalMoves, NoRenewalType DEF RowMoves
<1>2. CASE RenewalEnds(w)
      BY <1>2, NoRenewalType DEF RenewalEnds
<1> QED BY <1>1, <1>2

\* A renewal that is over has written the row, or left it alone.
LEMMA MarkOrLeave ==
    ASSUME NEW w \in Renewers, MarkBroken(w)
    PROVE  \/ /\ conn # None /\ renewal[w].same /\ conn' = [conn EXCEPT !.broken = TRUE] /\ RowMoves(w)
           \/ ~(conn # None /\ renewal[w].same) /\ conn' = conn /\ RenewalEnds(w)
BY Zenon DEF MarkBroken

\* The swap stores the token that has come, or leaves the row that has moved.
LEMMA SwapOrLeave ==
    ASSUME NEW w \in Renewers, SwapToken(w)
    PROVE  \/ /\ renewal[w].asRead
              /\ conn' = [token |-> renewal[w].token, fresh |-> TRUE, broken |-> FALSE]
              /\ RowMoves(w)
           \/ ~renewal[w].asRead /\ conn' = conn /\ RenewalEnds(w)
BY Zenon DEF SwapToken, Answer

\* Every step keeps the types.
LEMMA TokenTypeStep ==
    ASSUME TokenTypeOK, TokenNext
    PROVE  TokenTypeOK'
<1> USE TokenAssumption DEF TokenTypeOK
<1> USE DEF Issued
<1>0. minted < MaxMinted => Issued \in RefreshTokens /\ Issued \in 1..Issued /\ Issued \in 0..MaxMinted /\ 1..minted \subseteq 1..Issued
      BY DEF RefreshTokens
<1> HIDE DEF Issued
<1>1. CASE Connect
  <2>1. PICK t \in {None, Issued}, kept \in {grants, {}} :
            /\ conn' = [token |-> t, fresh |-> TRUE, broken |-> FALSE]
            /\ grants' = IF t = None THEN kept ELSE kept \cup {t}
            /\ minted' = IF t = None THEN minted ELSE Issued
        BY <1>1 DEF Connect
  <2>2. minted < MaxMinted /\ UNCHANGED rotates /\ renewal' = [v \in Renewers |-> [renewal[v] EXCEPT !.asRead = FALSE]]
        BY <1>1 DEF Connect
  <2>3. conn' \in ConnRow
        BY <2>1, <2>2, <1>0, RowWritten
  <2>4. renewal' \in [Renewers -> Renewal]
        BY <2>2, RenewalMoves
  <2>5. grants' \subseteq 1..minted' /\ minted' \in 0..MaxMinted
        BY <2>1, <2>2, <1>0
  <2> QED BY <2>2, <2>3, <2>4, <2>5
<1>2. CASE Disconnect
      BY <1>2, RenewalMoves DEF Disconnect
<1>3. CASE Revoke
      BY <1>3 DEF Revoke
<1>4. CASE AccessExpires
      BY <1>4, RowMarked DEF AccessExpires
<1>5. ASSUME NEW w \in Renewers, ReadStale(w) PROVE TokenTypeOK'
      BY <1>5, RowToken, Reading DEF ReadStale, Connected
<1>6. ASSUME NEW w \in Renewers, Exchange(w) PROVE TokenTypeOK'
  <2>1. CASE rotates
    <3>1. /\ minted < MaxMinted
          /\ RenewalGoes(w, [renewal[w] EXCEPT !.pc = "store", !.token = Issued])
          BY Zenon, <1>6, <2>1 DEF Exchange
    <3>2. [renewal[w] EXCEPT !.pc = "store", !.token = Issued] \in Renewal
          BY <3>1, <1>0, RenewalSteps
    <3>3. renewal' \in [Renewers -> Renewal]
          BY <3>1, <3>2, RenewalGoesOn
    <3>4. grants' \subseteq 1..minted' /\ minted' \in 0..MaxMinted
          BY <1>6, <2>1, <1>0 DEF Exchange
    <3> QED BY <1>6, <3>3, <3>4 DEF Exchange
  <2>2. CASE ~rotates
    <3>1. RenewalGoes(w, [renewal[w] EXCEPT !.pc = "store"]) /\ UNCHANGED <<grants, minted>>
          BY Zenon, <1>6, <2>2 DEF Exchange
    <3>2. renewal' \in [Renewers -> Renewal]
          BY <3>1, RenewalStops, RenewalGoesOn
    <3> QED BY <1>6, <3>1, <3>2 DEF Exchange
  <2> QED BY <2>1, <2>2
<1>7. ASSUME NEW w \in Renewers, Refused(w) PROVE TokenTypeOK'
      BY <1>7, RenewalStops DEF Refused, RenewalGoes
<1>8. ASSUME NEW w \in Renewers, Unanswered(w) PROVE TokenTypeOK'
  <2>1. renewal' \in [Renewers -> Renewal] /\ UNCHANGED <<conn, rotates>>
        BY <1>8, RenewalStops DEF Unanswered, RenewalGoes
  <2>2. grants' \subseteq 1..minted' /\ minted' \in 0..MaxMinted
        BY <1>8, <1>0 DEF Unanswered
  <2> QED BY <2>1, <2>2
<1>9. ASSUME NEW w \in Renewers, MarkBroken(w) PROVE TokenTypeOK'
  <2>1. conn' \in ConnRow \cup {None}
    <3>1. conn # None => [conn EXCEPT !.broken = TRUE] \in ConnRow
          BY RowMarked
    <3> QED BY Zenon, <1>9, <3>1, MarkOrLeave
  <2>2. renewal' \in [Renewers -> Renewal]
        BY Zenon, <1>9, MarkOrLeave, RenewalOver
  <2> QED BY <1>9, <2>1, <2>2 DEF MarkBroken
<1>10. ASSUME NEW w \in Renewers, SwapToken(w) PROVE TokenTypeOK'
      BY <1>10, SwapOrLeave, RenewalOver, RowWritten, RenewalToken DEF SwapToken
<1>11. ASSUME NEW w \in Renewers, RenewalDies(w) PROVE TokenTypeOK'
      BY <1>11, NoRenewalType DEF RenewalDies, RenewalEnds
<1> QED BY <1>1, <1>2, <1>3, <1>4, <1>5, <1>6, <1>7, <1>8, <1>9, <1>10, <1>11 DEF TokenNext

-----------------------------------------------------------------------------

\* A run at rest asks for nothing and has read nothing.
LEMMA NoRenewalFields ==
    NoRenewal.pc = "idle" /\ NoRenewal.token = None /\ NoRenewal.asRead = FALSE
BY DEF NoRenewal

\* A run that does not go on: it stays where it is, or ends; what it has read it may lose.
Stays(v) ==
    /\ renewal'[v].pc = renewal[v].pc
    /\ renewal'[v].token = renewal[v].token
    /\ renewal'[v].why = renewal[v].why
    /\ renewal'[v].asRead => renewal[v].asRead

Ended(v) == renewal'[v].pc = "idle" /\ renewal'[v].token = None /\ renewal'[v].asRead = FALSE

\* All but the one run that acts.
OthersStay(w) == \A v \in Renewers \ {w} : renewal'[v] = renewal[v]

\* A write to the row ends what the others have read; an end without one leaves them
\* alone.
LEMMA MovedOrEnded ==
    ASSUME TokenTypeOK, NEW w \in Renewers
    PROVE  /\ RowMoves(w) => Ended(w) /\ \A v \in Renewers \ {w} : Stays(v) /\ renewal'[v].asRead = FALSE
           /\ RenewalEnds(w) => Ended(w) /\ OthersStay(w)
<1>1. \A v \in Renewers : renewal[v] \in Renewal
      BY DEF TokenTypeOK
<1>2. ASSUME RowMoves(w)
      PROVE  Ended(w) /\ \A v \in Renewers \ {w} : Stays(v) /\ renewal'[v].asRead = FALSE
  <2>1. renewal'[w] = NoRenewal
        BY <1>2 DEF RowMoves
  <2>2. ASSUME NEW v \in Renewers \ {w} PROVE Stays(v) /\ renewal'[v].asRead = FALSE
    <3>1. renewal'[v] = [renewal[v] EXCEPT !.asRead = FALSE]
          BY <1>2 DEF RowMoves
    <3>2. renewal[v] \in Renewal
          BY <1>1
    <3> QED BY Zenon, <3>1, <3>2, RenewalMoves DEF Stays
  <2> QED BY <2>1, <2>2, NoRenewalFields DEF Ended
<1>3. ASSUME RenewalEnds(w) PROVE Ended(w) /\ OthersStay(w)
      BY <1>3, NoRenewalFields DEF RenewalEnds, Ended, OthersStay, TokenTypeOK
<1> QED BY <1>2, <1>3

\* The tokens named so far, and the next one.
Named == (1..minted) \cup {None}

\* The next token is none of those issued, and no grant is for a missing one.
LEMMA IssuedIsNew ==
    ASSUME TokenTypeOK
    PROVE  Issued \notin Named /\ Issued # None /\ None \notin grants /\ grants \subseteq Named
<1>1. minted \in Nat /\ grants \subseteq 1..minted
      BY TokenAssumption DEF TokenTypeOK
<1>2. None \notin 1..minted /\ None # minted + 1
      BY <1>1, TokenAssumption
<1>3. Issued \notin Named /\ Issued # None
      BY <1>1, <1>2 DEF Issued, Named
<1>4. None \notin grants /\ grants \subseteq Named
      BY Zenon, <1>1, <1>2 DEF Named
<1> QED BY <1>3, <1>4

\* Only an issue makes more tokens.
LEMMA NamedGrows ==
    ASSUME TokenTypeOK
    PROVE  /\ None \in Named
           /\ minted' = minted => Named' = Named
           /\ minted' = Issued => Named' = Named \cup {Issued}
BY DEF TokenTypeOK, Issued, Named

\* Every token that a row or a run names has been issued.
LEMMA TokensNamed ==
    OnlyIssued <=> (conn # None => conn.token \in Named) /\ \A w \in Renewers : renewal[w].token \in Named
BY DEF OnlyIssued, Named

-----------------------------------------------------------------------------

\* The parts of the invariant that are about one run.
RenewalKept(w) == AsReadHolds(w) /\ RefusedForGood(w) /\ ComeAlone(w) /\ AnswerHonoured(w) /\ AsksAsRead(w)

\* A new grant: all that was read is read of a row that is gone.
LEMMA ConnectKeeps ==
    ASSUME TokenInv, Connect
    PROVE  OnlyIssued' /\ FreshHonoured' /\ \A v \in Renewers : RenewalKept(v)'
<1> USE DEF TokenInv
<1>1. PICK t \in {None, Issued}, kept \in {grants, {}} :
          /\ conn' = [token |-> t, fresh |-> TRUE, broken |-> FALSE]
          /\ grants' = IF t = None THEN kept ELSE kept \cup {t}
          /\ minted' = IF t = None THEN minted ELSE Issued
      BY DEF Connect
<1>2. conn'.token = t /\ conn'.fresh = TRUE /\ conn'.broken = FALSE
      BY <1>1
<1>3. \A v \in Renewers : Stays(v) /\ renewal'[v].asRead = FALSE
  <2> TAKE v \in Renewers
  <2>1. renewal[v] \in Renewal /\ renewal'[v] = [renewal[v] EXCEPT !.asRead = FALSE]
        BY DEF Connect, TokenTypeOK
  <2> QED BY Zenon, <2>1, RenewalMoves DEF Stays
<1>4. \A x \in Named : x \in grants' => x \in grants
      BY <1>1, IssuedIsNew
<1>5. OnlyIssued'
  <2>1. Named' = Named \/ (t = Issued /\ Named' = Named \cup {Issued})
        BY <1>1, NamedGrows, IssuedIsNew
  <2>2. t \in Named'
        BY <1>1, <2>1, NamedGrows
  <2>3. \A v \in Renewers : renewal'[v].token \in Named'
        BY <1>3, <2>1, TokensNamed DEF Stays
  <2> QED BY <1>2, <2>2, <2>3 DEF OnlyIssued, Named
<1>6. FreshHonoured'
      BY <1>1, <1>2, IssuedIsNew DEF FreshHonoured
<1>7. ASSUME NEW v \in Renewers PROVE RenewalKept(v)'
  <2>1. AsReadHolds(v)' /\ AnswerHonoured(v)'
        BY Zenon, <1>3 DEF AsReadHolds, AnswerHonoured
  <2>2. RefusedForGood(v)'
        BY Zenon, <1>3, <1>4, TokensNamed DEF RefusedForGood, Stays
  <2>3. ComeAlone(v)'
    <3>1. rotates' = rotates
          BY DEF Connect
    <3>2. renewal[v].token # None => renewal[v].token # t
          BY <1>1, TokensNamed, IssuedIsNew
    <3> QED BY Zenon, <1>2, <1>3, <3>1, <3>2 DEF ComeAlone, Stays
  <2>4. AsksAsRead(v)'
    <3>1. renewal[v].token = t => t = None
          BY <1>1, TokensNamed, IssuedIsNew
    <3> QED BY Zenon, <1>2, <1>3, <3>1 DEF AsksAsRead, Stays
  <2> QED BY <2>1, <2>2, <2>3, <2>4 DEF RenewalKept
<1> QED BY <1>5, <1>6, <1>7

\* A disconnected row is nobody's to write.
LEMMA DisconnectKeeps ==
    ASSUME TokenInv, Disconnect
    PROVE  OnlyIssued' /\ FreshHonoured' /\ \A v \in Renewers : RenewalKept(v)'
<1> USE DEF TokenInv
<1>1. conn' = None /\ grants' = grants /\ minted' = minted /\ rotates' = rotates
      BY DEF Disconnect
<1>2. \A v \in Renewers : Stays(v) /\ renewal'[v].asRead = FALSE
  <2> TAKE v \in Renewers
  <2>1. renewal[v] \in Renewal /\ renewal'[v] = [renewal[v] EXCEPT !.same = FALSE, !.asRead = FALSE]
        BY DEF Disconnect, TokenTypeOK
  <2> QED BY Zenon, <2>1, RenewalMoves DEF Stays
<1>3. OnlyIssued' /\ FreshHonoured'
      BY <1>1, <1>2 DEF OnlyIssued, Stays, FreshHonoured, Connected
<1>4. ASSUME NEW v \in Renewers PROVE RenewalKept(v)'
  <2>1. AsReadHolds(v)' /\ AnswerHonoured(v)'
        BY Zenon, <1>2 DEF AsReadHolds, AnswerHonoured
  <2>2. RefusedForGood(v)'
        BY Zenon, <1>1, <1>2 DEF RefusedForGood, Stays
  <2>3. ComeAlone(v)'
        BY Zenon, <1>1, <1>2 DEF ComeAlone, Stays
  <2>4. AsksAsRead(v)'
        BY Zenon, <1>1 DEF AsksAsRead, Connected
  <2> QED BY <2>1, <2>2, <2>3, <2>4 DEF RenewalKept
<1> QED BY <1>3, <1>4

\* A revocation leaves nothing honoured.
LEMMA RevokeKeeps ==
    ASSUME TokenInv, Revoke
    PROVE  OnlyIssued' /\ FreshHonoured' /\ \A v \in Renewers : RenewalKept(v)'
<1> USE DEF TokenInv
<1>1. grants' = {} /\ conn' = conn /\ renewal' = renewal /\ minted' = minted /\ rotates' = rotates
      BY DEF Revoke
<1> QED BY Zenon, <1>1 DEF OnlyIssued, FreshHonoured, Connected, RenewalKept, AsReadHolds, RefusedForGood,
            ComeAlone, AnswerHonoured, AsksAsRead

\* An access token that runs out changes nothing of the refresh token.
LEMMA ExpiryKeeps ==
    ASSUME TokenInv, AccessExpires
    PROVE  OnlyIssued' /\ FreshHonoured' /\ \A v \in Renewers : RenewalKept(v)'
<1> USE DEF TokenInv
<1>1. /\ conn # None /\ conn.fresh /\ conn' = [conn EXCEPT !.fresh = FALSE]
      /\ renewal' = renewal /\ grants' = grants /\ minted' = minted /\ rotates' = rotates
      BY DEF AccessExpires
<1>2. conn' # None /\ conn'.token = conn.token /\ conn'.fresh = FALSE /\ conn'.broken = conn.broken
  <2>1. conn \in ConnRow
        BY <1>1 DEF TokenTypeOK
  <2>2. conn' \in ConnRow /\ conn'.token = conn.token /\ conn'.fresh = FALSE /\ conn'.broken = conn.broken
        BY Zenon, <1>1, <2>1, RowMarked
  <2> QED BY <2>2, ConnRowAssumption
<1>3. OnlyIssued' /\ FreshHonoured'
      BY Zenon, <1>1, <1>2 DEF OnlyIssued, FreshHonoured
<1>4. ASSUME NEW v \in Renewers PROVE RenewalKept(v)'
  <2>1. AsReadHolds(v)'
        BY Zenon, <1>1 DEF AsReadHolds
  <2>2. RefusedForGood(v)' /\ ComeAlone(v)' /\ AnswerHonoured(v)'
        BY Zenon, <1>1, <1>2 DEF RefusedForGood, ComeAlone, AnswerHonoured
  <2>3. AsksAsRead(v)'
        BY Zenon, <1>1, <1>2 DEF AsksAsRead, Connected
  <2> QED BY <2>1, <2>2, <2>3 DEF RenewalKept
<1> QED BY <1>3, <1>4

-----------------------------------------------------------------------------

\* A run that reads the row holds its token, as it is.
LEMMA ReadKeeps ==
    ASSUME TokenInv, NEW w \in Renewers, ReadStale(w)
    PROVE  OnlyIssued' /\ FreshHonoured' /\ \A v \in Renewers : RenewalKept(v)'
<1> USE DEF TokenInv
<1>1. /\ conn # None /\ ~conn.broken /\ ~conn.fresh
      /\ conn' = conn /\ grants' = grants /\ minted' = minted /\ rotates' = rotates
      BY DEF ReadStale, Connected
<1>2. /\ renewal'[w].pc = "ask" /\ renewal'[w].token = conn.token /\ renewal'[w].asRead = TRUE
      /\ OthersStay(w)
      BY DEF ReadStale, OthersStay, TokenTypeOK
<1>3. OnlyIssued' /\ FreshHonoured'
      BY Zenon, <1>1, <1>2 DEF OnlyIssued, FreshHonoured, Connected, OthersStay
<1>4. ASSUME NEW v \in Renewers PROVE RenewalKept(v)'
  <2>1. AsReadHolds(v)'
        BY Zenon, <1>1, <1>2 DEF AsReadHolds, OthersStay
  <2>2. RefusedForGood(v)' /\ AnswerHonoured(v)' /\ AsksAsRead(v)'
        BY Zenon, <1>1, <1>2 DEF RefusedForGood, AnswerHonoured, AsksAsRead, OthersStay, Connected
  <2>3. ComeAlone(v)'
        BY Zenon, <1>1, <1>2 DEF ComeAlone, OthersStay
  <2> QED BY <2>1, <2>2, <2>3 DEF RenewalKept
<1> QED BY <1>3, <1>4

\* A refusal is of a token that is no longer honoured.
LEMMA RefusedKeeps ==
    ASSUME TokenInv, NEW w \in Renewers, Refused(w)
    PROVE  OnlyIssued' /\ FreshHonoured' /\ \A v \in Renewers : RenewalKept(v)'
<1> USE DEF TokenInv
<1>1. conn' = conn /\ grants' = grants /\ minted' = minted /\ rotates' = rotates /\ renewal[w].token \notin grants /\ renewal[w].pc = "ask"
      BY DEF Refused
<1>2. /\ renewal'[w].pc = "mark" /\ renewal'[w].token = renewal[w].token /\ renewal'[w].why = "refused"
      /\ renewal'[w].asRead = renewal[w].asRead
      /\ OthersStay(w)
  <2>1. renewal[w] \in Renewal /\ renewal \in [Renewers -> Renewal]
        BY DEF TokenTypeOK
  <2> DEFINE next == [renewal[w] EXCEPT !.pc = "mark", !.why = "refused"]
  <2>2. next \in Renewal /\ next.pc = "mark" /\ next.why = "refused" /\ next.token = renewal[w].token /\ next.asRead = renewal[w].asRead
        BY <2>1, RenewalStops
  <2>3. RenewalGoes(w, next)
        BY DEF Refused
  <2> HIDE DEF next
  <2>4. renewal'[w] = next /\ OthersStay(w)
        BY <2>1, <2>2, <2>3, RenewalGoesOn DEF OthersStay
  <2> QED BY <2>2, <2>4
<1>3. OnlyIssued' /\ FreshHonoured'
      BY Zenon, <1>1, <1>2 DEF OnlyIssued, FreshHonoured, Connected, OthersStay
<1>4. ASSUME NEW v \in Renewers PROVE RenewalKept(v)'
  <2>1. AsReadHolds(v)'
        BY Zenon, <1>1, <1>2 DEF AsReadHolds, OthersStay
  <2>2. RefusedForGood(v)' /\ AnswerHonoured(v)' /\ AsksAsRead(v)'
        BY Zenon, <1>1, <1>2 DEF RefusedForGood, AnswerHonoured, AsksAsRead, OthersStay, Connected
  <2>3. ComeAlone(v)'
        BY Zenon, <1>1, <1>2 DEF ComeAlone, OthersStay
  <2> QED BY <2>1, <2>2, <2>3 DEF RenewalKept
<1> QED BY <1>3, <1>4

\* With a provider that rotates, a use of the token retires it and brings the next one.
Rotated(w) ==
    /\ renewal[w].token \in grants
    /\ grants' = (grants \ {renewal[w].token}) \cup {Issued}
    /\ minted' = Issued

\* What a rotation leaves of what the others hold.
LEMMA RotationKeeps ==
    ASSUME TokenInv, NEW w \in Renewers, renewal[w].pc = "ask", rotates, rotates' = rotates,
           conn' = conn, OthersStay(w), Rotated(w)
    PROVE  /\ conn' # None => conn'.token \in Named'
           /\ FreshHonoured'
           /\ \A v \in Renewers \ {w} : renewal'[v].token \in Named' /\ AsReadHolds(v)' /\ RefusedForGood(v)' /\ AnswerHonoured(v)' /\ AsksAsRead(v)'
<1> USE DEF TokenInv
<1>1. Named' = Named \cup {Issued} /\ Issued \notin Named
      BY NamedGrows, IssuedIsNew DEF Rotated
<1>2. (conn # None => conn.token \in Named) /\ \A v \in Renewers : renewal[v].token \in Named
      BY TokensNamed
<1>3. renewal[w].token # None /\ grants # {} /\ grants' # {}
      BY IssuedIsNew DEF Rotated
<1>4. ASSUME conn # None, ~conn.broken, conn.fresh, conn.token # None PROVE renewal[w].token # conn.token
      BY Zenon, <1>4 DEF AsksAsRead, AsReadHolds, Connected
<1>5. FreshHonoured'
      BY Zenon, <1>3, <1>4 DEF FreshHonoured, Connected, Rotated
<1>6. ASSUME NEW v \in Renewers \ {w}
      PROVE  renewal'[v].token \in Named' /\ AsReadHolds(v)' /\ RefusedForGood(v)' /\ AnswerHonoured(v)' /\ AsksAsRead(v)'
  <2>1. renewal'[v] = renewal[v]
        BY DEF OthersStay
  <2>2. AsReadHolds(v)' /\ AsksAsRead(v)'
        BY Zenon, <2>1 DEF AsReadHolds, AsksAsRead, Connected
  <2>3. renewal'[v].token \in Named'
        BY <1>1, <1>2, <2>1
  <2>4. renewal[v].token # Issued
        BY <1>1, <1>2
  <2>5. RefusedForGood(v)'
        BY Zenon, <2>1, <2>4 DEF RefusedForGood, Rotated
  <2>6. renewal[v].pc = "store" => renewal[w].token # renewal[v].token
        BY Zenon DEF ComeAlone
  <2>7. AnswerHonoured(v)'
        BY Zenon, <1>3, <2>1, <2>6 DEF AnswerHonoured, Rotated
  <2> QED BY <2>2, <2>3, <2>5, <2>7
<1> QED BY <1>1, <1>2, <1>5, <1>6

\* A run that exchanges its token holds the one that has come alone.
LEMMA ExchangeKeeps ==
    ASSUME TokenInv, NEW w \in Renewers, Exchange(w)
    PROVE  OnlyIssued' /\ FreshHonoured' /\ \A v \in Renewers : RenewalKept(v)'
<1> USE DEF TokenInv
<1>1. renewal[w].pc = "ask" /\ renewal[w].token \in grants /\ conn' = conn /\ rotates' = rotates
      BY DEF Exchange
<1>2. renewal[w] \in Renewal /\ renewal \in [Renewers -> Renewal]
      BY DEF TokenTypeOK
<1>3. (conn # None => conn.token \in Named) /\ (\A v \in Renewers : renewal[v].token \in Named) /\ Issued \notin Named
      BY TokensNamed, IssuedIsNew
<1>4. CASE rotates
  <2>1. /\ Rotated(w) /\ minted < MaxMinted
        /\ RenewalGoes(w, [renewal[w] EXCEPT !.pc = "store", !.token = Issued])
        BY Zenon, <1>1, <1>4 DEF Exchange, Rotated
  <2>2. Issued \in RefreshTokens
        BY <2>1, TokenAssumption DEF TokenTypeOK, Issued, RefreshTokens
  <2> DEFINE next == [renewal[w] EXCEPT !.pc = "store", !.token = Issued]
  <2>3. Issued \in RefreshTokens \cup {None}
        BY <2>2
  <2>4. next \in Renewal /\ next.pc = "store" /\ next.token = Issued /\ next.asRead = renewal[w].asRead
        BY <1>2, <2>3, RenewalSteps
  <2> HIDE DEF next
  <2>5. renewal'[w] = next /\ OthersStay(w)
        BY <1>2, <2>1, <2>4, RenewalGoesOn DEF OthersStay, next
  <2>6. renewal'[w].pc = "store" /\ renewal'[w].token = Issued /\ renewal'[w].asRead = renewal[w].asRead
        BY <2>4, <2>5
  <2>7. /\ conn' # None => conn'.token \in Named'
        /\ FreshHonoured'
        /\ \A v \in Renewers \ {w} : renewal'[v].token \in Named' /\ AsReadHolds(v)' /\ RefusedForGood(v)' /\ AnswerHonoured(v)' /\ AsksAsRead(v)'
        BY <1>1, <1>4, <2>1, <2>5, RotationKeeps
  <2>8. Issued \in Named' /\ Issued \in grants'
        BY <2>1, NamedGrows DEF Rotated
  <2>9. OnlyIssued'
        BY <2>6, <2>7, <2>8 DEF OnlyIssued, Named
  <2>10. AsReadHolds(w)' /\ RefusedForGood(w)' /\ AnswerHonoured(w)' /\ AsksAsRead(w)'
        BY Zenon, <1>1, <2>6, <2>8 DEF AsReadHolds, RefusedForGood, AnswerHonoured, AsksAsRead
  <2>11. ComeAlone(w)'
    <3>1. \A v \in Renewers \ {w} : renewal'[v].token # Issued
          BY <1>3, <2>5 DEF OthersStay
    <3>2. conn' # None => conn'.token # Issued
          BY <1>1, <1>3
    <3> QED BY <2>6, <3>1, <3>2, IssuedIsNew DEF ComeAlone
  <2>12. ASSUME NEW v \in Renewers \ {w} PROVE ComeAlone(v)'
    <3>1. renewal'[v].token # Issued /\ renewal'[v] = renewal[v]
          BY <1>3, <2>5 DEF OthersStay
    <3> QED BY Zenon, <1>1, <1>4, <2>5, <2>6, <3>1 DEF ComeAlone, OthersStay
  <2> QED BY <2>7, <2>9, <2>10, <2>11, <2>12 DEF RenewalKept
<1>5. CASE ~rotates
  <2>1. RenewalGoes(w, [renewal[w] EXCEPT !.pc = "store"]) /\ grants' = grants /\ minted' = minted
        BY Zenon, <1>5 DEF Exchange
  <2> DEFINE next == [renewal[w] EXCEPT !.pc = "store"]
  <2>2. next \in Renewal /\ next.pc = "store" /\ next.token = renewal[w].token /\ next.asRead = renewal[w].asRead
        BY <1>2, RenewalStops
  <2> HIDE DEF next
  <2>3. renewal'[w] = next /\ OthersStay(w)
        BY <1>2, <2>1, <2>2, RenewalGoesOn DEF OthersStay, next
  <2>4. renewal'[w].pc = "store" /\ renewal'[w].token = renewal[w].token /\ renewal'[w].asRead = renewal[w].asRead
        BY <2>2, <2>3
  <2>5. OnlyIssued' /\ FreshHonoured'
        BY Zenon, <1>1, <2>1, <2>3, <2>4 DEF OnlyIssued, FreshHonoured, Connected, OthersStay
  <2>6. ASSUME NEW v \in Renewers PROVE RenewalKept(v)'
    <3>1. AsReadHolds(v)'
          BY Zenon, <1>1, <2>3, <2>4 DEF AsReadHolds, OthersStay
    <3>2. ComeAlone(v)' /\ AsksAsRead(v)'
          BY Zenon, <1>1, <1>5 DEF ComeAlone, AsksAsRead
    <3>3. RefusedForGood(v)' /\ AnswerHonoured(v)'
          BY Zenon, <1>1, <2>1, <2>3, <2>4 DEF RefusedForGood, AnswerHonoured, OthersStay
    <3> QED BY <3>1, <3>2, <3>3 DEF RenewalKept
  <2> QED BY <2>5, <2>6
<1> QED BY <1>4, <1>5

\* A provider that does not answer may have rotated all the same.
LEMMA UnansweredKeeps ==
    ASSUME TokenInv, NEW w \in Renewers, Unanswered(w)
    PROVE  OnlyIssued' /\ FreshHonoured' /\ \A v \in Renewers : RenewalKept(v)'
<1> USE DEF TokenInv
<1>1. renewal[w].pc = "ask" /\ conn' = conn /\ rotates' = rotates
      BY DEF Unanswered
<1>2. renewal[w] \in Renewal /\ renewal \in [Renewers -> Renewal]
      BY DEF TokenTypeOK
<1> DEFINE next == [renewal[w] EXCEPT !.pc = "mark", !.why = "outage"]
<1>3. next \in Renewal /\ next.pc = "mark" /\ next.why = "outage" /\ next.token = renewal[w].token /\ next.asRead = renewal[w].asRead
      BY <1>2, RenewalStops
<1>4. RenewalGoes(w, next)
      BY DEF Unanswered
<1> HIDE DEF next
<1>5. renewal'[w] = next /\ OthersStay(w)
      BY <1>2, <1>3, <1>4, RenewalGoesOn DEF OthersStay
<1>6. /\ renewal'[w].pc = "mark" /\ renewal'[w].why = "outage" /\ renewal'[w].token = renewal[w].token
      /\ renewal'[w].asRead = renewal[w].asRead
      BY <1>3, <1>5
<1>7. AsReadHolds(w)' /\ RefusedForGood(w)' /\ ComeAlone(w)' /\ AnswerHonoured(w)' /\ AsksAsRead(w)'
      BY Zenon, <1>1, <1>6 DEF AsReadHolds, RefusedForGood, ComeAlone, AnswerHonoured, AsksAsRead
<1>8. \A v \in Renewers \ {w} : ComeAlone(v)'
      BY Zenon, <1>1, <1>5, <1>6 DEF ComeAlone, OthersStay
<1>9. CASE grants' = grants /\ minted' = minted
  <2>1. OnlyIssued' /\ FreshHonoured'
        BY Zenon, <1>1, <1>5, <1>6, <1>9 DEF OnlyIssued, FreshHonoured, Connected, OthersStay
  <2>2. ASSUME NEW v \in Renewers \ {w} PROVE AsReadHolds(v)' /\ RefusedForGood(v)' /\ AnswerHonoured(v)' /\ AsksAsRead(v)'
        BY Zenon, <1>1, <1>5, <1>9 DEF AsReadHolds, RefusedForGood, AnswerHonoured, AsksAsRead, Connected, OthersStay
  <2> QED BY <1>7, <1>8, <2>1, <2>2 DEF RenewalKept
<1>10. CASE rotates /\ Rotated(w)
  <2>1. /\ conn' # None => conn'.token \in Named'
        /\ FreshHonoured'
        /\ \A v \in Renewers \ {w} : renewal'[v].token \in Named' /\ AsReadHolds(v)' /\ RefusedForGood(v)' /\ AnswerHonoured(v)' /\ AsksAsRead(v)'
        BY <1>1, <1>5, <1>10, RotationKeeps
  <2>2. renewal[w].token \in Named'
        BY <1>10, TokensNamed, NamedGrows DEF Rotated
  <2>3. OnlyIssued'
        BY <1>6, <2>1, <2>2 DEF OnlyIssued, Named
  <2> QED BY <1>7, <1>8, <2>1, <2>3 DEF RenewalKept
<1> QED BY <1>9, <1>10 DEF Unanswered, Rotated

-----------------------------------------------------------------------------

\* A run that nothing touches, while the others stay or end.
LEMMA Undisturbed ==
    ASSUME NEW v \in Renewers, ComeAlone(v), AsksAsRead(v),
           rotates' = rotates, conn' = conn, renewal'[v] = renewal[v],
           \A u \in Renewers : renewal'[u].pc \in {"ask", "store"} => renewal'[u] = renewal[u]
    PROVE  ComeAlone(v)' /\ AsksAsRead(v)'
<1>1. ComeAlone(v)'
      BY Zenon DEF ComeAlone
<1>2. AsksAsRead(v)'
      BY Zenon DEF AsksAsRead, Connected
<1> QED BY <1>1, <1>2

\* A renewal that ends and writes nothing.
LEMMA EndKeeps ==
    ASSUME TokenInv, NEW w \in Renewers, RenewalEnds(w), UNCHANGED <<conn, grants, rotates, minted>>
    PROVE  OnlyIssued' /\ FreshHonoured' /\ \A v \in Renewers : RenewalKept(v)'
<1> USE DEF TokenInv
<1>1. conn' = conn /\ grants' = grants /\ rotates' = rotates /\ minted' = minted
      OBVIOUS
<1>2. Ended(w) /\ OthersStay(w)
      BY MovedOrEnded
<1>3. None \in Named /\ Named' = Named
      BY <1>1, NamedGrows
<1>4. OnlyIssued'
      BY <1>1, <1>2, <1>3, TokensNamed DEF OnlyIssued, Named, Ended, OthersStay
<1>5. FreshHonoured'
      BY Zenon, <1>1 DEF FreshHonoured, Connected
<1>6. ASSUME NEW v \in Renewers PROVE RenewalKept(v)'
  <2>1. AsReadHolds(v)'
        BY Zenon, <1>1, <1>2 DEF AsReadHolds, OthersStay, Ended
  <2>2. RefusedForGood(v)' /\ AnswerHonoured(v)'
        BY Zenon, <1>1, <1>2 DEF RefusedForGood, AnswerHonoured, OthersStay, Ended
  <2>3. ComeAlone(v)' /\ AsksAsRead(v)'
    <3>1. CASE v = w
          BY Zenon, <1>2, <3>1 DEF ComeAlone, AsksAsRead, Ended
    <3>2. CASE v # w
      <4>1. renewal'[v] = renewal[v]
            BY <1>2, <3>2 DEF OthersStay
      <4>2. ComeAlone(v) /\ AsksAsRead(v)
            OBVIOUS
      <4>3. \A u \in Renewers : renewal'[u].pc \in {"ask", "store"} => renewal'[u] = renewal[u]
            BY <1>2 DEF OthersStay, Ended
      <4>4. ComeAlone(v)'
            BY <1>1, <4>1, <4>2, <4>3, Undisturbed
      <4>5. AsksAsRead(v)'
            BY <1>1, <4>1, <4>2, <4>3, Undisturbed
      <4> QED BY <4>4, <4>5
    <3> QED BY <3>1, <3>2
  <2> QED BY <2>1, <2>2, <2>3 DEF RenewalKept
<1> QED BY <1>4, <1>5, <1>6

\* A row marked broken is one that nobody will swap.
LEMMA MarkKeeps ==
    ASSUME TokenInv, NEW w \in Renewers, MarkBroken(w)
    PROVE  OnlyIssued' /\ FreshHonoured' /\ \A v \in Renewers : RenewalKept(v)'
<1> USE DEF TokenInv
<1>1. grants' = grants /\ rotates' = rotates /\ minted' = minted
      BY DEF MarkBroken
<1>2. CASE conn # None /\ conn' = [conn EXCEPT !.broken = TRUE] /\ RowMoves(w)
  <2>1. conn \in ConnRow
        BY <1>2 DEF TokenTypeOK
  <2>2. conn'.token = conn.token /\ conn'.broken = TRUE
        BY <1>2, <2>1, RowMarked
  <2>3. Ended(w) /\ \A v \in Renewers \ {w} : Stays(v) /\ renewal'[v].asRead = FALSE
        BY <1>2, MovedOrEnded
  <2>4. None \in Named /\ Named' = Named
        BY <1>1, NamedGrows
  <2>5. OnlyIssued'
    <3>1. conn'.token \in Named
          BY <1>2, <2>2, TokensNamed
    <3>2. \A v \in Renewers : renewal'[v].token \in Named
          BY <2>3, <2>4, TokensNamed DEF Ended, Stays
    <3> QED BY <2>4, <3>1, <3>2 DEF OnlyIssued, Named
  <2>6. FreshHonoured'
        BY Zenon, <2>2 DEF FreshHonoured, Connected
  <2>7. ASSUME NEW v \in Renewers PROVE RenewalKept(v)'
    <3>1. renewal'[v].asRead = FALSE
          BY <2>3 DEF Ended
    <3>2. AsReadHolds(v)' /\ AnswerHonoured(v)'
          BY Zenon, <3>1 DEF AsReadHolds, AnswerHonoured
    <3>3. AsksAsRead(v)'
          BY Zenon, <2>2 DEF AsksAsRead, Connected
    <3>4. RefusedForGood(v)'
          BY Zenon, <1>1, <2>3 DEF RefusedForGood, Stays, Ended
    <3>5. ComeAlone(v)'
      <4>1. CASE v = w
            BY Zenon, <2>3, <4>1 DEF ComeAlone, Ended
      <4>2. CASE v # w
        <5>1. renewal'[v].pc = renewal[v].pc /\ renewal'[v].token = renewal[v].token /\ ComeAlone(v)
              BY <2>3, <4>2 DEF Stays
        <5>2. \A u \in Renewers : renewal'[u].pc \in {"ask", "store"} =>
                  renewal'[u].pc = renewal[u].pc /\ renewal'[u].token = renewal[u].token
              BY <2>3 DEF Stays, Ended
        <5> QED BY Zenon, <1>1, <1>2, <2>2, <5>1, <5>2 DEF ComeAlone
      <4> QED BY <4>1, <4>2
    <3> QED BY <3>2, <3>3, <3>4, <3>5 DEF RenewalKept
  <2> QED BY <2>5, <2>6, <2>7
<1>3. CASE conn' = conn /\ RenewalEnds(w)
      BY <1>1, <1>3, EndKeeps
<1> QED BY Zenon, <1>2, <1>3, MarkOrLeave

\* The token that is stored is honoured, or nothing is.
LEMMA SwapKeeps ==
    ASSUME TokenInv, NEW w \in Renewers, SwapToken(w)
    PROVE  OnlyIssued' /\ FreshHonoured' /\ \A v \in Renewers : RenewalKept(v)'
<1> USE DEF TokenInv
<1>1. renewal[w].pc = "store" /\ grants' = grants /\ rotates' = rotates /\ minted' = minted
      BY DEF SwapToken
<1>2. ASSUME renewal[w].asRead, conn' = [token |-> renewal[w].token, fresh |-> TRUE, broken |-> FALSE], RowMoves(w)
      PROVE  OnlyIssued' /\ FreshHonoured' /\ \A v \in Renewers : RenewalKept(v)'
  <2>1. conn'.token = renewal[w].token /\ conn'.broken = FALSE
        BY <1>2
  <2>2. Ended(w) /\ \A v \in Renewers \ {w} : Stays(v) /\ renewal'[v].asRead = FALSE
        BY <1>2, MovedOrEnded
  <2>3. None \in Named /\ Named' = Named
        BY <1>1, NamedGrows
  <2>4. OnlyIssued'
    <3>1. conn'.token \in Named
          BY <2>1, TokensNamed
    <3>2. \A v \in Renewers : renewal'[v].token \in Named
          BY <2>2, <2>3, TokensNamed DEF Ended, Stays
    <3> QED BY <2>3, <3>1, <3>2 DEF OnlyIssued, Named
  <2>5. FreshHonoured'
        BY Zenon, <1>1, <1>2, <2>1 DEF FreshHonoured, AnswerHonoured
  <2>6. ASSUME NEW v \in Renewers PROVE RenewalKept(v)'
    <3>1. renewal'[v].asRead = FALSE
          BY <2>2 DEF Ended
    <3>2. AsReadHolds(v)' /\ AnswerHonoured(v)'
          BY Zenon, <3>1 DEF AsReadHolds, AnswerHonoured
    <3>3. AsksAsRead(v)'
      <4>1. CASE v = w
            BY Zenon, <2>2, <4>1 DEF AsksAsRead, Ended
      <4>2. CASE v # w
        <5>1. rotates /\ renewal[v].pc = "ask" => renewal[v].token # renewal[w].token
              BY Zenon, <1>1, <4>2 DEF ComeAlone
        <5>2. renewal'[v].pc = renewal[v].pc /\ renewal'[v].token = renewal[v].token
              BY <2>2, <4>2 DEF Stays
        <5> QED BY Zenon, <1>1, <2>1, <5>1, <5>2 DEF AsksAsRead
      <4> QED BY <4>1, <4>2
    <3>4. RefusedForGood(v)'
          BY Zenon, <1>1, <2>2 DEF RefusedForGood, Stays, Ended
    <3>5. ComeAlone(v)'
      <4>1. \A u \in Renewers : renewal'[u].pc \in {"ask", "store"} =>
                /\ u # w /\ renewal'[u].pc = renewal[u].pc /\ renewal'[u].token = renewal[u].token
            BY <2>2 DEF Stays, Ended
      <4>2. ComeAlone(v) /\ ComeAlone(w)
            OBVIOUS
      <4>3. ASSUME rotates', renewal'[v].pc = "store"
            PROVE  /\ renewal'[v].token # None
                   /\ conn' # None => renewal'[v].token # conn'.token
                   /\ \A u \in Renewers \ {v} : renewal'[u].pc \in {"ask", "store"} => renewal'[u].token # renewal'[v].token
        <5>1. v # w /\ renewal[v].pc = "store" /\ renewal'[v].token = renewal[v].token
              BY <4>1, <4>3
        <5>2. rotates
              BY Zenon, <1>1, <4>3
        <5> QED BY Zenon, <1>1, <2>1, <4>1, <4>2, <5>1, <5>2 DEF ComeAlone
      <4> QED BY Zenon, <4>3 DEF ComeAlone
    <3> QED BY <3>2, <3>3, <3>4, <3>5 DEF RenewalKept
  <2> QED BY <2>4, <2>5, <2>6
<1>3. ASSUME conn' = conn, RenewalEnds(w)
      PROVE  OnlyIssued' /\ FreshHonoured' /\ \A v \in Renewers : RenewalKept(v)'
      BY <1>1, <1>3, EndKeeps
<1> QED BY Zenon, <1>2, <1>3, SwapOrLeave

-----------------------------------------------------------------------------

\* At first there is no row and no token.
LEMMA TokenInvInit == TokenInit => TokenInv
<1> SUFFICES ASSUME TokenInit PROVE TokenInv
    OBVIOUS
<1>1. TokenTypeOK
      BY TokenAssumption, NoRenewalType DEF TokenInit, TokenTypeOK
<1>2. conn = None /\ \A w \in Renewers : renewal[w] = NoRenewal
      BY DEF TokenInit
<1>3. OnlyIssued /\ FreshHonoured
      BY <1>2, NoRenewalFields DEF OnlyIssued, FreshHonoured, Connected
<1>4. ASSUME NEW w \in Renewers
      PROVE  AsReadHolds(w) /\ RefusedForGood(w) /\ ComeAlone(w) /\ AnswerHonoured(w) /\ AsksAsRead(w)
      BY <1>2, NoRenewalFields DEF AsReadHolds, RefusedForGood, ComeAlone, AnswerHonoured, AsksAsRead, Connected
<1> QED BY <1>1, <1>3, <1>4 DEF TokenInv

\* Every step of the connection keeps the invariant.
LEMMA TokenInvStep ==
    ASSUME TokenInv, [TokenNext]_tokenVars
    PROVE  TokenInv'
<1> DEFINE Kept == OnlyIssued' /\ FreshHonoured' /\ \A v \in Renewers : RenewalKept(v)'
<1>1. CASE TokenNext
  <2>1. TokenTypeOK'
        BY <1>1, TokenTypeStep DEF TokenInv
  <2>2. Kept
    <3>1. CASE Connect \/ Disconnect \/ Revoke \/ AccessExpires
          BY <3>1, ConnectKeeps, DisconnectKeeps, RevokeKeeps, ExpiryKeeps
    <3>2. ASSUME NEW w \in Renewers, ReadStale(w) \/ Exchange(w) \/ Refused(w) \/ Unanswered(w) PROVE Kept
          BY <3>2, ReadKeeps, ExchangeKeeps, RefusedKeeps, UnansweredKeeps
    <3>3. ASSUME NEW w \in Renewers, MarkBroken(w) \/ SwapToken(w) PROVE Kept
          BY <3>3, MarkKeeps, SwapKeeps
    <3>4. ASSUME NEW w \in Renewers, RenewalDies(w) PROVE Kept
          BY <3>4, EndKeeps DEF RenewalDies
    <3> QED BY <1>1, <3>1, <3>2, <3>3, <3>4 DEF TokenNext
  <2> QED BY <2>1, <2>2 DEF TokenInv, RenewalKept
<1>2. CASE UNCHANGED tokenVars
      BY <1>2 DEF TokenInv, tokenVars, TokenTypeOK, OnlyIssued, FreshHonoured, Connected, AsReadHolds, RefusedForGood,
           ComeAlone, AnswerHonoured, AsksAsRead
<1> QED BY <1>1, <1>2

\* (conn, renewal, grants) No run holds a token that another has, and an answer that has
\* come is honoured until it is stored or everything is revoked.
THEOREM TokenInvariant == TokenSpec => []TokenInv
<1> QED BY TokenInvInit, TokenInvStep, PTL DEF TokenSpec

\* What can be used stays so while the row stays, and those who are bringing a token.
LEMMA UsableStays ==
    ASSUME Usable, conn' = conn, grants' = grants, NEW w \in Renewers, OthersStay(w), ~Coming(w)
    PROVE  Usable'
<1>1. conn # None /\ ~conn.broken /\ (conn.fresh \/ conn.token \in grants \/ \E v \in Renewers : Coming(v))
      BY DEF Usable, Connected
<1>2. ASSUME NEW v \in Renewers, Coming(v) PROVE Coming(v)'
  <2>1. renewal'[v] = renewal[v]
        BY Zenon, <1>2 DEF OthersStay
  <2> QED BY Zenon, <1>2, <2>1 DEF Coming
<1> QED BY Zenon, <1>1, <1>2 DEF Usable, Connected

\* The read of the row, and the refusal.
LEMMA AskingKeepsUsable ==
    ASSUME TokenTypeOK, Usable, NEW w \in Renewers, ReadStale(w) \/ Refused(w)
    PROVE  Usable'
<1>1. conn' = conn /\ grants' = grants
      BY DEF ReadStale, Refused
<1>2. renewal[w].pc # "store"
      BY DEF ReadStale, Refused
<1>3. OthersStay(w)
      BY DEF ReadStale, Refused, RenewalGoes, OthersStay, TokenTypeOK
<1> QED BY <1>1, <1>2, <1>3, UsableStays DEF Coming

\* The use of the token retires what the row names only for the one who brings the next.
LEMMA ExchangeKeepsUsable ==
    ASSUME TokenInv, Usable, NEW w \in Renewers, Exchange(w)
    PROVE  Usable'
<1> USE DEF TokenInv
<1>1. renewal[w].pc = "ask" /\ renewal[w].token \in grants /\ conn' = conn
      BY DEF Exchange
<1>2. renewal[w] \in Renewal /\ renewal \in [Renewers -> Renewal]
      BY DEF TokenTypeOK
<1>3. OthersStay(w)
      BY <1>2 DEF Exchange, RenewalGoes, OthersStay
<1>4. CASE ~rotates
  <2>1. grants' = grants
        BY Zenon, <1>4 DEF Exchange
  <2> QED BY <1>1, <1>3, <2>1, UsableStays DEF Coming
<1>5. CASE rotates
  <2> DEFINE next == [renewal[w] EXCEPT !.pc = "store", !.token = Issued]
  <2>1. Rotated(w) /\ minted < MaxMinted /\ RenewalGoes(w, next)
        BY Zenon, <1>1, <1>5 DEF Exchange, Rotated
  <2>2. Issued \in RefreshTokens \cup {None}
        BY <2>1, TokenAssumption DEF TokenTypeOK, Issued, RefreshTokens
  <2>3. next \in Renewal /\ next.pc = "store" /\ next.token = Issued /\ next.asRead = renewal[w].asRead
        BY <1>2, <2>2, RenewalSteps
  <2> HIDE DEF next
  <2>4. renewal'[w] = next
        BY <1>2, <2>1, <2>3, RenewalGoesOn
  <2>5. ASSUME renewal[w].asRead PROVE Coming(w)'
    <3>1. renewal'[w].pc = "store" /\ renewal'[w].token \in grants'
          BY <2>1, <2>3, <2>4 DEF Rotated
    <3>2. renewal'[w].asRead
          BY Zenon, <2>3, <2>4, <2>5
    <3> QED BY Zenon, <3>1, <3>2 DEF Coming
  <2>6. conn # None /\ ~conn.broken /\ (conn.fresh \/ conn.token \in grants \/ \E v \in Renewers : Coming(v))
        BY DEF Usable, Connected
  <2>7. ASSUME conn.token \in grants PROVE conn.token \in grants' \/ renewal[w].asRead
    <3>1. conn.token # None
          BY <2>7, IssuedIsNew
    <3>2. conn.token = renewal[w].token => renewal[w].asRead
          BY Zenon, <1>1, <1>5, <2>6, <3>1 DEF AsksAsRead, Connected
    <3> QED BY Zenon, <2>1, <2>7, <3>2 DEF Rotated
  <2>8. ASSUME NEW v \in Renewers, Coming(v) PROVE Coming(v)'
    <3>1. renewal[v].pc = "store" /\ renewal[v].asRead /\ renewal[v].token \in grants
          BY <2>8 DEF Coming
    <3>2. v # w
          BY <1>1, <3>1
    <3>3. renewal'[v] = renewal[v] /\ renewal[v].token # renewal[w].token
          BY Zenon, <1>1, <1>3, <1>5, <3>1, <3>2 DEF OthersStay, ComeAlone
    <3> QED BY Zenon, <2>1, <3>1, <3>3 DEF Coming, Rotated
  <2> QED BY Zenon, <1>1, <2>5, <2>6, <2>7, <2>8 DEF Usable, Connected
<1> QED BY <1>4, <1>5

\* (conn, every action of the token) A connection that can be used stays so, but for the
\* causes the property names: the inductive invariant says which token each renewal
\* holds, and that an answer is never retired before it is stored.
THEOREM ConnectionsEndByThese == TokenSpec => OnlyTheseEndAConnection
<1> DEFINE A == Usable /\ ~Usable' =>
                    \/ Disconnect \/ Revoke
                    \/ AccessExpires /\ (conn.token = None \/ grants = {})
                    \/ \E w \in Renewers :
                        \/ RenewalDies(w) \/ Unanswered(w)
                        \/ MarkBroken(w) /\ (renewal[w].why = "outage" \/ Outrun(w))
<1>1. ASSUME TokenInv, [TokenNext]_tokenVars, Usable, ~Usable' PROVE A
  <2> USE <1>1 DEF TokenInv
  <2>1. TokenNext
        BY DEF tokenVars, Usable, Connected, Coming
  <2>2. conn # None /\ ~conn.broken /\ (conn.fresh \/ conn.token \in grants \/ \E w \in Renewers : Coming(w))
        BY DEF Usable, Connected
  <2>3. ASSUME Connect PROVE FALSE
    <3>1. PICK t \in {None, Issued} : conn' = [token |-> t, fresh |-> TRUE, broken |-> FALSE]
          BY <2>3 DEF Connect
    <3>2. conn' # None
      <4>1. conn' \in ConnRow
        <5>1. t \in RefreshTokens \cup {None}
              BY <2>3, TokenAssumption DEF Connect, TokenTypeOK, Issued, RefreshTokens
        <5> QED BY <3>1, <5>1, RowWritten
      <4> QED BY <4>1, ConnRowAssumption
    <3>3. conn'.fresh = TRUE /\ conn'.broken = FALSE
          BY <3>1
    <3> QED BY Zenon, <3>2, <3>3 DEF Usable, Connected
  <2>4. ASSUME AccessExpires PROVE conn.token = None \/ grants = {}
    <3>1. /\ conn.fresh /\ conn' = [conn EXCEPT !.fresh = FALSE] /\ grants' = grants /\ conn \in ConnRow
          BY <2>4 DEF AccessExpires, TokenTypeOK
    <3>2. conn' \in ConnRow /\ conn'.token = conn.token /\ conn'.broken = conn.broken
          BY Zenon, <3>1, RowMarked
    <3>3. conn' # None
          BY <3>2, ConnRowAssumption
    <3>4. ~conn'.broken
          BY Zenon, <2>2, <3>2
    <3>5. conn.token \notin grants
      <4>1. ASSUME conn.token \in grants PROVE Usable'
        <5>1. conn'.token \in grants'
              BY <3>1, <3>2, <4>1
        <5> QED BY Zenon, <3>3, <3>4, <5>1 DEF Usable, Connected
      <4> QED BY <4>1
    <3> QED BY Zenon, <2>2, <3>1, <3>5 DEF FreshHonoured, Connected
  <2>5. ASSUME NEW w \in Renewers, ReadStale(w) \/ Refused(w) \/ Exchange(w) PROVE FALSE
        BY <2>5, AskingKeepsUsable, ExchangeKeepsUsable
  <2>6. ASSUME NEW w \in Renewers, MarkBroken(w) PROVE renewal[w].why = "outage" \/ Outrun(w)
    <3>1. renewal[w].pc = "mark" /\ grants' = grants
          BY <2>6 DEF MarkBroken
    <3>2. ASSUME conn' = conn, RenewalEnds(w) PROVE FALSE
          BY <3>1, <3>2, MovedOrEnded, UsableStays DEF Coming
    <3>3. SUFFICES ASSUME renewal[w].why # "outage", renewal[w].asRead
                   PROVE  \E v \in Renewers \ {w} : Coming(v)
          BY Zenon DEF Outrun
    <3>4. renewal[w].why = "refused"
          BY <3>1, <3>3 DEF RefusedForGood, TokenTypeOK, Renewal
    <3>5. ~conn.fresh /\ conn.token \notin grants
          BY Zenon, <3>1, <3>3, <3>4 DEF AsReadHolds, RefusedForGood
    <3>6. PICK v \in Renewers : Coming(v)
          BY Zenon, <2>2, <3>5
    <3>7. v # w
          BY <3>1, <3>6 DEF Coming
    <3> QED BY <3>6, <3>7
  <2>7. ASSUME NEW w \in Renewers, SwapToken(w) PROVE FALSE
    <3>1. renewal[w].pc = "store" /\ grants' = grants
          BY <2>7 DEF SwapToken
    <3>2. ASSUME ~renewal[w].asRead, conn' = conn, RenewalEnds(w) PROVE FALSE
          BY <3>1, <3>2, MovedOrEnded, UsableStays DEF Coming
    <3>3. ASSUME conn' = [token |-> renewal[w].token, fresh |-> TRUE, broken |-> FALSE] PROVE FALSE
      <4>1. conn' \in ConnRow
        <5>1. renewal[w].token \in RefreshTokens \cup {None}
              BY RenewalToken DEF TokenTypeOK
        <5> QED BY <3>3, <5>1, RowWritten
      <4>2. conn' # None
            BY <4>1, ConnRowAssumption
      <4>3. conn'.fresh = TRUE /\ conn'.broken = FALSE
            BY <3>3
      <4> QED BY Zenon, <4>2, <4>3 DEF Usable, Connected
    <3> QED BY Zenon, <2>7, <3>2, <3>3, SwapOrLeave
  <2>8. CASE \E w \in Renewers : MarkBroken(w) \/ RenewalDies(w) \/ Unanswered(w)
        BY Zenon, <2>6, <2>8
  <2>9. CASE Connect \/ Disconnect \/ Revoke \/ AccessExpires
        BY Zenon, <2>3, <2>4, <2>9
  <2> QED BY Zenon, <2>1, <2>5, <2>7, <2>8, <2>9 DEF TokenNext
<1>2. ASSUME TokenInv, [TokenNext]_tokenVars
      PROVE  [A]_tokenVars
      BY <1>1, <1>2
<1> QED BY <1>2, TokenInvariant, PTL DEF TokenSpec, OnlyTheseEndAConnection
=============================================================================
