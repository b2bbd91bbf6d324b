-------------------------- MODULE NoteOutboxProofs --------------------------
(***************************************************************************)
(* Theorems about the projection outbox (NoteOutbox), for any paths,       *)
(* requests, drains, job ids and bounds: the outbox keeps its promise      *)
(* (Projection), what a note owes is forgotten only where one of five      *)
(* named things tore its path, and two drains run one job only once its    *)
(* row is due again or a save set it back.                                 *)
(*                                                                         *)
(* Every action but the end of a backoff is a step of one worker.  What    *)
(* such a step may touch is stated once (Moves), and each part of the      *)
(* invariant is shown to survive it for all the workers that stand still;  *)
(* an action then only has to bring its own worker's part.                 *)
(***************************************************************************)
EXTENDS NoteOutbox, TLAPS

-----------------------------------------------------------------------------
(* The inductive invariant *)

\* What a job or a worker is about: a path, and for a rename the other path it left.
Formed(x) ==
    /\ x.path \in Paths
    /\ IF x.kind = "rename" THEN x.from \in Paths \ {x.path} ELSE x.from = None

\* A worker is where its kind of work goes.
ShapedAt(w) ==
    /\ worker[w].pc \in AtWork \cup {"found", "tx"} => Formed(worker[w])
    /\ worker[w].pc \in {"found", "tx"} /\ worker[w].kind = "write" => worker[w].view # 0
    /\ worker[w].pc \in {"tx", "entity"} => worker[w].kind = "write"
    /\ worker[w].pc = "entity" => worker[w].view # 0
    /\ worker[w].pc \in {"entity", "due"} => worker[w].job # None
    /\ worker[w].pc = "live" => worker[w].kind # "delete"

Shaped ==
    /\ \A j \in Jobs : job[j].state # "none" => Formed(job[j])
    /\ \A w \in Workers : ShapedAt(w)

\* Is row j about what x is about?
Fits(j, x) == job[j].kind = x.kind /\ job[j].path = x.path /\ job[j].from = x.from

\* The row a worker names, while it exists, is about what the worker is about.
RowFitsAt(w) ==
    worker[w].pc \in AtWork \cup {"tx"} /\ worker[w].job # None /\ job[worker[w].job].state # "none" =>
        Fits(worker[w].job, worker[w])

RowFits == \A w \in Workers : RowFitsAt(w)

\* Two workers at work on one path have torn it.
NoCrossing ==
    \A v, w \in Workers :
        v # w /\ Busy(v) /\ Busy(w) => Touches(worker[v]) \cap Touches(worker[w]) \subseteq torn

\* The row of a worker's job is there until that worker settles it.
RowKeptAt(w) ==
    Busy(w) /\ worker[w].job # None /\ job[worker[w].job].state = "none" => Touches(worker[w]) \subseteq torn

RowKept == \A w \in Workers : RowKeptAt(w)

\* What a worker has read, and is about to write, is what is there.
ViewCurrentAt(w) ==
    worker[w].pc = "derive" =>
        IF worker[w].kind = "delete" THEN worker[w].view = 0
        ELSE worker[w].path \in torn \/ worker[w].view = note[worker[w].path]

ViewCurrent == \A w \in Workers : ViewCurrentAt(w)

\* A worker that has yet to settle its job has done what the job is for.
DoneAt(w) ==
    worker[w].pc = "settle" => \A p \in Paths \ torn : Rights(worker[w], p) => derived[p] = note[p]

DoneBeforeSettled == \A w \in Workers : DoneAt(w)

\* What is derived wrongly on a path that was never torn has a row that will right it.
OwedAt(p) == derived[p] # note[p] => \E j \in Jobs : job[j].state # "none" /\ Rights(job[j], p)

Owed == \A p \in Paths \ torn : OwedAt(p)

\* A row that was read has not gone back to fewer attempts unless a save reset it, and
\* since then was attempted if it is not due.
AttemptsGrowAt(w) ==
    worker[w].pc = "due" /\ job[worker[w].job].state # "none" /\ ~job[worker[w].job].reset =>
        /\ worker[w].seen <= job[worker[w].job].attempts
        /\ ~job[worker[w].job].due => worker[w].seen < job[worker[w].job].attempts

AttemptsGrow == \A w \in Workers : AttemptsGrowAt(w)

\* The row that a request found is, by now, in the trash or a live note.
RowLive == \A q \in Requests : rowAt[q] # None => note[rowAt[q]] # 0

OutboxInv ==
    /\ OutboxTypeOK /\ Shaped /\ RowFits /\ NoCrossing /\ RowKept
    /\ ViewCurrent /\ DoneBeforeSettled /\ Owed /\ AttemptsGrow /\ RowLive

-----------------------------------------------------------------------------
(* What one worker's step may touch *)

\* Row j stays what it is; of its attempts only a save's failed settle takes any back.
Keeps(j) ==
    /\ job'[j].state = "none" <=> job[j].state = "none"
    /\ job'[j].kind = job[j].kind /\ job'[j].path = job[j].path /\ job'[j].from = job[j].from
    /\ ~job'[j].reset =>
          /\ ~job[j].reset
          /\ job[j].attempts <= job'[j].attempts
          /\ ~job'[j].due => ~job[j].due \/ job[j].attempts < job'[j].attempts

\* Row j is created under an id that nobody names.
Mints(j) == Unnamed(j) /\ job'[j].state # "none" /\ Formed(job'[j])

\* Row j is deleted by a worker that is through with it.
Settles(w, j) == job'[j].state = "none" /\ worker[w].pc = "settle" /\ worker[w].job = j

\* Worker w becomes r: it changes a note only as it goes to work on it, or tears its path,
\* what is derived only on what it works on, and where it goes to work on another's path it
\* tears it.
Moves(w, r) ==
    /\ worker' = [worker EXCEPT ![w] = r]
    /\ torn \subseteq torn'
    /\ \A p \in Paths : note'[p] # note[p] => (r.pc \in AtWork /\ p \in Touches(r)) \/ p \in torn'
    /\ \A p \in Paths : derived'[p] # derived[p] => Busy(w) /\ p \in Touches(worker[w])
    /\ r.pc \in AtWork =>
          \/ Busy(w) /\ Touches(r) = Touches(worker[w])
          \/ \A v \in Workers \ {w} : Busy(v) => Touches(r) \cap Touches(worker[v]) \subseteq torn'
    /\ \A j \in Jobs : Keeps(j) \/ Mints(j) \/ Settles(w, j)

-----------------------------------------------------------------------------
(* Each part of the invariant, for the workers that stand still *)

\* The workers of a step.
LEMMA Others ==
  ASSUME OutboxTypeOK, NEW w \in Workers, NEW r, Moves(w, r)
  PROVE  worker'[w] = r /\ \A v \in Workers : v # w => worker'[v] = worker[v]
BY DEF OutboxTypeOK, Moves

\* A path that two are at work on is torn, and one that is changed under a worker too.
LEMMA Apart ==
  ASSUME OutboxInv, NEW w \in Workers, NEW r, Moves(w, r), NEW v \in Workers, v # w, Busy(v),
         NEW p \in Touches(worker[v]), p \in Paths, p \notin torn'
  PROVE  note'[p] = note[p] /\ derived'[p] = derived[p]
<1>1. ASSUME Busy(w), p \in Touches(worker[w])
      PROVE  FALSE
  BY <1>1 DEF OutboxInv, NoCrossing, Moves
<1>2. derived'[p] = derived[p]
  BY <1>1 DEF Moves
<1>3. note'[p] = note[p]
  BY <1>1 DEF Moves
<1> QED
  BY <1>2, <1>3

\* The shape of a worker's record is its own.
LEMMA ShapedMoves ==
  ASSUME OutboxInv, NEW w \in Workers, NEW r, Moves(w, r), ShapedAt(w)'
  PROVE  Shaped'
<1>1. \A v \in Workers : ShapedAt(v)'
  BY Others DEF OutboxInv, Shaped, ShapedAt, Formed
<1>2. ASSUME NEW j \in Jobs, job'[j].state # "none"
      PROVE  Formed(job'[j])
  BY <1>2 DEF OutboxInv, Shaped, Moves, Keeps, Mints, Settles, Formed
<1> QED
  BY <1>1, <1>2 DEF Shaped, Formed

\* What a worker has read of its row fits, whichever worker moves.
LEMMA RowFitsMoves ==
  ASSUME OutboxInv, NEW w \in Workers, NEW r, Moves(w, r), RowFitsAt(w)'
  PROVE  RowFits'
<1>1. ASSUME NEW v \in Workers, v # w, worker[v].pc \in AtWork \cup {"tx"}, worker[v].job # None,
             job'[worker[v].job].state # "none"
      PROVE  Fits(worker[v].job, worker[v])'
  <2>1. worker'[v] = worker[v] /\ worker[v].job \in Jobs
    BY <1>1, Others DEF OutboxInv, OutboxTypeOK, WorkerRecord
  <2>2. Keeps(worker[v].job)
    BY <1>1, <2>1 DEF Moves, Mints, Unnamed, Settles
  <2>3. Fits(worker[v].job, worker[v])
    BY <1>1, <2>2 DEF OutboxInv, RowFits, RowFitsAt, Keeps
  <2> QED
    BY <2>1, <2>2, <2>3 DEF Keeps, Fits
<1> QED
  BY <1>1, Others DEF RowFits, RowFitsAt, OutboxInv

\* Two workers at work share no path but a torn one, whichever worker moves.
LEMMA NoCrossingMoves ==
  ASSUME OutboxInv, NEW w \in Workers, NEW r, Moves(w, r)
  PROVE  NoCrossing'
<1>1. worker'[w] = r /\ (\A v \in Workers : v # w => worker'[v] = worker[v]) /\ torn \subseteq torn'
  BY Others DEF OutboxInv, Moves
<1>2. ASSUME NEW v \in Workers, v # w, Busy(v), r.pc \in AtWork
      PROVE  Touches(r) \cap Touches(worker[v]) \subseteq torn'
  BY <1>1, <1>2 DEF OutboxInv, NoCrossing, Moves
<1>3. ASSUME NEW v \in Workers, NEW u \in Workers, v # u, Busy(v)', Busy(u)'
      PROVE  Touches(worker'[v]) \cap Touches(worker'[u]) \subseteq torn'
  <2>1. CASE v = w
    BY <1>1, <1>2, <1>3, <2>1 DEF Busy
  <2>2. CASE u = w
    BY <1>1, <1>2, <1>3, <2>2 DEF Busy
  <2>3. CASE v # w /\ u # w
    BY <1>1, <1>3, <2>3 DEF OutboxInv, NoCrossing, Busy
  <2> QED
    BY <2>1, <2>2, <2>3
<1> QED
  BY <1>3 DEF NoCrossing, Touches

\* A worker's row stays until it is settled or its paths are torn, whichever worker
\* moves.
LEMMA RowKeptMoves ==
  ASSUME OutboxInv, NEW w \in Workers, NEW r, Moves(w, r), RowKeptAt(w)'
  PROVE  RowKept'
<1>1. ASSUME NEW v \in Workers, v # w, Busy(v), worker[v].job # None, job'[worker[v].job].state = "none"
      PROVE  Touches(worker[v]) \subseteq torn'
  <2>1. worker[v].job \in Jobs /\ torn \subseteq torn'
    BY <1>1 DEF OutboxInv, OutboxTypeOK, WorkerRecord, Moves
  <2>2. CASE job[worker[v].job].state = "none"
    BY <1>1, <2>1, <2>2 DEF OutboxInv, RowKept, RowKeptAt
  <2>3. CASE job[worker[v].job].state # "none"
    <3>1. Settles(w, worker[v].job)
      BY <1>1, <2>1, <2>3 DEF Moves, Keeps, Mints
    <3>2. Busy(w) /\ worker[w].job = worker[v].job
      BY <3>1 DEF Settles, Busy, AtWork
    <3>3. Fits(worker[v].job, worker[v]) /\ Fits(worker[v].job, worker[w])
      BY <1>1, <2>3, <3>2 DEF OutboxInv, RowFits, RowFitsAt, Busy
    <3>4. Touches(worker[v]) = Touches(worker[w])
      BY <3>3 DEF Fits, Touches
    <3> QED
      BY <1>1, <2>1, <3>2, <3>4 DEF OutboxInv, NoCrossing
  <2> QED
    BY <2>2, <2>3
<1>2. \A v \in Workers : v # w => worker'[v] = worker[v]
  BY Others DEF OutboxInv
<1>3. ASSUME NEW v \in Workers, v # w
      PROVE  RowKeptAt(v)'
  BY <1>1, <1>2, <1>3 DEF RowKeptAt, Busy, Touches
<1> QED
  BY <1>3 DEF RowKept

\* A view is as old as it was, whichever worker moves.
LEMMA ViewCurrentMoves ==
  ASSUME OutboxInv, NEW w \in Workers, NEW r, Moves(w, r), ViewCurrentAt(w)'
  PROVE  ViewCurrent'
<1>1. ASSUME NEW v \in Workers, v # w
      PROVE  ViewCurrentAt(v)'
  <2>1. worker'[v] = worker[v] /\ ViewCurrentAt(v) /\ torn \subseteq torn'
    BY <1>1, Others DEF OutboxInv, ViewCurrent, Moves
  <2>2. ASSUME worker[v].pc = "derive", worker[v].path \notin torn'
        PROVE  note'[worker[v].path] = note[worker[v].path]
    <3>1. Busy(v) /\ worker[v].path \in Paths
      BY <2>2 DEF Busy, AtWork, OutboxInv, Shaped, ShapedAt, Formed
    <3>2. worker[v].path \in Touches(worker[v])
      BY <3>1, OutboxAssumption DEF Touches
    <3> QED
      BY <1>1, <2>2, <3>1, <3>2, Apart
  <2> QED
    BY <2>1, <2>2 DEF ViewCurrentAt
<1> QED
  BY <1>1 DEF ViewCurrent

\* What a worker rights is among what it touches.
LEMMA RightsTouches ==
  ASSUME NEW x, NEW p \in Paths, Rights(x, p)
  PROVE  p \in Touches(x)
BY OutboxAssumption DEF Rights, Touches

\* A projection is done before its row is settled, whichever worker moves.
LEMMA DoneMoves ==
  ASSUME OutboxInv, NEW w \in Workers, NEW r, Moves(w, r), DoneAt(w)'
  PROVE  DoneBeforeSettled'
<1>1. ASSUME NEW v \in Workers, v # w
      PROVE  DoneAt(v)'
  <2>1. worker'[v] = worker[v] /\ DoneAt(v) /\ torn \subseteq torn'
    BY <1>1, Others DEF OutboxInv, DoneBeforeSettled, Moves
  <2>2. ASSUME worker[v].pc = "settle", NEW p \in Paths \ torn', Rights(worker[v], p)'
        PROVE  derived'[p] = note'[p]
    <3>1. p \in Touches(worker[v]) /\ Busy(v)
      BY <2>1, <2>2, OutboxAssumption DEF Rights, Touches, Busy, AtWork
    <3>2. note'[p] = note[p] /\ derived'[p] = derived[p]
      BY <1>1, <2>2, <3>1, Apart
    <3>3. Rights(worker[v], p)
      BY <2>1, <2>2, <3>2 DEF Rights
    <3> QED
      BY <2>1, <2>2, <3>2, <3>3 DEF DoneAt
  <2> QED
    BY <2>1, <2>2 DEF DoneAt, Rights
<1> QED
  BY <1>1 DEF DoneBeforeSettled

\* A path whose projection is behind is owed one, whichever worker moves.
LEMMA OwedMoves ==
  ASSUME OutboxInv, NEW w \in Workers, NEW r, Moves(w, r),
         \A p \in Paths \ torn' : (note'[p] = note[p] /\ derived'[p] = derived[p]) \/ OwedAt(p)'
  PROVE  Owed'
<1>1. ASSUME NEW p \in Paths \ torn', note'[p] = note[p], derived'[p] = derived[p], derived[p] # note[p]
      PROVE  \E j \in Jobs : job'[j].state # "none" /\ Rights(job[j], p)'
  <2>1. p \in Paths \ torn
    BY <1>1 DEF Moves
  <2>2. PICK j \in Jobs : job[j].state # "none" /\ Rights(job[j], p)
    BY <1>1, <2>1 DEF OutboxInv, Owed, OwedAt
  <2>3. ~Settles(w, j)
    <3>1. SUFFICES ASSUME Settles(w, j)
                   PROVE  FALSE
      OBVIOUS
    <3>2. worker[w].pc = "settle" /\ worker[w].job = j /\ j # None
      BY <3>1, OutboxAssumption DEF Settles
    <3>3. Fits(j, worker[w])
      BY <2>2, <3>2 DEF OutboxInv, RowFits, RowFitsAt, AtWork
    <3>4. Rights(worker[w], p)
      BY <2>2, <3>3 DEF Fits, Rights
    <3> QED
      BY <1>1, <2>1, <3>2, <3>4 DEF OutboxInv, DoneBeforeSettled, DoneAt
  <2>4. Keeps(j)
    BY <2>2, <2>3 DEF Moves, Mints, Unnamed
  <2>5. job'[j].state # "none" /\ Rights(job[j], p)'
    BY <1>1, <2>2, <2>4 DEF Keeps, Rights
  <2> QED
    BY <2>5
<1>2. ASSUME NEW p \in Paths \ torn'
      PROVE  OwedAt(p)'
  BY <1>1, <1>2 DEF OwedAt, Rights
<1> QED
  BY <1>2 DEF Owed

\* What a drain has seen of the attempts is never ahead of them, whichever worker moves.
LEMMA AttemptsMoves ==
  ASSUME OutboxInv, NEW w \in Workers, NEW r, Moves(w, r), AttemptsGrowAt(w)', OutboxTypeOK'
  PROVE  AttemptsGrow'
<1>1. ASSUME NEW v \in Workers, v # w
      PROVE  AttemptsGrowAt(v)'
  <2> DEFINE j == worker[v].job
  <2>1. worker'[v] = worker[v] /\ AttemptsGrowAt(v) /\ worker[v].seen \in Nat
    BY <1>1, Others, OutboxAssumption DEF OutboxInv, AttemptsGrow, OutboxTypeOK, WorkerRecord
  <2>2. ASSUME worker[v].pc = "due", job'[j].state # "none", ~job'[j].reset
        PROVE  /\ worker[v].seen <= job'[j].attempts
               /\ ~job'[j].due => worker[v].seen < job'[j].attempts
    <3>1. j \in Jobs
      BY <2>2 DEF OutboxInv, Shaped, ShapedAt, OutboxTypeOK, WorkerRecord
    <3>2. Keeps(j)
      BY <2>2, <3>1 DEF Moves, Mints, Unnamed, Settles
    <3>3. job[j].attempts \in Nat /\ job'[j].attempts \in Nat
      BY <3>1, OutboxAssumption DEF OutboxInv, OutboxTypeOK, JobRow
    <3>4. /\ worker[v].seen <= job[j].attempts
          /\ ~job[j].due => worker[v].seen < job[j].attempts
      BY <2>1, <2>2, <3>2 DEF AttemptsGrowAt, Keeps
    <3> QED
      BY <2>1, <2>2, <3>2, <3>3, <3>4 DEF Keeps
  <2> QED
    BY <2>1, <2>2 DEF AttemptsGrowAt
<1> QED
  BY <1>1 DEF AttemptsGrow

\* What a step does to a path that is not torn: nothing, or there is a row that will right
\* it, or its derived rows are brought up to the note.
Pays(p) ==
    \/ note'[p] = note[p] /\ derived'[p] = derived[p]
    \/ Promise!Owe(p)
    \/ Promise!Project(p)

\* A debt is struck off only once it is paid, whichever worker moves.
LEMMA DebtMoves ==
  ASSUME OutboxInv, NEW w \in Workers, NEW r, Moves(w, r), \A p \in Paths \ torn' : Pays(p)
  PROVE  Promise!ProjectionNext
<1>1. SUFFICES ASSUME NEW p \in Paths \ torn', note'[p] = note[p], derived'[p] = derived[p]
               PROVE  Promise!Owe(p) \/ Promise!Settle(p) \/ Promise!Rest(p)
  BY DEF Promise!ProjectionNext, Pays, Moves
<1>2. ASSUME NEW j \in Jobs, Keeps(j)
      PROVE  /\ job'[j].state # "none" <=> job[j].state # "none"
             /\ Rights(job[j], p)' <=> Rights(job[j], p)
  BY <1>1, <1>2 DEF Keeps, Rights
<1>3. ASSUME p \in OnRecord, p \notin OnRecord'
      PROVE  derived[p] = note[p]
  <2>1. PICK j \in Jobs : job[j].state # "none" /\ Rights(job[j], p)
    BY <1>3 DEF OnRecord
  <2>2. ~Keeps(j)
    BY <1>1, <1>2, <1>3, <2>1 DEF OnRecord
  <2>3. worker[w].pc = "settle" /\ worker[w].job = j /\ j # None
    BY <2>1, <2>2, OutboxAssumption DEF Moves, Mints, Unnamed, Settles
  <2>4. Fits(j, worker[w])
    BY <2>1, <2>3 DEF OutboxInv, RowFits, RowFitsAt, AtWork
  <2>5. Rights(worker[w], p) /\ p \in Paths \ torn
    BY <1>1, <2>1, <2>4 DEF Fits, Rights, Moves
  <2> QED
    BY <2>3, <2>5 DEF OutboxInv, DoneBeforeSettled, DoneAt
<1> QED
  BY <1>1, <1>3 DEF Promise!Owe, Promise!Settle, Promise!Rest

\* What a step of w has to bring.
LEMMA StepKeeps ==
  ASSUME OutboxInv, NEW w \in Workers, NEW r, Moves(w, r), OutboxTypeOK', RowLive',
         ShapedAt(w)', RowFitsAt(w)', RowKeptAt(w)', ViewCurrentAt(w)', DoneAt(w)', AttemptsGrowAt(w)',
         \A p \in Paths \ torn' : Pays(p)
  PROVE  OutboxInv' /\ Promise!ProjectionNext
<1>1. \A p \in Paths \ torn' : (note'[p] = note[p] /\ derived'[p] = derived[p]) \/ OwedAt(p)'
  BY DEF Pays, Promise!Owe, Promise!Project, OnRecord, OwedAt
<1>2. Owed'
  BY <1>1, OwedMoves
<1> QED
  BY <1>2, ShapedMoves, RowFitsMoves, NoCrossingMoves, RowKeptMoves, ViewCurrentMoves, DoneMoves, AttemptsMoves,
     DebtMoves DEF OutboxInv

-----------------------------------------------------------------------------
(* Lemmas about workers and rows *)

\* Where no note changes, what a request has found is as live as it was.
LEMMA RowLiveStays ==
  ASSUME OutboxInv, note' = note, \A q \in Requests : rowAt'[q] \in {rowAt[q], None}
  PROVE  RowLive'
BY DEF OutboxInv, RowLive

\* Which paths a record that is well formed touches.
LEMMA FormedTouches ==
  ASSUME NEW x, Formed(x)
  PROVE  /\ Touches(x) \subseteq Paths /\ x.path \in Touches(x)
         /\ x.kind = "rename" => x.from \in Touches(x) /\ x.from \in Paths /\ x.from # x.path
         /\ x.kind # "rename" => x.from = None /\ Touches(x) = {x.path}
BY OutboxAssumption DEF Formed, Touches

\* A worker at rest has a well-typed record.
LEMMA IdleType ==
  /\ IdleWorker \in WorkerRecord /\ IdleWorker.pc = "idle" /\ IdleWorker.kind = "write"
  /\ IdleWorker.from = None /\ IdleWorker.job = None
BY OutboxAssumption DEF IdleWorker, WorkerRecord, Versions

\* An empty row is well typed.
LEMMA NoJobType == NoJob \in JobRow /\ NoJob.state = "none"
BY OutboxAssumption DEF NoJob, JobRow

\* So has a row that owes a projection.
LEMMA OwingType ==
  ASSUME NEW x \in WorkerRecord
  PROVE  /\ Owing(x) \in JobRow /\ Owing(x).state = "pending"
         /\ Owing(x).kind = x.kind /\ Owing(x).path = x.path /\ Owing(x).from = x.from
<1>1. x.kind \in {"write", "rename", "delete"} /\ x.path \in Paths \cup {None} /\ x.from \in Paths \cup {None}
  BY DEF WorkerRecord
<1>2. ASSUME NEW row \in JobRow
      PROVE  LET owed == [row EXCEPT !.state = "pending", !.kind = x.kind, !.path = x.path, !.from = x.from, !.due = TRUE]
             IN  /\ owed \in JobRow /\ owed.state = "pending"
                 /\ owed.kind = x.kind /\ owed.path = x.path /\ owed.from = x.from
  BY <1>1 DEF JobRow
<1> QED
  BY <1>2, NoJobType DEF Owing

\* Zero is a version: no note.
LEMMA ZeroIsAVersion == 0 \in Versions
BY OutboxAssumption DEF Versions

\* A row whose backoff is over is otherwise the same.
LEMMA RowDue ==
  ASSUME NEW row \in JobRow
  PROVE  /\ [row EXCEPT !.due = TRUE] \in JobRow
         /\ [row EXCEPT !.due = TRUE].state = row.state /\ [row EXCEPT !.due = TRUE].kind = row.kind
         /\ [row EXCEPT !.due = TRUE].path = row.path /\ [row EXCEPT !.due = TRUE].from = row.from
         /\ [row EXCEPT !.due = TRUE].attempts = row.attempts /\ [row EXCEPT !.due = TRUE].due
         /\ [row EXCEPT !.due = TRUE].reset = row.reset
BY DEF JobRow

\* A row that another one replaces, where its attempts did not go back.
LEMMA KeepsRow ==
  ASSUME OutboxTypeOK, NEW j \in Jobs, NEW row, job' = [job EXCEPT ![j] = row],
         row.state = "none" <=> job[j].state = "none",
         row.kind = job[j].kind, row.path = job[j].path, row.from = job[j].from,
         ~row.reset => /\ ~job[j].reset /\ job[j].attempts <= row.attempts
                       /\ ~row.due => ~job[j].due \/ job[j].attempts < row.attempts
  PROVE  Keeps(j)
<1>1. job'[j] = row
  BY DEF OutboxTypeOK
<1> QED
  BY <1>1 DEF Keeps

\* A row that is left alone is kept.
LEMMA KeepsSame ==
  ASSUME OutboxTypeOK, NEW j \in Jobs, job'[j] = job[j]
  PROVE  Keeps(j)
<1>1. job[j].attempts \in Nat
  BY OutboxAssumption DEF OutboxTypeOK, JobRow
<1>2. job[j].attempts <= job[j].attempts
  BY <1>1
<1> QED
  BY <1>2 DEF Keeps

\* Who goes to work where others are tears what they share, and what its commit lost.
LEMMA GoingTears ==
  ASSUME OutboxTypeOK, NEW w \in Workers, NEW x, Formed(x), NEW lost \in SUBSET Paths, GoesToWork(w, x, lost)
  PROVE  /\ worker' = [worker EXCEPT ![w] = x] /\ torn \subseteq torn' /\ lost \subseteq torn' /\ torn' \in SUBSET Paths
         /\ \A v \in Workers \ {w} : Busy(v) => Touches(x) \cap Touches(worker[v]) \subseteq torn'
BY FormedTouches DEF GoesToWork, OutboxTypeOK

-----------------------------------------------------------------------------
(* One lemma for each kind of step, then for each action *)

\* A worker gives up, or is through: it is idle, and the rows are kept or its own is gone.
LEMMA Rested ==
  ASSUME OutboxInv, NEW w \in Workers, worker' = [worker EXCEPT ![w] = IdleWorker],
         UNCHANGED <<note, derived, edits, torn>>, job' \in [Jobs -> JobRow],
         rowAt' \in [Requests -> Paths \cup {None}], \A q \in Requests : rowAt'[q] \in {rowAt[q], None},
         \A j \in Jobs : Keeps(j) \/ Settles(w, j)
  PROVE  OutboxInv' /\ Promise!ProjectionNext
<1>1. Moves(w, IdleWorker)
  BY IdleType DEF Moves, AtWork
<1>2. worker'[w] = IdleWorker
  BY <1>1, Others DEF OutboxInv
<1>3. OutboxTypeOK'
  BY IdleType DEF OutboxInv, OutboxTypeOK
<1>4. /\ ShapedAt(w)' /\ RowFitsAt(w)' /\ RowKeptAt(w)' /\ ViewCurrentAt(w)'
      /\ DoneAt(w)' /\ AttemptsGrowAt(w)'
  BY <1>2, IdleType
     DEF ShapedAt, RowFitsAt, RowKeptAt, ViewCurrentAt, DoneAt, AttemptsGrowAt, Busy, AtWork
<1>5. (\A p \in Paths : Pays(p)) /\ RowLive'
  BY RowLiveStays DEF Pays
<1> QED
  BY <1>1, <1>3, <1>4, <1>5, StepKeeps

\* What a request has found to change.
LEMMA FoundFacts ==
  ASSUME OutboxInv, NEW q \in Requests, worker[q].pc \in {"found", "tx"}
  PROVE  /\ worker[q] \in WorkerRecord /\ Formed(worker[q]) /\ q \in Workers
         /\ worker[q].kind = "write" => worker[q].view # 0
         /\ rowAt[q] \in Paths \cup {None} /\ (rowAt[q] # None => rowAt[q] \in Paths /\ note[rowAt[q]] # 0)
BY DEF OutboxInv, OutboxTypeOK, Shaped, ShapedAt, RowLive, Workers

\* Where a row lands there is a note.
LEMMA LandsLive ==
  ASSUME OutboxInv, NEW q \in Requests, worker[q].pc \in {"found", "tx"}
  PROVE  /\ Lands(q) \in Paths \cup {None}
         /\ Lands(q) # None => Text(q) \in Versions /\ Text(q) # 0
<1> DEFINE x == worker[q]
<1>1. /\ x.kind \in {"write", "rename", "delete"} /\ x.view \in Versions /\ x.path \in Paths
      /\ x.kind = "write" => x.view # 0
      /\ rowAt[q] \in Paths \cup {None} /\ (rowAt[q] # None => rowAt[q] \in Paths /\ note[rowAt[q]] # 0)
  BY FoundFacts DEF WorkerRecord, Formed
<1>2. rowAt[q] # None => note[rowAt[q]] \in Versions
  BY <1>1 DEF OutboxInv, OutboxTypeOK
<1> QED
  BY <1>1, <1>2 DEF Lands, Text, Puts

\* A commit changes the notes that its request is about, and the one it left behind.
LEMMA MutatedWhere ==
  ASSUME OutboxInv, NEW q \in Requests, worker[q].pc \in {"found", "tx"}
  PROVE  /\ Mutated(q) \in [Paths -> Versions] /\ LeftBehind(q) \in SUBSET Paths
         /\ \A p \in Paths \ LeftBehind(q) : Mutated(q)[p] # note[p] => p \in Touches(worker[q])
<1>1. \A p \in Paths : Mutated(q)[p] \in Versions
  BY LandsLive, ZeroIsAVersion, OutboxAssumption DEF Mutated, OutboxInv, OutboxTypeOK
<1>2. Mutated(q) \in [Paths -> Versions]
  BY <1>1 DEF Mutated
<1>3. LeftBehind(q) \in SUBSET Paths
  BY FoundFacts DEF LeftBehind
<1>4. ASSUME NEW p \in Paths, p \notin LeftBehind(q), Mutated(q)[p] # note[p]
      PROVE  p \in Touches(worker[q])
  <2>1. p = Lands(q) \/ p = rowAt[q]
    BY <1>4 DEF Mutated
  <2>2. p = worker[q].path \/ p = rowAt[q]
    BY <1>4, <2>1, OutboxAssumption DEF Lands
  <2> QED
    BY <1>4, <2>2, FoundFacts, FormedTouches, OutboxAssumption DEF LeftBehind
<1> QED
  BY <1>2, <1>3, <1>4

\* What a commit changes, a job like its request puts right.
LEMMA MutatedRights ==
  ASSUME OutboxInv, NEW q \in Requests, worker[q].pc \in {"found", "tx"},
         NEW p \in Paths, p \in Touches(worker[q]), Mutated(q)[p] # note[p]
  PROVE  IF Mutated(q)[p] = 0
         THEN (worker[q].kind = "delete" /\ worker[q].path = p) \/ (worker[q].kind = "rename" /\ worker[q].from = p)
         ELSE worker[q].kind # "delete" /\ worker[q].path = p
<1> DEFINE x == worker[q]
<1>1. /\ x.kind \in {"write", "rename", "delete"} /\ Formed(x) /\ x.path \in Paths
      /\ rowAt[q] \in Paths \cup {None}
  BY FoundFacts DEF WorkerRecord, Formed
<1>2. p = x.path \/ (x.kind = "rename" /\ p = x.from /\ x.from # x.path)
  BY <1>1, OutboxAssumption DEF Touches, Formed
<1>3. CASE p = Lands(q)
  <2>1. Mutated(q)[p] = Text(q) /\ Text(q) # 0
    BY <1>3, LandsLive, OutboxAssumption DEF Mutated
  <2>2. x.kind # "delete" /\ (x.kind = "rename" => p = x.path)
    BY <1>3, OutboxAssumption DEF Lands, Puts
  <2> QED
    BY <1>2, <2>1, <2>2
<1>4. CASE p # Lands(q)
  <2>1. p = rowAt[q] /\ Mutated(q)[p] = 0
    BY <1>4 DEF Mutated
  <2>2. x.kind = "delete" \/ (x.kind = "rename" /\ p # x.path)
    BY <1>1, <1>2, <1>4, <2>1, OutboxAssumption DEF Lands, Puts
  <2> QED
    BY <1>2, <2>1, <2>2
<1> QED
  BY <1>3, <1>4

\* A commit moves the rows that others found to where they are live, or to the trash.
LEMMA RowsFollowLive ==
  ASSUME OutboxInv, NEW q \in Requests, worker[q].pc \in {"found", "tx"}, note' = Mutated(q), RowsFollow(q)
  PROVE  rowAt' \in [Requests -> Paths \cup {None}] /\ RowLive'
<1>1. PICK same \in SUBSET Requests :
        rowAt' = [r \in Requests |-> IF r = q THEN None
                                     ELSE IF r \in same \/ (rowAt[q] # None /\ rowAt[r] = rowAt[q]) THEN Lands(q)
                                     ELSE rowAt[r]]
  BY DEF RowsFollow, Trashed
<1>2. rowAt \in [Requests -> Paths \cup {None}] /\ Lands(q) \in Paths \cup {None}
  BY LandsLive DEF OutboxInv, OutboxTypeOK
<1>3. rowAt' \in [Requests -> Paths \cup {None}]
  BY <1>1, <1>2
<1>4. Lands(q) # None => note'[Lands(q)] # 0
  BY <1>2, LandsLive DEF Mutated
<1>5. ASSUME NEW r \in Requests, rowAt'[r] # None
      PROVE  note'[rowAt'[r]] # 0
  <2>1. CASE rowAt'[r] = Lands(q)
    BY <1>4, <1>5, <2>1
  <2>2. CASE rowAt'[r] # Lands(q)
    <3>1. rowAt'[r] = rowAt[r] /\ rowAt[r] # None /\ (rowAt[q] = None \/ rowAt[r] # rowAt[q])
      BY <1>1, <1>5, <2>2
    <3>2. rowAt[r] \in Paths /\ note[rowAt[r]] # 0 /\ rowAt[r] # rowAt[q] /\ rowAt[r] # Lands(q)
      BY <1>2, <2>2, <3>1 DEF OutboxInv, RowLive
    <3>3. note'[rowAt[r]] = note[rowAt[r]]
      BY <3>2 DEF Mutated
    <3> QED
      BY <3>1, <3>2, <3>3
  <2> QED
    BY <2>1, <2>2
<1> QED
  BY <1>3, <1>5 DEF RowLive

\* A mutation and its job: what q changes, row j rights, and what it left behind is torn.
LEMMA Commits ==
  ASSUME OutboxInv, NEW q \in Requests, worker[q].pc \in {"found", "tx"},
         NEW j \in Jobs, NEW row \in JobRow, row.state # "none", row.kind = worker[q].kind,
         row.path = worker[q].path, row.from = worker[q].from, CommitAs(q, j, row), Keeps(j) \/ Mints(j)
  PROVE  OutboxInv' /\ Promise!ProjectionNext
<1> DEFINE x == worker[q]
           phase == IF x.kind = "delete" THEN "derive" ELSE "live"
           r == [x EXCEPT !.pc = phase, !.found = "nothing", !.job = j, !.view = 0]
<1>1. /\ x \in WorkerRecord /\ Formed(x) /\ q \in Workers
  BY FoundFacts
<1>2. /\ r \in WorkerRecord /\ r.pc = phase /\ r.job = j /\ r.view = 0
      /\ r.kind = x.kind /\ r.path = x.path /\ r.from = x.from
  <2>1. phase \in AtWork
    BY DEF AtWork
  <2> HIDE DEF phase, x
  <2> QED
    BY <1>1, <2>1, ZeroIsAVersion DEF WorkerRecord
<1>3. /\ GoesToWork(q, r, LeftBehind(q)) /\ note' = Mutated(q) /\ RowsFollow(q)
      /\ job' = [job EXCEPT ![j] = row] /\ derived' = derived /\ edits' = edits
  BY DEF CommitAs
<1> HIDE DEF r
<1>4. Formed(r) /\ Touches(r) = Touches(x)
  BY <1>1, <1>2 DEF Formed, Touches
<1>5. /\ note' \in [Paths -> Versions] /\ LeftBehind(q) \in SUBSET Paths
      /\ \A p \in Paths \ LeftBehind(q) : note'[p] # note[p] => p \in Touches(x)
  BY <1>3, MutatedWhere
<1>6. /\ worker' = [worker EXCEPT ![q] = r] /\ torn \subseteq torn' /\ LeftBehind(q) \subseteq torn'
      /\ torn' \in SUBSET Paths
      /\ \A v \in Workers \ {q} : Busy(v) => Touches(r) \cap Touches(worker[v]) \subseteq torn'
  BY <1>1, <1>3, <1>4, <1>5, GoingTears DEF OutboxInv
<1>7. job'[j] = row /\ \A i \in Jobs : i # j => job'[i] = job[i]
  BY <1>3 DEF OutboxInv, OutboxTypeOK
<1>8. \A i \in Jobs : Keeps(i) \/ Mints(i)
  BY <1>7, KeepsSame DEF OutboxInv
<1>9. Moves(q, r)
  <2>1. r.pc \in AtWork
    BY <1>2 DEF AtWork
  <2>2. \A p \in Paths : note'[p] # note[p] => (r.pc \in AtWork /\ p \in Touches(r)) \/ p \in torn'
    BY <1>4, <1>5, <1>6, <2>1
  <2> QED
    BY <1>3, <1>6, <1>8, <2>2 DEF Moves
<1>10. rowAt' \in [Requests -> Paths \cup {None}] /\ RowLive'
  BY <1>3, RowsFollowLive
<1>11. OutboxTypeOK'
  BY <1>2, <1>3, <1>5, <1>6, <1>10 DEF OutboxInv, OutboxTypeOK
<1>12. worker'[q] = r /\ j # None
  BY <1>1, <1>9, Others, OutboxAssumption DEF OutboxInv
<1>13. ShapedAt(q)'
  BY <1>2, <1>4, <1>12 DEF ShapedAt, Formed
<1>14. RowFitsAt(q)' /\ RowKeptAt(q)'
  BY <1>2, <1>7, <1>12 DEF RowFitsAt, RowKeptAt, Fits
<1>15. ViewCurrentAt(q)' /\ DoneAt(q)' /\ AttemptsGrowAt(q)'
  BY <1>2, <1>12 DEF ViewCurrentAt, DoneAt, AttemptsGrowAt
<1>16. ASSUME NEW p \in Paths \ torn', note'[p] # note[p]
       PROVE  p \in OnRecord'
  <2>1. p \in Touches(x)
    BY <1>5, <1>6, <1>16
  <2>2. Rights(row, p)'
    BY <1>3, <1>16, <2>1, MutatedRights DEF Rights
  <2> QED
    BY <1>7, <2>2 DEF OnRecord, Rights
<1>17. \A p \in Paths \ torn' : Pays(p)
  BY <1>3, <1>16 DEF Pays, Promise!Owe
<1> QED
  BY <1>1, <1>9, <1>10, <1>11, <1>13, <1>14, <1>15, <1>17, StepKeeps

\* A mutation with a job of its own.
LEMMA CommitsAnew ==
  ASSUME OutboxInv, NEW q \in Requests, worker[q].pc \in {"found", "tx"},
         NEW j \in Jobs, Unnamed(j), CommitAs(q, j, Owing(worker[q]))
  PROVE  OutboxInv' /\ Promise!ProjectionNext
<1> DEFINE row == Owing(worker[q])
<1>1. worker[q] \in WorkerRecord /\ Formed(worker[q])
  BY FoundFacts
<1>2. /\ row \in JobRow /\ row.state # "none" /\ row.kind = worker[q].kind
      /\ row.path = worker[q].path /\ row.from = worker[q].from
  BY <1>1, OwingType
<1>3. job'[j] = row
  BY DEF CommitAs, OutboxInv, OutboxTypeOK
<1>4. CommitAs(q, j, row)
  OBVIOUS
<1> HIDE DEF row
<1>5. Mints(j)
  BY <1>1, <1>2, <1>3 DEF Mints, Formed
<1> QED
  BY <1>2, <1>4, <1>5, Commits

\* Mutate keeps every part of the invariant.
LEMMA MutateStep ==
  ASSUME OutboxInv, NEW q \in Requests, Mutate(q)
  PROVE  OutboxInv' /\ Promise!ProjectionNext
BY CommitsAnew DEF Mutate

\* A request moves to a record that is not at work, and no note and no row changes.
LEMMA Waits ==
  ASSUME OutboxInv, NEW q \in Requests, NEW r \in WorkerRecord, worker' = [worker EXCEPT ![q] = r],
         r.pc \in {"found", "tx"}, Formed(r), r.kind = "write" => r.view # 0, r.pc = "tx" => r.kind = "write",
         r.pc = "tx" /\ r.job # None => Fits(r.job, r),
         UNCHANGED <<note, derived, job, torn>>, edits' \in 0..MaxEdits,
         rowAt' \in [Requests -> Paths \cup {None}], RowLive'
  PROVE  OutboxInv' /\ Promise!ProjectionNext
<1>1. q \in Workers
  BY DEF Workers
<1>2. \A i \in Jobs : Keeps(i)
  BY KeepsSame DEF OutboxInv
<1>3. Moves(q, r)
  BY <1>2 DEF Moves, AtWork
<1>4. worker'[q] = r
  BY <1>1, <1>3, Others DEF OutboxInv
<1>5. OutboxTypeOK'
  BY DEF OutboxInv, OutboxTypeOK
<1>6. ShapedAt(q)' /\ RowFitsAt(q)'
  BY <1>4 DEF ShapedAt, RowFitsAt, Formed, Fits, AtWork
<1>7. RowKeptAt(q)' /\ ViewCurrentAt(q)' /\ DoneAt(q)' /\ AttemptsGrowAt(q)'
  BY <1>4 DEF RowKeptAt, ViewCurrentAt, DoneAt, AttemptsGrowAt, Busy, AtWork
<1>8. \A k \in Paths : Pays(k)
  BY DEF Pays
<1> QED
  BY <1>1, <1>3, <1>5, <1>6, <1>7, <1>8, StepKeeps

\* A pending job is there, and its row may be what another write coalesces onto.
LEMMA PendingRow ==
  ASSUME OutboxInv, NEW p \in Paths, NEW j \in Pending(p)
  PROVE  j \in Jobs /\ j # None /\ job[j].state = "pending" /\ job[j].kind = "write" /\ job[j].path = p /\ job[j].from = None
BY OutboxAssumption DEF Pending, OutboxInv, Shaped, Formed

\* FindPending keeps every part of the invariant.
LEMMA FindPendingStep ==
  ASSUME OutboxInv, NEW q \in Requests, FindPending(q)
  PROVE  OutboxInv' /\ Promise!ProjectionNext
<1> DEFINE x == worker[q]
<1>1. /\ x.pc = "found" /\ x.kind = "write" /\ x \in WorkerRecord /\ Formed(x) /\ x.view # 0
      /\ UNCHANGED <<note, derived, job, rowAt, edits, torn>>
  BY FoundFacts DEF FindPending
<1>2. PICK j \in IF Pending(x.path) = {} THEN {None} ELSE Pending(x.path) :
               worker' = [worker EXCEPT ![q].pc = "tx", ![q].job = j]
  BY DEF FindPending
<1>3. x.path \in Paths /\ x.from = None
  BY <1>1 DEF Formed
<1>4. j # None => j \in Jobs /\ job[j].kind = "write" /\ job[j].path = x.path /\ job[j].from = None
  BY <1>2, <1>3, PendingRow
<1>5. j \in Jobs \cup {None}
  BY <1>2, <1>3, PendingRow
<1> DEFINE r == [x EXCEPT !.pc = "tx", !.job = j]
<1>6. worker' = [worker EXCEPT ![q] = r]
  BY <1>2
<1>7. /\ r \in WorkerRecord /\ r.pc = "tx" /\ r.kind = x.kind /\ r.path = x.path /\ r.from = x.from
      /\ r.job = j /\ r.view = x.view
  <2> HIDE DEF x
  <2> QED
    BY <1>1, <1>5 DEF WorkerRecord
<1> HIDE DEF r
<1>8. Formed(r) /\ (j # None => Fits(j, r))
  BY <1>1, <1>3, <1>4, <1>7 DEF Formed, Fits
<1>9. RowLive' /\ rowAt' \in [Requests -> Paths \cup {None}] /\ edits' \in 0..MaxEdits
  BY <1>1, RowLiveStays DEF OutboxInv, OutboxTypeOK
<1> QED
  BY <1>1, <1>6, <1>7, <1>8, <1>9, Waits

\* A mutation finds its row: nothing is changed yet.
LEMMA FindsStep ==
  ASSUME OutboxInv, NEW q \in Requests, NEW p \in Paths \cup {None}, NEW x \in WorkerRecord, Finds(q, x, p),
         p # None => note[p] # 0, Formed(x)
  PROVE  OutboxInv' /\ Promise!ProjectionNext
<1> DEFINE n == edits + 1
           r == [x EXCEPT !.pc = "found", !.view = n]
<1>1. n \in Versions /\ n # 0 /\ n \in 0..MaxEdits
  BY OutboxAssumption DEF Finds, Versions, OutboxInv, OutboxTypeOK
<1>2. /\ worker' = [worker EXCEPT ![q] = r] /\ rowAt' = [rowAt EXCEPT ![q] = p] /\ edits' = n
      /\ UNCHANGED <<note, derived, job, torn>>
  BY DEF Finds
<1> HIDE DEF n
<1>3. /\ r \in WorkerRecord /\ r.pc = "found" /\ r.view = n /\ r.kind = x.kind /\ r.path = x.path /\ r.from = x.from
  BY <1>1 DEF WorkerRecord
<1> HIDE DEF r
<1>4. Formed(r)
  BY <1>3 DEF Formed
<1>5. rowAt' \in [Requests -> Paths \cup {None}]
  BY <1>2 DEF OutboxInv, OutboxTypeOK
<1>6. RowLive'
  BY <1>2 DEF OutboxInv, OutboxTypeOK, RowLive
<1> QED
  BY <1>1, <1>2, <1>3, <1>4, <1>5, <1>6, Waits

\* WriteNote keeps every part of the invariant.
LEMMA WriteNoteStep ==
  ASSUME OutboxInv, NEW q \in Requests, NEW p \in Paths, WriteNote(q, p)
  PROVE  OutboxInv' /\ Promise!ProjectionNext
<1> DEFINE x == [IdleWorker EXCEPT !.path = p]
           y == [IdleWorker EXCEPT !.found = "live", !.path = p]
<1>1. /\ x \in WorkerRecord /\ x.kind = "write" /\ x.path = p /\ x.from = None
      /\ y \in WorkerRecord /\ y.kind = "write" /\ y.path = p /\ y.from = None
  BY IdleType DEF IdleWorker, WorkerRecord
<1>2. IF note[p] = 0 THEN Finds(q, x, None) ELSE Finds(q, y, p)
  BY DEF WriteNote
<1> HIDE DEF x, y
<1>3. Formed(x) /\ Formed(y)
  BY <1>1 DEF Formed
<1> QED
  BY <1>1, <1>2, <1>3, FindsStep

\* RestoreTrash keeps every part of the invariant.
LEMMA RestoreTrashStep ==
  ASSUME OutboxInv, NEW q \in Requests, NEW p \in Paths, RestoreTrash(q, p)
  PROVE  OutboxInv' /\ Promise!ProjectionNext
<1> DEFINE x == [IdleWorker EXCEPT !.found = "trash", !.path = p]
<1>1. x \in WorkerRecord /\ x.kind = "write" /\ x.path = p /\ x.from = None
  BY IdleType DEF IdleWorker, WorkerRecord
<1>2. Finds(q, x, None)
  BY DEF RestoreTrash
<1> HIDE DEF x
<1>3. Formed(x)
  BY <1>1 DEF Formed
<1> QED
  BY <1>1, <1>2, <1>3, FindsStep

\* RenameNote keeps every part of the invariant.
LEMMA RenameNoteStep ==
  ASSUME OutboxInv, NEW q \in Requests, NEW from \in Paths, NEW to \in Paths, RenameNote(q, from, to)
  PROVE  OutboxInv' /\ Promise!ProjectionNext
<1> DEFINE x == [IdleWorker EXCEPT !.kind = "rename", !.found = "live", !.path = to, !.from = from]
<1>1. Finds(q, x, from) /\ note[from] # 0 /\ from # to
  BY DEF RenameNote
<1>2. x \in WorkerRecord /\ x.kind = "rename" /\ x.path = to /\ x.from = from
  BY IdleType DEF IdleWorker, WorkerRecord
<1> HIDE DEF x
<1>3. Formed(x)
  BY <1>1, <1>2 DEF Formed
<1> QED
  BY <1>1, <1>2, <1>3, FindsStep

\* DeleteNote keeps every part of the invariant.
LEMMA DeleteNoteStep ==
  ASSUME OutboxInv, NEW q \in Requests, NEW p \in Paths, DeleteNote(q, p)
  PROVE  OutboxInv' /\ Promise!ProjectionNext
<1> DEFINE x == [IdleWorker EXCEPT !.kind = "delete", !.found = "live", !.path = p]
<1>1. Finds(q, x, p) /\ note[p] # 0
  BY DEF DeleteNote
<1>2. x \in WorkerRecord /\ x.kind = "delete" /\ x.path = p /\ x.from = None
  BY IdleType DEF IdleWorker, WorkerRecord
<1> HIDE DEF x
<1>3. Formed(x)
  BY <1>2 DEF Formed
<1> QED
  BY <1>1, <1>2, <1>3, FindsStep

\* A mutation that is rolled back leaves nothing.
LEMMA RolledBackStep ==
  ASSUME OutboxInv, NEW q \in Requests, RolledBack(q)
  PROVE  OutboxInv' /\ Promise!ProjectionNext
<1>1. /\ worker' = [worker EXCEPT ![q] = IdleWorker] /\ rowAt' = [rowAt EXCEPT ![q] = None]
      /\ UNCHANGED <<note, derived, job, edits, torn>> /\ q \in Workers
  BY DEF RolledBack, Workers
<1>2. rowAt' \in [Requests -> Paths \cup {None}] /\ \A r \in Requests : rowAt'[r] \in {rowAt[r], None}
  BY <1>1 DEF OutboxInv, OutboxTypeOK
<1>3. job' \in [Jobs -> JobRow] /\ \A j \in Jobs : Keeps(j)
  BY <1>1, KeepsSame DEF OutboxInv, OutboxTypeOK
<1> QED
  BY <1>1, <1>2, <1>3, Rested

\* MutationFails keeps every part of the invariant.
LEMMA MutationFailsStep ==
  ASSUME OutboxInv, NEW q \in Requests, MutationFails(q)
  PROVE  OutboxInv' /\ Promise!ProjectionNext
BY RolledBackStep DEF MutationFails

\* The update throws on a row that is gone, and is a commit on one that is there.
LEMMA CoalesceStep ==
  ASSUME OutboxInv, NEW q \in Requests, Coalesce(q)
  PROVE  OutboxInv' /\ Promise!ProjectionNext
<1> DEFINE x == worker[q]
           row == job[x.job]
<1>1. x.pc = "tx" /\ x.pc \in {"found", "tx"} /\ x \in WorkerRecord
  BY FoundFacts DEF Coalesce
<1>2. CASE x.job = None
  BY <1>1, <1>2, CommitsAnew DEF Coalesce
<1>3. CASE x.job # None /\ row.state = "none"
  BY <1>3, RolledBackStep DEF Coalesce
<1>4. CASE x.job # None /\ row.state # "none"
  <2> DEFINE due == [row EXCEPT !.due = TRUE]
  <2>1. CommitAs(q, x.job, due)
    BY <1>4 DEF Coalesce
  <2>2. x.job \in Jobs /\ row \in JobRow
    BY <1>1, <1>4 DEF OutboxInv, OutboxTypeOK, WorkerRecord
  <2>3. /\ due \in JobRow /\ due.state = row.state /\ due.kind = row.kind /\ due.path = row.path /\ due.from = row.from
        /\ due.attempts = row.attempts /\ due.due /\ due.reset = row.reset
    BY <2>2, RowDue
  <2>4. Fits(x.job, x)
    BY <1>1, <1>4 DEF OutboxInv, RowFits, RowFitsAt, Workers
  <2>5. row.attempts \in Nat /\ row.attempts <= row.attempts
    BY <2>2, OutboxAssumption DEF JobRow
  <2>6. job' = [job EXCEPT ![x.job] = due]
    BY <2>1 DEF CommitAs
  <2> HIDE DEF due
  <2>7. Keeps(x.job)
    BY <2>2, <2>3, <2>5, <2>6, KeepsRow DEF OutboxInv
  <2>8. due.state # "none" /\ due.kind = x.kind /\ due.path = x.path /\ due.from = x.from
    BY <1>4, <2>3, <2>4 DEF Fits
  <2> QED
    BY <1>1, <2>1, <2>2, <2>3, <2>7, <2>8, Commits
<1> QED
  BY <1>2, <1>3, <1>4

\* A worker goes to work, and no note changes yet.
LEMMA Enters ==
  ASSUME OutboxInv, NEW w \in Workers, NEW x \in WorkerRecord, Formed(x),
         \/ x.pc = "entity" /\ x.kind = "write" /\ x.view # 0 /\ x.job # None
         \/ x.pc = "live" /\ x.kind # "delete"
         \/ x.pc = "derive" /\ x.kind = "delete" /\ x.view = 0,
         GoesToWork(w, x, {}), UNCHANGED <<note, derived, rowAt>>, edits' \in 0..MaxEdits,
         job' \in [Jobs -> JobRow], \A j \in Jobs : Keeps(j) \/ Mints(j),
         x.job # None => /\ job'[x.job].state # "none" /\ job'[x.job].kind = x.kind
                         /\ job'[x.job].path = x.path /\ job'[x.job].from = x.from
  PROVE  OutboxInv' /\ Promise!ProjectionNext
<1>1. /\ worker' = [worker EXCEPT ![w] = x] /\ torn \subseteq torn' /\ torn' \in SUBSET Paths
      /\ \A v \in Workers \ {w} : Busy(v) => Touches(x) \cap Touches(worker[v]) \subseteq torn'
  BY GoingTears DEF OutboxInv
<1>2. Moves(w, x)
  BY <1>1 DEF Moves
<1>3. worker'[w] = x
  BY <1>2, Others DEF OutboxInv
<1>4. OutboxTypeOK'
  BY <1>1 DEF OutboxInv, OutboxTypeOK
<1>5. ShapedAt(w)'
  BY <1>3 DEF ShapedAt, Formed
<1>6. RowFitsAt(w)' /\ RowKeptAt(w)'
  BY <1>3 DEF RowFitsAt, RowKeptAt, Fits
<1>7. ViewCurrentAt(w)' /\ DoneAt(w)' /\ AttemptsGrowAt(w)'
  BY <1>3 DEF ViewCurrentAt, DoneAt, AttemptsGrowAt
<1>8. (\A p \in Paths : Pays(p)) /\ RowLive'
  BY RowLiveStays DEF Pays, OutboxInv, OutboxTypeOK
<1> QED
  BY <1>2, <1>4, <1>5, <1>6, <1>7, <1>8, StepKeeps

\* EnqueueEntity keeps every part of the invariant.
LEMMA EnqueueEntityStep ==
  ASSUME OutboxInv, NEW q \in Requests, EnqueueEntity(q)
  PROVE  OutboxInv' /\ Promise!ProjectionNext
<1> DEFINE x == worker[q]
           p == x.path
<1>1. PICK j \in IF Pending(p) # {} THEN Pending(p) ELSE {i \in Jobs : Unnamed(i)} :
        /\ job' = [job EXCEPT ![j] = IF @.state = "pending" THEN [@ EXCEPT !.due = TRUE] ELSE Owing(x)]
        /\ GoesToWork(q, [x EXCEPT !.pc = "entity", !.job = j], {})
  BY DEF EnqueueEntity
<1> DEFINE r == [x EXCEPT !.pc = "entity", !.job = j]
<1>2. UNCHANGED <<note, derived, rowAt, edits>> /\ q \in Workers
  BY DEF EnqueueEntity, Workers
<1>3. edits' \in 0..MaxEdits
  BY <1>2 DEF OutboxInv, OutboxTypeOK
<1>4. x \in WorkerRecord /\ x.kind = "write" /\ p \in Paths /\ x.path = p /\ x.from = None /\ x.view # 0
  BY FoundFacts DEF EnqueueEntity, Formed
<1>5. j \in Jobs /\ j # None
  BY <1>4, OutboxAssumption, PendingRow
<1> HIDE DEF x, p
<1>6. r \in WorkerRecord /\ r.pc = "entity" /\ r.kind = "write" /\ r.path = p /\ r.from = None /\ r.job = j /\ r.view # 0
  BY <1>4, <1>5 DEF WorkerRecord, AtWork
<1>7. GoesToWork(q, r, {})
  BY <1>1
<1> HIDE DEF r
<1>8. Formed(r)
  BY <1>4, <1>6 DEF Formed
<1>9. \A i \in Jobs : i # j => job'[i] = job[i]
  BY <1>1 DEF OutboxInv, OutboxTypeOK
<1>10. job[j] \in JobRow /\ job \in [Jobs -> JobRow]
  BY <1>5 DEF OutboxInv, OutboxTypeOK
<1>11. CASE j \in Pending(p)
  <2> DEFINE due == [job[j] EXCEPT !.due = TRUE]
  <2>1. job[j].state = "pending" /\ job[j].kind = "write" /\ job[j].path = p /\ job[j].from = None
    BY <1>4, <1>11, PendingRow
  <2>2. job' = [job EXCEPT ![j] = due]
    BY <1>1, <2>1
  <2>3. /\ due \in JobRow /\ due.state = job[j].state /\ due.kind = job[j].kind /\ due.path = job[j].path
        /\ due.from = job[j].from /\ due.attempts = job[j].attempts /\ due.due /\ due.reset = job[j].reset
    BY <1>10, RowDue
  <2>4. job[j].attempts \in Nat /\ job[j].attempts <= job[j].attempts
    BY <1>10, OutboxAssumption DEF JobRow
  <2> HIDE DEF due
  <2>5. Keeps(j)
    BY <1>5, <2>2, <2>3, <2>4, KeepsRow DEF OutboxInv
  <2>6. \A i \in Jobs : Keeps(i) \/ Mints(i)
    BY <1>9, <2>5, KeepsSame DEF OutboxInv
  <2>7. job' \in [Jobs -> JobRow] /\ job'[j] = due
    BY <1>5, <1>10, <2>2, <2>3
  <2>8. /\ job'[r.job].state # "none" /\ job'[r.job].kind = r.kind
        /\ job'[r.job].path = r.path /\ job'[r.job].from = r.from
    BY <1>6, <2>1, <2>3, <2>7
  <2> QED
    BY <1>2, <1>3, <1>5, <1>6, <1>7, <1>8, <2>6, <2>7, <2>8, Enters
<1>12. CASE j \notin Pending(p)
  <2> DEFINE row == Owing(x)
  <2>1. Unnamed(j) /\ job[j].state = "none"
    BY <1>12, <1>1 DEF Unnamed
  <2>2. job' = [job EXCEPT ![j] = row]
    BY <1>1, <2>1
  <2>3. row \in JobRow /\ row.state = "pending" /\ row.kind = "write" /\ row.path = p /\ row.from = None
    BY <1>4, OwingType
  <2> HIDE DEF row
  <2>4. job' \in [Jobs -> JobRow] /\ job'[j] = row
    BY <1>5, <1>10, <2>2, <2>3
  <2>5. Mints(j)
    BY <1>4, <2>1, <2>3, <2>4 DEF Mints, Formed
  <2>6. \A i \in Jobs : Keeps(i) \/ Mints(i)
    BY <1>9, <2>5, KeepsSame DEF OutboxInv
  <2>7. /\ job'[r.job].state # "none" /\ job'[r.job].kind = r.kind
        /\ job'[r.job].path = r.path /\ job'[r.job].from = r.from
    BY <1>6, <2>3, <2>4
  <2> QED
    BY <1>2, <1>3, <1>5, <1>6, <1>7, <1>8, <2>4, <2>6, <2>7, Enters
<1> QED
  BY <1>11, <1>12

\* Reconcile keeps every part of the invariant.
LEMMA ReconcileStep ==
  ASSUME OutboxInv, NEW q \in Requests, NEW p \in Paths, Reconcile(q, p)
  PROVE  OutboxInv' /\ Promise!ProjectionNext
<1> DEFINE x == [IdleWorker EXCEPT !.pc = "live", !.path = p]
<1>1. /\ GoesToWork(q, x, {}) /\ UNCHANGED <<note, derived, job, rowAt>> /\ q \in Workers
      /\ edits' = edits + 1 /\ edits < MaxEdits
  BY DEF Reconcile, Workers
<1>2. x \in WorkerRecord /\ x.pc = "live" /\ x.kind = "write" /\ x.path = p /\ x.from = None /\ x.job = None
  BY IdleType DEF IdleWorker, WorkerRecord, AtWork
<1> HIDE DEF x
<1>3. Formed(x) /\ edits' \in 0..MaxEdits
  BY <1>1, <1>2, OutboxAssumption DEF Formed, OutboxInv, OutboxTypeOK
<1>4. job' \in [Jobs -> JobRow] /\ \A j \in Jobs : Keeps(j)
  BY <1>1, KeepsSame DEF OutboxInv, OutboxTypeOK
<1> QED
  BY <1>1, <1>2, <1>3, <1>4, Enters

\* The claim counts the attempt: the row's attempts grow as it stops being due.
LEMMA ClaimJobStep ==
  ASSUME OutboxInv, NEW d \in Drains, ClaimJob(d)
  PROVE  OutboxInv' /\ Promise!ProjectionNext
<1> DEFINE j == worker[d].job
           row == job[j]
           claimed == [row EXCEPT !.attempts = worker[d].seen + 1, !.due = FALSE]
           x == [IdleWorker EXCEPT !.pc = IF row.kind = "delete" THEN "derive" ELSE "live",
                                   !.kind = row.kind, !.path = row.path, !.from = row.from, !.job = j]
<1>1. /\ worker[d].pc = "due" /\ worker[d].seen < MaxAttempts /\ row.state = "pending" /\ row.attempts = worker[d].seen
      /\ job' = [job EXCEPT ![j] = claimed] /\ GoesToWork(d, x, {}) /\ UNCHANGED <<note, derived, rowAt, edits>>
  <2>1. worker[d].seen \in Nat /\ d \in Workers
    BY OutboxAssumption DEF OutboxInv, OutboxTypeOK, WorkerRecord, Workers
  <2>2. job' = [job EXCEPT ![j] = claimed]
    BY DEF ClaimJob, Counted, OutboxInv, OutboxTypeOK
  <2>3. GoesToWork(d, x, {})
    BY DEF ClaimJob
  <2>4. worker[d].seen < MaxAttempts
    BY <2>1, OutboxAssumption DEF ClaimJob, Spent
  <2> QED
    BY <2>2, <2>3, <2>4 DEF ClaimJob, AsRead
<1>2. j \in Jobs /\ j # None /\ d \in Workers
  BY <1>1 DEF OutboxInv, Shaped, ShapedAt, OutboxTypeOK, WorkerRecord, Workers
<1>3. row \in JobRow /\ job \in [Jobs -> JobRow] /\ row.attempts \in Nat /\ row.attempts + 1 \in 0..MaxAttempts
  BY <1>1, <1>2, OutboxAssumption DEF OutboxInv, OutboxTypeOK, JobRow
<1>4. Formed(row)
  BY <1>1, <1>2 DEF OutboxInv, Shaped
<1>5. /\ x \in WorkerRecord /\ x.kind = row.kind /\ x.path = row.path /\ x.from = row.from /\ x.job = j /\ x.view = 0
      /\ x.pc = IF row.kind = "delete" THEN "derive" ELSE "live"
  <2> DEFINE phase == IF row.kind = "delete" THEN "derive" ELSE "live"
  <2>1. phase \in AtWork
    BY DEF AtWork
  <2> HIDE DEF phase
  <2>2. row.kind \in {"write", "rename", "delete"} /\ row.path \in Paths \cup {None} /\ row.from \in Paths \cup {None}
    BY <1>3 DEF JobRow
  <2> HIDE DEF row
  <2>3. \A y \in WorkerRecord :
          LET z == [y EXCEPT !.pc = phase, !.kind = row.kind, !.path = row.path, !.from = row.from, !.job = j]
          IN  /\ z \in WorkerRecord /\ z.pc = phase /\ z.kind = row.kind /\ z.path = row.path
              /\ z.from = row.from /\ z.job = j /\ z.view = y.view
    BY <1>2, <2>1, <2>2 DEF WorkerRecord
  <2>4. IdleWorker.view = 0
    BY DEF IdleWorker
  <2> QED
    BY <2>3, <2>4, IdleType DEF phase, row
<1>6. /\ claimed \in JobRow /\ claimed.state = row.state /\ claimed.kind = row.kind /\ claimed.path = row.path
      /\ claimed.from = row.from /\ claimed.attempts = row.attempts + 1 /\ claimed.reset = row.reset
  <2> DEFINE n == row.attempts + 1
  <2> HIDE DEF n
  <2>1. \A y \in JobRow :
          LET z == [y EXCEPT !.attempts = n, !.due = FALSE]
          IN  /\ z \in JobRow /\ z.state = y.state /\ z.kind = y.kind /\ z.path = y.path
              /\ z.from = y.from /\ z.attempts = n /\ z.reset = y.reset
    BY <1>3 DEF JobRow, n
  <2> QED
    BY <1>1, <1>3, <2>1 DEF n
<1> HIDE DEF claimed, x
<1>7. row.attempts <= claimed.attempts /\ row.attempts < claimed.attempts
  BY <1>3, <1>6
<1>8. Keeps(j)
  BY <1>1, <1>2, <1>6, <1>7, KeepsRow DEF OutboxInv
<1>9. job' \in [Jobs -> JobRow] /\ job'[j] = claimed /\ \A i \in Jobs : Keeps(i) \/ Mints(i)
  BY <1>1, <1>2, <1>3, <1>6, <1>8, KeepsSame DEF OutboxInv
<1>10. Formed(x) /\ edits' \in 0..MaxEdits
  BY <1>1, <1>4, <1>5 DEF Formed, OutboxInv, OutboxTypeOK
<1> HIDE DEF row
<1> QED
  BY <1>1, <1>2, <1>5, <1>6, <1>9, <1>10, Enters DEF row

\* The worker of a job that is at work on it.
LEMMA AtWorkFacts ==
  ASSUME OutboxInv, NEW w \in Workers, worker[w].pc \in AtWork
  PROVE  Busy(w) /\ Formed(worker[w]) /\ worker[w] \in WorkerRecord
BY DEF OutboxInv, OutboxTypeOK, Shaped, ShapedAt, Busy

\* The note comes to be where there is none; the job that says so was there before it.
LEMMA BuildEntityStep ==
  ASSUME OutboxInv, NEW q \in Requests, BuildEntity(q)
  PROVE  OutboxInv' /\ Promise!ProjectionNext
<1> DEFINE x == worker[q]
           r == [x EXCEPT !.pc = "live", !.view = 0]
<1>1. x.pc = "entity" /\ GoesToWork(q, r, {}) /\ UNCHANGED <<derived, job, rowAt, edits>> /\ q \in Workers
  BY DEF BuildEntity, Workers
<1>2. /\ Busy(q) /\ Formed(x) /\ x \in WorkerRecord /\ x.kind = "write" /\ x.view # 0
      /\ x.job # None /\ x.job \in Jobs
  BY <1>1, AtWorkFacts DEF AtWork, OutboxInv, Shaped, ShapedAt, WorkerRecord
<1>3. /\ r \in WorkerRecord /\ r.pc = "live" /\ r.kind = "write" /\ r.path = x.path /\ r.from = x.from /\ r.job = x.job
  BY <1>2, ZeroIsAVersion DEF WorkerRecord, AtWork
<1>4. \A p \in Paths : note'[p] = IF p = x.path /\ note[p] = 0 THEN x.view ELSE note[p]
  BY <1>2, OutboxAssumption DEF BuildEntity, Formed, OutboxInv, OutboxTypeOK
<1>5. note' \in [Paths -> Versions]
  <2>1. note \in [Paths -> Versions] /\ x.view \in Versions
    BY <1>2 DEF OutboxInv, OutboxTypeOK, WorkerRecord
  <2> QED
    BY <2>1 DEF BuildEntity
<1> HIDE DEF r
<1>6. Formed(r) /\ Touches(r) = Touches(x) /\ x.path \in Touches(r)
  BY <1>2, <1>3, FormedTouches DEF Formed, Touches
<1>7. /\ worker' = [worker EXCEPT ![q] = r] /\ torn \subseteq torn' /\ torn' \in SUBSET Paths
      /\ \A v \in Workers \ {q} : Busy(v) => Touches(r) \cap Touches(worker[v]) \subseteq torn'
  BY <1>1, <1>6, GoingTears DEF OutboxInv
<1>8. \A i \in Jobs : Keeps(i)
  BY <1>1, KeepsSame DEF OutboxInv
<1>9. Moves(q, r)
  <2>1. r.pc \in AtWork
    BY <1>3 DEF AtWork
  <2> QED
    BY <1>1, <1>4, <1>6, <1>7, <1>8, <2>1 DEF Moves
<1>10. worker'[q] = r
  BY <1>1, <1>9, Others DEF OutboxInv
<1>11. OutboxTypeOK'
  BY <1>1, <1>3, <1>5, <1>7 DEF OutboxInv, OutboxTypeOK
<1>12. ShapedAt(q)'
  BY <1>3, <1>6, <1>10 DEF ShapedAt, Formed
<1>13. job[x.job].state # "none" => Fits(x.job, x)
  BY <1>1, <1>2 DEF OutboxInv, RowFits, RowFitsAt, AtWork
<1>14. RowFitsAt(q)' /\ RowKeptAt(q)'
  <2>1. job[x.job].state = "none" => Touches(x) \subseteq torn
    BY <1>1, <1>2 DEF OutboxInv, RowKept, RowKeptAt
  <2> QED
    BY <1>1, <1>2, <1>3, <1>6, <1>7, <1>10, <1>13, <2>1 DEF RowFitsAt, RowKeptAt, Fits
<1>15. ViewCurrentAt(q)' /\ DoneAt(q)' /\ AttemptsGrowAt(q)'
  BY <1>3, <1>10 DEF ViewCurrentAt, DoneAt, AttemptsGrowAt
<1>16. ASSUME NEW p \in Paths, p \notin torn', p = x.path, note[p] = 0
       PROVE  p \in OnRecord'
  <2>1. p \in Touches(x) /\ p \notin torn
    BY <1>6, <1>7, <1>16
  <2>2. job[x.job].state # "none"
    BY <1>1, <1>2, <2>1 DEF OutboxInv, RowKept, RowKeptAt
  <2>3. job[x.job].kind = "write" /\ job[x.job].path = p
    BY <1>2, <1>13, <1>16, <2>2 DEF Fits
  <2>4. note'[p] # 0 /\ job' = job
    BY <1>1, <1>2, <1>4, <1>16
  <2> QED
    BY <1>2, <1>16, <2>2, <2>3, <2>4 DEF OnRecord, Rights
<1>17. \A p \in Paths \ torn' : Pays(p)
  BY <1>1, <1>4, <1>16 DEF Pays, Promise!Owe
<1>18. RowLive'
  BY <1>1, <1>2, <1>4 DEF OutboxInv, OutboxTypeOK, RowLive
<1> QED
  BY <1>1, <1>9, <1>11, <1>12, <1>14, <1>15, <1>17, <1>18, StepKeeps

\* A worker goes on to r with its job and its paths, and no note and no row is written.
LEMMA GoesOn ==
  ASSUME OutboxInv, NEW w \in Workers, worker[w].pc \in AtWork, NEW r \in WorkerRecord, worker' = [worker EXCEPT ![w] = r],
         r.pc \in {"derive", "settle"}, r.kind = worker[w].kind, r.path = worker[w].path, r.from = worker[w].from,
         r.job = worker[w].job, UNCHANGED <<note, job, rowAt, edits>>, torn \subseteq torn', torn' \in SUBSET Paths,
         derived' \in [Paths -> Versions],
         \A p \in Paths : derived'[p] # derived[p] => p \in Touches(worker[w]) /\ (p \notin torn' => derived'[p] = note[p]),
         r.pc = "derive" => IF r.kind = "delete" THEN r.view = 0 ELSE r.view = note[r.path],
         r.pc = "settle" => \A p \in Paths \ torn' : Rights(r, p) => derived'[p] = note[p]
  PROVE  OutboxInv' /\ Promise!ProjectionNext
<1> DEFINE x == worker[w]
<1>1. Busy(w) /\ Formed(x) /\ Touches(r) = Touches(x) /\ Formed(r)
  BY AtWorkFacts DEF Formed, Touches
<1>2. \A i \in Jobs : Keeps(i)
  BY KeepsSame DEF OutboxInv
<1>3. Moves(w, r)
  BY <1>1, <1>2 DEF Moves
<1>4. worker'[w] = r
  BY <1>3, Others DEF OutboxInv
<1>5. OutboxTypeOK'
  BY DEF OutboxInv, OutboxTypeOK
<1>6. ShapedAt(w)'
  BY <1>1, <1>4 DEF ShapedAt, Formed
<1>7. RowFitsAt(w)'
  <2>1. r.job # None /\ job[r.job].state # "none" => Fits(r.job, x)
    BY DEF OutboxInv, RowFits, RowFitsAt
  <2> QED
    BY <1>4, <2>1 DEF RowFitsAt, Fits
<1>8. RowKeptAt(w)'
  <2>1. r.job # None /\ job[r.job].state = "none" => Touches(x) \subseteq torn
    BY <1>1 DEF OutboxInv, RowKept, RowKeptAt
  <2> QED
    BY <1>1, <1>4, <2>1 DEF RowKeptAt, Touches
<1>9. ViewCurrentAt(w)' /\ AttemptsGrowAt(w)'
  BY <1>4 DEF ViewCurrentAt, AttemptsGrowAt
<1>10. DoneAt(w)'
  BY <1>4 DEF DoneAt, Rights
<1>11. \A p \in Paths \ torn' : Pays(p)
  BY DEF Pays, Promise!Project, OnRecord, Rights
<1>12. RowLive'
  BY RowLiveStays DEF OutboxInv, OutboxTypeOK
<1> QED
  BY <1>3, <1>5, <1>6, <1>7, <1>8, <1>9, <1>10, <1>11, <1>12, StepKeeps

\* Of a rename whose note is gone, nobody goes on to drop what it left behind.
LEMMA ReadLiveStep ==
  ASSUME OutboxInv, NEW w \in Workers, ReadLive(w)
  PROVE  OutboxInv' /\ Promise!ProjectionNext
<1> DEFINE x == worker[w]
           phase == IF note[x.path] = 0 THEN "settle" ELSE "derive"
           r == [x EXCEPT !.pc = phase, !.view = note[x.path]]
<1>1. x.pc = "live" /\ x.pc \in AtWork /\ UNCHANGED <<note, derived, job, rowAt, edits>>
  BY DEF ReadLive, AtWork
<1>2. Formed(x) /\ x \in WorkerRecord /\ x.kind # "delete" /\ note[x.path] \in Versions
  BY <1>1, AtWorkFacts DEF OutboxInv, OutboxTypeOK, Shaped, ShapedAt, Formed
<1>3. worker' = [worker EXCEPT ![w] = r]
  BY DEF ReadLive, OutboxInv, OutboxTypeOK
<1>4. phase \in {"derive", "settle"} /\ phase \in AtWork
  BY DEF AtWork
<1>5. /\ r \in WorkerRecord /\ r.pc = phase /\ r.view = note[x.path] /\ r.kind = x.kind /\ r.path = x.path
      /\ r.from = x.from /\ r.job = x.job
  <2> HIDE DEF phase
  <2> QED
    BY <1>2, <1>4 DEF WorkerRecord
<1> HIDE DEF r
<1>6. torn \subseteq torn' /\ torn' \in SUBSET Paths
  BY <1>2, FormedTouches DEF ReadLive, OutboxInv, OutboxTypeOK
<1>7. ASSUME phase = "settle", NEW p \in Paths \ torn', Rights(r, p)
      PROVE  FALSE
  <2>1. note[x.path] = 0
    BY <1>7
  <2>2. p # x.path
    BY <1>2, <1>5, <1>7, <2>1, FormedTouches DEF Rights
  <2>3. r.kind = "rename" /\ r.from = p
    BY <1>2, <1>5, <1>7, <2>2 DEF Rights
  <2>4. p \in torn'
    BY <1>5, <2>1, <2>3 DEF ReadLive
  <2> QED
    BY <1>7, <2>4
<1>8. phase = "derive" => r.view = note[r.path]
  BY <1>5
<1>9. derived' \in [Paths -> Versions]
  BY <1>1 DEF OutboxInv, OutboxTypeOK
<1> HIDE DEF phase, x
<1> QED
  BY <1>1, <1>2, <1>3, <1>4, <1>5, <1>6, <1>7, <1>8, <1>9, GoesOn DEF x

\* Derive keeps every part of the invariant.
LEMMA DeriveStep ==
  ASSUME OutboxInv, NEW w \in Workers, Derive(w)
  PROVE  OutboxInv' /\ Promise!ProjectionNext
<1> DEFINE x == worker[w]
           r == [x EXCEPT !.pc = "settle", !.view = 0]
<1>1. x.pc = "derive" /\ x.pc \in AtWork /\ UNCHANGED <<note, job, rowAt, edits>> /\ derived' = DerivedBy(x)
  BY DEF Derive, AtWork
<1>2. Formed(x) /\ x \in WorkerRecord /\ x.view \in Versions
  BY <1>1, AtWorkFacts DEF WorkerRecord
<1>3. worker' = [worker EXCEPT ![w] = r]
  BY DEF Derive, OutboxInv, OutboxTypeOK
<1>4. /\ r \in WorkerRecord /\ r.pc = "settle" /\ r.kind = x.kind /\ r.path = x.path
      /\ r.from = x.from /\ r.job = x.job
  BY <1>2, ZeroIsAVersion DEF WorkerRecord, AtWork
<1>5. \A p \in Paths : derived'[p] = IF p = x.path THEN x.view ELSE IF p = x.from THEN 0 ELSE derived[p]
  BY <1>1 DEF DerivedBy
<1>6. derived' \in [Paths -> Versions]
  <2>1. \A p \in Paths : DerivedBy(x)[p] \in Versions
    BY <1>2, ZeroIsAVersion DEF DerivedBy, OutboxInv, OutboxTypeOK
  <2> QED
    BY <1>1, <2>1 DEF DerivedBy
<1>7. /\ torn \subseteq torn' /\ torn' \in SUBSET Paths
      /\ \A p \in Touches(x) \ torn' : derived'[p] = 0 => note[p] = 0
  BY <1>2, FormedTouches DEF Derive, OutboxInv, OutboxTypeOK
<1>8. ASSUME NEW p \in Touches(x), p \notin torn'
      PROVE  derived'[p] = note[p]
  <2>1. p \in Paths /\ (derived'[p] = 0 => note[p] = 0)
    BY <1>2, <1>7, <1>8, FormedTouches
  <2>2. CASE p = x.path /\ x.kind # "delete"
    BY <1>1, <1>5, <1>7, <1>8, <2>1, <2>2 DEF OutboxInv, ViewCurrent, ViewCurrentAt
  <2>3. CASE p = x.path /\ x.kind = "delete"
    BY <1>1, <1>5, <2>1, <2>3 DEF OutboxInv, ViewCurrent, ViewCurrentAt
  <2>4. CASE p # x.path
    BY <1>5, <1>8, <2>1, <2>4 DEF Touches
  <2> QED
    BY <2>2, <2>3, <2>4
<1>9. \A p \in Paths : derived'[p] # derived[p] => p \in Touches(x)
  BY <1>5, OutboxAssumption DEF Touches
<1> HIDE DEF r
<1>10. \A p \in Paths \ torn' : Rights(r, p) => derived'[p] = note[p]
  BY <1>4, <1>8, OutboxAssumption DEF Rights, Touches
<1> HIDE DEF x
<1> QED
  BY <1>1, <1>3, <1>4, <1>6, <1>7, <1>8, <1>9, <1>10, GoesOn DEF x

\* HookSwallows keeps every part of the invariant.
LEMMA HookSwallowsStep ==
  ASSUME OutboxInv, NEW w \in Workers, HookSwallows(w)
  PROVE  OutboxInv' /\ Promise!ProjectionNext
<1> DEFINE x == worker[w]
           r == [x EXCEPT !.pc = "settle"]
<1>1. x.pc = "derive" /\ x.pc \in AtWork /\ UNCHANGED <<note, derived, job, rowAt, edits>> /\ torn' = torn \cup Touches(x)
  BY DEF HookSwallows, AtWork
<1>2. Formed(x) /\ x \in WorkerRecord
  BY <1>1, AtWorkFacts
<1>3. worker' = [worker EXCEPT ![w] = r]
  BY DEF HookSwallows, OutboxInv, OutboxTypeOK
<1>4. /\ r \in WorkerRecord /\ r.pc = "settle" /\ r.kind = x.kind /\ r.path = x.path
      /\ r.from = x.from /\ r.job = x.job
  BY <1>2 DEF WorkerRecord, AtWork
<1>5. torn \subseteq torn' /\ torn' \in SUBSET Paths /\ derived' \in [Paths -> Versions]
  BY <1>1, <1>2, FormedTouches DEF OutboxInv, OutboxTypeOK
<1> HIDE DEF r
<1>6. \A p \in Paths \ torn' : ~Rights(r, p)
  BY <1>1, <1>4, OutboxAssumption DEF Rights, Touches
<1> HIDE DEF x
<1> QED
  BY <1>1, <1>3, <1>4, <1>5, <1>6, GoesOn DEF x

\* SettleJob keeps every part of the invariant.
LEMMA SettleJobStep ==
  ASSUME OutboxInv, NEW w \in Workers, SettleJob(w)
  PROVE  OutboxInv' /\ Promise!ProjectionNext
<1> DEFINE j == worker[w].job
<1>1. /\ worker[w].pc = "settle" /\ UNCHANGED <<note, derived, rowAt, edits, torn>>
      /\ worker' = [worker EXCEPT ![w] = IdleWorker]
      /\ job' = IF j = None THEN job ELSE [job EXCEPT ![j] = NoJob]
  BY DEF SettleJob, Done
<1>2. job \in [Jobs -> JobRow] /\ OutboxTypeOK
  BY DEF OutboxInv, OutboxTypeOK
<1>3. job' \in [Jobs -> JobRow]
  BY <1>1, <1>2, NoJobType
<1>4. ASSUME NEW i \in Jobs
      PROVE  Keeps(i) \/ Settles(w, i)
  <2>1. CASE i = j /\ j # None
    <3>1. job'[i] = NoJob
      BY <1>1, <1>2, <2>1
    <3> QED
      BY <1>1, <2>1, <3>1, NoJobType DEF Settles
  <2>2. CASE ~(i = j /\ j # None)
    BY <1>1, <1>2, <2>2, KeepsSame
  <2> QED
    BY <2>1, <2>2
<1> QED
  BY <1>1, <1>3, <1>4, Rested DEF OutboxInv, OutboxTypeOK

\* What a failure records takes attempts back, and says so.
LEMMA RecordedRow ==
  ASSUME NEW row \in JobRow
  PROVE  /\ Recorded(row) \in JobRow /\ Recorded(row).state = row.state /\ Recorded(row).kind = row.kind
         /\ Recorded(row).path = row.path /\ Recorded(row).from = row.from
         /\ Recorded(row) = row \/ Recorded(row).reset
<1>1. 1 \in 0..MaxAttempts
  BY OutboxAssumption
<1>2. LET z == [row EXCEPT !.attempts = 1, !.due = FALSE, !.reset = TRUE]
      IN  /\ z \in JobRow /\ z.state = row.state /\ z.kind = row.kind /\ z.path = row.path /\ z.from = row.from /\ z.reset
  BY <1>1 DEF JobRow
<1> QED
  BY <1>2 DEF Recorded

\* HookThrows keeps every part of the invariant.
LEMMA HookThrowsStep ==
  ASSUME OutboxInv, NEW w \in Workers, HookThrows(w)
  PROVE  OutboxInv' /\ Promise!ProjectionNext
<1> DEFINE j == worker[w].job
           row == IF j # None /\ w \in Requests THEN Recorded(job[j]) ELSE job[j]
<1>1. /\ UNCHANGED <<note, derived, rowAt, edits, torn>>
      /\ worker' = [worker EXCEPT ![w] = IdleWorker]
      /\ job' = IF j = None THEN job ELSE [job EXCEPT ![j] = row]
  BY DEF HookThrows, Done
<1>2. job \in [Jobs -> JobRow] /\ OutboxTypeOK /\ (j # None => j \in Jobs)
  BY DEF OutboxInv, OutboxTypeOK, WorkerRecord
<1>3. ASSUME j # None
      PROVE  /\ row \in JobRow /\ row.state = job[j].state /\ row.kind = job[j].kind
             /\ row.path = job[j].path /\ row.from = job[j].from
             /\ row = job[j] \/ row.reset
  <2>1. job[j] \in JobRow
    BY <1>2, <1>3
  <2> QED
    BY <2>1, RecordedRow
<1> HIDE DEF row
<1>4. job' \in [Jobs -> JobRow]
  BY <1>1, <1>2, <1>3
<1>5. ASSUME NEW i \in Jobs
      PROVE  Keeps(i)
  <2>1. CASE i = j /\ row # job[j]
    <3>1. job' = [job EXCEPT ![i] = row] /\ i # None
      BY <1>1, <2>1, OutboxAssumption
    <3> QED
      BY <1>2, <1>3, <2>1, <3>1, KeepsRow
  <2>2. CASE ~(i = j /\ row # job[j])
    BY <1>1, <1>2, <2>2, KeepsSame
  <2> QED
    BY <2>1, <2>2
<1> QED
  BY <1>1, <1>4, <1>5, Rested DEF OutboxInv, OutboxTypeOK

\* DrainRead keeps every part of the invariant.
LEMMA DrainReadStep ==
  ASSUME OutboxInv, NEW d \in Drains, NEW j \in Jobs, DrainRead(d, j)
  PROVE  OutboxInv' /\ Promise!ProjectionNext
<1> DEFINE r == [IdleWorker EXCEPT !.pc = "due", !.job = j, !.seen = job[j].attempts]
<1>1. /\ UNCHANGED <<note, derived, job, rowAt, edits, torn>> /\ d \in Workers /\ job[j].due
      /\ worker' = [worker EXCEPT ![d] = r]
  BY DEF DrainRead, Workers
<1>2. job[j].attempts \in 0..MaxAttempts /\ job[j].attempts \in Nat /\ j # None
  BY OutboxAssumption DEF OutboxInv, OutboxTypeOK, JobRow
<1>3. r \in WorkerRecord /\ r.pc = "due" /\ r.job = j /\ r.seen = job[j].attempts
  <2> DEFINE n == job[j].attempts
  <2>1. n \in 0..MaxAttempts
    BY <1>2
  <2> HIDE DEF n
  <2>2. LET z == [IdleWorker EXCEPT !.pc = "due", !.job = j, !.seen = n]
        IN  z \in WorkerRecord /\ z.pc = "due" /\ z.job = j /\ z.seen = n
    BY <2>1, IdleType DEF WorkerRecord, AtWork
  <2> QED
    BY <2>2 DEF n
<1> HIDE DEF r
<1>4. \A i \in Jobs : Keeps(i)
  BY <1>1, KeepsSame DEF OutboxInv
<1>5. Moves(d, r)
  BY <1>1, <1>3, <1>4 DEF Moves, AtWork
<1>6. worker'[d] = r
  BY <1>1, <1>5, Others DEF OutboxInv
<1>7. OutboxTypeOK'
  BY <1>1, <1>3 DEF OutboxInv, OutboxTypeOK
<1>8. /\ ShapedAt(d)' /\ RowFitsAt(d)' /\ RowKeptAt(d)' /\ ViewCurrentAt(d)' /\ DoneAt(d)'
  BY <1>2, <1>3, <1>6 DEF ShapedAt, RowFitsAt, RowKeptAt, ViewCurrentAt, DoneAt, Busy, AtWork
<1>9. AttemptsGrowAt(d)'
  <2>1. job[j].attempts <= job[j].attempts
    BY <1>2
  <2> QED
    BY <1>1, <1>3, <1>6, <2>1 DEF AttemptsGrowAt
<1>10. (\A p \in Paths : Pays(p)) /\ RowLive'
  BY <1>1, RowLiveStays DEF Pays
<1> QED
  BY <1>1, <1>5, <1>7, <1>8, <1>9, <1>10, StepKeeps

\* ParkJob keeps every part of the invariant.
LEMMA ParkJobStep ==
  ASSUME OutboxInv, NEW d \in Drains, ParkJob(d)
  PROVE  OutboxInv' /\ Promise!ProjectionNext
<1> DEFINE j == worker[d].job
           row == IF job[j].state = "pending" THEN [job[j] EXCEPT !.state = "parked"] ELSE job[j]
<1>1. /\ UNCHANGED <<note, derived, rowAt, edits, torn>> /\ d \in Workers /\ worker[d].pc = "due"
      /\ worker' = [worker EXCEPT ![d] = IdleWorker]
      /\ job' = IF j = None THEN job ELSE [job EXCEPT ![j] = row]
  BY DEF ParkJob, Done, Workers
<1>2. job \in [Jobs -> JobRow] /\ OutboxTypeOK /\ j \in Jobs /\ j # None
  BY <1>1 DEF OutboxInv, OutboxTypeOK, WorkerRecord, Shaped, ShapedAt
<1>3. /\ row \in JobRow /\ (row.state = "none" <=> job[j].state = "none") /\ row.kind = job[j].kind
      /\ row.path = job[j].path /\ row.from = job[j].from /\ row.attempts = job[j].attempts
      /\ row.due = job[j].due /\ row.reset = job[j].reset
  <2>1. job[j] \in JobRow
    BY <1>2
  <2>2. \A y \in JobRow : LET z == [y EXCEPT !.state = "parked"]
                          IN  /\ z \in JobRow /\ z.state = "parked" /\ z.kind = y.kind /\ z.path = y.path /\ z.from = y.from
                              /\ z.attempts = y.attempts /\ z.due = y.due /\ z.reset = y.reset
    BY DEF JobRow
  <2> QED
    BY <2>1, <2>2
<1>4. job[j].attempts \in Nat /\ job[j].attempts <= job[j].attempts
  BY <1>2, OutboxAssumption DEF JobRow
<1> HIDE DEF row
<1>5. job' \in [Jobs -> JobRow] /\ job' = [job EXCEPT ![j] = row]
  BY <1>1, <1>2, <1>3
<1>6. Keeps(j)
  BY <1>2, <1>3, <1>4, <1>5, KeepsRow
<1>7. \A i \in Jobs : Keeps(i)
  BY <1>2, <1>5, <1>6, KeepsSame
<1> QED
  BY <1>1, <1>5, <1>7, Rested DEF OutboxInv, OutboxTypeOK

\* A drain that passes a job by, and whoever dies, leaves the rows as they are.
LEMMA GivesUp ==
  ASSUME OutboxInv, NEW w \in Workers, worker' = [worker EXCEPT ![w] = IdleWorker],
         UNCHANGED <<note, derived, job, edits, torn>>,
         rowAt' \in [Requests -> Paths \cup {None}], \A q \in Requests : rowAt'[q] \in {rowAt[q], None}
  PROVE  OutboxInv' /\ Promise!ProjectionNext
<1>1. job' \in [Jobs -> JobRow] /\ \A j \in Jobs : Keeps(j)
  BY KeepsSame DEF OutboxInv, OutboxTypeOK
<1> QED
  BY <1>1, Rested

\* PassJob keeps every part of the invariant.
LEMMA PassJobStep ==
  ASSUME OutboxInv, NEW d \in Drains, PassJob(d)
  PROVE  OutboxInv' /\ Promise!ProjectionNext
BY GivesUp DEF PassJob, Workers, OutboxInv, OutboxTypeOK

\* WorkerDies keeps every part of the invariant.
LEMMA WorkerDiesStep ==
  ASSUME OutboxInv, NEW w \in Workers, WorkerDies(w)
  PROVE  OutboxInv' /\ Promise!ProjectionNext
BY GivesUp DEF WorkerDies, OutboxInv, OutboxTypeOK

\* BackoffEnds keeps every part of the invariant.
LEMMA BackoffEndsStep ==
  ASSUME OutboxInv, NEW j \in Jobs, BackoffEnds(j)
  PROVE  OutboxInv' /\ Promise!ProjectionNext
<1> DEFINE due == [job[j] EXCEPT !.due = TRUE]
<1>1. job' = [job EXCEPT ![j] = due] /\ UNCHANGED <<note, derived, worker, rowAt, edits, torn>>
  BY DEF BackoffEnds, OutboxInv, OutboxTypeOK
<1>2. job \in [Jobs -> JobRow] /\ job[j] \in JobRow
  BY DEF OutboxInv, OutboxTypeOK
<1>3. /\ due \in JobRow /\ due.state = job[j].state /\ due.kind = job[j].kind /\ due.path = job[j].path
      /\ due.from = job[j].from /\ due.attempts = job[j].attempts /\ due.due /\ due.reset = job[j].reset
  BY <1>2, RowDue
<1> HIDE DEF due
<1>4. job' \in [Jobs -> JobRow] /\ job'[j] = due /\ \A i \in Jobs : i # j => job'[i] = job[i]
  BY <1>1, <1>2, <1>3
<1>5. \A i \in Jobs : /\ job'[i].state = job[i].state /\ job'[i].kind = job[i].kind /\ job'[i].path = job[i].path
                      /\ job'[i].from = job[i].from /\ job'[i].attempts = job[i].attempts
                      /\ (job'[i].reset = job[i].reset) /\ (~job'[i].due => ~job[i].due)
  BY <1>3, <1>4
<1>6. OutboxTypeOK'
  BY <1>1, <1>4 DEF OutboxInv, OutboxTypeOK
<1>7. \A w \in Workers : worker[w].job \in Jobs \cup {None}
  BY DEF OutboxInv, OutboxTypeOK, WorkerRecord
<1>8. Shaped'
  BY <1>1, <1>5 DEF OutboxInv, Shaped, ShapedAt, Formed
<1>9. RowFits' /\ RowKept'
  BY <1>1, <1>5, <1>7 DEF OutboxInv, RowFits, RowFitsAt, RowKept, RowKeptAt, Fits, Busy, Touches
<1>10. NoCrossing' /\ ViewCurrent' /\ DoneBeforeSettled'
  BY <1>1 DEF OutboxInv, NoCrossing, ViewCurrent, ViewCurrentAt, DoneBeforeSettled, DoneAt, Rights, Busy, Touches
<1>11. Owed'
  BY <1>1, <1>5 DEF OutboxInv, Owed, OwedAt, Rights
<1>12. AttemptsGrow'
  <2>1. ASSUME NEW w \in Workers, worker[w].pc = "due"
        PROVE  worker[w].job \in Jobs
    BY <1>7, <2>1 DEF OutboxInv, Shaped, ShapedAt
  <2> QED
    BY <1>1, <1>5, <2>1 DEF OutboxInv, AttemptsGrow, AttemptsGrowAt
<1>13. Promise!ProjectionNext
  BY <1>1, <1>5 DEF Promise!ProjectionNext, Promise!Rest, OnRecord, Rights
<1>14. RowLive'
  BY <1>1, RowLiveStays DEF OutboxInv, OutboxTypeOK
<1> QED
  BY <1>6, <1>8, <1>9, <1>10, <1>11, <1>12, <1>13, <1>14 DEF OutboxInv

-----------------------------------------------------------------------------
(* The theorems *)

\* At first every note is projected.
LEMMA OutboxStart ==
  ASSUME OutboxInit
  PROVE  OutboxInv
<1>1. PICK old \in Paths \cup {None} : note = [p \in Paths |-> IF p = old THEN MaxEdits + 1 ELSE 0]
  BY DEF OutboxInit
<1>2. /\ derived = note /\ job = [j \in Jobs |-> NoJob] /\ worker = [w \in Workers |-> IdleWorker]
      /\ rowAt = [q \in Requests |-> None] /\ edits = 0 /\ torn = {}
  BY DEF OutboxInit
<1>3. (\A j \in Jobs : job[j] = NoJob) /\ (\A w \in Workers : worker[w] = IdleWorker)
  BY <1>2
<1>4. note \in [Paths -> Versions]
  BY <1>1, OutboxAssumption DEF Versions
<1>5. OutboxTypeOK
  BY <1>2, <1>4, IdleType, NoJobType, OutboxAssumption DEF OutboxTypeOK
<1>6. Shaped /\ RowFits /\ NoCrossing /\ RowKept /\ ViewCurrent /\ DoneBeforeSettled /\ AttemptsGrow
  BY <1>3, IdleType, NoJobType
     DEF Shaped, ShapedAt, RowFits, RowFitsAt, NoCrossing, RowKept, RowKeptAt, ViewCurrent, ViewCurrentAt,
         DoneBeforeSettled, DoneAt, AttemptsGrow, AttemptsGrowAt, Busy, AtWork
<1>7. Owed /\ RowLive
  BY <1>2 DEF Owed, OwedAt, RowLive
<1> QED
  BY <1>5, <1>6, <1>7 DEF OutboxInv

\* Every step of the outbox keeps the invariant, and is a step of what the outbox promises.
LEMMA OutboxStep ==
  ASSUME OutboxInv, [OutboxNext]_outboxVars
  PROVE  OutboxInv' /\ Promise!ProjectionNext
<1>1. ASSUME NEW q \in Requests, RequestStep(q)
      PROVE  OutboxInv' /\ Promise!ProjectionNext
  BY <1>1, MutateStep, FindPendingStep, CoalesceStep, MutationFailsStep, EnqueueEntityStep, BuildEntityStep,
     ReadLiveStep, DeriveStep, SettleJobStep DEF RequestStep, Apply, Workers
<1>2. ASSUME NEW q \in Requests, NEW p \in Paths,
             \/ WriteNote(q, p) \/ RestoreTrash(q, p) \/ DeleteNote(q, p) \/ Reconcile(q, p)
             \/ \E to \in Paths : RenameNote(q, p, to)
      PROVE  OutboxInv' /\ Promise!ProjectionNext
  BY <1>2, WriteNoteStep, RestoreTrashStep, DeleteNoteStep, ReconcileStep, RenameNoteStep
<1>3. ASSUME NEW d \in Drains, DrainStep(d)
      PROVE  OutboxInv' /\ Promise!ProjectionNext
  BY <1>3, DrainReadStep, ParkJobStep, ClaimJobStep, PassJobStep, ReadLiveStep, DeriveStep, SettleJobStep
     DEF DrainStep, Apply, Workers
<1>4. CASE UNCHANGED outboxVars
  <2>1. OutboxInv'
    BY <1>4 DEF outboxVars, OutboxInv, OutboxTypeOK, Shaped, ShapedAt, Formed, RowFits, RowFitsAt, Fits, NoCrossing,
                RowKept, RowKeptAt, ViewCurrent, ViewCurrentAt, DoneBeforeSettled, DoneAt, Owed, OwedAt, Rights,
                AttemptsGrow, AttemptsGrowAt, RowLive, Busy, Touches
  <2>2. Promise!ProjectionNext
    BY <1>4 DEF outboxVars, Promise!ProjectionNext, Promise!Rest, OnRecord, Rights
  <2> QED
    BY <2>1, <2>2
<1> QED
  BY <1>1, <1>2, <1>3, <1>4, HookThrowsStep, HookSwallowsStep, WorkerDiesStep, BackoffEndsStep DEF OutboxNext

\* The outbox's invariant.
THEOREM OutboxInvariant == OutboxSpec => []OutboxInv
<1> QED
  BY OutboxStart, OutboxStep, PTL DEF OutboxSpec

\* "A failure is now RECORDED and RETRIED instead of vanishing" (settleProjection): a
\* path whose derived rows are wrong, and that nothing tore, has a job row that will
\* right them, through every death, throw and retry.
THEOREM TornOrRemembered == OutboxSpec => []OnlyTornForgotten
<1>1. ASSUME OutboxInv
      PROVE  OnlyTornForgotten
  <2>1. SUFFICES ASSUME NEW p \in Paths \ torn, Forgotten(p)
                 PROVE  FALSE
    BY DEF OnlyTornForgotten
  <2>2. PICK j \in Jobs : job[j].state # "none" /\ Rights(job[j], p)
    BY <1>1, <2>1 DEF OutboxInv, Owed, OwedAt, Forgotten
  <2>3. p \in Touches(job[j])
    BY <2>2, RightsTouches
  <2> QED
    BY <2>1, <2>2, <2>3 DEF Forgotten
<1> QED
  BY <1>1, OutboxInvariant, PTL

\* The outbox keeps the promise (Projection): on paths that nothing tore, a note's change
\* is owed from its commit on, the derived rows are only ever brought up to the note as it
\* is, and what is owed is struck off only once they are.
THEOREM OutboxKeepsPromise == OutboxSpec => OutboxPromise
<1>1. OutboxInit => Promise!ProjectionInit
  <2>1. SUFFICES ASSUME OutboxInit
                 PROVE  OnRecord = {}
    BY DEF OutboxInit, Promise!ProjectionInit
  <2>2. \A j \in Jobs : job[j] = NoJob
    BY <2>1 DEF OutboxInit
  <2> QED
    BY <2>2, NoJobType DEF OnRecord
<1>2. OutboxInv /\ [OutboxNext]_outboxVars => [Promise!ProjectionNext]_(Promise!projectionVars)
  BY OutboxStep
<1> QED
  BY <1>1, <1>2, OutboxInvariant, PTL DEF OutboxSpec, OutboxPromise, Promise!ProjectionSpec

\* A drain goes to work by its claim.
LEMMA DrainGoesByClaim ==
  ASSUME OutboxInv, [OutboxNext]_outboxVars, NEW e \in Drains, ~Busy(e), Busy(e)'
  PROVE  ClaimJob(e) /\ worker'[e].job = worker[e].job
<1>1. e \in Workers /\ e \notin Requests /\ worker \in [Workers -> WorkerRecord]
  BY OutboxAssumption DEF Workers, OutboxInv, OutboxTypeOK
<1>2. worker'[e] # worker[e] /\ worker'[e] # IdleWorker /\ worker'[e].pc # "due"
  BY IdleType DEF Busy, AtWork
<1>3. ASSUME NEW w \in Workers, NEW r, worker' = [worker EXCEPT ![w] = r]
      PROVE  w = e
  BY <1>1, <1>2, <1>3
<1>4. ASSUME NEW q \in Requests
      PROVE  /\ ~RequestStep(q)
             /\ \A p \in Paths : /\ ~WriteNote(q, p) /\ ~RestoreTrash(q, p) /\ ~DeleteNote(q, p) /\ ~Reconcile(q, p)
                                 /\ \A to \in Paths : ~RenameNote(q, p, to)
  <2>1. q \in Workers /\ q # e
    BY <1>1 DEF Workers
  <2>2. worker' # [worker EXCEPT ![q].pc = IF note[worker[q].path] = 0 THEN "settle" ELSE "derive",
                                 ![q].view = note[worker[q].path]]
    BY <1>1, <1>2, <2>1
  <2>3. worker' # [worker EXCEPT ![q].pc = "settle", ![q].view = 0]
    BY <1>1, <1>2, <2>1
  <2>4. ~Mutate(q) /\ ~Coalesce(q) /\ ~MutationFails(q) /\ ~EnqueueEntity(q) /\ ~BuildEntity(q)
    BY <1>3, <2>1 DEF Mutate, Coalesce, MutationFails, RolledBack, EnqueueEntity, BuildEntity, CommitAs, GoesToWork
  <2>5. ~ReadLive(q) /\ ~Derive(q) /\ ~SettleJob(q)
    BY <1>3, <2>1, <2>2, <2>3 DEF ReadLive, Derive, SettleJob, Done
  <2>6. ~FindPending(q)
    <3>1. \A f, g : worker' # [worker EXCEPT ![q].pc = f, ![q].job = g]
      BY <1>1, <1>2, <2>1
    <3> QED
      BY <3>1 DEF FindPending
  <2>7. \A x, p : ~Finds(q, x, p) /\ ~Reconcile(q, p)
    BY <1>3, <2>1 DEF Finds, Reconcile, GoesToWork
  <2> QED
    BY <2>4, <2>5, <2>6, <2>7 DEF RequestStep, Apply, WriteNote, RestoreTrash, DeleteNote, RenameNote
<1>5. ASSUME NEW w \in Workers
      PROVE  /\ ~ReadLive(w) /\ ~Derive(w) /\ ~SettleJob(w) /\ ~HookThrows(w) /\ ~HookSwallows(w) /\ ~WorkerDies(w)
  <2>1. worker' # [worker EXCEPT ![w] = IdleWorker]
    BY <1>1, <1>2
  <2>2. CASE w = e
    BY <2>1, <2>2 DEF ReadLive, Derive, SettleJob, HookThrows, HookSwallows, WorkerDies, Done, Busy, AtWork
  <2>3. CASE w # e
    <3>1. \A r : worker' # [worker EXCEPT ![w] = r]
      BY <1>3, <2>3
    <3>2. ~ReadLive(w) /\ ~Derive(w) /\ ~HookSwallows(w)
      <4>1. \A f, g : worker' # [worker EXCEPT ![w].pc = f, ![w].view = g] /\ worker' # [worker EXCEPT ![w].pc = f]
        BY <1>1, <1>2, <2>3
      <4> QED
        BY <4>1 DEF ReadLive, Derive, HookSwallows
    <3> QED
      BY <2>1, <3>2 DEF SettleJob, HookThrows, WorkerDies, Done
  <2> QED
    BY <2>2, <2>3
<1>6. ASSUME NEW d \in Drains, DrainStep(d)
      PROVE  ClaimJob(d) /\ d = e
  <2>1. d \in Workers
    BY DEF Workers
  <2>2. \A j \in Jobs : ~DrainRead(d, j)
    <3>1. ASSUME NEW j \in Jobs, DrainRead(d, j)
          PROVE  FALSE
      <4> DEFINE r == [IdleWorker EXCEPT !.pc = "due", !.job = j, !.seen = job[j].attempts]
      <4>1. worker' = [worker EXCEPT ![d] = r] /\ r.pc = "due"
        BY <3>1 DEF DrainRead, IdleWorker
      <4> HIDE DEF r
      <4>2. d = e
        BY <1>3, <2>1, <4>1
      <4> QED
        BY <1>1, <1>2, <4>1, <4>2
    <3> QED
      BY <3>1
  <2>3. ~ParkJob(d) /\ ~PassJob(d)
    BY <1>1, <1>2, <2>1 DEF ParkJob, PassJob, Done
  <2>4. ClaimJob(d)
    BY <1>5, <1>6, <2>1, <2>2, <2>3 DEF DrainStep, Apply
  <2> QED
    BY <1>3, <2>1, <2>4 DEF ClaimJob, GoesToWork
<1>7. ClaimJob(e)
  BY <1>2, <1>4, <1>5, <1>6 DEF OutboxNext, outboxVars, BackoffEnds
<1>8. worker'[e].job = worker[e].job
  BY <1>1, <1>7 DEF ClaimJob, GoesToWork, IdleWorker
<1> QED
  BY <1>7, <1>8

\* "Two instances draining at the same minute cannot both run one job"
\* (drainProjections): a drain claims a job that another is applying only once the row
\* is due again, or after a save's failed settle set its attempts back.
THEOREM OneDrainRuns == OutboxSpec => OneDrainPerAttempt
<1> DEFINE A == \A d, e \in Drains, j \in Jobs :
                   /\ d # e
                   /\ Busy(d) /\ worker[d].job = j
                   /\ ~Busy(e) /\ Busy(e)' /\ worker'[e].job = j
                   => job[j].due \/ job[j].reset
<1>1. ASSUME OutboxInv, [OutboxNext]_outboxVars, NEW e \in Drains, NEW j \in Jobs,
             ~Busy(e), Busy(e)', worker'[e].job = j
      PROVE  job[j].due \/ job[j].reset
  <2>1. ClaimJob(e) /\ worker[e].job = j
    BY <1>1, DrainGoesByClaim
  <2>2. worker[e].pc = "due" /\ job[j].state # "none" /\ job[j].attempts = worker[e].seen
    BY <2>1 DEF ClaimJob, AsRead
  <2>3. e \in Workers /\ worker[e].seen \in Nat
    BY <1>1, OutboxAssumption DEF OutboxInv, OutboxTypeOK, WorkerRecord, Workers
  <2>4. ~(worker[e].seen < job[j].attempts)
    BY <2>2, <2>3
  <2> QED
    BY <1>1, <2>1, <2>2, <2>3, <2>4 DEF OutboxInv, AttemptsGrow, AttemptsGrowAt
<1>2. ASSUME OutboxInv, [OutboxNext]_outboxVars
      PROVE  [A]_outboxVars
  BY <1>1, <1>2
<1> QED
  BY <1>2, OutboxInvariant, PTL DEF OutboxSpec, OneDrainPerAttempt
=============================================================================
