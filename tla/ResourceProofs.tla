--------------------------- MODULE ResourceProofs ---------------------------
(***************************************************************************)
(* Theorems about what a resource owes and how it came to be: the queue of *)
(* its work (ResourceJobs), for any kinds of work, drains, batches and     *)
(* back-offs, and its upload (Uploads), for any number of requests that    *)
(* complete it.                                                            *)
(***************************************************************************)
EXTENDS ResourceJobs, Uploads, FiniteSetTheorems, TLAPS

-----------------------------------------------------------------------------
(* The queue: the inductive invariant *)

\* What a drain has claimed and not settled.
Mine(d) == (drainer[d].batch \cup {drainer[d].now}) \ {None}

\* A claim is of one job of each kind, and the one being run has left the batch.
OneOfAKind ==
    \A d \in Drainers :
        /\ \A a, b \in Mine(d) : a.kind = b.kind => a = b
        /\ drainer[d].now \notin drainer[d].batch

\* A job that two drains have, or one has and another may claim, is loose.
HeldOnce ==
    stored => \A k \in JobKinds :
        /\ \A d, e \in Holding(k) : d # e => queue[k].loose
        /\ Holding(k) # {} /\ (queue[k].state = "queued" \/ queue[k].lapsed) => queue[k].loose

\* A run takes what was queued before it for its own.
RunsOweNothing == \A k \in JobKinds : RunningNow(k) # {} => queue[k].owed # "yes"

JobsInv == JobsTypeOK /\ OneOfAKind /\ HeldOnce /\ RunsOweNothing /\ NothingAskedIsDropped

-----------------------------------------------------------------------------
(* The queue: lemmas about its operators *)

\* A row stays well typed when its state, its lease or what it owes is written.
LEMMA RowTypes ==
  ASSUME NEW row \in QueueRow
  PROVE  /\ NoRow \in QueueRow
         /\ Asked(row) \in QueueRow
         /\ \A n \in 0..GiveUp : Attempt(n) \in 1..GiveUp
         /\ SettledDone(row) \in QueueRow
         /\ \A n \in 1..GiveUp : SettledFailed(row, n) \in QueueRow
<1>1. GiveUp \in Nat \ {0} /\ GiveUp = Backoffs + 1 /\ 0 \in 0..GiveUp
  BY JobsAssumption DEF GiveUp
<1>2. NoRow \in QueueRow
  BY <1>1 DEF NoRow, QueueRow
<1>3. Asked(row) \in QueueRow
  BY <1>1 DEF Asked, QueueRow
<1>4. \A n \in 0..GiveUp : Attempt(n) \in 1..GiveUp
  BY <1>1 DEF Attempt
<1>5. SettledDone(row) \in QueueRow
  BY DEF SettledDone, QueueRow
<1>6. \A n \in 1..GiveUp : SettledFailed(row, n) \in QueueRow
  BY DEF SettledFailed, QueueRow
<1> QED
  BY <1>2, <1>3, <1>4, <1>5, <1>6

\* Who holds a kind, by what each drain has; who runs it holds it.
LEMMA HoldingIsMine ==
  /\ \A k \in JobKinds : Holding(k) = {d \in Drainers : \E job \in Mine(d) : job.kind = k}
  /\ \A k \in JobKinds : RunningNow(k) \subseteq Holding(k)
BY DEF Holding, Mine, RunningNow

\* A step that leaves the rows alone and takes jobs from drains keeps everything.
LEMMA LessHeld ==
  ASSUME JobsInv, UNCHANGED <<queue, stored>>, JobsTypeOK',
         NEW d \in Drainers, drainer' = [drainer EXCEPT ![d] = NoBatch]
  PROVE  JobsInv'
<1> USE DEF JobsInv
<1>1. Mine(d)' = {} /\ \A e \in Drainers \ {d} : Mine(e)' = Mine(e)
  BY DEF Mine, JobsTypeOK, NoBatch
<1>2. OneOfAKind'
  BY <1>1 DEF OneOfAKind, JobsTypeOK, NoBatch
<1>3. \A k \in JobKinds : Holding(k)' \subseteq Holding(k) /\ RunningNow(k)' \subseteq RunningNow(k)
  BY <1>1 DEF Holding, RunningNow, Mine, JobsTypeOK, NoBatch
<1>4. HeldOnce' /\ RunsOweNothing' /\ NothingAskedIsDropped'
  BY <1>3 DEF HeldOnce, RunsOweNothing, NothingAskedIsDropped
<1> QED
  BY <1>2, <1>4

\* A step that leaves the drains alone: who holds and who runs is the same.
LEMMA SameDrains ==
  ASSUME UNCHANGED drainer
  PROVE  /\ OneOfAKind => OneOfAKind'
         /\ \A k \in JobKinds : Holding(k)' = Holding(k) /\ RunningNow(k)' = RunningNow(k)
BY DEF OneOfAKind, Mine, Holding, RunningNow

-----------------------------------------------------------------------------
(* The queue: its steps *)

\* A request for a job finds its row by its dedupe key, or makes the only one.
LEMMA AskKeeps ==
  ASSUME JobsInv, NEW k \in JobKinds, Ask(k)
  PROVE  JobsInv'
<1> USE DEF JobsInv
<1> DEFINE owes_k == IF RunningNow(k) = {} THEN "yes" ELSE "late"
           row == [Asked(queue[k]) EXCEPT !.owed = owes_k, !.loose = TRUE]
<1>1. queue' = [queue EXCEPT ![k] = row] /\ UNCHANGED <<drainer, stored, deaths>> /\ stored
  BY DEF Ask
<1>2. Asked(queue[k]) \in QueueRow /\ Asked(queue[k]).state = "queued"
  <2>1. queue[k] \in QueueRow
    BY DEF JobsTypeOK
  <2>2. Asked(queue[k]).state = "queued"
    BY <2>1 DEF Asked, QueueRow
  <2> QED
    BY <2>1, <2>2, RowTypes
<1>3. row \in QueueRow /\ row.state = "queued" /\ row.loose /\ row.owed = owes_k
  BY <1>2 DEF QueueRow
<1> HIDE DEF row
<1>4. JobsTypeOK'
  BY <1>1, <1>3, JobsAssumption DEF Ask, JobsTypeOK
<1>5. HeldOnce' /\ RunsOweNothing' /\ NothingAskedIsDropped'
  BY <1>1, <1>3, SameDrains DEF HeldOnce, RunsOweNothing, NothingAskedIsDropped, JobsTypeOK
<1> QED
  BY <1>1, <1>4, <1>5, SameDrains

\* The claim takes rows whose lease nobody holds.
LEMMA ClaimKeeps ==
  ASSUME JobsInv, NEW d \in Drainers, NEW K \in SUBSET JobKinds, Claim(d, K)
  PROVE  JobsInv'
<1> USE DEF JobsInv
<1> DEFINE job(k) == [kind |-> k, attempts |-> Attempt(queue[k].attempts)]
           row(k) == [queue[k] EXCEPT !.state = "running", !.attempts = Attempt(@),
                                      !.lapsed = FALSE, !.loose = @ /\ Holding(k) # {}]
<1>1. \A k \in JobKinds : queue[k] \in QueueRow /\ job(k) \in Claimed
  BY RowTypes DEF JobsTypeOK, Claimed, QueueRow
<1>2. \A k \in JobKinds : /\ row(k) \in QueueRow /\ row(k).state = "running" /\ ~row(k).lapsed
                          /\ row(k).loose = (queue[k].loose /\ Holding(k) # {})
                          /\ row(k).owed = queue[k].owed
  <2> TAKE k \in JobKinds
  <2>1. Attempt(queue[k].attempts) \in 0..GiveUp
    <3>1. queue[k].attempts \in 0..GiveUp
      BY <1>1 DEF QueueRow
    <3>2. Attempt(queue[k].attempts) \in 1..GiveUp
      BY <1>1, <3>1, RowTypes
    <3> QED
      BY <3>2
  <2> QED
    BY <1>1, <2>1 DEF QueueRow
<1>3. queue' = [k \in JobKinds |-> IF k \in K THEN row(k) ELSE queue[k]]
  BY DEF Claim
<1> DEFINE B == {job(k) : k \in K}
<1>4. drainer' = [drainer EXCEPT ![d].batch = B] /\ UNCHANGED <<stored, asks, deaths>>
  BY DEF Claim
<1>5. drainer[d] = NoBatch /\ \A k \in K : Claimable(queue[k])
  BY DEF Claim
<1>6. \A k \in JobKinds : job(k).kind = k
  OBVIOUS
<1>8. B \subseteq Claimed /\ (\A k \in K : \E j \in B : j.kind = k) /\ \A a, b \in B : a.kind \in K /\ (a.kind = b.kind => a = b)
  <2>1. \A b \in B : \E k \in K : b = job(k)
    OBVIOUS
  <2>2. \A k \in K : job(k) \in B /\ job(k).kind = k /\ job(k) \in Claimed
    BY <1>1, <1>6
  <2> HIDE DEF job, B
  <2> QED
    BY <2>1, <2>2
<1> HIDE DEF job, row, B
<1>7. drainer[d]' = [batch |-> B, now |-> None] /\ \A e \in Drainers \ {d} : drainer[e]' = drainer[e]
  BY <1>4, <1>5 DEF JobsTypeOK, NoBatch
<1>9. JobsTypeOK'
  <2>1. queue' \in [JobKinds -> QueueRow]
    BY <1>1, <1>2, <1>3
  <2>2. drainer' \in [Drainers -> [batch : SUBSET Claimed, now : Claimed \cup {None}]]
    BY <1>4, <1>7, <1>8 DEF JobsTypeOK
  <2>3. ~stored => \A k \in JobKinds : queue'[k].state = "none"
    BY <1>3, <1>5 DEF JobsTypeOK, Claimable
  <2> QED
    BY <1>4, <2>1, <2>2, <2>3 DEF JobsTypeOK
<1>10. Mine(d)' = B /\ \A e \in Drainers \ {d} : Mine(e)' = Mine(e)
  BY <1>7, <1>8, ClaimAssumption DEF Mine
<1>11. OneOfAKind'
  BY <1>7, <1>8, <1>10, ClaimAssumption DEF OneOfAKind
<1>12. Mine(d) = {}
  BY <1>5 DEF Mine, NoBatch
<1>13. \A k \in JobKinds : /\ Holding(k)' = IF k \in K THEN Holding(k) \cup {d} ELSE Holding(k)
                           /\ RunningNow(k)' = RunningNow(k)
  <2> TAKE k \in JobKinds
  <2>1. \A e \in Drainers : e \in Holding(k)' <=> \E j \in Mine(e)' : j.kind = k
    BY DEF Holding, Mine
  <2>2. \A e \in Drainers : e \in Holding(k) <=> \E j \in Mine(e) : j.kind = k
    BY DEF Holding, Mine
  <2>3. d \in Holding(k)' <=> k \in K
    BY <1>8, <1>10, <2>1
  <2>4. \A e \in Drainers \ {d} : e \in Holding(k)' <=> e \in Holding(k)
    BY <1>10, <2>1, <2>2
  <2>5. d \notin Holding(k)
    BY <1>12, <2>2
  <2>6. Holding(k) \subseteq Drainers /\ Holding(k)' \subseteq Drainers
    BY DEF Holding
  <2>7. RunningNow(k)' = RunningNow(k)
    BY <1>5, <1>7 DEF RunningNow, NoBatch
  <2> QED
    BY <2>3, <2>4, <2>5, <2>6, <2>7
<1>14. HeldOnce'
  <2> SUFFICES ASSUME stored, NEW k \in JobKinds
               PROVE  /\ \A a, b \in Holding(k)' : a # b => queue'[k].loose
                      /\ Holding(k)' # {} /\ (queue'[k].state = "queued" \/ queue'[k].lapsed) => queue'[k].loose
    BY <1>4 DEF HeldOnce
  <2>1. CASE k \in K
    <3>1. Claimable(queue[k]) => queue[k].state = "queued" \/ queue[k].lapsed
      BY DEF Claimable
    <3>2. Holding(k) # {} => queue[k].loose
      BY <1>5, <2>1, <3>1 DEF HeldOnce
    <3>3. queue'[k].loose = (queue[k].loose /\ Holding(k) # {}) /\ queue'[k].state = "running" /\ ~queue'[k].lapsed
      BY <1>2, <1>3, <2>1
    <3> QED
      BY <1>13, <2>1, <3>2, <3>3
  <2>2. CASE k \notin K
    BY <1>3, <1>13, <2>2 DEF HeldOnce
  <2> QED
    BY <2>1, <2>2
<1>15. RunsOweNothing' /\ NothingAskedIsDropped'
  BY <1>2, <1>3, <1>13 DEF RunsOweNothing, NothingAskedIsDropped
<1> QED
  BY <1>9, <1>11, <1>14, <1>15

\* A job begins under a claim, and owes nothing from then on.
LEMMA RunOneKeeps ==
  ASSUME JobsInv, NEW d \in Drainers, NEW job \in drainer[d].batch, RunOne(d, job)
  PROVE  JobsInv'
<1> USE DEF JobsInv
<1>1. job \in Claimed /\ job # None /\ job.kind \in JobKinds
  BY ClaimAssumption DEF JobsTypeOK, Claimed
<1>2. /\ drainer[d].now = None /\ UNCHANGED <<stored, asks, deaths>>
      /\ drainer' = [drainer EXCEPT ![d] = [batch |-> drainer[d].batch \ {job}, now |-> job]]
      /\ queue' = [queue EXCEPT ![job.kind].owed = "no"]
  BY DEF RunOne, JobsTypeOK
<1>3. \A k \in JobKinds : /\ queue'[k] \in QueueRow /\ queue'[k].state = queue[k].state
                          /\ queue'[k].lapsed = queue[k].lapsed /\ queue'[k].loose = queue[k].loose
                          /\ queue'[k].owed = IF k = job.kind THEN "no" ELSE queue[k].owed
  BY <1>1, <1>2 DEF JobsTypeOK, QueueRow
<1>4. JobsTypeOK'
  BY <1>1, <1>2, <1>3 DEF JobsTypeOK
<1>5. Mine(d)' = Mine(d) /\ \A e \in Drainers \ {d} : Mine(e)' = Mine(e)
  BY <1>1, <1>2 DEF Mine, JobsTypeOK
<1>6. OneOfAKind'
  BY <1>2, <1>5 DEF OneOfAKind, JobsTypeOK
<1>7. \A k \in JobKinds : Holding(k)' = Holding(k)
  BY <1>5 DEF Holding, Mine
<1>8. \A k \in JobKinds \ {job.kind} : RunningNow(k)' = RunningNow(k)
  BY <1>2 DEF RunningNow, JobsTypeOK
<1>9. HeldOnce'
  BY <1>2, <1>3, <1>7 DEF HeldOnce
<1>10. RunsOweNothing' /\ NothingAskedIsDropped'
  BY <1>3, <1>8 DEF RunsOweNothing, NothingAskedIsDropped
<1> QED
  BY <1>4, <1>6, <1>9, <1>10

\* The settlement writes the row of its claim, if the claim still stands.
LEMMA SettleKeeps ==
  ASSUME JobsInv, NEW d \in Drainers, Settle(d)
  PROVE  JobsInv'
<1> USE DEF JobsInv
<1> DEFINE job == drainer[d].now
           k == job.kind
<1>1. job \in Claimed /\ job # None /\ k \in JobKinds /\ job.attempts \in 1..GiveUp /\ queue[k] \in QueueRow
  BY DEF Settle, JobsTypeOK, Claimed
<1>2. CASE queue[k].state = "none"
  <2>1. drainer' = [drainer EXCEPT ![d] = NoBatch] /\ UNCHANGED <<queue, stored, asks, deaths>>
    BY <1>2 DEF Settle
  <2>2. NoBatch \in [batch : SUBSET Claimed, now : Claimed \cup {None}]
    BY DEF NoBatch
  <2>3. JobsTypeOK'
    BY <2>1, <2>2 DEF JobsTypeOK
  <2> QED
    BY <2>1, <2>3, LessHeld
<1>3. CASE queue[k].state # "none"
  <2>1. /\ drainer' = [drainer EXCEPT ![d].now = None] /\ UNCHANGED <<stored, asks, deaths>>
        /\ \E settled \in {SettledDone(queue[k]), SettledFailed(queue[k], job.attempts)} :
              queue' = [queue EXCEPT ![k] = settled]
    BY <1>3 DEF Settle
  <2>2. PICK settled \in {SettledDone(queue[k]), SettledFailed(queue[k], job.attempts)} :
              queue' = [queue EXCEPT ![k] = settled]
    BY <2>1
  <2>3. settled \in QueueRow /\ settled.loose = queue[k].loose /\ settled.owed = queue[k].owed /\ settled.state # "none"
    <3>1. SettledDone(queue[k]) \in QueueRow /\ SettledFailed(queue[k], job.attempts) \in QueueRow
      BY <1>1, RowTypes
    <3>2. CASE settled = SettledDone(queue[k])
      BY <1>1, <3>1, <3>2 DEF SettledDone, QueueRow
    <3>3. CASE settled = SettledFailed(queue[k], job.attempts)
      BY <1>1, <3>1, <3>3 DEF SettledFailed, QueueRow
    <3> QED
      BY <3>2, <3>3
  <2>4. queue'[k] = settled /\ \A i \in JobKinds \ {k} : queue'[i] = queue[i]
    BY <1>1, <2>2 DEF JobsTypeOK
  <2>5. drainer[d]' = [batch |-> drainer[d].batch, now |-> None] /\ \A e \in Drainers \ {d} : drainer[e]' = drainer[e]
    BY <2>1 DEF JobsTypeOK
  <2>6. JobsTypeOK'
    <3>1. ~stored => queue[k].state = "none"
      BY <1>1 DEF JobsTypeOK
    <3>2. drainer' \in [Drainers -> [batch : SUBSET Claimed, now : Claimed \cup {None}]]
      BY <2>1 DEF JobsTypeOK
    <3>3. queue' \in [JobKinds -> QueueRow]
      BY <1>1, <2>2, <2>3 DEF JobsTypeOK
    <3> QED
      BY <1>3, <2>1, <3>1, <3>2, <3>3 DEF JobsTypeOK
  <2>7. Mine(d)' = Mine(d) \ {job} /\ job \in Mine(d) /\ \A e \in Drainers \ {d} : Mine(e)' = Mine(e)
    BY <1>1, <2>5 DEF Mine, OneOfAKind
  <2>8. OneOfAKind'
    BY <2>5, <2>7, ClaimAssumption DEF OneOfAKind, JobsTypeOK
  <2>9. \A i \in JobKinds : /\ Holding(i)' \subseteq Holding(i) /\ RunningNow(i)' \subseteq RunningNow(i)
                            /\ i = k => d \in Holding(i) /\ d \notin Holding(i)'
    <3> TAKE i \in JobKinds
    <3>1. \A e \in Drainers : e \in Holding(i)' <=> \E j \in Mine(e)' : j.kind = i
      BY DEF Holding, Mine
    <3>2. \A e \in Drainers : e \in Holding(i) <=> \E j \in Mine(e) : j.kind = i
      BY DEF Holding, Mine
    <3>3. Holding(i) \subseteq Drainers /\ Holding(i)' \subseteq Drainers
      BY DEF Holding
    <3>4. RunningNow(i)' \subseteq RunningNow(i)
      BY <2>5 DEF RunningNow
    <3>5. \A j \in Mine(d)' : j.kind # k
      BY <2>7 DEF OneOfAKind
    <3>6. \A e \in Drainers : Mine(e)' \subseteq Mine(e)
      BY <2>7
    <3>7. Holding(i)' \subseteq Holding(i)
      BY <3>1, <3>2, <3>3, <3>6
    <3>8. i = k => d \in Holding(i) /\ d \notin Holding(i)'
      BY <2>7, <3>1, <3>2, <3>5
    <3> QED
      BY <3>4, <3>7, <3>8
  <2>10. HeldOnce'
    <3> SUFFICES ASSUME stored, NEW i \in JobKinds
                 PROVE  /\ \A a, b \in Holding(i)' : a # b => queue'[i].loose
                        /\ Holding(i)' # {} /\ (queue'[i].state = "queued" \/ queue'[i].lapsed) => queue'[i].loose
      BY <2>1 DEF HeldOnce
    <3>1. CASE i # k
      BY <2>4, <2>9, <3>1 DEF HeldOnce
    <3>2. CASE i = k
      <4>1. Holding(i)' # {} => \E e \in Holding(i) : e # d
        BY <2>9, <3>2
      <4>2. Holding(i)' # {} => queue[i].loose
        BY <2>9, <3>2, <4>1 DEF HeldOnce
      <4> QED
        BY <2>3, <2>4, <3>2, <4>2
    <3> QED
      BY <3>1, <3>2
  <2>11. RunningNow(k) # {}
    BY <1>1 DEF RunningNow
  <2>12. queue[k].owed # "yes"
    BY <1>1, <2>11 DEF RunsOweNothing
  <2>13. RunsOweNothing' /\ NothingAskedIsDropped'
    BY <2>3, <2>4, <2>9, <2>12 DEF RunsOweNothing, NothingAskedIsDropped
  <2> QED
    BY <2>6, <2>8, <2>10, <2>13
<1> QED
  BY <1>2, <1>3

\* A backoff that is over and a lease that lapses leave every request owed.
LEMMA TimeKeeps ==
  ASSUME JobsInv, NEW k \in JobKinds, BackoffOver(k) \/ LeaseLapses(k)
  PROVE  JobsInv'
<1> USE DEF JobsInv
<1>1. queue[k] \in QueueRow /\ UNCHANGED <<drainer, stored, asks, deaths>>
  BY DEF JobsTypeOK, BackoffOver, LeaseLapses
<1>2. \A i \in JobKinds :
        /\ queue'[i] \in QueueRow /\ queue'[i].state = queue[i].state /\ queue'[i].owed = queue[i].owed
        /\ queue'[i].loose \/ (queue'[i].lapsed = queue[i].lapsed /\ queue'[i].loose = queue[i].loose)
  <2> TAKE i \in JobKinds
  <2>1. queue[i] \in QueueRow
    BY DEF JobsTypeOK
  <2>2. CASE BackoffOver(k)
    <3>1. queue'[i] = IF i = k THEN [queue[k] EXCEPT !.due = TRUE] ELSE queue[i]
      BY <2>2 DEF BackoffOver, JobsTypeOK
    <3> QED
      BY <1>1, <2>1, <3>1 DEF QueueRow
  <2>3. CASE LeaseLapses(k)
    <3>1. queue'[i] = IF i = k THEN [queue[k] EXCEPT !.lapsed = TRUE, !.loose = TRUE] ELSE queue[i]
      BY <2>3 DEF LeaseLapses, JobsTypeOK
    <3> QED
      BY <1>1, <2>1, <3>1 DEF QueueRow
  <2> QED
    BY <2>2, <2>3
<1>3. JobsTypeOK'
  <2>1. queue' \in [JobKinds -> QueueRow]
    BY <1>2 DEF BackoffOver, LeaseLapses, JobsTypeOK
  <2> QED
    BY <1>1, <1>2, <2>1 DEF JobsTypeOK
<1>4. HeldOnce' /\ RunsOweNothing' /\ NothingAskedIsDropped'
  BY <1>1, <1>2, SameDrains DEF HeldOnce, RunsOweNothing, NothingAskedIsDropped
<1> QED
  BY <1>1, <1>3, <1>4, SameDrains

\* A drainer that dies leaves its rows leased.
LEMMA DrainerDiesKeeps ==
  ASSUME JobsInv, NEW d \in Drainers, DrainerDies(d)
  PROVE  JobsInv'
<1>1. NoBatch \in [batch : SUBSET Claimed, now : Claimed \cup {None}]
  BY DEF NoBatch
<1>2. JobsTypeOK'
  BY <1>1, JobsAssumption DEF JobsInv, JobsTypeOK, DrainerDies
<1> QED
  BY <1>2, LessHeld DEF DrainerDies

\* With the resource its jobs go.
LEMMA ResourceGoesKeeps ==
  ASSUME JobsInv, ResourceGoes
  PROVE  JobsInv'
<1>1. NoRow \in QueueRow
  BY JobsAssumption DEF NoRow, QueueRow, GiveUp
<1>2. queue' = [k \in JobKinds |-> NoRow] /\ stored' = FALSE /\ UNCHANGED <<drainer, asks, deaths>>
  BY DEF ResourceGoes, Cascaded
<1>3. JobsTypeOK'
  <2>1. \A k \in JobKinds : queue'[k] = NoRow /\ NoRow.state = "none"
    BY <1>2 DEF NoRow
  <2> QED
    BY <1>1, <1>2, <2>1 DEF JobsInv, JobsTypeOK
<1>4. HeldOnce' /\ RunsOweNothing' /\ NothingAskedIsDropped'
  BY <1>2 DEF HeldOnce, RunsOweNothing, NothingAskedIsDropped, NoRow
<1> QED
  BY <1>2, <1>3, <1>4, SameDrains DEF JobsInv

\* There is no job at first.
LEMMA JobsInitHolds == JobsInit => JobsInv
<1> SUFFICES ASSUME JobsInit PROVE JobsInv
  OBVIOUS
<1>1. NoRow \in QueueRow /\ NoBatch \in [batch : SUBSET Claimed, now : Claimed \cup {None}]
  BY JobsAssumption DEF NoRow, QueueRow, GiveUp, NoBatch
<1>2. JobsTypeOK
  BY <1>1, JobsAssumption DEF JobsInit, JobsTypeOK
<1>3. \A d \in Drainers : Mine(d) = {}
  BY DEF Mine, JobsInit, NoBatch
<1>4. OneOfAKind
  BY <1>3 DEF OneOfAKind, JobsInit, NoBatch
<1>5. \A k \in JobKinds : Holding(k) = {} /\ RunningNow(k) = {}
  BY <1>3 DEF Holding, Mine, RunningNow, JobsInit, NoBatch
<1> QED
  BY <1>2, <1>4, <1>5 DEF JobsInv, HeldOnce, RunsOweNothing, NothingAskedIsDropped, JobsInit, NoRow

\* Every step of the job queue keeps the invariant.
LEMMA JobsNextKeeps == JobsInv /\ [JobsNext]_jobVars => JobsInv'
<1> SUFFICES ASSUME JobsInv, [JobsNext]_jobVars PROVE JobsInv'
  OBVIOUS
<1>1. CASE UNCHANGED jobVars
  <2>1. UNCHANGED <<queue, drainer, stored, asks, deaths>>
    BY <1>1 DEF jobVars
  <2>2. JobsTypeOK'
    BY <2>1 DEF JobsInv, JobsTypeOK
  <2> QED
    BY <2>1, <2>2, SameDrains DEF JobsInv, HeldOnce, RunsOweNothing, NothingAskedIsDropped
<1>2. ASSUME NEW k \in JobKinds, Ask(k) PROVE JobsInv'
  BY <1>2, AskKeeps
<1>3. ASSUME NEW k \in JobKinds, BackoffOver(k) \/ LeaseLapses(k) PROVE JobsInv'
  BY <1>3, TimeKeeps
<1>4. ASSUME NEW d \in Drainers, DrainerStep(d) PROVE JobsInv'
  BY <1>4, ClaimKeeps, RunOneKeeps, SettleKeeps DEF DrainerStep
<1>5. ASSUME NEW d \in Drainers, DrainerDies(d) PROVE JobsInv'
  BY <1>5, DrainerDiesKeeps
<1>6. CASE ResourceGoes
  BY <1>6, ResourceGoesKeeps
<1> QED
  BY <1>1, <1>2, <1>3, <1>4, <1>5, <1>6 DEF JobsNext

\* So the invariant holds in every state of the queue.
LEMMA JobsInvHolds == JobsSpec => []JobsInv
  BY JobsInitHolds, JobsNextKeeps, PTL DEF JobsSpec

-----------------------------------------------------------------------------
(* The queue: what it promises *)

\* Two drains run one job only when its lease has lapsed since it was last claimed, or it
\* was queued again (claimJobs, settle in jobs.ts), for any drains and batches.
THEOREM JobsRunOnce == JobsSpec => []OnlyLooseJobsRunTwice
<1>1. JobsInv => OnlyLooseJobsRunTwice
  <2> SUFFICES ASSUME JobsInv, NEW k \in JobKinds, stored, Cardinality(RunningNow(k)) > 1
               PROVE  queue[k].loose
    BY DEF OnlyLooseJobsRunTwice
  <2>1. IsFiniteSet(RunningNow(k))
    BY JobsAssumption, FS_Subset DEF RunningNow
  <2>2. \E d, e \in RunningNow(k) : d # e
    <3>1. RunningNow(k) # {}
      BY FS_EmptySet
    <3>2. PICK d \in RunningNow(k) : TRUE
      BY <3>1
    <3>3. RunningNow(k) # {d}
      BY FS_Singleton
    <3> QED
      BY <3>2, <3>3
  <2> QED
    BY <2>2, HoldingIsMine DEF JobsInv, HeldOnce
<1> QED
  BY <1>1, JobsInvHolds, PTL

\* Work that is queued is not over before a run of it has begun, unless it was queued
\* under a run (enqueueJobs), however many drains there are and whichever die.
THEOREM AskedIsRun == JobsSpec => []NothingAskedIsDropped
<1>1. JobsInv => NothingAskedIsDropped
  BY DEF JobsInv
<1> QED
  BY <1>1, JobsInvHolds, PTL

-----------------------------------------------------------------------------
(* The upload: the inductive invariant *)

\* Who is about to complete an upload that is there has seen its bytes, and so has who
\* completed it, unless they were crossed.
WholeOrCrossed ==
    /\ (\E f \in Finishers : hand[f] \in {"judge", "mark"}) /\ upload # "none" => bytes \/ crossed
    /\ upload = "ready" => bytes \/ crossed

\* The remover throws nothing away of an upload that was completed, unless they crossed,
\* and empties the object of a deleted file only.
RemoverMinds ==
    /\ upload = "ready" /\ hand[Remover] = "drop" => crossed
    /\ hand[Remover] = "empty" => upload = "none"

\* The work of a ready upload is queued, is about to be, or never will be.
WorkOwed == upload = "ready" => owes \/ halted \/ \E f \in Finishers : hand[f] = "finish"

UploadInv == UploadTypeOK /\ WholeOrCrossed /\ RemoverMinds /\ WorkOwed

-----------------------------------------------------------------------------
(* The upload: its steps *)

\* Bytes arrive, an upload grows old.
LEMMA ArrivalKeeps ==
  ASSUME UploadInv, BytesArrive \/ GrowsOld
  PROVE  UploadInv'
<1> USE DEF UploadInv
<1>1. /\ UNCHANGED <<upload, owes, hand, crossed, halted>>
      /\ (bytes' = TRUE /\ UNCHANGED old) \/ (old' = TRUE /\ UNCHANGED bytes)
  BY DEF BytesArrive, GrowsOld
<1>2. bytes => bytes'
  BY <1>1
<1>3. UploadTypeOK'
  <2>1. bytes' \in BOOLEAN /\ old' \in BOOLEAN
    BY <1>1 DEF UploadTypeOK
  <2> QED
    BY <1>1, <2>1 DEF UploadTypeOK
<1>4. WholeOrCrossed'
  BY <1>1, <1>2 DEF WholeOrCrossed
<1>5. RemoverMinds' /\ WorkOwed'
  BY <1>1 DEF RemoverMinds, WorkOwed
<1> QED
  BY <1>3, <1>4, <1>5

\* A finisher that only goes on, or stops, disturbs the others' parts of nothing.
LEMMA FinisherKeeps ==
  ASSUME UploadInv, NEW f \in Finishers, ReadPending(f) \/ StatObject(f) \/ Judge(f)
  PROVE  UploadInv'
<1> USE DEF UploadInv
<1>1. PICK next \in {"stat", "judge", "drop", "idle", "mark"} :
        /\ hand' = [hand EXCEPT ![f] = next]
        /\ next \in {"judge", "mark"} => bytes \/ hand[f] = "judge"
  BY DEF ReadPending, StatObject, Judge, Hand, Arrived
<1>2. UNCHANGED <<upload, bytes, old, owes, crossed, halted>> /\ hand[f] # "finish"
  BY DEF ReadPending, StatObject, Judge
<1>3. f # Remover /\ f \in Hands /\ Remover \in Hands
  BY UploadAssumption DEF Hands
<1>4. \A h \in Hands : hand'[h] = IF h = f THEN next ELSE hand[h]
  BY <1>1 DEF UploadTypeOK
<1>5. UploadTypeOK'
  BY <1>1, <1>2 DEF UploadTypeOK
<1>6. WholeOrCrossed'
  BY <1>1, <1>2, <1>4 DEF WholeOrCrossed, Hands
<1>7. RemoverMinds' /\ WorkOwed'
  BY <1>2, <1>3, <1>4 DEF RemoverMinds, WorkOwed, Hands
<1> QED
  BY <1>5, <1>6, <1>7

\* The row becomes ready.
LEMMA MarkReadyKeeps ==
  ASSUME UploadInv, NEW f \in Finishers, MarkReady(f)
  PROVE  UploadInv'
<1> USE DEF UploadInv
<1>1. f # Remover /\ f \in Hands /\ Remover \in Hands
  BY UploadAssumption DEF Hands
<1>2. CASE upload = "none"
  <2>1. hand' = [hand EXCEPT ![f] = "idle"] /\ UNCHANGED <<upload, bytes, old, owes, crossed, halted>>
    BY <1>2 DEF MarkReady, Hand
  <2>2. UploadTypeOK'
    BY <2>1 DEF UploadTypeOK
  <2> QED
    BY <1>1, <1>2, <2>1, <2>2 DEF UploadTypeOK, WholeOrCrossed, RemoverMinds, WorkOwed
<1>3. CASE upload # "none"
  <2>1. /\ hand[f] = "mark" /\ hand' = [hand EXCEPT ![f] = "finish"]
        /\ upload' = "ready" /\ crossed' = (crossed \/ Dropping)
        /\ UNCHANGED <<bytes, old, owes, halted>>
    BY <1>3 DEF MarkReady, Hand, ThenFinish
  <2>2. hand'[f] = "finish" /\ hand'[Remover] = hand[Remover]
    BY <1>1, <2>1 DEF UploadTypeOK
  <2>3. bytes \/ crossed
    BY <1>3, <2>1 DEF WholeOrCrossed
  <2>4. UploadTypeOK'
    BY <2>1 DEF UploadTypeOK
  <2>5. WholeOrCrossed'
    BY <2>1, <2>3 DEF WholeOrCrossed
  <2>6. RemoverMinds'
    BY <1>1, <1>3, <2>1, <2>2 DEF RemoverMinds, Dropping
  <2>7. WorkOwed'
    BY <2>2 DEF WorkOwed
  <2> QED
    BY <2>4, <2>5, <2>6, <2>7
<1> QED
  BY <1>2, <1>3

\* The rest of the finish queues the work the row still owes.
LEMMA FinishKeeps ==
  ASSUME UploadInv, NEW f \in Finishers, FinishUpload(f) \/ FinishThrows(f)
  PROVE  UploadInv'
<1> USE DEF UploadInv
<1>1. f # Remover /\ f \in Hands /\ Remover \in Hands
  BY UploadAssumption DEF Hands
<1>2. hand' = [hand EXCEPT ![f] = "idle"] /\ UNCHANGED <<upload, bytes, old, crossed>>
  BY DEF FinishUpload, FinishThrows, Hand
<1>3. (owes' = (upload = "ready") /\ UNCHANGED halted) \/ (UNCHANGED owes /\ halted' = TRUE)
  BY DEF FinishUpload, FinishThrows, Found
<1>4. \A h \in Hands : hand'[h] = IF h = f THEN "idle" ELSE hand[h]
  BY <1>2 DEF UploadTypeOK
<1>5. UploadTypeOK'
  <2>1. owes' \in BOOLEAN /\ halted' \in BOOLEAN /\ (owes' => upload = "ready")
    <3>1. CASE owes' = (upload = "ready") /\ UNCHANGED halted
      <4>1. (upload = "ready") \in BOOLEAN
        OBVIOUS
      <4> QED
        BY <3>1, <4>1 DEF UploadTypeOK
    <3>2. CASE UNCHANGED owes /\ halted' = TRUE
      BY <3>2 DEF UploadTypeOK
    <3> QED
      BY <1>3, <3>1, <3>2
  <2>2. hand' \in [Hands -> {"idle", "stat", "judge", "mark", "finish", "drop", "unrow", "forget", "empty"}]
    BY <1>2 DEF UploadTypeOK
  <2> QED
    BY <1>2, <2>1, <2>2 DEF UploadTypeOK
<1>6. WholeOrCrossed' /\ RemoverMinds'
  <2>1. \A e \in Finishers : hand'[e] \in {"judge", "mark"} => hand[e] \in {"judge", "mark"}
    BY <1>4 DEF Hands
  <2>2. hand'[Remover] = hand[Remover]
    BY <1>1, <1>4
  <2> QED
    BY <1>2, <2>1, <2>2 DEF WholeOrCrossed, RemoverMinds
<1>7. WorkOwed'
  BY <1>2, <1>3 DEF WorkOwed
<1> QED
  BY <1>5, <1>6, <1>7

\* The object first, then the row: a completion under way, or done, is crossed.
LEMMA DropKeeps ==
  ASSUME UploadInv, NEW h \in Hands, DropObject(h) \/ DropRow(h)
  PROVE  UploadInv'
<1> USE DEF UploadInv
<1>1. CASE DropObject(h)
  <2>1. /\ hand[h] = "drop" /\ hand' = [hand EXCEPT ![h] = "unrow"]
        /\ bytes' = FALSE \/ UNCHANGED bytes
        /\ crossed' = (crossed \/ Completing \/ (h \in Finishers /\ upload = "ready"))
        /\ UNCHANGED <<upload, old, owes, halted>>
    BY <1>1 DEF DropObject, Hand
  <2>2. \A i \in Hands : hand'[i] = IF i = h THEN "unrow" ELSE hand[i]
    BY <2>1 DEF UploadTypeOK
  <2>3. UploadTypeOK'
    BY <2>1 DEF UploadTypeOK
  <2>4. (\E f \in Finishers : hand'[f] \in {"judge", "mark"}) => crossed'
    <3>1. (\E f \in Finishers : hand'[f] \in {"judge", "mark"}) => Completing
      BY <2>2 DEF Completing, Hands
    <3> QED
      BY <2>1, <3>1
  <2>5. upload = "ready" => crossed'
    BY <2>1 DEF RemoverMinds, Hands
  <2>6. WholeOrCrossed' /\ RemoverMinds' /\ WorkOwed'
    BY <2>1, <2>2, <2>4, <2>5 DEF WholeOrCrossed, RemoverMinds, WorkOwed, Hands
  <2> QED
    BY <2>3, <2>6
<1>2. CASE DropRow(h)
  <2>1. upload' = "none" /\ owes' = FALSE /\ hand' = [hand EXCEPT ![h] = "idle"] /\ UNCHANGED <<bytes, old, crossed, halted>>
    BY <1>2 DEF DropRow, Unrowed, Hand
  <2>2. UploadTypeOK'
    BY <2>1 DEF UploadTypeOK
  <2> QED
    BY <2>1, <2>2 DEF WholeOrCrossed, RemoverMinds, WorkOwed
<1> QED
  BY <1>1, <1>2

\* The remover goes by what it read, and takes object and row down in that order.
LEMMA RemoverKeeps ==
  ASSUME UploadInv, ReapReads \/ DeleteReads \/ DeleteRow \/ DeleteObject
  PROVE  UploadInv'
<1> USE DEF UploadInv
<1>1. Remover \in Hands /\ Remover \notin Finishers /\ Finishers \subseteq Hands
  BY UploadAssumption DEF Hands
<1>2. PICK next \in {"drop", "forget", "idle", "empty"} :
        /\ hand' = [hand EXCEPT ![Remover] = next]
        /\ next = "drop" => upload = "uploading"
        /\ next = "empty" => upload' = "none"
  BY DEF ReapReads, Abandoned, DeleteReads, DeleteRow, DeleteObject, Hand, Unrowed
<1>3. UNCHANGED <<old, crossed, halted>>
  BY DEF ReapReads, DeleteReads, DeleteRow, DeleteObject
<1>4. \/ UNCHANGED <<upload, bytes, owes>>
      \/ upload' = "none" /\ owes' = FALSE /\ UNCHANGED bytes
      \/ upload = "none" /\ bytes' = FALSE /\ UNCHANGED <<upload, owes>>
  BY DEF ReapReads, DeleteReads, DeleteRow, DeleteObject, Unrowed, RemoverMinds
<1>5. \A h \in Hands : hand'[h] = IF h = Remover THEN next ELSE hand[h]
  BY <1>2 DEF UploadTypeOK
<1>6. UploadTypeOK'
  <2>1. upload' \in {"none", "uploading", "ready"} /\ (owes' => upload' = "ready")
    BY <1>4 DEF UploadTypeOK
  <2>2. bytes' \in BOOLEAN /\ owes' \in BOOLEAN
    BY <1>4 DEF UploadTypeOK
  <2>3. hand' \in [Hands -> {"idle", "stat", "judge", "mark", "finish", "drop", "unrow", "forget", "empty"}]
    BY <1>2 DEF UploadTypeOK
  <2> QED
    BY <1>3, <2>1, <2>2, <2>3 DEF UploadTypeOK
<1>7. WholeOrCrossed' /\ WorkOwed'
  BY <1>1, <1>3, <1>4, <1>5 DEF WholeOrCrossed, WorkOwed
<1>8. RemoverMinds'
  BY <1>1, <1>2, <1>4, <1>5 DEF RemoverMinds
<1> QED
  BY <1>6, <1>7, <1>8

\* A finish that dies halfway owes what it had not queued.
LEMMA HandDiesKeeps ==
  ASSUME UploadInv, NEW h \in Hands, HandDies(h)
  PROVE  UploadInv'
<1> USE DEF UploadInv
<1>1. hand' = [hand EXCEPT ![h] = "idle"] /\ halted' = (halted \/ hand[h] = "finish")
      /\ UNCHANGED <<upload, bytes, old, owes, crossed>>
  BY DEF HandDies, Hand
<1>2. \A i \in Hands : hand'[i] = IF i = h THEN "idle" ELSE hand[i]
  BY <1>1 DEF UploadTypeOK
<1>3. UploadTypeOK'
  BY <1>1 DEF UploadTypeOK
<1>4. WholeOrCrossed' /\ RemoverMinds'
  <2>1. \A i \in Hands : hand'[i] # "idle" => hand'[i] = hand[i]
    BY <1>2
  <2> QED
    BY <1>1, <2>1 DEF WholeOrCrossed, RemoverMinds, Hands
<1>5. WorkOwed'
  <2>1. \A f \in Finishers : hand[f] = "finish" => halted' \/ hand'[f] = "finish"
    BY <1>1, <1>2 DEF Hands
  <2>2. halted => halted'
    BY <1>1
  <2> QED
    BY <1>1, <2>1, <2>2 DEF WorkOwed
<1> QED
  BY <1>3, <1>4, <1>5

\* The invariant of uploads holds in every state.
LEMMA UploadInvHolds == UploadSpec => []UploadInv
<1>1. UploadInit => UploadInv
  BY UploadAssumption DEF UploadInit, UploadInv, UploadTypeOK, WholeOrCrossed, RemoverMinds, WorkOwed, Hands
<1>2. UploadInv /\ [UploadNext]_uploadVars => UploadInv'
  <2> SUFFICES ASSUME UploadInv, [UploadNext]_uploadVars PROVE UploadInv'
    OBVIOUS
  <2>1. CASE UNCHANGED uploadVars
    BY <2>1 DEF uploadVars, UploadInv, UploadTypeOK, WholeOrCrossed, RemoverMinds, WorkOwed
  <2> QED
    BY <2>1, ArrivalKeeps, FinisherKeeps, MarkReadyKeeps, FinishKeeps, DropKeeps, RemoverKeeps, HandDiesKeeps DEF UploadNext
<1> QED
  BY <1>1, <1>2, PTL DEF UploadSpec

-----------------------------------------------------------------------------
(* The upload: what it promises *)

\* A ready file has its bytes, unless it was completed while it was thrown away
\* (completeUpload, abandon), for any number of completions and whatever dies or fails.
THEOREM ReadyIsWhole == UploadSpec => []OnlyCrossedBreaks
<1>1. UploadInv => OnlyCrossedBreaks
  BY DEF UploadInv, WholeOrCrossed, OnlyCrossedBreaks
<1> QED
  BY <1>1, UploadInvHolds, PTL

\* A ready upload that nobody is completing has queued its work, unless a completion of it
\* was cut short (finishUpload).
THEOREM ReadyOwesItsWork == UploadSpec => []OnlyHaltedOwesNothing
<1>1. UploadInv => OnlyHaltedOwesNothing
  BY DEF UploadInv, WorkOwed, OnlyHaltedOwesNothing
<1> QED
  BY <1>1, UploadInvHolds, PTL
=============================================================================
