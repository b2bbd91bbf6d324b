-------------------------- MODULE PermitLeasesProofs --------------------------
(***************************************************************************)
(* The permit table (PermitLeases) never lets in more calls than its cap,  *)
(* and is a semaphore, for any number of callers, instances and slots and  *)
(* whatever faults.                                                        *)
(*                                                                         *)
(* Both rest on one invariant, PermitInv: an expired row that a statement saw   *)
(* on its slot is still expired while it is there, since an id that a row  *)
(* or a statement names is not minted again; so the row that goes in never *)
(* replaces one in force.                                                  *)
(***************************************************************************)
EXTENDS PermitLeases, FiniteSetTheorems, TLAPS

-----------------------------------------------------------------------------
(* The inductive invariant *)

\* A caller that has begun its statement has no row and is nobody's seen row; the row
\* it saw has run out, for as long as it is there.
StatementsSound ==
    \A c \in Callers :
        /\ call[c].pc # "taking" => call[c].seen = None
        /\ call[c].pc = "taking" =>
              /\ \A s \in Slots : lease[s] # c
              /\ \A b \in Callers : call[b].seen # c
              /\ lease[call[c].slot] # None /\ lease[call[c].slot] = call[c].seen => call[c].slot \in lapsed

\* A holder id is on one row at most.
OneRowEach == \A s, t \in Slots : lease[s] # None /\ lease[s] = lease[t] => s = t

PermitInv == PermitTypeOK /\ StatementsSound /\ OneRowEach /\ SlotKept

-----------------------------------------------------------------------------

\* Every proof below knows what the constants are.
USE PermitAssumption

\* A caller at rest has a well-typed record.
LEMMA NoCallType == NoCall \in CallRecord /\ NoCall.pc = "out" /\ NoCall.seen = None
<1>1. 0 \in Slots
  BY SMT DEF Slots
<1> QED
  BY <1>1 DEF NoCall, CallRecord

\* What a gate makes of a call is well typed.
LEMMA GateType ==
    ASSUME NEW c \in Callers, NEW i \in Instances \cup {None}
    PROVE  Gate(c, i) \in CallRecord /\ Gate(c, i).pc \in {"out", "gated"} /\ Gate(c, i).seen = None
<1>1. 0 \in Slots
  BY SMT DEF Slots
<1> QED
  BY <1>1, NoCallType DEF Gate, NoCall, CallRecord

\* A call that only changes its own state, to one that is not at work and names no
\* row, disturbs nothing.
LEMMA Steps ==
    ASSUME PermitInv, UNCHANGED <<lease, lapsed>>, NEW C \in SUBSET Callers,
           call' \in [Callers -> CallRecord],
           \A c \in Callers \ C : call'[c] = call[c],
           \A c \in C : call'[c].pc \in {"out", "gated"} /\ call'[c].seen = None
    PROVE  PermitInv'
<1>1. PermitTypeOK'
  BY DEF PermitInv, PermitTypeOK
<1>2. StatementsSound'
  <2> SUFFICES ASSUME NEW c \in Callers
               PROVE  /\ call'[c].pc # "taking" => call'[c].seen = None
                      /\ call'[c].pc = "taking" =>
                            /\ \A s \in Slots : lease'[s] # c
                            /\ \A b \in Callers : call'[b].seen # c
                            /\ lease'[call'[c].slot] # None /\ lease'[call'[c].slot] = call'[c].seen
                                  => call'[c].slot \in lapsed'
    BY DEF StatementsSound
  <2>1. c # None
    OBVIOUS
  <2> QED
    BY <2>1 DEF PermitInv, StatementsSound
<1>3. OneRowEach'
  BY DEF PermitInv, OneRowEach
<1>4. SlotKept'
  BY DEF PermitInv, SlotKept, OnPermit
<1> QED
  BY <1>1, <1>2, <1>3, <1>4 DEF PermitInv

\* A row goes in where there was none or where the expired one was.
LEMMA RowGoesIn ==
    ASSUME PermitInv, NEW c \in Callers, call[c].pc = "taking", GoesIn(call[c]), Inserted(c, call[c].slot)
    PROVE  /\ call[c].slot \in Slots
           /\ Free(call[c].slot)
           /\ c \notin Held
           /\ Held' = Held \cup {c}
<1>1. call[c].slot \in Slots
  BY DEF PermitInv, PermitTypeOK, CallRecord
<1>2. Free(call[c].slot)
  BY DEF PermitInv, StatementsSound, GoesIn, Free
<1>3. \A s \in Slots : lease[s] # c
  BY DEF PermitInv, StatementsSound
<1>4. c \notin Held
  BY <1>3 DEF Held, Taken
<1>5. Taken' = Taken \cup {call[c].slot}
  BY <1>1, <1>2 DEF Taken, Free, Inserted, PermitInv, PermitTypeOK
<1>6. \A s \in Taken : s # call[c].slot /\ lease'[s] = lease[s]
  BY <1>1, <1>2 DEF Taken, Inserted, PermitInv, PermitTypeOK
<1>7. lease'[call[c].slot] = c
  BY <1>1 DEF Inserted, PermitInv, PermitTypeOK
<1>8. Held' = {lease'[s] : s \in Taken \cup {call[c].slot}}
  BY <1>5 DEF Held
<1>9. Held' = Held \cup {c}
  BY <1>6, <1>7, <1>8 DEF Held
<1> QED
  BY <1>1, <1>2, <1>4, <1>9

\* PermitInv survives that row, whether its answer comes or is lost.
LEMMA InsertKeeps ==
    ASSUME PermitInv, NEW c \in Callers, call[c].pc = "taking", GoesIn(call[c]), Inserted(c, call[c].slot),
           NEW x \in CallRecord, call' = [call EXCEPT ![c] = x], x.seen = None,
           \/ x.pc = "working" /\ x.slot = call[c].slot
           \/ x.pc \in {"out", "gated"}
    PROVE  PermitInv'
<1> DEFINE s == call[c].slot
<1>0. s \in Slots /\ Free(s)
  BY RowGoesIn
<1>t. /\ call \in [Callers -> CallRecord]
      /\ call' \in [Callers -> CallRecord]
      /\ call'[c] = x
      /\ \A b \in Callers \ {c} : call'[b] = call[b]
  BY DEF PermitInv, PermitTypeOK
<1>l. /\ lease' \in [Slots -> Callers \cup {None}]
      /\ lease'[s] = c
      /\ \A t \in Slots \ {s} : lease'[t] = lease[t]
      /\ \A t \in Slots : lease[t] # c
  BY <1>0 DEF PermitInv, PermitTypeOK, StatementsSound, Inserted
<1>p. lapsed' = lapsed \ {s}
  BY DEF Inserted
<1>1. PermitTypeOK'
  BY <1>0, <1>t, <1>l, <1>p DEF PermitInv, PermitTypeOK
<1>2. StatementsSound'
  <2> SUFFICES ASSUME NEW b \in Callers
               PROVE  /\ call'[b].pc # "taking" => call'[b].seen = None
                      /\ call'[b].pc = "taking" =>
                            /\ \A t \in Slots : lease'[t] # b
                            /\ \A d \in Callers : call'[d].seen # b
                            /\ lease'[call'[b].slot] # None /\ lease'[call'[b].slot] = call'[b].seen
                                  => call'[b].slot \in lapsed'
    BY DEF StatementsSound
  <2>1. CASE b = c
    BY <2>1, <1>t
  <2>2. CASE b # c
    <3>1. call'[b] = call[b] /\ call[b].slot \in Slots
      BY <2>2, <1>t DEF CallRecord
    <3>2. call[b].pc # "taking" => call[b].seen = None
      BY DEF PermitInv, StatementsSound
    <3> SUFFICES ASSUME call[b].pc = "taking"
                 PROVE  /\ \A t \in Slots : lease'[t] # b
                        /\ \A d \in Callers : call'[d].seen # b
                        /\ lease'[call[b].slot] # None /\ lease'[call[b].slot] = call[b].seen
                              => call[b].slot \in lapsed'
      BY <3>1, <3>2
    <3>3. \A t \in Slots : lease'[t] # b
      BY <2>2, <1>l DEF PermitInv, StatementsSound
    <3>4. \A d \in Callers : call'[d].seen # b
      BY <1>t DEF PermitInv, StatementsSound
    <3>5. call[b].seen # c
      BY DEF PermitInv, StatementsSound
    <3>6. lease'[call[b].slot] # None /\ lease'[call[b].slot] = call[b].seen => call[b].slot \in lapsed'
      BY <3>1, <3>5, <1>l, <1>p DEF PermitInv, StatementsSound
    <3> QED
      BY <3>3, <3>4, <3>6
  <2> QED
    BY <2>1, <2>2
<1>3. OneRowEach'
  BY <1>l DEF PermitInv, OneRowEach
<1>4. SlotKept'
  <2> SUFFICES ASSUME NEW b \in Callers, call'[b].pc = "working", ~call'[b].late
               PROVE  lease'[call'[b].slot] = b /\ call'[b].slot \notin lapsed'
    BY DEF SlotKept, OnPermit
  <2>1. CASE b = c
    BY <2>1, <1>t, <1>l, <1>p
  <2>2. CASE b # c
    <3>1. call'[b] = call[b] /\ call[b].slot \in Slots
      BY <2>2, <1>t DEF CallRecord
    <3>2. lease[call[b].slot] = b /\ call[b].slot \notin lapsed
      BY <3>1 DEF PermitInv, SlotKept, OnPermit
    <3>3. call[b].slot # s
      BY <3>2, <1>0 DEF Free
    <3> QED
      BY <3>1, <3>2, <3>3, <1>l, <1>p
  <2> QED
    BY <2>1, <2>2
<1> QED
  BY <1>1, <1>2, <1>3, <1>4 DEF PermitInv

\* So does a deletion of rows that no call at work on time holds.
LEMMA DeleteKeeps ==
    ASSUME PermitInv, NEW S \in SUBSET Slots, Deleted(S), call' \in [Callers -> CallRecord],
           \A c \in Callers : call'[c] = call[c] \/ (call'[c].pc = "out" /\ call'[c].seen = None),
           \A c \in Callers : call'[c].pc = "working" /\ ~call'[c].late => call'[c].slot \notin S
    PROVE  PermitInv'
<1>1. PermitTypeOK'
  BY DEF PermitInv, PermitTypeOK, Deleted
<1>2. StatementsSound'
  <2> SUFFICES ASSUME NEW c \in Callers
               PROVE  /\ call'[c].pc # "taking" => call'[c].seen = None
                      /\ call'[c].pc = "taking" =>
                            /\ \A s \in Slots : lease'[s] # c
                            /\ \A b \in Callers : call'[b].seen # c
                            /\ lease'[call'[c].slot] # None /\ lease'[call'[c].slot] = call'[c].seen
                                  => call'[c].slot \in lapsed'
    BY DEF StatementsSound
  <2>1. \A s \in Slots : lease'[s] = IF s \in S THEN None ELSE lease[s]
    BY DEF Deleted
  <2>2. call[c].slot \in Slots /\ c # None
    BY DEF PermitInv, PermitTypeOK, CallRecord
  <2>3. call'[c].pc # "taking" => call'[c].seen = None
    BY DEF PermitInv, StatementsSound
  <2> SUFFICES ASSUME call'[c].pc = "taking"
               PROVE  /\ \A s \in Slots : lease'[s] # c
                      /\ \A b \in Callers : call'[b].seen # c
                      /\ lease'[call'[c].slot] # None /\ lease'[call'[c].slot] = call'[c].seen
                            => call'[c].slot \in lapsed'
    BY <2>3
  <2>4. call'[c] = call[c]
    OBVIOUS
  <2>5. \A s \in Slots : lease'[s] # c
    BY <2>1, <2>2, <2>4 DEF PermitInv, StatementsSound
  <2>6. \A b \in Callers : call'[b].seen # c
    BY <2>2, <2>4 DEF PermitInv, StatementsSound
  <2>7. lease'[call[c].slot] # None /\ lease'[call[c].slot] = call[c].seen => call[c].slot \in lapsed'
    BY <2>1, <2>2, <2>4 DEF PermitInv, StatementsSound, Deleted
  <2> QED
    BY <2>4, <2>5, <2>6, <2>7
<1>3. OneRowEach'
  BY DEF PermitInv, OneRowEach, Deleted
<1>4. SlotKept'
  <2> SUFFICES ASSUME NEW c \in Callers, call'[c].pc = "working", ~call'[c].late
               PROVE  lease'[call'[c].slot] = c /\ call'[c].slot \notin lapsed'
    BY DEF SlotKept, OnPermit
  <2>1. call'[c] = call[c] /\ call[c].slot \in Slots /\ call[c].slot \notin S
    BY DEF PermitInv, PermitTypeOK, CallRecord
  <2>2. lease[call[c].slot] = c /\ call[c].slot \notin lapsed
    BY <2>1 DEF PermitInv, SlotKept, OnPermit
  <2> QED
    BY <2>1, <2>2 DEF Deleted
<1> QED
  BY <1>1, <1>2, <1>3, <1>4 DEF PermitInv

-----------------------------------------------------------------------------
(* Init and the steps *)

\* Before the first call no slot is leased.
LEMMA PermitInvInit == PermitInit => PermitInv
<1> SUFFICES ASSUME PermitInit
             PROVE  PermitInv
  OBVIOUS
<1>1. PermitTypeOK
  BY NoCallType DEF PermitInit, PermitTypeOK
<1>2. StatementsSound
  BY NoCallType DEF PermitInit, StatementsSound
<1>3. OneRowEach
  BY DEF PermitInit, OneRowEach
<1>4. SlotKept
  BY NoCallType DEF PermitInit, SlotKept, OnPermit
<1> QED
  BY <1>1, <1>2, <1>3, <1>4 DEF PermitInv

\* The read of the table only moves the call that reads.
LEMMA LookUpKeeps ==
    ASSUME PermitInv, NEW c \in Callers, NEW i \in Instances, LookUp(c, i)
    PROVE  PermitInv'
<1>0. PICK s \in Slots :
          /\ Free(s)
          /\ call' = [call EXCEPT ![c] = [pc |-> "taking", at |-> i, slot |-> s, seen |-> lease[s], late |-> FALSE]]
  BY DEF LookUp
<1>u. UNCHANGED <<lease, lapsed>>
  BY DEF LookUp
<1>f. /\ call[c].pc = "out"
      /\ \A t \in Slots : lease[t] # c
      /\ \A b \in Callers : call[b].seen # c
  BY DEF LookUp, Fresh
<1>t. /\ call \in [Callers -> CallRecord]
      /\ lease[s] \in Callers \cup {None}
      /\ call'[c] = [pc |-> "taking", at |-> i, slot |-> s, seen |-> lease[s], late |-> FALSE]
      /\ \A b \in Callers \ {c} : call'[b] = call[b]
  BY <1>0 DEF PermitInv, PermitTypeOK
<1>1. PermitTypeOK'
  BY <1>0, <1>u, <1>t DEF PermitInv, PermitTypeOK, CallRecord
<1>2. StatementsSound'
  <2> SUFFICES ASSUME NEW b \in Callers
               PROVE  /\ call'[b].pc # "taking" => call'[b].seen = None
                      /\ call'[b].pc = "taking" =>
                            /\ \A t \in Slots : lease'[t] # b
                            /\ \A d \in Callers : call'[d].seen # b
                            /\ lease'[call'[b].slot] # None /\ lease'[call'[b].slot] = call'[b].seen
                                  => call'[b].slot \in lapsed'
    BY DEF StatementsSound
  <2>1. CASE b = c
    <3>1. \A d \in Callers : call'[d].seen # c
      BY <1>t, <1>f
    <3>2. lease[s] # None => s \in lapsed
      BY <1>0 DEF Free
    <3> QED
      BY <2>1, <1>t, <1>f, <1>u, <3>1, <3>2
  <2>2. CASE b # c
    <3>1. call'[b] = call[b]
      BY <2>2, <1>t
    <3>2. call[b].pc # "taking" => call[b].seen = None
      BY DEF PermitInv, StatementsSound
    <3> SUFFICES ASSUME call[b].pc = "taking"
                 PROVE  /\ \A t \in Slots : lease[t] # b
                        /\ \A d \in Callers : call'[d].seen # b
                        /\ lease[call[b].slot] # None /\ lease[call[b].slot] = call[b].seen
                              => call[b].slot \in lapsed
      BY <3>1, <3>2, <1>u
    <3>3. \A t \in Slots : lease[t] # b
      BY DEF PermitInv, StatementsSound
    <3>4. \A d \in Callers : call'[d].seen # b
      BY <3>3, <1>t, <1>0 DEF PermitInv, StatementsSound
    <3> QED
      BY <3>3, <3>4 DEF PermitInv, StatementsSound
  <2> QED
    BY <2>1, <2>2
<1>3. OneRowEach'
  BY <1>u DEF PermitInv, OneRowEach
<1>4. SlotKept'
  BY <1>t, <1>u DEF PermitInv, SlotKept, OnPermit
<1> QED
  BY <1>1, <1>2, <1>3, <1>4 DEF PermitInv

\* A row runs out, and the call at work on it is late from now on.
LEMMA LapseKeeps ==
    ASSUME PermitInv, NEW s \in Slots, Lapse(s)
    PROVE  PermitInv'
<1> DEFINE c == lease[s]
<1>0. c \in Callers
  BY DEF PermitInv, PermitTypeOK, Lapse
<1>l. lapsed' = lapsed \cup {s} /\ lease' = lease
  BY DEF Lapse
<1>t. /\ call \in [Callers -> CallRecord]
      /\ call' = [call EXCEPT ![c].late = call[c].pc = "working"]
  BY DEF PermitInv, PermitTypeOK, Lapse
<1>c. call'[c] = [call[c] EXCEPT !.late = call[c].pc = "working"]
  BY <1>0, <1>t
<1>b. \A b \in Callers \ {c} : call'[b] = call[b]
  BY <1>0, <1>t
<1>r. call[c] \in CallRecord
  BY <1>0, <1>t
<1>k. /\ call'[c].pc = call[c].pc
      /\ call'[c].seen = call[c].seen
      /\ call'[c].slot = call[c].slot
      /\ call[c].pc = "working" => call'[c].late
      /\ call'[c] \in CallRecord
  <2>1. (call[c].pc = "working") \in BOOLEAN
    OBVIOUS
  <2> QED
    BY <1>c, <1>r, <2>1 DEF CallRecord
<1>m. \A b \in Callers : call'[b].pc = call[b].pc /\ call'[b].seen = call[b].seen /\ call'[b].slot = call[b].slot
  BY <1>b, <1>k
<1>n. call' \in [Callers -> CallRecord]
  BY <1>t, <1>0, <1>c, <1>k
<1>1. PermitTypeOK'
  BY <1>n, <1>l DEF PermitInv, PermitTypeOK, Lapse
<1>2. StatementsSound'
  BY <1>m, <1>l DEF PermitInv, StatementsSound
<1>3. OneRowEach'
  BY <1>l DEF PermitInv, OneRowEach
<1>4. SlotKept'
  <2> SUFFICES ASSUME NEW b \in Callers, call'[b].pc = "working", ~call'[b].late
               PROVE  lease'[call'[b].slot] = b /\ call'[b].slot \notin lapsed'
    BY DEF SlotKept, OnPermit
  <2>1. b # c
    BY <1>k
  <2>2. call'[b] = call[b]
    BY <2>1, <1>b
  <2>3. lease[call[b].slot] = b /\ call[b].slot \notin lapsed
    BY <2>2 DEF PermitInv, SlotKept, OnPermit
  <2> QED
    BY <2>1, <2>2, <2>3, <1>l
<1> QED
  BY <1>1, <1>2, <1>3, <1>4 DEF PermitInv

\* The rows a call has taken are slots.
LEMMA OwnRowInSlots == ASSUME PermitInv, NEW c \in Callers PROVE OwnRow(c) \in SUBSET Slots
  BY DEF PermitInv, PermitTypeOK, CallRecord, OwnRow

\* A release takes its own row or none: another's call at work on time keeps its row.
LEMMA ReleaseKeeps == ASSUME PermitInv, NEW c \in Callers, Release(c) PROVE PermitInv'
<1>t. /\ call \in [Callers -> CallRecord]
      /\ call' = [call EXCEPT ![c] = NoCall]
  BY DEF PermitInv, PermitTypeOK, Release
<1>1. call' \in [Callers -> CallRecord]
  BY <1>t, NoCallType
<1>2. \A b \in Callers : call'[b] = call[b] \/ (call'[b].pc = "out" /\ call'[b].seen = None)
  BY <1>t, NoCallType
<1>3. ASSUME NEW b \in Callers, call'[b].pc = "working", ~call'[b].late
      PROVE  call'[b].slot \notin OwnRow(c)
  <2>1. b # c /\ call'[b] = call[b]
    BY <1>t, <1>3, NoCallType
  <2>2. lease[call[b].slot] = b
    BY <2>1, <1>3 DEF PermitInv, SlotKept, OnPermit
  <2> QED
    BY <2>1, <2>2 DEF OwnRow
<1>4. Deleted(OwnRow(c))
  BY DEF Release
<1> QED
  BY <1>1, <1>2, <1>3, <1>4, OwnRowInSlots, DeleteKeeps

\* The delete of expired rows takes nobody's live one.
LEMMA PruneKeeps == ASSUME PermitInv, Prune PROVE PermitInv'
<1>1. lapsed \in SUBSET Slots /\ call \in [Callers -> CallRecord] /\ call' = call
  BY DEF PermitInv, PermitTypeOK, Prune
<1>2. \A c \in Callers : call'[c].pc = "working" /\ ~call'[c].late => call'[c].slot \notin lapsed
  BY <1>1 DEF PermitInv, SlotKept, OnPermit
<1>3. Deleted(lapsed)
  BY DEF Prune
<1> QED
  BY <1>1, <1>2, <1>3, DeleteKeeps

\* The steps that leave the table alone.
LEMMA OneStepsAside ==
    ASSUME PermitInv, UNCHANGED <<lease, lapsed>>, NEW c \in Callers, NEW x \in CallRecord,
           x.pc \in {"out", "gated"}, x.seen = None, call' = [call EXCEPT ![c] = x]
    PROVE  PermitInv'
<1>1. call \in [Callers -> CallRecord]
  BY DEF PermitInv, PermitTypeOK
<1>2. /\ call' \in [Callers -> CallRecord]
      /\ call'[c] = x
      /\ \A b \in Callers \ {c} : call'[b] = call[b]
  BY <1>1
<1> QED
  BY <1>2, Steps, {c} \in SUBSET Callers

\* A call that dies leaves its row to expire.
LEMMA DeathKeeps == ASSUME PermitInv, NEW i \in Instances, InstanceDies(i) PROVE PermitInv'
<1> DEFINE C == {c \in Callers : call[c].at = i}
<1>1. call \in [Callers -> CallRecord]
  BY DEF PermitInv, PermitTypeOK
<1>2. call' = [c \in Callers |-> IF call[c].at = i THEN NoCall ELSE call[c]] /\ UNCHANGED <<lease, lapsed>>
  BY DEF InstanceDies
<1>3. call' \in [Callers -> CallRecord]
  BY <1>1, <1>2, NoCallType
<1>4. \A c \in Callers \ C : call'[c] = call[c]
  BY <1>2
<1>5. \A c \in C : call'[c].pc \in {"out", "gated"} /\ call'[c].seen = None
  BY <1>2, NoCallType
<1>6. C \in SUBSET Callers
  OBVIOUS
<1> QED
  BY <1>2, <1>3, <1>4, <1>5, <1>6, Steps

\* Every step keeps the invariant.
LEMMA PermitStepKeeps == PermitInv /\ [PermitNext]_permitVars => PermitInv'
<1> SUFFICES ASSUME PermitInv, [PermitNext]_permitVars
             PROVE  PermitInv'
  OBVIOUS
<1>0. call \in [Callers -> CallRecord]
  BY DEF PermitInv, PermitTypeOK
<1>1. ASSUME NEW c \in Callers, NEW i \in Instances, LookUp(c, i) PROVE PermitInv'
  BY <1>1, LookUpKeeps
<1>2. ASSUME NEW c \in Callers, NEW i \in Instances, StoreDown(c, i) PROVE PermitInv'
  BY <1>2, GateType, OneStepsAside DEF StoreDown
<1>3. ASSUME NEW c \in Callers, Insert(c) PROVE PermitInv'
  <2> DEFINE x == [call[c] EXCEPT !.pc = "working", !.seen = None]
  <2>1. call[c] \in CallRecord
    BY <1>0
  <2>2. x \in CallRecord /\ x.pc = "working" /\ x.seen = None /\ x.slot = call[c].slot
    BY <2>1 DEF CallRecord
  <2>3. call' = [call EXCEPT ![c] = x]
    BY <1>3, <1>0 DEF Insert
  <2>4. call[c].pc = "taking" /\ GoesIn(call[c]) /\ Inserted(c, call[c].slot)
    BY <1>3 DEF Insert
  <2> HIDE DEF x
  <2> QED
    BY <2>2, <2>3, <2>4, InsertKeeps
<1>4. ASSUME NEW c \in Callers, AnswerLost(c) PROVE PermitInv'
  <2> DEFINE x == Gate(c, call[c].at)
  <2>1. call[c].at \in Instances \cup {None}
    BY <1>0 DEF CallRecord
  <2>2. x \in CallRecord /\ x.pc \in {"out", "gated"} /\ x.seen = None
    BY <2>1, GateType
  <2>3. call' = [call EXCEPT ![c] = x]
    BY <1>4 DEF AnswerLost
  <2>4. call[c].pc = "taking" /\ GoesIn(call[c]) /\ Inserted(c, call[c].slot)
    BY <1>4 DEF AnswerLost
  <2> HIDE DEF x
  <2> QED
    BY <2>2, <2>3, <2>4, InsertKeeps
<1>5. ASSUME NEW c \in Callers, Refuse(c) \/ ReleaseFails(c) \/ LeaveGate(c) PROVE PermitInv'
  BY <1>5, NoCallType, OneStepsAside DEF Refuse, ReleaseFails, LeaveGate
<1>6. ASSUME NEW c \in Callers, Release(c) PROVE PermitInv'
  BY <1>6, ReleaseKeeps
<1>7. ASSUME NEW i \in Instances, InstanceDies(i) PROVE PermitInv'
  BY <1>7, DeathKeeps
<1>8. ASSUME NEW s \in Slots, Lapse(s) PROVE PermitInv'
  BY <1>8, LapseKeeps
<1>9. CASE Prune
  BY <1>9, PruneKeeps
<1>10. CASE UNCHANGED permitVars
  BY <1>10, OneStepsAside DEF permitVars, PermitInv, PermitTypeOK, StatementsSound, OneRowEach, SlotKept, OnPermit
<1> QED
  BY <1>1, <1>2, <1>3, <1>4, <1>5, <1>6, <1>7, <1>8, <1>9, <1>10 DEF PermitNext

\* The columns of the permit table and the calls have their types.
THEOREM PermitsTyped == PermitSpec => []PermitTypeOK
<1>1. PermitInv => PermitTypeOK
  BY DEF PermitInv
<1> QED
  BY <1>1, PermitInvInit, PermitStepKeeps, PTL DEF PermitSpec

\* A call at work on time has its row (leases.ts release, acquireLease).
THEOREM CallsKeepTheirSlot == PermitSpec => []SlotKept
<1>1. PermitInv => SlotKept
  BY DEF PermitInv
<1> QED
  BY <1>1, PermitInvInit, PermitStepKeeps, PTL DEF PermitSpec

-----------------------------------------------------------------------------
(* At most Cap *)

\* There are finitely many slots, as many as the cap.
LEMMA SlotsFinite == IsFiniteSet(Slots) /\ Cardinality(Slots) = Cap
<1>1. Cap \in Nat /\ Cap > 0
  BY SMT
<1>2. IsFiniteSet(0..Cap - 1) /\ Cardinality(0..Cap - 1) = Cap
  BY <1>1, FS_Interval, SMT
<1> QED
  BY <1>2 DEF Slots

\* A call's slot is its own, so there are no more calls on time than slots.
LEMMA NoMoreThanSlots == PermitInv => WithinCap
<1> SUFFICES ASSUME PermitInv
             PROVE  Cardinality(OnPermit) <= Cap
  BY DEF WithinCap
<1> DEFINE f == [c \in OnPermit |-> call[c].slot]
<1>1. f \in [OnPermit -> Slots]
  BY DEF PermitInv, PermitTypeOK, CallRecord, OnPermit
<1>2. \A b, c \in OnPermit : f[b] = f[c] => b = c
  BY DEF PermitInv, SlotKept
<1>3. f \in Injection(OnPermit, Slots)
  BY <1>1, <1>2 DEF Injection, IsInjective
<1> QED
  BY <1>3, SlotsFinite, FS_Injection

\* "At most N of these at once" (leases.ts).
THEOREM PermitsWithinCap == PermitSpec => []WithinCap
  BY PermitInvInit, PermitStepKeeps, NoMoreThanSlots, PTL DEF PermitSpec

-----------------------------------------------------------------------------
(* The table implements a semaphore *)

\* A slot that is free is one holder fewer than there are slots.
LEMMA RoomLeft ==
    ASSUME PermitInv, NEW s \in Slots, Free(s)
    PROVE  Cardinality(Held) < Cap
<1>1. Taken \in SUBSET (Slots \ {s})
  BY DEF Taken
<1>2. IsFiniteSet(Slots \ {s}) /\ Cardinality(Slots \ {s}) = Cap - 1
  BY SlotsFinite, FS_RemoveElement
<1>3. IsFiniteSet(Taken) /\ Cardinality(Taken) <= Cap - 1
  BY <1>1, <1>2, FS_Subset
<1> DEFINE f == [t \in Taken |-> lease[t]]
<1>4. f \in Surjection(Taken, Held)
  BY DEF Held, Surjection
<1>5. IsFiniteSet(Held) /\ Cardinality(Held) <= Cardinality(Taken)
  BY <1>3, <1>4, FS_Surjection
<1>6. Cardinality(Held) \in Nat /\ Cardinality(Taken) \in Nat
  BY <1>3, <1>5, FS_CardinalityType
<1> QED
  BY <1>3, <1>5, <1>6, SMT

\* The instance's cardinality is the one we know.
LEMMA SameCardinality == \A S : TheCap!Cardinality(S) = Cardinality(S)
  BY Zenon DEF TheCap!Cardinality, Cardinality

\* The conditional insert takes a permit.
LEMMA InsertTakes ==
    ASSUME PermitInv, NEW c \in Callers, call[c].pc = "taking", GoesIn(call[c]), Inserted(c, call[c].slot)
    PROVE  TheCap!Take(c)
<1>1. call[c].slot \in Slots /\ Free(call[c].slot) /\ c \notin Held /\ Held' = Held \cup {c}
  BY RowGoesIn
<1>2. Cardinality(Held) < Cap
  BY <1>1, RoomLeft
<1> QED
  BY <1>1, <1>2, SameCardinality DEF TheCap!Take

\* Rows that are in force and go, by release or by running out, give back their permit.
LEMMA GoneRowGives ==
    ASSUME PermitInv, NEW s \in Slots, s \in Taken, Taken' = Taken \ {s},
           \A t \in Taken \ {s} : lease'[t] = lease[t]
    PROVE  TheCap!Give(lease[s])
<1>1. lease[s] \in Held /\ lease[s] # None
  BY DEF Held, Taken, Free
<1>2. Held' = {lease[t] : t \in Taken \ {s}}
  BY DEF Held
<1>3. \A t \in Taken \ {s} : lease[t] # lease[s]
  BY <1>1 DEF Taken, PermitInv, OneRowEach
<1>4. Held' = Held \ {lease[s]}
  BY <1>2, <1>3 DEF Held
<1> QED
  BY <1>1, <1>4 DEF TheCap!Give

\* A lease that runs out frees its slot.
LEMMA LapseGives == ASSUME PermitInv, NEW s \in Slots, Lapse(s) PROVE TheCap!Give(lease[s])
<1>1. s \in Taken /\ Taken' = Taken \ {s} /\ lease' = lease
  BY DEF Lapse, Taken, Free
<1> QED
  BY <1>1, GoneRowGives

\* Deleting rows that have run out gives nothing back.
LEMMA DeletedLapsed ==
    ASSUME PermitInv, NEW S \in SUBSET lapsed, Deleted(S)
    PROVE  Held' = Held
<1>1. lapsed \in SUBSET Slots
  BY DEF PermitInv, PermitTypeOK
<1>2. \A s \in Slots : lease'[s] = IF s \in S THEN None ELSE lease[s]
  BY DEF Deleted
<1>3. Taken' = Taken
  BY <1>1, <1>2 DEF Taken, Free, Deleted
<1>4. \A s \in Taken : lease'[s] = lease[s]
  BY <1>2 DEF Taken, Free
<1> QED
  BY <1>3, <1>4 DEF Held

\* So does one that is released.
LEMMA ReleaseGives ==
    ASSUME PermitInv, NEW c \in Callers, Release(c)
    PROVE  TheCap!Give(c) \/ Held' = Held
<1> DEFINE s == call[c].slot
<1>1. s \in Slots
  BY DEF PermitInv, PermitTypeOK, CallRecord
<1>2. Deleted(OwnRow(c))
  BY DEF Release
<1>3. CASE lease[s] # c
  <2>1. OwnRow(c) = {}
    BY <1>3 DEF OwnRow
  <2> QED
    BY <2>1, <1>2, DeletedLapsed
<1>4. CASE lease[s] = c /\ s \in lapsed
  <2>1. OwnRow(c) = {s}
    BY <1>4 DEF OwnRow
  <2>2. OwnRow(c) \in SUBSET lapsed
    BY <2>1, <1>4
  <2> QED
    BY <2>2, <1>2, DeletedLapsed
<1>5. CASE lease[s] = c /\ s \notin lapsed
  <2>1. OwnRow(c) = {s}
    BY <1>5 DEF OwnRow
  <2>2. \A t \in Slots : lease'[t] = IF t = s THEN None ELSE lease[t]
    BY <2>1, <1>2 DEF Deleted
  <2>3. lapsed' = lapsed \ {s}
    BY <2>1, <1>2 DEF Deleted
  <2>4. s \in Taken
    BY <1>1, <1>5 DEF Taken, Free
  <2>5. Taken' = Taken \ {s}
    BY <1>1, <2>2, <2>3 DEF Taken, Free
  <2>6. \A t \in Taken \ {s} : lease'[t] = lease[t]
    BY <2>2 DEF Taken
  <2> QED
    BY <1>1, <1>5, <2>4, <2>5, <2>6, GoneRowGives
<1> QED
  BY <1>3, <1>4, <1>5

\* The abstract semaphore starts free.
LEMMA InitHeld == PermitInit => TheCap!SemaphoreInit
<1> SUFFICES ASSUME PermitInit
             PROVE  Held = {}
  BY DEF TheCap!SemaphoreInit
<1> QED
  BY DEF PermitInit, Held, Taken, Free

\* Every step takes a permit, gives one back or stutters, as the semaphore's step does.
LEMMA StepHeld == PermitInv /\ [PermitNext]_permitVars => [TheCap!SemaphoreNext]_Held
<1> SUFFICES ASSUME PermitInv, [PermitNext]_permitVars
             PROVE  TheCap!SemaphoreNext \/ Held' = Held
  OBVIOUS
<1>0. ASSUME UNCHANGED <<lease, lapsed>> PROVE Held' = Held
  BY <1>0 DEF Held, Taken, Free
<1>1. ASSUME NEW c \in Callers, Insert(c) \/ AnswerLost(c) PROVE TheCap!SemaphoreNext
  BY <1>1, InsertTakes DEF Insert, AnswerLost, TheCap!SemaphoreNext
<1>2. ASSUME NEW c \in Callers, Release(c) PROVE TheCap!SemaphoreNext \/ Held' = Held
  BY <1>2, ReleaseGives DEF TheCap!SemaphoreNext
<1>3. ASSUME NEW s \in Slots, Lapse(s) PROVE TheCap!SemaphoreNext
  <2>1. lease[s] \in Callers
    BY <1>3 DEF PermitInv, PermitTypeOK, Lapse
  <2> QED
    BY <1>3, <2>1, LapseGives DEF TheCap!SemaphoreNext
<1>4. CASE Prune
  BY <1>4, DeletedLapsed DEF Prune
<1>5. ASSUME NEW c \in Callers, NEW i \in Instances, LookUp(c, i) \/ StoreDown(c, i) PROVE Held' = Held
  BY <1>5, <1>0 DEF LookUp, StoreDown
<1>6. ASSUME NEW c \in Callers, Refuse(c) \/ ReleaseFails(c) \/ LeaveGate(c) PROVE Held' = Held
  BY <1>6, <1>0 DEF Refuse, ReleaseFails, LeaveGate
<1>7. ASSUME NEW i \in Instances, InstanceDies(i) PROVE Held' = Held
  BY <1>7, <1>0 DEF InstanceDies
<1>8. CASE UNCHANGED permitVars
  BY <1>8, <1>0 DEF permitVars
<1> QED
  BY <1>1, <1>2, <1>3, <1>4, <1>5, <1>6, <1>7, <1>8 DEF PermitNext

\* The table implements a counting semaphore (Semaphore).
THEOREM PermitsAreASemaphore == PermitSpec => AtMostCapHeld
  BY PermitInvInit, PermitStepKeeps, InitHeld, StepHeld, PTL DEF PermitSpec, AtMostCapHeld, TheCap!SemaphoreSpec
=============================================================================
