--------------------------- MODULE ServicesProofs ---------------------------
(***************************************************************************)
(* The services together.  MCServices runs one service of several, and the *)
(* proofs about each are of that service alone.  Here the composition is   *)
(* shown to be a behaviour of every one of its parts, so that all that is  *)
(* proved of a part holds of the composition.                              *)
(***************************************************************************)
EXTENDS MCServices, NoteOutboxProofs, PermitLeasesProofs, BudgetProofs, ResourceProofs,
    ToolConnectorProofs, CleanScheduleProofs

\* The services share no table: a step of the composition is a step of the service that
\* runs, and to every other service it is no step at all.
THEOREM ServicesCompose ==
    MCSpec => /\ OutboxSpec /\ PermitSpec /\ MachineSpec /\ JobsSpec /\ UploadSpec /\ ChatSpec
              /\ TokenSpec /\ ReviewSpec /\ CleanSpec
<1>1. MCInit => /\ OutboxInit /\ PermitInit /\ MachineInit /\ JobsInit /\ UploadInit /\ ChatInit
                /\ TokenInit /\ ReviewInit /\ CleanInit
  BY DEF MCInit
<1>2. [MCNext]_servicesVars =>
          /\ [OutboxNext]_outboxVars /\ [PermitNext]_permitVars /\ [MachineNext]_machineVars
          /\ [JobsNext]_jobVars /\ [UploadNext]_uploadVars /\ [ChatNext]_chatVars
          /\ [TokenNext]_tokenVars /\ [ReviewNext]_reviewVars /\ [CleanNext]_cleanVars
  BY DEF MCNext, servicesVars, OutboxRuns, PermitsRun, MachineRuns, JobsRun, UploadRuns, ChatRuns,
         TokensRun, ReviewsRun, CleansRun
<1>3. MCSpec => OutboxSpec
  BY <1>1, <1>2, PTL DEF MCSpec, OutboxSpec
<1>4. MCSpec => PermitSpec
  BY <1>1, <1>2, PTL DEF MCSpec, PermitSpec
<1>5. MCSpec => MachineSpec
  BY <1>1, <1>2, PTL DEF MCSpec, MachineSpec
<1>6. MCSpec => JobsSpec
  BY <1>1, <1>2, PTL DEF MCSpec, JobsSpec
<1>7. MCSpec => UploadSpec
  BY <1>1, <1>2, PTL DEF MCSpec, UploadSpec
<1>8. MCSpec => ChatSpec
  BY <1>1, <1>2, PTL DEF MCSpec, ChatSpec
<1>9. MCSpec => TokenSpec
  BY <1>1, <1>2, PTL DEF MCSpec, TokenSpec
<1>10. MCSpec => ReviewSpec
  BY <1>1, <1>2, PTL DEF MCSpec, ReviewSpec
<1>11. MCSpec => CleanSpec
  BY <1>1, <1>2, PTL DEF MCSpec, CleanSpec
<1> QED
  BY <1>3, <1>4, <1>5, <1>6, <1>7, <1>8, <1>9, <1>10, <1>11

\* The tables and the requests of every service keep their types, whichever runs.
THEOREM ServicesTyped == MCSpec => []ServicesTypeOK
<1>1. OutboxInv => OutboxTypeOK
  BY DEF OutboxInv
<1>2. MachineInv => MachineTypeOK
  BY DEF MachineInv
<1>3. JobsInv => JobsTypeOK
  BY DEF JobsInv
<1>4. UploadInv => UploadTypeOK
  BY DEF UploadInv
<1>5. ChatInv => ChatTypeOK
  BY DEF ChatInv
<1>6. TokenInv => TokenTypeOK
  BY DEF TokenInv
<1>7. ReviewInv => ReviewTypeOK
  BY DEF ReviewInv
<1> QED
  BY <1>1, <1>2, <1>3, <1>4, <1>5, <1>6, <1>7, ServicesCompose, OutboxInvariant, PermitsTyped,
     MachineInvariant, JobsInvHolds, UploadInvHolds, ChatInvariant, TokenInvariant, ReviewInvariant,
     CleanTyped, PTL
     DEF ServicesTypeOK

\* What each service keeps it keeps in the composition: the cap on permits, the overrun of a
\* space's hours and of an agent's budget, jobs that run once and are not forgotten, and an
\* upload that is whole when it is ready and owes its work.
THEOREM ServicesSafe ==
    MCSpec => [](/\ WithinCap /\ OverrunBounded /\ OvershootBounded /\ OnlyLooseJobsRunTwice
                 /\ NothingAskedIsDropped /\ OnlyCrossedBreaks /\ OnlyHaltedOwesNothing)
  BY ServicesCompose, PermitsWithinCap, OverrunIsSoft, CapBinds, JobsRunOnce, AskedIsRun, ReadyIsWhole,
     ReadyOwesItsWork, PTL

\* What no step of a service may do, no step of the composition does: take a claim from a
\* turn that is on time, shelve a version without its review, end a live connection, bring a
\* switched-off schedule back, pass twice on one hour, stop metering an awake machine, hold
\* more than the cap, or drain one attempt twice.
THEOREM ServicesStepsSafe ==
    MCSpec => /\ ClaimLostToTheLate /\ ListedOnItsReview /\ OnlyTheseEndAConnection
              /\ OnlyOvertakenSavesRevert /\ OnePassPerHour /\ OnlyOvertakenVerdictsUnmeter
              /\ AtMostCapHeld /\ OneDrainPerAttempt
  BY ServicesCompose, ClaimHolds, ShelvedOnReview, PatchesKeepFields, HourHasOnePass, OutageKeepsMetering,
     PermitsAreASemaphore, OneDrainRuns, ConnectionsEndByThese, PTL
=============================================================================
