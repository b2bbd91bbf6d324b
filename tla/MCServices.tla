----------------------------- MODULE MCServices -----------------------------
(***************************************************************************)
(* The services around the agents and the notes, for TLC.  They share no   *)
(* table, so a behaviour is of one of them: `at` says which.               *)
(***************************************************************************)
EXTENDS NoteOutbox, PermitLeases, MachineLease, ResourceJobs, Uploads, AgentChat,
    ConnectorTokens, ToolReviews, CleanSchedule

VARIABLE at

servicesVars == <<at, outboxVars, permitVars, machineVars, jobVars, uploadVars, chatVars, tokenVars, reviewVars, cleanVars>>

Services == {"outbox", "permits", "machine", "jobs", "upload", "chat", "tokens", "reviews", "clean"}

\* A service that does not run has one initial state.
MCInit ==
    /\ at \in Services
    /\ OutboxInit /\ PermitInit /\ MachineInit /\ JobsInit /\ UploadInit /\ ChatInit
    /\ TokenInit /\ ReviewInit /\ CleanInit
    /\ at # "outbox" => \A p \in Paths : note[p] = 0
    /\ at # "tokens" => ~rotates
    /\ at # "machine" => hours = CHOOSE n \in Allowances : TRUE

OutboxRuns ==
    /\ at = "outbox" /\ OutboxNext
    /\ UNCHANGED <<at, permitVars, machineVars, jobVars, uploadVars, chatVars, tokenVars, reviewVars, cleanVars>>

PermitsRun ==
    /\ at = "permits" /\ PermitNext
    /\ UNCHANGED <<at, outboxVars, machineVars, jobVars, uploadVars, chatVars, tokenVars, reviewVars, cleanVars>>

MachineRuns ==
    /\ at = "machine" /\ MachineNext
    /\ UNCHANGED <<at, outboxVars, permitVars, jobVars, uploadVars, chatVars, tokenVars, reviewVars, cleanVars>>

JobsRun ==
    /\ at = "jobs" /\ JobsNext
    /\ UNCHANGED <<at, outboxVars, permitVars, machineVars, uploadVars, chatVars, tokenVars, reviewVars, cleanVars>>

UploadRuns ==
    /\ at = "upload" /\ UploadNext
    /\ UNCHANGED <<at, outboxVars, permitVars, machineVars, jobVars, chatVars, tokenVars, reviewVars, cleanVars>>

ChatRuns ==
    /\ at = "chat" /\ ChatNext
    /\ UNCHANGED <<at, outboxVars, permitVars, machineVars, jobVars, uploadVars, tokenVars, reviewVars, cleanVars>>

TokensRun ==
    /\ at = "tokens" /\ TokenNext
    /\ UNCHANGED <<at, outboxVars, permitVars, machineVars, jobVars, uploadVars, chatVars, reviewVars, cleanVars>>

ReviewsRun ==
    /\ at = "reviews" /\ ReviewNext
    /\ UNCHANGED <<at, outboxVars, permitVars, machineVars, jobVars, uploadVars, chatVars, tokenVars, cleanVars>>

CleansRun ==
    /\ at = "clean" /\ CleanNext
    /\ UNCHANGED <<at, outboxVars, permitVars, machineVars, jobVars, uploadVars, chatVars, tokenVars, reviewVars>>

MCNext ==
    \/ OutboxRuns \/ PermitsRun \/ MachineRuns \/ JobsRun \/ UploadRuns \/ ChatRuns
    \/ TokensRun \/ ReviewsRun \/ CleansRun

\* The fairness of each module, for the service that runs.
MCFairness ==
    /\ \A q \in Requests : WF_outboxVars(at = "outbox" /\ RequestStep(q))
    /\ \A d \in Drains : WF_outboxVars(at = "outbox" /\ DrainStep(d))
    /\ \A j \in Jobs : WF_outboxVars(at = "outbox" /\ BackoffEnds(j))
    /\ \A t \in Tickers :
          WF_machineVars(at = "machine" /\ TickStep(t)) /\ SF_machineVars(at = "machine" /\ AskStatus(t))
    /\ \A d \in Drainers : WF_jobVars(at = "jobs" /\ DrainerStep(d))
    /\ \A k \in JobKinds : WF_jobVars(at = "jobs" /\ BackoffOver(k)) /\ WF_jobVars(at = "jobs" /\ LeaseLapses(k))
    /\ \A u \in Messages : WF_chatVars(at = "chat" /\ TurnStep(u))
    /\ \A h \in Threads : WF_chatVars(at = "chat" /\ ClaimGoesStale(h))
    /\ \A w \in ReviewWorkers : WF_reviewVars(at = "reviews" /\ ReviewerStep(w))
    /\ \A r \in ReviewRuns : WF_reviewVars(at = "reviews" /\ RunGoesStale(r))

MCSpec == MCInit /\ [][MCNext]_servicesVars /\ MCFairness

\* The tables and the requests of every service keep their types.
ServicesTypeOK ==
    /\ OutboxTypeOK /\ PermitTypeOK /\ MachineTypeOK /\ JobsTypeOK /\ UploadTypeOK /\ ChatTypeOK
    /\ TokenTypeOK /\ ReviewTypeOK /\ CleanTypeOK
=============================================================================
