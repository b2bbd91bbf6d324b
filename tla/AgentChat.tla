----------------------------- MODULE AgentChat -----------------------------
(***************************************************************************)
(* People talking to one agent (apps/web/lib/agents/chat.ts): each person  *)
(* has a thread, a message is one turn on the space's model, and the turn  *)
(* holds the thread by a claim on its row until its answer is stored.      *)
(*                                                                         *)
(* A claim that is older than a turn may be is taken over, as the claim of *)
(* a turn that died.  The clock of a turn stops the model and not the tool *)
(* it is in, so a live turn may be that late ("slow").                     *)
(*                                                                         *)
(* What a turn of the model costs varies.  The ledger is counted for what  *)
(* chats have put there.  What the agent's own runs add, and the cap of    *)
(* the key (budget_monthly, on a ledger shared with other agents), are     *)
(* left out: they only keep a message from being sent or end a turn        *)
(* earlier, and here both may happen at any time.                          *)
(***************************************************************************)
EXTENDS Naturals, FiniteSets, Rows

CONSTANTS
    Threads,        \* one for each person
    Messages,       \* requests, each sending one message at a time
    ChatFaults,     \* "die", "slow", "db"
    MonthlyCap,     \* the agent's budget; None is uncapped
    MaxTurn,        \* the dearest turn of the model
    MaxSpent        \* the ledger is counted up to here

ASSUME ChatAssumption ==
    /\ ChatFaults \subseteq {"die", "slow", "db"}
    /\ IsFiniteSet(Messages)
    /\ MaxSpent \in Nat
    /\ MaxTurn \in Nat \ {0}
    /\ MonthlyCap # None =>
          /\ MonthlyCap \in Nat
          /\ MaxSpent > (MonthlyCap + MaxTurn - 1) * Cardinality(Messages)
    /\ None \notin Messages

VARIABLES
    thread,    \* the row of each thread: whose reply it is waiting for
    turn,      \* what each message's request is doing
    spent      \* the month's ledger for the agent, what its chats have added

chatVars == <<thread, turn, spent>>

-----------------------------------------------------------------------------

\* pendingMessageId, and whether pendingSince is older than CHAT_CLAIM_MS.
ThreadRow == [pending : Messages \cup {None}, stale : BOOLEAN]

ASSUME ThreadAssumption == None \notin ThreadRow

\* `on` is the thread, `saw` the ledger as the request read it, `used` what the model
\* has cost since, `row` whether the pending reply it is to fill in still exists.
TurnRecord == [pc : {"idle", "asked", "work", "store", "meter"},
               on : Threads \cup {None}, saw : Nat, used : Nat, row : BOOLEAN]

NoTurn == [pc |-> "idle", on |-> None, saw |-> 0, used |-> 0, row |-> FALSE]

ChatTypeOK ==
    /\ thread \in [Threads -> ThreadRow \cup {None}]
    /\ turn \in [Messages -> TurnRecord]
    /\ spent \in 0..MaxSpent
    /\ \A u \in Messages : turn[u].pc = "idle" => turn[u] = NoTurn
    /\ \A h \in Threads : thread[h] # None => (thread[h].pending = None => ~thread[h].stale)

ChatInit ==
    /\ thread = [h \in Threads |-> None]
    /\ turn = [u \in Messages |-> NoTurn]
    /\ spent = 0

-----------------------------------------------------------------------------

\* bug: a turn of the model more.
PastCap(n) == n > MonthlyCap

\* atCap.
AtCap(n) == n >= MonthlyCap

\* The most that one request can have read and used: the last unit below the cap, and the
\* dearest turn of the model.
Reach == MonthlyCap + MaxTurn - 1

\* preRunStop and perTurnStop, on what was read before the turn.
WithinBudget(n) == MonthlyCap # None => ~AtCap(n)

Ends(u) == turn' = [turn EXCEPT ![u] = NoTurn]
TurnGoes(u, phase) == turn' = [turn EXCEPT ![u].pc = phase]

\* Is u's turn running on h?
OnThread(u, h) == turn[u].pc \in {"work", "store"} /\ turn[u].on = h

\* bug: a claim is looked at by its age alone.
AnyClaim(row) == TRUE

\* bug: a claim stays whoever died with it.
Unclaimed(row) == row.pending = None

\* The condition of the claim.
Takeable(row) == row.pending = None \/ row.stale

-----------------------------------------------------------------------------

\* sendChatMessage reads the agent's spend; a budget that is reached is a 409.
SendMessage(u) ==
    /\ turn[u].pc = "idle"
    /\ WithinBudget(spent)
    /\ \E h \in Threads : turn' = [turn EXCEPT ![u] = [NoTurn EXCEPT !.pc = "asked", !.on = h, !.saw = spent]]
    /\ UNCHANGED <<thread, spent>>

\* runThreadTurn's first transaction: the thread, the pending reply and the claim.
ClaimThread(u) ==
    /\ turn[u].pc = "asked"
    /\ LET h == turn[u].on IN
         /\ thread[h] # None => Takeable(thread[h])
         /\ thread' = [thread EXCEPT ![h] = [pending |-> u, stale |-> FALSE]]
    /\ turn' = [turn EXCEPT ![u].pc = "work", ![u].row = TRUE]
    /\ UNCHANGED spent

\* Still answering: the reply just made is deleted again.  Or the request fails.
ThreadBusy(u) ==
    /\ turn[u].pc = "asked"
    /\ \/ thread[turn[u].on] # None /\ ~Takeable(thread[turn[u].on])
       \/ "db" \in ChatFaults
    /\ Ends(u)
    /\ UNCHANGED <<thread, spent>>

\* The model is asked once more, below the cap.  What it costs is known afterwards, and
\* one turn may cost more than the whole cap.
ModelTurn(u) ==
    /\ turn[u].pc = "work"
    /\ WithinBudget(turn[u].saw + turn[u].used)
    /\ \E cost \in 1..MaxTurn :
          /\ turn[u].saw + turn[u].used + cost <= MaxSpent
          /\ turn' = [turn EXCEPT ![u].used = @ + cost]
    /\ UNCHANGED <<thread, spent>>

\* An answer, a budget that is reached, the turn's clock, or an error.
TurnOver(u) ==
    /\ turn[u].pc = "work"
    /\ TurnGoes(u, "store")
    /\ UNCHANGED <<thread, spent>>

\* bug: pendingSince stays.
HalfAnswered(h) == [thread[h] EXCEPT !.pending = None]

\* The thread with its claim given up, whosever it is.
Answered(h) == [pending |-> None, stale |-> FALSE]

\* The second transaction: the reply by its id, then the thread.  The overflow it trims
\* is past the newest CHAT_MAX_MESSAGES_KEPT, where no running turn has its reply.
StoreAnswer(u) ==
    /\ turn[u].pc = "store"
    /\ turn[u].row
    /\ thread' = [thread EXCEPT ![turn[u].on] = Answered(turn[u].on)]
    /\ TurnGoes(u, "meter")
    /\ UNCHANGED spent

\* The reply is gone with its thread, or the database fails: nothing is stored, and the
\* error skips the metering.
StoreFails(u) ==
    /\ turn[u].pc = "store"
    /\ ~turn[u].row \/ "db" \in ChatFaults
    /\ Ends(u)
    /\ UNCHANGED <<thread, spent>>

\* meterModelUsage adds to the row of the month; its error is swallowed.
MeterTurn(u) ==
    /\ turn[u].pc = "meter"
    /\ \/ spent' = spent + turn[u].used
       \/ "db" \in ChatFaults /\ UNCHANGED spent
    /\ spent' <= MaxSpent
    /\ Ends(u)
    /\ UNCHANGED thread

\* clearChat deletes the thread, and its messages with it.
ClearChat(h) ==
    /\ thread[h] # None
    /\ thread' = [thread EXCEPT ![h] = None]
    /\ turn' = [u \in Messages |-> IF turn[u].on = h THEN [turn[u] EXCEPT !.row = FALSE] ELSE turn[u]]
    /\ UNCHANGED spent

\* CHAT_CLAIM_MS is the turn's clock and a grace: only a slow turn is still running.
ClaimGoesStale(h) ==
    /\ thread[h] # None
    /\ thread[h].pending # None
    /\ "slow" \in ChatFaults \/ ~OnThread(thread[h].pending, h)
    /\ thread' = [thread EXCEPT ![h].stale = TRUE]
    /\ UNCHANGED <<turn, spent>>

\* The instance dies.
TurnDies(u) ==
    /\ "die" \in ChatFaults
    /\ turn[u].pc # "idle"
    /\ Ends(u)
    /\ UNCHANGED <<thread, spent>>

TurnStep(u) == ClaimThread(u) \/ ThreadBusy(u) \/ TurnOver(u) \/ StoreAnswer(u) \/ StoreFails(u) \/ MeterTurn(u)

ChatNext ==
    \/ \E u \in Messages : SendMessage(u) \/ ModelTurn(u) \/ TurnStep(u) \/ TurnDies(u)
    \/ \E h \in Threads : ClearChat(h) \/ ClaimGoesStale(h)

ChatSpec == ChatInit /\ [][ChatNext]_chatVars

\* A turn is bounded in turns of the model and in time, and time passes.
ChatFairness ==
    /\ \A u \in Messages : WF_chatVars(TurnStep(u))
    /\ \A h \in Threads : WF_chatVars(ClaimGoesStale(h))

ChatFairSpec == ChatSpec /\ ChatFairness

-----------------------------------------------------------------------------
(* Properties *)

\* "One turn per thread at a time" (chat.ts), for as long as the claim lasts: a turn that
\* still has to store its answer loses its claim only to one that found it stale, to a
\* person who clears the thread, or to a turn that had itself been overtaken before.
ClaimLostToTheLate ==
    [][\A u \in Messages, h \in Threads :
          /\ OnThread(u, h) /\ thread[h] # None
          /\ OnThread(u, h)' /\ thread'[h] # None
          /\ thread[h].pending = u
          => \/ thread'[h].pending = u
             \/ thread[h].stale
             \/ \E v \in Messages \ {u} : OnThread(v, h) /\ ~OnThread(v, h)']_chatVars

\* "So the agent's cap binds" (chat.ts): the spend is read before the claim and written
\* after it is given up, so threads do not keep turns from overshooting together.  Each
\* request may spend the cap anew, less a unit, and then one turn of the model, however
\* dear; who comes after them sends nothing.
OvershootBounded == MonthlyCap # None => spent <= Reach * Cardinality(Messages)

\* A thread comes free again, whatever became of the turn that had it: "a claim older
\* than CHAT_CLAIM_MS is a turn that died and is taken over" (chat.ts).
ThreadComesFree == \A h \in Threads : []<>(thread[h] = None \/ Takeable(thread[h]))
=============================================================================
