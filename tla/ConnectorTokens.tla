-------------------------- MODULE ConnectorTokens --------------------------
(***************************************************************************)
(* The stored token of one connection (apps/web/lib/connectors/            *)
(* connections.ts; a person's own account, accounts.ts, has the same life  *)
(* in another table), the runs that renew it, and the provider behind it.  *)
(*                                                                         *)
(* A provider that rotates retires a refresh token when it is used.  The   *)
(* call to it is outside any transaction, so a run that renews writes what *)
(* it got only over the row it read; what it was refused, it writes over   *)
(* whatever the row says by then.                                          *)
(***************************************************************************)
EXTENDS Naturals, Rows

CONSTANTS
    Renewers,      \* runs that use the connection
    TokenFaults,   \* "die", "outage", "revoke"
    MaxMinted      \* refresh tokens the provider issues

ASSUME TokenAssumption ==
    /\ TokenFaults \subseteq {"die", "outage", "revoke"}
    /\ MaxMinted \in Nat
    /\ None \notin Nat

VARIABLES
    conn,      \* the row
    renewal,   \* what each run is doing, and with which refresh token
    grants,    \* the provider: the refresh tokens it honours
    rotates,   \* and whether it retires one that was used
    minted     \* how many it has issued

tokenVars == <<conn, renewal, grants, rotates, minted>>

-----------------------------------------------------------------------------

RefreshTokens == 1..MaxMinted

\* brokenAt, and whether expiresAt is further ahead than REFRESH_MARGIN_MS.
ConnRow == [token : RefreshTokens \cup {None}, fresh : BOOLEAN, broken : BOOLEAN]

ASSUME ConnRowAssumption == None \notin ConnRow

\* Is the row still the one it read (its id), and as it read it (its updatedAt)?
\* `why` is what stopped the renewal.
Renewal == [pc : {"idle", "ask", "store", "mark"}, token : RefreshTokens \cup {None},
            same : BOOLEAN, asRead : BOOLEAN, why : {"none", "refused", "outage"}]

NoRenewal == [pc |-> "idle", token |-> None, same |-> FALSE, asRead |-> FALSE, why |-> "none"]

TokenTypeOK ==
    /\ conn \in ConnRow \cup {None}
    /\ renewal \in [Renewers -> Renewal]
    /\ grants \subseteq 1..minted
    /\ rotates \in BOOLEAN
    /\ minted \in 0..MaxMinted

TokenInit ==
    /\ conn = None
    /\ renewal = [w \in Renewers |-> NoRenewal]
    /\ grants = {}
    /\ rotates \in BOOLEAN
    /\ minted = 0

\* The next refresh token the provider issues.
Issued == minted + 1

\* Every write moves updatedAt, which ends what the others have read.
RowMoves(w) ==
    renewal' = [v \in Renewers |-> IF v = w THEN NoRenewal ELSE [renewal[v] EXCEPT !.asRead = FALSE]]

RenewalEnds(w) == renewal' = [renewal EXCEPT ![w] = NoRenewal]

-----------------------------------------------------------------------------
(* People *)

\* saveConnection, after the provider has exchanged a code; with or without a refresh
\* token, and with or without the grants of an earlier sign-in.
Connect ==
    /\ minted < MaxMinted
    /\ \E t \in {None, Issued}, kept \in {grants, {}} :
        /\ conn' = [token |-> t, fresh |-> TRUE, broken |-> FALSE]
        /\ grants' = IF t = None THEN kept ELSE kept \cup {t}
        /\ minted' = IF t = None THEN minted ELSE Issued
    /\ renewal' = [v \in Renewers |-> [renewal[v] EXCEPT !.asRead = FALSE]]
    /\ UNCHANGED rotates

\* deleteConnection.  The provider is not told.
Disconnect ==
    /\ conn # None
    /\ conn' = None
    /\ renewal' = [v \in Renewers |-> [renewal[v] EXCEPT !.same = FALSE, !.asRead = FALSE]]
    /\ UNCHANGED <<grants, rotates, minted>>

\* The person takes the permission back at the provider.
Revoke ==
    /\ "revoke" \in TokenFaults
    /\ grants # {}
    /\ grants' = {}
    /\ UNCHANGED <<conn, renewal, rotates, minted>>

\* The access token comes within the margin of its end.
AccessExpires ==
    /\ conn # None /\ conn.fresh
    /\ conn' = [conn EXCEPT !.fresh = FALSE]
    /\ UNCHANGED <<renewal, grants, rotates, minted>>

-----------------------------------------------------------------------------
(* resolveStored and renew *)

\* No row, a broken one: the person is asked to connect.
Connected == conn # None /\ ~conn.broken

\* A token that is still fresh is used as it is.
ReadStale(w) ==
    /\ renewal[w].pc = "idle"
    /\ Connected
    /\ ~conn.fresh
    /\ renewal' = [renewal EXCEPT ![w] = [pc |-> "ask", token |-> conn.token, same |-> TRUE, asRead |-> TRUE, why |-> "none"]]
    /\ UNCHANGED <<conn, grants, rotates, minted>>

RenewalGoes(w, next) == renewal' = [renewal EXCEPT ![w] = next]

\* refreshTokens: a server that sends no new refresh token means the old one.
Exchange(w) ==
    /\ renewal[w].pc = "ask"
    /\ renewal[w].token \in grants
    /\ IF rotates
       THEN /\ minted < MaxMinted
            /\ grants' = (grants \ {renewal[w].token}) \cup {Issued}
            /\ minted' = Issued
            /\ RenewalGoes(w, [renewal[w] EXCEPT !.pc = "store", !.token = Issued])
       ELSE /\ RenewalGoes(w, [renewal[w] EXCEPT !.pc = "store"])
            /\ UNCHANGED <<grants, minted>>
    /\ UNCHANGED <<conn, rotates>>

\* A token the provider has retired, or none at all.
Refused(w) ==
    /\ renewal[w].pc = "ask"
    /\ renewal[w].token \notin grants
    /\ RenewalGoes(w, [renewal[w] EXCEPT !.pc = "mark", !.why = "refused"])
    /\ UNCHANGED <<conn, grants, rotates, minted>>

\* The provider does not answer, or the client's registration is gone: the same to the
\* code as a refusal.  The provider may have used the token all the same.
Unanswered(w) ==
    /\ "outage" \in TokenFaults
    /\ renewal[w].pc = "ask"
    /\ RenewalGoes(w, [renewal[w] EXCEPT !.pc = "mark", !.why = "outage"])
    /\ \/ UNCHANGED <<grants, minted>>
       \/ /\ rotates /\ minted < MaxMinted /\ renewal[w].token \in grants
          /\ grants' = (grants \ {renewal[w].token}) \cup {Issued}
          /\ minted' = Issued
    /\ UNCHANGED <<conn, rotates>>

\* markBroken: by id, whatever has been written since.
MarkBroken(w) ==
    /\ renewal[w].pc = "mark"
    /\ IF conn # None /\ renewal[w].same
       THEN conn' = [conn EXCEPT !.broken = TRUE] /\ RowMoves(w)
       ELSE RenewalEnds(w) /\ UNCHANGED conn
    /\ UNCHANGED <<grants, rotates, minted>>

\* bug: the refresh token that was used is kept.
KeptOld(w) == conn.token

\* What the provider answered with.
Answer(w) == renewal[w].token

\* The swap on updatedAt.  One that matches nothing uses the token it finds instead.
SwapToken(w) ==
    /\ renewal[w].pc = "store"
    /\ IF renewal[w].asRead
       THEN conn' = [token |-> Answer(w), fresh |-> TRUE, broken |-> FALSE] /\ RowMoves(w)
       ELSE RenewalEnds(w) /\ UNCHANGED conn
    /\ UNCHANGED <<grants, rotates, minted>>

RenewalDies(w) ==
    /\ "die" \in TokenFaults
    /\ renewal[w].pc # "idle"
    /\ RenewalEnds(w)
    /\ UNCHANGED <<conn, grants, rotates, minted>>

TokenNext ==
    \/ Connect \/ Disconnect \/ Revoke \/ AccessExpires
    \/ \E w \in Renewers :
        ReadStale(w) \/ Exchange(w) \/ Refused(w) \/ Unanswered(w) \/ MarkBroken(w) \/ SwapToken(w) \/ RenewalDies(w)

TokenSpec == TokenInit /\ [][TokenNext]_tokenVars

-----------------------------------------------------------------------------
(* Properties *)

\* A run is about to write down a refresh token that the provider honours.
Coming(w) == renewal[w].pc = "store" /\ renewal[w].asRead /\ renewal[w].token \in grants

\* The connection can be used now, or can once it is renewed.
Usable == Connected /\ (conn.fresh \/ conn.token \in grants \/ \E w \in Renewers : Coming(w))

\* A renewal was overtaken: the row has been written since, or another's answer is on its
\* way to it.
Outrun(w) == ~renewal[w].asRead \/ \E v \in Renewers \ {w} : Coming(v)

\* A connection that can be used stops being usable only when a person disconnects or
\* revokes it, when it expires without a refresh token, when a renewal dies with the
\* answer or the provider cannot be reached, and by a refusal that is written by a
\* renewal another has outrun ("REFRESH IS COMPARE-AND-SWAP" in connections.ts: the swap
\* is, and markBroken is not).
OnlyTheseEndAConnection ==
    [][Usable /\ ~Usable' =>
        \/ Disconnect \/ Revoke
        \/ AccessExpires /\ (conn.token = None \/ grants = {})
        \/ \E w \in Renewers :
            \/ RenewalDies(w) \/ Unanswered(w)
            \/ MarkBroken(w) /\ (renewal[w].why = "outage" \/ Outrun(w))]_tokenVars
=============================================================================
