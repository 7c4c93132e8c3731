----------------------------- MODULE Sessions -----------------------------
(***************************************************************************)
(* Refresh-token sessions: SessionAuthService.IssueSession and Rotate       *)
(* (core/identity/token_service.go) over the table sessions of SessionRepo, *)
(* with the handlers Refresh and Logout (auth_handler.go) and the cookie    *)
(* jars of the browsers that call them.                                     *)
(*                                                                         *)
(* A token pair is a number: the refresh token, its hash and the access JWT *)
(* issued with it.  Each query is a step of its own, and so is the arrival  *)
(* of the response at the browser, which may be lost or overtaken.          *)
(***************************************************************************)
EXTENDS Integers, FiniteSets

CONSTANTS
    Users,          \* accounts
    NoUser,         \* the empty user id an OAuth login gets (oauth_repo.go)
    Browsers,       \* cookie jars
    Workers,        \* goroutines serving requests
    MaxTokens,      \* bound: token pairs issued in a behaviour
    MaxLapsed,      \* bound: tokens that outlive their expires_at
    MaxFaults       \* bound: queries that fail or are repeated

ASSUME NoUserAssumption == NoUser \notin Users
ASSUME FiniteAssumption == IsFiniteSet(Workers)
ASSUME BoundAssumption  == MaxTokens \in Nat /\ MaxLapsed \in Nat /\ MaxFaults \in Nat

VARIABLES
    rows,       \* token hashes stored in the table sessions
    owner,      \* user_id of each token's row and access claims
    lastToken,  \* token pairs issued so far
    lapsed,     \* tokens 1..lapsed are past their expires_at: all live equally long
    refresh,    \* cookie loxtu_refresh of each browser, 0 when absent
    access,     \* cookie loxtu_access of each browser, 0 when absent
    pc,         \* where each worker is
    client,     \* the browser each worker serves
    presented,  \* the token the request carries: oldPlain, or Logout's access JWT
    minted,     \* the pair the worker issues
    before,     \* history: sessions of the user that stood when Logout started
    loggedOut,  \* history: users logged out and not logged in since
    faults      \* history: failed or repeated queries so far

table   == <<rows, owner, lastToken, lapsed>>
jars    == <<refresh, access>>
request == <<client, presented, minted, before>>
vars    == <<table, jars, pc, request, loggedOut, faults>>

Tokens == 1..MaxTokens
NoToken == 0
Owners == Users \cup {NoUser}

MintedSteps == {"revokePrior", "create", "answer"}
TokenSteps == {"find", "rotate", "findUser", "resolve", "logoutRevoke"}
Steps == {"idle", "clear"} \cup MintedSteps \cup TokenSteps

RowsOf(u) == {t \in rows : owner[t] = u}

\* A worker still has to CREATE the row of token t.
Uncreated(t) == \E w \in Workers : pc[w] \in {"revokePrior", "create"} /\ minted[w] = t

\* Tokens that were issued and can no longer be exchanged.
Dead == {t \in Tokens : t <= lastToken /\ t \notin rows /\ ~Uncreated(t)}

TableTypes ==
    /\ rows \subseteq Tokens
    /\ owner \in [Tokens -> Owners]
    /\ lastToken \in 0..MaxTokens
    /\ lapsed \in 0..lastToken
    /\ \A t \in rows : t <= lastToken

RequestTypes ==
    /\ pc \in [Workers -> Steps]
    /\ client \in [Workers -> Browsers]
    /\ presented \in [Workers -> 0..MaxTokens]
    /\ minted \in [Workers -> 0..MaxTokens]
    /\ before \in [Workers -> SUBSET Tokens]

JarTypes ==
    /\ refresh \in [Browsers -> 0..MaxTokens]
    /\ access \in [Browsers -> 0..MaxTokens]
    /\ \A b \in Browsers : refresh[b] <= lastToken /\ access[b] <= lastToken

\* A worker that is to store or answer a pair has one that was issued, a worker
\* that looks one up was given one, and only accounts are ever rotated.
CarriesIssued ==
    \A w \in Workers :
        /\ pc[w] \in MintedSteps => minted[w] \in 1..lastToken
        /\ pc[w] \in TokenSteps => presented[w] \in 1..lastToken
        /\ pc[w] = "revokePrior" => owner[minted[w]] # NoUser
        /\ pc[w] = "logoutRevoke" => owner[presented[w]] # NoUser

HistoryTypes == loggedOut \subseteq Users /\ faults \in 0..MaxFaults

TypeOK == TableTypes /\ RequestTypes /\ JarTypes /\ CarriesIssued /\ HistoryTypes

Init ==
    /\ rows = {}
    /\ owner = [t \in Tokens |-> NoUser]
    /\ lastToken = 0
    /\ lapsed = 0
    /\ refresh = [b \in Browsers |-> NoToken]
    /\ access = [b \in Browsers |-> NoToken]
    /\ pc = [w \in Workers |-> "idle"]
    /\ client \in {[w \in Workers |-> b] : b \in Browsers}
    /\ presented = [w \in Workers |-> NoToken]
    /\ minted = [w \in Workers |-> NoToken]
    /\ before = [w \in Workers |-> {}]
    /\ loggedOut = {}
    /\ faults = 0

-----------------------------------------------------------------------------
Goto(w, step) == pc' = [pc EXCEPT ![w] = step] /\ UNCHANGED request

Finish(w) ==
    /\ pc' = [pc EXCEPT ![w] = "idle"]
    /\ presented' = [presented EXCEPT ![w] = NoToken]
    /\ minted' = [minted EXCEPT ![w] = NoToken]
    /\ before' = [before EXCEPT ![w] = {}]
    /\ UNCHANGED client

Answered == UNCHANGED faults
Failed == faults < MaxFaults /\ faults' = faults + 1

\* DELETE sessions WHERE user_id = u.
Revoke(u) == rows' = rows \ RowsOf(u)

\* Issue: a fresh pair for user u in the hands of worker w.
Mint(w, u) ==
    /\ lastToken < MaxTokens
    /\ lastToken' = lastToken + 1
    /\ owner' = [owner EXCEPT ![lastToken'] = u]
    /\ minted' = [minted EXCEPT ![w] = lastToken']

-----------------------------------------------------------------------------
(* A login: passkey finish or skip, OTP with consent, or the OAuth callback, *)
(* all of which call IssueSession.                                           *)

\* Create skips the revocation when the user id is empty.
StartLogin(w, b, u) ==
    /\ pc[w] = "idle"
    /\ Mint(w, u)
    /\ client' = [client EXCEPT ![w] = b]
    /\ pc' = [pc EXCEPT ![w] = IF u = NoUser THEN "create" ELSE "revokePrior"]
    /\ loggedOut' = loggedOut \ {u}
    /\ UNCHANGED <<rows, lapsed, jars, presented, before, faults>>

\* Mutant: Create no longer revokes the prior sessions.
RevokeNone(w) ==
    /\ pc[w] = "revokePrior"
    /\ Goto(w, "create")
    /\ UNCHANGED <<table, jars, loggedOut, faults>>

\* SessionRepo.Create, first query; its error is dropped.
RevokePrior(w) ==
    /\ pc[w] = "revokePrior"
    /\ \/ Revoke(owner[minted[w]]) /\ Answered
       \/ Failed /\ UNCHANGED rows
    /\ Goto(w, "create")
    /\ UNCHANGED <<owner, lastToken, lapsed, jars, loggedOut>>

\* SessionRepo.Create, second query: token_hash is unique, so storing a token
\* again is an error, and an error ends the request without cookies.
Create(w) ==
    /\ pc[w] = "create"
    /\ \/ /\ Answered
          /\ rows' = rows \cup {minted[w]}
          /\ IF minted[w] \in rows THEN Finish(w) ELSE Goto(w, "answer")
       \/ Failed /\ Finish(w) /\ UNCHANGED rows
    /\ UNCHANGED <<owner, lastToken, lapsed, jars, loggedOut>>

\* Mutant: a lost response is made good by storing the session again.
AnswerOrStoreAgain(w) ==
    /\ pc[w] = "answer"
    /\ \/ /\ refresh' = [refresh EXCEPT ![client[w]] = minted[w]]
          /\ access' = [access EXCEPT ![client[w]] = minted[w]]
          /\ Finish(w)
       \/ UNCHANGED jars /\ Goto(w, "create")
    /\ UNCHANGED <<table, loggedOut, faults>>

\* setAuthCookies reaches the browser, or the response is lost.
Answer(w) ==
    /\ pc[w] = "answer"
    /\ \/ /\ refresh' = [refresh EXCEPT ![client[w]] = minted[w]]
          /\ access' = [access EXCEPT ![client[w]] = minted[w]]
       \/ UNCHANGED jars
    /\ Finish(w)
    /\ UNCHANGED <<table, loggedOut, faults>>

-----------------------------------------------------------------------------
(* Refresh: SessionAuthService.Rotate on the cookie loxtu_refresh. *)

StartRefresh(w, b) ==
    /\ pc[w] = "idle"
    /\ refresh[b] # NoToken
    /\ presented' = [presented EXCEPT ![w] = refresh[b]]
    /\ client' = [client EXCEPT ![w] = b]
    /\ pc' = [pc EXCEPT ![w] = "find"]
    /\ UNCHANGED <<table, jars, minted, before, loggedOut, faults>>

\* FindByTokenHash: a row counts whether or not it has expired.
Find(w) ==
    /\ pc[w] = "find"
    /\ \/ Answered /\ presented[w] \in rows /\ Goto(w, "rotate")
       \/ Answered /\ presented[w] \notin rows /\ Finish(w)
       \/ Failed /\ Finish(w)
    /\ UNCHANGED <<table, jars, loggedOut>>

\* Rotate's own RevokeByUserID; its error is dropped.
RotateRevoke(w) ==
    /\ pc[w] = "rotate"
    /\ \/ Revoke(owner[presented[w]]) /\ Answered
       \/ Failed /\ UNCHANGED rows
    /\ Goto(w, "findUser")
    /\ UNCHANGED <<owner, lastToken, lapsed, jars, loggedOut>>

\* FindByUserID, then IssueSession for the user; no account has the empty id.
FindUser(w) ==
    /\ pc[w] = "findUser"
    /\ \/ /\ Answered
          /\ owner[presented[w]] # NoUser
          /\ Mint(w, owner[presented[w]])
          /\ pc' = [pc EXCEPT ![w] = "revokePrior"]
          /\ UNCHANGED <<client, presented, before>>
       \/ /\ (owner[presented[w]] = NoUser /\ Answered) \/ Failed
          /\ Finish(w)
          /\ UNCHANGED <<owner, lastToken>>
    /\ UNCHANGED <<rows, lapsed, jars, loggedOut>>

-----------------------------------------------------------------------------
(* Logout. *)

\* Without the access cookie, which lives 15 minutes, there is no user to revoke.
StartLogout(w, b) ==
    /\ pc[w] = "idle"
    /\ client' = [client EXCEPT ![w] = b]
    /\ IF access[b] = NoToken
       THEN /\ pc' = [pc EXCEPT ![w] = "clear"]
            /\ UNCHANGED <<presented, before>>
       ELSE /\ presented' = [presented EXCEPT ![w] = access[b]]
            /\ before' = [before EXCEPT ![w] = RowsOf(owner[access[b]]) \cap {t \in rows : ~Uncreated(t)}]
            /\ pc' = [pc EXCEPT ![w] = "resolve"]
    /\ UNCHANGED <<table, jars, minted, loggedOut, faults>>

\* The handler gives up on revoking and only clears the cookies.
SkipRevoke(w) ==
    /\ before' = [before EXCEPT ![w] = {}]
    /\ pc' = [pc EXCEPT ![w] = "clear"]
    /\ UNCHANGED <<client, presented, minted>>

\* FindByUserIDHash on the subject of the access JWT.
Resolve(w) ==
    /\ pc[w] = "resolve"
    /\ \/ Answered /\ owner[presented[w]] # NoUser /\ Goto(w, "logoutRevoke")
       \/ /\ (owner[presented[w]] = NoUser /\ Answered) \/ Failed
          /\ SkipRevoke(w)
    /\ UNCHANGED <<table, jars, loggedOut>>

LoginPending(u) == \E w \in Workers : pc[w] \in MintedSteps /\ presented[w] = NoToken
                                      /\ owner[minted[w]] = u

\* Mutant: only the row of the token in hand is revoked (RevokeByTokenHash).
LogoutRevokeOne(w) ==
    /\ pc[w] = "logoutRevoke"
    /\ rows' = rows \ {presented[w]}
    /\ Goto(w, "clear")
    /\ UNCHANGED <<owner, lastToken, lapsed, jars, loggedOut, faults>>

\* RevokeAllForUser; an error is only logged.
LogoutRevoke(w) ==
    /\ pc[w] = "logoutRevoke"
    /\ \/ /\ Revoke(owner[presented[w]])
          /\ loggedOut' = IF LoginPending(owner[presented[w]]) THEN loggedOut
                          ELSE loggedOut \cup {owner[presented[w]]}
          /\ Goto(w, "clear")
          /\ Answered
       \/ Failed /\ SkipRevoke(w) /\ UNCHANGED <<rows, loggedOut>>
    /\ UNCHANGED <<owner, lastToken, lapsed, jars>>

\* clearAuthCookies reaches the browser, or the response is lost.
Clear(w) ==
    /\ pc[w] = "clear"
    /\ \/ /\ refresh' = [refresh EXCEPT ![client[w]] = NoToken]
          /\ access' = [access EXCEPT ![client[w]] = NoToken]
       \/ UNCHANGED jars
    /\ Finish(w)
    /\ UNCHANGED <<table, loggedOut, faults>>

-----------------------------------------------------------------------------
(* Time, and queries that Pool.Query sends twice. *)

\* The access cookie's MaxAge of 900 seconds runs out.
AccessLapses(b) ==
    /\ access[b] # NoToken
    /\ access' = [access EXCEPT ![b] = NoToken]
    /\ UNCHANGED <<table, refresh, pc, request, loggedOut, faults>>

\* The 30 days of the oldest token run out; CleanupExpired has no caller.
Expire ==
    /\ lapsed < lastToken /\ lapsed < MaxLapsed
    /\ lapsed' = lapsed + 1
    /\ UNCHANGED <<rows, owner, lastToken, jars, pc, request, loggedOut, faults>>

\* A write executed whose answer is lost with its connection: sent once more.
Repeated(w) ==
    /\ \/ pc[w] = "create" /\ rows' = rows \cup {minted[w]}
       \/ pc[w] = "revokePrior" /\ Revoke(owner[minted[w]])
       \/ pc[w] \in {"rotate", "logoutRevoke"} /\ Revoke(owner[presented[w]])
    /\ Failed
    /\ UNCHANGED <<owner, lastToken, lapsed, jars, pc, request, loggedOut>>

Issuing(w) ==
    \/ \E b \in Browsers, u \in Owners : StartLogin(w, b, u)
    \/ RevokePrior(w) \/ Create(w) \/ Answer(w)
Rotating(w) ==
    \/ \E b \in Browsers : StartRefresh(w, b)
    \/ Find(w) \/ RotateRevoke(w) \/ FindUser(w)
LoggingOut(w) ==
    \/ \E b \in Browsers : StartLogout(w, b)
    \/ Resolve(w) \/ LogoutRevoke(w) \/ Clear(w)

Next ==
    \/ \E w \in Workers : Issuing(w) \/ Rotating(w) \/ LoggingOut(w) \/ Repeated(w)
    \/ \E b \in Browsers : AccessLapses(b)
    \/ Expire

Spec == Init /\ [][Next]_vars

-----------------------------------------------------------------------------
(* What holds of the code. *)

\* A refresh token whose rotation is about to be answered is gone for good, even
\* when one query failed: Rotate revokes the user's rows and Create revokes them
\* again (token_service.go 81, session_repo.go 31), so it takes two lost
\* revocations to leave the old token usable.
RotatedIsDead ==
    faults <= 1 =>
        \A w \in Workers :
            pc[w] = "answer" /\ presented[w] # NoToken => presented[w] \in Dead

\* When no query is lost, the sessions of an account never outnumber the requests
\* that can run at the same time: each Create revokes what was there, so only
\* requests that revoked before the others created can leave several rows.
SessionBound ==
    faults = 0 =>
        \A u \in Users : Cardinality(RowsOf(u)) <= Cardinality(Workers)

\* A Logout that revoked leaves none of the sessions that stood when it started,
\* whatever logins and rotations overlap it (auth_handler.go 344-356).
LogoutCutsOff ==
    \A w \in Workers : pc[w] = "clear" => before[w] \cap rows = {}

\* A revoked or rotated session never comes back, not even by a CREATE that the
\* pool repeats.
DeadStaysDead == [][Dead \subseteq Dead']_vars

-----------------------------------------------------------------------------
(* What the repository says and the code does not do. *)

\* session_repo.go:29 "one-session policy": an account has one session.
OneSessionPerUser == \A u \in Users : Cardinality(RowsOf(u)) <= 1

\* token_service.go:93 "RevokeAllForUser deletes all refresh sessions for the
\* user": after a logout the user has none until the next login.
LogoutEndsSessions == \A u \in loggedOut : RowsOf(u) = {}

\* 003_sessions.surrealql:6: at logout the hash of the refresh token is deleted,
\* here for a browser whose refresh token belongs to an account.
LogoutRevokesToken ==
    [][\A w \in Workers :
         Clear(w) /\ faults' = 0
            => refresh[client[w]] \notin {t \in rows : owner[t] \in Users}]_vars

\* 003_sessions.surrealql:22: expires_at ends the session: no rotation is
\* answered for a token that had expired when it was looked up.
ExpiredNotRotated ==
    [][\A w \in Workers : Find(w) /\ pc'[w] = "rotate" => presented[w] > lapsed]_vars
=============================================================================
