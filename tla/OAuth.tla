------------------------------ MODULE OAuth ------------------------------
(***************************************************************************)
(* Sign-in with an external provider: OAuthHandler's BeginAuth and Callback *)
(* (oauth_handler.go), OAuthService's map of states (oauth_service.go) and  *)
(* the table oauth_accounts of OAuthRepo (oauth_repo.go), with the CSRF     *)
(* middleware (csrf.go) that stands in front of them.                       *)
(*                                                                         *)
(* A state is a number, generated in order.  The browser keeps it in one    *)
(* cookie, whatever the number of its tabs; the provider's page sends       *)
(* whoever opens it back to the callback with that state.  The tokens of    *)
(* csrf.go are left out: no form of the server posts one, and the form that *)
(* a provider posts has none.                                               *)
(***************************************************************************)
EXTENDS Integers, FiniteSets

CONSTANTS
    Browsers,       \* cookie jars
    Identities,     \* accounts at the providers: pairs of provider and sub
    NoUser,         \* the empty user id
    Unlinked,       \* no row of oauth_accounts
    Workers,        \* goroutines serving requests
    MaxStates,      \* bound: flows begun in a behaviour
    MaxRestarts,    \* bound: restarts of the server
    MaxFaults       \* bound: queries that fail or lose their answer

ASSUME UnlinkedAssumption == Unlinked # NoUser
ASSUME BoundAssumption == MaxStates \in Nat /\ MaxRestarts \in Nat /\ MaxFaults \in Nat

VARIABLES
    states,     \* keys of OAuthService.states
    lastState,  \* states generated so far
    aged,       \* states 1..aged were created more than ten minutes ago
    cookie,     \* cookie oauth_state of each browser, 0 when absent
    pages,      \* states whose provider page some browser has opened
    linkUser,   \* user_id in the row of each identity
    pc,         \* where each worker is
    client,     \* the browser each worker serves
    held,       \* the state the worker's request carries
    who,        \* the identity the provider reported to the worker
    begunBy,    \* history: the browser whose request generated each state
    issued,     \* history: sessions issued for each state
    issuedTo,   \* history: browsers that were issued a session for each state
    account,    \* history: users as whom each identity was signed in
    faults,     \* history: failed queries so far
    restarts    \* history: restarts so far

flow    == <<states, lastState, aged>>
jars    == <<cookie, pages>>
request == <<client, held, who>>
logins  == <<issued, issuedTo, account>>
vars    == <<flow, jars, linkUser, pc, request, begunBy, logins, faults, restarts>>

States == 1..MaxStates
NoState == 0

\* CompleteAuth names no user in the link it asks for.
Users == {NoUser}

\* CompleteAuth has taken the state out of the map and goes on with it.
TakenSteps == {"exchange", "userInfo", "find", "create", "issue"}
Steps == {"idle", "redirect", "take", "answer"} \cup TakenSteps

Carries(w, s) == pc[w] \in TakenSteps /\ held[w] = s

\* Generated, not in the hands of a callback, and forgotten or too old.
Useless(s) ==
    /\ s <= lastState
    /\ s \notin states \/ s <= aged
    /\ \A w \in Workers : ~Carries(w, s)

FlowTypes ==
    /\ lastState \in 0..MaxStates
    /\ aged \in 0..lastState
    /\ states \subseteq 1..lastState
    /\ cookie \in [Browsers -> 0..MaxStates]
    /\ pages \subseteq 1..lastState
    /\ \A b \in Browsers : cookie[b] <= lastState

RequestTypes ==
    /\ pc \in [Workers -> Steps]
    /\ client \in [Workers -> Browsers]
    /\ held \in [Workers -> 0..MaxStates]
    /\ who \in [Workers -> Identities]
    /\ \A w \in Workers : pc[w] \in Steps \ {"idle", "answer"} => held[w] \in 1..lastState

HistoryTypes ==
    /\ linkUser \in [Identities -> Users \cup {Unlinked}]
    /\ begunBy \in [States -> Browsers]
    /\ issued \in [States -> Nat]
    /\ issuedTo \in [States -> SUBSET Browsers]
    /\ account \in [Identities -> SUBSET Users]
    /\ faults \in 0..MaxFaults
    /\ restarts \in 0..MaxRestarts

TypeOK == FlowTypes /\ RequestTypes /\ HistoryTypes

\* A fresh server and table; client, who and begunBy mean nothing yet.
Init ==
    /\ states = {} /\ lastState = 0 /\ aged = 0
    /\ cookie = [b \in Browsers |-> NoState]
    /\ pages = {}
    /\ linkUser = [i \in Identities |-> Unlinked]
    /\ pc = [w \in Workers |-> "idle"]
    /\ \E b \in Browsers, i \in Identities :
          /\ client = [w \in Workers |-> b]
          /\ who = [w \in Workers |-> i]
          /\ begunBy = [s \in States |-> b]
    /\ held = [w \in Workers |-> NoState]
    /\ issued = [s \in States |-> 0]
    /\ issuedTo = [s \in States |-> {}]
    /\ account = [i \in Identities |-> {}]
    /\ faults = 0
    /\ restarts = 0

-----------------------------------------------------------------------------
Goto(w, step) == pc' = [pc EXCEPT ![w] = step]

Finish(w) == Goto(w, "idle") /\ held' = [held EXCEPT ![w] = NoState] /\ UNCHANGED <<client, who>>

Failed == faults < MaxFaults /\ faults' = faults + 1

-----------------------------------------------------------------------------
(* BeginAuth *)

\* A request for a known provider: the service stores a fresh state.
BeginAuth(w, b) ==
    /\ pc[w] = "idle"
    /\ lastState < MaxStates
    /\ lastState' = lastState + 1
    /\ states' = states \cup {lastState'}
    /\ begunBy' = [begunBy EXCEPT ![lastState'] = b]
    /\ held' = [held EXCEPT ![w] = lastState']
    /\ client' = [client EXCEPT ![w] = b]
    /\ Goto(w, "redirect")
    /\ UNCHANGED <<aged, jars, linkUser, who, logins, faults, restarts>>

\* The browser gets the cookie and opens the provider's page, or is gone.  The
\* answers of two tabs arrive in any order and the cookie keeps the last.
Redirect(w) ==
    /\ pc[w] = "redirect"
    /\ \/ /\ cookie' = [cookie EXCEPT ![client[w]] = held[w]]
          /\ pages' = pages \cup {held[w]}
       \/ UNCHANGED jars
    /\ Finish(w)
    /\ UNCHANGED <<flow, linkUser, begunBy, logins, faults, restarts>>

-----------------------------------------------------------------------------
(* Callback *)

\* Mutant of Callback: the cookie is not compared.
CallbackAnyCookie(w, b, s) ==
    /\ pc[w] = "idle"
    /\ s \in pages
    /\ held' = [held EXCEPT ![w] = s]
    /\ client' = [client EXCEPT ![w] = b]
    /\ Goto(w, "take")
    /\ UNCHANGED <<flow, jars, linkUser, who, begunBy, logins, faults, restarts>>

\* The provider's page sends the browser that shows it, reloads it or was handed
\* its address to the callback.  Without a code or with another cookie the handler
\* answers 400 and nothing changes.
Callback(w, b, s) ==
    /\ pc[w] = "idle"
    /\ s \in pages
    /\ cookie[b] = s
    /\ held' = [held EXCEPT ![w] = s]
    /\ client' = [client EXCEPT ![w] = b]
    /\ Goto(w, "take")
    /\ UNCHANGED <<flow, jars, linkUser, who, begunBy, logins, faults, restarts>>

\* Mutants of Take: the state stays in the map; its absence is not noticed.
TakeKeeps(w) ==
    /\ pc[w] = "take"
    /\ \/ held[w] \in states /\ held[w] > aged /\ Goto(w, "exchange")
       \/ (held[w] \notin states \/ held[w] <= aged) /\ Goto(w, "answer")
    /\ UNCHANGED <<flow, jars, linkUser, request, begunBy, logins, faults, restarts>>
TakeUnchecked(w) ==
    /\ pc[w] = "take"
    /\ states' = states \ {held[w]}
    /\ \/ held[w] > aged /\ Goto(w, "exchange")
       \/ held[w] <= aged /\ Goto(w, "answer")
    /\ UNCHANGED <<lastState, aged, jars, linkUser, request, begunBy, logins, faults, restarts>>

\* CompleteAuth looks the state up and deletes it under one lock, then refuses
\* one that is more than ten minutes old.
Take(w) ==
    /\ pc[w] = "take"
    /\ states' = states \ {held[w]}
    /\ \/ held[w] \in states /\ held[w] > aged /\ Goto(w, "exchange")
       \/ (held[w] \notin states \/ held[w] <= aged) /\ Goto(w, "answer")
    /\ UNCHANGED <<lastState, aged, jars, linkUser, request, begunBy, logins, faults, restarts>>

\* The provider redeems the code or refuses it.
ExchangeCode(w) ==
    /\ pc[w] = "exchange"
    /\ Goto(w, "userInfo") \/ Goto(w, "answer")
    /\ UNCHANGED <<flow, jars, linkUser, request, begunBy, logins, faults, restarts>>

\* The provider reports the identity that approved, or nothing.
GetUserInfo(w) ==
    /\ pc[w] = "userInfo"
    /\ \/ \E i \in Identities : who' = [who EXCEPT ![w] = i] /\ Goto(w, "find")
       \/ UNCHANGED who /\ Goto(w, "answer")
    /\ UNCHANGED <<flow, jars, linkUser, client, held, begunBy, logins, faults, restarts>>

\* LinkOrCreate takes a query that fails for a link that is not there.
FindByProvider(w) ==
    /\ pc[w] = "find"
    /\ \/ linkUser[who[w]] # Unlinked /\ Goto(w, "issue") /\ UNCHANGED faults
       \/ linkUser[who[w]] = Unlinked /\ Goto(w, "create") /\ UNCHANGED faults
       \/ Failed /\ Goto(w, "create")
    /\ UNCHANGED <<flow, jars, linkUser, request, begunBy, logins, restarts>>

\* CREATE oauth_accounts with the user id CompleteAuth left empty.
Linked(w) == linkUser' = [linkUser EXCEPT ![who[w]] = NoUser]

\* Mutant of CreateLink: its error is dropped.
CreateLinkUnchecked(w) ==
    /\ pc[w] = "create"
    /\ \/ linkUser[who[w]] = Unlinked /\ Linked(w) /\ UNCHANGED faults
       \/ linkUser[who[w]] # Unlinked /\ UNCHANGED <<linkUser, faults>>
       \/ Failed /\ UNCHANGED linkUser
    /\ Goto(w, "issue")
    /\ UNCHANGED <<flow, jars, request, begunBy, logins, restarts>>

\* The record id and the unique index on provider and sub refuse a second row.  A
\* statement that failed may have run: the pool repeats it and the repetition is
\* refused.
CreateLink(w) ==
    /\ pc[w] = "create"
    /\ \/ linkUser[who[w]] = Unlinked /\ Linked(w) /\ UNCHANGED faults /\ Goto(w, "issue")
       \/ linkUser[who[w]] # Unlinked /\ UNCHANGED <<linkUser, faults>> /\ Goto(w, "answer")
       \/ /\ Failed /\ Goto(w, "answer")
          /\ \/ linkUser[who[w]] = Unlinked /\ Linked(w)
             \/ UNCHANGED linkUser
    /\ UNCHANGED <<flow, jars, request, begunBy, logins, restarts>>

\* IssueSession for the user the link names: the row's, or the one just written.
IssueSession(w) ==
    /\ pc[w] = "issue"
    /\ \/ /\ issued' = [issued EXCEPT ![held[w]] = @ + 1]
          /\ issuedTo' = [issuedTo EXCEPT ![held[w]] = @ \cup {client[w]}]
          /\ account' = [account EXCEPT ![who[w]] = @ \cup {NoUser}]
          /\ UNCHANGED faults
       \/ Failed /\ UNCHANGED logins
    /\ Goto(w, "answer")
    /\ UNCHANGED <<flow, jars, linkUser, request, begunBy, restarts>>

\* Every answer after the comparison removes the cookie, also one that a later
\* BeginAuth of another tab has set since.  The answer may be lost.
Answer(w) ==
    /\ pc[w] = "answer"
    /\ cookie' = [cookie EXCEPT ![client[w]] = NoState] \/ UNCHANGED cookie
    /\ Finish(w)
    /\ UNCHANGED <<flow, pages, linkUser, begunBy, logins, faults, restarts>>

-----------------------------------------------------------------------------
\* Ten minutes pass for the oldest state that is younger.
Age ==
    /\ aged < lastState
    /\ aged' = aged + 1
    /\ UNCHANGED <<states, lastState, jars, linkUser, pc, request, begunBy, logins, faults, restarts>>

\* Max-Age of the cookie: it was set after its state was generated.
CookieExpires(b) ==
    /\ cookie[b] \in 1..aged
    /\ cookie' = [cookie EXCEPT ![b] = NoState]
    /\ UNCHANGED <<flow, pages, linkUser, pc, request, begunBy, logins, faults, restarts>>

\* The process restarts: requests end where they are and the map is empty again.
Restart ==
    /\ restarts < MaxRestarts
    /\ restarts' = restarts + 1
    /\ states' = {}
    /\ pc' = [w \in Workers |-> "idle"]
    /\ held' = [w \in Workers |-> NoState]
    /\ UNCHANGED <<lastState, aged, jars, linkUser, client, who, begunBy, logins, faults>>

CallbackNext(w) ==
    \/ \E b \in Browsers, s \in States : Callback(w, b, s)
    \/ Take(w) \/ ExchangeCode(w) \/ GetUserInfo(w)
    \/ FindByProvider(w) \/ CreateLink(w) \/ IssueSession(w) \/ Answer(w)

Next ==
    \/ \E w \in Workers :
          \/ \E b \in Browsers : BeginAuth(w, b)
          \/ Redirect(w)
          \/ CallbackNext(w)
    \/ \E b \in Browsers : CookieExpires(b)
    \/ Age \/ Restart

Spec == Init /\ [][Next]_vars

-----------------------------------------------------------------------------
\* A state logs in at most once, however often and by however many requests its
\* callback is repeated (delete under the lock, oauth_service.go:132).
OneSessionPerState == \A s \in States : issued[s] <= 1

\* A state is a one-time ticket: the map, the requests that took a state out of it
\* and the sessions issued for it account for every state that was generated, also
\* when states expire, providers refuse, queries fail and the server restarts
\* (oauth_service.go:130-143).
StateTickets ==
    INSTANCE Tickets WITH Ids <- States, drawn <- 1..lastState, open <- states,
                          taken <- {s \in States : \E w \in Workers : Carries(w, s)},
                          uses <- issued
KeepsTickets == StateTickets!TicketsSpec

\* A session is only issued to the browser that began the flow, also when the
\* callback's address is opened in another one (oauth_handler.go:92).
SessionWhereBegun == \A s \in States : issuedTo[s] \subseteq {begunBy[s]}

\* Whoever was signed in has a link that names the same user, whatever became of
\* the two queries of LinkOrCreate (oauth_repo.go:31-57).
NoSessionWithoutLink == \A i \in Identities : account[i] \subseteq {linkUser[i]}

\* A state that was consumed, lost by a restart or older than ten minutes when its
\* callback came never logs in again (oauth_service.go:133-143).
UselessStaysUseless ==
    [][\A s \in States : Useless(s) => Useless(s)' /\ issued'[s] = issued[s]]_vars

\* oauth_repo.go:24, "Returns the userID (existing or newly created)", and
\* 004_oauth_accounts.surrealql:36, one account at the provider is one user: two
\* identities never sign in as the same user.  Nobody creates a user: refuted.
IdentitiesKeepApart ==
    \A i, j \in Identities : i # j => account[i] \cap account[j] = {}
=============================================================================
