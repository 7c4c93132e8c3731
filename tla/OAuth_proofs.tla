--------------------------- MODULE OAuth_proofs ---------------------------
(***************************************************************************)
(* Theorems about OAuth for any number of browsers, identities, workers,    *)
(* flows, restarts and faults.                                              *)
(***************************************************************************)
EXTENDS OAuth, TLAPS

-----------------------------------------------------------------------------
(* Types *)

\* The initial state, an empty map and an empty table, has the types of TypeOK.
LEMMA TypeInit == Init => TypeOK
<1> SUFFICES ASSUME Init PROVE TypeOK
  OBVIOUS
<1>1. FlowTypes
  BY BoundAssumption DEF Init, FlowTypes, NoState
<1>2. RequestTypes
  BY BoundAssumption DEF Init, RequestTypes, Steps, NoState
<1>3. HistoryTypes
  BY BoundAssumption DEF Init, HistoryTypes, Users, States
<1>4. QED
  BY <1>1, <1>2, <1>3 DEF TypeOK

\* Every step of a handler, of the clock and of a restart keeps the types: a request
\* past its first step carries a state that was generated.
LEMMA TypeStep == TypeOK /\ [Next]_vars => TypeOK'
<1> SUFFICES ASSUME TypeOK, [Next]_vars PROVE TypeOK'
  OBVIOUS
<1> USE BoundAssumption DEF TypeOK
<1>1. ASSUME NEW w \in Workers, NEW b \in Browsers, BeginAuth(w, b) PROVE TypeOK'
  <2>1. FlowTypes'
    BY <1>1 DEF BeginAuth, jars, FlowTypes
  <2>2. RequestTypes'
    BY <1>1 DEF BeginAuth, Goto, FlowTypes, RequestTypes, Steps
  <2>3. HistoryTypes'
    BY <1>1 DEF BeginAuth, logins, HistoryTypes
  <2>4. QED
    BY <2>1, <2>2, <2>3
<1>2. ASSUME NEW w \in Workers, Redirect(w) PROVE TypeOK'
  <2>1. FlowTypes'
    <3>1. held[w] \in 1..lastState /\ client[w] \in Browsers
      BY <1>2 DEF Redirect, RequestTypes
    <3>2. held[w] \in 0..MaxStates
      BY DEF RequestTypes
    <3>3. cookie' \in [Browsers -> 0..MaxStates]
      BY <1>2, <3>2 DEF Redirect, FlowTypes, jars
    <3>4. pages' \subseteq 1..lastState
      BY <1>2, <3>1 DEF Redirect, FlowTypes, jars
    <3>5. \A b \in Browsers : cookie'[b] <= lastState
      BY <1>2, <3>1 DEF Redirect, FlowTypes, jars
    <3>6. UNCHANGED flow
      BY <1>2 DEF Redirect
    <3>7. QED
      BY <3>3, <3>4, <3>5, <3>6 DEF FlowTypes, flow
  <2>2. RequestTypes'
    BY <1>2 DEF Redirect, Finish, Goto, flow, RequestTypes, Steps, NoState
  <2>3. HistoryTypes'
    BY <1>2 DEF Redirect, logins, HistoryTypes
  <2>4. QED
    BY <2>1, <2>2, <2>3
<1>3. ASSUME NEW w \in Workers, NEW b \in Browsers, NEW s \in States, Callback(w, b, s) PROVE TypeOK'
  <2>1. FlowTypes'
    BY <1>3 DEF Callback, flow, jars, FlowTypes
  <2>2. RequestTypes'
    BY <1>3 DEF Callback, Goto, flow, FlowTypes, RequestTypes, Steps
  <2>3. HistoryTypes'
    BY <1>3 DEF Callback, logins, HistoryTypes
  <2>4. QED
    BY <2>1, <2>2, <2>3
<1>4. ASSUME NEW w \in Workers, Take(w) PROVE TypeOK'
  <2>1. FlowTypes'
    BY <1>4 DEF Take, jars, FlowTypes
  <2>2. RequestTypes'
    BY <1>4 DEF Take, Goto, request, RequestTypes, Steps, TakenSteps
  <2>3. HistoryTypes'
    BY <1>4 DEF Take, logins, HistoryTypes
  <2>4. QED
    BY <2>1, <2>2, <2>3
<1>5. ASSUME NEW w \in Workers, ExchangeCode(w) PROVE TypeOK'
  <2>1. FlowTypes'
    BY <1>5 DEF ExchangeCode, flow, jars, FlowTypes
  <2>2. RequestTypes'
    BY <1>5 DEF ExchangeCode, Goto, flow, request, RequestTypes, Steps, TakenSteps
  <2>3. HistoryTypes'
    BY <1>5 DEF ExchangeCode, logins, HistoryTypes
  <2>4. QED
    BY <2>1, <2>2, <2>3
<1>6. ASSUME NEW w \in Workers, GetUserInfo(w) PROVE TypeOK'
  <2>1. FlowTypes'
    BY <1>6 DEF GetUserInfo, flow, jars, FlowTypes
  <2>2. RequestTypes'
    BY <1>6 DEF GetUserInfo, Goto, flow, RequestTypes, Steps, TakenSteps
  <2>3. HistoryTypes'
    BY <1>6 DEF GetUserInfo, logins, HistoryTypes
  <2>4. QED
    BY <2>1, <2>2, <2>3
<1>7. ASSUME NEW w \in Workers, FindByProvider(w) PROVE TypeOK'
  <2>1. FlowTypes'
    BY <1>7 DEF FindByProvider, flow, jars, FlowTypes
  <2>2. RequestTypes'
    BY <1>7 DEF FindByProvider, Goto, flow, request, RequestTypes, Steps, TakenSteps
  <2>3. HistoryTypes'
    BY <1>7 DEF FindByProvider, Failed, logins, HistoryTypes
  <2>4. QED
    BY <2>1, <2>2, <2>3
<1>8. ASSUME NEW w \in Workers, CreateLink(w) PROVE TypeOK'
  <2>1. FlowTypes'
    BY <1>8 DEF CreateLink, flow, jars, FlowTypes
  <2>2. RequestTypes'
    BY <1>8 DEF CreateLink, Goto, flow, request, RequestTypes, Steps, TakenSteps
  <2>3. HistoryTypes'
    <3>1. linkUser' \in [Identities -> Users \cup {Unlinked}]
      BY <1>8 DEF CreateLink, Linked, HistoryTypes, Users
    <3>2. faults' \in 0..MaxFaults
      BY <1>8 DEF CreateLink, Failed, HistoryTypes
    <3>3. QED
      BY <1>8, <3>1, <3>2 DEF CreateLink, HistoryTypes, logins
  <2>4. QED
    BY <2>1, <2>2, <2>3
<1>9. ASSUME NEW w \in Workers, IssueSession(w) PROVE TypeOK'
  <2>1. FlowTypes'
    BY <1>9 DEF IssueSession, flow, jars, FlowTypes
  <2>2. RequestTypes'
    BY <1>9 DEF IssueSession, Goto, flow, request, RequestTypes, Steps
  <2>3. HistoryTypes'
    <3>1. issued' \in [States -> Nat]
      BY <1>9 DEF IssueSession, HistoryTypes, logins
    <3>2. issuedTo' \in [States -> SUBSET Browsers]
      BY <1>9 DEF IssueSession, HistoryTypes, RequestTypes, logins
    <3>3. account' \in [Identities -> SUBSET Users]
      BY <1>9 DEF IssueSession, HistoryTypes, Users, logins
    <3>4. faults' \in 0..MaxFaults
      BY <1>9 DEF IssueSession, Failed, HistoryTypes
    <3>5. QED
      BY <1>9, <3>1, <3>2, <3>3, <3>4 DEF IssueSession, HistoryTypes
  <2>4. QED
    BY <2>1, <2>2, <2>3
<1>10. ASSUME NEW w \in Workers, Answer(w) PROVE TypeOK'
  <2>1. FlowTypes'
    BY <1>10 DEF Answer, flow, FlowTypes, NoState
  <2>2. RequestTypes'
    BY <1>10 DEF Answer, Finish, Goto, flow, RequestTypes, Steps, NoState
  <2>3. HistoryTypes'
    BY <1>10 DEF Answer, logins, HistoryTypes
  <2>4. QED
    BY <2>1, <2>2, <2>3
<1>11. ASSUME NEW b \in Browsers, CookieExpires(b) PROVE TypeOK'
  <2>1. FlowTypes'
    BY <1>11 DEF CookieExpires, flow, FlowTypes, NoState
  <2>2. RequestTypes'
    BY <1>11 DEF CookieExpires, flow, request, RequestTypes
  <2>3. HistoryTypes'
    BY <1>11 DEF CookieExpires, logins, HistoryTypes
  <2>4. QED
    BY <2>1, <2>2, <2>3
<1>12. ASSUME Age PROVE TypeOK'
  <2>1. FlowTypes'
    BY <1>12 DEF Age, jars, FlowTypes
  <2>2. RequestTypes'
    BY <1>12 DEF Age, request, RequestTypes
  <2>3. HistoryTypes'
    BY <1>12 DEF Age, logins, HistoryTypes
  <2>4. QED
    BY <2>1, <2>2, <2>3
<1>13. ASSUME Restart PROVE TypeOK'
  <2>1. FlowTypes'
    BY <1>13 DEF Restart, jars, FlowTypes
  <2>2. RequestTypes'
    BY <1>13 DEF Restart, RequestTypes, Steps, NoState
  <2>3. HistoryTypes'
    BY <1>13 DEF Restart, logins, HistoryTypes
  <2>4. QED
    BY <2>1, <2>2, <2>3
<1>14. CASE UNCHANGED vars
  BY <1>14 DEF vars, flow, jars, request, logins, FlowTypes, RequestTypes, HistoryTypes
<1>15. QED
  BY <1>1, <1>2, <1>3, <1>4, <1>5, <1>6, <1>7, <1>8, <1>9, <1>10, <1>11, <1>12, <1>13, <1>14
     DEF Next, CallbackNext

\* The map, the cookies, the requests and the table always have their types.
THEOREM TypeCorrect == Spec => []TypeOK
  BY TypeInit, TypeStep, PTL DEF Spec

-----------------------------------------------------------------------------
(* What a step can do to a state *)

\* The map only grows by the next state, and time goes on.
LEMMA FlowStep ==
    ASSUME TypeOK, [Next]_vars
    PROVE  /\ lastState <= lastState'
           /\ aged <= aged'
           /\ \A s \in states' : s \in states \/ s > lastState
<1> USE DEF TypeOK, FlowTypes
<1>1. ASSUME NEW w \in Workers, NEW b \in Browsers, BeginAuth(w, b)
      PROVE  /\ lastState <= lastState'
             /\ aged <= aged'
             /\ \A s \in states' : s \in states \/ s > lastState
  BY <1>1 DEF BeginAuth
<1>2. ASSUME NEW w \in Workers, Redirect(w) \/ CallbackNext(w)
      PROVE  UNCHANGED <<lastState, aged>> /\ states' \subseteq states
  BY <1>2 DEF Redirect, CallbackNext, Callback, Take, ExchangeCode, GetUserInfo, FindByProvider,
              CreateLink, IssueSession, Answer, flow
<1>3. ASSUME (\E b \in Browsers : CookieExpires(b)) \/ Restart \/ UNCHANGED vars
      PROVE  UNCHANGED <<lastState, aged>> /\ states' \subseteq states
  BY <1>3 DEF CookieExpires, Restart, flow, vars
<1>4. CASE Age
  BY <1>4 DEF Age
<1>5. QED
  BY <1>1, <1>2, <1>3, <1>4 DEF Next

\* A request gets hold of a state by taking it out of the map, and not too late.
Takes(w, s) ==
    /\ Take(w)
    /\ held[w] = s
    /\ s \in states /\ s > aged
    /\ s \notin states'

\* Only Take puts a state in the hands of a request.
LEMMA CarriesStep ==
    ASSUME TypeOK, [Next]_vars, NEW w \in Workers, NEW s \in States, Carries(w, s)'
    PROVE  Carries(w, s) \/ Takes(w, s)
<1> USE DEF TypeOK, RequestTypes, Carries
<1>1. ASSUME NEW v \in Workers, NEW b \in Browsers, BeginAuth(v, b) PROVE Carries(w, s)
  BY <1>1 DEF BeginAuth, Goto, TakenSteps
<1>2. ASSUME NEW v \in Workers, Redirect(v) \/ Answer(v) PROVE Carries(w, s)
  BY <1>2 DEF Redirect, Answer, Finish, Goto, TakenSteps
<1>3. ASSUME NEW v \in Workers, NEW b \in Browsers, NEW t \in States, Callback(v, b, t)
      PROVE  Carries(w, s)
  BY <1>3 DEF Callback, Goto, TakenSteps
<1>4. ASSUME NEW v \in Workers, Take(v) PROVE Carries(w, s) \/ Takes(w, s)
  BY <1>4 DEF Take, Takes, Goto, request, TakenSteps
<1>5. ASSUME NEW v \in Workers, ExchangeCode(v) PROVE Carries(w, s)
  BY <1>5 DEF ExchangeCode, Goto, request, TakenSteps
<1>6. ASSUME NEW v \in Workers, GetUserInfo(v) PROVE Carries(w, s)
  BY <1>6 DEF GetUserInfo, Goto, TakenSteps
<1>7. ASSUME NEW v \in Workers, FindByProvider(v) PROVE Carries(w, s)
  BY <1>7 DEF FindByProvider, Goto, request, TakenSteps
<1>8. ASSUME NEW v \in Workers, CreateLink(v) PROVE Carries(w, s)
  BY <1>8 DEF CreateLink, Goto, request, TakenSteps
<1>9. ASSUME NEW v \in Workers, IssueSession(v) PROVE Carries(w, s)
  BY <1>9 DEF IssueSession, Goto, request, TakenSteps
<1>10. ASSUME (\E b \in Browsers : CookieExpires(b)) \/ Age \/ Restart \/ UNCHANGED vars
       PROVE  Carries(w, s)
  BY <1>10 DEF CookieExpires, Age, Restart, vars, request, TakenSteps
<1>11. QED
  BY <1>1, <1>2, <1>3, <1>4, <1>5, <1>6, <1>7, <1>8, <1>9, <1>10 DEF Next, CallbackNext

\* A session is issued by a request that carries its state and gives it up by that.
Issues(w, s) ==
    /\ Carries(w, s) /\ ~Carries(w, s)'
    /\ client[w] \in Browsers
    /\ issued'[s] = issued[s] + 1
    /\ issuedTo'[s] = issuedTo[s] \cup {client[w]}
    /\ states' = states
    /\ \A v \in Workers \ {w} : Carries(v, s)' => Carries(v, s)

\* Only IssueSession counts a session.
LEMMA IssuedStep ==
    ASSUME TypeOK, [Next]_vars, NEW s \in States
    PROVE  \/ issued'[s] = issued[s] /\ issuedTo'[s] = issuedTo[s]
           \/ \E w \in Workers : Issues(w, s)
<1>1. ASSUME NEW w \in Workers, IssueSession(w)
      PROVE  (issued'[s] = issued[s] /\ issuedTo'[s] = issuedTo[s]) \/ Issues(w, s)
  <2>1. CASE UNCHANGED logins
    BY <2>1 DEF logins
  <2>2. CASE ~UNCHANGED logins /\ held[w] = s
    BY <1>1, <2>2 DEF IssueSession, Issues, Carries, Goto, flow, request, TakenSteps, TypeOK,
                      RequestTypes, HistoryTypes
  <2>3. CASE ~UNCHANGED logins /\ held[w] # s
    BY <1>1, <2>3 DEF IssueSession, TypeOK, HistoryTypes
  <2>4. QED
    BY <2>1, <2>2, <2>3
<1>2. ASSUME \/ \E w \in Workers : \/ \E b \in Browsers : BeginAuth(w, b)
                                   \/ Redirect(w)
                                   \/ \E b \in Browsers, t \in States : Callback(w, b, t)
                                   \/ Take(w) \/ ExchangeCode(w) \/ GetUserInfo(w)
                                   \/ FindByProvider(w) \/ CreateLink(w) \/ Answer(w)
             \/ \E b \in Browsers : CookieExpires(b)
             \/ Age \/ Restart \/ UNCHANGED vars
      PROVE  UNCHANGED logins
  BY <1>2 DEF BeginAuth, Redirect, Callback, Take, ExchangeCode, GetUserInfo, FindByProvider,
              CreateLink, Answer, CookieExpires, Age, Restart, vars
<1>3. QED
  BY <1>1, <1>2 DEF Next, CallbackNext, logins

-----------------------------------------------------------------------------
(* A state logs in once *)

\* A state is in the map, or in the hands of one request, or used, or gone: never
\* two of these.  The bound on issued[s] alone is not inductive.
OnceOK(s) ==
    /\ s \in states => issued[s] = 0 /\ \A w \in Workers : ~Carries(w, s)
    /\ \A w \in Workers : Carries(w, s) =>
          issued[s] = 0 /\ \A v \in Workers : Carries(v, s) => v = w
    /\ s > lastState => issued[s] = 0
    /\ issued[s] <= 1

\* No two requests ever hold one state, and none that has logged in.
LEMMA OnceStep ==
    ASSUME TypeOK, [Next]_vars, NEW s \in States, OnceOK(s)
    PROVE  OnceOK(s)'
<1>1. issued[s] \in Nat /\ lastState \in Nat /\ lastState' \in Nat /\ s \in Nat
  <2>1. TypeOK'
    BY TypeStep
  <2>2. lastState \in Nat /\ lastState' \in Nat
    BY <2>1 DEF TypeOK, FlowTypes
  <2>3. issued[s] \in Nat
    BY DEF TypeOK, HistoryTypes
  <2>4. QED
    BY <2>2, <2>3 DEF States
<1>2. s > lastState => \A w \in Workers : ~Carries(w, s)
  <2>1. ASSUME NEW w \in Workers, Carries(w, s) PROVE s \in 1..lastState
    BY <2>1 DEF TypeOK, RequestTypes, Carries, Steps, TakenSteps
  <2>2. QED
    BY <1>1, <2>1
<1>3. ASSUME NEW w \in Workers, Issues(w, s) PROVE OnceOK(s)'
  <2>1. issued[s] = 0 /\ issued'[s] = 1
    BY <1>3 DEF OnceOK, Issues
  <2>2. s \notin states' /\ s <= lastState'
    BY <1>1, <1>2, <1>3, FlowStep DEF OnceOK, Issues
  <2>3. \A v \in Workers : ~Carries(v, s)'
    BY <1>3 DEF OnceOK, Issues
  <2>4. QED
    BY <1>1, <2>1, <2>2, <2>3 DEF OnceOK
<1>4. CASE issued'[s] = issued[s] /\ \E w \in Workers : Takes(w, s)
  <2>1. PICK w \in Workers : Takes(w, s)
    BY <1>4
  <2>2. \A v \in Workers : Carries(v, s)' => v = w
    <3>1. ASSUME NEW v \in Workers, Takes(v, s) PROVE v = w
      BY <2>1, <3>1 DEF Takes, Take, Goto, TypeOK, RequestTypes
    <3>2. QED
      BY <2>1, <3>1, CarriesStep DEF OnceOK, Takes
  <2>3. s \notin states' /\ issued'[s] = 0 /\ s <= lastState'
    BY <1>1, <1>4, <2>1, FlowStep DEF OnceOK, Takes, TypeOK, FlowTypes
  <2>4. QED
    BY <1>1, <2>2, <2>3 DEF OnceOK
<1>5. CASE issued'[s] = issued[s] /\ ~\E w \in Workers : Takes(w, s)
  <2>1. \A v \in Workers : Carries(v, s)' => Carries(v, s)
    BY <1>5, CarriesStep
  <2>2. QED
    BY <1>1, <1>2, <1>5, <2>1, FlowStep DEF OnceOK
<1>6. QED
  BY <1>3, <1>4, <1>5, IssuedStep

LEMMA StatesOnce == Spec => [](\A s \in States : OnceOK(s))
<1> DEFINE Once == \A s \in States : OnceOK(s)
<1>1. Init => Once
  BY DEF Init, OnceOK, Carries, TakenSteps
<1>2. TypeOK /\ Once /\ [Next]_vars => Once'
  BY OnceStep
<1> HIDE DEF Once
<1>3. Spec => []Once
  BY <1>1, <1>2, TypeCorrect, PTL DEF Spec
<1>4. QED
  BY <1>3 DEF Once

\* No state is ever redeemed for two sessions, by any number of repeated callbacks.
THEOREM StateLogsInOnce == Spec => []OneSessionPerState
<1>1. (\A s \in States : OnceOK(s)) => OneSessionPerState
  BY DEF OnceOK, OneSessionPerState
<1>2. QED
  BY <1>1, StatesOnce, PTL

\* A consumed, forgotten or expired state never logs in again.
THEOREM UselessForever == Spec => UselessStaysUseless
<1>1. ASSUME TypeOK, [Next]_vars, NEW s \in States, Useless(s)
      PROVE  Useless(s)' /\ issued'[s] = issued[s]
  <2>1. \A w \in Workers : ~Takes(w, s) /\ ~Issues(w, s)
    BY <1>1 DEF Useless, Takes, Issues, TypeOK, FlowTypes, States
  <2>2. \A w \in Workers : ~Carries(w, s)'
    BY <1>1, <2>1, CarriesStep DEF Useless
  <2>3. s <= lastState' /\ (s \notin states' \/ s <= aged')
    BY <1>1, TypeStep, FlowStep DEF Useless, TypeOK, FlowTypes, States
  <2>4. QED
    BY <1>1, <2>1, <2>2, <2>3, IssuedStep DEF Useless
<1>2. TypeOK /\ [Next]_vars => [\A s \in States : Useless(s) => Useless(s)' /\ issued'[s] = issued[s]]_vars
  BY <1>1
<1>3. QED
  BY <1>2, TypeCorrect, PTL DEF Spec, UselessStaysUseless

-----------------------------------------------------------------------------
(* States are one-time tickets *)

\* States are tickets.  What a step does to the map, to the states in the hands of
\* requests and to the sessions is a step of Tickets.
Handed == {s \in States : \E w \in Workers : Carries(w, s)}

TicketStep == [StateTickets!TicketsNext]_(StateTickets!tickets)

\* A request keeps what it carries unless it leaves the steps that carry.
LEMMA NothingHanded ==
    ASSUME UNCHANGED <<lastState, states, issued>>,
           \A v \in Workers, s \in States : Carries(v, s)' <=> Carries(v, s)
    PROVE  TicketStep
<1>1. Handed' = Handed
  BY DEF Handed
<1>2. QED
  BY <1>1 DEF TicketStep, StateTickets!tickets, Handed

\* The request that carries a state is the only one; when it ends, the state is forgotten.
LEMMA Forgets ==
    ASSUME TypeOK, \A s \in States : OnceOK(s), NEW w \in Workers, pc[w] \in TakenSteps,
           UNCHANGED <<lastState, states, issued, held>>,
           pc' = [pc EXCEPT ![w] = "answer"]
    PROVE  TicketStep
<1>1. held[w] \in States /\ Carries(w, held[w])
  BY BoundAssumption DEF TypeOK, FlowTypes, RequestTypes, States, Steps, TakenSteps, Carries
<1>2. \A v \in Workers, s \in States : Carries(v, s)' <=> Carries(v, s) /\ s # held[w]
  BY <1>1 DEF OnceOK, Carries, TypeOK, RequestTypes, TakenSteps
<1>3. held[w] \in Handed /\ Handed' = Handed \ {held[w]}
  BY <1>1, <1>2 DEF Handed
<1>4. held[w] \notin states
  BY <1>1 DEF OnceOK
<1>5. StateTickets!Forget({held[w]})
  BY <1>3, <1>4 DEF StateTickets!Forget, Handed
<1>6. QED
  BY <1>3, <1>5 DEF TicketStep, StateTickets!TicketsNext, Handed

LEMMA TakeIsTicketStep ==
    ASSUME TypeOK, \A s \in States : OnceOK(s), NEW w \in Workers, Take(w)
    PROVE  TicketStep
<1> DEFINE s == held[w]
<1>1. s \in States
  BY BoundAssumption DEF Take, TypeOK, FlowTypes, RequestTypes, States, Steps
<1>2. CASE s \in states /\ s > aged
  <2>1. pc' = [pc EXCEPT ![w] = "exchange"] /\ held' = held
    BY <1>2, <1>1 DEF Take, Goto, request, TypeOK, FlowTypes, States
  <2>2. \A v \in Workers, t \in States : Carries(v, t)' <=> Carries(v, t) \/ (v = w /\ t = s)
    BY <2>1 DEF Take, Carries, TakenSteps, TypeOK, RequestTypes
  <2>3. Handed' = Handed \cup {s}
    BY <1>1, <2>2 DEF Handed
  <2>4. StateTickets!Hand(s)
    BY <1>2, <2>3 DEF Take, StateTickets!Hand, logins, Handed
  <2>5. QED
    BY <1>1, <2>4 DEF TicketStep, StateTickets!TicketsNext
<1>3. CASE s \notin states \/ s <= aged
  <2>1. pc' = [pc EXCEPT ![w] = "answer"] /\ held' = held
    BY <1>3, <1>1 DEF Take, Goto, request, TypeOK, FlowTypes, States
  <2>2. \A v \in Workers, t \in States : Carries(v, t)' <=> Carries(v, t)
    BY <2>1 DEF Take, Carries, TakenSteps, TypeOK, RequestTypes
  <2>3. UNCHANGED <<lastState, issued>> /\ states' = states \ {s}
    BY DEF Take, logins
  <2>4. CASE s \notin states
    BY <2>2, <2>3, <2>4, NothingHanded
  <2>5. CASE s \in states
    <3>1. s \notin Handed
      BY <1>1, <2>5 DEF OnceOK, Handed
    <3>2. Handed' = Handed
      BY <2>2 DEF Handed
    <3>3. StateTickets!Forget({s})
      BY <2>3, <3>1, <3>2 DEF StateTickets!Forget, Handed
    <3>4. QED
      BY <2>5, <3>3 DEF TicketStep, StateTickets!TicketsNext
  <2>6. QED
    BY <2>4, <2>5
<1>4. QED
  BY <1>1, <1>2, <1>3 DEF TypeOK, FlowTypes, States

LEMMA IssueIsTicketStep ==
    ASSUME TypeOK, \A s \in States : OnceOK(s), NEW w \in Workers, IssueSession(w)
    PROVE  TicketStep
<1> DEFINE s == held[w]
<1>1. s \in States /\ Carries(w, s) /\ pc[w] \in TakenSteps
  BY BoundAssumption
     DEF IssueSession, TypeOK, FlowTypes, RequestTypes, States, Steps, TakenSteps, Carries
<1>2. pc' = [pc EXCEPT ![w] = "answer"] /\ UNCHANGED <<lastState, states, held>>
  BY DEF IssueSession, Goto, flow, request
<1>3. CASE UNCHANGED logins
  BY <1>1, <1>2, <1>3, Forgets DEF logins
<1>4. CASE issued' = [issued EXCEPT ![s] = @ + 1]
  <2>1. \A v \in Workers, t \in States : Carries(v, t)' <=> Carries(v, t) /\ t # s
    BY <1>1, <1>2 DEF OnceOK, Carries, TypeOK, RequestTypes, TakenSteps
  <2>2. s \in Handed /\ Handed' = Handed \ {s}
    BY <1>1, <2>1 DEF Handed
  <2>3. StateTickets!Use(s)
    BY <1>2, <1>4, <2>2 DEF StateTickets!Use, Handed
  <2>4. QED
    BY <1>1, <2>3 DEF TicketStep, StateTickets!TicketsNext
<1>5. QED
  BY <1>3, <1>4 DEF IssueSession

LEMMA TicketSteps == TypeOK /\ (\A s \in States : OnceOK(s)) /\ [Next]_vars => TicketStep
<1> SUFFICES ASSUME TypeOK, \A s \in States : OnceOK(s), [Next]_vars PROVE TicketStep
  OBVIOUS
<1>1. ASSUME NEW w \in Workers, NEW b \in Browsers, BeginAuth(w, b) PROVE TicketStep
  <2>1. lastState \in Nat /\ lastState + 1 \in States
    BY <1>1, BoundAssumption DEF BeginAuth, TypeOK, FlowTypes, States
  <2>2. \A v \in Workers, t \in States : Carries(v, t)' <=> Carries(v, t)
    BY <1>1 DEF BeginAuth, Goto, Carries, TakenSteps, TypeOK, RequestTypes
  <2>3. Handed' = Handed
    BY <2>2 DEF Handed
  <2>4. StateTickets!Draw(lastState + 1)
    BY <1>1, <2>1, <2>3 DEF BeginAuth, StateTickets!Draw, logins, Handed
  <2>5. QED
    BY <2>1, <2>4 DEF TicketStep, StateTickets!TicketsNext
<1>2. ASSUME NEW w \in Workers, Redirect(w) \/ Answer(w) PROVE TicketStep
  <2>1. \A v \in Workers, t \in States : Carries(v, t)' <=> Carries(v, t)
    BY <1>2 DEF Redirect, Answer, Finish, Goto, Carries, TakenSteps, TypeOK, RequestTypes
  <2>2. QED
    BY <1>2, <2>1, NothingHanded DEF Redirect, Answer, flow, logins
<1>3. ASSUME NEW w \in Workers, NEW b \in Browsers, NEW s \in States, Callback(w, b, s)
      PROVE  TicketStep
  <2>1. \A v \in Workers, t \in States : Carries(v, t)' <=> Carries(v, t)
    BY <1>3 DEF Callback, Goto, Carries, TakenSteps, TypeOK, RequestTypes
  <2>2. QED
    BY <1>3, <2>1, NothingHanded DEF Callback, flow, logins
<1>4. ASSUME NEW w \in Workers,
             ExchangeCode(w) \/ GetUserInfo(w) \/ FindByProvider(w) \/ CreateLink(w)
      PROVE  TicketStep
  <2>1. UNCHANGED <<lastState, states, issued, held>> /\ pc[w] \in TakenSteps
    BY <1>4 DEF ExchangeCode, GetUserInfo, FindByProvider, CreateLink, flow, logins, request, TakenSteps
  <2>2. \/ pc' = [pc EXCEPT ![w] = "answer"]
        \/ \E step \in TakenSteps : pc' = [pc EXCEPT ![w] = step]
    BY <1>4 DEF ExchangeCode, GetUserInfo, FindByProvider, CreateLink, Goto, TakenSteps
  <2>3. CASE pc' = [pc EXCEPT ![w] = "answer"]
    BY <2>1, <2>3, Forgets
  <2>4. CASE \E step \in TakenSteps : pc' = [pc EXCEPT ![w] = step]
    <3>1. \A v \in Workers, t \in States : Carries(v, t)' <=> Carries(v, t)
      BY <2>1, <2>4 DEF Carries, TypeOK, RequestTypes
    <3>2. QED
      BY <2>1, <3>1, NothingHanded
  <2>5. QED
    BY <2>2, <2>3, <2>4
<1>5. ASSUME (\E b \in Browsers : CookieExpires(b)) \/ Age \/ UNCHANGED vars PROVE TicketStep
  <2>1. UNCHANGED <<lastState, states, issued, pc, held>>
    BY <1>5 DEF CookieExpires, Age, vars, flow, logins, request
  <2>2. \A v \in Workers, t \in States : Carries(v, t)' <=> Carries(v, t)
    BY <2>1 DEF Carries
  <2>3. QED
    BY <2>1, <2>2, NothingHanded
<1>6. CASE Restart
  <2>1. Handed' = {}
    BY <1>6 DEF Restart, Handed, Carries, TakenSteps
  <2>2. StateTickets!Forget(states \cup Handed)
    BY <1>6, <2>1 DEF Restart, StateTickets!Forget, logins, Handed
  <2>3. QED
    BY <2>2 DEF TicketStep, StateTickets!TicketsNext, Handed
<1>7. QED
  BY <1>1, <1>2, <1>3, <1>4, <1>5, <1>6, TakeIsTicketStep, IssueIsTicketStep DEF Next, CallbackNext

\* The map of states keeps what Tickets promises: a state is generated once, handed to
\* one callback and good for one session (CompleteAuth, oauth_service.go).
THEOREM StatesAreTickets == Spec => KeepsTickets
<1> DEFINE Once == \A s \in States : OnceOK(s)
<1>1. Init => StateTickets!TicketsInit
  BY DEF Init, StateTickets!TicketsInit, Carries, TakenSteps
<1>2. TypeOK /\ Once /\ [Next]_vars => [StateTickets!TicketsNext]_(StateTickets!tickets)
  BY TicketSteps DEF TicketStep
<1>3. Spec => []Once
  BY StatesOnce
<1> HIDE DEF Once
<1>4. QED
  BY <1>1, <1>2, <1>3, TypeCorrect, PTL DEF Spec, KeepsTickets, StateTickets!TicketsSpec

-----------------------------------------------------------------------------
(* A session goes to the browser that began *)

\* Cookies and requests hold states of their own browser, and a state that is not
\* generated yet has no session whose browser a later BeginAuth could disown.
OwnCookie == \A b \in Browsers : cookie[b] # NoState => begunBy[cookie[b]] = b
OwnRequest == \A w \in Workers : pc[w] \notin {"idle", "answer"} => begunBy[held[w]] = client[w]
NotYet == \A s \in States : s > lastState => issuedTo[s] = {}
BegunOK == OwnCookie /\ OwnRequest /\ NotYet /\ SessionWhereBegun

\* BeginAuth names the browser of a state that nobody holds yet.
LEMMA BeginAuthBegun ==
    ASSUME TypeOK, BegunOK, NEW w \in Workers, NEW b \in Browsers, BeginAuth(w, b)
    PROVE  BegunOK'
<1> DEFINE new == lastState + 1
<1>1. new \in States /\ begunBy' = [begunBy EXCEPT ![new] = b] /\ begunBy'[new] = b
  BY BoundAssumption DEF BeginAuth, TypeOK, FlowTypes, HistoryTypes, States
<1>2. \A s \in 1..lastState : s \in States /\ begunBy'[s] = begunBy[s]
  BY <1>1, BoundAssumption DEF TypeOK, FlowTypes, HistoryTypes, States
<1>3. OwnCookie'
  <2>1. \A c \in Browsers : cookie[c] # NoState => cookie[c] \in 1..lastState
    BY DEF TypeOK, FlowTypes, NoState
  <2>2. QED
    BY <1>2, <2>1 DEF BeginAuth, BegunOK, OwnCookie, jars
<1>4. OwnRequest'
  <2>1. held'[w] = new /\ client'[w] = b
    BY DEF BeginAuth, TypeOK, RequestTypes
  <2>2. ASSUME NEW v \in Workers \ {w}, pc[v] \notin {"idle", "answer"}
        PROVE  begunBy'[held[v]] = client[v]
    BY <1>2, <2>2 DEF BegunOK, OwnRequest, TypeOK, RequestTypes
  <2>3. \A v \in Workers \ {w} : pc'[v] = pc[v] /\ held'[v] = held[v] /\ client'[v] = client[v]
    BY DEF BeginAuth, Goto, TypeOK, RequestTypes
  <2>4. QED
    BY <1>1, <2>1, <2>2, <2>3 DEF OwnRequest
<1>5. NotYet'
  BY <1>1 DEF BeginAuth, BegunOK, NotYet, logins, TypeOK, FlowTypes, States
<1>6. SessionWhereBegun'
  <2>1. issuedTo[new] = {} /\ issuedTo' = issuedTo
    BY <1>1 DEF BeginAuth, BegunOK, NotYet, logins, TypeOK, FlowTypes
  <2>2. QED
    BY <1>1, <2>1 DEF BegunOK, SessionWhereBegun, TypeOK, HistoryTypes
<1>7. QED
  BY <1>3, <1>4, <1>5, <1>6 DEF BegunOK

\* Only BeginAuth generates states or says who began them.
LEMMA OtherStep ==
    ASSUME TypeOK, [Next]_vars, ~\E w \in Workers, b \in Browsers : BeginAuth(w, b)
    PROVE  begunBy' = begunBy /\ lastState' = lastState
<1>1. ASSUME NEW w \in Workers, Redirect(w) \/ CallbackNext(w)
      PROVE  begunBy' = begunBy /\ lastState' = lastState
  BY <1>1 DEF Redirect, CallbackNext, Callback, Take, ExchangeCode, GetUserInfo, FindByProvider,
              CreateLink, IssueSession, Answer, flow
<1>2. QED
  BY <1>1 DEF Next, CookieExpires, Age, Restart, flow, vars

\* A cookie is set from a request of its browser, or removed.
LEMMA CookieStep ==
    ASSUME TypeOK, BegunOK, [Next]_vars, begunBy' = begunBy,
           ~\E w \in Workers, b \in Browsers : BeginAuth(w, b)
    PROVE  OwnCookie'
<1> USE DEF BegunOK, OwnCookie, TypeOK, FlowTypes
<1>1. ASSUME NEW w \in Workers, Redirect(w) PROVE OwnCookie'
  BY <1>1 DEF Redirect, OwnRequest, jars
<1>2. ASSUME NEW w \in Workers, Answer(w) PROVE OwnCookie'
  BY <1>2 DEF Answer
<1>3. ASSUME NEW b \in Browsers, CookieExpires(b) PROVE OwnCookie'
  BY <1>3 DEF CookieExpires
<1>4. ASSUME \/ \E w \in Workers : \/ \E b \in Browsers, s \in States : Callback(w, b, s)
                                   \/ Take(w) \/ ExchangeCode(w) \/ GetUserInfo(w)
                                   \/ FindByProvider(w) \/ CreateLink(w) \/ IssueSession(w)
             \/ Age \/ Restart \/ UNCHANGED vars
      PROVE  cookie' = cookie
  BY <1>4 DEF Callback, Take, ExchangeCode, GetUserInfo, FindByProvider, CreateLink, IssueSession,
              Age, Restart, vars, jars
<1>5. QED
  BY <1>1, <1>2, <1>3, <1>4 DEF Next, CallbackNext

\* A callback takes its state from the cookie, and no step exchanges it.
LEMMA RequestStep ==
    ASSUME TypeOK, BegunOK, [Next]_vars, begunBy' = begunBy,
           ~\E w \in Workers, b \in Browsers : BeginAuth(w, b)
    PROVE  OwnRequest'
<1> USE DEF BegunOK, OwnRequest, TypeOK, RequestTypes
<1>1. ASSUME NEW w \in Workers, Redirect(w) \/ Answer(w) PROVE OwnRequest'
  BY <1>1 DEF Redirect, Answer, Finish, Goto
<1>2. ASSUME NEW w \in Workers, NEW b \in Browsers, NEW s \in States, Callback(w, b, s)
      PROVE  OwnRequest'
  BY <1>2 DEF Callback, Goto, OwnCookie, States, NoState
<1>3. ASSUME NEW w \in Workers, Take(w) PROVE OwnRequest'
  BY <1>3 DEF Take, Goto, request
<1>4. ASSUME NEW w \in Workers, ExchangeCode(w) PROVE OwnRequest'
  BY <1>4 DEF ExchangeCode, Goto, request
<1>5. ASSUME NEW w \in Workers, GetUserInfo(w) PROVE OwnRequest'
  BY <1>5 DEF GetUserInfo, Goto
<1>6. ASSUME NEW w \in Workers, FindByProvider(w) PROVE OwnRequest'
  BY <1>6 DEF FindByProvider, Goto, request
<1>7. ASSUME NEW w \in Workers, CreateLink(w) PROVE OwnRequest'
  BY <1>7 DEF CreateLink, Goto, request
<1>8. ASSUME NEW w \in Workers, IssueSession(w) PROVE OwnRequest'
  BY <1>8 DEF IssueSession, Goto, request
<1>9. CASE (\E b \in Browsers : CookieExpires(b)) \/ Age \/ Restart \/ UNCHANGED vars
  BY <1>9 DEF CookieExpires, Age, Restart, vars, request
<1>10. QED
  BY <1>1, <1>2, <1>3, <1>4, <1>5, <1>6, <1>7, <1>8, <1>9 DEF Next, CallbackNext

\* All of BegunOK is kept: the sessions' browsers follow from the requests.
LEMMA BegunStep == TypeOK /\ BegunOK /\ [Next]_vars => BegunOK'
<1> SUFFICES ASSUME TypeOK, BegunOK, [Next]_vars PROVE BegunOK'
  OBVIOUS
<1>1. CASE \E w \in Workers, b \in Browsers : BeginAuth(w, b)
  BY <1>1, BeginAuthBegun
<1>2. CASE ~\E w \in Workers, b \in Browsers : BeginAuth(w, b)
  <2>1. begunBy' = begunBy /\ lastState' = lastState
    BY <1>2, OtherStep
  <2>2. OwnCookie' /\ OwnRequest'
    BY <1>2, <2>1, CookieStep, RequestStep
  <2>3. ASSUME NEW s \in States, NEW w \in Workers, Issues(w, s)
        PROVE  issuedTo'[s] \subseteq {begunBy[s]} /\ s <= lastState
    BY <2>3 DEF BegunOK, OwnRequest, SessionWhereBegun, Issues, Carries, TakenSteps, TypeOK,
                RequestTypes, Steps
  <2>4. \A s \in States : issuedTo'[s] = issuedTo[s] \/ \E w \in Workers : Issues(w, s)
    BY IssuedStep
  <2>5. NotYet'
    BY <2>1, <2>3, <2>4 DEF BegunOK, NotYet, TypeOK, FlowTypes, States
  <2>6. SessionWhereBegun'
    BY <2>1, <2>3, <2>4 DEF BegunOK, SessionWhereBegun
  <2>7. QED
    BY <2>2, <2>5, <2>6 DEF BegunOK
<1>3. QED
  BY <1>1, <1>2

\* The callback of one browser never gives a session to another.
THEOREM SessionsStayWithTheirBrowser == Spec => []SessionWhereBegun
<1>1. Init => BegunOK
  BY DEF Init, BegunOK, OwnCookie, OwnRequest, NotYet, SessionWhereBegun
<1>2. BegunOK => SessionWhereBegun
  BY DEF BegunOK
<1>3. QED
  BY <1>1, <1>2, BegunStep, TypeCorrect, PTL DEF Spec

-----------------------------------------------------------------------------
(* A session has a link *)

\* A request that is to issue a session found the link or wrote it.
LinkOK ==
    /\ \A w \in Workers : pc[w] = "issue" => linkUser[who[w]] = NoUser
    /\ NoSessionWithoutLink

\* A link is written before its session and never changed.
LEMMA LinkStep == TypeOK /\ LinkOK /\ [Next]_vars => LinkOK'
<1> SUFFICES ASSUME TypeOK, LinkOK, [Next]_vars PROVE LinkOK'
  OBVIOUS
<1> USE DEF TypeOK, RequestTypes, HistoryTypes, LinkOK, NoSessionWithoutLink
<1>1. ASSUME NEW w \in Workers, NEW b \in Browsers, BeginAuth(w, b) PROVE LinkOK'
  BY <1>1 DEF BeginAuth, Goto, logins
<1>2. ASSUME NEW w \in Workers, Redirect(w) PROVE LinkOK'
  BY <1>2 DEF Redirect, Finish, Goto, logins
<1>3. ASSUME NEW w \in Workers, NEW b \in Browsers, NEW s \in States, Callback(w, b, s)
      PROVE  LinkOK'
  BY <1>3 DEF Callback, Goto, logins
<1>4. ASSUME NEW w \in Workers, Take(w) PROVE LinkOK'
  BY <1>4 DEF Take, Goto, request, logins
<1>5. ASSUME NEW w \in Workers, ExchangeCode(w) PROVE LinkOK'
  BY <1>5 DEF ExchangeCode, Goto, request, logins
<1>6. ASSUME NEW w \in Workers, GetUserInfo(w) PROVE LinkOK'
  BY <1>6 DEF GetUserInfo, Goto, logins
<1>7. ASSUME NEW w \in Workers, FindByProvider(w) PROVE LinkOK'
  BY <1>7 DEF FindByProvider, Goto, request, logins, Users
<1>8. ASSUME NEW w \in Workers, CreateLink(w) PROVE LinkOK'
  <2>1. linkUser' = linkUser \/ (linkUser[who[w]] = Unlinked /\ Linked(w))
    BY <1>8 DEF CreateLink
  <2>2. \A i \in Identities : linkUser[i] = NoUser => linkUser'[i] = NoUser
    BY <2>1 DEF Linked
  <2>3. NoSessionWithoutLink'
    BY <1>8, <2>2 DEF CreateLink, logins, Users
  <2>4. ASSUME NEW v \in Workers, pc'[v] = "issue" PROVE linkUser'[who'[v]] = NoUser
    BY <1>8, <2>2, <2>4 DEF CreateLink, Linked, Goto, request
  <2>5. QED
    BY <2>3, <2>4
<1>9. ASSUME NEW w \in Workers, IssueSession(w) PROVE LinkOK'
  BY <1>9 DEF IssueSession, Goto, request, logins
<1>10. ASSUME NEW w \in Workers, Answer(w) PROVE LinkOK'
  BY <1>10 DEF Answer, Finish, Goto, logins
<1>11. CASE (\E b \in Browsers : CookieExpires(b)) \/ Age \/ Restart \/ UNCHANGED vars
  BY <1>11 DEF CookieExpires, Age, Restart, vars, request, logins
<1>12. QED
  BY <1>1, <1>2, <1>3, <1>4, <1>5, <1>6, <1>7, <1>8, <1>9, <1>10, <1>11 DEF Next, CallbackNext

\* Nobody is signed in without a row of oauth_accounts, whatever queries failed.
THEOREM SessionsHaveLinks == Spec => []NoSessionWithoutLink
<1>1. Init => LinkOK
  BY DEF Init, LinkOK, NoSessionWithoutLink
<1>2. LinkOK => NoSessionWithoutLink
  BY DEF LinkOK
<1>3. QED
  BY <1>1, <1>2, LinkStep, TypeCorrect, PTL DEF Spec
=============================================================================
