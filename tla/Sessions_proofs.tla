-------------------------- MODULE Sessions_proofs --------------------------
(***************************************************************************)
(* Proofs about Sessions, for every set of users, browsers and workers.     *)
(***************************************************************************)
EXTENDS Sessions, FiniteSetTheorems, TLAPS

USE DEF Tokens, NoToken, Owners

-----------------------------------------------------------------------------
(* Types. *)

LEMMA GotoTypes ==
    ASSUME RequestTypes, NEW w \in Workers, NEW step \in Steps, Goto(w, step)
    PROVE  RequestTypes'
  BY DEF RequestTypes, Goto, request

LEMMA FinishTypes ==
    ASSUME RequestTypes, NEW w \in Workers, Finish(w)
    PROVE  RequestTypes'
  BY BoundAssumption DEF RequestTypes, Finish, Steps

LEMMA SkipTypes ==
    ASSUME RequestTypes, NEW w \in Workers, SkipRevoke(w)
    PROVE  RequestTypes'
  BY BoundAssumption DEF RequestTypes, SkipRevoke, Steps

LEMMA MintTypes ==
    ASSUME TypeOK, NEW w \in Workers, NEW u \in Owners, Mint(w, u)
    PROVE  /\ lastToken' \in Tokens /\ lastToken' = lastToken + 1
           /\ owner' \in [Tokens -> Owners]
           /\ minted' \in [Workers -> 0..MaxTokens]
           /\ \A t \in 1..lastToken : owner'[t] = owner[t]
           /\ owner'[lastToken'] = u
  BY BoundAssumption DEF Mint, TypeOK, TableTypes, RequestTypes

LEMMA TypeInit == Init => TypeOK
  BY BoundAssumption
     DEF Init, TypeOK, TableTypes, RequestTypes, JarTypes, CarriesIssued, HistoryTypes, Steps,
         MintedSteps, TokenSteps

LEMMA TypeStep == TypeOK /\ [Next]_vars => TypeOK'
<1> SUFFICES ASSUME TypeOK, [Next]_vars PROVE TypeOK'
  OBVIOUS
<1> USE BoundAssumption, NoUserAssumption DEF TypeOK
<1>1. ASSUME NEW w \in Workers, NEW b \in Browsers, NEW u \in Owners, StartLogin(w, b, u) PROVE TypeOK'
  <2>1. TableTypes'
    BY <1>1, MintTypes DEF StartLogin, TableTypes
  <2>2. RequestTypes'
    BY <1>1, MintTypes DEF StartLogin, RequestTypes, Steps, MintedSteps, TokenSteps
  <2>3. JarTypes'
    BY <1>1, MintTypes DEF StartLogin, JarTypes, jars, TableTypes
  <2>4. CarriesIssued'
    BY <1>1, MintTypes
       DEF StartLogin, CarriesIssued, Steps, MintedSteps, TokenSteps, RequestTypes, TableTypes, Mint
  <2>5. HistoryTypes'
    BY <1>1 DEF StartLogin, HistoryTypes
  <2>6. QED
    BY <2>1, <2>2, <2>3, <2>4, <2>5
<1>2. ASSUME NEW w \in Workers, RevokePrior(w) PROVE TypeOK'
  <2>1. TableTypes'
    BY <1>2 DEF RevokePrior, TableTypes, Revoke, RowsOf
  <2>2. RequestTypes'
    BY <1>2, GotoTypes DEF RevokePrior, Steps, MintedSteps, TokenSteps
  <2>3. JarTypes'
    BY <1>2 DEF RevokePrior, JarTypes, jars, table
  <2>4. CarriesIssued'
    BY <1>2
       DEF RevokePrior, CarriesIssued, Steps, MintedSteps, TokenSteps, RequestTypes, table, Goto, request
  <2>5. HistoryTypes'
    BY <1>2 DEF RevokePrior, HistoryTypes, Answered, Failed
  <2>6. QED
    BY <2>1, <2>2, <2>3, <2>4, <2>5
<1>3. ASSUME NEW w \in Workers, Create(w) PROVE TypeOK'
  <2>1. TableTypes'
    <3>1. minted[w] \in 1..lastToken
      BY <1>3 DEF Create, CarriesIssued, MintedSteps
    <3>2. rows' \subseteq rows \cup {minted[w]} /\ UNCHANGED <<owner, lastToken, lapsed>>
      BY <1>3 DEF Create
    <3>3. QED
      BY <3>1, <3>2 DEF TableTypes
  <2>2. RequestTypes'
    BY <1>3, GotoTypes, FinishTypes DEF Create, Steps, MintedSteps, TokenSteps
  <2>3. JarTypes'
    BY <1>3 DEF Create, JarTypes, jars, table
  <2>4. CarriesIssued'
    BY <1>3
       DEF Create, CarriesIssued, Steps, MintedSteps, TokenSteps, RequestTypes, table, Goto, request, Finish
  <2>5. HistoryTypes'
    BY <1>3 DEF Create, HistoryTypes, Answered, Failed
  <2>6. QED
    BY <2>1, <2>2, <2>3, <2>4, <2>5
<1>4. ASSUME NEW w \in Workers, Answer(w) PROVE TypeOK'
  <2>1. TableTypes'
    BY <1>4 DEF Answer, TableTypes, table
  <2>2. RequestTypes'
    BY <1>4, FinishTypes DEF Answer
  <2>3. JarTypes'
    <3>1. minted[w] \in 0..MaxTokens /\ minted[w] <= lastToken /\ lastToken' = lastToken
      BY <1>4 DEF Answer, CarriesIssued, MintedSteps, RequestTypes, TableTypes, table
    <3>2. CASE /\ refresh' = [refresh EXCEPT ![client[w]] = minted[w]]
               /\ access' = [access EXCEPT ![client[w]] = minted[w]]
      BY <3>1, <3>2 DEF JarTypes
    <3>3. CASE UNCHANGED jars
      BY <3>1, <3>3 DEF JarTypes, jars
    <3>4. QED
      BY <1>4, <3>2, <3>3 DEF Answer
  <2>4. CarriesIssued'
    BY <1>4 DEF Answer, CarriesIssued, Steps, MintedSteps, TokenSteps, RequestTypes, table, Finish
  <2>5. HistoryTypes'
    BY <1>4 DEF Answer, HistoryTypes, Answered, Failed
  <2>6. QED
    BY <2>1, <2>2, <2>3, <2>4, <2>5
<1>5. ASSUME NEW w \in Workers, NEW b \in Browsers, StartRefresh(w, b) PROVE TypeOK'
  <2>1. TableTypes'
    BY <1>5 DEF StartRefresh, TableTypes, table
  <2>2. RequestTypes'
    BY <1>5 DEF StartRefresh, RequestTypes, JarTypes, Steps, MintedSteps, TokenSteps
  <2>3. JarTypes'
    BY <1>5 DEF StartRefresh, JarTypes, jars, table
  <2>4. CarriesIssued'
    BY <1>5
       DEF StartRefresh, CarriesIssued, Steps, MintedSteps, TokenSteps, RequestTypes, JarTypes, TableTypes,
           table
  <2>5. HistoryTypes'
    BY <1>5 DEF StartRefresh, HistoryTypes
  <2>6. QED
    BY <2>1, <2>2, <2>3, <2>4, <2>5
<1>6. ASSUME NEW w \in Workers, Find(w) PROVE TypeOK'
  <2>1. TableTypes'
    BY <1>6 DEF Find, TableTypes, table
  <2>2. RequestTypes'
    BY <1>6, GotoTypes, FinishTypes DEF Find, Steps, MintedSteps, TokenSteps
  <2>3. JarTypes'
    BY <1>6 DEF Find, JarTypes, jars, table
  <2>4. CarriesIssued'
    BY <1>6
       DEF Find, CarriesIssued, Steps, MintedSteps, TokenSteps, RequestTypes, table, Goto, request, Finish
  <2>5. HistoryTypes'
    BY <1>6 DEF Find, HistoryTypes, Answered, Failed
  <2>6. QED
    BY <2>1, <2>2, <2>3, <2>4, <2>5
<1>7. ASSUME NEW w \in Workers, RotateRevoke(w) PROVE TypeOK'
  <2>1. TableTypes'
    BY <1>7 DEF RotateRevoke, TableTypes, Revoke, RowsOf
  <2>2. RequestTypes'
    BY <1>7, GotoTypes DEF RotateRevoke, Steps, MintedSteps, TokenSteps
  <2>3. JarTypes'
    BY <1>7 DEF RotateRevoke, JarTypes, jars, table
  <2>4. CarriesIssued'
    BY <1>7
       DEF RotateRevoke, CarriesIssued, Steps, MintedSteps, TokenSteps, RequestTypes, table, Goto, request
  <2>5. HistoryTypes'
    BY <1>7 DEF RotateRevoke, HistoryTypes, Answered, Failed
  <2>6. QED
    BY <2>1, <2>2, <2>3, <2>4, <2>5
<1>8. ASSUME NEW w \in Workers, FindUser(w) PROVE TypeOK'
  <2>1. TableTypes'
    <3>1. CASE Mint(w, owner[presented[w]])
      BY <1>8, <3>1, MintTypes DEF FindUser, TableTypes, CarriesIssued, TokenSteps
    <3>2. CASE UNCHANGED <<owner, lastToken>>
      BY <1>8, <3>2 DEF FindUser, TableTypes
    <3>3. QED
      BY <1>8, <3>1, <3>2 DEF FindUser
  <2>2. RequestTypes'
    <3>1. CASE Mint(w, owner[presented[w]]) /\ pc' = [pc EXCEPT ![w] = "revokePrior"]
               /\ UNCHANGED <<client, presented, before>>
      BY <1>8, <3>1, MintTypes
         DEF FindUser, RequestTypes, TableTypes, CarriesIssued, Steps, MintedSteps, TokenSteps
    <3>2. CASE Finish(w)
      BY <3>2, FinishTypes
    <3>3. QED
      BY <1>8, <3>1, <3>2 DEF FindUser
  <2>3. JarTypes'
    <3>1. CASE Mint(w, owner[presented[w]])
      BY <1>8, <3>1, MintTypes DEF FindUser, JarTypes, jars, TableTypes, CarriesIssued, TokenSteps
    <3>2. CASE UNCHANGED <<owner, lastToken>>
      BY <1>8, <3>2 DEF FindUser, JarTypes, jars
    <3>3. QED
      BY <1>8, <3>1, <3>2 DEF FindUser
  <2>4. CarriesIssued'
    <3>1. CASE Mint(w, owner[presented[w]]) /\ pc' = [pc EXCEPT ![w] = "revokePrior"]
               /\ UNCHANGED <<client, presented, before>> /\ owner[presented[w]] # NoUser
      BY <1>8, <3>1, MintTypes
         DEF FindUser, Mint, RequestTypes, TableTypes, CarriesIssued, Steps, MintedSteps, TokenSteps
    <3>2. CASE Finish(w) /\ UNCHANGED <<owner, lastToken>>
      BY <1>8, <3>2 DEF FindUser, Finish, CarriesIssued, RequestTypes, Steps, MintedSteps, TokenSteps
    <3>3. QED
      BY <1>8, <3>1, <3>2 DEF FindUser
  <2>5. HistoryTypes'
    BY <1>8 DEF FindUser, HistoryTypes, Answered, Failed
  <2>6. QED
    BY <2>1, <2>2, <2>3, <2>4, <2>5
<1>9. ASSUME NEW w \in Workers, NEW b \in Browsers, StartLogout(w, b) PROVE TypeOK'
  <2>1. TableTypes'
    BY <1>9 DEF StartLogout, TableTypes, table
  <2>2. RequestTypes'
    <3>1. RowsOf(owner[access[b]]) \cap {t \in rows : ~Uncreated(t)} \in SUBSET Tokens
      BY DEF RowsOf, TableTypes
    <3>2. QED
      BY <1>9, <3>1 DEF StartLogout, RequestTypes, JarTypes, Steps, MintedSteps, TokenSteps
  <2>3. JarTypes'
    BY <1>9 DEF StartLogout, JarTypes, jars, table
  <2>4. CarriesIssued'
    BY <1>9
       DEF StartLogout, CarriesIssued, Steps, MintedSteps, TokenSteps, RequestTypes, JarTypes, TableTypes,
           table
  <2>5. HistoryTypes'
    BY <1>9 DEF StartLogout, HistoryTypes
  <2>6. QED
    BY <2>1, <2>2, <2>3, <2>4, <2>5
<1>10. ASSUME NEW w \in Workers, Resolve(w) PROVE TypeOK'
  <2>1. TableTypes'
    BY <1>10 DEF Resolve, TableTypes, table
  <2>2. RequestTypes'
    BY <1>10, GotoTypes, SkipTypes DEF Resolve, Steps, MintedSteps, TokenSteps
  <2>3. JarTypes'
    BY <1>10 DEF Resolve, JarTypes, jars, table
  <2>4. CarriesIssued'
    BY <1>10
       DEF Resolve, CarriesIssued, Steps, MintedSteps, TokenSteps, RequestTypes, table, Goto, request,
           SkipRevoke
  <2>5. HistoryTypes'
    BY <1>10 DEF Resolve, HistoryTypes, Answered, Failed
  <2>6. QED
    BY <2>1, <2>2, <2>3, <2>4, <2>5
<1>11. ASSUME NEW w \in Workers, LogoutRevoke(w) PROVE TypeOK'
  <2>1. TableTypes'
    BY <1>11 DEF LogoutRevoke, TableTypes, Revoke, RowsOf
  <2>2. RequestTypes'
    BY <1>11, GotoTypes, SkipTypes DEF LogoutRevoke, Steps, MintedSteps, TokenSteps
  <2>3. JarTypes'
    BY <1>11 DEF LogoutRevoke, JarTypes, jars, table
  <2>4. CarriesIssued'
    BY <1>11
       DEF LogoutRevoke, CarriesIssued, Steps, MintedSteps, TokenSteps, RequestTypes, table, Goto, request,
           SkipRevoke
  <2>5. HistoryTypes'
    BY <1>11 DEF LogoutRevoke, HistoryTypes, Answered, Failed, CarriesIssued, TokenSteps, TableTypes
  <2>6. QED
    BY <2>1, <2>2, <2>3, <2>4, <2>5
<1>12. ASSUME NEW w \in Workers, Clear(w) PROVE TypeOK'
  <2>1. TableTypes'
    BY <1>12 DEF Clear, TableTypes, table
  <2>2. RequestTypes'
    BY <1>12, FinishTypes DEF Clear
  <2>3. JarTypes'
    <3>1. 0 \in 0..MaxTokens /\ 0 <= lastToken /\ lastToken' = lastToken
      BY <1>12 DEF Clear, TableTypes, table
    <3>2. CASE /\ refresh' = [refresh EXCEPT ![client[w]] = NoToken]
               /\ access' = [access EXCEPT ![client[w]] = NoToken]
      BY <3>1, <3>2 DEF JarTypes
    <3>3. CASE UNCHANGED jars
      BY <3>1, <3>3 DEF JarTypes, jars
    <3>4. QED
      BY <1>12, <3>2, <3>3 DEF Clear
  <2>4. CarriesIssued'
    BY <1>12 DEF Clear, CarriesIssued, Steps, MintedSteps, TokenSteps, RequestTypes, table, Finish
  <2>5. HistoryTypes'
    BY <1>12 DEF Clear, HistoryTypes, Answered, Failed
  <2>6. QED
    BY <2>1, <2>2, <2>3, <2>4, <2>5
<1>13. ASSUME NEW w \in Workers, Repeated(w) PROVE TypeOK'
  <2>1. TableTypes'
    <3>1. UNCHANGED <<owner, lastToken, lapsed>>
      BY <1>13 DEF Repeated
    <3>2. CASE pc[w] = "create" /\ rows' = rows \cup {minted[w]}
      <4>1. minted[w] \in 1..lastToken
        BY <3>2 DEF CarriesIssued, MintedSteps
      <4>2. rows' \subseteq rows \cup {minted[w]}
        BY <3>2
      <4>3. QED
        BY <3>1, <4>1, <4>2 DEF TableTypes
    <3>3. CASE rows' \subseteq rows
      BY <3>1, <3>3 DEF TableTypes
    <3>4. QED
      BY <1>13, <3>2, <3>3 DEF Repeated, Revoke
  <2>2. RequestTypes'
    BY <1>13 DEF Repeated, RequestTypes, request
  <2>3. JarTypes'
    BY <1>13 DEF Repeated, JarTypes, jars, table
  <2>4. CarriesIssued'
    BY <1>13 DEF Repeated, CarriesIssued, Steps, MintedSteps, TokenSteps, RequestTypes, table, request
  <2>5. HistoryTypes'
    BY <1>13 DEF Repeated, HistoryTypes, Answered, Failed
  <2>6. QED
    BY <2>1, <2>2, <2>3, <2>4, <2>5
<1>14. ASSUME NEW b \in Browsers, AccessLapses(b) PROVE TypeOK'
  <2>1. TableTypes'
    BY <1>14 DEF AccessLapses, TableTypes, table
  <2>2. RequestTypes'
    BY <1>14 DEF AccessLapses, RequestTypes, request
  <2>3. JarTypes'
    BY <1>14 DEF AccessLapses, JarTypes, TableTypes, table
  <2>4. CarriesIssued'
    BY <1>14 DEF AccessLapses, CarriesIssued, request, table
  <2>5. HistoryTypes'
    BY <1>14 DEF AccessLapses, HistoryTypes
  <2>6. QED
    BY <2>1, <2>2, <2>3, <2>4, <2>5
<1>15. ASSUME Expire PROVE TypeOK'
  <2>1. TableTypes'
    BY <1>15 DEF Expire, TableTypes
  <2>2. RequestTypes'
    BY <1>15 DEF Expire, RequestTypes, request
  <2>3. JarTypes'
    BY <1>15 DEF Expire, JarTypes, jars
  <2>4. CarriesIssued'
    BY <1>15 DEF Expire, CarriesIssued, request
  <2>5. HistoryTypes'
    BY <1>15 DEF Expire, HistoryTypes
  <2>6. QED
    BY <2>1, <2>2, <2>3, <2>4, <2>5
<1>16. ASSUME UNCHANGED vars PROVE TypeOK'
  <2>1. TableTypes'
    BY <1>16 DEF vars, TableTypes, table
  <2>2. RequestTypes'
    BY <1>16 DEF vars, RequestTypes, request
  <2>3. JarTypes'
    BY <1>16 DEF vars, JarTypes, jars, table
  <2>4. CarriesIssued'
    BY <1>16 DEF vars, CarriesIssued, request, table
  <2>5. HistoryTypes'
    BY <1>16 DEF vars, HistoryTypes
  <2>6. QED
    BY <2>1, <2>2, <2>3, <2>4, <2>5
<1>17. QED
  BY <1>1, <1>2, <1>3, <1>4, <1>5, <1>6, <1>7, <1>8, <1>9, <1>10, <1>11, <1>12, <1>13, <1>14, <1>15, <1>16
     DEF Next, Issuing, Rotating, LoggingOut

\* Every variable keeps its type; in particular only accounts, never the empty
\* user id of an OAuth login, reach a revocation (auth_handler.go 336-344,
\* session_repo.go 30, token_service.go 86).
THEOREM TypeCorrect == Spec => []TypeOK
  BY TypeInit, TypeStep, PTL DEF Spec
-----------------------------------------------------------------------------
(* What one step does to the table and to the tokens in hand. *)

LEMMA FindUserOwner ==
    ASSUME TypeOK, NEW w \in Workers, FindUser(w)
    PROVE  owner[presented[w]] \in Owners
<1>1. presented[w] \in 1..lastToken
  BY DEF TypeOK, FindUser, CarriesIssued, TokenSteps
<1>2. presented[w] \in Tokens
  BY <1>1, BoundAssumption DEF TypeOK, TableTypes
<1>3. QED
  BY <1>2 DEF TypeOK, TableTypes

LEMMA LastTokenStep ==
    ASSUME TypeOK, [Next]_vars
    PROVE  /\ lastToken \in Nat /\ lastToken' \in Nat /\ lastToken <= lastToken'
           /\ \A t \in 1..lastToken : owner'[t] = owner[t]
<1>1. lastToken \in Nat
  BY BoundAssumption DEF TypeOK, TableTypes
<1>2. ASSUME NEW w \in Workers, NEW u \in Owners, Mint(w, u)
      PROVE  lastToken' = lastToken + 1 /\ \A t \in 1..lastToken : owner'[t] = owner[t]
  BY <1>2, MintTypes
<1>3. CASE UNCHANGED <<lastToken, owner>>
  BY <1>1, <1>3
<1>4. CASE \E w \in Workers, u \in Owners : Mint(w, u)
  BY <1>1, <1>2, <1>4
<1>5. ASSUME NEW w \in Workers, FindUser(w)
      PROVE  UNCHANGED <<lastToken, owner>> \/ \E v \in Workers, u \in Owners : Mint(v, u)
  <2>1. CASE Mint(w, owner[presented[w]])
    BY <1>5, <2>1, FindUserOwner
  <2>2. QED
    BY <1>5, <2>1 DEF FindUser
<1>6. UNCHANGED <<lastToken, owner>> \/ \E w \in Workers, u \in Owners : Mint(w, u)
  BY <1>5 DEF Next, vars, Issuing, Rotating, LoggingOut, StartLogin, RevokePrior, Create, Answer,
     StartRefresh, Find, RotateRevoke, StartLogout, Resolve, LogoutRevoke, Clear,
     AccessLapses, Expire, Repeated, table
<1>7. QED
  BY <1>3, <1>4, <1>6

LEMMA RowsStep ==
    ASSUME [Next]_vars, NEW t \in rows', t \notin rows
    PROVE  \E w \in Workers : pc[w] = "create" /\ minted[w] = t
<1>1. ASSUME NEW w \in Workers, Create(w)
      PROVE  rows' \subseteq rows \/ (pc[w] = "create" /\ rows' \subseteq rows \cup {minted[w]})
  BY <1>1 DEF Create
<1>2. ASSUME NEW w \in Workers, Repeated(w)
      PROVE  rows' \subseteq rows \/ (pc[w] = "create" /\ rows' \subseteq rows \cup {minted[w]})
  BY <1>2 DEF Repeated, Revoke
<1>3. ASSUME NEW w \in Workers, RevokePrior(w) \/ RotateRevoke(w) \/ LogoutRevoke(w)
      PROVE  rows' \subseteq rows
  BY <1>3 DEF RevokePrior, RotateRevoke, LogoutRevoke, Revoke
<1>4. ASSUME NEW w \in Workers, Create(w) \/ Repeated(w)
      PROVE  pc[w] = "create" /\ minted[w] = t
  BY <1>1, <1>2, <1>4
<1>5. ASSUME ~ \E w \in Workers : Create(w) \/ Repeated(w)
      PROVE  FALSE
  BY <1>3, <1>5 DEF Next, vars, Issuing, Rotating, LoggingOut, StartLogin, Answer,
     StartRefresh, Find, FindUser, StartLogout, Resolve, Clear, AccessLapses, Expire, table
<1>6. QED
  BY <1>4, <1>5

LEMMA UncreatedStep ==
    ASSUME TypeOK, [Next]_vars, NEW t \in 1..lastToken, Uncreated(t)'
    PROVE  Uncreated(t)
<1> USE DEF TypeOK
<1>1. PICK v \in Workers : pc'[v] \in {"revokePrior", "create"} /\ minted'[v] = t
  BY DEF Uncreated
<1> DEFINE Still == pc[v] \in {"revokePrior", "create"} /\ minted[v] = t
<1>2. ASSUME NEW w \in Workers, NEW u \in Owners, Mint(w, u), w = v
      PROVE  FALSE
  BY <1>1, <1>2, BoundAssumption DEF Mint, RequestTypes, TableTypes
<1>3. ASSUME NEW w \in Workers, NEW b \in Browsers, NEW u \in Owners, StartLogin(w, b, u)
      PROVE  Still
  BY <1>1, <1>2, <1>3 DEF StartLogin, Mint, RequestTypes
<1>4. ASSUME NEW w \in Workers, FindUser(w)
      PROVE  Still
  <2>1. CASE Mint(w, owner[presented[w]])
    <3>1. w # v
      BY <1>2, <1>4, <2>1, FindUserOwner
    <3>2. QED
      BY <1>1, <1>4, <2>1, <3>1 DEF FindUser, Mint, RequestTypes, Finish
  <2>2. CASE Finish(w)
    BY <1>1, <2>2 DEF Finish, RequestTypes
  <2>3. QED
    BY <1>4, <2>1, <2>2 DEF FindUser
<1>5. ASSUME NEW w \in Workers, RevokePrior(w)
      PROVE  Still
  BY <1>1, <1>5 DEF RevokePrior, Goto, request, RequestTypes
<1>6. ASSUME NEW w \in Workers, NEW step \in {"answer", "rotate", "findUser", "logoutRevoke", "clear"},
             Goto(w, step)
      PROVE  Still
  BY <1>1, <1>6 DEF Goto, request, RequestTypes
<1>7. ASSUME NEW w \in Workers, Finish(w) \/ SkipRevoke(w)
      PROVE  Still
  BY <1>1, <1>7 DEF Finish, SkipRevoke, RequestTypes
<1>8. ASSUME NEW w \in Workers, NEW b \in Browsers, StartRefresh(w, b) \/ StartLogout(w, b)
      PROVE  Still
  <2>1. /\ minted' = minted
        /\ \E step \in {"find", "clear", "resolve"} : pc' = [pc EXCEPT ![w] = step]
    BY <1>8 DEF StartRefresh, StartLogout
  <2>2. QED
    BY <1>1, <2>1 DEF RequestTypes
<1>9. ASSUME UNCHANGED <<pc, minted>>
      PROVE  Still
  BY <1>1, <1>9
<1>10. ASSUME NEW w \in Workers, Create(w) \/ Answer(w) \/ Find(w) \/ RotateRevoke(w)
       PROVE  Still
  <2>1. Goto(w, "answer") \/ Goto(w, "rotate") \/ Goto(w, "findUser") \/ Finish(w)
    BY <1>10 DEF Create, Answer, Find, RotateRevoke
  <2>2. QED
    BY <1>6, <1>7, <2>1
<1>11. ASSUME NEW w \in Workers, Resolve(w) \/ LogoutRevoke(w) \/ Clear(w)
       PROVE  Still
  <2>1. Goto(w, "logoutRevoke") \/ Goto(w, "clear") \/ SkipRevoke(w) \/ Finish(w)
    BY <1>11 DEF Resolve, LogoutRevoke, Clear
  <2>2. QED
    BY <1>6, <1>7, <2>1
<1>12. Still
  BY <1>3, <1>4, <1>5, <1>8, <1>9, <1>10, <1>11
     DEF Next, vars, Issuing, Rotating, LoggingOut, Repeated, AccessLapses, Expire, request
<1>13. QED
  BY <1>12 DEF Uncreated

-----------------------------------------------------------------------------
(* Revoked and rotated sessions stay dead. *)

LEMMA DeadStep ==
    ASSUME TypeOK, [Next]_vars, NEW t \in Dead
    PROVE  t \in Dead'
<1>1. t \in Tokens /\ t <= lastToken /\ t \notin rows /\ ~Uncreated(t)
  BY DEF Dead
<1>2. t <= lastToken'
  BY <1>1, LastTokenStep
<1>3. t \notin rows'
  BY <1>1, RowsStep DEF Uncreated
<1>4. ~Uncreated(t)'
  BY <1>1, UncreatedStep, LastTokenStep
<1>5. QED
  BY <1>1, <1>2, <1>3, <1>4 DEF Dead

\* No step brings back a session that was revoked or rotated (session_repo.go
\* 25-46, 84-93), whatever requests overlap and whichever queries are repeated.
THEOREM DeadForever == Spec => DeadStaysDead
<1>1. TypeOK /\ [Next]_vars => [Dead \subseteq Dead']_vars
  BY DeadStep
<1>2. QED
  BY <1>1, TypeCorrect, PTL DEF Spec, DeadStaysDead

-----------------------------------------------------------------------------
(* A step moves one worker. *)

SameRequest(w) ==
    /\ pc'[w] = pc[w] /\ client'[w] = client[w] /\ presented'[w] = presented[w]
    /\ minted'[w] = minted[w] /\ before'[w] = before[w]

LEMMA OneMoves ==
    ASSUME TypeOK, [Next]_vars, NEW w \in Workers
    PROVE  Issuing(w) \/ Rotating(w) \/ LoggingOut(w) \/ SameRequest(w)
<1> USE DEF TypeOK, RequestTypes, SameRequest
<1>1. ASSUME NEW v \in Workers, v # w, Issuing(v) PROVE SameRequest(w)
  BY <1>1 DEF Issuing, StartLogin, RevokePrior, Create, Answer, Goto, Finish, Mint, request
<1>2. ASSUME NEW v \in Workers, v # w, Rotating(v) PROVE SameRequest(w)
  BY <1>2 DEF Rotating, StartRefresh, Find, RotateRevoke, FindUser, Goto, Finish, Mint, request
<1>3. ASSUME NEW v \in Workers, v # w, LoggingOut(v) PROVE SameRequest(w)
  BY <1>3 DEF LoggingOut, StartLogout, Resolve, LogoutRevoke, Clear, SkipRevoke, Goto, Finish, request
<1>4. ASSUME NEW v \in Workers, Repeated(v) PROVE SameRequest(w)
  BY <1>4 DEF Repeated, request
<1>5. ASSUME (\E b \in Browsers : AccessLapses(b)) \/ Expire \/ UNCHANGED vars PROVE SameRequest(w)
  BY <1>5 DEF AccessLapses, Expire, vars, request
<1>6. QED
  BY <1>1, <1>2, <1>3, <1>4, <1>5 DEF Next

-----------------------------------------------------------------------------
(* Logout cuts off the sessions that stood when it started. *)

LoggingOutSteps == {"resolve", "logoutRevoke"}

\* The inductive strengthening: what a Logout recorded was stored, is of the user
\* it resolves, and no CREATE of it is outstanding.
LogoutFacts(w) ==
    /\ \A t \in before[w] : t \in 1..lastToken /\ ~Uncreated(t)
    /\ pc[w] \in LoggingOutSteps => \A t \in before[w] : owner[t] = owner[presented[w]]
    /\ pc[w] = "clear" => before[w] \cap rows = {}
    /\ pc[w] \notin LoggingOutSteps \cup {"clear"} => before[w] = {}
LogoutInv == \A w \in Workers : LogoutFacts(w)

\* A worker whose Logout is not moved by the step keeps its part of LogoutInv.
LEMMA LogoutBystander ==
    ASSUME TypeOK, [Next]_vars, NEW w \in Workers, LogoutFacts(w),
           pc'[w] = pc[w], before'[w] = before[w], presented'[w] = presented[w]
    PROVE  LogoutFacts(w)'
<1>1. \A t \in before[w] : t \in 1..lastToken' /\ ~Uncreated(t)' /\ owner'[t] = owner[t]
                            /\ (t \notin rows => t \notin rows')
  <2> TAKE t \in before[w]
  <2>1. t \in 1..lastToken /\ ~Uncreated(t)
    BY DEF LogoutFacts
  <2>2. t \notin rows => t \notin rows'
    BY <2>1, RowsStep DEF Uncreated
  <2>3. QED
    BY <2>1, <2>2, LastTokenStep, UncreatedStep
<1>2. pc[w] \in LoggingOutSteps => owner'[presented[w]] = owner[presented[w]]
  BY LastTokenStep DEF TypeOK, CarriesIssued, TokenSteps, LoggingOutSteps
<1>3. QED
  BY <1>1, <1>2 DEF LogoutFacts

LEMMA LogoutInvInit == Init => LogoutInv
  BY DEF Init, LogoutInv, LogoutFacts, LoggingOutSteps

LEMMA LogoutStep ==
    ASSUME TypeOK, [Next]_vars, NEW w \in Workers, LogoutFacts(w)
    PROVE  LogoutFacts(w)'
<1> USE DEF TypeOK, RequestTypes
<1>1. ASSUME before'[w] = {} PROVE LogoutFacts(w)'
  BY <1>1 DEF LogoutFacts
<1>2. ASSUME Issuing(w) PROVE before'[w] = {}
  <2>1. pc[w] \notin LoggingOutSteps \cup {"clear"}
    BY <1>2 DEF Issuing, StartLogin, RevokePrior, Create, Answer, LoggingOutSteps
  <2>2. before'[w] = before[w] \/ before'[w] = {}
    BY <1>2 DEF Issuing, StartLogin, RevokePrior, Create, Answer, Goto, Finish, request
  <2>3. QED
    BY <2>1, <2>2 DEF LogoutFacts
<1>3. ASSUME Rotating(w) PROVE before'[w] = {}
  <2>1. pc[w] \notin LoggingOutSteps \cup {"clear"}
    BY <1>3 DEF Rotating, StartRefresh, Find, RotateRevoke, FindUser, LoggingOutSteps
  <2>2. before'[w] = before[w] \/ before'[w] = {}
    BY <1>3 DEF Rotating, StartRefresh, Find, RotateRevoke, FindUser, Goto, Finish, request
  <2>3. QED
    BY <2>1, <2>2 DEF LogoutFacts
<1>4. ASSUME NEW b \in Browsers, StartLogout(w, b) PROVE LogoutFacts(w)'
  <2>1. CASE access[b] = NoToken
    BY <1>1, <1>4, <2>1 DEF StartLogout, LogoutFacts, LoggingOutSteps
  <2>2. CASE access[b] # NoToken
    <3>1. /\ before'[w] = RowsOf(owner[access[b]]) \cap {t \in rows : ~Uncreated(t)}
          /\ presented'[w] = access[b] /\ pc'[w] = "resolve"
          /\ UNCHANGED <<owner, lastToken>>
      BY <1>4, <2>2 DEF StartLogout, table
    <3>2. \A t \in before'[w] : t \in 1..lastToken /\ ~Uncreated(t) /\ owner[t] = owner[access[b]]
      <4>1. \A t \in rows : t \in 1..lastToken
        BY BoundAssumption DEF TableTypes
      <4>2. QED
        BY <3>1, <4>1 DEF RowsOf
    <3>3. \A t \in before'[w] : ~Uncreated(t)'
      BY <3>2, UncreatedStep
    <3>4. QED
      BY <3>1, <3>2, <3>3 DEF LogoutFacts, LoggingOutSteps
  <2>3. QED
    BY <2>1, <2>2
<1>5. ASSUME Resolve(w) PROVE LogoutFacts(w)'
  <2>1. CASE Goto(w, "logoutRevoke")
    <3>1. /\ pc[w] \in LoggingOutSteps /\ pc'[w] = "logoutRevoke"
          /\ UNCHANGED <<owner, lastToken, before, presented>>
      BY <1>5, <2>1 DEF Resolve, LoggingOutSteps, Goto, table, request
    <3>2. \A t \in before[w] : ~Uncreated(t)'
      BY UncreatedStep DEF LogoutFacts
    <3>3. QED
      BY <3>1, <3>2 DEF LogoutFacts, LoggingOutSteps
  <2>2. CASE SkipRevoke(w)
    BY <1>1, <2>2 DEF SkipRevoke
  <2>3. QED
    BY <1>5, <2>1, <2>2 DEF Resolve
<1>6. ASSUME LogoutRevoke(w) PROVE LogoutFacts(w)'
  <2>1. CASE Revoke(owner[presented[w]]) /\ Goto(w, "clear")
    <3>1. /\ pc[w] \in LoggingOutSteps /\ pc'[w] = "clear"
          /\ UNCHANGED <<owner, lastToken, before, presented>>
      BY <1>6, <2>1 DEF LogoutRevoke, LoggingOutSteps, Goto, request
    <3>2. \A t \in before[w] : ~Uncreated(t)'
      BY UncreatedStep DEF LogoutFacts
    <3>3. before[w] \cap rows' = {}
      BY <2>1, <3>1 DEF LogoutFacts, Revoke, RowsOf
    <3>4. QED
      BY <3>1, <3>2, <3>3 DEF LogoutFacts, LoggingOutSteps
  <2>2. CASE SkipRevoke(w)
    BY <1>1, <2>2 DEF SkipRevoke
  <2>3. QED
    BY <1>6, <2>1, <2>2 DEF LogoutRevoke
<1>7. ASSUME Clear(w) PROVE LogoutFacts(w)'
  BY <1>1, <1>7 DEF Clear, Finish
<1>8. ASSUME SameRequest(w) PROVE LogoutFacts(w)'
  BY <1>8, LogoutBystander DEF SameRequest
<1>9. QED
  BY <1>1, <1>2, <1>3, <1>4, <1>5, <1>6, <1>7, <1>8, OneMoves DEF LoggingOut

\* Every session that stood when a Logout began is gone once the Logout has
\* revoked (auth_handler.go 319-362), whatever logins and rotations overlap it.
THEOREM LogoutRevokesAll == Spec => []LogoutCutsOff
<1>1. TypeOK /\ LogoutInv /\ [Next]_vars => LogoutInv'
  BY LogoutStep DEF LogoutInv
<1>2. LogoutInv => LogoutCutsOff
  BY DEF LogoutInv, LogoutFacts, LogoutCutsOff
<1>3. QED
  BY <1>1, <1>2, TypeCorrect, LogoutInvInit, PTL DEF Spec

-----------------------------------------------------------------------------
(* How many sessions an account can have at once. *)

\* The workers about to store a session for u.
Creators(u) == {w \in Workers : pc[w] = "create" /\ owner[minted[w]] = u}

\* Sessions of u stored or about to be.
Standing(u) == RowsOf(u) \cup {minted[w] : w \in Creators(u)}

\* The inductive invariant: while no query was lost, what stands is bounded.
StandingInv ==
    faults = 0 => \A u \in Users : /\ IsFiniteSet(Standing(u))
                                   /\ Cardinality(Standing(u)) <= Cardinality(Workers)

LEMMA ImageOfWorkers ==
    ASSUME NEW f, NEW W \in SUBSET Workers
    PROVE  /\ IsFiniteSet({f[w] : w \in W})
           /\ Cardinality({f[w] : w \in W}) <= Cardinality(Workers)
<1>1. IsFiniteSet(W) /\ Cardinality(W) <= Cardinality(Workers)
  BY FiniteAssumption, FS_Subset
<1>2. IsFiniteSet({f[w] : w \in W}) /\ Cardinality({f[w] : w \in W}) <= Cardinality(W)
  <2> DEFINE T == {f[w] : w \in W}
             g == [w \in W |-> f[w]]
  <2>1. g \in [W -> T] /\ \A t \in T : \E w \in W : g[w] = t
    OBVIOUS
  <2>2. g \in Surjection(W, T)
    BY <2>1 DEF Surjection
  <2>3. QED
    BY <1>1, <2>2, FS_Surjection
<1>3. Cardinality(W) \in Nat /\ Cardinality(Workers) \in Nat /\ Cardinality({f[w] : w \in W}) \in Nat
  BY <1>1, <1>2, FiniteAssumption, FS_CardinalityType
<1>4. QED
  BY <1>1, <1>2, <1>3

\* A worker is about to store a session because it was, or because it has just
\* revoked, or because the session is of no account.
LEMMA CreatorStep ==
    ASSUME TypeOK, [Next]_vars, NEW v \in Workers, pc'[v] = "create"
    PROVE  \/ pc[v] = "create" /\ minted'[v] = minted[v]
           \/ RevokePrior(v) /\ minted'[v] = minted[v]
           \/ owner'[minted'[v]] = NoUser
<1> USE DEF TypeOK, RequestTypes
<1>1. ASSUME Issuing(v) PROVE ~(Create(v) \/ Answer(v))
  BY <1>1 DEF Create, Answer, Goto, Finish
<1>2. ASSUME RevokePrior(v) PROVE minted'[v] = minted[v]
  BY <1>2 DEF RevokePrior, Goto, request
<1>3. ASSUME NEW b \in Browsers, NEW u \in Owners, StartLogin(v, b, u)
      PROVE  owner'[minted'[v]] = NoUser
  <2>1. u = NoUser
    BY <1>3 DEF StartLogin
  <2>2. Mint(v, u)
    BY <1>3 DEF StartLogin
  <2>3. QED
    BY <2>1, <2>2, MintTypes DEF Mint
<1>4. ASSUME Rotating(v) PROVE FALSE
  BY <1>4 DEF Rotating, StartRefresh, Find, RotateRevoke, FindUser, Goto, Finish
<1>5. ASSUME LoggingOut(v) PROVE FALSE
  BY <1>5 DEF LoggingOut, StartLogout, Resolve, LogoutRevoke, Clear, SkipRevoke, Goto, Finish
<1>6. QED
  BY <1>1, <1>2, <1>3, <1>4, <1>5, OneMoves DEF Issuing, SameRequest

LEMMA FaultsStep ==
    ASSUME TypeOK, [Next]_vars
    PROVE  faults \in Nat /\ (faults' = faults \/ faults' = faults + 1)
<1>1. faults \in Nat
  BY BoundAssumption DEF TypeOK, HistoryTypes
<1>2. QED
  BY <1>1 DEF Next, vars, Issuing, Rotating, LoggingOut, StartLogin, RevokePrior, Create, Answer,
     StartRefresh, Find, RotateRevoke, FindUser, StartLogout, Resolve, LogoutRevoke, Clear,
     AccessLapses, Expire, Repeated, Answered, Failed

LEMMA StandingStep ==
    ASSUME TypeOK, [Next]_vars, faults' = 0, NEW u \in Users
    PROVE  Standing(u)' \subseteq Standing(u) \/ RowsOf(u)' = {}
<1>0. faults = 0
  BY FaultsStep
<1>1. ASSUME NEW w \in Workers, RevokePrior(w), owner[minted[w]] = u
      PROVE  RowsOf(u)' = {}
  BY <1>0, <1>1 DEF RevokePrior, Revoke, RowsOf, Failed
<1>2. ASSUME NEW t \in RowsOf(u)'
      PROVE  t \in Standing(u)
  <2>1. t \in rows' /\ owner'[t] = u
    BY DEF RowsOf
  <2>2. CASE t \in rows
    <3>1. t \in 1..lastToken
      BY <2>2, BoundAssumption DEF TypeOK, TableTypes
    <3>2. QED
      BY <2>1, <2>2, <3>1, LastTokenStep DEF Standing, RowsOf
  <2>3. CASE t \notin rows
    <3>1. PICK w \in Workers : pc[w] = "create" /\ minted[w] = t
      BY <2>1, <2>3, RowsStep
    <3>2. t \in 1..lastToken
      BY <3>1 DEF TypeOK, CarriesIssued, MintedSteps
    <3>3. QED
      BY <2>1, <3>1, <3>2, LastTokenStep DEF Standing, Creators
  <2>4. QED
    BY <2>2, <2>3
<1>3. ASSUME NEW v \in Workers, pc'[v] = "create", owner'[minted'[v]] = u,
             ~(RevokePrior(v) /\ owner[minted[v]] = u)
      PROVE  minted'[v] \in Standing(u)
  <2>1. u # NoUser
    BY NoUserAssumption
  <2>2. ASSUME pc[v] \in {"create", "revokePrior"}, minted'[v] = minted[v] PROVE owner[minted[v]] = u
    <3>1. minted[v] \in 1..lastToken
      BY <2>2 DEF TypeOK, CarriesIssued, MintedSteps
    <3>2. QED
      BY <1>3, <2>2, <3>1, LastTokenStep
  <2>3. ~(RevokePrior(v) /\ minted'[v] = minted[v])
    BY <1>3, <2>2 DEF RevokePrior
  <2>4. pc[v] = "create" /\ minted'[v] = minted[v]
    BY <1>3, <2>1, <2>3, CreatorStep
  <2>5. QED
    BY <2>2, <2>4 DEF Standing, Creators
<1>4. CASE \E w \in Workers : RevokePrior(w) /\ owner[minted[w]] = u
  BY <1>1, <1>4
<1>5. CASE ~ \E w \in Workers : RevokePrior(w) /\ owner[minted[w]] = u
  <2>1. \A t \in Standing(u)' : t \in Standing(u)
    BY <1>2, <1>3, <1>5 DEF Standing, Creators
  <2>2. QED
    BY <2>1
<1>6. QED
  BY <1>4, <1>5

LEMMA StandingInvStep ==
    ASSUME TypeOK, [Next]_vars, StandingInv, faults' = 0, NEW u \in Users
    PROVE  IsFiniteSet(Standing(u)') /\ Cardinality(Standing(u)') <= Cardinality(Workers)
<1>1. CASE Standing(u)' \subseteq Standing(u)
  <2>1. IsFiniteSet(Standing(u)) /\ Cardinality(Standing(u)) <= Cardinality(Workers)
    BY FaultsStep DEF StandingInv
  <2>2. IsFiniteSet(Standing(u)') /\ Cardinality(Standing(u)') <= Cardinality(Standing(u))
    BY <1>1, <2>1, FS_Subset
  <2>3. /\ Cardinality(Standing(u)) \in Nat /\ Cardinality(Standing(u)') \in Nat
        /\ Cardinality(Workers) \in Nat
    BY <2>1, <2>2, FiniteAssumption, FS_CardinalityType
  <2>4. QED
    BY <2>1, <2>2, <2>3
<1>2. CASE RowsOf(u)' = {}
  <2>1. Standing(u)' = {minted'[w] : w \in Creators(u)'}
    BY <1>2 DEF Standing
  <2>2. Creators(u)' \in SUBSET Workers
    BY DEF Creators
  <2>3. QED
    BY <2>1, <2>2, ImageOfWorkers
<1>3. QED
  BY <1>1, <1>2, StandingStep

LEMMA StandingInit == Init => StandingInv
<1> SUFFICES ASSUME Init, NEW u \in Users
             PROVE  IsFiniteSet(Standing(u)) /\ Cardinality(Standing(u)) <= Cardinality(Workers)
  BY DEF StandingInv
<1>1. Standing(u) = {}
  BY DEF Init, Standing, RowsOf, Creators
<1>2. Cardinality(Workers) \in Nat
  BY FiniteAssumption, FS_CardinalityType
<1>3. QED
  BY <1>1, <1>2, FS_EmptySet

\* The sessions of an account never outnumber the workers while no query is lost
\* (session_repo.go 25-46): only requests that all revoked before the others
\* stored can leave several.
THEOREM SessionsBounded == Spec => []SessionBound
<1>1. TypeOK /\ StandingInv /\ [Next]_vars => StandingInv'
  <2> SUFFICES ASSUME TypeOK, StandingInv, [Next]_vars, faults' = 0
               PROVE  \A u \in Users : /\ IsFiniteSet(Standing(u)')
                                       /\ Cardinality(Standing(u)') <= Cardinality(Workers)
    BY DEF StandingInv
  <2>1. QED
    BY StandingInvStep
<1>2. StandingInv => SessionBound
  <2> SUFFICES ASSUME StandingInv, faults = 0, NEW u \in Users
               PROVE  Cardinality(RowsOf(u)) <= Cardinality(Workers)
    BY DEF SessionBound
  <2>1. IsFiniteSet(Standing(u)) /\ Cardinality(Standing(u)) <= Cardinality(Workers)
    BY DEF StandingInv
  <2>2. IsFiniteSet(RowsOf(u)) /\ Cardinality(RowsOf(u)) <= Cardinality(Standing(u))
    BY <2>1, FS_Subset DEF Standing
  <2>3. /\ Cardinality(Standing(u)) \in Nat /\ Cardinality(RowsOf(u)) \in Nat
        /\ Cardinality(Workers) \in Nat
    BY <2>1, <2>2, FiniteAssumption, FS_CardinalityType
  <2>4. QED
    BY <2>1, <2>2, <2>3
<1>3. QED
  BY <1>1, <1>2, TypeCorrect, StandingInit, PTL DEF Spec

-----------------------------------------------------------------------------
(* A rotated token is gone before its successor is answered. *)

\* A token that was issued and that no request has in hand to store or answer.
Settled(t) == t \in 1..lastToken /\ \A v \in Workers : pc[v] \in MintedSteps => minted[v] # t

RotatingSteps == {"find", "rotate", "findUser"} \cup MintedSteps
RotatedSteps == {"create", "answer"}

\* The inductive strengthening: browsers and rotations hold settled tokens, the
\* pair a rotation stores is of the user it rotates, and each of its two
\* revocations, unless it was the one that was lost, left the old token dead.
RotationFacts(w) ==
    /\ pc[w] = "idle" => presented[w] = NoToken
    /\ pc[w] \in RotatingSteps /\ presented[w] # NoToken => Settled(presented[w])
    /\ pc[w] = "revokePrior" /\ presented[w] # NoToken => owner[minted[w]] = owner[presented[w]]
    /\ pc[w] \in {"findUser", "revokePrior"} /\ presented[w] # NoToken =>
         presented[w] \in Dead \/ faults >= 1
    /\ pc[w] \in RotatedSteps /\ presented[w] # NoToken => presented[w] \in Dead \/ faults >= 2
CookiesSettled == \A b \in Browsers : refresh[b] # NoToken => Settled(refresh[b])
MintedApart == \A v, w \in Workers :
    pc[v] \in MintedSteps /\ pc[w] \in MintedSteps /\ minted[v] = minted[w] => v = w
RotationInv == CookiesSettled /\ MintedApart /\ \A w \in Workers : RotationFacts(w)

\* A worker that has a pair in hand had it before, or it is a new one and the
\* other workers have not moved.
LEMMA MintedStep ==
    ASSUME TypeOK, [Next]_vars, NEW v \in Workers, pc'[v] \in MintedSteps
    PROVE  \/ pc[v] \in MintedSteps /\ minted'[v] = minted[v]
           \/ /\ minted'[v] = lastToken + 1
              /\ \A w \in Workers \ {v} : pc'[w] = pc[w] /\ minted'[w] = minted[w]
<1> USE DEF TypeOK, RequestTypes, MintedSteps
<1>1. ASSUME NEW b \in Browsers, NEW u \in Owners, StartLogin(v, b, u)
      PROVE  /\ minted'[v] = lastToken + 1
             /\ \A w \in Workers \ {v} : pc'[w] = pc[w] /\ minted'[w] = minted[w]
  BY <1>1 DEF StartLogin, Mint
<1>2. ASSUME FindUser(v)
      PROVE  /\ minted'[v] = lastToken + 1
             /\ \A w \in Workers \ {v} : pc'[w] = pc[w] /\ minted'[w] = minted[w]
  BY <1>2 DEF FindUser, Mint, Finish
<1>3. ASSUME RevokePrior(v) \/ Create(v) \/ Answer(v)
      PROVE  pc[v] \in MintedSteps /\ minted'[v] = minted[v]
  BY <1>3 DEF RevokePrior, Create, Answer, Goto, Finish, request
<1>4. ASSUME Rotating(v), ~FindUser(v) PROVE FALSE
  BY <1>4 DEF Rotating, StartRefresh, Find, RotateRevoke, Goto, Finish
<1>5. ASSUME LoggingOut(v) PROVE FALSE
  BY <1>5 DEF LoggingOut, StartLogout, Resolve, LogoutRevoke, Clear, SkipRevoke, Goto, Finish
<1>6. QED
  BY <1>1, <1>2, <1>3, <1>4, <1>5, OneMoves DEF Issuing, SameRequest

LEMMA SettledStep ==
    ASSUME TypeOK, [Next]_vars, NEW t, Settled(t)
    PROVE  Settled(t)'
<1>1. t \in 1..lastToken' /\ t \in 1..lastToken /\ lastToken \in Nat
  BY LastTokenStep DEF Settled
<1>2. ASSUME NEW v \in Workers, pc'[v] \in MintedSteps PROVE minted'[v] # t
  BY <1>1, <1>2, MintedStep DEF Settled
<1>3. QED
  BY <1>1, <1>2 DEF Settled

\* What is settled and not stored is dead.
LEMMA SettledDead ==
    ASSUME TypeOK, [Next]_vars, NEW t, Settled(t), t \notin rows'
    PROVE  t \in Dead'
<1>1. Settled(t)'
  BY SettledStep
<1>2. t \in Tokens
  BY BoundAssumption DEF Settled, TypeOK, TableTypes
<1>3. t <= lastToken' /\ ~Uncreated(t)'
  BY <1>1 DEF Settled, Uncreated, MintedSteps
<1>4. QED
  BY <1>2, <1>3 DEF Dead

LEMMA MintedApartStep ==
    ASSUME TypeOK, [Next]_vars, MintedApart
    PROVE  MintedApart'
<1> SUFFICES ASSUME NEW v \in Workers, NEW w \in Workers, v # w,
                    pc'[v] \in MintedSteps, pc'[w] \in MintedSteps, minted'[v] = minted'[w]
             PROVE  FALSE
  BY DEF MintedApart
<1>1. lastToken \in Nat
  BY LastTokenStep
<1>2. \A x \in Workers : pc[x] \in MintedSteps => minted[x] \in 1..lastToken
  BY DEF TypeOK, CarriesIssued
<1>3. ASSUME NEW x \in Workers, NEW y \in Workers, x # y, pc'[x] \in MintedSteps, pc'[y] \in MintedSteps,
             minted'[x] = lastToken + 1, minted'[y] = lastToken + 1
      PROVE  FALSE
  <2>1. \/ pc[x] \in MintedSteps /\ minted'[x] = minted[x]
        \/ \A z \in Workers \ {x} : pc'[z] = pc[z] /\ minted'[z] = minted[z]
    BY <1>3, MintedStep
  <2>2. y \in Workers \ {x}
    BY <1>3
  <2>3. QED
    BY <1>1, <1>2, <1>3, <2>1, <2>2
<1>4. CASE minted'[v] = minted[v] /\ minted'[w] = minted[w] /\ pc[v] \in MintedSteps /\ pc[w] \in MintedSteps
  BY <1>4 DEF MintedApart
<1>5. (minted'[v] = minted[v] /\ pc[v] \in MintedSteps) \/ minted'[v] = lastToken + 1
  BY MintedStep
<1>6. (minted'[w] = minted[w] /\ pc[w] \in MintedSteps) \/ minted'[w] = lastToken + 1
  BY MintedStep
<1>7. QED
  BY <1>1, <1>2, <1>3, <1>4, <1>5, <1>6

LEMMA CookiesSettledStep ==
    ASSUME TypeOK, [Next]_vars, CookiesSettled, MintedApart
    PROVE  CookiesSettled'
<1> SUFFICES ASSUME NEW b \in Browsers, NEW t, t = refresh'[b], t # NoToken
             PROVE  Settled(t)'
  BY DEF CookiesSettled, Settled
<1> DEFINE New == \E w \in Workers : Answer(w) /\ refresh'[b] = minted[w]
<1>1. ASSUME NEW w \in Workers, Answer(w) PROVE refresh'[b] = refresh[b] \/ New
  BY <1>1 DEF Answer, TypeOK, JarTypes, jars
<1>2. ASSUME NEW w \in Workers, Clear(w) PROVE refresh'[b] = refresh[b]
  BY <1>2 DEF Clear, TypeOK, JarTypes, jars
<1>3. refresh'[b] = refresh[b] \/ New
  BY <1>1, <1>2 DEF Next, vars, Issuing, Rotating, LoggingOut, StartLogin, RevokePrior, Create,
     StartRefresh, Find, RotateRevoke, FindUser, StartLogout, Resolve, LogoutRevoke,
     AccessLapses, Expire, Repeated, jars
<1>4. CASE refresh'[b] = refresh[b]
  <2>1. Settled(t)
    BY <1>4 DEF CookiesSettled
  <2>2. QED
    BY <2>1, SettledStep
<1>5. CASE New
  <2>1. PICK w \in Workers : Answer(w) /\ refresh'[b] = minted[w]
    BY <1>5
  <2>2. pc[w] \in MintedSteps /\ minted[w] = t /\ lastToken' = lastToken
    BY <2>1 DEF Answer, MintedSteps, table
  <2>3. t \in 1..lastToken'
    BY <2>2 DEF TypeOK, CarriesIssued
  <2>4. ASSUME NEW v \in Workers, pc'[v] \in MintedSteps PROVE minted'[v] # t
    <3>1. v # w /\ pc'[v] = pc[v] /\ minted'[v] = minted[v]
      BY <2>1, <2>4 DEF Answer, Finish, TypeOK, RequestTypes, MintedSteps
    <3>2. QED
      BY <2>2, <2>4, <3>1 DEF MintedApart
  <2>5. QED
    BY <2>3, <2>4 DEF Settled
<1>6. QED
  BY <1>3, <1>4, <1>5

\* While a step leaves a worker's request alone, its facts stand.
LEMMA RotationBystander ==
    ASSUME TypeOK, [Next]_vars, NEW w \in Workers, RotationFacts(w), SameRequest(w)
    PROVE  RotationFacts(w)'
<1>1. PICK t : t = presented[w]
  OBVIOUS
<1>2. Settled(t) => Settled(t)'
  BY SettledStep
<1>3. t \in Dead => t \in Dead'
  BY DeadStep
<1>4. faults \in Nat /\ (faults' = faults \/ faults' = faults + 1)
  BY FaultsStep
<1>5. ASSUME pc[w] = "revokePrior", t # NoToken
      PROVE  owner'[minted[w]] = owner'[t]
  <2>1. minted[w] \in 1..lastToken
    BY <1>5 DEF TypeOK, CarriesIssued, MintedSteps
  <2>2. t \in 1..lastToken
    BY <1>1, <1>5 DEF RotationFacts, Settled, RotatingSteps, MintedSteps
  <2>3. QED
    BY <1>1, <1>5, <2>1, <2>2, LastTokenStep DEF RotationFacts
<1>6. pc'[w] = pc[w] /\ presented'[w] = t /\ minted'[w] = minted[w]
  BY <1>1 DEF SameRequest
<1>7. QED
  BY <1>1, <1>2, <1>3, <1>4, <1>5, <1>6 DEF RotationFacts, Settled

LEMMA RotationInit == Init => RotationInv
  BY DEF Init, RotationInv, CookiesSettled, MintedApart, RotationFacts, RotatingSteps, RotatedSteps,
     MintedSteps, NoToken

\* A request that ends, or was given no token by a rotation, has nothing to keep.
LEMMA RotationIdle ==
    ASSUME NEW w \in Workers, presented'[w] = NoToken
    PROVE  RotationFacts(w)'
  BY DEF RotationFacts

LEMMA RotationStep ==
    ASSUME TypeOK, [Next]_vars, RotationInv, NEW w \in Workers
    PROVE  RotationFacts(w)'
<1> USE DEF TypeOK, RequestTypes
<1>0. RotationFacts(w) /\ CookiesSettled /\ faults \in Nat
  BY FaultsStep DEF RotationInv
<1>1. PICK t : t = presented[w]
  OBVIOUS
<1>2. Settled(t) => Settled(t)'
  BY SettledStep
<1>3. t \in Dead => t \in Dead'
  BY DeadStep
<1>4. ASSUME Finish(w) PROVE RotationFacts(w)'
  BY <1>4, RotationIdle DEF Finish
<1>5. ASSUME NEW b \in Browsers, NEW u \in Owners, StartLogin(w, b, u)
      PROVE  RotationFacts(w)'
  BY <1>0, <1>5, RotationIdle DEF StartLogin, RotationFacts
<1>6. ASSUME RevokePrior(w) PROVE RotationFacts(w)'
  <2>1. pc[w] = "revokePrior" /\ pc'[w] = "create" /\ presented'[w] = t
    BY <1>1, <1>6 DEF RevokePrior, Goto, request
  <2>2. CASE t = NoToken
    BY <2>1, <2>2, RotationIdle
  <2>3. CASE t # NoToken
    <3>1. Settled(t) /\ owner[minted[w]] = owner[t] /\ (t \in Dead \/ faults >= 1)
      BY <1>0, <1>1, <2>1, <2>3 DEF RotationFacts, RotatingSteps, MintedSteps
    <3>2. t \in Dead' \/ faults' >= 2
      <4>1. CASE Revoke(owner[minted[w]])
        <5>1. t \notin rows'
          BY <3>1, <4>1 DEF Revoke, RowsOf
        <5>2. QED
          BY <3>1, <5>1, SettledDead
      <4>2. CASE Failed
        BY <1>0, <1>3, <3>1, <4>2 DEF Failed
      <4>3. QED
        BY <1>6, <4>1, <4>2 DEF RevokePrior
    <3>3. QED
      BY <1>2, <2>1, <3>1, <3>2 DEF RotationFacts, Settled
  <2>4. QED
    BY <2>2, <2>3
<1>7. ASSUME Create(w) PROVE RotationFacts(w)'
  <2>1. CASE Finish(w)
    BY <1>4, <2>1
  <2>2. CASE Goto(w, "answer") /\ Answered
    <3>1. pc[w] = "create" /\ pc'[w] = "answer" /\ presented'[w] = t /\ faults' = faults
      BY <1>1, <1>7, <2>2 DEF Create, Goto, request, Answered
    <3>2. t # NoToken => Settled(t) /\ (t \in Dead \/ faults >= 2)
      BY <1>0, <1>1, <3>1 DEF RotationFacts, RotatingSteps, RotatedSteps, MintedSteps
    <3>3. QED
      BY <1>2, <1>3, <3>1, <3>2 DEF RotationFacts, Settled
  <2>3. QED
    BY <1>7, <2>1, <2>2 DEF Create
<1>8. ASSUME NEW b \in Browsers, StartRefresh(w, b) PROVE RotationFacts(w)'
  <2>1. PICK s : s = refresh[b]
    OBVIOUS
  <2>2. pc'[w] = "find" /\ presented'[w] = s
    BY <1>8, <2>1 DEF StartRefresh
  <2>3. Settled(s)
    BY <1>0, <1>8, <2>1 DEF StartRefresh, CookiesSettled
  <2>4. Settled(s)'
    BY <2>3, SettledStep
  <2>5. QED
    BY <2>2, <2>4 DEF RotationFacts, Settled, RotatedSteps
<1>9. ASSUME Find(w) PROVE RotationFacts(w)'
  <2>1. CASE Finish(w)
    BY <1>4, <2>1
  <2>2. CASE Goto(w, "rotate")
    <3>1. pc[w] = "find" /\ pc'[w] = "rotate" /\ presented'[w] = t
      BY <1>1, <1>9, <2>2 DEF Find, Goto, request
    <3>2. t # NoToken => Settled(t)'
      BY <1>0, <1>1, <1>2, <3>1 DEF RotationFacts, RotatingSteps
    <3>3. QED
      BY <3>1, <3>2 DEF RotationFacts, Settled, RotatedSteps
  <2>3. QED
    BY <1>9, <2>1, <2>2 DEF Find
<1>10. ASSUME RotateRevoke(w) PROVE RotationFacts(w)'
  <2>1. pc[w] = "rotate" /\ pc'[w] = "findUser" /\ presented'[w] = t
    BY <1>1, <1>10 DEF RotateRevoke, Goto, request
  <2>2. CASE t = NoToken
    BY <2>1, <2>2, RotationIdle
  <2>3. CASE t # NoToken
    <3>1. Settled(t)
      BY <1>0, <1>1, <2>1, <2>3 DEF RotationFacts, RotatingSteps
    <3>2. t \in Dead' \/ faults' >= 1
      <4>1. CASE Revoke(owner[presented[w]])
        BY <1>1, <3>1, <4>1, SettledDead DEF Revoke, RowsOf
      <4>2. CASE Failed
        BY <1>0, <4>2 DEF Failed
      <4>3. QED
        BY <1>10, <4>1, <4>2 DEF RotateRevoke
    <3>3. QED
      BY <1>2, <2>1, <3>1, <3>2 DEF RotationFacts, Settled, RotatedSteps
  <2>4. QED
    BY <2>2, <2>3
<1>11. ASSUME FindUser(w) PROVE RotationFacts(w)'
  <2>1. CASE Finish(w)
    BY <1>4, <2>1
  <2>2. CASE Mint(w, owner[t]) /\ pc' = [pc EXCEPT ![w] = "revokePrior"]
             /\ Answered /\ presented' = presented
    <3>1. pc[w] = "findUser" /\ pc'[w] = "revokePrior" /\ presented'[w] = t /\ faults' = faults
      BY <1>1, <1>11, <2>2 DEF FindUser, Answered
    <3>2. t # NoToken => Settled(t) /\ (t \in Dead \/ faults >= 1)
      BY <1>0, <1>1, <3>1 DEF RotationFacts, RotatingSteps
    <3>3. t \in 1..lastToken
      BY <1>1, <3>1 DEF CarriesIssued, TokenSteps
    <3>4. owner[t] \in Owners
      BY <1>1, <1>11, FindUserOwner
    <3>5. owner'[minted'[w]] = owner[t]
      BY <2>2, <3>4, MintTypes DEF Mint
    <3>6. owner'[t] = owner[t]
      BY <3>3, LastTokenStep
    <3>7. QED
      BY <1>2, <1>3, <3>1, <3>2, <3>5, <3>6 DEF RotationFacts, Settled, RotatedSteps
  <2>3. QED
    BY <1>1, <1>11, <2>1, <2>2 DEF FindUser
<1>12. ASSUME LoggingOut(w) PROVE RotationFacts(w)'
  <2>1. CASE Finish(w)
    BY <1>4, <2>1
  <2>2. CASE pc'[w] \in {"clear", "resolve", "logoutRevoke"}
    BY <2>2 DEF RotationFacts, RotatingSteps, RotatedSteps, MintedSteps
  <2>3. QED
    BY <1>12, <2>1, <2>2
       DEF LoggingOut, StartLogout, Resolve, LogoutRevoke, Clear, SkipRevoke, Goto
<1>13. ASSUME Answer(w) PROVE RotationFacts(w)'
  BY <1>4, <1>13 DEF Answer
<1>14. QED
  BY <1>0, <1>5, <1>6, <1>7, <1>8, <1>9, <1>10, <1>11, <1>12, <1>13, OneMoves, RotationBystander
     DEF Issuing, Rotating

\* A refresh token is gone before the browser gets its successor, also when one
\* query of the rotation was lost: Rotate and Create both revoke the user's rows
\* (token_service.go 81, session_repo.go 31).
THEOREM RotationKillsToken == Spec => []RotatedIsDead
<1>1. TypeOK /\ RotationInv /\ [Next]_vars => RotationInv'
  BY RotationStep, CookiesSettledStep, MintedApartStep DEF RotationInv
<1>2. TypeOK /\ RotationInv => RotatedIsDead
  <2> SUFFICES ASSUME TypeOK, RotationInv, faults <= 1, NEW w \in Workers,
                      pc[w] = "answer", presented[w] # NoToken
               PROVE  presented[w] \in Dead
    BY DEF RotatedIsDead
  <2>1. presented[w] \in Dead \/ faults >= 2
    BY DEF RotationInv, RotationFacts, RotatedSteps
  <2>2. faults \in Nat
    BY BoundAssumption DEF TypeOK, HistoryTypes
  <2>3. QED
    BY <2>1, <2>2
<1>3. QED
  BY <1>1, <1>2, TypeCorrect, RotationInit, PTL DEF Spec
=============================================================================
