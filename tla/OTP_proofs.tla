---------------------------- MODULE OTP_proofs ----------------------------
(***************************************************************************)
(* Proofs about OTP, for every set of workers, every limit and every bound, *)
(* and about RateLimits, the limiters in front of it, for every policy.     *)
(***************************************************************************)
EXTENDS OTP, RateLimits, FiniteSetTheorems, TLAPS

USE DEF Codes, NoCode

-----------------------------------------------------------------------------
(* Types. *)

LEMMA RowTypes ==
    ASSUME TypeOK, NEW c \in 0..lastCode
    PROVE  /\ NoRow \in [code : 0..lastCode, attempts : Nat]
           /\ Incremented \in [code : 0..lastCode, attempts : Nat]
           /\ Created(c) \in [code : 0..lastCode, attempts : Nat]
<1>1. NoRow \in [code : 0..lastCode, attempts : Nat]
  BY BoundAssumption DEF NoRow, TypeOK, StoreTypes
<1>2. row \in [code : 0..lastCode, attempts : Nat]
  BY DEF TypeOK, StoreTypes
<1>3. Incremented \in [code : 0..lastCode, attempts : Nat]
  BY <1>1, <1>2 DEF Incremented
<1>4. Created(c) \in [code : 0..lastCode, attempts : Nat]
  BY <1>2 DEF Created
<1>5. QED
  BY <1>1, <1>3, <1>4

LEMMA GotoTypes ==
    ASSUME RequestTypes, NEW w \in Workers, NEW step \in Steps, Goto(w, step)
    PROVE  RequestTypes'
  BY DEF RequestTypes, Goto, request

LEMMA FinishTypes ==
    ASSUME RequestTypes, NEW w \in Workers, Finish(w)
    PROVE  RequestTypes'
  BY BoundAssumption DEF RequestTypes, Finish, Steps

LEMMA TypeInit == Init => TypeOK
  BY BoundAssumption
     DEF Init, TypeOK, StoreTypes, RequestTypes, HistoryTypes, CarriesIssued, NoRow, Steps, CodeSteps

LEMMA TypeStep == TypeOK /\ [Next]_vars => TypeOK'
<1> SUFFICES ASSUME TypeOK, [Next]_vars PROVE TypeOK'
  OBVIOUS
<1> USE BoundAssumption, LimitAssumption DEF TypeOK
<1>1. CASE Tick
  BY <1>1 DEF Tick, StoreTypes, RequestTypes, HistoryTypes, CarriesIssued, history, request
<1>2. ASSUME NEW w \in Workers, StartSend(w) PROVE TypeOK'
  <2>2. StoreTypes'
    <3>1. row' \in [code : 0..lastCode', attempts : Nat]
      <4>1. 0..lastCode \subseteq 0..lastCode'
        BY <1>2 DEF StartSend, StoreTypes
      <4>2. QED
        BY <1>2, <4>1 DEF StartSend, StoreTypes
    <3>2. QED
      BY <1>2, <3>1 DEF StartSend, StoreTypes
  <2>3. RequestTypes'
    BY <1>2 DEF StartSend, RequestTypes, StoreTypes, Steps, CodeSteps, request
  <2>5. HistoryTypes'
    BY <1>2 DEF StartSend, HistoryTypes, history, Answered, Failed
  <2>6. CarriesIssued'
    BY <1>2 DEF StartSend, CarriesIssued, CodeSteps, StoreTypes, RequestTypes
  <2>7. QED
    BY <2>2, <2>3, <2>5, <2>6
<1>3. ASSUME NEW w \in Workers, SaveDelete(w) PROVE TypeOK'
  <2>1. row' \in [code : 0..lastCode, attempts : Nat]
    BY <1>3, RowTypes DEF SaveDelete, Failed, StoreTypes
  <2>2. StoreTypes'
    BY <1>3, <2>1 DEF SaveDelete, StoreTypes
  <2>3. RequestTypes'
    BY <1>3, GotoTypes DEF SaveDelete, Steps, CodeSteps
  <2>5. HistoryTypes'
    BY <1>3 DEF SaveDelete, HistoryTypes, history, Answered, Failed
  <2>6. CarriesIssued'
    BY <1>3 DEF SaveDelete, CarriesIssued, CodeSteps, StoreTypes, RequestTypes, Goto, request
  <2>7. QED
    BY <2>2, <2>3, <2>5, <2>6
<1>4. ASSUME NEW w \in Workers, SaveCreate(w) PROVE TypeOK'
  <2>1. row' \in [code : 0..lastCode, attempts : Nat]
    <3>1. held[w] \in 0..lastCode
      BY <1>4 DEF SaveCreate, CarriesIssued, CodeSteps, StoreTypes
    <3>2. Created(held[w]) \in [code : 0..lastCode, attempts : Nat]
      BY <3>1, RowTypes
    <3>3. QED
      BY <1>4, <3>2 DEF SaveCreate, Failed, StoreTypes
  <2>2. StoreTypes'
    BY <1>4, <2>1 DEF SaveCreate, StoreTypes
  <2>3. RequestTypes'
    BY <1>4, GotoTypes, FinishTypes DEF SaveCreate, Steps, CodeSteps
  <2>5. HistoryTypes'
    BY <1>4 DEF SaveCreate, HistoryTypes, history, Answered, Failed
  <2>6. CarriesIssued'
    BY <1>4 DEF SaveCreate, CarriesIssued, CodeSteps, StoreTypes, RequestTypes, Goto, Finish, request
  <2>7. QED
    BY <2>2, <2>3, <2>5, <2>6
<1>5. ASSUME NEW w \in Workers, Deliver(w) PROVE TypeOK'
  <2>2. StoreTypes'
    BY <1>5 DEF Deliver, StoreTypes, CarriesIssued, CodeSteps
  <2>3. RequestTypes'
    BY <1>5, FinishTypes DEF Deliver
  <2>5. HistoryTypes'
    BY <1>5 DEF Deliver, HistoryTypes, history, Answered, Failed
  <2>6. CarriesIssued'
    BY <1>5 DEF Deliver, CarriesIssued, CodeSteps, StoreTypes, RequestTypes, Finish
  <2>7. QED
    BY <2>2, <2>3, <2>5, <2>6
<1>6. ASSUME NEW w \in Workers, NEW code \in mailed \cup {NoCode}, StartVerify(w, code)
      PROVE  TypeOK'
  <2>2. StoreTypes'
    BY <1>6 DEF StartVerify, StoreTypes
  <2>3. RequestTypes'
    BY <1>6 DEF StartVerify, RequestTypes, StoreTypes, Steps, CodeSteps, request
  <2>5. HistoryTypes'
    BY <1>6 DEF StartVerify, HistoryTypes, history, Answered, Failed
  <2>6. CarriesIssued'
    BY <1>6 DEF StartVerify, CarriesIssued, CodeSteps, StoreTypes, RequestTypes
  <2>7. QED
    BY <2>2, <2>3, <2>5, <2>6
<1>7. ASSUME NEW w \in Workers, Get(w) PROVE TypeOK'
  <2>2. StoreTypes'
    BY <1>7 DEF Get, StoreTypes
  <2>3. RequestTypes'
    <3>1. CASE Finish(w)
      BY <3>1, FinishTypes
    <3>2. CASE Read(w)
      BY <3>2 DEF Read, AttemptsRead, RequestTypes, StoreTypes, Steps, CodeSteps
    <3>3. QED
      BY <1>7, <3>1, <3>2 DEF Get
  <2>5. HistoryTypes'
    BY <1>7 DEF Get, HistoryTypes, history, Answered, Failed
  <2>6. CarriesIssued'
    <3>1. CASE Finish(w)
      BY <1>7, <3>1 DEF Get, Finish, CarriesIssued, CodeSteps, RequestTypes
    <3>2. CASE Read(w) /\ RowExists
      BY <1>7, <3>2 DEF Get, Read, RowExists, CarriesIssued, CodeSteps, StoreTypes, RequestTypes
    <3>3. QED
      BY <1>7, <3>1, <3>2 DEF Get
  <2>7. QED
    BY <2>2, <2>3, <2>5, <2>6
<1>8. ASSUME NEW w \in Workers, Check(w) PROVE TypeOK'
  <2>2. StoreTypes'
    BY <1>8 DEF Check, StoreTypes
  <2>3. RequestTypes'
    BY <1>8, GotoTypes DEF Check, Steps, CodeSteps
  <2>5. HistoryTypes'
    BY <1>8 DEF Check, HistoryTypes, history, Answered, Failed
  <2>6. CarriesIssued'
    BY <1>8 DEF Check, CarriesIssued, CodeSteps, StoreTypes, RequestTypes, Goto, request
  <2>7. QED
    BY <2>2, <2>3, <2>5, <2>6
<1>9. ASSUME NEW w \in Workers, Purge(w) PROVE TypeOK'
  <2>1. row' \in [code : 0..lastCode, attempts : Nat]
    BY <1>9, RowTypes DEF Purge, Failed, StoreTypes
  <2>2. StoreTypes'
    BY <1>9, <2>1 DEF Purge, StoreTypes
  <2>3. RequestTypes'
    BY <1>9, FinishTypes DEF Purge
  <2>5. HistoryTypes'
    BY <1>9 DEF Purge, HistoryTypes, history, Answered, Failed
  <2>6. CarriesIssued'
    BY <1>9 DEF Purge, CarriesIssued, CodeSteps, StoreTypes, RequestTypes, Finish
  <2>7. QED
    BY <2>2, <2>3, <2>5, <2>6
<1>10. ASSUME NEW w \in Workers, Increment(w) PROVE TypeOK'
  <2>1. row' \in [code : 0..lastCode, attempts : Nat]
    BY <1>10, RowTypes DEF Increment, Failed, StoreTypes
  <2>2. StoreTypes'
    BY <1>10, <2>1 DEF Increment, StoreTypes
  <2>3. RequestTypes'
    BY <1>10, GotoTypes, FinishTypes DEF Increment, Steps, CodeSteps
  <2>4. held[w] \in Codes
    BY <1>10 DEF Increment, CarriesIssued, CodeSteps, StoreTypes
  <2>5. HistoryTypes'
    <3>1. compared' \in [Codes -> Nat]
      BY <1>10, <2>4 DEF Increment, HistoryTypes
    <3>2. QED
      BY <1>10, <3>1 DEF Increment, HistoryTypes, Answered, Failed
  <2>6. CarriesIssued'
    BY <1>10 DEF Increment, CarriesIssued, CodeSteps, StoreTypes, RequestTypes, Goto, Finish, request
  <2>7. QED
    BY <2>2, <2>3, <2>5, <2>6
<1>11. ASSUME NEW w \in Workers, Consume(w) PROVE TypeOK'
  <2>1. row' \in [code : 0..lastCode, attempts : Nat]
    BY <1>11, RowTypes DEF Consume, Failed, StoreTypes
  <2>2. StoreTypes'
    BY <1>11, <2>1 DEF Consume, StoreTypes
  <2>3. RequestTypes'
    BY <1>11, FinishTypes DEF Consume
  <2>4. held[w] \in Codes
    BY <1>11 DEF Consume, CarriesIssued, CodeSteps, StoreTypes
  <2>5. HistoryTypes'
    <3>1. accepts' \in [Codes -> Nat]
      BY <1>11, <2>4 DEF Consume, HistoryTypes
    <3>2. faults' \in 0..MaxFaults
      BY <1>11, BoundAssumption DEF Consume, HistoryTypes, Answered, Failed
    <3>3. UNCHANGED <<compared, verifies>>
      BY <1>11 DEF Consume
    <3>4. QED
      BY <3>1, <3>2, <3>3 DEF HistoryTypes
  <2>6. CarriesIssued'
    BY <1>11 DEF Consume, CarriesIssued, CodeSteps, StoreTypes, RequestTypes, Finish
  <2>7. QED
    BY <2>2, <2>3, <2>5, <2>6
<1>12. ASSUME NEW w \in Workers, Repeated(w) PROVE TypeOK'
  <2>1. row' \in [code : 0..lastCode, attempts : Nat]
    <3>1. CASE pc[w] \in {"saveDelete", "purge", "consume"} /\ row' = NoRow
      BY <3>1, RowTypes DEF StoreTypes
    <3>2. CASE pc[w] = "saveCreate" /\ row' = Created(held[w])
      <4>1. held[w] \in 0..lastCode
        BY <3>2 DEF CarriesIssued, CodeSteps
      <4>2. QED
        BY <3>2, <4>1, RowTypes
    <3>3. CASE pc[w] = "increment" /\ row' = Incremented
      BY <3>3, RowTypes DEF StoreTypes
    <3>4. QED
      BY <1>12, <3>1, <3>2, <3>3 DEF Repeated, Executed
  <2>2. StoreTypes'
    BY <1>12, <2>1 DEF Repeated, StoreTypes
  <2>3. RequestTypes'
    BY <1>12 DEF Repeated, RequestTypes, StoreTypes, Steps, CodeSteps, request
  <2>5. HistoryTypes'
    BY <1>12 DEF Repeated, HistoryTypes, history, Answered, Failed
  <2>6. CarriesIssued'
    BY <1>12 DEF Repeated, CarriesIssued, CodeSteps, StoreTypes, RequestTypes, request
  <2>7. QED
    BY <2>2, <2>3, <2>5, <2>6
<1>13. CASE UNCHANGED vars
  BY <1>13 DEF vars, history, request, StoreTypes, RequestTypes, HistoryTypes, CarriesIssued
<1>14. QED
  BY <1>1, <1>2, <1>3, <1>4, <1>5, <1>6, <1>7, <1>8, <1>9, <1>10, <1>11, <1>12, <1>13
     DEF Next, SendNext, VerifyNext

\* Every variable keeps its type: in particular a Verify past Get, and a Send,
\* always carries a code that was generated (otp_service.go 54-126).
THEOREM TypeCorrect == Spec => []TypeOK
  BY TypeInit, TypeStep, PTL DEF Spec

-----------------------------------------------------------------------------
(* Dead codes stay dead.  Three facts about any step carry the argument: time *)
(* and the expiry of generated codes never go back; a row gets a new code     *)
(* only from a CREATE that was pending; a CREATE becomes pending only for a   *)
(* code generated in that very step.                                         *)

LEMMA TimeStep ==
    ASSUME TypeOK, [Next]_vars
    PROVE  /\ clock' >= clock
           /\ lastCode' >= lastCode
           /\ \A c \in Codes : c <= lastCode => expiry'[c] = expiry[c]
<1> USE DEF TypeOK, StoreTypes
<1>1. CASE Tick
  BY <1>1 DEF Tick
<1>2. ASSUME NEW w \in Workers, StartSend(w)
      PROVE  /\ clock' >= clock
             /\ lastCode' >= lastCode
             /\ \A c \in Codes : c <= lastCode => expiry'[c] = expiry[c]
  BY <1>2, BoundAssumption DEF StartSend
<1>3. CASE UNCHANGED <<clock, lastCode, expiry>>
  BY <1>3
<1>4. QED
  BY <1>1, <1>2, <1>3
     DEF Next, SendNext, VerifyNext, SaveDelete, SaveCreate, Deliver, StartVerify, Get, Check,
         Purge, Increment, Consume, Repeated, vars

LEMMA RowStep ==
    ASSUME TypeOK, [Next]_vars
    PROVE  row'.code \in {NoCode, row.code}
           \/ \E w \in Workers : pc[w] = "saveCreate" /\ row'.code = held[w]
<1> USE DEF TypeOK, StoreTypes
<1>1. CASE row' = NoRow \/ row' = row
  BY <1>1 DEF NoRow
<1>2. CASE row' = Incremented
  BY <1>2 DEF Incremented, NoRow
<1>3. CASE \E w \in Workers : pc[w] = "saveCreate" /\ row' = Created(held[w])
  BY <1>3 DEF Created
<1>4. QED
  BY <1>1, <1>2, <1>3
     DEF Next, SendNext, VerifyNext, Tick, StartSend, SaveDelete, SaveCreate, Deliver, StartVerify,
         Get, Check, Purge, Increment, Consume, Repeated, Executed, Failed, vars

LEMMA UnsavedStep ==
    ASSUME TypeOK, [Next]_vars, NEW v \in Workers, pc'[v] \in {"saveDelete", "saveCreate"}
    PROVE  \/ pc[v] \in {"saveDelete", "saveCreate"} /\ held'[v] = held[v]
           \/ StartSend(v) /\ held'[v] > lastCode
<1> USE DEF TypeOK, StoreTypes, RequestTypes
<1>1. ASSUME NEW w \in Workers, StartSend(w)
      PROVE  \/ pc[v] \in {"saveDelete", "saveCreate"} /\ held'[v] = held[v]
             \/ StartSend(v) /\ held'[v] > lastCode
  <2>1. CASE v = w
    <3>1. held'[v] > lastCode
      BY <1>1, <2>1, BoundAssumption DEF StartSend
    <3>2. QED
      BY <1>1, <2>1, <3>1
  <2>2. CASE v # w
    BY <1>1, <2>2 DEF StartSend
  <2>3. QED
    BY <2>1, <2>2
<1>2. ASSUME NEW w \in Workers, Finish(w)
      PROVE  pc[v] \in {"saveDelete", "saveCreate"} /\ held'[v] = held[v]
  BY <1>2 DEF Finish
<1>3. ASSUME NEW w \in Workers, SaveDelete(w)
      PROVE  pc[v] \in {"saveDelete", "saveCreate"} /\ held'[v] = held[v]
  BY <1>3 DEF SaveDelete, Goto, request
<1>4. ASSUME NEW w \in Workers,
             Goto(w, "deliver") \/ Goto(w, "consume") \/ Goto(w, "purge") \/ Goto(w, "increment")
      PROVE  pc[v] \in {"saveDelete", "saveCreate"} /\ held'[v] = held[v]
  BY <1>4 DEF Goto, request
<1>5. ASSUME NEW w \in Workers, Read(w)
      PROVE  pc[v] \in {"saveDelete", "saveCreate"} /\ held'[v] = held[v]
  BY <1>5 DEF Read
<1>6. ASSUME NEW w \in Workers, NEW code \in mailed \cup {NoCode}, StartVerify(w, code)
      PROVE  pc[v] \in {"saveDelete", "saveCreate"} /\ held'[v] = held[v]
  BY <1>6 DEF StartVerify
<1>7. CASE UNCHANGED <<pc, held>>
  BY <1>7
<1>8. QED
  BY <1>1, <1>2, <1>3, <1>4, <1>5, <1>6, <1>7
     DEF Next, SendNext, VerifyNext, Tick, SaveCreate, Deliver, Get, Check, Purge, Increment,
         Consume, Repeated, vars, request

LEMMA SavedStep ==
    ASSUME TypeOK, [Next]_vars, NEW c \in Codes, ~(c > lastCode), ~Unsaved(c)
    PROVE  ~(c > lastCode') /\ ~Unsaved(c)'
<1>1. lastCode \in Nat /\ lastCode' \in Nat /\ c \in Nat
  BY TypeStep, BoundAssumption DEF TypeOK, StoreTypes
<1>2. ~(c > lastCode')
  BY <1>1, TimeStep
<1>3. ~Unsaved(c)'
  <2> SUFFICES ASSUME NEW v \in Workers, pc'[v] \in {"saveDelete", "saveCreate"}, held'[v] = c
               PROVE  FALSE
    BY DEF Unsaved
  <2>1. CASE pc[v] \in {"saveDelete", "saveCreate"} /\ held'[v] = held[v]
    BY <2>1 DEF Unsaved
  <2>2. CASE held'[v] > lastCode
    BY <1>1, <2>2
  <2>3. QED
    BY <2>1, <2>2, UnsavedStep
<1>4. QED
  BY <1>2, <1>3

LEMMA DeadStep == TypeOK /\ [Next]_vars => Dead \subseteq Dead'
<1> SUFFICES ASSUME TypeOK, [Next]_vars, NEW c \in Dead PROVE c \in Dead'
  OBVIOUS
<1>1. c \in Codes /\ c <= lastCode
  BY DEF Dead
<1>2. lastCode \in Nat /\ clock \in Nat /\ expiry[c] \in Nat /\ c \in Nat /\ c # NoCode
  BY <1>1, BoundAssumption DEF TypeOK, StoreTypes
<1>3. lastCode' \in Nat /\ clock' \in Nat
  BY TypeStep, BoundAssumption DEF TypeOK, StoreTypes
<1>4. c <= lastCode'
  BY <1>1, <1>2, <1>3, TimeStep
<1>5. CASE Expired(c)
  <2>1. Expired(c)'
    BY <1>1, <1>2, <1>3, <1>5, TimeStep DEF Expired
  <2>2. QED
    BY <1>1, <1>4, <2>1 DEF Dead
<1>6. CASE row.code # c /\ ~Unsaved(c)
  <2>1. row'.code # c
    BY <1>2, <1>6, RowStep DEF Unsaved
  <2>2. ~Unsaved(c)'
    BY <1>1, <1>2, <1>6, SavedStep
  <2>3. QED
    BY <1>1, <1>4, <2>1, <2>2 DEF Dead
<1>7. QED
  BY <1>5, <1>6 DEF Dead

\* Whatever requests interleave, fail or are repeated, a code that was consumed,
\* replaced or has expired is never live again (Save and Verify).
THEOREM DeadStaysDead == Spec => DeadCodesStayDead
<1>1. TypeOK /\ [Next]_vars => [Dead \subseteq Dead']_vars
  BY DeadStep
<1>2. QED
  BY <1>1, TypeCorrect, PTL DEF Spec, DeadCodesStayDead

-----------------------------------------------------------------------------
(* A dead code is never accepted.  DoomedOK follows a Verify whose input was *)
(* dead from its first query on: what it reads is another code, or it is the  *)
(* same code, expired, and then Check sends it to Purge.                     *)

DoomedOK ==
    \A w \in doomed :
        /\ pc[w] \in {"get", "check", "purge", "increment"}
        /\ input[w] \in Dead
        /\ pc[w] = "check" => held[w] # input[w] \/ Expired(input[w])
        /\ pc[w] = "increment" => held[w] # input[w]

LEMMA ExpiredStep ==
    ASSUME TypeOK, [Next]_vars, NEW c \in Codes, c <= lastCode, Expired(c)
    PROVE  Expired(c)'
<1>1. clock \in Nat /\ clock' \in Nat /\ expiry[c] \in Nat
  BY TypeStep, BoundAssumption DEF TypeOK, StoreTypes
<1>2. QED
  BY <1>1, TimeStep DEF Expired

LEMMA DoomedStep == TypeOK /\ DoomedOK /\ [Next]_vars => DoomedOK'
<1> DEFINE Good(v) ==
        /\ pc[v] \in {"get", "check", "purge", "increment"}
        /\ input[v] \in Dead
        /\ pc[v] = "check" => held[v] # input[v] \/ Expired(input[v])
        /\ pc[v] = "increment" => held[v] # input[v]
<1> SUFFICES ASSUME TypeOK, DoomedOK, [Next]_vars, NEW v \in doomed' PROVE Good(v)'
  BY DEF DoomedOK
<1> USE DEF TypeOK, RequestTypes
<1>1. v \in doomed => Good(v)
  BY DEF DoomedOK
<1>2. Dead \subseteq Dead'
  BY DeadStep
<1>3. \A c \in Dead : Expired(c) => Expired(c)'
  BY ExpiredStep DEF Dead
<1>4. ASSUME v \in doomed, UNCHANGED <<pc[v], held[v], input[v]>> PROVE Good(v)'
  BY <1>1, <1>2, <1>3, <1>4
<1>5. ASSUME NEW w \in Workers, Finish(w) PROVE Good(v)'
  BY <1>4, <1>5 DEF Finish
<1>6. ASSUME NEW w \in Workers, StartSend(w) PROVE Good(v)'
  BY <1>1, <1>4, <1>6 DEF StartSend
<1>7. ASSUME NEW w \in Workers, SaveDelete(w) \/ SaveCreate(w) PROVE Good(v)'
  BY <1>1, <1>4, <1>5, <1>7 DEF SaveDelete, SaveCreate, Goto, request
<1>8. ASSUME NEW w \in Workers, NEW code \in mailed \cup {NoCode}, StartVerify(w, code)
      PROVE  Good(v)'
  <2>1. CASE v = w /\ v \notin doomed
    BY <1>2, <1>8, <2>1, BoundAssumption DEF StartVerify, StoreTypes
  <2>2. CASE v # w \/ v \in doomed
    BY <1>1, <1>4, <1>8, <2>2 DEF StartVerify
  <2>3. QED
    BY <2>1, <2>2
<1>9. ASSUME NEW w \in Workers, Get(w) PROVE Good(v)'
  <2>1. CASE Read(w) /\ v = w /\ RowExists
    <3>1. pc'[v] = "check" /\ held'[v] = row.code /\ input'[v] = input[v]
      BY <2>1 DEF Read
    <3>2. input[v] \in Dead /\ (Expired(input[v]) \/ row.code # input[v])
      BY <1>1, <2>1 DEF Read, Dead
    <3>3. QED
      BY <1>2, <1>3, <3>1, <3>2
  <2>2. CASE Read(w) /\ v # w
    BY <1>4, <2>2 DEF Read
  <2>3. QED
    BY <1>5, <1>9, <2>1, <2>2 DEF Get
<1>10. ASSUME NEW w \in Workers, Check(w) PROVE Good(v)'
  <2>1. CASE v = w
    <3>1. Good(v) /\ pc[v] = "check" /\ UNCHANGED <<held[v], input[v]>>
      BY <1>1, <1>10, <2>1 DEF Check, Goto, request
    <3>2. pc'[v] = "purge" \/ (pc'[v] = "increment" /\ ~Expired(held[v]))
      BY <1>10, <2>1 DEF Check, Goto, Refused
    <3>3. QED
      BY <1>2, <3>1, <3>2
  <2>2. CASE v # w
    BY <1>4, <1>10, <2>2 DEF Check, Goto, request
  <2>3. QED
    BY <2>1, <2>2
<1>11. ASSUME NEW w \in Workers, Increment(w) PROVE Good(v)'
  BY <1>1, <1>4, <1>5, <1>11 DEF Increment, Goto, request
<1>12. CASE UNCHANGED <<pc, request>>
  BY <1>4, <1>12 DEF request
<1>13. QED
  BY <1>5, <1>6, <1>7, <1>8, <1>9, <1>10, <1>11, <1>12
     DEF Next, SendNext, VerifyNext, Tick, Deliver, Purge, Consume, Repeated, vars

\* No Verify answers true for a code that was consumed, replaced or expired
\* before it started (otp_service.go 89-126).
THEOREM DeadNeverAccepted == Spec => []DeadCodeNeverAccepted
<1>1. Init => DoomedOK
  BY DEF Init, DoomedOK
<1>2. DoomedOK => DeadCodeNeverAccepted
  BY DEF DoomedOK, DeadCodeNeverAccepted
<1>3. QED
  BY <1>1, <1>2, DoomedStep, TypeCorrect, PTL DEF Spec

-----------------------------------------------------------------------------
(* The counter of the stored row.  A code that is not stored yet was never     *)
(* compared and nobody has read it, so its row starts level with its          *)
(* comparisons; from then on a comparison follows an increment.               *)

Judged(c) == \E w \in Workers : pc[w] \in {"check", "increment"} /\ held[w] = c

\* No two Sends carry the same code.
UnsavedUnique ==
    \A v, w \in Workers :
        /\ pc[v] \in {"saveDelete", "saveCreate"}
        /\ pc[w] \in {"saveDelete", "saveCreate"}
        /\ held[v] = held[w]
        => v = w

FreshOK(c) == (c > lastCode \/ Unsaved(c)) => compared[c] = 0 /\ row.code # c /\ ~Judged(c)
CountOK(c) == row.code = c => compared[c] <= row.attempts

CounterOK == faults = 0 => UnsavedUnique /\ \A c \in Codes : FreshOK(c) /\ CountOK(c)

LEMMA UniqueStep == TypeOK /\ UnsavedUnique /\ [Next]_vars => UnsavedUnique'
<1> SUFFICES ASSUME TypeOK, UnsavedUnique, [Next]_vars,
                    NEW v \in Workers, NEW w \in Workers,
                    pc'[v] \in {"saveDelete", "saveCreate"},
                    pc'[w] \in {"saveDelete", "saveCreate"},
                    held'[v] = held'[w]
             PROVE  v = w
  BY DEF UnsavedUnique
<1> DEFINE Old(u) == pc[u] \in {"saveDelete", "saveCreate"} /\ held'[u] = held[u]
<1>1. \A u \in Workers : Old(u) => held[u] \in Nat /\ lastCode \in Nat /\ held[u] <= lastCode
  BY DEF TypeOK, StoreTypes, CarriesIssued, CodeSteps
<1>2. CASE Old(v) /\ Old(w)
  BY <1>2 DEF UnsavedUnique
<1>3. CASE StartSend(v) /\ StartSend(w)
  BY <1>3 DEF StartSend, TypeOK, RequestTypes
<1>4. CASE Old(v) /\ held'[w] > lastCode
  BY <1>1, <1>4
<1>5. CASE Old(w) /\ held'[v] > lastCode
  BY <1>1, <1>5
<1>6. QED
  BY <1>2, <1>3, <1>4, <1>5, UnsavedStep

\* A step that neither compares, nor reads, nor increments, nor stores c.
LEMMA QuietStep ==
    ASSUME TypeOK, [Next]_vars, NEW c \in Codes, FreshOK(c), CountOK(c),
           row' = row \/ row'.code # c,
           compared'[c] = compared[c],
           Judged(c)' => Judged(c)
    PROVE  FreshOK(c)' /\ CountOK(c)'
<1>1. FreshOK(c)'
  BY SavedStep DEF FreshOK
<1>2. CountOK(c)'
  BY DEF CountOK
<1>3. QED
  BY <1>1, <1>2

LEMMA ReadStep ==
    ASSUME TypeOK, [Next]_vars, NEW c \in Codes, FreshOK(c), CountOK(c),
           NEW w \in Workers, Read(w), UNCHANGED <<row, compared>>
    PROVE  FreshOK(c)' /\ CountOK(c)'
<1>1. CASE row.code = c
  <2>1. ~(c > lastCode) /\ ~Unsaved(c)
    BY <1>1 DEF FreshOK
  <2>2. QED
    BY <1>1, <2>1, SavedStep DEF FreshOK, CountOK
<1>2. CASE row.code # c
  <2>1. Judged(c)' => Judged(c)
    BY <1>2 DEF Judged, Read, TypeOK, RequestTypes
  <2>2. QED
    BY <2>1, QuietStep
<1>3. QED
  BY <1>1, <1>2

LEMMA IncrementStep ==
    ASSUME TypeOK, [Next]_vars, NEW c \in Codes, FreshOK(c), CountOK(c),
           NEW w \in Workers, Increment(w), row' = Incremented
    PROVE  FreshOK(c)' /\ CountOK(c)'
<1> USE DEF TypeOK, StoreTypes, RequestTypes, HistoryTypes
<1>1. /\ pc[w] = "increment"
      /\ compared' = [compared EXCEPT ![held[w]] = @ + 1]
      /\ pc'[w] \in {"consume", "idle"}
      /\ \A v \in Workers : v # w => pc'[v] = pc[v] /\ held'[v] = held[v]
  BY DEF Increment, Goto, Finish, request
<1>2. Judged(c)' => Judged(c)
  BY <1>1 DEF Judged
<1>3. CASE row.code = c \/ held[w] = c
  <2>1. ~(c > lastCode) /\ ~Unsaved(c)
    BY <1>1, <1>3 DEF FreshOK, Judged
  <2>2. compared'[c] \in {compared[c], compared[c] + 1}
    BY <1>1
  <2>3. CountOK(c)'
    BY <2>2 DEF CountOK, Incremented, NoRow, RowExists
  <2>4. QED
    BY <2>1, <2>3, SavedStep DEF FreshOK
<1>4. CASE row.code # c /\ held[w] # c
  <2>1. compared'[c] = compared[c]
    BY <1>1, <1>4
  <2>2. row' = row \/ row'.code # c
    BY <1>4 DEF Incremented, NoRow
  <2>3. QED
    BY <1>2, <2>1, <2>2, QuietStep
<1>5. QED
  BY <1>3, <1>4

LEMMA SaveCreateStep ==
    ASSUME TypeOK, [Next]_vars, UnsavedUnique, NEW c \in Codes, FreshOK(c), CountOK(c),
           NEW w \in Workers, SaveCreate(w), row' = Created(held[w])
    PROVE  FreshOK(c)' /\ CountOK(c)'
<1> USE DEF TypeOK, StoreTypes, RequestTypes, HistoryTypes
<1>1. /\ pc[w] = "saveCreate"
      /\ compared' = compared
      /\ pc'[w] \in {"deliver", "idle"}
      /\ \A v \in Workers : v # w => pc'[v] = pc[v] /\ held'[v] = held[v]
  BY DEF SaveCreate, Goto, Finish, request, history
<1>2. Judged(c)' => Judged(c)
  BY <1>1 DEF Judged
<1>3. CASE RowExists \/ held[w] # c
  BY <1>1, <1>2, <1>3, QuietStep DEF Created
<1>4. CASE ~RowExists /\ held[w] = c
  <2>1. Unsaved(c)
    BY <1>1, <1>4 DEF Unsaved
  <2>2. compared'[c] = 0
    BY <1>1, <2>1 DEF FreshOK
  <2>3. ~Unsaved(c)'
    BY <1>1, <1>4 DEF Unsaved, UnsavedUnique
  <2>4. ~(c > lastCode')
    <3>1. c <= lastCode /\ lastCode \in Nat
      BY <1>1, <1>4, BoundAssumption DEF CarriesIssued, CodeSteps
    <3>2. lastCode' = lastCode
      BY DEF SaveCreate
    <3>3. QED
      BY <3>1, <3>2
  <2>5. CountOK(c)'
    BY <1>4, <2>2 DEF CountOK, Created
  <2>6. QED
    BY <2>3, <2>4, <2>5 DEF FreshOK
<1>5. QED
  BY <1>3, <1>4

LEMMA CounterStep == TypeOK /\ CounterOK /\ [Next]_vars => CounterOK'
<1> SUFFICES ASSUME TypeOK, CounterOK, [Next]_vars, faults' = 0
             PROVE  UnsavedUnique' /\ \A c \in Codes : FreshOK(c)' /\ CountOK(c)'
  BY DEF CounterOK
<1> USE DEF TypeOK, RequestTypes, StoreTypes, HistoryTypes
<1>1. faults = 0 /\ (\A w \in Workers : ~Repeated(w)) /\ ~Failed
  <2>1. faults' = faults \/ faults' = faults + 1
    BY DEF Next, SendNext, VerifyNext, Tick, StartSend, SaveDelete, SaveCreate, Deliver, StartVerify,
           Get, Check, Purge, Increment, Consume, Repeated, Answered, Failed, vars
  <2>2. QED
    BY <2>1 DEF Repeated, Failed
<1>2. UnsavedUnique /\ \A c \in Codes : FreshOK(c) /\ CountOK(c)
  BY <1>1 DEF CounterOK
<1>3. UnsavedUnique'
  BY <1>2, UniqueStep
<1> SUFFICES ASSUME NEW c \in Codes PROVE FreshOK(c)' /\ CountOK(c)'
  BY <1>3
<1>4. FreshOK(c) /\ CountOK(c)
  BY <1>2
<1>5. ASSUME (row' = row \/ row' = NoRow), compared' = compared, Judged(c)' => Judged(c)
      PROVE  FreshOK(c)' /\ CountOK(c)'
  <2>1. c # NoCode /\ NoRow.code = NoCode
    BY DEF NoRow
  <2>2. (row' = row \/ row'.code # c) /\ compared'[c] = compared[c]
    BY <1>5, <2>1
  <2>3. Judged(c)' => Judged(c)
    BY <1>5
  <2>4. QED
    BY <1>4, <2>2, <2>3, QuietStep
<1>6. ASSUME NEW w \in Workers, Finish(w) PROVE Judged(c)' => Judged(c)
  BY <1>6 DEF Finish, Judged
<1>7. CASE Tick
  BY <1>5, <1>7 DEF Tick, Judged, history, request
<1>8. ASSUME NEW w \in Workers, StartSend(w) PROVE FreshOK(c)' /\ CountOK(c)'
  BY <1>5, <1>8 DEF StartSend, Judged, history
<1>9. ASSUME NEW w \in Workers, SaveDelete(w) PROVE FreshOK(c)' /\ CountOK(c)'
  BY <1>5, <1>9 DEF SaveDelete, Goto, request, Judged, Failed, history
<1>10. ASSUME NEW w \in Workers, SaveCreate(w) PROVE FreshOK(c)' /\ CountOK(c)'
  BY <1>1, <1>2, <1>10, SaveCreateStep DEF SaveCreate
<1>11. ASSUME NEW w \in Workers, Deliver(w) \/ Purge(w) \/ Consume(w)
       PROVE  FreshOK(c)' /\ CountOK(c)'
  BY <1>5, <1>6, <1>11 DEF Deliver, Purge, Consume, Failed, history
<1>12. ASSUME NEW w \in Workers, NEW code \in mailed \cup {NoCode}, StartVerify(w, code)
       PROVE  FreshOK(c)' /\ CountOK(c)'
  BY <1>5, <1>12 DEF StartVerify, Judged, history
<1>13. ASSUME NEW w \in Workers, Get(w) PROVE FreshOK(c)' /\ CountOK(c)'
  <2>1. UNCHANGED <<row, compared>>
    BY <1>13 DEF Get, history
  <2>2. CASE Finish(w)
    BY <1>5, <1>6, <2>1, <2>2
  <2>3. CASE Read(w)
    BY <1>4, <2>1, <2>3, ReadStep
  <2>4. QED
    BY <1>13, <2>2, <2>3 DEF Get
<1>14. ASSUME NEW w \in Workers, Check(w) PROVE FreshOK(c)' /\ CountOK(c)'
  BY <1>5, <1>14 DEF Check, Goto, request, Judged, history
<1>15. ASSUME NEW w \in Workers, Increment(w) PROVE FreshOK(c)' /\ CountOK(c)'
  BY <1>1, <1>4, <1>15, IncrementStep DEF Increment
<1>16. CASE UNCHANGED vars
  BY <1>5, <1>16 DEF vars, history, request, Judged
<1>17. QED
  BY <1>1, <1>7, <1>8, <1>9, <1>10, <1>11, <1>12, <1>13, <1>14, <1>15, <1>16
     DEF Next, SendNext, VerifyNext

\* When no query is lost, the counter of the stored row is never behind the
\* comparisons made against its code, however Sends and Verifies overlap
\* (otp_service.go 94-118, otp_repo.go 107-119): what goes wrong with the attempt
\* limit is in reading the counter, not in keeping it.
THEOREM CounterNeverBehind == Spec => []CounterCounts
<1>1. Init => CounterOK
  BY DEF Init, CounterOK, UnsavedUnique, FreshOK, CountOK, Judged, NoRow
<1>2. TypeOK /\ CounterOK => CounterCounts
  <2> SUFFICES ASSUME TypeOK, CounterOK, faults = 0, RowExists
               PROVE  compared[row.code] <= row.attempts
    BY DEF CounterCounts
  <2>1. row.code \in Codes
    BY BoundAssumption DEF TypeOK, StoreTypes, RowExists
  <2>2. QED
    BY <2>1 DEF CounterOK, CountOK
<1>3. QED
  BY <1>1, <1>2, CounterStep, TypeCorrect, PTL DEF Spec

-----------------------------------------------------------------------------
(* Sends leave a code. *)

SendSteps == {"saveDelete", "saveCreate"}

\* The inductive strengthening: while nothing failed and nobody verified, requests
\* are Sends, and once one began a code is stored or a CREATE is still to come.
Sending ==
    faults = 0 /\ verifies = 0 =>
        /\ \A w \in Workers : pc[w] \in {"idle", "deliver"} \cup SendSteps
        /\ lastCode = 0 \/ RowExists \/ \E w \in Workers : pc[w] \in SendSteps

LEMMA SendingStep == TypeOK /\ Sending /\ [Next]_vars => Sending'
<1> SUFFICES ASSUME TypeOK, Sending, [Next]_vars, faults' = 0, verifies' = 0
             PROVE  /\ \A w \in Workers : pc'[w] \in {"idle", "deliver"} \cup SendSteps
                    /\ lastCode' = 0 \/ RowExists' \/ \E w \in Workers : pc'[w] \in SendSteps
  BY DEF Sending
<1> DEFINE AllSend == \A w \in Workers : pc'[w] \in {"idle", "deliver"} \cup SendSteps
           KeepsACode == lastCode' = 0 \/ RowExists' \/ \E w \in Workers : pc'[w] \in SendSteps
<1>1. pc \in [Workers -> Steps] /\ faults \in Nat /\ verifies \in Nat
  BY BoundAssumption DEF TypeOK, RequestTypes, HistoryTypes
<1>2. ASSUME Failed PROVE FALSE
  BY <1>1, <1>2 DEF Failed
<1>3. ASSUME NEW w \in Workers, NEW code \in mailed \cup {NoCode}, StartVerify(w, code) PROVE FALSE
  BY <1>1, <1>3 DEF StartVerify
<1>4. ASSUME NEW w \in Workers, Repeated(w) PROVE FALSE
  BY <1>1, <1>4 DEF Repeated
<1>5. ASSUME faults' = faults, verifies' = verifies
      PROVE  /\ \A w \in Workers : pc[w] \in {"idle", "deliver"} \cup SendSteps
             /\ lastCode = 0 \/ RowExists \/ \E w \in Workers : pc[w] \in SendSteps
  BY <1>5 DEF Sending
<1>6. ASSUME NEW w \in Workers, VerifyNext(w) PROVE FALSE
  <2>1. pc[w] \in {"get", "check", "purge", "increment", "consume"} /\ faults' = faults /\ verifies' = verifies
    BY <1>2, <1>3, <1>6
       DEF VerifyNext, Get, Check, Purge, Increment, Consume, Answered
  <2>2. QED
    BY <1>5, <2>1 DEF SendSteps
<1>7. ASSUME NEW w \in Workers, StartSend(w) PROVE AllSend /\ KeepsACode
  BY <1>1, <1>5, <1>7 DEF StartSend, SendSteps
<1>8. ASSUME NEW w \in Workers, SaveDelete(w) PROVE AllSend /\ KeepsACode
  BY <1>1, <1>2, <1>5, <1>8 DEF SaveDelete, Answered, Goto, SendSteps
<1>9. ASSUME NEW w \in Workers, SaveCreate(w) PROVE AllSend /\ KeepsACode
  <2>1. row' = Created(held[w]) /\ Answered /\ verifies' = verifies
    BY <1>2, <1>9 DEF SaveCreate
  <2>2. held[w] \in 1..lastCode /\ lastCode \in Nat
    BY <1>9, BoundAssumption DEF SaveCreate, TypeOK, CarriesIssued, CodeSteps, StoreTypes
  <2>3. RowExists'
    BY <2>1, <2>2 DEF Created, RowExists, NoCode
  <2>4. pc' = [pc EXCEPT ![w] = "idle"] \/ pc' = [pc EXCEPT ![w] = "deliver"]
    BY <1>2, <1>9 DEF SaveCreate, Finish, Goto
  <2>5. AllSend
    BY <1>1, <1>5, <2>1, <2>4 DEF Answered
  <2>6. QED
    BY <2>3, <2>5
<1>10. ASSUME NEW w \in Workers, Deliver(w) PROVE AllSend /\ KeepsACode
  BY <1>1, <1>5, <1>10 DEF Deliver, Finish, RowExists, SendSteps
<1>11. ASSUME Tick \/ UNCHANGED vars PROVE AllSend /\ KeepsACode
  BY <1>5, <1>11 DEF Tick, vars, RowExists
<1>12. QED
  BY <1>4, <1>6, <1>7, <1>8, <1>9, <1>10, <1>11 DEF Next, SendNext

\* However Sends overlap, when they have all returned a code is stored
\* (otp_repo.go 33-59), unless a query failed or somebody verified.
THEOREM SendsLeaveACode == Spec => []SendLeavesACode
<1>1. Init => Sending
  BY DEF Init, Sending
<1>2. Sending => SendLeavesACode
  BY DEF Sending, SendLeavesACode, SendSteps
<1>3. QED
  BY <1>1, <1>2, SendingStep, TypeCorrect, PTL DEF Spec

-----------------------------------------------------------------------------
(* The limiters of RateLimits: types.  Their histories are sets of stamps, and *)
(* what is counted is only right when no two requests share a stamp.           *)

\* A finite set of stamps that numbers the requests of each instant from 1.
Numbered(s) == IsFiniteSet(s) /\ \A e \in s : e[2] \in 1..Cardinality(Instant(s, e[1]))

LEMMA AfterNumbered ==
    ASSUME NEW s, NEW time, Numbered(s)
    PROVE  /\ Numbered(After(s, time))
           /\ Cardinality(After(s, time)) \in Nat
           /\ Cardinality(After(s, time)) <= Cardinality(s)
           /\ Cardinality(s) \in Nat
<1>1. IsFiniteSet(s) /\ After(s, time) \in SUBSET s
  BY DEF Numbered, After
<1>2. IsFiniteSet(After(s, time)) /\ Cardinality(After(s, time)) <= Cardinality(s)
  BY <1>1, FS_Subset
<1>3. \A e \in After(s, time) : Instant(After(s, time), e[1]) = Instant(s, e[1])
  BY DEF After, Instant
<1>4. QED
  BY <1>1, <1>2, <1>3, FS_CardinalityType DEF Numbered

\* The stamp of a request is new: the limiters never lose one of two requests of an instant.
LEMMA JoinedNumbered ==
    ASSUME NEW s \in SUBSET Stamps, Numbered(s), now \in Times
    PROVE  /\ Stamp(s) \in Stamps \ s
           /\ Joined(s) \in SUBSET Stamps
           /\ Numbered(Joined(s))
           /\ Cardinality(Joined(s)) = Cardinality(s) + 1
<1> DEFINE same == Instant(s, now)
           new == Stamp(s)
<1>1. IsFiniteSet(s) /\ same \in SUBSET s
  BY DEF Numbered, Instant
<1>2. IsFiniteSet(same) /\ Cardinality(same) \in Nat
  BY <1>1, FS_Subset, FS_CardinalityType
<1>3. new = <<now, Cardinality(same) + 1>> /\ new \in Stamps
  BY <1>2 DEF Stamp, Stamps
<1>4. new \notin s
  <2>1. SUFFICES ASSUME new \in s PROVE FALSE
    OBVIOUS
  <2>2. new[2] \in 1..Cardinality(same)
    BY <1>3, <2>1 DEF Numbered
  <2>3. QED
    BY <1>2, <1>3, <2>2
<1>5. Joined(s) = s \cup {new} /\ Joined(s) \in SUBSET Stamps
  BY <1>3 DEF Joined
<1>6. IsFiniteSet(Joined(s)) /\ Cardinality(Joined(s)) = Cardinality(s) + 1
  BY <1>1, <1>4, <1>5, FS_AddElement
<1>7. Instant(Joined(s), now) = same \cup {new}
  BY <1>3, <1>5 DEF Instant
<1>8. new \notin same
  BY <1>1, <1>4
<1>9. Cardinality(Instant(Joined(s), now)) = Cardinality(same) + 1
  BY <1>2, <1>7, <1>8, FS_AddElement
<1>10. ASSUME NEW e \in Joined(s) PROVE e[2] \in 1..Cardinality(Instant(Joined(s), e[1]))
  <2>1. CASE e[1] = now
    <3>1. CASE e = new
      BY <1>2, <1>3, <1>9, <3>1
    <3>2. CASE e \in s
      BY <1>2, <1>9, <2>1, <3>2 DEF Numbered
    <3>3. QED
      BY <1>5, <3>1, <3>2
  <2>2. CASE e[1] # now
    <3>1. e \in s
      BY <1>3, <1>5, <2>2
    <3>2. Instant(Joined(s), e[1]) = Instant(s, e[1])
      BY <1>3, <1>5, <2>2 DEF Instant
    <3>3. QED
      BY <3>1, <3>2 DEF Numbered
  <2>3. QED
    BY <2>1, <2>2
<1>11. QED
  BY <1>3, <1>4, <1>5, <1>6, <1>10 DEF Numbered

\* The requests of every limiter are numbered.
AllNumbered ==
    /\ \A a \in Addresses : Numbered(windows[a]) /\ Numbered(passed[a])
    /\ \A k \in Keys : Numbered(hits[k]) /\ Numbered(spent[k]) /\ Numbered(resets[k])

LEMMA LimitsInitially == LimitsInit => LimitsTypeOK /\ AllNumbered
<1> SUFFICES ASSUME LimitsInit PROVE LimitsTypeOK /\ AllNumbered
  OBVIOUS
<1> USE QuotaAssumption, ClockAssumption
<1>1. Numbered({}) /\ Cardinality({}) = 0
  BY FS_EmptySet DEF Numbered
<1>2. AllNumbered
  BY <1>1 DEF LimitsInit, AllNumbered
<1>3. \A a \in Addresses : Cardinality(windows[a]) <= GeneralLimit
  BY <1>1 DEF LimitsInit
<1>4. user \in [Handlers -> Users]
  BY DEF LimitsInit
<1>5. QED
  BY <1>2, <1>3, <1>4 DEF LimitsInit, LimitsTypeOK, Times, NoRetry, Keys

BucketTypes ==
    /\ entries \subseteq Keys
    /\ count \in [Keys -> 0..PolicyAttempts]
    /\ windowStart \in [Keys -> Times]
    /\ hits \in [Keys -> SUBSET Stamps]
    /\ spent \in [Keys -> SUBSET Stamps]
    /\ resets \in [Keys -> SUBSET Stamps]
    /\ \A k \in Keys : Numbered(hits[k]) /\ Numbered(spent[k]) /\ Numbered(resets[k])

LEMMA RecordedTypes ==
    ASSUME NEW s \in SUBSET Stamps, Numbered(s), now \in Times
    PROVE  Recorded(s) \in SUBSET Stamps /\ Numbered(Recorded(s))
<1>1. After(s, now - Window) \in SUBSET Stamps /\ Numbered(After(s, now - Window))
  BY AfterNumbered DEF After
<1>2. QED
  BY <1>1, JoinedNumbered DEF Recorded

\* Allow, whatever it answers, keeps a bucket's types.
LEMMA AllowTypes ==
    ASSUME LimitsTypeOK, AllNumbered, NEW k \in Keys, Allowed(k) \/ OverLimit(k)
    PROVE  BucketTypes'
<1> USE QuotaAssumption, ClockAssumption
<1>1. BucketTypes /\ now \in Times
  BY DEF BucketTypes, LimitsTypeOK, AllNumbered
<1>2. Bucket(k).n \in 0..PolicyAttempts /\ Bucket(k).start \in Times
  BY <1>1 DEF Bucket, BucketTypes
<1>3. CASE Allowed(k)
  <2>1. Bucket(k).n + 1 \in 0..PolicyAttempts
    BY <1>2, <1>3 DEF Allowed, Admits
  <2>2. /\ hits' = [hits EXCEPT ![k] = Recorded(hits[k])]
        /\ spent' = [spent EXCEPT ![k] = Recorded(spent[k])]
        /\ resets' = resets
    BY <1>3 DEF Allowed, Spent
  <2>3. /\ Recorded(hits[k]) \in SUBSET Stamps /\ Numbered(Recorded(hits[k]))
        /\ Recorded(spent[k]) \in SUBSET Stamps /\ Numbered(Recorded(spent[k]))
    BY <1>1, RecordedTypes DEF BucketTypes
  <2>4. /\ hits' \in [Keys -> SUBSET Stamps] /\ spent' \in [Keys -> SUBSET Stamps]
        /\ \A j \in Keys : Numbered(hits'[j]) /\ Numbered(spent'[j])
    BY <1>1, <2>2, <2>3 DEF BucketTypes
  <2>5. Kept(k, Bucket(k).n + 1)
    BY <1>3 DEF Allowed
  <2>6. QED
    BY <1>1, <1>2, <2>1, <2>2, <2>4, <2>5 DEF BucketTypes, Kept
<1>4. CASE OverLimit(k)
  BY <1>1, <1>2, <1>4 DEF OverLimit, quota, Kept, BucketTypes
<1>5. QED
  BY <1>3, <1>4

LEMMA LimitsStep ==
    LimitsTypeOK /\ AllNumbered /\ [LimitsNext]_limitVars => LimitsTypeOK' /\ AllNumbered'
<1> SUFFICES ASSUME LimitsTypeOK, AllNumbered, [LimitsNext]_limitVars
             PROVE  LimitsTypeOK' /\ AllNumbered'
  OBVIOUS
<1> USE QuotaAssumption, ClockAssumption
<1>1. BucketTypes /\ now \in Times
  BY DEF BucketTypes, LimitsTypeOK, AllNumbered
<1>2. CASE LimitsTick
  BY <1>2 DEF LimitsTick, quota, LimitsTypeOK, AllNumbered, Times
<1>3. ASSUME NEW a \in Addresses
      PROVE  /\ Valid(a) \in SUBSET Stamps
             /\ Numbered(Valid(a))
             /\ Cardinality(Valid(a)) \in Nat
             /\ Cardinality(Valid(a)) <= GeneralLimit
  <2>1. windows[a] \in SUBSET Stamps /\ Numbered(windows[a]) /\ Cardinality(windows[a]) <= GeneralLimit
    BY DEF LimitsTypeOK, AllNumbered
  <2>2. Valid(a) \in SUBSET Stamps
    BY <2>1 DEF Valid, After
  <2>3. QED
    BY <2>1, <2>2, AfterNumbered DEF Valid
<1>4. ASSUME NEW a \in Addresses, NEW w \in Handlers, Pass(w, a)
      PROVE  LimitsTypeOK' /\ AllNumbered'
  <2> DEFINE old == After(passed[a], now - GeneralWindow)
  <2>1. old \in SUBSET Stamps /\ Numbered(old)
    BY AfterNumbered DEF LimitsTypeOK, AllNumbered, After
  <2>2. Joined(old) \in SUBSET Stamps /\ Numbered(Joined(old))
    BY <1>1, <2>1, JoinedNumbered
  <2>3. /\ Joined(Valid(a)) \in SUBSET Stamps
        /\ Numbered(Joined(Valid(a)))
        /\ Cardinality(Joined(Valid(a))) <= GeneralLimit
    BY <1>1, <1>3, <1>4, JoinedNumbered DEF Pass
  <2>4. /\ windows' = [windows EXCEPT ![a] = Joined(Valid(a))]
        /\ passed' = [passed EXCEPT ![a] = Joined(old)]
    BY <1>4 DEF Pass
  <2>5. /\ windows' \in [Addresses -> SUBSET Stamps]
        /\ passed' \in [Addresses -> SUBSET Stamps]
        /\ \A b \in Addresses : /\ Cardinality(windows'[b]) <= GeneralLimit
                                /\ Numbered(windows'[b]) /\ Numbered(passed'[b])
    BY <2>2, <2>3, <2>4 DEF LimitsTypeOK, AllNumbered
  <2>6. QED
    BY <1>4, <2>5 DEF Pass, quota, LimitsTypeOK, AllNumbered, NoRetry
<1>5. ASSUME NEW a \in Addresses, Block(a) PROVE LimitsTypeOK' /\ AllNumbered'
  <2>1. \A b \in Addresses : /\ windows'[b] \in SUBSET Stamps
                             /\ Cardinality(windows'[b]) <= GeneralLimit
                             /\ Numbered(windows'[b])
    BY <1>3, <1>5 DEF Block, LimitsTypeOK, AllNumbered
  <2>2. PICK first \in Valid(a) :
            retryAt' = [retryAt EXCEPT ![a] = now + RetrySeconds(first) * TicksPerSecond]
    BY <1>5 DEF Block
  <2>3. RetrySeconds(first) \in Int
    BY <1>1, <1>3, <2>2 DEF RetrySeconds, Stamps, Times
  <2>4. retryAt' \in [Addresses -> Int]
    BY <1>1, <2>2, <2>3 DEF LimitsTypeOK, Times
  <2>5. QED
    BY <1>5, <2>1, <2>4 DEF Block, quota, LimitsTypeOK, AllNumbered
<1>6. ASSUME NEW w \in Handlers, NEW u \in Users, SendOTP(w, u)
      PROVE  LimitsTypeOK' /\ AllNumbered'
  <2>1. <<"send", u>> \in Keys
    BY DEF Keys
  <2>2. BucketTypes'
    BY <1>6, <2>1, AllowTypes DEF SendOTP
  <2>3. QED
    BY <1>6, <2>2 DEF SendOTP, Become, BucketTypes, LimitsTypeOK, AllNumbered
<1>7. ASSUME NEW w \in Handlers, NEW u \in Users, VerifyOTP(w, u)
      PROVE  LimitsTypeOK' /\ AllNumbered'
  <2>1. <<"fail", u>> \in Keys
    BY DEF Keys
  <2>2. BucketTypes'
    BY <1>7, <2>1, AllowTypes DEF VerifyOTP
  <2>3. QED
    BY <1>7, <2>2 DEF VerifyOTP, Become, BucketTypes, LimitsTypeOK, AllNumbered
<1>8. ASSUME NEW w \in Handlers, Other(w) \/ Verified(w) PROVE LimitsTypeOK' /\ AllNumbered'
  BY <1>8 DEF Other, Verified, Become, quota, LimitsTypeOK, AllNumbered
<1>9. ASSUME NEW w \in Handlers, ResetAfterVerify(w) PROVE LimitsTypeOK' /\ AllNumbered'
  <2>1. Numbered({})
    BY FS_EmptySet DEF Numbered
  <2>2. user[w] \in Users
    BY DEF LimitsTypeOK
  <2> DEFINE gone == <<"fail", user[w]>>
  <2>3. gone \in Keys
    BY <2>2 DEF Keys
  <2>4. Recorded(resets[gone]) \in SUBSET Stamps /\ Numbered(Recorded(resets[gone]))
    BY <1>1, <2>3, RecordedTypes DEF BucketTypes
  <2>5. /\ hits' = [hits EXCEPT ![gone] = {}]
        /\ resets' = [resets EXCEPT ![gone] = Recorded(resets[gone])]
        /\ spent' = spent
    BY <1>9 DEF ResetAfterVerify
  <2>6. BucketTypes'
    BY <1>1, <1>9, <2>1, <2>3, <2>4, <2>5 DEF ResetAfterVerify, Reset, BucketTypes, Times
  <2>7. QED
    BY <1>9, <2>2, <2>6 DEF ResetAfterVerify, Become, BucketTypes, LimitsTypeOK, AllNumbered
<1>10. CASE UNCHANGED limitVars
  BY <1>10 DEF limitVars, quota, LimitsTypeOK, AllNumbered
<1>11. QED
  BY <1>2, <1>4, <1>5, <1>6, <1>7, <1>8, <1>9, <1>10 DEF LimitsNext, Handling

LEMMA LimitsNumbered == LimitsSpec => [](LimitsTypeOK /\ AllNumbered)
  BY LimitsInitially, LimitsStep, PTL DEF LimitsSpec

\* The limiters stay well typed: no window holds more than the limit, no bucket counts
\* past the policy (allow, Allow).
THEOREM LimitsTypeCorrect == LimitsSpec => []LimitsTypeOK
  BY LimitsNumbered, PTL

-----------------------------------------------------------------------------
(* The sliding window. *)

\* The window the middleware keeps holds exactly the requests it let through in the last span.
SpansAgree == \A a \in Addresses : After(passed[a], now - GeneralWindow) = Valid(a)

LEMMA AfterTwice ==
    ASSUME NEW s \in SUBSET Stamps, NEW early \in Int, NEW late \in Int, early <= late
    PROVE  After(After(s, early), late) = After(s, late)
<1>1. \A e \in s : e[1] \in Int
  BY ClockAssumption DEF Stamps, Times
<1>2. QED
  BY <1>1 DEF After

\* The steps that move the clock or the middleware.
LEMMA LimitsCases ==
    ASSUME [LimitsNext]_limitVars
    PROVE  \/ LimitsTick
           \/ \E a \in Addresses, w \in Handlers : Pass(w, a)
           \/ \E a \in Addresses : Block(a)
           \/ UNCHANGED <<now, windows, passed, retryAt>>
  BY DEF LimitsNext, Handling, SendOTP, VerifyOTP, Other, Verified, ResetAfterVerify, limitVars

LEMMA SpansStep == LimitsTypeOK /\ SpansAgree /\ [LimitsNext]_limitVars => SpansAgree'
<1> SUFFICES ASSUME LimitsTypeOK, SpansAgree, [LimitsNext]_limitVars, NEW a \in Addresses
             PROVE  After(passed'[a], now' - GeneralWindow) = After(windows'[a], now' - GeneralWindow)
  BY DEF SpansAgree, Valid
<1> USE ClockAssumption
<1>1. /\ now \in Int
      /\ windows \in [Addresses -> SUBSET Stamps]
      /\ passed \in [Addresses -> SUBSET Stamps]
  BY DEF LimitsTypeOK, Times
<1>2. After(passed[a], now - GeneralWindow) = After(windows[a], now - GeneralWindow)
  BY DEF SpansAgree, Valid
<1>3. CASE LimitsTick
  <2>1. now' = now + 1 /\ windows' = windows /\ passed' = passed
    BY <1>3 DEF LimitsTick
  <2>2. /\ After(After(passed[a], now - GeneralWindow), now + 1 - GeneralWindow)
            = After(passed[a], now + 1 - GeneralWindow)
        /\ After(After(windows[a], now - GeneralWindow), now + 1 - GeneralWindow)
            = After(windows[a], now + 1 - GeneralWindow)
    BY <1>1, AfterTwice
  <2>3. QED
    BY <1>1, <1>2, <2>1, <2>2
<1>4. ASSUME NEW b \in Addresses, NEW w \in Handlers, Pass(w, b)
      PROVE  After(passed'[a], now' - GeneralWindow) = After(windows'[a], now' - GeneralWindow)
  <2>1. /\ now' = now
        /\ windows' = [windows EXCEPT ![b] = Joined(Valid(b))]
        /\ passed' = [passed EXCEPT ![b] = Joined(After(passed[b], now - GeneralWindow))]
    BY <1>4 DEF Pass
  <2>2. After(passed[b], now - GeneralWindow) = Valid(b)
    BY DEF SpansAgree
  <2>3. passed'[a] = windows'[a] \/ (passed'[a] = passed[a] /\ windows'[a] = windows[a])
    BY <1>1, <2>1, <2>2
  <2>4. QED
    BY <1>2, <2>1, <2>3
<1>5. ASSUME NEW b \in Addresses, Block(b)
      PROVE  After(passed'[a], now' - GeneralWindow) = After(windows'[a], now' - GeneralWindow)
  <2>1. now' = now /\ windows' = [windows EXCEPT ![b] = Valid(b)] /\ passed' = passed
    BY <1>5 DEF Block
  <2>2. After(After(windows[a], now - GeneralWindow), now - GeneralWindow)
            = After(windows[a], now - GeneralWindow)
    BY <1>1, AfterTwice
  <2>3. QED
    BY <1>1, <1>2, <2>1, <2>2 DEF Valid
<1>6. CASE UNCHANGED <<now, windows, passed, retryAt>>
  BY <1>2, <1>6
<1>7. QED
  BY <1>3, <1>4, <1>5, <1>6, LimitsCases

\* No address gets more than the limit through in any span of one window, whatever the
\* limit and the window (allow prunes its entries at the cutoff and counts the rest).
THEOREM GeneralLimitHolds == LimitsSpec => []GeneralBound
<1>1. LimitsInit => SpansAgree
  BY DEF LimitsInit, SpansAgree, Valid
<1>2. LimitsTypeOK /\ AllNumbered /\ SpansAgree => GeneralBound
  <2> SUFFICES ASSUME LimitsTypeOK, AllNumbered, SpansAgree, NEW a \in Addresses
               PROVE  Cardinality(After(passed[a], now - GeneralWindow)) <= GeneralLimit
    BY DEF GeneralBound
  <2>1. Numbered(windows[a]) /\ Cardinality(windows[a]) <= GeneralLimit
    BY DEF LimitsTypeOK, AllNumbered
  <2>2. Cardinality(Valid(a)) \in Nat /\ Cardinality(Valid(a)) <= Cardinality(windows[a])
        /\ Cardinality(windows[a]) \in Nat
    BY <2>1, AfterNumbered DEF Valid
  <2>3. QED
    BY <2>1, <2>2, QuotaAssumption DEF SpansAgree
<1>3. QED
  BY <1>1, <1>2, SpansStep, LimitsNumbered, PTL DEF LimitsSpec

-----------------------------------------------------------------------------
(* Retry-After. *)

\* When the time an address was told to come back has come, one of the entries the
\* middleware kept then has left the window.
RetryOK ==
    \A a \in Addresses :
        retryAt[a] # NoRetry => \E e \in windows[a] : e[1] + GeneralWindow <= retryAt[a]

\* Whole seconds, rounded up past the truncation, cover the time left.
LEMMA SecondsCover ==
    ASSUME NEW left \in Int, NEW tick \in Nat \ {0}
    PROVE  left < (left \div tick + 1) * tick
  OBVIOUS

LEMMA RetryStep == LimitsTypeOK /\ RetryOK /\ [LimitsNext]_limitVars => RetryOK'
<1> SUFFICES ASSUME LimitsTypeOK, RetryOK, [LimitsNext]_limitVars, NEW a \in Addresses,
                    retryAt'[a] # NoRetry
             PROVE  \E e \in windows'[a] : e[1] + GeneralWindow <= retryAt'[a]
  BY DEF RetryOK
<1> USE ClockAssumption
<1>1. /\ now \in Int
      /\ windows \in [Addresses -> SUBSET Stamps]
      /\ retryAt \in [Addresses -> Int]
  BY DEF LimitsTypeOK, Times
<1>2. ASSUME retryAt'[a] = retryAt[a], windows'[a] = windows[a]
      PROVE  \E e \in windows'[a] : e[1] + GeneralWindow <= retryAt'[a]
  BY <1>2 DEF RetryOK
<1>3. CASE LimitsTick
  BY <1>2, <1>3 DEF LimitsTick
<1>4. ASSUME NEW b \in Addresses, NEW w \in Handlers, Pass(w, b)
      PROVE  \E e \in windows'[a] : e[1] + GeneralWindow <= retryAt'[a]
  BY <1>1, <1>2, <1>4 DEF Pass
<1>5. ASSUME NEW b \in Addresses, Block(b)
      PROVE  \E e \in windows'[a] : e[1] + GeneralWindow <= retryAt'[a]
  <2>1. CASE a # b
    BY <1>1, <1>2, <1>5, <2>1 DEF Block
  <2>2. CASE a = b
    <3>1. PICK first \in Valid(a) :
              retryAt' = [retryAt EXCEPT ![a] = now + RetrySeconds(first) * TicksPerSecond]
      BY <1>5, <2>2 DEF Block
    <3>2. windows'[a] = Valid(a)
      BY <1>1, <1>5, <2>2 DEF Block
    <3>3. first[1] \in Int
      BY <1>1 DEF Valid, After, Stamps, Times
    <3> DEFINE left == first[1] + GeneralWindow - now
    <3>4. left \in Int
      BY <1>1, <3>3
    <3> HIDE DEF left
    <3>5. left < (left \div TicksPerSecond + 1) * TicksPerSecond
      BY <3>4, SecondsCover
    <3>6. RetrySeconds(first) = left \div TicksPerSecond + 1
      BY DEF RetrySeconds, left
    <3>7. retryAt'[a] = now + (left \div TicksPerSecond + 1) * TicksPerSecond
      BY <1>1, <3>1, <3>6
    <3>8. (left \div TicksPerSecond + 1) * TicksPerSecond \in Int
      BY <3>4
    <3>9. first[1] + GeneralWindow <= retryAt'[a]
      BY <1>1, <3>3, <3>5, <3>7, <3>8 DEF left
    <3>10. QED
      BY <3>2, <3>9
  <2>3. QED
    BY <2>1, <2>2
<1>6. CASE UNCHANGED <<now, windows, passed, retryAt>>
  BY <1>2, <1>6
<1>7. QED
  BY <1>3, <1>4, <1>5, <1>6, LimitsCases

\* A client that comes back when Retry-After told it to finds room, unless others of its
\* address took it (RateLimit adds the second that the truncation may have cost).
THEOREM RetryAfterIsHonest == LimitsSpec => []RetryAfterHonest
<1>1. LimitsInit => RetryOK
  BY DEF LimitsInit, RetryOK
<1>2. LimitsTypeOK /\ AllNumbered /\ RetryOK => RetryAfterHonest
  <2> SUFFICES ASSUME LimitsTypeOK, AllNumbered, RetryOK, NEW a \in Addresses,
                      retryAt[a] # NoRetry, now >= retryAt[a]
               PROVE  Cardinality(Valid(a)) < GeneralLimit
    BY DEF RetryAfterHonest
  <2>1. PICK e \in windows[a] : e[1] + GeneralWindow <= retryAt[a]
    BY DEF RetryOK
  <2>2. now \in Int /\ e[1] \in Int /\ retryAt[a] \in Int
    BY ClockAssumption DEF LimitsTypeOK, Times, Stamps
  <2>3. e \notin Valid(a)
    BY <2>1, <2>2, ClockAssumption DEF Valid, After
  <2>4. Valid(a) \in SUBSET windows[a] /\ Valid(a) # windows[a]
    BY <2>1, <2>3 DEF Valid, After
  <2>5. IsFiniteSet(windows[a]) /\ Cardinality(windows[a]) <= GeneralLimit
    BY DEF LimitsTypeOK, AllNumbered, Numbered
  <2>6. /\ Cardinality(Valid(a)) <= Cardinality(windows[a])
        /\ Cardinality(Valid(a)) # Cardinality(windows[a])
        /\ IsFiniteSet(Valid(a))
    BY <2>4, <2>5, FS_Subset
  <2>7. Cardinality(Valid(a)) \in Nat /\ Cardinality(windows[a]) \in Nat
    BY <2>5, <2>6, FS_CardinalityType
  <2>8. QED
    BY <2>5, <2>6, <2>7, QuotaAssumption
<1>3. QED
  BY <1>1, <1>2, RetryStep, LimitsNumbered, PTL DEF LimitsSpec

-----------------------------------------------------------------------------
(* The fixed windows. *)

\* The requests of key k that its bucket counts, and those of the window before.
Current(k) == {e \in hits[k] : e[1] >= windowStart[k]}
Earlier(k) == {e \in hits[k] : windowStart[k] - Window < e[1] /\ e[1] < windowStart[k]}

\* A bucket counts the requests of its window, a request opened it, and the span before
\* it holds at most the limit less the request that opened that one.
BucketOK(k) ==
    /\ k \notin entries => hits[k] = {}
    /\ \A e \in hits[k] : e[1] <= now /\ e[1] < windowStart[k] + Window
    /\ k \in entries =>
         /\ windowStart[k] <= now
         /\ \E e \in hits[k] : e[1] = windowStart[k]
         /\ Cardinality(Current(k)) = count[k]
         /\ Cardinality(Earlier(k)) <= PolicyAttempts - 1

BucketsOK == Window > 0 => \A k \in Keys : BucketOK(k)

LEMMA BucketTyped ==
    ASSUME LimitsTypeOK, AllNumbered, NEW k \in Keys
    PROVE  /\ hits[k] \in SUBSET Stamps /\ Numbered(hits[k]) /\ IsFiniteSet(hits[k])
           /\ \A e \in hits[k] : e[1] \in Int
           /\ now \in Times /\ now \in Int
           /\ count[k] \in 0..PolicyAttempts /\ windowStart[k] \in Times /\ windowStart[k] \in Int
  BY ClockAssumption DEF LimitsTypeOK, AllNumbered, Numbered, Times, Stamps

\* A bucket nobody touches stays as it is while the clock runs.
LEMMA BucketUntouched ==
    ASSUME LimitsTypeOK, AllNumbered, NEW k \in Keys, BucketOK(k),
           hits'[k] = hits[k], windowStart'[k] = windowStart[k], count'[k] = count[k],
           k \in entries' <=> k \in entries, now' \in Int, now <= now'
    PROVE  BucketOK(k)'
<1>1. Current(k)' = Current(k) /\ Earlier(k)' = Earlier(k)
  BY DEF Current, Earlier
<1>2. QED
  BY <1>1, BucketTyped DEF BucketOK

\* The bucket of a key that was just reset.
LEMMA BucketEmpty ==
    ASSUME NEW k \in Keys, k \notin entries', hits'[k] = {}
    PROVE  BucketOK(k)'
  BY DEF BucketOK

\* What Allow writes when it lets a request of key k through.
LEMMA AllowedWrites ==
    ASSUME LimitsTypeOK, AllNumbered, NEW k \in Keys, Allowed(k)
    PROVE  /\ k \in entries'
           /\ count'[k] = Bucket(k).n + 1 /\ windowStart'[k] = Bucket(k).start
           /\ hits'[k] = Joined(After(hits[k], now - Window))
           /\ \A j \in Keys \ {k} : /\ hits'[j] = hits[j] /\ windowStart'[j] = windowStart[j]
                                   /\ count'[j] = count[j] /\ (j \in entries' <=> j \in entries)
  BY DEF LimitsTypeOK, Allowed, Spent, Recorded, Kept

\* A request that finds no bucket, or one whose window is over, opens a window: what the
\* bucket counted, less the request that opened it, is all that the span before can hold.
LEMMA OpensWindow ==
    ASSUME LimitsTypeOK, AllNumbered, Window > 0, NEW k \in Keys, BucketOK(k), Allowed(k),
           k \notin entries \/ Rolls(k), now' = now
    PROVE  BucketOK(k)'
<1> USE QuotaAssumption, ClockAssumption
<1> DEFINE old == After(hits[k], now - Window)
           new == Stamp(old)
<1>1. /\ hits[k] \in SUBSET Stamps /\ Numbered(hits[k]) /\ IsFiniteSet(hits[k])
      /\ \A e \in hits[k] : e[1] \in Int
      /\ now \in Times /\ now \in Int
      /\ count[k] \in 0..PolicyAttempts /\ windowStart[k] \in Times /\ windowStart[k] \in Int
  BY BucketTyped
<1>2. Bucket(k) = [n |-> 0, start |-> now]
  BY DEF Bucket
<1>3. /\ k \in entries' /\ count'[k] = 1 /\ windowStart'[k] = now
      /\ hits'[k] = old \cup {new} /\ new[1] = now
  BY <1>2, AllowedWrites DEF Joined, Stamp
<1>4. \A e \in old : e \in hits[k] /\ now - Window < e[1] /\ e[1] < now
  <2>1. CASE k \notin entries
    BY <2>1 DEF BucketOK, After
  <2>2. CASE Rolls(k)
    BY <1>1, <2>2 DEF BucketOK, After, Rolls
  <2>3. QED
    BY <2>1, <2>2
<1>5. Current(k)' = {new} /\ Earlier(k)' = old
  BY <1>1, <1>3, <1>4 DEF Current, Earlier
<1>6. IsFiniteSet(old) /\ Cardinality(old) \in Nat
  BY <1>1, AfterNumbered DEF Numbered
<1>7. Cardinality(old) <= PolicyAttempts - 1
  <2>1. CASE k \notin entries
    <3>1. old = {}
      BY <2>1 DEF BucketOK, After
    <3>2. QED
      BY <3>1, FS_EmptySet
  <2>2. CASE k \in entries
    <3>1. PICK opening \in hits[k] : opening[1] = windowStart[k]
      BY <2>2 DEF BucketOK
    <3>2. now - Window >= windowStart[k]
      BY <1>1, <2>2 DEF Rolls
    <3>3. old \in SUBSET (Current(k) \ {opening}) /\ opening \in Current(k)
      BY <1>1, <3>1, <3>2 DEF After, Current
    <3>4. IsFiniteSet(Current(k)) /\ Cardinality(Current(k)) = count[k]
      BY <1>1, <2>2, FS_Subset DEF Current, BucketOK
    <3>5. /\ IsFiniteSet(Current(k) \ {opening})
          /\ Cardinality(Current(k) \ {opening}) = count[k] - 1
      BY <3>3, <3>4, FS_RemoveElement
    <3>6. Cardinality(old) <= count[k] - 1
      BY <3>3, <3>5, FS_Subset
    <3>7. QED
      BY <1>1, <1>6, <3>6
  <2>3. QED
    BY <2>1, <2>2
<1>8. Cardinality(Current(k)') = 1 /\ Cardinality(Earlier(k)') <= PolicyAttempts - 1
  BY <1>5, <1>7, FS_Singleton
<1>9. \A e \in hits'[k] : e[1] <= now /\ e[1] < now + Window
  BY <1>1, <1>3, <1>4
<1>10. QED
  BY <1>1, <1>3, <1>8, <1>9 DEF BucketOK

\* A request that finds its window open joins those the bucket counts.
LEMMA JoinsWindow ==
    ASSUME LimitsTypeOK, AllNumbered, Window > 0, NEW k \in Keys, BucketOK(k), Allowed(k),
           k \in entries, ~Rolls(k), now' = now
    PROVE  BucketOK(k)'
<1> USE QuotaAssumption, ClockAssumption
<1> DEFINE old == After(hits[k], now - Window)
           new == Stamp(old)
<1>1. /\ hits[k] \in SUBSET Stamps /\ Numbered(hits[k]) /\ IsFiniteSet(hits[k])
      /\ \A e \in hits[k] : e[1] \in Int
      /\ now \in Times /\ now \in Int
      /\ count[k] \in 0..PolicyAttempts /\ windowStart[k] \in Times /\ windowStart[k] \in Int
  BY BucketTyped
<1>2. Bucket(k) = [n |-> count[k], start |-> windowStart[k]]
  BY DEF Bucket
<1>3. /\ k \in entries' /\ count'[k] = count[k] + 1 /\ windowStart'[k] = windowStart[k]
      /\ hits'[k] = old \cup {new} /\ new[1] = now
  BY <1>2, AllowedWrites DEF Joined, Stamp
<1>4. windowStart[k] <= now /\ now - Window < windowStart[k]
  BY <1>1 DEF BucketOK, Rolls
<1>5. old \in SUBSET hits[k] /\ Current(k) \in SUBSET old
  BY <1>1, <1>4 DEF After, Current
<1>6. old \in SUBSET Stamps /\ Numbered(old)
  BY <1>1, <1>5, AfterNumbered
<1>7. new \notin old
  BY <1>1, <1>6, JoinedNumbered
<1>8. Current(k)' = Current(k) \cup {new} /\ new \notin Current(k)
  BY <1>1, <1>3, <1>4, <1>5, <1>7 DEF Current
<1>9. IsFiniteSet(Current(k)) /\ IsFiniteSet(Earlier(k))
  BY <1>1, FS_Subset DEF Current, Earlier
<1>10. Cardinality(Current(k)') = count[k] + 1
  <2>1. Cardinality(Current(k)) = count[k]
    BY DEF BucketOK
  <2>2. QED
    BY <1>8, <1>9, <2>1, FS_AddElement
<1>11. Cardinality(Earlier(k)') <= PolicyAttempts - 1
  <2> DEFINE before == {e \in old : windowStart[k] - Window < e[1] /\ e[1] < windowStart[k]}
  <2>1. Earlier(k)' = before
    BY <1>1, <1>3, <1>4 DEF Earlier
  <2>2. before \in SUBSET Earlier(k)
    BY <1>5 DEF Earlier
  <2>3. Cardinality(before) <= Cardinality(Earlier(k)) /\ IsFiniteSet(before)
    BY <1>9, <2>2, FS_Subset
  <2>4. Cardinality(before) \in Nat /\ Cardinality(Earlier(k)) \in Nat
    BY <1>9, <2>3, FS_CardinalityType
  <2>5. Cardinality(Earlier(k)) <= PolicyAttempts - 1
    BY DEF BucketOK
  <2>6. QED
    BY <2>1, <2>3, <2>4, <2>5
<1>12. \A e \in hits'[k] : e[1] <= now /\ e[1] < windowStart[k] + Window
  BY <1>1, <1>3, <1>4, <1>5 DEF BucketOK
<1>13. \E e \in hits'[k] : e[1] = windowStart[k]
  <2>1. PICK opening \in hits[k] : opening[1] = windowStart[k]
    BY DEF BucketOK
  <2>2. opening \in old
    BY <1>1, <1>4, <2>1 DEF After
  <2>3. QED
    BY <1>3, <2>1, <2>2
<1>14. QED
  BY <1>3, <1>4, <1>10, <1>11, <1>12, <1>13 DEF BucketOK

\* Allow on one key leaves every bucket in order.
LEMMA AllowKeeps ==
    ASSUME LimitsTypeOK, AllNumbered, Window > 0, \A j \in Keys : BucketOK(j),
           NEW k \in Keys, Allowed(k) \/ OverLimit(k), now' = now
    PROVE  \A j \in Keys : BucketOK(j)'
<1>1. now \in Int
  BY BucketTyped
<1>2. CASE Allowed(k)
  <2>1. ASSUME NEW j \in Keys \ {k} PROVE BucketOK(j)'
    BY <1>1, <1>2, AllowedWrites, BucketUntouched
  <2>2. BucketOK(k)'
    BY <1>2, OpensWindow, JoinsWindow
  <2>3. QED
    BY <2>1, <2>2
<1>3. CASE OverLimit(k)
  <2>1. k \in entries /\ ~Rolls(k)
    BY <1>3, QuotaAssumption DEF OverLimit, Admits, Bucket
  <2>2. entries' = entries /\ count' = count /\ windowStart' = windowStart /\ hits' = hits
    BY <1>3, <2>1 DEF OverLimit, quota, Kept, Bucket, LimitsTypeOK
  <2>3. QED
    BY <1>1, <2>2, BucketUntouched
<1>4. QED
  BY <1>2, <1>3

LEMMA BucketsStep ==
    LimitsTypeOK /\ AllNumbered /\ BucketsOK /\ [LimitsNext]_limitVars => BucketsOK'
<1> SUFFICES ASSUME LimitsTypeOK, AllNumbered, Window > 0, \A k \in Keys : BucketOK(k),
                    [LimitsNext]_limitVars
             PROVE  \A k \in Keys : BucketOK(k)'
  BY DEF BucketsOK
<1>1. now \in Int
  BY DEF LimitsTypeOK, Times
<1>2. ASSUME now' \in Int, now <= now', UNCHANGED <<entries, count, windowStart, hits>>
      PROVE  \A k \in Keys : BucketOK(k)'
  BY <1>2, BucketUntouched
<1>3. CASE LimitsTick
  BY <1>1, <1>2, <1>3 DEF LimitsTick, quota
<1>4. ASSUME NEW a \in Addresses, Block(a) \/ \E w \in Handlers : Pass(w, a)
      PROVE  \A k \in Keys : BucketOK(k)'
  BY <1>1, <1>2, <1>4 DEF Block, Pass, quota
<1>5. ASSUME NEW w \in Handlers, NEW u \in Users, SendOTP(w, u)
      PROVE  \A k \in Keys : BucketOK(k)'
  <2>1. <<"send", u>> \in Keys
    BY DEF Keys
  <2>2. QED
    BY <1>5, <2>1, AllowKeeps DEF SendOTP
<1>6. ASSUME NEW w \in Handlers, NEW u \in Users, VerifyOTP(w, u)
      PROVE  \A k \in Keys : BucketOK(k)'
  <2>1. <<"fail", u>> \in Keys
    BY DEF Keys
  <2>2. QED
    BY <1>6, <2>1, AllowKeeps DEF VerifyOTP
<1>7. ASSUME NEW w \in Handlers, Other(w) \/ Verified(w) PROVE \A k \in Keys : BucketOK(k)'
  BY <1>1, <1>2, <1>7 DEF Other, Verified, quota
<1>8. ASSUME NEW w \in Handlers, ResetAfterVerify(w) PROVE \A k \in Keys : BucketOK(k)'
  <2> DEFINE gone == <<"fail", user[w]>>
  <2>1. /\ entries' = entries \ {gone} /\ now' = now
        /\ \A k \in Keys : IF k = gone THEN hits'[k] = {}
                           ELSE /\ hits'[k] = hits[k] /\ windowStart'[k] = windowStart[k]
                                /\ count'[k] = count[k]
    BY <1>8 DEF ResetAfterVerify, Reset, LimitsTypeOK
  <2>2. ASSUME NEW k \in Keys, k = gone PROVE BucketOK(k)'
    BY <2>1, <2>2, BucketEmpty
  <2>3. ASSUME NEW k \in Keys, k # gone PROVE BucketOK(k)'
    BY <1>1, <2>1, <2>3, BucketUntouched
  <2>4. QED
    BY <2>2, <2>3
<1>9. CASE UNCHANGED limitVars
  BY <1>1, <1>2, <1>9 DEF limitVars, quota
<1>10. QED
  BY <1>3, <1>4, <1>5, <1>6, <1>7, <1>8, <1>9 DEF LimitsNext, Handling

LEMMA BucketsCorrect == LimitsSpec => [](LimitsTypeOK /\ AllNumbered /\ BucketsOK)
<1>1. LimitsInit => BucketsOK
  BY DEF LimitsInit, BucketsOK, BucketOK
<1>2. QED
  BY <1>1, BucketsStep, LimitsNumbered, PTL DEF LimitsSpec

\* Nobody who used fewer than PolicyAttempts in the last window is refused: no count is
\* left over and no window outlives its time (rollWindow, Reset).
THEOREM NobodyRefusedFalsely == LimitsSpec => []NoFalseRefusal
<1>1. LimitsTypeOK /\ AllNumbered /\ BucketsOK => NoFalseRefusal
  <2> SUFFICES ASSUME LimitsTypeOK, AllNumbered, BucketsOK, Window > 0, NEW k \in Keys,
                      Cardinality(After(hits[k], now - Window)) < PolicyAttempts
               PROVE  Admits(k)
    BY DEF NoFalseRefusal
  <2> USE QuotaAssumption, ClockAssumption
  <2> DEFINE span == After(hits[k], now - Window)
  <2>1. /\ IsFiniteSet(hits[k]) /\ \A e \in hits[k] : e[1] \in Int
        /\ now \in Int /\ count[k] \in 0..PolicyAttempts /\ windowStart[k] \in Int
    BY BucketTyped
  <2>2. CASE k \notin entries \/ Rolls(k)
    BY <2>2 DEF Admits, Bucket
  <2>3. CASE k \in entries /\ ~Rolls(k)
    <3>1. Current(k) \in SUBSET span
      BY <2>1, <2>3 DEF Current, After, Rolls
    <3>2. IsFiniteSet(span) /\ IsFiniteSet(Current(k))
      BY <2>1, FS_Subset DEF Current, After
    <3>3. Cardinality(Current(k)) <= Cardinality(span) /\ Cardinality(span) \in Nat
      BY <3>1, <3>2, FS_Subset, FS_CardinalityType
    <3>4. Cardinality(Current(k)) = count[k]
      BY <2>3 DEF BucketsOK, BucketOK
    <3>5. QED
      BY <2>1, <2>3, <3>3, <3>4 DEF Admits, Bucket
  <2>4. QED
    BY <2>2, <2>3
<1>2. QED
  BY <1>1, BucketsCorrect, PTL

-----------------------------------------------------------------------------
(* The fixed windows and their Resets.  A bucket that a Reset emptied starts a *)
(* window of its own, so the requests it counts are all of the span in which   *)
(* the Reset fell: of several buckets in one span only the first can bring     *)
(* requests of an earlier window along.                                        *)

\* No window is older than a Reset of its key; if requests of the window before are
\* still there, the Resets are out of that span.
ResetOK(k) ==
    /\ \A e \in resets[k] : e[1] <= now
    /\ k \in entries => \A e \in resets[k] : e[1] <= windowStart[k]
    /\ Earlier(k) # {} => \A e \in resets[k] : e[1] <= windowStart[k] - Window

\* What the buckets forgotten by n Resets have let through at most.
Extra(n) == IF n = 0 THEN 0 ELSE PolicyAttempts - 1 + PolicyAttempts * n

\* In every span, what was let through is in the bucket or was forgotten by a Reset.
SpentOK(k) ==
    \A x \in Int :
        x >= now - Window =>
            Cardinality(After(spent[k], x))
                <= Cardinality(After(hits[k], x)) + Extra(Cardinality(After(resets[k], x)))

QuotaOK == Window > 0 => \A k \in Keys : ResetOK(k) /\ SpentOK(k)

LEMMA ExtraTyped == \A n \in Nat : Extra(n) \in Int
<1> SUFFICES ASSUME NEW n \in Nat PROVE Extra(n) \in Int
  OBVIOUS
<1>1. PolicyAttempts * n \in Int
  BY QuotaAssumption
<1>2. QED
  BY <1>1, QuotaAssumption DEF Extra

LEMMA QuotaTyped ==
    ASSUME LimitsTypeOK, AllNumbered, NEW k \in Keys, NEW x \in Int
    PROVE  /\ spent[k] \in SUBSET Stamps /\ Numbered(spent[k])
           /\ resets[k] \in SUBSET Stamps /\ Numbered(resets[k]) /\ \A e \in resets[k] : e[1] \in Int
           /\ Cardinality(After(hits[k], x)) \in Nat
           /\ Cardinality(After(spent[k], x)) \in Nat
           /\ Cardinality(After(resets[k], x)) \in Nat
           /\ PolicyAttempts \in Nat \ {0}
<1>1. /\ spent[k] \in SUBSET Stamps /\ Numbered(spent[k]) /\ Numbered(hits[k])
      /\ resets[k] \in SUBSET Stamps /\ Numbered(resets[k])
  BY DEF LimitsTypeOK, AllNumbered
<1>2. \A e \in resets[k] : e[1] \in Int
  BY <1>1, ClockAssumption DEF Stamps, Times
<1>3. QED
  BY <1>1, <1>2, AfterNumbered, QuotaAssumption

\* A recorded request counts once in every span that reaches the present.
LEMMA RecordedAfter ==
    ASSUME NEW s \in SUBSET Stamps, Numbered(s), now \in Times, Window > 0,
           NEW x \in Int, x >= now - Window
    PROVE  Cardinality(After(Recorded(s), x))
              = Cardinality(After(s, x)) + (IF x < now THEN 1 ELSE 0)
<1> USE ClockAssumption
<1> DEFINE old == After(s, now - Window)
           new == Stamp(old)
<1>1. now \in Int /\ now - Window \in Int
  BY DEF Times
<1>2. old \in SUBSET Stamps /\ Numbered(old)
  BY AfterNumbered DEF After
<1>3. Recorded(s) = old \cup {new} /\ new \notin old /\ new[1] = now
  BY <1>2, JoinedNumbered DEF Recorded, Joined, Stamp
<1>4. After(old, x) = After(s, x)
  BY <1>1, AfterTwice
<1>5. IsFiniteSet(After(s, x)) /\ Cardinality(After(s, x)) \in Nat
  BY AfterNumbered DEF Numbered
<1>6. CASE x < now
  <2>1. After(Recorded(s), x) = After(s, x) \cup {new} /\ new \notin After(s, x)
    BY <1>3, <1>4, <1>6 DEF After
  <2>2. QED
    BY <1>5, <1>6, <2>1, FS_AddElement
<1>7. CASE ~(x < now)
  <2>1. After(Recorded(s), x) = After(s, x)
    BY <1>3, <1>4, <1>7 DEF After
  <2>2. QED
    BY <1>5, <1>7, <2>1
<1>8. QED
  BY <1>6, <1>7

\* What one bucket has let through in a span: its window and, unless a Reset fell in the
\* span, the end of the window before, less the request that opened that one.
LEMMA HitsBound ==
    ASSUME LimitsTypeOK, AllNumbered, Window > 0, NEW k \in Keys, BucketOK(k), ResetOK(k),
           NEW x \in Int, x >= now - Window
    PROVE  /\ Cardinality(After(hits[k], x)) <= 2 * PolicyAttempts - 1
           /\ After(resets[k], x) # {} => Cardinality(After(hits[k], x)) <= PolicyAttempts
           /\ x >= now => Cardinality(After(hits[k], x)) = 0
<1> USE QuotaAssumption, ClockAssumption
<1> DEFINE span == After(hits[k], x)
<1>1. /\ IsFiniteSet(hits[k]) /\ \A e \in hits[k] : e[1] \in Int
      /\ now \in Int /\ count[k] \in 0..PolicyAttempts /\ windowStart[k] \in Int
  BY BucketTyped
<1>2. IsFiniteSet(Current(k)) /\ IsFiniteSet(Earlier(k)) /\ IsFiniteSet(span)
  BY <1>1, FS_Subset DEF Current, Earlier, After
<1>3. /\ Cardinality(Current(k)) \in Nat /\ Cardinality(Earlier(k)) \in Nat
      /\ Cardinality(span) \in Nat /\ Cardinality({}) = 0
  BY <1>2, FS_CardinalityType, FS_EmptySet
<1>4. CASE k \notin entries
  <2>1. span = {}
    BY <1>4 DEF BucketOK, After
  <2>2. QED
    BY <1>3, <2>1
<1>5. CASE k \in entries
  <2>1. span \in SUBSET (Current(k) \cup Earlier(k))
    BY <1>1, <1>5 DEF After, Current, Earlier, BucketOK
  <2>2. Cardinality(Current(k)) <= PolicyAttempts /\ Cardinality(Earlier(k)) <= PolicyAttempts - 1
    BY <1>1, <1>5 DEF BucketOK
  <2>3. Cardinality(span) <= 2 * PolicyAttempts - 1
    <3>1. /\ IsFiniteSet(Current(k) \cup Earlier(k))
          /\ Cardinality(Current(k) \cup Earlier(k))
                = Cardinality(Current(k)) + Cardinality(Earlier(k))
                    - Cardinality(Current(k) \cap Earlier(k))
      BY <1>2, FS_Union
    <3>2. IsFiniteSet(Current(k) \cap Earlier(k))
      BY <1>2, FS_Subset
    <3>3. Cardinality(Current(k) \cap Earlier(k)) \in Nat
      BY <3>2, FS_CardinalityType
    <3>4. Cardinality(span) <= Cardinality(Current(k) \cup Earlier(k))
      BY <2>1, <3>1, FS_Subset
    <3>5. QED
      BY <1>3, <2>2, <3>1, <3>3, <3>4
  <2>4. ASSUME After(resets[k], x) # {} PROVE Cardinality(span) <= PolicyAttempts
    <3>1. PICK e \in resets[k] : e[1] > x /\ e[1] \in Int
      BY <2>4, QuotaTyped DEF After
    <3>2. Earlier(k) = {}
      BY <1>1, <1>5, <3>1 DEF ResetOK, BucketOK
    <3>3. span \in SUBSET Current(k)
      BY <2>1, <3>2
    <3>4. Cardinality(span) <= Cardinality(Current(k))
      BY <1>2, <3>3, FS_Subset
    <3>5. QED
      BY <1>3, <2>2, <3>4
  <2>5. ASSUME x >= now PROVE span = {}
    BY <1>1, <2>5 DEF After, BucketOK
  <2>6. QED
    BY <1>3, <2>3, <2>4, <2>5
<1>6. QED
  BY <1>4, <1>5

LEMMA QuotaUntouched ==
    ASSUME LimitsTypeOK, AllNumbered, Window > 0, NEW k \in Keys, ResetOK(k), SpentOK(k),
           hits'[k] = hits[k], spent'[k] = spent[k], resets'[k] = resets[k],
           windowStart'[k] = windowStart[k], k \in entries' <=> k \in entries,
           now' \in Int, now <= now'
    PROVE  ResetOK(k)' /\ SpentOK(k)'
<1>1. now \in Int /\ Window \in Nat /\ \A e \in resets[k] : e[1] \in Int
  BY QuotaTyped, ClockAssumption DEF LimitsTypeOK, Times
<1>2. Earlier(k)' = Earlier(k)
  BY DEF Earlier
<1>3. ResetOK(k)'
  BY <1>1, <1>2 DEF ResetOK
<1>4. SpentOK(k)'
  BY <1>1 DEF SpentOK
<1>5. QED
  BY <1>3, <1>4

\* What Allow writes to the histories when it lets a request of key k through.
LEMMA AllowedRecords ==
    ASSUME LimitsTypeOK, NEW k \in Keys, Allowed(k)
    PROVE  /\ hits'[k] = Recorded(hits[k]) /\ spent'[k] = Recorded(spent[k]) /\ resets' = resets
           /\ \A j \in Keys \ {k} : spent'[j] = spent[j]
  BY DEF LimitsTypeOK, Allowed, Spent

LEMMA AllowedQuota ==
    ASSUME LimitsTypeOK, AllNumbered, Window > 0, NEW k \in Keys,
           BucketOK(k), ResetOK(k), SpentOK(k), Allowed(k), now' = now
    PROVE  ResetOK(k)' /\ SpentOK(k)'
<1> USE ClockAssumption
<1>1. /\ hits[k] \in SUBSET Stamps /\ Numbered(hits[k])
      /\ \A e \in hits[k] : e[1] \in Int
      /\ now \in Times /\ now \in Int /\ windowStart[k] \in Int
      /\ \A e \in resets[k] : e[1] \in Int
  BY BucketTyped, QuotaTyped
<1>2. /\ k \in entries' /\ windowStart'[k] = Bucket(k).start
      /\ hits'[k] = Recorded(hits[k]) /\ spent'[k] = Recorded(spent[k]) /\ resets' = resets
  BY AllowedWrites, AllowedRecords
<1>3. ResetOK(k)'
  <2> DEFINE old == After(hits[k], now - Window)
  <2>1. hits'[k] = old \cup {Stamp(old)} /\ Stamp(old)[1] = now /\ old \in SUBSET hits[k]
    BY <1>2 DEF Recorded, Joined, Stamp, After
  <2>2. CASE k \notin entries
    <3>1. hits[k] = {} /\ windowStart'[k] = now
      BY <1>2, <2>2 DEF BucketOK, Bucket
    <3>2. Earlier(k)' = {}
      BY <1>1, <2>1, <3>1 DEF Earlier
    <3>3. QED
      BY <1>2, <3>1, <3>2 DEF ResetOK
  <2>3. CASE k \in entries /\ Rolls(k)
    <3>1. windowStart'[k] = now /\ now - Window >= windowStart[k]
      BY <1>1, <1>2, <2>3 DEF Bucket, Rolls
    <3>2. \A e \in resets[k] : e[1] <= now - Window
      BY <1>1, <2>3, <3>1 DEF ResetOK
    <3>3. QED
      BY <1>1, <1>2, <3>1, <3>2 DEF ResetOK
  <2>4. CASE k \in entries /\ ~Rolls(k)
    <3>1. windowStart'[k] = windowStart[k] /\ windowStart[k] <= now
      BY <1>2, <2>4 DEF Bucket, BucketOK
    <3>2. Earlier(k)' \in SUBSET Earlier(k)
      BY <1>1, <2>1, <3>1 DEF Earlier
    <3>3. QED
      BY <1>2, <2>4, <3>1, <3>2 DEF ResetOK
  <2>5. QED
    BY <2>2, <2>3, <2>4
<1>4. ASSUME NEW x \in Int, x >= now - Window
      PROVE  Cardinality(After(spent'[k], x))
                 <= Cardinality(After(hits'[k], x)) + Extra(Cardinality(After(resets'[k], x)))
  <2>1. /\ Cardinality(After(spent'[k], x)) = Cardinality(After(spent[k], x)) + (IF x < now THEN 1 ELSE 0)
        /\ Cardinality(After(hits'[k], x)) = Cardinality(After(hits[k], x)) + (IF x < now THEN 1 ELSE 0)
    BY <1>1, <1>2, <1>4, QuotaTyped, RecordedAfter
  <2>2. Cardinality(After(spent[k], x))
            <= Cardinality(After(hits[k], x)) + Extra(Cardinality(After(resets[k], x)))
    BY <1>4 DEF SpentOK
  <2>3. Extra(Cardinality(After(resets[k], x))) \in Int
    BY QuotaTyped, ExtraTyped
  <2>4. /\ Cardinality(After(spent[k], x)) \in Nat /\ Cardinality(After(hits[k], x)) \in Nat
    BY QuotaTyped
  <2>5. QED
    BY <1>2, <2>1, <2>2, <2>3, <2>4
<1>5. SpentOK(k)'
  BY <1>1, <1>4 DEF SpentOK
<1>6. QED
  BY <1>3, <1>5

\* A Reset moves what its bucket let through to the forgotten requests.
LEMMA ResetQuota ==
    ASSUME LimitsTypeOK, AllNumbered, Window > 0, NEW k \in Keys,
           BucketOK(k), ResetOK(k), SpentOK(k), now' = now, k \notin entries',
           hits'[k] = {}, resets'[k] = Recorded(resets[k]), spent'[k] = spent[k]
    PROVE  ResetOK(k)' /\ SpentOK(k)'
<1>1. now \in Times /\ now \in Int
  BY BucketTyped
<1>2. resets[k] \in SUBSET Stamps /\ Numbered(resets[k])
  BY QuotaTyped
<1>3. ResetOK(k)'
  <2> DEFINE old == After(resets[k], now - Window)
  <2>1. resets'[k] = old \cup {Stamp(old)} /\ Stamp(old)[1] = now /\ old \in SUBSET resets[k]
    BY DEF Recorded, Joined, Stamp, After
  <2>2. Earlier(k)' = {}
    BY DEF Earlier
  <2>3. QED
    BY <1>1, <2>1, <2>2 DEF ResetOK
<1>4. ASSUME NEW x \in Int, x >= now - Window
      PROVE  Cardinality(After(spent[k], x)) <= Extra(Cardinality(After(resets'[k], x)))
  <2> DEFINE s == Cardinality(After(spent[k], x))
             h == Cardinality(After(hits[k], x))
             n == Cardinality(After(resets[k], x))
  <2>1. s \in Nat /\ h \in Nat /\ n \in Nat /\ PolicyAttempts \in Nat \ {0}
    BY QuotaTyped
  <2>2. Cardinality(After(resets'[k], x)) = n + (IF x < now THEN 1 ELSE 0)
    BY <1>1, <1>2, <1>4, RecordedAfter
  <2>3. s <= h + Extra(n)
    BY <1>4 DEF SpentOK
  <2>4. h <= 2 * PolicyAttempts - 1 /\ (n # 0 => h <= PolicyAttempts) /\ (x >= now => h = 0)
    <3>1. n # 0 => After(resets[k], x) # {}
      BY FS_EmptySet
    <3>2. QED
      BY <1>4, <3>1, HitsBound
  <2> HIDE DEF s, h, n
  <2>5. CASE ~(x < now)
    <3>1. Cardinality(After(resets'[k], x)) = n /\ h = 0
      BY <1>1, <2>1, <2>2, <2>4, <2>5
    <3>2. Extra(n) \in Int
      BY <2>1, ExtraTyped
    <3>3. QED
      BY <2>1, <2>3, <3>1, <3>2 DEF s
  <2>6. CASE x < now /\ n = 0
    <3>1. Extra(n) = 0 /\ Extra(n + 1) = 2 * PolicyAttempts - 1
      BY <2>1, <2>6 DEF Extra
    <3>2. QED
      BY <2>1, <2>2, <2>3, <2>4, <2>6, <3>1 DEF s
  <2>7. CASE x < now /\ n # 0
    <3>1. PolicyAttempts * (n + 1) = PolicyAttempts * n + PolicyAttempts /\ PolicyAttempts * n \in Nat
      BY <2>1
    <3>2. /\ Extra(n) = PolicyAttempts - 1 + PolicyAttempts * n
          /\ Extra(n + 1) = PolicyAttempts - 1 + PolicyAttempts * n + PolicyAttempts
      BY <2>1, <2>7, <3>1 DEF Extra
    <3>3. QED
      BY <2>1, <2>2, <2>3, <2>4, <2>7, <3>1, <3>2 DEF s
  <2>8. QED
    BY <2>5, <2>6, <2>7
<1>5. ASSUME NEW x \in Int
      PROVE  Cardinality(After(hits'[k], x)) = 0 /\ Extra(Cardinality(After(resets[k], x))) \in Int
  <2>1. After(hits'[k], x) = {}
    BY DEF After
  <2>2. QED
    BY <2>1, FS_EmptySet, QuotaTyped, ExtraTyped
<1>6. ASSUME NEW x \in Int, x >= now - Window
      PROVE  Extra(Cardinality(After(resets'[k], x))) \in Int
  <2>1. Cardinality(After(resets'[k], x)) \in Nat
    <3>1. Numbered(resets'[k])
      BY <1>1, <1>2, RecordedTypes
    <3>2. QED
      BY <3>1, AfterNumbered
  <2>2. QED
    BY <2>1, ExtraTyped
<1>7. SpentOK(k)'
  <2> SUFFICES ASSUME NEW x \in Int, x >= now - Window
               PROVE  Cardinality(After(spent'[k], x))
                        <= Cardinality(After(hits'[k], x)) + Extra(Cardinality(After(resets'[k], x)))
    BY <1>1 DEF SpentOK
  <2>1. QED
    BY <1>4, <1>5, <1>6
<1>8. QED
  BY <1>3, <1>7

LEMMA QuotaStep ==
    LimitsTypeOK /\ AllNumbered /\ BucketsOK /\ QuotaOK /\ [LimitsNext]_limitVars => QuotaOK'
<1> SUFFICES ASSUME LimitsTypeOK, AllNumbered, Window > 0, \A k \in Keys : BucketOK(k),
                    \A k \in Keys : ResetOK(k) /\ SpentOK(k),
                    [LimitsNext]_limitVars, NEW k \in Keys
             PROVE  ResetOK(k)' /\ SpentOK(k)'
  BY DEF QuotaOK, BucketsOK
<1>1. now \in Int
  BY DEF LimitsTypeOK, Times
<1>2. ASSUME now' \in Int, now <= now', UNCHANGED <<entries, windowStart, hits, spent, resets>>
      PROVE  ResetOK(k)' /\ SpentOK(k)'
  BY <1>2, QuotaUntouched
<1>3. CASE LimitsTick
  BY <1>1, <1>2, <1>3 DEF LimitsTick, quota
<1>4. ASSUME NEW a \in Addresses, Block(a) \/ \E w \in Handlers : Pass(w, a)
      PROVE  ResetOK(k)' /\ SpentOK(k)'
  BY <1>1, <1>2, <1>4 DEF Block, Pass, quota
<1>5. ASSUME NEW j \in Keys, Allowed(j) \/ OverLimit(j), now' = now PROVE ResetOK(k)' /\ SpentOK(k)'
  <2>1. CASE Allowed(j) /\ j = k
    BY <1>5, <2>1, AllowedQuota
  <2>2. CASE Allowed(j) /\ j # k
    <3>1. /\ hits'[k] = hits[k] /\ spent'[k] = spent[k] /\ resets' = resets
          /\ windowStart'[k] = windowStart[k] /\ (k \in entries' <=> k \in entries)
      BY <2>2, AllowedWrites, AllowedRecords
    <3>2. QED
      BY <1>1, <1>5, <3>1, QuotaUntouched
  <2>3. CASE OverLimit(j)
    <3>1. j \in entries /\ ~Rolls(j)
      BY <2>3, QuotaAssumption DEF OverLimit, Admits, Bucket
    <3>2. entries' = entries /\ windowStart' = windowStart /\ UNCHANGED <<hits, spent, resets>>
      BY <2>3, <3>1 DEF OverLimit, quota, Kept, Bucket, LimitsTypeOK
    <3>3. QED
      BY <1>1, <1>2, <1>5, <3>2
  <2>4. QED
    BY <1>5, <2>1, <2>2, <2>3
<1>6. ASSUME NEW w \in Handlers, NEW u \in Users, SendOTP(w, u) \/ VerifyOTP(w, u)
      PROVE  ResetOK(k)' /\ SpentOK(k)'
  <2>1. <<"send", u>> \in Keys /\ <<"fail", u>> \in Keys
    BY DEF Keys
  <2>2. QED
    BY <1>5, <1>6, <2>1 DEF SendOTP, VerifyOTP
<1>7. ASSUME NEW w \in Handlers, Other(w) \/ Verified(w) PROVE ResetOK(k)' /\ SpentOK(k)'
  BY <1>1, <1>2, <1>7 DEF Other, Verified, quota
<1>8. ASSUME NEW w \in Handlers, ResetAfterVerify(w) PROVE ResetOK(k)' /\ SpentOK(k)'
  <2> DEFINE gone == <<"fail", user[w]>>
  <2>1. /\ entries' = entries \ {gone} /\ now' = now /\ spent' = spent
        /\ IF k = gone THEN hits'[k] = {} /\ resets'[k] = Recorded(resets[k])
           ELSE /\ hits'[k] = hits[k] /\ resets'[k] = resets[k]
                /\ windowStart'[k] = windowStart[k]
    BY <1>8 DEF ResetAfterVerify, Reset, LimitsTypeOK
  <2>2. CASE k = gone
    BY <2>1, <2>2, ResetQuota
  <2>3. CASE k # gone
    BY <1>1, <2>1, <2>3, QuotaUntouched
  <2>4. QED
    BY <2>2, <2>3
<1>9. CASE UNCHANGED limitVars
  BY <1>1, <1>2, <1>9 DEF limitVars, quota
<1>10. QED
  BY <1>3, <1>4, <1>6, <1>7, <1>8, <1>9 DEF LimitsNext, Handling

\* In one window's time a key is let through at most 2 * PolicyAttempts - 1 times across
\* the boundary of two fixed windows and PolicyAttempts times more for each Reset that
\* falls in it, whatever the policy: everything counts, also what a Reset made the
\* limiter forget (Allow, rollWindow, Reset).
THEOREM FixedWindowsBounded == LimitsSpec => []FixedBound
<1>1. LimitsInit => QuotaOK
  <2> SUFFICES ASSUME LimitsInit, Window > 0, NEW k \in Keys PROVE ResetOK(k) /\ SpentOK(k)
    BY DEF QuotaOK
  <2>1. hits[k] = {} /\ spent[k] = {} /\ resets[k] = {} /\ k \notin entries
    BY DEF LimitsInit
  <2>2. ResetOK(k)
    BY <2>1 DEF ResetOK, Earlier
  <2>3. ASSUME NEW x \in Int
        PROVE  /\ After(spent[k], x) = {} /\ After(hits[k], x) = {} /\ After(resets[k], x) = {}
    BY <2>1 DEF After
  <2>4. SpentOK(k)
    <3>1. Cardinality({}) = 0 /\ Extra(0) = 0
      BY FS_EmptySet DEF Extra
    <3>2. ASSUME NEW x \in Int
          PROVE  Cardinality(After(spent[k], x))
                    <= Cardinality(After(hits[k], x)) + Extra(Cardinality(After(resets[k], x)))
      BY <2>3, <3>1
    <3>3. QED
      BY <3>2 DEF SpentOK
  <2>5. QED
    BY <2>2, <2>4
<1>2. LimitsTypeOK /\ AllNumbered /\ BucketsOK /\ QuotaOK => FixedBound
  <2> SUFFICES ASSUME LimitsTypeOK, AllNumbered, BucketsOK, QuotaOK, Window > 0, NEW k \in Keys
               PROVE  Cardinality(After(spent[k], now - Window))
                        <= 2 * PolicyAttempts - 1
                             + PolicyAttempts * Cardinality(After(resets[k], now - Window))
    BY DEF FixedBound
  <2> DEFINE x == now - Window
             s == Cardinality(After(spent[k], x))
             h == Cardinality(After(hits[k], x))
             n == Cardinality(After(resets[k], x))
  <2>1. x \in Int /\ x >= now - Window
    BY ClockAssumption DEF LimitsTypeOK, Times
  <2>2. BucketOK(k) /\ ResetOK(k) /\ SpentOK(k)
    BY DEF BucketsOK, QuotaOK
  <2>3. s \in Nat /\ h \in Nat /\ n \in Nat /\ PolicyAttempts \in Nat \ {0}
    BY <2>1, QuotaTyped
  <2>4. s <= h + Extra(n)
    BY <2>1, <2>2 DEF SpentOK
  <2>5. h <= 2 * PolicyAttempts - 1 /\ (n # 0 => h <= PolicyAttempts)
    <3>1. n # 0 => After(resets[k], x) # {}
      BY FS_EmptySet
    <3>2. QED
      BY <2>1, <2>2, <3>1, HitsBound
  <2>6. s <= 2 * PolicyAttempts - 1 + PolicyAttempts * n
    <3> HIDE DEF s, h, n, x
    <3>1. PolicyAttempts * n \in Nat
      BY <2>3
    <3>2. QED
      BY <2>3, <2>4, <2>5, <3>1 DEF Extra
  <2>7. QED
    BY <2>6
<1>3. QED
  BY <1>1, <1>2, QuotaStep, BucketsCorrect, PTL DEF LimitsSpec
=============================================================================
