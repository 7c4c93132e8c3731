-------------------------- MODULE Accounts_proofs --------------------------
(***************************************************************************)
(* Theorems of Accounts, for any number of callers, users, emails and lost   *)
(* answers: erased accounts stay shredded, the others keep their key.        *)
(***************************************************************************)
EXTENDS Accounts, TLAPS

(***************************************************************************)
(* A CREATE, sent once or again, carries the key of its own account.        *)
(***************************************************************************)
OwnKey == \A c \in Callers : pc[c] = "create" => atDek[c] = atUser[c]

IInv == TypeOK /\ OwnKey /\ ShreddedForGood /\ KeyKept

LEMMA InitIInv == Init => IInv
BY FaultAssumption
   DEF Init, IInv, TypeOK, OwnKey, ShreddedForGood, KeyKept, Hashes, Deks, Statuses

(***************************************************************************)
(* What a call leaves its caller with when it ends or is sent again.        *)
(***************************************************************************)
LEMMA OutcomeKeeps ==
    ASSUME TypeOK, NEW c \in Callers, Outcome(c)
    PROVE  /\ pc' \in [Callers -> {"idle", "create", "update", "erase"}]
           /\ atUser' \in [Callers -> Users \cup {NoUser}]
           /\ \A d \in Callers : pc'[d] # "idle" => atUser'[d] \in Users
           /\ atHash' \in [Callers -> Hashes]
           /\ atDek' \in [Callers -> Deks] /\ atCipher' \in [Callers -> Deks]
           /\ atStatus' \in [Callers -> Statuses] /\ atLocked' \in [Callers -> BOOLEAN]
           /\ faults' \in 0..MaxFaults
           /\ OwnKey => OwnKey'
<1>1. faults' \in 0..MaxFaults
  BY FaultAssumption DEF Outcome, TypeOK
<1>2. CASE Return(c)
  BY <1>1, <1>2 DEF Return, Holds, Goto, TypeOK, OwnKey, Hashes, Deks, Statuses
<1>3. CASE UNCHANGED <<pc, copy>>
  BY <1>1, <1>3 DEF copy, TypeOK, OwnKey
<1> QED
  BY <1>2, <1>3 DEF Outcome

LEMMA NewUserKeeps ==
    ASSUME IInv, NEW c \in Callers, NEW u \in Users, NEW e \in Emails, NewUser(c, u, e)
    PROVE  IInv'
<1> USE DEF IInv
<1>1. PICK x \in {OwnDek, NoDek} : Holds(c, u, e, u, x, "pending", FALSE)
  BY DEF NewUser, GenerateAndEncryptDEK
<1>2. TypeOK'
  BY <1>1 DEF NewUser, Holds, Goto, TypeOK, table, history, Hashes, Deks, Statuses
<1>3. OwnKey'
  BY <1>1 DEF NewUser, Holds, Goto, TypeOK, OwnKey
<1>4. ShreddedForGood' /\ KeyKept'
  BY DEF NewUser, ShreddedForGood, KeyKept, table, history
<1> QED
  BY <1>2, <1>3, <1>4

LEMMA FindKeeps ==
    ASSUME IInv, NEW c \in Callers, NEW u \in Users, Find(c, u)
    PROVE  IInv'
<1> USE DEF IInv
<1>1. PICK s \in {status[u], "active", "suspended"}, l \in BOOLEAN :
        Holds(c, u, hash[u], dek[u], cipher[u], s, l)
  BY DEF Find, mapUserRowV2
<1>2. s \in Statuses
  BY DEF TypeOK, Statuses
<1>3. TypeOK'
  BY <1>1, <1>2 DEF Find, Holds, Goto, TypeOK, table, history
<1>4. OwnKey'
  BY <1>1 DEF Find, Holds, Goto, TypeOK, OwnKey
<1>5. ShreddedForGood' /\ KeyKept'
  BY DEF Find, ShreddedForGood, KeyKept, table, history
<1> QED
  BY <1>3, <1>4, <1>5

LEMMA CreateKeeps == ASSUME IInv, NEW c \in Callers, Create(c) PROVE IInv'
<1> USE DEF IInv
<1>1. atUser[c] \in Users /\ atDek[c] = atUser[c]
  BY DEF Create, TypeOK, OwnKey
<1>2. OwnKey' /\ (UNCHANGED <<table, history>> => TypeOK')
  BY OutcomeKeeps DEF Create, TypeOK, table, history
<1>3. CASE Unique(atUser[c], atHash[c]) /\ Insert(c)
  <2>1. TypeOK'
    BY <1>1, <1>3, OutcomeKeeps DEF Create, Insert, TypeOK
  <2>2. ShreddedForGood'
    BY <1>1, <1>3, EmailAssumption DEF Insert, Unique, ShreddedForGood, TypeOK
  <2>3. KeyKept'
    BY <1>1, <1>3 DEF Insert, KeyKept, TypeOK
  <2> QED
    BY <1>2, <2>1, <2>2, <2>3
<1>4. CASE UNCHANGED <<table, history>>
  BY <1>2, <1>4 DEF ShreddedForGood, KeyKept, table, history
<1> QED
  BY <1>3, <1>4 DEF Create

LEMMA UpdateKeeps == ASSUME IInv, NEW c \in Callers, Update(c) PROVE IInv'
<1> USE DEF IInv
<1>1. atUser[c] \in Users /\ atStatus[c] \in Statuses /\ atLocked[c] \in BOOLEAN
  BY DEF Update, TypeOK
<1>2. status' \in [Users -> Statuses] /\ locked' \in [Users -> BOOLEAN]
  BY <1>1 DEF Update, TypeOK
<1>3. TypeOK' /\ OwnKey'
  BY <1>2, OutcomeKeeps DEF Update, TypeOK, history
<1>4. ShreddedForGood' /\ KeyKept'
  BY DEF Update, ShreddedForGood, KeyKept, history
<1> QED
  BY <1>3, <1>4

LEMMA StartEraseKeeps ==
    ASSUME IInv, NEW c \in Callers, NEW u \in Users, StartErase(c, u)
    PROVE  IInv'
<1> USE DEF IInv
<1>1. TypeOK'
  BY DEF StartErase, Goto, TypeOK, table, history
<1>2. OwnKey' /\ ShreddedForGood' /\ KeyKept'
  BY DEF StartErase, Goto, TypeOK, OwnKey, ShreddedForGood, KeyKept, table, history
<1> QED
  BY <1>1, <1>2

LEMMA EraseKeeps == ASSUME IInv, NEW c \in Callers, Erase(c) PROVE IInv'
<1> USE DEF IInv
<1>1. atUser[c] \in Users
  BY DEF Erase, TypeOK
<1>2. CASE /\ dek' = [dek EXCEPT ![atUser[c]] = NoDek]
           /\ cipher' = [cipher EXCEPT ![atUser[c]] = NoDek]
           /\ hash' = [hash EXCEPT ![atUser[c]] = Random]
           /\ status' = [status EXCEPT ![atUser[c]] = "erased"]
           /\ erased' = erased \cup {atUser[c]}
  <2>1. TypeOK' /\ OwnKey'
    BY <1>1, <1>2, OutcomeKeeps DEF Erase, TypeOK, Hashes, Deks, Statuses
  <2>2. ShreddedForGood' /\ KeyKept'
    BY <1>1, <1>2 DEF Erase, TypeOK, ShreddedForGood, KeyKept
  <2> QED
    BY <2>1, <2>2
<1>3. CASE UNCHANGED <<dek, cipher, hash, status, erased>>
  BY <1>3, OutcomeKeeps DEF Erase, TypeOK, ShreddedForGood, KeyKept
<1> QED
  BY <1>2, <1>3 DEF Erase

LEMMA StepKeepsIInv == IInv /\ [Next]_vars => IInv'
<1> SUFFICES ASSUME IInv, [Next]_vars PROVE IInv'
  OBVIOUS
<1>1. CASE Next
  <2> PICK c \in Callers : CallerStep(c)
    BY <1>1 DEF Next
  <2> QED
    BY NewUserKeeps, FindKeeps, CreateKeeps, UpdateKeeps, StartEraseKeeps, EraseKeeps
       DEF CallerStep
<1>2. CASE UNCHANGED vars
  BY <1>2 DEF vars, table, copy, history, IInv, TypeOK, OwnKey, ShreddedForGood, KeyKept
<1> QED
  BY <1>1, <1>2

THEOREM Invariance == Spec => []IInv
<1> QED
  BY InitIInv, StepKeepsIInv, PTL DEF Spec

-----------------------------------------------------------------------------
(***************************************************************************)
(* Every reachable state is well typed, and whoever is in a call has a user. *)
(***************************************************************************)
THEOREM TypeCorrect == Spec => []TypeOK
BY Invariance, PTL DEF IInv

(***************************************************************************)
(* No stale copy and no repeated call brings back the key, the ciphertext or *)
(* the email of an account that was erased (user_repo.go 297-326).          *)
(***************************************************************************)
THEOREM ErasedForGood == Spec => []ShreddedForGood
BY Invariance, PTL DEF IInv

(***************************************************************************)
(* An account keeps the key it was created with until it is erased           *)
(* (user_repo.go 250-294).                                                  *)
(***************************************************************************)
THEOREM KeysKept == Spec => []KeyKept
BY Invariance, PTL DEF IInv
=============================================================================
