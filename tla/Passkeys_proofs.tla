--------------------------- MODULE Passkeys_proofs ---------------------------
(***************************************************************************)
(* Theorems of Passkeys, for any number of users, keys, ceremonies, workers, *)
(* signatures and failing queries: sessions go to the owner of a key, a      *)
(* deleted key stays deleted, a stored one carries its user's handle and a   *)
(* count its authenticator has reached, and ceremonies are one-time tickets. *)
(***************************************************************************)
EXTENDS Passkeys, TLAPS

USE DEF logins, IssueSession

(***************************************************************************)
(* Keys and their owners: an answer to a registration was made for its       *)
(* user, and what a request stores or signs in with belongs to whom it       *)
(* works for.                                                               *)
(***************************************************************************)
Drawn == \A c \in Challenges : kind[c] = "none" => answer[c] = None
Registered(c) == kind[c] = "register" /\ answer[c] # None
StoredOwned == \A u \in Users : \A k \in creds[u] : owner[k] = u
AnswersOwned == \A c \in Challenges : Registered(c) => owner[answer[c]] = chUser[c]
Registrars == \A w \in Workers :
    pc[w] \in {"delete", "create"} => kind[chal[w]] = "register" /\ who[w] = chUser[chal[w]]
SignersOwn == \A w \in Workers : pc[w] = "signCount" => owner[KeyOf(w)] = who[w]

Owned == Drawn /\ StoredOwned /\ AnswersOwned /\ Registrars /\ SignersOwn /\ SessionOfOwner

(***************************************************************************)
(* A ceremony is open, in one request's hands or over, and a key answers one *)
(* registration; until it is stored for the first time its row is neither    *)
(* there nor deleted.                                                       *)
(***************************************************************************)
InHands(c) == \E w \in Workers : pc[w] \in TakenSteps /\ chal[w] = c
Pending(c) == Registered(c) /\ (c \in open \/ InHands(c))
TakenOnce ==
    /\ \A w \in Workers : pc[w] \in TakenSteps => chal[w] \notin open
    /\ \A v, w \in Workers :
         pc[v] \in TakenSteps /\ pc[w] \in TakenSteps /\ chal[v] = chal[w] => v = w
AnswersApart == \A c, d \in Challenges :
    Registered(c) /\ Registered(d) /\ answer[c] = answer[d] => c = d
PendingIsNew == \A c \in Challenges : Pending(c) => answer[c] \notin Stored \cup deleted
DeletedMade == \A k \in deleted : owner[k] # None

Redeemed == TakenOnce /\ AnswersApart /\ PendingIsNew /\ DeletedMade /\ DeletedForGood

(***************************************************************************)
(* While queries answer, a user who never registers twice at a time is given *)
(* one handle, before any ceremony or key of his exists.                     *)
(***************************************************************************)
Calm(u) == faults = 0 /\ u \in Users \ overlapped
OneHandle ==
    /\ \A w \in Workers : pc[w] = "saveUser" /\ Calm(who[w]) => handle[who[w]] = None
    /\ \A v, w \in Workers :
         pc[v] \in BeginSteps /\ pc[w] \in BeginSteps /\ who[v] = who[w] /\ Calm(who[v]) => v = w
    /\ \A c \in Challenges : kind[c] = "register" /\ Calm(chUser[c]) =>
         chHandle[c] = handle[chUser[c]] /\ handle[chUser[c]] # None
    /\ \A k \in Keys : Calm(owner[k]) =>
         keyHandle[k] = handle[owner[k]] /\ handle[owner[k]] # None

(***************************************************************************)
(* While queries answer, whoever had a key has one or is about to.           *)
(***************************************************************************)
HasKey(u) == creds[u] # {} \/ \E w \in Workers : pc[w] = "create" /\ who[w] = u
KeyLeft ==
    faults = 0 =>
        /\ \A s \in issued : HasKey(s[1])
        /\ \A w \in Workers : pc[w] = "signCount" => HasKey(who[w])

(***************************************************************************)
(* No count anyone read, sent or stored is ahead of the authenticator's.     *)
(***************************************************************************)
CountsBehind ==
    /\ CountNotAhead
    /\ \A c \in Challenges : answer[c] = None => asserted[c] = 0
    /\ \A c \in Challenges : answer[c] # None => asserted[c] <= signed[answer[c]]
    /\ \A w \in Workers : pc[w] = "signCount" => seen[w] <= signed[KeyOf(w)]

-----------------------------------------------------------------------------
(* Types. *)

LEMMA InitTypes == Init => TypeOK
BY BoundAssumption
DEF Init, TypeOK, TableTypes, CeremonyTypes, DeviceTypes, RequestTypes, HistoryTypes, Kinds, Counts,
    BeginSteps, TakenSteps, OwnerSteps

(***************************************************************************)
(* A new ceremony has its user.                                             *)
(***************************************************************************)
LEMMA StoreSessionTypes ==
    ASSUME CeremonyTypes, NEW purpose \in Kinds, NEW u \in Users \cup {None},
           NEW h \in Handles \cup {None}, NEW keys \in SUBSET Keys,
           purpose \in {"register", "login"} => u \in Users, StoreSession(purpose, u, h, keys)
    PROVE  CeremonyTypes'
BY DEF CeremonyTypes, StoreSession

(***************************************************************************)
(* The other requests stay where they are.                                  *)
(***************************************************************************)
LEMMA OneRequest ==
    ASSUME RequestTypes, NEW w \in Workers, answer' = answer,
           pc' \in [Workers -> {"idle"} \cup BeginSteps \cup TakenSteps],
           who' \in [Workers -> Users \cup {None}],
           chal' \in [Workers -> Challenges \cup {None}],
           got' \in [Workers -> Handles \cup {None}],
           seen' \in [Workers -> Counts],
           \A v \in Workers \ {w} : pc'[v] = pc[v] /\ who'[v] = who[v] /\ chal'[v] = chal[v],
           pc'[w] \in OwnerSteps => who'[w] \in Users,
           pc'[w] \in TakenSteps => chal'[w] \in Challenges /\ answer[chal'[w]] \in Keys
    PROVE  RequestTypes'
BY DEF RequestTypes, KeyOf

LEMMA DoneTypes ==
    ASSUME RequestTypes, NEW w \in Workers, Done(w), answer' = answer PROVE RequestTypes'
<1>1. pc'[w] = "idle" /\ \A v \in Workers \ {w} : pc'[v] = pc[v] /\ who'[v] = who[v] /\ chal'[v] = chal[v]
  BY DEF RequestTypes, Done
<1>2. /\ pc' \in [Workers -> {"idle"} \cup BeginSteps \cup TakenSteps]
      /\ who' \in [Workers -> Users \cup {None}] /\ chal' \in [Workers -> Challenges \cup {None}]
      /\ got' \in [Workers -> Handles \cup {None}]
  BY DEF RequestTypes, Done
<1>3. seen' \in [Workers -> Counts]
  BY BoundAssumption DEF RequestTypes, Done, Counts
<1>4. pc'[w] \notin OwnerSteps \cup TakenSteps
  BY <1>1 DEF OwnerSteps, BeginSteps, TakenSteps
<1> QED
  BY <1>1, <1>2, <1>3, <1>4, OneRequest

LEMMA GotoTypes ==
    ASSUME RequestTypes, NEW w \in Workers, NEW s \in BeginSteps \cup TakenSteps, Goto(w, s),
           answer' = answer, pc[w] \in OwnerSteps,
           s \in TakenSteps => pc[w] \in TakenSteps
    PROVE  RequestTypes'
<1>1. /\ pc'[w] = s /\ UNCHANGED <<who, chal, got, seen>>
      /\ \A v \in Workers \ {w} : pc'[v] = pc[v] /\ who'[v] = who[v] /\ chal'[v] = chal[v]
  BY DEF RequestTypes, Goto
<1>2. pc' \in [Workers -> {"idle"} \cup BeginSteps \cup TakenSteps]
  BY <1>1 DEF RequestTypes, Goto
<1>3. who[w] \in Users /\ (s \in TakenSteps => chal[w] \in Challenges /\ answer[chal[w]] \in Keys)
  BY DEF RequestTypes, KeyOf
<1> QED
  BY <1>1, <1>2, <1>3, OneRequest DEF RequestTypes

(***************************************************************************)
(* A login reads its user, its handle or a count and goes on.                *)
(***************************************************************************)
LEMMA StepTypes ==
    ASSUME RequestTypes, NEW w \in Workers, answer' = answer, chal' = chal, NEW s \in TakenSteps,
           pc[w] \in TakenSteps, pc' = [pc EXCEPT ![w] = s],
           who' = who \/ \E u \in Users : who' = [who EXCEPT ![w] = u],
           got' = got \/ \E h \in Handles \cup {None} : got' = [got EXCEPT ![w] = h],
           seen' = seen \/ \E n \in Counts : seen' = [seen EXCEPT ![w] = n],
           s \in OwnerSteps => who'[w] \in Users
    PROVE  RequestTypes'
<1>1. pc'[w] = s /\ \A v \in Workers \ {w} : pc'[v] = pc[v] /\ who'[v] = who[v] /\ chal'[v] = chal[v]
  BY DEF RequestTypes
<1>2. /\ pc' \in [Workers -> {"idle"} \cup BeginSteps \cup TakenSteps]
      /\ who' \in [Workers -> Users \cup {None}] /\ chal' \in [Workers -> Challenges \cup {None}]
      /\ got' \in [Workers -> Handles \cup {None}] /\ seen' \in [Workers -> Counts]
  BY DEF RequestTypes
<1>3. chal[w] \in Challenges /\ answer[chal[w]] \in Keys
  BY DEF RequestTypes, KeyOf
<1> QED
  BY <1>1, <1>2, <1>3, OneRequest

LEMMA FailedTypes == ASSUME faults \in 0..MaxFaults, Failed PROVE faults' \in 0..MaxFaults
BY BoundAssumption DEF Failed

LEMMA BrowsingTypes == ASSUME TypeOK, Browsing PROVE TypeOK'
<1> USE DEF TypeOK
<1>1. ASSUME NEW c \in Challenges, NEW k \in Keys, MakeKey(c, k) PROVE TypeOK'
  <2>1. DeviceTypes'
    BY <1>1 DEF MakeKey, DeviceTypes, CeremonyTypes
  <2>2. RequestTypes'
    BY <1>1, NoneAssumption DEF MakeKey, RequestTypes, DeviceTypes, KeyOf, request
  <2>3. TableTypes' /\ CeremonyTypes' /\ HistoryTypes'
    BY <1>1 DEF MakeKey, TableTypes, CeremonyTypes, HistoryTypes, tables, ceremony, history
  <2> QED
    BY <2>1, <2>2, <2>3
<1>2. ASSUME NEW c \in Challenges, NEW k \in Keys, Sign(c, k) PROVE TypeOK'
  <2>1. DeviceTypes'
    <3>1. signed[k] + 1 \in Counts
      BY <1>2, BoundAssumption DEF Sign, DeviceTypes, Counts
    <3> QED
      BY <1>2, <3>1 DEF Sign, DeviceTypes
  <2>2. RequestTypes'
    BY <1>2, NoneAssumption DEF Sign, RequestTypes, DeviceTypes, KeyOf, request
  <2>3. TableTypes' /\ CeremonyTypes' /\ HistoryTypes'
    BY <1>2 DEF Sign, TableTypes, CeremonyTypes, HistoryTypes, tables, ceremony, history
  <2> QED
    BY <2>1, <2>2, <2>3
<1>3. ASSUME NEW u \in Users, BeginLogin(u) PROVE TypeOK'
  <2>1. CeremonyTypes'
    BY <1>3, StoreSessionTypes DEF BeginLogin, Kinds, TableTypes
  <2> QED
    BY <1>3, <2>1 DEF BeginLogin, TableTypes, DeviceTypes, RequestTypes, HistoryTypes, KeyOf,
                      tables, devices, request, history
<1>4. CASE BeginLoginDiscoverable
  <2>1. CeremonyTypes'
    BY <1>4, StoreSessionTypes DEF BeginLoginDiscoverable, Kinds
  <2> QED
    BY <1>4, <2>1 DEF BeginLoginDiscoverable, TableTypes, DeviceTypes, RequestTypes, HistoryTypes,
                      KeyOf, tables, devices, request, history
<1> QED
  BY <1>1, <1>2, <1>3, <1>4 DEF Browsing

LEMMA RegisteringTypes == ASSUME TypeOK, NEW w \in Workers, Registering(w) PROVE TypeOK'
<1> USE DEF TypeOK
<1>1. ASSUME NEW u \in Users, BeginRegistration(w, u) PROVE TypeOK'
  <2>1. RequestTypes'
    BY <1>1 DEF BeginRegistration, RequestTypes, KeyOf, devices, BeginSteps, TakenSteps, OwnerSteps
  <2>2. HistoryTypes'
    BY <1>1 DEF BeginRegistration, HistoryTypes
  <2> QED
    BY <1>1, <2>1, <2>2 DEF BeginRegistration, TableTypes, CeremonyTypes, DeviceTypes, tables,
                            ceremony, devices
<1>2. CASE FindHandle(w)
  <2>1. RequestTypes'
    <3>1. answer' = answer /\ pc[w] \in OwnerSteps /\ "saveUser" \in BeginSteps \ TakenSteps
      BY <1>2 DEF FindHandle, devices, BeginSteps, TakenSteps, OwnerSteps
    <3>2. CASE Goto(w, "saveUser")
      BY <3>1, <3>2, GotoTypes
    <3> QED
      BY <1>2, <3>1, <3>2, DoneTypes DEF FindHandle
  <2>2. CeremonyTypes'
    <3>1. who[w] \in Users /\ handle[who[w]] \in Handles \cup {None}
      BY <1>2 DEF FindHandle, RequestTypes, TableTypes, OwnerSteps, BeginSteps
    <3>2. CASE StoreSession("register", who[w], handle[who[w]], {})
      BY <3>1, <3>2, StoreSessionTypes DEF Kinds
    <3>3. CASE UNCHANGED ceremony
      BY <3>3 DEF ceremony, CeremonyTypes
    <3> QED
      BY <1>2, <3>2, <3>3 DEF FindHandle
  <2>3. HistoryTypes'
    BY <1>2, FailedTypes DEF FindHandle, HistoryTypes, Answered
  <2> QED
    BY <1>2, <2>1, <2>2, <2>3 DEF FindHandle, TableTypes, DeviceTypes, tables, devices
<1>3. CASE SaveUser(w)
  <2>1. RequestTypes'
    BY <1>3, DoneTypes DEF SaveUser, devices
  <2>2. who[w] \in Users
    BY <1>3 DEF SaveUser, RequestTypes, OwnerSteps, BeginSteps
  <2>3. PICK h \in Handles :
          /\ used' = used \cup {h}
          /\ handle' \in {handle, [handle EXCEPT ![who[w]] = h]}
          /\ StoreSession("register", who[w], h, {}) \/ UNCHANGED ceremony
          /\ Answered \/ Failed
    BY <1>3 DEF SaveUser
  <2>4. CeremonyTypes'
    <3>1. CASE StoreSession("register", who[w], h, {})
      BY <2>2, <3>1, StoreSessionTypes DEF Kinds
    <3>2. CASE UNCHANGED ceremony
      BY <3>2 DEF ceremony, CeremonyTypes
    <3> QED
      BY <2>3, <3>1, <3>2
  <2>5. TableTypes'
    BY <1>3, <2>2, <2>3 DEF SaveUser, TableTypes
  <2>6. HistoryTypes'
    BY <1>3, <2>3, FailedTypes DEF SaveUser, HistoryTypes, Answered
  <2> QED
    BY <1>3, <2>1, <2>4, <2>5, <2>6 DEF SaveUser, DeviceTypes, devices
<1>4. ASSUME NEW c \in Challenges, FinishRegistration(w, c) PROVE TypeOK'
  <2>1. RequestTypes'
    BY <1>4 DEF FinishRegistration, Taken, RequestTypes, CeremonyTypes, DeviceTypes, KeyOf, devices,
                BeginSteps, TakenSteps, OwnerSteps
  <2>2. CeremonyTypes'
    BY <1>4 DEF FinishRegistration, Taken, CeremonyTypes
  <2> QED
    BY <1>4, <2>1, <2>2 DEF FinishRegistration, TableTypes, DeviceTypes, HistoryTypes, tables,
                            devices, history
<1>5. CASE RegistrationExpired(w)
  <2>1. RequestTypes'
    BY <1>5, DoneTypes DEF RegistrationExpired, devices
  <2> QED
    BY <1>5, <2>1 DEF RegistrationExpired, TableTypes, CeremonyTypes, DeviceTypes, HistoryTypes,
                      tables, ceremony, devices, history
<1>6. CASE DeleteOld(w)
  <2>1. RequestTypes'
    <3>1. answer' = answer /\ pc[w] \in OwnerSteps \cap TakenSteps /\ "create" \in TakenSteps
      BY <1>6 DEF DeleteOld, devices, TakenSteps, OwnerSteps
    <3> QED
      BY <1>6, <3>1, GotoTypes DEF DeleteOld
  <2>2. creds' \in [Users -> SUBSET Keys]
    BY <1>6 DEF DeleteOld, TableTypes
  <2>3. who[w] \in Users /\ deleted' \subseteq Keys
    BY <1>6 DEF DeleteOld, RequestTypes, TableTypes, HistoryTypes, OwnerSteps
  <2>4. HistoryTypes'
    BY <1>6, <2>3, FailedTypes DEF DeleteOld, HistoryTypes, Answered
  <2> QED
    BY <1>6, <2>1, <2>2, <2>4 DEF DeleteOld, TableTypes, CeremonyTypes, DeviceTypes, ceremony, devices
<1>7. CASE CreateCredential(w)
  <2>1. RequestTypes'
    BY <1>7, DoneTypes DEF CreateCredential, devices
  <2>2. who[w] \in Users /\ KeyOf(w) \in Keys
    BY <1>7 DEF CreateCredential, RequestTypes, OwnerSteps, TakenSteps
  <2>3. TableTypes'
    BY <1>7, <2>2, BoundAssumption DEF CreateCredential, Inserted, TableTypes, Counts
  <2>4. HistoryTypes'
    BY <1>7, <2>2, FailedTypes DEF CreateCredential, HistoryTypes, Answered
  <2> QED
    BY <1>7, <2>1, <2>3, <2>4 DEF CreateCredential, CeremonyTypes, DeviceTypes, ceremony, devices
<1> QED
  BY <1>1, <1>2, <1>3, <1>4, <1>5, <1>6, <1>7 DEF Registering

LEMMA LoggingInTypes == ASSUME TypeOK, NEW w \in Workers, LoggingIn(w) PROVE TypeOK'
<1> USE DEF TypeOK
<1>1. ASSUME NEW c \in Challenges, FinishLogin(w, c) PROVE TypeOK'
  <2>1. RequestTypes'
    BY <1>1 DEF FinishLogin, Taken, RequestTypes, CeremonyTypes, DeviceTypes, KeyOf, devices,
                BeginSteps, TakenSteps, OwnerSteps
  <2>2. CeremonyTypes'
    BY <1>1 DEF FinishLogin, Taken, CeremonyTypes
  <2> QED
    BY <1>1, <2>1, <2>2 DEF FinishLogin, TableTypes, DeviceTypes, HistoryTypes, tables, devices, history
<1>2. ASSUME FindByKID(w) \/ FindUserByHandle(w) \/ FindUserHandle(w) \/ Validate(w) PROVE TypeOK'
  <2>1. TableTypes' /\ CeremonyTypes' /\ DeviceTypes' /\ UNCHANGED answer
    BY <1>2 DEF FindByKID, FindUserByHandle, FindUserHandle, Validate, TableTypes, CeremonyTypes,
                DeviceTypes, tables, ceremony, devices
  <2>2. HistoryTypes'
    <3>1. Answered \/ Failed
      BY <1>2 DEF FindByKID, FindUserByHandle, FindUserHandle, Validate
    <3>2. UNCHANGED <<used, deleted, logins, overlapped>>
      BY <1>2 DEF FindByKID, FindUserByHandle, FindUserHandle, Validate
    <3> QED
      BY <3>1, <3>2, FailedTypes DEF HistoryTypes, Answered
  <2> SUFFICES RequestTypes'
    BY <2>1, <2>2
  <2>3. CASE FindByKID(w)
    <3>1. pc[w] \in TakenSteps /\ UNCHANGED <<chal, got, seen>>
      BY <2>3 DEF FindByKID, TakenSteps
    <3>2. ASSUME NEW u \in Users, who' = [who EXCEPT ![w] = u], pc' = [pc EXCEPT ![w] = "userHandle"]
          PROVE  RequestTypes'
      <4>1. who'[w] \in Users /\ "userHandle" \in TakenSteps
        BY <3>2 DEF RequestTypes, TakenSteps
      <4> QED
        BY <2>1, <3>1, <3>2, <4>1, StepTypes
    <3>3. CASE pc' = [pc EXCEPT ![w] = "byHandle"] /\ UNCHANGED who
      <4>1. "byHandle" \in TakenSteps /\ "byHandle" \notin OwnerSteps
        BY DEF TakenSteps, OwnerSteps, BeginSteps
      <4> QED
        BY <2>1, <3>1, <3>3, <4>1, StepTypes
    <3> QED
      BY <2>3, <3>2, <3>3 DEF FindByKID
  <2>4. CASE FindUserByHandle(w)
    <3>1. CASE Done(w)
      BY <2>1, <3>1, DoneTypes
    <3>2. ASSUME NEW u \in Users, pc' = [pc EXCEPT ![w] = "creds"], who' = [who EXCEPT ![w] = u],
                 got' = [got EXCEPT ![w] = handle[u]], UNCHANGED <<chal, seen>>
          PROVE  RequestTypes'
      <4>1. pc[w] \in TakenSteps /\ "creds" \in TakenSteps
        BY <2>4 DEF FindUserByHandle, TakenSteps
      <4>2. handle[u] \in Handles \cup {None} /\ who'[w] \in Users
        BY <3>2 DEF TableTypes, RequestTypes
      <4> QED
        BY <2>1, <3>2, <4>1, <4>2, StepTypes
    <3> QED
      BY <2>4, <3>1, <3>2 DEF FindUserByHandle
  <2>5. CASE FindUserHandle(w)
    <3>1. /\ pc[w] \in TakenSteps /\ "creds" \in TakenSteps /\ UNCHANGED <<who, chal, seen>>
          /\ pc' = [pc EXCEPT ![w] = "creds"]
      BY <2>5 DEF FindUserHandle, TakenSteps
    <3>2. who[w] \in Users /\ KeyOf(w) \in Keys
      BY <2>5 DEF FindUserHandle, RequestTypes, TakenSteps, OwnerSteps
    <3>3. PICK h \in Handles \cup {None} : got' = [got EXCEPT ![w] = h]
      BY <2>5, <3>2 DEF FindUserHandle, TableTypes, DeviceTypes
    <3> QED
      BY <2>1, <3>1, <3>2, <3>3, StepTypes
  <2>6. CASE Validate(w)
    <3>1. CASE Done(w)
      BY <2>1, <3>1, DoneTypes
    <3>2. CASE /\ seen' = [seen EXCEPT ![w] = count[KeyOf(w)]] /\ pc' = [pc EXCEPT ![w] = "signCount"]
               /\ UNCHANGED <<who, chal, got>>
      <4>1. pc[w] \in TakenSteps /\ "signCount" \in TakenSteps
        BY <2>6 DEF Validate, TakenSteps
      <4>2. who[w] \in Users /\ KeyOf(w) \in Keys
        BY <2>6 DEF Validate, RequestTypes, TakenSteps, OwnerSteps
      <4>3. count[KeyOf(w)] \in Counts
        BY <4>2 DEF TableTypes
      <4> QED
        BY <2>1, <3>2, <4>1, <4>2, <4>3, StepTypes
    <3> QED
      BY <2>6, <3>1, <3>2 DEF Validate
  <2> QED
    BY <1>2, <2>3, <2>4, <2>5, <2>6
<1>3. CASE UpdateSignCount(w)
  <2>1. RequestTypes'
    BY <1>3, DoneTypes DEF UpdateSignCount, devices
  <2>2. who[w] \in Users /\ KeyOf(w) \in Keys /\ chal[w] \in Challenges
    BY <1>3 DEF UpdateSignCount, RequestTypes, OwnerSteps, TakenSteps
  <2>3. NewCount(w) \in Counts
    BY <2>2 DEF NewCount, DeviceTypes, RequestTypes
  <2>4. TableTypes'
    BY <1>3, <2>3 DEF UpdateSignCount, TableTypes
  <2>5. HistoryTypes'
    BY <1>3, <2>2, FailedTypes DEF UpdateSignCount, HistoryTypes, Answered
  <2> QED
    BY <1>3, <2>1, <2>4, <2>5 DEF UpdateSignCount, CeremonyTypes, DeviceTypes, ceremony, devices
<1> QED
  BY <1>1, <1>2, <1>3 DEF LoggingIn

LEMMA TypesKept == ASSUME TypeOK, [Next]_vars PROVE TypeOK'
<1>1. CASE UNCHANGED vars
  BY <1>1 DEF vars, tables, ceremony, devices, request, history, TypeOK, TableTypes, CeremonyTypes,
              DeviceTypes, RequestTypes, HistoryTypes, KeyOf
<1> QED
  BY <1>1, BrowsingTypes, RegisteringTypes, LoggingInTypes DEF Next

-----------------------------------------------------------------------------
(* What lasts, and who changes what. *)

(***************************************************************************)
(* A ceremony that was drawn, an answer that was given and a key that was    *)
(* made stay what they are; counters of authenticators only grow.           *)
(***************************************************************************)
CeremoniesLast == \A c \in Challenges :
    /\ kind[c] # "none" => kind'[c] = kind[c] /\ chUser'[c] = chUser[c] /\ chHandle'[c] = chHandle[c]
    /\ c \in open' => c \in open \/ kind[c] = "none"
DevicesLast ==
    /\ \A c \in Challenges :
        /\ answer[c] # None => answer'[c] = answer[c] /\ asserted'[c] = asserted[c]
        /\ answer'[c] # answer[c] => kind[c] # "none"
    /\ \A k \in Keys :
        /\ owner[k] # None => owner'[k] = owner[k] /\ keyHandle'[k] = keyHandle[k]
        /\ signed'[k] >= signed[k]
HistoryLasts ==
    /\ deleted \subseteq deleted' /\ issued \subseteq issued' /\ overlapped \subseteq overlapped'
    /\ faults' = 0 => faults = 0

LEMMA StoreSessionLasts ==
    ASSUME CeremonyTypes, NEW purpose, NEW u, NEW h, NEW keys, StoreSession(purpose, u, h, keys)
    PROVE  \E c \in Challenges :
             /\ kind[c] = "none" /\ kind'[c] = purpose /\ chUser'[c] = u /\ chHandle'[c] = h
             /\ open' = open \cup {c}
             /\ \A d \in Challenges \ {c} :
                  kind'[d] = kind[d] /\ chUser'[d] = chUser[d] /\ chHandle'[d] = chHandle[d]
BY DEF CeremonyTypes, StoreSession

LEMMA CeremoniesStay == ASSUME TypeOK, [Next]_vars PROVE CeremoniesLast
<1> USE DEF TypeOK
<1>1. ASSUME NEW purpose, NEW u, NEW h, NEW keys, StoreSession(purpose, u, h, keys)
      PROVE  CeremoniesLast
  BY <1>1, StoreSessionLasts DEF CeremoniesLast
<1>2. ASSUME UNCHANGED <<kind, chUser, chHandle>>, open' \subseteq open PROVE CeremoniesLast
  BY <1>2 DEF CeremoniesLast
<1>3. CASE Browsing
  <2>1. ASSUME NEW u \in Users, BeginLogin(u) PROVE CeremoniesLast
    BY <1>1, <2>1 DEF BeginLogin
  <2>2. CASE BeginLoginDiscoverable
    BY <1>1, <2>2 DEF BeginLoginDiscoverable
  <2>3. ASSUME NEW c \in Challenges, NEW k \in Keys, MakeKey(c, k) \/ Sign(c, k) PROVE CeremoniesLast
    BY <1>2, <2>3 DEF MakeKey, Sign, ceremony
  <2> QED
    BY <1>3, <2>1, <2>2, <2>3 DEF Browsing
<1>4. ASSUME NEW w \in Workers, Registering(w) PROVE CeremoniesLast
  <2>1. CASE FindHandle(w)
    BY <1>1, <1>2, <2>1 DEF FindHandle, ceremony
  <2>2. CASE SaveUser(w)
    BY <1>1, <1>2, <2>2 DEF SaveUser, ceremony
  <2>3. ASSUME NEW c \in Challenges, FinishRegistration(w, c) PROVE CeremoniesLast
    BY <1>2, <2>3 DEF FinishRegistration, Taken
  <2>4. CASE (\E u \in Users : BeginRegistration(w, u)) \/ RegistrationExpired(w) \/ DeleteOld(w)
             \/ CreateCredential(w)
    BY <1>2, <2>4 DEF BeginRegistration, RegistrationExpired, DeleteOld, CreateCredential, ceremony
  <2> QED
    BY <1>4, <2>1, <2>2, <2>3, <2>4 DEF Registering
<1>5. ASSUME NEW w \in Workers, LoggingIn(w) PROVE CeremoniesLast
  <2>1. ASSUME NEW c \in Challenges, FinishLogin(w, c) PROVE CeremoniesLast
    BY <1>2, <2>1 DEF FinishLogin, Taken
  <2>2. CASE FindByKID(w) \/ FindUserByHandle(w) \/ FindUserHandle(w) \/ Validate(w) \/ UpdateSignCount(w)
    BY <1>2, <2>2 DEF FindByKID, FindUserByHandle, FindUserHandle, Validate, UpdateSignCount, ceremony
  <2> QED
    BY <1>5, <2>1, <2>2 DEF LoggingIn
<1>6. CASE UNCHANGED vars
  BY <1>2, <1>6 DEF vars, ceremony
<1> QED
  BY <1>3, <1>4, <1>5, <1>6 DEF Next

(***************************************************************************)
(* A request changes no key and no answer, and only one request moves.       *)
(***************************************************************************)
OthersWait(w) == \A v \in Workers \ {w} :
    pc'[v] = pc[v] /\ who'[v] = who[v] /\ chal'[v] = chal[v] /\ seen'[v] = seen[v]

LEMMA RequestStep ==
    ASSUME TypeOK, NEW w \in Workers, Registering(w) \/ LoggingIn(w)
    PROVE  UNCHANGED devices /\ OthersWait(w)
<1> USE DEF OthersWait
<1>1. CASE Registering(w)
  <2>1. UNCHANGED devices
    BY <1>1 DEF Registering, BeginRegistration, FindHandle, SaveUser, FinishRegistration,
                RegistrationExpired, DeleteOld, CreateCredential
  <2>2. OthersWait(w)
    <3>1. ASSUME NEW u \in Users, BeginRegistration(w, u) PROVE OthersWait(w)
      BY <3>1 DEF BeginRegistration, TypeOK, RequestTypes
    <3>2. CASE Done(w)
      BY <3>2 DEF Done, TypeOK, RequestTypes
    <3>3. ASSUME NEW s, Goto(w, s) PROVE OthersWait(w)
      BY <3>3 DEF Goto, TypeOK, RequestTypes
    <3>4. ASSUME NEW c \in Challenges, FinishRegistration(w, c) PROVE OthersWait(w)
      BY <3>4 DEF FinishRegistration, Taken, TypeOK, RequestTypes
    <3> QED
      BY <1>1, <3>1, <3>2, <3>3, <3>4
      DEF Registering, FindHandle, SaveUser, RegistrationExpired, DeleteOld, CreateCredential
  <2> QED
    BY <2>1, <2>2
<1>2. CASE LoggingIn(w)
  <2>1. UNCHANGED devices
    BY <1>2 DEF LoggingIn, FinishLogin, FindByKID, FindUserByHandle, FindUserHandle, Validate,
                UpdateSignCount
  <2>2. OthersWait(w)
    <3>1. CASE Done(w)
      BY <3>1 DEF Done, TypeOK, RequestTypes
    <3>2. ASSUME NEW c \in Challenges, FinishLogin(w, c) PROVE OthersWait(w)
      BY <3>2 DEF FinishLogin, Taken, TypeOK, RequestTypes
    <3>3. CASE FindByKID(w) \/ FindUserHandle(w)
      BY <3>3 DEF FindByKID, FindUserHandle, TypeOK, RequestTypes
    <3>4. CASE FindUserByHandle(w) \/ Validate(w)
      BY <3>1, <3>4 DEF FindUserByHandle, Validate, TypeOK, RequestTypes
    <3> QED
      BY <1>2, <3>1, <3>2, <3>3, <3>4 DEF LoggingIn, UpdateSignCount
  <2> QED
    BY <2>1, <2>2
<1> QED
  BY <1>1, <1>2

LEMMA NextLasts == ASSUME TypeOK, [Next]_vars PROVE DevicesLast /\ HistoryLasts
<1> USE DEF TypeOK, DevicesLast, HistoryLasts
<1>1. DevicesLast
  <2>1. ASSUME NEW c \in Challenges, NEW k \in Keys, MakeKey(c, k) PROVE DevicesLast
    BY <2>1 DEF MakeKey, DeviceTypes, Counts
  <2>2. ASSUME NEW c \in Challenges, NEW k \in Keys, Sign(c, k) PROVE DevicesLast
    BY <2>2 DEF Sign, DeviceTypes, Counts
  <2>3. CASE UNCHANGED devices
    BY <2>3 DEF devices, DeviceTypes, Counts
  <2>4. ASSUME NEW u \in Users, BeginLogin(u) PROVE DevicesLast
    BY <2>3, <2>4 DEF BeginLogin
  <2> QED
    BY <2>1, <2>2, <2>3, <2>4, RequestStep DEF Next, Browsing, BeginLoginDiscoverable, vars
<1>2. HistoryLasts
  <2>1. CASE UNCHANGED history
    BY <2>1 DEF history
  <2>2. CASE Browsing
    BY <2>1, <2>2 DEF Browsing, MakeKey, Sign, BeginLogin, BeginLoginDiscoverable
  <2>3. Failed \/ Answered => (faults' = 0 => faults = 0)
    BY DEF Failed, Answered, HistoryTypes
  <2>4. ASSUME NEW w \in Workers, Registering(w) PROVE HistoryLasts
    BY <2>1, <2>3, <2>4 DEF Registering, BeginRegistration, FindHandle, SaveUser, FinishRegistration,
                            RegistrationExpired, DeleteOld, CreateCredential
  <2>5. ASSUME NEW w \in Workers, LoggingIn(w) PROVE HistoryLasts
    BY <2>1, <2>3, <2>5 DEF LoggingIn, FinishLogin, FindByKID, FindUserByHandle, FindUserHandle,
                            Validate, UpdateSignCount
  <2> QED
    BY <2>1, <2>2, <2>4, <2>5 DEF Next, vars
<1> QED
  BY <1>1, <1>2

(***************************************************************************)
(* How a request comes to a step, and who adds rows, sessions and answers.   *)
(***************************************************************************)
LEMMA Moved ==
    ASSUME TypeOK, [Next]_vars, NEW w \in Workers
    PROVE  \/ pc'[w] = pc[w] /\ who'[w] = who[w] /\ chal'[w] = chal[w] /\ seen'[w] = seen[w]
           \/ Registering(w) \/ LoggingIn(w)
<1>1. CASE UNCHANGED request
  BY <1>1 DEF request
<1>2. CASE Browsing
  BY <1>1, <1>2 DEF Browsing, MakeKey, Sign, BeginLogin, BeginLoginDiscoverable
<1>3. ASSUME NEW v \in Workers, Registering(v) \/ LoggingIn(v), v # w
      PROVE  pc'[w] = pc[w] /\ who'[w] = who[w] /\ chal'[w] = chal[w] /\ seen'[w] = seen[w]
  BY <1>3, RequestStep DEF OthersWait
<1> QED
  BY <1>1, <1>2, <1>3 DEF Next, vars

LEMMA Entered ==
    ASSUME TypeOK, NEW w \in Workers, Registering(w) \/ LoggingIn(w)
    PROVE  /\ pc'[w] = "handle" => \E u \in Users : BeginRegistration(w, u)
           /\ pc'[w] = "saveUser" => FindHandle(w)
           /\ pc'[w] = "delete" => \E c \in Challenges : FinishRegistration(w, c)
           /\ pc'[w] = "create" => DeleteOld(w)
           /\ pc'[w] = "signCount" => Validate(w)
<1>1. ASSUME Done(w) PROVE pc'[w] = "idle"
  BY <1>1 DEF Done, TypeOK, RequestTypes
<1>2. CASE Registering(w)
  <2>1. ASSUME NEW u \in Users, BeginRegistration(w, u) PROVE pc'[w] = "handle"
    BY <2>1 DEF BeginRegistration, TypeOK, RequestTypes
  <2>2. ASSUME SaveUser(w) \/ RegistrationExpired(w) \/ CreateCredential(w) PROVE pc'[w] = "idle"
    BY <1>1, <2>2 DEF SaveUser, RegistrationExpired, CreateCredential
  <2>3. ASSUME FindHandle(w) PROVE pc'[w] \in {"idle", "saveUser"}
    BY <1>1, <2>3 DEF FindHandle, Goto, TypeOK, RequestTypes
  <2>4. ASSUME NEW c \in Challenges, FinishRegistration(w, c) PROVE pc'[w] = "delete"
    BY <2>4 DEF FinishRegistration, TypeOK, RequestTypes
  <2>5. ASSUME DeleteOld(w) PROVE pc'[w] = "create"
    BY <2>5 DEF DeleteOld, Goto, TypeOK, RequestTypes
  <2> QED
    BY <1>2, <2>1, <2>2, <2>3, <2>4, <2>5 DEF Registering
<1>3. CASE LoggingIn(w)
  <2>1. ASSUME \/ \E c \in Challenges : FinishLogin(w, c)
               \/ FindByKID(w) \/ FindUserByHandle(w) \/ FindUserHandle(w) \/ UpdateSignCount(w)
        PROVE  pc'[w] \in {"idle", "kid", "byHandle", "userHandle", "creds"}
    <3>1. CASE \E c \in Challenges : FinishLogin(w, c)
      BY <3>1 DEF FinishLogin, TypeOK, RequestTypes
    <3>2. CASE FindByKID(w) \/ FindUserHandle(w)
      BY <3>2 DEF FindByKID, FindUserHandle, TypeOK, RequestTypes
    <3>3. CASE FindUserByHandle(w) \/ UpdateSignCount(w)
      BY <1>1, <3>3 DEF FindUserByHandle, UpdateSignCount, TypeOK, RequestTypes
    <3> QED
      BY <2>1, <3>1, <3>2, <3>3
  <2>2. ASSUME Validate(w) PROVE pc'[w] \in {"idle", "signCount"}
    BY <1>1, <2>2 DEF Validate, TypeOK, RequestTypes
  <2> QED
    BY <1>3, <2>1, <2>2 DEF LoggingIn
<1> QED
  BY <1>2, <1>3

LEMMA RowsAdded ==
    ASSUME TypeOK, [Next]_vars, NEW u \in Users, NEW k, k \in creds'[u], k \notin creds[u]
    PROVE  \E w \in Workers : CreateCredential(w) /\ u = who[w] /\ k = KeyOf(w)
<1>1. creds' # creds
  OBVIOUS
<1>2. PICK w \in Workers : Registering(w) \/ LoggingIn(w)
  BY <1>1 DEF Next, Browsing, MakeKey, Sign, BeginLogin, BeginLoginDiscoverable, vars, tables
<1>3. DeleteOld(w) \/ CreateCredential(w)
  BY <1>1, <1>2
  DEF Registering, BeginRegistration, FindHandle, SaveUser, FinishRegistration, RegistrationExpired,
      LoggingIn, FinishLogin, FindByKID, FindUserByHandle, FindUserHandle, Validate, UpdateSignCount,
      tables
<1>4. ~DeleteOld(w)
  BY DEF DeleteOld, TypeOK, TableTypes
<1>5. u = who[w] /\ k = KeyOf(w)
  BY <1>1, <1>3, <1>4 DEF CreateCredential, Inserted, TypeOK, TableTypes
<1> QED
  BY <1>3, <1>4, <1>5

LEMMA SessionsAdded ==
    ASSUME TypeOK, [Next]_vars, NEW s \in issued', s \notin issued
    PROVE  \E w \in Workers :
             s = <<who[w], KeyOf(w)>> /\ (CreateCredential(w) \/ UpdateSignCount(w))
<1>1. issued' # issued
  OBVIOUS
<1>2. PICK w \in Workers : Registering(w) \/ LoggingIn(w)
  BY <1>1 DEF Next, Browsing, MakeKey, Sign, BeginLogin, BeginLoginDiscoverable, vars, history
<1>3. CreateCredential(w) \/ UpdateSignCount(w)
  BY <1>1, <1>2
  DEF Registering, BeginRegistration, FindHandle, SaveUser, FinishRegistration, RegistrationExpired,
      DeleteOld, LoggingIn, FinishLogin, FindByKID, FindUserByHandle, FindUserHandle, Validate, history
<1> QED
  BY <1>3 DEF CreateCredential, UpdateSignCount

LEMMA AnswerGiven ==
    ASSUME TypeOK, [Next]_vars, NEW c \in Challenges, answer'[c] # answer[c]
    PROVE  \E k \in Keys : answer'[c] = k /\ (MakeKey(c, k) \/ Sign(c, k))
<1>1. ~UNCHANGED devices
  BY DEF devices
<1>2. PICK d \in Challenges, k \in Keys : MakeKey(d, k) \/ Sign(d, k)
  BY <1>1, RequestStep DEF Next, Browsing, BeginLogin, BeginLoginDiscoverable, vars
<1>3. d = c /\ answer'[c] = k
  BY <1>2 DEF MakeKey, Sign, TypeOK, DeviceTypes
<1> QED
  BY <1>2, <1>3

-----------------------------------------------------------------------------
(* Keys and their owners. *)

LEMMA InitOwned == Init => Owned
BY NoneAssumption
DEF Init, Owned, Drawn, StoredOwned, AnswersOwned, Registered, Registrars, SignersOwn, SessionOfOwner

LEMMA OwnedKept == ASSUME TypeOK, TypeOK', Owned, [Next]_vars PROVE Owned'
<1>1. CeremoniesLast /\ DevicesLast
  BY CeremoniesStay, NextLasts
<1>2. \A k \in Keys : owner[k] \in Users => owner'[k] = owner[k]
  BY <1>1, NoneAssumption DEF DevicesLast
<1>3. Drawn'
  BY <1>1 DEF Owned, Drawn, CeremoniesLast, DevicesLast
<1>4. AnswersOwned'
  <2> SUFFICES ASSUME NEW c \in Challenges, kind'[c] = "register", answer'[c] # None
               PROVE  owner'[answer'[c]] = chUser'[c]
    BY DEF AnswersOwned, Registered
  <2>1. CASE answer[c] = answer'[c]
    <3>1. kind[c] = "register" /\ chUser'[c] = chUser[c]
      BY <1>1, <2>1 DEF Owned, Drawn, CeremoniesLast
    <3>2. owner[answer[c]] = chUser[c] /\ chUser[c] \in Users /\ answer[c] \in Keys
      BY <2>1, <3>1 DEF Owned, AnswersOwned, Registered, TypeOK, CeremonyTypes, DeviceTypes
    <3> QED
      BY <1>2, <2>1, <3>1, <3>2
  <2>2. CASE answer[c] # answer'[c]
    <3>1. PICK k \in Keys : answer'[c] = k /\ (MakeKey(c, k) \/ Sign(c, k))
      BY <2>2, AnswerGiven
    <3>2. kind[c] = "register" /\ chUser'[c] = chUser[c]
      BY <1>1, <2>2 DEF CeremoniesLast, DevicesLast
    <3>3. MakeKey(c, k)
      BY <3>1, <3>2 DEF Sign
    <3> QED
      BY <3>1, <3>2, <3>3 DEF MakeKey, TypeOK, DeviceTypes
  <2> QED
    BY <2>1, <2>2
<1>5. StoredOwned'
  <2> SUFFICES ASSUME NEW u \in Users, NEW k \in creds'[u] PROVE owner'[k] = u
    BY DEF StoredOwned
  <2>1. k \in Keys
    BY DEF TypeOK, TableTypes
  <2>2. CASE k \in creds[u]
    BY <1>2, <2>1, <2>2 DEF Owned, StoredOwned
  <2>3. CASE k \notin creds[u]
    <3>1. PICK w \in Workers : CreateCredential(w) /\ u = who[w] /\ k = KeyOf(w)
      BY <2>3, RowsAdded
    <3>2. pc[w] = "create" /\ chal[w] \in Challenges
      BY <3>1 DEF CreateCredential, TypeOK, RequestTypes, TakenSteps
    <3>3. Registered(chal[w]) /\ chUser[chal[w]] = u
      BY <2>1, <3>1, <3>2, NoneAssumption DEF Owned, Registrars, Registered, KeyOf
    <3> QED
      BY <1>2, <2>1, <3>1, <3>2, <3>3 DEF Owned, AnswersOwned, KeyOf
  <2> QED
    BY <2>2, <2>3
<1>6. Registrars'
  <2> SUFFICES ASSUME NEW w \in Workers, pc'[w] \in {"delete", "create"}
               PROVE  kind'[chal'[w]] = "register" /\ who'[w] = chUser'[chal'[w]]
    BY DEF Registrars
  <2>1. ASSUME pc[w] \in {"delete", "create"}, chal'[w] = chal[w], who'[w] = who[w]
        PROVE  kind'[chal'[w]] = "register" /\ who'[w] = chUser'[chal'[w]]
    <3>1. chal[w] \in Challenges
      BY <2>1 DEF TypeOK, RequestTypes, TakenSteps
    <3> QED
      BY <1>1, <2>1, <3>1 DEF Owned, Registrars, CeremoniesLast
  <2>2. ASSUME NEW c \in Challenges, FinishRegistration(w, c)
        PROVE  kind'[chal'[w]] = "register" /\ who'[w] = chUser'[chal'[w]]
    BY <2>2 DEF FinishRegistration, Taken, TypeOK, RequestTypes
  <2>3. CASE DeleteOld(w)
    BY <2>1, <2>3 DEF DeleteOld, Goto
  <2> QED
    BY <2>1, <2>2, <2>3, Moved, Entered
<1>7. SignersOwn'
  <2> SUFFICES ASSUME NEW w \in Workers, pc'[w] = "signCount" PROVE owner'[answer'[chal'[w]]] = who'[w]
    BY DEF SignersOwn, KeyOf
  <2>1. CASE pc[w] = "signCount" /\ chal'[w] = chal[w] /\ who'[w] = who[w]
    <3>1. chal[w] \in Challenges /\ KeyOf(w) \in Keys /\ who[w] \in Users
      BY <2>1 DEF TypeOK, RequestTypes, TakenSteps, OwnerSteps
    <3>2. answer'[chal[w]] = KeyOf(w)
      BY <1>1, <3>1, NoneAssumption DEF DevicesLast, KeyOf
    <3> QED
      BY <1>2, <2>1, <3>1, <3>2 DEF Owned, SignersOwn
  <2>2. CASE Validate(w)
    <3>1. UNCHANGED <<answer, owner, chal, who>> /\ KeyOf(w) \in creds[who[w]] /\ who[w] \in Users
      BY <2>2 DEF Validate, Accepts, Done, devices, TypeOK, RequestTypes, OwnerSteps
    <3> QED
      BY <3>1 DEF Owned, StoredOwned, KeyOf
  <2> QED
    BY <2>1, <2>2, Moved, Entered
<1>8. SessionOfOwner'
  <2> SUFFICES ASSUME NEW s \in issued' PROVE owner'[s[2]] = s[1]
    BY DEF SessionOfOwner
  <2>1. CASE s \in issued
    <3>1. s[1] \in Users /\ s[2] \in Keys
      BY <2>1 DEF TypeOK, HistoryTypes
    <3> QED
      BY <1>2, <2>1, <3>1 DEF Owned, SessionOfOwner
  <2>2. CASE s \notin issued
    <3>1. PICK w \in Workers : s = <<who[w], KeyOf(w)>> /\ (CreateCredential(w) \/ UpdateSignCount(w))
      BY <2>2, SessionsAdded
    <3>2. who[w] \in Users /\ KeyOf(w) \in Keys /\ chal[w] \in Challenges
      BY <3>1 DEF CreateCredential, UpdateSignCount, TypeOK, RequestTypes, TakenSteps, OwnerSteps
    <3>3. owner[KeyOf(w)] = who[w]
      <4>1. CASE UpdateSignCount(w)
        BY <4>1 DEF UpdateSignCount, Owned, SignersOwn
      <4>2. CASE CreateCredential(w)
        BY <3>2, <4>2, NoneAssumption
        DEF CreateCredential, Owned, Registrars, AnswersOwned, Registered, KeyOf
      <4> QED
        BY <3>1, <4>1, <4>2
    <3> QED
      BY <1>2, <3>1, <3>2, <3>3
  <2> QED
    BY <2>1, <2>2
<1> QED
  BY <1>3, <1>4, <1>5, <1>6, <1>7, <1>8 DEF Owned

-----------------------------------------------------------------------------
(* A ceremony is redeemed once. *)

LEMMA TakesOrKeeps ==
    ASSUME TypeOK, [Next]_vars, NEW w \in Workers, pc'[w] \in TakenSteps
    PROVE  \/ pc[w] \in TakenSteps /\ chal'[w] = chal[w]
           \/ \E c \in open : /\ chal'[w] = c /\ open' = open \ {c}
                              /\ Registering(w) \/ LoggingIn(w)
<1>1. ASSUME NEW c \in Challenges, Taken(w, c), Registering(w) \/ LoggingIn(w)
      PROVE  \E d \in open : /\ chal'[w] = d /\ open' = open \ {d}
                             /\ Registering(w) \/ LoggingIn(w)
  BY <1>1 DEF Taken, TypeOK, RequestTypes
<1>2. CASE Registering(w)
  <2>1. pc'[w] \in {"delete", "create"}
    <3>1. pc'[w] \notin {"kid", "byHandle", "userHandle", "creds", "signCount"}
      <4>1. Done(w) => pc'[w] = "idle"
        BY DEF Done, TypeOK, RequestTypes
      <4> QED
        BY <1>2, <4>1 DEF Registering, BeginRegistration, FindHandle, SaveUser, FinishRegistration,
           RegistrationExpired, DeleteOld, CreateCredential, Goto, TypeOK, RequestTypes
    <3> QED
      BY <3>1 DEF TakenSteps
  <2>2. CASE \E c \in Challenges : FinishRegistration(w, c)
    BY <1>1, <1>2, <2>2 DEF FinishRegistration
  <2>3. CASE DeleteOld(w)
    BY <2>3 DEF DeleteOld, Goto, TakenSteps
  <2> QED
    BY <1>2, <2>1, <2>2, <2>3, Entered
<1>3. CASE LoggingIn(w)
  <2>1. CASE \E c \in Challenges : FinishLogin(w, c)
    BY <1>1, <1>3, <2>1 DEF FinishLogin
  <2>2. CASE Done(w)
    BY <2>2 DEF Done, TypeOK, RequestTypes, TakenSteps
  <2>3. CASE FindByKID(w) \/ FindUserByHandle(w) \/ FindUserHandle(w) \/ Validate(w)
    BY <2>2, <2>3 DEF FindByKID, FindUserByHandle, FindUserHandle, Validate, TakenSteps
  <2> QED
    BY <1>3, <2>1, <2>2, <2>3 DEF LoggingIn, UpdateSignCount
<1> QED
  BY <1>2, <1>3, Moved

LEMMA RowsDeleted ==
    ASSUME TypeOK, [Next]_vars, NEW k \in deleted', k \notin deleted
    PROVE  \E w \in Workers :
             /\ DeleteOld(w) /\ who[w] \in Users
             /\ k \in creds[who[w]] /\ k \notin creds'[who[w]]
             /\ \A u \in Users \ {who[w]} : creds'[u] = creds[u]
<1>1. deleted' # deleted
  OBVIOUS
<1>2. PICK w \in Workers : Registering(w) \/ LoggingIn(w)
  BY <1>1 DEF Next, Browsing, MakeKey, Sign, BeginLogin, BeginLoginDiscoverable, vars, history
<1>3. DeleteOld(w)
  BY <1>1, <1>2
  DEF Registering, BeginRegistration, FindHandle, SaveUser, FinishRegistration, RegistrationExpired,
      CreateCredential, LoggingIn, FinishLogin, FindByKID, FindUserByHandle, FindUserHandle, Validate,
      UpdateSignCount, history
<1>4. who[w] \in Users
  BY <1>3 DEF DeleteOld, TypeOK, RequestTypes, OwnerSteps
<1>5. \A u \in Users \ {who[w]} : creds'[u] = creds[u]
  BY <1>3 DEF DeleteOld, TypeOK, TableTypes
<1> QED
  BY <1>3, <1>4, <1>5 DEF DeleteOld

(***************************************************************************)
(* The ceremony a request holds has an answer, so it was drawn.              *)
(***************************************************************************)
LEMMA HeldAnswered ==
    ASSUME TypeOK, Drawn, NEW w \in Workers, pc[w] \in TakenSteps
    PROVE  /\ chal[w] \in Challenges /\ answer[chal[w]] \in Keys /\ answer[chal[w]] # None
           /\ kind[chal[w]] # "none"
BY NoneAssumption DEF TypeOK, RequestTypes, KeyOf, Drawn

LEMMA InitRedeemed == Init => Redeemed
BY NoneAssumption
DEF Init, Redeemed, TakenOnce, AnswersApart, Registered, PendingIsNew, Pending, InHands, DeletedMade,
    DeletedForGood, TakenSteps

LEMMA RedeemedKept == ASSUME TypeOK, Owned, Redeemed, [Next]_vars PROVE Redeemed'
<1>1. CeremoniesLast /\ DevicesLast
  BY CeremoniesStay, NextLasts
<1>2. Drawn /\ StoredOwned /\ AnswersOwned /\ Registrars
  BY DEF Owned
<1>3. TakenOnce'
  <2>1. ASSUME NEW w \in Workers, pc'[w] \in TakenSteps PROVE chal'[w] \notin open'
    <3>1. CASE pc[w] \in TakenSteps /\ chal'[w] = chal[w]
      BY <1>1, <1>2, <3>1, HeldAnswered DEF Redeemed, TakenOnce, CeremoniesLast
    <3>2. CASE \E c \in open : chal'[w] = c /\ open' = open \ {c}
      BY <3>2
    <3> QED
      BY <2>1, <3>1, <3>2, TakesOrKeeps
  <2>2. ASSUME NEW v \in Workers, NEW w \in Workers, pc'[v] \in TakenSteps, pc'[w] \in TakenSteps,
               chal'[v] = chal'[w], v # w
        PROVE  FALSE
    <3>1. ASSUME NEW x \in Workers, NEW y \in Workers, x # y, pc'[x] \in TakenSteps,
                 chal'[x] = chal'[y], NEW c \in open, chal'[y] = c, Registering(y) \/ LoggingIn(y)
          PROVE  FALSE
      <4>1. pc[x] \in TakenSteps /\ chal[x] = c
        BY <3>1, RequestStep DEF OthersWait
      <4> QED
        BY <3>1, <4>1 DEF Redeemed, TakenOnce
    <3>2. CASE \E c \in open : chal'[w] = c /\ (Registering(w) \/ LoggingIn(w))
      BY <2>2, <3>1, <3>2
    <3>3. CASE \E c \in open : chal'[v] = c /\ (Registering(v) \/ LoggingIn(v))
      BY <2>2, <3>1, <3>3
    <3>4. CASE pc[v] \in TakenSteps /\ chal'[v] = chal[v] /\ pc[w] \in TakenSteps /\ chal'[w] = chal[w]
      BY <2>2, <3>4 DEF Redeemed, TakenOnce
    <3> QED
      BY <2>2, <3>2, <3>3, <3>4, TakesOrKeeps
  <2> QED
    BY <2>1, <2>2 DEF TakenOnce
<1>4. AnswersApart'
  <2>1. ASSUME NEW c \in Challenges, Registered(c)', answer[c] = answer'[c] PROVE Registered(c)
    BY <1>1, <1>2, <2>1 DEF Registered, Drawn, CeremoniesLast
  <2>2. ASSUME NEW c \in Challenges, NEW d \in Challenges, Registered(c)', Registered(d)',
               answer'[c] = answer'[d], answer'[c] # answer[c], c # d
        PROVE  FALSE
    <3>1. PICK k \in Keys : answer'[c] = k /\ (MakeKey(c, k) \/ Sign(c, k))
      BY <2>2, AnswerGiven
    <3>2. MakeKey(c, k)
      BY <1>1, <2>2, <3>1 DEF Sign, Registered, CeremoniesLast
    <3>3. answer[d] = k /\ owner[k] = None
      BY <2>2, <3>1, <3>2 DEF MakeKey, TypeOK, DeviceTypes
    <3>4. Registered(d) /\ chUser[d] \in Users
      BY <2>1, <2>2, <3>1, <3>3 DEF Registered, TypeOK, CeremonyTypes
    <3> QED
      BY <1>2, <3>3, <3>4, NoneAssumption DEF AnswersOwned
  <2> SUFFICES ASSUME NEW c \in Challenges, NEW d \in Challenges, Registered(c)', Registered(d)',
                      answer'[c] = answer'[d], c # d
               PROVE  FALSE
    BY DEF AnswersApart
  <2>3. answer[c] = answer'[c] /\ answer[d] = answer'[d]
    BY <2>2
  <2> QED
    BY <2>1, <2>3 DEF Redeemed, AnswersApart
<1>5. ASSUME NEW w \in Workers, CreateCredential(w) PROVE Pending(chal[w]) /\ chal[w] \in Challenges
  <2>1. pc[w] = "create" /\ pc[w] \in TakenSteps
    BY <1>5 DEF CreateCredential, TakenSteps
  <2> QED
    BY <1>2, <2>1, HeldAnswered DEF Registrars, Pending, InHands, Registered
<1>6. ASSUME NEW c \in Challenges, Pending(c)', answer[c] = answer'[c]
      PROVE  Pending(c)
  <2>1. Registered(c) /\ kind[c] # "none"
    BY <1>1, <1>2, <1>6 DEF Pending, Registered, Drawn, CeremoniesLast
  <2>2. CASE c \in open'
    BY <1>1, <2>1, <2>2 DEF Pending, CeremoniesLast
  <2>3. ASSUME NEW w \in Workers, pc'[w] \in TakenSteps, chal'[w] = c PROVE Pending(c)
    BY <2>1, <2>3, TakesOrKeeps DEF Pending, InHands
  <2> QED
    BY <1>6, <2>2, <2>3 DEF Pending, InHands
<1>7. PendingIsNew'
  <2> SUFFICES ASSUME NEW c \in Challenges, Pending(c)' PROVE answer'[c] \notin Stored' \cup deleted'
    BY DEF PendingIsNew
  <2>1. CASE answer[c] = answer'[c]
    <3>1. Pending(c) /\ Registered(c) /\ answer[c] \notin Stored \cup deleted
      BY <1>6, <2>1 DEF Redeemed, PendingIsNew, Pending
    <3>2. answer[c] \notin deleted'
      BY <3>1, RowsDeleted DEF Stored
    <3>3. ASSUME NEW u \in Users, answer[c] \in creds'[u] PROVE FALSE
      <4>1. PICK w \in Workers : CreateCredential(w) /\ answer[c] = KeyOf(w)
        BY <3>1, <3>3, RowsAdded DEF Stored
      <4>2. chal[w] = c /\ pc[w] \in TakenSteps
        BY <1>5, <3>1, <4>1 DEF Redeemed, AnswersApart, Pending, KeyOf, CreateCredential, TakenSteps
      <4>3. c \notin open /\ c \notin open'
        BY <1>2, <4>1, <4>2, HeldAnswered DEF Redeemed, TakenOnce, CreateCredential, ceremony
      <4>4. ASSUME NEW v \in Workers, pc'[v] \in TakenSteps, chal'[v] = c PROVE FALSE
        <5>1. pc[v] \in TakenSteps /\ chal[v] = c
          BY <4>3, <4>4, TakesOrKeeps
        <5>2. v = w
          BY <4>2, <5>1 DEF Redeemed, TakenOnce
        <5> QED
          BY <4>1, <4>4, <5>2 DEF CreateCredential, Done, TakenSteps, TypeOK, RequestTypes
      <4> QED
        BY <4>3, <4>4 DEF Pending, InHands
    <3> QED
      BY <2>1, <3>2, <3>3 DEF Stored
  <2>2. CASE answer[c] # answer'[c]
    <3>1. PICK k \in Keys : answer'[c] = k /\ (MakeKey(c, k) \/ Sign(c, k))
      BY <2>2, AnswerGiven
    <3>2. MakeKey(c, k)
      BY <1>1, <2>2, <3>1 DEF Sign, Pending, Registered, CeremoniesLast
    <3>3. owner[k] = None /\ UNCHANGED <<creds, deleted>>
      BY <3>2 DEF MakeKey, tables, history
    <3>4. k \notin Stored \cup deleted
      BY <1>2, <3>3, NoneAssumption DEF StoredOwned, Stored, Redeemed, DeletedMade
    <3> QED
      BY <3>1, <3>3, <3>4 DEF Stored
  <2> QED
    BY <2>1, <2>2
<1>8. DeletedMade'
  <2> SUFFICES ASSUME NEW k \in deleted' PROVE owner'[k] # None
    BY DEF DeletedMade
  <2>1. CASE k \in deleted
    BY <1>1, <2>1 DEF Redeemed, DeletedMade, DevicesLast, TypeOK, HistoryTypes
  <2>2. CASE k \notin deleted
    <3>1. PICK w \in Workers : who[w] \in Users /\ k \in creds[who[w]]
      BY <2>2, RowsDeleted
    <3>2. owner[k] # None /\ k \in Keys
      BY <1>2, <3>1, NoneAssumption DEF StoredOwned, TypeOK, TableTypes
    <3> QED
      BY <1>1, <3>2 DEF DevicesLast
  <2> QED
    BY <2>1, <2>2
<1>9. DeletedForGood'
  <2> SUFFICES ASSUME NEW k \in deleted', NEW u \in Users, k \in creds'[u] PROVE FALSE
    BY DEF DeletedForGood, Stored
  <2>1. CASE k \in deleted
    <3>1. k \notin creds[u]
      BY <2>1 DEF Redeemed, DeletedForGood, Stored
    <3>2. PICK w \in Workers : CreateCredential(w) /\ k = KeyOf(w)
      BY <3>1, RowsAdded
    <3> QED
      BY <1>5, <2>1, <3>2 DEF Redeemed, PendingIsNew, KeyOf
  <2>2. CASE k \notin deleted
    <3>1. PICK w \in Workers :
            /\ who[w] \in Users /\ k \in creds[who[w]] /\ k \notin creds'[who[w]]
            /\ \A v \in Users \ {who[w]} : creds'[v] = creds[v]
      BY <2>2, RowsDeleted
    <3>2. u # who[w] /\ k \in creds[u]
      BY <3>1
    <3> QED
      BY <1>2, <3>1, <3>2 DEF StoredOwned
  <2> QED
    BY <2>1, <2>2
<1> QED
  BY <1>3, <1>4, <1>7, <1>8, <1>9 DEF Redeemed

-----------------------------------------------------------------------------
(* One handle for a user who registers alone. *)

LEMMA InitOneHandle == Init => OneHandle
BY NoneAssumption DEF Init, OneHandle, Calm, BeginSteps

(***************************************************************************)
(* While queries answer, a user's handle changes only when he has none.      *)
(***************************************************************************)
LEMMA HandleStays ==
    ASSUME TypeOK, OneHandle, [Next]_vars, NEW u \in Users, Calm(u), handle'[u] # handle[u]
    PROVE  /\ handle[u] = None
           /\ \E w \in Workers : SaveUser(w) /\ who[w] = u /\ pc'[w] = "idle"
<1>1. handle' # handle
  OBVIOUS
<1>2. PICK w \in Workers : Registering(w) \/ LoggingIn(w)
  BY <1>1 DEF Next, Browsing, MakeKey, Sign, BeginLogin, BeginLoginDiscoverable, vars, tables
<1>3. SaveUser(w)
  BY <1>1, <1>2
  DEF Registering, BeginRegistration, FindHandle, FinishRegistration, RegistrationExpired,
      DeleteOld, CreateCredential, LoggingIn, FinishLogin, FindByKID, FindUserByHandle,
      FindUserHandle, Validate, UpdateSignCount, tables
<1>4. who[w] = u
  BY <1>3 DEF SaveUser, TypeOK, TableTypes
<1>5. pc[w] = "saveUser" /\ pc'[w] = "idle"
  BY <1>3 DEF SaveUser, Done, TypeOK, RequestTypes
<1> QED
  BY <1>3, <1>4, <1>5 DEF OneHandle

\* Calm in the next state, of a user named in either.
CalmAfter(u) == faults' = 0 /\ u \in Users \ overlapped'

LEMMA OneHandleKept == ASSUME TypeOK, TypeOK', OneHandle, [Next]_vars PROVE OneHandle'
<1>1. CeremoniesLast /\ DevicesLast /\ HistoryLasts
  BY CeremoniesStay, NextLasts
<1>2. \A u : CalmAfter(u) => Calm(u)
  BY <1>1 DEF Calm, CalmAfter, HistoryLasts
<1>3. ASSUME Failed PROVE \A u : ~CalmAfter(u)
  BY <1>3 DEF Failed, Calm, CalmAfter, TypeOK, HistoryTypes
<1>4. ASSUME NEW w \in Workers, pc'[w] = "saveUser", CalmAfter(who'[w]) PROVE handle'[who'[w]] = None
  <2>1. CASE FindHandle(w)
    <3>1. Answered /\ handle[who[w]] = None /\ UNCHANGED <<handle, who>>
      <4>1. ~Done(w)
        BY <1>4 DEF Done, TypeOK, RequestTypes
      <4> QED
        BY <1>3, <1>4, <2>1, <4>1 DEF FindHandle, Goto, tables
    <3> QED
      BY <3>1
  <2>2. CASE pc[w] = "saveUser" /\ who'[w] = who[w]
    <3>1. handle[who[w]] = None /\ who[w] \in Users /\ Calm(who[w])
      BY <1>2, <1>4, <2>2 DEF OneHandle, Calm, CalmAfter
    <3>2. ASSUME handle'[who[w]] # handle[who[w]] PROVE FALSE
      <4>1. PICK v \in Workers : SaveUser(v) /\ who[v] = who[w] /\ pc'[v] = "idle"
        BY <3>1, <3>2, HandleStays
      <4>2. v = w
        BY <2>2, <3>1, <4>1 DEF OneHandle, SaveUser, BeginSteps
      <4> QED
        BY <1>4, <4>1, <4>2
    <3> QED
      BY <2>2, <3>1, <3>2
  <2> QED
    BY <1>4, <2>1, <2>2, Moved, Entered
<1>5. ASSUME NEW v \in Workers, NEW w \in Workers, pc'[v] \in BeginSteps, pc'[w] \in BeginSteps,
             who'[v] = who'[w], CalmAfter(who'[v]), v # w
      PROVE  FALSE
  <2>1. ASSUME NEW x \in Workers, NEW y \in Workers, x # y, pc'[x] \in BeginSteps,
               who'[x] = who'[y], CalmAfter(who'[y]), NEW u \in Users, BeginRegistration(y, u)
        PROVE  FALSE
    <3>1. pc[x] \in BeginSteps /\ who[x] = u
      BY <2>1 DEF BeginRegistration, TypeOK, RequestTypes
    <3>2. Beginning(u) /\ who'[y] = u
      BY <2>1, <3>1 DEF Beginning, BeginRegistration, TypeOK, RequestTypes
    <3> QED
      BY <2>1, <3>2 DEF BeginRegistration, Calm, CalmAfter
  <2>2. ASSUME NEW x \in Workers, pc'[x] \in BeginSteps, ~\E u \in Users : BeginRegistration(x, u)
        PROVE  pc[x] \in BeginSteps /\ who'[x] = who[x]
    <3>1. CASE FindHandle(x)
      <4>1. ~Done(x)
        BY <2>2 DEF Done, BeginSteps, TypeOK, RequestTypes
      <4> QED
        BY <3>1, <4>1 DEF FindHandle, Goto, BeginSteps
    <3> QED
      BY <2>2, <3>1, Moved, Entered DEF BeginSteps
  <2>3. (~\E u \in Users : BeginRegistration(v, u)) /\ (~\E u \in Users : BeginRegistration(w, u))
    BY <1>5, <2>1
  <2>4. pc[v] \in BeginSteps /\ pc[w] \in BeginSteps /\ who[v] = who[w] /\ Calm(who[v])
    BY <1>2, <1>5, <2>2, <2>3
  <2> QED
    BY <1>5, <2>4 DEF OneHandle
<1>6. \A u \in Users : CalmAfter(u) /\ handle[u] # None => handle'[u] = handle[u]
  BY <1>2, HandleStays
<1>7. ASSUME NEW c \in Challenges, kind'[c] = "register", CalmAfter(chUser'[c])
      PROVE  chHandle'[c] = handle'[chUser'[c]] /\ handle'[chUser'[c]] # None
  <2>1. CASE kind[c] # "none"
    <3>1. kind[c] = "register" /\ chUser'[c] = chUser[c] /\ chHandle'[c] = chHandle[c]
      BY <1>1, <1>7, <2>1 DEF CeremoniesLast
    <3>2. Calm(chUser[c]) /\ chUser[c] \in Users
      BY <1>2, <1>7, <3>1 DEF Calm, CalmAfter
    <3>3. chHandle[c] = handle[chUser[c]] /\ handle[chUser[c]] # None
      BY <3>1, <3>2 DEF OneHandle
    <3> QED
      BY <1>6, <1>7, <3>1, <3>2, <3>3
  <2>2. CASE kind[c] = "none"
    <3>1. PICK w \in Workers : FindHandle(w) \/ SaveUser(w)
      <4>1. kind' # kind
        BY <1>7, <2>2
      <4>2. ASSUME NEW purpose, NEW u, NEW h, NEW keys, StoreSession(purpose, u, h, keys),
                   purpose # "register"
            PROVE  FALSE
        BY <1>7, <2>2, <4>2, StoreSessionLasts DEF TypeOK
      <4>3. ~Browsing
        BY <4>1, <4>2 DEF Browsing, MakeKey, Sign, BeginLogin, BeginLoginDiscoverable, ceremony
      <4> QED
        BY <4>1, <4>3
        DEF Next, vars, ceremony, Registering, BeginRegistration, FinishRegistration, Taken,
            RegistrationExpired, DeleteOld, CreateCredential, LoggingIn, FinishLogin, FindByKID,
            FindUserByHandle, FindUserHandle, Validate, UpdateSignCount
    <3>2. who[w] \in Users
      BY <3>1 DEF FindHandle, SaveUser, TypeOK, RequestTypes, OwnerSteps, BeginSteps
    <3>3. kind' # kind
      BY <1>7, <2>2
    <3>4. CASE FindHandle(w)
      <4>1. StoreSession("register", who[w], handle[who[w]], {}) /\ handle[who[w]] # None
            /\ UNCHANGED handle
        BY <3>3, <3>4 DEF FindHandle, ceremony, tables
      <4>2. chUser'[c] = who[w] /\ chHandle'[c] = handle[who[w]]
        BY <1>7, <2>2, <4>1, StoreSessionLasts DEF TypeOK
      <4> QED
        BY <4>1, <4>2
    <3>5. CASE SaveUser(w)
      <4>1. PICK h \in Handles : /\ StoreSession("register", who[w], h, {})
                                 /\ handle' = [handle EXCEPT ![who[w]] = h]
        BY <3>3, <3>5 DEF SaveUser, ceremony
      <4>2. chUser'[c] = who[w] /\ chHandle'[c] = h
        BY <1>7, <2>2, <4>1, StoreSessionLasts DEF TypeOK
      <4> QED
        BY <3>2, <4>1, <4>2, NoneAssumption DEF TypeOK, TableTypes
    <3> QED
      BY <3>1, <3>4, <3>5
  <2> QED
    BY <2>1, <2>2
<1>8. ASSUME NEW k \in Keys, CalmAfter(owner'[k])
      PROVE  keyHandle'[k] = handle'[owner'[k]] /\ handle'[owner'[k]] # None
  <2>1. CASE owner[k] # None
    <3>1. owner'[k] = owner[k] /\ keyHandle'[k] = keyHandle[k]
      BY <1>1, <2>1 DEF DevicesLast
    <3>2. Calm(owner[k]) /\ owner[k] \in Users
      BY <1>2, <1>8, <3>1 DEF Calm, CalmAfter
    <3>3. keyHandle[k] = handle[owner[k]] /\ handle[owner[k]] # None
      BY <3>2 DEF OneHandle
    <3> QED
      BY <1>6, <1>8, <3>1, <3>2, <3>3
  <2>2. CASE owner[k] = None
    <3>1. owner'[k] # owner[k]
      BY <1>8, <2>2, NoneAssumption DEF Calm, CalmAfter
    <3>2. PICK c \in Challenges : MakeKey(c, k)
      <4>1. ~UNCHANGED devices
        BY <3>1 DEF devices
      <4>2. PICK c \in Challenges, j \in Keys : MakeKey(c, j) \/ Sign(c, j)
        BY <4>1, RequestStep DEF Next, Browsing, BeginLogin, BeginLoginDiscoverable, vars
      <4>3. MakeKey(c, j)
        BY <3>1, <4>2 DEF Sign
      <4>4. j = k
        BY <3>1, <4>3 DEF MakeKey, TypeOK, DeviceTypes
      <4> QED
        BY <4>3, <4>4
    <3>3. owner'[k] = chUser[c] /\ keyHandle'[k] = chHandle[c] /\ kind[c] = "register"
          /\ UNCHANGED handle
      BY <3>2 DEF MakeKey, TypeOK, DeviceTypes, tables
    <3> QED
      BY <1>2, <1>8, <3>3 DEF OneHandle
  <2> QED
    BY <2>1, <2>2
<1> QED
  BY <1>4, <1>5, <1>7, <1>8 DEF OneHandle, Calm, CalmAfter

-----------------------------------------------------------------------------
(* A key is left. *)

LEMMA InitKeyLeft == Init => KeyLeft
BY DEF Init, KeyLeft

LEMMA HasKeyStays ==
    ASSUME TypeOK, [Next]_vars, faults' = 0, NEW u \in Users, HasKey(u)
    PROVE  HasKey(u)'
<1>1. ASSUME NEW k \in creds[u], creds'[u] = {} PROVE HasKey(u)'
  <2>1. PICK w \in Workers : Registering(w) \/ LoggingIn(w)
    <3>1. creds' # creds
      BY <1>1
    <3> QED
      BY <3>1 DEF Next, Browsing, MakeKey, Sign, BeginLogin, BeginLoginDiscoverable, vars, tables
  <2>2. ~CreateCredential(w)
    BY <1>1 DEF CreateCredential, Inserted, TypeOK, TableTypes
  <2>3. DeleteOld(w)
    BY <1>1, <2>1, <2>2
    DEF Registering, BeginRegistration, FindHandle, SaveUser, FinishRegistration, RegistrationExpired,
        LoggingIn, FinishLogin, FindByKID, FindUserByHandle, FindUserHandle, Validate, UpdateSignCount,
        tables
  <2>4. who[w] = u
    BY <1>1, <2>3 DEF DeleteOld, TypeOK, TableTypes
  <2>5. pc'[w] = "create" /\ who'[w] = u
    BY <2>3, <2>4 DEF DeleteOld, Goto, TypeOK, RequestTypes
  <2> QED
    BY <2>5 DEF HasKey
<1>2. ASSUME NEW w \in Workers, pc[w] = "create", who[w] = u PROVE HasKey(u)'
  <2>1. CASE pc'[w] = pc[w] /\ who'[w] = who[w]
    BY <1>2, <2>1 DEF HasKey
  <2>2. CASE Registering(w) \/ LoggingIn(w)
    <3>1. CreateCredential(w)
      BY <1>2, <2>2
      DEF Registering, BeginRegistration, FindHandle, SaveUser, FinishRegistration, RegistrationExpired,
          DeleteOld, Taken, LoggingIn, FinishLogin, FindByKID, FindUserByHandle, FindUserHandle,
          Validate, UpdateSignCount
    <3>2. ~Failed
      BY DEF Failed, TypeOK, HistoryTypes
    <3> QED
      BY <1>2, <3>1, <3>2 DEF CreateCredential, Inserted, HasKey, TypeOK, TableTypes
  <2> QED
    BY <2>1, <2>2, Moved
<1> QED
  BY <1>1, <1>2 DEF HasKey

LEMMA KeyLeftKept == ASSUME TypeOK, KeyLeft, [Next]_vars PROVE KeyLeft'
<1> SUFFICES ASSUME faults' = 0 PROVE KeyLeft'
  BY DEF KeyLeft
<1>1. /\ \A s \in issued : HasKey(s[1])
      /\ \A w \in Workers : pc[w] = "signCount" => HasKey(who[w])
  BY NextLasts DEF KeyLeft, HistoryLasts
<1>2. ASSUME NEW s \in issued' PROVE HasKey(s[1])'
  <2>1. CASE s \in issued
    BY <1>1, <2>1, HasKeyStays DEF TypeOK, HistoryTypes
  <2>2. CASE s \notin issued
    <3>1. PICK w \in Workers : s = <<who[w], KeyOf(w)>> /\ (CreateCredential(w) \/ UpdateSignCount(w))
      BY <2>2, SessionsAdded
    <3>2. who[w] \in Users
      BY <3>1 DEF CreateCredential, UpdateSignCount, TypeOK, RequestTypes, OwnerSteps
    <3>3. HasKey(who[w])
      BY <1>1, <3>1 DEF CreateCredential, UpdateSignCount, HasKey
    <3>4. PICK u \in Users : u = who[w]
      BY <3>2
    <3>5. HasKey(u)'
      BY <3>3, <3>4, HasKeyStays
    <3> QED
      BY <3>1, <3>4, <3>5
  <2> QED
    BY <2>1, <2>2
<1>3. ASSUME NEW w \in Workers, pc'[w] = "signCount" PROVE HasKey(who[w])'
  <2>1. HasKey(who[w]) /\ who[w] \in Users /\ who'[w] = who[w]
    <3>1. CASE pc[w] = "signCount" /\ who'[w] = who[w]
      BY <1>1, <3>1 DEF TypeOK, RequestTypes, OwnerSteps
    <3>2. CASE Validate(w)
      <4>1. ~Done(w)
        BY <1>3 DEF Done, TypeOK, RequestTypes
      <4> QED
        BY <3>2, <4>1 DEF Validate, Accepts, HasKey, TypeOK, RequestTypes, OwnerSteps
    <3> QED
      BY <1>3, <3>1, <3>2, Moved, Entered
  <2>2. PICK u \in Users : u = who[w]
    BY <2>1
  <2>3. HasKey(u)'
    BY <2>1, <2>2, HasKeyStays
  <2> QED
    BY <2>1, <2>2, <2>3 DEF HasKey
<1> QED
  BY <1>2, <1>3 DEF KeyLeft, HasKey

-----------------------------------------------------------------------------
(* Counts. *)

LEMMA InitCounts == Init => CountsBehind
BY DEF Init, CountsBehind, CountNotAhead, Stored

LEMMA CountsKept == ASSUME TypeOK, TypeOK', Drawn, CountsBehind, [Next]_vars PROVE CountsBehind'
<1>1. DevicesLast
  BY NextLasts
<1>2. \A k \in Keys : signed[k] \in Nat /\ signed'[k] \in Nat /\ signed'[k] >= signed[k]
  BY <1>1, BoundAssumption DEF DevicesLast, TypeOK, DeviceTypes, Counts
<1>3. CountNotAhead'
  <2> SUFFICES ASSUME NEW u \in Users, NEW k \in creds'[u] PROVE count'[k] <= signed'[k]
    BY DEF CountNotAhead, Stored
  <2>1. k \in Keys /\ count[k] \in Nat /\ count'[k] \in Nat
    BY BoundAssumption DEF TypeOK, TableTypes, Counts
  <2>2. CASE k \in creds[u] /\ count'[k] = count[k]
    <3>1. count[k] <= signed[k]
      BY <2>2 DEF CountsBehind, CountNotAhead, Stored
    <3> QED
      BY <1>2, <2>1, <2>2, <3>1
  <2>3. ASSUME NEW w \in Workers, CreateCredential(w), count'[k] # count[k] \/ k \notin creds[u]
        PROVE  count'[k] <= signed'[k]
    <3>1. Inserted(who[w], KeyOf(w)) /\ KeyOf(w) = k
      BY <2>3 DEF CreateCredential, Inserted, TypeOK, TableTypes
    <3>2. count'[k] = 0
      BY <2>1, <3>1 DEF Inserted, TypeOK, TableTypes
    <3> QED
      BY <1>2, <2>1, <3>2
  <2>4. ASSUME NEW w \in Workers, UpdateSignCount(w), count'[k] # count[k] PROVE count'[k] <= signed'[k]
    <3>1. k = KeyOf(w) /\ count'[k] = NewCount(w)
      BY <2>1, <2>4 DEF UpdateSignCount, TypeOK, TableTypes
    <3>2. pc[w] = "signCount" /\ chal[w] \in Challenges /\ answer[chal[w]] # None
      BY <2>1, <2>4, <3>1, NoneAssumption
      DEF UpdateSignCount, KeyOf, TypeOK, RequestTypes, TakenSteps
    <3>3. asserted[chal[w]] <= signed[k] /\ seen[w] <= signed[k]
      BY <3>1, <3>2 DEF CountsBehind, KeyOf
    <3>4. count'[k] <= signed[k]
      BY <3>1, <3>3 DEF NewCount
    <3> QED
      BY <1>2, <2>1, <3>4
  <2>5. CASE k \notin creds[u]
    BY <2>3, <2>5, RowsAdded
  <2>6. CASE count'[k] # count[k]
    <3>1. count' # count
      BY <2>6
    <3>2. PICK w \in Workers : Registering(w) \/ LoggingIn(w)
      BY <3>1 DEF Next, Browsing, MakeKey, Sign, BeginLogin, BeginLoginDiscoverable, vars, tables
    <3>3. CreateCredential(w) \/ UpdateSignCount(w)
      BY <3>1, <3>2
      DEF Registering, BeginRegistration, FindHandle, SaveUser, FinishRegistration,
          RegistrationExpired, DeleteOld, LoggingIn, FinishLogin, FindByKID, FindUserByHandle,
          FindUserHandle, Validate, tables
    <3> QED
      BY <2>3, <2>4, <2>6, <3>3
  <2> QED
    BY <2>2, <2>5, <2>6
<1>4. ASSUME NEW c \in Challenges
      PROVE  /\ answer'[c] = None => asserted'[c] = 0
             /\ answer'[c] # None => asserted'[c] <= signed'[answer'[c]]
  <2>1. asserted[c] \in Nat
    BY BoundAssumption DEF TypeOK, DeviceTypes, Counts
  <2>2. CASE answer'[c] # answer[c]
    <3>1. PICK k \in Keys : answer'[c] = k /\ (MakeKey(c, k) \/ Sign(c, k))
      BY <2>2, AnswerGiven
    <3>2. CASE MakeKey(c, k)
      <4>1. asserted'[c] = 0
        BY <3>2 DEF MakeKey, CountsBehind
      <4> QED
        BY <1>2, <3>1, <4>1, NoneAssumption
    <3>3. CASE Sign(c, k)
      <4>1. asserted'[c] = signed[k] + 1 /\ signed'[k] = signed[k] + 1
        BY <3>3 DEF Sign, TypeOK, DeviceTypes
      <4> QED
        BY <1>2, <3>1, <4>1, NoneAssumption
    <3> QED
      BY <3>1, <3>2, <3>3
  <2>3. CASE answer'[c] = answer[c]
    <3>1. asserted'[c] = asserted[c]
      <4>1. CASE UNCHANGED asserted
        BY <4>1
      <4>2. ASSUME NEW d \in Challenges, NEW k \in Keys, Sign(d, k) PROVE asserted'[c] = asserted[c]
        <5>1. d # c
          BY <2>3, <4>2, NoneAssumption DEF Sign, TypeOK, DeviceTypes
        <5> QED
          BY <4>2, <5>1 DEF Sign, TypeOK, DeviceTypes
      <4>3. (~\E d \in Challenges, k \in Keys : Sign(d, k)) => UNCHANGED asserted
        BY RequestStep
        DEF Next, Browsing, MakeKey, BeginLogin, BeginLoginDiscoverable, devices, vars
      <4> QED
        BY <4>1, <4>2, <4>3
    <3>2. CASE answer[c] = None
      BY <2>3, <3>1, <3>2 DEF CountsBehind
    <3>3. CASE answer[c] # None
      <4>1. answer[c] \in Keys /\ asserted[c] <= signed[answer[c]]
        BY <3>3 DEF CountsBehind, TypeOK, DeviceTypes
      <4> QED
        BY <1>2, <2>1, <2>3, <3>1, <3>3, <4>1
    <3> QED
      BY <3>2, <3>3
  <2> QED
    BY <2>2, <2>3
<1>5. ASSUME NEW w \in Workers, pc'[w] = "signCount" PROVE seen'[w] <= signed'[answer'[chal'[w]]]
  <2>1. CASE pc[w] = "signCount" /\ chal'[w] = chal[w] /\ seen'[w] = seen[w]
    <3>1. pc[w] \in TakenSteps
      BY <2>1 DEF TakenSteps
    <3>2. chal[w] \in Challenges /\ answer'[chal[w]] = KeyOf(w) /\ KeyOf(w) \in Keys
      BY <1>1, <3>1, HeldAnswered DEF DevicesLast, KeyOf
    <3>3. seen[w] <= signed[KeyOf(w)] /\ seen[w] \in Nat
      BY <2>1, BoundAssumption DEF CountsBehind, TypeOK, RequestTypes, Counts
    <3> QED
      BY <1>2, <2>1, <3>2, <3>3
  <2>2. CASE Validate(w)
    <3>1. ~Done(w)
      BY <1>5 DEF Done, TypeOK, RequestTypes
    <3>2. /\ KeyOf(w) \in creds[who[w]] /\ who[w] \in Users
          /\ seen'[w] = count[KeyOf(w)] /\ UNCHANGED <<chal, answer, signed>>
      BY <2>2, <3>1 DEF Validate, Accepts, devices, TypeOK, RequestTypes, OwnerSteps
    <3> QED
      BY <3>2 DEF CountsBehind, CountNotAhead, Stored, KeyOf
  <2> QED
    BY <1>5, <2>1, <2>2, Moved, Entered
<1> QED
  BY <1>3, <1>4, <1>5 DEF CountsBehind, KeyOf

-----------------------------------------------------------------------------
(* The theorems. *)

IInv == TypeOK /\ Owned /\ Redeemed /\ OneHandle /\ KeyLeft /\ CountsBehind

LEMMA Invariant == Spec => []IInv
<1>1. Init => IInv
  BY InitTypes, InitOwned, InitRedeemed, InitOneHandle, InitKeyLeft, InitCounts DEF IInv
<1>2. IInv /\ [Next]_vars => IInv'
  BY TypesKept, OwnedKept, RedeemedKept, OneHandleKept, KeyLeftKept, CountsKept DEF IInv, Owned
<1> QED
  BY <1>1, <1>2, PTL DEF Spec

(***************************************************************************)
(* The tables, the sessions map and the requests keep their shape; a request *)
(* that took a ceremony has a key in its answer.                            *)
(***************************************************************************)
THEOREM TypeCorrect == Spec => []TypeOK
<1>1. IInv => TypeOK
  BY DEF IInv
<1> QED
  BY <1>1, Invariant, PTL

(***************************************************************************)
(* FinishRegistration and FinishLogin give a session to the user the key was *)
(* made for, whichever lookup named the user (passkey_service.go 241-419).  *)
(***************************************************************************)
THEOREM SessionsToOwners == Spec => []SessionOfOwner
<1>1. IInv => SessionOfOwner
  BY DEF IInv, Owned
<1> QED
  BY <1>1, Invariant, PTL

(***************************************************************************)
(* An answer is redeemed once (takeSession), so a key whose row a newer      *)
(* registration deleted is not stored again.                                *)
(***************************************************************************)
THEOREM DeletedStaysDeleted == Spec => []DeletedForGood
<1>1. IInv => DeletedForGood
  BY DEF IInv, Redeemed
<1> QED
  BY <1>1, Invariant, PTL

(***************************************************************************)
(* While queries answer, the stored keys of a user who registers alone carry *)
(* the handle of his row: a discoverable login finds him.                   *)
(***************************************************************************)
THEOREM KeysMatchTheirHandle == Spec => []KeyMatchesHandle
<1>1. IInv => KeyMatchesHandle
  <2> SUFFICES ASSUME IInv, faults = 0, NEW u \in Users \ overlapped, NEW k \in creds[u]
               PROVE  keyHandle[k] = handle[u]
    BY DEF KeyMatchesHandle
  <2>1. k \in Keys /\ owner[k] = u
    BY DEF IInv, Owned, StoredOwned, TypeOK, TableTypes
  <2> QED
    BY <2>1 DEF IInv, OneHandle, Calm
<1> QED
  BY <1>1, Invariant, PTL

(***************************************************************************)
(* While queries answer, whoever registered has a key, except between the    *)
(* DELETE and the CREATE of a new registration (cred_repo.go SaveCredential). *)
(***************************************************************************)
THEOREM SomeKeyIsLeft == Spec => []RegistrationLeavesAKey
<1>1. IInv => RegistrationLeavesAKey
  BY DEF IInv, KeyLeft, HasKey, RegistrationLeavesAKey
<1> QED
  BY <1>1, Invariant, PTL

(***************************************************************************)
(* No stored count is ahead of its authenticator, so no honest key looks     *)
(* cloned (UpdateSignCount).                                                *)
(***************************************************************************)
THEOREM CountsNeverAhead == Spec => []CountNotAhead
<1>1. IInv => CountNotAhead
  BY DEF IInv, CountsBehind
<1> QED
  BY <1>1, Invariant, PTL

-----------------------------------------------------------------------------
(* Ceremonies are one-time tickets. *)

DrawnOnes == {c \in Challenges : kind[c] # "none"}
HeldOnes == {chal[v] : v \in {x \in Workers : pc[x] \in TakenSteps}}
HeldByOthers(w) == {chal[v] : v \in {x \in Workers \ {w} : pc[x] \in TakenSteps}}
TicketStep == [CeremonyTickets!TicketsNext]_(CeremonyTickets!tickets)

(***************************************************************************)
(* A request that moves leaves what the others hold; what it holds itself no *)
(* other one holds and nobody can take.                                     *)
(***************************************************************************)
LEMMA HeldApart ==
    ASSUME NEW w \in Workers, OthersWait(w)
    PROVE  /\ HeldByOthers(w)' = HeldByOthers(w)
           /\ HeldOnes = HeldByOthers(w) \cup (IF pc[w] \in TakenSteps THEN {chal[w]} ELSE {})
           /\ HeldOnes' = HeldByOthers(w) \cup (IF pc'[w] \in TakenSteps THEN {chal'[w]} ELSE {})
<1>1. HeldByOthers(w)' = HeldByOthers(w)
  BY DEF OthersWait, HeldByOthers
<1>2. HeldOnes = HeldByOthers(w) \cup (IF pc[w] \in TakenSteps THEN {chal[w]} ELSE {})
  BY DEF HeldByOthers, HeldOnes
<1>3. HeldOnes' = HeldByOthers(w)' \cup (IF pc'[w] \in TakenSteps THEN {chal'[w]} ELSE {})
  BY DEF HeldByOthers, HeldOnes
<1> QED
  BY <1>1, <1>2, <1>3

LEMMA HeldOnce ==
    ASSUME TypeOK, TakenOnce, NEW w \in Workers, pc[w] \in TakenSteps
    PROVE  /\ chal[w] \in Challenges /\ chal[w] \in HeldOnes
           /\ chal[w] \notin HeldByOthers(w) /\ chal[w] \notin open
BY DEF TypeOK, RequestTypes, TakenOnce, HeldOnes, HeldByOthers

(***************************************************************************)
(* A request that keeps its ceremony, or has none and takes none, stutters.   *)
(***************************************************************************)
LEMMA NothingHanded == ASSUME UNCHANGED <<kind, open, sessions>>, HeldOnes' = HeldOnes PROVE TicketStep
BY DEF TicketStep, CeremonyTickets!tickets, HeldOnes

LEMMA HoldsOn ==
    ASSUME NEW w \in Workers, OthersWait(w), UNCHANGED <<kind, open, sessions>>,
           \/ pc[w] \in TakenSteps /\ pc'[w] \in TakenSteps /\ chal'[w] = chal[w]
           \/ pc[w] \notin TakenSteps /\ pc'[w] \notin TakenSteps
    PROVE  TicketStep
<1>1. HeldOnes' = HeldOnes
  BY HeldApart
<1> QED
  BY <1>1, NothingHanded

(***************************************************************************)
(* One that answers with an error forgets its ceremony; one that issues a    *)
(* session uses it.                                                         *)
(***************************************************************************)
LEMMA Forgets ==
    ASSUME TypeOK, TakenOnce, NEW w \in Workers, OthersWait(w), UNCHANGED <<kind, open, sessions>>,
           pc[w] \in TakenSteps, pc'[w] \notin TakenSteps
    PROVE  TicketStep
<1>1. PICK c \in Challenges :
        c = chal[w] /\ HeldOnes' = HeldOnes \ {c} /\ c \in HeldOnes /\ c \notin open
  BY HeldApart, HeldOnce
<1>2. CeremonyTickets!Forget({c})
  BY <1>1 DEF CeremonyTickets!Forget, HeldOnes
<1> QED
  BY <1>1, <1>2 DEF TicketStep, CeremonyTickets!TicketsNext, HeldOnes

LEMMA Uses ==
    ASSUME TypeOK, TakenOnce, NEW w \in Workers, OthersWait(w), UNCHANGED <<kind, open>>,
           pc[w] \in TakenSteps, pc'[w] \notin TakenSteps,
           sessions' = [sessions EXCEPT ![chal[w]] = @ + 1]
    PROVE  TicketStep
<1>1. PICK c \in Challenges : c = chal[w] /\ HeldOnes' = HeldOnes \ {c} /\ c \in HeldOnes
  BY HeldApart, HeldOnce
<1>2. CeremonyTickets!Use(c)
  BY <1>1 DEF CeremonyTickets!Use, HeldOnes
<1> QED
  BY <1>1, <1>2 DEF TicketStep, CeremonyTickets!TicketsNext

(***************************************************************************)
(* A begin draws a ceremony, a finish is handed one.                         *)
(***************************************************************************)
LEMMA Draws ==
    ASSUME TypeOK, NEW purpose \in Kinds \ {"none"}, NEW u, NEW h, NEW keys,
           StoreSession(purpose, u, h, keys), UNCHANGED sessions, HeldOnes' = HeldOnes
    PROVE  TicketStep
<1>1. PICK c \in Challenges :
        /\ kind[c] = "none" /\ kind'[c] = purpose /\ open' = open \cup {c}
        /\ \A d \in Challenges \ {c} : kind'[d] = kind[d]
  BY StoreSessionLasts DEF TypeOK
<1>2. c \notin DrawnOnes /\ DrawnOnes' = DrawnOnes \cup {c}
  BY <1>1 DEF DrawnOnes
<1>3. CeremonyTickets!Draw(c)
  BY <1>1, <1>2 DEF CeremonyTickets!Draw, HeldOnes, DrawnOnes
<1> QED
  BY <1>3 DEF TicketStep, CeremonyTickets!TicketsNext

LEMMA Hands ==
    ASSUME TypeOK, NEW w \in Workers, OthersWait(w), NEW c \in Challenges, Taken(w, c),
           pc'[w] \in TakenSteps, UNCHANGED sessions
    PROVE  TicketStep
<1>1. /\ pc[w] \notin TakenSteps /\ chal'[w] = c
      /\ c \in open /\ open' = open \ {c} /\ UNCHANGED kind
  BY DEF Taken, TakenSteps, TypeOK, RequestTypes
<1>2. HeldOnes' = HeldOnes \cup {c}
  BY <1>1, HeldApart
<1>3. CeremonyTickets!Hand(c)
  BY <1>1, <1>2 DEF CeremonyTickets!Hand, HeldOnes
<1> QED
  BY <1>3 DEF TicketStep, CeremonyTickets!TicketsNext

LEMMA RegisteringTickets ==
    ASSUME TypeOK, TakenOnce, NEW w \in Workers, Registering(w) PROVE TicketStep
<1>1. OthersWait(w)
  BY RequestStep
<1>2. Done(w) => pc'[w] \notin TakenSteps
  BY DEF Done, TakenSteps, TypeOK, RequestTypes
<1>3. ASSUME NEW u \in Users, BeginRegistration(w, u) PROVE TicketStep
  <2>1. pc[w] \notin TakenSteps /\ pc'[w] \notin TakenSteps /\ UNCHANGED <<kind, open, sessions>>
    BY <1>3 DEF BeginRegistration, ceremony, TakenSteps, TypeOK, RequestTypes
  <2> QED
    BY <1>1, <2>1, HoldsOn
<1>4. CASE FindHandle(w) \/ SaveUser(w)
  <2>1. pc[w] \notin TakenSteps /\ pc'[w] \notin TakenSteps /\ UNCHANGED sessions
    BY <1>2, <1>4 DEF FindHandle, SaveUser, Goto, TakenSteps, TypeOK, RequestTypes
  <2>2. CASE UNCHANGED ceremony
    BY <1>1, <2>1, <2>2, HoldsOn DEF ceremony
  <2>3. ASSUME NEW h, StoreSession("register", who[w], h, {}) PROVE TicketStep
    <3>1. HeldOnes' = HeldOnes
      BY <1>1, <2>1, HeldApart
    <3>2. "register" \in Kinds \ {"none"}
      BY DEF Kinds
    <3> QED
      BY <2>1, <2>3, <3>1, <3>2, Draws
  <2> QED
    BY <1>4, <2>2, <2>3 DEF FindHandle, SaveUser
<1>5. ASSUME NEW c \in Challenges, FinishRegistration(w, c) PROVE TicketStep
  <2>1. Taken(w, c) /\ pc'[w] \in TakenSteps /\ UNCHANGED sessions
    BY <1>5 DEF FinishRegistration, history, TakenSteps, TypeOK, RequestTypes
  <2> QED
    BY <1>1, <2>1, Hands
<1>6. CASE RegistrationExpired(w)
  <2>1. pc[w] \in TakenSteps /\ pc'[w] \notin TakenSteps /\ UNCHANGED <<kind, open, sessions>>
    BY <1>2, <1>6 DEF RegistrationExpired, ceremony, history, TakenSteps
  <2> QED
    BY <1>1, <2>1, Forgets
<1>7. CASE DeleteOld(w)
  <2>1. pc[w] \in TakenSteps /\ pc'[w] \in TakenSteps /\ chal'[w] = chal[w]
        /\ UNCHANGED <<kind, open, sessions>>
    BY <1>7 DEF DeleteOld, Goto, ceremony, TakenSteps, TypeOK, RequestTypes
  <2> QED
    BY <1>1, <2>1, HoldsOn
<1>8. CASE CreateCredential(w)
  <2>1. pc[w] \in TakenSteps /\ pc'[w] \notin TakenSteps /\ UNCHANGED <<kind, open>>
    BY <1>2, <1>8 DEF CreateCredential, ceremony, TakenSteps
  <2>2. UNCHANGED sessions \/ sessions' = [sessions EXCEPT ![chal[w]] = @ + 1]
    BY <1>8 DEF CreateCredential
  <2> QED
    BY <1>1, <2>1, <2>2, Forgets, Uses
<1> QED
  BY <1>3, <1>4, <1>5, <1>6, <1>7, <1>8 DEF Registering

LEMMA LoggingInTickets ==
    ASSUME TypeOK, TakenOnce, NEW w \in Workers, LoggingIn(w) PROVE TicketStep
<1>1. OthersWait(w)
  BY RequestStep
<1>2. Done(w) => pc'[w] \notin TakenSteps
  BY DEF Done, TakenSteps, TypeOK, RequestTypes
<1>3. ASSUME NEW c \in Challenges, FinishLogin(w, c) PROVE TicketStep
  <2>1. Taken(w, c) /\ pc'[w] \in TakenSteps /\ UNCHANGED sessions
    BY <1>3 DEF FinishLogin, history, TakenSteps, TypeOK, RequestTypes
  <2> QED
    BY <1>1, <2>1, Hands
<1>4. CASE FindByKID(w) \/ FindUserByHandle(w) \/ FindUserHandle(w) \/ Validate(w)
  <2>1. pc[w] \in TakenSteps /\ UNCHANGED <<kind, open, sessions>>
    BY <1>4 DEF FindByKID, FindUserByHandle, FindUserHandle, Validate, ceremony, TakenSteps
  <2>2. CASE Done(w)
    BY <1>1, <1>2, <2>1, <2>2, Forgets
  <2>3. CASE ~Done(w)
    <3>1. pc'[w] \in TakenSteps /\ chal'[w] = chal[w]
      BY <1>4, <2>3
      DEF FindByKID, FindUserByHandle, FindUserHandle, Validate, TakenSteps, TypeOK, RequestTypes
    <3> QED
      BY <1>1, <2>1, <3>1, HoldsOn
  <2> QED
    BY <2>2, <2>3
<1>5. CASE UpdateSignCount(w)
  <2>1. pc[w] \in TakenSteps /\ pc'[w] \notin TakenSteps /\ UNCHANGED <<kind, open>>
        /\ sessions' = [sessions EXCEPT ![chal[w]] = @ + 1]
    BY <1>2, <1>5 DEF UpdateSignCount, ceremony, TakenSteps
  <2> QED
    BY <1>1, <2>1, Uses
<1> QED
  BY <1>3, <1>4, <1>5 DEF LoggingIn

LEMMA BrowsingTickets == ASSUME TypeOK, Browsing PROVE TicketStep
<1>1. UNCHANGED <<chal, pc, sessions>>
  BY DEF Browsing, MakeKey, Sign, BeginLogin, BeginLoginDiscoverable, request, history
<1>2. HeldOnes' = HeldOnes
  BY <1>1 DEF HeldOnes
<1>3. CASE UNCHANGED ceremony
  BY <1>1, <1>2, <1>3, NothingHanded DEF ceremony
<1>4. ASSUME NEW purpose \in Kinds \ {"none"}, NEW u, NEW h, NEW keys, StoreSession(purpose, u, h, keys)
      PROVE  TicketStep
  BY <1>1, <1>2, <1>4, Draws
<1>5. "login" \in Kinds \ {"none"} /\ "discover" \in Kinds \ {"none"}
  BY DEF Kinds
<1> QED
  BY <1>3, <1>4, <1>5 DEF Browsing, MakeKey, Sign, BeginLogin, BeginLoginDiscoverable

LEMMA TicketSteps == ASSUME IInv, [Next]_vars PROVE TicketStep
<1>1. TypeOK /\ TakenOnce
  BY DEF IInv, Redeemed
<1>2. CASE UNCHANGED vars
  <2>1. UNCHANGED <<kind, open, sessions, chal, pc>>
    BY <1>2 DEF vars, ceremony, request, history
  <2>2. HeldOnes' = HeldOnes
    BY <2>1 DEF HeldOnes
  <2> QED
    BY <2>1, <2>2, NothingHanded
<1> QED
  BY <1>1, <1>2, RegisteringTickets, LoggingInTickets, BrowsingTickets DEF Next

(***************************************************************************)
(* A challenge is drawn once, handed to one finish and good for one session, *)
(* and one whose finish failed for none (passkey_service.go takeSession,     *)
(* FinishRegistration, FinishLogin): the ceremonies implement Tickets.       *)
(***************************************************************************)
THEOREM CeremoniesAreTickets == Spec => KeepsTickets
<1>1. Init => CeremonyTickets!TicketsInit
  BY DEF Init, CeremonyTickets!TicketsInit, TakenSteps
<1>2. IInv /\ [Next]_vars => [CeremonyTickets!TicketsNext]_(CeremonyTickets!tickets)
  BY TicketSteps DEF TicketStep
<1> QED
  BY <1>1, <1>2, Invariant, PTL DEF Spec, KeepsTickets, CeremonyTickets!TicketsSpec

(***************************************************************************)
(* What the tickets are for: a ceremony that was not drawn, is open or is    *)
(* held was good for no session yet.                                        *)
(***************************************************************************)
OneSessionPerCeremony == \A c \in Challenges : sessions[c] <= 1
Unspent(c) == c \notin DrawnOnes \/ c \in open \cup HeldOnes
SpentOnce ==
    /\ sessions \in [Challenges -> Nat]
    /\ open \cup HeldOnes \subseteq DrawnOnes /\ open \cap HeldOnes = {}
    /\ \A c \in Challenges : sessions[c] <= 1 /\ (Unspent(c) => sessions[c] = 0)

LEMMA SpentStep == ASSUME SpentOnce, TicketStep PROVE SpentOnce'
<1> USE DEF SpentOnce, Unspent
<1>1. ASSUME NEW c \in Challenges, CeremonyTickets!Draw(c) PROVE SpentOnce'
  <2>1. /\ c \notin DrawnOnes /\ DrawnOnes' = DrawnOnes \cup {c} /\ open' = open \cup {c}
        /\ HeldOnes' = HeldOnes /\ UNCHANGED sessions
    BY <1>1 DEF CeremonyTickets!Draw, DrawnOnes, HeldOnes
  <2> QED
    BY <2>1
<1>2. ASSUME NEW c \in Challenges, CeremonyTickets!Hand(c) PROVE SpentOnce'
  <2>1. /\ c \in open /\ open' = open \ {c} /\ HeldOnes' = HeldOnes \cup {c}
        /\ DrawnOnes' = DrawnOnes /\ UNCHANGED sessions
    BY <1>2 DEF CeremonyTickets!Hand, DrawnOnes, HeldOnes
  <2> QED
    BY <2>1
<1>3. ASSUME NEW c \in Challenges, CeremonyTickets!Use(c) PROVE SpentOnce'
  <2>1. /\ c \in HeldOnes /\ HeldOnes' = HeldOnes \ {c} /\ sessions' = [sessions EXCEPT ![c] = @ + 1]
        /\ DrawnOnes' = DrawnOnes /\ UNCHANGED open
    BY <1>3 DEF CeremonyTickets!Use, DrawnOnes, HeldOnes
  <2> QED
    BY <2>1
<1>4. ASSUME NEW gone, CeremonyTickets!Forget(gone) PROVE SpentOnce'
  <2>1. /\ open' = open \ gone /\ HeldOnes' = HeldOnes \ gone
        /\ DrawnOnes' = DrawnOnes /\ UNCHANGED sessions
    BY <1>4 DEF CeremonyTickets!Forget, DrawnOnes, HeldOnes
  <2> QED
    BY <2>1
<1>5. CASE UNCHANGED CeremonyTickets!tickets
  <2>1. DrawnOnes' = DrawnOnes /\ HeldOnes' = HeldOnes /\ UNCHANGED <<open, sessions>>
    BY <1>5 DEF CeremonyTickets!tickets, DrawnOnes, HeldOnes
  <2> QED
    BY <2>1
<1> QED
  BY <1>1, <1>2, <1>3, <1>4, <1>5 DEF TicketStep, CeremonyTickets!TicketsNext

(***************************************************************************)
(* No ceremony is good for two sessions, however often and by however many   *)
(* requests its answer is posted.                                           *)
(***************************************************************************)
THEOREM CeremonyLogsInOnce == Spec => []OneSessionPerCeremony
<1>1. Init => SpentOnce
  BY DEF Init, SpentOnce, Unspent, DrawnOnes, HeldOnes, TakenSteps
<1>2. IInv /\ SpentOnce /\ [Next]_vars => SpentOnce'
  BY TicketSteps, SpentStep
<1>3. SpentOnce => OneSessionPerCeremony
  BY DEF SpentOnce, OneSessionPerCeremony
<1> QED
  BY <1>1, <1>2, <1>3, Invariant, PTL DEF Spec
=============================================================================
