------------------------------ MODULE Passkeys ------------------------------
(***************************************************************************)
(* WebAuthn ceremonies: PasskeyService (core/identity/passkey_service.go)   *)
(* over the tables passkey_users and passkey_credentials of CredRepo, with  *)
(* the begin and finish handlers (passkey_handler.go) and the browser side  *)
(* (web/static/js/passkey.js), which answers a ceremony with a key it made  *)
(* or used.                                                                *)
(*                                                                         *)
(* The sessions map is mutex protected: storeSession and takeSession are    *)
(* part of the step of the query next to them.  Each query that sees state  *)
(* other requests change is a step; a repeated one has the outcomes of a    *)
(* failed one that ran (kid is unique, the other statements are idempotent).*)
(* Signatures are the library's: an assertion names the key that made it.   *)
(***************************************************************************)
EXTENDS Naturals

CONSTANTS
    Users,          \* accounts
    Keys,           \* credential ids authenticators may generate
    Handles,        \* user handles GenerateHandleWithTenant may draw
    Challenges,     \* ceremonies: a bound on the Begins
    Workers,        \* goroutines serving requests
    None,           \* no user, key, handle or challenge
    MaxSigns,       \* bound: assertions one key signs
    MaxFaults       \* bound: queries that fail

ASSUME NoneAssumption == None \notin Users \cup Keys \cup Handles \cup Challenges
ASSUME BoundAssumption == MaxSigns \in Nat /\ MaxFaults \in Nat

VARIABLES
    handle,     \* passkey_users: the handle of each user's row, or None
    creds,      \* passkey_credentials: the kids of each user's rows
    count,      \* the column sign_count of each kid
    open,       \* challenges in PasskeyService.sessions
    kind,       \* what each ceremony is for; "none" for a challenge not drawn
    chUser,     \* CeremonySession.UserID
    chHandle,   \* CeremonySession.UserHandle
    allowed,    \* SessionData.AllowedCredentialIDs
    owner,      \* the user a key was made for
    keyHandle,  \* the user handle a key carries
    signed,     \* the signature counter of a key's authenticator
    answer,     \* the key the browser answered a challenge with
    asserted,   \* the counter in that answer
    pc,         \* where each worker is
    who,        \* the user a worker works for
    chal,       \* the ceremony it took
    got,        \* the handle it read
    seen,       \* the sign_count it read
    used,       \* history: handles drawn so far
    deleted,    \* history: keys whose row was deleted
    issued,     \* history: <<user, key>> sessions were issued for
    sessions,   \* history: sessions issued for each ceremony
    overlapped, \* history: users with two registrations beginning at a time
    faults      \* history: failed queries so far

tables   == <<handle, creds, count>>
ceremony == <<open, kind, chUser, chHandle, allowed>>
devices  == <<owner, keyHandle, signed, answer, asserted>>
request  == <<pc, who, chal, got, seen>>
logins   == <<issued, sessions>>
history  == <<used, deleted, logins, overlapped, faults>>
vars     == <<tables, ceremony, devices, request, history>>

Kinds == {"none", "register", "login", "discover"}
BeginSteps == {"handle", "saveUser"}
TakenSteps == {"delete", "create", "kid", "byHandle", "userHandle", "creds", "signCount"}
OwnerSteps == BeginSteps \cup {"delete", "create", "userHandle", "creds", "signCount"}
Counts == 0..MaxSigns

Stored == UNION {creds[u] : u \in Users}
KeyOf(w) == answer[chal[w]]

TableTypes ==
    /\ handle \in [Users -> Handles \cup {None}]
    /\ creds \in [Users -> SUBSET Keys]
    /\ count \in [Keys -> Counts]

CeremonyTypes ==
    /\ open \subseteq Challenges
    /\ kind \in [Challenges -> Kinds]
    /\ chUser \in [Challenges -> Users \cup {None}]
    /\ chHandle \in [Challenges -> Handles \cup {None}]
    /\ allowed \in [Challenges -> SUBSET Keys]
    /\ \A c \in Challenges : kind[c] \in {"register", "login"} => chUser[c] \in Users

DeviceTypes ==
    /\ owner \in [Keys -> Users \cup {None}]
    /\ keyHandle \in [Keys -> Handles \cup {None}]
    /\ signed \in [Keys -> Counts]
    /\ answer \in [Challenges -> Keys \cup {None}]
    /\ asserted \in [Challenges -> Counts]

RequestTypes ==
    /\ pc \in [Workers -> {"idle"} \cup BeginSteps \cup TakenSteps]
    /\ who \in [Workers -> Users \cup {None}]
    /\ chal \in [Workers -> Challenges \cup {None}]
    /\ got \in [Workers -> Handles \cup {None}]
    /\ seen \in [Workers -> Counts]
    /\ \A w \in Workers :
        /\ pc[w] \in OwnerSteps => who[w] \in Users
        /\ pc[w] \in TakenSteps => chal[w] \in Challenges /\ KeyOf(w) \in Keys

HistoryTypes ==
    /\ used \subseteq Handles
    /\ deleted \subseteq Keys
    /\ issued \subseteq Users \X Keys
    /\ sessions \in [Challenges -> Nat]
    /\ overlapped \subseteq Users
    /\ faults \in 0..MaxFaults

TypeOK == TableTypes /\ CeremonyTypes /\ DeviceTypes /\ RequestTypes /\ HistoryTypes

Init ==
    /\ handle = [u \in Users |-> None]
    /\ creds = [u \in Users |-> {}]
    /\ count = [k \in Keys |-> 0]
    /\ open = {}
    /\ kind = [c \in Challenges |-> "none"]
    /\ chUser = [c \in Challenges |-> None]
    /\ chHandle = [c \in Challenges |-> None]
    /\ allowed = [c \in Challenges |-> {}]
    /\ owner = [k \in Keys |-> None]
    /\ keyHandle = [k \in Keys |-> None]
    /\ signed = [k \in Keys |-> 0]
    /\ answer = [c \in Challenges |-> None]
    /\ asserted = [c \in Challenges |-> 0]
    /\ pc = [w \in Workers |-> "idle"]
    /\ who = [w \in Workers |-> None]
    /\ chal = [w \in Workers |-> None]
    /\ got = [w \in Workers |-> None]
    /\ seen = [w \in Workers |-> 0]
    /\ sessions = [c \in Challenges |-> 0]
    /\ used = {} /\ deleted = {} /\ issued = {} /\ overlapped = {} /\ faults = 0

-----------------------------------------------------------------------------
Goto(w, step) == pc' = [pc EXCEPT ![w] = step] /\ UNCHANGED <<who, chal, got, seen>>

Done(w) ==
    /\ pc' = [pc EXCEPT ![w] = "idle"]
    /\ who' = [who EXCEPT ![w] = None]
    /\ chal' = [chal EXCEPT ![w] = None]
    /\ got' = [got EXCEPT ![w] = None]
    /\ seen' = [seen EXCEPT ![w] = 0]

Answered == UNCHANGED faults
Failed == faults < MaxFaults /\ faults' = faults + 1

\* storeSession under a challenge the library has just drawn.
StoreSession(purpose, u, h, keys) == \E c \in Challenges :
    /\ kind[c] = "none"
    /\ open' = open \cup {c}
    /\ kind' = [kind EXCEPT ![c] = purpose]
    /\ chUser' = [chUser EXCEPT ![c] = u]
    /\ chHandle' = [chHandle EXCEPT ![c] = h]
    /\ allowed' = [allowed EXCEPT ![c] = keys]

Beginning(u) == \E w \in Workers : pc[w] \in BeginSteps /\ who[w] = u

-----------------------------------------------------------------------------
(* Registration. *)

\* BeginRegistrationByHash: the user is found by hash.
BeginRegistration(w, u) ==
    /\ pc[w] = "idle"
    /\ pc' = [pc EXCEPT ![w] = "handle"]
    /\ who' = [who EXCEPT ![w] = u]
    /\ overlapped' = IF Beginning(u) THEN overlapped \cup {u} ELSE overlapped
    /\ UNCHANGED <<tables, ceremony, devices, chal, got, seen, used, deleted, logins, faults>>

\* Mutant: a stored handle is not looked for.
FindHandleNever(w) ==
    /\ pc[w] = "handle"
    /\ Answered
    /\ Goto(w, "saveUser")
    /\ UNCHANGED <<tables, ceremony, devices, used, deleted, logins, overlapped>>

\* A stored handle is reused; the error of the lookup is dropped.
FindHandle(w) ==
    /\ pc[w] = "handle"
    /\ \/ /\ Answered
          /\ handle[who[w]] # None
          /\ StoreSession("register", who[w], handle[who[w]], {})
          /\ Done(w)
       \/ /\ (Answered /\ handle[who[w]] = None) \/ Failed
          /\ Goto(w, "saveUser")
          /\ UNCHANGED ceremony
    /\ UNCHANGED <<tables, devices, used, deleted, logins, overlapped>>

\* UPSERT passkey_users with a fresh handle.  On a user who has a row by now the
\* unique index makes it an update, or an error.
SaveUser(w) ==
    /\ pc[w] = "saveUser"
    /\ \E h \in Handles \ used :
        /\ used' = used \cup {h}
        /\ \/ /\ Answered
              /\ handle' = [handle EXCEPT ![who[w]] = h]
              /\ StoreSession("register", who[w], h, {})
           \/ /\ Answered
              /\ handle[who[w]] # None
              /\ UNCHANGED <<handle, ceremony>>
           \/ /\ Failed
              /\ handle' \in {handle, [handle EXCEPT ![who[w]] = h]}
              /\ UNCHANGED ceremony
    /\ Done(w)
    /\ UNCHANGED <<creds, count, devices, deleted, logins, overlapped>>

\* navigator.credentials.create: the authenticator makes a key for the user
\* and the handle of the options.
MakeKey(c, k) ==
    /\ kind[c] = "register" /\ answer[c] = None
    /\ owner[k] = None
    /\ owner' = [owner EXCEPT ![k] = chUser[c]]
    /\ keyHandle' = [keyHandle EXCEPT ![k] = chHandle[c]]
    /\ answer' = [answer EXCEPT ![c] = k]
    /\ UNCHANGED <<tables, ceremony, signed, asserted, request, history>>

\* Mutant: takeSession forgets to delete.
TakenKept(w, c) ==
    /\ pc[w] = "idle"
    /\ c \in open /\ answer[c] # None
    /\ chal' = [chal EXCEPT ![w] = c]
    /\ UNCHANGED <<open, kind, chUser, chHandle, allowed>>

\* Taken: takeSession hands an open ceremony to one request and forgets it;
\* a request for any other challenge is answered with an error.
Taken(w, c) ==
    /\ pc[w] = "idle"
    /\ c \in open /\ answer[c] # None
    /\ open' = open \ {c}
    /\ chal' = [chal EXCEPT ![w] = c]
    /\ UNCHANGED <<kind, chUser, chHandle, allowed>>

\* FinishRegistration up to CreateCredential; the rows it looks up are not used.
FinishRegistration(w, c) ==
    /\ kind[c] = "register"
    /\ Taken(w, c)
    /\ pc' = [pc EXCEPT ![w] = "delete"]
    /\ who' = [who EXCEPT ![w] = chUser[c]]
    /\ UNCHANGED <<tables, devices, got, seen, history>>

\* Mutant: the old rows are deleted before the response is verified.
ExpiredAfterDelete(w) ==
    /\ pc[w] = "delete"
    /\ creds' = [creds EXCEPT ![who[w]] = {}]
    /\ deleted' = deleted \cup creds[who[w]]
    /\ Done(w)
    /\ UNCHANGED <<handle, count, ceremony, devices, used, logins, overlapped, faults>>

\* CreateCredential finds the ceremony past its timeout.
RegistrationExpired(w) ==
    /\ pc[w] = "delete"
    /\ Done(w)
    /\ UNCHANGED <<tables, ceremony, devices, history>>

\* SaveCredential: the error of the DELETE is dropped.
DeleteOld(w) ==
    /\ pc[w] = "delete"
    /\ \/ Answered /\ creds' = [creds EXCEPT ![who[w]] = {}]
       \/ Failed /\ creds' \in {creds, [creds EXCEPT ![who[w]] = {}]}
    /\ deleted' = deleted \cup (creds[who[w]] \ creds'[who[w]])
    /\ Goto(w, "create")
    /\ UNCHANGED <<handle, count, ceremony, devices, used, logins, overlapped>>

\* The row CREATE adds: the authenticator's counter starts at 0.
Inserted(u, k) ==
    /\ creds' = [creds EXCEPT ![u] = @ \cup {k}]
    /\ count' = [count EXCEPT ![k] = 0]

\* IssueSession for the ceremony that worker w finishes.
IssueSession(w, u) ==
    /\ issued' = issued \cup {<<u, KeyOf(w)>>}
    /\ sessions' = [sessions EXCEPT ![chal[w]] = @ + 1]

\* Mutant: the row and the session are for another user than the ceremony's.
CreateForAnyone(w) ==
    /\ pc[w] = "create"
    /\ \E u \in Users :
        /\ Inserted(u, KeyOf(w))
        /\ IssueSession(w, u)
    /\ Answered
    /\ Done(w)
    /\ UNCHANGED <<handle, ceremony, devices, used, deleted, overlapped>>

\* SaveCredential's CREATE, then IssueSession for the ceremony's user.
CreateCredential(w) ==
    /\ pc[w] = "create"
    /\ \/ /\ Answered
          /\ Inserted(who[w], KeyOf(w))
          /\ IssueSession(w, who[w])
       \/ /\ Failed
          /\ Inserted(who[w], KeyOf(w)) \/ UNCHANGED <<creds, count>>
          /\ UNCHANGED logins
    /\ Done(w)
    /\ UNCHANGED <<handle, ceremony, devices, used, deleted, overlapped>>

-----------------------------------------------------------------------------
(* Login. *)

\* BeginLogin with an email: GetUser wants at least one credential.
BeginLogin(u) ==
    /\ creds[u] # {}
    /\ StoreSession("login", u, None, creds[u])
    /\ UNCHANGED <<tables, devices, request, history>>

BeginLoginDiscoverable ==
    /\ StoreSession("discover", None, None, {})
    /\ UNCHANGED <<tables, devices, request, history>>

\* navigator.credentials.get: a key signs, one of the options' if they list any.
Sign(c, k) ==
    /\ kind[c] \in {"login", "discover"} /\ answer[c] = None
    /\ owner[k] # None
    /\ kind[c] = "login" => k \in allowed[c]
    /\ signed[k] < MaxSigns
    /\ signed' = [signed EXCEPT ![k] = @ + 1]
    /\ asserted' = [asserted EXCEPT ![c] = signed[k] + 1]
    /\ answer' = [answer EXCEPT ![c] = k]
    /\ UNCHANGED <<tables, ceremony, owner, keyHandle, request, history>>

FinishLogin(w, c) ==
    /\ Taken(w, c)
    /\ \/ /\ kind[c] = "login"
          /\ pc' = [pc EXCEPT ![w] = "creds"]
          /\ who' = [who EXCEPT ![w] = chUser[c]]
       \/ /\ kind[c] = "discover"
          /\ pc' = [pc EXCEPT ![w] = "kid"]
          /\ UNCHANGED who
    /\ UNCHANGED <<tables, devices, got, seen, history>>

\* FindCredentialByKID names the user; without a row, or on an error, the
\* handle is tried.
FindByKID(w) ==
    /\ pc[w] = "kid"
    /\ \/ \E u \in Users :
            /\ Answered
            /\ KeyOf(w) \in creds[u]
            /\ who' = [who EXCEPT ![w] = u]
            /\ pc' = [pc EXCEPT ![w] = "userHandle"]
       \/ /\ (Answered /\ KeyOf(w) \notin Stored) \/ Failed
          /\ pc' = [pc EXCEPT ![w] = "byHandle"]
          /\ UNCHANGED who
    /\ UNCHANGED <<tables, ceremony, devices, chal, got, seen, used, deleted, logins, overlapped>>

\* FindUserByHandle.
FindUserByHandle(w) ==
    /\ pc[w] = "byHandle"
    /\ \/ \E u \in Users :
            /\ Answered
            /\ handle[u] = keyHandle[KeyOf(w)]
            /\ pc' = [pc EXCEPT ![w] = "creds"]
            /\ who' = [who EXCEPT ![w] = u]
            /\ got' = [got EXCEPT ![w] = handle[u]]
            /\ UNCHANGED <<chal, seen>>
       \/ /\ \/ Answered /\ \A u \in Users : handle[u] # keyHandle[KeyOf(w)]
             \/ Failed
          /\ Done(w)
    /\ UNCHANGED <<tables, ceremony, devices, used, deleted, logins, overlapped>>

\* FindHandleByUserID; on an error, or without a handle, the assertion's stands in.
FindUserHandle(w) ==
    LET asserts == keyHandle[KeyOf(w)]
        stored  == handle[who[w]]
    IN
    /\ pc[w] = "userHandle"
    /\ \/ Answered /\ got' = [got EXCEPT ![w] = IF stored = None THEN asserts ELSE stored]
       \/ Failed /\ got' = [got EXCEPT ![w] = asserts]
    /\ pc' = [pc EXCEPT ![w] = "creds"]
    /\ UNCHANGED <<tables, ceremony, devices, who, chal, seen, used, deleted, logins, overlapped>>

\* ValidateLogin and ValidateDiscoverableLogin accept the key for this user.
Accepts(w) ==
    LET c == chal[w] IN
    /\ KeyOf(w) \in creds[who[w]]
    /\ kind[c] = "login" => allowed[c] \subseteq creds[who[w]]
    /\ kind[c] = "discover" => got[w] = keyHandle[KeyOf(w)]

\* FindCredentialsByUserID and the library's verdict.  It refuses an expired
\* ceremony, and in a login by email an answer that carries a user handle:
\* GetUser leaves PasskeyUser.Handle empty.
Validate(w) ==
    /\ pc[w] = "creds"
    /\ \/ /\ Answered
          /\ Accepts(w)
          /\ seen' = [seen EXCEPT ![w] = count[KeyOf(w)]]
          /\ pc' = [pc EXCEPT ![w] = "signCount"]
          /\ UNCHANGED <<who, chal, got>>
       \/ (Answered \/ Failed) /\ Done(w)
    /\ UNCHANGED <<tables, ceremony, devices, used, deleted, logins, overlapped>>

\* Mutant: the count expected next is stored.
NewCountNext(w) == IF asserted[chal[w]] > seen[w] THEN asserted[chal[w]] + 1 ELSE seen[w] + 1

\* Authenticator.UpdateCounter: the larger count.
NewCount(w) == IF asserted[chal[w]] > seen[w] THEN asserted[chal[w]] ELSE seen[w]

\* UpdateSignCount, whose error is dropped, then IssueSession.
UpdateSignCount(w) ==
    LET k == KeyOf(w)
        updated == IF k \in creds[who[w]] THEN [count EXCEPT ![k] = NewCount(w)] ELSE count
    IN  /\ pc[w] = "signCount"
        /\ \/ Answered /\ count' = updated
           \/ Failed /\ count' \in {count, updated}
        /\ IssueSession(w, who[w])
        /\ Done(w)
        /\ UNCHANGED <<handle, creds, ceremony, devices, used, deleted, overlapped>>

-----------------------------------------------------------------------------
Registering(w) ==
    \/ \E u \in Users : BeginRegistration(w, u)
    \/ FindHandle(w) \/ SaveUser(w)
    \/ \E c \in Challenges : FinishRegistration(w, c)
    \/ RegistrationExpired(w) \/ DeleteOld(w) \/ CreateCredential(w)

LoggingIn(w) ==
    \/ \E c \in Challenges : FinishLogin(w, c)
    \/ FindByKID(w) \/ FindUserByHandle(w) \/ FindUserHandle(w)
    \/ Validate(w) \/ UpdateSignCount(w)

Browsing ==
    \/ \E c \in Challenges, k \in Keys : MakeKey(c, k) \/ Sign(c, k)
    \/ \E u \in Users : BeginLogin(u)
    \/ BeginLoginDiscoverable

Next == Browsing \/ \E w \in Workers : Registering(w) \/ LoggingIn(w)

Spec == Init /\ [][Next]_vars

-----------------------------------------------------------------------------
(* Properties. *)

\* A session is issued to the user the key was made for and to nobody else,
\* however requests interleave and whichever of its lookups fail: FinishLogin
\* resolves the user by kid, by handle or by the ceremony (handler, GetUser).
SessionOfOwner == \A s \in issued : owner[s[2]] = s[1]

\* A challenge is a one-time ticket: takeSession hands it to one request, which is
\* good for one session; an assertion that is posted twice or replayed late logs in
\* once, also when lookups fail (passkey_service.go takeSession, FinishLogin).
CeremonyTickets ==
    INSTANCE Tickets WITH Ids <- Challenges, drawn <- {c \in Challenges : kind[c] # "none"},
                          taken <- {chal[w] : w \in {v \in Workers : pc[v] \in TakenSteps}},
                          uses <- sessions
KeepsTickets == CeremonyTickets!TicketsSpec

\* A key whose row a newer registration deleted is never stored again: an answer
\* is redeemed once (takeSession), also when it is posted twice or late.
DeletedForGood == deleted \cap Stored = {}

\* While queries answer and no two registrations of the user began at a time,
\* every stored key carries the handle of the user's row, so that a discoverable
\* login finds it (the reuse of existingHandle, also on re-registration).
KeyMatchesHandle ==
    faults = 0 => \A u \in Users \ overlapped : \A k \in creds[u] : keyHandle[k] = handle[u]

\* While queries answer, a user whose registration succeeded has a key, except
\* while another registration is between its DELETE and its CREATE.
RegistrationLeavesAKey ==
    faults = 0 => \A s \in issued :
        \/ creds[s[1]] # {}
        \/ \E w \in Workers : pc[w] = "create" /\ who[w] = s[1]

\* The stored count of a key is never ahead of its authenticator's, which would
\* make an honest key look cloned (UpdateSignCount).
CountNotAhead == \A k \in Stored : count[k] <= signed[k]

\* What 002_passkey.surrealql:32 says: a user may have the keys of several
\* devices.  Registering one key deletes no other.
EachDeviceKeepsItsKey == deleted = {}
=============================================================================
