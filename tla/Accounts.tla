------------------------------ MODULE Accounts ------------------------------
(***************************************************************************)
(* The users table behind identity.UserStore (persistence/surrealdb/         *)
(* user_repo.go, 001_users.surrealql) and its envelope encryption           *)
(* (security/keymanager.go, crypto.go, core/identity/user.go).              *)
(*                                                                         *)
(* Callers create accounts, read them, change the copy they have read and   *)
(* store it, and erase them; a copy is used after other callers changed the *)
(* row.  The server itself only creates and reads; Update and Erase are     *)
(* called by the tests.  A call is one query, which the pool may send       *)
(* twice.  A ciphertext is the DEK that sealed it; the DEK generated for an *)
(* account has the account's name.                                          *)
(***************************************************************************)
EXTENDS Naturals

CONSTANTS
    Callers,        \* goroutines that use the store
    Users,          \* UUIDs
    NoUser,
    Emails,         \* email hashes
    NoEmail,        \* a UUID without a row
    Random,         \* the random strings Erase writes: no two are equal, none is a hash
    OwnDek,         \* a DEK that GenerateDEK gave the caller
    NoDek,
    MaxFaults       \* bound: answers that are lost

ASSUME UserAssumption == NoUser \notin Users
ASSUME EmailAssumption == NoEmail \notin Emails /\ Random \notin Emails /\ NoEmail # Random
ASSUME DekAssumption == NoDek \notin Users /\ OwnDek \notin Users /\ NoDek # OwnDek
ASSUME FaultAssumption == MaxFaults \in Nat

Deks == Users \cup {OwnDek, NoDek}
Statuses == {"pending", "active", "suspended", "erased"}
Hashes == Emails \cup {NoEmail, Random}

VARIABLES
    hash,       \* users.email_hash
    dek,        \* users.encrypted_dek, opened
    cipher,     \* users.email_ciphertext
    status,     \* users.status
    locked,     \* users.locked_until is set
    pc,         \* the call each caller is in
    atUser,     \* its identity.User
    atHash,
    atDek,
    atCipher,
    atStatus,
    atLocked,
    created,    \* history: users a CREATE has stored
    erased,     \* history: users an Erase has reached
    faults      \* history: answers lost so far

table   == <<hash, dek, cipher, status, locked>>
copy    == <<atUser, atHash, atDek, atCipher, atStatus, atLocked>>
history == <<created, erased>>
vars    == <<table, pc, copy, history, faults>>

TypeOK ==
    /\ hash \in [Users -> Hashes]
    /\ dek \in [Users -> Deks] /\ cipher \in [Users -> Deks]
    /\ status \in [Users -> Statuses] /\ locked \in [Users -> BOOLEAN]
    /\ pc \in [Callers -> {"idle", "create", "update", "erase"}]
    /\ atUser \in [Callers -> Users \cup {NoUser}]
    /\ \A c \in Callers : pc[c] # "idle" => atUser[c] \in Users
    /\ atHash \in [Callers -> Hashes]
    /\ atDek \in [Callers -> Deks] /\ atCipher \in [Callers -> Deks]
    /\ atStatus \in [Callers -> Statuses] /\ atLocked \in [Callers -> BOOLEAN]
    /\ created \subseteq Users /\ erased \subseteq Users
    /\ faults \in 0..MaxFaults

Init ==
    /\ hash = [u \in Users |-> NoEmail]
    /\ dek = [u \in Users |-> NoDek] /\ cipher = [u \in Users |-> NoDek]
    /\ status = [u \in Users |-> "pending"] /\ locked = [u \in Users |-> FALSE]
    /\ pc = [c \in Callers |-> "idle"]
    /\ atUser = [c \in Callers |-> NoUser]
    /\ atHash = [c \in Callers |-> NoEmail]
    /\ atDek = [c \in Callers |-> NoDek] /\ atCipher = [c \in Callers |-> NoDek]
    /\ atStatus = [c \in Callers |-> "pending"] /\ atLocked = [c \in Callers |-> FALSE]
    /\ created = {} /\ erased = {}
    /\ faults = 0

-----------------------------------------------------------------------------
Goto(c, step) == pc' = [pc EXCEPT ![c] = step]

Holds(c, u, h, k, x, s, l) ==
    /\ atUser' = [atUser EXCEPT ![c] = u]
    /\ atHash' = [atHash EXCEPT ![c] = h]
    /\ atDek' = [atDek EXCEPT ![c] = k]
    /\ atCipher' = [atCipher EXCEPT ![c] = x]
    /\ atStatus' = [atStatus EXCEPT ![c] = s]
    /\ atLocked' = [atLocked EXCEPT ![c] = l]

Return(c) ==
    /\ Goto(c, "idle")
    /\ Holds(c, NoUser, NoEmail, NoDek, NoDek, "pending", FALSE)

\* A query answers, or its answer is lost; the pool sends it again or gives up.
Outcome(c) ==
    \/ Return(c) /\ UNCHANGED faults
    \/ faults < MaxFaults /\ faults' = faults + 1 /\ (Return(c) \/ UNCHANGED <<pc, copy>>)

-----------------------------------------------------------------------------
(* Create. *)

\* The DEK of a new account, whatever the caller had in EncryptedDEK.
GenerateAndEncryptDEK(u) == u

\* Create draws a UUID and a DEK; a ciphertext comes from the caller.
NewUser(c, u, e) ==
    /\ pc[c] = "idle"
    /\ hash[u] = NoEmail /\ \A d \in Callers : atUser[d] # u
    /\ \E x \in {OwnDek, NoDek} :
        Holds(c, u, e, GenerateAndEncryptDEK(u), x, "pending", FALSE)
    /\ Goto(c, "create")
    /\ UNCHANGED <<table, history, faults>>

\* The unique indexes on user_id and email_hash.
Unique(u, e) == hash[u] = NoEmail /\ \A v \in Users : hash[v] # e

Insert(c) ==
    /\ hash' = [hash EXCEPT ![atUser[c]] = atHash[c]]
    /\ dek' = [dek EXCEPT ![atUser[c]] = atDek[c]]
    /\ cipher' = [cipher EXCEPT ![atUser[c]] = atCipher[c]]
    /\ status' = [status EXCEPT ![atUser[c]] = atStatus[c]]
    /\ locked' = [locked EXCEPT ![atUser[c]] = atLocked[c]]
    /\ created' = created \cup {atUser[c]}
    /\ UNCHANGED erased

Create(c) ==
    /\ pc[c] = "create"
    /\ \/ Unique(atUser[c], atHash[c]) /\ Insert(c)
       \/ UNCHANGED <<table, history>>
    /\ Outcome(c)

-----------------------------------------------------------------------------
(* Reading and changing. *)

\* mapUserRowV2 leaves out locked_until; the caller activates, suspends or locks its
\* copy, or keeps it as it is.
mapUserRowV2(c, u) ==
    \E s \in {status[u], "active", "suspended"}, l \in BOOLEAN :
        Holds(c, u, hash[u], dek[u], cipher[u], s, l)

Find(c, u) ==
    /\ pc[c] = "idle"
    /\ hash[u] # NoEmail
    /\ mapUserRowV2(c, u)
    /\ Goto(c, "update")
    /\ UNCHANGED <<table, history, faults>>

\* Mutant: the whole struct is stored.
UpdateAll(c) ==
    /\ pc[c] = "update"
    /\ dek' = [dek EXCEPT ![atUser[c]] = atDek[c]]
    /\ cipher' = [cipher EXCEPT ![atUser[c]] = atCipher[c]]
    /\ status' = [status EXCEPT ![atUser[c]] = atStatus[c]]
    /\ Outcome(c)
    /\ UNCHANGED <<hash, locked, history>>

\* Mutant: encrypted_dek is set from a variable that is not given.
UpdateUnset(c) ==
    /\ pc[c] = "update"
    /\ dek' = [dek EXCEPT ![atUser[c]] = NoDek]
    /\ status' = [status EXCEPT ![atUser[c]] = atStatus[c]]
    /\ Outcome(c)
    /\ UNCHANGED <<hash, cipher, locked, history>>

\* Update sets locked_until to NONE when the copy has none.
Update(c) ==
    /\ pc[c] = "update"
    /\ \/ /\ status' = [status EXCEPT ![atUser[c]] = atStatus[c]]
          /\ locked' = [locked EXCEPT ![atUser[c]] = atLocked[c]]
       \/ UNCHANGED <<status, locked>>
    /\ Outcome(c)
    /\ UNCHANGED <<hash, dek, cipher, history>>

-----------------------------------------------------------------------------
(* Erase. *)

StartErase(c, u) ==
    /\ pc[c] = "idle"
    /\ atUser' = [atUser EXCEPT ![c] = u]
    /\ Goto(c, "erase")
    /\ UNCHANGED <<table, atHash, atDek, atCipher, atStatus, atLocked, history, faults>>

Erase(c) ==
    /\ pc[c] = "erase"
    /\ \/ /\ hash[atUser[c]] # NoEmail
          /\ dek' = [dek EXCEPT ![atUser[c]] = NoDek]
          /\ cipher' = [cipher EXCEPT ![atUser[c]] = NoDek]
          /\ hash' = [hash EXCEPT ![atUser[c]] = Random]
          /\ status' = [status EXCEPT ![atUser[c]] = "erased"]
          /\ erased' = erased \cup {atUser[c]}
       \/ UNCHANGED <<dek, cipher, hash, status, erased>>
    /\ Outcome(c)
    /\ UNCHANGED <<locked, created>>

-----------------------------------------------------------------------------
CallerStep(c) ==
    \/ \E u \in Users, e \in Emails : NewUser(c, u, e)
    \/ \E u \in Users : Find(c, u) \/ StartErase(c, u)
    \/ Create(c) \/ Update(c) \/ Erase(c)

Next == \E c \in Callers : CallerStep(c)

Spec == Init /\ [][Next]_vars

-----------------------------------------------------------------------------
(* What holds of the code. *)

\* An erased account stays shredded: no stale copy and no repeated CREATE brings
\* its key, its ciphertext or its email back (user_repo.go 297-326).
ShreddedForGood ==
    \A u \in erased : dek[u] = NoDek /\ cipher[u] = NoDek /\ hash[u] = Random

\* Until it is erased, an account keeps the key it was created with: no Update,
\* however stale, and no repeated call loses it (user_repo.go 250-294).
KeyKept == \A u \in created \ erased : dek[u] = u

-----------------------------------------------------------------------------
(* What the repository says and the code does not do. *)

\* DecryptPII succeeds only under the DEK that sealed the ciphertext.
DecryptPII(x, k) == k # NoDek /\ x = k

\* user_repo.go:32 "Generates UUID v7 + DEK if not provided. Encrypts all PII
\* fields.": Create stores the caller's ciphertext next to a DEK of its own.
Readable ==
    \A u \in Users : cipher[u] # NoDek => DecryptPII(cipher[u], dek[u])

\* 001_users.surrealql:35 lists "erased" as the account's last status: an Update
\* of a copy that was read before sets it back.
ErasedStatus == \A u \in erased : status[u] = "erased"

\* user_repo.go:249 "Update persists changes to an existing user.": it also clears a
\* lock its copy does not know of.
LockStays == [][\A u \in Users : locked[u] => locked'[u]]_vars
=============================================================================
