------------------------------- MODULE OTP -------------------------------
(***************************************************************************)
(* The one-time passwords of ONE user: OTPService.Send and                 *)
(* OTPService.Verify (core/identity/otp_service.go) over the single row     *)
(* otp_codes:[userIDHash] that SurrealOTPRepo keeps for the user.           *)
(*                                                                         *)
(* A worker is a goroutine that serves requests about this user, one after *)
(* the other.  Every database call of a handler is a step of its own: the   *)
(* code runs Get, IncrementAttempts, Delete and CREATE as separate queries  *)
(* with no transaction and no lock, so other workers act between them.      *)
(* Codes are numbered in the order in which they are generated; the hash of *)
(* a code is the code.                                                     *)
(***************************************************************************)
EXTENDS Integers, FiniteSets

CONSTANTS
    Workers,        \* goroutines serving this user's requests
    MaxAttempts,    \* maxAttempts of otp_service.go
    Lifetime,       \* otpLifetime, in ticks
    AttemptsKind,   \* Go type the driver decodes the int column attempts to
    MaxCodes,       \* bound: codes generated in a behaviour
    MaxVerifies,    \* bound: Verify requests in a behaviour
    MaxFaults,      \* bound: queries that fail or are repeated
    MaxClock        \* bound: the clock stops here

ASSUME WorkersAssumption == IsFiniteSet(Workers)
ASSUME LimitAssumption   == MaxAttempts \in Nat \ {0} /\ Lifetime \in Nat
ASSUME KindAssumption    == AttemptsKind \in {"float64", "int"}
ASSUME BoundAssumption   ==
    MaxCodes \in Nat /\ MaxVerifies \in Nat /\ MaxFaults \in Nat /\ MaxClock \in Nat

VARIABLES
    row,        \* the row of otp_codes: its code (0: no row) and attempts
    clock,      \* time.Now() of the server and time::now() of the database
    lastCode,   \* number of codes generated so far
    expiry,     \* expires_at chosen for each code
    mailed,     \* codes whose SendOTP succeeded: what a user can type
    pc,         \* where each worker is
    held,       \* the code a Send carries, the code a Verify read from the row
    tries,      \* attempts as Verify read it
    input,      \* the code Verify was called with, 0 for a wrong guess
    doomed,     \* history: workers whose input was dead when their Verify started
    compared,   \* history: comparisons made against each code
    accepts,    \* history: how often each code was accepted
    verifies,   \* history: Verify requests so far
    faults      \* history: failed or repeated queries so far

request == <<held, tries, input, doomed>>
history == <<compared, accepts>>
vars == <<row, clock, lastCode, expiry, mailed, pc, request, history, verifies, faults>>

Codes == 1..MaxCodes
NoCode == 0
NoRow == [code |-> NoCode, attempts |-> 0]

CodeSteps == {"saveDelete", "saveCreate", "deliver",
              "check", "purge", "increment", "consume"}
Steps == {"idle", "get"} \cup CodeSteps

\* SELECT * FROM otp_codes:uid finds a row.
RowExists == row.code # NoCode

\* time.Now().After(expiresAt): the instant of expires_at itself still counts.
Expired(c) == clock > expiry[c]

\* A Send that carries code c and may still CREATE its row.
Unsaved(c) == \E w \in Workers : pc[w] \in {"saveDelete", "saveCreate"} /\ held[w] = c

\* Codes no later Verify may accept: generated, and expired or no longer stored.
Dead == {c \in Codes : c <= lastCode /\ (Expired(c) \/ (row.code # c /\ ~Unsaved(c)))}

\* A worker between requests keeps nothing; one that has a code in its hands, to
\* save or to judge, has a code that was generated.
CarriesIssued ==
    \A w \in Workers :
        /\ pc[w] = "idle" => held[w] = NoCode /\ input[w] = NoCode /\ tries[w] = 0
        /\ pc[w] \in CodeSteps => held[w] \in 1..lastCode

StoreTypes ==
    /\ row \in [code : 0..lastCode, attempts : Nat]
    /\ clock \in 0..MaxClock
    /\ lastCode \in 0..MaxCodes
    /\ expiry \in [Codes -> Nat]
    /\ mailed \subseteq Codes

RequestTypes ==
    /\ pc \in [Workers -> Steps]
    /\ held \in [Workers -> 0..MaxCodes]
    /\ tries \in [Workers -> Nat]
    /\ input \in [Workers -> 0..MaxCodes]
    /\ doomed \subseteq Workers

HistoryTypes ==
    /\ compared \in [Codes -> Nat]
    /\ accepts \in [Codes -> Nat]
    /\ verifies \in 0..MaxVerifies
    /\ faults \in 0..MaxFaults

TypeOK == StoreTypes /\ RequestTypes /\ HistoryTypes /\ CarriesIssued

Init ==
    /\ row = NoRow
    /\ clock = 0
    /\ lastCode = 0
    /\ expiry = [c \in Codes |-> 0]
    /\ mailed = {}
    /\ pc = [w \in Workers |-> "idle"]
    /\ held = [w \in Workers |-> NoCode]
    /\ tries = [w \in Workers |-> 0]
    /\ input = [w \in Workers |-> NoCode]
    /\ doomed = {}
    /\ compared = [c \in Codes |-> 0]
    /\ accepts = [c \in Codes |-> 0]
    /\ verifies = 0
    /\ faults = 0

-----------------------------------------------------------------------------
(* Queries.  Pool.Query either answers, or fails, or repeats the query once *)
(* on another connection after losing the answer to the first.              *)

Goto(w, next) == pc' = [pc EXCEPT ![w] = next] /\ UNCHANGED request

Finish(w) ==
    /\ pc' = [pc EXCEPT ![w] = "idle"]
    /\ held' = [held EXCEPT ![w] = NoCode]
    /\ tries' = [tries EXCEPT ![w] = 0]
    /\ input' = [input EXCEPT ![w] = NoCode]
    /\ doomed' = doomed \ {w}

Answered == UNCHANGED faults
Failed == faults < MaxFaults /\ faults' = faults + 1 /\ UNCHANGED row

\* Mutant: the increment is dropped.
IncrementedLost == row

\* UPDATE ... SET attempts += 1 touches whatever row is stored now, and the
\* event delete_expired_otp drops it when it has expired.
Incremented ==
    IF ~RowExists THEN row
    ELSE IF Expired(row.code) THEN NoRow
    ELSE [row EXCEPT !.attempts = @ + 1]

\* CREATE of a record id that exists is an error and changes nothing.
Created(c) == IF RowExists THEN row ELSE [code |-> c, attempts |-> 0]

\* The database executes the query that worker w is waiting for.
Executed(w) ==
    \/ pc[w] \in {"saveDelete", "purge", "consume"} /\ row' = NoRow
    \/ pc[w] = "saveCreate" /\ row' = Created(held[w])
    \/ pc[w] = "increment" /\ row' = Incremented

\* Executed, but the connection broke before the answer: the query is retried.
Repeated(w) ==
    /\ Executed(w)
    /\ faults < MaxFaults
    /\ faults' = faults + 1
    /\ UNCHANGED <<clock, lastCode, expiry, mailed, pc, request, history, verifies>>

-----------------------------------------------------------------------------
(* OTPService.Send *)

\* GenerateCode and expiresAt, before the first query.
StartSend(w) ==
    /\ pc[w] = "idle"
    /\ lastCode < MaxCodes
    /\ lastCode' = lastCode + 1
    /\ expiry' = [expiry EXCEPT ![lastCode'] = clock + Lifetime]
    /\ held' = [held EXCEPT ![w] = lastCode']
    /\ pc' = [pc EXCEPT ![w] = "saveDelete"]
    /\ UNCHANGED <<row, clock, mailed, tries, input, doomed, history, verifies, faults>>

\* Save's DELETE, whose error is dropped.
SaveDelete(w) ==
    /\ pc[w] = "saveDelete"
    /\ \/ row' = NoRow /\ Answered
       \/ Failed
    /\ Goto(w, "saveCreate")
    /\ UNCHANGED <<clock, lastCode, expiry, mailed, history, verifies>>

\* Save's CREATE; an error ends the request with "save otp".
SaveCreate(w) ==
    /\ pc[w] = "saveCreate"
    /\ \/ /\ row' = Created(held[w])
          /\ IF RowExists THEN Finish(w) ELSE Goto(w, "deliver")
          /\ Answered
       \/ Failed /\ Finish(w)
    /\ UNCHANGED <<clock, lastCode, expiry, mailed, history, verifies>>

\* Mutant: a failed delivery takes the stored code back.
DeliverOrWithdraw(w) ==
    /\ pc[w] = "deliver"
    /\ \/ mailed' = mailed \cup {held[w]} /\ UNCHANGED row
       \/ row' = NoRow /\ UNCHANGED mailed
    /\ Finish(w)
    /\ UNCHANGED <<clock, lastCode, expiry, history, verifies, faults>>

\* Mutant: a failed delivery is retried from Save's CREATE.
DeliverOrSaveAgain(w) ==
    /\ pc[w] = "deliver"
    /\ \/ mailed' = mailed \cup {held[w]} /\ Finish(w)
       \/ Goto(w, "saveCreate") /\ UNCHANGED mailed
    /\ UNCHANGED <<row, clock, lastCode, expiry, history, verifies, faults>>

\* sender.SendOTP, which may fail; the stored code stays.
Deliver(w) ==
    /\ pc[w] = "deliver"
    /\ mailed' \in {mailed, mailed \cup {held[w]}}
    /\ Finish(w)
    /\ UNCHANGED <<row, clock, lastCode, expiry, history, verifies, faults>>

-----------------------------------------------------------------------------
(* OTPService.Verify *)

StartVerify(w, code) ==
    /\ pc[w] = "idle"
    /\ verifies < MaxVerifies
    /\ verifies' = verifies + 1
    /\ input' = [input EXCEPT ![w] = code]
    /\ doomed' = IF code \in Dead THEN doomed \cup {w} ELSE doomed
    /\ pc' = [pc EXCEPT ![w] = "get"]
    /\ UNCHANGED <<row, clock, lastCode, expiry, mailed, held, tries, history, faults>>

\* SurrealOTPRepo.Get takes attempts only when it arrives as a float64.  The
\* driver decodes an int column to an int64 or a uint64, as user_repo.go 400-417
\* and cred_repo.go 201-208 expect, so every run has "int" and reads 0.
AttemptsRead == IF AttemptsKind = "float64" THEN row.attempts ELSE 0

\* What a Verify takes from the row it found.
Read(w) ==
    /\ held' = [held EXCEPT ![w] = row.code]
    /\ tries' = [tries EXCEPT ![w] = AttemptsRead]
    /\ pc' = [pc EXCEPT ![w] = "check"]
    /\ UNCHANGED <<input, doomed>>

\* No row and an error are both "not found".
Get(w) ==
    /\ pc[w] = "get"
    /\ \/ /\ Answered
          /\ RowExists
          /\ Read(w)
       \/ /\ \/ Answered /\ ~RowExists
             \/ Failed
          /\ Finish(w)
    /\ UNCHANGED <<row, clock, lastCode, expiry, mailed, history, verifies>>

\* Mutant: no expiry check.
RefusedAtLimit(w) == tries[w] >= MaxAttempts

\* The expiry check and the attempt limit, on what Get returned.
Refused(w) == Expired(held[w]) \/ tries[w] >= MaxAttempts

Check(w) ==
    /\ pc[w] = "check"
    /\ Goto(w, IF Refused(w) THEN "purge" ELSE "increment")
    /\ UNCHANGED <<row, clock, lastCode, expiry, mailed, history, verifies, faults>>

\* store.Delete on a refused code, whose error is dropped; Verify is false.
Purge(w) ==
    /\ pc[w] = "purge"
    /\ \/ row' = NoRow /\ Answered
       \/ Failed
    /\ Finish(w)
    /\ UNCHANGED <<clock, lastCode, expiry, mailed, history, verifies>>

\* store.IncrementAttempts, whose error is dropped, then the comparison of the
\* two hashes, which reads only what Get returned.
Increment(w) ==
    /\ pc[w] = "increment"
    /\ \/ row' = Incremented /\ Answered
       \/ Failed
    /\ compared' = [compared EXCEPT ![held[w]] = @ + 1]
    /\ IF input[w] = held[w] THEN Goto(w, "consume") ELSE Finish(w)
    /\ UNCHANGED <<clock, lastCode, expiry, mailed, accepts, verifies>>

\* store.Delete of the accepted code, whose error is dropped; Verify is true.
Consume(w) ==
    /\ pc[w] = "consume"
    /\ \/ row' = NoRow /\ Answered
       \/ Failed
    /\ accepts' = [accepts EXCEPT ![held[w]] = @ + 1]
    /\ Finish(w)
    /\ UNCHANGED <<clock, lastCode, expiry, mailed, compared, verifies>>

Tick ==
    /\ clock < MaxClock
    /\ clock' = clock + 1
    /\ UNCHANGED <<row, lastCode, expiry, mailed, pc, request, history, verifies, faults>>

SendNext(w) == StartSend(w) \/ SaveDelete(w) \/ SaveCreate(w) \/ Deliver(w)

VerifyNext(w) ==
    \/ \E code \in mailed \cup {NoCode} : StartVerify(w, code)
    \/ Get(w) \/ Check(w) \/ Purge(w) \/ Increment(w) \/ Consume(w)

Next == Tick \/ \E w \in Workers : SendNext(w) \/ VerifyNext(w) \/ Repeated(w)

Spec == Init /\ [][Next]_vars

-----------------------------------------------------------------------------
(* What holds of the code. *)

\* A request that is about to answer true never does so for a code that was
\* already consumed, replaced, purged or expired when the request started
\* (Verify, otp_service.go 94-125): stale reads let a code outlive its row only
\* inside requests that overlap the deletion.
DeadCodeNeverAccepted ==
    \A w \in Workers : pc[w] = "consume" => w \notin doomed

\* The stored counter never falls behind: while no query is lost it is at least
\* the number of comparisons made against the stored code, because the database
\* increments it, whatever row the overlapping Verifies and Sends had read
\* (IncrementAttempts, otp_repo.go 107-119; otp_service.go 94-118).
CounterCounts == (faults = 0 /\ RowExists) => compared[row.code] <= row.attempts

\* However Sends interleave, once they have all returned, with no query lost and
\* no Verify, a code is stored, although Save deletes before it creates.
SendLeavesACode ==
    (lastCode > 0 /\ faults = 0 /\ verifies = 0 /\ \A w \in Workers : pc[w] = "idle")
        => RowExists

\* A dead code stays dead: no interleaving of Save's DELETE and CREATE, not even
\* a repeated CREATE, brings a consumed or replaced code back.
DeadCodesStayDead == [][Dead \subseteq Dead']_vars

-----------------------------------------------------------------------------
(* What the repository says and the code does not do. *)

\* otp_service.go:88: "On success the OTP is consumed (single-use)."
SingleUse == \A c \in Codes : accepts[c] <= 1

\* 007_otp_codes.surrealql:27: a code that reached the limit is invalid.
AttemptLimit == \A c \in Codes : compared[c] <= MaxAttempts

\* otp_repo.go:122: Delete removes the record "after successful verification or
\* expiry": a Verify that deletes a row deletes the one it judged.
DeletesWhatItJudged ==
    [][\A w \in Workers :
         (Purge(w) \/ Consume(w)) /\ RowExists /\ row' = NoRow => row.code = held[w]]_vars

\* otp_repo.go:25: "Save creates or replaces the OTP record for a user": the
\* CREATE finds no row in its way when every query is answered.
SaveReplaces ==
    [][\A w \in Workers : SaveCreate(w) /\ faults' = 0 => pc'[w] = "deliver"]_vars
=============================================================================
