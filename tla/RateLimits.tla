----------------------------- MODULE RateLimits -----------------------------
(***************************************************************************)
(* The two limiters a one-time-password request passes: the sliding window  *)
(* per RemoteAddr of the middleware RateLimit(nil)                          *)
(* (interfaces/http/middleware/ratelimit.go) and, inside the handlers       *)
(* SendOTP and VerifyOTP (auth_handler.go), MemoryRateLimiter's fixed       *)
(* windows per key (adapters/ratelimit/memory.go) under PolicyOTP           *)
(* (core/identity/rate_limit.go).                                           *)
(*                                                                         *)
(* Both are guarded by a mutex: a call is one step and reads the clock in   *)
(* it.  A handler's calls are separate steps.                               *)
(***************************************************************************)
EXTENDS Integers, FiniteSets

CONSTANTS
    Addresses,      \* values of r.RemoteAddr
    Users,          \* users; their email and user_id_hash name their buckets
    Handlers,       \* goroutines serving requests
    GeneralLimit,   \* 100 in the code
    GeneralWindow,  \* a minute, in ticks
    PolicyAttempts, \* PolicyOTP.MaxAttempts
    Window,         \* PolicyOTP.Window in ticks; 0 is a permanent quota
    TicksPerSecond, \* resolution of the clock
    MaxTime         \* bound: ticks in a behaviour

ASSUME QuotaAssumption == GeneralLimit \in Nat \ {0} /\ PolicyAttempts \in Nat \ {0}
ASSUME ClockAssumption ==
    /\ GeneralWindow \in Nat \ {0} /\ Window \in Nat
    /\ TicksPerSecond \in Nat \ {0} /\ MaxTime \in Nat

VARIABLES
    now,         \* the clock
    windows,     \* slidingWindow.entries of each address
    entries,     \* keys that have a bucket
    count,       \* bucket.count
    windowStart, \* bucket.windowStart
    at,          \* where each handler is
    user,        \* the user it verifies a code of
    passed,      \* history: when requests of an address were let through
    hits,        \* history: when a key was allowed since it was last reset
    spent,       \* history: when a key was allowed, resets or not
    resets,      \* history: when a key was reset
    retryAt,     \* history: when Retry-After told the address to come back
    fresh        \* history: users who have not sent a code since they last verified one

quota == <<hits, spent, resets>>
limitVars ==
    <<now, windows, entries, count, windowStart, at, user, passed, quota, retryAt, fresh>>

\* RateKeyOTPSend(email) and RateKeyOTPFail(user_id_hash).
Keys == {"send", "fail"} \X Users
Times == 0..MaxTime
NoRetry == -1

\* A request is a stamp <<time, number>>: requests of one instant are numbered.
Stamps == Times \X (Nat \ {0})

\* The stamps of s later than the given time.
After(s, time) == {e \in s : e[1] > time}

\* Those of one instant.
Instant(s, time) == {e \in s : e[1] = time}

\* The stamp of a request that joins s now.
Stamp(s) == <<now, Cardinality(Instant(s, now)) + 1>>
Joined(s) == s \cup {Stamp(s)}

LimitsTypeOK ==
    /\ now \in Times
    /\ windows \in [Addresses -> SUBSET Stamps]
    /\ \A a \in Addresses : Cardinality(windows[a]) <= GeneralLimit
    /\ entries \subseteq Keys
    /\ count \in [Keys -> 0..PolicyAttempts]
    /\ windowStart \in [Keys -> Times]
    /\ at \in [Handlers -> {"idle", "handler", "verify", "reset"}]
    /\ user \in [Handlers -> Users]
    /\ passed \in [Addresses -> SUBSET Stamps]
    /\ hits \in [Keys -> SUBSET Stamps]
    /\ spent \in [Keys -> SUBSET Stamps]
    /\ resets \in [Keys -> SUBSET Stamps]
    /\ retryAt \in [Addresses -> Int]
    /\ fresh \subseteq Users

LimitsInit ==
    /\ now = 0
    /\ windows = [a \in Addresses |-> {}]
    /\ entries = {}
    /\ count = [k \in Keys |-> 0]
    /\ windowStart = [k \in Keys |-> 0]
    /\ at = [w \in Handlers |-> "idle"]
    /\ user \in {[w \in Handlers |-> u] : u \in Users}
    /\ passed = [a \in Addresses |-> {}]
    /\ hits = [k \in Keys |-> {}]
    /\ spent = [k \in Keys |-> {}]
    /\ resets = [k \in Keys |-> {}]
    /\ retryAt = [a \in Addresses |-> NoRetry]
    /\ fresh = {}

LimitsTick ==
    /\ now < MaxTime
    /\ now' = now + 1
    /\ UNCHANGED <<windows, entries, count, windowStart, at, user, passed, quota, retryAt, fresh>>

-----------------------------------------------------------------------------
(* The middleware. *)

\* The entries allow keeps: those after the cutoff.
Valid(a) == After(windows[a], now - GeneralWindow)

\* Mutant: the seconds are truncated.
RetrySecondsTruncated(first) == (first[1] + GeneralWindow - now) \div TicksPerSecond

\* int(retryAfter.Seconds()) + 1, from the oldest entry.
RetrySeconds(first) == (first[1] + GeneralWindow - now) \div TicksPerSecond + 1

\* Mutant: one more than the limit gets through.
PassOneMore(w, a) ==
    /\ at[w] = "idle"
    /\ Cardinality(Valid(a)) <= GeneralLimit
    /\ windows' = [windows EXCEPT ![a] = Joined(Valid(a))]
    /\ passed' = [passed EXCEPT ![a] = Joined(After(@, now - GeneralWindow))]
    /\ retryAt' = [retryAt EXCEPT ![a] = NoRetry]
    /\ at' = [at EXCEPT ![w] = "handler"]
    /\ UNCHANGED <<now, entries, count, windowStart, user, quota, fresh>>

\* allow lets the request through.  An address that has no window gets one with
\* this request in it, which is the same for a limit of at least one.
Pass(w, a) ==
    /\ at[w] = "idle"
    /\ Cardinality(Valid(a)) < GeneralLimit
    /\ windows' = [windows EXCEPT ![a] = Joined(Valid(a))]
    /\ passed' = [passed EXCEPT ![a] = Joined(After(@, now - GeneralWindow))]
    /\ retryAt' = [retryAt EXCEPT ![a] = NoRetry]
    /\ at' = [at EXCEPT ![w] = "handler"]
    /\ UNCHANGED <<now, entries, count, windowStart, user, quota, fresh>>

\* 429 Too Many Requests, with Retry-After.
Block(a) ==
    /\ Cardinality(Valid(a)) >= GeneralLimit
    /\ windows' = [windows EXCEPT ![a] = Valid(a)]
    /\ \E first \in Valid(a) :
         /\ \A e \in Valid(a) : first[1] <= e[1]
         /\ retryAt' = [retryAt EXCEPT ![a] = now + RetrySeconds(first) * TicksPerSecond]
    /\ UNCHANGED <<now, entries, count, windowStart, at, user, passed, quota, fresh>>

-----------------------------------------------------------------------------
(* MemoryRateLimiter. *)

\* rollWindow finds the key's window expired.
Rolls(k) == Window > 0 /\ now - windowStart[k] >= Window

\* Mutant: the window starts again with every request.
BucketSlides(k) == [n |-> IF k \in entries /\ ~Rolls(k) THEN count[k] ELSE 0, start |-> now]

\* getOrCreate and rollWindow: the bucket Allow looks at.
Bucket(k) ==
    IF k \in entries /\ ~Rolls(k) THEN [n |-> count[k], start |-> windowStart[k]]
    ELSE [n |-> 0, start |-> now]

Kept(k, n) ==
    /\ entries' = entries \cup {k}
    /\ count' = [count EXCEPT ![k] = n]
    /\ windowStart' = [windowStart EXCEPT ![k] = Bucket(k).start]

\* Mutant: off by one.
AdmitsAtLimit(k) == Bucket(k).n <= PolicyAttempts

Admits(k) == Bucket(k).n < PolicyAttempts

\* The histories keep what the last window's time may still ask for.
Recorded(s) == Joined(After(s, now - Window))

Spent(k) ==
    /\ hits' = [hits EXCEPT ![k] = Recorded(@)]
    /\ spent' = [spent EXCEPT ![k] = Recorded(@)]
    /\ UNCHANGED resets

\* Mutant: the attempt that finds an expired window is not counted.
AllowedFree(k) ==
    /\ Admits(k)
    /\ Kept(k, IF k \in entries /\ Rolls(k) THEN 0 ELSE Bucket(k).n + 1)
    /\ Spent(k)

Allowed(k) ==
    /\ Admits(k)
    /\ Kept(k, Bucket(k).n + 1)
    /\ Spent(k)

OverLimit(k) == ~Admits(k) /\ Kept(k, Bucket(k).n) /\ UNCHANGED quota

\* Reset of several keys; those that have no bucket are left alone.
Reset(keys) ==
    /\ entries' = entries \ keys
    /\ count' = [k \in Keys |-> IF k \in keys THEN 0 ELSE count[k]]
    /\ windowStart' = [k \in Keys |-> IF k \in keys THEN 0 ELSE windowStart[k]]

-----------------------------------------------------------------------------
(* The handlers. *)

Become(w, step) == at' = [at EXCEPT ![w] = step]

\* SendOTP: what it does once it is allowed is the subject of OTP.
SendOTP(w, u) ==
    /\ at[w] = "handler"
    /\ \/ Allowed(<<"send", u>>) /\ fresh' = fresh \ {u}
       \/ OverLimit(<<"send", u>>) /\ UNCHANGED fresh
    /\ Become(w, "idle")
    /\ UNCHANGED <<now, windows, user, passed, retryAt>>

\* Any other request.
Other(w) ==
    /\ at[w] = "handler"
    /\ Become(w, "idle")
    /\ UNCHANGED <<now, windows, entries, count, windowStart, user, passed, quota, retryAt, fresh>>

VerifyOTP(w, u) ==
    /\ at[w] = "handler"
    /\ \/ Allowed(<<"fail", u>>) /\ Become(w, "verify")
       \/ OverLimit(<<"fail", u>>) /\ Become(w, "idle")
    /\ user' = [user EXCEPT ![w] = u]
    /\ UNCHANGED <<now, windows, passed, retryAt, fresh>>

\* The service's verdict on the code.
Verified(w) ==
    /\ at[w] = "verify"
    /\ Become(w, "reset") \/ Become(w, "idle")
    /\ UNCHANGED <<now, windows, entries, count, windowStart, user, passed, quota, retryAt, fresh>>

\* After a success: the bucket otp:fail:<hash> goes, and the bucket
\* otp:send:<hash>, which nobody has: SendOTP counts under the email.
ResetAfterVerify(w) ==
    /\ at[w] = "reset"
    /\ Reset({<<"fail", user[w]>>})
    /\ hits' = [hits EXCEPT ![<<"fail", user[w]>>] = {}]
    /\ resets' = [resets EXCEPT ![<<"fail", user[w]>>] = Recorded(@)]
    /\ UNCHANGED spent
    /\ fresh' = fresh \cup {user[w]}
    /\ Become(w, "idle")
    /\ UNCHANGED <<now, windows, user, passed, retryAt>>

Handling(w) ==
    \/ \E u \in Users : SendOTP(w, u) \/ VerifyOTP(w, u)
    \/ Other(w) \/ Verified(w) \/ ResetAfterVerify(w)

LimitsNext ==
    \/ LimitsTick
    \/ \E a \in Addresses : Block(a) \/ \E w \in Handlers : Pass(w, a)
    \/ \E w \in Handlers : Handling(w)

LimitsSpec == LimitsInit /\ [][LimitsNext]_limitVars

-----------------------------------------------------------------------------
(* Properties. *)

\* No address gets more than the limit through in any span of one window, wherever
\* the span starts (allow, with entries pruned at the cutoff).
GeneralBound ==
    \A a \in Addresses : Cardinality(After(passed[a], now - GeneralWindow)) <= GeneralLimit

\* A client that was told to come back after n seconds and does is let through,
\* unless other requests of its address got in first (Retry-After, RateLimit).
RetryAfterHonest ==
    \A a \in Addresses :
        retryAt[a] # NoRetry /\ now >= retryAt[a] => Cardinality(Valid(a)) < GeneralLimit

\* Fixed windows let through up to 2 * PolicyAttempts - 1 requests in one span of a
\* window across a boundary, because the first request of a window opens it, and
\* PolicyAttempts more for each Reset in that span, however its verification
\* overlaps the requests it forgets (Allow, rollWindow, Reset).
FixedBound ==
    Window > 0 =>
        \A k \in Keys :
            Cardinality(After(spent[k], now - Window))
                <= 2 * PolicyAttempts - 1
                     + PolicyAttempts * Cardinality(After(resets[k], now - Window))

\* Whoever used fewer than PolicyAttempts in the last window, counted from its last
\* Reset, is not refused (rollWindow, Reset: no leftover count, no window that
\* outlives its time).
NoFalseRefusal ==
    Window > 0 =>
        \A k \in Keys : Cardinality(After(hits[k], now - Window)) < PolicyAttempts => Admits(k)

\* What rate_limit.go:21 says of Reset, and VerifyOTP sets out to do: after a
\* successful verification the counter of sent codes starts anew.
VerifyClearsQuota == \A u \in fresh : <<"send", u>> \notin entries
=============================================================================
