# LOXTU: a verification project in TLA+

LOXTU is a multi-tenant web server in Go: people sign in with a one-time
password, a passkey or an OAuth provider, get a refresh session and see a
dashboard.  Its logic is short, but almost every operation is several database
queries with no transaction around them, run by goroutines that share tables,
maps and a connection pool.  This project models those operations query by
query, checks them with TLC on small instances and proves some of the results
with TLAPS for every size.

## The system

| part | source | state | operations |
|---|---|---|---|
| one-time passwords | `core/identity/otp_service.go`, `surrealdb/otp_repo.go`, `007_otp_codes.surrealql` | one row per user: code, expiry, attempts | Send, Verify |
| refresh sessions | `core/identity/token_service.go`, `session.go`, `surrealdb/session_repo.go`, `auth_handler.go` (Refresh, Logout) | table `sessions`; the browsers' two cookies | IssueSession, Rotate, RevokeAllForUser |
| passkeys | `core/identity/passkey_service.go`, `surrealdb/cred_repo.go`, `passkey_handler.go`, `passkey.js` | map of open ceremonies; tables `passkey_users`, `passkey_credentials` | Begin and Finish of registration and login |
| rate limiting | `middleware/ratelimit.go`, `adapters/ratelimit/memory.go`, `core/identity/rate_limit.go` | time stamps per address; buckets per key | allow; Allow, Reset |
| OAuth sign-in | `core/identity/oauth_service.go`, `surrealdb/oauth_repo.go`, `oauth_handler.go` | map of states; table `oauth_accounts`; a cookie | BeginAuth, Callback |
| CSRF | `middleware/csrf.go` | map of tokens; a cookie | issue on GET, redeem on POST |
| sign-in flow and pages | `auth_handler.go`, `auth_guard.go`, `passkey_handler.go`, `dashboard_handler.go`, `tenant_resolver.go`, `templates/auth`, `templates/dashboard` | the screens of the tabs, the browser's two cookies, tables `users`, `tenant` | LoginPage, SendOTP, VerifyOTP, ConsentPage, ConsentAccept, Skip, Callback, Refresh, Guard, Dashboard, Logout |
| accounts | `surrealdb/user_repo.go`, `security/keymanager.go`, `crypto.go`, `core/identity/user.go`, `001_users.surrealql` | table `users`; the copies callers hold | Create, FindByUserID, Update, Erase |
| connection pool | `surrealdb/pool.go` | channel of connections, closed flag | borrow, returnConn, reconnect, Query, CreateRecord, Close |
| audit store | `surrealdb/audit_repo.go` | bounded queue, five workers | LogSecurityEvent, Shutdown |
| lifecycle | `cmd/server/main.go`, `middleware/request_id.go` | the process, its requests | start, serve, signal, deferred Stop and Close, log.Fatal |
| the rest | hashing and ciphers, configuration, SMTP, Telegram, providers' HTTP, components, headers | none that outlives a request | pure functions and I/O |

How they interact.  A handler runs on its own goroutine, passes CSRF and the
per-address limit, calls one service after another and answers with cookies.
Every service reads and writes tables through the pool; one `Query` borrows a
connection, selects the tenant's namespace, runs one statement and, when the
connection broke, redials and runs the statement once more, so a statement
that was executed but not acknowledged may run twice.  Handlers hand audit
events to the queue.  `main` defers the queue's Stop and the pool's Close;
`ListenAndServe` returns as soon as `Shutdown` is *called*, so both may run
while handlers are still at work.

What is hard here: reads that are used after other requests changed the row;
DELETE and CREATE in place of an update; errors that are dropped; repeated
statements; answers posted twice or arriving after a newer one; windows that
roll over; a shutdown under load.  `PROJECT.json` lists each at its line under
"hazards".

### What makes each part correct

* OTP: a consumed, replaced or expired code is never usable again; the stored counter
  misses no wrong guess; sends that overlap leave a code.  (That the counter ends the
  guessing is what the code sets out to do and does not: see below.)
* Sessions: a rotated or revoked token never comes back; logout ends what stood
  when it began; the rows of an account do not pile up.
* Passkeys: a ceremony is redeemed once; a session goes to the owner of the key;
  a stored key stays usable; re-registration leaves the user with a key.
* Rate limits: no window lets more through than its kind allows, and a Reset buys one
  quota more; nobody who used less is refused; Retry-After is honest.
* OAuth: a state logs in once, in the browser that began; a session has a link; a
  restart forgets what it must.
* Pool: one caller per connection; the right namespace; every place of the channel
  accounted for; waiting callers are served.
* Audit: an accepted event is settled exactly once and before Shutdown returns.
* Sign-in: an address has one account, and a code form is for it; a dashboard shows
  the tenant of its user's address or the default one, whatever the other tabs do
  to the cookies.  That a session follows a code and a consent is nowhere enforced: the
  handlers act for whatever hash they are sent.
* Accounts: what was erased stays shredded, what was not keeps its key.
* Lifecycle: a signal ends the process; the queue is drained through an open pool;
  only log.Fatal forgets accepted events.

## The modules

| module | role |
|---|---|
| `OTP` | Send and Verify, one query a step |
| `Sessions` | login, Refresh, Logout and two browsers' cookies |
| `Passkeys`, abstract `Tickets` | ceremonies, the two tables, authenticators and browsers |
| `RateLimits` | the middleware's sliding window in front of the handlers' fixed windows |
| `OAuth`, abstract `Tickets` | states, cookies of the browsers, links, restarts; what a one-time ticket promises |
| `ConnPool`, abstract `Slots` | the pool, and what it promises about its places |
| `SignIn` | the pages, forms, cookies and handlers from the login screen to the dashboard |
| `Accounts` | the users table, its keys and the stale copies of its callers |
| `AuditQueue`, abstract `AuditTrail` | the queue, and what it promises about events |
| `Server`, which extends `AuditQueue` | the process around the queue: start, requests, signal, deferred calls |
| `*_proofs` | theorems about the module of that name; those of `AuditQueue` are in `Server_proofs`, those of `RateLimits`, which guards the one-time passwords, in `OTP_proofs` |
| `MC*` | the instances and their symmetry for TLC |

Conventions.  A worker is a goroutine serving a request; its `pc` names the next
query or call.  A step is one query together with the local code up to the
next one; code under a mutex is one step.  `Answered`, `Failed` and `Repeated`
are the outcomes of a query: `Failed` covers both an unexecuted statement and
one that ran without an answer, and `MaxFaults` bounds them.  Codes, tokens,
keys, handles and challenges are numbers or model values.  History variables
(named so where they are declared) only record what happened for a property to
speak of.  Operators marked *Mutant* are faulty variants of the definition
after them, used to see that a property notices; no behaviour uses them.

* **OTP.** `row` is the record of `otp_codes`; `held` and `read` are the code and
  the counter a request has read.  `StartSend`, `SaveDelete`, `SaveCreate`,
  `Deliver` are `Send`; `StartVerify`, `Get`, `Check`, `Purge`, `Increment`,
  `Consume` are `Verify`; the table event of `007_otp_codes.surrealql` is part of
  `Incremented`.  `AttemptsKind` is the Go type the driver decodes the counter to: the
  CBOR driver gives an integer, as `user_repo.go` and `cred_repo.go` expect, `Get` asks for
  a `float64`, and so `AttemptsRead` is 0.  The runs take the integer; the theorems hold for
  either.
* **Sessions.** `rows` is the table, `refresh` and `access` the cookies.  `StartLogin`,
  `RevokePrior`, `Create` and `Answer` are IssueSession and the response; `Find`,
  `RotateRevoke` and `FindUser` precede them in a rotation; `Resolve`,
  `LogoutRevoke`, `SkipRevoke` and `Clear` are Logout.  `AccessLapses` and `Expire` are
  the clock.
* **Passkeys.** `handle` and `creds` are the tables, `open` the sessions map, and
  `kind`, `chUser`, `chHandle`, `allowed` the fields of a ceremony.  `MakeKey` and
  `Sign` are the browser and its authenticator, the rest the two Begin and
  two Finish handlers.  The reads whose result the code throws away are left out
  (FinishRegistration overwrites the handle it looked up).  `sessions` counts, for each
  ceremony, the sessions `IssueSession` gave for it; `CeremonyTickets` reads drawn, open, held
  and used tickets off `kind`, `open`, the requests' `chal` and `sessions`.
* **RateLimits.** `windows` are the entries of the middleware, `count` and `windowStart`
  the buckets, `at` the handlers between the middleware and their service.  An entry, like
  the record of a request in a history, is a stamp `<<time, number>>`: the requests of one
  instant are numbered, so a slice of times is a set and its length a cardinality.  Three
  histories stand beside the buckets: `hits`, what was let through since a key's last Reset,
  `spent`, the same with nothing forgotten, and `resets`.  Time is in ticks, `TicksPerSecond` of them a second, so that the truncation in Retry-After
  shows.
* **OAuth.** `states` is the map, `cookie` the one cookie a browser has for all its tabs,
  `linkUser` the table.  `BeginAuth` and `Redirect` are the request and its answer;
  `Callback` compares the cookie, `Take`, `ExchangeCode`, `GetUserInfo` are CompleteAuth,
  `FindByProvider` and `CreateLink` are LinkOrCreate, `IssueSession` and `Answer` end the
  request.  A callback whose address is opened in another browser, or reloaded, is
  just another `Callback`.  `Restart` empties the map and ends the requests.  `StateTickets`
  is `Tickets` with the generated states drawn, those in the map open, those from `Take` to
  the session held, and `issued` their uses.
* **ConnPool.** `conns` is the channel, `phase` the progress of Close, `state` what
  became of each dialled connection.  `Slots` has no connections: a place is
  free, held or gone; `KeepsSlots` is the refinement.
* **SignIn.** A tab shows one screen; `form`, `shownEmail` and `shownUser` are the form
  in it and the values it shows, `access`, `jarUser`, `jarTenant` and `jarRefresh` the two
  cookies the tabs of a browser share.  `LoginShell` to `DashboardShell` are the templates,
  `SendOTP`, `FindUser`, `Create` and `SendCode` one handler, `VerifyOTP` and `Verified`
  another, `StartRefresh` and `Refreshed` a third.  Any tab may send a request with the hash of
  any user, whatever is on its screen.  `OAuthCallback` is the last part of the provider's
  callback: a session of the user "", which is what a first link has, and of the tenant
  of the address the provider gave.  Whether a code or a key is good is a choice here and
  decided in `OTP` and `Passkeys`; what is left of them are `live` codes and the browser's
  keys (`keyAt`); whether a refresh token's session still stands is a choice too (`Sessions`).
* **Accounts.** `hash`, `dek`, `cipher`, `status` and `locked` are columns of `users`, the
  `at` variables the caller's `identity.User`.  A ciphertext is the name of the key
  that sealed it, and the key made for an account has the account's name, so
  "can be opened" is an equation (`DecryptPII`).  A call is one query; `Outcome` lets it
  run again after other calls.
* **AuditQueue and Server.** `ch` is the channel, `inHand` what a worker writes.
  `AuditTrail` knows one fate per event; `KeepsTrail` is the refinement.  `Server` adds
  `main`, the step main is at, and `req`, the progress of each request: a request logs
  the event of its name.  `Notify` is the goroutine that starts to listen for signals; a signal
  before that kills the process.  `Stop`, `Stopped` and `ClosePool` are the deferred calls, in
  the order Go runs them.

## The runs

All passing runs are exhaustive.  `CHECK_DEADLOCK FALSE` everywhere but in `SignIn`: bounds
on codes, tokens, dials and time end every behaviour, and a server nobody calls, or one
that was shut down, rightly stops.

| run | bounds | shows |
|---|---|---|
| `OTP` | 2 workers, 2 codes, limit 3, 1 fault | dead codes stay dead and are not accepted; no wrong guess goes uncounted; sends leave a code |
| `Sessions` | 2 workers, 2 browsers, 3 pairs, 1 fault | rotated tokens gone; sessions bounded; logout cuts off |
| `Passkeys` | 2 users, 2 keys, 4 ceremonies, 2 handles, 2 workers, 1 fault | refinement of `Tickets`; sessions to owners; deleted keys stay deleted; keys match their handles |
| `RateLimits` | limits 2 and 2, windows of 2 and 3 ticks, 5 ticks, 2 handlers | exact window bounds, Resets counted, no false refusal, honest Retry-After |
| `OAuth` | 2 browsers, 2 identities, 2 workers, 3 flows, 1 restart, 1 fault | one session per state, where it was begun, never without a link; useless states stay useless; refinement of `Tickets` |
| `ConnPool` | 2 callers, 2 tenants, 1 place, 3 dials, fairness | exclusive connections, right namespace, refinement of `Slots`; waiting callers are served |
| `SignIn` | 2 tabs of 1 browser, 2 addresses, 2 users, 1 tenant besides "public", 1 fault | code forms and dashboards of the right account and tenant, with any hash in a request, callbacks and refreshes |
| `Server` | 3 requests, queue of 2, 2 workers, fairness | refinement of `AuditTrail` inside the process; writes through an open pool; events settle; a signal ends it |
| `Accounts` | 2 callers, 2 users, 2 emails, 1 fault | shredded for good; keys kept |

Why the bounds suffice.  The races need two requests at two different steps of
their handlers and, for replacement, two generations of a row; a third worker
repeats one of the two.  One fault shows every dropped error; two simultaneous
ones defeat even the repeated revocation, which `RotatedIsDead` states.  A window's
time and two ticks contain every position of a span across a boundary, and the bound with
a Reset in it is reached.  One place and three dials contain a wait, a loss and two
connections after each other in one call; with more places nothing waits that did not wait
before, and the safety of any number is proved.  Two tabs of one browser are what
shares cookies; the second address has no tenant, so that every tenant is confused
with another if one can be.  Three requests fill a queue of two with a worker busy.
What the bounds cannot show is proved for every size where a theorem is named below.

Fairness.  `Server` and `ConnPool` assume that the scheduler runs
every goroutine that can run (weak fairness of main, of each worker and of each
caller in the pool), that a blocked receive is served when connections come back
again and again (strong fairness of `Borrow`: Go's channels serve waiting receivers
in order), and that every statement ends, for it has a deadline.  Nothing assumes that
a client gives up, that a request arrives, that its handler ends or that a signal
comes.  All other runs check safety only.

### Where code and documents disagree

Three runs check one statement of the repository each and TLC refutes it:

| run | statement | what happens |
|---|---|---|
| `OTP_SingleUse` | a code is single-use | two overlapping Verifies accept it |
| `OTP_AttemptLimit` | a code that reached the limit of attempts is invalid | `Get` reads the counter as 0, so one worker may guess until the code expires |
| `OAuth_Apart` | LinkOrCreate returns the user, existing or new; one provider account is one user | no user is created: everybody is the user "" |

More statements of that kind stand at the end of the modules, quoted with their place.
The configurations `*_Documents.cfg` list those of a module; with
`tlc -continue -config X_Documents.cfg MCX.tla` TLC reports each of them in seconds
(for one state it names only the first that fails, so `LogNeverPanics`, which fails
with `OneLinePerRequest`, is seen when it comes first).  They are not among the
regular runs.

| configuration | statements the code does not keep |
|---|---|
| `OTP_Documents` | `SaveReplaces` (two Saves may meet), `DeletesWhatItJudged` |
| `Sessions_Documents` | `OneSessionPerUser`, `LogoutEndsSessions`, `LogoutRevokesToken` (the user is only found through the 15-minute cookie), `ExpiredNotRotated` |
| `Passkeys_Documents` | `EachDeviceKeepsItsKey`: registering a second device deletes the key of the first |
| `RateLimits_Documents` | `VerifyClearsQuota`: a verified code resets a counter that has another key |
| `ConnPool_Documents` | `ThreadSafe` (a return after Close panics), `CloseClosesAll` |
| `SignIn_Documents` | `ConsentFirst` ("required before first session": Skip, Register and the callback ask nobody), `SessionInTenant` (Skip and the passkey handlers sign everybody in to "public"), `AccountInTenant`, `TryAgain` (the form that says so names nobody) |
| `Server_Documents` | `GracefulShutdown` (nobody waits for `srv.Shutdown`), `OneLinePerRequest` and `LogNeverPanics` (a request that logs after Stop panics) |
| `Accounts_Documents` | `Readable` (Create stores a fresh key next to ciphertexts of another), `ErasedStatus` (a stale Update revives the status), `LockStays` (an Update of a copy forgets the lock) |

## What is proved

The theorems hold for every number of workers, callers, tabs, users, codes, tokens,
flows, events, restarts, faults, under the named assumptions of the modules: natural
bounds, distinct "none" values, a non-empty queue and pool, positive limits,
finite sets where a property counts (`Workers` of `OTP` and `Sessions`, `Callers` of
`ConnPool`).  Each
proof goes action by action over an inductive invariant; what is said here is what
that invariant adds to the property.

* **Types.** A `TypeCorrect` in each module; in `Server_proofs` it is about the process.
  `TypeOK` is inductive because it also says that a request that judges, stores or
  answers something carries one that was issued (`CarriesIssued` and its
  counterparts); without it, storing what a request carries could store nothing.
  The one of `RateLimits` is **LimitsTypeCorrect**.

`OTP_proofs`:

* **DeadStaysDead**, like `Sessions_proofs!DeadForever`.  A dead code or token is one
  that was issued, is not stored and that no request still has to CREATE.  The only steps
  that add a row add what their request carries, which by definition was not dead.
* **DeadNeverAccepted** strengthens that with: a request found doomed when it
  started either has not read a row yet or read one of another code.
* **CounterNeverBehind** (`CounterOK`): a code that is not stored yet has not been compared
  (`FreshOK`), and the stored one's counter was incremented before each comparison
  (`CountOK`).  It bounds nothing by itself: what is read of the counter is 0
  (`OTP_AttemptLimit`).
* **SendsLeaveACode.** `Sending`: once a Send began, a code is stored or a CREATE is
  still to come.  Of two Sends the one that deletes last also creates after that.

There too, of `RateLimits`, for all limits, windows, ticks, addresses and keys.  The
bounds are cardinalities of sets of stamps, so `Numbered` comes first: the stamps of an
instant are numbered without a gap, hence a new one is fresh and adds exactly one.

* **GeneralLimitHolds** (`SpansAgree`): the entries kept for an address are the let-through
  requests of the last window, so `allow` compares with the true number; a window that ends
  earlier was counted when its last request came.
* **RetryAfterIsHonest** (`RetryOK`): by the time of the answer at least one entry that was
  counted against the client has lapsed; the seconds, rounded down and then raised by one,
  reach that far (`SecondsCover`).
* **NobodyRefusedFalsely** (`BucketOK`): the requests since `windowStart` are `count` in
  number, and the bucket opened with a request; a refusal is backed by as many as the limit.
* **FixedWindowsBounded**: a span of one window that straddles a boundary meets at most two
  buckets, the first without its opening request (`Earlier`, at most the limit less one),
  hence twice the limit less one.  Each Reset in the span starts a bucket anew while the
  requests before it still count, and pays for them with one quota (`SpentOK`, `ResetOK`).

`Sessions_proofs`:

* **LogoutRevokesAll.** Nothing that stood when the logout started survives its DELETE and
  none of it is created again (`LogoutFacts`).
* **SessionsBounded.** The rows of an account are mapped one to one to the workers that
  have created since the last revocation (`Standing`).
* **RotationKillsToken.** Browsers and rotations hold *settled* tokens, which no request
  still has in hand to store (`Settled`, `MintedApart`); each of the two revocations
  of a rotation leaves a settled token dead or was itself the lost query, so it takes
  two faults to keep the old token (`RotationFacts`).

`OAuth_proofs`:

* **StateLogsInOnce.** `issued[s] <= 1` is not inductive.  `OnceOK` says that a
  state is in the map, or in the hands of one request, or used, or gone; `Take` moves it
  from the first to the second and `IssueSession` from the second to the third.
  **UselessForever** follows from the same step lemmas (`FlowStep`, `CarriesStep`,
  `IssuedStep`).
* **SessionsStayWithTheirBrowser.** Cookies and requests hold only states of
  their own browser (`OwnCookie`, `OwnRequest`); a state not yet generated has no session,
  so BeginAuth can name its browser.
* **SessionsHaveLinks.** A request about to issue has seen or written the row,
  and a row never changes.
* **StatesAreTickets**: the refinement of `Tickets`.  A state has one request at a time
  (`OnceOK`), so the end of one request forgets or uses exactly one ticket; a
  restart forgets them all.

`ConnPool_proofs`:

* **OneHolder** and **RoomToSend** need each other: `Accounted` says that the connections
  in the channel, the callers that hold one and the places given up add up to
  `MaxConns`, so a holder always finds room; that a connection is not also in the channel is
  `Exclusive`, with `Dialled` for the new ones of reconnect.
* **CreatesRunOnce** (`RunsSoFar`, what has run at each step of a call), **RunsInTheirTenant**
  (`InNamespace`: between USE and its statement a connection is nobody else's).
* **PoolKeepsSlots**: the refinement of `Slots`; every step moves one place between
  free, held and gone or none (`SlotStep`).

`Server_proofs`:

* **ServerRunsTheStore**: a behaviour of the process is one of `AuditQueue`.
* **NoEventTwice**: the queue, the workers' hands and the settled events are disjoint.
* **StoreKeepsTrail**: the refinement of `AuditTrail`, including that nothing is pending
  once Shutdown has returned.  `WorkersDrain`: a worker has ended only when the
  queue is closed and empty, and Shutdown returns only when all have.
* **PoolOutlivesTheQueue** (`ProcessInv`): between opening the pool and closing it main is
  only at steps where no request has logged or the queue is not yet drained.

`SignIn_proofs`:

* **FormsNameTheAsker** (`AccountOK`): the unique index keeps one account to an address,
  whatever two first sends do, and the handler that sends a code has its row.
* **BoardsOfTheirTenant** (`BoardOK`): a row is inserted with the tenant of its address or
  "public" and keeps both (`RowsStay`), so that a refresh, which takes the tenant from the row,
  and the other handlers, which take "public", only set cookies that are at home (`HomeOf`);
  a tab reads user and tenant of a cookie at once.

`Accounts_proofs`: **ErasedForGood** and **KeysKept** (`OwnKey`: a CREATE, even one that is sent
again, carries the key made for its account, and an UPDATE carries none).

`Passkeys_proofs`, whose invariant has six parts that use each other:

* **SessionsToOwners** (`Owned`): answers, requests and rows agree on the owner of a key,
  whichever of the lookups failed.
* **DeletedStaysDeleted** (`Redeemed`): a ceremony is open or in one request's hands, two
  registrations never share a key, and a key still to be stored was never deleted.
* **KeysMatchTheirHandle** (`OneHandle`): with one registration begun at a time, ceremonies,
  keys and the row have one handle.
* **SomeKeyIsLeft** (`KeyLeft`), **CountsNeverAhead** (`CountsBehind`: neither are the
  counts requests carry).
* **CeremoniesAreTickets**: the refinement of `Tickets`; `TakenOnce` makes each step of a
  request draw, hand out, use or forget one ticket (`TicketStep`).  **CeremonyLogsInOnce**
  is what that buys: at most one session a ceremony, shown of the steps of `Tickets` alone
  (`SpentOnce`).

Only model-checked: the liveness properties `Served`, `SettledUnlessFatal` and `SignalEnds`,
which hold under fairness and are out of the prover's reach.  That `EXTENDS` two
specifications side by side, as `OTP_proofs` does, adds no assumption to either: they
share no variable, and each theorem names its own specification.

## Not modelled

* Pure functions over bytes: hashing, AES-GCM, masking, JWT encoding, validation.
* I/O with no state of its own: SMTP, Telegram, the providers' HTTP calls, static assets.
* Rendering: the components, the detail panel, JSON variants of pages, icons.  The
  screens are in `SignIn` as the forms they carry.
* Single queries whose order matters to nobody: listing tenants, `GetEvents`, `LogEvent`.
* Code without a caller in the server: `RevokeByTokenHash`, `CleanupExpired`, `GetRemaining`,
  `DefaultRateLimitRules`, `oauth_manager.go`, `audit.Service`, `BeginRegistration` by
  email, the roles and permissions of `user.go`, `consent_templ.go` and `register_templ.go`.
* The CSRF middleware: all POST routes behind it are public but the provider's
  callback, whose form has no token, so no behaviour of the server redeems one;
  Apple's callback, which is posted, always ends there with 403.
* WebAuthn signatures are taken to be sound.  Ceremonies, OAuth states and CSRF tokens are
  never purged by the code; nothing bounds them, so nothing is checked.

## Plan

Done: all modules above, every safety property of the runs proved, four refinements checked
and proved (`Slots`, `AuditTrail`, and `Tickets` twice).

Left:

1. `SignIn` over the specifications of `OTP` and `Passkeys` (their promises as assumptions of
   the handlers, now a choice).
2. Larger instances: three workers for `Sessions`, two tenants with pages of their own.
