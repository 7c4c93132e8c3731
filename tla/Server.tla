------------------------------- MODULE Server -------------------------------
(***************************************************************************)
(* The life of the server process (cmd/server/main.go) around the audit      *)
(* store: main wires the parts, serves requests until a signal arrives, and  *)
(* runs its deferred calls; log.Fatal ends the process without them.         *)
(*                                                                         *)
(* Every request logs at most one security event, which has its name.  A    *)
(* handler that panics is stopped by chi's Recoverer, outside RequestID     *)
(* (middleware/request_id.go).  What srv.Shutdown waits for changes nothing: *)
(* main does not wait for the goroutine that calls it.                      *)
(***************************************************************************)
EXTENDS AuditQueue

VARIABLES
    main,       \* the step main is at, or how the process ended
    watching,   \* signal.Notify was called
    quitting,   \* the goroutine of main has called srv.Shutdown
    poolOpen,   \* NewPool has returned and Close was not called
    req,        \* the progress of each request
    lines       \* history: requests RequestID has written its line for

signals == <<watching, quitting>>
process == <<main, signals, poolOpen>>
requests == <<req, lines>>
svars == <<vars, process, requests>>

Starting == {"config", "pool", "keys", "webauthn", "listen"}
Stopping == {"stop", "drain", "close"}
Gone == {"exited", "fatal", "killed"}
Progress == {"none", "active", "logged", "failed", "answered"}

ServerTypeOK ==
    /\ TypeOK
    /\ main \in Starting \cup {"serving"} \cup Stopping \cup Gone
    /\ watching \in BOOLEAN /\ quitting \in BOOLEAN /\ poolOpen \in BOOLEAN
    /\ req \in [Events -> Progress]
    /\ lines \subseteq Events

ServerInit ==
    /\ Init
    /\ main = "config"
    /\ watching = FALSE
    /\ quitting = FALSE
    /\ poolOpen = FALSE
    /\ req = [r \in Events |-> "none"]
    /\ lines = {}

Alive == main \notin Gone
Serving == main = "serving" /\ ~quitting
InProgress == {r \in Events : req[r] \in {"active", "logged"}}

-----------------------------------------------------------------------------
(* main up to ListenAndServe. *)

\* A step of main that log.Fatal may end.
Proceed(from, to) ==
    /\ main = from
    /\ main' \in {to, "fatal"}

\* The secrets and the security configuration.
Configure ==
    /\ Proceed("config", "pool")
    /\ UNCHANGED <<vars, signals, poolOpen, requests>>

NewPool ==
    /\ Proceed("pool", "keys")
    /\ poolOpen' = (main' = "keys")
    /\ UNCHANGED <<vars, signals, requests>>

\* The key manager, the repositories and NewAuditRepo, which starts the workers.
NewRepos ==
    /\ Proceed("keys", "webauthn")
    /\ UNCHANGED <<vars, signals, poolOpen, requests>>

\* NewWebAuthn, the services, the handlers and the goroutine that waits for a
\* signal.
NewHandlers ==
    /\ Proceed("webauthn", "listen")
    /\ UNCHANGED <<vars, signals, poolOpen, requests>>

\* ListenAndServe opens the port, unless Shutdown was called before it.
Listen ==
    /\ IF quitting THEN main = "listen" /\ main' = "stop" ELSE Proceed("listen", "serving")
    /\ UNCHANGED <<vars, signals, poolOpen, requests>>

-----------------------------------------------------------------------------
(* Requests. *)

Accept(r) ==
    /\ Serving
    /\ req[r] = "none"
    /\ req' = [req EXCEPT ![r] = "active"]
    /\ UNCHANGED <<vars, process, lines>>

\* A handler logs its event; the send on a closed channel panics.
Log(r) ==
    /\ Alive
    /\ req[r] = "active"
    /\ LogSecurityEvent(r)
    /\ req' = [req EXCEPT ![r] = IF r \in panicked' THEN "failed" ELSE "logged"]
    /\ UNCHANGED <<process, lines>>

\* The handler returns, with or without an event, and RequestID writes its line.
RequestID(r) ==
    /\ Alive
    /\ r \in InProgress
    /\ req' = [req EXCEPT ![r] = "answered"]
    /\ lines' = lines \cup {r}
    /\ UNCHANGED <<vars, process>>

Work(w) ==
    /\ Alive
    /\ WorkerStep(w)
    /\ UNCHANGED <<process, requests>>

-----------------------------------------------------------------------------
(* The end. *)

\* The goroutine NewHandlers started gets to signal.Notify, whatever main does
\* meanwhile.
Notify ==
    /\ Alive /\ main \notin Starting \ {"listen"} /\ ~watching
    /\ watching' = TRUE
    /\ UNCHANGED <<vars, main, quitting, poolOpen, requests>>

\* Before signal.Notify a signal ends the process at once, later the goroutine
\* calls srv.Shutdown.
Signal ==
    /\ Alive /\ ~quitting
    /\ IF watching THEN quitting' = TRUE /\ UNCHANGED main
                   ELSE main' = "killed" /\ UNCHANGED quitting
    /\ UNCHANGED <<vars, watching, poolOpen, requests>>

\* ListenAndServe returns as soon as Shutdown is called, or with the error of an
\* Accept.
ServeReturns ==
    /\ main = "serving"
    /\ main' = IF quitting THEN "stop" ELSE "fatal"
    /\ UNCHANGED <<vars, signals, poolOpen, requests>>

\* Mutant: the pool is closed first.
StopPoolFirst ==
    /\ main = "stop" /\ CloseQueue
    /\ main' = "drain" /\ poolOpen' = FALSE
    /\ UNCHANGED <<signals, requests>>

\* The deferred calls, last one first: auditR.Stop, which closes the queue and
\* waits for the workers, and pool.Close.
Stop ==
    /\ main = "stop" /\ CloseQueue
    /\ main' = "drain"
    /\ UNCHANGED <<signals, poolOpen, requests>>

Stopped ==
    /\ main = "drain" /\ Waited
    /\ main' = "close"
    /\ UNCHANGED <<signals, poolOpen, requests>>

ClosePool ==
    /\ main = "close"
    /\ poolOpen' = FALSE
    /\ main' = "exited"
    /\ UNCHANGED <<vars, signals, requests>>

-----------------------------------------------------------------------------
Deferred == Stop \/ Stopped \/ ClosePool

Startup == Configure \/ NewPool \/ NewRepos \/ NewHandlers \/ Listen

ServerNext ==
    \/ Startup
    \/ \E r \in Events : Accept(r) \/ Log(r) \/ RequestID(r)
    \/ \E w \in Workers : Work(w)
    \/ Notify \/ Signal \/ ServeReturns \/ Deferred

\* Main and the workers run; nothing makes a request arrive or its handler end.
ServerFairness ==
    /\ WF_svars(Startup)
    /\ WF_svars(ServeReturns /\ quitting)
    /\ WF_svars(Deferred)
    /\ \A w \in Workers : WF_svars(Work(w))

ServerSpec == ServerInit /\ [][ServerNext]_svars /\ ServerFairness

-----------------------------------------------------------------------------
(* What holds of the code. *)

\* The workers write through an open pool: it is closed only after the queue was
\* drained, although requests may still be served and log (main.go 66, 78).
WrittenThroughOpenPool == Accepted # {} => poolOpen

\* Every accepted event is settled, also those in the queue when the signal
\* comes; only an end that skips the deferred calls forgets them: log.Fatal, or a
\* signal before signal.Notify (audit_repo.go 56-71, main.go 78, 212-228).
SettledUnlessFatal ==
    \A e \in Events : e \in Accepted ~> (e \in Settled \/ main \in {"fatal", "killed"})

\* A signal ends the process, whatever the requests do (main.go 212-230): no
\* deferred call waits for something that does not happen.
SignalEnds == quitting ~> main \in Gone

-----------------------------------------------------------------------------
(* What the repository says and the code does not do. *)

\* main.go:203 "graceful shutdown": the process leaves requests unanswered that
\* srv.Shutdown is still waiting for.
GracefulShutdown == main = "exited" => InProgress = {}

\* request_id.go:41 "emits one JSON-ish line per request": a request that panics
\* has none.
OneLinePerRequest == \A r \in Events : req[r] = "failed" => r \in lines
=============================================================================
