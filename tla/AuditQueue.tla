---------------------------- MODULE AuditQueue ----------------------------
(***************************************************************************)
(* The audit store: AuditRepo.LogSecurityEvent, the worker goroutines and   *)
(* Shutdown (adapters/persistence/surrealdb/audit_repo.go).                 *)
(*                                                                         *)
(* The channel ch is a sequence.  writeSecurity is one step that writes the *)
(* event or loses it; what happens inside it is ConnPool's subject.  Server *)
(* composes the store with the process it lives in.                         *)
(***************************************************************************)
EXTENDS Integers, Sequences, FiniteSets

CONSTANTS
    Events,         \* events the handlers log, each once
    NoEvent,        \* an idle worker's event
    Workers,        \* the goroutines Start launches (auditWorkerCount)
    QueueSize       \* capacity of ch (auditQueueSize)

ASSUME NoEventAssumption == NoEvent \notin Events
ASSUME WorkerAssumption == Workers # {}
ASSUME QueueAssumption == QueueSize \in Nat \ {0}

VARIABLES
    ch,         \* the events queued, oldest first
    phase,      \* of Shutdown: "open", "closing" once ch is closed, "done" after wg.Wait
    inHand,     \* the event each worker writes
    exited,     \* workers whose range loop has ended
    refused,    \* history: events LogSecurityEvent returned an error for
    panicked,   \* history: events sent on the closed channel
    written,    \* history: events stored in security_audit
    lost        \* history: events whose write failed

queue   == <<ch, phase>>
work    == <<inHand, exited>>
history == <<refused, panicked, written, lost>>
vars    == <<queue, work, history>>

Queued == {ch[i] : i \in DOMAIN ch}
InHands == {inHand[w] : w \in Workers} \ {NoEvent}
Accepted == Queued \cup InHands
Settled == written \cup lost
Logged == Accepted \cup Settled \cup refused \cup panicked

TypeOK ==
    /\ ch \in Seq(Events) /\ Len(ch) <= QueueSize
    /\ phase \in {"open", "closing", "done"}
    /\ inHand \in [Workers -> Events \cup {NoEvent}]
    /\ exited \subseteq Workers
    /\ \A H \in {refused, panicked, written, lost} : H \subseteq Events

Init ==
    /\ ch = <<>>
    /\ phase = "open"
    /\ inHand = [w \in Workers |-> NoEvent]
    /\ exited = {}
    /\ refused = {} /\ panicked = {} /\ written = {} /\ lost = {}

-----------------------------------------------------------------------------
\* LogSecurityEvent: one select, never waiting.  It refuses when the queue is
\* full or the request's context is done; nothing asks whether ch was closed.
LogSecurityEvent(e) ==
    /\ e \notin Logged
    /\ \/ /\ phase = "open" /\ Len(ch) < QueueSize
          /\ ch' = Append(ch, e)
          /\ UNCHANGED history
       \/ /\ refused' = refused \cup {e}
          /\ UNCHANGED <<ch, panicked, written, lost>>
       \/ /\ phase # "open"
          /\ panicked' = panicked \cup {e}
          /\ UNCHANGED <<ch, refused, written, lost>>
    /\ UNCHANGED <<phase, work>>

Idle(w) == w \notin exited /\ inHand[w] = NoEvent

\* worker: the next event of the range loop, also after the channel was closed.
Receive(w) ==
    /\ Idle(w) /\ ch # <<>>
    /\ inHand' = [inHand EXCEPT ![w] = Head(ch)]
    /\ ch' = Tail(ch)
    /\ UNCHANGED <<phase, exited, history>>

\* writeSecurity: an error, or the end of its 5 seconds, is only logged.
WriteSecurity(w) ==
    /\ inHand[w] # NoEvent
    /\ \/ written' = written \cup {inHand[w]} /\ UNCHANGED lost
       \/ lost' = lost \cup {inHand[w]} /\ UNCHANGED written
    /\ inHand' = [inHand EXCEPT ![w] = NoEvent]
    /\ UNCHANGED <<queue, exited, refused, panicked>>

\* Mutant: workers stop as soon as the channel is closed.
ExitAtOnce(w) ==
    /\ Idle(w) /\ phase # "open"
    /\ exited' = exited \cup {w}
    /\ UNCHANGED <<queue, inHand, history>>

\* Mutant: Shutdown sends one stop message, which one worker receives.
ExitFirst(w) ==
    /\ Idle(w) /\ phase # "open" /\ ch = <<>> /\ exited = {}
    /\ exited' = exited \cup {w}
    /\ UNCHANGED <<queue, inHand, history>>

\* The range loop ends on a channel that is closed and empty.
Exit(w) ==
    /\ Idle(w) /\ phase # "open" /\ ch = <<>>
    /\ exited' = exited \cup {w}
    /\ UNCHANGED <<queue, inHand, history>>

-----------------------------------------------------------------------------
\* Shutdown up to the unlock.
CloseQueue ==
    /\ phase = "open"
    /\ phase' = "closing"
    /\ UNCHANGED <<ch, work, history>>

\* Mutant: Shutdown returns without wg.Wait.
NoWait ==
    /\ phase = "closing"
    /\ phase' = "done"
    /\ UNCHANGED <<ch, work, history>>

\* wg.Wait returns.
Waited ==
    /\ phase = "closing" /\ exited = Workers
    /\ phase' = "done"
    /\ UNCHANGED <<ch, work, history>>

WorkerStep(w) == Receive(w) \/ WriteSecurity(w) \/ Exit(w)

Next ==
    \/ \E e \in Events : LogSecurityEvent(e)
    \/ \E w \in Workers : WorkerStep(w)
    \/ CloseQueue \/ Waited

Spec == Init /\ [][Next]_vars

-----------------------------------------------------------------------------
(* What holds of the code. *)

\* An accepted event is in one place, and only until it is settled: two workers
\* never write the same event (audit_repo.go 86-91).
OnePlace ==
    /\ \A i, j \in DOMAIN ch : ch[i] = ch[j] => i = j
    /\ \A v, w \in Workers : inHand[v] = inHand[w] /\ inHand[v] # NoEvent => v = w
    /\ Queued \cap InHands = {}
    /\ Accepted \cap (Settled \cup refused \cup panicked) = {}

\* The store keeps AuditTrail's promise; in particular Shutdown returns only when
\* every accepted event was written or its write had failed.
Fate(e) ==
    IF e \in written THEN "written"
    ELSE IF e \in lost THEN "lost"
    ELSE IF e \in Accepted THEN "accepted"
    ELSE IF e \in refused \cup panicked THEN "refused"
    ELSE "new"
Trail == INSTANCE AuditTrail WITH fate <- [e \in Events |-> Fate(e)], stopped <- phase = "done"
KeepsTrail == Trail!TrailSpec

-----------------------------------------------------------------------------
(* What the repository says and the code does not do. *)

\* audit_repo.go:73 "queues a security event (non-blocking; drops if full)": a
\* request still being served when Shutdown closes the queue panics instead.
LogNeverPanics == panicked = {}
=============================================================================
