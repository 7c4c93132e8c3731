--------------------------- MODULE Server_proofs ---------------------------
(***************************************************************************)
(* Theorems of AuditQueue and Server, for any number of requests, workers    *)
(* and places in the queue: the store implements AuditTrail inside the       *)
(* process, an event is in one place, and the pool is open while it is.      *)
(***************************************************************************)
EXTENDS Server, TLAPS

(***************************************************************************)
(* A worker has ended only when the queue is closed and empty, and Shutdown  *)
(* has returned only when all have.                                         *)
(***************************************************************************)
WorkersDrain ==
    /\ \A w \in exited : inHand[w] = NoEvent /\ ch = <<>> /\ phase # "open"
    /\ phase = "done" => exited = Workers

StoreInv == TypeOK /\ OnePlace /\ WorkersDrain

(***************************************************************************)
(* A send adds its event to the ones queued, once.                          *)
(***************************************************************************)
LEMMA SendAdds ==
    ASSUME TypeOK, OnePlace, NEW e \in Events, e \notin Queued, ch' = Append(ch, e)
    PROVE  /\ ch' \in Seq(Events)
           /\ Len(ch') = Len(ch) + 1
           /\ Queued' = Queued \cup {e}
           /\ \A i, j \in DOMAIN ch' : ch'[i] = ch'[j] => i = j
<1>1. ch \in Seq(Events)
  BY DEF TypeOK
<1>2. ch' \in Seq(Events) /\ Len(ch') = Len(ch) + 1
  BY <1>1
<1>3. \A i \in 1..Len(ch) : ch'[i] = ch[i]
  BY <1>1
<1>4. ch'[Len(ch) + 1] = e
  BY <1>1
<1>5. DOMAIN ch = 1..Len(ch) /\ DOMAIN ch' = 1..(Len(ch) + 1) /\ Len(ch) \in Nat
  BY <1>1, <1>2
<1>6. Queued' = Queued \cup {e}
  BY <1>3, <1>4, <1>5 DEF Queued
<1>7. \A i, j \in DOMAIN ch' : ch'[i] = ch'[j] => i = j
  <2>1. \A i, j \in 1..Len(ch) : ch[i] = ch[j] => i = j
    BY <1>5 DEF OnePlace
  <2>2. \A i \in 1..Len(ch) : ch[i] # e
    BY <1>5 DEF Queued
  <2> QED
    BY <1>3, <1>4, <1>5, <2>1, <2>2
<1> QED
  BY <1>2, <1>6, <1>7

(***************************************************************************)
(* A receive removes the oldest event, and only that one.                   *)
(***************************************************************************)
LEMMA ReceiveRemoves ==
    ASSUME TypeOK, OnePlace, ch # <<>>, ch' = Tail(ch)
    PROVE  /\ Head(ch) \in Events
           /\ ch' \in Seq(Events)
           /\ Len(ch') <= Len(ch)
           /\ Head(ch) \notin Queued'
           /\ Queued = Queued' \cup {Head(ch)}
           /\ \A i, j \in DOMAIN ch' : ch'[i] = ch'[j] => i = j
<1>1. ch \in Seq(Events)
  BY DEF TypeOK
<1>2. /\ Head(ch) \in Events /\ Head(ch) = ch[1]
      /\ ch' \in Seq(Events) /\ Len(ch') = Len(ch) - 1 /\ Len(ch) \in Nat \ {0}
  BY <1>1
<1>3. \A i \in 1..Len(ch') : ch'[i] = ch[i + 1]
  BY <1>1
<1>4. DOMAIN ch = 1..Len(ch) /\ DOMAIN ch' = 1..(Len(ch) - 1)
  BY <1>1, <1>2
<1>5. \A i, j \in 1..Len(ch) : ch[i] = ch[j] => i = j
  BY <1>4 DEF OnePlace
<1>6. Head(ch) \notin Queued'
  BY <1>2, <1>3, <1>4, <1>5 DEF Queued
<1>7. Queued = Queued' \cup {Head(ch)}
  <2>1. ASSUME NEW x \in Queued PROVE x \in Queued' \cup {Head(ch)}
    <3>1. PICK i \in 1..Len(ch) : x = ch[i]
      BY <1>4, <2>1 DEF Queued
    <3>2. CASE i = 1
      BY <1>2, <3>1, <3>2
    <3>3. CASE i # 1
      <4>1. i - 1 \in DOMAIN ch' /\ ch'[i - 1] = x
        BY <1>2, <1>3, <1>4, <3>1, <3>3
      <4> QED
        BY <4>1 DEF Queued
    <3> QED
      BY <3>2, <3>3
  <2>2. Queued' \subseteq Queued
    BY <1>2, <1>3, <1>4 DEF Queued
  <2>3. Head(ch) \in Queued
    BY <1>2, <1>4 DEF Queued
  <2> QED
    BY <2>1, <2>2, <2>3
<1>8. \A i, j \in DOMAIN ch' : ch'[i] = ch'[j] => i = j
  BY <1>2, <1>3, <1>4, <1>5
<1> QED
  BY <1>2, <1>6, <1>7, <1>8

-----------------------------------------------------------------------------
(* The store. *)

LEMMA StoreInit == Init => StoreInv
BY QueueAssumption, WorkerAssumption
   DEF Init, StoreInv, TypeOK, OnePlace, WorkersDrain, Queued, InHands, Accepted, Settled

LEMMA LogKeeps == ASSUME StoreInv, NEW e \in Events, LogSecurityEvent(e) PROVE StoreInv'
<1> USE DEF StoreInv
<1>1. e \notin Accepted /\ e \notin Settled /\ e \notin refused /\ e \notin panicked
  BY DEF LogSecurityEvent, Logged
<1>2. UNCHANGED <<phase, inHand, exited>> /\ InHands' = InHands
  BY DEF LogSecurityEvent, work, InHands
<1>3. CASE phase = "open" /\ Len(ch) < QueueSize /\ ch' = Append(ch, e) /\ UNCHANGED history
  <2>1. /\ ch' \in Seq(Events) /\ Len(ch') = Len(ch) + 1 /\ Queued' = Queued \cup {e}
        /\ \A i, j \in DOMAIN ch' : ch'[i] = ch'[j] => i = j
    BY <1>1, <1>3, SendAdds DEF Accepted
  <2>2. TypeOK'
    BY <1>2, <1>3, <2>1, QueueAssumption DEF TypeOK, history
  <2>3. OnePlace'
    <3>1. Accepted' = Accepted \cup {e}
      BY <1>2, <2>1 DEF Accepted
    <3>2. Settled' = Settled /\ refused' = refused /\ panicked' = panicked
      BY <1>3 DEF Settled, history
    <3>3. Queued' \cap InHands' = {}
      BY <1>1, <1>2, <2>1 DEF OnePlace, Accepted
    <3> QED
      BY <1>1, <1>2, <2>1, <3>1, <3>2, <3>3 DEF OnePlace
  <2>4. WorkersDrain'
    BY <1>2, <1>3 DEF WorkersDrain
  <2> QED
    BY <2>2, <2>3, <2>4
<1>4. CASE ch' = ch /\ refused' \cup panicked' = refused \cup panicked \cup {e}
           /\ refused' \subseteq refused \cup {e} /\ panicked' \subseteq panicked \cup {e}
           /\ UNCHANGED <<written, lost>>
  <2>1. TypeOK'
    BY <1>2, <1>4 DEF TypeOK
  <2>2. Queued' = Queued /\ Accepted' = Accepted /\ Settled' = Settled
    BY <1>2, <1>4 DEF Queued, Accepted, Settled
  <2>3. OnePlace'
    BY <1>1, <1>2, <1>4, <2>2 DEF OnePlace
  <2>4. WorkersDrain'
    BY <1>2, <1>4 DEF WorkersDrain
  <2> QED
    BY <2>1, <2>3, <2>4
<1> QED
  BY <1>3, <1>4 DEF LogSecurityEvent

LEMMA ReceiveKeeps == ASSUME StoreInv, NEW w \in Workers, Receive(w) PROVE StoreInv'
<1> USE DEF StoreInv
<1>1. /\ Idle(w) /\ ch # <<>> /\ ch' = Tail(ch)
      /\ inHand' = [inHand EXCEPT ![w] = Head(ch)]
      /\ UNCHANGED <<phase, exited, refused, panicked, written, lost>>
  BY DEF Receive, history
<1>2. /\ Head(ch) \in Events /\ ch' \in Seq(Events) /\ Len(ch') <= Len(ch)
      /\ Head(ch) \notin Queued' /\ Queued = Queued' \cup {Head(ch)}
      /\ \A i, j \in DOMAIN ch' : ch'[i] = ch'[j] => i = j
  BY <1>1, ReceiveRemoves
<1>3. inHand \in [Workers -> Events \cup {NoEvent}]
  BY DEF TypeOK
<1>4. TypeOK'
  <2>1. Len(ch') \in Nat /\ Len(ch) \in Nat /\ QueueSize \in Nat
    BY <1>2, QueueAssumption DEF TypeOK
  <2>2. Len(ch') <= QueueSize
    BY <1>2, <2>1 DEF TypeOK
  <2>3. inHand' \in [Workers -> Events \cup {NoEvent}]
    BY <1>1, <1>2, <1>3
  <2> QED
    BY <1>1, <1>2, <2>2, <2>3 DEF TypeOK
<1>5. InHands' = InHands \cup {Head(ch)}
  <2>1. \A v \in Workers : inHand'[v] = IF v = w THEN Head(ch) ELSE inHand[v]
    BY <1>1, <1>3
  <2>2. Head(ch) # NoEvent /\ inHand[w] = NoEvent
    BY <1>1, <1>2, NoEventAssumption DEF Idle
  <2> QED
    BY <2>1, <2>2 DEF InHands
<1>6. OnePlace'
  <2>1. Accepted' = Accepted
    BY <1>2, <1>5 DEF Accepted
  <2>2. Settled' = Settled
    BY <1>1 DEF Settled
  <2>3. Queued' \cap InHands' = {}
    BY <1>2, <1>5 DEF OnePlace
  <2>4. Head(ch) \notin InHands
    BY <1>2 DEF OnePlace
  <2>5. \A u, v \in Workers : inHand'[u] = inHand'[v] /\ inHand'[u] # NoEvent => u = v
    <3>1. \A v \in Workers : inHand[v] # Head(ch)
      BY <1>2, <2>4, NoEventAssumption DEF InHands
    <3> QED
      BY <1>1, <1>3, <3>1 DEF OnePlace
  <2> QED
    BY <1>1, <1>2, <2>1, <2>2, <2>3, <2>5 DEF OnePlace
<1>7. WorkersDrain'
  BY <1>1, <1>3 DEF WorkersDrain, Idle, TypeOK
<1> QED
  BY <1>4, <1>6, <1>7

LEMMA WriteKeeps == ASSUME StoreInv, NEW w \in Workers, WriteSecurity(w) PROVE StoreInv'
<1> USE DEF StoreInv
<1>1. /\ inHand[w] # NoEvent
      /\ inHand' = [inHand EXCEPT ![w] = NoEvent]
      /\ UNCHANGED <<ch, phase, exited, refused, panicked>>
      /\ written' \cup lost' = Settled \cup {inHand[w]}
      /\ written' \subseteq written \cup {inHand[w]} /\ lost' \subseteq lost \cup {inHand[w]}
  BY DEF WriteSecurity, queue, Settled
<1>2. inHand \in [Workers -> Events \cup {NoEvent}] /\ inHand[w] \in Events
  BY <1>1 DEF TypeOK
<1>3. TypeOK'
  BY <1>1, <1>2 DEF TypeOK
<1>4. InHands' = InHands \ {inHand[w]}
  <2>1. \A v \in Workers : inHand'[v] = IF v = w THEN NoEvent ELSE inHand[v]
    BY <1>1, <1>2
  <2>2. \A v \in Workers : inHand[v] = inHand[w] => v = w
    BY <1>1 DEF OnePlace
  <2> QED
    BY <2>1, <2>2 DEF InHands
<1>5. Queued' = Queued /\ inHand[w] \in InHands
  BY <1>1 DEF Queued, InHands
<1>6. Accepted' = Accepted \ {inHand[w]}
  BY <1>4, <1>5 DEF Accepted, OnePlace
<1>7. OnePlace'
  <2>1. \A u, v \in Workers : inHand'[u] = inHand'[v] /\ inHand'[u] # NoEvent => u = v
    BY <1>1, <1>2 DEF OnePlace
  <2>2. Settled' = Settled \cup {inHand[w]}
    BY <1>1 DEF Settled
  <2>3. Queued' \cap InHands' = {}
    BY <1>4, <1>5 DEF OnePlace
  <2> QED
    BY <1>1, <1>6, <2>1, <2>2, <2>3 DEF OnePlace
<1>8. WorkersDrain'
  BY <1>1, <1>2 DEF WorkersDrain, TypeOK
<1> QED
  BY <1>3, <1>7, <1>8

\* The steps that touch no event.
LEMMA PhaseKeeps ==
    ASSUME StoreInv, (\E w \in Workers : Exit(w)) \/ CloseQueue \/ Waited
    PROVE  StoreInv' /\ Accepted' = Accepted /\ UNCHANGED <<ch, inHand, history>>
<1> USE DEF StoreInv
<1>1. UNCHANGED <<ch, inHand, history>>
  BY DEF Exit, CloseQueue, Waited, queue, work
<1>2. Queued' = Queued /\ InHands' = InHands /\ Accepted' = Accepted /\ Settled' = Settled
  BY <1>1 DEF Queued, InHands, Accepted, Settled, history
<1>3. TypeOK'
  BY <1>1 DEF TypeOK, Exit, CloseQueue, Waited, queue, work, history
<1>4. OnePlace'
  BY <1>1, <1>2 DEF OnePlace, history
<1>5. WorkersDrain'
  BY <1>1 DEF WorkersDrain, Exit, Idle, CloseQueue, Waited, queue, work, TypeOK
<1> QED
  BY <1>1, <1>2, <1>3, <1>4, <1>5

LEMMA StoreStep == ASSUME StoreInv, [Next]_vars PROVE StoreInv'
<1>1. CASE UNCHANGED vars
  BY <1>1 DEF vars, queue, work, history, StoreInv, TypeOK, OnePlace, WorkersDrain,
     Queued, InHands, Accepted, Settled
<1>2. CASE Next
  BY <1>2, LogKeeps, ReceiveKeeps, WriteKeeps, PhaseKeeps DEF Next, WorkerStep
<1> QED
  BY <1>1, <1>2

-----------------------------------------------------------------------------
(* The store keeps AuditTrail's promise. *)

Fates == [e \in Events |-> Fate(e)]

LEMMA FateCases ==
    ASSUME StoreInv, NEW e \in Events
    PROVE  /\ e \in written \/ e \in lost => Fate(e) \in {"written", "lost"}
           /\ e \in Accepted => Fate(e) = "accepted"
           /\ e \in refused \cup panicked => e \in Settled \/ Fate(e) = "refused"
           /\ e \notin Logged => Fate(e) = "new"
<1>1. e \in Accepted => e \notin written /\ e \notin lost
  BY DEF StoreInv, OnePlace, Settled
<1>2. e \notin Logged => /\ e \notin Accepted /\ e \notin written /\ e \notin lost
                         /\ e \notin refused \cup panicked
  BY DEF Logged, Settled
<1>3. e \in refused \cup panicked => e \notin Accepted
  BY DEF StoreInv, OnePlace
<1> QED
  BY <1>1, <1>2, <1>3 DEF Fate, Settled

\* A step leaves the fate of an event alone when it leaves its sets alone.
LEMMA FateKept ==
    ASSUME NEW e \in Events, e \in Accepted' <=> e \in Accepted,
           e \in written' <=> e \in written, e \in lost' <=> e \in lost,
           e \in refused' \cup panicked' <=> e \in refused \cup panicked
    PROVE  Fate(e)' = Fate(e)
BY DEF Fate

LEMMA LogDecides ==
    ASSUME StoreInv, NEW e \in Events, LogSecurityEvent(e) PROVE Trail!TrailNext
<1>1. StoreInv'
  BY LogKeeps
<1>2. e \notin Logged /\ UNCHANGED <<phase, inHand, exited>>
  BY DEF LogSecurityEvent, work
<1>3. Fate(e) = "new"
  BY <1>2, FateCases
<1>4. InHands' = InHands
  BY <1>2 DEF InHands
<1>5. /\ Accepted' \ {e} = Accepted \ {e} /\ written' = written /\ lost' = lost
      /\ (refused' \cup panicked') \ {e} = (refused \cup panicked) \ {e}
      /\ Fate(e)' \in {"accepted", "refused"} /\ (Fate(e)' = "accepted" => phase = "open")
  <2>1. CASE phase = "open" /\ Len(ch) < QueueSize /\ ch' = Append(ch, e) /\ UNCHANGED history
    <3>1. Queued' = Queued \cup {e}
      BY <1>2, <2>1, SendAdds DEF StoreInv, Logged, Accepted
    <3>2. Accepted' = Accepted \cup {e}
      BY <1>4, <3>1 DEF Accepted
    <3>3. Fate(e)' = "accepted"
      <4>1. e \in Accepted' /\ e \notin written' /\ e \notin lost'
        BY <1>2, <2>1, <3>2 DEF Logged, Settled, history
      <4> QED
        BY <4>1 DEF Fate
    <3> QED
      BY <2>1, <3>2, <3>3 DEF history
  <2>2. CASE /\ ch' = ch /\ UNCHANGED <<written, lost>>
             /\ \/ refused' = refused \cup {e} /\ panicked' = panicked
                \/ panicked' = panicked \cup {e} /\ refused' = refused
    <3>1. Accepted' = Accepted
      BY <1>4, <2>2 DEF Accepted, Queued
    <3>2. Fate(e)' = "refused"
      <4>1. e \in refused' \cup panicked' /\ e \notin Accepted' /\ e \notin written' /\ e \notin lost'
        BY <1>2, <2>2, <3>1 DEF Logged, Settled
      <4> QED
        BY <4>1 DEF Fate
    <3> QED
      BY <2>2, <3>1, <3>2
  <2> QED
    BY <2>1, <2>2 DEF LogSecurityEvent
<1>6. \A d \in Events \ {e} : Fate(d)' = Fate(d)
  BY <1>5, FateKept
<1>7. \E f \in {"accepted", "refused"} : Fates' = [Fates EXCEPT ![e] = f]
  BY <1>5, <1>6 DEF Fates
<1>8. Fates'[e] = "accepted" => phase # "done"
  BY <1>5 DEF Fates
<1>9. Trail!Decide(e)
  BY <1>2, <1>3, <1>7, <1>8 DEF Trail!Decide, Fates
<1> QED
  BY <1>9 DEF Trail!TrailNext

LEMMA WriteSettles ==
    ASSUME StoreInv, NEW w \in Workers, WriteSecurity(w) PROVE Trail!TrailNext
<1> PICK e : e = inHand[w]
  OBVIOUS
<1>1. /\ e # NoEvent /\ inHand' = [inHand EXCEPT ![w] = NoEvent]
      /\ UNCHANGED <<ch, phase, exited, refused, panicked>>
      /\ \/ written' = written \cup {e} /\ lost' = lost
         \/ lost' = lost \cup {e} /\ written' = written
  BY DEF WriteSecurity, queue
<1>2. inHand \in [Workers -> Events \cup {NoEvent}] /\ e \in Events
  BY <1>1 DEF StoreInv, TypeOK
<1>3. e \in Accepted /\ Fate(e) = "accepted"
  BY <1>1, <1>2, FateCases DEF Accepted, InHands
<1>4. Fate(e)' \in {"written", "lost"}
  BY <1>1 DEF Fate
<1>5. InHands' \ {e} = InHands \ {e}
  <2>1. \A v \in Workers : inHand'[v] = IF v = w THEN NoEvent ELSE inHand[v]
    BY <1>1, <1>2
  <2> QED
    BY <2>1 DEF InHands
<1>6. Accepted' \ {e} = Accepted \ {e}
  BY <1>1, <1>5 DEF Accepted, Queued
<1>7. \A d \in Events \ {e} : Fate(d)' = Fate(d)
  BY <1>1, <1>6, FateKept
<1>8. \E f \in {"written", "lost"} : Fates' = [Fates EXCEPT ![e] = f]
  BY <1>2, <1>4, <1>7 DEF Fates
<1>9. Trail!Settle(e)
  BY <1>1, <1>2, <1>3, <1>8 DEF Trail!Settle, Trail!Settled, Fates
<1> QED
  BY <1>2, <1>9 DEF Trail!TrailNext

LEMMA ReceiveStutters ==
    ASSUME StoreInv, NEW w \in Workers, Receive(w) PROVE UNCHANGED <<Fates, phase>>
<1>1. /\ Idle(w) /\ ch # <<>> /\ ch' = Tail(ch)
      /\ inHand' = [inHand EXCEPT ![w] = Head(ch)]
      /\ UNCHANGED <<phase, exited, refused, panicked, written, lost>>
  BY DEF Receive, history
<1>2. Head(ch) \in Events /\ Queued = Queued' \cup {Head(ch)}
  BY <1>1, ReceiveRemoves DEF StoreInv
<1>3. InHands' = InHands \cup {Head(ch)}
  <2>1. \A v \in Workers : inHand'[v] = IF v = w THEN Head(ch) ELSE inHand[v]
    BY <1>1 DEF StoreInv, TypeOK
  <2>2. Head(ch) # NoEvent /\ inHand[w] = NoEvent
    BY <1>1, <1>2, NoEventAssumption DEF Idle
  <2> QED
    BY <2>1, <2>2 DEF InHands
<1>4. Accepted' = Accepted
  BY <1>2, <1>3 DEF Accepted
<1>5. \A e \in Events : Fate(e)' = Fate(e)
  BY <1>1, <1>4, FateKept
<1> QED
  BY <1>1, <1>5 DEF Fates

LEMMA PhaseStops ==
    ASSUME StoreInv, (\E w \in Workers : Exit(w)) \/ CloseQueue \/ Waited
    PROVE  Trail!TrailNext \/ UNCHANGED <<Fates, phase = "done">>
<1>1. Accepted' = Accepted /\ UNCHANGED <<ch, inHand, refused, panicked, written, lost>>
  BY PhaseKeeps DEF history
<1>2. \A e \in Events : Fate(e)' = Fate(e)
  BY <1>1, FateKept
<1>3. Fates' = Fates
  BY <1>2 DEF Fates
<1>4. CASE Waited
  <2>1. exited = Workers /\ phase' = "done"
    BY <1>4 DEF Waited
  <2>2. ch = <<>> /\ \A w \in Workers : inHand[w] = NoEvent
    BY <2>1, WorkerAssumption DEF StoreInv, WorkersDrain
  <2>3. Accepted = {}
    BY <2>2 DEF Accepted, Queued, InHands
  <2>4. \A e \in Events : Fate(e) # "accepted"
    BY <2>3 DEF Fate
  <2>5. Trail!StopTrail
    BY <1>3, <2>1, <2>4 DEF Trail!StopTrail, Fates
  <2> QED
    BY <2>5 DEF Trail!TrailNext
<1>5. CASE \E w \in Workers : Exit(w)
  BY <1>3, <1>5 DEF Exit, queue
<1>6. CASE CloseQueue
  BY <1>3, <1>6 DEF CloseQueue
<1> QED
  BY <1>4, <1>5, <1>6

LEMMA TrailStep == ASSUME StoreInv, [Next]_vars PROVE [Trail!TrailNext]_(Trail!trail)
<1>1. CASE UNCHANGED vars
  <2>1. Accepted' = Accepted
    BY <1>1 DEF vars, queue, work, Accepted, Queued, InHands
  <2>2. \A e \in Events : Fate(e)' = Fate(e)
    BY <1>1, <2>1, FateKept DEF vars, history
  <2> QED
    BY <1>1, <2>2 DEF Trail!trail, vars, queue
<1>2. CASE Next
  <2>1. Trail!TrailNext \/ UNCHANGED <<Fates, phase = "done">>
    BY <1>2, LogDecides, WriteSettles, ReceiveStutters, PhaseStops DEF Next, WorkerStep
  <2> QED
    BY <2>1 DEF Trail!trail, Fates
<1> QED
  BY <1>1, <1>2

LEMMA TrailStart == Init => Trail!TrailInit
<1> SUFFICES ASSUME Init PROVE Trail!TrailInit
  OBVIOUS
<1>1. Accepted = {}
  BY DEF Init, Accepted, Queued, InHands
<1>2. \A e \in Events : Fate(e) = "new"
  BY <1>1 DEF Init, Fate
<1> QED
  BY <1>2 DEF Init, Trail!TrailInit

-----------------------------------------------------------------------------
(* The process. *)

\* Every step of the process is one of the store or leaves the store alone.
LEMMA ProcessStep == [ServerNext]_svars => [Next]_vars
BY DEF ServerNext, svars, Startup, Configure, NewPool, NewRepos, NewHandlers, Listen, Accept,
   Log, RequestID, Work, Notify, Signal, ServeReturns, Deferred, Stop, Stopped, ClosePool, Next

(***************************************************************************)
(* AuditRepo inside the server (audit_repo.go, main.go 77-78): every         *)
(* behaviour of the process is one of the audit store on its own.           *)
(***************************************************************************)
THEOREM ServerRunsTheStore == ServerSpec => Spec
<1>1. ServerInit => Init
  BY DEF ServerInit
<1> QED
  BY <1>1, ProcessStep, PTL DEF ServerSpec, Spec

LEMMA StoreInvariant == Spec => []StoreInv
<1>1. StoreInv /\ [Next]_vars => StoreInv'
  BY StoreStep
<1> QED
  BY <1>1, StoreInit, PTL DEF Spec

(***************************************************************************)
(* An accepted event is in the queue or with one worker, and not settled     *)
(* (audit_repo.go 86-91): no two workers write the same event.              *)
(***************************************************************************)
THEOREM NoEventTwice == ServerSpec => []OnePlace
<1>1. StoreInv => OnePlace
  BY DEF StoreInv
<1> QED
  BY <1>1, ServerRunsTheStore, StoreInvariant, PTL

(***************************************************************************)
(* The audit store implements AuditTrail in the process: an event is         *)
(* accepted or refused once, settled once, and Stop returns only when every  *)
(* accepted event is settled (audit_repo.go 57-91).                         *)
(***************************************************************************)
THEOREM StoreKeepsTrail == ServerSpec => KeepsTrail
<1>1. StoreInv /\ [Next]_vars => [Trail!TrailNext]_(Trail!trail)
  BY TrailStep
<1>2. Spec => KeepsTrail
  BY <1>1, TrailStart, StoreInvariant, PTL DEF Spec, KeepsTrail, Trail!TrailSpec
<1> QED
  BY <1>2, ServerRunsTheStore, PTL

(***************************************************************************)
(* Nothing is logged before main serves; from the pool's opening to its      *)
(* Close no step of main closes it, and Close follows the workers' end.      *)
(***************************************************************************)
ProcessInv ==
    /\ StoreInv
    /\ ServerTypeOK
    /\ main \in Starting => \A r \in Events : req[r] = "none"
    /\ Accepted \subseteq {r \in Events : req[r] \in {"logged", "answered"}}
    /\ main \in {"keys", "webauthn", "listen", "serving"} \cup Stopping => poolOpen
    /\ main \in {"fatal", "killed"} /\ Accepted # {} => poolOpen
    /\ main \in {"close", "exited"} => phase = "done"

LEMMA ProcessInit == ServerInit => ProcessInv
<1> SUFFICES ASSUME ServerInit PROVE ProcessInv
  OBVIOUS
<1>1. StoreInv
  BY StoreInit DEF ServerInit
<1>2. Accepted = {}
  BY DEF ServerInit, Init, Accepted, Queued, InHands
<1> QED
  BY <1>1, <1>2 DEF ServerInit, ProcessInv, ServerTypeOK, StoreInv, Starting, Stopping, Progress

LEMMA MainKeeps ==
    ASSUME ProcessInv, Startup \/ Notify \/ Signal \/ ServeReturns \/ ClosePool
    PROVE  ProcessInv'
<1> USE DEF ProcessInv
<1>1. UNCHANGED vars /\ UNCHANGED <<req, lines>>
  BY DEF Startup, Configure, NewPool, NewRepos, NewHandlers, Listen, Notify, Signal, ServeReturns,
     ClosePool, requests
<1>2. StoreInv' /\ Accepted' = Accepted /\ TypeOK' /\ phase' = phase
  <2>1. StoreInv'
    BY <1>1, StoreStep
  <2>2. Accepted' = Accepted
    BY <1>1 DEF vars, queue, work, Accepted, Queued, InHands
  <2> QED
    BY <1>1, <2>1, <2>2 DEF StoreInv, vars, queue
<1>3. CASE Startup
  <2>1. main \in Starting /\ Accepted = {}
    <3>1. main \in Starting
      BY <1>3 DEF Startup, Configure, NewPool, NewRepos, NewHandlers, Listen, Proceed, Starting
    <3> QED
      BY <3>1
  <2>2. main' \in Starting \cup {"serving", "stop", "fatal"} /\ UNCHANGED <<watching, quitting>>
    BY <1>3 DEF Startup, Configure, NewPool, NewRepos, NewHandlers, Listen, Proceed, Starting,
              signals
  <2>3. poolOpen' \in BOOLEAN
    BY <1>3 DEF Startup, Configure, NewPool, NewRepos, NewHandlers, Listen, ServerTypeOK
  <2>4. main' \in {"keys", "webauthn", "listen", "serving", "stop"} => poolOpen'
    BY <1>3 DEF Startup, Configure, NewPool, NewRepos, NewHandlers, Listen, Proceed
  <2> QED
    BY <1>1, <1>2, <2>1, <2>2, <2>3, <2>4 DEF ServerTypeOK, Starting, Stopping, Gone
<1>4. CASE Notify \/ Signal
  BY <1>1, <1>2, <1>4 DEF Notify, Signal, Alive, ServerTypeOK, Starting, Stopping, Gone
<1>5. CASE ServeReturns
  BY <1>1, <1>2, <1>5 DEF ServeReturns, signals, ServerTypeOK, Starting, Stopping, Gone
<1>6. CASE ClosePool
  BY <1>1, <1>2, <1>6 DEF ClosePool, signals, ServerTypeOK, Starting, Stopping, Gone
<1> QED
  BY <1>3, <1>4, <1>5, <1>6

LEMMA RequestKeeps ==
    ASSUME ProcessInv, NEW r \in Events, Accept(r) \/ Log(r) \/ RequestID(r)
    PROVE  ProcessInv'
<1> USE DEF ProcessInv
<1>1. req \in [Events -> Progress] /\ lines \subseteq Events
  BY DEF ServerTypeOK
<1>2. UNCHANGED <<main, watching, quitting, poolOpen>>
  BY DEF Accept, Log, RequestID, process, signals
<1>3. CASE Accept(r) \/ RequestID(r)
  <2>1. UNCHANGED vars /\ StoreInv'
    BY <1>3, StoreStep DEF Accept, RequestID
  <2>2. Accepted' = Accepted /\ phase' = phase /\ TypeOK'
    BY <2>1 DEF vars, queue, work, Accepted, Queued, InHands, StoreInv
  <2>3. CASE Accept(r)
    <3>1. req[r] = "none" /\ req' = [req EXCEPT ![r] = "active"] /\ main = "serving" /\ lines' = lines
      BY <2>3 DEF Accept, Serving
    <3>2. req' \in [Events -> Progress]
      BY <1>1, <3>1 DEF Progress
    <3>3. \A e \in Events : req[e] \in {"logged", "answered"} => req'[e] = req[e]
      BY <1>1, <3>1
    <3> QED
      BY <1>1, <1>2, <2>1, <2>2, <3>1, <3>2, <3>3 DEF ServerTypeOK, Starting, Stopping, Gone
  <2>4. CASE RequestID(r)
    <3>1. r \in InProgress /\ req' = [req EXCEPT ![r] = "answered"] /\ lines' = lines \cup {r}
      BY <2>4 DEF RequestID
    <3>2. req' \in [Events -> Progress] /\ req[r] # "none"
      BY <1>1, <3>1 DEF Progress, InProgress
    <3>3. \A e \in Events : req[e] \in {"logged", "answered"} => req'[e] \in {"logged", "answered"}
      BY <1>1, <3>1
    <3> QED
      BY <1>1, <1>2, <2>1, <2>2, <3>1, <3>2, <3>3 DEF ServerTypeOK, Starting, Stopping, Gone
  <2> QED
    BY <1>3, <2>3, <2>4
<1>4. CASE Log(r)
  <2>1. /\ LogSecurityEvent(r) /\ req[r] = "active" /\ lines' = lines /\ Alive
        /\ req' = [req EXCEPT ![r] = IF r \in panicked' THEN "failed" ELSE "logged"]
    BY <1>4 DEF Log
  <2>2. StoreInv' /\ TypeOK'
    BY <2>1, LogKeeps DEF StoreInv
  <2>3. req' \in [Events -> Progress]
    BY <1>1, <2>1 DEF Progress
  <2>4. /\ phase' = phase /\ Accepted' \subseteq Accepted \cup {r}
        /\ r \in panicked' => Accepted' \subseteq Accepted
    <3>1. UNCHANGED <<phase, inHand>> /\ InHands' = InHands /\ r \notin panicked /\ r \notin Queued
      BY <2>1 DEF LogSecurityEvent, Logged, Accepted, work, InHands
    <3>2. CASE ch' = Append(ch, r) /\ UNCHANGED history
      <4>1. Queued' = Queued \cup {r}
        BY <3>1, <3>2, SendAdds DEF StoreInv
      <4> QED
        BY <3>1, <3>2, <4>1 DEF Accepted, history
    <3>3. CASE ch' = ch
      BY <3>1, <3>3 DEF Accepted, Queued
    <3> QED
      BY <2>1, <3>1, <3>2, <3>3 DEF LogSecurityEvent
  <2>5. Accepted' \subseteq {e \in Events : req'[e] \in {"logged", "answered"}}
    <3>1. \A e \in Events : req[e] \in {"logged", "answered"} => req'[e] = req[e]
      BY <1>1, <2>1
    <3>2. r \notin panicked' => req'[r] = "logged"
      BY <1>1, <2>1
    <3> QED
      BY <2>4, <3>1, <3>2
  <2>6. main \notin Starting \cup {"killed", "fatal"}
    BY <2>1 DEF Alive, Gone
  <2> QED
    BY <1>1, <1>2, <2>1, <2>2, <2>3, <2>4, <2>5, <2>6 DEF ServerTypeOK
<1> QED
  BY <1>3, <1>4

LEMMA WorkKeeps ==
    ASSUME ProcessInv, NEW w \in Workers, Work(w)
    PROVE  ProcessInv'
<1> USE DEF ProcessInv
<1>1. WorkerStep(w) /\ Alive /\ UNCHANGED <<main, watching, quitting, poolOpen, req, lines>>
  BY DEF Work, process, signals, requests
<1>2. StoreInv' /\ TypeOK' /\ phase' = phase /\ Accepted' \subseteq Accepted
  <2>1. CASE Receive(w)
    <3>1. Head(ch) \in Events /\ Queued = Queued' \cup {Head(ch)} /\ phase' = phase
      BY <2>1, ReceiveRemoves DEF Receive, StoreInv
    <3>2. inHand' = [inHand EXCEPT ![w] = Head(ch)]
      BY <2>1 DEF Receive
    <3>3. InHands' \subseteq InHands \cup {Head(ch)}
      <4>1. \A v \in Workers : inHand'[v] = IF v = w THEN Head(ch) ELSE inHand[v]
        BY <3>2 DEF StoreInv, TypeOK
      <4> QED
        BY <4>1 DEF InHands
    <3>4. StoreInv'
      BY <2>1, ReceiveKeeps
    <3> QED
      BY <3>1, <3>3, <3>4 DEF Accepted, StoreInv
  <2>2. CASE WriteSecurity(w)
    <3>1. inHand' = [inHand EXCEPT ![w] = NoEvent] /\ ch' = ch /\ phase' = phase
      BY <2>2 DEF WriteSecurity, queue
    <3>2. InHands' \subseteq InHands
      <4>1. \A v \in Workers : inHand'[v] = IF v = w THEN NoEvent ELSE inHand[v]
        BY <3>1 DEF StoreInv, TypeOK
      <4> QED
        BY <4>1 DEF InHands
    <3>3. StoreInv'
      BY <2>2, WriteKeeps
    <3> QED
      BY <3>1, <3>2, <3>3 DEF Accepted, Queued, StoreInv
  <2>3. CASE Exit(w)
    BY <2>3, PhaseKeeps DEF Exit, queue, StoreInv
  <2> QED
    BY <1>1, <2>1, <2>2, <2>3 DEF WorkerStep
<1> QED
  BY <1>1, <1>2 DEF ServerTypeOK, Alive, Gone

LEMMA StopKeeps == ASSUME ProcessInv, Stop \/ Stopped PROVE ProcessInv'
<1> USE DEF ProcessInv
<1>1. CloseQueue \/ Waited
  BY DEF Stop, Stopped
<1>2. StoreInv' /\ TypeOK' /\ Accepted' = Accepted
  BY <1>1, PhaseKeeps DEF StoreInv
<1>3. UNCHANGED <<watching, quitting, poolOpen, req, lines>>
  BY DEF Stop, Stopped, signals, requests
<1>4. CASE Stop
  BY <1>2, <1>3, <1>4 DEF Stop, ServerTypeOK, Starting, Stopping, Gone
<1>5. CASE Stopped
  <2>1. main = "drain" /\ main' = "close" /\ phase' = "done"
    BY <1>5 DEF Stopped, Waited
  <2> QED
    BY <1>2, <1>3, <2>1 DEF ServerTypeOK, Starting, Stopping, Gone
<1> QED
  BY <1>4, <1>5

LEMMA ProcessInvariant == ServerSpec => []ProcessInv
<1>1. ProcessInv /\ [ServerNext]_svars => ProcessInv'
  <2> SUFFICES ASSUME ProcessInv, [ServerNext]_svars PROVE ProcessInv'
    OBVIOUS
  <2>1. CASE UNCHANGED svars
    <3>1. UNCHANGED vars /\ UNCHANGED <<main, watching, quitting, poolOpen, req, lines>>
      BY <2>1 DEF svars, process, signals, requests
    <3>2. StoreInv' /\ Accepted' = Accepted /\ phase' = phase
      BY <3>1, StoreStep DEF ProcessInv, vars, queue, work, Accepted, Queued, InHands
    <3> QED
      BY <3>1, <3>2 DEF ProcessInv, ServerTypeOK, StoreInv
  <2>2. CASE ServerNext
    BY <2>2, MainKeeps, RequestKeeps, WorkKeeps, StopKeeps DEF ServerNext, Deferred
  <2> QED
    BY <2>1, <2>2
<1> QED
  BY <1>1, ProcessInit, PTL DEF ServerSpec

(***************************************************************************)
(* Every reachable state of the process is well typed.                      *)
(***************************************************************************)
THEOREM TypeCorrect == ServerSpec => []ServerTypeOK
<1>1. ProcessInv => ServerTypeOK
  BY DEF ProcessInv
<1> QED
  BY <1>1, ProcessInvariant, PTL

(***************************************************************************)
(* While an event waits to be written the pool is open: main closes it only  *)
(* after the workers have drained the queue (main.go 66, 78), and a process  *)
(* that ends at once, by log.Fatal or a signal, leaves it open.             *)
(***************************************************************************)
THEOREM PoolOutlivesTheQueue == ServerSpec => []WrittenThroughOpenPool
<1>1. ProcessInv => WrittenThroughOpenPool
  <2> SUFFICES ASSUME ProcessInv, Accepted # {} PROVE poolOpen
    BY DEF WrittenThroughOpenPool
  <2>1. phase # "done"
    <3> SUFFICES ASSUME phase = "done" PROVE FALSE
      OBVIOUS
    <3>1. exited = Workers /\ ch = <<>> /\ \A w \in Workers : inHand[w] = NoEvent
      BY WorkerAssumption DEF ProcessInv, StoreInv, WorkersDrain
    <3> QED
      BY <3>1 DEF Accepted, Queued, InHands
  <2>2. main \notin Starting
    BY DEF ProcessInv
  <2> QED
    BY <2>1, <2>2 DEF ProcessInv, ServerTypeOK, Starting, Stopping, Gone
<1> QED
  BY <1>1, ProcessInvariant, PTL
=============================================================================
