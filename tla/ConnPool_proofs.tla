-------------------------- MODULE ConnPool_proofs --------------------------
(***************************************************************************)
(* Theorems of ConnPool, for any number of callers, tenants, places and      *)
(* dialled connections: a connection is in one place, nobody waits to give   *)
(* one back, statements run in their tenant's namespace, and the pool        *)
(* implements Slots.                                                        *)
(***************************************************************************)
EXTENDS ConnPool, FiniteSetTheorems, TLAPS

(***************************************************************************)
(* The channel holds connections that were dialled.                         *)
(***************************************************************************)
Dialled == \A i \in 1..Len(conns) : conns[i] <= dialled

(***************************************************************************)
(* Every place of the channel is free, in a caller's hands or given up.     *)
(***************************************************************************)
Accounted == Len(conns) + Cardinality(Holders) + gone = MaxConns

(***************************************************************************)
(* Between Use and its statement a connection stays in the namespace.       *)
(***************************************************************************)
InNamespace == \A c \in Callers : pc[c] \in {"exec", "retry"} => ns[conn[c]] = tenant[c]

(***************************************************************************)
(* What has run when a caller is at a step; CreateRecord has no second try. *)
(***************************************************************************)
RunsSoFar ==
    \A c \in Callers :
        /\ pc[c] \in {"borrow", "use", "exec"} => runs[c] = 0
        /\ pc[c] \in {"reconnect", "offer", "reborrow", "reuse", "retry"} => runs[c] <= 1
        /\ op[c] = "create" => pc[c] \notin {"reborrow", "reuse", "retry"}

IInv == TypeOK /\ Dialled /\ Accounted /\ Exclusive /\ InNamespace /\ RunsSoFar /\ RunsOnce

-----------------------------------------------------------------------------
(* The number of places. *)

\* How a step moves places between the channel, the callers and those given up.
Moves(f, h, g) ==
    /\ Len(conns') = Len(conns) + f
    /\ Cardinality(Holders') = Cardinality(Holders) + h
    /\ gone' = gone + g

SlotStep ==
    Moves(0, 0, 0) \/ Moves(-1, 1, 0) \/ Moves(1, -1, 0) \/ Moves(0, -1, 1) \/ Moves(-1, 0, 1)

LEMMA HoldersFinite == IsFiniteSet(Holders) /\ Cardinality(Holders) \in Nat
BY CallerAssumption, FS_Subset, FS_CardinalityType DEF Holders

(***************************************************************************)
(* A caller's move to another step adds it to the holders, removes it or    *)
(* leaves them as they are.                                                 *)
(***************************************************************************)
LEMMA HoldersMove ==
    ASSUME pc \in [Callers -> Steps], NEW c \in Callers, NEW s, pc' = [pc EXCEPT ![c] = s]
    PROVE  /\ (Held(c) <=> s \in Holding) => Holders' = Holders
           /\ ~Held(c) /\ s \in Holding => Cardinality(Holders') = Cardinality(Holders) + 1
           /\ Held(c) /\ s \notin Holding =>
                /\ Cardinality(Holders') = Cardinality(Holders) - 1
                /\ Cardinality(Holders) >= 1
<1>1. \A d \in Callers : pc'[d] = IF d = c THEN s ELSE pc[d]
  OBVIOUS
<1>2. (Held(c) <=> s \in Holding) => Holders' = Holders
  BY <1>1 DEF Holders, Held
<1>3. ASSUME ~Held(c), s \in Holding PROVE Cardinality(Holders') = Cardinality(Holders) + 1
  <2>1. Holders' = Holders \cup {c} /\ c \notin Holders
    BY <1>1, <1>3 DEF Holders, Held
  <2> QED
    BY <2>1, HoldersFinite, FS_AddElement
<1>4. ASSUME Held(c), s \notin Holding
      PROVE  /\ Cardinality(Holders') = Cardinality(Holders) - 1
             /\ Cardinality(Holders) >= 1
  <2>1. Holders' = Holders \ {c} /\ c \in Holders
    BY <1>1, <1>4 DEF Holders, Held
  <2>2. Cardinality(Holders \ {c}) = Cardinality(Holders) - 1 /\ IsFiniteSet(Holders \ {c})
    BY <2>1, HoldersFinite, FS_RemoveElement
  <2>3. Cardinality(Holders \ {c}) \in Nat
    BY <2>2, FS_CardinalityType
  <2> QED
    BY <2>1, <2>2, <2>3, HoldersFinite
<1> QED
  BY <1>2, <1>3, <1>4

(***************************************************************************)
(* A send by a caller that has a connection in hand.                        *)
(***************************************************************************)
LEMMA SendMoves ==
    ASSUME TypeOK, NEW c \in Callers, Held(c), NEW next \in Steps, next \notin Holding,
           Send(c, conn[c], next)
    PROVE  /\ Moves(1, -1, 0) \/ Moves(0, -1, 1)
           /\ Cardinality(Holders) >= 1
<1>1. CASE phase = "closed" /\ Retire /\ Goto(c, "panicked") /\ UNCHANGED conns
  <2> "panicked" \notin Holding
    BY DEF Holding
  <2>1. Cardinality(Holders') = Cardinality(Holders) - 1 /\ Cardinality(Holders) >= 1
    BY <1>1, HoldersMove DEF Goto, TypeOK
  <2> QED
    BY <1>1, <2>1, HoldersFinite DEF Moves, Retire, TypeOK
<1>2. CASE conns' = Append(conns, conn[c]) /\ Goto(c, next) /\ UNCHANGED gone
  <2>1. Cardinality(Holders') = Cardinality(Holders) - 1 /\ Cardinality(Holders) >= 1
    BY <1>2, HoldersMove DEF Goto, TypeOK
  <2>2. Len(conns') = Len(conns) + 1
    BY <1>2 DEF TypeOK
  <2> QED
    BY <1>2, <2>1, <2>2, HoldersFinite DEF Moves, TypeOK
<1> QED
  BY <1>1, <1>2 DEF Send

(***************************************************************************)
(* The places a caller's step moves.                                        *)
(***************************************************************************)
LEMMA ServingMoves == ASSUME TypeOK, NEW c \in Callers, Serving(c) PROVE SlotStep
<1>1. CASE Borrow(c)
  <2>1. CASE conns # <<>> /\ conns' = Tail(conns) /\ Goto(c, IF pc[c] = "borrow" THEN "use" ELSE "reuse")
    <3>1. Cardinality(Holders') = Cardinality(Holders) + 1
      BY <1>1, <2>1, HoldersMove DEF Borrow, Goto, TypeOK, Steps, Held, Holding, Waiting
    <3>2. Len(conns') = Len(conns) - 1
      BY <2>1 DEF TypeOK
    <3> QED
      BY <1>1, <3>1, <3>2 DEF Borrow, Moves, SlotStep, TypeOK
  <2>2. CASE Goto(c, "panicked") /\ UNCHANGED <<conns, conn>>
    <3> ~Held(c) /\ "panicked" \notin Holding
      BY <1>1 DEF Borrow, Held, Holding, Waiting
    <3>1. Holders' = Holders
      BY <2>2, HoldersMove DEF Goto, TypeOK
    <3> QED
      BY <1>1, <2>2, <3>1, HoldersFinite DEF Borrow, Moves, SlotStep, TypeOK
  <2> QED
    BY <1>1, <2>1, <2>2 DEF Borrow
<1>2. CASE Use(c) \/ Exec(c) \/ Retry(c) \/ ReturnConn(c)
  <2>1. Holders' = Holders
    <3>1. PICK s \in Holding : pc' = [pc EXCEPT ![c] = s]
      BY <1>2 DEF Use, Exec, Retry, ReturnConn, Goto, Holding
    <3>2. Held(c)
      BY <1>2 DEF Use, Exec, Retry, ReturnConn, Held, Holding
    <3> QED
      BY <3>1, <3>2, HoldersMove DEF TypeOK
  <2>2. UNCHANGED <<conns, gone>>
    BY <1>2 DEF Use, Exec, Retry, ReturnConn, pool
  <2> QED
    BY <2>1, <2>2, HoldersFinite DEF Moves, SlotStep, TypeOK
<1>3. CASE Reconnect(c)
  <2>1. Held(c) /\ UNCHANGED conns
    BY <1>3 DEF Reconnect, Held, Holding
  <2>2. CASE Goto(c, "offer") /\ UNCHANGED gone
    <3>1. Holders' = Holders
      BY <2>1, <2>2, HoldersMove DEF Goto, TypeOK, Holding
    <3> QED
      BY <2>1, <2>2, <3>1, HoldersFinite DEF Moves, SlotStep, TypeOK
  <2>3. CASE Retire /\ Goto(c, AfterReconnect(c))
    <3> AfterReconnect(c) \notin Holding
      BY DEF AfterReconnect, Holding
    <3>1. Cardinality(Holders') = Cardinality(Holders) - 1
      BY <2>1, <2>3, HoldersMove DEF Goto, TypeOK
    <3> QED
      BY <2>1, <2>3, <3>1, HoldersFinite DEF Retire, Moves, SlotStep, TypeOK
  <2> QED
    BY <1>3, <2>2, <2>3 DEF Reconnect
<1>4. CASE Offer(c)
  <2>1. Held(c) /\ AfterReconnect(c) \in Steps /\ AfterReconnect(c) \notin Holding
    BY <1>4 DEF Offer, Held, Holding, AfterReconnect, Steps, Waiting
  <2> QED
    BY <1>4, <2>1, SendMoves DEF Offer, SlotStep
<1>5. CASE SendBack(c)
  <2>1. Held(c) /\ "idle" \in Steps /\ "idle" \notin Holding
    BY <1>5 DEF SendBack, Held, Holding, Steps
  <2> QED
    BY <1>5, <2>1, SendMoves DEF SendBack, SlotStep
<1>6. CASE Discard(c)
  <2> Held(c) /\ "idle" \notin Holding
    BY <1>6 DEF Discard, Held, Holding
  <2>1. Cardinality(Holders') = Cardinality(Holders) - 1
    BY <1>6, HoldersMove DEF Discard, Goto, TypeOK
  <2> QED
    BY <1>6, <2>1, HoldersFinite DEF Discard, Retire, Moves, SlotStep, TypeOK
<1> QED
  BY <1>1, <1>2, <1>3, <1>4, <1>5, <1>6 DEF Serving

LEMMA NextMoves == ASSUME TypeOK, [Next]_vars PROVE SlotStep
<1>1. ASSUME NEW c \in Callers, Calling(c) PROVE SlotStep
  <2>1. PICK s \in {"borrow", "idle"} : pc' = [pc EXCEPT ![c] = s]
    BY <1>1 DEF Calling, Start, GiveUp, Goto
  <2>2. ~Held(c) /\ s \notin Holding /\ UNCHANGED <<conns, gone>>
    BY <1>1 DEF Calling, Start, GiveUp, Held, Holding, Waiting, pool
  <2>3. Holders' = Holders
    BY <2>1, <2>2, HoldersMove DEF TypeOK
  <2> QED
    BY <2>2, <2>3, HoldersFinite DEF Moves, SlotStep, TypeOK
<1>2. ASSUME UNCHANGED <<conns, gone, pc>> PROVE SlotStep
  <2>1. Holders' = Holders
    BY <1>2 DEF Holders, Held
  <2> QED
    BY <1>2, <2>1, HoldersFinite DEF Moves, SlotStep, TypeOK
<1>3. CASE Drain
  <2>1. Holders' = Holders /\ Len(conns') = Len(conns) - 1
    BY <1>3 DEF Drain, Holders, Held, TypeOK
  <2>2. gone' = gone + 1
    BY <1>3 DEF Drain, Retire
  <2> QED
    BY <2>1, <2>2, HoldersFinite DEF Moves, SlotStep
<1>4. CASE CloseMark \/ DrainDone \/ CloseChan \/ UNCHANGED vars
  BY <1>2, <1>4 DEF CloseMark, DrainDone, CloseChan, vars, pool
<1>5. ASSUME NEW k \in Conns, Break(k) PROVE SlotStep
  BY <1>2, <1>5 DEF Break, pool
<1> QED
  BY <1>1, <1>3, <1>4, <1>5, ServingMoves DEF Next, Closing

(***************************************************************************)
(* All places stay accounted for, whatever moves.                           *)
(***************************************************************************)
LEMMA PlacesAddUp ==
    ASSUME TypeOK, Accounted, SlotStep, conns' \in Seq(Conns)
    PROVE  /\ Accounted'
           /\ Len(conns') <= MaxConns
           /\ gone' \in 0..MaxConns
<1>1. Accounted'
  BY HoldersFinite, SizeAssumption DEF Accounted, SlotStep, Moves, TypeOK
<1>2. Cardinality(Holders') \in Nat
  BY CallerAssumption, FS_Subset, FS_CardinalityType DEF Holders
<1>3. Len(conns') \in Nat /\ gone' \in Nat
  BY DEF SlotStep, Moves, TypeOK
<1> QED
  BY <1>1, <1>2, <1>3, SizeAssumption DEF Accounted

-----------------------------------------------------------------------------
(* Types. *)

LEMMA InitIInv == Init => IInv
<1> SUFFICES ASSUME Init PROVE IInv
  OBVIOUS
<1>1. Holders = {} /\ Cardinality(Holders) = 0
  BY FS_EmptySet DEF Init, Holders, Held, Holding
<1>2. conns \in Seq(Conns) /\ Len(conns) = MaxConns
  BY SizeAssumption DEF Init, Conns
<1>3. tenant \in [Callers -> Tenants]
  BY DEF Init
<1>4. TypeOK
  BY <1>1, <1>2, <1>3, SizeAssumption DEF Init, TypeOK, Conns, NoConn, Steps, Held, Holding
<1>5. Accounted /\ Dialled
  BY <1>1, <1>2, SizeAssumption DEF Init, Accounted, Dialled
<1>6. Exclusive
  BY <1>1, <1>2 DEF Init, Exclusive
<1>7. InNamespace /\ RunsSoFar /\ RunsOnce
  BY DEF Init, InNamespace, RunsSoFar, RunsOnce
<1> QED
  BY <1>4, <1>5, <1>6, <1>7 DEF IInv

(***************************************************************************)
(* A statement runs at most once more than it has.                          *)
(***************************************************************************)
LEMMA RunsTyped ==
    ASSUME TypeOK, RunsSoFar, NEW c \in Callers, pc[c] \in {"exec", "retry"}, MayRun(c)
    PROVE  /\ runs' \in [Callers -> 0..2]
           /\ pc[c] = "exec" => runs'[c] <= 1
           /\ \A d \in Callers : d # c => runs'[d] = runs[d]
<1>1. PICK n \in {0, 1} : runs' = [runs EXCEPT ![c] = runs[c] + n]
  BY DEF MayRun
<1>2. runs[c] <= 1 /\ (pc[c] = "exec" => runs[c] = 0)
  BY DEF RunsSoFar
<1> QED
  BY <1>1, <1>2 DEF TypeOK

LEMMA SendTypes ==
    ASSUME TypeOK, Dialled, NEW c \in Callers, Held(c), NEW next \in Steps, next \notin Holding,
           Send(c, conn[c], next), UNCHANGED <<dialled, conn>>
    PROVE  /\ conns' \in Seq(Conns)
           /\ Dialled'
           /\ pc' \in [Callers -> Steps]
           /\ \A d \in Callers : Held(d)' => Held(d)
<1>1. conn[c] \in 1..dialled /\ conn[c] \in Conns
  BY SizeAssumption DEF TypeOK, Conns
<1>2. CASE phase = "closed" /\ Retire /\ Goto(c, "panicked") /\ UNCHANGED conns
  BY <1>2 DEF Goto, TypeOK, Dialled, Held, Holding, Steps
<1>3. CASE conns' = Append(conns, conn[c]) /\ Goto(c, next) /\ UNCHANGED gone
  BY <1>1, <1>3 DEF Goto, TypeOK, Dialled, Held
<1> QED
  BY <1>2, <1>3 DEF Send

(***************************************************************************)
(* What TypeOK asks of the next state, the number of places aside.          *)
(***************************************************************************)
Typed ==
    /\ conns' \in Seq(Conns) /\ Dialled'
    /\ phase' \in {"open", "draining", "closing", "closed"}
    /\ dialled' \in MaxConns..MaxDials
    /\ state' \in [Conns -> {"open", "dead", "closed"}]
    /\ ns' \in [Conns -> Tenants \cup {DefaultNS}]
    /\ pc' \in [Callers -> Steps]
    /\ op' \in [Callers -> {"query", "create"}]
    /\ tenant' \in [Callers -> Tenants]
    /\ conn' \in [Callers -> 0..MaxDials]
    /\ runs' \in [Callers -> 0..2]
    /\ \A c \in Callers : Held(c)' => conn'[c] \in 1..dialled'

LEMMA BorrowTyped == ASSUME TypeOK, Dialled, NEW c \in Callers, Borrow(c) PROVE Typed
<1> USE DEF TypeOK, Dialled
<1>1. CASE /\ conns # <<>> /\ conn' = [conn EXCEPT ![c] = Head(conns)] /\ conns' = Tail(conns)
           /\ Goto(c, IF pc[c] = "borrow" THEN "use" ELSE "reuse")
  <2>1. /\ Head(conns) = conns[1] /\ 1 \in 1..Len(conns) /\ Head(conns) \in Conns
        /\ conns' \in Seq(Conns) /\ Len(conns') = Len(conns) - 1
        /\ \A i \in 1..Len(conns') : conns'[i] = conns[i + 1]
    BY <1>1
  <2>2. Head(conns) \in 1..dialled
    BY <2>1, SizeAssumption DEF Conns
  <2>3. Dialled'
    <3>1. dialled' = dialled
      BY DEF Borrow, wires
    <3>2. \A i \in 1..Len(conns') : i + 1 \in 1..Len(conns)
      BY <2>1
    <3> QED
      BY <2>1, <3>1, <3>2
  <2>4. conn' \in [Callers -> 0..MaxDials] /\ pc' \in [Callers -> Steps]
    BY <1>1, <2>2, SizeAssumption DEF Goto, Steps, Holding
  <2>5. \A d \in Callers : Held(d)' => conn'[d] \in 1..dialled'
    BY <1>1, <2>2 DEF Borrow, Goto, wires, Held
  <2> QED
    BY <2>1, <2>3, <2>4, <2>5 DEF Borrow, wires, caller, Typed
<1>2. CASE Goto(c, "panicked") /\ UNCHANGED <<conns, conn>>
  BY <1>2 DEF Borrow, Goto, wires, caller, Steps, Held, Holding, Typed
<1> QED
  BY <1>1, <1>2 DEF Borrow

LEMMA UseTyped == ASSUME TypeOK, Dialled, NEW c \in Callers, Use(c) PROVE Typed
<1> USE DEF TypeOK, Dialled
<1>1. PICK s \in {"exec", "retry", "return"} : pc' = [pc EXCEPT ![c] = s]
  BY DEF Use, Goto
<1>2. Held(c)
  BY DEF Use, Held, Holding
<1>3. ns' \in [Conns -> Tenants \cup {DefaultNS}]
  BY DEF Use
<1>4. pc' \in [Callers -> Steps] /\ \A d \in Callers : Held(d)' => Held(d)
  BY <1>1, <1>2 DEF Held, Steps, Holding
<1> QED
  BY <1>3, <1>4 DEF Use, pool, caller, Typed

LEMMA ExecTyped == ASSUME TypeOK, Dialled, RunsSoFar, NEW c \in Callers, Exec(c) PROVE Typed
<1> USE DEF TypeOK, Dialled
<1>1. PICK s \in {"return", "reconnect"} : pc' = [pc EXCEPT ![c] = s]
  BY DEF Exec, Goto
<1>2. Held(c)
  BY DEF Exec, Held, Holding
<1>3. state' \in [Conns -> {"open", "dead", "closed"}]
  BY DEF Exec
<1>4. runs' \in [Callers -> 0..2]
  BY RunsTyped DEF Exec
<1>5. pc' \in [Callers -> Steps] /\ \A d \in Callers : Held(d)' => Held(d)
  BY <1>1, <1>2 DEF Held, Steps, Holding
<1> QED
  BY <1>3, <1>4, <1>5 DEF Exec, pool, caller, Typed

LEMMA ReconnectTyped == ASSUME TypeOK, Dialled, NEW c \in Callers, Reconnect(c) PROVE Typed
<1> USE DEF TypeOK, Dialled
<1>1. Held(c) /\ conns' = conns
  BY DEF Reconnect, Held, Holding
<1>2. state' \in [Conns -> {"open", "dead", "closed"}]
  BY DEF Reconnect
<1>3. CASE /\ dialled < MaxDials /\ dialled' = dialled + 1 /\ Goto(c, "offer")
           /\ conn' = [conn EXCEPT ![c] = dialled']
  <2>1. dialled' \in MaxConns..MaxDials /\ dialled' \in 0..MaxDials
    BY <1>3, SizeAssumption
  <2>2. Dialled'
    BY <1>1, <1>3, SizeAssumption DEF Conns
  <2>3. conn' \in [Callers -> 0..MaxDials] /\ pc' \in [Callers -> Steps]
    BY <1>3, <2>1 DEF Goto, Steps, Holding
  <2>4. \A d \in Callers : Held(d)' => conn'[d] \in 1..dialled'
    BY <1>1, <1>3, SizeAssumption DEF Goto, Held
  <2> QED
    BY <1>1, <1>2, <2>1, <2>2, <2>3, <2>4 DEF Reconnect, caller, Typed
<1>4. CASE Goto(c, AfterReconnect(c)) /\ UNCHANGED <<dialled, conn>>
  <2>1. pc' \in [Callers -> Steps] /\ \A d \in Callers : Held(d)' => Held(d)
    BY <1>1, <1>4 DEF Goto, AfterReconnect, Steps, Waiting, Held
  <2> QED
    BY <1>1, <1>2, <1>4, <2>1 DEF Reconnect, caller, Typed
<1> QED
  BY <1>3, <1>4 DEF Reconnect

LEMMA ReturnsTyped ==
    ASSUME TypeOK, Dialled, RunsSoFar, NEW c \in Callers,
           Offer(c) \/ Retry(c) \/ ReturnConn(c) \/ SendBack(c) \/ Discard(c)
    PROVE  Typed
<1> USE DEF TypeOK
<1>1. CASE Offer(c) \/ SendBack(c)
  <2>1. Held(c)
    BY <1>1 DEF Offer, SendBack, Held, Holding
  <2>2. PICK s \in Steps : s \notin Holding /\ Send(c, conn[c], s)
    BY <1>1 DEF Offer, SendBack, AfterReconnect, Steps, Waiting, Holding
  <2>3. UNCHANGED <<phase, wires, caller, conn, runs>>
    BY <1>1 DEF Offer, SendBack
  <2> QED
    BY <2>1, <2>2, <2>3, SendTypes DEF wires, caller, Typed
<1>2. CASE Retry(c)
  <2>1. runs' \in [Callers -> 0..2]
    BY <1>2, RunsTyped DEF Retry
  <2>2. pc' \in [Callers -> Steps] /\ \A d \in Callers : Held(d)' => Held(d)
    BY <1>2 DEF Retry, Goto, Held, Steps, Holding
  <2> QED
    BY <1>2, <2>1, <2>2 DEF Retry, pool, wires, caller, Typed, Dialled
<1>3. CASE ReturnConn(c)
  <2>1. pc' \in [Callers -> Steps] /\ \A d \in Callers : Held(d)' => Held(d)
    BY <1>3 DEF ReturnConn, Goto, Held, Steps, Holding
  <2> QED
    BY <1>3, <2>1 DEF ReturnConn, pool, wires, caller, Typed, Dialled
<1>4. CASE Discard(c)
  <2>1. pc' \in [Callers -> Steps] /\ \A d \in Callers : Held(d)' => Held(d)
    BY <1>4 DEF Discard, Goto, Held, Steps, Holding
  <2>2. state' \in [Conns -> {"open", "dead", "closed"}]
    BY <1>4 DEF Discard
  <2> QED
    BY <1>4, <2>1, <2>2 DEF Discard, caller, Typed, Dialled
<1> QED
  BY <1>1, <1>2, <1>3, <1>4

LEMMA CallingTyped == ASSUME TypeOK, Dialled, NEW c \in Callers, Calling(c) PROVE Typed
<1> USE DEF TypeOK, Dialled
<1>1. CASE \E o \in {"query", "create"}, t \in Tenants : Start(c, o, t)
  BY <1>1 DEF Start, Goto, pool, wires, Steps, Waiting, Held, Holding, Typed
<1>2. CASE GiveUp(c)
  BY <1>2 DEF GiveUp, Goto, pool, wires, caller, Steps, Held, Holding, Typed
<1> QED
  BY <1>1, <1>2 DEF Calling

LEMMA ClosingTyped ==
    ASSUME TypeOK, Dialled, Closing \/ (\E k \in Conns : Break(k)) \/ UNCHANGED vars
    PROVE  Typed
<1> USE DEF TypeOK, Dialled
<1>1. CASE Drain
  <2>1. /\ conns' \in Seq(Conns) /\ Len(conns') = Len(conns) - 1
        /\ \A i \in 1..Len(conns') : conns'[i] = conns[i + 1]
    BY <1>1 DEF Drain
  <2>2. Dialled'
    BY <1>1, <2>1 DEF Drain
  <2>3. state' \in [Conns -> {"open", "dead", "closed"}]
    BY <1>1 DEF Drain
  <2> QED
    BY <1>1, <2>1, <2>2, <2>3 DEF Drain, caller, Held, Typed
<1>2. CASE CloseMark \/ DrainDone \/ CloseChan
  BY <1>2 DEF CloseMark, DrainDone, CloseChan, wires, caller, Held, Typed
<1>3. CASE \E k \in Conns : Break(k)
  BY <1>3 DEF Break, pool, caller, Held, Typed
<1>4. CASE UNCHANGED vars
  BY <1>4 DEF vars, pool, wires, caller, Held, Typed
<1> QED
  BY <1>1, <1>2, <1>3, <1>4 DEF Closing

LEMMA TypesKept ==
    ASSUME TypeOK, Dialled, Accounted, RunsSoFar, [Next]_vars
    PROVE  TypeOK' /\ Dialled' /\ Accounted'
<1>1. Typed
  BY BorrowTyped, UseTyped, ExecTyped, ReconnectTyped, ReturnsTyped, CallingTyped, ClosingTyped
     DEF Next, Serving
<1>2. SlotStep
  BY NextMoves
<1>3. Accounted' /\ Len(conns') <= MaxConns /\ gone' \in 0..MaxConns
  BY <1>1, <1>2, PlacesAddUp DEF Typed
<1> QED
  BY <1>1, <1>3 DEF TypeOK, Typed

-----------------------------------------------------------------------------
(* One holder of a connection. *)

LEMMA SameHands ==
    ASSUME Exclusive, conns' = conns,
           \A d \in Callers : Held(d)' => Held(d) /\ conn'[d] = conn[d]
    PROVE  Exclusive'
<1>1. \A d \in Holders' : d \in Holders /\ conn'[d] = conn[d]
  BY DEF Holders, Held
<1> QED
  BY <1>1 DEF Exclusive

LEMMA TailExclusive ==
    ASSUME TypeOK, Exclusive, conns # <<>>, conns' = Tail(conns),
           \A d \in Holders' : d \in Holders /\ conn'[d] = conn[d]
    PROVE  Exclusive'
<1>1. /\ \A i \in 1..Len(conns') : i + 1 \in 1..Len(conns) /\ conns'[i] = conns[i + 1]
      /\ \A i, j \in 1..Len(conns') : i + 1 = j + 1 => i = j
  BY DEF TypeOK
<1> QED
  BY <1>1 DEF Exclusive

LEMMA BorrowExclusive == ASSUME TypeOK, Exclusive, NEW c \in Callers, Borrow(c) PROVE Exclusive'
<1>1. CASE /\ conns # <<>> /\ conn' = [conn EXCEPT ![c] = Head(conns)] /\ conns' = Tail(conns)
           /\ Goto(c, IF pc[c] = "borrow" THEN "use" ELSE "reuse")
  <2>1. /\ 1 \in 1..Len(conns) /\ Head(conns) = conns[1]
        /\ \A i \in 1..Len(conns') : i + 1 \in 1..Len(conns) /\ conns'[i] = conns[i + 1] /\ i + 1 # 1
        /\ \A i, j \in 1..Len(conns') : i + 1 = j + 1 => i = j
    BY <1>1 DEF TypeOK
  <2>2. \A d \in Holders' : d # c => d \in Holders /\ conn'[d] = conn[d]
    BY <1>1 DEF Holders, Held, Goto, TypeOK
  <2>3. conn'[c] = conns[1]
    BY <1>1, <2>1 DEF TypeOK
  <2>4. \A i, j \in 1..Len(conns') : conns'[i] = conns'[j] => i = j
    BY <2>1 DEF Exclusive
  <2>5. \A d \in Holders' : \A i \in 1..Len(conns') : conns'[i] # conn'[d]
    BY <2>1, <2>2, <2>3 DEF Exclusive
  <2>6. \A d, e \in Holders' : conn'[d] = conn'[e] => d = e
    BY <2>1, <2>2, <2>3 DEF Exclusive
  <2> QED
    BY <2>4, <2>5, <2>6 DEF Exclusive
<1>2. CASE Goto(c, "panicked") /\ UNCHANGED <<conns, conn>>
  <2>1. \A d \in Callers : Held(d)' => Held(d) /\ conn'[d] = conn[d]
    BY <1>2 DEF Goto, Held, Holding, TypeOK
  <2> QED
    BY <1>2, <2>1, SameHands
<1> QED
  BY <1>1, <1>2 DEF Borrow

LEMMA SendExclusive ==
    ASSUME TypeOK, Exclusive, NEW c \in Callers, Held(c), NEW next, next \notin Holding,
           Send(c, conn[c], next), conn' = conn
    PROVE  Exclusive'
<1>1. CASE phase = "closed" /\ Retire /\ Goto(c, "panicked") /\ UNCHANGED conns
  <2>1. \A d \in Callers : Held(d)' => Held(d) /\ conn'[d] = conn[d]
    BY <1>1 DEF Goto, Held, Holding, TypeOK
  <2> QED
    BY <1>1, <2>1, SameHands
<1>2. CASE conns' = Append(conns, conn[c]) /\ Goto(c, next)
  <2>1. Holders' = Holders \ {c} /\ c \in Holders
    BY <1>2 DEF Goto, Holders, Held, TypeOK
  <2>2. PICK n \in Nat :
          /\ n = Len(conns) /\ Len(conns') = n + 1 /\ conns'[n + 1] = conn[c]
          /\ \A i \in 1..n : conns'[i] = conns[i]
    <3>1. conns \in Seq(Conns) /\ conn[c] \in Conns /\ Len(conns) \in Nat
      BY SizeAssumption DEF TypeOK, Conns
    <3>2. /\ Len(conns') = Len(conns) + 1 /\ conns'[Len(conns) + 1] = conn[c]
          /\ \A i \in 1..Len(conns) : conns'[i] = conns[i]
      BY <1>2, <3>1
    <3> QED
      BY <3>1, <3>2
  <2>3. \A i \in 1..(n + 1) : i \in 1..n \/ i = n + 1
    BY <2>2
  <2>4. \A i, j \in 1..Len(conns') : conns'[i] = conns'[j] => i = j
    BY <2>1, <2>2, <2>3 DEF Exclusive
  <2>5. \A d \in Holders' : \A i \in 1..Len(conns') : conns'[i] # conn'[d]
    BY <2>1, <2>2, <2>3 DEF Exclusive
  <2>6. \A d, e \in Holders' : conn'[d] = conn'[e] => d = e
    BY <2>1 DEF Exclusive
  <2> QED
    BY <2>4, <2>5, <2>6 DEF Exclusive
<1> QED
  BY <1>1, <1>2 DEF Send

LEMMA ReconnectExclusive ==
    ASSUME TypeOK, Dialled, Exclusive, NEW c \in Callers, Reconnect(c)
    PROVE  Exclusive'
<1>1. Held(c) /\ conns' = conns
  BY DEF Reconnect, Held, Holding
<1>2. CASE dialled' = dialled + 1 /\ conn' = [conn EXCEPT ![c] = dialled'] /\ Goto(c, "offer")
  <2>1. Holders' = Holders /\ conn'[c] = dialled + 1
    BY <1>1, <1>2 DEF Goto, Holders, Held, Holding, TypeOK
  <2>2. \A d \in Holders : d # c => conn'[d] = conn[d] /\ conn[d] # dialled + 1
    BY <1>2 DEF Holders, TypeOK
  <2>3. \A i \in 1..Len(conns) : conns[i] # dialled + 1
    BY DEF Dialled, TypeOK, Conns
  <2> QED
    BY <1>1, <2>1, <2>2, <2>3 DEF Exclusive
<1>3. CASE Goto(c, AfterReconnect(c)) /\ UNCHANGED <<dialled, conn>>
  <2>1. \A d \in Callers : Held(d)' => Held(d) /\ conn'[d] = conn[d]
    BY <1>1, <1>3 DEF Goto, AfterReconnect, Held, Holding, TypeOK
  <2> QED
    BY <1>1, <2>1, SameHands
<1> QED
  BY <1>2, <1>3 DEF Reconnect

LEMMA ExclusiveKept == ASSUME TypeOK, Dialled, Exclusive, [Next]_vars PROVE Exclusive'
<1>1. ASSUME NEW c \in Callers, Calling(c) PROVE Exclusive'
  <2>1. \A d \in Callers : Held(d)' => Held(d) /\ conn'[d] = conn[d]
    BY <1>1 DEF Calling, Start, GiveUp, Goto, Held, Holding, TypeOK
  <2>2. conns' = conns
    BY <1>1 DEF Calling, Start, GiveUp, pool
  <2> QED
    BY <2>1, <2>2, SameHands
<1>2. ASSUME NEW c \in Callers, Use(c) \/ Exec(c) \/ Retry(c) \/ ReturnConn(c) \/ Discard(c)
      PROVE  Exclusive'
  <2>1. Held(c) /\ UNCHANGED <<conns, conn>>
    BY <1>2 DEF Use, Exec, Retry, ReturnConn, Discard, Held, Holding, pool
  <2>2. PICK s : pc' = [pc EXCEPT ![c] = s]
    BY <1>2 DEF Use, Exec, Retry, ReturnConn, Discard, Goto
  <2>3. \A d \in Callers : Held(d)' => Held(d) /\ conn'[d] = conn[d]
    BY <2>1, <2>2 DEF Held, TypeOK
  <2> QED
    BY <2>1, <2>3, SameHands
<1>3. ASSUME NEW c \in Callers, Offer(c) \/ SendBack(c) PROVE Exclusive'
  <2>1. Held(c) /\ conn' = conn
    BY <1>3 DEF Offer, SendBack, Held, Holding
  <2>2. PICK s : s \notin Holding /\ Send(c, conn[c], s)
    BY <1>3 DEF Offer, SendBack, AfterReconnect, Holding
  <2> QED
    BY <2>1, <2>2, SendExclusive
<1>4. CASE Drain
  <2>1. \A d \in Holders' : d \in Holders /\ conn'[d] = conn[d]
    BY <1>4 DEF Drain, Holders, Held
  <2> QED
    BY <1>4, <2>1, TailExclusive DEF Drain
<1>5. CASE CloseMark \/ DrainDone \/ CloseChan \/ (\E k \in Conns : Break(k)) \/ UNCHANGED vars
  <2>1. UNCHANGED <<conns, conn, pc>>
    BY <1>5 DEF CloseMark, DrainDone, CloseChan, Break, vars, pool
  <2>2. \A d \in Callers : Held(d)' => Held(d) /\ conn'[d] = conn[d]
    BY <2>1 DEF Held
  <2> QED
    BY <2>1, <2>2, SameHands
<1> QED
  BY <1>1, <1>2, <1>3, <1>4, <1>5, BorrowExclusive, ReconnectExclusive DEF Next, Serving, Closing

-----------------------------------------------------------------------------
(* Statements: where they run and how often. *)

LEMMA SameNamespace ==
    ASSUME InNamespace, UNCHANGED ns,
           \A d \in Callers : pc'[d] \in {"exec", "retry"} =>
               pc'[d] = pc[d] /\ conn'[d] = conn[d] /\ tenant'[d] = tenant[d]
    PROVE  InNamespace'
BY DEF InNamespace

LEMMA UseNamespace ==
    ASSUME TypeOK, Exclusive, InNamespace, NEW c \in Callers, Use(c)
    PROVE  InNamespace'
<1>1. UNCHANGED <<conn, tenant>> /\ c \in Holders /\ conn[c] \in Conns
  BY SizeAssumption DEF Use, caller, Holders, Held, Holding, TypeOK, Conns
<1>2. \A d \in Callers : d # c => pc'[d] = pc[d]
  BY DEF Use, Goto, TypeOK
<1>3. \A d \in Callers : d # c /\ pc'[d] \in {"exec", "retry"} => conn[d] # conn[c]
  BY <1>1, <1>2 DEF Exclusive, Holders, Held, Holding
<1>4. CASE ns' = [ns EXCEPT ![conn[c]] = tenant[c]]
  <2>1. ns'[conn[c]] = tenant[c] /\ \A k : k # conn[c] /\ k \in Conns => ns'[k] = ns[k]
    BY <1>1, <1>4 DEF TypeOK
  <2>2. \A d \in Callers : pc'[d] \in {"exec", "retry"} /\ d # c => conn[d] \in Conns
    BY <1>2, SizeAssumption DEF TypeOK, Held, Holding, Conns
  <2> QED
    BY <1>1, <1>2, <1>3, <2>1, <2>2 DEF InNamespace
<1>5. CASE Goto(c, "return") /\ UNCHANGED ns
  BY <1>1, <1>5, SameNamespace DEF Goto, TypeOK
<1> QED
  BY <1>4, <1>5 DEF Use

LEMMA NamespaceKept ==
    ASSUME TypeOK, Exclusive, InNamespace, [Next]_vars
    PROVE  InNamespace'
<1>1. ASSUME NEW c \in Callers, Calling(c) PROVE InNamespace'
  BY <1>1, SameNamespace DEF Calling, Start, GiveUp, Goto, wires, caller, TypeOK
<1>2. ASSUME NEW c \in Callers, Borrow(c) PROVE InNamespace'
  BY <1>2, SameNamespace DEF Borrow, Goto, wires, caller, TypeOK
<1>3. ASSUME NEW c \in Callers, Exec(c) \/ Reconnect(c) \/ Retry(c) \/ ReturnConn(c) \/ Discard(c)
      PROVE  InNamespace'
  <2>1. PICK s : s \notin {"exec", "retry"} /\ pc' = [pc EXCEPT ![c] = s]
    BY <1>3 DEF Exec, Reconnect, AfterReconnect, Retry, ReturnConn, Discard, Goto
  <2>2. UNCHANGED <<ns, tenant>> /\ \A d \in Callers : d # c => conn'[d] = conn[d]
    BY <1>3 DEF Exec, Reconnect, Retry, ReturnConn, Discard, wires, caller, TypeOK
  <2> QED
    BY <2>1, <2>2, SameNamespace DEF TypeOK
<1>4. ASSUME NEW c \in Callers, Offer(c) \/ SendBack(c) PROVE InNamespace'
  <2>1. PICK s : s \notin {"exec", "retry"} /\ pc' = [pc EXCEPT ![c] = s]
    BY <1>4 DEF Offer, SendBack, Send, AfterReconnect, Goto
  <2>2. UNCHANGED <<ns, tenant, conn>>
    BY <1>4 DEF Offer, SendBack, wires, caller
  <2> QED
    BY <2>1, <2>2, SameNamespace DEF TypeOK
<1>5. CASE Closing \/ (\E k \in Conns : Break(k)) \/ UNCHANGED vars
  <2>1. UNCHANGED <<ns, tenant, conn, pc>>
    BY <1>5 DEF Closing, CloseMark, Drain, DrainDone, CloseChan, Break, vars, wires, caller
  <2> QED
    BY <2>1, SameNamespace
<1> QED
  BY <1>1, <1>2, <1>3, <1>4, <1>5, UseNamespace DEF Next, Serving

(***************************************************************************)
(* A caller that did not move has run and may run what it did before.       *)
(***************************************************************************)
LEMMA OnlyOneRuns ==
    ASSUME TypeOK, RunsSoFar, RunsOnce, NEW c \in Callers,
           \A d \in Callers : d # c => pc'[d] = pc[d] /\ op'[d] = op[d] /\ runs'[d] = runs[d],
           pc'[c] \in {"borrow", "use", "exec"} => runs'[c] = 0,
           pc'[c] \in {"reconnect", "offer", "reborrow", "reuse", "retry"} => runs'[c] <= 1,
           op'[c] = "create" => pc'[c] \notin {"reborrow", "reuse", "retry"} /\ runs'[c] <= 1
    PROVE  RunsSoFar' /\ RunsOnce'
BY DEF RunsSoFar, RunsOnce

LEMMA RunsKept == ASSUME TypeOK, RunsSoFar, RunsOnce, [Next]_vars PROVE RunsSoFar' /\ RunsOnce'
<1>1. ASSUME NEW c \in Callers, \E o \in {"query", "create"}, t \in Tenants : Start(c, o, t)
      PROVE  RunsSoFar' /\ RunsOnce'
  BY <1>1, OnlyOneRuns DEF Start, Goto, TypeOK
<1>2. ASSUME NEW c \in Callers, Exec(c) PROVE RunsSoFar' /\ RunsOnce'
  <2>1. PICK s \in {"return", "reconnect"} : pc' = [pc EXCEPT ![c] = s]
    BY <1>2 DEF Exec, Goto
  <2>2. op' = op /\ runs'[c] <= 1 /\ \A d \in Callers : d # c => runs'[d] = runs[d]
    BY <1>2, RunsTyped DEF Exec, caller, RunsSoFar
  <2> QED
    BY <2>1, <2>2, OnlyOneRuns DEF TypeOK
<1>3. ASSUME NEW c \in Callers, Retry(c) PROVE RunsSoFar' /\ RunsOnce'
  <2>1. op' = op /\ op[c] # "create" /\ pc' = [pc EXCEPT ![c] = "return"]
    BY <1>3 DEF Retry, caller, Goto, RunsSoFar
  <2>2. \A d \in Callers : d # c => runs'[d] = runs[d]
    BY <1>3, RunsTyped DEF Retry
  <2> QED
    BY <2>1, <2>2, OnlyOneRuns DEF TypeOK
<1>4. ASSUME NEW c \in Callers,
             \/ GiveUp(c) \/ Borrow(c) \/ Use(c) \/ Reconnect(c) \/ Offer(c)
             \/ ReturnConn(c) \/ SendBack(c) \/ Discard(c)
      PROVE  RunsSoFar' /\ RunsOnce'
  <2>1. UNCHANGED <<op, runs>>
    BY <1>4 DEF GiveUp, Borrow, Use, Reconnect, Offer, ReturnConn, SendBack, Discard, caller
  <2>2. PICK s : pc' = [pc EXCEPT ![c] = s]
    BY <1>4 DEF GiveUp, Borrow, Use, Reconnect, Offer, ReturnConn, SendBack, Discard, Send, Goto
  <2>3. \/ s \in {"idle", "panicked", "return", "send", "discard"}
        \/ pc[c] = "borrow" /\ s = "use"
        \/ pc[c] = "reborrow" /\ s = "reuse"
        \/ pc[c] = "use" /\ s = "exec"
        \/ pc[c] = "reuse" /\ s = "retry"
        \/ pc[c] = "reconnect" /\ s = "offer"
        \/ pc[c] \in {"reconnect", "offer"} /\ s = "reborrow" /\ op[c] = "query"
    <3>1. pc'[c] = s
      BY <2>2 DEF TypeOK
    <3>2. CASE GiveUp(c) \/ Borrow(c) \/ Use(c)
      BY <3>1, <3>2 DEF GiveUp, Borrow, Use, Goto, Waiting, TypeOK
    <3>3. CASE Reconnect(c) \/ Offer(c)
      BY <3>1, <3>3 DEF Reconnect, Offer, AfterReconnect, Send, Goto, TypeOK
    <3>4. CASE ReturnConn(c) \/ SendBack(c) \/ Discard(c)
      BY <3>1, <3>4 DEF ReturnConn, SendBack, Discard, Send, Goto, TypeOK
    <3> QED
      BY <1>4, <3>2, <3>3, <3>4
  <2>4. /\ s \in {"borrow", "use", "exec"} => runs[c] = 0
        /\ s \in {"reconnect", "offer", "reborrow", "reuse", "retry"} => runs[c] <= 1
        /\ op[c] = "create" => s \notin {"reborrow", "reuse", "retry"} /\ runs[c] <= 1
    BY <2>3 DEF RunsSoFar, RunsOnce
  <2> QED
    BY <2>1, <2>2, <2>4, OnlyOneRuns DEF TypeOK
<1>5. CASE Closing \/ (\E k \in Conns : Break(k)) \/ UNCHANGED vars
  <2>1. UNCHANGED <<op, pc, runs>>
    BY <1>5 DEF Closing, CloseMark, Drain, DrainDone, CloseChan, Break, vars, caller
  <2> QED
    BY <2>1 DEF RunsSoFar, RunsOnce
<1> QED
  BY <1>1, <1>2, <1>3, <1>4, <1>5 DEF Next, Calling, Serving

-----------------------------------------------------------------------------
(* The theorems. *)

LEMMA Invariant == Spec => []IInv
<1>1. IInv /\ [Next]_vars => IInv'
  BY TypesKept, ExclusiveKept, NamespaceKept, RunsKept DEF IInv
<1> QED
  BY <1>1, InitIInv, PTL DEF Spec

(***************************************************************************)
(* The state of the pool and of its callers keeps its shape.                *)
(***************************************************************************)
THEOREM TypeCorrect == Spec => []TypeOK
<1>1. IInv => TypeOK
  BY DEF IInv
<1> QED
  BY <1>1, Invariant, PTL

(***************************************************************************)
(* A connection is in the channel once or in the hands of one caller,       *)
(* whatever reconnects and Close do meanwhile (pool.go 92-109, 113-122).    *)
(***************************************************************************)
THEOREM OneHolder == Spec => []Exclusive
<1>1. IInv => Exclusive
  BY DEF IInv
<1> QED
  BY <1>1, Invariant, PTL

(***************************************************************************)
(* returnConn and reconnect always find room in the channel: whoever has a   *)
(* connection to send took its place (pool.go 109, 119).                    *)
(***************************************************************************)
THEOREM RoomToSend == Spec => []SendNeverBlocks
<1>1. IInv => SendNeverBlocks
  <2> SUFFICES ASSUME IInv, NEW c \in Callers, pc[c] \in {"offer", "send"}
               PROVE  Len(conns) < MaxConns
    BY DEF SendNeverBlocks
  <2>1. c \in Holders
    BY DEF Holders, Held, Holding
  <2>2. Cardinality(Holders) # 0
    BY <2>1, HoldersFinite, FS_EmptySet
  <2> QED
    BY <2>2, HoldersFinite, SizeAssumption DEF IInv, Accounted, TypeOK
<1> QED
  BY <1>1, Invariant, PTL

(***************************************************************************)
(* CreateRecord sends its statement once, broken connection or not          *)
(* (pool.go 171-206).                                                       *)
(***************************************************************************)
THEOREM CreatesRunOnce == Spec => []RunsOnce
<1>1. IInv => RunsOnce
  BY DEF IInv
<1> QED
  BY <1>1, Invariant, PTL

(***************************************************************************)
(* No statement runs in the namespace of another tenant, on the first        *)
(* connection or on the one borrowed for the second try (pool.go 134-166).  *)
(***************************************************************************)
THEOREM RunsInTheirTenant == Spec => RunsInTenant
<1>1. IInv /\ [Next]_vars => [\A c \in Callers : runs'[c] > runs[c] => ns[conn[c]] = tenant[c]]_vars
  <2> SUFFICES ASSUME IInv, Next, NEW c \in Callers, runs'[c] > runs[c]
               PROVE  ns[conn[c]] = tenant[c]
    OBVIOUS
  <2>1. TypeOK /\ RunsSoFar /\ InNamespace
    BY DEF IInv
  <2>2. runs[c] \in Nat
    <3>1. runs \in [Callers -> 0..2]
      BY <2>1 DEF TypeOK
    <3> QED
      BY <3>1
  <2>3. runs' # runs
    BY <2>2
  <2>4. PICK d \in Callers :
          Exec(d) \/ Retry(d) \/ \E o \in {"query", "create"}, t \in Tenants : Start(d, o, t)
    <3>1. ~(Closing \/ \E k \in Conns : Break(k))
      BY <2>3 DEF Closing, CloseMark, Drain, DrainDone, CloseChan, Break
    <3>2. PICK d \in Callers : Calling(d) \/ Serving(d)
      BY <3>1 DEF Next
    <3>3. ~(\/ GiveUp(d) \/ Borrow(d) \/ Use(d) \/ Reconnect(d) \/ Offer(d) \/ ReturnConn(d)
            \/ SendBack(d) \/ Discard(d))
      BY <2>3 DEF GiveUp, Borrow, Use, Reconnect, Offer, ReturnConn, SendBack, Discard
    <3> QED
      BY <3>2, <3>3 DEF Calling, Serving
  <2>5. CASE Exec(d) \/ Retry(d)
    <3>1. pc[d] \in {"exec", "retry"} /\ MayRun(d)
      BY <2>3, <2>5 DEF Exec, Retry
    <3>2. d = c
      BY <2>1, <2>2, <3>1, RunsTyped
    <3> QED
      BY <2>1, <3>1, <3>2 DEF InNamespace
  <2>6. ASSUME NEW o \in {"query", "create"}, NEW t \in Tenants, Start(d, o, t)
        PROVE  FALSE
    <3>1. runs'[c] \in {runs[c], 0}
      BY <2>1, <2>6 DEF Start, TypeOK
    <3> QED
      BY <2>2, <3>1
  <2> QED
    BY <2>4, <2>5, <2>6
<1> QED
  BY <1>1, Invariant, PTL DEF Spec, RunsInTenant

(***************************************************************************)
(* The pool implements Slots: callers, reconnects and Close move places of   *)
(* the channel only as Slots says (pool.go 92-122, 216-235).                 *)
(***************************************************************************)
THEOREM PoolKeepsSlots == Spec => KeepsSlots
<1>1. Init => PoolSlots!SlotsInit
  <2> SUFFICES ASSUME Init PROVE PoolSlots!SlotsInit
    OBVIOUS
  <2>1. Holders = {} /\ Cardinality(Holders) = 0
    BY FS_EmptySet DEF Init, Holders, Held, Holding
  <2>2. Len(conns) = MaxConns
    BY SizeAssumption DEF Init
  <2> QED
    BY <2>1, <2>2 DEF Init, PoolSlots!SlotsInit
<1>2. IInv /\ IInv' /\ [Next]_vars => [PoolSlots!SlotsNext]_(PoolSlots!slots)
  <2> SUFFICES ASSUME IInv, IInv', [Next]_vars PROVE [PoolSlots!SlotsNext]_(PoolSlots!slots)
    OBVIOUS
  <2>1. SlotStep
    BY NextMoves DEF IInv
  <2>2. Len(conns) \in Nat /\ Len(conns') \in Nat /\ gone \in Nat
    BY DEF IInv, TypeOK
  <2>3. Cardinality(Holders) \in Nat /\ Cardinality(Holders') \in Nat
    BY HoldersFinite, CallerAssumption, FS_Subset, FS_CardinalityType DEF Holders
  <2> QED
    BY <2>1, <2>2, <2>3
    DEF SlotStep, Moves, PoolSlots!SlotsNext, PoolSlots!slots, PoolSlots!Take, PoolSlots!Give,
        PoolSlots!Retire, PoolSlots!Withdraw
<1> QED
  BY <1>1, <1>2, Invariant, PTL DEF Spec, KeepsSlots, PoolSlots!SlotsSpec
=============================================================================
