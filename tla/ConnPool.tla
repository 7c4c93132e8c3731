----------------------------- MODULE ConnPool -----------------------------
(***************************************************************************)
(* The connection pool of the persistence adapter: Pool.Query,              *)
(* Pool.CreateRecord, borrow, returnConn, reconnect and Close               *)
(* (adapters/persistence/surrealdb/pool.go).                                *)
(*                                                                         *)
(* The channel conns is a sequence.  Every channel operation, every message *)
(* to the database and every critical section of mu is a step of its own.   *)
(***************************************************************************)
EXTENDS Integers, Sequences, FiniteSets

CONSTANTS
    Callers,        \* goroutines: request handlers and audit workers
    Tenants,        \* namespaces the callers ask for
    DefaultNS,      \* namespace of a fresh connection
    MaxConns,       \* Config.MaxConns: the capacity of the channel
    MaxDials        \* bound: connections dialled in a behaviour

ASSUME CallerAssumption == IsFiniteSet(Callers)
ASSUME DefaultAssumption == DefaultNS \notin Tenants
ASSUME SizeAssumption == MaxConns \in Nat \ {0} /\ MaxDials \in Nat /\ MaxDials >= MaxConns

VARIABLES
    conns,      \* the channel: idle connections, oldest first
    phase,      \* of Close: "open", "draining" and "closing" once closed = true, "closed" after close(conns)
    dialled,    \* connections made so far
    state,      \* of each connection: "open", "dead" (broken), "closed"
    ns,         \* namespace each connection was last told to Use
    gone,       \* history: places of the channel given up for good
    pc,         \* where each caller is
    op,         \* the method it runs: "query" or "create"
    tenant,     \* the namespace it asked for
    conn,       \* the connection it has in hand
    runs        \* history: how often the database ran its statement

pool   == <<conns, phase, gone>>
wires  == <<dialled, state, ns>>
caller == <<op, tenant>>
vars   == <<pool, wires, pc, caller, conn, runs>>

NoConn == 0
Conns == 1..MaxDials

\* Steps at which a caller waits for a connection, has a place of the channel
\* in hand, or neither.
Waiting == {"borrow", "reborrow"}
Holding == {"use", "exec", "reconnect", "offer", "reuse", "retry", "return", "send", "discard"}
Steps == {"idle", "panicked"} \cup Waiting \cup Holding

Held(c) == pc[c] \in Holding
Holders == {c \in Callers : Held(c)}
Alive(k) == state[k] = "open"

TypeOK ==
    /\ conns \in Seq(Conns) /\ Len(conns) <= MaxConns
    /\ phase \in {"open", "draining", "closing", "closed"}
    /\ dialled \in MaxConns..MaxDials
    /\ state \in [Conns -> {"open", "dead", "closed"}]
    /\ ns \in [Conns -> Tenants \cup {DefaultNS}]
    /\ gone \in 0..MaxConns
    /\ pc \in [Callers -> Steps]
    /\ op \in [Callers -> {"query", "create"}]
    /\ tenant \in [Callers -> Tenants]
    /\ conn \in [Callers -> 0..MaxDials]
    /\ runs \in [Callers -> 0..2]
    /\ \A c \in Callers : Held(c) => conn[c] \in 1..dialled

\* NewPool succeeded; the connections not dialled yet count as closed.
Init ==
    /\ conns = [i \in 1..MaxConns |-> i]
    /\ phase = "open"
    /\ dialled = MaxConns
    /\ state = [k \in Conns |-> IF k <= MaxConns THEN "open" ELSE "closed"]
    /\ ns = [k \in Conns |-> DefaultNS]
    /\ gone = 0
    /\ pc = [c \in Callers |-> "idle"]
    /\ op = [c \in Callers |-> "query"]
    /\ tenant \in {[c \in Callers |-> t] : t \in Tenants}
    /\ conn = [c \in Callers |-> NoConn]
    /\ runs = [c \in Callers |-> 0]

-----------------------------------------------------------------------------
Goto(c, step) == pc' = [pc EXCEPT ![c] = step]

\* The caller's place of the channel is lost with it.
Retire == gone' = gone + 1

\* conns <- k panics on a closed channel and waits while the channel is full.
Send(c, k, next) ==
    \/ phase = "closed" /\ Retire /\ Goto(c, "panicked") /\ UNCHANGED conns
    \/ /\ phase # "closed" /\ Len(conns) < MaxConns
       /\ conns' = Append(conns, k)
       /\ Goto(c, next) /\ UNCHANGED gone

\* The statement reaches the database, or is lost or refused on the way.
MayRun(c) == \E n \in {0, 1} : runs' = [runs EXCEPT ![c] = @ + n]

\* Query or CreateRecord is called.
Start(c, o, t) ==
    /\ pc[c] = "idle"
    /\ op' = [op EXCEPT ![c] = o]
    /\ tenant' = [tenant EXCEPT ![c] = t]
    /\ runs' = [runs EXCEPT ![c] = 0]
    /\ Goto(c, "borrow")
    /\ UNCHANGED <<pool, wires, conn>>

\* borrow.  A closed and empty channel yields a nil connection, which the next
\* call dereferences.
Borrow(c) ==
    /\ pc[c] \in Waiting
    /\ \/ /\ conns # <<>>
          /\ conn' = [conn EXCEPT ![c] = Head(conns)]
          /\ conns' = Tail(conns)
          /\ Goto(c, IF pc[c] = "borrow" THEN "use" ELSE "reuse")
       \/ /\ conns = <<>> /\ phase = "closed"
          /\ Goto(c, "panicked")
          /\ UNCHANGED <<conns, conn>>
    /\ UNCHANGED <<phase, gone, wires, caller, runs>>

\* The other arm of borrow's select: the caller's context is done.
GiveUp(c) ==
    /\ pc[c] \in Waiting
    /\ Goto(c, "idle")
    /\ UNCHANGED <<pool, wires, caller, conn, runs>>

\* Mutant: an error of conn.Use returns without returnConn.
UseKeepsConn(c) ==
    /\ pc[c] \in {"use", "reuse"}
    /\ \/ /\ Alive(conn[c])
          /\ ns' = [ns EXCEPT ![conn[c]] = tenant[c]]
          /\ Goto(c, IF pc[c] = "use" THEN "exec" ELSE "retry")
       \/ Goto(c, "idle") /\ UNCHANGED ns
    /\ UNCHANGED <<pool, dialled, state, caller, conn, runs>>

\* Mutant: the retry goes to the new connection without Use.
UseOnce(c) ==
    /\ pc[c] \in {"use", "reuse"}
    /\ \/ /\ Alive(conn[c])
          /\ ns' = IF pc[c] = "use" THEN [ns EXCEPT ![conn[c]] = tenant[c]] ELSE ns
          /\ Goto(c, IF pc[c] = "use" THEN "exec" ELSE "retry")
       \/ Goto(c, "return") /\ UNCHANGED ns
    /\ UNCHANGED <<pool, dialled, state, caller, conn, runs>>

\* conn.Use(ctx, ns, dbName).  It fails on a broken connection and when ctx is
\* done; either way the connection goes back to the pool as it is.
Use(c) ==
    /\ pc[c] \in {"use", "reuse"}
    /\ \/ /\ Alive(conn[c])
          /\ ns' = [ns EXCEPT ![conn[c]] = tenant[c]]
          /\ Goto(c, IF pc[c] = "use" THEN "exec" ELSE "retry")
       \/ Goto(c, "return") /\ UNCHANGED ns
    /\ UNCHANGED <<pool, dialled, state, caller, conn, runs>>

\* driver.Query or driver.Create.  The connection may break after the statement
\* ran, and connError knows only some of the errors a broken one gives.
Exec(c) ==
    /\ pc[c] = "exec"
    /\ \/ Alive(conn[c]) /\ MayRun(c) /\ Goto(c, "return") /\ UNCHANGED state
       \/ /\ Alive(conn[c]) /\ MayRun(c) /\ Goto(c, "reconnect")
          /\ state' = [state EXCEPT ![conn[c]] = "dead"]
       \/ /\ ~Alive(conn[c])
          /\ Goto(c, "reconnect") \/ Goto(c, "return")
          /\ UNCHANGED <<state, runs>>
    /\ UNCHANGED <<pool, dialled, ns, caller, conn>>

\* Mutant: CreateRecord goes on as Query does, whatever the caller asked for.
RetryAlways(c) == "reborrow"

\* Where a caller goes once reconnect has returned: only Query tries again.
AfterReconnect(c) == IF op[c] = "query" THEN "reborrow" ELSE "idle"

\* reconnect: the broken connection is closed and another dialled.
Reconnect(c) ==
    /\ pc[c] = "reconnect"
    /\ \/ /\ dialled < MaxDials
          /\ dialled' = dialled + 1
          /\ state' = [state EXCEPT ![conn[c]] = "closed", ![dialled'] = "open"]
          /\ conn' = [conn EXCEPT ![c] = dialled']
          /\ Goto(c, "offer")
          /\ UNCHANGED gone
       \/ /\ state' = [state EXCEPT ![conn[c]] = "closed"]
          /\ Retire
          /\ Goto(c, AfterReconnect(c))
          /\ UNCHANGED <<dialled, conn>>
    /\ UNCHANGED <<conns, phase, ns, caller, runs>>

\* The last statement of reconnect: the new connection goes to the channel.
Offer(c) ==
    /\ pc[c] = "offer"
    /\ Send(c, conn[c], AfterReconnect(c))
    /\ UNCHANGED <<phase, wires, caller, conn, runs>>

\* The second attempt of Query, whose errors are not looked at.
Retry(c) ==
    /\ pc[c] = "retry"
    /\ \/ Alive(conn[c]) /\ MayRun(c)
       \/ ~Alive(conn[c]) /\ UNCHANGED runs
    /\ Goto(c, "return")
    /\ UNCHANGED <<pool, wires, caller, conn>>

\* returnConn reads closed under mu and acts on it after the unlock.
ReturnConn(c) ==
    /\ pc[c] = "return"
    /\ Goto(c, IF phase = "open" THEN "send" ELSE "discard")
    /\ UNCHANGED <<pool, wires, caller, conn, runs>>

\* Mutant: a returned connection is sent twice.
SendTwice(c) ==
    /\ pc[c] = "send"
    /\ Send(c, conn[c], "idle") \/ Send(c, conn[c], "send")
    /\ UNCHANGED <<phase, wires, caller, conn, runs>>

SendBack(c) ==
    /\ pc[c] = "send"
    /\ Send(c, conn[c], "idle")
    /\ UNCHANGED <<phase, wires, caller, conn, runs>>

Discard(c) ==
    /\ pc[c] = "discard"
    /\ state' = [state EXCEPT ![conn[c]] = "closed"]
    /\ Retire
    /\ Goto(c, "idle")
    /\ UNCHANGED <<conns, phase, dialled, ns, caller, conn, runs>>

-----------------------------------------------------------------------------
(* Close, called once by main when the server has stopped, and the network. *)

CloseMark ==
    /\ phase = "open"
    /\ phase' = "draining"
    /\ UNCHANGED <<conns, gone, wires, pc, caller, conn, runs>>

Drain ==
    /\ phase = "draining" /\ conns # <<>>
    /\ state' = [state EXCEPT ![Head(conns)] = "closed"]
    /\ conns' = Tail(conns)
    /\ Retire
    /\ UNCHANGED <<phase, dialled, ns, pc, caller, conn, runs>>

\* The default arm of the drain's select: the channel was empty when looked at.
DrainDone ==
    /\ phase = "draining" /\ conns = <<>>
    /\ phase' = "closing"
    /\ UNCHANGED <<conns, gone, wires, pc, caller, conn, runs>>

CloseChan ==
    /\ phase = "closing"
    /\ phase' = "closed"
    /\ UNCHANGED <<conns, gone, wires, pc, caller, conn, runs>>

\* A connection breaks while nobody uses it.
Break(k) ==
    /\ Alive(k)
    /\ state' = [state EXCEPT ![k] = "dead"]
    /\ UNCHANGED <<pool, dialled, ns, pc, caller, conn, runs>>

Calling(c) ==
    \/ \E o \in {"query", "create"}, t \in Tenants : Start(c, o, t)
    \/ GiveUp(c)
Serving(c) ==
    \/ Borrow(c) \/ Use(c) \/ Exec(c) \/ Reconnect(c) \/ Offer(c) \/ Retry(c)
    \/ ReturnConn(c) \/ SendBack(c) \/ Discard(c)
Closing == CloseMark \/ Drain \/ DrainDone \/ CloseChan

Next ==
    \/ \E c \in Callers : Calling(c) \/ Serving(c)
    \/ Closing
    \/ \E k \in Conns : Break(k)

Spec == Init /\ [][Next]_vars

\* The scheduler runs every goroutine, the channel serves its receivers in the
\* order they came, and every statement has a deadline of 10 seconds.  Nothing
\* ends the wait of a request whose client stays connected, so GiveUp is not fair.
Fairness ==
    /\ \A c \in Callers : WF_vars(Serving(c)) /\ SF_vars(Borrow(c))
    /\ WF_vars(Drain \/ DrainDone \/ CloseChan)
FairSpec == Spec /\ Fairness

-----------------------------------------------------------------------------
(* What holds of the code. *)

\* A connection is in one place: once in the channel, or in one caller's hands
\* (pool.go 92-109): two callers on one connection would change the namespace
\* under each other's statements.
Exclusive ==
    /\ \A i, j \in 1..Len(conns) : conns[i] = conns[j] => i = j
    /\ \A c \in Holders : \A i \in 1..Len(conns) : conns[i] # conn[c]
    /\ \A c, d \in Holders : conn[c] = conn[d] => c = d

\* A caller that puts a connection into the channel never waits for room: the
\* send of returnConn and of reconnect has no way out (pool.go 109, 119).
SendNeverBlocks ==
    \A c \in Callers : pc[c] \in {"offer", "send"} => Len(conns) < MaxConns

\* A statement runs in the namespace its caller asked for, also when it is tried
\* again on another connection that another tenant used before (pool.go 138, 157).
RunsInTenant ==
    [][\A c \in Callers : runs'[c] > runs[c] => ns[conn[c]] = tenant[c]]_vars

\* Only Query repeats a statement, and once; CreateRecord never does.
RunsOnce == \A c \in Callers : op[c] = "create" => runs[c] <= 1

\* Callers, reconnects and Close together account for every place of the channel.
PoolSlots ==
    INSTANCE Slots WITH Size <- MaxConns, free <- Len(conns), held <- Cardinality(Holders),
                        gone <- gone
KeepsSlots == PoolSlots!SlotsSpec

\* Whoever waits for a connection gets one, unless every place of the channel
\* has been given up to reconnects that failed.
Served ==
    \A c \in Callers : pc[c] \in Waiting ~> (pc[c] \notin Waiting \/ gone = MaxConns)

-----------------------------------------------------------------------------
(* What the repository says and the code does not do. *)

\* pool.go:30 "a thread-safe SurrealDB WebSocket connection pool": callers may
\* still be at work when Close runs.
ThreadSafe == \A c \in Callers : pc[c] # "panicked"

\* pool.go:216 "Close drains and closes all connections": once Close and the
\* calls that were under way have returned, none is left open.
CloseClosesAll ==
    phase = "closed" /\ (\A c \in Callers : pc[c] = "idle")
        => \A k \in 1..dialled : ~Alive(k)
=============================================================================
