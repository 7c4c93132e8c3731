------------------------------ MODULE Tickets ------------------------------
(***************************************************************************)
(* What a one-time ticket promises.  The state of an OAuth flow and the     *)
(* challenge of a passkey ceremony are tickets: drawn once, handed to one   *)
(* request, and good for one session; a ticket that is forgotten before,    *)
(* because it expired, its request failed or the server restarted, is good  *)
(* for none.                                                                *)
(***************************************************************************)
EXTENDS Naturals

CONSTANT Ids        \* the tickets there may be

VARIABLES
    drawn,          \* tickets that were drawn
    open,           \* those nobody has presented yet
    taken,          \* those in the hands of a request
    uses            \* sessions each ticket was used for

tickets == <<drawn, open, taken, uses>>

TicketsInit == drawn = {} /\ open = {} /\ taken = {} /\ uses = [t \in Ids |-> 0]

Draw(t) ==
    /\ t \notin drawn
    /\ drawn' = drawn \cup {t}
    /\ open' = open \cup {t}
    /\ UNCHANGED <<taken, uses>>

Hand(t) ==
    /\ t \in open
    /\ open' = open \ {t}
    /\ taken' = taken \cup {t}
    /\ UNCHANGED <<drawn, uses>>

Use(t) ==
    /\ t \in taken
    /\ taken' = taken \ {t}
    /\ uses' = [uses EXCEPT ![t] = @ + 1]
    /\ UNCHANGED <<drawn, open>>

Forget(gone) ==
    /\ open' = open \ gone
    /\ taken' = taken \ gone
    /\ UNCHANGED <<drawn, uses>>

TicketsNext ==
    \/ \E t \in Ids : Draw(t) \/ Hand(t) \/ Use(t)
    \/ \E gone \in SUBSET (open \cup taken) : Forget(gone)

TicketsSpec == TicketsInit /\ [][TicketsNext]_tickets
=============================================================================
