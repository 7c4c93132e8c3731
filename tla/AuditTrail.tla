---------------------------- MODULE AuditTrail ----------------------------
(***************************************************************************)
(* What the audit store promises: an event is accepted or refused when it   *)
(* is logged, an accepted event is settled once, and the store does not     *)
(* stop before every accepted event is.                                     *)
(***************************************************************************)
CONSTANT Events

VARIABLES fate, stopped

trail == <<fate, stopped>>

Settled == {"written", "lost"}

TrailInit == fate = [e \in Events |-> "new"] /\ stopped = FALSE

Decide(e) ==
    /\ fate[e] = "new"
    /\ \E f \in {"accepted", "refused"} : fate' = [fate EXCEPT ![e] = f]
    /\ fate'[e] = "accepted" => ~stopped
    /\ UNCHANGED stopped

Settle(e) ==
    /\ fate[e] = "accepted"
    /\ \E f \in Settled : fate' = [fate EXCEPT ![e] = f]
    /\ UNCHANGED stopped

StopTrail ==
    /\ \A e \in Events : fate[e] # "accepted"
    /\ stopped' = TRUE
    /\ UNCHANGED fate

TrailNext == StopTrail \/ \E e \in Events : Decide(e) \/ Settle(e)

TrailSpec == TrailInit /\ [][TrailNext]_trail
=============================================================================
