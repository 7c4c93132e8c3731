------------------------------- MODULE Slots -------------------------------
(***************************************************************************)
(* What the connection pool promises its callers, without connections: Size *)
(* slots, each free, held by one caller or gone for good.                   *)
(***************************************************************************)
EXTENDS Integers

CONSTANT Size

VARIABLES free, held, gone

slots == <<free, held, gone>>

SlotsInit == free = Size /\ held = 0 /\ gone = 0

\* A caller takes a free slot.
Take == free > 0 /\ free' = free - 1 /\ held' = held + 1 /\ UNCHANGED gone

\* A caller puts the slot it holds back.
Give == held > 0 /\ held' = held - 1 /\ free' = free + 1 /\ UNCHANGED gone

\* A caller gives up the slot it holds.
Retire == held > 0 /\ held' = held - 1 /\ gone' = gone + 1 /\ UNCHANGED free

\* Shutting down takes the free slots away.
Withdraw == free > 0 /\ free' = free - 1 /\ gone' = gone + 1 /\ UNCHANGED held

SlotsNext == Take \/ Give \/ Retire \/ Withdraw

SlotsSpec == SlotsInit /\ [][SlotsNext]_slots
=============================================================================
