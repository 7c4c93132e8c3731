------------------------------ MODULE MCServer ------------------------------
(* The server process on small instances. *)
EXTENDS Server, TLC
=============================================================================
