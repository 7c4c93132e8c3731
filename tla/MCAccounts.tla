----------------------------- MODULE MCAccounts -----------------------------
(* The users table on a small instance. *)
EXTENDS Accounts, TLC

Symmetry == Permutations(Callers)
=============================================================================
