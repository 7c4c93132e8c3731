---------------------------- MODULE MCSessions ----------------------------
(* Sessions on small instances; workers and browsers are interchangeable. *)
EXTENDS Sessions, TLC

Symmetry == Permutations(Workers) \cup Permutations(Browsers)
=============================================================================
