------------------------------ MODULE MCOTP ------------------------------
(* OTP on small instances; the workers are interchangeable. *)
EXTENDS OTP, TLC

Symmetry == Permutations(Workers)
=============================================================================
