----------------------------- MODULE MCPasskeys -----------------------------
(* Passkeys on small instances; all model values are interchangeable. *)
EXTENDS Passkeys, TLC

Symmetry ==
    UNION {Permutations(S) : S \in {Users, Keys, Handles, Challenges, Workers}}
=============================================================================
