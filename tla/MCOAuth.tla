----------------------------- MODULE MCOAuth -----------------------------
(* OAuth on small instances; workers, browsers and identities are           *)
(* interchangeable.                                                         *)
EXTENDS OAuth, TLC

Symmetry ==
    Permutations(Workers) \cup Permutations(Browsers) \cup Permutations(Identities)
=============================================================================
