---------------------------- MODULE MCRateLimits ----------------------------
(* RateLimits on small instances; handlers are interchangeable. *)
EXTENDS RateLimits, TLC

Symmetry == Permutations(Handlers)
=============================================================================
