----------------------------- MODULE MCSignIn -----------------------------
(* Signing in on a small instance: two tabs of one browser, one address of   *)
(* a listed domain and one of no tenant.                                    *)
EXTENDS SignIn, TLC

CONSTANTS t1, t2, b1, e1, e2, airline

OneBrowser == t1 :> b1 @@ t2 :> b1
Symmetry == Permutations(Tabs) \cup Permutations(Users)
Domains == e1 :> airline @@ e2 :> Public
=============================================================================
