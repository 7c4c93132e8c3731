---------------------------- MODULE MCConnPool ----------------------------
(* The pool on a small instance: the constants are in ConnPool.cfg. *)
EXTENDS ConnPool
=============================================================================
