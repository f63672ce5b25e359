--------------------------- MODULE MCPoolManager ---------------------------
(* The pool manager on small instances. *)
EXTENDS PoolManager, TLC

CallSymmetry == Permutations(Calls)
=============================================================================
