----------------------------- MODULE MCSessions -----------------------------
(* Two calls of every kind over a pool of two connections. *)
EXTENDS Sessions, TLC
Interchangeable == Permutations(Tasks)
=============================================================================
