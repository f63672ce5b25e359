------------------------------ MODULE MCPool ------------------------------
(* The pool on small instances. *)
EXTENDS Pool

ClientSymmetry == Permutations(Clients)
=============================================================================
