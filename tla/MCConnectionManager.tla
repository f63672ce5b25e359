------------------------ MODULE MCConnectionManager ------------------------
(* The connection manager and the client on small instances. *)
EXTENDS ConnectionManager, TLC

CallSymmetry == Permutations(Calls)
=============================================================================
