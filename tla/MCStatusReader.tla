--------------------------- MODULE MCStatusReader ---------------------------
(* Two threads of the server, an R left over and one started meanwhile. *)
EXTENDS StatusReader, TLC

ThreadSymmetry == Permutations(Requests)
=============================================================================
