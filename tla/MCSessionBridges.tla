--------------------------- MODULE MCSessionBridges ---------------------------
(* SessionBridges for TLC. *)
EXTENDS SessionBridges

=============================================================================
