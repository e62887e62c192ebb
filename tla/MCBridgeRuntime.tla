--------------------------- MODULE MCBridgeRuntime ---------------------------
(* BridgeRuntime for TLC: callers are interchangeable in the safety runs. *)
EXTENDS BridgeRuntime, TLC

CallerSymmetry == Permutations(Callers)

=============================================================================
