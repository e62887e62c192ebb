-------------------------- MODULE MCTargetsManifest --------------------------
(* TargetsManifest for TLC: projects are interchangeable. *)
EXTENDS TargetsManifest, TLC

RootSymmetry == Permutations(Roots)

=============================================================================
