------------------------- MODULE MCDetachedHydration -------------------------
(* DetachedHydration for TLC. *)
EXTENDS DetachedHydration

=============================================================================
