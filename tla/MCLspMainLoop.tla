---------------------------- MODULE MCLspMainLoop ----------------------------
(* LspMainLoop for TLC. *)
EXTENDS LspMainLoop

=============================================================================
