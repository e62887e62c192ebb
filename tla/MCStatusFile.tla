----------------------------- MODULE MCStatusFile -----------------------------
(* Two consoles in turn on a file that may be there already, two submitted lines. *)
EXTENDS StatusFile
=============================================================================
