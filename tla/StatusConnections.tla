------------------------- MODULE StatusConnections --------------------------
(***************************************************************************)
(* What a session status file can name.  One console runs one R at a time; *)
(* both are numbered by generation, which stands for process ids, port and *)
(* token.                                                                  *)
(***************************************************************************)
EXTENDS Naturals

CONSTANTS
  MaxGeneration,   \* bound: consoles that are started on one file
  None

ASSUME GenerationsAssumption ==
  /\ MaxGeneration \in Nat
  /\ None \notin Nat
  /\ None \notin [gen : Nat, owner : Nat \cup {None}]

Generations == 0 .. MaxGeneration

\* A socket, and who says that R is busy.
Connections == [gen : Generations, owner : Generations \cup {None}]
=============================================================================
