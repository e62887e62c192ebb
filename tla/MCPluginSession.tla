-------------------------- MODULE MCPluginSession --------------------------
(***************************************************************************)
(* Two sessions: crashes and commands without one, a change of the session *)
(* and a crash, three changes of it, and a crash without recovery.         *)
(***************************************************************************)
EXTENDS PluginSession

MCScenarios ==
  {[session |-> FALSE, recovery |-> TRUE, commands |-> 2, crashes |-> 2, writes |-> 0],
   [session |-> TRUE, recovery |-> TRUE, commands |-> 1, crashes |-> 1, writes |-> 2],
   [session |-> TRUE, recovery |-> TRUE, commands |-> 1, crashes |-> 0, writes |-> 3],
   [session |-> TRUE, recovery |-> FALSE, commands |-> 2, crashes |-> 1, writes |-> 0]}
=============================================================================
