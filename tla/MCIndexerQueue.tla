--------------------------- MODULE MCIndexerQueue ---------------------------
(* IndexerQueue for TLC: a targets project with its script and the file it *)
(* sources, each in a workspace folder of its own.                         *)
EXTENDS IndexerQueue

CONSTANTS script, helper, r1, r2

MCRootsOf == script :> {r1} @@ helper :> {r2}
MCScriptOf == script :> script @@ helper :> script
MCSourced == script :> {helper} @@ helper :> {}

=============================================================================
