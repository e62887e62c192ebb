--------------------------- MODULE StatusContents ---------------------------
(***************************************************************************)
(* What a reader of the session status file may rely on: at any moment it  *)
(* finds nothing, half a file, or a file that names a socket and possibly  *)
(* a console that vouches for R being busy.  Sockets may be those of an R  *)
(* that is gone, never of one that is still to come; and a file that calls *)
(* a living R busy names its living console, so that a reader who defers   *)
(* to it does not defer to nobody.                                         *)
(***************************************************************************)
EXTENDS StatusConnections

VARIABLES
  shown,    \* what a reader would find
  live      \* the R and the console that run now, and the last that were started

Contents == [conn : Connections \cup {None}, torn : BOOLEAN, there : BOOLEAN]

Lives == [r : Generations \cup {None}, console : Generations \cup {None},
          started : Generations, opened : Generations]

Promised(conn) ==
  conn # None =>
    /\ conn.gen <= live.started
    /\ conn.owner # None => conn.owner <= live.opened
    /\ conn.owner # None /\ conn.gen = live.r => conn.owner = live.console

ContentsInit ==
  /\ shown \in {c \in Contents : c.there \/ (c.conn = None /\ ~c.torn)}
  /\ live = [r |-> None, console |-> None, started |-> 0, opened |-> 0]
  /\ Promised(shown.conn)

\* A complete content, by a rename or by the end of a write.
Show(conn) ==
  /\ Promised(conn)
  /\ shown' = [conn |-> conn, torn |-> FALSE, there |-> TRUE]
  /\ UNCHANGED live

\* The file is opened for writing and is empty.
Tear ==
  /\ shown' = [shown EXCEPT !.torn = TRUE, !.there = TRUE]
  /\ UNCHANGED live

\* A console, then its R; R ends, then its console, or both at once.
OpenConsole ==
  /\ live.console = None
  /\ live.opened < MaxGeneration
  /\ live' = [live EXCEPT !.console = live.opened + 1, !.opened = @ + 1]
  /\ UNCHANGED shown

StartR ==
  /\ live.console # None
  /\ live.started < live.console
  /\ live' = [live EXCEPT !.r = live.console, !.started = live.console]
  /\ UNCHANGED shown

StopR ==
  /\ live.r # None
  /\ live' = [live EXCEPT !.r = None]
  /\ UNCHANGED shown

CloseConsole ==
  /\ live.console # None
  /\ live' = [live EXCEPT !.r = None, !.console = None]
  /\ UNCHANGED shown

Change ==
  \/ \E conn \in Connections \cup {None} : Show(conn)
  \/ Tear \/ OpenConsole \/ StartR \/ StopR \/ CloseConsole

Contract == ContentsInit /\ [][Change]_<<shown, live>>
=============================================================================
