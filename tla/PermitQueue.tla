----------------------------- MODULE PermitQueue -----------------------------
(***************************************************************************)
(* What the bridge's admission promises, with no word on how: R is one     *)
(* interactive process, so at most one client is served at any time, a     *)
(* bounded number wait, nobody waits while the server is free without      *)
(* having had to, and a client that is being served leaves before the next *)
(* one is let in.                                                          *)
(***************************************************************************)
EXTENDS Naturals, FiniteSets

CONSTANTS Clients, Capacity

VARIABLES served,   \* the client being served, as a set of at most one
          lined     \* the clients that wait

slotVars == <<served, lined>>

SlotInit == served = {} /\ lined = {}

\* A client finds the server free.
WalkIn(c) ==
    /\ served = {}
    /\ c \notin lined
    /\ served' = {c}
    /\ UNCHANGED lined

\* A client finds the server busy and room to wait.
LineUp(c) ==
    /\ served # {}
    /\ c \notin served \cup lined
    /\ Cardinality(lined) < Capacity
    /\ lined' = lined \cup {c}
    /\ UNCHANGED served

\* A waiting client gives up.
GiveUp(c) ==
    /\ c \in lined
    /\ lined' = lined \ {c}
    /\ UNCHANGED served

\* A waiting client is let in, in no particular order.
LetIn(c) ==
    /\ served = {}
    /\ c \in lined
    /\ served' = {c}
    /\ lined' = lined \ {c}

Depart(c) ==
    /\ served = {c}
    /\ served' = {}
    /\ UNCHANGED lined

SlotNext == \E c \in Clients : \/ WalkIn(c) \/ LineUp(c) \/ GiveUp(c)
                               \/ LetIn(c) \/ Depart(c)

SlotSpec == SlotInit /\ [][SlotNext]_slotVars

=============================================================================
