---------------------------- MODULE SessionBridges ----------------------------
(***************************************************************************)
(* A session update replaces the bridge the language server uses: the new  *)
(* SessionBridge has a BridgeRuntime of its own (lsp/session_bridge.rs),   *)
(* while handlers spawned earlier go on with the bridge of their snapshot. *)
(* This module composes the two runtimes that coexist around an update.    *)
(* They share the clock and the R process, and nothing else.               *)
(***************************************************************************)
EXTENDS Integers

CONSTANTS OldCallers, NewCallers,   \* handlers spawned before and after the update
          Identities, None, MAX_WAITING_REQUESTS, CIRCUIT_FAILURE_THRESHOLD,
          CIRCUIT_COOLDOWN, MaxDeadline, FailureLimit   \* as in BridgeRuntime

VARIABLES
    session,    \* which bridge state.session_bridge is: "old" or "new"
    oldQueue, oldCircuit, oldPc, oldIdentity, oldLeft, oldCancelled, oldOutcome,
    newQueue, newCircuit, newPc, newIdentity, newLeft, newCancelled, newOutcome

oldVars == <<oldQueue, oldCircuit, oldPc, oldIdentity, oldLeft, oldCancelled, oldOutcome>>
newVars == <<newQueue, newCircuit, newPc, newIdentity, newLeft, newCancelled, newOutcome>>
vars == <<session, oldVars, newVars>>

Old == INSTANCE BridgeRuntime WITH
          Callers <- OldCallers, queue <- oldQueue, circuit <- oldCircuit, pc <- oldPc,
          identity <- oldIdentity, left <- oldLeft, cancelled <- oldCancelled,
          outcome <- oldOutcome

New == INSTANCE BridgeRuntime WITH
          Callers <- NewCallers, queue <- newQueue, circuit <- newCircuit, pc <- newPc,
          identity <- newIdentity, left <- newLeft, cancelled <- newCancelled,
          outcome <- newOutcome

\* SessionBridge::new: either bridge starts with a default runtime.
Init == session = "old" /\ Old!Init /\ New!Init

-----------------------------------------------------------------------------
\* A handler takes the bridge from the world it was spawned on.
CallsGoTo(which) == session = which

\* did_update_session puts a new bridge in place.
UpdateSession ==
    /\ session = "old"
    /\ session' = "new"
    /\ UNCHANGED <<oldVars, newVars>>

OldCaller(c) ==
    /\ \/ CallsGoTo("old") /\ Old!Call(c)
       \/ Old!Cancel(c)
       \/ Old!Step(c)
    /\ UNCHANGED <<session, newVars>>

NewCaller(c) ==
    /\ \/ CallsGoTo("new") /\ New!Call(c)
       \/ New!Cancel(c)
       \/ New!Step(c)
    /\ UNCHANGED <<session, oldVars>>

Tick == Old!Tick /\ New!Tick /\ UNCHANGED session

Next == \/ UpdateSession
        \/ Tick
        \/ \E c \in OldCallers : OldCaller(c)
        \/ \E c \in NewCallers : NewCaller(c)

Spec == Init /\ [][Next]_vars

-----------------------------------------------------------------------------
(* Property *)

\* SPEC.md: "Ark admits at most one bridge operation into R".
OneOperationInR ==
    ~ \E c \in OldCallers, d \in NewCallers :
          oldPc[c] = "exchange" /\ newPc[d] = "exchange"

=============================================================================
