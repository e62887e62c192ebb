-------------------------- MODULE DetachedHydration --------------------------
(***************************************************************************)
(* How the detached language server fills in what it knows about R         *)
(* (lsp/state_handlers.rs, lsp/state.rs): a baseline from a private        *)
(* Rscript, and the metadata of the live session over the bridge.  Both    *)
(* are fetched by blocking threads (lsp/main_loop.rs) and applied when the *)
(* result comes back as an event, by then perhaps for another session.     *)
(*                                                                         *)
(* The metadata (console_scopes, installed_packages, library paths) is     *)
(* reduced to where it came from.  A baseline has all three parts; a live  *)
(* bootstrap never lists the installed packages; R always has a library    *)
(* path.  So the metadata is bootstrap_incomplete exactly when nothing was *)
(* ever applied, and metadata_incomplete unless a baseline was.            *)
(***************************************************************************)
EXTENDS Integers

CONSTANTS UpdateKinds,      \* which session updates the editor sends
          ReplSeqs,         \* the repl_seq values a session reports
          MaxUpdates,       \* bound: how many session updates arrive
          MaxAttempts       \* bound: how many baselines are attempted

ASSUME HydrationAssumption ==
    /\ UpdateKinds \subseteq {"live", "absent", "refused"}
    /\ ReplSeqs \subseteq Nat \ {0}
    /\ MaxUpdates \in Nat
    /\ MaxAttempts \in Nat \ {0}

VARIABLES
    world,        \* the WorldState fields of hydration
    metadata,     \* what the analysis uses now, and where it came from
    sessionJobs,  \* session bootstraps under way, with their arguments
    baselineJobs  \* baseline bootstraps under way, with their attempt

vars == <<world, metadata, sessionJobs, baselineJobs>>

-----------------------------------------------------------------------------
(* Types and initial state *)

None == -1
OptionSeq == ReplSeqs \cup {None}
Generations == 0..MaxUpdates
Statuses == {"", "ready", "pending"}

(* generation, pending and completed are the detached_session_*_generation   *)
(* fields; succeeded, error and cooled stand for last_bootstrap_success_ms   *)
(* being set, last_bootstrap_error not being empty, and 500 ms having passed *)
(* since last_bootstrap_attempt_ms.                                          *)
Worlds == [status : Statuses, repl_seq : OptionSeq, bridge : BOOLEAN,
           generation : Generations,
           pending : Generations \cup {None}, completed : Generations \cup {None},
           attempted : BOOLEAN, bootstrap_seq : OptionSeq,
           succeeded : BOOLEAN, error : BOOLEAN, cooled : BOOLEAN,
           baseline_pending : BOOLEAN, baseline_attempt : 0..MaxAttempts,
           baseline_succeeded : BOOLEAN, baseline_error : BOOLEAN,
           baseline_cooled : BOOLEAN]

Metadata == [source : {"none", "baseline", "live"},
             generation : Generations \cup {None}, repl_seq : OptionSeq]

Baseline == [source |-> "baseline", generation |-> None, repl_seq |-> None]
Live(job) == [source |-> "live", generation |-> job.generation, repl_seq |-> job.repl_seq]

\* WorldState::detached: a bridge may come from the environment.
Init ==
    /\ \E b \in BOOLEAN :
          world = [status |-> "", repl_seq |-> None, bridge |-> b, generation |-> 0,
                   pending |-> None, completed |-> None, attempted |-> FALSE,
                   bootstrap_seq |-> None, succeeded |-> FALSE, error |-> FALSE,
                   cooled |-> TRUE, baseline_pending |-> FALSE, baseline_attempt |-> 0,
                   baseline_succeeded |-> FALSE, baseline_error |-> FALSE,
                   baseline_cooled |-> TRUE]
    /\ metadata = [source |-> "none", generation |-> None, repl_seq |-> None]
    /\ sessionJobs = {}
    /\ baselineJobs = {}

-----------------------------------------------------------------------------
(* What the handlers ask of the world *)

BootstrapIncomplete == metadata.source = "none"
MetadataIncomplete == metadata.source # "baseline"

\* WorldState::detached_session_hydrated
Hydrated(w) ==
    /\ ~BootstrapIncomplete
    /\ w.status = "ready"
    /\ ~w.error
    /\ w.completed = w.generation

\* begin_detached_baseline_hydration: when it starts a job.  The callers never
\* force it.
BaselineStarts(w) ==
    /\ ~Hydrated(w)
    /\ ~w.baseline_pending
    /\ MetadataIncomplete
    /\ \/ w.baseline_attempt = 0
       \/ ~w.baseline_succeeded /\ w.baseline_error /\ w.baseline_cooled

BeginBaseline(w) ==
    IF BaselineStarts(w)
    THEN [w EXCEPT !.baseline_pending = TRUE, !.baseline_attempt = @ + 1,
                   !.baseline_error = FALSE, !.baseline_cooled = FALSE]
    ELSE w

CurrentReplIsHydrated(w) ==
    /\ w.repl_seq # None /\ w.repl_seq = w.bootstrap_seq
    /\ ~w.error /\ ~BootstrapIncomplete

\* begin_detached_session_hydration: when it gets past its early returns ...
SessionAttempted(w, force) ==
    /\ w.pending # w.generation
    /\ \/ force
       \/ /\ ~CurrentReplIsHydrated(w)
          /\ \/ ~w.attempted
             \/ ~w.succeeded /\ w.error /\ BootstrapIncomplete /\ w.cooled

\* ... and when it starts a job.
SessionStarts(w, force) ==
    SessionAttempted(w, force) /\ (force \/ BootstrapIncomplete) /\ w.bridge

BeginSession(w, force) ==
    IF ~SessionAttempted(w, force) THEN w
    ELSE [w EXCEPT !.attempted = TRUE, !.cooled = FALSE,
                   !.pending = IF SessionStarts(w, force) THEN w.generation ELSE @,
                   !.error = @ \/ ((force \/ BootstrapIncomplete) /\ ~w.bridge)]

SessionJob(w) == [generation |-> w.generation, repl_seq |-> w.repl_seq]

-----------------------------------------------------------------------------
(* Faulty variants of the definitions below, used only to test properties. *)

\* A baseline is applied without asking for the live session.
FinishBaselineAlways(job, ok) ==
    /\ job \in baselineJobs
    /\ baselineJobs' = baselineJobs \ {job}
    /\ world' = [world EXCEPT !.baseline_pending = FALSE, !.baseline_succeeded = @ \/ ok,
                              !.baseline_error = ~ok]
    /\ metadata' = IF ok THEN Baseline ELSE metadata
    /\ ok \/ world.baseline_attempt < MaxAttempts
    /\ UNCHANGED sessionJobs

\* A session result is applied whatever generation it was fetched for.
NeverStale(job) == FALSE

\* The result is applied and the bootstrap stays marked as under way.
ClearPendingNever(w, g) == w

\* A session update forgets the baseline under way along with the session's.
NewSessionForgetsBaseline(w) ==
    [w EXCEPT !.generation = @ + 1, !.pending = None, !.attempted = FALSE,
              !.baseline_pending = FALSE]

-----------------------------------------------------------------------------
(* The handlers *)

\* Every accepted update starts a new session generation.
NewSession(w) ==
    [w EXCEPT !.generation = @ + 1, !.pending = None, !.attempted = FALSE]

(* did_update_session, from ark/updateSession or ark/bootstrapSession.  An    *)
(* update of an unsupported kind is refused after its status was stored.      *)
UpdateSession(kind, status, repl_ready, seq) ==
    /\ world.generation < MaxUpdates
    /\ LET told  == [world EXCEPT !.status = status, !.repl_seq = seq]
           fresh == NewSession([told EXCEPT !.bridge = (kind = "live")])
           live  == status = "ready" /\ repl_ready /\ kind = "live"
           begun == IF live THEN BeginSession(fresh, TRUE) ELSE fresh
           runs  == live /\ SessionStarts(fresh, TRUE)
       IN  IF kind = "refused"
           THEN world' = told /\ UNCHANGED <<sessionJobs, baselineJobs>>
           ELSE /\ world' = IF runs THEN begun ELSE BeginBaseline(begun)
                /\ sessionJobs' = sessionJobs \cup (IF runs THEN {SessionJob(fresh)} ELSE {})
                /\ baselineJobs' = baselineJobs \cup
                      (IF ~runs /\ BaselineStarts(begun) THEN {begun.baseline_attempt + 1} ELSE {})
    /\ UNCHANGED metadata

\* did_open, and did_change of an open document.
EditDocument ==
    LET w == BeginBaseline(world)
        runs == w.bridge /\ SessionStarts(w, FALSE)
    IN  /\ world' = IF w.bridge THEN BeginSession(w, FALSE) ELSE w
        /\ baselineJobs' = baselineJobs \cup
              (IF BaselineStarts(world) THEN {world.baseline_attempt + 1} ELSE {})
        /\ sessionJobs' = sessionJobs \cup (IF runs THEN {SessionJob(w)} ELSE {})
        /\ UNCHANGED metadata

\* finish_detached_baseline_hydration.  Bound: the last attempt does not fail.
FinishBaseline(job, ok) ==
    /\ job \in baselineJobs
    /\ ok \/ world.baseline_attempt < MaxAttempts
    /\ baselineJobs' = baselineJobs \ {job}
    /\ UNCHANGED sessionJobs
    /\ LET settled == [world EXCEPT !.baseline_pending = FALSE]
       IN  IF job # world.baseline_attempt THEN UNCHANGED <<world, metadata>>
           ELSE IF Hydrated(world) THEN world' = settled /\ UNCHANGED metadata
           ELSE IF ok THEN /\ world' = [settled EXCEPT !.baseline_succeeded = TRUE,
                                                       !.baseline_error = FALSE]
                           /\ metadata' = Baseline
           ELSE world' = [settled EXCEPT !.baseline_error = TRUE] /\ UNCHANGED metadata

\* The result belongs to another session, or to an earlier prompt of this one.
Stale(job) ==
    \/ job.generation # world.generation
    \/ job.repl_seq # None /\ job.repl_seq # world.repl_seq

ClearPending(w, g) == [w EXCEPT !.pending = IF @ = g THEN None ELSE @]

\* finish_detached_session_hydration
FinishSession(job, ok) ==
    /\ job \in sessionJobs
    /\ sessionJobs' = sessionJobs \ {job}
    /\ UNCHANGED baselineJobs
    /\ LET settled == ClearPending(world, job.generation)
       IN  IF Stale(job) THEN UNCHANGED <<world, metadata>>
           ELSE IF ok THEN /\ world' = [settled EXCEPT !.succeeded = TRUE, !.error = FALSE,
                                                       !.bootstrap_seq = job.repl_seq,
                                                       !.completed = job.generation]
                           /\ metadata' = Live(job)
           ELSE world' = [settled EXCEPT !.error = TRUE] /\ UNCHANGED metadata

\* 500 milliseconds pass since one of the last attempts.
SessionCooled ==
    /\ ~world.cooled
    /\ world' = [world EXCEPT !.cooled = TRUE]
    /\ UNCHANGED <<metadata, sessionJobs, baselineJobs>>

BaselineCooled ==
    /\ ~world.baseline_cooled
    /\ world' = [world EXCEPT !.baseline_cooled = TRUE]
    /\ UNCHANGED <<metadata, sessionJobs, baselineJobs>>

-----------------------------------------------------------------------------
(* The specification *)

Finish == \E ok \in BOOLEAN : \/ \E j \in baselineJobs : FinishBaseline(j, ok)
                              \/ \E j \in sessionJobs : FinishSession(j, ok)

Next ==
    \/ \E kind \in UpdateKinds, status \in {"ready", "pending"}, ready \in BOOLEAN,
          seq \in OptionSeq : UpdateSession(kind, status, ready, seq)
    \/ EditDocument
    \/ Finish
    \/ SessionCooled \/ BaselineCooled

Spec == Init /\ [][Next]_vars

\* The blocking threads end (the bridge call has a deadline, the Rscript a
\* timeout) and the main loop applies what they send.
FairSpec == /\ Spec
            /\ \A g \in Generations, s \in OptionSeq :
                  WF_vars(\E ok \in BOOLEAN : FinishSession([generation |-> g, repl_seq |-> s], ok))

-----------------------------------------------------------------------------
(* Properties *)

TypeOK ==
    /\ world \in Worlds
    /\ metadata \in Metadata
    /\ sessionJobs \subseteq [generation : Generations, repl_seq : OptionSeq]
    /\ baselineJobs \subseteq 1..MaxAttempts

\* SPEC.md: "live hydration is accepted only from the current LSP and session
\* generation".  When the server reports itself hydrated, what the analysis uses
\* is the metadata of the current session generation, fetched for it, whatever
\* late results of earlier sessions or of the baseline have come in since.  It
\* needs updates of a supported kind: a refused one stores its status and its
\* repl_seq without starting a generation.
HydratedMeansCurrentLive ==
    Hydrated(world) => metadata = Live(SessionJob(world))

\* The metadata of a session is never replaced by that of an earlier one.
LiveNeverGoesBack ==
    [][metadata.source = "live" /\ metadata'.source = "live"
          => metadata'.generation >= metadata.generation]_vars

\* A baseline is under way exactly while it is marked as pending, it is the
\* only one, and it is the last attempt: its result is never taken for stale.
BaselinePendingIffRunning ==
    baselineJobs = IF world.baseline_pending THEN {world.baseline_attempt} ELSE {}

\* A session bootstrap that is marked as under way blocks every further attempt
\* of its generation, so the mark has to go: the result comes back and is
\* recognised, or another session replaces it.
PendingSettles == world.pending = world.generation ~> world.pending # world.generation

=============================================================================
