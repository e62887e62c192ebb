----------------------- MODULE DetachedHydrationProofs -----------------------
(***************************************************************************)
(* The invariants of DetachedHydration, for any number of updates, repl    *)
(* sequence numbers and attempts.  Hydrated is a test on five fields that  *)
(* different handlers write; that it implies live metadata rests on the    *)
(* completed generation never running ahead of the current one and on a    *)
(* completed bootstrap having left metadata behind.                        *)
(***************************************************************************)
EXTENDS DetachedHydration, TLAPS

\* Metadata is never taken away, and none is from the future.
Provenance ==
    /\ world.completed # None => metadata.source # "none"
    /\ world.completed <= world.generation
    /\ metadata.generation <= world.generation
    /\ \A j \in sessionJobs : j.generation <= world.generation

\* A failed baseline leaves room for another attempt.
RoomToRetry == world.baseline_error => world.baseline_attempt < MaxAttempts

IInv == TypeOK /\ BaselinePendingIffRunning /\ Provenance /\ RoomToRetry

\* Where no update is refused, a bootstrap of the current generation was started
\* for the current prompt.
JobsOfThisPrompt ==
    \A j \in sessionJobs : j.generation = world.generation => j.repl_seq = world.repl_seq

\* The generations of a well-typed state are numbers.
LEMMA Numbers ==
    ASSUME TypeOK
    PROVE  /\ world.generation \in Nat /\ world.completed \in Int
           /\ metadata.generation \in Int
           /\ \A j \in sessionJobs : j.generation \in Nat
<1>1. Generations \subseteq Nat /\ Generations \cup {None} \subseteq Int
  BY DEF Generations, None
<1>2. world.generation \in Generations /\ world.completed \in Generations \cup {None}
  BY DEF TypeOK, Worlds
<1>3. metadata.generation \in Generations \cup {None}
  BY DEF TypeOK, Metadata
<1>4. \A j \in sessionJobs : j.generation \in Generations
  BY DEF TypeOK
<1> QED BY <1>1, <1>2, <1>3, <1>4

-----------------------------------------------------------------------------
(* What the two begin functions leave alone *)

\* begin_detached_baseline_hydration changes the baseline's fields only.
LEMMA BeginBaselineFrame ==
    ASSUME NEW w \in Worlds, w.baseline_attempt < MaxAttempts \/ ~BaselineStarts(w)
    PROVE  /\ BeginBaseline(w) \in Worlds
           /\ BeginBaseline(w).status = w.status
           /\ BeginBaseline(w).repl_seq = w.repl_seq
           /\ BeginBaseline(w).bridge = w.bridge
           /\ BeginBaseline(w).generation = w.generation
           /\ BeginBaseline(w).completed = w.completed
           /\ BeginBaseline(w).error = w.error
           /\ BaselineStarts(w) =>
                 /\ BeginBaseline(w).baseline_pending
                 /\ BeginBaseline(w).baseline_attempt = w.baseline_attempt + 1
           /\ BaselineStarts(w) => ~BeginBaseline(w).baseline_error
           /\ ~BaselineStarts(w) => BeginBaseline(w) = w
<1>1. CASE ~BaselineStarts(w)
  BY <1>1 DEF BeginBaseline
<1>2. CASE BaselineStarts(w)
  <2> DEFINE b == [w EXCEPT !.baseline_pending = TRUE, !.baseline_attempt = @ + 1,
                   !.baseline_error = FALSE, !.baseline_cooled = FALSE]
  <2>1. BeginBaseline(w) = b
    BY <1>2 DEF BeginBaseline
  <2>2. w.baseline_attempt + 1 \in 0..MaxAttempts
    BY <1>2, HydrationAssumption DEF HydrationAssumption, Worlds
  <2>3. b \in Worlds
    BY <2>2 DEF Worlds
  <2>4. /\ b.status = w.status /\ b.repl_seq = w.repl_seq /\ b.bridge = w.bridge
        /\ b.generation = w.generation /\ b.completed = w.completed /\ b.error = w.error
        /\ b.baseline_pending /\ b.baseline_attempt = w.baseline_attempt + 1
        /\ ~b.baseline_error
    BY DEF Worlds
  <2> QED BY <1>2, <2>1, <2>3, <2>4
<1> QED BY <1>1, <1>2

\* begin_detached_session_hydration never touches the baseline's fields, what
\* the last update said or the completed generation, and never clears an error.
LEMMA BeginSessionFrame ==
    ASSUME NEW w \in Worlds, NEW force \in BOOLEAN
    PROVE  /\ BeginSession(w, force) \in Worlds
           /\ BeginSession(w, force).status = w.status
           /\ BeginSession(w, force).repl_seq = w.repl_seq
           /\ BeginSession(w, force).generation = w.generation
           /\ BeginSession(w, force).completed = w.completed
           /\ w.error => BeginSession(w, force).error
           /\ BeginSession(w, force).baseline_pending = w.baseline_pending
           /\ BeginSession(w, force).baseline_attempt = w.baseline_attempt
           /\ BeginSession(w, force).baseline_error = w.baseline_error
<1>1. CASE ~SessionAttempted(w, force)
  BY <1>1 DEF BeginSession
<1>2. CASE SessionAttempted(w, force)
  <2> DEFINE p == IF SessionStarts(w, force) THEN w.generation ELSE w.pending
             e == w.error \/ ((force \/ BootstrapIncomplete) /\ ~w.bridge)
             b == [w EXCEPT !.attempted = TRUE, !.cooled = FALSE, !.pending = p, !.error = e]
  <2>1. BeginSession(w, force) = b
    BY <1>2 DEF BeginSession
  <2>2. p \in Generations \cup {None} /\ e \in BOOLEAN
    BY DEF Worlds
  <2> HIDE DEF p, e
  <2>3. b \in Worlds
    BY <2>2 DEF Worlds
  <2>4. /\ b.status = w.status /\ b.repl_seq = w.repl_seq
        /\ b.generation = w.generation /\ b.completed = w.completed
        /\ b.baseline_pending = w.baseline_pending
        /\ b.baseline_attempt = w.baseline_attempt /\ b.baseline_error = w.baseline_error
    BY DEF Worlds
  <2>5. b.error = e
    BY DEF Worlds
  <2>6. w.error => e
    BY DEF e
  <2> QED BY <2>1, <2>3, <2>4, <2>5, <2>6
<1> QED BY <1>1, <1>2

\* The world an update leaves before either bootstrap is begun.
Fresh(w, status, seq, b) ==
    NewSession([[w EXCEPT !.status = status, !.repl_seq = seq] EXCEPT !.bridge = b])

\* An update starts the next generation and keeps what was completed and the
\* baseline's fields.
LEMMA NewSessionFrame ==
    ASSUME NEW w \in Worlds, w.generation < MaxUpdates,
           NEW status \in Statuses, NEW seq \in OptionSeq, NEW b \in BOOLEAN
    PROVE  /\ Fresh(w, status, seq, b) \in Worlds
           /\ Fresh(w, status, seq, b).repl_seq = seq
           /\ Fresh(w, status, seq, b).generation = w.generation + 1
           /\ Fresh(w, status, seq, b).completed = w.completed
           /\ Fresh(w, status, seq, b).baseline_pending = w.baseline_pending
           /\ Fresh(w, status, seq, b).baseline_attempt = w.baseline_attempt
           /\ Fresh(w, status, seq, b).baseline_error = w.baseline_error
<1>1. w.generation + 1 \in Generations
  BY HydrationAssumption DEF HydrationAssumption, Worlds, Generations
<1> DEFINE g == w.generation + 1
           t == [w EXCEPT !.status = status, !.repl_seq = seq]
           u == [t EXCEPT !.bridge = b]
<1>2. u \in Worlds /\ u.generation = w.generation /\ u.repl_seq = seq
      /\ u.completed = w.completed /\ u.baseline_pending = w.baseline_pending
      /\ u.baseline_attempt = w.baseline_attempt /\ u.baseline_error = w.baseline_error
  <2>1. /\ t \in Worlds /\ t.generation = w.generation /\ t.repl_seq = seq
        /\ t.completed = w.completed /\ t.baseline_pending = w.baseline_pending
        /\ t.baseline_attempt = w.baseline_attempt /\ t.baseline_error = w.baseline_error
    BY DEF Worlds
  <2> HIDE DEF t
  <2> QED BY <2>1 DEF Worlds
<1>3. Fresh(w, status, seq, b) = NewSession(u)
  BY DEF Fresh
<1> HIDE DEF u
<1>4. NewSession(u) = [u EXCEPT !.generation = g, !.pending = None, !.attempted = FALSE]
  BY <1>2 DEF NewSession
<1> HIDE DEF g
<1>5. g \in Generations
  BY <1>1 DEF g
<1>6. NewSession(u) \in Worlds
  BY <1>2, <1>4, <1>5 DEF Worlds
<1>7. /\ NewSession(u).repl_seq = seq /\ NewSession(u).generation = g
      /\ NewSession(u).completed = w.completed
      /\ NewSession(u).baseline_pending = w.baseline_pending
      /\ NewSession(u).baseline_attempt = w.baseline_attempt
      /\ NewSession(u).baseline_error = w.baseline_error
  BY <1>2, <1>4 DEF Worlds
<1> QED BY <1>3, <1>6, <1>7 DEF g

-----------------------------------------------------------------------------
(* The inductive invariant *)

LEMMA InitEstablishes == Init => IInv /\ JobsOfThisPrompt /\ HydratedMeansCurrentLive
<1> SUFFICES ASSUME Init PROVE IInv /\ JobsOfThisPrompt /\ HydratedMeansCurrentLive
  OBVIOUS
<1>b. PICK b \in BOOLEAN : world = [status |-> "", repl_seq |-> None, bridge |-> b, generation |-> 0,
                   pending |-> None, completed |-> None, attempted |-> FALSE,
                   bootstrap_seq |-> None, succeeded |-> FALSE, error |-> FALSE,
                   cooled |-> TRUE, baseline_pending |-> FALSE, baseline_attempt |-> 0,
                   baseline_succeeded |-> FALSE, baseline_error |-> FALSE,
                   baseline_cooled |-> TRUE]
  BY DEF Init
<1>1. world \in Worlds
  <2>1. /\ 0 \in Generations /\ 0 \in 0..MaxAttempts /\ "" \in Statuses
        /\ None \in OptionSeq /\ None \in Generations \cup {None}
    <3>1. MaxUpdates \in Nat /\ MaxAttempts \in Nat
      BY HydrationAssumption DEF HydrationAssumption
    <3>2. 0 \in 0..MaxUpdates /\ 0 \in 0..MaxAttempts
      BY <3>1
    <3> QED BY <3>2 DEF Statuses, OptionSeq, Generations
  <2> QED BY <1>b, <2>1 DEF Worlds
<1>2. metadata \in Metadata
  BY DEF Init, Metadata, OptionSeq, Generations
<1>3. TypeOK
  BY <1>1, <1>2 DEF Init, TypeOK
<1>4. BaselinePendingIffRunning /\ Provenance /\ RoomToRetry
  <2>1. world.completed = None /\ world.generation = 0 /\ ~world.baseline_pending
        /\ ~world.baseline_error
    BY <1>b
  <2>2. metadata.generation = None /\ sessionJobs = {} /\ baselineJobs = {}
    BY DEF Init
  <2>3. None <= 0
    BY DEF None
  <2>4. Provenance
    BY <2>1, <2>2, <2>3 DEF Provenance
  <2> QED BY <2>1, <2>2, <2>4 DEF BaselinePendingIffRunning, RoomToRetry
<1>5. JobsOfThisPrompt /\ HydratedMeansCurrentLive
  BY DEF Init, JobsOfThisPrompt, HydratedMeansCurrentLive, Hydrated, BootstrapIncomplete
<1> QED BY <1>3, <1>4, <1>5 DEF IInv

\* Beginning a baseline in a world that agrees with the baseline jobs keeps the
\* agreement, and stays within the bound on attempts.
LEMMA BeginBaselineInv ==
    ASSUME NEW w \in Worlds, w.baseline_error => w.baseline_attempt < MaxAttempts,
           baselineJobs = IF w.baseline_pending THEN {w.baseline_attempt} ELSE {},
           baselineJobs \subseteq 1..MaxAttempts
    PROVE  LET v == BeginBaseline(w)
               jobs == baselineJobs \cup
                          (IF BaselineStarts(w) THEN {w.baseline_attempt + 1} ELSE {})
           IN  /\ v \in Worlds
               /\ jobs = IF v.baseline_pending THEN {v.baseline_attempt} ELSE {}
               /\ jobs \subseteq 1..MaxAttempts
               /\ v.baseline_error => v.baseline_attempt < MaxAttempts
               /\ v.status = w.status /\ v.repl_seq = w.repl_seq /\ v.bridge = w.bridge
               /\ v.generation = w.generation /\ v.completed = w.completed
               /\ v.error = w.error
<1>1. CASE ~BaselineStarts(w)
  BY <1>1 DEF BeginBaseline
<1>2. CASE BaselineStarts(w)
  <2>1. w.baseline_attempt < MaxAttempts /\ ~w.baseline_pending
    BY <1>2, HydrationAssumption DEF HydrationAssumption, BaselineStarts, Worlds
  <2>2. w.baseline_attempt + 1 \in 1..MaxAttempts
    BY <2>1, HydrationAssumption DEF HydrationAssumption, Worlds
  <2>3. baselineJobs \cup (IF BaselineStarts(w) THEN {w.baseline_attempt + 1} ELSE {})
        = {w.baseline_attempt + 1}
    BY <1>2, <2>1
  <2> QED BY <1>2, <2>1, <2>2, <2>3, BeginBaselineFrame
<1> QED BY <1>1, <1>2

\* did_update_session.  The new generation has completed nothing yet.
LEMMA UpdateSessionKeeps ==
    ASSUME IInv, NEW kind \in UpdateKinds, NEW status \in {"ready", "pending"},
           NEW ready \in BOOLEAN, NEW seq \in OptionSeq,
           UpdateSession(kind, status, ready, seq)
    PROVE  /\ IInv'
           /\ kind # "refused" /\ JobsOfThisPrompt => JobsOfThisPrompt'
           /\ kind # "refused" => HydratedMeansCurrentLive'
<1> USE DEF IInv
<1>0. /\ world \in Worlds /\ metadata \in Metadata /\ status \in Statuses
      /\ world.generation \in Nat /\ world.completed \in Int
  BY Numbers DEF TypeOK, Statuses
<1>m. UNCHANGED metadata /\ world.generation < MaxUpdates
  BY DEF UpdateSession
<1>1. CASE kind = "refused"
  <2>1. /\ world' = [world EXCEPT !.status = status, !.repl_seq = seq]
        /\ UNCHANGED <<sessionJobs, baselineJobs>>
    BY <1>1 DEF UpdateSession
  <2>2. /\ world' \in Worlds /\ world'.generation = world.generation
        /\ world'.completed = world.completed
        /\ world'.baseline_pending = world.baseline_pending
        /\ world'.baseline_attempt = world.baseline_attempt
        /\ world'.baseline_error = world.baseline_error
    BY <1>0, <2>1 DEF Worlds
  <2>3. TypeOK'
    BY <1>m, <2>1, <2>2 DEF TypeOK
  <2>4. BaselinePendingIffRunning' /\ Provenance' /\ RoomToRetry'
    BY <1>m, <2>1, <2>2 DEF BaselinePendingIffRunning, Provenance, RoomToRetry
  <2> QED BY <1>1, <2>3, <2>4
<1>2. CASE kind # "refused"
  <2> DEFINE b == kind = "live"
             fresh == Fresh(world, status, seq, b)
             live == status = "ready" /\ ready /\ kind = "live"
             begun == IF live THEN BeginSession(fresh, TRUE) ELSE fresh
             runs == live /\ SessionStarts(fresh, TRUE)
             more == IF ~runs /\ BaselineStarts(begun) THEN {begun.baseline_attempt + 1} ELSE {}
  <2>1. /\ world' = IF runs THEN begun ELSE BeginBaseline(begun)
        /\ sessionJobs' = sessionJobs \cup (IF runs THEN {SessionJob(fresh)} ELSE {})
        /\ baselineJobs' = baselineJobs \cup more
    BY <1>2 DEF UpdateSession, Fresh
  <2>2. /\ fresh \in Worlds /\ fresh.repl_seq = seq /\ fresh.generation = world.generation + 1
        /\ fresh.completed = world.completed
        /\ fresh.baseline_pending = world.baseline_pending
        /\ fresh.baseline_attempt = world.baseline_attempt
        /\ fresh.baseline_error = world.baseline_error
    BY <1>0, <1>m, NewSessionFrame
  <2> HIDE DEF fresh
  <2>3. /\ begun \in Worlds /\ begun.repl_seq = seq /\ begun.generation = world.generation + 1
        /\ begun.completed = world.completed
        /\ begun.baseline_pending = world.baseline_pending
        /\ begun.baseline_attempt = world.baseline_attempt
        /\ begun.baseline_error = world.baseline_error
    BY <2>2, BeginSessionFrame
  <2> HIDE DEF begun
  <2>4. /\ world' \in Worlds
        /\ baselineJobs' = IF world'.baseline_pending THEN {world'.baseline_attempt} ELSE {}
        /\ baselineJobs' \subseteq 1..MaxAttempts
        /\ world'.baseline_error => world'.baseline_attempt < MaxAttempts
        /\ world'.repl_seq = seq /\ world'.generation = world.generation + 1
        /\ world'.completed = world.completed
    <3>1. /\ baselineJobs = IF begun.baseline_pending THEN {begun.baseline_attempt} ELSE {}
          /\ begun.baseline_error => begun.baseline_attempt < MaxAttempts
          /\ baselineJobs \subseteq 1..MaxAttempts
      BY <2>3 DEF BaselinePendingIffRunning, RoomToRetry, TypeOK
    <3>2. CASE runs
      BY <2>1, <2>3, <3>1, <3>2
    <3>3. CASE ~runs
      <4>1. /\ world' = BeginBaseline(begun)
            /\ baselineJobs' = baselineJobs \cup
                  (IF BaselineStarts(begun) THEN {begun.baseline_attempt + 1} ELSE {})
        BY <2>1, <3>3
      <4> HIDE DEF runs, more
      <4> QED BY <2>3, <3>1, <4>1, BeginBaselineInv
    <3> QED BY <3>2, <3>3
  <2>5. \A j \in sessionJobs' : j \in sessionJobs \/ j = SessionJob(fresh)
    BY <2>1
  <2>6. /\ SessionJob(fresh) = [generation |-> world.generation + 1, repl_seq |-> seq]
        /\ world.generation + 1 \in Generations
    BY <1>0, <1>m, <2>2, HydrationAssumption DEF HydrationAssumption, SessionJob, Generations
  <2>7. sessionJobs' \subseteq [generation : Generations, repl_seq : OptionSeq]
    BY <2>5, <2>6 DEF TypeOK
  <2>8. TypeOK' /\ BaselinePendingIffRunning' /\ RoomToRetry'
    BY <1>0, <1>m, <2>4, <2>7 DEF TypeOK, BaselinePendingIffRunning, RoomToRetry
  <2>9. Provenance'
    <3>1. \A j \in sessionJobs : j.generation \in Int
      BY Numbers
    <3>2. metadata.generation \in Int
      BY Numbers
    <3>3. \A j \in sessionJobs' : j.generation <= world'.generation
      BY <1>0, <2>4, <2>5, <2>6, <3>1 DEF Provenance
    <3> QED BY <1>0, <1>m, <2>4, <3>2, <3>3 DEF Provenance
  <2>10. JobsOfThisPrompt'
    <3>1. \A j \in sessionJobs : j.generation \in Int /\ j.generation <= world.generation
      BY Numbers DEF Provenance
    <3> QED BY <1>0, <2>4, <2>5, <2>6, <3>1 DEF JobsOfThisPrompt
  <2>11. HydratedMeansCurrentLive'
    <3>1. world'.completed # world'.generation
      BY <1>0, <2>4 DEF Provenance
    <3> QED BY <3>1 DEF HydratedMeansCurrentLive, Hydrated
  <2> QED BY <2>8, <2>9, <2>10, <2>11
<1> QED BY <1>1, <1>2

\* did_open and did_change begin what is missing and settle nothing.
LEMMA EditDocumentKeeps ==
    ASSUME IInv, EditDocument
    PROVE  /\ IInv'
           /\ JobsOfThisPrompt => JobsOfThisPrompt'
           /\ HydratedMeansCurrentLive => HydratedMeansCurrentLive'
<1> USE DEF IInv
<1> DEFINE w == BeginBaseline(world)
           runs == w.bridge /\ SessionStarts(w, FALSE)
<1>1. /\ world' = IF w.bridge THEN BeginSession(w, FALSE) ELSE w
      /\ baselineJobs' = baselineJobs \cup
            (IF BaselineStarts(world) THEN {world.baseline_attempt + 1} ELSE {})
      /\ sessionJobs' = sessionJobs \cup (IF runs THEN {SessionJob(w)} ELSE {})
      /\ UNCHANGED metadata
  BY DEF EditDocument
<1>2. /\ w \in Worlds
      /\ baselineJobs' = IF w.baseline_pending THEN {w.baseline_attempt} ELSE {}
      /\ baselineJobs' \subseteq 1..MaxAttempts
      /\ w.baseline_error => w.baseline_attempt < MaxAttempts
      /\ w.status = world.status /\ w.repl_seq = world.repl_seq
      /\ w.generation = world.generation /\ w.completed = world.completed
      /\ w.error = world.error
  BY <1>1, BeginBaselineInv DEF TypeOK, BaselinePendingIffRunning, RoomToRetry
<1> HIDE DEF w
<1>3. /\ world' \in Worlds
      /\ world'.status = world.status /\ world'.repl_seq = world.repl_seq
      /\ world'.generation = world.generation /\ world'.completed = world.completed
      /\ world.error => world'.error
      /\ world'.baseline_pending = w.baseline_pending
      /\ world'.baseline_attempt = w.baseline_attempt
      /\ world'.baseline_error = w.baseline_error
  BY <1>1, <1>2, BeginSessionFrame
<1>4. \A j \in sessionJobs' : j \in sessionJobs \/ j = SessionJob(w)
  BY <1>1
<1>5. /\ SessionJob(w) = [generation |-> world.generation, repl_seq |-> world.repl_seq]
      /\ world.generation \in Generations /\ world.repl_seq \in OptionSeq
  BY <1>2 DEF SessionJob, TypeOK, Worlds
<1>6. TypeOK'
  <2>1. sessionJobs' \subseteq [generation : Generations, repl_seq : OptionSeq]
    BY <1>4, <1>5 DEF TypeOK
  <2> QED BY <1>1, <1>2, <1>3, <2>1 DEF TypeOK
<1>7. BaselinePendingIffRunning' /\ RoomToRetry'
  BY <1>2, <1>3 DEF BaselinePendingIffRunning, RoomToRetry
<1>8. Provenance'
  <2>1. \A j \in sessionJobs' : j.generation <= world'.generation
    BY <1>3, <1>4, <1>5, Numbers DEF Provenance
  <2> QED BY <1>1, <1>3, <2>1 DEF Provenance
<1>9. JobsOfThisPrompt => JobsOfThisPrompt'
  BY <1>3, <1>4, <1>5 DEF JobsOfThisPrompt
<1>10. HydratedMeansCurrentLive => HydratedMeansCurrentLive'
  <2>1. Hydrated(world)' => Hydrated(world)
    BY <1>1, <1>3 DEF Hydrated, BootstrapIncomplete
  <2>2. SessionJob(world)' = SessionJob(world)
    BY <1>3 DEF SessionJob
  <2>3. Live(SessionJob(world))' = Live(SessionJob(world))
    BY <2>2 DEF Live
  <2> QED BY <1>1, <2>1, <2>3 DEF HydratedMeansCurrentLive
<1> QED BY <1>6, <1>7, <1>8, <1>9, <1>10

\* finish_detached_baseline_hydration leaves live metadata alone once hydrated;
\* in any other state its result does not make the session look hydrated.
LEMMA FinishBaselineKeeps ==
    ASSUME IInv, NEW job \in baselineJobs, NEW ok \in BOOLEAN, FinishBaseline(job, ok)
    PROVE  /\ IInv'
           /\ JobsOfThisPrompt => JobsOfThisPrompt'
           /\ HydratedMeansCurrentLive => HydratedMeansCurrentLive'
           /\ metadata' = metadata \/ metadata' = Baseline
<1> USE DEF IInv
<1>1. world \in Worlds /\ metadata \in Metadata
  BY DEF TypeOK
<1>2. world.baseline_pending /\ baselineJobs = {world.baseline_attempt} /\ job = world.baseline_attempt
  BY DEF BaselinePendingIffRunning
<1>3. /\ baselineJobs' = {} /\ UNCHANGED sessionJobs
      /\ ok \/ world.baseline_attempt < MaxAttempts
  BY <1>2 DEF FinishBaseline
<1> DEFINE settled == [world EXCEPT !.baseline_pending = FALSE]
<1>4. \/ Hydrated(world) /\ world' = settled /\ UNCHANGED metadata
      \/ /\ ~Hydrated(world) /\ ok /\ metadata' = Baseline
         /\ world' = [settled EXCEPT !.baseline_succeeded = TRUE, !.baseline_error = FALSE]
      \/ /\ ~Hydrated(world) /\ ~ok /\ UNCHANGED metadata
         /\ world' = [settled EXCEPT !.baseline_error = TRUE]
  BY <1>2 DEF FinishBaseline
<1>5. /\ settled \in Worlds /\ ~settled.baseline_pending
      /\ settled.baseline_attempt = world.baseline_attempt
      /\ settled.baseline_error = world.baseline_error
      /\ settled.status = world.status /\ settled.repl_seq = world.repl_seq
      /\ settled.generation = world.generation /\ settled.completed = world.completed
      /\ settled.error = world.error
  BY <1>1 DEF Worlds
<1> HIDE DEF settled
<1>6. /\ world' \in Worlds /\ ~world'.baseline_pending
      /\ world'.status = world.status /\ world'.repl_seq = world.repl_seq
      /\ world'.generation = world.generation /\ world'.completed = world.completed
      /\ world'.error = world.error /\ world'.baseline_attempt = world.baseline_attempt
  <2>1. CASE world' = settled
    BY <1>5, <2>1
  <2>2. CASE world' = [settled EXCEPT !.baseline_succeeded = TRUE, !.baseline_error = FALSE]
    BY <1>5, <2>2 DEF Worlds
  <2>3. CASE world' = [settled EXCEPT !.baseline_error = TRUE]
    BY <1>5, <2>3 DEF Worlds
  <2> QED BY <1>4, <2>1, <2>2, <2>3
<1>7. RoomToRetry'
  <2>1. CASE world.baseline_attempt < MaxAttempts
    BY <1>6, <2>1 DEF RoomToRetry
  <2>2. CASE ok /\ ~(world.baseline_attempt < MaxAttempts)
    <3>1. ~world.baseline_error
      BY <2>2 DEF RoomToRetry
    <3>2. CASE world' = settled
      BY <1>5, <3>1, <3>2 DEF RoomToRetry
    <3>3. CASE world' = [settled EXCEPT !.baseline_succeeded = TRUE, !.baseline_error = FALSE]
      <4>1. ~world'.baseline_error
        BY <1>5, <3>3 DEF Worlds
      <4> QED BY <4>1 DEF RoomToRetry
    <3> QED BY <1>4, <2>2, <3>2, <3>3
  <2> QED BY <1>3, <2>1, <2>2
<1>8. Baseline \in Metadata
  BY DEF Baseline, Metadata, OptionSeq
<1>9. TypeOK' /\ BaselinePendingIffRunning'
  BY <1>1, <1>3, <1>4, <1>6, <1>8 DEF TypeOK, BaselinePendingIffRunning
<1>10. Provenance'
  <2>1. Baseline.source = "baseline" /\ Baseline.generation <= world.generation
    <3>1. None <= world.generation
      BY Numbers DEF None
    <3> QED BY <3>1 DEF Baseline
  <2>2. metadata' = metadata \/ metadata' = Baseline
    BY <1>4
  <2>3. (world.completed # None => metadata'.source # "none") /\ metadata'.generation <= world.generation
    BY <2>1, <2>2 DEF Provenance
  <2> QED BY <1>3, <1>6, <2>3 DEF Provenance
<1>11. JobsOfThisPrompt => JobsOfThisPrompt'
  BY <1>3, <1>6 DEF JobsOfThisPrompt
<1>12. HydratedMeansCurrentLive => HydratedMeansCurrentLive'
  <2> SUFFICES ASSUME HydratedMeansCurrentLive, Hydrated(world)'
               PROVE  metadata' = Live(SessionJob(world))'
    BY DEF HydratedMeansCurrentLive
  <2>1. world.completed = world.generation /\ world.status = "ready" /\ ~world.error
    BY <1>6 DEF Hydrated
  <2>2. world.completed # None
    BY <2>1, Numbers DEF None
  <2>3. Hydrated(world)
    BY <2>1, <2>2 DEF Hydrated, BootstrapIncomplete, Provenance
  <2>4. SessionJob(world)' = SessionJob(world)
    BY <1>6 DEF SessionJob
  <2> QED BY <1>4, <2>3, <2>4 DEF HydratedMeansCurrentLive, Live
<1> QED BY <1>4, <1>7, <1>9, <1>10, <1>11, <1>12

\* finish_detached_session_hydration applies a result to the generation, and
\* where no update is refused to the prompt, it was fetched for.
LEMMA FinishSessionKeeps ==
    ASSUME IInv, NEW job \in sessionJobs, NEW ok \in BOOLEAN, FinishSession(job, ok)
    PROVE  /\ IInv'
           /\ JobsOfThisPrompt => JobsOfThisPrompt'
           /\ JobsOfThisPrompt /\ HydratedMeansCurrentLive => HydratedMeansCurrentLive'
           /\ \/ metadata' = metadata
              \/ metadata' = Live(job) /\ job.generation = world.generation
<1> USE DEF IInv
<1>1. /\ world \in Worlds /\ metadata \in Metadata
      /\ job.generation \in Generations /\ job.repl_seq \in OptionSeq
  BY DEF TypeOK
<1>2. sessionJobs' \subseteq sessionJobs /\ UNCHANGED baselineJobs
  BY DEF FinishSession
<1>3. CASE Stale(job)
  <2>1. UNCHANGED <<world, metadata>>
    BY <1>3 DEF FinishSession
  <2>2. TypeOK' /\ BaselinePendingIffRunning' /\ Provenance' /\ RoomToRetry'
    BY <1>2, <2>1 DEF TypeOK, BaselinePendingIffRunning, Provenance, RoomToRetry
  <2>3. JobsOfThisPrompt => JobsOfThisPrompt'
    BY <1>2, <2>1 DEF JobsOfThisPrompt
  <2>4. HydratedMeansCurrentLive => HydratedMeansCurrentLive'
    BY <2>1 DEF HydratedMeansCurrentLive, Hydrated, BootstrapIncomplete, Live, SessionJob
  <2> QED BY <2>1, <2>2, <2>3, <2>4
<1>4. CASE ~Stale(job)
  <2> DEFINE settled == ClearPending(world, job.generation)
             done == [settled EXCEPT !.succeeded = TRUE, !.error = FALSE,
                                     !.bootstrap_seq = job.repl_seq,
                                     !.completed = job.generation]
             failed == [settled EXCEPT !.error = TRUE]
  <2>1. \/ ok /\ world' = done /\ metadata' = Live(job)
        \/ ~ok /\ world' = failed /\ UNCHANGED metadata
    BY <1>4 DEF FinishSession
  <2>2. job.generation = world.generation
    BY <1>4 DEF Stale
  <2>3. /\ settled \in Worlds
        /\ settled.status = world.status /\ settled.repl_seq = world.repl_seq
        /\ settled.generation = world.generation /\ settled.completed = world.completed
        /\ settled.baseline_pending = world.baseline_pending
        /\ settled.baseline_attempt = world.baseline_attempt
        /\ settled.baseline_error = world.baseline_error
    <3> DEFINE p == IF world.pending = job.generation THEN None ELSE world.pending
    <3>1. settled = [world EXCEPT !.pending = p]
      BY DEF ClearPending
    <3>2. p \in Generations \cup {None}
      BY <1>1 DEF Worlds
    <3> HIDE DEF settled, p
    <3> QED BY <1>1, <3>1, <3>2 DEF Worlds
  <2> HIDE DEF settled
  <2>4. /\ done \in Worlds
        /\ done.status = world.status /\ done.repl_seq = world.repl_seq
        /\ done.generation = world.generation /\ done.completed = job.generation
        /\ done.baseline_pending = world.baseline_pending
        /\ done.baseline_attempt = world.baseline_attempt
        /\ done.baseline_error = world.baseline_error
    BY <1>1, <2>3 DEF Worlds
  <2>5. /\ failed \in Worlds /\ failed.error
        /\ failed.status = world.status /\ failed.repl_seq = world.repl_seq
        /\ failed.generation = world.generation /\ failed.completed = world.completed
        /\ failed.baseline_pending = world.baseline_pending
        /\ failed.baseline_attempt = world.baseline_attempt
        /\ failed.baseline_error = world.baseline_error
    BY <2>3 DEF Worlds
  <2> HIDE DEF done, failed
  <2>6. /\ Live(job) \in Metadata /\ Live(job).source = "live"
        /\ Live(job).generation = job.generation
    BY <1>1 DEF Live, Metadata
  <2>7. /\ world' \in Worlds /\ metadata' \in Metadata
        /\ world'.generation = world.generation /\ world'.repl_seq = world.repl_seq
        /\ world'.baseline_pending = world.baseline_pending
        /\ world'.baseline_attempt = world.baseline_attempt
        /\ world'.baseline_error = world.baseline_error
    BY <1>1, <2>1, <2>4, <2>5, <2>6
  <2>8. TypeOK' /\ BaselinePendingIffRunning' /\ RoomToRetry'
    BY <1>2, <2>7 DEF TypeOK, BaselinePendingIffRunning, RoomToRetry
  <2>9. Provenance'
    <3>1. \A j \in sessionJobs' : j.generation <= world'.generation
      BY <1>2, <2>7 DEF Provenance
    <3>2. CASE ok
      <4>1. world'.completed = world.generation /\ metadata'.source = "live"
            /\ metadata'.generation = world.generation
        BY <2>1, <2>2, <2>4, <2>6, <3>2
      <4> QED BY <2>7, <3>1, <4>1, Numbers DEF Provenance
    <3>3. CASE ~ok
      BY <2>1, <2>5, <3>1, <3>3 DEF Provenance
    <3> QED BY <3>2, <3>3
  <2>10. JobsOfThisPrompt => JobsOfThisPrompt'
    BY <1>2, <2>7 DEF JobsOfThisPrompt
  <2>11. JobsOfThisPrompt => HydratedMeansCurrentLive'
    <3> SUFFICES ASSUME JobsOfThisPrompt PROVE HydratedMeansCurrentLive'
      OBVIOUS
    <3>1. CASE ok
      <4>1. job.repl_seq = world.repl_seq
        BY <2>2 DEF JobsOfThisPrompt
      <4>2. SessionJob(world)' = [generation |-> job.generation, repl_seq |-> job.repl_seq]
        BY <2>2, <2>7, <4>1 DEF SessionJob
      <4>3. Live(job) = Live(SessionJob(world))'
        BY <4>2 DEF Live
      <4> QED BY <2>1, <3>1, <4>3 DEF HydratedMeansCurrentLive
    <3>2. CASE ~ok
      BY <2>1, <2>5, <3>2 DEF HydratedMeansCurrentLive, Hydrated
    <3> QED BY <3>1, <3>2
  <2> QED BY <2>1, <2>2, <2>8, <2>9, <2>10, <2>11
<1> QED BY <1>3, <1>4

\* The passing of time changes what may be retried, not what is known.
LEMMA CooledKeeps ==
    ASSUME IInv, SessionCooled \/ BaselineCooled \/ UNCHANGED vars
    PROVE  /\ IInv'
           /\ JobsOfThisPrompt => JobsOfThisPrompt'
           /\ HydratedMeansCurrentLive => HydratedMeansCurrentLive'
           /\ metadata' = metadata
<1> USE DEF IInv
<1>1. world \in Worlds
  BY DEF TypeOK
<1>2. /\ UNCHANGED <<metadata, sessionJobs, baselineJobs>>
      /\ \/ world' = [world EXCEPT !.cooled = TRUE]
         \/ world' = [world EXCEPT !.baseline_cooled = TRUE]
         \/ world' = world
  BY DEF SessionCooled, BaselineCooled, vars
<1>3. /\ world' \in Worlds
      /\ world'.status = world.status /\ world'.repl_seq = world.repl_seq
      /\ world'.generation = world.generation /\ world'.completed = world.completed
      /\ world'.error = world.error
      /\ world'.baseline_pending = world.baseline_pending
      /\ world'.baseline_attempt = world.baseline_attempt
      /\ world'.baseline_error = world.baseline_error
  BY <1>1, <1>2 DEF Worlds
<1>4. TypeOK' /\ BaselinePendingIffRunning' /\ Provenance' /\ RoomToRetry'
  BY <1>2, <1>3 DEF TypeOK, BaselinePendingIffRunning, Provenance, RoomToRetry
<1>5. JobsOfThisPrompt => JobsOfThisPrompt'
  BY <1>2, <1>3 DEF JobsOfThisPrompt
<1>6. HydratedMeansCurrentLive => HydratedMeansCurrentLive'
  BY <1>2, <1>3 DEF HydratedMeansCurrentLive, Hydrated, BootstrapIncomplete, Live, SessionJob
<1> QED BY <1>2, <1>4, <1>5, <1>6

-----------------------------------------------------------------------------
(* The theorems *)

\* Every step keeps the inductive invariant.
LEMMA StepKeeps == IInv /\ [Next]_vars => IInv'
BY UpdateSessionKeeps, EditDocumentKeeps, FinishBaselineKeeps, FinishSessionKeeps, CooledKeeps
DEF Next, Finish

\* The fields of hydration keep their types, the attempts their bound.
THEOREM HydrationTypesCorrect == Spec => []TypeOK
BY InitEstablishes, StepKeeps, PTL DEF Spec, IInv

\* At most one baseline is fetched at a time, it is the last one begun, and
\* baseline_bootstrap_pending says exactly whether one is.
THEOREM BaselineCorrect == Spec => []BaselinePendingIffRunning
BY InitEstablishes, StepKeeps, PTL DEF Spec, IInv

\* A late bootstrap never puts an earlier session's metadata in the place of a
\* later one's.
THEOREM LiveOrderCorrect == Spec => LiveNeverGoesBack
<1>1. IInv /\ [Next]_vars =>
        [metadata.source = "live" /\ metadata'.source = "live"
            => metadata'.generation >= metadata.generation]_vars
  <2> SUFFICES ASSUME IInv, Next, metadata.source = "live", metadata'.source = "live"
               PROVE  metadata'.generation >= metadata.generation
    OBVIOUS
  <2>0. metadata.generation \in Int /\ metadata.generation <= world.generation
    BY Numbers DEF IInv, Provenance
  <2>1. \/ metadata' = metadata
        \/ metadata' = Baseline
        \/ \E job \in sessionJobs : metadata' = Live(job) /\ job.generation = world.generation
    <3>1. CASE \E kind \in UpdateKinds, status \in {"ready", "pending"}, ready \in BOOLEAN,
                  seq \in OptionSeq : UpdateSession(kind, status, ready, seq)
      BY <3>1 DEF UpdateSession
    <3>2. CASE EditDocument
      BY <3>2 DEF EditDocument
    <3>3. CASE Finish
      BY <3>3, FinishBaselineKeeps, FinishSessionKeeps DEF Finish
    <3>4. CASE SessionCooled \/ BaselineCooled
      BY <3>4, CooledKeeps
    <3> QED BY <3>1, <3>2, <3>3, <3>4 DEF Next
  <2>2. CASE metadata' = metadata
    BY <2>0, <2>2
  <2>3. CASE metadata' = Baseline
    BY <2>3 DEF Baseline
  <2>4. CASE \E job \in sessionJobs : metadata' = Live(job) /\ job.generation = world.generation
    <3>1. metadata'.generation = world.generation
      BY <2>4 DEF Live
    <3> QED BY <2>0, <3>1, Numbers DEF IInv
  <2> QED BY <2>1, <2>2, <2>3, <2>4
<1> QED BY <1>1, InitEstablishes, StepKeeps, PTL DEF Spec, LiveNeverGoesBack

\* Where every update is of a supported kind, a server that reports itself
\* hydrated works on the metadata of the current session and prompt.
THEOREM HydratedCorrect ==
    ASSUME "refused" \notin UpdateKinds
    PROVE  Spec => []HydratedMeansCurrentLive
<1>1. IInv /\ JobsOfThisPrompt /\ HydratedMeansCurrentLive /\ [Next]_vars
        => IInv' /\ JobsOfThisPrompt' /\ HydratedMeansCurrentLive'
  BY UpdateSessionKeeps, EditDocumentKeeps, FinishBaselineKeeps, FinishSessionKeeps, CooledKeeps
  DEF Next, Finish
<1> QED BY <1>1, InitEstablishes, PTL DEF Spec

=============================================================================
