# A TLA+ verification of ark.nvim

ark.nvim is a Neovim plugin for R.  A detached language server, `ark-lsp`
(`crates/ark-lsp`, `crates/ark-lsp-core`), serves the editor.  It does not
contain R: what it knows of the user's session it asks the R process in a tmux
pane for, over a socket served by the `arkbridge` package.  The difficult code
is where these meet: threads of the server that share one single-threaded R,
requests that outlive the state they were made in, results that come back in
another order than they were asked for, an R that does not answer; a status file
that two processes write and others read without a lock; a plugin that restarts the
server and keeps telling it about the session; installers that are interrupted.

This directory holds TLA+ models of that code, TLC configurations that check
them on small instances, and proofs of their main invariants for all instances.

## 1. Inventory

| Component | State | Operations | Talks to |
|---|---|---|---|
| Bridge request runtime (`lsp/session_bridge_runtime.rs`) | admission queue behind one mutex and condition variable; circuit breaker behind another | `request`: acquire, circuit attempt, TCP exchange, record, release | handlers call it; it calls R |
| Session bridge (`lsp/session_bridge.rs`) | a runtime, a connection or a cached status file | `send_request`, `run_dynamic_request` (one retry), some forty commands | owned by the world state, cloned into handlers |
| Main loop and barrier (`lsp/main_loop.rs`, `lsp/backend.rs`) | event channel, world state, published copy `LATEST_WORLD_STATE`, two counters of the barrier, crash flag | notifications and requests from tower-lsp, internal events from tasks | spawns blocking handlers and tasks |
| Detached hydration (`lsp/state_handlers.rs`, `lsp/state.rs`) | session status, update generation, completed and pending generation, baseline status, the metadata themselves | `did_update_session`, `bootstrap_session`, `did_open`, `did_change`, results of two kinds of job | main loop; R through the bridge; a local `Rscript` |
| Targets manifest cache (`lsp/targets_manifest.rs`) | per project: revision, attempted, names; dirty buffers | `observe`, `prepare`, `apply`, debounced tasks | main loop, indexer, bridge, file system |
| Indexer and diagnostics queue (`lsp/main_loop.rs` 1357-1845, `lsp/indexer.rs`) | the index, a task queue, the worker's two batches, the workspace generation | index tasks in chunks, refreshes of diagnostics, workspace scans, publication | main loop, file system, editor |
| Editor features (`lsp/handlers.rs`, `diagnostics.rs`, ...) | none: they read a snapshot | completion, hover, help, symbols, ... | bridge, index |
| Session status file (`scripts/ark-r-launcher.sh`, `lua/ark/console.lua`) | R's record (socket, prompt number), the console's fields (its process, busy or not) | R replaces it by a rename, the console merges its fields in place | server and plugin read it |
| Console front end (`lua/ark/console.lua`) | queue of submitted lines, busy mark, pending publication | submit, prompt seen, publish, R's exit | R's terminal, the status file |
| Plugin: clients, recovery, session watch (`lua/ark/lsp.lua`, `lsp_recovery.lua`, `lsp_session_watch.lua`) | clients, what each was told, bootstrap marks, watcher and poll, restart counters | commands, file notices, polls, answers, exits, timers | server, status files |
| Plugin: the rest (`lua/ark/*.lua`) | tmux panes, views, pickers | timers, callbacks, LSP requests | server, tmux |
| R side (`packages/arkbridge`) | socket service inside R | one command at a time | server |
| Installation (`scripts/install-release.sh`, `lua/ark/release.lua`) | lock directory, release directories, links `current` and `previous` | acquire, download, verify, publish, link, roll back, clean up | network, file system |
| Static analysis (`crates/oak_*`) | incremental database, package cache | queries | server |
| Upstream kernel (`crates/ark`, `amalthea`, `harp`, `libr`, `echo`) | - | - | kept for synchronisation with upstream; the detached server does not run it |

Hard behaviours, by component, and what makes it right:

* **Runtime** - threads sleep on one condition variable and newcomers may
  overtake them; every way out must give back the permit, the place in the
  line and the half-open probe; outcomes of an earlier connection must not count
  against its successor; everything ends by its deadline.
* **Main loop** - a request must see the notifications before it; a handler's
  result must be refused exactly if what it was computed from has changed; every
  request is answered; an error in one handler must not stop the others.
* **Hydration** - bootstraps of several session updates run at once; "hydrated"
  must mean that the metadata are those of the current session; a baseline
  computed without a session must not replace live metadata; marks that suppress
  retries must be cleared.
* **Manifest cache** - editor buffers, the disk, R's evaluation of the disk and
  the indexer's idea of what feeds a pipeline all move on their own; a set of
  names must never be taken for the current one when it is not, because absent
  names are reported to the user as errors.
* **Indexer queue** - one worker applies what the main loop queues while the main
  loop goes on changing documents and folders; a refresh spent on half an index, or
  rounds of diagnostics that overtake each other, would leave false warnings until
  the next edit.

* **Status file** - each writer may overwrite what the other has just written, and a
  reader may find half a file; the busy mark must not send requests into an R that
  evaluates, nor defer them to a console that is gone.
* **Readers of it** - a connection is cached under a fingerprint that is taken before
  the content; a failed request looks again and may be sent a second time, but not
  to the R that may already have run it.
* **Plugin** - crashes, timers, user commands, file notices and answers interleave;
  restarts must be bounded and answer the last crash, marks must not outlive the
  request they stand for, and at rest the server must know the session as it is.
* **Installer** - an installer may be stopped at any command, with or without its trap,
  next to another one; the links must lead to verified binaries, and a lock must
  neither exclude nobody nor exclude everybody for good.

`PROJECT.json` lists these hazards with their lines and the properties that
watch them.

## 2. Modules

| Module | Models | Proofs |
|---|---|---|
| `BridgeRuntime` | the runtime: one action per critical section | `BridgeRuntimeProofs` |
| `PermitQueue` | what a runtime promises R: a single-slot queue with bounded waiting | (refinement, in `BridgeRuntimeProofs`) |
| `SessionBridges` | two `BridgeRuntime` instances around a session update | |
| `LspMainLoop` | tower-lsp task, barrier, main loop, handlers | `LspMainLoopProofs` |
| `DetachedHydration` | baseline and session bootstraps | `DetachedHydrationProofs` |
| `TargetsManifest` | the cache, its tasks, the editor and the disk | `TargetsManifestProofs` |
| `IndexerQueue` | the index, its worker, workspace scans, diagnostics | `IndexerQueueProofs` |
| `StatusConnections` | what a status file can name: generations and connections | |
| `StatusContents` | what the writers of the status file promise its readers | (refinement, in `StatusFileProofs`) |
| `StatusFile` | the console, its R and the file both write; implements `StatusContents` | `StatusFileProofs` |
| `StatusReader` | the server's cached connection and its retry, over `StatusContents` | `StatusFileProofs` |
| `PluginSession` | clients, recovery, session watch and bootstraps of the plugin | `PluginSessionProofs` |
| `InstallRelease` | concurrent installers on one install root | `InstallReleaseProofs` |

`MC*` modules instantiate them for TLC.  Every module has a section of faulty
variants: no specification uses them; each is a slip the code could contain and
serves to show that a property can fail.

### BridgeRuntime

`queue` and `circuit` are the fields behind the two mutexes; `pc[c]` is where a
thread is inside `request`.  An action is the stretch between taking and leaving
a mutex: `AcquireFree`, `AcquireRefused`, `AcquireWait` are the three outcomes of
the first visit to `acquire`; `WakeGranted`, `WakeAbandoned` are what happens when
`wait_timeout` returns, for whatever reason (a wake-up that changes nothing is a
stutter).  `BeginCircuitAttempt`, `PublishOperation`, the transport steps,
`RecordRequest`, `Settle`, `Release` follow in the code's order; refusal by the
circuit goes straight to `Release`, as the permit's destructor does.  Time is
counted down in ticks (`left`, `open_until`), a tick may fall between any two
actions.  Payloads, request ids, the ring of recent requests and log throttling
are left out.

### SessionBridges

Every session update builds a new `SessionBridge` with a new runtime, while
handlers already spawned keep a clone of the old one.  Both run in the same time
against the same R.

### LspMainLoop

The tower-lsp futures of one connection run in one task; the main loop runs on
another thread.  `WaitFor` is the barrier's load, `Arm` the creation of the
`notified()` future: the gap between them is the code's.  A notification is
handled in one step with the barrier's mark, or, if its handler leaves through
`?`, without it; `StoreLatestWorldState` is the end of `handle_event`.  Of the world
the model keeps what `RequestFreshness` reads: one document's version (the
sequence number of the notification that set it) and the session generation.
Requests are spawned (`SpawnHandler`, `Respond`, `Panic`), answered inside the loop
(`RespondInline`) or are session bootstraps (`BootstrapSession`, `Hydrate`,
`FinishSessionBootstrap`).  Not distinguished: a document that is closed and
reopened at the same editor version.

### DetachedHydration

`world` holds the fields of `WorldState` that decide when a bootstrap is started
and whether its result counts, `metadata` where the search path and libraries
come from.  `UpdateSession` is `did_update_session` with everything it calls: the
refusal of an unsupported kind, the new bridge, `BeginSession` or `BeginBaseline`.
`EditDocument` is the part of `did_open` and `did_change` that retries.
`FinishBaseline` and `FinishSession` apply results in any order.  `SessionCooled`,
`BaselineCooled` are the retry cooldowns running out.

### TargetsManifest

A root has one pipeline source, whose version on disk stands for the names
`{targets}` would enumerate.  `Observe`, `InvalidateSource`, `Apply`, `Prepare` are the
functions of the same name; one event of the main loop, including `prepare` and the
publication, is one step.  `prepare` walks a hash set of roots and numbers the entries it
makes in that order, which is any order (`Numberings`).  `Debounced` is the task after its pause, `Evaluate` R
reading the script, `Answer` the result or failure that comes back later, when
the file may have changed again.  `Discover` is the indexer, on another thread, finding out that
a file feeds the pipeline.  A file is written and the report of it sent in one
step: the delay of the watcher is the time the report spends in the channel.

### IndexerQueue

A text is the number of the event that wrote it, an index entry the text it was
made from, a diagnosis the document's text and the index it was computed from.
`Drain`, `CheckTask`, `ApplyTask`, `FinishWorkspaceScan`, `ChunkDone` are the steps of
`process_indexer_queue`: the look at the generation and the write to the index are
separate because the main loop runs on another thread.  `GenerateDiagnostics` is
the blocking thread of a document, `PublishDiagnostics` the send to the auxiliary
loop, whose channel keeps the order.  `channel` is the queue as the worker sees it: it
takes all that is queued at once and sorts it into index tasks, in their order, and
the set of documents to diagnose, so the two are kept apart from the start.  A
notification with all it queues is one step.  Files written and files reported are separate steps; a scan is started,
walks the folders (`Discover`), and comes back twice (`HandleScan`).  Editing a file of
a targets project queues its script as well, and indexing a script indexes what it
sources, from disk.  `DidClose` clears before it removes, as the code does, so a
diagnosis already computed can still be published after it: no property is stated
for closed documents.  Left out: a walker or a diagnosing thread that panics (the
code logs it), progress reports, and the two sets of pipeline files, which
`TargetsManifest` has as `Discover`.

### StatusContents, StatusFile, StatusReader

`StatusContents` has what a reader would find (`shown`: a connection, half a file,
nothing) and which processes live.  Its contract: the socket in the file is never of an R
still to come, and a file that calls a living R busy names its living console.
`StatusFile` is the two writers.  R's side is the launcher's profile: `ReadPreserved`
and `write_status` are separate because R keeps the console's fields it read before its
rename.  The console's side: `publish` reads the file and merges, then truncates, then
writes, and starts again if a notice came in between.  Lines that the user submits go
through the console's queue and the terminal to R; prompts come back.  A console may
crash at any step, R may end at any step.  Two histories mark schedules the code does
not defend against (section 5), and the properties name them.

`StatusReader` is the server's end: `current_connection_with_policy` (the stamp and the
cache), `read_session_status` (the stamp again), `store_cached_connection` (the content)
and `send_request`, each a step of its own, for several threads.  The file changes in
every way `StatusContents` allows, so together with `ImplementsContents` the two
halves fit.  A stamp is time and length: later contents may share it with the
complete content before them, which `collided` records.

### PluginSession

Neovim runs one callback at a time: an action is a command, a callback, a scheduled
function or a timer, with all it calls.  R is another process and writes its status file
at any time.  `WriteStatus` is a write between two callbacks; a write within a callback
matters where the callback reads the file and starts a watcher of it afterwards
(`controller.ensure`), and `Finish`, the end of every such action, has it: a watcher that
already ran sees the write, one that the callback starts sees it or comes too late.
`start_async` with a live client reads the file a second time, which `Finish` has too.
`clients` are the server processes by id;
`sync` is the module state of `lsp.lua`: what each client was told, the bootstrap
wanted and under way, the watcher with its poll, the attempts of
`schedule_session_syncs`.  `recovery`, `exits`, `timers` are `lsp_recovery.lua`: a timer counts
only if both the counting table and its generation are still the current ones.
Whether a directory can be watched is open at every attempt, and so is the order of an
attempt and of the watch that is deferred by the same start.  A scenario says whether
recovery is enabled; without it `Crash` schedules nothing.  `overtaken` and `untold` are
histories of what the code does not repair (section 5).

### InstallRelease

An action is one command of `install-release.sh` that reads or changes the install root.
`proc[p]` holds the shell variables of installer `p` and where it is; `lock` is the lock directory,
whose maker stands for its inode.  `Inspect` and `Steal` are separate: the verdict on a
lock and the `mv` of whatever has its name by then.  `Interrupt` runs the trap, `Kill`
does not; a lock of an earlier day may be there at the start.  `stolen` and `littered` are
histories that the properties mention: a live installer was robbed; somebody was
killed, or interrupted before it had noted its lock.

## 3. Runs

| Run | Result |
|---|---|
| `bridge_safety` | permit, waiting line and circuit stay consistent; the runtime implements `PermitQueue` |
| `bridge_liveness` | every request returns although R may never answer |
| `loop_answers` | requests see earlier notifications, verdicts on freshness are right, requests given to the loop are answered |
| `loop_lost_wakeup` | violated: a mark between the barrier's load and its sleeper's registration is lost |
| `hydration` | one baseline at a time, hydrated means current and live, live metadata never goes back, pending marks are cleared |
| `bridges_overlap` | violated: around a session update two runtimes each admit an operation |
| `manifest_authority` | names are those of the disk, unsaved sources have none, no fetch is lost |
| `index_settles` | a queue at rest has shown every open document the diagnostics of its text and of the index; results arrive in order and arrive |
| `install` | links lead to verified binaries, the lock excludes, is cleaned up and is reclaimed from the dead; a finished installation leaves the links it announced |
| `status_file` | the file comes to rest complete and true, defers requests while R evaluates, every submitted line is sent; `StatusContents` is implemented |
| `status_reader` | the cache is believed only for the content it is of, requests next to an unchanging ready file succeed, none is sent twice to one R |
| `plugin` | restarts are bounded and answer the last crash, with recovery enabled every crash is answered; the bootstrap's mark is cleared; at rest the server knows the session as it is, but for the cases of section 5 |

Two runs show disagreements between the code and its documents; `PROJECT.json`
quotes both sides under "findings".  Each states one property, and each
counterexample is a schedule of the code as it is.

`TypeOK` is no property of a run: where a module has proofs it is proved, elsewhere it
documents the state.

### Bounds

* `BridgeRuntime`: three callers and one waiting place give a holder, a waiter and
  one that is refused or overtakes; two identities give a change of connection;
  threshold 2 and cooldown 2 give the closed, cooling, expired and probing circuit;
  the failure limit 3 stands for `u32::MAX` and is reached.  The liveness run has
  one identity and threshold 1.  Callers are interchangeable and symmetric in the
  safety run only.
* `LspMainLoop`: two requests and two notifications: an earlier and a later one for
  each request.  Requests are made once, so the system stops (no deadlock check).
* `DetachedHydration`: three session updates, two prompts, two baseline attempts:
  a bootstrap in flight, its successor, and a third update between their results.
  Updates of an unsupported kind, under which `HydratedMeansCurrentLive` does not hold,
  are in no run; the other invariants are proved for every set of kinds.
* `TargetsManifest`: two projects and five notifications: a session, its hydration,
  an open buffer, and two changes while a query is under way.
* `IndexerQueue`: a script and the file it sources in two folders, of which one is open
  as a workspace and being scanned; two edits and one change of a file or of the
  folders.  The folder change supersedes the scan that is under way.  Chunks of one
  task instead of 128 make every batch a split one.  With the bounds used up the
  system rests (no deadlock check).
* `StatusFile`: two consoles in turn on a file a third may have left, two lines: one
  that R evaluates while the next waits, and a successor that meets its predecessor's
  fields.  `StatusReader`: two threads, the R that left the file and one that starts
  meanwhile: a cached, a replaced and an outdated connection.  The theorems
  have no bound.
* `PluginSession`: two sessions; one restart instead of 3 and two sync attempts instead
  of 6 reach the limit; prompts 0 and 1.  `Scenarios` divides the commands, crashes and
  writes: two crashes with two commands and no session; a session with a crash and two
  changes; a session with three changes; a session, a crash and no recovery.  Writes
  within callbacks count as changes.  996,000 states.  `MaxClients` ids are enough because a command or
  a crash makes one client at most, which `BoundsAssumption` demands of the scenarios.
* `InstallRelease`: two installers, two versions, with or without the lock of a former
  installer.  An installer tries the lock three times; each runs once, so the system
  stops (no deadlock check).

### Fairness

Weak fairness of threads that are in the middle of `request`, of the clock, of
the main loop, the tower-lsp task and the handlers: they are operating-system
threads or tokio tasks that never wait without a timeout, except in the barrier.
R is not assumed to answer, the editor not to send anything, the retry of an edit
not to come.  A handler ends because its bridge calls are bounded by their
deadline, which is what `bridge_liveness` shows.  Jobs of a bootstrap end for the
same reason; the local `Rscript` of a baseline is assumed to end.  The indexer's
worker, the walker and the diagnosing threads are scheduled.  An installer that was
started and not stopped runs on, and time passes.  R and the console run on, but the
user submits nothing by necessity and an evaluation may never end.  Neovim runs
scheduled functions and timers; a server that is started initialises or exits.

## 4. Proofs

`BridgeRuntimeProofs`, for every finite set of callers, every set of identities
and every capacity, threshold, cooldown and deadline:

* `Admission == TypeOK /\ PermitIsExclusive /\ WaitingIsCounted` is inductive.
  The parts need each other: the count keeps the decrements above zero, the
  exclusive permit keeps a release from freeing somebody else's permit.
  `WaitersChange` and `HoldersChange` say what moving one caller does to the two
  sets; `AdmissionStep` goes through the actions.
* `CircuitInv == ProbeIsOwned /\ AttemptIsCurrent /\ OpenCircuitIsQuiet /\
  OpenIffThreshold` is inductive relative to it: the circuit mutex is released
  between the attempt and its outcome, and it is the permit that keeps everyone
  else from resetting the circuit in between (`OthersOutside`, `NoProbeBefore`).
* `Refinement`: with `Holders` for the server and `Waiters` for the line, every step
  is a step or a stutter of `PermitQueue`.
* `RunEndsByAnswerOrIdentity` is an action property that follows from the two: only the
  caller whose attempt the circuit counts can settle it.

`DetachedHydrationProofs`, for every number of updates, prompts and attempts:

* `IInv == TypeOK /\ BaselinePendingIffRunning /\ Provenance /\ RoomToRetry`.
  `Hydrated` reads five fields that different handlers write; that it implies live
  metadata needs `Provenance` (the completed generation never runs ahead and a
  completed bootstrap has left metadata), and, for the prompt, `JobsOfThisPrompt`.
* `LiveNeverGoesBack` is an action property that follows from `IInv` and the test
  of `Stale`.
* `HydratedMeansCurrentLive` assumes that no update is refused.  A refused update
  stores its status and prompt without a new generation, so the theorem is false
  without it; the plugin sends an unsupported kind only after its configuration is
  changed while the server runs.

`StatusFileProofs` on `StatusReader`, for any threads and any number of consoles:

* `ReaderInv` adds to `TypeOK` what a connection that was ever read still promises
  (`Promised`: of the file, the cache and every request), that the cache is of the
  stamp it is kept under, and three parts per request.  The promise survives
  because an R that starts is a later one than any connection names (`PromiseStays`).
* `NotSentTwice` needs `SentInv`: a first attempt that was sent to a running R was
  told of no console, a second one uses another connection; if to the same R, that
  connection names the console, which lives, so it is deferred.
* `QuietRequestsSucceed` needs `QuietInv`: a quiet request that failed once did not use
  what is in the file, so its second look finds another connection.
* `CacheIsOfTheStamp` rests on the order of the two reads: stamp first, content after.

`InstallReleaseProofs`, for any installers and versions:

* `PhaseInv` says what an installer remembers at each point, `StageInv` what it has staged
  and will link.  A release goes from nothing to verified in one rename and never
  back, so what one installer has found verified stays so whatever others do
  (`OthersStage`): `LinkedIsVerified` holds even with stolen locks.
* `LockInv`: while nobody was robbed, the lock is that of the one who holds it.  A holder
  is alive (`HoldersAreAlive`), so a `Steal` that robs nobody alive finds no holder; an
  `Unlock` by name removes the remover's own (`OneHolds`).  Hence `OneInstallsUnlessStolen`.
* `HalfwayInv` is the first link between the two; the holder is alone (`LinksOfTheHolder`),
  hence `LinksAreTheAnnounced`.  `LitterInv` (a lock that is there is held, and its owner file
  is its maker's) is why the cleanup recognises its lock: `LeavesNothingBehind`.

`LspMainLoopProofs`, for any finite set of requests and any number of notifications:

* `BarrierOrdersRequests` needs `NotesInOrder`: the channel holds the notifications in the
  order of their numbers, all past the barrier's position, so a position that has reached
  a request's target has nothing older behind it.  A notification whose handler fails is
  taken out without a mark, which the invariant allows: the position then lags.
* `FreshnessVerdictIsSound` relates a snapshot, the published world a handler reads and
  the loop's own world.  `PublishedWhenIdle` says that the last two differ only inside an
  event; `SnapshotsAreOlder` that no running handler has seen more than the published world;
  `NotesAreNew` that a document version, once replaced, does not come back;
  `OneEventPerRequest` that a request and the end of its bootstrap are taken out once.

`TargetsManifestProofs`, for any finite set of projects:

* `IInv == TypeOK /\ CacheInv /\ JobsInv /\ ResultsInv`.  Revisions are
  bounded by the counter, in the cache (`CacheInv`), in the requests under way (`JobsInv`)
  and in the results in the channel (`ResultsInv`); so a request with the revision of an entry
  was made from that entry, and what R read for it is the source on disk, or a report of
  the write is still in the channel.  This holds for every order in which
  `prepare` gives out new revisions.  Then `NamesAreCurrent` is a part of `IInv`.
* `UnsavedAreNotNamed` and `AttemptsAreUnderWay` are action properties: the first is about the
  end of an event, whose `prepare` replaces such entries; the second goes through every way a
  task or a result can be given up and finds the entry replaced.

`StatusFileProofs` on `StatusFile`, for any number of consoles and lines:

* `IInv` has a part for each of the two writers (`RInv`, `ConsoleInv`), the file between them
  (`FileInv`: a difference from what a writer would write is one it has a notice of, or is
  about to write), the generations (`Tenure`, `Origins`: nothing in the file or in either
  process is of a later console or R), the lines on their way (`LineInv`) and the process
  named by the busy mark (`PidInv`).
* `RestingFile` and `EvaluationDeferred` are read off `FileInv` and `LineInv`.  Of the two
  histories only `clobbered` counts for the first: a rename by R during the console's
  write is repaired by the notice it causes.
* `Refinement`: every step of R and of the console maps to a step or a stutter of
  `StatusContents`.  Its case analysis is over what the step does to the record and the
  mark a reader combines; the contract needs `Origins` and `PidInv`.  With the theorems about
  `StatusReader`, which assumes only `StatusContents`, writers and readers are proved
  together.
* `None` is assumed to be no number, record, mark or connection, as `nil` is none in the code.

`IndexerQueueProofs`, for any finite set of files and folders, any targets projects, any
chunk size and any number of edits and changes:

* `IInv == TypeOK /\ LoopInv /\ WorkerInv /\ OrderInv /\ RefreshInv`.  `WorkerInv` is what
  waiting for a round of diagnoses buys: no thread runs while a chunk is applied, and
  there is one result per document at most.
* `ShownInOrder` (an action property) needs `OrderInv`: what is shown of a document is no
  newer than its result under way, which is no newer than the open document.  A document
  that is closed and opened again has a text newer than any diagnosis still on its way.
* `SettledIsCurrent` needs `RefreshInv`, which is about the queue at work.  Index tasks
  the worker has are followed by a refresh it has too, or that is queued; queued index tasks
  by a queued one, since the worker may spend those it has before it looks at the queue; or else
  a scan of the present generation has still to end (`ScanPending`: walking, discovered, in the
  queue, in a batch, or applied), which refreshes everything.  And every open document is to be
  refreshed, being diagnosed, or diagnosed as it is (`Current`), which `NothingForgotten`
  states for every state.  All of it needs a workspace folder, see section 5.
* `OutdatedOnItsWay` says the same of texts without that condition: it is the safety half of
  `OutdatedIsReplaced`, whose other half is that the worker and its threads run.
* The lemmas before them say what `SetToSeq`, `SplitOff`, concatenation and `Tail` do to the tasks of
  a queue; none needs an induction, as the queue is kept sorted.

`PluginSessionProofs`, for any sessions, scenarios and limits:

* `RecoveryInv == RecoveryTyped /\ CountInv /\ TimersInv` is inductive on its own: the table
  that counts has counted each crash as an attempt and as a generation, there is one
  restart for each at most and none yet for the last while its timer waits; a timer that has
  the table's own generation is of the last event, and there is one such timer.  Hence `BoundedRestarts`,
  and `RestartsAnswerTheLast` as an action property.
* `Marked(sync)` is the invariant of `MarksAreOfRequests`.  `Leaves` says of an operation that it
  has nothing to do with bootstraps; it is transitive, so each operation of the
  watch is dealt with once and the callbacks are chains of them.
* `KnowledgeInv` is the invariant of `TypeCorrect` and `TheServerKnows`.  One client at most
  starts or runs (`OneRuns`); only a live one was told anything, what it is kept from as
  wanted is on its way to it, and what it was sent differs from what is noted only by a
  bootstrap (`Base`); the watch is of the session that is shown, or a sync is due (`Keyed`);
  and every live client is settled, or a callback that will tell it is still to run
  (`Knows`), or the histories name what happened.  Every operation of `lsp.lua` has one lemma
  about these parts, for any state it is called in and any payload it was given, and every
  action is put together from them.  `Keyed` makes the watcher that runs one of the
  file that is shown, so a write of it is either seen by a watcher (a notice is due) or
  recorded as `untold` (`WrittenKeeps`); `FinishKeeps` is the same for a write within a
  callback.  A write that no watcher sees is missed by the code: the theorem excepts it.
* `Room` counts what may still make a client (commands, crashes, exits, timers) against
  the ids that are left: `vim.lsp.start` always finds a fresh one.
* Wider instances than the run's (two commands, three changes) showed that a bootstrap
  that fails after the buffer went to another session and back leaves the server with what
  it sent; `overtaken` records this too, see section 5.

Only model-checked: liveness (`EveryRequestReturns`, `SentRequestsAreAnswered`,
`PendingSettles`, `OutdatedIsReplaced`, `OrphanIsReclaimed`, `ConsoleFieldsSettle`, `SubmittedIsSent`,
`CrashIsAnswered`).  Every safety property of a passing run is a theorem.
The prover does not reason about fairness or ENABLED, nor by induction over data.

## 5. Not modelled

What the commands of the bridge say and how answers are decoded; parsing,
completion, what a diagnosis finds and the other functions of one snapshot; the kernel
crates; the user interface.  They keep no state across steps that these
properties could be about.  The R side of the bridge is the environment of
`BridgeRuntime`: it accepts or not, answers, breaks off or stays silent.

Known limits of the code, which the models have as they are:

* A failed manifest query is not repeated until something changes; a failed session
  bootstrap is repeated by the plugin, not by the server, once a baseline has filled in
  metadata; removing the last workspace folder refreshes nothing.
* A waiter that was cancelled, or whose deadline passed, while it slept may still be granted
  the permit (`session_bridge_runtime.rs:472`; `SPEC.md:432` has it removed before); the second
  fails before it connects and is counted by the circuit.
* A notification whose handler fails is not marked by the barrier (`main_loop.rs:432`).
* A baseline that ends between a new session update and its first metadata replaces
  live metadata of the former session (`state_handlers.rs:219`; `SPEC.md:485`).
* An index task of an older generation may be applied after the folders have changed
  (`main_loop.rs:1524`).
* Installer: `mv` by name may move the lock a live installer has just made
  (`install-release.sh:170`); a `SIGKILL` leaves its staging directory and, between the two
  links, `previous` equal to `current`.  A lock without an owner file is taken for abandoned
  after 30 seconds: the model assumes that a script that runs needs less.
* Status file: the console may write back a record of R that R has replaced since it read
  the file (`console.lua:171`, `clobbered`); lines sent before the first prompt
  (`ahead`) make the busy mark follow the wrong prompt.
* Plugin: the answer to a bootstrap that was overtaken by a change of the session
  is noted as what the server knows (`lsp.lua:1005`), and one that fails leaves the server
  with the session it was sent although another is noted (`lsp.lua:992`): when the buffer
  shows that one again before the next attempt, nothing is sent until the file changes
  (`overtaken` is both).
* Plugin: a change of the status file that no watcher sees is not told to the server, which
  stays outdated until something else makes the plugin look (`untold`).  This happens when R
  writes between the reading of the file and the start of the watcher (`lsp.lua:1338`,
  `lsp_session_watch.lua:255` against `:179`; the last loop of `sync_sessions` sends what was
  read before); after an error status has stopped the watch
  (`lsp_session_watch.lua:206-209`, `267-269`); and where the directory cannot be watched,
  since polling stops once a ready session was delivered.  A start that finds an error
  status tells nobody about it (`lsp.lua:1076-1119`), which `untold` records too.  A buffer
  whose session was closed is only detached: the server keeps what it was told last, and
  `ServerKnowsTheSession` is about a buffer that shows a session.
* Plugin: with `lsp.crash_recovery` disabled a crash is left alone (`lsp_recovery.lua:73-75`);
  `CrashIsAnswered` is about the others.

Assumptions that make a model narrower or wider than the code:

* `StatusFile`: the console's watcher of the directory always starts.  Where it does not
  (`console.lua:222-225`, `258-267`) the console publishes once more and never again by
  itself, and `RestingFileIsTrue` and `ConsoleFieldsSettle` do not hold.  The buffer of a
  console is not wiped while its R runs (`console.lua:1662-1675`, `2143-2151`): `Close`
  comes after the exit of R.  Of the console's fields the model has its process, its prompt
  state and the process that state is of; `nvim_console_running`, the RPC socket and the last
  line sent (`188-194`) are left out, so a publication that changes only those is none
  here.  R comes up: the error status of the launcher (`ark-r-launcher.sh:606-623`) is in
  `PluginSession` and not here.
* `StatusReader`: every failure of a first attempt leads to a second look.  The code looks
  again after errors of authentication and availability only (`session_bridge.rs:1835`), which
  are what an outdated connection gives; for `NotSentTwice` the model does more than the code.
* `IndexerQueue`: `Roots` are folders that are scanned.  The code also has folders it
  skips, those without a path and the temporary directory of a detached server without a root
  (`workspace_scan_roots`, `main_loop.rs:1267-1292`); with only such folders neither scan nor
  refresh follows, as without any.
* `PluginSession`: the answer or the timeout of a bootstrap comes eventually; the model does not
  demand it, and `RequestIsUnderWay` says only that the mark goes with the request.

Left out of the status file, the plugin and the installer: the path of a status file that R fails to write, the
console's fallbacks when a rename fails, submissions of several lines; development-mode
builds, several buffers and roots of one client; an install root that is itself a link,
asset addresses and argument parsing.

## 6. Plan

Done: the server (`BridgeRuntime`, `PermitQueue`, `SessionBridges`, `LspMainLoop`, `DetachedHydration`,
`TargetsManifest`, `IndexerQueue`), the status file (`StatusConnections`, `StatusContents`,
`StatusFile`, `StatusReader`), the plugin (`PluginSession`), the
installer (`InstallRelease`), eight proof modules.

Next: renderer schemas (the shape of the manifest cache), the package cache with its file
locks, tmux tabs, view paging.
