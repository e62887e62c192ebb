----------------------------- MODULE IndexerQueue -----------------------------
(***************************************************************************)
(* The workspace index and the diagnostics computed from it                *)
(* (lsp/main_loop.rs, lsp/indexer.rs, lsp/state_handlers.rs).              *)
(*                                                                         *)
(* The main loop turns notifications into tasks on the INDEXER_QUEUE; one  *)
(* worker applies the index tasks in chunks and, once none is left, has    *)
(* the open documents diagnosed by blocking threads; the results go to the *)
(* editor through the FIFO channel of the auxiliary loop.  A change of the *)
(* workspace folders starts a new generation, which makes queued index     *)
(* tasks stale, and a scan of the folders.                                 *)
(*                                                                         *)
(* A text is the number of the event that wrote it.  Every text defines    *)
(* symbols, so that a file that is indexed has an entry.  One notification *)
(* is handled in one step: the worker's own steps are what matters to the  *)
(* order in which it sees them.  The specification begins when the         *)
(* initialized notification has been handled.                              *)
(***************************************************************************)
EXTENDS Integers, Sequences, FiniteSets, SequencesExt

CONSTANTS Files,
          Roots,                \* folders that are scanned (workspace_scan_roots)
          Documents,            \* the files the editor opens
          RootsOf,              \* the folders that contain each file
          ScriptOf,             \* the targets script of each file's project, or None
          Sourced,              \* the files each targets script sources
          None,
          InitialFolders,       \* the folders of the initialize request
          MAX_INDEXER_BATCH,
          MaxEdits,             \* bound: documents opened, changed or closed
          MaxChanges            \* bound: changes of files and folders

ASSUME QueueAssumption ==
    /\ IsFiniteSet(Files) /\ IsFiniteSet(Roots)
    /\ Documents \subseteq Files
    /\ RootsOf \in [Files -> SUBSET Roots]
    /\ InitialFolders \subseteq Roots
    /\ None \notin Files
    /\ ScriptOf \in [Files -> Files \cup {None}]
    /\ Sourced \in [Files -> SUBSET Files]
    /\ \A u \in Files : Sourced[u] # {} => ScriptOf[u] = u
    /\ MAX_INDEXER_BATCH \in Nat \ {0}
    /\ MaxEdits \in Nat /\ MaxChanges \in Nat

VARIABLES
    events,      \* how many edits and changes there have been
    disk,        \* the text of each file on disk
    reports,     \* changes on disk the editor has not reported yet
    world,       \* the main loop's documents, folders and generation
    latest,      \* LATEST_WORLD_STATE
    index,       \* WORKSPACE_INDEX: the text each file's entry was made from
    channel,     \* INDEXER_QUEUE: its index tasks, and the files it has diagnostics tasks for
    worker,      \* the locals of process_indexer_queue
    running,     \* documents being diagnosed
    results,     \* diagnostics computed and not published yet
    scans,       \* workspace discoveries under way
    internal,    \* WorkspaceScanDiscovered and WorkspaceScanApplied events
    shown        \* the diagnostics published last for each file

vars == <<events, disk, reports, world, latest, index, channel, worker, running,
          results, scans, internal, shown>>
outside == <<disk, reports, scans>>
loopVars == <<world, latest>>
workerVars == <<worker, running, results>>

-----------------------------------------------------------------------------
(* Types and initial state *)

NoText == -1       \* not on disk, not open, not in the index
Cleared == 0       \* an index entry whose symbols were cleared
Written == 1..(MaxEdits + MaxChanges + 1)
Now == events.edits + events.changes + 2   \* the text of the event that happens
Generations == 1..(MaxChanges + 1)
Nothing == [text |-> NoText]

Worlds == [documents : [Files -> Written \cup {NoText}], folders : SUBSET Roots,
           generation : Generations]

Open(w) == {u \in Files : w.documents[u] # NoText}
Within(u, folders) == RootsOf[u] \cap folders # {}

Idle == [phase |-> "drain", chunk |-> <<>>, batch |-> <<>>, refresh |-> {}]

\* The worker takes all that is queued and sorts it: index tasks in their order, and a
\* set of the files to diagnose.  What matters of the queue is that, so it is kept sorted.
NoTasks == [tasks |-> <<>>, refresh |-> {}]

StartScan(w) == IF w.folders = {} THEN {} ELSE {[generation |-> w.generation, roots |-> w.folders]}

Init ==
    /\ events = [edits |-> 0, changes |-> 0]
    /\ disk = [u \in Files |-> 1]
    /\ reports = {}
    /\ world = [documents |-> [u \in Files |-> NoText], folders |-> InitialFolders,
                generation |-> 1]
    /\ latest = world
    /\ index = [u \in Files |-> NoText]
    /\ channel = NoTasks
    /\ worker = Idle /\ running = {} /\ results = {}
    /\ scans = StartScan(world)
    /\ internal = {}
    /\ shown = [u \in Files |-> Nothing]

-----------------------------------------------------------------------------
(* Tasks *)

Create(u, g) == [kind |-> "create", file |-> u, generation |-> g]
Update(u, t, g) == [kind |-> "update", file |-> u, text |-> t, generation |-> g]
Delete(u, g) == [kind |-> "delete", file |-> u, generation |-> g]
Rename(u, v, g) == [kind |-> "rename", file |-> u, new |-> v, generation |-> g]
FinishScan(g) == [kind |-> "finish", generation |-> g]

\* related_targets_script_uri, for all of S: the scripts that exist, without
\* those that are queued already.
RelatedScripts(S) == {v \in Files \ S : disk[v] # NoText /\ \E u \in S : ScriptOf[u] = v}

Creates(S, g) ==
    LET all == SetToSeq(S) \o SetToSeq(RelatedScripts(S))
    IN  [i \in 1..Len(all) |-> Create(all[i], g)]

\* An index_update queues the scripts even if they are among its own documents.
Updates(w, S) ==
    LET own == SetToSeq(S)
        disks == SetToSeq({v \in Files : /\ disk[v] # NoText
                                         /\ \E u \in S \ {v} : ScriptOf[u] = v})
    IN  [i \in 1..Len(own) |-> Update(own[i], w.documents[own[i]], w.generation)]
        \o [i \in 1..Len(disks) |-> Create(disks[i], w.generation)]

\* diagnostics_refresh_all_latest: one task per open document.
RefreshAll(w) == Open(w)

-----------------------------------------------------------------------------
(* Faulty variants of the definitions below, used only to test properties. *)

\* Refresh intents are spent after the first chunk.
DueAfterChunk(w) == w.refresh

\* The worker goes on while the diagnostics of a round are still computed.
AllPublishedNever == TRUE

\* did_open leaves the refresh to the indexer, which is not told.
OpenedTasksNone(w) == {}

-----------------------------------------------------------------------------
(* The file system *)

NewEdit == events.edits < MaxEdits /\ events' = [events EXCEPT !.edits = @ + 1]
NewChange == events.changes < MaxChanges /\ events' = [events EXCEPT !.changes = @ + 1]

\* Another program, or a save, writes or removes a file.
WriteFile(u) ==
    /\ NewChange
    /\ \E t \in {Now, NoText} : t # disk[u] /\ disk' = [disk EXCEPT ![u] = t]
    /\ reports' = reports \cup {[old |-> u, new |-> u]}
    /\ UNCHANGED <<loopVars, index, channel, workerVars, scans, internal, shown>>

MoveFile(u, v) ==
    /\ NewChange
    /\ u # v /\ disk[u] # NoText
    /\ disk' = [disk EXCEPT ![v] = disk[u], ![u] = NoText]
    /\ reports' = reports \cup {[old |-> u, new |-> v]}
    /\ UNCHANGED <<loopVars, index, channel, workerVars, scans, internal, shown>>

\* workspace_walker::r_files, on a blocking thread.
Discover(s) ==
    /\ s \in scans
    /\ scans' = scans \ {s}
    /\ internal' = internal \cup
          {[kind |-> "discovered", generation |-> s.generation,
            files |-> {u \in Files : disk[u] # NoText /\ Within(u, s.roots)}]}
    /\ UNCHANGED <<events, disk, reports, loopVars, index, channel, workerVars, shown>>

-----------------------------------------------------------------------------
(* The main loop *)

\* An event leaves w as the world and queues index tasks and diagnostics;
\* handle_event ends with store_latest_world_state.
Handled(w, tasks, refresh) ==
    /\ world' = w
    /\ latest' = w
    /\ channel' = [tasks |-> channel.tasks \o tasks, refresh |-> channel.refresh \cup refresh]

WithText(u, t) == [world EXCEPT !.documents[u] = t]

\* A detached server does not index a document when it is opened.
OpenedTasks(w) == RefreshAll(w)

DidOpen(u) ==
    /\ NewEdit
    /\ world.documents[u] = NoText
    /\ Handled(WithText(u, Now), <<>>, OpenedTasks(WithText(u, Now)))
    /\ UNCHANGED <<outside, index, workerVars, internal, shown>>

DidChange(u) ==
    /\ NewEdit
    /\ world.documents[u] # NoText
    /\ LET w == WithText(u, Now)
       IN  Handled(w, Updates(w, {u}), RefreshAll(w))
    /\ UNCHANGED <<outside, index, workerVars, internal, shown>>

\* The empty set of diagnostics is published before the document goes.
DidClose(u) ==
    /\ NewEdit
    /\ world.documents[u] # NoText
    /\ shown' = [shown EXCEPT ![u] = Nothing]
    /\ Handled(WithText(u, NoText), <<>>, {})
    /\ UNCHANGED <<outside, index, workerVars, internal>>

\* did_change_watched_files, did_create_files, did_delete_files and
\* did_rename_files, for one file.  The kind of a report is what the watcher
\* finds on disk.
Report(r) ==
    /\ r \in reports
    /\ reports' = reports \ {r}
    /\ LET g == world.generation
           tasks == IF r.old # r.new THEN <<Rename(r.old, r.new, g)>>
                    ELSE IF disk[r.old] = NoText THEN <<Delete(r.old, g)>>
                    ELSE Creates({r.old}, g)
       IN  Handled(world, tasks, RefreshAll(world))
    /\ UNCHANGED <<events, disk, scans, index, workerVars, internal, shown>>

\* remove_workspace_roots
WithoutRoots(removed, retained) ==
    [u \in Files |-> IF Within(u, removed) /\ ~Within(u, retained) THEN NoText ELSE index[u]]

\* set_workspace_folders takes the next generation.
WithFolders(F) == [world EXCEPT !.folders = F, !.generation = @ + 1]

\* The new generation is published, the entries of removed roots go, the scan
\* starts and the open documents within the roots are indexed again.
DidChangeWorkspaceFolders(F) ==
    /\ NewChange
    /\ F # world.folders
    /\ LET w == WithFolders(F)
           within == {u \in Open(w) : Within(u, F)}
       IN  /\ IF within = {} THEN Handled(w, <<>>, {})
                             ELSE Handled(w, Updates(w, within), RefreshAll(w))
           /\ index' = WithoutRoots(world.folders \ F, F)
           /\ scans' = scans \cup StartScan(w)
    /\ UNCHANGED <<disk, reports, workerVars, internal, shown>>

\* WorkspaceScanDiscovered and WorkspaceScanApplied; of an older generation
\* neither does anything.
ScanTasks(e) ==
    IF e.kind = "discovered" /\ e.generation = world.generation
    THEN Append(Creates(e.files, e.generation), FinishScan(e.generation)) ELSE <<>>
ScanRefresh(e) ==
    IF e.kind = "applied" /\ e.generation = world.generation THEN RefreshAll(world) ELSE {}

HandleScan(e) ==
    /\ e \in internal
    /\ internal' = internal \ {e}
    /\ Handled(world, ScanTasks(e), ScanRefresh(e))
    /\ UNCHANGED <<events, outside, index, workerVars, shown>>

-----------------------------------------------------------------------------
(* The worker: process_indexer_queue *)

At(phase) == worker.phase = phase

\* process_diagnostics_batch waits for all the threads it started.
AllPublished == running = {} /\ results = {}

\* The first MAX_INDEXER_BATCH tasks are processed, the others wait.
SplitOff(tasks) ==
    IF Len(tasks) > MAX_INDEXER_BATCH
    THEN [chunk |-> SubSeq(tasks, 1, MAX_INDEXER_BATCH),
          batch |-> SubSeq(tasks, MAX_INDEXER_BATCH + 1, Len(tasks))]
    ELSE [chunk |-> tasks, batch |-> <<>>]

\* Everything that is queued goes into the two batches.
Drain ==
    /\ At("drain") /\ AllPublished
    /\ channel # NoTasks \/ worker.batch # <<>> \/ worker.refresh # {}
    /\ LET split == SplitOff(worker.batch \o channel.tasks)
       IN  worker' = [phase |-> "index", chunk |-> split.chunk, batch |-> split.batch,
                      refresh |-> worker.refresh \cup channel.refresh]
    /\ channel' = NoTasks
    /\ UNCHANGED <<events, outside, loopVars, index, running, results, internal, shown>>

\* process_indexer_batch reads the latest generation; only then, and in another
\* step, does it touch the index.
CheckTask ==
    /\ At("index") /\ worker.chunk # <<>>
    /\ Head(worker.chunk).kind # "finish"
    /\ worker' = IF Head(worker.chunk).generation = latest.generation
                 THEN [worker EXCEPT !.phase = "apply"]
                 ELSE [worker EXCEPT !.chunk = Tail(@)]
    /\ UNCHANGED <<events, outside, loopVars, index, channel, running, results, internal, shown>>

\* clear_file_index keeps the key of an entry.
Clear(ix, u) == [ix EXCEPT ![u] = IF @ = NoText THEN NoText ELSE Cleared]

\* index_document and, for a targets script, the files it sources that exist.
IndexText(ix, u, t) ==
    [v \in Files |-> IF v = u THEN t
                     ELSE IF v \in Sourced[u] /\ disk[v] # NoText THEN disk[v]
                     ELSE ix[v]]

\* indexer::create, update, delete and rename.
Applied(ix, t) ==
    CASE t.kind = "create" -> IF disk[t.file] = NoText THEN Clear(ix, t.file)
                              ELSE IndexText(ix, t.file, disk[t.file])
      [] t.kind = "update" -> IndexText(ix, t.file, t.text)
      [] t.kind = "delete" -> Clear(ix, t.file)
      [] t.kind = "rename" -> IF ix[t.file] = NoText THEN ix
                              ELSE [ix EXCEPT ![t.new] = ix[t.file], ![t.file] = NoText]

ApplyTask ==
    /\ At("apply")
    /\ index' = Applied(index, Head(worker.chunk))
    /\ worker' = [worker EXCEPT !.phase = "index", !.chunk = Tail(@)]
    /\ UNCHANGED <<events, outside, loopVars, channel, running, results, internal, shown>>

FinishWorkspaceScan ==
    /\ At("index") /\ worker.chunk # <<>>
    /\ Head(worker.chunk).kind = "finish"
    /\ internal' = internal \cup
          {[kind |-> "applied", generation |-> Head(worker.chunk).generation, files |-> {}]}
    /\ worker' = [worker EXCEPT !.chunk = Tail(@)]
    /\ UNCHANGED <<events, outside, loopVars, index, channel, running, results, shown>>

\* Refresh intents are kept until every queued chunk has been applied.
Due(w) == IF w.batch = <<>> THEN w.refresh ELSE {}

\* process_diagnostics_batch starts a blocking thread for each document.
ChunkDone ==
    /\ At("index") /\ worker.chunk = <<>>
    /\ running' = running \cup Due(worker)
    /\ worker' = [worker EXCEPT !.phase = "drain", !.refresh = @ \ Due(worker)]
    /\ UNCHANGED <<events, outside, loopVars, index, channel, results, internal, shown>>

Diagnosis(u) == [text |-> latest.documents[u], index |-> index]

\* A document that is not open any more gets no diagnostics.
GenerateDiagnostics(u) ==
    /\ u \in running
    /\ running' = running \ {u}
    /\ results' = IF u \in Open(latest)
                  THEN results \cup {[file |-> u, found |-> Diagnosis(u)]} ELSE results
    /\ UNCHANGED <<events, outside, loopVars, index, channel, worker, internal, shown>>

\* Results are published as they complete; the channel to the auxiliary loop
\* keeps their order, so the editor's view is theirs with a delay.
PublishDiagnostics(r) ==
    /\ r \in results
    /\ results' = results \ {r}
    /\ shown' = [shown EXCEPT ![r.file] = r.found]
    /\ UNCHANGED <<events, outside, loopVars, index, channel, worker, running, internal>>

-----------------------------------------------------------------------------
(* The specification *)

Notification ==
    \/ \E u \in Documents : DidOpen(u) \/ DidChange(u) \/ DidClose(u)
    \/ \E F \in SUBSET Roots : DidChangeWorkspaceFolders(F)

FileSystem == \E u \in Files : WriteFile(u) \/ \E v \in Files : MoveFile(u, v)

Worker == \/ Drain \/ CheckTask \/ ApplyTask \/ FinishWorkspaceScan \/ ChunkDone
          \/ \E u \in running : GenerateDiagnostics(u)
          \/ \E r \in results : PublishDiagnostics(r)

Scanning == (\E s \in scans : Discover(s)) \/ (\E e \in internal : HandleScan(e))
Reporting == \E r \in reports : Report(r)

Next == Notification \/ FileSystem \/ Reporting \/ Worker \/ Scanning

Spec == Init /\ [][Next]_vars

\* The worker's task, the blocking threads and the main loop are scheduled.  The editor owes nothing.
FairSpec == Spec /\ WF_vars(Worker) /\ WF_vars(Scanning)

-----------------------------------------------------------------------------
(* Properties *)

Tasks == [kind : {"create", "delete"}, file : Files, generation : Generations]
    \cup [kind : {"update"}, file : Files, text : Written, generation : Generations]
    \cup [kind : {"rename"}, file : Files, new : Files, generation : Generations]
    \cup [kind : {"finish"}, generation : Generations]

Indexes == [Files -> Written \cup {Cleared, NoText}]
Findings == [text : Written, index : Indexes]

\* The state keeps its types; in particular a chunk never has more than
\* MAX_INDEXER_BATCH tasks, so that the worker yields between chunks.
TypeOK ==
    /\ events \in [edits : 0..MaxEdits, changes : 0..MaxChanges]
    /\ disk \in [Files -> Written \cup {NoText}]
    /\ reports \subseteq [old : Files, new : Files]
    /\ world \in Worlds /\ latest \in Worlds
    /\ index \in Indexes
    /\ channel \in [tasks : Seq(Tasks), refresh : SUBSET Files]
    /\ worker \in [phase : {"drain", "index", "apply"}, chunk : Seq(Tasks), batch : Seq(Tasks),
                   refresh : SUBSET Files]
    /\ Len(worker.chunk) <= MAX_INDEXER_BATCH
    /\ running \subseteq Files
    /\ results \subseteq [file : Files, found : Findings]
    /\ scans \subseteq [generation : Generations, roots : SUBSET Roots]
    /\ internal \subseteq [kind : {"discovered", "applied"}, generation : Generations,
                           files : SUBSET Files]
    /\ shown \in [Files -> Findings \cup {Nothing}]

\* Nothing is under way between the editor's notifications and its diagnostics.
Settled ==
    /\ channel = NoTasks /\ worker = Idle /\ running = {} /\ results = {}
    /\ scans = {} /\ internal = {}

\* "Diagnostics need an up-to-date index to be accurate" (process_indexer_queue).
\* Whenever the queue has come to rest, the editor shows for every open document
\* the diagnostics of its present text against the present index, whatever was
\* scanned, edited, renamed or removed while they were computed.  It needs a
\* workspace folder: when the last one is removed its entries go and no refresh
\* follows.
SettledDiagnosticsAreCurrent ==
    Settled /\ world.folders # {} =>
        \A u \in Open(world) : shown[u] = Diagnosis(u)

\* "The frontend will receive all results in order" (process_indexer_queue): the
\* diagnostics of a document are never replaced by those of an older text,
\* although they are computed by concurrent threads.
ResultsArriveInOrder ==
    [][\A u \in Files : shown[u] # Nothing /\ shown'[u] # Nothing
          => shown'[u].text >= shown[u].text]_vars

\* "... ensuring that diagnostics for an outdated version are eventually replaced
\* by the most up-to-date diagnostics" (process_indexer_queue), for every document
\* that stays open, with folders or without.
OutdatedIsReplaced ==
    \A u \in Files : u \in Open(world) ~>
        u \notin Open(world) \/ shown[u].text = world.documents[u]

=============================================================================
