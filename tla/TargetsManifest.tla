--------------------------- MODULE TargetsManifest ---------------------------
(***************************************************************************)
(* The cache of target names by project root (lsp/targets_manifest.rs) and *)
(* the tasks that fill it through the bridge (spawn_targets_manifest in    *)
(* lsp/main_loop.rs).  R enumerates the targets of what is on disk; the    *)
(* cache has to notice, from editor notifications alone and in the order   *)
(* they arrive, when an answer no longer describes what is on disk or when *)
(* an open buffer differs from it.                                         *)
(*                                                                         *)
(* A root has one pipeline source.  The set of names a manifest proves is  *)
(* reduced to the version of the source it was evaluated from.  One event  *)
(* of the main loop, from observe to the published snapshot, is one step,  *)
(* so what the tasks read in LATEST_WORLD_STATE is the loop's own cache.   *)
(***************************************************************************)
EXTENDS Integers, Sequences, FiniteSets, Functions

CONSTANTS Roots,       \* project roots, one pipeline source in each
          MaxEvents    \* bound: how many notifications arrive

ASSUME ManifestAssumption == MaxEvents \in Nat /\ IsFiniteSet(Roots)

VARIABLES
    disk,      \* version of each root's source on disk
    events,    \* the main loop's channel
    sent,      \* notifications so far
    open,      \* roots whose source the editor has open
    known,     \* roots whose source the indexer knows as pipeline input
    session,   \* the session generation, and whether it is hydrated
    docs,      \* state.documents, by root
    cache,     \* TargetManifests
    jobs       \* manifest requests under way

vars == <<disk, events, sent, open, known, session, docs, cache, jobs>>
editorVars == <<disk, sent, open>>
loopVars == <<session, docs, cache>>

-----------------------------------------------------------------------------
(* Types and initial state *)

Unknown == 0                \* names: None
Absent == [revision |-> 0]  \* no entry

Versions == Nat \ {Unknown}
Entries == {Absent} \cup [revision : Nat \ {0}, attempted : BOOLEAN, names : Nat]
Caches == [entries : [Roots -> Entries], dirty : SUBSET Roots,
           session_generation : Nat, revision : Nat]
Requests == [root : Roots, revision : Nat, session_generation : Nat]
Jobs == [request : Requests, stage : {"pause", "asked", "evaluated"}, names : Nat]
Events == [kind : {"open"}, root : Roots, text : Nat]
          \cup [kind : {"change", "save", "close", "write"}, root : Roots]
          \cup [kind : {"session", "hydrated"}]
          \cup [kind : {"result"}, request : Requests, names : Nat]

NewEntry(n) == [revision |-> n, attempted |-> FALSE, names |-> Unknown]

Init ==
    /\ disk = [r \in Roots |-> 1]
    /\ events = <<>> /\ sent = 0
    /\ open = {} /\ docs = {}
    /\ known \in SUBSET Roots
    /\ session = [generation |-> 0, hydrated |-> FALSE]
    /\ cache = [entries |-> [r \in Roots |-> Absent], dirty |-> {},
                session_generation |-> 0, revision |-> 0]
    /\ jobs = {}

-----------------------------------------------------------------------------
(* Faulty variants of the definitions below, used only to test properties. *)

\* A result is compared by session only.
IsCurrentForSession(c, q) ==
    c.session_generation = q.session_generation /\ c.entries[q.root] # Absent

\* A source change drops the names and forgets that they have to be fetched.
InvalidatedForGood(c, r) ==
    [c EXCEPT !.revision = @ + 1,
              !.entries[r] = [revision |-> c.revision + 1, attempted |-> TRUE, names |-> Unknown]]

\* prepare asks for a manifest although a buffer has unsaved changes.
DirtySourceNever(c, r) == FALSE

-----------------------------------------------------------------------------
(* The cache *)

\* invalidate_source replaces the entry under a new revision.
Invalidated(c, r) ==
    [c EXCEPT !.revision = @ + 1, !.entries[r] = NewEntry(c.revision + 1)]

\* A file changed on disk counts wherever it lies in the root; typing counts
\* for known pipeline inputs only.
InvalidateSource(c, r, disk_change) ==
    IF c.entries[r] # Absent /\ (disk_change \/ r \in known) THEN Invalidated(c, r) ELSE c

\* TargetManifests::observe
Observe(c, note) ==
    LET r == note.root
        dirtied == [c EXCEPT !.dirty = @ \cup {r}]
        cleaned == [c EXCEPT !.dirty = @ \ {r}]
    IN  CASE note.kind = "open" /\ note.text # disk[r] -> InvalidateSource(dirtied, r, FALSE)
          [] note.kind = "change" -> InvalidateSource(dirtied, r, FALSE)
          [] note.kind = "save"   -> InvalidateSource(cleaned, r, TRUE)
          [] note.kind = "close" /\ r \in c.dirty -> InvalidateSource(cleaned, r, FALSE)
          [] note.kind = "write"  -> InvalidateSource(c, r, TRUE)
          [] OTHER -> c

IsCurrent(c, q) ==
    /\ c.session_generation = q.session_generation
    /\ c.entries[q.root] # Absent
    /\ c.entries[q.root].revision = q.revision

\* TargetManifests::apply; a failed query proves nothing.
Apply(c, q, names) ==
    IF IsCurrent(c, q)
    THEN [c EXCEPT !.entries[q.root].names = names, !.revision = @ + 1]
    ELSE c

DirtySource(c, r) == r \in c.dirty /\ r \in known

(* prepare, at the end of every event: another session clears the cache,     *)
(* roots without documents lose their entry, and a hydrated session is asked *)
(* for what is missing, unless a buffer has unsaved changes.                 *)
Retained(c, s, d) ==
    LET same == c.session_generation = s.generation
    IN  [c EXCEPT !.entries = [r \in Roots |-> IF same /\ r \in d THEN c.entries[r] ELSE Absent],
                  !.session_generation = s.generation,
                  !.revision = IF same THEN @ ELSE @ + 1]

\* The roots that get a fresh entry: those without one, and those that were
\* asked for although their source has unsaved changes.
Renewed(c, d) == {r \in d : \/ c.entries[r] = Absent
                            \/ DirtySource(c, r) /\ c.entries[r].attempted}

\* The new revisions are given out in the order of a hash set.
Numberings(c, d) ==
    Injection(Renewed(c, d), (c.revision + 1)..(c.revision + Cardinality(Renewed(c, d))))

PreparedEntry(c, d, number, r) ==
    LET e == IF r \in Renewed(c, d) THEN NewEntry(number[r]) ELSE c.entries[r]
    IN  IF r \in d /\ ~DirtySource(c, r) THEN [e EXCEPT !.attempted = TRUE] ELSE e

Prepare(c, s, d) ==
    LET kept == Retained(c, s, d)
    IN  IF s.hydrated
        THEN {[kept EXCEPT !.entries = [r \in Roots |-> PreparedEntry(kept, d, number, r)],
                           !.revision = @ + Cardinality(Renewed(kept, d))] :
                 number \in Numberings(kept, d)}
        ELSE {kept}

\* The requests prepare returns: entries it has just marked as attempted.
RequestsOf(before, after) ==
    {[root |-> r, revision |-> after.entries[r].revision,
      session_generation |-> after.session_generation] :
        r \in {r \in Roots : /\ after.entries[r] # Absent
                             /\ after.entries[r].attempted
                             /\ \/ before.entries[r] = Absent
                                \/ ~before.entries[r].attempted}}

-----------------------------------------------------------------------------
(* The editor and the file system *)

Send(note) ==
    /\ sent < MaxEvents
    /\ sent' = sent + 1
    /\ events' = Append(events, note)
    /\ UNCHANGED <<known, loopVars, jobs>>

\* A document is opened as it is on disk, or with recovered unsaved text.
Open(r) ==
    /\ r \notin open
    /\ open' = open \cup {r}
    /\ \E text \in {disk[r], Unknown} : Send([kind |-> "open", root |-> r, text |-> text])
    /\ UNCHANGED disk

Edit(r) ==
    /\ r \in open
    /\ \/ Send([kind |-> "change", root |-> r]) /\ UNCHANGED <<disk, open>>
       \/ Send([kind |-> "save", root |-> r]) /\ disk' = [disk EXCEPT ![r] = @ + 1] /\ UNCHANGED open
       \/ Send([kind |-> "close", root |-> r]) /\ open' = open \ {r} /\ UNCHANGED disk

\* Another program writes the source and the file watcher reports it.
WriteOutside(r) ==
    /\ disk' = [disk EXCEPT ![r] = @ + 1]
    /\ Send([kind |-> "write", root |-> r])
    /\ UNCHANGED open

SessionNote(kind) == Send([kind |-> kind]) /\ UNCHANGED <<disk, open>>

-----------------------------------------------------------------------------
(* The main loop *)

\* What the loop does after its handler: prepare, publish, spawn.
EndOfEvent(c, s, d) ==
    /\ session' = s /\ docs' = d
    /\ \E prepared \in Prepare(c, s, d) :
          /\ cache' = prepared
          /\ jobs' = jobs \cup {[request |-> q, stage |-> "pause", names |-> Unknown] :
                                   q \in RequestsOf(Retained(c, s, d), prepared)}

HandleEvent ==
    /\ events # <<>>
    /\ events' = Tail(events)
    /\ UNCHANGED <<editorVars, known>>
    /\ LET e == Head(events)
       IN  CASE e.kind = "session" ->
                  EndOfEvent(cache, [generation |-> session.generation + 1, hydrated |-> FALSE], docs)
             [] e.kind = "hydrated" ->
                  EndOfEvent(cache, [session EXCEPT !.hydrated = @ \/ session.generation > 0], docs)
             [] e.kind = "result" ->
                  EndOfEvent(Apply(cache, e.request, e.names), session, docs)
             [] OTHER ->
                  EndOfEvent(Observe(cache, e), session,
                             IF e.kind = "open" THEN docs \cup {e.root}
                             ELSE IF e.kind = "close" THEN docs \ {e.root} ELSE docs)

\* The indexer, on its own thread, finds out that the file feeds the pipeline.
Discover(r) ==
    /\ r \notin known
    /\ known' = known \cup {r}
    /\ UNCHANGED <<editorVars, events, loopVars, jobs>>

-----------------------------------------------------------------------------
(* The spawned tasks *)

SendResult(j, names) ==
    events' = Append(events, [kind |-> "result", request |-> j.request, names |-> names])

Move(j, after) ==
    /\ j \in jobs
    /\ jobs' = (jobs \ {j}) \cup after
    /\ UNCHANGED <<editorVars, known, loopVars>>

\* After the 250 ms pause the task gives up if the request is out of date.
Debounced(j) ==
    /\ j.stage = "pause"
    /\ Move(j, IF IsCurrent(cache, j.request) THEN {[j EXCEPT !.stage = "asked"]} ELSE {})
    /\ UNCHANGED events

\* R evaluates the script it finds on disk.
Evaluate(j) ==
    /\ j.stage = "asked"
    /\ Move(j, {[j EXCEPT !.stage = "evaluated", !.names = disk[j.request.root]]})
    /\ UNCHANGED events

\* The answer, some time later.  A query that fails, that is cancelled because
\* its request became stale, or that only yields the static fallback has no names.
Answer(j) ==
    /\ \/ j.stage = "evaluated" /\ SendResult(j, j.names)
       \/ j.stage \in {"asked", "evaluated"} /\ SendResult(j, Unknown)
    /\ Move(j, {})

-----------------------------------------------------------------------------
(* The specification *)

Next ==
    \/ \E r \in Roots : Open(r) \/ Edit(r) \/ WriteOutside(r) \/ Discover(r)
    \/ \E kind \in {"session", "hydrated"} : SessionNote(kind)
    \/ HandleEvent
    \/ \E j \in jobs : Debounced(j) \/ Evaluate(j) \/ Answer(j)

Spec == Init /\ [][Next]_vars

-----------------------------------------------------------------------------
(* Properties *)

TypeOK ==
    /\ disk \in [Roots -> Versions]
    /\ events \in Seq(Events)
    /\ sent \in 0..MaxEvents
    /\ open \subseteq Roots /\ known \subseteq Roots /\ docs \subseteq Roots
    /\ session \in [generation : Nat, hydrated : BOOLEAN]
    /\ cache \in Caches
    /\ jobs \subseteq Jobs

\* The report of a write to r's source is still in the main loop's channel.
WriteIsReported(r) ==
    \E i \in DOMAIN events : events[i].kind \in {"save", "write"} /\ events[i].root = r

\* SPEC.md: "saved/watched R-source changes ... invalidate that authority.
\* Results superseded by edits or session changes are discarded."  The names a
\* root has are those of the source on disk, unless the report of a later write
\* is still in the main loop's channel: no order of writes, reports, queries
\* and answers leaves an older set of names standing.
NamesAreOfTheDisk ==
    \A r \in Roots : cache.entries[r] # Absent /\ cache.entries[r].names # Unknown =>
        cache.entries[r].names = disk[r] \/ WriteIsReported(r)

\* What the end of an event leaves of the names of unsaved sources.
UnsavedHaveNoNames ==
    events # <<>> /\ events' = Tail(events) =>
        \A r \in cache'.dirty \cap known :
            cache'.entries[r] # Absent => cache'.entries[r].names = Unknown

\* SPEC.md: "Unsaved pipeline inputs ... invalidate that authority."  After any
\* event no root whose known source has unsaved changes has names, even if the
\* source became known only after it was edited.
UnsavedSourceHasNoNames == [][UnsavedHaveNoNames]_vars

Awaited(c, r) == c.entries[r] # Absent /\ c.entries[r].attempted /\ c.entries[r].names = Unknown
Answers(e, c, r) ==
    e.kind = "result" /\ e.request.root = r /\ e.request.revision = c.entries[r].revision
UnderWay(c, r) ==
    \/ \E j \in jobs : j.request.root = r /\ j.request.revision = c.entries[r].revision
    \/ \E i \in DOMAIN events : Answers(events[i], c, r)

\* An entry that waits for names nobody is fetching was like that before, or
\* is the one whose failed query is handled in this step.
StaysUnderWay(r) ==
    Awaited(cache', r) /\ ~UnderWay(cache, r)' =>
        \/ Awaited(cache, r) /\ ~UnderWay(cache, r) /\ cache'.entries[r] = cache.entries[r]
        \/ Answers(Head(events), cache, r) /\ Head(events).names = Unknown

\* An entry that is marked as attempted and has no names is being fetched, or
\* its query failed: a task that gives up after its pause, or a result that is
\* discarded, never leaves behind an entry nobody will ask for again.
AttemptIsUnderWay == [][\A r \in Roots : StaysUnderWay(r)]_vars

=============================================================================
