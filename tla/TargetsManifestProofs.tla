------------------------ MODULE TargetsManifestProofs ------------------------
(***************************************************************************)
(* Proofs about TargetsManifest, for every finite set of projects and any  *)
(* number of notifications: the names a project has are those of the       *)
(* source on disk, sources with unsaved changes have none, and an entry    *)
(* that waits for names is being fetched.                                  *)
(***************************************************************************)
EXTENDS TargetsManifest, FiniteSetTheorems, TLAPS

-----------------------------------------------------------------------------
(* The inductive invariant *)

\* The names n, told of root r, are none, those on disk, or about to be dropped.
Proved(n, r) == n = Unknown \/ n = disk[r] \/ WriteIsReported(r)

\* The entry a request was made for still stands.
Live(c, q) == c.entries[q.root] # Absent /\ c.entries[q.root].revision = q.revision

\* The cache is of the current session, is empty until that is hydrated, has no
\* entry for a root without documents, and has names only where it asked.
CacheInv ==
    /\ cache.session_generation = session.generation
    /\ \A r \in Roots : cache.entries[r] # Absent =>
          /\ r \in docs /\ session.hydrated
          /\ cache.entries[r].revision <= cache.revision
          /\ cache.entries[r].names # Unknown => cache.entries[r].attempted
          /\ Proved(cache.entries[r].names, r)

\* A request under way is older than any entry to come; while its entry stands,
\* that entry is marked, of the same session, and what R said of it holds.
Sound(q, names) ==
    /\ q.revision <= cache.revision
    /\ Live(cache, q) => /\ cache.entries[q.root].attempted
                         /\ q.session_generation = cache.session_generation
                         /\ Proved(names, q.root)

JobsInv == \A j \in jobs : Sound(j.request, j.names)
ResultsInv ==
    \A i \in DOMAIN events : events[i].kind = "result" => Sound(events[i].request, events[i].names)

IInv == TypeOK /\ CacheInv /\ JobsInv /\ ResultsInv

-----------------------------------------------------------------------------
(* Entries and events *)

Entry == [revision : Nat \ {0}, attempted : BOOLEAN, names : Nat]

LEMMA EntryFacts ==
    /\ \A e \in Entry : e \in Entries /\ e # Absent
    /\ \A e \in Entries : e # Absent => e \in Entry
    /\ \A n \in Nat \ {0} : /\ NewEntry(n) \in Entry
                             /\ NewEntry(n).revision = n
                             /\ ~NewEntry(n).attempted
                             /\ NewEntry(n).names = Unknown
<1>1. \A e \in Entry : e.revision # 0
  BY DEF Entry
<1>2. Absent.revision = 0
  BY DEF Absent
<1>3. \A n \in Nat \ {0} : /\ NewEntry(n) \in Entry
                             /\ NewEntry(n).revision = n
                             /\ ~NewEntry(n).attempted
                             /\ NewEntry(n).names = Unknown
  BY DEF Entry, NewEntry, Unknown
<1> QED BY <1>1, <1>2, <1>3 DEF Entry, Entries

\* What the main loop finds in an event, by its kind.
LEMMA EventFacts ==
    ASSUME NEW e \in Events
    PROVE  /\ e.kind \in {"open", "change", "save", "close", "write", "session", "hydrated", "result"}
           /\ e.kind \in {"open", "change", "save", "close", "write"} => e.root \in Roots
           /\ e.kind = "result" => e.request \in Requests /\ e.names \in Nat
  BY DEF Events

LEMMA TakeEvent ==
    ASSUME events \in Seq(Events), events # <<>>, events' = Tail(events)
    PROVE  /\ events' \in Seq(Events)
           /\ 1 \in DOMAIN events /\ Head(events) = events[1] /\ Head(events) \in Events
           /\ \A i \in DOMAIN events' : i + 1 \in DOMAIN events /\ events'[i] = events[i + 1]
           /\ \A i \in DOMAIN events : i # 1 => i - 1 \in DOMAIN events' /\ events'[i - 1] = events[i]
<1>1. Len(events) \in Nat /\ Len(events) > 0 /\ Len(events') = Len(events) - 1 /\ events' \in Seq(Events)
  OBVIOUS
<1>2. DOMAIN events = 1..Len(events) /\ DOMAIN events' = 1..Len(events')
  BY <1>1
<1>3. \A i \in 1..Len(events') : events'[i] = events[i + 1]
  BY <1>1
<1>4. Head(events) = events[1] /\ events[1] \in Events
  BY <1>1
<1>5. \A i \in DOMAIN events' : i + 1 \in DOMAIN events /\ events'[i] = events[i + 1]
  BY <1>1, <1>2, <1>3
<1>6. \A i \in DOMAIN events : i # 1 => i - 1 \in DOMAIN events' /\ events'[i - 1] = events[i]
  BY <1>1, <1>2, <1>3
<1> QED BY <1>1, <1>2, <1>4, <1>5, <1>6

LEMMA AddEvent ==
    ASSUME events \in Seq(Events), NEW e \in Events, events' = Append(events, e)
    PROVE  /\ events' \in Seq(Events)
           /\ \A i \in DOMAIN events : i \in DOMAIN events' /\ events'[i] = events[i]
           /\ \A i \in DOMAIN events' : \/ i \in DOMAIN events /\ events'[i] = events[i]
                                       \/ events'[i] = e
           /\ \E i \in DOMAIN events' : events'[i] = e
<1>1. events' \in Seq(Events) /\ Len(events') = Len(events) + 1 /\ Len(events) \in Nat
  OBVIOUS
<1>2. DOMAIN events = 1..Len(events) /\ DOMAIN events' = 1..Len(events')
  BY <1>1
<1>3. \A i \in 1..Len(events') : events'[i] = IF i <= Len(events) THEN events[i] ELSE e
  OBVIOUS
<1>4. Len(events) + 1 \in DOMAIN events' /\ events'[Len(events) + 1] = e
  BY <1>1, <1>2, <1>3
<1> QED BY <1>1, <1>2, <1>3, <1>4

-----------------------------------------------------------------------------
(* What prepare does to one root *)

\* A root is left without entry, keeps the one it has (marked as attempted if
\* its source is saved), or gets a fresh one that no request knows.
LEMMA PrepareFacts ==
    ASSUME NEW c \in Caches, NEW s \in [generation : Nat, hydrated : BOOLEAN],
           NEW d \in SUBSET Roots, NEW p \in Prepare(c, s, d)
    PROVE  /\ p \in Caches /\ p.dirty = c.dirty /\ p.session_generation = s.generation
           /\ p.revision >= c.revision
           /\ \A r \in Roots :
                 LET k == Retained(c, s, d).entries[r]
                     fresh == k = Absent \/ (DirtySource(c, r) /\ k.attempted)
                 IN  /\ k = IF c.session_generation = s.generation /\ r \in d
                            THEN c.entries[r] ELSE Absent
                     /\ ~s.hydrated => p.entries[r] = k
                     /\ r \notin d => p.entries[r] = Absent
                     /\ (s.hydrated /\ r \in d /\ fresh) =>
                           /\ p.entries[r] \in Entry
                           /\ p.entries[r].revision > c.revision
                           /\ p.entries[r].revision <= p.revision
                           /\ p.entries[r].names = Unknown
                           /\ p.entries[r].attempted => k = Absent
                     /\ (s.hydrated /\ r \in d /\ ~fresh) =>
                           /\ p.entries[r] \in Entry
                           /\ p.entries[r].revision = k.revision
                           /\ p.entries[r].names = k.names
                           /\ k.attempted => p.entries[r] = k
                           /\ DirtySource(c, r) => ~k.attempted
<1> DEFINE kept == Retained(c, s, d)
<1>0. /\ c.entries \in [Roots -> Entries] /\ c.revision \in Nat /\ c.dirty \in SUBSET Roots
  BY DEF Caches
<1>1. /\ kept \in Caches /\ kept.dirty = c.dirty /\ kept.session_generation = s.generation
      /\ kept.revision >= c.revision
      /\ \A r \in Roots : kept.entries[r] = IF c.session_generation = s.generation /\ r \in d
                                            THEN c.entries[r] ELSE Absent
  <2>1. s.generation \in Nat
    OBVIOUS
  <2>2. [r \in Roots |-> IF c.session_generation = s.generation /\ r \in d THEN c.entries[r] ELSE Absent]
          \in [Roots -> Entries]
    BY <1>0 DEF Entries
  <2> DEFINE es == [r \in Roots |-> IF c.session_generation = s.generation /\ r \in d
                                    THEN c.entries[r] ELSE Absent]
             v == IF c.session_generation = s.generation THEN c.revision ELSE c.revision + 1
  <2>3. v \in Nat /\ v >= c.revision
    BY <1>0
  <2>4. kept = [c EXCEPT !.entries = es, !.session_generation = s.generation, !.revision = v]
    BY DEF Retained
  <2>5. \A r \in Roots : es[r] = IF c.session_generation = s.generation /\ r \in d
                                   THEN c.entries[r] ELSE Absent
    OBVIOUS
  <2> HIDE DEF es, v, kept
  <2>6. es \in [Roots -> Entries]
    BY <2>2 DEF es
  <2> QED BY <2>1, <2>3, <2>4, <2>5, <2>6 DEF Caches
<1>2. \A r \in Roots : DirtySource(kept, r) <=> DirtySource(c, r)
  BY <1>1 DEF DirtySource
<1> HIDE DEF kept
<1>3. CASE ~s.hydrated
  <2>1. p = kept
    BY <1>3 DEF Prepare, kept
  <2> QED BY <2>1, <1>1, <1>0, <1>3 DEF kept
<1>4. CASE s.hydrated
  <2> DEFINE R == Renewed(kept, d)
             n == Cardinality(R)
  <2>1. n \in Nat
    BY ManifestAssumption, FS_Subset, FS_CardinalityType DEF Renewed
  <2>2. PICK number \in Numberings(kept, d) :
           p = [kept EXCEPT !.entries = [r \in Roots |-> PreparedEntry(kept, d, number, r)],
                            !.revision = kept.revision + n]
    BY <1>4 DEF Prepare, kept
  <2>k. kept.revision \in Nat /\ kept.entries \in [Roots -> Entries]
    BY <1>1 DEF Caches
  <2>3. \A r \in R : number[r] \in Nat \ {0} /\ number[r] > kept.revision /\ number[r] <= kept.revision + n
    <3>1. number \in [R -> (kept.revision + 1)..(kept.revision + n)]
      BY <2>2 DEF Numberings, Injection
    <3> HIDE DEF R, n
    <3> QED BY <3>1, <2>1, <2>k
  <2>4. \A r \in Roots : r \in R <=> r \in d /\ (kept.entries[r] = Absent \/ (DirtySource(c, r) /\ kept.entries[r].attempted))
    BY <1>2 DEF Renewed
  <2> HIDE DEF R, n
  <2>5. \A r \in Roots : r \in R => PreparedEntry(kept, d, number, r) =
            IF DirtySource(c, r) THEN NewEntry(number[r]) ELSE [NewEntry(number[r]) EXCEPT !.attempted = TRUE]
    BY <2>4, <1>2 DEF PreparedEntry, R
  <2>6. \A r \in Roots : r \notin R => PreparedEntry(kept, d, number, r) =
            IF r \in d /\ ~DirtySource(c, r) THEN [kept.entries[r] EXCEPT !.attempted = TRUE] ELSE kept.entries[r]
    BY <1>2 DEF PreparedEntry, R
  <2>7. ASSUME NEW r \in Roots, r \in R
        PROVE  LET e == PreparedEntry(kept, d, number, r)
               IN  /\ e \in Entry /\ e.revision = number[r] /\ e.names = Unknown
                   /\ DirtySource(c, r) => ~e.attempted
    <3>1. /\ NewEntry(number[r]) \in Entry /\ NewEntry(number[r]).revision = number[r]
          /\ NewEntry(number[r]).names = Unknown /\ ~NewEntry(number[r]).attempted
      BY <2>3, <2>7, EntryFacts
    <3>2. CASE DirtySource(c, r)
      BY <3>1, <3>2, <2>5, <2>7
    <3>3. CASE ~DirtySource(c, r)
      BY <3>1, <3>3, <2>5, <2>7 DEF Entry
    <3> QED BY <3>2, <3>3
  <2>8. ASSUME NEW r \in Roots, r \notin R, r \in d
        PROVE  LET e == PreparedEntry(kept, d, number, r)
                   k == kept.entries[r]
               IN  /\ e \in Entry /\ e.revision = k.revision /\ e.names = k.names
                   /\ k.attempted => e = k
                   /\ DirtySource(c, r) => ~k.attempted
    <3> DEFINE k == kept.entries[r]
    <3>1. k \in Entry /\ (DirtySource(c, r) => ~k.attempted)
      BY <2>8, <2>4, <2>k, EntryFacts
    <3> HIDE DEF k
    <3>2. [k EXCEPT !.attempted = TRUE] \in Entry
          /\ [k EXCEPT !.attempted = TRUE].revision = k.revision
          /\ [k EXCEPT !.attempted = TRUE].names = k.names
      BY <3>1 DEF Entry
    <3>3. k.attempted => [k EXCEPT !.attempted = TRUE] = k
      BY <3>1 DEF Entry
    <3> QED BY <2>8, <2>6, <3>1, <3>2, <3>3 DEF k
  <2>9. ASSUME NEW r \in Roots, r \notin d
        PROVE  PreparedEntry(kept, d, number, r) = Absent
    BY <2>9, <2>4, <2>6, <1>1
  <2>10. /\ p \in Caches /\ p.dirty = c.dirty /\ p.session_generation = s.generation
         /\ p.revision = kept.revision + n
         /\ \A r \in Roots : p.entries[r] = PreparedEntry(kept, d, number, r)
    <3>1. [r \in Roots |-> PreparedEntry(kept, d, number, r)] \in [Roots -> Entries]
      <4>1. \A r \in Roots : PreparedEntry(kept, d, number, r) \in Entry \cup {Absent}
        BY <2>7, <2>8, <2>9
      <4>2. Entry \cup {Absent} \subseteq Entries
        BY EntryFacts DEF Entries
      <4>3. \A r \in Roots : PreparedEntry(kept, d, number, r) \in Entries
        BY <4>1, <4>2
      <4> QED BY <4>3
    <3> DEFINE es == [r \in Roots |-> PreparedEntry(kept, d, number, r)]
    <3>2. p = [kept EXCEPT !.entries = es, !.revision = kept.revision + n]
      BY <2>2
    <3>3. \A r \in Roots : es[r] = PreparedEntry(kept, d, number, r)
      OBVIOUS
    <3> HIDE DEF es
    <3>4. es \in [Roots -> Entries]
      BY <3>1 DEF es
    <3>5. p.entries = es /\ p.revision = kept.revision + n /\ p.dirty = kept.dirty
          /\ p.session_generation = kept.session_generation /\ p \in Caches
      <4>1. kept \in Caches /\ kept.revision + n \in Nat
        BY <1>1, <2>1, <2>k
      <4> QED BY <3>2, <3>4, <4>1 DEF Caches
    <3> QED BY <3>3, <3>5, <1>1
  <2>11. p.revision >= c.revision
    BY <2>10, <2>1, <2>k, <1>1, <1>0
  <2>12. ASSUME NEW r \in Roots, r \in d, r \in R
         PROVE  /\ p.entries[r] \in Entry
                /\ p.entries[r].revision > c.revision
                /\ p.entries[r].revision <= p.revision
                /\ p.entries[r].names = Unknown
                /\ p.entries[r].attempted => kept.entries[r] = Absent
    <3>1. number[r] > c.revision /\ number[r] <= p.revision
      BY <2>12, <2>3, <2>10, <2>k, <2>1, <1>1, <1>0
    <3>2. p.entries[r].attempted => kept.entries[r] = Absent
      BY <2>12, <2>7, <2>10, <2>4
    <3> QED BY <3>1, <3>2, <2>12, <2>7, <2>10
  <2>13. ASSUME NEW r \in Roots, r \in d, r \notin R
         PROVE  /\ p.entries[r] \in Entry
                /\ p.entries[r].revision = kept.entries[r].revision
                /\ p.entries[r].names = kept.entries[r].names
                /\ kept.entries[r].attempted => p.entries[r] = kept.entries[r]
                /\ DirtySource(c, r) => ~kept.entries[r].attempted
    BY <2>13, <2>8, <2>10
  <2>14. \A r \in Roots : r \notin d => p.entries[r] = Absent
    BY <2>9, <2>10
  <2> QED BY <2>10, <2>11, <2>12, <2>13, <2>14, <2>4, <1>1, <1>4 DEF kept
<1> QED BY <1>3, <1>4

-----------------------------------------------------------------------------
(* What the handler of an event does to one root, before prepare *)

WriteTo(e, r) == e.kind \in {"save", "write"} /\ e.root = r

\* The handler drops the entry under a new revision, or leaves it but for the
\* names that the event may bring; the report of a write always drops it.
Handled(c, r) ==
    /\ c.entries[r] = Absent <=> cache.entries[r] = Absent
    /\ cache.entries[r] # Absent =>
          \/ /\ c.entries[r].revision > cache.revision /\ c.entries[r].revision <= c.revision
             /\ ~c.entries[r].attempted /\ c.entries[r].names = Unknown
          \/ /\ c.entries[r].revision = cache.entries[r].revision
             /\ c.entries[r].attempted <=> cache.entries[r].attempted
             /\ c.entries[r].names = IF Answers(Head(events), cache, r)
                                     THEN Head(events).names ELSE cache.entries[r].names
             /\ ~Answers(Head(events), cache, r) => c.entries[r] = cache.entries[r]
             /\ ~WriteTo(Head(events), r)

HandlerOK(c) ==
    /\ c \in Caches /\ c.session_generation = cache.session_generation
    /\ c.revision >= cache.revision
    /\ \A r \in Roots : Handled(c, r)

\* An event that is neither about a document nor a result leaves the cache.
LEMMA CacheKept ==
    ASSUME TypeOK, Head(events).kind \in {"session", "hydrated"}
    PROVE  HandlerOK(cache)
<1>1. cache \in Caches /\ cache.revision \in Nat
  BY DEF TypeOK, Caches
<1>2. ASSUME NEW r \in Roots PROVE Handled(cache, r)
  BY DEF Handled, Answers, WriteTo
<1> QED BY <1>1, <1>2 DEF HandlerOK

\* One entry of the cache is replaced.
Replaced(c, r, e, n) == [c EXCEPT !.entries[r] = e, !.revision = n]

LEMMA EntryReplaced ==
    ASSUME NEW c \in Caches, NEW r \in Roots, NEW e \in Entries, NEW n \in Nat
    PROVE  /\ Replaced(c, r, e, n) \in Caches /\ Replaced(c, r, e, n).revision = n
           /\ Replaced(c, r, e, n).session_generation = c.session_generation
           /\ Replaced(c, r, e, n).entries[r] = e
           /\ \A s \in Roots : s # r => Replaced(c, r, e, n).entries[s] = c.entries[s]
<1> DEFINE x == Replaced(c, r, e, n)
<1> DEFINE es == [c.entries EXCEPT ![r] = e]
<1>1. /\ es \in [Roots -> Entries] /\ es[r] = e
      /\ \A s \in Roots : s # r => es[s] = c.entries[s]
  BY DEF Caches
<1>2. x = [c EXCEPT !.entries = es, !.revision = n]
  BY DEF Replaced
<1> HIDE DEF es, x
<1>3. x \in Caches /\ x.revision = n /\ x.session_generation = c.session_generation /\ x.entries = es
  BY <1>1, <1>2 DEF Caches
<1> QED BY <1>1, <1>3 DEF x

\* invalidate_source, on a cache whose entries are still the old ones.
LEMMA InvalidateFacts ==
    ASSUME TypeOK, NEW c \in Caches, NEW r \in Roots, NEW disk_change \in BOOLEAN,
           c.entries = cache.entries, c.revision = cache.revision,
           c.session_generation = cache.session_generation,
           Head(events).kind # "result",
           WriteTo(Head(events), r) => disk_change,
           \A s \in Roots : s # r => ~WriteTo(Head(events), s)
    PROVE  HandlerOK(InvalidateSource(c, r, disk_change))
<1> DEFINE e == InvalidateSource(c, r, disk_change)
           n == cache.revision + 1
<1>0. /\ cache.entries \in [Roots -> Entries] /\ cache.revision \in Nat
  BY DEF TypeOK, Caches
<1>a. \A s \in Roots : ~Answers(Head(events), cache, s)
  BY DEF Answers
<1>1. CASE e = c /\ ~(cache.entries[r] # Absent /\ disk_change)
  <2>1. ASSUME NEW s \in Roots PROVE Handled(c, s)
    BY <1>1, <1>0, <1>a DEF Handled, WriteTo
  <2> QED BY <1>1, <2>1, <1>0 DEF HandlerOK
<1>2. CASE e = Invalidated(c, r) /\ cache.entries[r] # Absent
  <2>1. /\ NewEntry(n) \in Entry /\ NewEntry(n).revision = n /\ ~NewEntry(n).attempted
        /\ NewEntry(n).names = Unknown /\ NewEntry(n) \in Entries /\ NewEntry(n) # Absent
    BY <1>0, EntryFacts
  <2>2. e = Replaced(c, r, NewEntry(n), n)
    BY <1>2 DEF Invalidated, Replaced, Caches
  <2> HIDE DEF e
  <2>3. /\ e \in Caches /\ e.revision = n /\ e.session_generation = cache.session_generation
        /\ e.entries[r] = NewEntry(n)
        /\ \A s \in Roots : s # r => e.entries[s] = cache.entries[s]
    <3>1. n \in Nat
      BY <1>0
    <3> QED BY <2>1, <2>2, <3>1, EntryReplaced
  <2>4. ASSUME NEW s \in Roots, s # r PROVE Handled(e, s)
    BY <2>3, <2>4, <1>a DEF Handled
  <2>5. Handled(e, r)
    BY <2>3, <2>1, <1>2, <1>0 DEF Handled
  <2> QED BY <2>3, <2>4, <2>5, <1>0 DEF HandlerOK, e
<1> QED BY <1>1, <1>2 DEF InvalidateSource

\* TargetManifests::observe, for a notification about a document.
LEMMA ObserveFacts ==
    ASSUME TypeOK, events # <<>>,
           Head(events).kind \in {"open", "change", "save", "close", "write"}
    PROVE  HandlerOK(Observe(cache, Head(events)))
<1> DEFINE e == Head(events)
           r == e.root
           dirtied == [cache EXCEPT !.dirty = cache.dirty \cup {r}]
           cleaned == [cache EXCEPT !.dirty = cache.dirty \ {r}]
<1>0. e \in Events /\ r \in Roots
  <2>1. e \in Events
    BY DEF TypeOK
  <2> QED BY <2>1, EventFacts
<1>1. /\ dirtied \in Caches /\ dirtied.entries = cache.entries /\ dirtied.revision = cache.revision
      /\ dirtied.session_generation = cache.session_generation
  BY <1>0 DEF TypeOK, Caches
<1>2. /\ cleaned \in Caches /\ cleaned.entries = cache.entries /\ cleaned.revision = cache.revision
      /\ cleaned.session_generation = cache.session_generation
  BY <1>0 DEF TypeOK, Caches
<1>3. cache \in Caches
  BY DEF TypeOK
<1>4. \A s \in Roots : s # r => ~WriteTo(e, s)
  BY DEF WriteTo
<1> HIDE DEF dirtied, cleaned
<1>5. CASE e.kind \in {"change", "open"}
  <2>1. HandlerOK(InvalidateSource(dirtied, r, FALSE))
    BY <1>0, <1>1, <1>4, <1>5, InvalidateFacts DEF WriteTo
  <2>2. Observe(cache, e) \in {InvalidateSource(dirtied, r, FALSE), cache}
    BY <1>5 DEF Observe, dirtied
  <2>3. HandlerOK(cache)
    <3>1. ASSUME NEW s \in Roots PROVE Handled(cache, s)
      BY <1>5 DEF Handled, Answers, WriteTo
    <3> QED BY <3>1, <1>3 DEF HandlerOK, Caches
  <2> QED BY <2>1, <2>2, <2>3
<1>6. CASE e.kind = "save"
  <2>1. HandlerOK(InvalidateSource(cleaned, r, TRUE))
    BY <1>0, <1>2, <1>4, <1>6, InvalidateFacts
  <2>2. Observe(cache, e) = InvalidateSource(cleaned, r, TRUE)
    BY <1>6 DEF Observe, cleaned
  <2> QED BY <2>1, <2>2
<1>7. CASE e.kind = "close"
  <2>1. HandlerOK(InvalidateSource(cleaned, r, FALSE))
    BY <1>0, <1>2, <1>4, <1>7, InvalidateFacts DEF WriteTo
  <2>2. Observe(cache, e) \in {InvalidateSource(cleaned, r, FALSE), cache}
    BY <1>7 DEF Observe, cleaned
  <2>3. HandlerOK(cache)
    <3>1. ASSUME NEW s \in Roots PROVE Handled(cache, s)
      BY <1>7 DEF Handled, Answers, WriteTo
    <3> QED BY <3>1, <1>3 DEF HandlerOK, Caches
  <2> QED BY <2>1, <2>2, <2>3
<1>8. CASE e.kind = "write"
  <2>1. HandlerOK(InvalidateSource(cache, r, TRUE))
    BY <1>0, <1>3, <1>4, <1>8, InvalidateFacts
  <2>2. Observe(cache, e) = InvalidateSource(cache, r, TRUE)
    BY <1>8 DEF Observe
  <2> QED BY <2>1, <2>2
<1> QED BY <1>5, <1>6, <1>7, <1>8

\* TargetManifests::apply.  A result whose entry stands is of the same session,
\* so that it is never discarded by is_current alone.
LEMMA ApplyFacts ==
    ASSUME IInv, events # <<>>, Head(events).kind = "result"
    PROVE  HandlerOK(Apply(cache, Head(events).request, Head(events).names))
<1> DEFINE q == Head(events).request
           names == Head(events).names
           c == Apply(cache, q, names)
           r == q.root
<1>0. /\ cache \in Caches /\ cache.entries \in [Roots -> Entries] /\ cache.revision \in Nat
      /\ q \in Requests /\ names \in Nat /\ r \in Roots
  <2>1. Head(events) \in Events
    BY DEF IInv, TypeOK
  <2> QED BY <2>1, EventFacts DEF IInv, TypeOK, Caches, Requests
<1>1. Live(cache, q) => q.session_generation = cache.session_generation
  <2>1. 1 \in DOMAIN events /\ Head(events) = events[1]
    BY DEF IInv, TypeOK
  <2> QED BY <2>1 DEF IInv, ResultsInv, Sound
<1>w. \A s \in Roots : ~WriteTo(Head(events), s)
  BY DEF WriteTo
<1>2. CASE ~IsCurrent(cache, q)
  <2>1. c = cache
    BY <1>2 DEF Apply
  <2>2. \A s \in Roots : cache.entries[s] # Absent => ~Answers(Head(events), cache, s)
    BY <1>2, <1>1 DEF Answers, IsCurrent, Live
  <2>3. ASSUME NEW s \in Roots PROVE Handled(cache, s)
    BY <2>2, <1>w DEF Handled
  <2> QED BY <2>1, <2>3, <1>0 DEF HandlerOK
<1>3. CASE IsCurrent(cache, q)
  <2> DEFINE old == cache.entries[r]
             e == [old EXCEPT !.names = names]
  <2>1. old \in Entry /\ old # Absent
    BY <1>0, <1>3, EntryFacts DEF IsCurrent
  <2>2. /\ e \in Entry /\ e.revision = old.revision /\ e.names = names
        /\ e.attempted <=> old.attempted
    <3> HIDE DEF old
    <3> QED BY <2>1, <1>0 DEF Entry
  <2>3. e \in Entries /\ e # Absent
    BY <2>2, EntryFacts
  <2>4. c = Replaced(cache, r, e, cache.revision + 1)
    BY <1>3, <1>0 DEF Apply, Replaced, Caches
  <2> HIDE DEF c, e
  <2>5. /\ c \in Caches /\ c.revision = cache.revision + 1
        /\ c.session_generation = cache.session_generation
        /\ c.entries[r] = e
        /\ \A s \in Roots : s # r => c.entries[s] = cache.entries[s]
    <3> HIDE DEF q, r, names
    <3>1. cache.revision + 1 \in Nat
      BY <1>0
    <3> DEFINE n == cache.revision + 1
    <3>2. cache \in Caches /\ r \in Roots /\ e \in Entries /\ n \in Nat /\ c = Replaced(cache, r, e, n)
      BY <2>3, <2>4, <1>0, <3>1
    <3>3. n = cache.revision + 1
      OBVIOUS
    <3> HIDE DEF n
    <3> QED BY <3>2, <3>3, EntryReplaced
  <2>6. Answers(Head(events), cache, r) /\ \A s \in Roots : s # r => ~Answers(Head(events), cache, s)
    BY <1>3 DEF Answers, IsCurrent
  <2>7. ASSUME NEW s \in Roots, s # r PROVE Handled(c, s)
    BY <2>5, <2>6, <2>7, <1>w DEF Handled
  <2>8. Handled(c, r)
    <3>1. ~WriteTo(Head(events), r)
      BY <1>0, <1>w
    <3> HIDE DEF q, r, names
    <3>2. c.entries[r].names = Head(events).names
      BY <2>2, <2>5 DEF names
    <3>3. c.entries[r].revision = cache.entries[r].revision /\ c.entries[r] # Absent /\ cache.entries[r] # Absent
      BY <2>1, <2>2, <2>3, <2>5
    <3>4. c.entries[r].attempted <=> cache.entries[r].attempted
      BY <2>2, <2>5, Zenon
    <3> QED BY <3>1, <3>2, <3>3, <3>4, <2>6 DEF Handled
  <2> QED BY <2>5, <2>7, <2>8, <1>0 DEF HandlerOK, c
<1> QED BY <1>2, <1>3

-----------------------------------------------------------------------------
(* What a whole event, handler and prepare, does to one root *)

Requested(r) ==
    \E j \in jobs' : j.request.root = r /\ j.request.revision = cache'.entries[r].revision

Gone(r) == cache'.entries[r] = Absent

Fresh(r) ==
    /\ cache'.entries[r] # Absent
    /\ cache'.entries[r].revision > cache.revision
    /\ cache'.entries[r].names = Unknown
    /\ cache'.entries[r].attempted => Requested(r)

Stays(r) ==
    /\ cache.entries[r] # Absent /\ cache'.entries[r] # Absent
    /\ cache'.session_generation = cache.session_generation
    /\ cache'.entries[r].revision = cache.entries[r].revision
    /\ cache.entries[r].attempted => cache'.entries[r].attempted
    /\ cache'.entries[r].attempted => cache.entries[r].attempted \/ Requested(r)
    /\ cache'.entries[r].names = IF Answers(Head(events), cache, r)
                                 THEN Head(events).names ELSE cache.entries[r].names
    /\ (cache.entries[r].attempted /\ ~Answers(Head(events), cache, r)) =>
          cache'.entries[r] = cache.entries[r]
    /\ ~WriteTo(Head(events), r)

\* The entries that stand after an event, and the tasks it has spawned.
Outcome ==
    /\ cache' \in Caches /\ cache'.revision >= cache.revision
    /\ cache'.session_generation = session'.generation
    /\ \A r \in Roots : Gone(r) \/ Fresh(r) \/ Stays(r)
    /\ \A r \in Roots : cache'.entries[r] # Absent =>
          /\ r \in docs' /\ session'.hydrated
          /\ cache'.entries[r].revision <= cache'.revision
          /\ DirtySource(cache', r) => cache'.entries[r].names = Unknown
    /\ jobs \subseteq jobs' /\ jobs' \subseteq Jobs
    /\ \A j \in jobs' : j \notin jobs =>
          /\ j.names = Unknown
          /\ cache'.entries[j.request.root].attempted
          /\ j.request.revision = cache'.entries[j.request.root].revision
          /\ cache'.entries[j.request.root] # Absent
          /\ j.request.session_generation = cache'.session_generation

\* A new session starts without hydration; hydration ends with its session.
SessionOK(s) ==
    /\ s \in [generation : Nat, hydrated : BOOLEAN]
    /\ IF s.generation = session.generation THEN session.hydrated => s.hydrated ELSE ~s.hydrated

\* The entries with names are those prepare would not ask for again.
LEMMA NamedAreAttempted ==
    ASSUME IInv, events # <<>>, NEW c, HandlerOK(c), NEW r \in Roots, c.entries[r] # Absent
    PROVE  c.entries[r].names # Unknown => c.entries[r].attempted
<1>0. 1 \in DOMAIN events /\ Head(events) = events[1]
  BY DEF IInv, TypeOK
<1>1. cache.entries[r] # Absent /\ Handled(c, r)
  BY DEF HandlerOK, Handled
<1>2. CASE Answers(Head(events), cache, r)
  <2>1. cache.entries[r].attempted
    BY <1>0, <1>1, <1>2 DEF Answers, IInv, ResultsInv, Sound, Live
  <2> QED BY <1>1, <2>1 DEF Handled
<1>3. CASE ~Answers(Head(events), cache, r)
  <2>1. cache.entries[r].names # Unknown => cache.entries[r].attempted
    BY <1>1 DEF IInv, CacheInv
  <2> QED BY <1>1, <1>3, <2>1 DEF Handled
<1> QED BY <1>2, <1>3

LEMMA EndOfEventOutcome ==
    ASSUME IInv, events # <<>>, NEW c, HandlerOK(c), NEW s, SessionOK(s),
           NEW d \in SUBSET Roots, EndOfEvent(c, s, d)
    PROVE  Outcome
<1> DEFINE kept == Retained(c, s, d)
           New == {[request |-> q, stage |-> "pause", names |-> Unknown] : q \in RequestsOf(kept, cache')}
           K(r) == kept.entries[r]
<1>c. /\ c \in Caches /\ c.session_generation = cache.session_generation
      /\ c.revision >= cache.revision /\ \A r \in Roots : Handled(c, r)
  BY DEF HandlerOK
<1>n. c.revision \in Nat /\ cache.revision \in Nat
  BY <1>c DEF IInv, TypeOK, Caches
<1>s. s \in [generation : Nat, hydrated : BOOLEAN]
  BY DEF SessionOK
<1>1. session' = s /\ docs' = d /\ cache' \in Prepare(c, s, d) /\ jobs' = jobs \cup New
  BY DEF EndOfEvent
<1> HIDE DEF New
<1>2. /\ cache' \in Caches /\ cache'.dirty = c.dirty /\ cache'.session_generation = s.generation
      /\ cache'.revision >= c.revision
      /\ \A r \in Roots :
            /\ K(r) = IF c.session_generation = s.generation /\ r \in d THEN c.entries[r] ELSE Absent
            /\ ~s.hydrated => cache'.entries[r] = K(r)
            /\ r \notin d => cache'.entries[r] = Absent
            /\ (s.hydrated /\ r \in d /\ (K(r) = Absent \/ (DirtySource(c, r) /\ K(r).attempted))) =>
                  /\ cache'.entries[r] \in Entry
                  /\ cache'.entries[r].revision > c.revision
                  /\ cache'.entries[r].revision <= cache'.revision
                  /\ cache'.entries[r].names = Unknown
                  /\ cache'.entries[r].attempted => K(r) = Absent
            /\ (s.hydrated /\ r \in d /\ ~(K(r) = Absent \/ (DirtySource(c, r) /\ K(r).attempted))) =>
                  /\ cache'.entries[r] \in Entry
                  /\ cache'.entries[r].revision = K(r).revision
                  /\ cache'.entries[r].names = K(r).names
                  /\ K(r).attempted => cache'.entries[r] = K(r)
                  /\ DirtySource(c, r) => ~K(r).attempted
  <2> HIDE DEF K, kept
  <2>1. kept = Retained(c, s, d) /\ \A r : K(r) = kept.entries[r]
    BY DEF K, kept
  <2> QED BY <1>1, <1>c, <1>s, <2>1, PrepareFacts
<1>3. ASSUME NEW r \in Roots, cache'.entries[r] # Absent
      PROVE  r \in d /\ s.hydrated
  <2>1. r \in d
    BY <1>2, <1>3
  <2>2. s.hydrated
    <3> SUFFICES ASSUME ~s.hydrated PROVE FALSE
      OBVIOUS
    <3>1. K(r) # Absent
      BY <1>2, <1>3
    <3>2. c.session_generation = s.generation /\ c.entries[r] # Absent
      BY <1>2, <3>1
    <3>3. cache.entries[r] # Absent
      BY <3>2, <1>c DEF Handled
    <3>4. session.hydrated /\ session.generation = cache.session_generation
      BY <3>3 DEF IInv, CacheInv
    <3> QED BY <3>2, <3>4, <1>c DEF SessionOK
  <2> QED BY <2>1, <2>2
<1>4. ASSUME NEW r \in Roots, cache'.entries[r] # Absent, cache'.entries[r].attempted,
             K(r) = Absent \/ ~K(r).attempted
      PROVE  Requested(r)
  <2> DEFINE q == [root |-> r, revision |-> cache'.entries[r].revision,
                   session_generation |-> cache'.session_generation]
             j == [request |-> q, stage |-> "pause", names |-> Unknown]
  <2>1. q \in RequestsOf(kept, cache')
    BY <1>4 DEF RequestsOf
  <2>2. j \in jobs'
    BY <2>1, <1>1 DEF New
  <2>3. j.request.root = r /\ j.request.revision = cache'.entries[r].revision
    OBVIOUS
  <2> HIDE DEF j
  <2> QED BY <2>2, <2>3 DEF Requested
<1>5. ASSUME NEW r \in Roots, cache'.entries[r] # Absent,
             K(r) = Absent \/ (DirtySource(c, r) /\ K(r).attempted)
      PROVE  /\ Fresh(r) /\ cache'.entries[r].revision <= cache'.revision
             /\ cache'.entries[r].names = Unknown
  <2>1. r \in d /\ s.hydrated
    BY <1>3, <1>5
  <2>2. /\ cache'.entries[r].revision \in Nat
        /\ cache'.entries[r].revision > c.revision
        /\ cache'.entries[r].revision <= cache'.revision
        /\ cache'.entries[r].names = Unknown
        /\ cache'.entries[r].attempted => K(r) = Absent
    <3> HIDE DEF K
    <3> QED BY <2>1, <1>2, <1>5 DEF Entry
  <2>3. cache'.entries[r].attempted => Requested(r)
    BY <2>2, <1>4, <1>5
  <2>4. cache'.entries[r].revision > cache.revision
    BY <2>2, <1>c, <1>n
  <2> QED BY <2>2, <2>3, <2>4, <1>5 DEF Fresh
<1>6. ASSUME NEW r \in Roots, cache'.entries[r] # Absent,
             ~(K(r) = Absent \/ (DirtySource(c, r) /\ K(r).attempted))
      PROVE  /\ Fresh(r) \/ Stays(r)
             /\ cache'.entries[r].revision <= cache'.revision
             /\ DirtySource(c, r) => cache'.entries[r].names = Unknown
  <2>1. r \in d /\ s.hydrated
    BY <1>3, <1>6
  <2>2. /\ cache'.entries[r] \in Entry
        /\ cache'.entries[r].revision = K(r).revision
        /\ cache'.entries[r].names = K(r).names
        /\ K(r).attempted => cache'.entries[r] = K(r)
        /\ DirtySource(c, r) => ~K(r).attempted
    <3> HIDE DEF K
    <3> QED BY <2>1, <1>2, <1>6
  <2>3. K(r) = c.entries[r] /\ c.session_generation = s.generation /\ c.entries[r] # Absent
    <3> HIDE DEF K
    <3> QED BY <1>2, <1>6
  <2>4. cache.entries[r] # Absent /\ Handled(c, r)
    BY <2>3, <1>c DEF Handled
  <2>5. DirtySource(c, r) => cache'.entries[r].names = Unknown
    BY <2>2, <2>3, NamedAreAttempted
  <2>6. cache'.session_generation = cache.session_generation
    BY <1>2, <1>c, <2>3
  <2>7. cache'.entries[r].attempted => c.entries[r].attempted \/ Requested(r)
    BY <2>3, <1>4, <1>6
  <2>8. cache.entries[r].revision <= cache.revision
    BY <2>4 DEF IInv, CacheInv
  <2>9. c.revision <= cache'.revision /\ cache'.revision \in Nat /\ cache'.entries[r].revision \in Nat
    BY <1>2, <1>n, <2>2 DEF Caches, Entry
  <2>e. /\ cache'.entries[r].revision = c.entries[r].revision
        /\ cache'.entries[r].names = c.entries[r].names
        /\ c.entries[r].attempted => cache'.entries[r] = c.entries[r]
    BY <2>2, <2>3
  <2> HIDE DEF K, kept
  <2>10. CASE /\ c.entries[r].revision > cache.revision /\ c.entries[r].revision <= c.revision
              /\ ~c.entries[r].attempted /\ c.entries[r].names = Unknown
    <3>1. cache'.entries[r].revision <= cache'.revision
      BY <2>10, <2>e, <2>9, <1>n
    <3>2. Fresh(r)
      BY <2>10, <2>e, <2>7, <1>6 DEF Fresh
    <3> QED BY <3>1, <3>2, <2>5
  <2>11. CASE /\ c.entries[r].revision = cache.entries[r].revision
              /\ c.entries[r].attempted <=> cache.entries[r].attempted
              /\ c.entries[r].names = IF Answers(Head(events), cache, r)
                                      THEN Head(events).names ELSE cache.entries[r].names
              /\ ~Answers(Head(events), cache, r) => c.entries[r] = cache.entries[r]
              /\ ~WriteTo(Head(events), r)
    <3>1. cache'.entries[r].revision <= cache'.revision
      BY <2>11, <2>e, <2>8, <2>9, <1>n, <1>c
    <3>2. Stays(r)
      BY <2>11, <2>e, <2>4, <2>6, <2>7, <1>6 DEF Stays
    <3> QED BY <3>1, <3>2, <2>5
  <2> QED BY <2>10, <2>11, <2>4 DEF Handled
<1>7. jobs \subseteq jobs' /\ \A j \in jobs' : j \notin jobs => j \in New
  BY <1>1
<1>8. ASSUME NEW j \in New
      PROVE  /\ j \in Jobs /\ j.names = Unknown
             /\ cache'.entries[j.request.root].attempted
             /\ j.request.revision = cache'.entries[j.request.root].revision
             /\ cache'.entries[j.request.root] # Absent
             /\ j.request.session_generation = cache'.session_generation
  <2>1. PICK q \in RequestsOf(kept, cache') : j = [request |-> q, stage |-> "pause", names |-> Unknown]
    BY <1>8 DEF New
  <2>2. PICK r \in Roots : /\ cache'.entries[r] # Absent /\ cache'.entries[r].attempted
                           /\ q = [root |-> r, revision |-> cache'.entries[r].revision,
                                   session_generation |-> cache'.session_generation]
    BY <2>1 DEF RequestsOf
  <2>3. cache'.entries[r] \in Entry /\ cache'.session_generation \in Nat
    BY <2>2, <1>2, EntryFacts DEF Caches
  <2>4. q \in Requests
    BY <2>2, <2>3 DEF Requests, Entry
  <2>5. j \in Jobs
    BY <2>1, <2>4 DEF Jobs, Unknown
  <2> QED BY <2>1, <2>2, <2>5
<1>9. jobs' \subseteq Jobs
  <2>1. jobs \subseteq Jobs
    BY DEF IInv, TypeOK
  <2> QED BY <2>1, <1>7, <1>8
<1>10. cache'.revision >= cache.revision
  <2>1. cache'.revision \in Nat
    BY <1>2 DEF Caches
  <2> QED BY <2>1, <1>2, <1>c, <1>n
<1>11. \A r \in Roots : DirtySource(cache', r) <=> DirtySource(c, r)
  BY <1>2 DEF DirtySource
<1>12. \A r \in Roots : Gone(r) \/ Fresh(r) \/ Stays(r)
  BY <1>5, <1>6 DEF Gone
<1>13. \A r \in Roots : cache'.entries[r] # Absent =>
          /\ r \in docs' /\ session'.hydrated
          /\ cache'.entries[r].revision <= cache'.revision
          /\ DirtySource(cache', r) => cache'.entries[r].names = Unknown
  BY <1>1, <1>3, <1>5, <1>6, <1>11
<1> QED BY <1>1, <1>2, <1>7, <1>8, <1>9, <1>10, <1>12, <1>13 DEF Outcome

\* Every event the loop handles has such an outcome.
LEMMA HandleEventOutcome ==
    ASSUME IInv, HandleEvent
    PROVE  /\ Outcome /\ events # <<>> /\ events' = Tail(events)
           /\ UNCHANGED <<disk, sent, open, known>>
           /\ docs' \in SUBSET Roots /\ session' \in [generation : Nat, hydrated : BOOLEAN]
<1> DEFINE e == Head(events)
<1>0. events # <<>> /\ events' = Tail(events) /\ UNCHANGED <<disk, sent, open, known>>
  BY DEF HandleEvent, editorVars
<1>1. e \in Events /\ docs \in SUBSET Roots /\ session \in [generation : Nat, hydrated : BOOLEAN]
  BY <1>0 DEF IInv, TypeOK
<1>2. SessionOK(session)
  BY <1>1 DEF SessionOK
<1> SUFFICES ASSUME TRUE
             PROVE  \E c, s : \E d \in SUBSET Roots : HandlerOK(c) /\ SessionOK(s) /\ EndOfEvent(c, s, d)
  <2>1. PICK c, s : \E d \in SUBSET Roots : HandlerOK(c) /\ SessionOK(s) /\ EndOfEvent(c, s, d)
    OBVIOUS
  <2>2. PICK d \in SUBSET Roots : HandlerOK(c) /\ SessionOK(s) /\ EndOfEvent(c, s, d)
    BY <2>1
  <2>3. Outcome
    BY <2>2, <1>0, EndOfEventOutcome
  <2>4. docs' = d /\ session' = s
    BY <2>2 DEF EndOfEvent
  <2> QED BY <2>2, <2>3, <2>4, <1>0 DEF SessionOK
<1>3. CASE e.kind = "session"
  <2> DEFINE s == [generation |-> session.generation + 1, hydrated |-> FALSE]
  <2>1. HandlerOK(cache)
    BY <1>3, CacheKept DEF IInv
  <2>2. SessionOK(s)
    BY <1>1 DEF SessionOK
  <2>3. EndOfEvent(cache, s, docs)
    BY <1>3 DEF HandleEvent
  <2> HIDE DEF s
  <2> QED BY <2>1, <2>2, <2>3, <1>1
<1>4. CASE e.kind = "hydrated"
  <2> DEFINE s == [session EXCEPT !.hydrated = session.hydrated \/ session.generation > 0]
  <2>1. HandlerOK(cache)
    BY <1>4, CacheKept DEF IInv
  <2>2. SessionOK(s)
    <3>1. s.generation = session.generation /\ s.generation \in Nat
      BY <1>1
    <3>2. s.hydrated \in BOOLEAN /\ (session.hydrated => s.hydrated)
      BY <1>1
    <3>3. s = [generation |-> s.generation, hydrated |-> s.hydrated]
      BY <1>1
    <3>4. s \in [generation : Nat, hydrated : BOOLEAN]
      <4> HIDE DEF s
      <4> QED BY <3>1, <3>2, <3>3
    <3> QED BY <3>1, <3>2, <3>4 DEF SessionOK
  <2>3. EndOfEvent(cache, s, docs)
    BY <1>4 DEF HandleEvent
  <2> HIDE DEF s
  <2> QED BY <2>1, <2>2, <2>3, <1>1
<1>5. CASE e.kind = "result"
  <2>1. HandlerOK(Apply(cache, e.request, e.names))
    BY <1>0, <1>5, ApplyFacts
  <2>2. EndOfEvent(Apply(cache, e.request, e.names), session, docs)
    BY <1>5 DEF HandleEvent
  <2> QED BY <2>1, <2>2, <1>1, <1>2
<1>6. CASE e.kind \in {"open", "change", "save", "close", "write"}
  <2> DEFINE d == IF e.kind = "open" THEN docs \cup {e.root}
                  ELSE IF e.kind = "close" THEN docs \ {e.root} ELSE docs
  <2>1. HandlerOK(Observe(cache, e))
    BY <1>0, <1>6, ObserveFacts DEF IInv
  <2>2. EndOfEvent(Observe(cache, e), session, d)
    BY <1>6 DEF HandleEvent
  <2>3. d \in SUBSET Roots
    BY <1>1, <1>6, EventFacts
  <2> HIDE DEF d
  <2> QED BY <2>1, <2>2, <2>3, <1>2
<1> QED BY <1>3, <1>4, <1>5, <1>6, <1>1, EventFacts

-----------------------------------------------------------------------------
(* The invariant is kept *)

\* What was said of a root still holds after an event that is no write to it.
LEMMA ProvedKept ==
    ASSUME IInv, events # <<>>, events' = Tail(events), UNCHANGED disk,
           NEW n, NEW r \in Roots, Proved(n, r), ~WriteTo(Head(events), r)
    PROVE  Proved(n, r)'
<1>1. /\ Head(events) = events[1]
      /\ \A i \in DOMAIN events : i # 1 => i - 1 \in DOMAIN events' /\ events'[i - 1] = events[i]
  BY TakeEvent DEF IInv, TypeOK
<1>2. WriteIsReported(r) => WriteIsReported(r)'
  BY <1>1 DEF WriteIsReported, WriteTo
<1> QED BY <1>2 DEF Proved

\* A request under way is outlived by its entry or stays sound.
LEMMA SoundKept ==
    ASSUME IInv, Outcome, events # <<>>, events' = Tail(events), UNCHANGED disk,
           NEW q \in Requests, NEW names, Sound(q, names)
    PROVE  Sound(q, names)'
<1> DEFINE r == q.root
<1>0. /\ r \in Roots /\ q.revision \in Nat /\ cache.revision \in Nat /\ cache'.revision \in Nat
      /\ cache'.revision >= cache.revision
  BY DEF Requests, IInv, TypeOK, Caches, Outcome
<1>1. q.revision <= cache'.revision
  BY <1>0 DEF Sound
<1>2. ASSUME Live(cache', q)
      PROVE  /\ cache'.entries[r].attempted
             /\ q.session_generation = cache'.session_generation
             /\ Proved(names, r)'
  <2>1. cache'.entries[r] # Absent /\ cache'.entries[r].revision = q.revision
    BY <1>2 DEF Live
  <2>2. ~Fresh(r) /\ ~Gone(r)
    BY <2>1, <1>0 DEF Fresh, Gone, Sound
  <2>3. Stays(r)
    BY <2>2, <1>0 DEF Outcome
  <2>4. Live(cache, q)
    BY <2>1, <2>3 DEF Stays, Live
  <2>5. /\ cache.entries[r].attempted /\ q.session_generation = cache.session_generation
        /\ Proved(names, r)
    BY <2>4 DEF Sound
  <2> QED BY <2>3, <2>5, <1>0, ProvedKept DEF Stays
<1> QED BY <1>1, <1>2 DEF Sound, Live

LEMMA HandleEventStep ==
    ASSUME IInv, HandleEvent
    PROVE  IInv'
<1>0. /\ Outcome /\ events # <<>> /\ events' = Tail(events)
      /\ UNCHANGED <<disk, sent, open, known>>
      /\ docs' \in SUBSET Roots /\ session' \in [generation : Nat, hydrated : BOOLEAN]
  BY HandleEventOutcome
<1>t. /\ events' \in Seq(Events)
      /\ 1 \in DOMAIN events /\ Head(events) = events[1] /\ Head(events) \in Events
      /\ \A i \in DOMAIN events' : i + 1 \in DOMAIN events /\ events'[i] = events[i + 1]
  BY <1>0, TakeEvent DEF IInv, TypeOK
<1>1. TypeOK'
  BY <1>0, <1>t DEF IInv, TypeOK, Outcome
<1>2. CacheInv'
  <2>1. cache'.session_generation = session'.generation
    BY <1>0 DEF Outcome
  <2>2. ASSUME NEW r \in Roots, cache'.entries[r] # Absent
        PROVE  /\ cache'.entries[r].names # Unknown => cache'.entries[r].attempted
               /\ Proved(cache.entries[r].names, r)'
    <3>1. CASE Fresh(r)
      BY <3>1 DEF Fresh, Proved
    <3>2. CASE Stays(r) /\ ~Answers(Head(events), cache, r)
      <4>1. cache'.entries[r].names = cache.entries[r].names /\ cache.entries[r] # Absent
        BY <3>2 DEF Stays
      <4>2. /\ cache.entries[r].names # Unknown => cache.entries[r].attempted
            /\ Proved(cache.entries[r].names, r)
        BY <4>1 DEF IInv, CacheInv
      <4>3. PICK m : m = cache.entries[r].names
        OBVIOUS
      <4>4. Proved(m, r)'
        BY <4>2, <4>3, <3>2, <1>0, ProvedKept DEF Stays
      <4>5. cache'.entries[r].names = m
        BY <4>1, <4>3
      <4> QED BY <4>1, <4>2, <4>4, <4>5, <3>2 DEF Stays, Proved
    <3>3. CASE Stays(r) /\ Answers(Head(events), cache, r)
      <4>1. cache'.entries[r].names = Head(events).names /\ cache.entries[r] # Absent
        BY <3>3 DEF Stays
      <4>2. cache.entries[r].attempted /\ Proved(Head(events).names, r)
        BY <4>1, <3>3, <1>t DEF Answers, IInv, ResultsInv, Sound, Live
      <4>3. ~WriteTo(Head(events), r)
        BY <3>3 DEF Stays
      <4> DEFINE n == Head(events).names
      <4>4. PICK m : m = n
        OBVIOUS
      <4>5. Proved(m, r)'
        BY <4>2, <4>3, <4>4, <1>0, ProvedKept
      <4>6. cache'.entries[r].names = m
        BY <4>1, <4>4
      <4> QED BY <4>2, <4>5, <4>6, <3>3 DEF Stays, Proved
    <3> QED BY <2>2, <3>1, <3>2, <3>3, <1>0 DEF Outcome, Gone
  <2> QED BY <2>1, <2>2, <1>0 DEF CacheInv, Outcome
<1>3. JobsInv'
  <2>1. ASSUME NEW j \in jobs' PROVE Sound(j.request, j.names)'
    <3>1. CASE j \in jobs
      <4>1. j.request \in Requests /\ Sound(j.request, j.names)
        BY <3>1 DEF IInv, TypeOK, Jobs, JobsInv
      <4> QED BY <4>1, <1>0, SoundKept
    <3>2. CASE j \notin jobs
      <4>1. j.request.root \in Roots
        BY <1>0 DEF Outcome, Jobs, Requests
      <4> QED BY <3>2, <4>1, <1>0 DEF Outcome, Sound, Proved
    <3> QED BY <3>1, <3>2
  <2> QED BY <2>1 DEF JobsInv
<1>4. ResultsInv'
  <2>1. ASSUME NEW i \in DOMAIN events', events'[i].kind = "result"
        PROVE  Sound(events[i].request, events[i].names)'
    <3>1. /\ i + 1 \in DOMAIN events /\ events'[i] = events[i + 1] /\ events[i + 1] \in Events
      BY <1>t DEF IInv, TypeOK
    <3>2. PICK q, n : q = events[i + 1].request /\ n = events[i + 1].names
      OBVIOUS
    <3>3. q \in Requests /\ Sound(q, n)
      BY <3>1, <3>2, <2>1, EventFacts DEF IInv, ResultsInv
    <3>4. Sound(q, n)'
      BY <3>3, <1>0, SoundKept
    <3> QED BY <3>1, <3>2, <3>4 DEF Sound, Live, Proved
  <2> QED BY <2>1 DEF ResultsInv
<1> QED BY <1>1, <1>2, <1>3, <1>4 DEF IInv

\* A step that leaves the cache, and after which the channel holds what it held,
\* keeps what was said of a root unless its source was written without a report.
LEMMA SoundFrame ==
    ASSUME UNCHANGED cache, NEW q, NEW names, Sound(q, names),
           \A i \in DOMAIN events : i \in DOMAIN events' /\ events'[i] = events[i],
           UNCHANGED disk[q.root] \/ WriteIsReported(q.root)'
    PROVE  Sound(q, names)'
<1>1. WriteIsReported(q.root) => WriteIsReported(q.root)'
  BY DEF WriteIsReported
<1>2. Proved(names, q.root) => Proved(names, q.root)'
  BY <1>1 DEF Proved
<1> QED BY <1>2 DEF Sound, Live

\* The editor, or the file watcher, sends a notification.
LEMMA SendStep ==
    ASSUME IInv, NEW e \in Events, e.kind # "result", Send(e),
           disk' \in [Roots -> Versions], open' \subseteq Roots,
           \A r \in Roots : disk'[r] = disk[r] \/ WriteTo(e, r)
    PROVE  IInv'
<1>u. /\ UNCHANGED <<known, session, docs, cache, jobs>>
      /\ sent' = sent + 1 /\ sent < MaxEvents /\ events' = Append(events, e)
  BY DEF Send, loopVars
<1>a. /\ events' \in Seq(Events)
      /\ \A i \in DOMAIN events : i \in DOMAIN events' /\ events'[i] = events[i]
      /\ \A i \in DOMAIN events' : i \in DOMAIN events \/ events'[i] = e
      /\ \E i \in DOMAIN events' : events'[i] = e
  BY <1>u, AddEvent DEF IInv, TypeOK
<1>w. \A r \in Roots : UNCHANGED disk[r] \/ WriteIsReported(r)'
  BY <1>a DEF WriteIsReported, WriteTo
<1>1. TypeOK'
  <2>1. sent' \in 0..MaxEvents
    BY <1>u, ManifestAssumption DEF IInv, TypeOK
  <2> QED BY <2>1, <1>u, <1>a DEF IInv, TypeOK
<1>2. CacheInv'
  <2>1. ASSUME NEW r \in Roots, NEW n, Proved(n, r) PROVE Proved(n, r)'
    <3>1. WriteIsReported(r) => WriteIsReported(r)'
      BY <1>a DEF WriteIsReported
    <3> QED BY <2>1, <3>1, <1>w DEF Proved
  <2>2. \A r \in Roots : cache.entries[r] # Absent => Proved(cache.entries[r].names, r)'
    <3> SUFFICES ASSUME NEW r \in Roots, cache.entries[r] # Absent
                 PROVE  Proved(cache.entries[r].names, r)'
      OBVIOUS
    <3>1. PICK n : n = cache.entries[r].names
      OBVIOUS
    <3>2. Proved(n, r)
      BY <3>1 DEF IInv, CacheInv
    <3>3. Proved(n, r)'
      BY <3>2, <2>1
    <3> QED BY <3>1, <3>3, <1>u DEF Proved
  <2> QED BY <2>2, <1>u DEF IInv, CacheInv
<1>3. JobsInv'
  <2>1. ASSUME NEW j \in jobs PROVE Sound(j.request, j.names)'
    <3>1. Sound(j.request, j.names) /\ j.request.root \in Roots
      BY DEF IInv, JobsInv, TypeOK, Jobs, Requests
    <3> QED BY <3>1, <1>u, <1>a, <1>w, SoundFrame
  <2> QED BY <2>1, <1>u DEF JobsInv
<1>4. ResultsInv'
  <2>1. ASSUME NEW i \in DOMAIN events', events'[i].kind = "result"
        PROVE  Sound(events[i].request, events[i].names)'
    <3>1. i \in DOMAIN events /\ events'[i] = events[i] /\ events[i] \in Events
      BY <2>1, <1>a DEF IInv, TypeOK
    <3>2. PICK q, n : q = events[i].request /\ n = events[i].names
      OBVIOUS
    <3>3. q.root \in Roots /\ Sound(q, n)
      BY <3>1, <3>2, <2>1, EventFacts DEF IInv, ResultsInv, Requests
    <3>4. Sound(q, n)'
      BY <3>3, <1>u, <1>a, <1>w, SoundFrame
    <3> QED BY <3>1, <3>2, <3>4 DEF Sound, Live, Proved
  <2> QED BY <2>1 DEF ResultsInv
<1> QED BY <1>1, <1>2, <1>3, <1>4 DEF IInv

\* A task moves on: what it knows is sound and so is what it reports.
LEMMA TaskStep ==
    ASSUME IInv, UNCHANGED <<disk, sent, open, known, session, docs, cache>>,
           jobs' \subseteq Jobs, events' \in Seq(Events),
           \A j \in jobs' : Sound(j.request, j.names),
           \A i \in DOMAIN events : i \in DOMAIN events' /\ events'[i] = events[i],
           \A i \in DOMAIN events' : i \in DOMAIN events \/
               \E q, n : Sound(q, n) /\ events'[i].request = q /\ events'[i].names = n
    PROVE  IInv'
<1>1. TypeOK'
  BY DEF IInv, TypeOK
<1>2. CacheInv'
  <2>1. \A r \in Roots : WriteIsReported(r) => WriteIsReported(r)'
    BY DEF WriteIsReported
  <2> QED BY <2>1 DEF IInv, CacheInv, Proved
<1>3. JobsInv'
  <2>1. ASSUME NEW j \in jobs' PROVE Sound(j.request, j.names)'
    BY SoundFrame
  <2> QED BY <2>1 DEF JobsInv
<1>4. ResultsInv'
  <2>1. ASSUME NEW i \in DOMAIN events', events'[i].kind = "result"
        PROVE  Sound(events[i].request, events[i].names)'
    <3>1. PICK q, n : Sound(q, n) /\ events'[i].request = q /\ events'[i].names = n
      BY <2>1 DEF IInv, ResultsInv
    <3>2. Sound(q, n)'
      BY <3>1, SoundFrame
    <3> QED BY <3>1, <3>2 DEF Sound, Live, Proved
  <2> QED BY <2>1 DEF ResultsInv
<1> QED BY <1>1, <1>2, <1>3, <1>4 DEF IInv

LEMMA EditorStep ==
    ASSUME IInv, NEW r \in Roots, Open(r) \/ Edit(r) \/ WriteOutside(r)
    PROVE  IInv'
<1>0. disk \in [Roots -> Versions] /\ open \subseteq Roots /\ disk[r] \in Nat
  BY DEF IInv, TypeOK, Versions
<1>d. [disk EXCEPT ![r] = disk[r] + 1] \in [Roots -> Versions]
  <2>1. disk[r] + 1 \in Versions
    BY <1>0 DEF Versions, Unknown
  <2> QED BY <2>1, <1>0
<1>1. CASE Open(r)
  <2>1. PICK text \in {disk[r], Unknown} : Send([kind |-> "open", root |-> r, text |-> text])
    BY <1>1 DEF Open
  <2> DEFINE e == [kind |-> "open", root |-> r, text |-> text]
  <2>2. e \in Events /\ e.kind # "result"
    BY <1>0 DEF Events, Unknown
  <2>3. UNCHANGED disk /\ open' \subseteq Roots
    BY <1>1, <1>0 DEF Open
  <2> HIDE DEF e
  <2>4. Send(e)
    BY <2>1 DEF e
  <2> QED BY <2>2, <2>3, <2>4, <1>0, SendStep
<1>2. CASE Send([kind |-> "change", root |-> r]) /\ UNCHANGED <<disk, open>>
  <2> DEFINE e == [kind |-> "change", root |-> r]
  <2>1. e \in Events /\ e.kind # "result" /\ Send(e)
    BY <1>2 DEF Events
  <2> HIDE DEF e
  <2> QED BY <2>1, <1>0, <1>2, SendStep
<1>3. CASE /\ Send([kind |-> "save", root |-> r]) \/ Send([kind |-> "write", root |-> r])
           /\ disk' = [disk EXCEPT ![r] = @ + 1] /\ UNCHANGED open
  <2>1. PICK k \in {"save", "write"} : Send([kind |-> k, root |-> r])
    BY <1>3
  <2> DEFINE e == [kind |-> k, root |-> r]
  <2>2. e \in Events /\ e.kind # "result" /\ Send(e) /\ WriteTo(e, r)
    BY <2>1 DEF Events, WriteTo
  <2> HIDE DEF e
  <2>3. disk' \in [Roots -> Versions] /\ \A t \in Roots : disk'[t] = disk[t] \/ WriteTo(e, t)
    BY <1>0, <1>d, <1>3, <2>2
  <2> QED BY <2>2, <2>3, <1>0, <1>3, SendStep
<1>4. CASE Send([kind |-> "close", root |-> r]) /\ open' = open \ {r} /\ UNCHANGED disk
  <2> DEFINE e == [kind |-> "close", root |-> r]
  <2>1. e \in Events /\ e.kind # "result" /\ Send(e)
    BY <1>4 DEF Events
  <2> HIDE DEF e
  <2> QED BY <2>1, <1>0, <1>4, SendStep
<1> QED BY <1>1, <1>2, <1>3, <1>4 DEF Edit, WriteOutside

LEMMA SessionNoteStep ==
    ASSUME IInv, NEW k \in {"session", "hydrated"}, SessionNote(k)
    PROVE  IInv'
<1> DEFINE e == [kind |-> k]
<1>1. e \in Events /\ e.kind # "result" /\ Send(e) /\ UNCHANGED <<disk, open>>
  BY DEF Events, SessionNote
<1> HIDE DEF e
<1> QED BY <1>1, SendStep DEF IInv, TypeOK

LEMMA DebouncedStep ==
    ASSUME IInv, NEW j \in jobs, Debounced(j)
    PROVE  IInv'
<1>1. UNCHANGED <<disk, sent, open, known, session, docs, cache, events>>
  BY DEF Debounced, Move, editorVars, loopVars
<1>2. j \in Jobs /\ Sound(j.request, j.names)
  BY DEF IInv, TypeOK, JobsInv
<1> DEFINE k == [j EXCEPT !.stage = "asked"]
<1>3. k \in Jobs /\ k.request = j.request /\ k.names = j.names
  BY <1>2 DEF Jobs
<1>4. jobs' \subseteq (jobs \ {j}) \cup {k}
  BY DEF Debounced, Move
<1> HIDE DEF k
<1>5. jobs' \subseteq Jobs /\ \A i \in jobs' : Sound(i.request, i.names)
  BY <1>2, <1>3, <1>4 DEF IInv, TypeOK, JobsInv
<1>6. events' \in Seq(Events)
  BY <1>1 DEF IInv, TypeOK
<1> QED BY <1>1, <1>5, <1>6, TaskStep

LEMMA EvaluateStep ==
    ASSUME IInv, NEW j \in jobs, Evaluate(j)
    PROVE  IInv'
<1>1. UNCHANGED <<disk, sent, open, known, session, docs, cache, events>>
  BY DEF Evaluate, Move, editorVars, loopVars
<1>2. j \in Jobs /\ Sound(j.request, j.names) /\ j.request.root \in Roots
  BY DEF IInv, TypeOK, JobsInv, Jobs, Requests
<1> DEFINE k == [j EXCEPT !.stage = "evaluated", !.names = disk[j.request.root]]
<1>3. k \in Jobs /\ k.request = j.request /\ k.names = disk[j.request.root]
  <2>1. disk[j.request.root] \in Nat
    BY <1>2 DEF IInv, TypeOK, Versions
  <2> QED BY <1>2, <2>1 DEF Jobs
<1>4. jobs' = (jobs \ {j}) \cup {k}
  BY DEF Evaluate, Move
<1> HIDE DEF k
<1>5. Sound(k.request, k.names)
  BY <1>2, <1>3 DEF Sound, Proved
<1>6. jobs' \subseteq Jobs /\ \A i \in jobs' : Sound(i.request, i.names)
  BY <1>3, <1>4, <1>5 DEF IInv, TypeOK, JobsInv
<1>7. events' \in Seq(Events)
  BY <1>1 DEF IInv, TypeOK
<1> QED BY <1>1, <1>6, <1>7, TaskStep

LEMMA AnswerStep ==
    ASSUME IInv, NEW j \in jobs, Answer(j)
    PROVE  IInv'
<1>1. UNCHANGED <<disk, sent, open, known, session, docs, cache>> /\ jobs' = jobs \ {j}
  BY DEF Answer, Move, editorVars, loopVars
<1>2. j \in Jobs /\ Sound(j.request, j.names)
  BY DEF IInv, TypeOK, JobsInv
<1>3. PICK n \in {j.names, Unknown} : SendResult(j, n)
  BY DEF Answer
<1> DEFINE e == [kind |-> "result", request |-> j.request, names |-> n]
<1>4. e \in Events /\ e.request = j.request /\ e.names = n
  BY <1>2 DEF Events, Jobs, Unknown
<1>5. Sound(j.request, n)
  BY <1>2, <1>3 DEF Sound, Proved
<1>6. events' = Append(events, e)
  BY <1>3 DEF SendResult
<1> HIDE DEF e
<1>7. /\ events' \in Seq(Events)
      /\ \A i \in DOMAIN events : i \in DOMAIN events' /\ events'[i] = events[i]
      /\ \A i \in DOMAIN events' : i \in DOMAIN events \/ events'[i] = e
  BY <1>4, <1>6, AddEvent DEF IInv, TypeOK
<1>8. jobs' \subseteq Jobs /\ \A i \in jobs' : Sound(i.request, i.names)
  BY <1>1 DEF IInv, TypeOK, JobsInv
<1>9. \A i \in DOMAIN events' : i \in DOMAIN events \/
         \E q, m : Sound(q, m) /\ events'[i].request = q /\ events'[i].names = m
  BY <1>4, <1>5, <1>7
<1> QED BY <1>1, <1>7, <1>8, <1>9, TaskStep

LEMMA DiscoverStep ==
    ASSUME IInv, NEW r \in Roots, Discover(r)
    PROVE  IInv'
<1>1. UNCHANGED <<disk, sent, open, events, session, docs, cache, jobs>> /\ known' = known \cup {r}
  BY DEF Discover, editorVars, loopVars
<1>2. TypeOK'
  BY <1>1 DEF IInv, TypeOK
<1>3. CacheInv' /\ JobsInv' /\ ResultsInv'
  BY <1>1 DEF IInv, CacheInv, JobsInv, ResultsInv, Sound, Live, Proved, WriteIsReported
<1> QED BY <1>2, <1>3 DEF IInv

LEMMA InitIInv ==
    ASSUME Init
    PROVE  IInv
<1>1. \A r \in Roots : cache.entries[r] = Absent
  BY DEF Init
<1>2. cache \in Caches
  BY DEF Init, Caches, Entries
<1>3. TypeOK
  <2>1. disk \in [Roots -> Versions]
    BY DEF Init, Versions, Unknown
  <2>2. sent \in 0..MaxEvents
    BY ManifestAssumption DEF Init
  <2>3. events \in Seq(Events)
    BY DEF Init
  <2> QED BY <1>2, <2>1, <2>2, <2>3 DEF Init, TypeOK
<1>4. cache.session_generation = session.generation
  BY DEF Init
<1>5. JobsInv /\ ResultsInv
  BY DEF Init, JobsInv, ResultsInv
<1> QED BY <1>1, <1>3, <1>4, <1>5 DEF IInv, CacheInv

LEMMA NextIInv ==
    ASSUME IInv, [Next]_vars
    PROVE  IInv'
<1>1. CASE UNCHANGED vars
  <2>1. TypeOK'
    BY <1>1 DEF IInv, TypeOK, vars
  <2>2. CacheInv' /\ JobsInv' /\ ResultsInv'
    BY <1>1 DEF vars, IInv, CacheInv, JobsInv, ResultsInv, Sound, Live, Proved, WriteIsReported
  <2> QED BY <2>1, <2>2 DEF IInv
<1>2. ASSUME NEW r \in Roots, Open(r) \/ Edit(r) \/ WriteOutside(r) PROVE IInv'
  BY <1>2, EditorStep
<1>3. ASSUME NEW r \in Roots, Discover(r) PROVE IInv'
  BY <1>3, DiscoverStep
<1>4. ASSUME NEW kind \in {"session", "hydrated"}, SessionNote(kind) PROVE IInv'
  BY <1>4, SessionNoteStep
<1>5. CASE HandleEvent
  BY <1>5, HandleEventStep
<1>6. ASSUME NEW j \in jobs, Debounced(j) \/ Evaluate(j) \/ Answer(j) PROVE IInv'
  BY <1>6, DebouncedStep, EvaluateStep, AnswerStep
<1> QED BY <1>1, <1>2, <1>3, <1>4, <1>5, <1>6 DEF Next

LEMMA InvariantHolds == Spec => []IInv
  BY InitIInv, NextIInv, PTL DEF Spec

-----------------------------------------------------------------------------
(* The theorems *)

\* Every step of the editor, the main loop, the indexer and the tasks leaves
\* the cache, the channel and the requests under way well-typed.
THEOREM TypeCorrect == Spec => []TypeOK
<1>1. IInv => TypeOK
  BY DEF IInv
<1> QED BY <1>1, InvariantHolds, PTL

\* No order of writes, reports, queries and answers leaves names in the cache
\* (TargetManifests::apply) of a source that has been written since, unless the
\* report of the write is still in the main loop's channel.
THEOREM NamesAreCurrent == Spec => []NamesAreOfTheDisk
<1>1. IInv => NamesAreOfTheDisk
  BY DEF IInv, CacheInv, Proved, NamesAreOfTheDisk
<1> QED BY <1>1, InvariantHolds, PTL

\* The steps that add to the channel or leave it take no event from it.
LEMMA OnlyTheLoopTakes ==
    ASSUME IInv, [Next]_vars, events # <<>>, events' = Tail(events)
    PROVE  HandleEvent
<1>0. events \in Seq(Events) /\ Len(events') < Len(events) /\ Len(events) \in Nat
  BY DEF IInv, TypeOK
<1>1. ASSUME NEW e, events' = Append(events, e) PROVE FALSE
  BY <1>0, <1>1
<1>2. ASSUME UNCHANGED events PROVE FALSE
  BY <1>0, <1>2
<1>3. ASSUME NEW r \in Roots, Open(r) \/ Edit(r) \/ WriteOutside(r) \/ Discover(r) PROVE FALSE
  BY <1>1, <1>2, <1>3 DEF Open, Edit, WriteOutside, Discover, Send
<1>4. ASSUME NEW kind \in {"session", "hydrated"}, SessionNote(kind) PROVE FALSE
  BY <1>1, <1>4 DEF SessionNote, Send
<1>5. ASSUME NEW j \in jobs, Debounced(j) \/ Evaluate(j) \/ Answer(j) PROVE FALSE
  BY <1>1, <1>2, <1>5 DEF Debounced, Evaluate, Answer, SendResult
<1> QED BY <1>2, <1>3, <1>4, <1>5 DEF Next, vars

\* An event never ends with names for a root whose known source has unsaved
\* changes, whatever the event was: prepare replaces such entries.
THEOREM UnsavedAreNotNamed == Spec => UnsavedSourceHasNoNames
<1>1. ASSUME IInv, [Next]_vars PROVE UnsavedHaveNoNames
  <2> SUFFICES ASSUME events # <<>>, events' = Tail(events),
                      NEW r \in cache'.dirty \cap known, cache'.entries[r] # Absent
               PROVE  cache'.entries[r].names = Unknown
    BY DEF UnsavedHaveNoNames
  <2>1. Outcome
    BY <1>1, OnlyTheLoopTakes, HandleEventOutcome
  <2>2. r \in Roots
    BY <1>1 DEF IInv, TypeOK
  <2> QED BY <2>1, <2>2 DEF Outcome, DirtySource
<1>2. IInv /\ [Next]_vars => [UnsavedHaveNoNames]_vars
  BY <1>1
<1> QED BY <1>2, InvariantHolds, PTL DEF Spec, UnsavedSourceHasNoNames

-----------------------------------------------------------------------------
(* An entry that waits is being fetched *)

LEMMA HandledStaysUnderWay ==
    ASSUME IInv, HandleEvent, NEW r \in Roots
    PROVE  StaysUnderWay(r)
<1> SUFFICES ASSUME Awaited(cache', r), ~UnderWay(cache, r)',
                    ~(Answers(Head(events), cache, r) /\ Head(events).names = Unknown)
             PROVE  Awaited(cache, r) /\ ~UnderWay(cache, r) /\ cache'.entries[r] = cache.entries[r]
  BY DEF StaysUnderWay
<1>0. Outcome /\ events # <<>> /\ events' = Tail(events)
  BY HandleEventOutcome
<1>t. /\ Head(events) = events[1]
      /\ \A i \in DOMAIN events : i # 1 => i - 1 \in DOMAIN events' /\ events'[i - 1] = events[i]
  BY <1>0, TakeEvent DEF IInv, TypeOK
<1>1. ~Requested(r)
  BY DEF Requested, UnderWay
<1>2. Stays(r)
  BY <1>0, <1>1 DEF Awaited, Outcome, Gone, Fresh
<1>3. cache.entries[r].attempted /\ cache.entries[r] # Absent
  BY <1>1, <1>2 DEF Stays, Awaited
<1>4. ~Answers(Head(events), cache, r)
  BY <1>2 DEF Stays, Awaited
<1>5. cache'.entries[r] = cache.entries[r]
  BY <1>2, <1>3, <1>4 DEF Stays
<1>6. ~UnderWay(cache, r)
  <2>1. ASSUME NEW j \in jobs, j.request.root = r, j.request.revision = cache.entries[r].revision
        PROVE  FALSE
    BY <2>1, <1>0, <1>5 DEF Outcome, UnderWay
  <2>2. ASSUME NEW i \in DOMAIN events, Answers(events[i], cache, r)
        PROVE  FALSE
    <3>1. i # 1
      BY <2>2, <1>t, <1>4
    <3>2. i - 1 \in DOMAIN events' /\ events'[i - 1] = events[i]
      BY <3>1, <1>t
    <3>3. Answers(events[i - 1], cache, r)'
      BY <2>2, <3>2, <1>5 DEF Answers
    <3> QED BY <3>2, <3>3 DEF UnderWay
  <2> QED BY <2>1, <2>2 DEF UnderWay
<1> QED BY <1>3, <1>5, <1>6 DEF Awaited

\* A step that leaves the cache and loses neither an event nor, but for passing
\* it on, a request whose entry stands.
LEMMA FrameStaysUnderWay ==
    ASSUME UNCHANGED cache, NEW r \in Roots,
           \A i \in DOMAIN events : i \in DOMAIN events' /\ events'[i] = events[i],
           \A j \in jobs : j.request.root = r /\ j.request.revision = cache.entries[r].revision
                              => UnderWay(cache, r)'
    PROVE  cache.entries[r] # Absent => StaysUnderWay(r)
<1>1. ASSUME NEW i \in DOMAIN events, Answers(events[i], cache, r)
      PROVE  UnderWay(cache, r)'
  <2>1. i \in DOMAIN events' /\ Answers(events[i], cache, r)'
    BY <1>1 DEF Answers
  <2> QED BY <2>1 DEF UnderWay
<1>2. UnderWay(cache, r) => UnderWay(cache, r)'
  BY <1>1 DEF UnderWay
<1> QED BY <1>2 DEF StaysUnderWay, Awaited

LEMMA TaskStaysUnderWay ==
    ASSUME IInv, NEW j \in jobs, Debounced(j) \/ Evaluate(j) \/ Answer(j),
           NEW r \in Roots, cache.entries[r] # Absent
    PROVE  StaysUnderWay(r)
<1>1. UNCHANGED cache
  BY DEF Debounced, Evaluate, Answer, Move, loopVars
<1>j. j \in Jobs /\ Sound(j.request, j.names)
  BY DEF IInv, TypeOK, JobsInv
<1>2. \A k \in jobs : k # j => k \in jobs'
  BY DEF Debounced, Evaluate, Answer, Move
<1>3. \A i \in DOMAIN events : i \in DOMAIN events' /\ events'[i] = events[i]
  <2>1. CASE UNCHANGED events
    BY <2>1
  <2>2. CASE Answer(j)
    <3>1. PICK n \in {j.names, Unknown} : SendResult(j, n)
      BY <2>2 DEF Answer
    <3>2. [kind |-> "result", request |-> j.request, names |-> n] \in Events
      BY <1>j DEF Events, Jobs, Unknown
    <3> QED BY <3>1, <3>2, AddEvent DEF SendResult, IInv, TypeOK
  <2> QED BY <2>1, <2>2 DEF Debounced, Evaluate
<1>4. ASSUME NEW k \in jobs', k.request = j.request,
             j.request.root = r, j.request.revision = cache.entries[r].revision
      PROVE  UnderWay(cache, r)'
  BY <1>4, <1>1 DEF UnderWay
<1>5. ASSUME j.request.root = r, j.request.revision = cache.entries[r].revision
      PROVE  UnderWay(cache, r)'
  <2>1. CASE Debounced(j)
    <3>1. IsCurrent(cache, j.request)
      BY <1>5, <1>j DEF Sound, Live, IsCurrent
    <3> DEFINE k == [j EXCEPT !.stage = "asked"]
    <3>2. k \in jobs' /\ k.request = j.request
      BY <3>1, <2>1, <1>j DEF Debounced, Move, Jobs
    <3> HIDE DEF k
    <3> QED BY <3>2, <1>4, <1>5
  <2>2. CASE Evaluate(j)
    <3> DEFINE k == [j EXCEPT !.stage = "evaluated", !.names = disk[j.request.root]]
    <3>1. k \in jobs' /\ k.request = j.request
      BY <2>2, <1>j DEF Evaluate, Move, Jobs
    <3> HIDE DEF k
    <3> QED BY <3>1, <1>4, <1>5
  <2>3. CASE Answer(j)
    <3>1. PICK n \in {j.names, Unknown} : SendResult(j, n)
      BY <2>3 DEF Answer
    <3> DEFINE e == [kind |-> "result", request |-> j.request, names |-> n]
    <3>2. e \in Events /\ e.kind = "result" /\ e.request = j.request
      BY <1>j DEF Events, Jobs, Unknown
    <3>3. events' = Append(events, e)
      BY <3>1 DEF SendResult
    <3> HIDE DEF e
    <3>4. PICK i \in DOMAIN events' : events'[i] = e
      BY <3>2, <3>3, AddEvent DEF IInv, TypeOK
    <3>5. Answers(events[i], cache, r)'
      BY <3>2, <3>4, <1>1, <1>5 DEF Answers
    <3> QED BY <3>4, <3>5 DEF UnderWay
  <2> QED BY <2>1, <2>2, <2>3
<1>6. \A k \in jobs : k.request.root = r /\ k.request.revision = cache.entries[r].revision
                         => UnderWay(cache, r)'
  BY <1>1, <1>2, <1>5 DEF UnderWay
<1> QED BY <1>1, <1>3, <1>6, FrameStaysUnderWay

\* The editor's notifications and the indexer leave what is under way alone.
LEMMA OthersStayUnderWay ==
    ASSUME IInv, NEW r \in Roots, cache.entries[r] # Absent, UNCHANGED <<cache, jobs>>,
           UNCHANGED events \/ \E e \in Events : events' = Append(events, e)
    PROVE  StaysUnderWay(r)
<1>1. \A i \in DOMAIN events : i \in DOMAIN events' /\ events'[i] = events[i]
  BY AddEvent DEF IInv, TypeOK
<1>2. \A k \in jobs : k.request.root = r /\ k.request.revision = cache.entries[r].revision
                         => UnderWay(cache, r)'
  BY DEF UnderWay
<1> QED BY <1>1, <1>2, FrameStaysUnderWay

\* The steps other than those of the main loop and the tasks.
LEMMA OthersLeaveTheCache ==
    ASSUME IInv, [Next]_vars, ~HandleEvent,
           ~\E j \in jobs : Debounced(j) \/ Evaluate(j) \/ Answer(j)
    PROVE  /\ UNCHANGED <<cache, jobs>>
           /\ UNCHANGED events \/ \E e \in Events : events' = Append(events, e)
<1>1. CASE UNCHANGED vars
  BY <1>1 DEF vars
<1>2. ASSUME NEW e \in Events, Send(e)
      PROVE  UNCHANGED <<cache, jobs>> /\ events' = Append(events, e)
  BY <1>2 DEF Send, loopVars
<1>3. ASSUME NEW r \in Roots, Open(r) \/ Edit(r) \/ WriteOutside(r)
      PROVE  \E e \in Events : Send(e)
  <2>1. CASE Open(r)
    <3>1. PICK text \in {disk[r], Unknown} : Send([kind |-> "open", root |-> r, text |-> text])
      BY <2>1 DEF Open
    <3>2. [kind |-> "open", root |-> r, text |-> text] \in Events
      BY DEF Events, Unknown, IInv, TypeOK, Versions
    <3> QED BY <3>1, <3>2
  <2>2. PICK k \in {"change", "save", "close", "write"} : Open(r) \/ Send([kind |-> k, root |-> r])
    BY <1>3 DEF Edit, WriteOutside
  <2>3. [kind |-> k, root |-> r] \in Events
    BY DEF Events
  <2> QED BY <2>1, <2>2, <2>3
<1>4. ASSUME NEW r \in Roots, Discover(r) PROVE UNCHANGED <<cache, jobs, events>>
  BY <1>4 DEF Discover, loopVars
<1>5. ASSUME NEW kind \in {"session", "hydrated"}, SessionNote(kind)
      PROVE  \E e \in Events : Send(e)
  <2>1. [kind |-> kind] \in Events /\ Send([kind |-> kind])
    BY <1>5 DEF Events, SessionNote
  <2> QED BY <2>1
<1> QED BY <1>1, <1>2, <1>3, <1>4, <1>5 DEF Next

\* A task that gives up after its pause, or a result that is discarded, never
\* leaves behind an entry that is marked as attempted, has no names and that
\* nobody will ask for again: only a failed query does.
THEOREM AttemptsAreUnderWay == Spec => AttemptIsUnderWay
<1>1. ASSUME IInv, [Next]_vars, NEW r \in Roots PROVE StaysUnderWay(r)
  <2>1. CASE HandleEvent
    BY <1>1, <2>1, HandledStaysUnderWay
  <2>2. ASSUME cache.entries[r] = Absent, UNCHANGED cache PROVE StaysUnderWay(r)
    BY <2>2 DEF StaysUnderWay, Awaited
  <2>3. ASSUME NEW j \in jobs, Debounced(j) \/ Evaluate(j) \/ Answer(j) PROVE StaysUnderWay(r)
    <3>1. UNCHANGED cache
      BY <2>3 DEF Debounced, Evaluate, Answer, Move, loopVars
    <3> QED BY <1>1, <2>2, <2>3, <3>1, TaskStaysUnderWay
  <2>4. CASE /\ ~HandleEvent
             /\ ~\E j \in jobs : Debounced(j) \/ Evaluate(j) \/ Answer(j)
    BY <1>1, <2>2, <2>4, OthersLeaveTheCache, OthersStayUnderWay
  <2> QED BY <2>1, <2>3, <2>4
<1>2. IInv /\ [Next]_vars => [\A r \in Roots : StaysUnderWay(r)]_vars
  BY <1>1
<1> QED BY <1>2, InvariantHolds, PTL DEF Spec, AttemptIsUnderWay

=============================================================================
