---------------------------- MODULE StatusReader ----------------------------
(***************************************************************************)
(* The server as a reader of the session status file                       *)
(* (lsp/session_bridge.rs): run_dynamic_request, the connection it caches  *)
(* under the file's time and length, and its one retry.  The file changes  *)
(* under it as StatusContents allows; BridgeRuntime is what happens inside *)
(* a request that is sent, here it answers or fails.                       *)
(***************************************************************************)
EXTENDS StatusContents

CONSTANT Requests      \* threads that make requests, each one at a time

VARIABLES
  cache,     \* cached_connection
  req,       \* the requests
  collided   \* history: two complete contents with different connections, one stamp

readerVars == <<shown, live, cache, req, collided>>

\* The time and length of a file, as somebody remembers them: those of the last
\* complete content, those of the torn file there now, or some that are past.  A
\* content that follows may have those of the last complete one, not those of the past.
Stamps == {"whole", "torn", "past"}
NoStamp == "past"

Phases == {"idle", "stat", "open", "read", "send", "done"}

\* first: the connection of the first attempt, sent: whether that was sent at all,
\* resent: sent again to the same R while it ran, quiet: see Quiet.
ReaderTypeOK ==
  /\ shown \in Contents
  /\ live \in Lives
  /\ cache \in [stamp : Stamps, conn : Connections] \cup {None}
  /\ req \in [Requests -> [pc : Phases, refresh : BOOLEAN, stamp : Stamps,
                           conn : Connections \cup {None}, first : Connections \cup {None},
                           sent : BOOLEAN, resent : BOOLEAN, ok : BOOLEAN, quiet : BOOLEAN]]
  /\ collided \in BOOLEAN

\* A request that begins, or has ended: with an answer or without.
Request(phase, ok, quiet) ==
  [pc |-> phase, refresh |-> FALSE, stamp |-> NoStamp, conn |-> None, first |-> None,
   sent |-> FALSE, resent |-> FALSE, ok |-> ok, quiet |-> quiet]

ReaderInit ==
  /\ ContentsInit
  /\ cache = None
  /\ req = [q \in Requests |-> Request("idle", FALSE, FALSE)]
  /\ collided = FALSE

-----------------------------------------------------------------------------
(* The file changes *)

\* trusted_status_file_fingerprint, of the file as it is.
fingerprint == IF shown.torn THEN "torn" ELSE "whole"

\* Some of the stamps remembered have become past.  No request under way has been
\* alone with an unchanging file.
Pass(stamps) ==
  LET Aged(t) == IF t \in stamps THEN "past" ELSE t IN
  /\ req' = [q \in Requests |-> [req[q] EXCEPT !.quiet = FALSE, !.stamp = Aged(@)]]
  /\ cache' = IF cache = None THEN None ELSE [cache EXCEPT !.stamp = Aged(@)]

\* A new content has a later stamp, or, within the clock's resolution and at the same
\* length, that of the complete content before it.
Written(conn) ==
  /\ Show(conn)
  /\ \/ Pass({"whole", "torn"}) /\ UNCHANGED collided
     \/ Pass({"torn"}) /\ collided' = (collided \/ conn # shown.conn)

Truncated == Tear /\ Pass({"torn"}) /\ UNCHANGED collided

ProcessesChange ==
  /\ OpenConsole \/ StartR \/ StopR \/ CloseConsole
  /\ Pass({})
  /\ UNCHANGED collided

-----------------------------------------------------------------------------
(* run_dynamic_request *)

outside == <<shown, live, collided>>

\* The file is complete and names the R that runs, at its prompt.
Quiet ==
  /\ ~shown.torn
  /\ live.r # None
  /\ shown.conn = [gen |-> live.r, owner |-> None]

Begin(q) ==
  /\ req[q].pc \in {"idle", "done"}
  /\ req' = [req EXCEPT ![q] = Request("stat", FALSE, Quiet)]
  /\ UNCHANGED <<outside, cache>>

Return(q, ok) == req' = [req EXCEPT ![q] = Request("done", ok, @.quiet)]

cached_connection == cache # None /\ cache.stamp = fingerprint

(* Faulty variants of the definitions below, used only to test properties. *)

\* The second look may be one at the cache.
current_connection_from_cache(q) ==
  /\ req[q].pc = "stat"
  /\ IF ~shown.there
     THEN Return(q, FALSE)
     ELSE IF cached_connection
     THEN req' = [req EXCEPT ![q].pc = "send", ![q].conn = cache.conn]
     ELSE req' = [req EXCEPT ![q].pc = "open"]
  /\ UNCHANGED <<outside, cache>>

\* The stamp is taken once more after the content.
store_with_later_stamp(q) ==
  /\ req[q].pc = "read"
  /\ IF req[q].conn = None
     THEN /\ ~shown.torn /\ shown.conn # None
          /\ req' = [req EXCEPT ![q].conn = shown.conn]
          /\ UNCHANGED cache
     ELSE /\ cache' = [stamp |-> fingerprint, conn |-> req[q].conn]
          /\ req' = [req EXCEPT ![q].pc = "send", ![q].stamp = NoStamp]
  /\ UNCHANGED outside

\* The second attempt is made whatever the second look finds.
store_and_retry(q) ==
  /\ req[q].pc = "read"
  /\ IF shown.torn \/ shown.conn = None
     THEN Return(q, FALSE) /\ UNCHANGED cache
     ELSE /\ cache' = [stamp |-> req[q].stamp, conn |-> shown.conn]
          /\ req' = [req EXCEPT ![q].pc = "send", ![q].conn = shown.conn, ![q].stamp = NoStamp]
  /\ UNCHANGED outside

-----------------------------------------------------------------------------
\* current_connection_with_policy: the stamp, and the cache, unless this is the second look.
current_connection_with_policy(q) ==
  /\ req[q].pc = "stat"
  /\ IF ~shown.there
     THEN Return(q, FALSE)
     ELSE IF ~req[q].refresh /\ cached_connection
     THEN req' = [req EXCEPT ![q].pc = "send", ![q].conn = cache.conn]
     ELSE req' = [req EXCEPT ![q].pc = "open"]
  /\ UNCHANGED <<outside, cache>>

\* read_session_status: the stamp once more ...
read_session_status(q) ==
  /\ req[q].pc = "open"
  /\ req' = [req EXCEPT ![q].pc = "read", ![q].stamp = fingerprint]
  /\ UNCHANGED <<outside, cache>>

\* ... then the content, and both into the cache.  A file that is not complete, or not
\* ready, ends the request; so does, on the second look, an unchanged connection.
store_cached_connection(q) ==
  /\ req[q].pc = "read"
  /\ IF shown.torn \/ shown.conn = None
     THEN Return(q, FALSE) /\ UNCHANGED cache
     ELSE /\ cache' = [stamp |-> req[q].stamp, conn |-> shown.conn]
          /\ IF shown.conn = req[q].first
             THEN Return(q, FALSE)
             ELSE req' = [req EXCEPT ![q].pc = "send", ![q].conn = shown.conn,
                                     ![q].stamp = NoStamp]
  /\ UNCHANGED outside

\* A first failure to find or reach R leads to a second look at the file.  The code looks
\* again after an error of authentication or availability (should_refresh_dynamic_request),
\* which are those of an outdated connection; here any failure may have been one.
Failed(q, sent, refused) ==
  LET again == sent /\ req[q].sent /\ req[q].first.gen = req[q].conn.gen
                 /\ req[q].conn.gen = live.r IN
  req' = [req EXCEPT ![q].sent = sent, ![q].first = req[q].conn, ![q].refresh = TRUE,
                     ![q].resent = again, ![q].quiet = @ /\ ~refused, ![q].conn = None,
                     ![q].pc = IF req[q].refresh THEN "done" ELSE "stat"]

\* send_request: not at all while a live console says that a live R evaluates.
\* Otherwise through the runtime, which may turn it away or time out even if R runs.
send_request(q) ==
  LET conn == req[q].conn
      runs == conn.gen = live.r IN
  /\ req[q].pc = "send"
  /\ IF conn.owner # None /\ conn.owner = live.console /\ runs
     THEN Failed(q, FALSE, FALSE)
     ELSE \/ Failed(q, TRUE, runs)
          \/ runs /\ Return(q, TRUE)
  /\ UNCHANGED <<outside, cache>>

Step(q) ==
  \/ current_connection_with_policy(q)
  \/ read_session_status(q)
  \/ store_cached_connection(q)
  \/ send_request(q)

ReaderNext ==
  \/ \E conn \in Connections \cup {None} : Written(conn)
  \/ Truncated
  \/ ProcessesChange
  \/ \E q \in Requests : Begin(q) \/ Step(q)

ReaderSpec == ReaderInit /\ [][ReaderNext]_readerVars

-----------------------------------------------------------------------------
(* Properties *)

\* The cached connection is used on the strength of its stamp alone: it is the one in
\* the file, as long as different connections had different stamps.
CacheIsOfTheStamp ==
  ~collided /\ cache # None /\ cache.stamp = fingerprint /\ ~shown.torn =>
    cache.conn = shown.conn

\* A request in whose whole time the file named an R that runs and does not evaluate
\* gets its answer, whatever stands in the cache, unless the runtime turned it away.
QuietRequestsSucceed ==
  \A q \in Requests : req[q].pc = "done" /\ req[q].quiet => req[q].ok

\* "A normal evaluation must not reset admission/circuit state or trigger a retry on the
\* same socket": no request is sent twice to an R that runs.
NotSentTwice == \A q \in Requests : ~req[q].resent
=============================================================================
