----------------------------- MODULE StatusFile -----------------------------
(***************************************************************************)
(* The session status file.  R writes it through the launcher's profile    *)
(* (scripts/ark-r-launcher.sh), the console adds its own fields and keeps  *)
(* them there (lua/ark/console.lua).  Readers find R's socket in it, and   *)
(* whether R evaluates what the console sent.  Nobody takes a lock: R      *)
(* replaces the file by a rename, the console rewrites it in place.        *)
(* StatusContents is what the two promise readers, StatusReader a reader.  *)
(*                                                                         *)
(* One console runs one R at a time; both are numbered by generation, and  *)
(* the generation stands for process ids, port and token.  Generation 0    *)
(* may have left the file as it is found.  R's records of a generation are *)
(* numbered in order; before Ready the socket is not up yet.               *)
(***************************************************************************)
EXTENDS StatusConnections

CONSTANT MaxLines        \* bound: lines the user submits

VARIABLES
  file,      \* R's part, the console's part
  r,         \* the R process
  console,   \* the console's Neovim
  tty,       \* between them: lines typed and not read, prompts printed and not read
  notice,    \* publish_pending: the watcher saw the directory change
  history    \* what went wrong so far: see Histories

vars == <<file, r, console, tty, notice, history>>

Ready == 1

\* R's fields and the console's fields.
Records == [gen : Generations, n : Nat]
Marks == [gen : Generations, open : BOOLEAN, busy : BOOLEAN, pid : Generations \cup {None}]

ASSUME BoundsAssumption ==
  /\ MaxLines \in Nat
  /\ None \notin Records \cup Marks

\* Whether the R, or the console, of a generation runs.
Alive(gen) == r.pc # "down" /\ r.gen = gen
ConsoleAlive(gen) == console.pc # "gone" /\ console.gen = gen

RPhases == {"down", "startup", "prompt", "eval", "record", "rename"}
ConsolePhases == {"gone", "idle", "publish", "truncate", "write"}

\* clobbered: the console wrote back a record of R that R had replaced.
\* ahead: a line was sent to R before its prompt had been seen.
Histories == [clobbered : BOOLEAN, ahead : BOOLEAN]

Files == [rec : Records \cup {None}, mark : Marks \cup {None}, torn : BOOLEAN]
Processes == [gen : Generations, pc : RPhases, n : Nat, kept : Marks \cup {None}]
Consoles == [gen : Generations, pc : ConsolePhases, open : BOOLEAN, busy : BOOLEAN,
             pid : Generations \cup {None}, read : Records \cup {None},
             pending : BOOLEAN, queue : Nat, send : BOOLEAN]
Terminals == [typed : Nat, prompts : Nat, lines : 0 .. MaxLines]

TypeOK ==
  /\ file \in Files
  /\ r \in Processes
  /\ console \in Consoles
  /\ tty \in Terminals
  /\ notice \in BOOLEAN
  /\ history \in Histories

-----------------------------------------------------------------------------
(* The file *)

\* The console fields that make R busy count only for the process they name.
BusyOwner(rec, mark) ==
  IF mark # None /\ mark.open /\ mark.busy /\ mark.pid = rec.gen THEN mark.gen ELSE None

\* None: the status is not "ready".
connection_from_status(rec, mark) ==
  IF rec = None \/ rec.n < Ready THEN None
  ELSE [gen |-> rec.gen, owner |-> BusyOwner(rec, mark)]

\* A content that is complete.
Replace(rec, mark) == file' = [rec |-> rec, mark |-> mark, torn |-> FALSE]

\* A console that has submitted nothing yet, or is no more.
Console(gen, phase) ==
  [gen |-> gen, pc |-> phase, open |-> phase # "gone", busy |-> FALSE, pid |-> None,
   read |-> None, pending |-> FALSE, queue |-> 0, send |-> FALSE]

Init ==
  /\ \/ file = [rec |-> None, mark |-> None, torn |-> FALSE]
     \/ \E closed \in BOOLEAN, torn \in BOOLEAN :
          file = [rec |-> [gen |-> 0, n |-> Ready],
                  mark |-> [gen |-> 0, open |-> ~closed, busy |-> ~closed,
                            pid |-> IF closed THEN None ELSE 0],
                  torn |-> torn]
  /\ r = [gen |-> 0, pc |-> "down", n |-> 0, kept |-> None]
  /\ console = Console(0, "gone")
  /\ tty = [typed |-> 0, prompts |-> 0, lines |-> 0]
  /\ notice = FALSE
  /\ history = [clobbered |-> FALSE, ahead |-> FALSE]

-----------------------------------------------------------------------------
(* R *)

\* .preserved_status_fields: the console's fields, if the file can be read.
ReadPreserved ==
  /\ r.pc \in {"startup", "record"}
  /\ r' = [r EXCEPT !.pc = "rename", !.kept = IF file.torn THEN None ELSE file.mark]
  /\ UNCHANGED <<file, console, tty, notice, history>>

(* Faulty variants of the definitions below, used only to test properties. *)

\* A watch on the file itself loses sight of it when another takes its place.
write_status_unseen ==
  /\ r.pc = "rename"
  /\ Replace([gen |-> r.gen, n |-> r.n], r.kept)
  /\ IF r.n < Ready
     THEN r' = [r EXCEPT !.pc = "startup", !.n = @ + 1, !.kept = None] /\ UNCHANGED tty
     ELSE r' = [r EXCEPT !.pc = "prompt", !.kept = None] /\ tty' = [tty EXCEPT !.prompts = @ + 1]
  /\ UNCHANGED <<console, notice, history>>

-----------------------------------------------------------------------------
\* .write_status: R's record with those fields, in a new file moved over the old one.
\* The record before the first prompt and those after an evaluation end at a prompt.
write_status ==
  /\ r.pc = "rename"
  /\ Replace([gen |-> r.gen, n |-> r.n], r.kept)
  /\ notice' = (console.pc # "gone")
  /\ IF r.n < Ready
     THEN r' = [r EXCEPT !.pc = "startup", !.n = @ + 1, !.kept = None] /\ UNCHANGED tty
     ELSE r' = [r EXCEPT !.pc = "prompt", !.kept = None] /\ tty' = [tty EXCEPT !.prompts = @ + 1]
  /\ UNCHANGED <<console, history>>

ReadLine ==
  /\ r.pc = "prompt"
  /\ tty.typed > 0
  /\ tty' = [tty EXCEPT !.typed = @ - 1]
  /\ r' = [r EXCEPT !.pc = "eval"]
  /\ UNCHANGED <<file, console, notice, history>>

\* The task callback runs after an evaluation that succeeds.  After an error, or
\* a line that is not complete, only the prompt appears.
EvalEnds ==
  /\ r.pc = "eval"
  /\ \/ r' = [r EXCEPT !.pc = "record", !.n = @ + 1] /\ UNCHANGED tty
     \/ r' = [r EXCEPT !.pc = "prompt"] /\ tty' = [tty EXCEPT !.prompts = @ + 1]
  /\ UNCHANGED <<file, console, notice, history>>

\* q(), a crash.
Exit ==
  /\ r.pc # "down"
  /\ r' = [r EXCEPT !.pc = "down", !.kept = None]
  /\ UNCHANGED <<file, console, tty, notice, history>>

-----------------------------------------------------------------------------
(* The console *)

\* The fields publish_status would write.
ConsoleFields ==
  [gen |-> console.gen, open |-> console.open, busy |-> console.busy, pid |-> console.pid]

\* A console and its R on the same status file, after the one before has gone.
Open ==
  /\ console.pc = "gone"
  /\ console.gen < MaxGeneration
  /\ console' = Console(console.gen + 1, "publish")
  /\ tty' = [tty EXCEPT !.typed = 0, !.prompts = 0]
  /\ UNCHANGED <<file, r, notice, history>>

\* start_job and the publication that follows it.
StartJob ==
  /\ console.pc = "idle"
  /\ r.gen < console.gen
  /\ r' = [gen |-> console.gen, pc |-> "startup", n |-> 0, kept |-> None]
  /\ console' = [console EXCEPT !.pc = "publish"]
  /\ UNCHANGED <<file, tty, notice, history>>

(* Faulty variants of the definitions below, used only to test properties. *)

\* Sent at once, and busy is told with the next publication.
SubmitUnannounced ==
  /\ console.pc = "idle" /\ console.open /\ ~console.pending
  /\ Alive(console.gen)
  /\ tty.lines < MaxLines
  /\ tty' = [tty EXCEPT !.lines = @ + 1, !.typed = @ + 1]
  /\ console' = [console EXCEPT !.pending = TRUE]
  /\ history' = [history EXCEPT !.ahead = @ \/ r.pc # "prompt" \/ tty.prompts > 0]
  /\ UNCHANGED <<file, r, notice>>

\* A prompt ends the submission, lines that wait or not.
parse_output_done ==
  /\ console.pc = "idle" /\ console.open /\ tty.prompts > 0
  /\ tty' = [tty EXCEPT !.prompts = @ - 1]
  /\ console' = [console EXCEPT !.pending = FALSE, !.busy = FALSE,
                                !.pc = IF console.busy THEN "publish" ELSE "idle"]
  /\ UNCHANGED <<file, r, notice, history>>

\* A notice while the console is busy is dropped.
RepublishUnlessBusy ==
  /\ console.pc = "idle" /\ notice
  /\ notice' = FALSE
  /\ console' = [console EXCEPT !.pc = IF console.open /\ ~console.busy THEN "publish" ELSE "idle"]
  /\ UNCHANGED <<file, r, tty, history>>

\* Gone, with its R still running.
LeaveRunning ==
  /\ console.pc = "idle"
  /\ console' = Console(console.gen, "gone")
  /\ notice' = FALSE
  /\ UNCHANGED <<file, r, tty, history>>

-----------------------------------------------------------------------------
\* send_to_job: busy is published before the line is sent, and the line is sent
\* at once only if nothing else is under way.
Submit ==
  /\ console.pc = "idle"
  /\ console.open
  /\ Alive(console.gen)
  /\ tty.lines < MaxLines
  /\ tty' = [tty EXCEPT !.lines = @ + 1]
  /\ console' = [console EXCEPT !.pc = "publish", !.busy = TRUE, !.pending = TRUE,
                                !.send = ~console.pending,
                                !.queue = IF console.pending THEN @ + 1 ELSE @]
  /\ history' = [history EXCEPT !.ahead =
                    @ \/ (~console.pending /\ (r.pc # "prompt" \/ tty.prompts > 0))]
  /\ UNCHANGED <<file, r, notice>>

\* parse_output: the output read so far ends in a prompt.  The next line goes to R
\* and the console stays busy, or it is not busy any more.
parse_output ==
  /\ console.pc = "idle"
  /\ console.open
  /\ tty.prompts > 0
  /\ LET more == console.pending /\ console.queue > 0 IN
     /\ tty' = [tty EXCEPT !.prompts = @ - 1, !.typed = IF more THEN @ + 1 ELSE @]
     /\ console' = [console EXCEPT
          !.queue = IF more THEN @ - 1 ELSE @, !.pending = more, !.busy = more,
          !.pc = IF more = console.busy THEN "idle" ELSE "publish"]
  /\ UNCHANGED <<file, r, notice, history>>

\* The output read goes on after a prompt, which then is not one.
SkipPrompt ==
  /\ console.pc = "idle"
  /\ console.open
  /\ tty.prompts > (IF r.pc \in {"eval", "record", "rename"} THEN 0 ELSE 1)
  /\ tty' = [tty EXCEPT !.prompts = @ - 1]
  /\ UNCHANGED <<file, r, console, notice, history>>

\* The scheduled half of publish_soon; a closed console has closed its watcher.
Republish ==
  /\ console.pc = "idle"
  /\ notice
  /\ notice' = FALSE
  /\ console' = [console EXCEPT !.pc = IF console.open THEN "publish" ELSE "idle"]
  /\ UNCHANGED <<file, r, tty, history>>

\* on_exit and close_resources.
Close ==
  /\ console.pc = "idle"
  /\ console.open
  /\ r.gen = console.gen
  /\ r.pc = "down"
  /\ console' = [console EXCEPT !.pc = "publish", !.open = FALSE, !.pending = FALSE, !.queue = 0]
  /\ UNCHANGED <<file, r, tty, notice, history>>

\* qa!, or the buffer of a closed console is wiped out.
Leave ==
  /\ console.pc = "idle"
  /\ ~console.open
  /\ console' = Console(console.gen, "gone")
  /\ notice' = FALSE
  /\ UNCHANGED <<file, r, tty, history>>

\* What the console does next when publish_status returns: the line that waited for
\* it.
Published(c) ==
  [c EXCEPT !.pc = "idle", !.send = FALSE, !.read = None]

LineSent == tty' = [tty EXCEPT !.typed = IF console.send THEN @ + 1 ELSE @]

\* publish_status up to the comparison in merge_status_file: the process R had when
\* the submission began, the payload, and nothing to do if the fields are there.
publish_status ==
  /\ console.pc = "publish"
  /\ LET rec == IF file.torn THEN None ELSE file.rec
         mark == IF file.torn THEN None ELSE file.mark
         pid == IF ~console.busy THEN None
                ELSE IF console.pid # None \/ rec = None THEN console.pid ELSE rec.gen
         c == [console EXCEPT !.pid = pid, !.read = rec] IN
     IF mark = [ConsoleFields EXCEPT !.pid = pid]
     THEN console' = Published(c) /\ LineSent
     ELSE console' = [c EXCEPT !.pc = "truncate"] /\ UNCHANGED tty
  /\ UNCHANGED <<file, r, notice, history>>

\* writefile opens the file that has the name now ...
Truncate ==
  /\ console.pc = "truncate"
  /\ file' = [file EXCEPT !.torn = TRUE]
  /\ console' = [console EXCEPT !.pc = "write"]
  /\ notice' = TRUE
  /\ UNCHANGED <<r, tty, history>>

\* ... and writes to it, seen or not: R may have put another in its place.
merge_status_file ==
  /\ console.pc = "write"
  /\ IF file.torn
     THEN /\ Replace(console.read, ConsoleFields)
          /\ history' = [history EXCEPT !.clobbered = @ \/ console.read # file.rec]
          /\ notice' = TRUE
     ELSE UNCHANGED <<file, history, notice>>
  /\ console' = Published(console)
  /\ LineSent
  /\ UNCHANGED <<r>>

\* Neovim is killed; R loses its terminal.
Hangup ==
  /\ console.pc # "gone"
  /\ console' = Console(console.gen, "gone")
  /\ r' = [r EXCEPT !.pc = "down", !.kept = None]
  /\ notice' = FALSE
  /\ UNCHANGED <<file, tty, history>>

-----------------------------------------------------------------------------
(* Specification *)

RStep == ReadPreserved \/ write_status \/ ReadLine \/ EvalEnds

ConsoleStep ==
  \/ StartJob \/ parse_output \/ Republish \/ Close \/ Leave
  \/ publish_status \/ Truncate \/ merge_status_file

Next ==
  \/ RStep
  \/ Exit
  \/ ConsoleStep
  \/ Open
  \/ Submit
  \/ SkipPrompt
  \/ Hangup

Spec == Init /\ [][Next]_vars

\* Processes that run go on running; the user, and the end of an evaluation apart.
FairSpec ==
  /\ Spec
  /\ WF_vars(ReadPreserved) /\ WF_vars(write_status) /\ WF_vars(ReadLine)
  /\ WF_vars(ConsoleStep)

-----------------------------------------------------------------------------
(* Properties *)

\* merge_status_file and .preserved_status_fields overwrite each other's work
\* without a lock.  Once the console rests with no change of the directory left to
\* look at, the file is complete and shows the console as it is; and R's part is
\* what R last wrote, unless the console wrote back an older record.  The console's
\* watcher is taken to run (start_status_publisher).
RestingFileIsTrue ==
  console.pc = "idle" /\ ~notice =>
    /\ ~file.torn
    /\ file.mark = ConsoleFields
    /\ ~history.clobbered /\ Alive(console.gen) /\ r.pc \in {"prompt", "eval"} =>
         file.rec = [gen |-> r.gen, n |-> r.n]

\* "Consumers can skip futile probes even when R will not service events again until
\* evaluation completes": while R evaluates what was submitted at a prompt, and the
\* console has dealt with all notices, the file defers requests.  Not so after a line
\* that was sent before the first prompt (ahead), nor while the file has a record of R
\* that the console wrote back (clobbered).
EvaluationIsDeferred ==
  r.pc = "eval" /\ console.pc = "idle" /\ ~notice /\ ~history.ahead /\ ~history.clobbered =>
    connection_from_status(file.rec, file.mark) = [gen |-> r.gen, owner |-> console.gen]

\* The console and R rewrite the file in answer to each other; the console's fields
\* come out right in the end, given a watcher that tells the console of R's renames.
ConsoleFieldsSettle ==
  console.pc # "gone" ~> console.pc = "gone" \/ (file.mark = ConsoleFields /\ ~file.torn)

\* A line that was submitted does not wait for ever: it goes to R, which may still be
\* busy with one before it, or is given up with the queue when R exits.
SubmittedIsSent == console.queue > 0 ~> console.queue = 0 \/ r.pc = "eval"

\* The two writers keep the contract the server reads the file under.
KeepsContract ==
  INSTANCE StatusContents WITH
    shown <- [conn |-> connection_from_status(file.rec, file.mark), torn |-> file.torn,
              there |-> file.rec # None \/ file.mark # None \/ file.torn],
    live <- [r |-> IF r.pc = "down" THEN None ELSE r.gen,
             console |-> IF console.pc = "gone" THEN None ELSE console.gen,
             started |-> r.gen, opened |-> console.gen]

ImplementsContents == KeepsContract!Contract
=============================================================================
