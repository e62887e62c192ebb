--------------------------- MODULE InstallRelease ---------------------------
(***************************************************************************)
(* scripts/install-release.sh: installers that run at the same time, are   *)
(* interrupted (the trap cleans up) or killed (nothing does), share a lock *)
(* directory, a directory of releases and the links "current" and          *)
(* "previous".  An action is one command of the script that reads or       *)
(* changes the file system; any other installer may run between two.       *)
(*                                                                         *)
(* Of a release directory the model keeps whether its binary passed the    *)
(* checks.  Of an owner file it keeps the process named (pid and start     *)
(* time together).  A process makes at most one lock directory, so its     *)
(* maker stands for the inode.                                             *)
(***************************************************************************)
EXTENDS Naturals, FiniteSets

CONSTANTS
  Installers,    \* processes that run the script, once each
  Versions,      \* product versions of plugin checkouts
  None,          \* no process, no version, no lock
  Former         \* an installer of an earlier day, no longer alive

ASSUME InstallersAssumption ==
  /\ None \notin Installers \cup Versions \cup {Former}
  /\ Former \notin Installers

VARIABLES
  lock,          \* .install-lock: its maker, owner file and age, or None
  releases,      \* the binary in each version's directory under releases/
  current, previous,
  proc,          \* what each installer is doing and remembers
  staging,       \* content of each installer's staging directory
  stolen,        \* history: some live installer's lock was moved away
  littered       \* history: some installer was killed, or interrupted before it knew its lock

vars == <<lock, releases, current, previous, proc, staging, stolen, littered>>

Phases == {"idle", "mkdir", "identify", "own", "inspect", "steal", "fetch", "stage",
           "publish", "validate", "readlinks", "linkFirst", "linkSecond",
           "cleanup", "unlock", "done", "dead"}

\* Owners: who an owner file may name.
Owners == Installers \cup {Former}

Binaries == {"none", "unverified", "verified"}

Locks == [maker : Owners, owner : Owners \cup {None}, recent : BOOLEAN]

ASSUME NoneAssumption == None \notin Locks

TypeOK ==
  /\ lock \in Locks \cup {None}
  /\ releases \in [Versions -> Binaries]
  /\ current \in Versions \cup {None}
  /\ previous \in Versions \cup {None}
  /\ proc \in [Installers -> [pc : Phases, mode : {"install", "rollback"},
                              version : Versions \cup {None}, attempt : 1 .. 4,
                              acquired : BOOLEAN, identity : Owners \cup {None},
                              ok : BOOLEAN, signalled : BOOLEAN,
                              old : Versions \cup {None}]]
  /\ staging \in [Installers -> Binaries]
  /\ stolen \in BOOLEAN
  /\ littered \in BOOLEAN

\* A process that runs no script, or none any more.
Process(phase, signalled) ==
  [pc |-> phase, mode |-> "install", version |-> None, attempt |-> 1, acquired |-> FALSE,
   identity |-> None, ok |-> FALSE, signalled |-> signalled, old |-> None]

Init ==
  /\ lock \in {None} \cup
       [maker : {Former}, owner : {Former, None}, recent : BOOLEAN]
  /\ current \in Versions \cup {None}
  /\ releases = [v \in Versions |-> IF v = current THEN "verified" ELSE "none"]
  /\ previous = None
  /\ proc = [p \in Installers |-> Process("idle", FALSE)]
  /\ staging = [p \in Installers |-> "none"]
  /\ stolen = FALSE
  /\ littered = (lock # None)

-----------------------------------------------------------------------------
(* Helpers *)

\* kill -0 and the comparison of start times.
Alive(q) == q \in Installers /\ proc[q].pc \notin {"idle", "done", "dead"}

Goto(p, phase) == proc' = [proc EXCEPT ![p].pc = phase]

End(p, phase) == proc' = [proc EXCEPT ![p] = Process(phase, @.signalled \/ phase = "dead")]

\* set -e: a command that fails runs the exit trap.
Fail(p) == Goto(p, "cleanup")

files == <<releases, current, previous, staging>>

\* The script is between its locks: it has acquired one and not begun to let go.
Installing(p) ==
  proc[p].pc \in {"fetch", "stage", "publish", "validate", "readlinks", "linkFirst", "linkSecond"}

-----------------------------------------------------------------------------
(* Faulty variants of the definitions below, used only to test properties. *)

\* A named owner is taken for alive.
lock_must_be_preserved_by_name ==
  /\ lock # None
  /\ lock.owner = None => lock.recent

\* mkdir -p: succeeds on a directory that is there.
MakeLockAnyway(p) ==
  /\ proc[p].pc = "mkdir"
  /\ lock' = IF lock = None THEN [maker |-> p, owner |-> None, recent |-> TRUE] ELSE lock
  /\ Goto(p, "identify")
  /\ UNCHANGED <<files, stolen, littered>>

\* Goes on although the checksum is wrong.
VerifyInVain(p) ==
  /\ proc[p].pc = "stage"
  /\ \/ /\ staging' = [staging EXCEPT ![p] = "verified"]
        /\ IF releases[proc[p].version] # "none" THEN Fail(p) ELSE Goto(p, "publish")
     \/ Goto(p, "publish") /\ UNCHANGED staging
  /\ UNCHANGED <<lock, releases, current, previous, stolen, littered>>

\* Keeps the previous link of an earlier installation.
InstallPreviousOnce(p) ==
  /\ proc[p].pc = "linkFirst"
  /\ proc[p].mode = "install"
  /\ previous' = IF previous = None /\ proc[p].old # proc[p].version THEN proc[p].old ELSE previous
  /\ Goto(p, "linkSecond")
  /\ UNCHANGED <<lock, releases, current, staging, stolen, littered>>

\* Removes only a lock whose owner file was written.
CleanupOwned(p) ==
  /\ proc[p].pc = "cleanup"
  /\ staging' = [staging EXCEPT ![p] = "none"]
  /\ IF proc[p].acquired /\ lock # None /\ lock.maker = proc[p].identity /\ lock.owner = p
     THEN Goto(p, "unlock") ELSE End(p, "done")
  /\ UNCHANGED <<lock, releases, current, previous, stolen, littered>>

-----------------------------------------------------------------------------
(* The lock *)

\* Whether the check keeps the lock that is there.  A lock that has vanished
\* since mkdir failed is not kept: stat fails and its age counts from zero.
lock_must_be_preserved ==
  /\ lock # None
  /\ IF lock.owner = None THEN lock.recent ELSE Alive(lock.owner)

\* :Ark install or a build hook, unless the current binary already matches the
\* checkout, and :Ark rollback.
Start(p, mode, v) ==
  /\ proc[p].pc = "idle"
  /\ mode = "install" => current # v
  /\ proc' = [proc EXCEPT ![p].pc = "mkdir", ![p].mode = mode, ![p].version = v]
  /\ UNCHANGED <<lock, files, stolen, littered>>

MakeLock(p) ==
  /\ proc[p].pc = "mkdir"
  /\ lock = None
  /\ lock' = [maker |-> p, owner |-> None, recent |-> TRUE]
  /\ Goto(p, "identify")
  /\ UNCHANGED <<files, stolen, littered>>

LockExists(p) ==
  /\ proc[p].pc = "mkdir"
  /\ lock # None
  /\ Goto(p, "inspect")
  /\ UNCHANGED <<lock, files, stolen, littered>>

\* lock_acquired and lock_identity: the stat of the directory that has the name now.
Identify(p) ==
  /\ proc[p].pc = "identify"
  /\ proc' = [proc EXCEPT ![p].pc = "own", ![p].acquired = TRUE,
                          ![p].identity = IF lock = None THEN None ELSE lock.maker]
  /\ UNCHANGED <<lock, files, stolen, littered>>

\* The owner file goes into whatever directory has the name now.
write_lock_owner(p) ==
  /\ proc[p].pc = "own"
  /\ IF lock = None
     THEN Fail(p) /\ UNCHANGED lock
     ELSE Goto(p, "fetch") /\ lock' = [lock EXCEPT !.owner = p]
  /\ UNCHANGED <<files, stolen, littered>>

\* The verdict on somebody else's lock.
Inspect(p) ==
  /\ proc[p].pc = "inspect"
  /\ IF lock_must_be_preserved THEN Fail(p) ELSE Goto(p, "steal")
  /\ UNCHANGED <<lock, files, stolen, littered>>

\* Moving it away: by name, so the directory moved is the one there now.
Steal(p) ==
  /\ proc[p].pc = "steal"
  /\ lock' = None
  /\ stolen' = (stolen \/ (lock # None /\ Alive(lock.maker)))
  /\ proc' = [proc EXCEPT ![p].attempt = @ + 1,
                          ![p].pc = IF proc[p].attempt = 3 THEN "cleanup" ELSE "mkdir"]
  /\ UNCHANGED <<files, littered>>

\* Thirty seconds pass.  A script that runs needs less from mkdir to its owner file.
Age ==
  /\ lock # None
  /\ lock.recent
  /\ ~(Alive(lock.maker) /\ proc[lock.maker].pc \in {"identify", "own"})
  /\ lock' = [lock EXCEPT !.recent = FALSE]
  /\ UNCHANGED <<files, proc, stolen, littered>>

-----------------------------------------------------------------------------
(* install_release *)

\* The version is there: nothing to download.
AlreadyReleased(p) ==
  /\ proc[p].pc = "fetch"
  /\ proc[p].mode = "install"
  /\ releases[proc[p].version] # "none"
  /\ Goto(p, "validate")
  /\ UNCHANGED <<lock, files, stolen, littered>>

\* The two downloads; one that fails ends the script.
Download(p) ==
  /\ proc[p].pc = "fetch"
  /\ proc[p].mode = "install"
  /\ releases[proc[p].version] = "none"
  /\ staging' = [staging EXCEPT ![p] = "unverified"]
  /\ Goto(p, "stage") \/ Fail(p)
  /\ UNCHANGED <<lock, releases, current, previous, stolen, littered>>

\* Checksum, metadata, and that the release directory is not there.
Verify(p) ==
  /\ proc[p].pc = "stage"
  /\ \/ /\ staging' = [staging EXCEPT ![p] = "verified"]
        /\ IF releases[proc[p].version] # "none" THEN Fail(p) ELSE Goto(p, "publish")
     \/ Fail(p) /\ UNCHANGED staging
  /\ UNCHANGED <<lock, releases, current, previous, stolen, littered>>

\* The directory appears complete, in one rename.  If somebody else's has appeared
\* meanwhile, the staging directory is moved into it and its binary stays.
MoveStaged(p) ==
  /\ proc[p].pc = "publish"
  /\ releases' = [releases EXCEPT ![proc[p].version] = IF @ = "none" THEN staging[p] ELSE @]
  /\ staging' = [staging EXCEPT ![p] = "none"]
  /\ Goto(p, "validate")
  /\ UNCHANGED <<lock, current, previous, stolen, littered>>

\* The binary in place is asked for its metadata once more; a release of another
\* platform or schema under the same version ends the script.
validate_binary(p) ==
  /\ proc[p].pc = "validate"
  /\ Goto(p, "readlinks") \/ Fail(p)
  /\ UNCHANGED <<lock, files, stolen, littered>>

ReadCurrent(p) ==
  /\ proc[p].pc = "readlinks"
  /\ proc[p].mode = "install"
  /\ proc' = [proc EXCEPT ![p].pc = "linkFirst", ![p].old = current]
  /\ UNCHANGED <<lock, files, stolen, littered>>

\* atomic_link of previous, then of current.
InstallPrevious(p) ==
  /\ proc[p].pc = "linkFirst"
  /\ proc[p].mode = "install"
  /\ previous' = IF proc[p].old \in {None, proc[p].version} THEN previous ELSE proc[p].old
  /\ Goto(p, "linkSecond")
  /\ UNCHANGED <<lock, releases, current, staging, stolen, littered>>

InstallCurrent(p) ==
  /\ proc[p].pc = "linkSecond"
  /\ proc[p].mode = "install"
  /\ current' = proc[p].version
  /\ proc' = [proc EXCEPT ![p].pc = "cleanup", ![p].ok = TRUE]
  /\ UNCHANGED <<lock, releases, previous, staging, stolen, littered>>

-----------------------------------------------------------------------------
(* rollback_release *)

\* Both links are read; the previous binary must be that of the checkout, and of
\* this platform.
ReadPrevious(p) ==
  /\ proc[p].pc = "fetch"
  /\ proc[p].mode = "rollback"
  /\ \/ /\ previous = proc[p].version
        /\ releases[previous] # "none"
        /\ proc' = [proc EXCEPT ![p].pc = "linkFirst", ![p].old = current]
     \/ Fail(p)
  /\ UNCHANGED <<lock, files, stolen, littered>>

RollbackCurrent(p) ==
  /\ proc[p].pc = "linkFirst"
  /\ proc[p].mode = "rollback"
  /\ current' = proc[p].version
  /\ Goto(p, "linkSecond")
  /\ UNCHANGED <<lock, releases, previous, staging, stolen, littered>>

RollbackPrevious(p) ==
  /\ proc[p].pc = "linkSecond"
  /\ proc[p].mode = "rollback"
  /\ previous' = IF proc[p].old \in {None, proc[p].version} THEN previous ELSE proc[p].old
  /\ proc' = [proc EXCEPT ![p].pc = "cleanup", ![p].ok = TRUE]
  /\ UNCHANGED <<lock, releases, current, staging, stolen, littered>>

-----------------------------------------------------------------------------
(* cleanup, and its absence *)

\* The staging directory goes; the lock is looked at.
CleanupStaging(p) ==
  /\ proc[p].pc = "cleanup"
  /\ staging' = [staging EXCEPT ![p] = "none"]
  /\ IF /\ proc[p].acquired
        /\ lock # None
        /\ lock.maker = proc[p].identity
        /\ lock.owner \in {None, p}
     THEN Goto(p, "unlock") ELSE End(p, "done")
  /\ UNCHANGED <<lock, releases, current, previous, stolen, littered>>

\* rm of the owner file and rmdir, again by name.
Unlock(p) ==
  /\ proc[p].pc = "unlock"
  /\ lock' = None
  /\ End(p, "done")
  /\ UNCHANGED <<files, stolen, littered>>

\* SIGINT or SIGTERM: the trap runs.
Interrupt(p) ==
  /\ proc[p].pc \notin {"idle", "cleanup", "unlock", "done", "dead"}
  /\ littered' = (littered \/ proc[p].pc = "identify")
  /\ proc' = [proc EXCEPT ![p].pc = "cleanup", ![p].signalled = TRUE]
  /\ UNCHANGED <<lock, files, stolen>>

\* SIGKILL or a loss of power: it does not.
Kill(p) ==
  /\ proc[p].pc \notin {"idle", "done", "dead"}
  /\ littered' = TRUE
  /\ End(p, "dead")
  /\ UNCHANGED <<lock, files, stolen>>

Step(p) ==
  \/ MakeLock(p) \/ LockExists(p) \/ Identify(p) \/ write_lock_owner(p)
  \/ Inspect(p) \/ Steal(p)
  \/ AlreadyReleased(p) \/ Download(p) \/ Verify(p) \/ MoveStaged(p)
  \/ validate_binary(p) \/ ReadCurrent(p) \/ InstallPrevious(p) \/ InstallCurrent(p)
  \/ ReadPrevious(p) \/ RollbackCurrent(p) \/ RollbackPrevious(p)
  \/ CleanupStaging(p) \/ Unlock(p)

Next ==
  \/ \E p \in Installers :
       \/ \E mode \in {"install", "rollback"}, v \in Versions : Start(p, mode, v)
       \/ Step(p)
       \/ Interrupt(p)
       \/ Kill(p)
  \/ Age

Spec == Init /\ [][Next]_vars

\* A process that was started and not stopped goes on; time passes.
FairSpec == Spec /\ WF_vars(Age) /\ \A p \in Installers : WF_vars(Step(p))

-----------------------------------------------------------------------------
(* Properties *)

\* "The current pointer changes only after the new binary passes its version smoke
\* check": whatever is interrupted, killed or runs at the same time, the links lead
\* to binaries that were verified.
LinkedIsVerified ==
  \A v \in {current, previous} \ {None} : releases[v] = "verified"

\* Two installers are between acquire_install_lock and cleanup at once only after
\* the lock of a live one was moved away.
OneInstallsUnlessStolen ==
  ~stolen => \A p, q \in Installers : Installing(p) /\ Installing(q) => p = q

\* An installer that has finished its work and not yet let go of the lock leaves the
\* links it announced: its version current, the one it replaced previous.
\* "The previous pointer provides one-step rollback."
LinksAreTheAnnounced ==
  \A p \in Installers :
    ~stolen /\ proc[p].ok /\ proc[p].pc \in {"cleanup", "unlock"} =>
      /\ current = proc[p].version
      /\ proc[p].old \notin {None, current} => previous = proc[p].old

\* With nobody at work, and nobody killed or robbed on the way, neither a lock nor a
\* staging directory is left over.
LeavesNothingBehind ==
  ~littered /\ ~stolen /\ (\A p \in Installers : proc[p].pc \in {"idle", "done"}) =>
    /\ lock = None
    /\ \A p \in Installers : staging[p] = "none"

\* The lock of an installer of an earlier day, past its grace period.
Orphaned == lock # None /\ lock.maker = Former /\ ~lock.recent

\* "The next install must reclaim an ownerless/dead lock instead of permanently
\* wedging updates": an installer that meets an orphaned lock removes it, unless a
\* signal stops it first.
OrphanIsReclaimed ==
  \A p \in Installers :
    Orphaned /\ proc[p].pc = "mkdir" ~> ~Orphaned \/ proc[p].signalled

=============================================================================
