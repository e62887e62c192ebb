------------------------ MODULE InstallReleaseProofs ------------------------
(***************************************************************************)
(* The safety properties of InstallRelease, for any installers and         *)
(* versions, whatever is interrupted or killed.                            *)
(***************************************************************************)
EXTENDS InstallRelease, TLAPS

ProcessType ==
  [pc : Phases, mode : {"install", "rollback"}, version : Versions \cup {None},
   attempt : 1 .. 4, acquired : BOOLEAN, identity : Owners \cup {None},
   ok : BOOLEAN, signalled : BOOLEAN, old : Versions \cup {None}]

Working == {"fetch", "stage", "publish", "validate", "readlinks", "linkFirst", "linkSecond"}

\* What an installer remembers at each point of the script.
PhaseInv(a) ==
  /\ a.pc \in {"idle", "mkdir", "inspect", "steal"} => a.attempt # 4
  /\ a.pc \notin {"idle", "done", "dead"} => a.version \in Versions
  /\ a.acquired => a.pc \in Working \cup {"own", "cleanup", "unlock"}
  /\ a.pc \in Working \cup {"own", "unlock"} => a.acquired
  /\ a.ok => a.acquired /\ a.pc \in {"cleanup", "unlock"}

\* What is true of the files while installer p, at a, is on its way to the links.
StageInv(p, a) ==
  /\ staging[p] # "none" => a.pc \in {"stage", "publish", "cleanup", "dead"}
  /\ a.pc = "publish" => staging[p] = "verified"
  /\ a.pc \in {"validate", "readlinks", "linkFirst", "linkSecond"} =>
       releases[a.version] = "verified"
  /\ a.pc \in {"linkFirst", "linkSecond"} /\ a.old # None => releases[a.old] = "verified"

ReleasesInv == \A v \in Versions : releases[v] # "unverified"

FilesInv ==
  /\ ReleasesInv
  /\ LinkedIsVerified
  /\ \A p \in Installers : StageInv(p, proc[p])

\* An installer that has made a lock and has not let go of it.
Holds(a) == a.pc = "identify" \/ a.acquired

\* As long as no live installer was robbed, the lock is that of the one who holds it.
LockInv ==
  ~stolen => \A p \in Installers : Holds(proc[p]) =>
    /\ lock # None /\ lock.maker = p
    /\ proc[p].acquired => proc[p].identity = p

\* Without kills, a lock that is there is held, and is not another's.
LitterInv ==
  ~stolen /\ ~littered /\ lock # None =>
    /\ lock.maker \in Installers
    /\ Holds(proc[lock.maker])
    /\ lock.owner \in {None, lock.maker}

\* Between the two links the first one is as the installer left it.
HalfwayInv ==
  ~stolen => \A p \in Installers : proc[p].pc = "linkSecond" =>
    IF proc[p].mode = "install"
    THEN proc[p].old \notin {None, proc[p].version} => previous = proc[p].old
    ELSE current = proc[p].version

IInv ==
  /\ TypeOK
  /\ \A p \in Installers : PhaseInv(proc[p])
  /\ FilesInv
  /\ LockInv
  /\ LitterInv
  /\ HalfwayInv
  /\ LinksAreTheAnnounced

-----------------------------------------------------------------------------
(* What a step does to the process that takes it *)

\* The step is p's own: the others stay where they are.
Own(p) ==
  /\ proc' \in [Installers -> ProcessType]
  /\ \A q \in Installers : q # p => proc'[q] = proc[q]

\* p goes on to a phase and remembers what it did.
Moves(p, phase) ==
  /\ Own(p)
  /\ proc'[p].pc = phase
  /\ proc'[p].mode = proc[p].mode
  /\ proc'[p].version = proc[p].version
  /\ proc'[p].attempt = proc[p].attempt
  /\ proc'[p].acquired = proc[p].acquired
  /\ proc'[p].identity = proc[p].identity
  /\ proc'[p].ok = proc[p].ok
  /\ proc'[p].old = proc[p].old

\* p ends, with nothing to remember.
Ends(p, phase) ==
  /\ Own(p)
  /\ proc'[p].pc = phase
  /\ proc'[p].acquired = FALSE
  /\ proc'[p].ok = FALSE

LEMMA OneProcess ==
  ASSUME TypeOK, NEW p \in Installers, NEW a \in ProcessType, proc' = [proc EXCEPT ![p] = a]
  PROVE  Own(p) /\ proc'[p] = a
BY DEF TypeOK, ProcessType, Own

LEMMA GotoMoves ==
  ASSUME TypeOK, NEW p \in Installers, NEW phase \in Phases, Goto(p, phase)
  PROVE  Moves(p, phase)
<1> DEFINE a == [proc[p] EXCEPT !.pc = phase]
<1>1. proc[p] \in ProcessType
  BY DEF TypeOK, ProcessType
<1>2. a \in ProcessType
  BY <1>1 DEF ProcessType
<1>3. proc' = [proc EXCEPT ![p] = a]
  BY DEF Goto
<1>4. /\ a.pc = phase /\ a.mode = proc[p].mode /\ a.version = proc[p].version
      /\ a.attempt = proc[p].attempt /\ a.acquired = proc[p].acquired
      /\ a.identity = proc[p].identity /\ a.ok = proc[p].ok /\ a.old = proc[p].old
  BY <1>1 DEF ProcessType
<1> HIDE DEF a
<1> QED BY <1>2, <1>3, <1>4, OneProcess DEF Moves

LEMMA EndEnds ==
  ASSUME TypeOK, NEW p \in Installers, NEW phase \in Phases, End(p, phase)
  PROVE  Ends(p, phase)
<1> DEFINE s == proc[p].signalled \/ phase = "dead"
<1> DEFINE a == Process(phase, s)
<1>1. s \in BOOLEAN
  OBVIOUS
<1>2. proc' = [proc EXCEPT ![p] = a]
  BY DEF End
<1> HIDE DEF s
<1>3. a \in ProcessType
  BY <1>1 DEF ProcessType, Process
<1>4. a.pc = phase /\ a.acquired = FALSE /\ a.ok = FALSE
  BY DEF Process
<1> HIDE DEF a
<1> QED BY <1>2, <1>3, <1>4, OneProcess DEF Ends

\* The records of the steps that remember something on the way.
StartRecord(p, mode, v) == [proc[p] EXCEPT !.pc = "mkdir", !.mode = mode, !.version = v]
IdentifyRecord(p) ==
  [proc[p] EXCEPT !.pc = "own", !.acquired = TRUE,
                  !.identity = IF lock = None THEN None ELSE lock.maker]
StealRecord(p, phase, n) == [proc[p] EXCEPT !.attempt = n, !.pc = phase]
ReadRecord(p) == [proc[p] EXCEPT !.pc = "linkFirst", !.old = current]
FinishRecord(p) == [proc[p] EXCEPT !.pc = "cleanup", !.ok = TRUE]
InterruptRecord(p) == [proc[p] EXCEPT !.pc = "cleanup", !.signalled = TRUE]

LEMMA StartEffect ==
  ASSUME TypeOK, NEW p \in Installers, NEW mode \in {"install", "rollback"},
         NEW v \in Versions, Start(p, mode, v)
  PROVE  /\ Own(p)
         /\ proc'[p].pc = "mkdir"
         /\ proc'[p].version = v
         /\ proc'[p].attempt = proc[p].attempt
         /\ proc'[p].acquired = proc[p].acquired
         /\ proc'[p].ok = proc[p].ok
<1> DEFINE a == StartRecord(p, mode, v)
<1>1. proc[p] \in ProcessType
  BY DEF TypeOK, ProcessType
<1>2. a \in ProcessType
  BY <1>1 DEF ProcessType, Phases, StartRecord
<1>3. proc' = [proc EXCEPT ![p] = a]
  BY DEF Start, StartRecord
<1>4. /\ a.pc = "mkdir" /\ a.version = v /\ a.attempt = proc[p].attempt
      /\ a.acquired = proc[p].acquired /\ a.ok = proc[p].ok
  BY <1>1 DEF ProcessType, StartRecord
<1> HIDE DEF a
<1> QED BY <1>2, <1>3, <1>4, OneProcess

LEMMA IdentifyEffect ==
  ASSUME TypeOK, NEW p \in Installers, Identify(p)
  PROVE  /\ Own(p)
         /\ proc'[p].pc = "own"
         /\ proc'[p].acquired = TRUE
         /\ proc'[p].identity = IF lock = None THEN None ELSE lock.maker
         /\ proc'[p].version = proc[p].version
         /\ proc'[p].ok = proc[p].ok
<1> DEFINE a == IdentifyRecord(p)
<1>1. proc[p] \in ProcessType
  BY DEF TypeOK, ProcessType
<1>2. lock # None => lock.maker \in Owners
  BY DEF TypeOK, Locks
<1>3. a \in ProcessType
  BY <1>1, <1>2 DEF ProcessType, Phases, IdentifyRecord
<1>4. proc' = [proc EXCEPT ![p] = a]
  BY DEF Identify, IdentifyRecord
<1>5. /\ a.pc = "own" /\ a.acquired = TRUE
      /\ a.identity = IF lock = None THEN None ELSE lock.maker
      /\ a.version = proc[p].version /\ a.ok = proc[p].ok
  BY <1>1 DEF ProcessType, IdentifyRecord
<1> HIDE DEF a
<1> QED BY <1>3, <1>4, <1>5, OneProcess

LEMMA StealEffect ==
  ASSUME TypeOK, NEW p \in Installers, PhaseInv(proc[p]), Steal(p)
  PROVE  /\ Own(p)
         /\ proc'[p].pc = IF proc[p].attempt = 3 THEN "cleanup" ELSE "mkdir"
         /\ proc'[p].attempt = proc[p].attempt + 1
         /\ proc[p].attempt \in Nat
         /\ proc'[p].acquired = proc[p].acquired
         /\ proc'[p].version = proc[p].version
         /\ proc'[p].ok = proc[p].ok
<1> DEFINE phase == IF proc[p].attempt = 3 THEN "cleanup" ELSE "mkdir"
<1> DEFINE n == proc[p].attempt + 1
<1> DEFINE a == StealRecord(p, phase, n)
<1>1. proc[p] \in ProcessType
  BY DEF TypeOK, ProcessType
<1>2. proc[p].attempt \in 1 .. 3
  <2>1. proc[p].attempt \in 1 .. 4
    BY <1>1 DEF ProcessType
  <2>2. proc[p].attempt # 4
    BY DEF PhaseInv, Steal
  <2> QED BY <2>1, <2>2
<1>3. phase \in Phases /\ n \in 1 .. 4 /\ proc[p].attempt \in Nat
  BY <1>2 DEF Phases
<1>4. proc' = [proc EXCEPT ![p] = a]
  BY DEF Steal, StealRecord
<1>5. /\ phase = IF proc[p].attempt = 3 THEN "cleanup" ELSE "mkdir"
      /\ n = proc[p].attempt + 1
  OBVIOUS
<1> HIDE DEF phase, n
<1>6. a \in ProcessType
  BY <1>1, <1>3 DEF ProcessType, StealRecord
<1>7. /\ a.pc = phase /\ a.attempt = n
      /\ a.acquired = proc[p].acquired /\ a.version = proc[p].version
      /\ a.ok = proc[p].ok
  BY <1>1 DEF ProcessType, StealRecord
<1> HIDE DEF a
<1>8. Own(p) /\ proc'[p] = a
  BY <1>4, <1>6, OneProcess
<1> QED BY <1>3, <1>5, <1>7, <1>8

LEMMA ReadEffect ==
  ASSUME TypeOK, NEW p \in Installers, proc' = [proc EXCEPT ![p].pc = "linkFirst", ![p].old = current]
  PROVE  /\ Own(p)
         /\ proc'[p].pc = "linkFirst"
         /\ proc'[p].old = current
         /\ proc'[p].mode = proc[p].mode
         /\ proc'[p].version = proc[p].version
         /\ proc'[p].acquired = proc[p].acquired
         /\ proc'[p].identity = proc[p].identity
         /\ proc'[p].ok = proc[p].ok
<1> DEFINE a == ReadRecord(p)
<1>1. proc[p] \in ProcessType /\ current \in Versions \cup {None}
  BY DEF TypeOK, ProcessType
<1>2. a \in ProcessType
  BY <1>1 DEF ProcessType, Phases, ReadRecord
<1>3. proc' = [proc EXCEPT ![p] = a]
  BY DEF ReadRecord
<1>4. /\ a.pc = "linkFirst" /\ a.old = current /\ a.mode = proc[p].mode
      /\ a.version = proc[p].version /\ a.acquired = proc[p].acquired
      /\ a.identity = proc[p].identity /\ a.ok = proc[p].ok
  BY <1>1 DEF ProcessType, ReadRecord
<1> HIDE DEF a
<1> QED BY <1>2, <1>3, <1>4, OneProcess

LEMMA FinishEffect ==
  ASSUME TypeOK, NEW p \in Installers, proc' = [proc EXCEPT ![p].pc = "cleanup", ![p].ok = TRUE]
  PROVE  /\ Own(p)
         /\ proc'[p].pc = "cleanup"
         /\ proc'[p].old = proc[p].old
         /\ proc'[p].version = proc[p].version
         /\ proc'[p].acquired = proc[p].acquired
         /\ proc'[p].identity = proc[p].identity
<1> DEFINE a == FinishRecord(p)
<1>1. proc[p] \in ProcessType
  BY DEF TypeOK, ProcessType
<1>2. a \in ProcessType
  BY <1>1 DEF ProcessType, Phases, FinishRecord
<1>3. proc' = [proc EXCEPT ![p] = a]
  BY DEF FinishRecord
<1>4. /\ a.pc = "cleanup" /\ a.old = proc[p].old
      /\ a.version = proc[p].version /\ a.acquired = proc[p].acquired
      /\ a.identity = proc[p].identity
  BY <1>1 DEF ProcessType, FinishRecord
<1> HIDE DEF a
<1> QED BY <1>2, <1>3, <1>4, OneProcess

LEMMA InterruptEffect ==
  ASSUME TypeOK, NEW p \in Installers, Interrupt(p)
  PROVE  Moves(p, "cleanup")
<1> DEFINE a == InterruptRecord(p)
<1>1. proc[p] \in ProcessType
  BY DEF TypeOK, ProcessType
<1>2. a \in ProcessType
  BY <1>1 DEF ProcessType, Phases, InterruptRecord
<1>3. proc' = [proc EXCEPT ![p] = a]
  BY DEF Interrupt, InterruptRecord
<1>4. /\ a.pc = "cleanup" /\ a.mode = proc[p].mode /\ a.version = proc[p].version
      /\ a.attempt = proc[p].attempt /\ a.acquired = proc[p].acquired
      /\ a.identity = proc[p].identity /\ a.ok = proc[p].ok /\ a.old = proc[p].old
  BY <1>1 DEF ProcessType, InterruptRecord
<1> HIDE DEF a
<1> QED BY <1>2, <1>3, <1>4, OneProcess DEF Moves

\* Any step of installer p.
Takes(p) ==
  \/ \E mode \in {"install", "rollback"}, v \in Versions : Start(p, mode, v)
  \/ Step(p)
  \/ Interrupt(p)
  \/ Kill(p)

\* Where the plain steps lead.
LEMMA PlainMoves ==
  ASSUME TypeOK, NEW p \in Installers
  PROVE  /\ MakeLock(p) => Moves(p, "identify")
         /\ LockExists(p) => Moves(p, "inspect")
         /\ AlreadyReleased(p) => Moves(p, "validate")
         /\ Download(p) => Moves(p, "stage") \/ Moves(p, "cleanup")
         /\ Verify(p) => Moves(p, "publish") \/ Moves(p, "cleanup")
         /\ MoveStaged(p) => Moves(p, "validate")
         /\ validate_binary(p) => Moves(p, "readlinks") \/ Moves(p, "cleanup")
         /\ InstallPrevious(p) => Moves(p, "linkSecond")
         /\ RollbackCurrent(p) => Moves(p, "linkSecond")
         /\ write_lock_owner(p) => Moves(p, "fetch") \/ Moves(p, "cleanup")
         /\ Inspect(p) => Moves(p, "cleanup") \/ Moves(p, "steal")
<1>1. \A phase \in Phases : Goto(p, phase) => Moves(p, phase)
  BY GotoMoves
<1>2. /\ Goto(p, "identify") => Moves(p, "identify")
      /\ Goto(p, "inspect") => Moves(p, "inspect")
      /\ Goto(p, "steal") => Moves(p, "steal")
      /\ Goto(p, "fetch") => Moves(p, "fetch")
      /\ Goto(p, "stage") => Moves(p, "stage")
      /\ Goto(p, "publish") => Moves(p, "publish")
      /\ Goto(p, "validate") => Moves(p, "validate")
      /\ Goto(p, "readlinks") => Moves(p, "readlinks")
      /\ Goto(p, "linkSecond") => Moves(p, "linkSecond")
      /\ Goto(p, "cleanup") => Moves(p, "cleanup")
  BY <1>1 DEF Phases
<1> QED
  BY <1>2 DEF Fail, MakeLock, LockExists, AlreadyReleased, Download, Verify, MoveStaged, validate_binary, InstallPrevious, RollbackCurrent, write_lock_owner, Inspect

LEMMA OtherMoves ==
  ASSUME TypeOK, NEW p \in Installers
  PROVE  /\ CleanupStaging(p) => \/ Moves(p, "unlock") /\ proc[p].acquired
                                 \/ Ends(p, "done")
         /\ Unlock(p) => Ends(p, "done")
         /\ Kill(p) => Ends(p, "dead")
         /\ ReadPrevious(p) => \/ Moves(p, "cleanup")
                               \/ proc' = [proc EXCEPT ![p].pc = "linkFirst", ![p].old = current]
<1>1. /\ Goto(p, "unlock") => Moves(p, "unlock")
      /\ Goto(p, "cleanup") => Moves(p, "cleanup")
  BY GotoMoves DEF Phases
<1>2. /\ End(p, "done") => Ends(p, "done")
      /\ End(p, "dead") => Ends(p, "dead")
  BY EndEnds DEF Phases
<1> QED BY <1>1, <1>2 DEF Fail, CleanupStaging, Unlock, Kill, ReadPrevious

LEMMA PhaseStep ==
  ASSUME TypeOK, NEW p \in Installers, PhaseInv(proc[p]), Takes(p)
  PROVE  Own(p) /\ PhaseInv(proc'[p])
<1>1. CASE MakeLock(p)
  <2>1. Moves(p, "identify")
    BY <1>1, PlainMoves
  <2> QED BY <1>1, <2>1 DEF Moves, MakeLock, PhaseInv, Working
<1>2. CASE LockExists(p)
  <2>1. Moves(p, "inspect")
    BY <1>2, PlainMoves
  <2> QED BY <1>2, <2>1 DEF Moves, LockExists, PhaseInv, Working
<1>3. CASE AlreadyReleased(p)
  <2>1. Moves(p, "validate")
    BY <1>3, PlainMoves
  <2> QED BY <1>3, <2>1 DEF Moves, AlreadyReleased, PhaseInv, Working
<1>4. CASE Download(p)
  <2>1. Moves(p, "stage") \/ Moves(p, "cleanup")
    BY <1>4, PlainMoves
  <2> QED BY <1>4, <2>1 DEF Moves, Download, PhaseInv, Working
<1>5. CASE Verify(p)
  <2>1. Moves(p, "publish") \/ Moves(p, "cleanup")
    BY <1>5, PlainMoves
  <2> QED BY <1>5, <2>1 DEF Moves, Verify, PhaseInv, Working
<1>6. CASE MoveStaged(p)
  <2>1. Moves(p, "validate")
    BY <1>6, PlainMoves
  <2> QED BY <1>6, <2>1 DEF Moves, MoveStaged, PhaseInv, Working
<1>7. CASE validate_binary(p)
  <2>1. Moves(p, "readlinks") \/ Moves(p, "cleanup")
    BY <1>7, PlainMoves
  <2> QED BY <1>7, <2>1 DEF Moves, validate_binary, PhaseInv, Working
<1>8. CASE InstallPrevious(p)
  <2>1. Moves(p, "linkSecond")
    BY <1>8, PlainMoves
  <2> QED BY <1>8, <2>1 DEF Moves, InstallPrevious, PhaseInv, Working
<1>9. CASE RollbackCurrent(p)
  <2>1. Moves(p, "linkSecond")
    BY <1>9, PlainMoves
  <2> QED BY <1>9, <2>1 DEF Moves, RollbackCurrent, PhaseInv, Working
<1>10. CASE write_lock_owner(p)
  <2>1. Moves(p, "fetch") \/ Moves(p, "cleanup")
    BY <1>10, PlainMoves
  <2> QED BY <1>10, <2>1 DEF Moves, write_lock_owner, PhaseInv, Working
<1>11. CASE Inspect(p)
  <2>1. Moves(p, "cleanup") \/ Moves(p, "steal")
    BY <1>11, PlainMoves
  <2> QED BY <1>11, <2>1 DEF Moves, Inspect, PhaseInv, Working
<1>12. CASE CleanupStaging(p)
  <2>1. proc[p].pc = "cleanup" /\ proc[p].version \in Versions
    BY <1>12 DEF CleanupStaging, PhaseInv
  <2>2. CASE Ends(p, "done")
    BY <2>2 DEF Ends, PhaseInv, Working
  <2>3. CASE Moves(p, "unlock") /\ proc[p].acquired
    BY <2>1, <2>3 DEF Moves, PhaseInv, Working
  <2>4. Ends(p, "done") \/ (Moves(p, "unlock") /\ proc[p].acquired)
    BY <1>12, OtherMoves
  <2> QED BY <2>2, <2>3, <2>4
<1>13. CASE Unlock(p)
  BY <1>13, OtherMoves DEF Moves, Ends, Unlock, PhaseInv, Working
<1>14. CASE Kill(p)
  BY <1>14, OtherMoves DEF Moves, Ends, Kill, PhaseInv, Working
<1>15. CASE ReadPrevious(p)
  BY <1>15, OtherMoves, ReadEffect DEF Moves, ReadPrevious, PhaseInv, Working
<1>16. CASE ReadCurrent(p)
  BY <1>16, ReadEffect DEF ReadCurrent, PhaseInv, Working
<1>17. CASE InstallCurrent(p)
  BY <1>17, FinishEffect DEF InstallCurrent, PhaseInv, Working
<1>18. CASE RollbackPrevious(p)
  BY <1>18, FinishEffect DEF RollbackPrevious, PhaseInv, Working
<1>19. CASE Identify(p)
  BY <1>19, IdentifyEffect DEF Identify, PhaseInv, Working
<1>20. CASE Steal(p)
  <2>1. proc[p].pc = "steal"
    BY <1>20 DEF Steal
  <2>2. ~proc[p].acquired /\ ~proc[p].ok /\ proc[p].version \in Versions
    BY <2>1 DEF PhaseInv, Working
  <2> QED BY <1>20, <2>2, StealEffect DEF PhaseInv, Working
<1>21. CASE Interrupt(p)
  BY <1>21, InterruptEffect DEF Interrupt, Moves, PhaseInv, Working
<1>22. CASE \E mode \in {"install", "rollback"}, v \in Versions : Start(p, mode, v)
  <2>1. PICK mode \in {"install", "rollback"}, v \in Versions : Start(p, mode, v)
    BY <1>22
  <2>2. proc[p].pc = "idle"
    BY <2>1 DEF Start
  <2> QED BY <2>1, <2>2, StartEffect DEF PhaseInv, Working
<1> QED BY <1>1, <1>2, <1>3, <1>4, <1>5, <1>6, <1>7, <1>8, <1>9, <1>10, <1>11, <1>12, <1>13, <1>14, <1>15, <1>16, <1>17, <1>18, <1>19, <1>20, <1>21, <1>22 DEF Takes, Step

-----------------------------------------------------------------------------
(* Types *)

StateType ==
  /\ lock \in Locks \cup {None}
  /\ releases \in [Versions -> Binaries]
  /\ current \in Versions \cup {None}
  /\ previous \in Versions \cup {None}
  /\ staging \in [Installers -> Binaries]
  /\ stolen \in BOOLEAN
  /\ littered \in BOOLEAN

LEMMA TypesSplit == TypeOK <=> StateType /\ proc \in [Installers -> ProcessType]
BY DEF TypeOK, StateType, ProcessType

LEMMA StateTypeStep ==
  ASSUME TypeOK, NEW p \in Installers, PhaseInv(proc[p]), Takes(p)
  PROVE  StateType'
<1>1. StateType /\ proc[p] \in ProcessType
  BY TypesSplit
<1>2. /\ proc[p].old \in Versions \cup {None}
      /\ proc[p].pc \notin {"idle", "done", "dead"} => proc[p].version \in Versions
  BY <1>1 DEF ProcessType, PhaseInv
<1>3. p \in Owners
  BY DEF Owners
<1>4. CASE MakeLock(p)
  <2>1. [maker |-> p, owner |-> None, recent |-> TRUE] \in Locks
    BY <1>3 DEF Locks
  <2> QED BY <1>1, <1>4, <2>1 DEF MakeLock, StateType, files
<1>5. CASE write_lock_owner(p)
  <2>1. lock # None => [lock EXCEPT !.owner = p] \in Locks
    BY <1>1, <1>3 DEF StateType, Locks
  <2> QED BY <1>1, <1>5, <2>1 DEF write_lock_owner, StateType, files
<1>6. CASE Steal(p)
  BY <1>1, <1>6 DEF Steal, StateType, files
<1>7. CASE Unlock(p)
  BY <1>1, <1>7 DEF Unlock, StateType, files
<1>8. CASE Download(p)
  BY <1>1, <1>8 DEF Download, StateType, Binaries
<1>9. CASE Verify(p)
  BY <1>1, <1>9 DEF Verify, StateType, Binaries
<1>10. CASE MoveStaged(p)
  <2>1. proc[p].version \in Versions
    BY <1>2, <1>10 DEF MoveStaged
  <2> QED BY <1>1, <1>10, <2>1 DEF MoveStaged, StateType, Binaries
<1>11. CASE CleanupStaging(p)
  BY <1>1, <1>11 DEF CleanupStaging, StateType, Binaries
<1>12. CASE InstallPrevious(p)
  BY <1>1, <1>2, <1>12 DEF InstallPrevious, StateType
<1>13. CASE InstallCurrent(p)
  BY <1>1, <1>2, <1>13 DEF InstallCurrent, StateType
<1>14. CASE RollbackCurrent(p)
  BY <1>1, <1>2, <1>14 DEF RollbackCurrent, StateType
<1>15. CASE RollbackPrevious(p)
  BY <1>1, <1>2, <1>15 DEF RollbackPrevious, StateType
<1>16. CASE Interrupt(p)
  BY <1>1, <1>16 DEF Interrupt, StateType, files
<1>17. CASE Kill(p)
  BY <1>1, <1>17 DEF Kill, StateType, files
<1>18. CASE UNCHANGED <<lock, files, stolen, littered>>
  BY <1>1, <1>18 DEF StateType, files
<1>19. \/ LockExists(p) \/ Identify(p) \/ Inspect(p) \/ AlreadyReleased(p)
       \/ validate_binary(p) \/ ReadCurrent(p) \/ ReadPrevious(p)
       \/ (\E mode \in {"install", "rollback"}, v \in Versions : Start(p, mode, v))
       => UNCHANGED <<lock, files, stolen, littered>>
  BY DEF LockExists, Identify, Inspect, AlreadyReleased, validate_binary, ReadCurrent,
         ReadPrevious, Start
<1> QED BY <1>4, <1>5, <1>6, <1>7, <1>8, <1>9, <1>10, <1>11, <1>12, <1>13, <1>14, <1>15,
           <1>16, <1>17, <1>18, <1>19 DEF Takes, Step

-----------------------------------------------------------------------------
(* The files *)

Grows == \A v \in Versions : releases[v] = "verified" => releases'[v] = "verified"

\* What others do to the files does not disturb an installer.
LEMMA OthersStage ==
  ASSUME TypeOK, Grows, NEW p \in Installers, Own(p), NEW q \in Installers, q # p,
         staging'[q] = staging[q], PhaseInv(proc[q]), StageInv(q, proc[q])
  PROVE  StageInv(q, proc[q])'
<1>1. proc'[q] = proc[q]
  BY DEF Own
<1>2. proc[q].old \in Versions \cup {None}
  BY TypesSplit DEF ProcessType
<1>3. proc[q].pc \in {"validate", "readlinks", "linkFirst", "linkSecond"} =>
        proc[q].version \in Versions
  BY DEF PhaseInv
<1> QED BY <1>1, <1>2, <1>3 DEF StageInv, Grows

\* Putting it together: a step is right about its own installer, the releases and the links.
LEMMA FilesKept ==
  ASSUME TypeOK, NEW p \in Installers, Own(p), Grows,
         \A q \in Installers : q # p => staging'[q] = staging[q],
         \A q \in Installers : PhaseInv(proc[q]),
         FilesInv, ReleasesInv', LinkedIsVerified', StageInv(p, proc[p])'
  PROVE  FilesInv'
<1>1. \A q \in Installers : StageInv(q, proc[q])'
  BY OthersStage DEF FilesInv
<1> QED BY <1>1 DEF FilesInv

\* If the files stay, the installer's own part is all there is to show.
LEMMA FilesUntouched ==
  ASSUME TypeOK, NEW p \in Installers, Own(p), UNCHANGED files,
         \A q \in Installers : PhaseInv(proc[q]),
         FilesInv, StageInv(p, proc[p])'
  PROVE  FilesInv'
<1>1. UNCHANGED <<releases, current, previous, staging>>
  BY DEF files
<1>2. Grows /\ ReleasesInv' /\ LinkedIsVerified'
  BY <1>1 DEF Grows, FilesInv, ReleasesInv, LinkedIsVerified
<1> QED BY <1>1, <1>2, FilesKept

LEMMA FilesStep ==
  ASSUME TypeOK, NEW p \in Installers, \A q \in Installers : PhaseInv(proc[q]), FilesInv, Takes(p)
  PROVE  FilesInv'
<1>1. /\ Own(p)
      /\ StageInv(p, proc[p])
      /\ PhaseInv(proc[p])
      /\ ReleasesInv
      /\ LinkedIsVerified
  BY PhaseStep DEF FilesInv
<1>2. /\ releases \in [Versions -> Binaries]
      /\ staging \in [Installers -> Binaries]
      /\ current \in Versions \cup {None}
      /\ proc[p].old \in Versions \cup {None}
      /\ proc[p].pc \notin {"idle", "done", "dead"} => proc[p].version \in Versions
      /\ None \notin Versions
  BY <1>1, TypesSplit, InstallersAssumption DEF StateType, ProcessType, PhaseInv
<1>3. UNCHANGED releases => Grows /\ ReleasesInv'
  BY <1>1 DEF Grows, ReleasesInv
<1>4. UNCHANGED <<releases, current, previous>> => LinkedIsVerified'
  BY <1>1 DEF LinkedIsVerified
<1>5. /\ UNCHANGED staging => \A q \in Installers : q # p => staging'[q] = staging[q]
      /\ \A b \in Binaries : staging' = [staging EXCEPT ![p] = b] =>
           /\ \A q \in Installers : q # p => staging'[q] = staging[q]
           /\ staging'[p] = b
  BY <1>2
<1>6. CASE MakeLock(p)
  <2>1. UNCHANGED files /\ (Moves(p, "identify"))
    BY <1>6, PlainMoves DEF MakeLock
  <2>2. StageInv(p, proc[p])'
    BY <1>6, <1>1, <2>1 DEF Moves, StageInv, MakeLock, files
  <2> QED BY <1>1, <2>1, <2>2, FilesUntouched
<1>7. CASE LockExists(p)
  <2>1. UNCHANGED files /\ (Moves(p, "inspect"))
    BY <1>7, PlainMoves DEF LockExists
  <2>2. StageInv(p, proc[p])'
    BY <1>7, <1>1, <2>1 DEF Moves, StageInv, LockExists, files
  <2> QED BY <1>1, <2>1, <2>2, FilesUntouched
<1>8. CASE write_lock_owner(p)
  <2>1. UNCHANGED files /\ (Moves(p, "fetch") \/ Moves(p, "cleanup"))
    BY <1>8, PlainMoves DEF write_lock_owner
  <2>2. StageInv(p, proc[p])'
    BY <1>8, <1>1, <2>1 DEF Moves, StageInv, write_lock_owner, files
  <2> QED BY <1>1, <2>1, <2>2, FilesUntouched
<1>9. CASE Inspect(p)
  <2>1. UNCHANGED files /\ (Moves(p, "cleanup") \/ Moves(p, "steal"))
    BY <1>9, PlainMoves DEF Inspect
  <2>2. StageInv(p, proc[p])'
    BY <1>9, <1>1, <2>1 DEF Moves, StageInv, Inspect, files
  <2> QED BY <1>1, <2>1, <2>2, FilesUntouched
<1>10. CASE validate_binary(p)
  <2>1. UNCHANGED files /\ (Moves(p, "readlinks") \/ Moves(p, "cleanup"))
    BY <1>10, PlainMoves DEF validate_binary
  <2>2. StageInv(p, proc[p])'
    BY <1>10, <1>1, <2>1 DEF Moves, StageInv, validate_binary, files
  <2> QED BY <1>1, <2>1, <2>2, FilesUntouched
<1>11. CASE AlreadyReleased(p)
  <2>1. UNCHANGED files /\ Moves(p, "validate")
    BY <1>11, PlainMoves DEF AlreadyReleased
  <2>2. releases[proc[p].version] = "verified"
    BY <1>11, <1>1, <1>2 DEF AlreadyReleased, ReleasesInv, Binaries
  <2>3. staging[p] = "none"
    BY <1>11, <1>1 DEF AlreadyReleased, StageInv
  <2>4. StageInv(p, proc[p])'
    BY <2>1, <2>2, <2>3 DEF Moves, StageInv, files
  <2> QED BY <1>1, <2>1, <2>4, FilesUntouched
<1>12. CASE \E mode \in {"install", "rollback"}, v \in Versions : Start(p, mode, v)
  <2>1. PICK mode \in {"install", "rollback"}, v \in Versions : Start(p, mode, v)
    BY <1>12
  <2>2. UNCHANGED files /\ proc[p].pc = "idle"
    BY <2>1 DEF Start
  <2>3. proc'[p].pc = "mkdir"
    BY <2>1, StartEffect
  <2>4. StageInv(p, proc[p])'
    BY <1>1, <2>2, <2>3 DEF StageInv, files
  <2> QED BY <1>1, <2>2, <2>4, FilesUntouched
<1>13. CASE Identify(p)
  <2>1. UNCHANGED files /\ proc[p].pc = "identify" /\ proc'[p].pc = "own"
    BY <1>13, IdentifyEffect DEF Identify
  <2>2. StageInv(p, proc[p])'
    BY <1>1, <2>1 DEF StageInv, files
  <2> QED BY <1>1, <2>1, <2>2, FilesUntouched
<1>14. CASE Steal(p)
  <2>1. UNCHANGED files /\ proc[p].pc = "steal" /\ proc'[p].pc \in {"cleanup", "mkdir"}
    BY <1>14, <1>1, StealEffect DEF Steal
  <2>2. StageInv(p, proc[p])'
    BY <1>1, <2>1 DEF StageInv, files
  <2> QED BY <1>1, <2>1, <2>2, FilesUntouched
<1>15. CASE Download(p)
  <2>1. Moves(p, "stage") \/ Moves(p, "cleanup")
    BY <1>15, PlainMoves
  <2>2. staging'[p] = "unverified" /\ \A q \in Installers : q # p => staging'[q] = staging[q]
    BY <1>15, <1>5 DEF Download, Binaries
  <2>3. UNCHANGED <<releases, current, previous>>
    BY <1>15 DEF Download
  <2>4. StageInv(p, proc[p])'
    BY <2>1, <2>2 DEF Moves, StageInv
  <2> QED BY <1>1, <1>3, <1>4, <2>2, <2>3, <2>4, FilesKept
<1>16. CASE Verify(p)
  <2>1. proc[p].pc = "stage" /\ UNCHANGED <<releases, current, previous>>
    BY <1>16 DEF Verify
  <2>2. CASE staging' = [staging EXCEPT ![p] = "verified"]
    <3>1. staging'[p] = "verified" /\ \A q \in Installers : q # p => staging'[q] = staging[q]
      BY <1>5, <2>2 DEF Binaries
    <3>2. Moves(p, "publish") \/ Moves(p, "cleanup")
      BY <1>16, PlainMoves
    <3>3. StageInv(p, proc[p])'
      BY <3>1, <3>2 DEF Moves, StageInv
    <3> QED BY <1>1, <1>3, <1>4, <2>1, <3>1, <3>3, FilesKept
  <2>3. CASE Fail(p) /\ UNCHANGED staging
    <3>1. Moves(p, "cleanup")
      BY <2>3, GotoMoves DEF Fail, Phases
    <3>2. StageInv(p, proc[p])'
      BY <3>1 DEF Moves, StageInv
    <3> QED BY <1>1, <1>3, <1>4, <1>5, <2>1, <2>3, <3>2, FilesKept
  <2> QED BY <1>16, <2>2, <2>3 DEF Verify
<1>17. CASE MoveStaged(p)
  <2> DEFINE v == proc[p].version
  <2>1. Moves(p, "validate") /\ proc[p].pc = "publish"
    BY <1>17, PlainMoves DEF MoveStaged
  <2>2. v \in Versions /\ staging[p] = "verified"
    BY <1>1, <1>2, <2>1 DEF StageInv
  <2>3. staging'[p] = "none" /\ \A q \in Installers : q # p => staging'[q] = staging[q]
    BY <1>17, <1>5 DEF MoveStaged, Binaries
  <2>4. releases' = [releases EXCEPT ![v] = IF releases[v] = "none" THEN "verified" ELSE releases[v]]
    BY <1>17, <2>2 DEF MoveStaged
  <2>5. UNCHANGED <<current, previous>>
    BY <1>17 DEF MoveStaged
  <2>6. proc'[p].version = v /\ proc'[p].pc = "validate"
    BY <2>1 DEF Moves
  <2> HIDE DEF v
  <2>7. releases[v] \in {"none", "verified"}
    BY <1>1, <1>2, <2>2 DEF ReleasesInv, Binaries
  <2>8. /\ \A w \in Versions : w # v => releases'[w] = releases[w]
        /\ releases'[v] = "verified"
    BY <1>2, <2>2, <2>4, <2>7
  <2>9. Grows /\ ReleasesInv'
    BY <1>1, <2>8 DEF Grows, ReleasesInv
  <2>10. previous \in Versions \cup {None}
    BY TypesSplit DEF StateType
  <2>11. LinkedIsVerified'
    BY <1>1, <1>2, <2>5, <2>9, <2>10 DEF LinkedIsVerified, Grows
  <2>12. StageInv(p, proc[p])'
    BY <2>3, <2>6, <2>8 DEF StageInv
  <2> QED BY <1>1, <2>3, <2>9, <2>11, <2>12, FilesKept
<1>18. CASE ReadCurrent(p)
  <2>1. UNCHANGED files /\ proc[p].pc = "readlinks"
    BY <1>18 DEF ReadCurrent
  <2>2. /\ proc'[p].pc = "linkFirst" /\ proc'[p].old = current
        /\ proc'[p].version = proc[p].version
    BY <1>18, ReadEffect DEF ReadCurrent
  <2>3. StageInv(p, proc[p])'
    BY <1>1, <2>1, <2>2 DEF StageInv, files, LinkedIsVerified
  <2> QED BY <1>1, <2>1, <2>3, FilesUntouched
<1>19. CASE ReadPrevious(p)
  <2>1. UNCHANGED files /\ proc[p].pc = "fetch"
    BY <1>19 DEF ReadPrevious
  <2>2. CASE Moves(p, "cleanup")
    <3>1. StageInv(p, proc[p])'
      BY <2>2 DEF Moves, StageInv
    <3> QED BY <1>1, <2>1, <3>1, FilesUntouched
  <2>3. CASE /\ previous = proc[p].version
             /\ proc' = [proc EXCEPT ![p].pc = "linkFirst", ![p].old = current]
    <3>1. /\ proc'[p].pc = "linkFirst" /\ proc'[p].old = current
          /\ proc'[p].version = proc[p].version
      BY <2>3, ReadEffect
    <3>2. releases[proc[p].version] = "verified"
      BY <1>1, <1>2, <2>1, <2>3 DEF LinkedIsVerified
    <3>3. StageInv(p, proc[p])'
      BY <1>1, <2>1, <3>1, <3>2 DEF StageInv, files, LinkedIsVerified
    <3> QED BY <1>1, <2>1, <3>3, FilesUntouched
  <2>4. \/ Moves(p, "cleanup")
        \/ /\ previous = proc[p].version
           /\ proc' = [proc EXCEPT ![p].pc = "linkFirst", ![p].old = current]
    BY <1>19, GotoMoves DEF ReadPrevious, Fail, Phases
  <2> QED BY <2>2, <2>3, <2>4
<1>20. CASE InstallPrevious(p)
  <2>1. proc[p].pc = "linkFirst" /\ UNCHANGED <<releases, current, staging>>
    BY <1>20 DEF InstallPrevious
  <2>2. /\ proc'[p].pc = "linkSecond"
        /\ proc'[p].version = proc[p].version
        /\ proc'[p].old = proc[p].old
    BY <1>20, PlainMoves DEF Moves, InstallPrevious
  <2>3. LinkedIsVerified'
    BY <1>20, <1>1, <2>1 DEF InstallPrevious, StageInv, LinkedIsVerified
  <2>4. StageInv(p, proc[p])'
    BY <1>1, <2>1, <2>2 DEF StageInv
  <2> QED BY <1>1, <1>3, <1>5, <2>1, <2>3, <2>4, FilesKept
<1>21. CASE InstallCurrent(p)
  <2>1. proc[p].pc = "linkSecond" /\ UNCHANGED <<releases, previous, staging>>
    BY <1>21 DEF InstallCurrent
  <2>2. /\ proc'[p].pc = "cleanup"
        /\ proc'[p].version = proc[p].version
        /\ proc'[p].old = proc[p].old
    BY <1>21, FinishEffect DEF InstallCurrent
  <2>3. LinkedIsVerified'
    BY <1>21, <1>1, <2>1 DEF InstallCurrent, StageInv, LinkedIsVerified
  <2>4. StageInv(p, proc[p])'
    BY <1>1, <2>1, <2>2 DEF StageInv
  <2> QED BY <1>1, <1>3, <1>5, <2>1, <2>3, <2>4, FilesKept
<1>22. CASE RollbackCurrent(p)
  <2>1. proc[p].pc = "linkFirst" /\ UNCHANGED <<releases, previous, staging>>
    BY <1>22 DEF RollbackCurrent
  <2>2. /\ proc'[p].pc = "linkSecond"
        /\ proc'[p].version = proc[p].version
        /\ proc'[p].old = proc[p].old
    BY <1>22, PlainMoves DEF Moves, RollbackCurrent
  <2>3. LinkedIsVerified'
    BY <1>22, <1>1, <2>1 DEF RollbackCurrent, StageInv, LinkedIsVerified
  <2>4. StageInv(p, proc[p])'
    BY <1>1, <2>1, <2>2 DEF StageInv
  <2> QED BY <1>1, <1>3, <1>5, <2>1, <2>3, <2>4, FilesKept
<1>23. CASE RollbackPrevious(p)
  <2>1. proc[p].pc = "linkSecond" /\ UNCHANGED <<releases, current, staging>>
    BY <1>23 DEF RollbackPrevious
  <2>2. /\ proc'[p].pc = "cleanup"
        /\ proc'[p].version = proc[p].version
        /\ proc'[p].old = proc[p].old
    BY <1>23, FinishEffect DEF RollbackPrevious
  <2>3. LinkedIsVerified'
    BY <1>23, <1>1, <2>1 DEF RollbackPrevious, StageInv, LinkedIsVerified
  <2>4. StageInv(p, proc[p])'
    BY <1>1, <2>1, <2>2 DEF StageInv
  <2> QED BY <1>1, <1>3, <1>5, <2>1, <2>3, <2>4, FilesKept
<1>24. CASE CleanupStaging(p)
  <2>1. proc'[p].pc \in {"unlock", "done"}
    BY <1>24, OtherMoves DEF Moves, Ends
  <2>2. staging'[p] = "none" /\ \A q \in Installers : q # p => staging'[q] = staging[q]
    BY <1>24, <1>5 DEF CleanupStaging, Binaries
  <2>3. UNCHANGED <<releases, current, previous>>
    BY <1>24 DEF CleanupStaging
  <2>4. StageInv(p, proc[p])'
    BY <2>1, <2>2 DEF StageInv
  <2> QED BY <1>1, <1>3, <1>4, <2>2, <2>3, <2>4, FilesKept
<1>25. CASE Unlock(p)
  <2>1. UNCHANGED files /\ proc[p].pc = "unlock" /\ proc'[p].pc = "done"
    BY <1>25, OtherMoves DEF Unlock, Ends
  <2>2. StageInv(p, proc[p])'
    BY <1>1, <2>1 DEF StageInv, files
  <2> QED BY <1>1, <2>1, <2>2, FilesUntouched
<1>26. CASE Interrupt(p)
  <2>1. UNCHANGED files /\ proc'[p].pc = "cleanup"
    BY <1>26, InterruptEffect DEF Interrupt, Moves
  <2>2. StageInv(p, proc[p])'
    BY <2>1 DEF StageInv
  <2> QED BY <1>1, <2>1, <2>2, FilesUntouched
<1>27. CASE Kill(p)
  <2>1. UNCHANGED files /\ proc'[p].pc = "dead"
    BY <1>27, OtherMoves DEF Kill, Ends
  <2>2. StageInv(p, proc[p])'
    BY <2>1 DEF StageInv
  <2> QED BY <1>1, <2>1, <2>2, FilesUntouched
<1> QED
  BY <1>6, <1>7, <1>8, <1>9, <1>10, <1>11, <1>12, <1>13, <1>14, <1>15, <1>16, <1>17,
     <1>18, <1>19, <1>20, <1>21, <1>22, <1>23, <1>24, <1>25, <1>26, <1>27 DEF Takes,
     Step

-----------------------------------------------------------------------------
(* The lock *)

\* An installer that holds the lock is alive.
LEMMA HoldersAreAlive ==
  ASSUME NEW q \in Installers, PhaseInv(proc[q]), Holds(proc[q])
  PROVE  Alive(q)
BY DEF PhaseInv, Holds, Alive, Working

\* Two cannot hold it, unless a live one was robbed.
LEMMA OneHolds ==
  ASSUME LockInv, ~stolen, NEW p \in Installers, NEW q \in Installers,
         Holds(proc[p]), Holds(proc[q])
  PROVE  p = q
BY DEF LockInv

\* A step that leaves the lock's maker alone and claims nothing.
LEMMA LockUntouched ==
  ASSUME NEW p \in Installers, Own(p), LockInv,
         stolen => stolen',
         lock # None => lock' # None /\ lock'.maker = lock.maker,
         Holds(proc'[p]) => /\ Holds(proc[p])
                            /\ proc'[p].acquired => /\ proc[p].acquired
                                                    /\ proc'[p].identity = proc[p].identity
  PROVE  LockInv'
<1> SUFFICES ASSUME ~stolen', NEW q \in Installers, Holds(proc'[q])
             PROVE  /\ lock' # None /\ lock'.maker = q
                    /\ proc'[q].acquired => proc'[q].identity = q
  BY DEF LockInv
<1>1. CASE q = p
  BY <1>1 DEF LockInv
<1>2. CASE q # p
  <2>1. proc'[q] = proc[q]
    BY <1>2 DEF Own
  <2> QED BY <2>1 DEF LockInv
<1> QED BY <1>1, <1>2

\* A step after which the lock is gone, and which robbed nobody.
LEMMA LockGone ==
  ASSUME NEW p \in Installers, Own(p), stolen => stolen', ~Holds(proc'[p]),
         ~stolen' => \A q \in Installers : q # p => ~Holds(proc[q])
  PROVE  LockInv'
<1> SUFFICES ASSUME ~stolen', NEW q \in Installers, Holds(proc'[q])
             PROVE  FALSE
  BY DEF LockInv
<1>1. q # p
  OBVIOUS
<1>2. proc'[q] = proc[q]
  BY <1>1 DEF Own
<1> QED BY <1>1, <1>2

\* A step that leaves the lock alone and does not let go of it.
LEMMA LitterUntouched ==
  ASSUME NEW p \in Installers, Own(p), LitterInv, UNCHANGED lock,
         stolen => stolen', littered => littered',
         ~stolen' /\ ~littered' /\ lock # None /\ lock.maker = p /\ Holds(proc[p]) => Holds(proc'[p])
  PROVE  LitterInv'
<1> SUFFICES ASSUME ~stolen', ~littered', lock' # None
             PROVE  /\ lock'.maker \in Installers
                    /\ Holds(proc'[lock'.maker])
                    /\ lock'.owner \in {None, lock'.maker}
  BY DEF LitterInv
<1>1. /\ lock.maker \in Installers
      /\ Holds(proc[lock.maker])
      /\ lock.owner \in {None, lock.maker}
  BY DEF LitterInv
<1>2. CASE lock.maker = p
  BY <1>1, <1>2
<1>3. CASE lock.maker # p
  <2>1. proc'[lock.maker] = proc[lock.maker]
    BY <1>1, <1>3 DEF Own
  <2> QED BY <1>1, <2>1
<1> QED BY <1>2, <1>3

\* p keeps what it knows of the lock.
Keeps(p) ==
  /\ proc'[p].pc # "identify"
  /\ proc'[p].acquired = proc[p].acquired
  /\ proc'[p].identity = proc[p].identity

LEMMA LockKept ==
  ASSUME NEW p \in Installers, Own(p), LockInv, LitterInv,
         UNCHANGED <<lock, stolen, littered>>, proc[p].pc # "identify", Keeps(p)
  PROVE  LockInv' /\ LitterInv'
<1>1. /\ Holds(proc'[p]) => /\ Holds(proc[p])
                            /\ proc'[p].acquired => /\ proc[p].acquired
                                                    /\ proc'[p].identity = proc[p].identity
      /\ Holds(proc[p]) => Holds(proc'[p])
  BY DEF Keeps, Holds
<1> QED BY <1>1, LockUntouched, LitterUntouched

LEMMA LockStep ==
  ASSUME TypeOK, NEW p \in Installers, \A q \in Installers : PhaseInv(proc[q]),
         LockInv, LitterInv, Takes(p)
  PROVE  LockInv' /\ LitterInv'
<1>1. Own(p) /\ PhaseInv(proc[p]) /\ PhaseInv(proc'[p])
  BY PhaseStep
<1>2. lock # None => lock.maker \in Owners /\ lock.owner \in Owners \cup {None}
  BY TypesSplit DEF StateType, Locks
<1>3. CASE MakeLock(p)
  <2>1. /\ lock = None /\ lock' # None /\ lock'.maker = p /\ lock'.owner = None
        /\ UNCHANGED <<stolen, littered>>
    <3>1. [maker |-> p, owner |-> None, recent |-> TRUE] \in Locks
      BY DEF Locks, Owners
    <3> QED BY <1>3, <3>1, NoneAssumption DEF MakeLock
  <2>2. Moves(p, "identify") /\ proc[p].pc = "mkdir"
    BY <1>3, PlainMoves DEF MakeLock
  <2>3. proc'[p].pc = "identify" /\ ~proc'[p].acquired
    BY <1>1, <2>2 DEF Moves, PhaseInv, Working
  <2>4. LitterInv'
    BY <2>1, <2>3 DEF LitterInv, Holds
  <2>5. LockInv'
    <3> SUFFICES ASSUME ~stolen', NEW q \in Installers, Holds(proc'[q]), q # p
                 PROVE  FALSE
      BY <2>1, <2>3 DEF LockInv
    <3>1. Holds(proc[q])
      BY <1>1 DEF Own
    <3> QED BY <2>1, <3>1 DEF LockInv
  <2> QED BY <2>4, <2>5
<1>4. CASE Identify(p)
  <2>1. UNCHANGED <<lock, stolen, littered>> /\ proc[p].pc = "identify"
    BY <1>4 DEF Identify
  <2>2. /\ proc'[p].acquired
        /\ proc'[p].identity = IF lock = None THEN None ELSE lock.maker
    BY <1>4, IdentifyEffect
  <2>3. Holds(proc[p]) /\ Holds(proc'[p])
    BY <2>1, <2>2 DEF Holds
  <2>4. LitterInv'
    BY <1>1, <2>1, <2>3, LitterUntouched
  <2>5. LockInv'
    <3> SUFFICES ASSUME ~stolen', NEW q \in Installers, Holds(proc'[q])
                 PROVE  /\ lock' # None /\ lock'.maker = q
                        /\ proc'[q].acquired => proc'[q].identity = q
      BY DEF LockInv
    <3>1. CASE q = p
      BY <2>1, <2>2, <2>3, <3>1 DEF LockInv
    <3>2. CASE q # p
      <4>1. proc'[q] = proc[q]
        BY <1>1, <3>2 DEF Own
      <4> QED BY <2>1, <4>1 DEF LockInv
    <3> QED BY <3>1, <3>2
  <2> QED BY <2>4, <2>5
<1>5. CASE write_lock_owner(p)
  <2>1. /\ proc[p].pc = "own" /\ UNCHANGED <<stolen, littered>>
        /\ Moves(p, "fetch") \/ Moves(p, "cleanup")
    BY <1>5, PlainMoves DEF write_lock_owner
  <2>2. Holds(proc[p])
    BY <1>1, <2>1 DEF PhaseInv, Holds
  <2>3. /\ Holds(proc'[p]) => /\ Holds(proc[p])
                              /\ proc'[p].acquired => /\ proc[p].acquired
                                                      /\ proc'[p].identity = proc[p].identity
        /\ Holds(proc'[p])
    BY <1>1, <2>1, <2>2 DEF Moves, Holds, PhaseInv
  <2>4. CASE lock = None
    <3>1. UNCHANGED lock
      BY <1>5, <2>4 DEF write_lock_owner
    <3> QED BY <1>1, <2>1, <2>3, <2>4, <3>1, LockUntouched, LitterUntouched
  <2>5. CASE lock # None
    <3>1. lock' = [lock EXCEPT !.owner = p]
      BY <1>5, <2>5 DEF write_lock_owner
    <3>2. lock \in Locks /\ p \in Owners
      BY <2>5, TypesSplit DEF StateType, Owners
    <3>3. lock' \in Locks /\ lock'.maker = lock.maker /\ lock'.owner = p
      BY <3>1, <3>2 DEF Locks
    <3>4. lock' # None
      BY <3>3, NoneAssumption
    <3>5. LockInv'
      BY <1>1, <2>1, <2>3, <3>3, <3>4, LockUntouched
    <3>6. LitterInv'
      BY <2>1, <2>2, <2>3, <3>3 DEF LockInv, LitterInv
    <3> QED BY <3>5, <3>6
  <2> QED BY <2>4, <2>5
<1>6. CASE Steal(p)
  <2>1. /\ proc[p].pc = "steal" /\ lock' = None
        /\ stolen => stolen'
        /\ ~stolen' => lock = None \/ ~Alive(lock.maker)
    BY <1>6 DEF Steal
  <2>2. proc'[p].pc \in {"cleanup", "mkdir"} /\ proc'[p].acquired = proc[p].acquired
    BY <1>6, <1>1, StealEffect
  <2>3. ~Holds(proc'[p])
    BY <1>1, <2>1, <2>2 DEF PhaseInv, Holds, Working
  <2>4. ~stolen' => \A q \in Installers : ~Holds(proc[q])
    BY <2>1, HoldersAreAlive DEF LockInv
  <2> QED BY <1>1, <2>1, <2>3, <2>4, LockGone DEF LitterInv
<1>7. CASE Unlock(p)
  <2>1. proc[p].pc = "unlock" /\ lock' = None /\ UNCHANGED <<stolen, littered>>
    BY <1>7 DEF Unlock
  <2>2. Holds(proc[p])
    BY <1>1, <2>1 DEF PhaseInv, Holds
  <2>3. ~Holds(proc'[p])
    BY <1>7, OtherMoves DEF Ends, Holds
  <2>4. ~stolen' => \A q \in Installers : q # p => ~Holds(proc[q])
    BY <2>1, <2>2, OneHolds
  <2> QED BY <1>1, <2>1, <2>3, <2>4, LockGone DEF LitterInv
<1>8. CASE CleanupStaging(p)
  <2>1. proc[p].pc = "cleanup" /\ UNCHANGED <<lock, stolen, littered>>
    BY <1>8 DEF CleanupStaging
  <2>2. CASE Moves(p, "unlock") /\ proc[p].acquired
    <3>1. /\ Holds(proc[p]) /\ Holds(proc'[p])
          /\ proc'[p].identity = proc[p].identity
      BY <2>2 DEF Moves, Holds
    <3> QED BY <1>1, <2>1, <2>2, <3>1, LockUntouched, LitterUntouched
  <2>3. CASE /\ Ends(p, "done")
             /\ ~(/\ proc[p].acquired /\ lock # None
                  /\ lock.maker = proc[p].identity /\ lock.owner \in {None, p})
    <3>1. ~Holds(proc'[p])
      BY <2>3 DEF Ends, Holds
    <3>2. LockInv'
      BY <1>1, <2>1, <3>1, LockUntouched
    <3>3. ~stolen' /\ ~littered' /\ lock # None /\ lock.maker = p /\ Holds(proc[p]) => FALSE
      BY <2>1, <2>3 DEF LockInv, LitterInv, Holds
    <3>4. LitterInv'
      BY <1>1, <2>1, <3>3, LitterUntouched
    <3> QED BY <3>2, <3>4
  <2>4. \/ Moves(p, "unlock") /\ proc[p].acquired
        \/ /\ Ends(p, "done")
           /\ ~(/\ proc[p].acquired /\ lock # None
                /\ lock.maker = proc[p].identity /\ lock.owner \in {None, p})
    BY <1>8, GotoMoves, EndEnds DEF CleanupStaging, Phases
  <2> QED BY <2>2, <2>3, <2>4
<1>9. CASE Interrupt(p)
  <2>1. /\ Moves(p, "cleanup") /\ UNCHANGED <<lock, stolen>>
        /\ littered => littered'
        /\ ~littered' => proc[p].pc # "identify"
    BY <1>9, InterruptEffect DEF Interrupt
  <2>2. /\ Holds(proc'[p]) => /\ Holds(proc[p])
                              /\ proc'[p].acquired => /\ proc[p].acquired
                                                      /\ proc'[p].identity = proc[p].identity
        /\ ~littered' /\ Holds(proc[p]) => Holds(proc'[p])
    BY <2>1 DEF Moves, Holds
  <2> QED BY <1>1, <2>1, <2>2, LockUntouched, LitterUntouched
<1>10. CASE Kill(p)
  <2>1. Ends(p, "dead") /\ littered' /\ UNCHANGED <<lock, stolen>>
    BY <1>10, OtherMoves DEF Kill
  <2>2. ~Holds(proc'[p])
    BY <2>1 DEF Ends, Holds
  <2> QED BY <1>1, <2>1, <2>2, LockUntouched DEF LitterInv
<1>11. CASE \E mode \in {"install", "rollback"}, v \in Versions : Start(p, mode, v)
  <2>1. PICK mode \in {"install", "rollback"}, v \in Versions : Start(p, mode, v)
    BY <1>11
  <2>2. proc[p].pc = "idle" /\ UNCHANGED <<lock, stolen, littered>>
    BY <2>1 DEF Start
  <2>3. proc'[p].pc = "mkdir" /\ proc'[p].acquired = proc[p].acquired
    BY <2>1, StartEffect
  <2>4. ~Holds(proc[p]) /\ ~Holds(proc'[p])
    BY <1>1, <2>2, <2>3 DEF PhaseInv, Holds, Working
  <2> QED BY <1>1, <2>2, <2>4, LockUntouched, LitterUntouched
<1>12. CASE LockExists(p)
  <2>1. UNCHANGED <<lock, stolen, littered>> /\ proc[p].pc # "identify"
    BY <1>12 DEF LockExists
  <2>2. Keeps(p)
    BY <1>12, PlainMoves DEF Moves, LockExists, Keeps
  <2> QED BY <1>1, <2>1, <2>2, LockKept
<1>13. CASE Inspect(p)
  <2>1. UNCHANGED <<lock, stolen, littered>> /\ proc[p].pc # "identify"
    BY <1>13 DEF Inspect
  <2>2. Keeps(p)
    BY <1>13, PlainMoves DEF Moves, Inspect, Keeps
  <2> QED BY <1>1, <2>1, <2>2, LockKept
<1>14. CASE AlreadyReleased(p)
  <2>1. UNCHANGED <<lock, stolen, littered>> /\ proc[p].pc # "identify"
    BY <1>14 DEF AlreadyReleased
  <2>2. Keeps(p)
    BY <1>14, PlainMoves DEF Moves, AlreadyReleased, Keeps
  <2> QED BY <1>1, <2>1, <2>2, LockKept
<1>15. CASE Download(p)
  <2>1. UNCHANGED <<lock, stolen, littered>> /\ proc[p].pc # "identify"
    BY <1>15 DEF Download
  <2>2. Keeps(p)
    BY <1>15, PlainMoves DEF Moves, Download, Keeps
  <2> QED BY <1>1, <2>1, <2>2, LockKept
<1>16. CASE Verify(p)
  <2>1. UNCHANGED <<lock, stolen, littered>> /\ proc[p].pc # "identify"
    BY <1>16 DEF Verify
  <2>2. Keeps(p)
    BY <1>16, PlainMoves DEF Moves, Verify, Keeps
  <2> QED BY <1>1, <2>1, <2>2, LockKept
<1>17. CASE MoveStaged(p)
  <2>1. UNCHANGED <<lock, stolen, littered>> /\ proc[p].pc # "identify"
    BY <1>17 DEF MoveStaged
  <2>2. Keeps(p)
    BY <1>17, PlainMoves DEF Moves, MoveStaged, Keeps
  <2> QED BY <1>1, <2>1, <2>2, LockKept
<1>18. CASE validate_binary(p)
  <2>1. UNCHANGED <<lock, stolen, littered>> /\ proc[p].pc # "identify"
    BY <1>18 DEF validate_binary
  <2>2. Keeps(p)
    BY <1>18, PlainMoves DEF Moves, validate_binary, Keeps
  <2> QED BY <1>1, <2>1, <2>2, LockKept
<1>19. CASE InstallPrevious(p)
  <2>1. UNCHANGED <<lock, stolen, littered>> /\ proc[p].pc # "identify"
    BY <1>19 DEF InstallPrevious
  <2>2. Keeps(p)
    BY <1>19, PlainMoves DEF Moves, InstallPrevious, Keeps
  <2> QED BY <1>1, <2>1, <2>2, LockKept
<1>20. CASE RollbackCurrent(p)
  <2>1. UNCHANGED <<lock, stolen, littered>> /\ proc[p].pc # "identify"
    BY <1>20 DEF RollbackCurrent
  <2>2. Keeps(p)
    BY <1>20, PlainMoves DEF Moves, RollbackCurrent, Keeps
  <2> QED BY <1>1, <2>1, <2>2, LockKept
<1>21. CASE ReadCurrent(p)
  <2>1. UNCHANGED <<lock, stolen, littered>> /\ proc[p].pc # "identify"
    BY <1>21 DEF ReadCurrent
  <2>2. Keeps(p)
    BY <1>21, ReadEffect DEF ReadCurrent, Keeps
  <2> QED BY <1>1, <2>1, <2>2, LockKept
<1>22. CASE ReadPrevious(p)
  <2>1. UNCHANGED <<lock, stolen, littered>> /\ proc[p].pc # "identify"
    BY <1>22 DEF ReadPrevious
  <2>2. Keeps(p)
    BY <1>22, OtherMoves, ReadEffect DEF Moves, ReadPrevious, Keeps
  <2> QED BY <1>1, <2>1, <2>2, LockKept
<1>23. CASE InstallCurrent(p)
  <2>1. UNCHANGED <<lock, stolen, littered>> /\ proc[p].pc # "identify"
    BY <1>23 DEF InstallCurrent
  <2>2. Keeps(p)
    BY <1>23, FinishEffect DEF InstallCurrent, Keeps
  <2> QED BY <1>1, <2>1, <2>2, LockKept
<1>24. CASE RollbackPrevious(p)
  <2>1. UNCHANGED <<lock, stolen, littered>> /\ proc[p].pc # "identify"
    BY <1>24 DEF RollbackPrevious
  <2>2. Keeps(p)
    BY <1>24, FinishEffect DEF RollbackPrevious, Keeps
  <2> QED BY <1>1, <2>1, <2>2, LockKept
<1> QED
  BY <1>3, <1>4, <1>5, <1>6, <1>7, <1>8, <1>9, <1>10, <1>11, <1>12, <1>13, <1>14, <1>15,
     <1>16, <1>17, <1>18, <1>19, <1>20, <1>21, <1>22, <1>23, <1>24 DEF Takes, Step

-----------------------------------------------------------------------------
(* The links *)

LinksInv == HalfwayInv /\ LinksAreTheAnnounced

\* p has neither changed a first link nor announced anything with this step.
Silent(p) ==
  /\ proc'[p].pc # "linkSecond"
  /\ proc'[p].ok =>
       /\ proc[p].ok
       /\ proc[p].pc \in {"cleanup", "unlock"}
       /\ proc'[p].version = proc[p].version
       /\ proc'[p].old = proc[p].old

LEMMA LinksUntouched ==
  ASSUME NEW p \in Installers, Own(p), LinksInv, UNCHANGED <<current, previous>>,
         stolen => stolen', Silent(p)
  PROVE  LinksInv'
<1>1. ASSUME ~stolen', NEW q \in Installers, proc'[q].pc = "linkSecond"
      PROVE  IF proc'[q].mode = "install"
             THEN proc'[q].old \notin {None, proc'[q].version} => previous' = proc'[q].old
             ELSE current' = proc'[q].version
  <2>1. q # p
    BY <1>1 DEF Silent
  <2>2. proc'[q] = proc[q]
    BY <2>1 DEF Own
  <2> QED BY <1>1, <2>2 DEF LinksInv, HalfwayInv
<1>2. ASSUME ~stolen', NEW q \in Installers, proc'[q].ok, proc'[q].pc \in {"cleanup", "unlock"}
      PROVE  /\ current' = proc'[q].version
             /\ proc'[q].old \notin {None, current'} => previous' = proc'[q].old
  <2>1. CASE q = p
    BY <1>2, <2>1 DEF Silent, LinksInv, LinksAreTheAnnounced
  <2>2. CASE q # p
    <3>1. proc'[q] = proc[q]
      BY <2>2 DEF Own
    <3> QED BY <1>2, <3>1 DEF LinksInv, LinksAreTheAnnounced
  <2> QED BY <2>1, <2>2
<1>3. HalfwayInv'
  BY <1>1 DEF HalfwayInv
<1>4. LinksAreTheAnnounced'
  BY <1>2 DEF LinksAreTheAnnounced
<1> QED BY <1>3, <1>4 DEF LinksInv

\* p changes a link while it holds the lock: the others are not at theirs.
LEMMA LinksOfTheHolder ==
  ASSUME NEW p \in Installers, Own(p), LockInv, \A q \in Installers : PhaseInv(proc[q]),
         Holds(proc[p]), UNCHANGED stolen,
         ~stolen /\ proc'[p].pc = "linkSecond" =>
           IF proc'[p].mode = "install"
           THEN proc'[p].old \notin {None, proc'[p].version} => previous' = proc'[p].old
           ELSE current' = proc'[p].version,
         ~stolen /\ proc'[p].ok =>
           /\ current' = proc'[p].version
           /\ proc'[p].old \notin {None, current'} => previous' = proc'[p].old
  PROVE  LinksInv'
<1>1. ASSUME ~stolen', NEW q \in Installers, q # p
      PROVE  proc'[q].pc # "linkSecond" /\ ~proc'[q].ok
  <2>1. ~Holds(proc[q])
    BY <1>1, OneHolds
  <2>2. proc'[q] = proc[q] /\ PhaseInv(proc[q])
    BY <1>1 DEF Own
  <2> QED BY <2>1, <2>2 DEF Holds, PhaseInv, Working
<1>2. HalfwayInv'
  BY <1>1 DEF HalfwayInv
<1>3. LinksAreTheAnnounced'
  BY <1>1 DEF LinksAreTheAnnounced
<1> QED BY <1>2, <1>3 DEF LinksInv

LEMMA LinksStep ==
  ASSUME TypeOK, NEW p \in Installers, \A q \in Installers : PhaseInv(proc[q]),
         LockInv, LinksInv, Takes(p)
  PROVE  LinksInv'
<1>1. Own(p) /\ PhaseInv(proc[p]) /\ PhaseInv(proc'[p])
  BY PhaseStep
<1>2. CASE InstallPrevious(p)
  <2>1. /\ proc[p].pc = "linkFirst" /\ proc[p].mode = "install" /\ UNCHANGED stolen
        /\ proc[p].old \notin {None, proc[p].version} => previous' = proc[p].old
    BY <1>2 DEF InstallPrevious
  <2>2. Moves(p, "linkSecond")
    BY <1>2, PlainMoves
  <2>3. Holds(proc[p]) /\ ~proc[p].ok
    BY <1>1, <2>1 DEF PhaseInv, Holds, Working
  <2> QED BY <1>1, <2>1, <2>2, <2>3, LinksOfTheHolder DEF Moves
<1>3. CASE RollbackCurrent(p)
  <2>1. /\ proc[p].pc = "linkFirst" /\ proc[p].mode = "rollback" /\ UNCHANGED stolen
        /\ current' = proc[p].version
    BY <1>3 DEF RollbackCurrent
  <2>2. Moves(p, "linkSecond")
    BY <1>3, PlainMoves
  <2>3. Holds(proc[p]) /\ ~proc[p].ok
    BY <1>1, <2>1 DEF PhaseInv, Holds, Working
  <2> QED BY <1>1, <2>1, <2>2, <2>3, LinksOfTheHolder DEF Moves
<1>4. CASE InstallCurrent(p)
  <2>1. /\ proc[p].pc = "linkSecond" /\ proc[p].mode = "install"
        /\ current' = proc[p].version /\ UNCHANGED <<previous, stolen>>
    BY <1>4 DEF InstallCurrent
  <2>2. /\ proc'[p].pc = "cleanup" /\ proc'[p].version = proc[p].version
        /\ proc'[p].old = proc[p].old
    BY <1>4, FinishEffect DEF InstallCurrent
  <2>3. Holds(proc[p])
    BY <1>1, <2>1 DEF PhaseInv, Holds, Working
  <2>4. ~stolen /\ proc[p].old \notin {None, proc[p].version} => previous = proc[p].old
    BY <2>1 DEF LinksInv, HalfwayInv
  <2> QED BY <1>1, <2>1, <2>2, <2>3, <2>4, LinksOfTheHolder
<1>5. CASE RollbackPrevious(p)
  <2>1. /\ proc[p].pc = "linkSecond" /\ proc[p].mode = "rollback"
        /\ proc[p].old \notin {None, proc[p].version} => previous' = proc[p].old
        /\ UNCHANGED <<current, stolen>>
    BY <1>5 DEF RollbackPrevious
  <2>2. /\ proc'[p].pc = "cleanup" /\ proc'[p].version = proc[p].version
        /\ proc'[p].old = proc[p].old
    BY <1>5, FinishEffect DEF RollbackPrevious
  <2>3. Holds(proc[p])
    BY <1>1, <2>1 DEF PhaseInv, Holds, Working
  <2>4. ~stolen => current = proc[p].version
    BY <2>1 DEF LinksInv, HalfwayInv
  <2> QED BY <1>1, <2>1, <2>2, <2>3, <2>4, LinksOfTheHolder
<1>6. CASE CleanupStaging(p)
  <2>1. proc[p].pc = "cleanup" /\ UNCHANGED <<current, previous, stolen>>
    BY <1>6 DEF CleanupStaging
  <2>2. Silent(p)
    BY <1>6, <2>1, OtherMoves DEF Moves, Ends, Silent
  <2> QED BY <1>1, <2>1, <2>2, LinksUntouched
<1>7. CASE Unlock(p)
  <2>1. UNCHANGED <<current, previous, stolen>>
    BY <1>7 DEF Unlock, files
  <2>2. Silent(p)
    BY <1>7, OtherMoves DEF Ends, Silent
  <2> QED BY <1>1, <2>1, <2>2, LinksUntouched
<1>8. CASE Kill(p)
  <2>1. UNCHANGED <<current, previous, stolen>>
    BY <1>8 DEF Kill, files
  <2>2. Silent(p)
    BY <1>8, OtherMoves DEF Ends, Silent
  <2> QED BY <1>1, <2>1, <2>2, LinksUntouched
<1>9. CASE Steal(p)
  <2>1. proc[p].pc = "steal" /\ UNCHANGED <<current, previous>> /\ (stolen => stolen')
    BY <1>9 DEF Steal, files
  <2>2. proc'[p].pc \in {"cleanup", "mkdir"} /\ proc'[p].ok = proc[p].ok
    BY <1>9, <1>1, StealEffect
  <2>3. Silent(p)
    BY <1>1, <2>1, <2>2 DEF Silent, PhaseInv
  <2> QED BY <1>1, <2>1, <2>3, LinksUntouched
<1>10. CASE \E mode \in {"install", "rollback"}, v \in Versions : Start(p, mode, v)
  <2>1. PICK mode \in {"install", "rollback"}, v \in Versions : Start(p, mode, v)
    BY <1>10
  <2>2. proc[p].pc = "idle" /\ UNCHANGED <<current, previous, stolen>>
    BY <2>1 DEF Start, files
  <2>3. proc'[p].pc = "mkdir" /\ proc'[p].ok = proc[p].ok
    BY <2>1, StartEffect
  <2>4. Silent(p)
    BY <1>1, <2>2, <2>3 DEF Silent, PhaseInv
  <2> QED BY <1>1, <2>2, <2>4, LinksUntouched
<1>11. CASE MakeLock(p)
  <2>1. /\ proc[p].pc \notin {"cleanup", "unlock"}
        /\ UNCHANGED <<current, previous, stolen>>
    BY <1>11 DEF MakeLock, files
  <2>2. proc'[p].pc # "linkSecond" /\ proc'[p].ok = proc[p].ok
    BY <1>11, PlainMoves DEF Moves
  <2>3. Silent(p)
    BY <1>1, <2>1, <2>2 DEF Silent, PhaseInv
  <2> QED BY <1>1, <2>1, <2>3, LinksUntouched
<1>12. CASE LockExists(p)
  <2>1. /\ proc[p].pc \notin {"cleanup", "unlock"}
        /\ UNCHANGED <<current, previous, stolen>>
    BY <1>12 DEF LockExists, files
  <2>2. proc'[p].pc # "linkSecond" /\ proc'[p].ok = proc[p].ok
    BY <1>12, PlainMoves DEF Moves
  <2>3. Silent(p)
    BY <1>1, <2>1, <2>2 DEF Silent, PhaseInv
  <2> QED BY <1>1, <2>1, <2>3, LinksUntouched
<1>13. CASE write_lock_owner(p)
  <2>1. /\ proc[p].pc \notin {"cleanup", "unlock"}
        /\ UNCHANGED <<current, previous, stolen>>
    BY <1>13 DEF write_lock_owner, files
  <2>2. proc'[p].pc # "linkSecond" /\ proc'[p].ok = proc[p].ok
    BY <1>13, PlainMoves DEF Moves
  <2>3. Silent(p)
    BY <1>1, <2>1, <2>2 DEF Silent, PhaseInv
  <2> QED BY <1>1, <2>1, <2>3, LinksUntouched
<1>14. CASE Inspect(p)
  <2>1. /\ proc[p].pc \notin {"cleanup", "unlock"}
        /\ UNCHANGED <<current, previous, stolen>>
    BY <1>14 DEF Inspect, files
  <2>2. proc'[p].pc # "linkSecond" /\ proc'[p].ok = proc[p].ok
    BY <1>14, PlainMoves DEF Moves
  <2>3. Silent(p)
    BY <1>1, <2>1, <2>2 DEF Silent, PhaseInv
  <2> QED BY <1>1, <2>1, <2>3, LinksUntouched
<1>15. CASE AlreadyReleased(p)
  <2>1. /\ proc[p].pc \notin {"cleanup", "unlock"}
        /\ UNCHANGED <<current, previous, stolen>>
    BY <1>15 DEF AlreadyReleased, files
  <2>2. proc'[p].pc # "linkSecond" /\ proc'[p].ok = proc[p].ok
    BY <1>15, PlainMoves DEF Moves
  <2>3. Silent(p)
    BY <1>1, <2>1, <2>2 DEF Silent, PhaseInv
  <2> QED BY <1>1, <2>1, <2>3, LinksUntouched
<1>16. CASE Download(p)
  <2>1. /\ proc[p].pc \notin {"cleanup", "unlock"}
        /\ UNCHANGED <<current, previous, stolen>>
    BY <1>16 DEF Download, files
  <2>2. proc'[p].pc # "linkSecond" /\ proc'[p].ok = proc[p].ok
    BY <1>16, PlainMoves DEF Moves
  <2>3. Silent(p)
    BY <1>1, <2>1, <2>2 DEF Silent, PhaseInv
  <2> QED BY <1>1, <2>1, <2>3, LinksUntouched
<1>17. CASE Verify(p)
  <2>1. /\ proc[p].pc \notin {"cleanup", "unlock"}
        /\ UNCHANGED <<current, previous, stolen>>
    BY <1>17 DEF Verify, files
  <2>2. proc'[p].pc # "linkSecond" /\ proc'[p].ok = proc[p].ok
    BY <1>17, PlainMoves DEF Moves
  <2>3. Silent(p)
    BY <1>1, <2>1, <2>2 DEF Silent, PhaseInv
  <2> QED BY <1>1, <2>1, <2>3, LinksUntouched
<1>18. CASE MoveStaged(p)
  <2>1. /\ proc[p].pc \notin {"cleanup", "unlock"}
        /\ UNCHANGED <<current, previous, stolen>>
    BY <1>18 DEF MoveStaged, files
  <2>2. proc'[p].pc # "linkSecond" /\ proc'[p].ok = proc[p].ok
    BY <1>18, PlainMoves DEF Moves
  <2>3. Silent(p)
    BY <1>1, <2>1, <2>2 DEF Silent, PhaseInv
  <2> QED BY <1>1, <2>1, <2>3, LinksUntouched
<1>19. CASE validate_binary(p)
  <2>1. /\ proc[p].pc \notin {"cleanup", "unlock"}
        /\ UNCHANGED <<current, previous, stolen>>
    BY <1>19 DEF validate_binary, files
  <2>2. proc'[p].pc # "linkSecond" /\ proc'[p].ok = proc[p].ok
    BY <1>19, PlainMoves DEF Moves
  <2>3. Silent(p)
    BY <1>1, <2>1, <2>2 DEF Silent, PhaseInv
  <2> QED BY <1>1, <2>1, <2>3, LinksUntouched
<1>20. CASE Identify(p)
  <2>1. /\ proc[p].pc \notin {"cleanup", "unlock"}
        /\ UNCHANGED <<current, previous, stolen>>
    BY <1>20 DEF Identify, files
  <2>2. proc'[p].pc # "linkSecond" /\ proc'[p].ok = proc[p].ok
    BY <1>20, IdentifyEffect
  <2>3. Silent(p)
    BY <1>1, <2>1, <2>2 DEF Silent, PhaseInv
  <2> QED BY <1>1, <2>1, <2>3, LinksUntouched
<1>21. CASE ReadCurrent(p)
  <2>1. /\ proc[p].pc \notin {"cleanup", "unlock"}
        /\ UNCHANGED <<current, previous, stolen>>
    BY <1>21 DEF ReadCurrent, files
  <2>2. proc'[p].pc # "linkSecond" /\ proc'[p].ok = proc[p].ok
    BY <1>21, ReadEffect DEF ReadCurrent
  <2>3. Silent(p)
    BY <1>1, <2>1, <2>2 DEF Silent, PhaseInv
  <2> QED BY <1>1, <2>1, <2>3, LinksUntouched
<1>22. CASE ReadPrevious(p)
  <2>1. /\ proc[p].pc \notin {"cleanup", "unlock"}
        /\ UNCHANGED <<current, previous, stolen>>
    BY <1>22 DEF ReadPrevious, files
  <2>2. proc'[p].pc # "linkSecond" /\ proc'[p].ok = proc[p].ok
    BY <1>22, OtherMoves, ReadEffect DEF Moves
  <2>3. Silent(p)
    BY <1>1, <2>1, <2>2 DEF Silent, PhaseInv
  <2> QED BY <1>1, <2>1, <2>3, LinksUntouched
<1>23. CASE Interrupt(p)
  <2>1. /\ proc[p].pc \notin {"cleanup", "unlock"}
        /\ UNCHANGED <<current, previous, stolen>>
    BY <1>23 DEF Interrupt, files
  <2>2. proc'[p].pc # "linkSecond" /\ proc'[p].ok = proc[p].ok
    BY <1>23, InterruptEffect DEF Moves
  <2>3. Silent(p)
    BY <1>1, <2>1, <2>2 DEF Silent, PhaseInv
  <2> QED BY <1>1, <2>1, <2>3, LinksUntouched
<1> QED
  BY <1>2, <1>3, <1>4, <1>5, <1>6, <1>7, <1>8, <1>9, <1>10, <1>11, <1>12, <1>13, <1>14,
     <1>15, <1>16, <1>17, <1>18, <1>19, <1>20, <1>21, <1>22, <1>23 DEF Takes, Step

-----------------------------------------------------------------------------
(* The invariant *)

LEMMA AgeStep ==
  ASSUME IInv, Age
  PROVE  IInv'
<1>1. lock \in Locks /\ UNCHANGED <<releases, current, previous, staging, proc, stolen, littered>>
  BY DEF IInv, Age, TypeOK, files
<1>2. lock' = [lock EXCEPT !.recent = FALSE]
  BY DEF Age
<1>3. lock' \in Locks /\ lock'.maker = lock.maker /\ lock'.owner = lock.owner
  BY <1>1, <1>2 DEF Locks
<1>4. lock # None /\ lock' # None
  BY <1>1, <1>3, NoneAssumption
<1>5. TypeOK'
  BY <1>1, <1>3 DEF IInv, TypeOK
<1>6. /\ \A p \in Installers : PhaseInv(proc[p])'
      /\ FilesInv' /\ HalfwayInv' /\ LinksAreTheAnnounced'
  BY <1>1 DEF IInv, PhaseInv, FilesInv, StageInv, ReleasesInv, LinkedIsVerified, HalfwayInv,
              LinksAreTheAnnounced
<1>7. LockInv'
  BY <1>1, <1>3, <1>4 DEF IInv, LockInv
<1>8. LitterInv'
  BY <1>1, <1>3, <1>4 DEF IInv, LitterInv
<1> QED BY <1>5, <1>6, <1>7, <1>8 DEF IInv

LEMMA InstallerStep ==
  ASSUME IInv, NEW p \in Installers, Takes(p)
  PROVE  IInv'
<1>1. /\ TypeOK /\ FilesInv /\ LockInv /\ LitterInv /\ LinksInv
      /\ \A q \in Installers : PhaseInv(proc[q])
  BY DEF IInv, LinksInv
<1>2. Own(p) /\ PhaseInv(proc'[p])
  BY <1>1, PhaseStep
<1>3. StateType'
  BY <1>1, StateTypeStep
<1>4. TypeOK'
  BY <1>2, <1>3, TypesSplit DEF Own, TypeOK, StateType, ProcessType
<1>5. \A q \in Installers : PhaseInv(proc'[q])
  BY <1>1, <1>2 DEF Own
<1>6. FilesInv'
  BY <1>1, FilesStep
<1>7. LockInv' /\ LitterInv'
  BY <1>1, LockStep
<1>8. LinksInv'
  BY <1>1, LinksStep
<1> QED BY <1>4, <1>5, <1>6, <1>7, <1>8 DEF IInv, LinksInv

LEMMA InitIInv == Init => IInv
<1> SUFFICES ASSUME Init PROVE IInv
  OBVIOUS
<1>1. lock # None => lock \in Locks /\ lock.maker = Former
  BY DEF Init, Locks, Owners
<1>2. \A p \in Installers :
        /\ proc[p] \in ProcessType
        /\ proc[p].pc = "idle" /\ proc[p].attempt = 1 /\ ~proc[p].acquired /\ ~proc[p].ok
  BY DEF Init, Process, ProcessType, Phases
<1>3. proc \in [Installers -> ProcessType]
  BY <1>2 DEF Init
<1>4. StateType
  BY <1>1 DEF Init, StateType, Binaries
<1>5. TypeOK
  BY <1>3, <1>4, TypesSplit
<1>6. \A p \in Installers : PhaseInv(proc[p])
  BY <1>2 DEF PhaseInv, Working
<1>7. FilesInv
  <2>1. ReleasesInv
    BY DEF Init, ReleasesInv
  <2>2. LinkedIsVerified
    BY InstallersAssumption DEF Init, LinkedIsVerified
  <2>3. \A p \in Installers : StageInv(p, proc[p])
    BY <1>2 DEF Init, StageInv
  <2> QED BY <2>1, <2>2, <2>3 DEF FilesInv
<1>8. LockInv
  BY <1>2 DEF LockInv, Holds
<1>9. LitterInv
  BY DEF Init, LitterInv
<1>10. HalfwayInv /\ LinksAreTheAnnounced
  BY <1>2 DEF HalfwayInv, LinksAreTheAnnounced
<1> QED BY <1>5, <1>6, <1>7, <1>8, <1>9, <1>10 DEF IInv

LEMMA NextIInv == IInv /\ [Next]_vars => IInv'
<1> SUFFICES ASSUME IInv, [Next]_vars PROVE IInv'
  OBVIOUS
<1>1. CASE Age
  BY <1>1, AgeStep
<1>2. CASE \E p \in Installers : Takes(p)
  BY <1>2, InstallerStep
<1>3. CASE UNCHANGED vars
  BY <1>3 DEF IInv, vars, TypeOK, PhaseInv, FilesInv, StageInv, ReleasesInv, LinkedIsVerified,
              LockInv, LitterInv, HalfwayInv, LinksAreTheAnnounced, Holds
<1> QED BY <1>1, <1>2, <1>3 DEF Next, Takes

\* The phases, the files, the lock and the links stay in step with each other.
THEOREM InstallInvariant == Spec => []IInv
BY InitIInv, NextIInv, PTL DEF Spec

-----------------------------------------------------------------------------
(* The properties *)

\* Type correctness: in particular the fourth attempt at the lock is never begun.
THEOREM InstallTypesCorrect == Spec => []TypeOK
<1>1. IInv => TypeOK
  BY DEF IInv
<1> QED BY <1>1, InstallInvariant, PTL

\* The links of install_release and rollback_release lead to binaries that were verified,
\* however many installers run, whichever are killed, and even if locks are stolen.
THEOREM LinkedCorrect == Spec => []LinkedIsVerified
<1>1. IInv => LinkedIsVerified
  BY DEF IInv, FilesInv
<1> QED BY <1>1, InstallInvariant, PTL

\* acquire_install_lock excludes: two are inside only after a live one's lock was moved.
THEOREM ExclusionCorrect == Spec => []OneInstallsUnlessStolen
<1>1. IInv => OneInstallsUnlessStolen
  <2> SUFFICES ASSUME IInv, ~stolen, NEW p \in Installers, NEW q \in Installers,
                      Installing(p), Installing(q)
               PROVE  p = q
    BY DEF OneInstallsUnlessStolen
  <2>1. PhaseInv(proc[p]) /\ PhaseInv(proc[q]) /\ LockInv
    BY DEF IInv
  <2>2. Holds(proc[p]) /\ Holds(proc[q])
    BY <2>1 DEF PhaseInv, Holds, Installing, Working
  <2> QED BY <2>1, <2>2, OneHolds
<1> QED BY <1>1, InstallInvariant, PTL

\* An installer or a rollback that succeeds leaves the two links it announced.
THEOREM LinksCorrect == Spec => []LinksAreTheAnnounced
<1>1. IInv => LinksAreTheAnnounced
  BY DEF IInv
<1> QED BY <1>1, InstallInvariant, PTL

\* cleanup leaves no lock and no staging directory, whatever failed or was interrupted.
THEOREM CleanupCorrect == Spec => []LeavesNothingBehind
<1>1. IInv => LeavesNothingBehind
  <2> SUFFICES ASSUME IInv, ~littered, ~stolen,
                      \A p \in Installers : proc[p].pc \in {"idle", "done"}
               PROVE  /\ lock = None
                      /\ \A p \in Installers : staging[p] = "none"
    BY DEF LeavesNothingBehind
  <2>1. \A p \in Installers : ~Holds(proc[p])
    BY DEF IInv, PhaseInv, Holds, Working
  <2>2. lock = None
    BY <2>1 DEF IInv, LitterInv
  <2>3. \A p \in Installers : staging[p] = "none"
    BY DEF IInv, FilesInv, StageInv
  <2> QED BY <2>2, <2>3
<1> QED BY <1>1, InstallInvariant, PTL

=============================================================================
