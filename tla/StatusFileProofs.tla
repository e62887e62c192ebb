-------------------------- MODULE StatusFileProofs --------------------------
(***************************************************************************)
(* Proofs about the status file, for any number of consoles in turn and of *)
(* lines.  Of its writers, StatusFile: the file a resting console leaves   *)
(* is true, it defers requests while R evaluates, and the two keep the     *)
(* contract the server reads the file under, StatusContents.  Of a server  *)
(* that relies on no more than that contract, StatusReader: its properties *)
(* for any number of threads.  The two have no variable in common.         *)
(***************************************************************************)
EXTENDS StatusFile, StatusReader, TLAPS

-----------------------------------------------------------------------------
(* The inductive invariant *)

\* Who lives: a console, and within its life its R.
Tenure ==
  /\ r.gen <= console.gen
  /\ r.pc # "down" => console.pc # "gone" /\ console.open /\ r.gen = console.gen
  /\ console.pc # "gone" /\ ~console.open => r.gen = console.gen

\* Console fields name no R that came after their console, and neither they nor a
\* record of R are from a process still to come.
MarkOK(mark) ==
  mark # None => mark.gen <= console.gen /\ (mark.pid # None => mark.pid <= mark.gen)
RecordOK(rec) == rec # None => rec.gen <= r.gen

Origins ==
  /\ MarkOK(file.mark) /\ MarkOK(r.kept)
  /\ console.pid # None => console.pid <= console.gen
  /\ RecordOK(file.rec) /\ RecordOK(console.read)

\* The two writers.  A console at rest has seen its fields in the file, or looks again;
\* one that is closed need not, since there is no R that could write.
FileInv ==
  /\ console.pc = "idle" => ~file.torn
  /\ console.pc = "publish" /\ file.torn => r.gen < console.gen
  /\ console.pc = "write" => notice /\ (console.open \/ file.torn)
  /\ console.pc = "idle" /\ (~notice \/ ~console.open) => file.mark = ConsoleFields
  /\ ~history.clobbered /\ r.pc \in {"prompt", "eval"} => file.rec = [gen |-> r.gen, n |-> r.n]

\* How far R is: before its first prompt, or with a line it has read.
StartingUp == r.pc = "startup" \/ (r.pc = "rename" /\ r.n <= Ready)
Working == r.pc \in {"eval", "record"} \/ (r.pc = "rename" /\ r.n > Ready)

RInv ==
  /\ r.pc = "startup" => r.n <= Ready
  /\ r.pc \in {"prompt", "eval"} => r.n >= Ready
  /\ r.pc = "record" => r.n > Ready

\* What the console knows of its submission.
ConsoleInv ==
  /\ console.open /\ console.pc # "gone" => (console.busy <=> console.pending)
  /\ console.send => console.pc \in {"publish", "truncate", "write"}
  /\ console.pc # "gone" /\ r.gen < console.gen =>
       ~console.pending /\ ~console.send /\ tty.typed = 0 /\ tty.prompts = 0
  /\ ~console.busy => console.pc = "publish" \/ console.pid = None

\* A submission made at a prompt is in one place: with the console that is about to
\* send it, in the terminal, with R, or answered by a prompt.
One(b) == IF b THEN 1 ELSE 0
LineInv ==
  ~history.ahead /\ r.pc # "down" =>
    IF console.pending
    THEN ~StartingUp /\ One(console.send) + tty.typed + One(Working) + tty.prompts = 1
    ELSE /\ ~console.send /\ ~Working /\ tty.typed = 0
         /\ tty.prompts <= One(~StartingUp)

\* ... and the busy console names the R that has it, once it has published that.
PidInv ==
  ~history.ahead /\ ~history.clobbered /\ r.pc # "down" /\ console.busy =>
    \/ console.pid = r.gen
    \/ console.pc = "publish" /\ console.send /\ console.pid = None

IInv ==
  /\ TypeOK /\ Tenure /\ Origins /\ FileInv /\ RInv /\ ConsoleInv /\ LineInv /\ PidInv

-----------------------------------------------------------------------------
(* Types of the parts *)

LEMMA GenerationFacts ==
  /\ Generations \subseteq Nat /\ 0 \in Generations
  /\ \A m, n \in Nat : m <= n /\ n \in Generations => m \in Generations
  /\ None \notin Nat /\ None \notin Generations /\ None \notin Records /\ None \notin Marks
  /\ Ready = 1
  BY BoundsAssumption, GenerationsAssumption DEF Generations, Ready

LEMMA FileFacts ==
  ASSUME TypeOK
  PROVE  file.rec \in Records \cup {None} /\ file.mark \in Marks \cup {None} /\ file.torn \in BOOLEAN
  BY DEF TypeOK, Files

LEMMA RFacts ==
  ASSUME TypeOK
  PROVE  /\ r.gen \in Generations /\ r.gen \in Nat /\ r.pc \in RPhases /\ r.n \in Nat
         /\ r.kept \in Marks \cup {None}
  BY GenerationFacts DEF TypeOK, Processes

LEMMA ConsoleFacts ==
  ASSUME TypeOK
  PROVE  /\ console.gen \in Generations /\ console.gen \in Nat /\ console.pc \in ConsolePhases
         /\ console.open \in BOOLEAN /\ console.busy \in BOOLEAN
         /\ console.pid \in Generations \cup {None}
         /\ console.read \in Records \cup {None} /\ console.pending \in BOOLEAN
         /\ console.queue \in Nat /\ console.send \in BOOLEAN
  BY GenerationFacts DEF TypeOK, Consoles

LEMMA TtyFacts ==
  ASSUME TypeOK
  PROVE  /\ tty.typed \in Nat /\ tty.prompts \in Nat /\ tty.lines \in 0 .. MaxLines
         /\ history.clobbered \in BOOLEAN /\ history.ahead \in BOOLEAN
  BY DEF TypeOK, Terminals, Histories

LEMMA SubmitStep ==
  ASSUME IInv, Submit
  PROVE  IInv'
<1>0. TypeOK
  BY DEF IInv
<1>1. /\ console.pc = "idle" /\ console.open /\ r.pc # "down" /\ r.gen = console.gen
      /\ tty.lines < MaxLines /\ UNCHANGED <<file, r, notice>>
  BY DEF Submit, Alive
<1>2. /\ console'.gen = console.gen /\ console'.pc = "publish" /\ console'.open = console.open
      /\ console'.busy /\ console'.pid = console.pid /\ console'.read = console.read
      /\ console'.pending /\ (console'.send <=> ~console.pending)
  BY <1>0 DEF Submit, TypeOK, Consoles
<1>3. tty'.typed = tty.typed /\ tty'.prompts = tty.prompts
  BY <1>0 DEF Submit, TypeOK, Terminals
<1>4. /\ history'.clobbered = history.clobbered
      /\ history'.ahead <=> history.ahead \/ (~console.pending /\ (r.pc # "prompt" \/ tty.prompts > 0))
  BY <1>0 DEF Submit, TypeOK, Histories
<1>5. TypeOK'
  <2>1. tty' \in Terminals
    BY <1>0, <1>1, BoundsAssumption DEF TypeOK, Terminals, Submit
  <2>2. history' \in Histories
    BY <1>0 DEF TypeOK, Submit, Histories
  <2>3. console' \in Consoles
    <3>1. (IF console.pending THEN console.queue + 1 ELSE console.queue) \in Nat
      BY <1>0, ConsoleFacts
    <3> QED BY <1>0, <3>1 DEF TypeOK, Consoles, Submit, ConsolePhases
  <2> QED BY <1>0, <1>1, <2>1, <2>2, <2>3 DEF TypeOK
<1>6. Tenure'
  BY <1>1, <1>2 DEF IInv, Tenure
<1>7. Origins'
  BY <1>1, <1>2 DEF IInv, Origins, MarkOK, RecordOK
<1>8. FileInv'
  BY <1>1, <1>2, <1>4 DEF IInv, FileInv
<1>9. RInv'
  BY <1>1 DEF IInv, RInv
<1>12. ConsoleInv'
  BY <1>0, <1>1, <1>2, RFacts DEF ConsoleInv
<1>10. LineInv'
  <2>1. CASE console.pending
    <3>1. ~console.send /\ ~console'.send
      BY <2>1, <1>1, <1>2 DEF IInv, ConsoleInv
    <3> QED BY <2>1, <3>1, <1>1, <1>2, <1>3, <1>4 DEF IInv, LineInv, One, StartingUp, Working
  <2>2. CASE ~console.pending /\ ~history'.ahead
    <3>1. r.pc = "prompt" /\ tty.prompts = 0 /\ ~history.ahead
      BY <1>0, <2>2, <1>4, TtyFacts
    <3>2. tty.typed = 0
      BY <2>2, <3>1 DEF IInv, LineInv
    <3> QED BY <2>2, <3>1, <3>2, <1>1, <1>2, <1>3 DEF LineInv, One, StartingUp, Working
  <2> QED BY <2>1, <2>2 DEF LineInv
<1>11. PidInv'
  BY <1>0, <1>1, <1>2, <1>4 DEF IInv, PidInv, ConsoleInv
<1> QED BY <1>5, <1>6, <1>7, <1>8, <1>9, <1>10, <1>11, <1>12 DEF IInv

-----------------------------------------------------------------------------
(* The steps of R *)

\* R reads the console's fields, a line, or the end of an evaluation: the file, the
\* console and the histories stay.
LEMMA ReadPreservedStep ==
  ASSUME IInv, ReadPreserved
  PROVE  IInv'
<1>0. TypeOK
  BY DEF IInv
<1>1. r.pc \in {"startup", "record"} /\ UNCHANGED <<file, console, tty, notice, history>>
  BY DEF ReadPreserved
<1>2. /\ r'.gen = r.gen /\ r'.pc = "rename" /\ r'.n = r.n
      /\ r'.kept \in {None, file.mark}
  BY <1>0 DEF ReadPreserved, TypeOK, Processes
<1>3. TypeOK'
  <2>1. r' \in Processes
    BY <1>0, FileFacts DEF TypeOK, ReadPreserved, Processes, RPhases
  <2> QED BY <1>0, <1>1, <2>1 DEF TypeOK
<1>4. Tenure' /\ FileInv' /\ RInv' /\ ConsoleInv'
  BY <1>1, <1>2 DEF IInv, Tenure, FileInv, RInv, ConsoleInv, ConsoleFields
<1>5. Origins'
  BY <1>1, <1>2 DEF IInv, Origins, MarkOK, RecordOK
<1>6. LineInv'
  <2>1. (StartingUp' <=> StartingUp) /\ (Working' <=> Working)
    BY <1>0, <1>1, <1>2, RFacts, GenerationFacts DEF IInv, RInv, StartingUp, Working
  <2> QED BY <2>1, <1>1, <1>2 DEF IInv, LineInv, One
<1>7. PidInv'
  BY <1>1, <1>2 DEF IInv, PidInv
<1> QED BY <1>3, <1>4, <1>5, <1>6, <1>7 DEF IInv

LEMMA ReadLineStep ==
  ASSUME IInv, ReadLine
  PROVE  IInv'
<1>0. TypeOK
  BY DEF IInv
<1>1. r.pc = "prompt" /\ tty.typed > 0 /\ UNCHANGED <<file, console, notice, history>>
  BY DEF ReadLine
<1>2. /\ r'.gen = r.gen /\ r'.pc = "eval" /\ r'.n = r.n /\ r'.kept = r.kept
      /\ tty'.typed = tty.typed - 1 /\ tty'.prompts = tty.prompts
  BY <1>0 DEF ReadLine, TypeOK, Processes, Terminals
<1>3. TypeOK'
  <2>1. r' \in Processes
    BY <1>0 DEF TypeOK, ReadLine, Processes, RPhases
  <2>2. tty.typed - 1 \in Nat
    BY <1>0, <1>1, TtyFacts
  <2>3. tty' \in Terminals
    BY <1>0, <2>2 DEF TypeOK, ReadLine, Terminals
  <2> QED BY <1>0, <1>1, <2>1, <2>3 DEF TypeOK
<1>4. Tenure' /\ FileInv' /\ RInv'
  BY <1>1, <1>2 DEF IInv, Tenure, FileInv, RInv, ConsoleFields
<1>5. Origins'
  BY <1>1, <1>2 DEF IInv, Origins, MarkOK, RecordOK
<1>6. ConsoleInv'
  BY <1>0, <1>1, <1>2, RFacts DEF IInv, ConsoleInv, Tenure
<1>7. LineInv'
  <2>1. ~StartingUp' /\ Working' /\ ~StartingUp /\ ~Working
    BY <1>1, <1>2 DEF StartingUp, Working
  <2>2. ~history.ahead => console.pending
    BY <1>0, <1>1, TtyFacts DEF IInv, LineInv
  <2>3. ~history.ahead => One(console.send) + tty.typed + tty.prompts = 1
    BY <2>1, <2>2, <1>0, <1>1, TtyFacts DEF IInv, LineInv, One
  <2> QED BY <2>1, <2>2, <2>3, <1>0, <1>1, <1>2, TtyFacts DEF LineInv, One
<1>8. PidInv'
  BY <1>1, <1>2 DEF IInv, PidInv
<1> QED BY <1>3, <1>4, <1>5, <1>6, <1>7, <1>8 DEF IInv

LEMMA EvalEndsStep ==
  ASSUME IInv, EvalEnds
  PROVE  IInv'
<1>0. TypeOK
  BY DEF IInv
<1>1. r.pc = "eval" /\ UNCHANGED <<file, console, notice, history>> /\ r.n >= Ready
  BY DEF EvalEnds, IInv, RInv
<1>2. /\ r'.gen = r.gen /\ r'.kept = r.kept /\ tty'.typed = tty.typed
      /\ \/ r'.pc = "record" /\ r'.n = r.n + 1 /\ tty'.prompts = tty.prompts
         \/ r'.pc = "prompt" /\ r'.n = r.n /\ tty'.prompts = tty.prompts + 1
  BY <1>0 DEF EvalEnds, TypeOK, Processes, Terminals
<1>3. TypeOK'
  <2>0. r.n + 1 \in Nat /\ {"record", "prompt"} \subseteq RPhases
    BY <1>0, RFacts DEF RPhases
  <2>1. r' \in Processes
    BY <1>0, <2>0 DEF TypeOK, EvalEnds, Processes
  <2>2. tty' \in Terminals
    BY <1>0 DEF TypeOK, EvalEnds, Terminals
  <2> QED BY <1>0, <1>1, <2>1, <2>2 DEF TypeOK
<1>4. Tenure' /\ FileInv'
  BY <1>1, <1>2 DEF IInv, Tenure, FileInv, ConsoleFields
<1>5. Origins'
  BY <1>1, <1>2 DEF IInv, Origins, MarkOK, RecordOK
<1>6. RInv'
  BY <1>0, <1>1, <1>2, RFacts, GenerationFacts DEF RInv
<1>7. ConsoleInv'
  BY <1>0, <1>1, <1>2, RFacts DEF IInv, ConsoleInv, Tenure
<1>8. LineInv'
  <2>1. ~StartingUp' /\ ~StartingUp /\ Working
    BY <1>1, <1>2 DEF StartingUp, Working
  <2>2. ~history.ahead => console.pending /\ One(console.send) + tty.typed + 1 + tty.prompts = 1
    BY <2>1, <1>1 DEF IInv, LineInv, One
  <2>3. CASE r'.pc = "record" /\ tty'.prompts = tty.prompts
    BY <2>1, <2>2, <2>3, <1>0, <1>1, <1>2, TtyFacts DEF LineInv, One, Working
  <2>4. CASE r'.pc = "prompt" /\ tty'.prompts = tty.prompts + 1
    BY <2>1, <2>2, <2>4, <1>0, <1>1, <1>2, TtyFacts DEF LineInv, One, Working
  <2> QED BY <2>3, <2>4, <1>2
<1>9. PidInv'
  BY <1>1, <1>2 DEF IInv, PidInv
<1> QED BY <1>3, <1>4, <1>5, <1>6, <1>7, <1>8, <1>9 DEF IInv

\* The rename: R's record, with the console's fields as R found them.
LEMMA write_statusStep ==
  ASSUME IInv, write_status
  PROVE  IInv'
<1>0. TypeOK
  BY DEF IInv
<1>1. /\ r.pc = "rename" /\ UNCHANGED <<console, history>>
      /\ notice' = (console.pc # "gone")
  BY DEF write_status
<1>2. /\ file'.rec = [gen |-> r.gen, n |-> r.n] /\ file'.mark = r.kept /\ file'.torn = FALSE
  BY DEF write_status, Replace
<1>3. /\ r'.gen = r.gen /\ r'.kept = None /\ tty'.typed = tty.typed
      /\ \/ r.n < Ready /\ r'.pc = "startup" /\ r'.n = r.n + 1 /\ tty'.prompts = tty.prompts
         \/ ~(r.n < Ready) /\ r'.pc = "prompt" /\ r'.n = r.n /\ tty'.prompts = tty.prompts + 1
  BY <1>0 DEF write_status, TypeOK, Processes, Terminals
<1>c. console.pc # "gone" /\ console.open /\ r.gen = console.gen /\ notice'
  BY <1>1 DEF IInv, Tenure
<1>4. TypeOK'
  <2>0. r.n + 1 \in Nat /\ {"startup", "prompt"} \subseteq RPhases
    BY <1>0, RFacts DEF RPhases
  <2>1. r' \in Processes
    BY <1>0, <2>0 DEF TypeOK, write_status, Processes
  <2>2. tty' \in Terminals
    BY <1>0 DEF TypeOK, write_status, Terminals
  <2>3. [gen |-> r.gen, n |-> r.n] \in Records
    BY <1>0, RFacts DEF Records
  <2>4. file' \in Files
    BY <1>0, <2>3, RFacts DEF write_status, Replace, Files
  <2>5. notice' \in BOOLEAN
    BY <1>1
  <2> QED BY <1>0, <1>1, <2>1, <2>2, <2>4, <2>5 DEF TypeOK
<1>5. Tenure'
  BY <1>1, <1>3, <1>c DEF IInv, Tenure
<1>6. Origins'
  <2>1. RecordOK(file.rec)'
    BY <1>0, <1>2, <1>3, RFacts DEF RecordOK
  <2> QED BY <2>1, <1>1, <1>2, <1>3 DEF IInv, Origins, MarkOK, RecordOK
<1>7. FileInv'
  BY <1>1, <1>2, <1>3, <1>c DEF IInv, FileInv
<1>8. RInv'
  BY <1>0, <1>3, RFacts, GenerationFacts DEF RInv
<1>9. ConsoleInv'
  BY <1>0, <1>1, <1>3, <1>c, RFacts DEF IInv, ConsoleInv
<1>10. LineInv'
  <2>1. CASE r.n < Ready /\ r'.pc = "startup" /\ tty'.prompts = tty.prompts
    <3>1. StartingUp /\ ~Working /\ StartingUp' /\ ~Working'
      BY <2>1, <1>0, <1>1, RFacts, GenerationFacts DEF StartingUp, Working
    <3> QED BY <3>1, <2>1, <1>1, <1>3 DEF IInv, LineInv, One
  <2>2. CASE ~(r.n < Ready) /\ r'.pc = "prompt" /\ tty'.prompts = tty.prompts + 1
    <3>1. /\ StartingUp <=> ~Working
          /\ ~StartingUp' /\ ~Working'
      BY <2>2, <1>0, <1>1, RFacts, GenerationFacts DEF StartingUp, Working
    <3>2. CASE Working
      <4>1. ~history.ahead => console.pending /\ One(console.send) + tty.typed + 1 + tty.prompts = 1
        BY <3>2, <1>1 DEF IInv, LineInv, One
      <4> QED BY <4>1, <3>1, <2>2, <1>0, <1>1, <1>3, TtyFacts DEF LineInv, One
    <3>3. CASE ~Working
      <4>1. ~history.ahead => /\ ~console.pending /\ ~console.send /\ tty.typed = 0
                              /\ tty.prompts = 0
        BY <3>1, <3>3, <1>0, <1>1, TtyFacts DEF IInv, LineInv, One
      <4> QED BY <4>1, <3>1, <2>2, <1>1, <1>3 DEF LineInv, One
    <3> QED BY <3>2, <3>3
  <2> QED BY <2>1, <2>2, <1>3
<1>11. PidInv'
  BY <1>1, <1>3 DEF IInv, PidInv
<1> QED BY <1>4, <1>5, <1>6, <1>7, <1>8, <1>9, <1>10, <1>11 DEF IInv

\* R ends, alone or with its console.
LEMMA ExitStep ==
  ASSUME IInv, Exit
  PROVE  IInv'
<1>0. TypeOK
  BY DEF IInv
<1>1. r.pc # "down" /\ UNCHANGED <<file, console, tty, notice, history>>
  BY DEF Exit
<1>2. r'.gen = r.gen /\ r'.pc = "down" /\ r'.n = r.n /\ r'.kept = None
  BY <1>0 DEF Exit, TypeOK, Processes
<1>3. TypeOK'
  <2>1. r' \in Processes
    BY <1>0 DEF TypeOK, Exit, Processes, RPhases
  <2> QED BY <1>0, <1>1, <2>1 DEF TypeOK
<1>4. Tenure' /\ FileInv' /\ RInv' /\ ConsoleInv'
  BY <1>1, <1>2 DEF IInv, Tenure, FileInv, RInv, ConsoleInv, ConsoleFields
<1>5. Origins'
  BY <1>1, <1>2 DEF IInv, Origins, MarkOK, RecordOK
<1>6. LineInv' /\ PidInv'
  BY <1>2 DEF LineInv, PidInv
<1> QED BY <1>3, <1>4, <1>5, <1>6 DEF IInv

-----------------------------------------------------------------------------
(* The steps of the console *)

LEMMA ConsoleIs ==
  ASSUME NEW gen, NEW phase
  PROVE  LET c == Console(gen, phase) IN
         /\ c.gen = gen /\ c.pc = phase /\ (c.open <=> phase # "gone") /\ ~c.busy /\ c.pid = None
         /\ c.read = None /\ ~c.pending /\ c.queue = 0 /\ ~c.send
  BY DEF Console

LEMMA ConsoleTyped ==
  ASSUME NEW gen \in Generations, NEW phase \in ConsolePhases
  PROVE  Console(gen, phase) \in Consoles
  BY DEF Console, Consoles

LEMMA OpenStep ==
  ASSUME IInv, Open
  PROVE  IInv'
<1>0. TypeOK
  BY DEF IInv
<1>1. /\ console.pc = "gone" /\ console.gen < MaxGeneration /\ UNCHANGED <<file, r, notice, history>>
      /\ console' = Console(console.gen + 1, "publish")
  BY DEF Open
<1>2. /\ console'.gen = console.gen + 1 /\ console'.pc = "publish" /\ console'.open /\ ~console'.busy
      /\ console'.pid = None /\ console'.read = None /\ ~console'.pending /\ ~console'.send
  BY <1>1, ConsoleIs
<1>3. tty'.typed = 0 /\ tty'.prompts = 0
  BY <1>0 DEF Open, TypeOK, Terminals
<1>g. r.pc = "down" /\ r.gen <= console.gen /\ r.gen < console'.gen
  BY <1>0, <1>1, <1>2, RFacts, ConsoleFacts DEF IInv, Tenure
<1>4. TypeOK'
  <2>1. console.gen + 1 \in Generations /\ "publish" \in ConsolePhases
    BY <1>0, <1>1, ConsoleFacts, GenerationsAssumption DEF Generations, ConsolePhases
  <2>2. console' \in Consoles
    BY <1>1, <2>1, ConsoleTyped
  <2>3. tty' \in Terminals
    BY <1>0 DEF TypeOK, Open, Terminals
  <2> QED BY <1>0, <1>1, <2>2, <2>3 DEF TypeOK
<1>5. Tenure'
  BY <1>0, <1>1, <1>2, <1>g, RFacts, ConsoleFacts DEF Tenure
<1>6. Origins'
  <2>1. ASSUME NEW mark \in Marks \cup {None}, MarkOK(mark) PROVE MarkOK(mark)'
    <3>1. mark # None => mark.gen \in Nat
      BY GenerationFacts DEF Marks
    <3> QED BY <2>1, <3>1, <1>0, <1>2, ConsoleFacts DEF MarkOK
  <2>2. MarkOK(file.mark)' /\ MarkOK(r.kept)'
    <3>1. PICK m, k : m = file.mark /\ k = r.kept
      OBVIOUS
    <3>2. MarkOK(m)' /\ MarkOK(k)'
      BY <3>1, <2>1, <1>0, FileFacts, RFacts DEF IInv, Origins
    <3> QED BY <3>1, <3>2, <1>1
  <2> QED BY <2>2, <1>1, <1>2 DEF IInv, Origins, RecordOK
<1>7. FileInv'
  BY <1>1, <1>2, <1>g DEF FileInv
<1>8. RInv' /\ LineInv' /\ PidInv'
  BY <1>1, <1>g DEF RInv, LineInv, PidInv
<1>9. ConsoleInv'
  BY <1>2, <1>3 DEF ConsoleInv
<1> QED BY <1>4, <1>5, <1>6, <1>7, <1>8, <1>9 DEF IInv

LEMMA StartJobStep ==
  ASSUME IInv, StartJob
  PROVE  IInv'
<1>0. TypeOK
  BY DEF IInv
<1>1. console.pc = "idle" /\ r.gen < console.gen /\ UNCHANGED <<file, tty, notice, history>>
  BY DEF StartJob
<1>2. r'.gen = console.gen /\ r'.pc = "startup" /\ r'.n = 0 /\ r'.kept = None
  BY DEF StartJob
<1>3. /\ console'.gen = console.gen /\ console'.pc = "publish" /\ console'.open = console.open
      /\ console'.busy = console.busy /\ console'.pid = console.pid /\ console'.read = console.read
      /\ console'.pending = console.pending /\ console'.send = console.send
  BY <1>0 DEF StartJob, TypeOK, Consoles
<1>c. /\ ~console.pending /\ ~console.send /\ tty.typed = 0 /\ tty.prompts = 0
      /\ console.open /\ ~console.busy /\ ~file.torn
  <2>1. console.open
    BY <1>0, <1>1, RFacts, ConsoleFacts DEF IInv, Tenure
  <2> QED BY <2>1, <1>1 DEF IInv, ConsoleInv, FileInv
<1>4. TypeOK'
  <2>1. r' \in Processes
    BY <1>0, ConsoleFacts DEF StartJob, Processes, RPhases
  <2>2. console' \in Consoles
    BY <1>0 DEF TypeOK, StartJob, Consoles, ConsolePhases
  <2> QED BY <1>0, <1>1, <2>1, <2>2 DEF TypeOK
<1>5. Tenure'
  BY <1>0, <1>2, <1>3, <1>c, ConsoleFacts DEF Tenure
<1>6. Origins'
  <2>1. ASSUME NEW rec \in Records \cup {None}, RecordOK(rec) PROVE RecordOK(rec)'
    <3>1. rec # None => rec.gen \in Nat
      BY GenerationFacts DEF Records
    <3> QED BY <2>1, <3>1, <1>0, <1>1, <1>2, RFacts, ConsoleFacts DEF RecordOK
  <2>2. RecordOK(file.rec)' /\ RecordOK(console.read)'
    <3>1. PICK f, c : f = file.rec /\ c = console.read
      OBVIOUS
    <3>2. RecordOK(f)' /\ RecordOK(c)'
      BY <3>1, <2>1, <1>0, FileFacts, ConsoleFacts DEF IInv, Origins
    <3> QED BY <3>1, <3>2, <1>1, <1>3
  <2> QED BY <2>2, <1>1, <1>2, <1>3 DEF IInv, Origins, MarkOK
<1>7. FileInv'
  BY <1>1, <1>2, <1>3, <1>c DEF FileInv
<1>8. RInv'
  BY <1>2, GenerationFacts DEF RInv
<1>9. ConsoleInv'
  BY <1>0, <1>1, <1>2, <1>3, <1>c, ConsoleFacts DEF ConsoleInv
<1>10. LineInv'
  <2>1. StartingUp' /\ ~Working'
    BY <1>2 DEF StartingUp, Working
  <2> QED BY <2>1, <1>1, <1>3, <1>c DEF LineInv, One
<1>11. PidInv'
  BY <1>3, <1>c DEF PidInv
<1> QED BY <1>4, <1>5, <1>6, <1>7, <1>8, <1>9, <1>10, <1>11 DEF IInv

LEMMA parse_outputStep ==
  ASSUME IInv, parse_output
  PROVE  IInv'
<1>0. TypeOK
  BY DEF IInv
<1> DEFINE more == console.pending /\ console.queue > 0
<1>1. /\ console.pc = "idle" /\ console.open /\ tty.prompts > 0
      /\ UNCHANGED <<file, r, notice, history>>
  BY DEF parse_output
<1>2. /\ console'.gen = console.gen /\ console'.open = console.open /\ console'.pid = console.pid
      /\ console'.read = console.read /\ console'.send = console.send
      /\ console'.pending <=> more
      /\ console'.busy <=> more
      /\ console'.pc = IF more = console.busy THEN "idle" ELSE "publish"
  BY <1>0 DEF parse_output, TypeOK, Consoles
<1>3. tty'.prompts = tty.prompts - 1 /\ tty'.typed = IF more THEN tty.typed + 1 ELSE tty.typed
  BY <1>0 DEF parse_output, TypeOK, Terminals
<1>4. TypeOK'
  <2>1. /\ more \in BOOLEAN /\ tty.prompts - 1 \in Nat /\ tty.typed + 1 \in Nat
        /\ more => console.queue - 1 \in Nat
    BY <1>0, <1>1, TtyFacts, ConsoleFacts
  <2>2. tty' \in Terminals
    BY <1>0, <2>1 DEF TypeOK, parse_output, Terminals
  <2>3. console' \in Consoles
    BY <1>0, <2>1 DEF TypeOK, parse_output, Consoles, ConsolePhases
  <2> QED BY <1>0, <1>1, <2>2, <2>3 DEF TypeOK
<1>c. /\ (console.busy <=> console.pending) /\ ~console.send /\ ~file.torn
      /\ more => console.busy /\ console'.pc = "idle"
      /\ ~more => (console'.pc = "idle" <=> ~console.busy)
  <2>1. (console.busy <=> console.pending) /\ ~console.send /\ ~file.torn
    BY <1>1 DEF IInv, ConsoleInv, FileInv
  <2>2. more => (console'.pc = "idle")
    BY <2>1, <1>0, <1>2, ConsoleFacts
  <2>3. ~more => (console'.pc = "idle" <=> ~console.busy)
    BY <2>1, <1>0, <1>2, ConsoleFacts
  <2> QED BY <2>1, <2>2, <2>3
<1> HIDE DEF more
<1>p. console'.pc \in {"idle", "publish"}
  BY <1>2
<1>5. Tenure'
  BY <1>1, <1>2, <1>p DEF IInv, Tenure
<1>6. Origins'
  BY <1>1, <1>2 DEF IInv, Origins, MarkOK, RecordOK
<1>7. FileInv'
  <2>1. console'.pc = "idle" => console'.busy = console.busy
    BY <1>0, <1>2, <1>4, <1>c, ConsoleFacts DEF TypeOK, Consoles
  <2>2. console'.pc = "idle" => ConsoleFields' = ConsoleFields
    BY <2>1, <1>2 DEF ConsoleFields
  <2> QED BY <2>2, <1>1, <1>2, <1>p, <1>c DEF IInv, FileInv
<1>8. RInv'
  BY <1>1 DEF IInv, RInv
<1>9. ConsoleInv'
  <2>1. r.gen = console.gen
    BY <1>0, <1>1, RFacts, ConsoleFacts, TtyFacts DEF IInv, ConsoleInv, Tenure
  <2>2. ~console'.busy => console'.pc = "publish" \/ console'.pid = None
    BY <1>1, <1>2, <1>c, <1>p DEF IInv, ConsoleInv
  <2> QED BY <2>1, <2>2, <1>0, <1>1, <1>2, <1>c, RFacts DEF ConsoleInv
<1>10. LineInv'
  <2>1. (StartingUp' <=> StartingUp) /\ (Working' <=> Working)
    BY <1>1 DEF StartingUp, Working
  <2>2. CASE more
    <3>1. ~history.ahead /\ r.pc # "down" => ~StartingUp /\ tty.typed + One(Working) + tty.prompts = 1
      BY <2>2, <1>0, <1>c, TtyFacts DEF IInv, LineInv, One, more
    <3> QED BY <3>1, <2>1, <2>2, <1>0, <1>1, <1>2, <1>3, <1>c, TtyFacts DEF LineInv, One
  <2>3. CASE ~more /\ console.pending
    <3>1. ~history.ahead /\ r.pc # "down" => ~StartingUp /\ tty.typed + One(Working) + tty.prompts = 1
      BY <2>3, <1>0, <1>c, TtyFacts DEF IInv, LineInv, One
    <3>2. ~history.ahead /\ r.pc # "down" => ~StartingUp /\ tty.typed = 0 /\ ~Working /\ tty.prompts = 1
      BY <3>1, <1>0, <1>1, TtyFacts DEF One
    <3> QED BY <3>2, <2>1, <2>3, <1>1, <1>2, <1>3, <1>c DEF LineInv, One
  <2>4. CASE ~more /\ ~console.pending
    BY <2>1, <2>4, <1>0, <1>1, <1>2, <1>3, <1>c, TtyFacts DEF IInv, LineInv, One
  <2> QED BY <2>2, <2>3, <2>4
<1>11. PidInv'
  BY <1>1, <1>2, <1>c DEF IInv, PidInv
<1> QED BY <1>4, <1>5, <1>6, <1>7, <1>8, <1>9, <1>10, <1>11 DEF IInv

\* A prompt the console takes for output: there is none to spare while nothing was
\* sent ahead.
LEMMA SkipPromptStep ==
  ASSUME IInv, SkipPrompt
  PROVE  IInv'
<1>0. TypeOK
  BY DEF IInv
<1>1. /\ tty.prompts > 0 /\ (r.pc \notin {"eval", "record", "rename"} => tty.prompts > 1)
      /\ console.pc = "idle" /\ console.open /\ UNCHANGED <<file, r, console, notice, history>>
  BY <1>0, TtyFacts DEF SkipPrompt
<1>2. tty'.typed = tty.typed /\ tty'.prompts = tty.prompts - 1
  BY <1>0 DEF SkipPrompt, TypeOK, Terminals
<1>3. TypeOK'
  <2>1. tty.prompts - 1 \in Nat
    BY <1>0, <1>1, TtyFacts
  <2>2. tty' \in Terminals
    BY <1>0, <2>1 DEF TypeOK, SkipPrompt, Terminals
  <2> QED BY <1>0, <1>1, <2>2 DEF TypeOK
<1>4. Tenure' /\ FileInv' /\ RInv' /\ PidInv'
  BY <1>1 DEF IInv, Tenure, FileInv, RInv, PidInv, ConsoleFields
<1>5. Origins'
  BY <1>1 DEF IInv, Origins, MarkOK, RecordOK
<1>6. ConsoleInv'
  BY <1>0, <1>1, <1>2, TtyFacts DEF IInv, ConsoleInv
<1>7. history.ahead \/ r.pc = "down"
  <2> SUFFICES ASSUME ~history.ahead, r.pc # "down" PROVE FALSE
    OBVIOUS
  <2>1. r.pc \in {"eval", "record", "rename"} => StartingUp \/ Working
    BY <1>0, RFacts, GenerationFacts DEF StartingUp, Working
  <2>2. CASE console.pending
    BY <2>1, <2>2, <1>0, <1>1, TtyFacts DEF IInv, LineInv, One
  <2>3. CASE ~console.pending
    BY <2>1, <2>3, <1>0, <1>1, TtyFacts DEF IInv, LineInv, One
  <2> QED BY <2>2, <2>3
<1>8. LineInv'
  BY <1>1, <1>7 DEF LineInv
<1> QED BY <1>3, <1>4, <1>5, <1>6, <1>8 DEF IInv

LEMMA RepublishStep ==
  ASSUME IInv, Republish
  PROVE  IInv'
<1>0. TypeOK
  BY DEF IInv
<1>1. /\ console.pc = "idle" /\ notice /\ notice' = FALSE /\ UNCHANGED <<file, r, tty, history>>
  BY DEF Republish
<1>2. /\ console'.gen = console.gen /\ console'.open = console.open
      /\ console'.busy = console.busy /\ console'.pid = console.pid /\ console'.read = console.read
      /\ console'.pending = console.pending /\ console'.send = console.send
      /\ console'.pc = IF console.open THEN "publish" ELSE "idle"
  BY <1>0 DEF Republish, TypeOK, Consoles
<1>3. TypeOK'
  <2>1. console' \in Consoles
    BY <1>0 DEF TypeOK, Republish, Consoles, ConsolePhases
  <2> QED BY <1>0, <1>1, <2>1 DEF TypeOK
<1>4. Tenure' /\ RInv'
  BY <1>1, <1>2 DEF IInv, Tenure, RInv
<1>5. Origins'
  BY <1>1, <1>2 DEF IInv, Origins, MarkOK, RecordOK
<1>6. FileInv'
  <2>1. ConsoleFields' = ConsoleFields
    BY <1>2 DEF ConsoleFields
  <2> QED BY <2>1, <1>1, <1>2 DEF IInv, FileInv
<1>7. ConsoleInv'
  BY <1>1, <1>2 DEF IInv, ConsoleInv
<1>8. LineInv'
  BY <1>1, <1>2 DEF IInv, LineInv, One, StartingUp, Working
<1>9. PidInv'
  BY <1>1, <1>2 DEF IInv, PidInv
<1> QED BY <1>3, <1>4, <1>5, <1>6, <1>7, <1>8, <1>9 DEF IInv

LEMMA CloseStep ==
  ASSUME IInv, Close
  PROVE  IInv'
<1>0. TypeOK
  BY DEF IInv
<1>1. /\ console.pc = "idle" /\ console.open /\ r.gen = console.gen /\ r.pc = "down"
      /\ UNCHANGED <<file, r, tty, notice, history>>
  BY DEF Close
<1>2. /\ console'.gen = console.gen /\ ~console'.open /\ console'.pc = "publish"
      /\ console'.busy = console.busy /\ console'.pid = console.pid /\ console'.read = console.read
      /\ console'.send = console.send
  BY <1>0 DEF Close, TypeOK, Consoles
<1>3. TypeOK'
  <2>1. console' \in Consoles
    BY <1>0 DEF TypeOK, Close, Consoles, ConsolePhases
  <2> QED BY <1>0, <1>1, <2>1 DEF TypeOK
<1>4. Tenure' /\ RInv'
  BY <1>1, <1>2 DEF IInv, Tenure, RInv
<1>5. Origins'
  BY <1>1, <1>2 DEF IInv, Origins, MarkOK, RecordOK
<1>6. FileInv'
  BY <1>1, <1>2 DEF IInv, FileInv
<1>7. ConsoleInv'
  BY <1>0, <1>1, <1>2, RFacts DEF ConsoleInv
<1>8. LineInv' /\ PidInv'
  BY <1>1 DEF LineInv, PidInv
<1> QED BY <1>3, <1>4, <1>5, <1>6, <1>7, <1>8 DEF IInv

\* The console is gone and so is its R.
LEMMA GoneStep ==
  ASSUME IInv, console' = Console(console.gen, "gone"), UNCHANGED <<file, tty, history>>,
         notice' = FALSE, r'.gen = r.gen, r'.pc = "down", r' \in Processes, r'.kept \in {None, r.kept}
  PROVE  IInv'
<1>0. TypeOK
  BY DEF IInv
<1>1. /\ console'.gen = console.gen /\ console'.pc = "gone" /\ ~console'.open /\ ~console'.busy
      /\ console'.pid = None /\ console'.read = None /\ ~console'.pending /\ ~console'.send
  BY ConsoleIs
<1>2. TypeOK'
  <2>1. console' \in Consoles
    BY <1>0, ConsoleFacts, ConsoleTyped DEF ConsolePhases
  <2> QED BY <1>0, <2>1 DEF TypeOK
<1>3. Tenure'
  BY <1>1 DEF IInv, Tenure
<1>4. Origins'
  BY <1>1 DEF IInv, Origins, MarkOK, RecordOK
<1>5. FileInv' /\ RInv' /\ ConsoleInv' /\ LineInv' /\ PidInv'
  BY <1>1 DEF FileInv, RInv, ConsoleInv, LineInv, PidInv
<1> QED BY <1>2, <1>3, <1>4, <1>5 DEF IInv

LEMMA LeaveStep ==
  ASSUME IInv, Leave \/ Hangup
  PROVE  IInv'
<1>0. TypeOK /\ r \in Processes
  BY DEF IInv, TypeOK
<1>1. CASE Leave
  <2>1. r.pc = "down"
    BY <1>1 DEF IInv, Tenure, Leave
  <2> QED BY <1>0, <1>1, <2>1, GoneStep DEF Leave
<1>2. CASE Hangup
  <2>1. r'.gen = r.gen /\ r'.pc = "down" /\ r'.kept = None /\ r' \in Processes
    BY <1>0, <1>2 DEF Hangup, Processes, RPhases
  <2> QED BY <1>0, <1>2, <2>1, GoneStep DEF Hangup
<1> QED BY <1>1, <1>2

LEMMA TruncateStep ==
  ASSUME IInv, Truncate
  PROVE  IInv'
<1>0. TypeOK
  BY DEF IInv
<1>1. console.pc = "truncate" /\ notice' = TRUE /\ UNCHANGED <<r, tty, history>>
  BY DEF Truncate
<1>2. /\ console'.gen = console.gen /\ console'.open = console.open /\ console'.pc = "write"
      /\ console'.busy = console.busy /\ console'.pid = console.pid /\ console'.read = console.read
      /\ console'.pending = console.pending /\ console'.send = console.send
  BY <1>0 DEF Truncate, TypeOK, Consoles
<1>3. file'.rec = file.rec /\ file'.mark = file.mark /\ file'.torn
  BY <1>0 DEF Truncate, TypeOK, Files
<1>4. TypeOK'
  <2>1. console' \in Consoles
    BY <1>0 DEF TypeOK, Truncate, Consoles, ConsolePhases
  <2>2. file' \in Files
    BY <1>0 DEF TypeOK, Truncate, Files
  <2> QED BY <1>0, <1>1, <2>1, <2>2 DEF TypeOK
<1>5. Tenure' /\ RInv'
  BY <1>1, <1>2 DEF IInv, Tenure, RInv
<1>6. Origins'
  BY <1>1, <1>2, <1>3 DEF IInv, Origins, MarkOK, RecordOK
<1>7. FileInv'
  BY <1>1, <1>2, <1>3 DEF IInv, FileInv
<1>8. ConsoleInv'
  BY <1>1, <1>2 DEF IInv, ConsoleInv
<1>9. LineInv'
  BY <1>1, <1>2 DEF IInv, LineInv, One, StartingUp, Working
<1>10. PidInv'
  BY <1>1, <1>2 DEF IInv, PidInv
<1> QED BY <1>4, <1>5, <1>6, <1>7, <1>8, <1>9, <1>10 DEF IInv

\* The line that waited for a publication goes to the terminal.
LEMMA LineIsSent ==
  ASSUME IInv, UNCHANGED r, history'.ahead = history.ahead,
         console'.pending = console.pending, ~console'.send, LineSent
  PROVE  /\ LineInv' /\ tty' \in Terminals
         /\ tty'.typed = tty.typed + One(console.send) /\ tty'.prompts = tty.prompts
<1>0. TypeOK
  BY DEF IInv
<1>1. /\ tty'.typed = tty.typed + One(console.send) /\ tty'.prompts = tty.prompts
  <2>1. tty'.typed = IF console.send THEN tty.typed + 1 ELSE tty.typed
    BY <1>0 DEF LineSent, TypeOK, Terminals
  <2> QED BY <2>1, <1>0, TtyFacts DEF LineSent, TypeOK, Terminals, One
<1>2. tty' \in Terminals
  <2>1. (IF console.send THEN tty.typed + 1 ELSE tty.typed) \in Nat
    BY <1>0, TtyFacts
  <2> QED BY <1>0, <2>1 DEF LineSent, TypeOK, Terminals
<1>3. (StartingUp' <=> StartingUp) /\ (Working' <=> Working)
  BY DEF StartingUp, Working
<1>5. CASE console.pending
  BY <1>0, <1>1, <1>2, <1>3, <1>5, TtyFacts DEF IInv, LineInv, One
<1>6. CASE ~console.pending
  BY <1>0, <1>1, <1>2, <1>3, <1>6, TtyFacts DEF IInv, LineInv, One
<1> QED BY <1>1, <1>2, <1>5, <1>6

LEMMA merge_status_fileStep ==
  ASSUME IInv, merge_status_file
  PROVE  IInv'
<1>0. TypeOK
  BY DEF IInv
<1>1. console.pc = "write" /\ UNCHANGED r /\ LineSent /\ console' = Published(console)
  BY DEF merge_status_file
<1>2. /\ console'.gen = console.gen /\ console'.open = console.open /\ console'.pc = "idle"
      /\ console'.busy = console.busy /\ console'.pid = console.pid /\ console'.read = None
      /\ console'.pending = console.pending /\ ~console'.send
  BY <1>0, <1>1 DEF Published, TypeOK, Consoles
<1>3. \/ /\ file'.rec = console.read /\ file'.mark = ConsoleFields /\ file'.torn = FALSE /\ notice' = TRUE
         /\ file.torn
         /\ history'.ahead = history.ahead
         /\ history'.clobbered <=> history.clobbered \/ console.read # file.rec
         /\ file' \in Files /\ history' \in Histories
      \/ ~file.torn /\ UNCHANGED <<file, history, notice>>
  <2>1. CASE file.torn
    <3>1. ConsoleFields \in Marks
      BY <1>0, ConsoleFacts DEF ConsoleFields, Marks
    <3>f. file' = [rec |-> console.read, mark |-> ConsoleFields, torn |-> FALSE]
      BY <2>1 DEF merge_status_file, Replace
    <3>2. file' \in Files
      <4> HIDE DEF ConsoleFields
      <4> QED BY <3>1, <3>f, <1>0, ConsoleFacts DEF Files
    <3>3. /\ history'.ahead = history.ahead /\ history' \in Histories
          /\ history'.clobbered <=> history.clobbered \/ console.read # file.rec
      BY <2>1, <1>0 DEF merge_status_file, TypeOK, Histories
    <3> QED BY <3>2, <3>3, <3>f, <2>1 DEF merge_status_file
  <2> QED BY <2>1 DEF merge_status_file
<1>4. console' \in Consoles
  BY <1>0, <1>1 DEF Published, TypeOK, Consoles, ConsolePhases
<1>5. /\ LineInv' /\ tty' \in Terminals
      /\ tty'.typed = tty.typed + One(console.send) /\ tty'.prompts = tty.prompts
  BY <1>1, <1>2, <1>3, LineIsSent
<1>6. TypeOK'
  BY <1>0, <1>1, <1>3, <1>4, <1>5 DEF TypeOK
<1>7. Tenure' /\ RInv'
  BY <1>1, <1>2 DEF IInv, Tenure, RInv
<1>8. Origins'
  <2>1. RecordOK(file.rec)'
    BY <1>1, <1>3 DEF IInv, Origins, RecordOK
  <2>2. MarkOK(file.mark)'
    <3>1. CASE file'.mark = ConsoleFields
      BY <3>1, <1>0, <1>2, ConsoleFacts DEF IInv, Origins, MarkOK, ConsoleFields
    <3>2. CASE file'.mark = file.mark
      BY <3>2, <1>2 DEF IInv, Origins, MarkOK
    <3> QED BY <3>1, <3>2, <1>3
  <2> QED BY <2>1, <2>2, <1>1, <1>2 DEF IInv, Origins, MarkOK, RecordOK
<1>9. FileInv'
  <2>1. ConsoleFields' = ConsoleFields
    BY <1>2 DEF ConsoleFields
  <2>2. notice /\ (console.open \/ file.torn)
    BY <1>1 DEF IInv, FileInv
  <2>3. CASE file.torn
    BY <2>1, <2>3, <1>1, <1>2, <1>3 DEF IInv, FileInv
  <2>4. CASE ~file.torn
    BY <2>1, <2>2, <2>4, <1>1, <1>2, <1>3 DEF IInv, FileInv
  <2> QED BY <2>3, <2>4
<1>10. ConsoleInv'
  <2>1. r.gen < console.gen => ~console.send /\ tty'.typed = 0 /\ tty'.prompts = 0
    BY <1>0, <1>1, <1>5, TtyFacts DEF IInv, ConsoleInv, One
  <2> QED BY <2>1, <1>1, <1>2 DEF IInv, ConsoleInv
<1>11. PidInv'
  <2>1. history'.ahead = history.ahead /\ (~history'.clobbered => ~history.clobbered)
    BY <1>3
  <2> QED BY <2>1, <1>1, <1>2 DEF IInv, PidInv
<1> QED BY <1>5, <1>6, <1>7, <1>8, <1>9, <1>10, <1>11 DEF IInv

\* publish_status: a busy console that has no process to name yet finds it in the file,
\* because R is at the prompt at which the submission was made.
LEMMA publish_statusStep ==
  ASSUME IInv, publish_status
  PROVE  IInv'
<1>0. TypeOK
  BY DEF IInv
<1> DEFINE rec == IF file.torn THEN None ELSE file.rec
           mark == IF file.torn THEN None ELSE file.mark
           pid == IF ~console.busy THEN None
                  ELSE IF console.pid # None \/ rec = None THEN console.pid ELSE rec.gen
           c == [console EXCEPT !.pid = pid, !.read = rec]
           fields == [ConsoleFields EXCEPT !.pid = pid]
<1>1. console.pc = "publish" /\ UNCHANGED <<file, r, notice, history>>
  BY DEF publish_status
<1>2. \/ mark = fields /\ console' = Published(c) /\ LineSent
      \/ mark # fields /\ console' = [c EXCEPT !.pc = "truncate"] /\ UNCHANGED tty
  BY DEF publish_status
<1>3. /\ rec \in Records \cup {None} /\ RecordOK(rec)
      /\ pid \in Generations \cup {None} /\ (pid # None => pid <= console.gen)
  <2>1. rec \in Records \cup {None} /\ RecordOK(rec)
    BY <1>0, FileFacts DEF IInv, Origins, RecordOK
  <2> HIDE DEF rec
  <2>2. rec # None => rec.gen \in Generations /\ rec.gen \in Nat /\ rec.gen <= console.gen
    <3>1. rec # None => rec.gen \in Generations /\ rec.gen \in Nat
      BY <2>1, GenerationFacts DEF Records
    <3> QED BY <3>1, <2>1, <1>0, RFacts, ConsoleFacts DEF RecordOK, IInv, Tenure
  <2> QED BY <2>1, <2>2, <1>0, ConsoleFacts DEF IInv, Origins
<1>4. pid = None <=> ~console.busy \/ (console.pid = None /\ rec = None)
  <2> HIDE DEF rec
  <2>1. rec # None => rec.gen # None
    BY <1>3, GenerationFacts DEF Records
  <2> QED BY <2>1
<1>5. mark # None => ~file.torn /\ mark = file.mark
  OBVIOUS
<1>6. fields = [gen |-> console.gen, open |-> console.open, busy |-> console.busy, pid |-> pid]
      /\ fields \in Marks
  <2> HIDE DEF pid
  <2>1. fields = [gen |-> console.gen, open |-> console.open, busy |-> console.busy, pid |-> pid]
    BY DEF ConsoleFields
  <2> HIDE DEF fields
  <2> QED BY <2>1, <1>0, <1>3, ConsoleFacts DEF Marks
<1>p. ~history.ahead /\ ~history.clobbered /\ r.pc # "down" /\ console.busy => pid = r.gen
  <2> SUFFICES ASSUME ~history.ahead, ~history.clobbered, r.pc # "down", console.busy,
                      console.send, console.pid = None
               PROVE  pid = r.gen
    BY <1>0, <1>1, RFacts, GenerationFacts DEF IInv, PidInv
  <2>1. console.pending /\ r.gen = console.gen
    BY <1>1 DEF IInv, ConsoleInv, Tenure
  <2>2. ~StartingUp /\ ~Working
    BY <2>1, <1>0, TtyFacts DEF IInv, LineInv, One
  <2>3. r.pc = "prompt"
    BY <2>2, <1>0, RFacts, GenerationFacts DEF StartingUp, Working, RPhases
  <2>4. ~file.torn /\ file.rec = [gen |-> r.gen, n |-> r.n]
    BY <2>1, <2>3, <1>0, <1>1, RFacts DEF IInv, FileInv
  <2>5. file.rec # None
    BY <2>4, <1>0, RFacts, GenerationFacts DEF Records
  <2> QED BY <2>4, <2>5
<1> HIDE DEF rec, mark, pid, fields
<1>7. /\ console'.gen = console.gen /\ console'.open = console.open
      /\ console'.busy = console.busy /\ console'.pid = pid /\ console'.read \in {rec, None}
      /\ console'.pending = console.pending
      /\ \/ mark = fields /\ console'.pc = "idle" /\ ~console'.send /\ LineSent
         \/ mark # fields /\ console'.pc = "truncate" /\ console'.send = console.send /\ UNCHANGED tty
  <2>1. c \in Consoles
    BY <1>0, <1>3 DEF TypeOK, Consoles
  <2>2. /\ c.gen = console.gen /\ c.open = console.open /\ c.busy = console.busy /\ c.pid = pid
        /\ c.read = rec /\ c.pending = console.pending /\ c.send = console.send
    BY <1>0 DEF TypeOK, Consoles
  <2> QED BY <1>2, <2>1, <2>2 DEF Published, Consoles
<1>8. console' \in Consoles
  <2>1. c \in Consoles
    BY <1>0, <1>3 DEF TypeOK, Consoles
  <2> HIDE DEF c
  <2> QED BY <1>2, <2>1 DEF Published, Consoles, ConsolePhases
<1>9. LineInv' /\ tty' \in Terminals
  <2>1. CASE console'.pc = "idle" /\ ~console'.send /\ LineSent
    BY <2>1, <1>1, <1>7, LineIsSent
  <2>2. CASE console'.pc = "truncate" /\ console'.send = console.send /\ UNCHANGED tty
    BY <2>2, <1>0, <1>1, <1>7 DEF IInv, LineInv, One, StartingUp, Working, TypeOK
  <2> QED BY <2>1, <2>2, <1>7
<1>10. TypeOK'
  BY <1>0, <1>1, <1>8, <1>9 DEF TypeOK
<1>11. Tenure' /\ RInv'
  BY <1>1, <1>7 DEF IInv, Tenure, RInv
<1>12. Origins'
  BY <1>1, <1>3, <1>7 DEF IInv, Origins, MarkOK, RecordOK
<1>13. FileInv'
  <2>1. ConsoleFields' = fields
    BY <1>6, <1>7 DEF ConsoleFields
  <2>2. console'.pc = "idle" => ~file.torn /\ file.mark = fields
    BY <1>5, <1>6, <1>7, GenerationFacts
  <2> HIDE DEF fields, ConsoleFields
  <2> QED BY <2>1, <2>2, <1>1, <1>7 DEF IInv, FileInv
<1>14. ConsoleInv'
  <2>1. r.gen < console.gen => tty'.typed = 0 /\ tty'.prompts = 0
    <3>1. CASE UNCHANGED tty
      BY <3>1, <1>1 DEF IInv, ConsoleInv
    <3>2. CASE console'.pc = "idle" /\ ~console'.send /\ LineSent
      BY <3>2, <1>0, <1>1, <1>7, LineIsSent, TtyFacts DEF IInv, ConsoleInv, One
    <3> QED BY <3>1, <3>2, <1>7
  <2> QED BY <2>1, <1>1, <1>4, <1>7 DEF IInv, ConsoleInv
<1>15. PidInv'
  BY <1>p, <1>1, <1>7 DEF PidInv
<1> QED BY <1>9, <1>10, <1>11, <1>12, <1>13, <1>14, <1>15 DEF IInv

-----------------------------------------------------------------------------
(* The invariant holds *)

LEMMA InitIInv ==
  ASSUME Init
  PROVE  IInv
<1>1. /\ r = [gen |-> 0, pc |-> "down", n |-> 0, kept |-> None] /\ console = Console(0, "gone")
      /\ tty = [typed |-> 0, prompts |-> 0, lines |-> 0] /\ notice = FALSE
      /\ history = [clobbered |-> FALSE, ahead |-> FALSE]
  BY DEF Init
<1>2. /\ console.gen = 0 /\ console.pc = "gone" /\ ~console.open /\ ~console.busy
      /\ console.pid = None /\ console.read = None /\ ~console.pending /\ ~console.send
  BY <1>1, ConsoleIs
<1>3. /\ file \in Files
      /\ file.rec # None => file.rec.gen = 0
      /\ file.mark # None => file.mark.gen = 0 /\ file.mark.pid \in {None, 0}
  <2>1. CASE file = [rec |-> None, mark |-> None, torn |-> FALSE]
    BY <2>1 DEF Files
  <2>2. CASE file # [rec |-> None, mark |-> None, torn |-> FALSE]
    <3>0. PICK closed \in BOOLEAN, torn \in BOOLEAN :
             file = [rec |-> [gen |-> 0, n |-> Ready],
                     mark |-> [gen |-> 0, open |-> ~closed, busy |-> ~closed,
                               pid |-> IF closed THEN None ELSE 0],
                     torn |-> torn]
      BY <2>2 DEF Init
    <3>1. [gen |-> 0, n |-> Ready] \in Records
      BY GenerationFacts DEF Records
    <3>2. [gen |-> 0, open |-> ~closed, busy |-> ~closed, pid |-> IF closed THEN None ELSE 0] \in Marks
      BY GenerationFacts DEF Marks
    <3>3. /\ file.rec \in Records /\ file.mark \in Marks /\ file.rec.gen = 0
          /\ file.mark.gen = 0 /\ file.mark.pid \in {None, 0}
      BY <3>0, <3>1, <3>2
    <3>4. file \in Files
      BY <3>0, <3>1, <3>2 DEF Files
    <3> QED BY <3>3, <3>4
  <2> QED BY <2>1, <2>2
<1>4. TypeOK
  <2>1. r \in Processes
    BY <1>1, GenerationFacts DEF Processes, RPhases
  <2>2. console \in Consoles
    BY <1>1, ConsoleTyped, GenerationFacts DEF ConsolePhases
  <2>3. tty \in Terminals
    BY <1>1, BoundsAssumption DEF Terminals
  <2>4. notice \in BOOLEAN /\ history \in Histories
    BY <1>1 DEF Histories
  <2> QED BY <1>3, <2>1, <2>2, <2>3, <2>4 DEF TypeOK
<1>5. Tenure /\ FileInv /\ RInv /\ ConsoleInv /\ LineInv /\ PidInv
  BY <1>1, <1>2 DEF Tenure, FileInv, RInv, ConsoleInv, LineInv, PidInv
<1>6. Origins
  BY <1>1, <1>2, <1>3 DEF Origins, MarkOK, RecordOK
<1> QED BY <1>4, <1>5, <1>6 DEF IInv

LEMMA NextIInv ==
  ASSUME IInv, [Next]_vars
  PROVE  IInv'
<1>1. CASE UNCHANGED vars
  BY <1>1 DEF vars, IInv, TypeOK, Tenure, Origins, MarkOK, RecordOK, FileInv, ConsoleFields, RInv,
              ConsoleInv, LineInv, One, StartingUp, Working, PidInv
<1>2. CASE RStep \/ Exit
  BY <1>2, ReadPreservedStep, write_statusStep, ReadLineStep, EvalEndsStep, ExitStep DEF RStep
<1>3. CASE ConsoleStep
  BY <1>3, StartJobStep, parse_outputStep, RepublishStep, CloseStep, LeaveStep, publish_statusStep,
     TruncateStep, merge_status_fileStep DEF ConsoleStep
<1>4. CASE Open \/ Submit \/ SkipPrompt \/ Hangup
  BY <1>4, OpenStep, SubmitStep, SkipPromptStep, LeaveStep
<1> QED BY <1>1, <1>2, <1>3, <1>4 DEF Next

LEMMA InvariantHolds == Spec => []IInv
  BY InitIInv, NextIInv, PTL DEF Spec

-----------------------------------------------------------------------------
(* The theorems *)

\* Every step of R and of the console leaves the file and the two processes well-typed.
THEOREM TypeCorrect == Spec => []TypeOK
<1>1. IInv => TypeOK
  BY DEF IInv
<1> QED BY <1>1, InvariantHolds, PTL

\* However merge_status_file and R's write_status overlap, a console that rests with no
\* notice left finds the file complete, with its own fields and R's last record, unless
\* it wrote back an older one.
THEOREM RestingFile == Spec => []RestingFileIsTrue
<1>1. IInv => RestingFileIsTrue
  BY DEF IInv, FileInv, RestingFileIsTrue
<1> QED BY <1>1, InvariantHolds, PTL

\* While R evaluates a line that was submitted at its prompt, the file of a resting
\* console names R's socket and the console as the one that keeps R busy: the fields
\* publish_status wrote before the line was sent name the process that reads it.
THEOREM EvaluationDeferred == Spec => []EvaluationIsDeferred
<1>1. ASSUME IInv PROVE EvaluationIsDeferred
  <2> SUFFICES ASSUME r.pc = "eval", console.pc = "idle", ~notice, ~history.ahead, ~history.clobbered
               PROVE  connection_from_status(file.rec, file.mark) = [gen |-> r.gen, owner |-> console.gen]
    BY DEF EvaluationIsDeferred
  <2>0. TypeOK
    BY <1>1 DEF IInv
  <2>1. file.mark = ConsoleFields /\ file.rec = [gen |-> r.gen, n |-> r.n] /\ r.n >= Ready
    BY <1>1 DEF IInv, FileInv, RInv
  <2>2. console.pending
    BY <1>1 DEF IInv, LineInv, Working
  <2>3. console.open /\ console.busy /\ console.pid = r.gen
    BY <2>2, <1>1 DEF IInv, ConsoleInv, Tenure, PidInv
  <2>4. file.mark # None /\ file.rec # None
    <3>1. file.mark \in Marks /\ file.rec \in Records
      BY <2>0, <2>1, ConsoleFacts, RFacts DEF ConsoleFields, Marks, Records
    <3> QED BY <3>1, GenerationFacts
  <2>5. ~(file.rec.n < Ready) /\ file.rec.gen = r.gen
    BY <2>0, <2>1, RFacts, GenerationFacts
  <2>6. BusyOwner(file.rec, file.mark) = console.gen
    BY <2>1, <2>3, <2>4, <2>5 DEF BusyOwner, ConsoleFields
  <2> QED BY <2>4, <2>5, <2>6 DEF connection_from_status
<1> QED BY <1>1, InvariantHolds, PTL

-----------------------------------------------------------------------------
(* The contract readers rely on *)

\* What a reader finds, and who lives, as StatusContents sees them.
Found == [conn |-> connection_from_status(file.rec, file.mark), torn |-> file.torn,
          there |-> file.rec # None \/ file.mark # None \/ file.torn]
Living == [r |-> IF r.pc = "down" THEN None ELSE r.gen,
          console |-> IF console.pc = "gone" THEN None ELSE console.gen,
          started |-> r.gen, opened |-> console.gen]

LEMMA ConnectionFacts ==
  ASSUME NEW rec \in Records \cup {None}, NEW mark \in Marks \cup {None}
  PROVE  LET conn == connection_from_status(rec, mark) IN
         /\ conn \in [gen : Generations, owner : Generations \cup {None}] \cup {None}
         /\ conn # None =>
              /\ rec # None /\ conn.gen = rec.gen
              /\ conn.owner # None => /\ mark # None /\ conn.owner = mark.gen
                                      /\ mark.pid = rec.gen
<1>1. BusyOwner(rec, mark) \in Generations \cup {None}
  BY DEF BusyOwner, Marks
<1>2. BusyOwner(rec, mark) # None => mark # None /\ BusyOwner(rec, mark) = mark.gen /\ mark.pid = rec.gen
  BY DEF BusyOwner
<1>3. rec # None => rec.gen \in Generations
  BY DEF Records
<1> QED BY <1>1, <1>2, <1>3 DEF connection_from_status

\* A content whose parts come from processes that were started keeps the promise: the
\* fields name no R after their console, so those that name the living R are of the
\* living console.
LEMMA PromiseKept ==
  ASSUME IInv, NEW rec \in Records \cup {None}, NEW mark \in Marks \cup {None},
         RecordOK(rec), MarkOK(mark)
  PROVE  KeepsContract!Promised(connection_from_status(rec, mark))
<1> DEFINE conn == connection_from_status(rec, mark)
<1>0. TypeOK
  BY DEF IInv
<1>1. /\ conn # None =>
          /\ rec # None /\ conn.gen = rec.gen
          /\ conn.owner # None => /\ mark # None /\ conn.owner = mark.gen
                                  /\ mark.pid = rec.gen
  BY ConnectionFacts
<1>2. /\ rec # None => rec.gen \in Nat /\ rec.gen <= r.gen /\ rec.gen # None
      /\ mark # None => mark.gen \in Nat /\ mark.gen <= console.gen
  BY GenerationFacts DEF RecordOK, MarkOK, Records, Marks
<1>3. ASSUME conn # None, conn.owner # None, r.pc # "down", conn.gen = r.gen
      PROVE  console.pc # "gone" /\ conn.owner = console.gen
  <2>1. r.gen = console.gen /\ console.pc # "gone"
    BY <1>3 DEF IInv, Tenure
  <2>2. mark.pid = console.gen /\ mark # None /\ conn.owner = mark.gen
    BY <1>1, <1>3, <2>1
  <2>3. console.gen <= mark.gen
    BY <2>2, <1>0, ConsoleFacts, GenerationFacts DEF MarkOK
  <2> QED BY <2>1, <2>2, <2>3, <1>2, <1>0, ConsoleFacts
<1> HIDE DEF conn
<1>4. /\ conn # None => conn.gen <= r.gen
      /\ conn # None /\ conn.owner # None => conn.owner <= console.gen
      /\ conn # None /\ conn.owner # None /\ conn.gen = (IF r.pc = "down" THEN None ELSE r.gen) =>
           conn.owner = IF console.pc = "gone" THEN None ELSE console.gen
  <2>1. /\ conn # None => conn.gen <= r.gen /\ conn.gen # None
        /\ conn # None /\ conn.owner # None => conn.owner <= console.gen
    BY <1>1, <1>2
  <2> QED BY <2>1, <1>3
<1> QED BY <1>4 DEF KeepsContract!Promised, conn

\* Found and Living stand for the two variables of the contract.
LEMMA ContractSteps ==
  ASSUME IInv, [Next]_vars
  PROVE  [KeepsContract!Change]_<<Found, Living>>
<1>0. TypeOK
  BY DEF IInv
<1>g. r.gen # None /\ console.gen # None
  BY <1>0, RFacts, ConsoleFacts, GenerationFacts
<1>1. ASSUME UNCHANGED <<file, r.gen, console.gen>>,
             (r'.pc = "down") <=> (r.pc = "down"), (console'.pc = "gone") <=> (console.pc = "gone")
      PROVE  UNCHANGED <<Found, Living>>
  <2>1. UNCHANGED Found
    BY <1>1 DEF Found, connection_from_status, BusyOwner
  <2>2. UNCHANGED Living
    BY <1>1 DEF Living
  <2> QED BY <2>1, <2>2
<1>2. ASSUME NEW rec \in Records \cup {None}, NEW mark \in Marks \cup {None},
             RecordOK(rec), MarkOK(mark), rec # None \/ mark # None,
             Replace(rec, mark), UNCHANGED <<r.gen, console.gen>>,
             r'.pc = "down" <=> r.pc = "down", console'.pc = "gone" <=> console.pc = "gone"
      PROVE  KeepsContract!Change
  <2>1. PICK conn : conn = connection_from_status(rec, mark)
    OBVIOUS
  <2>2. conn \in [gen : Generations, owner : Generations \cup {None}] \cup {None}
    BY <2>1, ConnectionFacts
  <2>3. conn \in KeepsContract!Connections \cup {None}
    BY <2>2 DEF KeepsContract!Connections, KeepsContract!Generations, Generations
  <2>4. KeepsContract!Promised(conn)
    BY <2>1, <1>2, PromiseKept
  <2>5. file'.rec = rec /\ file'.mark = mark /\ file'.torn = FALSE
    BY <1>2 DEF Replace
  <2>6. Found' = [conn |-> conn, torn |-> FALSE, there |-> TRUE]
    BY <2>1, <2>5, <1>2 DEF Found, connection_from_status, BusyOwner
  <2>7. UNCHANGED Living
    BY <1>2 DEF Living
  <2>8. KeepsContract!Show(conn)
    BY <2>4, <2>6, <2>7 DEF KeepsContract!Show, Found, Living
  <2> QED BY <2>3, <2>8 DEF KeepsContract!Change
<1>3. CASE UNCHANGED vars
  BY <1>1, <1>3 DEF vars
<1>4. CASE ReadPreserved \/ ReadLine \/ EvalEnds
  <2>1. UNCHANGED <<file, console, r.gen>> /\ r.pc # "down" /\ r'.pc # "down"
    BY <1>0, <1>4 DEF ReadPreserved, ReadLine, EvalEnds, TypeOK, Processes
  <2> QED BY <2>1, <1>1
<1>5. CASE write_status
  <2>1. UNCHANGED <<console, r.gen>> /\ r.pc # "down" /\ r'.pc # "down"
    BY <1>0, <1>5 DEF write_status, TypeOK, Processes
  <2> DEFINE rec == [gen |-> r.gen, n |-> r.n]
  <2>2. rec \in Records /\ RecordOK(rec) /\ rec # None
    BY <1>0, RFacts, GenerationFacts DEF Records, RecordOK
  <2>3. Replace(rec, r.kept) /\ MarkOK(r.kept) /\ r.kept \in Marks \cup {None}
    BY <1>0, <1>5, RFacts DEF write_status, IInv, Origins
  <2> HIDE DEF rec
  <2> QED BY <2>1, <2>2, <2>3, <1>2
<1>6. CASE Exit
  <2>1. UNCHANGED <<file, console, r.gen>> /\ r.pc # "down" /\ r'.pc = "down"
    BY <1>0, <1>6 DEF Exit, TypeOK, Processes
  <2>2. UNCHANGED Found /\ Living.r # None /\ Living' = [Living EXCEPT !.r = None]
    BY <2>1, <1>g DEF Found, Living, connection_from_status, BusyOwner
  <2> QED BY <2>2 DEF KeepsContract!Change, KeepsContract!StopR, Found, Living
<1>7. CASE Open
  <2>1. /\ UNCHANGED <<file, r>> /\ console.pc = "gone" /\ console'.pc = "publish"
        /\ console.gen < MaxGeneration /\ console'.gen = console.gen + 1
    BY <1>7, ConsoleIs DEF Open
  <2>2. UNCHANGED Found
    BY <2>1 DEF Found, connection_from_status, BusyOwner
  <2>3. PICK p : p = IF r.pc = "down" THEN None ELSE r.gen
    OBVIOUS
  <2>n. PICK n : n = console.gen + 1
    OBVIOUS
  <2>4. /\ Living = [r |-> p, console |-> None, started |-> r.gen, opened |-> console.gen]
        /\ Living' = [r |-> p, console |-> n, started |-> r.gen, opened |-> n]
    BY <2>1, <2>3, <2>n DEF Living
  <2>5. /\ UNCHANGED Found /\ Living.console = None /\ Living.opened < MaxGeneration
        /\ Living' = [Living EXCEPT !.console = Living.opened + 1, !.opened = Living.opened + 1]
    <3>1. Living.console = None /\ Living.opened = console.gen
      BY <2>4
    <3>2. [Living EXCEPT !.console = n, !.opened = n] = Living'
      <4>1. [Living EXCEPT !.console = n] = [r |-> p, console |-> n, started |-> r.gen, opened |-> console.gen]
        BY <2>4
      <4>2. [[r |-> p, console |-> n, started |-> r.gen, opened |-> console.gen] EXCEPT !.opened = n] = [r |-> p, console |-> n, started |-> r.gen, opened |-> n]
        OBVIOUS
      <4>3. [Living EXCEPT !.console = n, !.opened = n] = [[Living EXCEPT !.console = n] EXCEPT !.opened = n]
        OBVIOUS
      <4> QED BY <4>1, <4>2, <4>3, <2>4
    <3> QED BY <2>1, <2>2, <2>n, <3>1, <3>2
  <2> QED BY <2>5 DEF KeepsContract!Change, KeepsContract!OpenConsole, Found, Living
<1>8. CASE StartJob
  <2>1. /\ UNCHANGED <<file, console.gen>> /\ console.pc = "idle" /\ console'.pc = "publish"
        /\ r.gen < console.gen /\ r'.gen = console.gen /\ r'.pc = "startup"
    BY <1>0, <1>8 DEF StartJob, TypeOK, Consoles
  <2>2. /\ UNCHANGED Found /\ Living.console # None /\ Living.started < Living.console
        /\ Living' = [Living EXCEPT !.r = Living.console, !.started = Living.console]
    <3>1. UNCHANGED Found
      BY <2>1 DEF Found, connection_from_status, BusyOwner
    <3>2. PICK p : p = IF r.pc = "down" THEN None ELSE r.gen
      OBVIOUS
    <3>3. /\ Living = [r |-> p, console |-> console.gen, started |-> r.gen, opened |-> console.gen]
          /\ Living' = [r |-> console.gen, console |-> console.gen, started |-> console.gen,
                       opened |-> console.gen]
      BY <2>1, <3>2 DEF Living
    <3>4. Living.console = console.gen /\ Living.started = r.gen
      BY <3>3
    <3>5. [Living EXCEPT !.r = console.gen, !.started = console.gen] = Living'
      <4>1. [Living EXCEPT !.r = console.gen] = [r |-> console.gen, console |-> console.gen, started |-> r.gen, opened |-> console.gen]
        BY <3>3
      <4>2. [[r |-> console.gen, console |-> console.gen, started |-> r.gen, opened |-> console.gen] EXCEPT !.started = console.gen] = [r |-> console.gen, console |-> console.gen, started |-> console.gen, opened |-> console.gen]
        OBVIOUS
      <4>3. [Living EXCEPT !.r = console.gen, !.started = console.gen] = [[Living EXCEPT !.r = console.gen] EXCEPT !.started = console.gen]
        OBVIOUS
      <4> QED BY <4>1, <4>2, <4>3, <3>3
    <3> QED BY <2>1, <1>g, <3>1, <3>4, <3>5
  <2> QED BY <2>2 DEF KeepsContract!Change, KeepsContract!StartR, Found, Living
<1>9. CASE parse_output \/ Republish \/ Close \/ publish_status \/ Submit \/ SkipPrompt
  <2>1. UNCHANGED <<file, r, console.gen>> /\ console.pc # "gone" /\ console'.pc # "gone"
    <3>1. CASE parse_output \/ Republish \/ Close \/ Submit \/ SkipPrompt
      BY <3>1, <1>0 DEF parse_output, Republish, Close, Submit, SkipPrompt, TypeOK, Consoles
    <3>2. CASE publish_status
      BY <3>2, <1>0 DEF publish_status, Published, TypeOK, Consoles
    <3> QED BY <3>1, <3>2, <1>9
  <2> QED BY <2>1, <1>1
<1>10. CASE Leave \/ Hangup
  <2>1. /\ UNCHANGED <<file, console.gen, r.gen>> /\ console.pc # "gone" /\ console'.pc = "gone"
        /\ r'.pc = "down"
    <3>1. CASE Leave
      BY <3>1, ConsoleIs DEF Leave, IInv, Tenure
    <3>2. CASE Hangup
      BY <3>2, <1>0, ConsoleIs DEF Hangup, TypeOK, Processes
    <3> QED BY <3>1, <3>2, <1>10
  <2>2. UNCHANGED Found /\ Living.console # None /\ Living' = [Living EXCEPT !.r = None, !.console = None]
    <3>1. UNCHANGED Found
      BY <2>1 DEF Found, connection_from_status, BusyOwner
    <3>2. PICK p : p = IF r.pc = "down" THEN None ELSE r.gen
      OBVIOUS
    <3>3. /\ Living = [r |-> p, console |-> console.gen, started |-> r.gen, opened |-> console.gen]
          /\ Living' = [r |-> None, console |-> None, started |-> r.gen, opened |-> console.gen]
      BY <2>1, <3>2 DEF Living
    <3>4. Living.console = console.gen
      BY <3>3
    <3>5. [Living EXCEPT !.r = None, !.console = None] = Living'
      <4>1. [Living EXCEPT !.r = None] = [r |-> None, console |-> console.gen, started |-> r.gen, opened |-> console.gen]
        BY <3>3
      <4>2. [[r |-> None, console |-> console.gen, started |-> r.gen, opened |-> console.gen] EXCEPT !.console = None] = [r |-> None, console |-> None, started |-> r.gen, opened |-> console.gen]
        OBVIOUS
      <4>3. [Living EXCEPT !.r = None, !.console = None] = [[Living EXCEPT !.r = None] EXCEPT !.console = None]
        OBVIOUS
      <4> QED BY <4>1, <4>2, <4>3, <3>3
    <3> QED BY <1>g, <3>1, <3>4, <3>5
  <2> QED BY <2>2 DEF KeepsContract!Change, KeepsContract!CloseConsole, Found, Living
<1>11. CASE Truncate
  <2>1. /\ UNCHANGED <<r, console.gen, file.rec, file.mark>> /\ file'.torn = TRUE
        /\ console.pc # "gone" /\ console'.pc # "gone"
    BY <1>0, <1>11 DEF Truncate, TypeOK, Consoles, Files
  <2>2. UNCHANGED Living /\ Found' = [Found EXCEPT !.torn = TRUE, !.there = TRUE]
    <3>1. UNCHANGED Living
      BY <2>1 DEF Living
    <3>2. PICK conn, torn, there : Found = [conn |-> conn, torn |-> torn, there |-> there]
      BY DEF Found
    <3>y. PICK yes : yes = TRUE
      OBVIOUS
    <3>3. Found'.conn = Found.conn /\ Found'.torn = TRUE /\ Found'.there = TRUE
      BY <2>1 DEF Found, connection_from_status, BusyOwner
    <3>4. Found' = [conn |-> conn, torn |-> yes, there |-> yes]
      BY <3>2, <3>3, <3>y DEF Found
    <3>5. [Found EXCEPT !.torn = yes, !.there = yes] = Found'
      <4>1. [Found EXCEPT !.torn = yes] = [conn |-> conn, torn |-> yes, there |-> there]
        BY <3>2
      <4>2. [[conn |-> conn, torn |-> yes, there |-> there] EXCEPT !.there = yes] =
               [conn |-> conn, torn |-> yes, there |-> yes]
        OBVIOUS
      <4>3. [Found EXCEPT !.torn = yes, !.there = yes] = [[Found EXCEPT !.torn = yes] EXCEPT !.there = yes]
        OBVIOUS
      <4> QED BY <4>1, <4>2, <4>3, <3>4
    <3> QED BY <3>1, <3>5, <3>y
  <2> QED BY <2>2 DEF KeepsContract!Change, KeepsContract!Tear, Found, Living
<1>12. CASE merge_status_file
  <2>1. UNCHANGED <<r, console.gen>> /\ console.pc # "gone" /\ console'.pc # "gone"
    BY <1>0, <1>12 DEF merge_status_file, Published, TypeOK, Consoles
  <2>2. CASE ~file.torn
    BY <2>1, <2>2, <1>1, <1>12 DEF merge_status_file
  <2>3. CASE file.torn
    <3>1. Replace(console.read, ConsoleFields)
      BY <2>3, <1>12 DEF merge_status_file
    <3>2. ConsoleFields \in Marks /\ ConsoleFields # None /\ MarkOK(ConsoleFields)
      <4>1. ConsoleFields \in Marks
        BY <1>0, ConsoleFacts DEF ConsoleFields, Marks
      <4>2. MarkOK(ConsoleFields)
        BY <1>0, ConsoleFacts DEF IInv, Origins, MarkOK, ConsoleFields
      <4> QED BY <4>1, <4>2, GenerationFacts
    <3>3. console.read \in Records \cup {None} /\ RecordOK(console.read)
      BY <1>0, ConsoleFacts DEF IInv, Origins
    <3> HIDE DEF ConsoleFields
    <3> QED BY <2>1, <3>1, <3>2, <3>3, <1>2
  <2> QED BY <2>2, <2>3
<1> QED BY <1>3, <1>4, <1>5, <1>6, <1>7, <1>8, <1>9, <1>10, <1>11, <1>12
        DEF Next, RStep, ConsoleStep

LEMMA ContractInit ==
  ASSUME Init
  PROVE  KeepsContract!ContentsInit
<1>0. IInv /\ TypeOK
  BY InitIInv DEF IInv
<1>1. /\ r.gen = 0 /\ r.pc = "down" /\ console.gen = 0 /\ console.pc = "gone"
  BY ConsoleIs DEF Init
<1>2. Living = [r |-> None, console |-> None, started |-> 0, opened |-> 0]
  BY <1>1 DEF Living
<1> DEFINE conn == connection_from_status(file.rec, file.mark)
<1>3. /\ conn \in KeepsContract!Connections \cup {None} /\ KeepsContract!Promised(conn)
      /\ conn # None => file.rec # None
  <2>1. file.rec \in Records \cup {None} /\ file.mark \in Marks \cup {None}
    BY <1>0, FileFacts
  <2>2. KeepsContract!Promised(conn)
    BY <2>1, <1>0, PromiseKept DEF IInv, Origins
  <2>3. /\ conn \in [gen : Generations, owner : Generations \cup {None}] \cup {None}
        /\ conn # None => file.rec # None
    BY <2>1, ConnectionFacts
  <2> HIDE DEF conn
  <2> QED BY <2>2, <2>3 DEF KeepsContract!Connections, KeepsContract!Generations, Generations
<1> HIDE DEF conn
<1>4. /\ Found = [conn |-> conn, torn |-> file.torn,
                  there |-> file.rec # None \/ file.mark # None \/ file.torn]
      /\ file.torn \in BOOLEAN
  BY <1>0, FileFacts DEF Found, conn
<1>5. Found \in {x \in KeepsContract!Contents : x.there \/ (x.conn = None /\ ~x.torn)}
  BY <1>3, <1>4 DEF KeepsContract!Contents
<1>6. Found.conn = conn
  BY <1>4
<1> QED BY <1>2, <1>3, <1>5, <1>6 DEF KeepsContract!ContentsInit, Found, Living

\* R and the console, overwriting each other's file without a lock, keep what the server
\* relies on when it reads it (StatusContents): sockets are never of an R still to come,
\* and a file that calls the living R busy names its living console.
THEOREM Refinement == Spec => ImplementsContents
<1>1. Init => KeepsContract!ContentsInit
  BY ContractInit
<1>2. IInv /\ [Next]_vars => [KeepsContract!Change]_<<Found, Living>>
  BY ContractSteps
<1> QED BY <1>1, <1>2, InvariantHolds, PTL
        DEF Spec, ImplementsContents, KeepsContract!Contract, Found, Living

-----------------------------------------------------------------------------
(* The server as a reader: StatusReader, from one inductive invariant *)

\* What was read from the file stays promised while processes come and go.
ShownInv ==
  /\ Promised(shown.conn)
  /\ shown.conn # None => shown.there

CacheInv ==
  cache # None =>
    /\ Promised(cache.conn)
    /\ ~collided /\ cache.stamp = "whole" => cache.conn = shown.conn

\* A request on its way: what its attempts have found so far.
AttemptsInv(a) ==
  /\ Promised(a.conn)
  /\ Promised(a.first)
  /\ a.pc = "send" => a.conn # None
  /\ a.refresh <=> a.first # None
  /\ a.sent => a.refresh
  /\ a.pc = "send" => a.conn # a.first

\* An attempt that was sent to an R that runs was not told that R is busy; so the second
\* attempt, on another connection to the same R, is told, and is not sent.
SentInv(a) ==
  /\ a.sent /\ a.first.gen = live.r => a.first.owner = None
  /\ ~a.resent

\* A quiet request whose first attempt failed did not use what is in the file, and its
\* second attempt does.
QuietInv(a) ==
  a.quiet =>
    /\ Quiet
    /\ a.refresh /\ a.pc # "done" => a.first # shown.conn
    /\ a.refresh /\ a.pc = "send" => a.conn = shown.conn
    /\ a.pc = "done" => a.ok

ReqInv(a) == AttemptsInv(a) /\ SentInv(a) /\ QuietInv(a)

ReaderInv ==
  /\ ReaderTypeOK
  /\ ShownInv
  /\ CacheInv
  /\ \A q \in Requests : ReqInv(req[q])

RequestType ==
  [pc : Phases, refresh : BOOLEAN, stamp : Stamps,
   conn : Connections \cup {None}, first : Connections \cup {None},
   sent : BOOLEAN, resent : BOOLEAN, ok : BOOLEAN, quiet : BOOLEAN]

-----------------------------------------------------------------------------
(* The file changes *)

ProcessStep == OpenConsole \/ StartR \/ StopR \/ CloseConsole

LEMMA GenerationsAreNumbers == Generations \subseteq Nat /\ None \notin Generations
BY GenerationsAssumption DEF Generations

LEMMA NoneIsNoConnection == None \notin Connections
<1>1. Connections \subseteq [gen : Nat, owner : Nat \cup {None}]
  BY GenerationsAreNumbers DEF Connections
<1> QED BY <1>1, GenerationsAssumption

\* The processes stay within their bounds.
LEMMA LivesKept ==
  ASSUME live \in Lives, ProcessStep
  PROVE  live' \in Lives
<1>1. CASE OpenConsole
  <2>1. live.opened + 1 \in Generations
    BY <1>1, GenerationsAssumption DEF OpenConsole, Lives, Generations
  <2> QED BY <1>1, <2>1 DEF OpenConsole, Lives
<1>2. CASE StartR
  BY <1>2 DEF StartR, Lives
<1>3. CASE StopR
  BY <1>3 DEF StopR, Lives
<1>4. CASE CloseConsole
  BY <1>4 DEF CloseConsole, Lives
<1> QED BY <1>1, <1>2, <1>3, <1>4 DEF ProcessStep

\* A connection that was promised stays so, whatever starts or ends: an R that starts is
\* a later one than any connection names, and a console ends with its R.
LEMMA PromiseStays ==
  ASSUME live \in Lives, ProcessStep,
         NEW conn \in Connections \cup {None}, Promised(conn)
  PROVE  Promised(conn)'
<1>1. CASE conn = None
  BY <1>1 DEF Promised
<1>2. CASE conn # None
  <2>1. conn.gen \in Nat /\ conn.gen # None /\ conn.owner \in Nat \cup {None}
    BY <1>2, GenerationsAreNumbers DEF Connections
  <2>2. /\ conn.gen <= live.started
        /\ conn.owner # None => conn.owner <= live.opened
        /\ conn.owner # None /\ conn.gen = live.r => conn.owner = live.console
    BY <1>2 DEF Promised
  <2>3. live.started \in Nat /\ live.opened \in Nat /\ live.console \in Nat \cup {None}
    BY GenerationsAreNumbers DEF Lives
  <2>4. SUFFICES /\ conn.gen <= live'.started
                 /\ conn.owner # None => conn.owner <= live'.opened
                 /\ conn.owner # None /\ conn.gen = live'.r => conn.owner = live'.console
    BY DEF Promised
  <2>5. CASE OpenConsole
    <3>1. /\ live'.r = live.r /\ live'.started = live.started
          /\ live'.opened = live.opened + 1 /\ live.console = None
      BY <2>5 DEF OpenConsole, Lives
    <3> QED BY <2>1, <2>2, <2>3, <3>1
  <2>6. CASE StartR
    <3>1. /\ live'.r = live.console /\ live'.started = live.console
          /\ live'.opened = live.opened /\ live.console # None
          /\ live.started < live.console
      BY <2>6 DEF StartR, Lives
    <3> QED BY <2>1, <2>2, <2>3, <3>1
  <2>7. CASE StopR
    <3>1. /\ live'.r = None /\ live'.started = live.started
          /\ live'.opened = live.opened
      BY <2>7 DEF StopR, Lives
    <3> QED BY <2>1, <2>2, <2>3, <3>1
  <2>8. CASE CloseConsole
    <3>1. /\ live'.r = None /\ live'.started = live.started
          /\ live'.opened = live.opened
      BY <2>8 DEF CloseConsole, Lives
    <3> QED BY <2>1, <2>2, <2>3, <3>1
  <2> QED BY <2>5, <2>6, <2>7, <2>8 DEF ProcessStep
<1> QED BY <1>1, <1>2

\* Pass leaves everything of a request but its stamp, and no request quiet.
LEMMA PassRequests ==
  ASSUME ReaderTypeOK, NEW S \in SUBSET Stamps, Pass(S)
  PROVE  /\ req' \in [Requests -> RequestType]
         /\ \A q \in Requests :
              /\ req'[q].pc = req[q].pc /\ req'[q].refresh = req[q].refresh
              /\ req'[q].conn = req[q].conn /\ req'[q].first = req[q].first
              /\ req'[q].sent = req[q].sent /\ req'[q].resent = req[q].resent
              /\ req'[q].quiet = FALSE
<1>1. \A q \in Requests : req[q] \in RequestType
  BY DEF ReaderTypeOK, RequestType
<1> DEFINE Aged(t) == IF t \in S THEN "past" ELSE t
           New(q) == [req[q] EXCEPT !.quiet = FALSE, !.stamp = Aged(@)]
<1>2. req' = [q \in Requests |-> New(q)]
  BY DEF Pass
<1>3. \A q \in Requests :
        /\ New(q) \in RequestType
        /\ New(q).pc = req[q].pc /\ New(q).refresh = req[q].refresh
        /\ New(q).conn = req[q].conn /\ New(q).first = req[q].first
        /\ New(q).sent = req[q].sent /\ New(q).resent = req[q].resent
        /\ New(q).quiet = FALSE
  BY <1>1 DEF RequestType, Stamps
<1> HIDE DEF New
<1> QED BY <1>2, <1>3

\* ... and of the cache nothing but its stamp, which it makes no fresher.
LEMMA PassCache ==
  ASSUME ReaderTypeOK, NEW S \in SUBSET Stamps, Pass(S)
  PROVE  /\ cache' \in [stamp : Stamps, conn : Connections] \cup {None}
         /\ cache' # None =>
              /\ cache # None /\ cache'.conn = cache.conn
              /\ cache'.stamp = "whole" => cache.stamp = "whole" /\ "whole" \notin S
BY DEF ReaderTypeOK, Pass, Stamps

\* Requests whose fields are as after Pass keep their invariant when what they read stays
\* promised and the R that runs is the same or a later one.
LEMMA RequestsKept ==
  ASSUME ReaderTypeOK, NEW S \in SUBSET Stamps, Pass(S),
         \A q \in Requests : ReqInv(req[q]),
         \A conn \in Connections \cup {None} : Promised(conn) => Promised(conn)',
         \A gen \in Generations : gen = live'.r => gen = live.r \/ gen > live.started,
         live.started \in Nat
  PROVE  \A q \in Requests : ReqInv(req[q])'
<1> SUFFICES ASSUME NEW q \in Requests PROVE ReqInv(req[q])'
  OBVIOUS
<1>1. /\ req'[q].pc = req[q].pc /\ req'[q].refresh = req[q].refresh
      /\ req'[q].conn = req[q].conn /\ req'[q].first = req[q].first
      /\ req'[q].sent = req[q].sent /\ req'[q].resent = req[q].resent
      /\ req'[q].quiet = FALSE
  BY PassRequests
<1>2. req[q].conn \in Connections \cup {None} /\ req[q].first \in Connections \cup {None}
  BY DEF ReaderTypeOK
<1>3. AttemptsInv(req[q]) /\ SentInv(req[q])
  BY DEF ReqInv
<1>4. AttemptsInv(req[q])'
  <2>1. Promised(req[q].conn)' /\ Promised(req[q].first)'
    <3>1. Promised(req[q].conn) /\ Promised(req[q].first)
      BY <1>3 DEF AttemptsInv
    <3> QED BY <1>1, <1>2, <3>1 DEF Promised
  <2> QED BY <1>1, <1>3, <2>1 DEF AttemptsInv
<1>5. SentInv(req[q])'
  <2>1. SUFFICES ASSUME req[q].sent, req[q].first.gen = live'.r
                 PROVE  req[q].first.owner = None
    BY <1>1, <1>3 DEF SentInv
  <2>2. req[q].first # None /\ Promised(req[q].first)
    BY <1>3, <2>1 DEF AttemptsInv
  <2>3. /\ req[q].first.gen \in Generations /\ req[q].first.gen \in Nat
        /\ req[q].first.gen <= live.started
    BY <1>2, <2>2, GenerationsAreNumbers DEF Connections, Promised
  <2>4. req[q].first.gen = live.r
    BY <2>1, <2>3
  <2> QED BY <1>3, <2>1, <2>4 DEF SentInv
<1>6. QuietInv(req[q])'
  BY <1>1 DEF QuietInv
<1> QED BY <1>4, <1>5, <1>6 DEF ReqInv

LEMMA FileStep ==
  ASSUME ReaderInv,
         (\E conn \in Connections \cup {None} : Written(conn)) \/ Truncated
  PROVE  ReaderInv'
<1> USE DEF ReaderInv
<1>0. PICK S \in SUBSET Stamps : Pass(S)
  BY DEF Written, Truncated, Stamps
<1>1. UNCHANGED live
  BY DEF Written, Truncated, Show, Tear
<1>2. \A conn \in Connections \cup {None} : Promised(conn) => Promised(conn)'
  BY <1>1 DEF Promised
<1>3. live \in Lives /\ live.started \in Nat
  BY GenerationsAreNumbers DEF ReaderTypeOK, Lives
<1>4. \A q \in Requests : ReqInv(req[q])'
  BY <1>0, <1>1, <1>2, <1>3, RequestsKept
<1>5. /\ req' \in [Requests -> RequestType]
      /\ cache' \in [stamp : Stamps, conn : Connections] \cup {None}
  BY <1>0, PassRequests, PassCache
<1>6. ASSUME NEW conn \in Connections \cup {None}, Written(conn)
      PROVE  ReaderInv'
  <2>1. shown' = [conn |-> conn, torn |-> FALSE, there |-> TRUE] /\ Promised(conn)
    BY <1>6 DEF Written, Show
  <2>2. ReaderTypeOK'
    <3>1. shown' \in Contents
      BY <2>1 DEF Contents
    <3>2. collided' \in BOOLEAN
      BY <1>6 DEF Written, ReaderTypeOK
    <3> QED BY <1>1, <1>3, <1>5, <3>1, <3>2 DEF ReaderTypeOK, RequestType
  <2>3. ShownInv'
    BY <1>1, <2>1 DEF ShownInv, Promised
  <2>4. CacheInv'
    <3>1. CASE cache' = None
      BY <3>1 DEF CacheInv
    <3>2. CASE cache' # None
      <4>1. cache # None /\ cache'.conn = cache.conn
        BY <1>0, <3>2, PassCache
      <4>2. Promised(cache.conn)'
        BY <1>1, <4>1 DEF CacheInv, Promised
      <4>3. ASSUME ~collided', cache'.stamp = "whole" PROVE cache'.conn = shown'.conn
        <5>1. CASE Pass({"whole", "torn"}) /\ UNCHANGED collided
          BY <3>2, <4>3, <5>1, PassCache DEF Stamps
        <5>2. CASE Pass({"torn"}) /\ collided' = (collided \/ conn # shown.conn)
          <6>1. cache.stamp = "whole" /\ ~collided /\ conn = shown.conn
            BY <3>2, <4>3, <5>2, PassCache DEF Stamps, ReaderTypeOK
          <6> QED BY <2>1, <4>1, <6>1 DEF CacheInv
        <5> QED BY <1>6, <5>1, <5>2 DEF Written
      <4> QED BY <4>2, <4>3 DEF CacheInv
    <3> QED BY <3>1, <3>2
  <2> QED BY <1>4, <2>2, <2>3, <2>4
<1>7. ASSUME Truncated PROVE ReaderInv'
  <2>1. shown' = [shown EXCEPT !.torn = TRUE, !.there = TRUE] /\ Pass({"torn"})
        /\ UNCHANGED collided
    BY <1>7 DEF Truncated, Tear
  <2>2. shown' \in Contents /\ shown'.conn = shown.conn /\ shown'.there
    BY <2>1 DEF ReaderTypeOK, Contents
  <2>3. ReaderTypeOK'
    BY <1>1, <1>3, <1>5, <2>1, <2>2 DEF ReaderTypeOK, RequestType
  <2>4. ShownInv'
    BY <1>1, <2>2 DEF ShownInv, Promised
  <2>5. CacheInv'
    <3>1. CASE cache' = None
      BY <3>1 DEF CacheInv
    <3>2. CASE cache' # None
      <4>1. cache # None /\ cache'.conn = cache.conn
            /\ (cache'.stamp = "whole" => cache.stamp = "whole")
        BY <2>1, <3>2, PassCache DEF Stamps
      <4>2. Promised(cache.conn)'
        BY <1>1, <4>1 DEF CacheInv, Promised
      <4> QED BY <2>1, <2>2, <4>1, <4>2 DEF CacheInv
    <3> QED BY <3>1, <3>2
  <2> QED BY <1>4, <2>3, <2>4, <2>5
<1> QED BY <1>6, <1>7

LEMMA ProcessesStep ==
  ASSUME ReaderInv, ProcessesChange
  PROVE  ReaderInv'
<1> USE DEF ReaderInv
<1>1. ProcessStep /\ Pass({}) /\ UNCHANGED collided
  BY DEF ProcessesChange, ProcessStep
<1>2. live \in Lives /\ live.started \in Nat
  BY GenerationsAreNumbers DEF ReaderTypeOK, Lives
<1>3. live' \in Lives
  BY <1>1, <1>2, LivesKept
<1>4. \A conn \in Connections \cup {None} : Promised(conn) => Promised(conn)'
  BY <1>1, <1>2, PromiseStays
<1>5. UNCHANGED shown
  BY <1>1 DEF ProcessStep, OpenConsole, StartR, StopR, CloseConsole
<1>6. \A gen \in Generations : gen = live'.r => gen = live.r \/ gen > live.started
  BY <1>1, <1>2, GenerationsAreNumbers
     DEF ProcessStep, OpenConsole, StartR, StopR, CloseConsole, Lives
<1>7. \A q \in Requests : ReqInv(req[q])'
  BY <1>1, <1>2, <1>4, <1>6, RequestsKept
<1>8. ReaderTypeOK'
  <2>1. /\ req' \in [Requests -> RequestType]
        /\ cache' \in [stamp : Stamps, conn : Connections] \cup {None}
    BY <1>1, PassRequests, PassCache
  <2> QED BY <1>1, <1>3, <1>5, <2>1 DEF ReaderTypeOK, RequestType
<1>9. ShownInv'
  BY <1>4, <1>5 DEF ShownInv, ReaderTypeOK, Contents
<1>10. CacheInv'
  <2>1. CASE cache' = None
    BY <2>1 DEF CacheInv
  <2>2. CASE cache' # None
    <3>1. cache # None /\ cache'.conn = cache.conn /\ cache.conn \in Connections
          /\ (cache'.stamp = "whole" => cache.stamp = "whole")
      BY <1>1, <2>2, PassCache DEF ReaderTypeOK
    <3>2. Promised(cache.conn)'
      BY <1>4, <3>1 DEF CacheInv, Promised
    <3> QED BY <1>1, <1>5, <3>1, <3>2 DEF CacheInv
  <2> QED BY <2>1, <2>2
<1> QED BY <1>7, <1>8, <1>9, <1>10

-----------------------------------------------------------------------------
(* A request takes a step *)

\* What a step of one request has to show: the file and the processes stay, and so do the
\* other requests.
LEMMA OneRequest ==
  ASSUME ReaderInv, NEW q \in Requests, UNCHANGED outside,
         NEW a \in RequestType, req' = [req EXCEPT ![q] = a], ReqInv(a),
         cache' \in [stamp : Stamps, conn : Connections] \cup {None}, CacheInv'
  PROVE  ReaderInv'
<1>1. UNCHANGED <<shown, live, collided>>
  BY DEF outside
<1>2. req' \in [Requests -> RequestType]
  BY DEF ReaderInv, ReaderTypeOK, RequestType
<1>3. ReaderTypeOK'
  BY <1>1, <1>2 DEF ReaderInv, ReaderTypeOK, RequestType
<1>4. ShownInv'
  BY <1>1 DEF ReaderInv, ShownInv, Promised
<1>5. ASSUME NEW p \in Requests PROVE ReqInv(req[p])'
  <2>1. ReqInv(req'[p])
    <3>1. CASE p = q
      BY <3>1 DEF ReaderInv, ReaderTypeOK
    <3>2. CASE p # q
      BY <3>2 DEF ReaderInv, ReaderTypeOK
    <3> QED BY <3>1, <3>2
  <2> QED BY <1>1, <2>1
        DEF ReqInv, AttemptsInv, SentInv, QuietInv, Quiet, Promised
<1> QED BY <1>3, <1>4, <1>5 DEF ReaderInv

\* A request that begins or ends knows nothing of any attempt.
LEMMA PlainRequest ==
  ASSUME NEW phase \in {"stat", "done"}, NEW ok \in BOOLEAN, NEW quiet \in BOOLEAN,
         quiet => Quiet, quiet /\ phase = "done" => ok
  PROVE  Request(phase, ok, quiet) \in RequestType /\ ReqInv(Request(phase, ok, quiet))
BY DEF Request, RequestType, Phases, Stamps, NoStamp, ReqInv, AttemptsInv, SentInv, QuietInv,
       Promised

LEMMA BeginStep ==
  ASSUME ReaderInv, NEW q \in Requests, Begin(q)
  PROVE  ReaderInv'
<1>1. Request("stat", FALSE, Quiet) \in RequestType /\ ReqInv(Request("stat", FALSE, Quiet))
  BY PlainRequest DEF Quiet
<1>2. CacheInv' /\ cache' \in [stamp : Stamps, conn : Connections] \cup {None}
  BY DEF ReaderInv, ReaderTypeOK, Begin, CacheInv, outside, Promised
<1> QED BY <1>1, <1>2, OneRequest DEF Begin

\* The end of a request, provided that a quiet one is answered.
LEMMA ReturnStep ==
  ASSUME ReaderInv, NEW q \in Requests, NEW ok \in BOOLEAN, Return(q, ok), UNCHANGED outside,
         req[q].quiet => ok,
         cache' \in [stamp : Stamps, conn : Connections] \cup {None}, CacheInv'
  PROVE  ReaderInv'
<1>1. req[q].quiet \in BOOLEAN /\ (req[q].quiet => Quiet)
  BY DEF ReaderInv, ReaderTypeOK, ReqInv, QuietInv
<1>2. /\ Request("done", ok, req[q].quiet) \in RequestType
      /\ ReqInv(Request("done", ok, req[q].quiet))
  BY <1>1, PlainRequest
<1>3. req' = [req EXCEPT ![q] = Request("done", ok, req[q].quiet)]
  BY DEF Return
<1> QED BY <1>2, <1>3, OneRequest

LEMMA PolicyStep ==
  ASSUME ReaderInv, NEW q \in Requests, current_connection_with_policy(q)
  PROVE  ReaderInv'
<1> USE DEF ReaderInv
<1>1. UNCHANGED <<outside, cache>> /\ req[q].pc = "stat"
  BY DEF current_connection_with_policy
<1>2. CacheInv' /\ cache' \in [stamp : Stamps, conn : Connections] \cup {None}
  BY <1>1 DEF ReaderTypeOK, CacheInv, outside, Promised
<1>3. req[q] \in RequestType /\ ReqInv(req[q])
  BY DEF ReaderTypeOK, RequestType
<1>4. CASE ~shown.there
  <2>1. Return(q, FALSE)
    BY <1>4 DEF current_connection_with_policy
  <2>2. ~req[q].quiet
    <3>1. shown.conn = None
      BY <1>4 DEF ShownInv
    <3>2. Quiet => FALSE
      <4>1. live.r # None => [gen |-> live.r, owner |-> None] \in Connections
        BY DEF ReaderTypeOK, Lives, Connections
      <4> QED BY <3>1, <4>1, NoneIsNoConnection DEF Quiet
    <3> QED BY <1>3, <3>2 DEF ReqInv, QuietInv
  <2> QED BY <1>1, <1>2, <2>1, <2>2, ReturnStep
<1>5. CASE shown.there /\ ~req[q].refresh /\ cached_connection
  <2> DEFINE a == [req[q] EXCEPT !.pc = "send", !.conn = cache.conn]
  <2>1. req' = [req EXCEPT ![q] = a]
    BY <1>1, <1>5 DEF current_connection_with_policy, ReaderTypeOK
  <2>2. cache # None /\ cache.conn \in Connections /\ Promised(cache.conn)
    BY <1>5 DEF cached_connection, ReaderTypeOK, CacheInv
  <2>3. /\ a \in RequestType
        /\ a.pc = "send" /\ a.conn = cache.conn /\ a.refresh = req[q].refresh
        /\ a.first = req[q].first /\ a.sent = req[q].sent /\ a.resent = req[q].resent
        /\ a.quiet = req[q].quiet
    BY <1>3, <2>2 DEF RequestType, Phases
  <2>4. ReqInv(a)
    <3> HIDE DEF a
    <3>1. AttemptsInv(a)
      BY <1>3, <1>5, <2>2, <2>3, NoneIsNoConnection DEF ReqInv, AttemptsInv
    <3>2. SentInv(a)
      BY <1>3, <2>3 DEF ReqInv, SentInv
    <3>3. QuietInv(a)
      BY <1>3, <1>5, <2>3 DEF ReqInv, QuietInv
    <3> QED BY <3>1, <3>2, <3>3 DEF ReqInv
  <2> HIDE DEF a
  <2> QED BY <1>1, <1>2, <2>1, <2>3, <2>4, OneRequest
<1>6. CASE shown.there /\ ~(~req[q].refresh /\ cached_connection)
  <2> DEFINE a == [req[q] EXCEPT !.pc = "open"]
  <2>1. req' = [req EXCEPT ![q] = a]
    BY <1>1, <1>6 DEF current_connection_with_policy, ReaderTypeOK
  <2>2. /\ a \in RequestType
        /\ a.pc = "open" /\ a.conn = req[q].conn /\ a.refresh = req[q].refresh
        /\ a.first = req[q].first /\ a.sent = req[q].sent /\ a.resent = req[q].resent
        /\ a.quiet = req[q].quiet
    BY <1>3 DEF RequestType, Phases
  <2> HIDE DEF a
  <2>3. ReqInv(a)
    BY <1>1, <1>3, <2>2 DEF ReqInv, AttemptsInv, SentInv, QuietInv
  <2> QED BY <1>1, <1>2, <2>1, <2>2, <2>3, OneRequest
<1> QED BY <1>4, <1>5, <1>6

LEMMA ReadStep ==
  ASSUME ReaderInv, NEW q \in Requests, read_session_status(q)
  PROVE  ReaderInv'
<1> USE DEF ReaderInv
<1>1. UNCHANGED <<outside, cache>> /\ req[q].pc = "open"
  BY DEF read_session_status
<1>2. CacheInv' /\ cache' \in [stamp : Stamps, conn : Connections] \cup {None}
  BY <1>1 DEF ReaderTypeOK, CacheInv, outside, Promised
<1>3. req[q] \in RequestType /\ ReqInv(req[q])
  BY DEF ReaderTypeOK, RequestType
<1> DEFINE a == [req[q] EXCEPT !.pc = "read", !.stamp = fingerprint]
<1>4. req' = [req EXCEPT ![q] = a]
  BY DEF read_session_status, ReaderTypeOK
<1>5. fingerprint \in Stamps
  BY DEF fingerprint, Stamps
<1>6. /\ a \in RequestType
      /\ a.pc = "read" /\ a.conn = req[q].conn /\ a.refresh = req[q].refresh
      /\ a.first = req[q].first /\ a.sent = req[q].sent /\ a.resent = req[q].resent
      /\ a.quiet = req[q].quiet
  BY <1>3, <1>5 DEF RequestType, Phases
<1> HIDE DEF a
<1>7. ReqInv(a)
  BY <1>1, <1>3, <1>6 DEF ReqInv, AttemptsInv, SentInv, QuietInv
<1> QED BY <1>1, <1>2, <1>4, <1>6, <1>7, OneRequest

\* The content goes into the cache under a stamp read before it: if the stamp is still
\* that of the file, the content is too.
LEMMA StoreStep ==
  ASSUME ReaderInv, NEW q \in Requests, store_cached_connection(q)
  PROVE  ReaderInv'
<1> USE DEF ReaderInv
<1>1. UNCHANGED outside /\ req[q].pc = "read"
  BY DEF store_cached_connection
<1>2. req[q] \in RequestType /\ ReqInv(req[q])
  BY DEF ReaderTypeOK, RequestType
<1>3. CASE shown.torn \/ shown.conn = None
  <2>1. Return(q, FALSE) /\ UNCHANGED cache
    BY <1>3 DEF store_cached_connection
  <2>2. CacheInv' /\ cache' \in [stamp : Stamps, conn : Connections] \cup {None}
    BY <1>1, <2>1 DEF ReaderTypeOK, CacheInv, outside, Promised
  <2>3. ~req[q].quiet
    <3>1. Quiet => FALSE
      <4>1. live.r # None => [gen |-> live.r, owner |-> None] \in Connections
        BY DEF ReaderTypeOK, Lives, Connections
      <4> QED BY <1>3, <4>1, NoneIsNoConnection DEF Quiet
    <3> QED BY <1>2, <3>1 DEF ReqInv, QuietInv
  <2> QED BY <1>1, <2>1, <2>2, <2>3, ReturnStep
<1>4. CASE ~shown.torn /\ shown.conn # None
  <2>1. cache' = [stamp |-> req[q].stamp, conn |-> shown.conn]
    BY <1>4 DEF store_cached_connection
  <2>2. shown.conn \in Connections
    BY <1>4 DEF ReaderTypeOK, Contents
  <2>3. cache' \in [stamp : Stamps, conn : Connections] \cup {None}
    BY <1>2, <2>1, <2>2 DEF RequestType
  <2>4. CacheInv'
    BY <1>1, <2>1 DEF CacheInv, ShownInv, outside, Promised
  <2>5. CASE shown.conn = req[q].first
    <3>1. Return(q, FALSE)
      BY <1>4, <2>5 DEF store_cached_connection
    <3>2. ~req[q].quiet
      BY <1>1, <1>2, <1>4, <2>5 DEF ReqInv, QuietInv, AttemptsInv
    <3> QED BY <1>1, <2>3, <2>4, <3>1, <3>2, ReturnStep
  <2>6. CASE shown.conn # req[q].first
    <3> DEFINE a == [req[q] EXCEPT !.pc = "send", !.conn = shown.conn, !.stamp = NoStamp]
    <3>1. req' = [req EXCEPT ![q] = a]
      BY <1>4, <2>6 DEF store_cached_connection, ReaderTypeOK
    <3>2. /\ a \in RequestType
          /\ a.pc = "send" /\ a.conn = shown.conn /\ a.refresh = req[q].refresh
          /\ a.first = req[q].first /\ a.sent = req[q].sent /\ a.resent = req[q].resent
          /\ a.quiet = req[q].quiet
      BY <1>2, <2>2 DEF RequestType, Phases, Stamps, NoStamp
    <3> HIDE DEF a
    <3>3. ReqInv(a)
      BY <1>1, <1>2, <1>4, <2>6, <3>2
         DEF ShownInv, ReqInv, AttemptsInv, SentInv, QuietInv
    <3> QED BY <1>1, <2>3, <2>4, <3>1, <3>2, <3>3, OneRequest
  <2> QED BY <2>5, <2>6
<1> QED BY <1>3, <1>4

\* A failed attempt.  It may count as sent again only if it was sent, which a connection
\* that differs from the first one, to the same R, does not allow.
LEMMA FailedStep ==
  ASSUME ReaderInv, NEW q \in Requests, req[q].pc = "send", UNCHANGED <<outside, cache>>,
         NEW sent \in BOOLEAN, NEW refused \in BOOLEAN, Failed(q, sent, refused),
         sent /\ req[q].conn.gen = live.r => req[q].conn.owner = None /\ refused,
         ~sent => req[q].conn.owner # None
  PROVE  ReaderInv'
<1> USE DEF ReaderInv
<1>1. CacheInv' /\ cache' \in [stamp : Stamps, conn : Connections] \cup {None}
  BY DEF ReaderTypeOK, CacheInv, outside, Promised
<1>2. req[q] \in RequestType /\ ReqInv(req[q])
  BY DEF ReaderTypeOK, RequestType
<1> DEFINE again == sent /\ req[q].sent /\ req[q].first.gen = req[q].conn.gen
                      /\ req[q].conn.gen = live.r
           a == [req[q] EXCEPT !.sent = sent, !.first = req[q].conn, !.refresh = TRUE,
                               !.resent = again, !.quiet = @ /\ ~refused, !.conn = None,
                               !.pc = IF req[q].refresh THEN "done" ELSE "stat"]
<1>3. req' = [req EXCEPT ![q] = a]
  BY DEF Failed, ReaderTypeOK
<1>4. req[q].conn \in Connections /\ Promised(req[q].conn) /\ req[q].conn # req[q].first
  BY <1>2 DEF RequestType, ReqInv, AttemptsInv
<1>5. again = FALSE
  <2>1. SUFFICES ASSUME again PROVE FALSE
    OBVIOUS
  <2>2. req[q].first \in Connections /\ req[q].first.owner = None
    BY <1>2, <2>1 DEF RequestType, ReqInv, AttemptsInv, SentInv
  <2>3. req[q].conn.owner = None
    BY <2>1
  <2> QED BY <1>4, <2>1, <2>2, <2>3 DEF Connections
<1>6. /\ a \in RequestType
      /\ a.pc = IF req[q].refresh THEN "done" ELSE "stat"
      /\ a.conn = None /\ a.refresh = TRUE
      /\ a.first = req[q].conn /\ a.sent = sent /\ a.resent = FALSE
      /\ a.quiet = (req[q].quiet /\ ~refused)
  <2> HIDE DEF again
  <2> QED BY <1>2, <1>5 DEF RequestType, Phases
<1> HIDE DEF a
<1>7. AttemptsInv(a)
  BY <1>4, <1>6, NoneIsNoConnection DEF AttemptsInv, Promised
<1>8. SentInv(a)
  BY <1>6 DEF SentInv
<1>9. QuietInv(a)
  <2>1. SUFFICES ASSUME req[q].quiet, ~refused
                 PROVE  Quiet /\ ~req[q].refresh /\ req[q].conn # shown.conn
    BY <1>6 DEF QuietInv
  <2>2. Quiet
    BY <1>2, <2>1 DEF ReqInv, QuietInv
  <2>3. shown.conn.gen = live.r /\ shown.conn.owner = None
    BY <2>2 DEF Quiet
  <2>4. req[q].conn # shown.conn
    BY <2>1, <2>3
  <2>5. ~req[q].refresh
    BY <1>2, <2>1, <2>4 DEF ReqInv, QuietInv
  <2> QED BY <2>2, <2>4, <2>5
<1>10. ReqInv(a)
  BY <1>7, <1>8, <1>9 DEF ReqInv
<1> QED BY <1>1, <1>3, <1>6, <1>10, OneRequest

LEMMA SendStep ==
  ASSUME ReaderInv, NEW q \in Requests, send_request(q)
  PROVE  ReaderInv'
<1> USE DEF ReaderInv
<1>1. req[q].pc = "send" /\ UNCHANGED <<outside, cache>>
  BY DEF send_request
<1>2. Promised(req[q].conn) /\ req[q].conn # None
  BY <1>1 DEF ReqInv, AttemptsInv
<1>3. CacheInv' /\ cache' \in [stamp : Stamps, conn : Connections] \cup {None}
  BY <1>1 DEF ReaderTypeOK, CacheInv, outside, Promised
<1> DEFINE runs == req[q].conn.gen = live.r
           busy == req[q].conn.owner # None /\ req[q].conn.owner = live.console /\ runs
<1>4. CASE busy
  <2>1. Failed(q, FALSE, FALSE)
    BY <1>4 DEF send_request
  <2> QED BY <1>1, <1>4, <2>1, FailedStep
<1>5. CASE ~busy /\ Failed(q, TRUE, runs)
  <2>1. runs => req[q].conn.owner = None
    BY <1>2, <1>5 DEF Promised
  <2>2. runs \in BOOLEAN
    OBVIOUS
  <2> QED BY <1>1, <1>5, <2>1, <2>2, FailedStep
<1>6. CASE ~busy /\ Return(q, TRUE)
  BY <1>1, <1>3, <1>6, ReturnStep
<1> QED BY <1>4, <1>5, <1>6 DEF send_request

-----------------------------------------------------------------------------
(* Theorems *)

LEMMA ReaderInvInit == ReaderInit => ReaderInv
<1> SUFFICES ASSUME ReaderInit PROVE ReaderInv
  OBVIOUS
<1> USE DEF ReaderInit
<1>1. shown \in Contents /\ ShownInv
  BY DEF ContentsInit, ShownInv
<1>2. live \in Lives
  BY GenerationsAssumption DEF ContentsInit, Lives, Generations
<1>3. \A q \in Requests : req[q] \in RequestType /\ ReqInv(req[q])
  BY DEF Request, RequestType, Phases, Stamps, NoStamp, ReqInv, AttemptsInv, SentInv,
         QuietInv, Promised
<1>4. req \in [Requests -> RequestType]
  BY <1>3
<1>5. ReaderTypeOK
  BY <1>1, <1>2, <1>4 DEF ReaderTypeOK, RequestType
<1>6. CacheInv
  BY DEF CacheInv
<1> QED BY <1>1, <1>3, <1>5, <1>6 DEF ReaderInv

\* IInv is inductive: one case per action of the file, the processes and a request.
THEOREM ReaderInvariant == ReaderSpec => []ReaderInv
<1>1. ReaderInv /\ [ReaderNext]_readerVars => ReaderInv'
  <2> SUFFICES ASSUME ReaderInv, [ReaderNext]_readerVars PROVE ReaderInv'
    OBVIOUS
  <2>1. CASE (\E conn \in Connections \cup {None} : Written(conn)) \/ Truncated
    BY <2>1, FileStep
  <2>2. CASE ProcessesChange
    BY <2>2, ProcessesStep
  <2>3. ASSUME NEW q \in Requests, Begin(q) PROVE ReaderInv'
    BY <2>3, BeginStep
  <2>4. ASSUME NEW q \in Requests, Step(q) PROVE ReaderInv'
    BY <2>4, PolicyStep, ReadStep, StoreStep, SendStep DEF Step
  <2>5. CASE UNCHANGED readerVars
    <3>1. UNCHANGED <<shown, live, cache, req, collided>>
      BY <2>5 DEF readerVars
    <3>2. ReaderTypeOK'
      BY <3>1 DEF ReaderInv, ReaderTypeOK
    <3>3. ShownInv' /\ CacheInv'
      BY <3>1 DEF ReaderInv, ShownInv, CacheInv, Promised
    <3>4. \A q \in Requests : ReqInv(req[q])'
      BY <3>1 DEF ReaderInv, ReqInv, AttemptsInv, SentInv, QuietInv, Quiet, Promised
    <3> QED BY <3>2, <3>3, <3>4 DEF ReaderInv
  <2> QED BY <2>1, <2>2, <2>3, <2>4, <2>5 DEF ReaderNext
<1> QED BY <1>1, ReaderInvInit, PTL DEF ReaderSpec

\* Every reachable state of the reader is well typed.
THEOREM ReaderTypesCorrect == ReaderSpec => []ReaderTypeOK
<1>1. ReaderInv => ReaderTypeOK
  BY DEF ReaderInv
<1> QED BY <1>1, ReaderInvariant, PTL

\* A cached connection is the one in the file whenever its stamp is the file's, as long as
\* different connections had different stamps.
THEOREM CacheCorrect == ReaderSpec => []CacheIsOfTheStamp
<1>1. ReaderInv => CacheIsOfTheStamp
  BY DEF ReaderInv, CacheInv, CacheIsOfTheStamp, fingerprint
<1> QED BY <1>1, ReaderInvariant, PTL

\* A request next to an unchanging file of an R at its prompt is answered, unless the
\* runtime turns it away.
THEOREM QuietCorrect == ReaderSpec => []QuietRequestsSucceed
<1>1. ReaderInv => QuietRequestsSucceed
  BY DEF ReaderInv, ReqInv, QuietInv, QuietRequestsSucceed
<1> QED BY <1>1, ReaderInvariant, PTL

\* No request is sent twice to an R that runs.
THEOREM SentOnceCorrect == ReaderSpec => []NotSentTwice
<1>1. ReaderInv => NotSentTwice
  BY DEF ReaderInv, ReqInv, SentInv, NotSentTwice
<1> QED BY <1>1, ReaderInvariant, PTL
=============================================================================
