----------------------------- MODULE ShellProofs -----------------------------
(***************************************************************************)
(* Proofs about Shell, for any set of processes, any lines and any number  *)
(* of them, in interactive and in batch mode: redirections are undone      *)
(* whichever way a command ends, and a program that is waited for is over  *)
(* when its shell goes on, although children copy everything from their    *)
(* parents, what is saved and what is waited for included.                 *)
(***************************************************************************)
EXTENDS Shell, SequenceTheorems, TLAPS

(***************************************************************************)
(* In a command its own redirections are in force, and the terminal is     *)
(* saved for each of them, also for one whose file could not be opened.    *)
(* Outside a command nothing is redirected and nothing is saved.           *)
(***************************************************************************)
InCommand(r) == r.pc \in {"run", "wait", "finish", "restore", "program"}

Redirected(r) ==
    LET c == Head(r.rest)
    IN  /\ r.rest # <<>>
        /\ r.stdin = IF c.in = "file" THEN "file" ELSE "terminal"
        /\ r.stdout = IF c.out = "file" THEN "file" ELSE "terminal"
        /\ r.saved_in = IF c.in # "none" THEN "terminal" ELSE None
        /\ r.saved_out = IF c.out # "none" THEN "terminal" ELSE None

OnTerminal(r) ==
    /\ r.stdin = "terminal" /\ r.stdout = "terminal"
    /\ r.saved_in = None /\ r.saved_out = None

FilesRight(r) == IF InCommand(r) THEN Redirected(r) ELSE OnTerminal(r)

FilesInv == \A p \in Processes : FilesRight(proc[p])

(* What a process has waited for has been started, and if it is still a    *)
(* program that runs in the foreground the process is waiting for it.      *)
WaitsInv ==
    \A p, q \in Processes : proc[p].waits = q =>
       /\ ~At(q, "none")
       /\ (At(q, "program") /\ ~Command(q).bg) => At(p, "wait")

ShellInv == TypeOK /\ FilesInv /\ WaitsInv

-----------------------------------------------------------------------------
(* Lines *)

(* The commands of a line stay commands whatever & they get.               *)
LEMMA LinesAreCommands ==
  ASSUME NEW line \in Lines
  PROVE  /\ AsTyped(line) \in Seq(Commands)
         /\ \A commands \in InBatch(line) : commands \in Seq(Commands)
<1>1. line \in Seq(Commands) /\ Len(line) \in Nat /\ DOMAIN line = 1..Len(line)
  BY LinesAssumption
<1>2. \A i \in 1..Len(line) : line[i] \in Commands
  BY <1>1
<1>3. ASSUME NEW f \in [1..Len(line) -> BOOLEAN]
      PROVE  [i \in 1..Len(line) |-> [line[i] EXCEPT !.bg = f[i]]]
                \in Seq(Commands)
  <2>1. \A i \in 1..Len(line) : [line[i] EXCEPT !.bg = f[i]] \in Commands
    BY <1>2 DEF Commands
  <2>. QED  BY <1>1, <2>1
<1>4. AsTyped(line) \in Seq(Commands)
  <2>1. [i \in 1..Len(line) |-> i < Len(line)] \in [1..Len(line) -> BOOLEAN]
    BY <1>1
  <2>2. AsTyped(line) = [i \in 1..Len(line) |-> [line[i] EXCEPT
                          !.bg = [j \in 1..Len(line) |-> j < Len(line)][i]]]
    BY <1>1 DEF AsTyped
  <2>. QED  BY <1>3, <2>1, <2>2
<1>5. ASSUME NEW commands \in InBatch(line)
      PROVE  commands \in Seq(Commands)
  <2>1. PICK amp \in [1..Len(line) -> BOOLEAN] :
           commands = [i \in 1..Len(line) |-> [line[i] EXCEPT !.bg = amp[i]]]
    BY <1>1 DEF InBatch
  <2>. QED  BY <1>3, <2>1
<1>. QED  BY <1>4, <1>5

LEMMA RestOfLine ==
  ASSUME NEW s \in Seq(Commands), s # <<>>
  PROVE  Tail(s) \in Seq(Commands) /\ Head(s) \in Commands
OBVIOUS

-----------------------------------------------------------------------------
(* The shapes of a step *)

(* One process gets another record.                                        *)
LEMMA OneChanges ==
  ASSUME ShellInv, NEW p \in Processes, NEW r \in Records, Set(p, r),
         batch' \in BOOLEAN, typed' \in 0..MaxLines,
         FilesRight(r),
         r.waits \in {proc[p].waits, None},
         r.pc \notin {"none", "program"},
         At(p, "wait") => r.pc = "wait" \/ At(proc[p].waits, "ended")
  PROVE  ShellInv'
<1> USE DEF ShellInv, Set
<1>1. /\ proc'[p] = r
      /\ \A q \in Processes \ {p} : proc'[q] = proc[q]
  BY DEF TypeOK
<1>2. TypeOK'
  BY DEF TypeOK
<1>3. FilesInv'
  BY <1>1 DEF FilesInv
<1>4. ASSUME NEW s \in Processes, NEW q \in Processes, proc'[s].waits = q
      PROVE  /\ ~At(q, "none")'
             /\ (At(q, "program") /\ ~Command(q).bg)' => At(s, "wait")'
  <2>1. proc[s].waits = q
    BY <1>1, <1>4, ProcessesAssumption
  <2>2. ~At(q, "none") /\ ((At(q, "program") /\ ~Command(q).bg) => At(s, "wait"))
    BY <2>1 DEF WaitsInv
  <2>3. CASE q = p
    BY <1>1, <2>3 DEF At
  <2>4. CASE q # p
    BY <1>1, <2>1, <2>2, <2>4 DEF At, Command
  <2>. QED  BY <2>3, <2>4
<1>. QED  BY <1>2, <1>3, <1>4 DEF WaitsInv

(* fork: a process that was none gets the child's record, its parent q.    *)
LEMMA TwoChange ==
  ASSUME ShellInv, NEW p \in Processes, MayFork, At(p, "run"), Local,
         NEW q \in Records, NEW r \in Records,
         proc' = [proc EXCEPT ![Child] = r, ![p] = q],
         FilesRight(q), FilesRight(r),
         r.waits \in {proc[p].waits, None}, r.pc # "none",
         q.pc \notin {"none", "program"},
         q.waits = proc[p].waits
            \/ (q.waits = Child /\ (r.pc = "program" =>
                                      Head(r.rest).bg \/ q.pc = "wait"))
  PROVE  ShellInv'
<1> USE DEF ShellInv, Local
<1>1. Child \in Processes /\ At(Child, "none")
  BY DEF MayFork, Child
<1>2. Child # p
  BY <1>1 DEF At
<1> HIDE DEF Child
<1>3. /\ proc'[p] = q /\ proc'[Child] = r
      /\ \A s \in Processes \ {p, Child} : proc'[s] = proc[s]
  BY <1>1, <1>2 DEF TypeOK
<1>4. TypeOK'
  BY <1>1 DEF TypeOK
<1>5. FilesInv'
  BY <1>3 DEF FilesInv
<1>6. \A s, t \in Processes : proc[s].waits = t =>
         /\ t # Child /\ ~At(t, "none")
         /\ (At(t, "program") /\ ~Command(t).bg) => At(s, "wait")
  BY <1>1 DEF WaitsInv
<1>7. ASSUME NEW s \in Processes, NEW t \in Processes, proc'[s].waits = t
      PROVE  /\ ~At(t, "none")'
             /\ (At(t, "program") /\ ~Command(t).bg)' => At(s, "wait")'
  <2>1. CASE t = Child
    <3>1. s = p /\ q.waits = Child
      BY <1>1, <1>2, <1>3, <1>6, <1>7, <2>1, ProcessesAssumption
    <3>2. q.waits # proc[p].waits
      BY <1>1, <1>6, <3>1
    <3>. QED  BY <1>2, <1>3, <2>1, <3>1, <3>2 DEF At, Command
  <2>2. CASE t = p
    BY <1>2, <1>3, <2>2 DEF At
  <2>3. CASE t \notin {p, Child}
    <3>1. proc'[t] = proc[t]
      BY <1>3, <2>3
    <3>2. CASE s \in {p, Child}
      <4>1. proc[p].waits = t
        BY <1>3, <1>7, <2>3, <3>2, ProcessesAssumption
      <4>. QED  BY <1>6, <3>1, <4>1 DEF At, Command
    <3>3. CASE s \notin {p, Child}
      BY <1>3, <1>6, <1>7, <3>1, <3>3 DEF At, Command
    <3>. QED  BY <3>2, <3>3
  <2>. QED  BY <2>1, <2>2, <2>3
<1>. QED  BY <1>4, <1>5, <1>7 DEF WaitsInv

(* A process ends.                                                         *)
LEMMA OneEnds ==
  ASSUME ShellInv, NEW p \in Processes, Set(p, Gone), Local, ~At(p, "wait")
  PROVE  ShellInv'
<1>1. Gone \in Records /\ Gone.waits = None /\ Gone.pc = "ended"
  <2>1. <<>> \in Seq(Commands)
    OBVIOUS
  <2>. QED  BY <2>1 DEF Gone, NoProcess, Records, Places
<1>2. FilesRight(Gone)
  BY DEF FilesRight, InCommand, OnTerminal, Gone, NoProcess
<1>3. batch' \in BOOLEAN /\ typed' \in 0..MaxLines
  BY DEF ShellInv, TypeOK, Local
<1>. QED  BY <1>1, <1>2, <1>3, OneChanges

(* A process goes on in its command.                                       *)
LEMMA OneGoesOn ==
  ASSUME ShellInv, NEW p \in Processes, InCommand(proc[p]), Local,
         NEW pid \in {"none", "child", "parent"},
         NEW place \in {"run", "finish", "restore"},
         Set(p, [proc[p] EXCEPT !.pid = pid, !.pc = place]),
         At(p, "wait") => At(proc[p].waits, "ended")
  PROVE  ShellInv'
<1> DEFINE r == [proc[p] EXCEPT !.pid = pid, !.pc = place]
<1>1. proc[p] \in Records /\ FilesRight(proc[p])
  BY DEF ShellInv, TypeOK, FilesInv
<1>2. r \in Records /\ r.waits = proc[p].waits /\ r.pc = place
  BY <1>1 DEF Records, Places
<1>3. FilesRight(r)
  BY <1>1 DEF FilesRight, InCommand, Redirected, Records
<1>4. batch' \in BOOLEAN /\ typed' \in 0..MaxLines
  BY DEF ShellInv, TypeOK, Local
<1> HIDE DEF r
<1>5. Set(p, r)
  BY DEF r
<1>. QED  BY <1>2, <1>3, <1>4, <1>5, OneChanges

(* A process without redirections gets another rest of a line.             *)
LEMMA OneReads ==
  ASSUME ShellInv, NEW p \in Processes, ~InCommand(proc[p]),
         batch' \in BOOLEAN, typed' \in 0..MaxLines,
         NEW rest \in Seq(Commands), NEW place \in {"next", "prompt"},
         Set(p, [proc[p] EXCEPT !.rest = rest, !.pc = place])
  PROVE  ShellInv'
<1> DEFINE r == [proc[p] EXCEPT !.rest = rest, !.pc = place]
<1>1. proc[p] \in Records /\ FilesRight(proc[p])
  BY DEF ShellInv, TypeOK, FilesInv
<1>2. r \in Records /\ r.waits = proc[p].waits /\ r.pc = place
  BY <1>1 DEF Records, Places
<1>3. FilesRight(r)
  BY <1>1 DEF FilesRight, InCommand, OnTerminal, Records
<1>4. ~At(p, "wait")
  BY DEF InCommand, At
<1> HIDE DEF r
<1>5. Set(p, r)
  BY DEF r
<1>. QED  BY <1>2, <1>3, <1>4, <1>5, OneChanges

-----------------------------------------------------------------------------
(* The steps *)

LEMMA EndShell ==
  ASSUME ShellInv, NEW p \in Processes, Abort(p) \/ Quit(p) \/ ProgramEnds(p)
  PROVE  ShellInv'
<1>1. Set(p, Gone) /\ Local /\ ~At(p, "wait")
  BY DEF Abort, Quit, ProgramEnds, NextIs, RunsHere, At
<1>. QED  BY <1>1, OneEnds

LEMMA GoOnShell ==
  ASSUME ShellInv, NEW p \in Processes,
         \/ RunInternal(p) \/ EndOfPause(p) \/ StartProgramFails(p)
         \/ ForkBackgroundFails(p) \/ WaitForProgram(p)
  PROVE  ShellInv'
<1> USE DEF At
<1>1. proc[p] \in Records
  BY DEF ShellInv, TypeOK
<1>2. ASSUME NEW place
      PROVE  [proc[p] EXCEPT !.pc = place]
                = [proc[p] EXCEPT !.pid = proc[p].pid, !.pc = place]
  BY <1>1 DEF Records
<1>3. CASE RunInternal(p) \/ EndOfPause(p) \/ WaitForProgram(p)
  <2>1. /\ InCommand(proc[p]) /\ Local
        /\ Set(p, [proc[p] EXCEPT !.pid = proc[p].pid, !.pc = "finish"])
        /\ At(p, "wait") => At(proc[p].waits, "ended")
    BY <1>2, <1>3 DEF RunInternal, EndOfPause, WaitForProgram, RunsHere, InCommand
  <2>. QED  BY <1>1, <2>1, OneGoesOn DEF Records
<1>4. CASE StartProgramFails(p)
  <2>1. /\ InCommand(proc[p]) /\ Local /\ ~At(p, "wait")
        /\ Set(p, [proc[p] EXCEPT !.pid = "none", !.pc = "finish"])
    BY <1>4 DEF StartProgramFails, RunsHere, InCommand
  <2>. QED  BY <2>1, OneGoesOn
<1>5. CASE ForkBackgroundFails(p)
  <2>1. /\ InCommand(proc[p]) /\ Local /\ ~At(p, "wait")
        /\ Set(p, [proc[p] EXCEPT !.pid = proc[p].pid, !.pc = "restore"])
    BY <1>2, <1>5 DEF ForkBackgroundFails, InCommand
  <2>. QED  BY <1>1, <2>1, OneGoesOn DEF Records
<1>. QED  BY <1>3, <1>4, <1>5

LEMMA FinishShell ==
  ASSUME ShellInv, NEW p \in Processes, Finish(p)
  PROVE  ShellInv'
<1>1. proc[p] \in Records /\ InCommand(proc[p]) /\ ~At(p, "wait") /\ Local
  BY DEF ShellInv, TypeOK, Finish, At, InCommand
<1>2. CASE proc[p].pid = "child"
  BY <1>1, <1>2, OneEnds DEF Finish
<1>3. CASE proc[p].pid # "child"
  <2>1. Set(p, [proc[p] EXCEPT !.pid = proc[p].pid, !.pc = "restore"])
    BY <1>1, <1>3 DEF Finish, Records
  <2>. QED  BY <1>1, <2>1, OneGoesOn DEF Records
<1>. QED  BY <1>2, <1>3

LEMMA ReadShell ==
  ASSUME ShellInv, NEW p \in Processes,
         ReadLine(p) \/ DropLine(p) \/ SkipCommand(p) \/ LineDone(p)
  PROVE  ShellInv'
<1> USE DEF At
<1>1. /\ proc[p] \in Records /\ typed \in 0..MaxLines /\ batch \in BOOLEAN
      /\ proc[p].rest \in Seq(Commands)
  BY DEF ShellInv, TypeOK, Records
<1>2. CASE ReadLine(p)
  <2>1. PICK line \in Lines :
           Set(p, [proc[p] EXCEPT !.rest = AsTyped(line), !.pc = "next"])
    BY <1>2 DEF ReadLine
  <2>2. ~InCommand(proc[p])
    BY <1>2 DEF ReadLine, InCommand
  <2>3. batch' \in BOOLEAN
    BY <1>1, <1>2, Zenon DEF ReadLine
  <2>4. typed' \in 0..MaxLines
    <3>1. typed < MaxLines /\ typed' = typed + 1
      BY <1>2, Zenon DEF ReadLine
    <3>2. MaxLines \in Nat
      BY LinesAssumption, Zenon
    <3>. QED  BY <1>1, <3>1, <3>2
  <2>. QED  BY <2>1, <2>2, <2>3, <2>4, LinesAreCommands, OneReads
<1>3. CASE DropLine(p)
  <2>1. /\ Set(p, [proc[p] EXCEPT !.rest = <<>>, !.pc = "next"])
        /\ Local /\ ~InCommand(proc[p])
    BY <1>1, <1>3 DEF DropLine, NextIs, InCommand, Records
  <2>2. <<>> \in Seq(Commands)
    OBVIOUS
  <2>. QED  BY <1>1, <2>1, <2>2, OneReads DEF Local
<1>4. CASE SkipCommand(p)
  <2>1. /\ Set(p, [proc[p] EXCEPT !.rest = Tail(proc[p].rest), !.pc = "next"])
        /\ Local /\ ~InCommand(proc[p])
    BY <1>1, <1>4 DEF SkipCommand, NextIs, InCommand, Records
  <2>2. Tail(proc[p].rest) \in Seq(Commands)
    BY <1>1, <1>4, RestOfLine DEF SkipCommand, NextIs
  <2>. QED  BY <1>1, <2>1, <2>2, OneReads DEF Local
<1>5. CASE LineDone(p) /\ ~batch
  <2>1. /\ Set(p, [proc[p] EXCEPT !.rest = proc[p].rest, !.pc = "prompt"])
        /\ Local /\ ~InCommand(proc[p])
    BY <1>1, <1>5 DEF LineDone, InCommand, Records
  <2>. QED  BY <1>1, <2>1, OneReads DEF Local
<1>6. CASE LineDone(p) /\ batch
  BY <1>6, OneEnds DEF LineDone
<1>. QED  BY <1>2, <1>3, <1>4, <1>5, <1>6

(* The terminal is saved, and nothing else is: no redirection is in force. *)
LEMMA RedirectShell ==
  ASSUME ShellInv, NEW p \in Processes, Redirect(p)
  PROVE  ShellInv'
<1> DEFINE c == Command(p)
           r == [proc[p] EXCEPT
                   !.saved_in  = IF c.in # "none" THEN proc[p].stdin ELSE None,
                   !.saved_out = IF c.out # "none" THEN proc[p].stdout ELSE None,
                   !.stdin  = IF c.in = "file" THEN "file" ELSE @,
                   !.stdout = IF c.out = "file" THEN "file" ELSE @,
                   !.pid = "none", !.pc = "run"]
<1>1. /\ proc[p] \in Records /\ OnTerminal(proc[p])
      /\ At(p, "next") /\ proc[p].rest # <<>>
  BY DEF ShellInv, TypeOK, FilesInv, FilesRight, InCommand, Redirect, NextIs, At
<1>2. r \in Records /\ r.waits = proc[p].waits /\ r.pc = "run"
  BY <1>1 DEF OnTerminal, Records, Places
<1>3. FilesRight(r)
  BY <1>1 DEF OnTerminal, FilesRight, InCommand, Redirected, Records, Command
<1>4. /\ Set(p, r) /\ ~At(p, "wait")
      /\ batch' \in BOOLEAN /\ typed' \in 0..MaxLines
  BY <1>1 DEF ShellInv, TypeOK, Redirect, Local, At
<1> HIDE DEF r
<1>. QED  BY <1>2, <1>3, <1>4, OneChanges

(* What was saved is the terminal, so that it is what comes back.          *)
LEMMA RestoreShell ==
  ASSUME ShellInv, NEW p \in Processes, Restore(p)
  PROVE  ShellInv'
<1> DEFINE in == IF proc[p].saved_in # None THEN proc[p].saved_in
                 ELSE proc[p].stdin
           out == IF proc[p].saved_out # None THEN proc[p].saved_out
                  ELSE proc[p].stdout
           r == [proc[p] EXCEPT !.stdin = in, !.stdout = out,
                   !.saved_in = None, !.saved_out = None,
                   !.rest = Tail(@), !.pc = "next"]
<1>1. proc[p] \in Records /\ Redirected(proc[p]) /\ At(p, "restore")
  BY DEF ShellInv, TypeOK, FilesInv, FilesRight, InCommand, Restore, At
<1>2. in = "terminal" /\ out = "terminal"
  BY <1>1, ProcessesAssumption DEF Redirected
<1>3. Tail(proc[p].rest) \in Seq(Commands)
  BY <1>1, RestOfLine DEF Records, Redirected
<1>4. Set(p, r) /\ batch' \in BOOLEAN /\ typed' \in 0..MaxLines
  BY DEF ShellInv, TypeOK, Restore, Local
<1> HIDE DEF in, out
<1>5. r \in Records /\ r.waits = proc[p].waits /\ r.pc = "next"
  BY <1>1, <1>2, <1>3 DEF Records, Places
<1>6. FilesRight(r)
  BY <1>1, <1>2 DEF OnTerminal, FilesRight, InCommand, Records
<1>7. ~At(p, "wait")
  BY <1>1 DEF At
<1> HIDE DEF r
<1>. QED  BY <1>4, <1>5, <1>6, <1>7, OneChanges

(* The background child has all of its parent but what it waited for.      *)
LEMMA ForkBackgroundShell ==
  ASSUME ShellInv, NEW p \in Processes, ForkBackground(p)
  PROVE  ShellInv'
<1> DEFINE q == [proc[p] EXCEPT !.pc = "restore"]
           r == [proc[p] EXCEPT !.pid = "child", !.waits = None]
<1>1. /\ proc[p] \in Records /\ FilesRight(proc[p])
      /\ proc[p].pc = "run" /\ At(p, "run") /\ MayFork /\ Local
  BY DEF ShellInv, TypeOK, FilesInv, ForkBackground, At
<1>2. /\ q \in Records /\ r \in Records
      /\ q.pc = "restore" /\ r.pc = "run"
      /\ q.waits = proc[p].waits /\ r.waits = None
  BY <1>1 DEF Records, Places
<1>3. FilesRight(q) /\ FilesRight(r)
  BY <1>1 DEF FilesRight, InCommand, Redirected, Records
<1>4. proc' = [proc EXCEPT ![Child] = r, ![p] = q]
  <2>1. Child \in Processes /\ At(Child, "none")
    BY <1>1 DEF MayFork, Child
  <2>2. Child # p
    BY <1>1, <2>1 DEF At
  <2> HIDE DEF Child
  <2>. QED  BY <2>1, <2>2 DEF ForkBackground, ShellInv, TypeOK
<1> HIDE DEF q, r
<1>. QED  BY <1>1, <1>2, <1>3, <1>4, TwoChange

(* The program has all of its shell, which waits unless there is an &.     *)
LEMMA StartProgramShell ==
  ASSUME ShellInv, NEW p \in Processes, StartProgram(p)
  PROVE  ShellInv'
<1> DEFINE q == [proc[p] EXCEPT !.pid = "parent", !.waits = Child,
                    !.pc = IF Command(p).bg THEN "finish" ELSE "wait"]
           r == [proc[p] EXCEPT !.pc = "program"]
<1>1. /\ proc[p] \in Records /\ FilesRight(proc[p])
      /\ proc[p].pc = "run" /\ At(p, "run") /\ MayFork /\ Local
  BY DEF ShellInv, TypeOK, FilesInv, StartProgram, RunsHere, At
<1>2. Child \in Processes /\ At(Child, "none")
  BY <1>1 DEF MayFork, Child
<1>3. Child # p
  BY <1>1, <1>2 DEF At
<1>4. proc' = [proc EXCEPT ![Child] = r, ![p] = q]
  <2> HIDE DEF Child
  <2>. QED  BY <1>2, <1>3 DEF StartProgram, ShellInv, TypeOK
<1> HIDE DEF Child
<1>5. /\ q \in Records /\ r \in Records
      /\ q.pc \in {"finish", "wait"} /\ r.pc = "program"
      /\ q.waits = Child /\ r.waits = proc[p].waits
      /\ Head(r.rest).bg \/ q.pc = "wait"
  BY <1>1, <1>2 DEF Records, Places, Command
<1>6. FilesRight(q) /\ FilesRight(r)
  BY <1>1 DEF FilesRight, InCommand, Redirected, Records
<1> HIDE DEF q, r
<1>. QED  BY <1>1, <1>4, <1>5, <1>6, TwoChange

LEMMA InitShell == Init => ShellInv
<1> SUFFICES ASSUME Init
             PROVE  ShellInv
  OBVIOUS
<1>1. PICK line \in Lines : \E commands \in InBatch(line) :
         proc = [p \in Processes |->
                    IF p # First THEN NoProcess
                    ELSE IF batch
                    THEN [NoProcess EXCEPT !.pc = "next", !.rest = commands]
                    ELSE [NoProcess EXCEPT !.pc = "prompt"]]
  BY DEF Init
<1>2. PICK commands \in Seq(Commands) :
         proc = [p \in Processes |->
                    IF p # First THEN NoProcess
                    ELSE IF batch
                    THEN [NoProcess EXCEPT !.pc = "next", !.rest = commands]
                    ELSE [NoProcess EXCEPT !.pc = "prompt"]]
  BY <1>1, LinesAreCommands
<1>3. <<>> \in Seq(Commands)
  OBVIOUS
<1>4. \A p \in Processes :
         /\ proc[p] \in Records /\ proc[p].waits = None
         /\ proc[p].pc \in {"none", "next", "prompt"} /\ OnTerminal(proc[p])
  BY <1>2, <1>3 DEF NoProcess, Records, Places, OnTerminal
<1>5. TypeOK
  <2>1. proc \in [Processes -> Records]
    BY <1>2, <1>4
  <2>2. batch \in BOOLEAN /\ typed \in 0..MaxLines
    BY LinesAssumption DEF Init
  <2>. QED  BY <2>1, <2>2 DEF TypeOK
<1>6. FilesInv /\ WaitsInv
  BY <1>4, ProcessesAssumption DEF FilesInv, FilesRight, InCommand, WaitsInv
<1>. QED  BY <1>5, <1>6 DEF ShellInv

LEMMA StutterShell ==
  ASSUME ShellInv, UNCHANGED vars
  PROVE  ShellInv'
BY DEF ShellInv, TypeOK, FilesInv, WaitsInv, At, Command, vars

-----------------------------------------------------------------------------
(* Redirections and waits are as they should be at every place of every    *)
(* process, shells and children of background commands among them.         *)
THEOREM ShellInvariance == Spec => []ShellInv
<1>1. ASSUME ShellInv, NEW p \in Processes, ShellStep(p)
      PROVE  ShellInv'
  BY <1>1, EndShell, GoOnShell, FinishShell, ReadShell, RedirectShell,
     RestoreShell, ForkBackgroundShell, StartProgramShell DEF ShellStep
<1>2. ShellInv /\ [Next]_vars => ShellInv'
  BY <1>1, StutterShell, ReadShell, GoOnShell, EndShell DEF Next
<1>. QED  BY InitShell, <1>2, PTL DEF Spec

(* Every process is at one of its places with a rest of commands, and what *)
(* it has saved is the terminal: no redirection begins while another one   *)
(* is in force (redirection.cpp 11-65).                                    *)
THEOREM ShellTypeCorrect == Spec => []TypeOK
<1>1. ShellInv => TypeOK
  BY DEF ShellInv
<1>. QED  BY ShellInvariance, <1>1, PTL

(* Between two commands a shell has its terminal back, and the program it  *)
(* has waited for is over (main.cpp 91, 125-160).                          *)
THEOREM CommandsEnd == Spec => []CommandIsOver
<1>1. ShellInv => CommandIsOver
  BY DEF ShellInv, FilesInv, FilesRight, InCommand, OnTerminal, WaitsInv,
         CommandIsOver, IsShell, At
<1>. QED  BY ShellInvariance, <1>1, PTL

(* A program has the files of its own command and no others, whatever was  *)
(* redirected before it (main.cpp 116-150).                                *)
THEOREM ProgramsRedirected == Spec => []ProgramRedirected
<1>1. ShellInv => ProgramRedirected
  BY DEF ShellInv, FilesInv, FilesRight, InCommand, Redirected,
         ProgramRedirected, Command, At
<1>. QED  BY ShellInvariance, <1>1, PTL
=============================================================================
