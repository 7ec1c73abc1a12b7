-------------------------------- MODULE Shell --------------------------------
(***************************************************************************)
(* The processes of the shell and their descriptors: the loop of main in   *)
(* interactive and in batch mode, EnsureAndTokenize, InterpretCommand,     *)
(* ExecuteInterpretedCommand and RunCommand (main.cpp 26-346) with         *)
(* redirection.cpp.                                                        *)
(*                                                                         *)
(* A forked child is a copy of its parent, the rest of the command line    *)
(* included.  A background child that has forked a program holds that      *)
(* program's pid, so it does not exit: it goes on as a second shell.       *)
(***************************************************************************)
EXTENDS Integers, Sequences

CONSTANTS
    Processes,     \* bound: all processes there can be
    First,         \* the shell the user has started
    Lines,         \* what is typed, or read from the batch file
    MaxLines,      \* bound: lines typed
    None           \* no descriptor, no process

Actions == {"internal", "pause", "quit", "program", "symbol", "malformed",
            "empty"}
Inputs == {"none", "file", "unreadable", "missing"}
Outputs == {"none", "file", "unwritable"}

(* One command: what it does, its redirections, and whether it ends in &.  *)
(* "symbol" begins with one of < > | &; "malformed" has a redirection      *)
(* without a file name; "empty" has no characters.                         *)
Commands == [do : Actions, in : Inputs, out : Outputs, bg : BOOLEAN]

ASSUME ProcessesAssumption ==
    First \in Processes /\ None \notin Processes \union {"terminal"}
ASSUME LinesAssumption == Lines \subseteq Seq(Commands) /\ MaxLines \in Nat

VARIABLES
    batch,     \* is there a batch file?
    typed,     \* how many lines have been read from the terminal
    proc       \* each process: its place, its variables, its descriptors

vars == <<batch, typed, proc>>

(* pid is RunCommand's: -1 ("none"), 0 ("child") or above ("parent").      *)
NoProcess == [pc |-> "none", rest |-> <<>>, pid |-> "none", waits |-> None,
              stdin |-> "terminal", stdout |-> "terminal",
              saved_in |-> None, saved_out |-> None]

Gone == [NoProcess EXCEPT !.pc = "ended"]

(* The last command of a typed line is never in the background, the others *)
(* always are: the line is split at & and every piece but the last gets it *)
(* back (main.cpp 304-311).  A batch file keeps the & of its commands.     *)
AsTyped(line) == [i \in DOMAIN line |-> [line[i] EXCEPT !.bg = i < Len(line)]]

(* In a batch file an & is kept as a blank before it says; an empty piece  *)
(* ends the shell while the file is read.                                  *)
InBatch(line) ==
    {[i \in DOMAIN line |-> [line[i] EXCEPT !.bg = amp[i]]] :
        amp \in {b \in [DOMAIN line -> BOOLEAN] :
                   \A i \in DOMAIN line : line[i].do # "empty"}}

Init ==
    /\ batch \in BOOLEAN
    /\ typed = 0
    /\ \E line \in Lines : \E commands \in InBatch(line) :
          proc = [p \in Processes |->
                    IF p # First THEN NoProcess
                    ELSE IF batch
                    THEN [NoProcess EXCEPT !.pc = "next", !.rest = commands]
                    ELSE [NoProcess EXCEPT !.pc = "prompt"]]

At(p, place) == proc[p].pc = place
Command(p) == Head(proc[p].rest)
Set(p, record) == proc' = [proc EXCEPT ![p] = record]
Local == UNCHANGED <<batch, typed>>

(* What fork returns: the names of processes are interchangeable.          *)
MayFork == \E p \in Processes : At(p, "none")
Child == CHOOSE p \in Processes : At(p, "none")

-----------------------------------------------------------------------------
(* main and EnsureAndTokenize *)

(* GetInput asks again until a line is neither blank nor too long, and for *)
(* ever at the end of the input.                                           *)
ReadLine(p) ==
    /\ At(p, "prompt")
    /\ typed < MaxLines
    /\ typed' = typed + 1
    /\ \E line \in Lines :
          Set(p, [proc[p] EXCEPT !.rest = AsTyped(line), !.pc = "next"])
    /\ UNCHANGED batch

LineDone(p) ==
    /\ At(p, "next")
    /\ proc[p].rest = <<>>
    /\ Set(p, IF batch THEN Gone ELSE [proc[p] EXCEPT !.pc = "prompt"])
    /\ Local

NextIs(p, actions) ==
    /\ At(p, "next")
    /\ proc[p].rest # <<>>
    /\ Command(p).do \in actions

(* A command that begins with a symbol: the rest of the line is dropped.   *)
DropLine(p) ==
    /\ NextIs(p, {"symbol"})
    /\ Set(p, [proc[p] EXCEPT !.rest = <<>>])
    /\ Local

(* at(0) of an empty string throws, and nobody catches.                    *)
Abort(p) ==
    /\ NextIs(p, {"empty"})
    /\ Set(p, Gone)
    /\ Local

(* The missing file is noticed when the output is already redirected.      *)
SkipRedirected(p) ==
    /\ NextIs(p, {"malformed", "internal", "pause", "quit", "program"})
    /\ Command(p).do = "malformed" \/ Command(p).in = "missing"
    /\ Set(p, [proc[p] EXCEPT !.rest = Tail(@),
                 !.stdout = IF Command(p).out = "file" THEN "file" ELSE @])
    /\ Local

(* No file name, or an input file that does not exist.                     *)
SkipCommand(p) ==
    /\ NextIs(p, {"malformed", "internal", "pause", "quit", "program"})
    /\ Command(p).do = "malformed" \/ Command(p).in = "missing"
    /\ Set(p, [proc[p] EXCEPT !.rest = Tail(@)])
    /\ Local

-----------------------------------------------------------------------------
(* ExecuteInterpretedCommand *)

(* dup2 with its arguments exchanged leaves the input where it was.        *)
RedirectExchanged(p) ==
    /\ NextIs(p, {"internal", "pause", "quit", "program"})
    /\ Command(p).in # "missing"
    /\ LET c == Command(p)
       IN  Set(p, [proc[p] EXCEPT
              !.saved_in  = IF c.in # "none" THEN proc[p].stdin ELSE None,
              !.saved_out = IF c.out # "none" THEN proc[p].stdout ELSE None,
              !.stdout = IF c.out = "file" THEN "file" ELSE @,
              !.pid = "none", !.pc = "run"])
    /\ Local

(* dup saves a descriptor, dup2 replaces it unless the file did not open.  *)
Redirect(p) ==
    /\ NextIs(p, {"internal", "pause", "quit", "program"})
    /\ Command(p).in # "missing"
    /\ LET c == Command(p)
       IN  Set(p, [proc[p] EXCEPT
              !.saved_in  = IF c.in # "none" THEN proc[p].stdin ELSE None,
              !.saved_out = IF c.out # "none" THEN proc[p].stdout ELSE None,
              !.stdin  = IF c.in = "file" THEN "file" ELSE @,
              !.stdout = IF c.out = "file" THEN "file" ELSE @,
              !.pid = "none", !.pc = "run"])
    /\ Local

Restore(p) ==
    /\ At(p, "restore")
    /\ LET r == proc[p]
       IN  Set(p, [r EXCEPT
              !.stdin  = IF r.saved_in # None THEN r.saved_in ELSE @,
              !.stdout = IF r.saved_out # None THEN r.saved_out ELSE @,
              !.saved_in = None, !.saved_out = None,
              !.rest = Tail(@), !.pc = "next"])
    /\ Local

-----------------------------------------------------------------------------
(* RunCommand *)

InBackground(p) == Command(p).bg /\ proc[p].pid = "none"
RunsHere(p, action) ==
    At(p, "run") /\ ~InBackground(p) /\ Command(p).do = action

(* The parent returns at once, the child runs the command.                 *)
ForkBackground(p) ==
    /\ At(p, "run") /\ InBackground(p) /\ MayFork
    /\ proc' = [proc EXCEPT
                  ![Child] = [proc[p] EXCEPT !.pid = "child", !.waits = None],
                  ![p].pc = "restore"]
    /\ Local

ForkBackgroundFails(p) ==
    /\ At(p, "run") /\ InBackground(p)
    /\ Set(p, [proc[p] EXCEPT !.pc = "restore"])
    /\ Local

RunInternal(p) ==
    /\ RunsHere(p, "internal")
    /\ Set(p, [proc[p] EXCEPT !.pc = "finish"])
    /\ Local

(* pause reads characters until a newline; a file may have none, and       *)
(* getchar's EOF is not one.                                               *)
EndOfPause(p) ==
    /\ RunsHere(p, "pause")
    /\ Set(p, [proc[p] EXCEPT !.pc = "finish"])
    /\ Local

Quit(p) ==
    /\ RunsHere(p, "quit")
    /\ Set(p, Gone)
    /\ Local

(* The program inherits descriptors and, until execvp, everything else.    *)
StartProgram(p) ==
    /\ RunsHere(p, "program") /\ MayFork
    /\ proc' = [proc EXCEPT
                  ![Child] = [proc[p] EXCEPT !.pc = "program"],
                  ![p].pid = "parent", ![p].waits = Child,
                  ![p].pc = IF Command(p).bg THEN "finish" ELSE "wait"]
    /\ Local

StartProgramFails(p) ==
    /\ RunsHere(p, "program")
    /\ Set(p, [proc[p] EXCEPT !.pid = "none", !.pc = "finish"])
    /\ Local

WaitForProgram(p) ==
    /\ At(p, "wait")
    /\ At(proc[p].waits, "ended")
    /\ Set(p, [proc[p] EXCEPT !.pc = "finish"])
    /\ Local

(* if (pid == 0) exit(0)                                                   *)
Finish(p) ==
    /\ At(p, "finish")
    /\ Set(p, IF proc[p].pid = "child" THEN Gone
              ELSE [proc[p] EXCEPT !.pc = "restore"])
    /\ Local

(* The program is over, or execvp has failed and exit(1) ends the child.   *)
ProgramEnds(p) ==
    /\ At(p, "program")
    /\ Set(p, Gone)
    /\ Local

-----------------------------------------------------------------------------
ShellStep(p) ==
    \/ LineDone(p) \/ DropLine(p) \/ Abort(p) \/ SkipCommand(p)
    \/ Redirect(p) \/ Restore(p) \/ ForkBackground(p)
    \/ ForkBackgroundFails(p) \/ RunInternal(p) \/ Quit(p) \/ StartProgram(p)
    \/ StartProgramFails(p) \/ WaitForProgram(p) \/ Finish(p)

Next == \E p \in Processes :
           ReadLine(p) \/ ShellStep(p) \/ EndOfPause(p) \/ ProgramEnds(p)

Spec == Init /\ [][Next]_vars

-----------------------------------------------------------------------------
Places == {"none", "prompt", "next", "run", "wait", "finish", "restore",
           "program", "ended"}

Records ==
    [pc : Places, rest : Seq(Commands), pid : {"none", "child", "parent"},
     waits : Processes \union {None},
     stdin : {"terminal", "file"}, stdout : {"terminal", "file"},
     saved_in : {"terminal", None}, saved_out : {"terminal", None}]

(* What is saved is a terminal descriptor: no redirection begins while     *)
(* another one is in force (redirection.cpp 11-65).                        *)
TypeOK ==
    /\ batch \in BOOLEAN /\ typed \in 0..MaxLines
    /\ proc \in [Processes -> Records]

IsShell(p) == proc[p].pc \in {"prompt", "next"}

(***************************************************************************)
(* Between two commands the last one is over, whichever way it ended: a    *)
(* shell, the first or another, has its terminal back and no saved         *)
(* descriptor left open, and a program it has waited for has ended         *)
(* (main.cpp 91, 125-160).                                                 *)
(***************************************************************************)
CommandIsOver ==
    \A p \in Processes : IsShell(p) =>
       /\ proc[p].stdin = "terminal" /\ proc[p].stdout = "terminal"
       /\ proc[p].saved_in = None /\ proc[p].saved_out = None
       /\ \A q \in Processes :
             (proc[p].waits = q /\ At(q, "program")) => Command(q).bg

(* A program has the files of its own command, whatever was redirected     *)
(* before it or by another shell (main.cpp 116-150).                       *)
ProgramRedirected ==
    \A p \in Processes : At(p, "program") =>
       /\ proc[p].stdin = "file" <=> Command(p).in = "file"
       /\ proc[p].stdout = "file" <=> Command(p).out = "file"

(***************************************************************************)
(* "Exit the background child after it's done executing" (main.cpp 96): no *)
(* child reads commands.                                                   *)
(***************************************************************************)
BackgroundChildExits == \A p \in Processes \ {First} : ~IsShell(p)
=============================================================================
