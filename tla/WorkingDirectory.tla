-------------------------- MODULE WorkingDirectory --------------------------
(***************************************************************************)
(* The internal commands cd and dir (cd.cpp, dir.cpp) on a tree of         *)
(* directories.  A path is written as [absolute, names]; a directory is    *)
(* the sequence of names from the root to it.                              *)
(***************************************************************************)
EXTENDS Integers, Sequences, SequencesExt

CONSTANTS Names,         \* what a directory may be called
          Directories,   \* those there are at first, Home among them
          Home,          \* where the shell is started
          Missing        \* what a path leads to that leads nowhere

Dots == {".", ".."}
Paths == [absolute : BOOLEAN, names : Seq(Names \union Dots)]

ASSUME DirectoriesAssumption ==
    /\ Names \cap Dots = {}
    /\ Home \in Directories
    /\ \A d \in Directories :
          /\ d \in Seq(Names)
          /\ \A n \in 0..Len(d) : SubSeq(d, 1, n) \in Directories
    /\ Missing \notin Directories \union Paths

(* The shell, and the directories that are there.                         *)
Started == [cwd |-> Home, PWD |-> [absolute |-> TRUE, names |-> Home],
            there |-> Directories]

(* What a name of a path leads to, as the kernel follows it.               *)
Follow(there, from, name) ==
    LET to == CASE name = "." -> from
                [] name = ".." -> IF from = <<>> THEN from ELSE Front(from)
                [] OTHER -> Append(from, name)
    IN  IF from # Missing /\ to \in there THEN to ELSE Missing

Resolve(there, cwd, path) ==
    FoldLeft(LAMBDA at, name : Follow(there, at, name),
             IF path.absolute THEN <<>> ELSE cwd, path.names)

Relative(name) == [absolute |-> FALSE, names |-> <<name>>]

(* Absolute, from getcwd, which fails in a directory that was removed.     *)
GetWorkingPath(shell) ==
    IF shell.cwd \in shell.there THEN [absolute |-> TRUE, names |-> shell.cwd]
    ELSE Missing

(* A relative path is put behind the working directory.                    *)
Desired(path, cwd) ==
    IF path.absolute THEN path ELSE [cwd EXCEPT !.names = @ \o path.names]

(* The shell after cd; it prints its directory or an error otherwise.      *)
Cd(shell, args) ==
    LET cwd == GetWorkingPath(shell)
        desired == IF args[1] = Relative("..") THEN args[1]
                   ELSE Desired(args[1], cwd)
        to == Resolve(shell.there, shell.cwd, desired)
    IN  IF Len(args) # 1 \/ cwd = Missing \/ args[1] = Relative(".") THEN shell
        ELSE IF to = Missing THEN shell
        ELSE [shell EXCEPT !.cwd = to, !.PWD = desired]

(* A relative path is put behind PWD.                                      *)
DirFromPwd(shell, args) ==
    LET cwd == GetWorkingPath(shell)
    IN  CASE Len(args) > 1 -> Missing
          [] args = <<>> -> shell.cwd
          [] OTHER -> IF cwd = Missing THEN Missing
                      ELSE Resolve(shell.there, shell.cwd,
                                   Desired(args[1], shell.PWD))

(* The directory dir lists, or Missing for an error.  "." opens whatever   *)
(* has become of the working directory.                                    *)
Dir(shell, args) ==
    LET cwd == GetWorkingPath(shell)
    IN  CASE Len(args) > 1 -> Missing
          [] args = <<>> -> shell.cwd
          [] OTHER -> IF cwd = Missing THEN Missing
                      ELSE Resolve(shell.there, shell.cwd,
                                   Desired(args[1], cwd))

(* Somebody removes a directory that is empty.                             *)
RemoveDirectory(shell, dir) ==
    IF \E d \in shell.there : d # dir /\ IsPrefix(dir, d) THEN shell
    ELSE [shell EXCEPT !.there = @ \ {dir}]

(* A session: [do, args], with do one of "cd" and "rmdir".                 *)
ShellAfter(session) ==
    FoldLeft(LAMBDA shell, s : IF s.do = "cd" THEN Cd(shell, s.args)
                               ELSE RemoveDirectory(shell, s.args[1].names),
             Started, session)
=============================================================================
