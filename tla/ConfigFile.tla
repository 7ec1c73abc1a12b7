----------------------------- MODULE ConfigFile -----------------------------
(***************************************************************************)
(* config_file (config_file.cpp 8-44) and the calls of main (main.cpp      *)
(* 49-63): each variable is searched from where the stream stands.  A line *)
(* is the name it contains and what std::stoi makes of the rest.           *)
(***************************************************************************)
EXTENDS Integers, Sequences, SequencesExt

CONSTANTS
    ConfigVars,     \* the names main asks for, in that order
    NotANumber      \* in place of the number where std::stoi throws

ASSUME ConfigVarsAssumption == ConfigVars \in Seq(STRING)
ASSUME NumberAssumption == NotANumber # -1

(* The stream: how many lines it has read, and its fail state.             *)
Stream(position, failed) == [position |-> position, failed |-> failed]

(* One turn of the getline loop, which is left at a line with the name.    *)
ReadLine(var, loop, line) ==
    IF loop.left THEN loop
    ELSE [read |-> loop.read + 1, left |-> line.name = var, rest |-> line.value]

(* Nothing is read from a stream that has failed; the loop that is not     *)
(* left at a line fails at the end.                                        *)
Search(lines, stream, var) ==
    LET unread == IF stream.failed THEN <<>>
                  ELSE SubSeq(lines, stream.position + 1, Len(lines))
    IN  FoldLeft(LAMBDA loop, line : ReadLine(var, loop, line),
                 [read |-> 0, left |-> FALSE, rest |-> NotANumber], unread)

(* seekg(0) does nothing on a stream that has failed.                      *)
SeekStart(stream) == IF stream.failed THEN stream ELSE Stream(0, FALSE)

(* The flags stay.                                                         *)
NotCleared(stream) == stream

Cleared(stream) == [stream EXCEPT !.failed = FALSE]

(* An exception of std::stoi, which nobody catches, ends the program.      *)
GetValue(reader, var) ==
    LET loop == Search(reader.lines, reader.stream, var)
        at == Stream(reader.stream.position + loop.read, ~loop.left)
    IN  IF reader.thrown THEN reader
        ELSE IF loop.left /\ loop.rest = NotANumber
        THEN [reader EXCEPT !.thrown = TRUE]
        ELSE [lines |-> reader.lines, thrown |-> FALSE,
              stream |-> SeekStart(Cleared(at)),
              values |-> Append(reader.values, IF loop.left THEN loop.rest ELSE -1)]

(* A file that does not open has no lines.                                 *)
ReadConfig(lines) ==
    FoldLeft(GetValue,
             [lines |-> lines, stream |-> Stream(0, FALSE), values |-> <<>>,
              thrown |-> FALSE],
             ConfigVars)
=============================================================================
