----------------------------- MODULE TextTools -----------------------------
(***************************************************************************)
(* wcat and wgrep (part-A): they copy the lines of files, all of them or   *)
(* those that contain a search term, to the output.                        *)
(***************************************************************************)
EXTENDS FileArguments, GetLine

CONSTANTS
    Newline,        \* the character that ends a line
    Usage,          \* "wgrep: searchterm [file ...]"
    CannotOpen      \* "wcat: cannot open file" or "wgrep: cannot open file"

(* The lines of a text: a last one needs no newline.                       *)
Lines(text) == GetLines(text, Newline)

(* strstr                                                                  *)
HasTerm(line, term) ==
    \E i \in 0..(Len(line) - Len(term)) :
       SubSeq(line, i + 1, i + Len(term)) = term

(* Each line is written with std::endl, the messages too.                 *)
WriteLine(text, line) == text \o Append(line, Newline)

(* while (!eof()) in place of while (getline()): a turn too many.          *)
CatLinesUntilEof(text, file) ==
    FoldLeft(WriteLine, text, Append(Lines(file), <<>>))

CatLines(text, file) == FoldLeft(WriteLine, text, Lines(file))

NotOpened(out) == [code |-> 1, text |-> WriteLine(out.text, CannotOpen)]

(* One turn of wcat's loop over its arguments; after return 1 none.        *)
CatFile(out, file) ==
    IF out.code = 1 THEN out
    ELSE IF file = NoFile THEN NotOpened(out)
    ELSE [code |-> 0, text |-> CatLines(out.text, file)]

NoOutput == [code |-> 0, text |-> <<>>]

WCat(files) == FoldLeft(CatFile, NoOutput, files)

GrepLine(term, text, line) ==
    IF HasTerm(line, term) THEN WriteLine(text, line) ELSE text

GrepLines(term, text, file) ==
    FoldLeft(LAMBDA t, line : GrepLine(term, t, line), text, Lines(file))

(* One turn of wgrep's loop over its files.                                *)
GrepFile(term, out, file) ==
    IF out.code = 1 THEN out
    ELSE IF file = NoFile THEN NotOpened(out)
    ELSE [code |-> 0, text |-> GrepLines(term, out.text, file)]

(* An empty term ends it; without a file it reads its standard input.      *)
WGrep(args, stdin) ==
    IF args = <<>> THEN [code |-> 1, text |-> WriteLine(<<>>, Usage)]
    ELSE IF Head(args) = <<>> THEN NoOutput
    ELSE IF Len(args) = 1
    THEN [code |-> 0, text |-> GrepLines(Head(args), <<>>, stdin)]
    ELSE FoldLeft(LAMBDA out, file : GrepFile(Head(args), out, file), NoOutput,
                  Tail(args))
=============================================================================
