--------------------------- MODULE FileArguments ---------------------------
(***************************************************************************)
(* What wcat, wgrep, wzip and wunzip share: they work through the files    *)
(* named on the command line and stop with exit code 1 at the first that   *)
(* cannot be opened.                                                       *)
(***************************************************************************)
EXTENDS Integers, Sequences, SequencesExt

CONSTANT NoFile     \* in a list of files, one that cannot be opened

Opened(files) ==
    LET missing == {i \in 1..Len(files) : files[i] = NoFile}
    IN  IF missing = {} THEN files ELSE SubSeq(files, 1, Min(missing) - 1)

ExitCode(files) == IF Opened(files) = files THEN 0 ELSE 1
=============================================================================
