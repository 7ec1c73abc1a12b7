----------------------------- MODULE RunLength -----------------------------
(***************************************************************************)
(* wzip and wunzip (part-B): run-length coding of one or more files into   *)
(* entries of a count and a letter, and back.                              *)
(***************************************************************************)
EXTENDS FileArguments

CONSTANTS
    Skipped,        \* the letters wzip does not write: 0 and 0xF
    Zero,           \* the letter 0, one of them
    UsageEntries,   \* what the usage and the message are to wunzip: entries,
    CannotOpenEntries,                  \* as any 5 bytes are
    ByteSize        \* values of a byte, 256; TLC takes a smaller one

ASSUME SkippedAssumption == Zero \in Skipped
ASSUME ByteAssumption == ByteSize \in Nat /\ ByteSize >= 2 /\ ByteSize % 2 = 0

(* output(): the 4 bytes of the count, then the letter.                    *)
Output(written, letter, counter) ==
    IF letter \in Skipped THEN written
    ELSE Append(written, [count |-> counter, letter |-> letter])

(* The counter goes on counting when the letter changes.                   *)
TakeLetterNoReset(coder, letter) ==
    LET same == coder.last = letter
    IN  [last |-> letter,
         counter |-> coder.counter + 1,
         written |-> IF same THEN coder.written
                     ELSE Output(coder.written, coder.last, coder.counter)]

(* One turn of the loop: last is letters[CURR], then letters[PREV].        *)
TakeLetter(coder, letter) ==
    LET same == coder.last = letter
    IN  [last |-> letter,
         counter |-> IF same THEN coder.counter + 1 ELSE 1,
         written |-> IF same THEN coder.written
                     ELSE Output(coder.written, coder.last, coder.counter)]

(* One file to its end: the last run is written, then letters and counter  *)
(* are reset.                                                              *)
ZipFile(coder, letters) ==
    LET end == FoldLeft(TakeLetter, coder, letters)
    IN  [last |-> Zero, counter |-> 0,
         written |-> Output(end.written, end.last, end.counter)]

(* The files of the command line; letters[] is not initialised before the  *)
(* first.  The usage and the message go to the output too, behind what is  *)
(* written of the files before one that does not open.                     *)
WZip(files, uninitialised) ==
    LET coder == FoldLeft(ZipFile,
                          [last |-> uninitialised, counter |-> 0, written |-> <<>>],
                          Opened(files))
    IN  IF files = <<>> THEN [code |-> 0, written |-> UsageEntries]
        ELSE [code |-> ExitCode(files),
              written |-> IF Opened(files) = files THEN coder.written
                          ELSE coder.written \o CannotOpenEntries]

(* How often wunzip prints: its loop compares with the first byte of the   *)
(* count, a signed char.                                                   *)
Printed(count) ==
    LET byte == count % ByteSize IN IF byte < ByteSize \div 2 THEN byte ELSE 0

WUnzip(entries) ==
    FlattenSeq([i \in 1..Len(entries) |->
                   [k \in 1..Printed(entries[i].count) |-> entries[i].letter]])

-----------------------------------------------------------------------------
(* Without the loops of the two programs: the positions of the run that    *)
(* position i of a file is in.                                             *)
Run(letters, i) ==
    {j \in 1..Len(letters) :
        \A k \in Min({i, j})..Max({i, j}) : letters[k] = letters[i]}

(* The letters that come back: those not skipped, as many of a run as are  *)
(* printed for its length.                                                 *)
ComesBack(letters, i) ==
    LET run == Run(letters, i)
    IN  /\ letters[i] \notin Skipped
        /\ i < Min(run) + Printed(Max(run) - Min(run) + 1)

ReadBack(letters) ==
    FlattenSeq([i \in 1..Len(letters) |->
                   IF ComesBack(letters, i) THEN <<letters[i]>> ELSE <<>>])

Unskipped(letters) ==
    FlattenSeq([i \in 1..Len(letters) |->
                   IF letters[i] \in Skipped THEN <<>> ELSE <<letters[i]>>])
=============================================================================
