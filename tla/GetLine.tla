------------------------------ MODULE GetLine ------------------------------
(***************************************************************************)
(* std::getline in a loop, as the projects read files and split strings.   *)
(***************************************************************************)
EXTENDS Sequences, SequencesExt

(* The lines read so far, the last of them not yet whole.                 *)
AddChar(delim, lines, c) ==
    IF c = delim THEN Append(lines, <<>>)
    ELSE Append(Front(lines), Append(Last(lines), c))

(* The pieces between delimiters; after the last delimiter only what is    *)
(* not empty.                                                              *)
GetLines(text, delim) ==
    LET split == FoldLeft(LAMBDA lines, c : AddChar(delim, lines, c),
                          <<<<>>>>, text)
    IN  IF Last(split) = <<>> THEN Front(split) ELSE split
=============================================================================
