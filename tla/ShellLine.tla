----------------------------- MODULE ShellLine -----------------------------
(***************************************************************************)
(* What the shell makes of the text of a line (main.cpp 170-256, 303-311,  *)
(* 329-334, vector_manipulation.cpp): commands with their redirections, as *)
(* Shell has them.  A text is a sequence of characters.                    *)
(***************************************************************************)
EXTENDS Integers, GetLine

Space == " "

(* Erases blanks at both ends.                                             *)
CleanTrailingSpaces(str) ==
    LET solid == {i \in 1..Len(str) : str[i] # Space}
    IN  IF solid = {} THEN <<>> ELSE SubSeq(str, Min(solid), Max(solid))

(* The & also goes to the last command.                                    *)
TypedAllInBackground(line) ==
    LET pieces == GetLines(line, "&")
    IN  [i \in 1..Len(pieces) |->
            Append(CleanTrailingSpaces(pieces[i]), "&")]

(* A typed line: each & ends a command, and all but the last get it back.  *)
Typed(line) ==
    LET pieces == GetLines(line, "&")
    IN  [i \in 1..Len(pieces) |->
            CleanTrailingSpaces(pieces[i])
            \o (IF i < Len(pieces) THEN <<"&">> ELSE <<>>)]

(* at(size() - 1) throws for an empty piece.                               *)
BatchAborts(line) == \E p \in ToSet(GetLines(line, "&")) : p = <<>>

(* A line of a batch file: a piece that ends in a blank gets an &.         *)
InBatchFile(line) ==
    LET pieces == GetLines(line, "&")
    IN  [i \in 1..Len(pieces) |->
            CleanTrailingSpaces(IF Last(pieces[i]) = Space
                                THEN Append(pieces[i], "&") ELSE pieces[i])]

-----------------------------------------------------------------------------
RedirectSymbols == << <<"<">>, <<">">>, <<">", ">">> >>

(* The file stays among the tokens.                                        *)
CheckAndInterpretRedirectKeepsFile(parse, symbol) ==
    LET at == {i \in 1..Len(parse.tokens) : parse.tokens[i] = symbol}
        given == <<symbol, parse.tokens[Min(at) + 1]>>
        is_input == symbol = <<"<">>
    IN  IF ~parse.ok \/ at = {} THEN parse
        ELSE IF Len(parse.tokens) <= Min(at) THEN [parse EXCEPT !.ok = FALSE]
        ELSE [tokens |-> Remove(parse.tokens, symbol),
              in |-> IF is_input /\ parse.in = <<>> THEN given ELSE parse.in,
              out |-> IF ~is_input /\ parse.out = <<>> THEN given ELSE parse.out,
              ok |-> TRUE]

(* The first such symbol and the token to the right of it are taken out;   *)
(* a key that is there already keeps its value.                            *)
CheckAndInterpretRedirect(parse, symbol) ==
    LET at == {i \in 1..Len(parse.tokens) : parse.tokens[i] = symbol}
        given == <<symbol, parse.tokens[Min(at) + 1]>>
        is_input == symbol = <<"<">>
    IN  IF ~parse.ok \/ at = {} THEN parse
        ELSE IF Len(parse.tokens) <= Min(at) THEN [parse EXCEPT !.ok = FALSE]
        ELSE [tokens |-> SubSeq(parse.tokens, 1, Min(at) - 1)
                         \o SubSeq(parse.tokens, Min(at) + 2, Len(parse.tokens)),
              in |-> IF is_input /\ parse.in = <<>> THEN given ELSE parse.in,
              out |-> IF ~is_input /\ parse.out = <<>> THEN given ELSE parse.out,
              ok |-> TRUE]

(* The arguments joined by blanks and split again: an empty one at the end *)
(* is lost.                                                                *)
Arguments(tokens) ==
    IF tokens # <<>> /\ Last(tokens) = <<>> THEN Front(tokens) ELSE tokens

(* The tokens of a command without its redirections.                       *)
Redirected(tokens) ==
    FoldLeft(CheckAndInterpretRedirect,
             [tokens |-> tokens, in |-> <<>>, out |-> <<>>, ok |-> TRUE],
             RedirectSymbols)

(* The & is looked for in the first token.                                 *)
InterpretFirstToken(command) ==
    LET tokens == GetLines(command, Space)
        background == Last(Head(tokens)) = "&"
        bare == IF background THEN [tokens EXCEPT ![1] = Front(@)] ELSE tokens
        parse == Redirected(bare)
    IN  IF ~parse.ok THEN [do |-> "malformed"]
        ELSE [do |-> "run", cmd |-> Head(parse.tokens),
              args |-> Arguments(Tail(parse.tokens)),
              in |-> parse.in, out |-> parse.out, bg |-> background]

(* The & at the end of the last token, then the redirections.              *)
InterpretCommand(command) ==
    LET tokens == GetLines(command, Space)
        background == Last(Last(tokens)) = "&"
        bare == IF background THEN Append(Front(tokens), Front(Last(tokens)))
                ELSE tokens
        parse == Redirected(bare)
    IN  IF ~parse.ok THEN [do |-> "malformed"]
        ELSE [do |-> "run", cmd |-> Head(parse.tokens),
              args |-> Arguments(Tail(parse.tokens)),
              in |-> parse.in, out |-> parse.out, bg |-> background]

(* at(0) throws for an empty command.                                      *)
Outcome(command) ==
    IF command = <<>> THEN [do |-> "abort"]
    ELSE IF Head(command) \in {"<", ">", "|", "&"} THEN [do |-> "symbol"]
    ELSE InterpretCommand(command)

(* One turn of EnsureAndTokenize; after "abort" and "symbol" none follows. *)
Interpret(outcomes, command) ==
    IF \E o \in ToSet(outcomes) : o.do \in {"abort", "symbol"} THEN outcomes
    ELSE Append(outcomes, Outcome(command))

EnsureAndTokenize(commands) == FoldLeft(Interpret, <<>>, commands)

(* GetInput takes no line of blanks alone.                                 *)
RunTyped(line) == EnsureAndTokenize(Typed(line))

RunBatch(line) ==
    IF BatchAborts(line) THEN <<[do |-> "abort"]>>
    ELSE EnsureAndTokenize(InBatchFile(line))
=============================================================================
