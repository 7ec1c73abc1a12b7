-------------------------- MODULE AlgorithmsTerms --------------------------
(***************************************************************************)
(* What the lemmas of AlgorithmsProofs speak of: the loops of the models   *)
(* under names of their own, what is the case after so many of their       *)
(* turns, and what holds throughout.                                       *)
(***************************************************************************)
EXTENDS Algorithms

-----------------------------------------------------------------------------
(***************************************************************************)
(* The loops of the models, under one name each, so that what holds of any *)
(* FoldLeft is proved once: Turn is the state after one turn of a loop.    *)
(***************************************************************************)
Turn(loop, state, x) ==
    CASE loop[1] = "GetValue" -> GetValue(state, x)
      [] loop[1] = "Follow" -> Follow(loop[2], state, x)
      [] loop[1] = "Session" ->
            IF x.do = "cd" THEN Cd(state, x.args)
            ELSE RemoveDirectory(state, x.args[1].names)
      [] loop[1] = "Serve" -> Serve(state, x)
      [] loop[1] = "Plus" -> state + x
      [] loop[1] = "CreateHashMap" -> CreateHashMap(state, x)
      [] loop[1] = "Concat" -> state \o x
      [] loop[1] = "AddChar" -> AddChar(loop[2], state, x)
      [] loop[1] = "Redirect" -> CheckAndInterpretRedirect(state, x)
      [] loop[1] = "Interpret" -> Interpret(state, x)
      [] loop[1] = "AddToFiles" -> AddToFiles(state, x)
      [] loop[1] = "GrepLine" -> GrepLine(loop[2], state, x)
      [] loop[1] = "CatFile" -> CatFile(state, x)
      [] loop[1] = "GrepFile" -> GrepFile(loop[2], state, x)
      [] loop[1] = "ReadLine" -> ReadLine(loop[2], state, x)
      [] loop[1] = "WriteLine" -> WriteLine(state, x)
      [] loop[1] = "TakeLetter" -> TakeLetter(state, x)
      [] loop[1] = "ZipFile" -> ZipFile(state, x)
      [] loop[1] = "Keep" -> IF x \in Skipped THEN state ELSE Append(state, x)

(* What the function FoldLeft is defined by is equal to.                   *)
LoopEq(loop, base, seq, n, g) ==
    g = [s \in SUBSET (1..n) |->
            IF s = {} THEN base
            ELSE Turn(loop, g[s \ {Max(s)}], seq[Max(s)])]

(* The states of a loop, r[m] after m turns.                               *)
Runs(loop, base, seq, n, r) ==
    /\ r = [m \in 0..n |-> r[m]]
    /\ r[0] = base
    /\ \A m \in 1..n : r[m] = Turn(loop, r[m - 1], seq[m])

(* The state after n turns.                                                *)
After(loop, base, seq, n) == (CHOOSE r : Runs(loop, base, seq, n, r))[n]

-----------------------------------------------------------------------------
(* The inputs.                                                             *)
InputType == kind \in DOMAIN Inputs /\ input \in Seq(Inputs[kind])

-----------------------------------------------------------------------------
(***************************************************************************)
(* The working directory.                                                  *)
(***************************************************************************)
Walk(there, from, names, n) == After(<<"Follow", there>>, from, names, n)

(* From position n on, names is rest.                                      *)
GoesOn(rest, names, n, k) == \A i \in 1..k : rest[i] = names[n + i]

(* The directories there are form a tree, and dots are no names in it.     *)
IsTree(there) ==
    \A d \in there : /\ d \in Seq(Names)
                     /\ \A n \in 0..Len(d) : SubSeq(d, 1, n) \in there

(* A shell whose directories form a tree, its own one of those at first.   *)
ShellType(shell) ==
    /\ shell \in [cwd : Directories, PWD : Paths, there : SUBSET Directories]
    /\ IsTree(shell.there)

(* Where a path leads, nowhere from a directory that was removed.          *)
Leads(shell, path) ==
    IF shell.cwd \in shell.there
    THEN Resolve(shell.there, shell.cwd, path) ELSE Missing

(* The text PWD gets.                                                      *)
NewPwd(shell, path) ==
    IF path = Relative("..") THEN path ELSE Desired(path, GetWorkingPath(shell))

(* What holds after any session, said being its steps.                     *)
Up == [do |-> "cd", args |-> <<Relative("..")>>]

PwdLeads(shell, said) ==
    IF shell.PWD.absolute
    THEN Resolve(Directories, Home, shell.PWD) = shell.cwd
    ELSE shell.PWD = Relative("..") /\ Up \in said

SessionInv(shell, said) == ShellType(shell) /\ PwdLeads(shell, said)

-----------------------------------------------------------------------------
(***************************************************************************)
(* The binary heap.                                                        *)
(***************************************************************************)
(* What the recursive functions of a way through the heap are defined by:  *)
(* from an index in go the way leads on to another.  "end" is where it     *)
(* ends, "way" what it has passed.                                         *)
Passed(what, i, rest) == IF what = "end" THEN rest ELSE {i} \union rest

Stopped(what, i) == IF what = "end" THEN i ELSE {}

WayEq(what, go, to, n, f) ==
    f = [i \in 1..n |-> IF i \in go THEN Passed(what, i, f[to[i]])
                        ELSE Stopped(what, i)]

(* Each step comes nearer to an end.                                       *)
Ranked(go, to, n, rank) ==
    /\ go \subseteq 1..n
    /\ \A i \in 1..n : rank[i] \in Nat
    /\ \A i \in go : to[i] \in 1..n /\ rank[to[i]] < rank[i]

(* A way from s that passes the indices in passed and ends at end.         *)
IsWay(go, to, n, rank, s, end, passed) ==
    /\ end \in 1..n /\ end \notin go
    /\ passed \subseteq go
    /\ s \in passed \union {end}
    /\ \A j \in passed : to[j] \in passed \union {end}
    /\ \A j \in passed \union {end} :
          /\ rank[j] <= rank[s]
          /\ j # s => \E i \in passed : to[i] = j

(* A heap: no entry is greater than its parent.                            *)
Entries == [priority : Nat, arrival : Nat]

IsHeap(h) ==
    /\ h \in Seq(Entries)
    /\ \A i \in 2..Len(h) : h[i \div 2].priority >= h[i].priority

(* Sifting up from a hole without children; the entry in the hole does not *)
(* matter.                                                                 *)
Sifts(h, hole, entry, c, p) ==
    /\ c \in 1..Len(h)
    /\ c = 1 \/ h[c \div 2].priority >= entry.priority
    /\ \A j \in p : /\ j \in 2..Len(h)
                    /\ h[j \div 2].priority < entry.priority
                    /\ j \div 2 \in p \union {c}
                    /\ c < j
    /\ \A j \in p \union {c} : j <= hole
    /\ \A j \in p \union {c} : j # hole => \E i \in p : i \div 2 = j
    /\ hole \in p \union {c}

(* What is in a vector, and in all its places but one.                     *)
Held(h) == {h[i] : i \in DOMAIN h}

HeldBut(h, hole) == {h[i] : i \in (DOMAIN h) \ {hole}}

(* The way of the hole from the front down, along the larger children.     *)
Sinks(h, end, way) ==
    /\ end \in 1..Len(h) /\ 2 * end > Len(h)
    /\ \A i \in way : /\ i \in 1..Len(h) /\ 2 * i <= Len(h)
                      /\ Larger(h, i) \in way \union {end}
    /\ 1 \in way \union {end}
    /\ end \notin way
    /\ \A j \in way \union {end} : j # 1 => \E i \in way : Larger(h, i) = j

Lifted(h, way) ==
    [i \in 1..Len(h) |-> IF i \in way THEN h[Larger(h, i)] ELSE h[i]]

QueueType == [arrived : Nat, heap : Seq(Entries), taken : Seq(Entries),
              longest : Nat]

Arrivals(q) == {q[i].arrival : i \in DOMAIN q}

(* No client is lost or duplicated, and what waits is a heap.              *)
QueueInv(q) ==
    /\ q \in QueueType
    /\ IsHeap(q.heap)
    /\ Len(q.heap) + Len(q.taken) = q.arrived
    /\ Arrivals(q.heap) \union Arrivals(q.taken) = 1..q.arrived
    /\ Len(q.heap) <= q.longest

(* First in, first out: what waits came after what was taken.              *)
InOrder(q) ==
    /\ \A i \in 1..Len(q.taken) : q.taken[i].arrival = i
    /\ \A i \in 1..Len(q.heap) :
          q.heap[i] = WorkerEntry(1, Len(q.taken) + i)

-----------------------------------------------------------------------------
(***************************************************************************)
(* Averages.                                                               *)
(***************************************************************************)
Numbers(f, n) == \A i \in 1..n : f[i] \in Int

Total(f, n) == After(<<"Plus">>, 0, f, n)

Between(f, n, low, high) ==
    \A i \in 1..n : f[i] \in Int /\ low <= f[i] /\ f[i] <= high

-----------------------------------------------------------------------------
(* The arguments of the server.                                            *)

(* The arguments among the first m with a key, and the keys there are.     *)
AtKey(args, m, k) == {i \in 1..m : args[i].key = k}

KeysOf(args, m) == {args[i].key : i \in 1..m} \ {NoDelimiter}

(* Each key with the value given last.                                     *)
LastGiven(args, m) ==
    [k \in KeysOf(args, m) |-> args[Max(AtKey(args, m, k))].value]

-----------------------------------------------------------------------------
(* The pieces of a text.                                                   *)
Split(text, delim, n) == After(<<"AddChar", delim>>, <<<<>>>>, text, n)

(* What can be said of a text split, and of the next character.            *)
IsSplit(C, delim, lines) ==
    lines \in Seq(Seq(C \ {delim})) /\ lines # <<>>

Added(delim, c, lines, new) ==
    LET n == Len(lines)
    IN  /\ n \in Nat /\ n >= 1
        /\ \A i \in 1..(n - 1) : new[i] = lines[i]
        /\ c = delim => /\ Len(new) = n + 1
                        /\ new[n] = lines[n] /\ new[n + 1] = <<>>
        /\ c # delim => Len(new) = n /\ new[n] = Append(lines[n], c)

Begins(piece, c) == piece # <<>> /\ piece[1] = c

Ends(piece, c) == piece # <<>> /\ Last(piece) = c

(* Where a text is not blank.                                              *)
Solid(str) == {i \in 1..Len(str) : str[i] # Space}

-----------------------------------------------------------------------------
(* The redirections of a command.                                          *)
IsParse(S, parse) ==
    /\ parse = [tokens |-> parse.tokens, in |-> parse.in, out |-> parse.out,
                ok |-> parse.ok]
    /\ parse.tokens \in Seq(S)
    /\ parse.ok \in BOOLEAN

At(words, symbol) == {i \in 1..Len(words) : words[i] = symbol}

(* The words without those at m and m + 1.                                 *)
Without(words, m, rest) ==
    /\ Len(rest) = Len(words) - 2
    /\ \A i \in 1..(m - 1) : rest[i] = words[i]
    /\ \A i \in m..(Len(words) - 2) : rest[i] = words[i + 2]

(* What CheckAndInterpretRedirect does with a symbol.                      *)
Redirects(parse, symbol, new) ==
    LET words == parse.tokens
        m == Min(At(words, symbol))
        given == <<symbol, words[m + 1]>>
    IN  /\ (~parse.ok \/ At(words, symbol) = {}) => new = parse
        /\ (parse.ok /\ At(words, symbol) # {}) =>
              /\ m \in At(words, symbol) /\ \A i \in At(words, symbol) : m <= i
              /\ m = Len(words) => ~new.ok /\ new.tokens = words
              /\ m # Len(words) =>
                    /\ m \in 1..(Len(words) - 1)
                    /\ new.ok
                    /\ Without(words, m, new.tokens)
                    /\ new.in = IF symbol = <<"<">> /\ parse.in = <<>>
                                THEN given ELSE parse.in
                    /\ new.out = IF symbol # <<"<">> /\ parse.out = <<>>
                                 THEN given ELSE parse.out

Unredirected(tokens) ==
    [tokens |-> tokens, in |-> <<>>, out |-> <<>>, ok |-> TRUE]

(* The first word is no symbol and stays.                                  *)
StartsWith(S, parse, word) ==
    IsParse(S, parse) /\ parse.tokens # <<>> /\ parse.tokens[1] = word

Stops(outcome) == outcome.do \in {"abort", "symbol"}

-----------------------------------------------------------------------------
(* Sequences one behind the other.                                         *)
FlatEq(seqs, n, f) ==
    f = [i \in 1..n |-> IF i = 1 THEN seqs[i] ELSE f[i - 1] \o seqs[i]]

-----------------------------------------------------------------------------
(* One command: its tokens without the & at the end of the last.           *)
Bare(tokens) ==
    IF Last(Last(tokens)) = "&" THEN Append(Front(tokens), Front(Last(tokens)))
    ELSE tokens

Symbol == {"<", ">", "|", "&"}

-----------------------------------------------------------------------------
(* The commands of a typed line.                                           *)
Chars == STRING \union {"&", Space}

Amp == <<"&">>

(* A command as it is typed: the piece, and the & behind it if any.        *)
TypedPiece(piece, tail) == CleanTrailingSpaces(piece) \o tail

-----------------------------------------------------------------------------
(* Loops whose turns add to a sequence.                                    *)
Adds(loop, S, T, g) ==
    /\ g \in [S -> Seq(T)]
    /\ \A x \in Seq(T) : \A y \in S : Turn(loop, x, y) = x \o g[y]

(* What such a loop makes of a whole sequence.                             *)
AllOf(loop, s) == After(loop, <<>>, s, Len(s))

Nested(S, seqs) == seqs \in Seq(Seq(S))

EachOf(loop, seqs, each) ==
    /\ Len(each) = Len(seqs)
    /\ \A i \in 1..Len(seqs) : each[i] = AllOf(loop, seqs[i])

-----------------------------------------------------------------------------
(* wcat and wgrep.                                                         *)

(* Written lines, one by one.                                              *)
WrittenTo(lines, n) == After(<<"WriteLine">>, <<>>, lines, n)

(* A text of whole lines: it is read as them, and a line begins behind it. *)
Whole(C, text) ==
    /\ text \in Seq(C) /\ Lines(text) \in Seq(Seq(C \ {Newline}))
    /\ Split(text, Newline, Len(text)) = Append(Lines(text), <<>>)

-----------------------------------------------------------------------------
(* Texts of whole lines, one behind the other.                             *)

(* Loops over files that stop at the first that does not open.             *)
TurnsFiles(loop) ==
    \A out, file : /\ out.code = 1 => Turn(loop, out, file) = out
                   /\ out.code = 0 => Turn(loop, out, NoFile) = NotOpened(out)

Told(files, text) ==
    LET open == Opened(files) = files
    IN  [code |-> IF open THEN 0 ELSE 1,
         text |-> text \o IF open THEN <<>> ELSE Append(CannotOpen, Newline)]

(* The contents of the first m files.                                      *)
Contents(files, m) == After(<<"Concat">>, <<>>, files, m)

FoundAlike(term, contents) ==
    LET found == WGrep(<<term>>, contents)
    IN  /\ WGrep(<<term>> \o Files, <<>>) = Told(Files, found.text)
        /\ found.code = 0
        /\ ToSet(Lines(found.text)) = {l \in ToSet(Lines(contents)) : HasTerm(l, term)}

-----------------------------------------------------------------------------
(* wzip and wunzip.                                                        *)
Entry(C) == [count : Nat, letter : C]

Copies(x, n) == [k \in 1..n |-> x]

(* What wunzip makes of one more entry.                                    *)
Pieces(entries) ==
    [i \in 1..Len(entries) |-> Copies(entries[i].letter, Printed(entries[i].count))]

(* How many of a run are read back.                                        *)
Kept(letter, count) == IF letter \in Skipped THEN 0 ELSE Printed(count)

(* From s to e the same letter, as far as it goes.                         *)
Same(f, s, e) ==
    /\ s \in 1..e /\ e \in 1..Len(f)
    /\ \A j \in s..e : f[j] = f[s]
    /\ s = 1 \/ f[s - 1] # f[s]

IsRun(f, s, e) ==
    /\ Same(f, s, e)
    /\ e = Len(f) \/ f[e + 1] # f[s]

(* The letters a file gives back up to a position.                         *)
Parts(f) ==
    [i \in 1..Len(f) |-> IF ComesBack(f, i) THEN <<f[i]>> ELSE <<>>]

Picked(f, m) == After(<<"Concat">>, <<>>, Parts(f), m)

(* The coder.                                                              *)
IsCoder(C, coder) ==
    /\ coder.last \in C /\ coder.counter \in Nat
    /\ coder.written \in Seq(Entry(C))

(* The coder in the middle of a file: base is what there is to read back   *)
(* before the file.                                                        *)
InFile(C, f, base, m, coder, s) ==
    /\ IsCoder(C, coder)
    /\ Same(f, s, m)
    /\ coder.last = f[m] /\ coder.counter = m - s + 1
    /\ WUnzip(coder.written) = base \o Picked(f, s - 1)

-----------------------------------------------------------------------------
(* Sequences cut and put together.                                         *)
IsCut(S, s, k, a, b) ==
    /\ a \in Seq(S) /\ b \in Seq(S) /\ s = a \o b
    /\ Len(a) = k /\ Len(b) = Len(s) - k
    /\ \A i \in 1..k : a[i] = s[i]
    /\ \A i \in 1..(Len(s) - k) : b[i] = s[k + i]

CutsPair(S, s, p) ==
    \E a, c \in Seq(S) :
       /\ s = (a \o <<s[p], s[p + 1]>>) \o c
       /\ Len(a) = p - 1 /\ Len(c) = Len(s) - p - 1
       /\ \A i \in 1..(p - 1) : a[i] = s[i]
       /\ \A i \in 1..(Len(s) - p - 1) : c[i] = s[p + 1 + i]

(* The words but those at the positions in T.                              *)
Shown(words, T) ==
    [i \in 1..Len(words) |-> IF i \in T THEN <<>> ELSE <<words[i]>>]

(* A pair of words taken out.                                              *)
TakesPair(words, T, W, p) ==
    \E a, c \in Seq(W) :
       /\ Others(words, T) = (a \o <<words[p], words[p + 1]>>) \o c
       /\ Others(words, T \union {p, p + 1}) = a \o c

(* A word that is found once, with one behind it or at the end.            *)
FoundPair(Z, t, k, x, y, others) ==
    /\ k \in Nat /\ k < Len(t) /\ At(t, x) = {k} /\ t[k + 1] = y
    /\ \A r \in Seq(Z) : Without(t, k, r) => r = others

-----------------------------------------------------------------------------
(* The redirections of a command whose symbols stand apart.                *)
Lt == <<"<">>

Gt == <<">">>

GtGt == <<">", ">">>

Apart(words, A) ==
    \A i, j \in 1..Len(words) :
       (words[i] \in A /\ words[j] \in A) =>
          j # i + 1 /\ (words[i] = words[j] => i = j)

(* The symbols of D and the words behind them.                             *)
Taken(words, D) ==
    {i \in 1..Len(words) : words[i] \in D}
    \union {i + 1 : i \in {j \in 1..Len(words) : words[j] \in D}}

(* What is left when the symbols of D have been dealt with.                *)
Handled(words, D, parse) ==
    IF words[Len(words)] \in D THEN ~parse.ok
    ELSE parse.ok /\ parse.tokens = Others(words, Taken(words, D))

Took(words, symbol, parse, new) ==
    /\ new.in = IF symbol = Lt /\ parse.in = <<>> THEN Behind(words, symbol)
                ELSE parse.in
    /\ new.out = IF symbol # Lt /\ parse.out = <<>> THEN Behind(words, symbol)
                 ELSE parse.out

Three == {Lt, Gt, GtGt}

-----------------------------------------------------------------------------
(* A line typed and in a batch file.                                       *)

(* Every & has one blank before it.                                        *)
Spaced(line) ==
    \A i \in 1..Len(line) : line[i] = "&" =>
       i > 2 /\ line[i - 1] = Space /\ line[i - 2] # Space

(* A piece that ends in one blank, and how much of the line it is.         *)
Closed(piece) ==
    /\ Len(piece) >= 1 /\ piece[Len(piece)] = Space
    /\ Len(piece) > 1 => piece[Len(piece) - 1] # Space

EndOf(line, m, piece) ==
    /\ Len(piece) <= m
    /\ \A j \in 1..Len(piece) : piece[j] = line[m - Len(piece) + j]
    /\ Len(piece) < m => line[m - Len(piece)] = "&"

(* A piece that ends in one blank, as the & of a batch file is put behind. *)
SolidUpTo(q, str, b) ==
    /\ b \in 1..Len(str) /\ b >= Len(q)
    /\ \A i \in 1..Len(q) : str[i] = q[i]
    /\ \A i \in (Len(q) + 1)..Len(str) : str[i] # Space => i = b
    /\ b > Len(q) => str[b] # Space

IsSlice(C, str, a, b, s) ==
    /\ s \in Seq(C) /\ Len(s) = b - a + 1
    /\ \A i \in 1..(b - a + 1) : s[i] = str[a + i - 1]

(* Tidy words, and the same with an empty one behind them, as the blank    *)
(* before the & of a batch file leaves it.                                 *)
Tidied(R, words) ==
    /\ words \in Seq(R)
    /\ \A i \in 1..Len(words) :
          /\ words[i] # <<>>
          /\ words[i] \in Three =>
                i + 1 \in 1..Len(words) /\ words[i + 1] \notin Three

Trailing(R, parse, other) ==
    /\ IsParse(R, parse) /\ IsParse(R, other) /\ parse.ok /\ other.ok
    /\ Tidied(R, parse.tokens) /\ other.tokens = Append(parse.tokens, <<>>)
    /\ other.in = parse.in /\ other.out = parse.out

-----------------------------------------------------------------------------
(* The configuration file.                                                 *)

(* The lines with a name.                                                  *)
With(lines, var) == {i \in DOMAIN lines : lines[i].name = var}

(* main's calls, as long as none finds anything but a number.              *)
Reader(lines, values) ==
    [lines |-> lines, stream |-> Stream(0, FALSE), values |-> values,
     thrown |-> FALSE]

(* The values of the first m names.                                        *)
FirstValues(lines, m) == [v \in 1..m |-> FirstValue(lines, ConfigVars[v])]

AllNumbers(lines, m) ==
    \A v \in 1..m : FirstValue(lines, ConfigVars[v]) # NotANumber

(* The first name without a number behind it.                              *)
FirstBad(lines, k) ==
    AllNumbers(lines, k - 1) /\ FirstValue(lines, ConfigVars[k]) = NotANumber
=============================================================================
