----------------------------- MODULE Algorithms -----------------------------
(***************************************************************************)
(* The sequential parts of the projects on every input up to a length: an  *)
(* input of one kind grows step by step, and the properties compare what   *)
(* the operators of the other modules make of it with a definition that    *)
(* does not follow the code.                                               *)
(***************************************************************************)
EXTENDS PriorityHeap, RunLength, TextTools, SignalAverages, ConfigFile,
        ServerStart, ShellLine, WorkingDirectory, Functions

CONSTANTS
    Inputs,         \* what an input of each kind is made of
    Longest,        \* bound: its length
    NextFile,       \* among letters: the next file on the command line
    Terms,          \* the search terms of wgrep
    Dictionaries,   \* the dictionary files there are, each a list of words
    Failures        \* the calls that may fail while the server starts

ASSUME QueueAssumption ==
    "queue" \in DOMAIN Inputs => Inputs["queue"] \subseteq Nat

ASSUME TimesAssumption ==
    "times" \in DOMAIN Inputs => Inputs["times"] \subseteq Int

ASSUME LinesAssumption ==
    "line" \in DOMAIN Inputs => Inputs["line"] \subseteq Seq(STRING)

ASSUME SessionAssumption ==
    "session" \in DOMAIN Inputs =>
       Inputs["session"] \subseteq [do : {"cd", "rmdir"}, args : Seq(Paths)]

VARIABLES kind, input

vars == <<kind, input>>

Init == kind \in DOMAIN Inputs /\ input = <<>>

Grow ==
    /\ Len(input) < Longest[kind]
    /\ \E x \in Inputs[kind] : input' = Append(input, x)
    /\ UNCHANGED kind

Spec == Init /\ [][Grow]_vars

-----------------------------------------------------------------------------
(***************************************************************************)
(* The binary heap does what ServerDispatch assumes of worker_queue after  *)
(* any sequence of emplace and pop: an entry comes to the front only past  *)
(* strictly smaller ones, pop leaves a maximal one there, and no client is *)
(* lost or duplicated.  "0 is a standard FIFO queue" (readme) holds, with  *)
(* all priorities equal, as long as no more than three clients wait at     *)
(* once; a fourth may overtake (server.cpp 39, 71-72, 372-374).            *)
(***************************************************************************)
HeapIsDispatchQueue ==
    kind = "queue" =>
       LET queue == HeapAfter(input)
           heap == queue.heap
           arrivals(q) == {q[i].arrival : i \in DOMAIN q}
           front_maximal(h) == \A i \in DOMAIN h : h[i].priority <= h[1].priority
           mode_0 == \A i \in DOMAIN input : input[i] \in {0, 1}
       IN  /\ front_maximal(heap)
           /\ heap # <<>> => front_maximal(Pop(heap))
           /\ \A p \in Inputs["queue"] \ {0} :
                 LET new == WorkerEntry(p, queue.arrived + 1)
                 IN  Head(Emplace(heap, new)) =
                        IF heap # <<>> /\ heap[1].priority >= p
                        THEN heap[1] ELSE new
           /\ Len(heap) + Len(queue.taken) = queue.arrived
           /\ arrivals(heap) \union arrivals(queue.taken) = 1..queue.arrived
           /\ (mode_0 /\ queue.longest <= 3) =>
                 \A i \in DOMAIN queue.taken : queue.taken[i].arrival = i

(* The files an input stands for.                                          *)
AddToFiles(files, x) ==
    IF x = NextFile THEN Append(files, <<>>)
    ELSE IF x = NoFile \/ Last(files) = NoFile
    THEN Append(Front(files), NoFile)
    ELSE Append(Front(files), Append(Last(files), x))

Files == FoldLeft(AddToFiles, <<<<>>>>, input)

(* No run of a file reaches half the values of a byte.                     *)
ShortRuns(letters) ==
    \A i \in DOMAIN letters :
       Cardinality(Run(letters, i)) < ByteSize \div 2

(***************************************************************************)
(* When wzip ends with 0, wunzip gives the files back as one stream:       *)
(* nothing of one file, nor of the variables before the first, is carried  *)
(* into the next, and files of short runs come back whole but for the      *)
(* skipped letters (wzip.cpp 34-52, wunzip.cpp 28-31).  That wunzip "does  *)
(* the reverse" (README 130) is not claimed of longer runs.                *)
(***************************************************************************)
UnzipReadsBack ==
    kind = "letters" =>
       \A uninitialised \in Inputs["letters"] \ {NextFile, NoFile} :
          LET zip == WZip(Files, uninitialised)
              back == WUnzip(zip.written)
              alone(file) == WUnzip(WZip(<<file>>, Zero).written)
          IN  zip.code = 0 =>
                 /\ back = FlattenSeq([i \in DOMAIN Files |-> alone(Files[i])])
                 /\ (\A i \in DOMAIN Files : ShortRuns(Files[i])) =>
                       back = Unskipped(FlattenSeq(Files))

EndsLines(file) == file = <<>> \/ Last(file) = Newline

(***************************************************************************)
(* For files whose last lines end in a newline: "Just print the exact      *)
(* contents" (README 71) holds of wcat, up to a file that does not open,   *)
(* and wgrep finds in files what it finds in the output of wcat on them,   *)
(* whichever file a line is of: just the lines with the term.  Either ends *)
(* with 1, and its message last, if and only if a file does not open       *)
(* (wcat.cpp 15-30, wgrep.cpp 14-45).  To another last line both add a     *)
(* newline, of which nothing is claimed.                                   *)
(***************************************************************************)
PipedOrNamedAlike ==
    (kind = "text" /\ \A f \in ToSet(Opened(Files)) : EndsLines(f)) =>
       LET open == Opened(Files) = Files
           code == IF open THEN 0 ELSE 1
           message == IF open THEN <<>> ELSE Append(CannotOpen, Newline)
           contents == FlattenSeq(Opened(Files))
       IN  /\ WCat(Files) = [code |-> code, text |-> contents \o message]
           /\ \A term \in Terms \ {<<>>} :
                 LET found == WGrep(<<term>>, contents)
                 IN  /\ WGrep(<<term>> \o Files, <<>>) =
                           [code |-> code, text |-> found.text \o message]
                     /\ found.code = 0
                     /\ ToSet(Lines(found.text)) =
                           {l \in ToSet(Lines(contents)) : HasTerm(l, term)}

(***************************************************************************)
(* The average in the signal log is one of times between receptions: the   *)
(* same whenever the batch comes, and no smaller and no greater than the   *)
(* distances from the first reception (logger.cpp 15-25, 72).  That it is  *)
(* "the average time between receptions" is not claimed.                   *)
(***************************************************************************)
AverageOfBatch ==
    (kind = "times" /\ input # <<>>) =>
       LET average == GetVectorAverage(input)
           distances == {input[i] - input[1] : i \in DOMAIN input}
       IN  /\ Min(distances) <= average
           /\ average <= Max(distances)
           /\ GetVectorAverage([i \in DOMAIN input |-> input[i] + 1]) = average

(* What the first line with a name has, -1 when there is none.             *)
FirstValue(lines, var) ==
    LET with == {i \in DOMAIN lines : lines[i].name = var}
    IN  IF with = {} THEN -1 ELSE lines[Min(with)].value

(***************************************************************************)
(* The order of the lines in config.txt does not matter, nor do names that *)
(* are missing: each of main's calls finds the first line with its name,   *)
(* behind or before those of the calls before it, and after calls that     *)
(* have run into the end of the file; the program ends at the first that   *)
(* finds no number (config_file.cpp 22-44).                                *)
(***************************************************************************)
ConfigInAnyOrder ==
    kind = "config" =>
       LET read == ReadConfig(input)
           first == [v \in DOMAIN ConfigVars |-> FirstValue(input, ConfigVars[v])]
           bad == {v \in DOMAIN ConfigVars : first[v] = NotANumber}
       IN  /\ read.thrown <=> bad # {}
           /\ Len(read.values) = IF bad = {} THEN Len(ConfigVars) ELSE Min(bad) - 1
           /\ \A v \in DOMAIN read.values : read.values[v] = first[v]

Exchanged(args, i) == [args EXCEPT ![i] = args[i + 1], ![i + 1] = args[i]]

GivenAt(args, key) == {i \in DOMAIN args : args[i].key = key}

GivenLast(args, key, default) ==
    LET at == GivenAt(args, key)
    IN  IF at = {} THEN default ELSE args[Max(at)].value

SettingsAsGiven(args, settings) ==
    LET given(key) == GivenAt(args, key) # {}
        last(key, default) == GivenLast(args, key, default)
    IN  /\ settings.PORT \in 1..MAX_PORT
        /\ given("-port") => settings.PORT = Stoi[last("-port", "")]
        /\ settings.MAX_WORKER_THREADS >= 1
        /\ given("-workers") =>
              settings.MAX_WORKER_THREADS = Stoi[last("-workers", "")]
        /\ Dictionaries[last("-dict", "words")] # <<>>
        /\ settings.MAX_MSG_LENGTH >= 1
        /\ settings.CAN_LINEBREAK = (last("-linebreak", "false") = "true")

(***************************************************************************)
(* "Arguments can be given in any order" (readme): with neighbours of      *)
(* different keys exchanged the server ends with the same codes, whatever  *)
(* else fails.  One that starts has, of each option, the value given last, *)
(* within the range of the readme, and a dictionary with words (server.cpp *)
(* 213-349).  Of -max_msg_length (readme 48-52), which does not start      *)
(* without -msg_length (server.cpp 269-270), nothing is claimed.           *)
(***************************************************************************)
StartedAsGiven ==
    kind = "arguments" =>
       /\ \A i \in 1..(Len(input) - 1), failing \in SUBSET Failures :
             input[i].key # input[i + 1].key =>
                ExitCodes(Exchanged(input, i), Dictionaries, failing) =
                   ExitCodes(input, Dictionaries, failing)
       /\ RUNNING \in ExitCodes(input, Dictionaries, {}) =>
             SettingsAsGiven(input, Settings(Parsed(input)))

-----------------------------------------------------------------------------
(* A line for the shell, and whether GetInput takes it.                    *)
Line == FlattenSeq(input)

IsLine == kind = "line" /\ CleanTrailingSpaces(Line) # <<>>

Blank(piece) == ToSet(piece) \subseteq {Space}

StartsCommand(piece) ==
    ~Blank(piece) /\ Head(CleanTrailingSpaces(piece)) \notin {"<", ">", "|"}

(* The words of a piece, and those that have to be told from others.       *)
Words(piece) == GetLines(CleanTrailingSpaces(piece), Space)

SymbolsOf(words) == {i \in DOMAIN words : words[i] \in ToSet(RedirectSymbols)}

(* A word stands between two blanks, and behind a symbol its file.         *)
Tidy(words) ==
    /\ \A i \in DOMAIN words : words[i] # <<>>
    /\ \A i \in SymbolsOf(words) : i + 1 \in DOMAIN words \ SymbolsOf(words)

(***************************************************************************)
(* A line of tidy pieces means the same typed and in a batch file if one   *)
(* blank is before every & and none at the end, nor an &: a batch file has *)
(* only that blank to put a command in the background by (main.cpp         *)
(* 303-311, vector_manipulation.cpp 22-36).                                *)
(***************************************************************************)
TypedAndBatchAgree ==
    (/\ IsLine
     /\ \A i \in DOMAIN Line : Line[i] = "&" =>
           i > 2 /\ Line[i - 1] = Space /\ Line[i - 2] # Space
     /\ Last(Line) \notin {Space, "&"}
     /\ \A piece \in ToSet(GetLines(Line, "&")) : Tidy(Words(piece))) =>
    RunTyped(Line) = RunBatch(Line)

(* What became of the commands of a line, given its pieces.                *)
EndsAtUnusable(pieces, outcomes) ==
    LET unusable == {i \in DOMAIN pieces : ~StartsCommand(pieces[i])}
        last == Min(unusable \union {Len(pieces)})
    IN  /\ Len(outcomes) = last
        /\ \A i \in 1..(last - 1) : outcomes[i].do \in {"run", "malformed"}
        /\ (outcomes[last].do = "abort") <=>
              (last = Len(pieces) /\ Blank(pieces[last]))
        /\ (outcomes[last].do = "symbol") <=>
              (last \in unusable /\ outcomes[last].do # "abort")
        /\ \A o \in ToSet(outcomes) :
              o.do = "run" => /\ o.cmd # <<>>
                              /\ Head(o.cmd) \notin {"<", ">", "|", "&"}

(***************************************************************************)
(* A typed line ends the shell, by an exception, only if blanks or nothing *)
(* follow its last & and the commands before it can be started; nothing is *)
(* started after a command that is empty or begins with a redirection, and *)
(* what is started has a name (main.cpp 245-255, 303-314).                 *)
(***************************************************************************)
OnlyEmptyCommandsAbort ==
    IsLine => EndsAtUnusable(GetLines(Line, "&"), RunTyped(Line))

(* What is written in a command: the words at some positions, and a symbol *)
(* with the word behind it.                                                *)
Others(words, taken) ==
    FlattenSeq([i \in 1..Len(words) |->
                   IF i \in taken THEN <<>> ELSE <<words[i]>>])

Behind(words, symbol) ==
    LET at == {i \in DOMAIN words : words[i] = symbol}
    IN  IF at = {} THEN <<>> ELSE <<symbol, words[Min(at) + 1]>>

(* No word is empty, and no symbol comes twice or behind another.          *)
Plain(words) ==
    /\ \A i \in DOMAIN words : words[i] # <<>>
    /\ \A i, j \in SymbolsOf(words) :
          /\ j # i + 1
          /\ words[i] = words[j] => i = j

(* The outcome of a command of such words.                                 *)
RunAsWritten(words, background, o) ==
    LET symbols == SymbolsOf(words)
        taken == symbols \union {i + 1 : i \in symbols}
    IN  IF Len(words) \in symbols THEN o.do = "malformed"
        ELSE /\ o.do = "run"
             /\ <<o.cmd>> \o o.args = Others(words, taken)
             /\ o.in = Behind(words, <<"<">>)
             /\ o.out = IF Behind(words, <<">">>) # <<>>
                        THEN Behind(words, <<">">>)
                        ELSE Behind(words, <<">", ">">>)
             /\ o.bg \in background

(* In the background or not: a command with another behind its & is.       *)
Backgrounds(p, pieces) ==
    IF p < pieces THEN {TRUE}
    ELSE IF Last(CleanTrailingSpaces(Line)) = "&" THEN BOOLEAN ELSE {FALSE}

(***************************************************************************)
(* The redirections of a command are those written, wherever they stand    *)
(* among its arguments: each symbol takes the word behind it, > goes       *)
(* before >>, the other words are the arguments in their order; a command  *)
(* that ends in a symbol is skipped; what has an & with more behind it     *)
(* runs in the background, what has no & does not (main.cpp 170-237,       *)
(* 303-311).  Of the command before an & that ends a typed line, which     *)
(* runs in the foreground against readme 150-159, nothing is claimed.      *)
(***************************************************************************)
RedirectionsAsWritten ==
    IsLine =>
       LET pieces == GetLines(Line, "&")
           outcomes == RunTyped(Line)
       IN  \A p \in DOMAIN outcomes :
              (Plain(Words(pieces[p])) /\ outcomes[p].do \notin {"symbol", "abort"}) =>
                 RunAsWritten(Words(pieces[p]), Backgrounds(p, Len(pieces)), outcomes[p])

(***************************************************************************)
(* After any session cd goes, and dir looks, where the path leads from the *)
(* working directory, whatever PWD says; if it leads nowhere, dir fails    *)
(* and cd changes nothing.  Once its directory is removed, the shell has   *)
(* nowhere to go, not even to an absolute path.  "PWD is updated to        *)
(* reflect the new directory" (readme 33): it leads where the shell is,    *)
(* except that .. leaves the text .. in it (cd.cpp 21-54, dir.cpp 24-56).  *)
(***************************************************************************)
CdAndDirFollowThePath ==
    kind = "session" =>
       LET shell == ShellAfter(input)
           paths == {s.args[1] : s \in {t \in Inputs["session"] :
                                          t.do = "cd" /\ Len(t.args) = 1}}
           up == [do |-> "cd", args |-> <<Relative("..")>>]
       IN  /\ \A path \in paths :
                 LET to == IF shell.cwd \in shell.there
                           THEN Resolve(shell.there, shell.cwd, path)
                           ELSE Missing
                     after == Cd(shell, <<path>>)
                 IN  /\ Dir(shell, <<path>>) = to
                     /\ IF to = Missing THEN after = shell ELSE after.cwd = to
           /\ IF shell.PWD.absolute
              THEN Resolve(Directories, Home, shell.PWD) = shell.cwd
              ELSE shell.PWD = Relative("..") /\ up \in ToSet(input)
=============================================================================
