---------------------------- MODULE MCAlgorithms ----------------------------
(* Instances of Algorithms for TLC: see the cfg file.                      *)
EXTENDS Algorithms

CONSTANTS a, b, nul, usage, cannot_open

MCSkipped == {nul}

(* The letters that the messages' bytes are to wunzip.                     *)
MCUsageEntries == <<[count |-> 1, letter |-> usage]>>
MCCannotOpenEntries == <<[count |-> 1, letter |-> cannot_open]>>

MCUsage == <<usage>>
MCCannotOpen == <<cannot_open>>

MCStoi == "0" :> 0 @@ "1" :> 1 @@ "70000" :> 70000 @@ "3000000000" :> 100001

Argument(key, value) == [key |-> key, value |-> value]
MCArguments ==
    {Argument("-port", v) : v \in {"0", "1", "70000", "3000000000", "x"}}
    \union {Argument("-workers", v) : v \in {"0", "1", "x"}}
    \union {Argument("-max_msg_length", "1"), Argument("-msg_length", "1"),
            Argument("-mode", "0"), Argument("-mode", "x"),
            Argument("-dict", "empty"), Argument("-dict", "words"),
            Argument("-linebreak", "true"), Argument("-linebreak", "1"),
            Argument(NoDelimiter, "")}

MCConfigVars == <<"INIT_TIME", "FIN_TIME", "QUIT_PROB">>

MCDirectories == {<<>>, <<"a">>, <<"a", "b">>, <<"b">>}
MCHome == <<"a">>

Path(absolute, names) == [absolute |-> absolute, names |-> names]
Does(do, args) == [do |-> do, args |-> args]
MCSession ==
    {Does("cd", <<p>>) : p \in
        {Relative("."), Relative(".."), Relative("a"), Relative("b"),
         Path(FALSE, <<"..", "b">>), Path(TRUE, <<>>),
         Path(TRUE, <<"a", "b">>), Path(TRUE, <<"a", "b", "..">>)}}
    \union {Does("cd", <<>>), Does("cd", <<Relative("b"), Relative("b")>>),
            Does("rmdir", <<Path(TRUE, <<"a", "b">>)>>),
            Does("rmdir", <<Path(TRUE, <<"b">>)>>)}

MCInputs ==
    [queue |-> {0, 1, 2},
     letters |-> {a, b, nul, NextFile, NoFile},
     text |-> {a, b, Newline, NextFile, NoFile},
     times |-> {0, 1, 3, 7},
     config |-> [name : {"INIT_TIME", "FIN_TIME", "QUIT_PROB", "no name"},
                 value : {1, 2, NotANumber}],
     arguments |-> MCArguments,
     line |-> {<<"x">>, <<" ", "y">>, <<" ">>, <<"&">>, <<" ", "&">>,
               <<" ", "<">>, <<" ", ">">>, <<" ", ">", ">">>},
     session |-> MCSession]

MCLongest == [queue |-> 9, letters |-> 6, text |-> 6, times |-> 6,
              config |-> 4, arguments |-> 3, line |-> 6,
              session |-> 4]

MCTerms == {<<>>, <<a>>, <<a, b>>}

MCDictionaries == [words |-> <<"cat", "cat">>, empty |-> <<>>]

MCFailures == {"log file", "socket", "listen"}
=============================================================================
