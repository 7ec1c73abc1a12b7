------------------------------- MODULE MCShell -------------------------------
(* Instances of Shell for TLC: see the cfg files.                          *)
EXTENDS Shell

CONSTANTS p1, p2, p3, p4

Plain(do) == [do |-> do, in |-> "none", out |-> "none", bg |-> FALSE]
Redirected(do, in, out) == [do |-> do, in |-> in, out |-> out, bg |-> FALSE]

(* Commands that another one may follow, and those that end a line.        *)
Leading == {Redirected("program", "file", "file"),
            Redirected("internal", "unreadable", "unwritable"),
            Redirected("program", "missing", "file")}
Trailing == {Plain("program"), Plain("quit"), Plain("symbol"),
             Plain("malformed"), Plain("empty"),
             Redirected("pause", "file", "none")}

SomeLines == {<<c>> : c \in Leading \union Trailing}
             \union {<<c, d>> : c \in Leading, d \in Leading \union Trailing}
=============================================================================
