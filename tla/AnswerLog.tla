----------------------------- MODULE AnswerLog -----------------------------
(***************************************************************************)
(* What the workers and the logger promise together (writeup 21-35): an    *)
(* entry that has been stored in the logger's queue stays there, whole,    *)
(* until the logger takes the oldest one and appends it to the log file.   *)
(* Once the queue is broken they promise nothing.                          *)
(***************************************************************************)
EXTENDS Sequences

CONSTANT Entries    \* the entries that may be stored

VARIABLES queue, log, broken

vars == <<queue, log, broken>>

Init == queue = <<>> /\ log = <<>> /\ broken = FALSE

Store(e) == queue' = Append(queue, e) /\ UNCHANGED log

LogOldest ==
    /\ queue # <<>>
    /\ log' = Append(log, Head(queue))
    /\ queue' = Tail(queue)

Next ==
    \/ broken'
    \/ /\ broken' = FALSE /\ broken = FALSE
       /\ LogOldest \/ \E e \in Entries : Store(e)

Spec == Init /\ [][Next]_vars
=============================================================================
