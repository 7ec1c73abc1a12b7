--------------------------- MODULE SignalAverages ---------------------------
(***************************************************************************)
(* GetVectorAverage (logger.cpp 15-25), which the logger applies to the    *)
(* reception times of each signal in a batch of 16.                        *)
(***************************************************************************)
EXTENDS Integers, Sequences, SequencesExt

(* The division of long in C++ rounds towards zero, that of TLA+ down.     *)
Quotient(a, b) == IF a >= 0 THEN a \div b ELSE -((-a) \div b)

(* The times themselves, the first not taken off.                          *)
AverageTime(vect) ==
    IF vect = <<>> THEN 0
    ELSE Quotient(FoldLeft(+, 0, [i \in 1..Len(vect) |-> vect[i]]), Len(vect))

GetVectorAverage(vect) ==
    IF vect = <<>> THEN 0
    ELSE Quotient(FoldLeft(+, 0, [i \in 1..Len(vect) |-> vect[i] - vect[1]]),
                  Len(vect))
=============================================================================
