---------------------------- MODULE ClientService ----------------------------
(***************************************************************************)
(* What the spell-check server promises its clients, without threads,      *)
(* locks or signals: a client waits in a bounded queue, one of the most    *)
(* urgent clients is taken whenever one of a fixed number of servers is    *)
(* free, and it is served once, to its end.                                *)
(***************************************************************************)
EXTENDS Integers, FiniteSets

CONSTANTS Clients, Capacity, Servers, Ranks

VARIABLES queued, serving, served, rank

vars == <<queued, serving, served, rank>>

Init ==
    /\ queued = {} /\ serving = {} /\ served = {}
    /\ rank = [c \in Clients |-> 0]

Arrive(c) ==
    /\ c \notin queued \union serving \union served
    /\ Cardinality(queued) < Capacity
    /\ queued' = queued \union {c}
    /\ \E r \in Ranks : rank' = [rank EXCEPT ![c] = r]
    /\ UNCHANGED <<serving, served>>

Begin(c) ==
    /\ c \in queued
    /\ \A d \in queued : rank[d] <= rank[c]
    /\ Cardinality(serving) < Cardinality(Servers)
    /\ queued' = queued \ {c}
    /\ serving' = serving \union {c}
    /\ UNCHANGED <<served, rank>>

End(c) ==
    /\ c \in serving
    /\ serving' = serving \ {c}
    /\ served' = served \union {c}
    /\ UNCHANGED <<queued, rank>>

Next == \E c \in Clients : Arrive(c) \/ Begin(c) \/ End(c)

Spec == Init /\ [][Next]_vars
=============================================================================
