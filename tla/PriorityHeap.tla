---------------------------- MODULE PriorityHeap ----------------------------
(***************************************************************************)
(* std::priority_queue as worker_queue uses it (server.cpp 39, 71-72, 374) *)
(* with struct compare: the binary heap of the standard library the        *)
(* program is built with, in a vector.  Indices start at 1, so the parent  *)
(* of i is i \div 2.                                                       *)
(***************************************************************************)
EXTENDS Integers, Sequences, SequencesExt

(* One client's entry: its priority and the order in which it came.        *)
WorkerEntry(priority, arrival) == [priority |-> priority, arrival |-> arrival]

(* compare::operator()                                                     *)
Less(job1, job2) == job1.priority < job2.priority

(* Sift the entry in the hole up towards the root, past smaller parents:   *)
(* where it stops, and the indices passed on the way.                      *)
SiftUp(heap, hole, entry) ==
    LET passes(i) == i > 1 /\ Less(heap[i \div 2], entry)
        climb[i \in 1..Len(heap)] ==
            IF passes(i) THEN climb[i \div 2] ELSE i
        path[i \in 1..Len(heap)] ==
            IF passes(i) THEN {i} \union path[i \div 2] ELSE {}
    IN  [i \in 1..Len(heap) |->
            IF i = climb[hole] THEN entry
            ELSE IF i \in path[hole] THEN heap[i \div 2] ELSE heap[i]]

(* emplace: at the end of the vector, then push_heap.                      *)
Emplace(heap, entry) ==
    SiftUp(Append(heap, entry), Len(heap) + 1, entry)

(* Where the hole at the root ends up: at each level the larger child goes *)
(* up, the right one if they are equal.                                    *)
Larger(heap, i) ==
    IF 2 * i = Len(heap) \/ Less(heap[2 * i + 1], heap[2 * i])
    THEN 2 * i ELSE 2 * i + 1

(* pop that only puts the last entry in front.                             *)
PopWithoutAdjusting(heap) ==
    IF Len(heap) <= 1 THEN <<>>
    ELSE [Front(heap) EXCEPT ![1] = Last(heap)]

(* pop: the last entry fills the hole that the front has left, from the    *)
(* bottom up (pop_heap, adjust_heap).                                      *)
Pop(heap) ==
    LET rest == Front(heap)
        inner(i) == 2 * i <= Len(rest)
        bottom[i \in 1..Len(rest)] ==    \* where the hole goes down to
            IF inner(i) THEN bottom[Larger(rest, i)] ELSE i
        way[i \in 1..Len(rest)] ==       \* and what it leaves behind
            IF inner(i) THEN {i} \union way[Larger(rest, i)] ELSE {}
        lifted == [i \in 1..Len(rest) |->
                      IF i \in way[1] THEN rest[Larger(rest, i)] ELSE rest[i]]
    IN  IF Len(heap) = 1 THEN <<>> ELSE SiftUp(lifted, bottom[1], Last(heap))

(***************************************************************************)
(* A queue's life: each number is a client with that priority, 0 a worker  *)
(* that takes one, which it does only when the queue is not empty.         *)
(***************************************************************************)
Serve(state, op) ==
    IF op > 0
    THEN [arrived |-> state.arrived + 1,
          heap |-> Emplace(state.heap, WorkerEntry(op, state.arrived + 1)),
          taken |-> state.taken,
          longest |-> Max({state.longest, Len(state.heap) + 1})]
    ELSE IF state.heap = <<>> THEN state
    ELSE [arrived |-> state.arrived, heap |-> Pop(state.heap),
          taken |-> Append(state.taken, Head(state.heap)),
          longest |-> state.longest]

HeapAfter(ops) ==
    FoldLeft(Serve, [arrived |-> 0, heap |-> <<>>, taken |-> <<>>,
                     longest |-> 0], ops)
=============================================================================
