---------------------------- MODULE ServerLogger ----------------------------
(***************************************************************************)
(* From a worker's answer to the line in the log file: the message loop of *)
(* WorkerThread (server.cpp 79-122), logger_queue and LoggerThread         *)
(* (161-194).                                                              *)
(*                                                                         *)
(* The workers call logger_queue->emplace and signal logger_added without  *)
(* logger_mutex.  Only the logger ever locks it, so the mutex excludes     *)
(* nobody and is left out.  emplace is therefore modelled as what the      *)
(* compiled std::deque does: load the finish pointer, construct the entry  *)
(* there (word, then result), then increment finish in memory, a load and  *)
(* a store.                                                                *)
(*                                                                         *)
(* The nodes of the deque are numbered one behind the other, and so are    *)
(* their slots; map has a place for each node.  An emplace into the last   *)
(* slot of a node adds a node, and moves the map when it has no place for  *)
(* it: the nodes to its middle, or all of it to a bigger one.  That writes *)
(* start too, which the logger moves when it leaves a node.  If the two    *)
(* overlap, or two emplaces of which one adds a node, the pointers of the  *)
(* deque no longer fit together: from then on empty() and front() return   *)
(* anything.                                                               *)
(***************************************************************************)
EXTENDS Integers, Sequences, SequencesExt, FiniteSets

CONSTANTS
    Workers,       \* the worker threads that have a client
    Messages,      \* bound: words each of these clients sends
    Slots,         \* bound: slots of the deque the logger looks at
    NodeSlots,     \* entries in a node: 6, 512 bytes
    MapPlaces,     \* places in the map at first: 8
    NoEntry        \* what memory holds where no entry is constructed

ASSUME WorkersAssumption == IsFiniteSet(Workers) /\ Workers # {}
ASSUME BoundsAssumption == Messages \in Nat /\ Slots \in Nat
ASSUME DequeAssumption == NodeSlots \in Nat \ {0} /\ MapPlaces \in Nat \ {0, 1, 2}

VARIABLES
    pc,                 \* each worker's place in the message loop
    answered,           \* how many words of its client each has answered
    slot,               \* where the entry under construction goes
    finish_register,    \* finish as loaded by the increment
    memory,             \* the slots of the deque, a record of two strings each
    start, finish,      \* its pointers: start is the front, finish the end
    map_end, map_size,  \* finish's place in the map, how many there are
    raced,              \* history: accesses have overlapped as said above
    logger_pc,
    log                 \* the entries written to the log file

worker_vars == <<pc, answered, slot, finish_register>>
end_vars == <<finish, map_end, map_size>>
logger_vars == <<start, logger_pc, log>>
vars == <<worker_vars, memory, end_vars, logger_vars, raced>>

(* The n-th answer of worker w, in both fields of a whole entry.           *)
Entry(w, n) == [word |-> <<w, n>>, result |-> <<w, n>>]
Unconstructed == [word |-> NoEntry, result |-> NoEntry]

Init ==
    /\ pc = [w \in Workers |-> "read"]
    /\ answered = [w \in Workers |-> 0]
    /\ slot = [w \in Workers |-> 0]
    /\ finish_register = [w \in Workers |-> 0]
    /\ memory = [i \in 0..Slots |-> Unconstructed]
    /\ start = 0 /\ finish = 0
    /\ map_end = (MapPlaces - 1) \div 2 /\ map_size = MapPlaces
    /\ logger_pc = "test" /\ log = <<>> /\ raced = FALSE

Goto(w, place) == pc' = [pc EXCEPT ![w] = place]

-----------------------------------------------------------------------------
(* worker w *)

(* A word is read, looked up and answered.                                 *)
Answer(w) ==
    /\ pc[w] = "read"
    /\ answered[w] < Messages
    /\ answered' = [answered EXCEPT ![w] = @ + 1]
    /\ Goto(w, "load")
    /\ UNCHANGED <<slot, finish_register, memory, end_vars, logger_vars, raced>>

(* Nothing is left of the message once its last character is stripped.     *)
SkipEmptyMessage(w) == pc[w] = "read" /\ UNCHANGED vars

LastOfNode(s) == s % NodeSlots = NodeSlots - 1
NodeOf(s) == s \div NodeSlots

(* Another emplace is under way, and it or the one that begins adds a node.*)
MeetsEmplace(w) ==
    \E v \in Workers \ {w} :
       /\ pc[v] \in {"move", "word", "result", "increment", "store"}
       /\ LastOfNode(finish) \/ LastOfNode(slot[v])

(* An emplace that moves the end of the queue before it has constructed.   *)
LoadFinishAndPublish(w) ==
    /\ pc[w] = "load"
    /\ slot' = [slot EXCEPT ![w] = finish]
    /\ finish' = finish + 1
    /\ Goto(w, "word")
    /\ UNCHANGED <<answered, finish_register, memory, map_end, map_size,
                   logger_vars, raced>>

(* The map is moved while it still has a place for one node.               *)
LoadFinishMovesSooner(w) ==
    /\ pc[w] = "load"
    /\ slot' = [slot EXCEPT ![w] = finish]
    /\ LET moves == LastOfNode(finish) /\ map_end + 3 > map_size
       IN  /\ Goto(w, IF moves THEN "move" ELSE "word")
           /\ raced' = (\/ raced \/ MeetsEmplace(w)
                        \/ moves /\ logger_pc = "leave")
    /\ UNCHANGED <<answered, finish_register, memory, end_vars, logger_vars>>

(* For the last slot of a node the map is to have a place behind finish's. *)
LoadFinish(w) ==
    /\ pc[w] = "load"
    /\ slot' = [slot EXCEPT ![w] = finish]
    /\ LET moves == LastOfNode(finish) /\ map_end + 2 > map_size
       IN  /\ Goto(w, IF moves THEN "move" ELSE "word")
           /\ raced' = (\/ raced \/ MeetsEmplace(w)
                        \/ moves /\ logger_pc = "leave")
    /\ UNCHANGED <<answered, finish_register, memory, end_vars, logger_vars>>

(* _M_reallocate_map, with one node to add                                 *)
MoveMap(w) ==
    /\ pc[w] = "move"
    /\ LET nodes == NodeOf(finish) - NodeOf(start) + 1
           size == IF map_size > 2 * (nodes + 1) THEN map_size
                   ELSE 2 * map_size + 2
       IN  /\ map_end' = (size - (nodes + 1)) \div 2 + nodes - 1
           /\ map_size' = size
    /\ Goto(w, "word")
    /\ UNCHANGED <<answered, slot, finish_register, memory, finish,
                   logger_vars, raced>>

ConstructWord(w) ==
    /\ pc[w] = "word"
    /\ memory' = [memory EXCEPT ![slot[w]].word = <<w, answered[w]>>]
    /\ Goto(w, "result")
    /\ UNCHANGED <<answered, slot, finish_register, end_vars, logger_vars, raced>>

ConstructResult(w) ==
    /\ pc[w] = "result"
    /\ memory' = [memory EXCEPT ![slot[w]].result = <<w, answered[w]>>]
    /\ Goto(w, "increment")
    /\ UNCHANGED <<answered, slot, finish_register, end_vars, logger_vars, raced>>

LoadIncrement(w) ==
    /\ pc[w] = "increment"
    /\ finish_register' = [finish_register EXCEPT ![w] = finish]
    /\ Goto(w, "store")
    /\ UNCHANGED <<answered, slot, memory, end_vars, logger_vars, raced>>

(* The end of the queue does not move.                                     *)
StoreUnchanged(w) ==
    /\ pc[w] = "store"
    /\ finish' = finish_register[w]
    /\ Goto(w, "signal")
    /\ UNCHANGED <<answered, slot, finish_register, memory, map_end, map_size,
                   logger_vars, raced>>

(* From the last slot of a node to the first of the added one; an          *)
(* increment that has not added one must not leave the node.               *)
StoreIncrement(w) ==
    /\ pc[w] = "store"
    /\ finish' = finish_register[w] + 1
    /\ map_end' = IF LastOfNode(slot[w]) THEN map_end + 1 ELSE map_end
    /\ raced' = (raced \/ LastOfNode(slot[w]) # LastOfNode(finish_register[w]))
    /\ Goto(w, "signal")
    /\ UNCHANGED <<answered, slot, finish_register, memory, map_size, logger_vars>>

(* pthread_cond_signal(&logger_added), then the buffer is zeroed.          *)
SignalLogger(w) ==
    /\ pc[w] = "signal"
    /\ logger_pc' = IF logger_pc = "waiting" THEN "test" ELSE logger_pc
    /\ Goto(w, "read")
    /\ UNCHANGED <<answered, slot, finish_register, memory, end_vars, start,
                   log, raced>>

-----------------------------------------------------------------------------
(* the logger *)

(* logger_queue->empty(), then pthread_cond_wait or front(): the wait is a *)
(* step of its own, which no lock makes one with the test.                 *)
TestEmpty ==
    /\ logger_pc = "test"
    /\ \/ (raced \/ start = finish) /\ logger_pc' = "wait"
       \/ (raced \/ start # finish) /\ logger_pc' = "front"
    /\ UNCHANGED <<worker_vars, memory, end_vars, start, log, raced>>

Wait ==
    /\ logger_pc = "wait"
    /\ logger_pc' = "waiting"
    /\ UNCHANGED <<worker_vars, memory, end_vars, start, log, raced>>

(* pop() loads start's place in the map to leave its node.                 *)
LeaveNode ==
    /\ logger_pc = "front" /\ LastOfNode(start)
    /\ logger_pc' = "leave"
    /\ raced' = (raced \/ \E w \in Workers : pc[w] = "move")
    /\ UNCHANGED <<worker_vars, memory, end_vars, start, log>>

(* A logger that waits for a signal after each entry.                      *)
LogEntryThenWait ==
    /\ \/ logger_pc = "front" /\ ~LastOfNode(start)
       \/ logger_pc = "leave"
    /\ start < Slots
    /\ log' = Append(log, memory[start])
    /\ memory' = [memory EXCEPT ![start] = Unconstructed]
    /\ start' = start + 1
    /\ logger_pc' = "wait"
    /\ UNCHANGED <<worker_vars, end_vars, raced>>

(* front() is copied, pop() destroys it and moves start, the file grows.   *)
LogEntry ==
    /\ \/ logger_pc = "front" /\ ~LastOfNode(start)
       \/ logger_pc = "leave"
    /\ start < Slots
    /\ \/ log' = Append(log, memory[start])
       \/ raced /\ log' = Append(log, Unconstructed)
    /\ memory' = [memory EXCEPT ![start] = Unconstructed]
    /\ start' = start + 1
    /\ logger_pc' = "test"
    /\ UNCHANGED <<worker_vars, end_vars, raced>>

-----------------------------------------------------------------------------
WorkerStep(w) ==
    \/ Answer(w) \/ SkipEmptyMessage(w) \/ LoadFinish(w) \/ MoveMap(w)
    \/ ConstructWord(w) \/ ConstructResult(w)
    \/ LoadIncrement(w) \/ StoreIncrement(w) \/ SignalLogger(w)

LoggerStep == TestEmpty \/ Wait \/ LeaveNode \/ LogEntry

Next == LoggerStep \/ \E w \in Workers : WorkerStep(w)

Spec == Init /\ [][Next]_vars

-----------------------------------------------------------------------------
Fields == {NoEntry} \union (Workers \X (1..Messages))

(* An entry holds words and answers that were given, or nothing            *)
(* (server.cpp 81-117).                                                    *)
TypeOK ==
    /\ pc \in [Workers -> {"read", "load", "move", "word", "result",
                           "increment", "store", "signal"}]
    /\ answered \in [Workers -> 0..Messages]
    /\ slot \in [Workers -> Nat]
    /\ finish_register \in [Workers -> Nat]
    /\ memory \in [0..Slots -> [word : Fields, result : Fields]]
    /\ start \in 0..Slots /\ finish \in Nat
    /\ map_end \in Int /\ map_size \in Nat /\ raced \in BOOLEAN
    /\ logger_pc \in {"test", "wait", "waiting", "front", "leave"}
    /\ log \in Seq([word : Fields, result : Fields])

Logged(w, n) == \E i \in DOMAIN log : log[i] = Entry(w, n)

(* Answers whose emplace has moved the end of the queue.                   *)
Published(w) == IF pc[w] \in {"read", "signal"} THEN answered[w]
                ELSE answered[w] - 1

Queued(w, n) == \E i \in 0..(Slots - 1) :
                   i >= start /\ i < finish /\ memory[i] = Entry(w, n)

(***************************************************************************)
(* "create a logger entry that contains both the client's buffer and the   *)
(* dictionary's result, which is then stored into the logger's queue"      *)
(* (writeup 24-25): an answer whose emplace has returned is in the queue   *)
(* or in the log.                                                          *)
(***************************************************************************)
NoAnswerLost ==
    \A w \in Workers : \A n \in 1..Published(w) : Logged(w, n) \/ Queued(w, n)

(***************************************************************************)
(* The slots from start to finish are the queue of AnswerLog (server.cpp   *)
(* 117, 182-183): with one worker the deque keeps the promise without a    *)
(* mutex, until the worker moves the map while the logger leaves a node.   *)
(***************************************************************************)
Queue == [i \in 1..(finish - start) |-> memory[start + i - 1]]

Service == INSTANCE AnswerLog WITH
              Entries <- {Entry(w, n) : w \in Workers, n \in 1..Messages},
              queue <- Queue, broken <- raced

ImplementsAnswerLog == Service!Spec

(* The entries for which the first map has nodes, behind its middle: 30.   *)
FirstMapEntries == (MapPlaces - (MapPlaces - 1) \div 2) * NodeSlots

(***************************************************************************)
(* That a single worker and the logger meet in the deque takes so many     *)
(* answers: shorter tests of the server cannot show it (server.cpp 117,    *)
(* 183).                                                                   *)
(***************************************************************************)
MapMovesLate ==
    (Cardinality(Workers) = 1 /\ raced) =>
       \A w \in Workers : answered[w] >= FirstMapEntries
=============================================================================
