--------------------------- MODULE ServerDispatch ---------------------------
(***************************************************************************)
(* How the spell-check server hands clients to its workers: the accept     *)
(* loop of main (server.cpp 355-380), the dispatch half of WorkerThread    *)
(* (62-74 and the end of the read loop), the priority queue between them   *)
(* and the mutex and the two condition variables that protect it.          *)
(*                                                                         *)
(* What a worker says to its client is in ServerLogger: here a client is   *)
(* served until its end of the connection is closed.                       *)
(***************************************************************************)
EXTENDS Integers, FiniteSets

CONSTANTS
    Workers,              \* the MAX_WORKER_THREADS worker threads
    Sockets,              \* the descriptors the kernel can give to accept
    MaxWorkerQueueSize,   \* MAX_WORKER_QUEUE_SIZE
    Priorities,           \* what a client's priority is drawn from
    SpuriousWakeups,      \* may pthread_cond_wait return without a signal?
    Nobody,               \* no thread, no socket
    Main                  \* the main thread

ASSUME WorkersAssumption == IsFiniteSet(Workers) /\ Workers # {}
ASSUME SocketsAssumption == IsFiniteSet(Sockets)
ASSUME QueueSizeAssumption == MaxWorkerQueueSize \in Nat \ {0}
ASSUME PrioritiesAssumption == Priorities \subseteq Nat \ {0} /\ Priorities # {}
ASSUME SpuriousAssumption == SpuriousWakeups \in BOOLEAN
ASSUME NamesAssumption == /\ Main # Nobody
                          /\ Main \notin Workers
                          /\ Nobody \notin Workers
                          /\ Nobody \notin Sockets

VARIABLES
    worker_mutex,          \* the thread that holds it, or Nobody
    worker_queue,          \* the sockets in the priority queue
    front,                 \* the socket top() returns, Nobody if empty
    priority,              \* worker_entry.priority of each socket, 0 before
    main_pc, client_socket,         \* main's place and local variable
    pc, current_client_socket,      \* each worker's place and local variable
    open,                  \* descriptors accept has returned
    quit,                  \* clients a worker has reported "quit!"
    hungup                 \* clients that have closed their end

queue_vars  == <<worker_queue, front, priority>>
main_vars   == <<main_pc, client_socket>>
worker_vars == <<pc, current_client_socket>>
client_vars == <<open, quit, hungup>>
vars == <<worker_mutex, queue_vars, main_vars, worker_vars, client_vars>>

Threads == Workers \union {Main}

(***************************************************************************)
(* The queue: std::priority_queue with struct compare.  The heap keeps a   *)
(* maximal entry in front; which of several equal ones follows it depends  *)
(* on the shape of the heap and is left open.  emplace moves an entry to   *)
(* the front only past strictly smaller ones.                              *)
(***************************************************************************)
Maximal(S) == {s \in S : \A t \in S : priority[t] <= priority[s]}

FrontAfterEmplace(s, p) ==
    IF front # Nobody /\ priority[front] >= p THEN front ELSE s

(* A comparator turned around: the smallest priority in front.             *)
FrontsAfterPopReversed ==
    LET rest == worker_queue \ {front}
    IN  IF rest = {} THEN {Nobody}
        ELSE {s \in rest : \A t \in rest : priority[s] <= priority[t]}

FrontsAfterPop ==
    LET rest == worker_queue \ {front}
    IN  IF rest = {} THEN {Nobody} ELSE Maximal(rest)

Init ==
    /\ worker_mutex = Nobody
    /\ worker_queue = {} /\ front = Nobody
    /\ priority = [s \in Sockets |-> 0]
    /\ main_pc = "accept" /\ client_socket = Nobody
    /\ pc = [w \in Workers |-> "lock"]
    /\ current_client_socket = [w \in Workers |-> Nobody]
    /\ open = {} /\ quit = {} /\ hungup = {}

(***************************************************************************)
(* pthread.  A thread inside pthread_cond_wait is at "waiting" until it is *)
(* woken, then at "relock" until it owns the mutex again.                  *)
(***************************************************************************)
Acquire(t) == worker_mutex = Nobody /\ worker_mutex' = t
Release    == worker_mutex' = Nobody

Waiting == {w \in Workers : pc[w] = "waiting"}

(* A signal only when the queue goes from empty to non-empty.              *)
SignalIfQueueWasEmpty ==
    IF Waiting = {} \/ worker_queue # {} THEN pc' = pc
    ELSE \E w \in Waiting : pc' = [pc EXCEPT ![w] = "relock"]

(* main tells nobody.                                                      *)
SignalNobody == pc' = pc

(* pthread_cond_signal(&client_added) by main.                             *)
SignalClientAdded ==
    IF Waiting = {} THEN pc' = pc
    ELSE \E w \in Waiting : pc' = [pc EXCEPT ![w] = "relock"]

(* A worker that tells nobody.                                             *)
NoSignal == main_pc' = main_pc

(* pthread_cond_signal(&client_removed) by a worker.                       *)
SignalClientRemoved ==
    main_pc' = IF main_pc = "waiting" THEN "relock" ELSE main_pc

-----------------------------------------------------------------------------
(* main *)

Accept ==
    /\ main_pc = "accept"
    /\ \E s \in Sockets \ open :
          /\ open' = open \union {s}
          /\ client_socket' = s
    /\ main_pc' = "lock"
    /\ UNCHANGED <<worker_mutex, queue_vars, worker_vars, quit, hungup>>

(* accept returns an error: main prints it and calls accept again.         *)
AcceptFails == main_pc = "accept" /\ UNCHANGED vars

MainLock ==
    /\ main_pc = "lock"
    /\ Acquire(Main)
    /\ main_pc' = "check"
    /\ UNCHANGED <<queue_vars, client_socket, worker_vars, client_vars>>

QueueFull == Cardinality(worker_queue) >= MaxWorkerQueueSize

CheckQueueSize ==
    /\ main_pc = "check"
    /\ IF QueueFull
       THEN main_pc' = "waiting" /\ Release
       ELSE main_pc' = "push" /\ UNCHANGED worker_mutex
    /\ UNCHANGED <<queue_vars, client_socket, worker_vars, client_vars>>

MainSpuriousWakeup ==
    /\ SpuriousWakeups
    /\ main_pc = "waiting"
    /\ main_pc' = "relock"
    /\ UNCHANGED <<worker_mutex, queue_vars, client_socket, worker_vars,
                   client_vars>>

(* The size is tested with if, not while: main goes on to emplace.         *)
MainRelock ==
    /\ main_pc = "relock"
    /\ Acquire(Main)
    /\ main_pc' = "push"
    /\ UNCHANGED <<queue_vars, client_socket, worker_vars, client_vars>>

Emplace(s, p) ==
    /\ worker_queue' = worker_queue \union {s}
    /\ front' = FrontAfterEmplace(s, p)
    /\ priority' = [priority EXCEPT ![s] = p]

AddClient ==
    /\ main_pc = "push"
    /\ \E p \in Priorities : Emplace(client_socket, p)
    /\ SignalClientAdded
    /\ Release
    /\ main_pc' = "accept"
    /\ client_socket' = Nobody
    /\ UNCHANGED <<current_client_socket, client_vars>>

-----------------------------------------------------------------------------
(* worker w *)

(* A worker that enters without the mutex.                                 *)
WorkerEntersUnlocked(w) ==
    /\ pc[w] = "lock"
    /\ pc' = [pc EXCEPT ![w] = "test"]
    /\ UNCHANGED <<worker_mutex, queue_vars, main_vars, current_client_socket,
                   client_vars>>

WorkerLock(w) ==
    /\ pc[w] = "lock"
    /\ Acquire(w)
    /\ pc' = [pc EXCEPT ![w] = "test"]
    /\ UNCHANGED <<queue_vars, main_vars, current_client_socket, client_vars>>

TestEmpty(w) ==
    /\ pc[w] = "test"
    /\ IF worker_queue = {}
       THEN pc' = [pc EXCEPT ![w] = "waiting"] /\ Release
       ELSE pc' = [pc EXCEPT ![w] = "top"] /\ UNCHANGED worker_mutex
    /\ UNCHANGED <<queue_vars, main_vars, current_client_socket, client_vars>>

WorkerSpuriousWakeup(w) ==
    /\ SpuriousWakeups
    /\ pc[w] = "waiting"
    /\ pc' = [pc EXCEPT ![w] = "relock"]
    /\ UNCHANGED <<worker_mutex, queue_vars, main_vars, current_client_socket,
                   client_vars>>

(* if for while: no second look at the queue after the wait.               *)
WorkerRelockNoRetest(w) ==
    /\ pc[w] = "relock"
    /\ Acquire(w)
    /\ pc' = [pc EXCEPT ![w] = "top"]
    /\ UNCHANGED <<queue_vars, main_vars, current_client_socket, client_vars>>

WorkerRelock(w) ==
    /\ pc[w] = "relock"
    /\ Acquire(w)
    /\ pc' = [pc EXCEPT ![w] = "test"]
    /\ UNCHANGED <<queue_vars, main_vars, current_client_socket, client_vars>>

Top(w) ==
    /\ pc[w] = "top"
    /\ current_client_socket' = [current_client_socket EXCEPT ![w] = front]
    /\ pc' = [pc EXCEPT ![w] = "pop"]
    /\ UNCHANGED <<worker_mutex, queue_vars, main_vars, client_vars>>

Pop(w) ==
    /\ pc[w] = "pop"
    /\ worker_queue' = worker_queue \ {front}
    /\ front' \in FrontsAfterPop
    /\ SignalClientRemoved
    /\ Release
    /\ pc' = [pc EXCEPT ![w] = "serve"]
    /\ UNCHANGED <<priority, client_socket, current_client_socket, client_vars>>

(* read returns 0 or an error; the descriptor is not closed.               *)
ClientQuit(w) ==
    /\ pc[w] = "serve"
    /\ current_client_socket[w] \in hungup
    /\ quit' = quit \union {current_client_socket[w]}
    /\ current_client_socket' = [current_client_socket EXCEPT ![w] = Nobody]
    /\ pc' = [pc EXCEPT ![w] = "lock"]
    /\ UNCHANGED <<worker_mutex, queue_vars, main_vars, open, hungup>>

(* A client closes its end, in whatever hands its socket is.               *)
HangUp(s) ==
    /\ s \in open \ hungup
    /\ hungup' = hungup \union {s}
    /\ UNCHANGED <<worker_mutex, queue_vars, main_vars, worker_vars, open, quit>>

-----------------------------------------------------------------------------
MainStep == \/ Accept \/ AcceptFails \/ MainLock \/ CheckQueueSize
            \/ MainRelock \/ AddClient

WorkerStep(w) == \/ WorkerLock(w) \/ TestEmpty(w) \/ WorkerRelock(w)
                 \/ Top(w) \/ Pop(w) \/ ClientQuit(w)

Next == \/ MainStep
        \/ MainSpuriousWakeup
        \/ \E w \in Workers : WorkerStep(w) \/ WorkerSpuriousWakeup(w)
        \/ \E s \in Sockets : HangUp(s)

Spec == Init /\ [][Next]_vars

(***************************************************************************)
(* Every thread is scheduled again and again, and every client hangs up in *)
(* the end: a worker serves one client for as long as it stays connected.  *)
(***************************************************************************)
MainRuns == MainLock \/ CheckQueueSize \/ MainRelock \/ AddClient

FairSpec == /\ Spec
            /\ WF_vars(MainRuns)
            /\ \A w \in Workers : WF_vars(WorkerStep(w))
            /\ \A s \in Sockets : WF_vars(HangUp(s))

-----------------------------------------------------------------------------
MainPlaces == {"accept", "lock", "check", "waiting", "relock", "push"}
WorkerPlaces == {"lock", "test", "waiting", "relock", "top", "pop", "serve"}

(* Only descriptors that accept has returned are queued, served or quit    *)
(* (server.cpp 356-379).                                                   *)
TypeOK ==
    /\ worker_mutex \in Threads \union {Nobody}
    /\ worker_queue \in SUBSET Sockets
    /\ front \in Sockets \union {Nobody}
    /\ priority \in [Sockets -> Priorities \union {0}]
    /\ main_pc \in MainPlaces
    /\ client_socket \in Sockets \union {Nobody}
    /\ pc \in [Workers -> WorkerPlaces]
    /\ current_client_socket \in [Workers -> Sockets \union {Nobody}]
    /\ open \in SUBSET Sockets
    /\ quit \in SUBSET open
    /\ hungup \in SUBSET open

(* A thread between its lock and its unlock owns worker_mutex.             *)
MutexInv ==
    /\ main_pc \in {"check", "push"} <=> worker_mutex = Main
    /\ \A w \in Workers :
          pc[w] \in {"test", "top", "pop"} <=> worker_mutex = w

(***************************************************************************)
(* top() and pop() are called on a queue that is not empty, and pop takes  *)
(* away the entry whose socket top has just returned (server.cpp 66-72).   *)
(***************************************************************************)
TakeIsDefined ==
    \A w \in Workers :
       /\ pc[w] \in {"top", "pop"} => front # Nobody
       /\ pc[w] = "pop" => current_client_socket[w] = front

(* The front of the heap is an entry of the queue that none exceeds.       *)
FrontInv ==
    IF worker_queue = {} THEN front = Nobody
    ELSE front \in Maximal(worker_queue)

InMainsHand(s)      == main_pc # "accept" /\ client_socket = s
InWorkersHand(w, s) == pc[w] = "serve" /\ current_client_socket[w] = s

(***************************************************************************)
(* No client is lost or served twice: an accepted socket is with main, in  *)
(* the queue, with one worker, or has quit, and is in one place only.      *)
(***************************************************************************)
ClientPlacedOnce ==
    \A s \in Sockets :
       /\ s \in open <=> \/ InMainsHand(s)
                         \/ s \in worker_queue
                         \/ \E w \in Workers : InWorkersHand(w, s)
                         \/ s \in quit
       /\ InMainsHand(s) => s \notin worker_queue \union quit
       /\ s \in worker_queue => s \notin quit
       /\ \A w \in Workers : InWorkersHand(w, s) =>
             /\ ~InMainsHand(s)
             /\ s \notin worker_queue \union quit
             /\ \A v \in Workers \ {w} : ~InWorkersHand(v, s)

(***************************************************************************)
(* "if the queue risks containing more than MAX_WORKER_QUEUE_SIZE then the *)
(* main connection handler will wait" (readme 87-90): the queue never      *)
(* holds more.                                                             *)
(***************************************************************************)
QueueBound == Cardinality(worker_queue) <= MaxWorkerQueueSize

(* What makes it inductive when no wakeup is spurious: main is only woken  *)
(* by a worker that has just made room, and only main fills it again.      *)
RoomInv ==
    ~SpuriousWakeups =>
       /\ QueueBound
       /\ main_pc \in {"relock", "push"} =>
             Cardinality(worker_queue) < MaxWorkerQueueSize

(***************************************************************************)
(* main signals one worker per client: while a worker sleeps, every queued *)
(* client has an awake worker on its way to the queue.                     *)
(***************************************************************************)
OnTheWay == {w \in Workers : pc[w] \in {"relock", "test", "top", "pop"}}

NoWorkerSleepsThroughClient ==
    Waiting # {} => Cardinality(worker_queue) <= Cardinality(OnTheWay)

(***************************************************************************)
(* main sleeps only while the queue is full: the first worker that takes a *)
(* client wakes it (server.cpp 73, 366-369).                               *)
(***************************************************************************)
MainSleepsOnlyWhenFull == main_pc = "waiting" => QueueFull

(* A client that is queued is taken up by a worker.                        *)
QueuedClientIsServed ==
    \A s \in Sockets : s \in worker_queue ~> s \in quit

(***************************************************************************)
(* The server as its clients see it.                                       *)
(***************************************************************************)
Serving == {s \in Sockets : \E w \in Workers : InWorkersHand(w, s)}

Service == INSTANCE ClientService WITH
              Clients <- Sockets, Capacity <- MaxWorkerQueueSize,
              Servers <- Workers, Ranks <- Priorities,
              queued <- worker_queue, serving <- Serving, served <- quit,
              rank <- priority

(* The threads, the mutex and the signals implement ClientService.         *)
ImplementsService == Service!Spec
=============================================================================
