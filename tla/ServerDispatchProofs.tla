------------------------ MODULE ServerDispatchProofs ------------------------
(***************************************************************************)
(* Proofs about ServerDispatch, for any number of workers, clients and     *)
(* priorities and any queue size.                                          *)
(***************************************************************************)
EXTENDS ServerDispatch, FiniteSetTheorems, TLAPS

(* Whoever serves or is about to queue a client has one in hand.           *)
HandsInv ==
    /\ main_pc # "accept" => client_socket \in Sockets
    /\ \A w \in Workers : pc[w] = "serve" => current_client_socket[w] \in Sockets

(* The inductive invariant of the dispatch.                                *)
IInv == /\ TypeOK /\ HandsInv /\ MutexInv /\ FrontInv /\ TakeIsDefined
        /\ ClientPlacedOnce

USE DEF Threads, queue_vars, main_vars, worker_vars, client_vars

(* Nobody waits and the queue is empty when the server starts.             *)
LEMMA InitEstablishes == Init => IInv
  BY NamesAssumption
  DEF Init, IInv, TypeOK, HandsInv, MutexInv, FrontInv, TakeIsDefined,
      ClientPlacedOnce, InMainsHand, InWorkersHand, MainPlaces, WorkerPlaces

(* The variables keep their types: what is put in the queue is a socket    *)
(* main has in hand, what is taken from it was in it.                      *)
LEMMA TypeStep ==
  ASSUME IInv, [Next]_vars
  PROVE  TypeOK'
<1> USE DEF IInv, TypeOK, MainPlaces, WorkerPlaces
<1>1. CASE Accept
  BY <1>1 DEF Accept
<1>2. CASE AcceptFails
  BY <1>2 DEF AcceptFails, vars
<1>3. CASE MainLock
  BY <1>3 DEF MainLock, Acquire
<1>4. CASE CheckQueueSize
  BY <1>4 DEF CheckQueueSize, Release
<1>5. CASE MainRelock
  BY <1>5 DEF MainRelock, Acquire
<1>6. CASE AddClient
  <2>1. client_socket \in Sockets
    BY <1>6 DEF AddClient, HandsInv
  <2>2. pc' \in [Workers -> WorkerPlaces]
    BY <1>6 DEF AddClient, SignalClientAdded
  <2>3. front' \in Sockets
    BY <1>6, <2>1, NamesAssumption DEF AddClient, Emplace, FrontAfterEmplace
  <2>. QED
    BY <1>6, <2>1, <2>2, <2>3 DEF AddClient, Emplace, Release
<1>7. CASE MainSpuriousWakeup
  BY <1>7 DEF MainSpuriousWakeup
<1>8. ASSUME NEW w \in Workers, WorkerLock(w) PROVE TypeOK'
  BY <1>8 DEF WorkerLock, Acquire
<1>9. ASSUME NEW w \in Workers, TestEmpty(w) PROVE TypeOK'
  BY <1>9 DEF TestEmpty, Release
<1>10. ASSUME NEW w \in Workers, WorkerRelock(w) PROVE TypeOK'
  BY <1>10 DEF WorkerRelock, Acquire
<1>11. ASSUME NEW w \in Workers, Top(w) PROVE TypeOK'
  BY <1>11 DEF Top
<1>12. ASSUME NEW w \in Workers, Pop(w) PROVE TypeOK'
  <2>1. front' \in Sockets \union {Nobody}
    BY <1>12 DEF Pop, FrontsAfterPop, Maximal
  <2>. QED
    BY <1>12, <2>1 DEF Pop, Release, SignalClientRemoved
<1>13. ASSUME NEW w \in Workers, ClientQuit(w) PROVE TypeOK'
  BY <1>13 DEF ClientQuit
<1>14. ASSUME NEW w \in Workers, WorkerSpuriousWakeup(w) PROVE TypeOK'
  BY <1>14 DEF WorkerSpuriousWakeup
<1>15. ASSUME NEW s \in Sockets, HangUp(s) PROVE TypeOK'
  BY <1>15 DEF HangUp
<1>16. CASE UNCHANGED vars
  BY <1>16 DEF vars
<1>. QED
  BY <1>1, <1>2, <1>3, <1>4, <1>5, <1>6, <1>7, <1>8, <1>9, <1>10, <1>11,
     <1>12, <1>13, <1>14, <1>15, <1>16 DEF Next, MainStep, WorkerStep

(* A hand is filled by accept, or by top on a queue with a front.          *)
LEMMA HandsStep ==
  ASSUME IInv, [Next]_vars
  PROVE  HandsInv'
<1> USE NamesAssumption DEF IInv, TypeOK, HandsInv, MainPlaces, WorkerPlaces, TakeIsDefined
<1>1. CASE Accept
  BY <1>1 DEF Accept
<1>2. CASE AcceptFails
  BY <1>2 DEF AcceptFails, vars
<1>3. CASE MainLock
  BY <1>3 DEF MainLock, Acquire
<1>4. CASE CheckQueueSize
  BY <1>4 DEF CheckQueueSize, Release
<1>5. CASE MainRelock
  BY <1>5 DEF MainRelock, Acquire
<1>6. CASE AddClient
  BY <1>6 DEF AddClient, SignalClientAdded, Release, Emplace, Waiting
<1>7. CASE MainSpuriousWakeup
  BY <1>7 DEF MainSpuriousWakeup
<1>8. ASSUME NEW w \in Workers, WorkerLock(w) PROVE HandsInv'
  BY <1>8 DEF WorkerLock, Acquire
<1>9. ASSUME NEW w \in Workers, TestEmpty(w) PROVE HandsInv'
  BY <1>9 DEF TestEmpty, Release
<1>10. ASSUME NEW w \in Workers, WorkerRelock(w) PROVE HandsInv'
  BY <1>10 DEF WorkerRelock, Acquire
<1>11. ASSUME NEW w \in Workers, Top(w) PROVE HandsInv'
  BY <1>11 DEF Top
<1>12. ASSUME NEW w \in Workers, Pop(w) PROVE HandsInv'
  BY <1>12 DEF Pop, Release, SignalClientRemoved
<1>13. ASSUME NEW w \in Workers, ClientQuit(w) PROVE HandsInv'
  BY <1>13 DEF ClientQuit
<1>14. ASSUME NEW w \in Workers, WorkerSpuriousWakeup(w) PROVE HandsInv'
  BY <1>14 DEF WorkerSpuriousWakeup
<1>15. ASSUME NEW s \in Sockets, HangUp(s) PROVE HandsInv'
  BY <1>15 DEF HangUp
<1>16. CASE UNCHANGED vars
  BY <1>16 DEF vars
<1>. QED
  BY <1>1, <1>2, <1>3, <1>4, <1>5, <1>6, <1>7, <1>8, <1>9, <1>10, <1>11,
     <1>12, <1>13, <1>14, <1>15, <1>16 DEF Next, MainStep, WorkerStep

(* The mutex is taken free and given back by its owner only.               *)
LEMMA MutexStep ==
  ASSUME IInv, [Next]_vars
  PROVE  MutexInv'
<1> USE NamesAssumption DEF IInv, TypeOK, MutexInv, MainPlaces, WorkerPlaces
<1>1. CASE Accept
  BY <1>1 DEF Accept
<1>2. CASE AcceptFails
  BY <1>2 DEF AcceptFails, vars
<1>3. CASE MainLock
  BY <1>3 DEF MainLock, Acquire
<1>4. CASE CheckQueueSize
  BY <1>4 DEF CheckQueueSize, Release
<1>5. CASE MainRelock
  BY <1>5 DEF MainRelock, Acquire
<1>6. CASE AddClient
  BY <1>6 DEF AddClient, SignalClientAdded, Release, Emplace, Waiting
<1>7. CASE MainSpuriousWakeup
  BY <1>7 DEF MainSpuriousWakeup
<1>8. ASSUME NEW w \in Workers, WorkerLock(w) PROVE MutexInv'
  BY <1>8 DEF WorkerLock, Acquire
<1>9. ASSUME NEW w \in Workers, TestEmpty(w) PROVE MutexInv'
  BY <1>9 DEF TestEmpty, Release
<1>10. ASSUME NEW w \in Workers, WorkerRelock(w) PROVE MutexInv'
  BY <1>10 DEF WorkerRelock, Acquire
<1>11. ASSUME NEW w \in Workers, Top(w) PROVE MutexInv'
  BY <1>11 DEF Top
<1>12. ASSUME NEW w \in Workers, Pop(w) PROVE MutexInv'
  BY <1>12 DEF Pop, Release, SignalClientRemoved
<1>13. ASSUME NEW w \in Workers, ClientQuit(w) PROVE MutexInv'
  BY <1>13 DEF ClientQuit
<1>14. ASSUME NEW w \in Workers, WorkerSpuriousWakeup(w) PROVE MutexInv'
  BY <1>14 DEF WorkerSpuriousWakeup
<1>15. ASSUME NEW s \in Sockets, HangUp(s) PROVE MutexInv'
  BY <1>15 DEF HangUp
<1>16. CASE UNCHANGED vars
  BY <1>16 DEF vars
<1>. QED
  BY <1>1, <1>2, <1>3, <1>4, <1>5, <1>6, <1>7, <1>8, <1>9, <1>10, <1>11,
     <1>12, <1>13, <1>14, <1>15, <1>16 DEF Next, MainStep, WorkerStep

(* emplace and pop leave a maximal entry in front.                         *)
LEMMA FrontStep ==
  ASSUME IInv, [Next]_vars
  PROVE  FrontInv'
<1> USE NamesAssumption DEF IInv, TypeOK, FrontInv, Maximal
<1>1. CASE Accept
  BY <1>1 DEF Accept
<1>2. CASE AcceptFails
  BY <1>2 DEF AcceptFails, vars
<1>3. CASE MainLock
  BY <1>3 DEF MainLock, Acquire
<1>4. CASE CheckQueueSize
  BY <1>4 DEF CheckQueueSize, Release
<1>5. CASE MainRelock
  BY <1>5 DEF MainRelock, Acquire
<1>6. CASE AddClient
  <2>1. client_socket \in Sockets \ worker_queue
    BY <1>6 DEF AddClient, HandsInv, ClientPlacedOnce, InMainsHand
  <2>2. PICK p \in Priorities : Emplace(client_socket, p)
    BY <1>6 DEF AddClient
  <2>3. p \in Nat /\ \A s \in Sockets : priority[s] \in Nat
    <3>1. Priorities \union {0} \subseteq Nat
      BY PrioritiesAssumption
    <3>2. \A s \in Sockets : priority[s] \in Priorities \union {0}
      OBVIOUS
    <3>. QED
      BY <3>1, <3>2
  <2>4. /\ worker_queue' = worker_queue \union {client_socket}
        /\ priority' = [priority EXCEPT ![client_socket] = p]
        /\ front' = FrontAfterEmplace(client_socket, p)
    BY <2>2 DEF Emplace
  <2>5. \A s \in worker_queue : priority'[s] = priority[s]
    BY <2>1, <2>4
  <2>6. priority'[client_socket] = p
    BY <2>1, <2>4
  <2>7. CASE worker_queue = {}
    BY <2>1, <2>3, <2>4, <2>6, <2>7 DEF FrontAfterEmplace
  <2>8. CASE worker_queue # {}
    <3>1. /\ front \in worker_queue
          /\ front # Nobody
          /\ \A t \in worker_queue : priority[t] <= priority[front]
      BY <2>8
    <3>2. CASE priority[front] >= p
      <4>1. front' = front
        BY <2>4, <3>1, <3>2 DEF FrontAfterEmplace
      <4>2. \A t \in worker_queue' : priority'[t] <= priority'[front]
        BY <2>1, <2>3, <2>4, <2>5, <2>6, <3>1, <3>2
      <4>. QED
        BY <2>4, <3>1, <4>1, <4>2
    <3>3. CASE ~(priority[front] >= p)
      <4>1. front' = client_socket
        BY <2>4, <3>1, <3>3 DEF FrontAfterEmplace
      <4>2. \A t \in worker_queue' : priority'[t] <= priority'[client_socket]
        BY <2>1, <2>3, <2>4, <2>5, <2>6, <3>1, <3>3
      <4>. QED
        BY <2>4, <4>1, <4>2
    <3>. QED
      BY <3>2, <3>3
  <2>. QED
    BY <2>7, <2>8
<1>7. CASE MainSpuriousWakeup
  BY <1>7 DEF MainSpuriousWakeup
<1>8. ASSUME NEW w \in Workers, WorkerLock(w) PROVE FrontInv'
  BY <1>8 DEF WorkerLock, Acquire
<1>9. ASSUME NEW w \in Workers, TestEmpty(w) PROVE FrontInv'
  BY <1>9 DEF TestEmpty, Release
<1>10. ASSUME NEW w \in Workers, WorkerRelock(w) PROVE FrontInv'
  BY <1>10 DEF WorkerRelock, Acquire
<1>11. ASSUME NEW w \in Workers, Top(w) PROVE FrontInv'
  BY <1>11 DEF Top
<1>12. ASSUME NEW w \in Workers, Pop(w) PROVE FrontInv'
  <2>1. front' \in FrontsAfterPop /\ priority' = priority
    BY <1>12 DEF Pop
  <2>2. worker_queue' = worker_queue \ {front}
    BY <1>12 DEF Pop
  <2>. QED
    BY <2>1, <2>2 DEF FrontsAfterPop
<1>13. ASSUME NEW w \in Workers, ClientQuit(w) PROVE FrontInv'
  BY <1>13 DEF ClientQuit
<1>14. ASSUME NEW w \in Workers, WorkerSpuriousWakeup(w) PROVE FrontInv'
  BY <1>14 DEF WorkerSpuriousWakeup
<1>15. ASSUME NEW s \in Sockets, HangUp(s) PROVE FrontInv'
  BY <1>15 DEF HangUp
<1>16. CASE UNCHANGED vars
  BY <1>16 DEF vars
<1>. QED
  BY <1>1, <1>2, <1>3, <1>4, <1>5, <1>6, <1>7, <1>8, <1>9, <1>10, <1>11,
     <1>12, <1>13, <1>14, <1>15, <1>16 DEF Next, MainStep, WorkerStep

(* Nobody touches the queue between the test, top and pop of a worker.     *)
LEMMA TakeStep ==
  ASSUME IInv, [Next]_vars
  PROVE  TakeIsDefined'
<1> USE NamesAssumption DEF IInv, TypeOK, MutexInv, MainPlaces, WorkerPlaces, TakeIsDefined
<1>1. CASE Accept
  BY <1>1 DEF Accept
<1>2. CASE AcceptFails
  BY <1>2 DEF AcceptFails, vars
<1>3. CASE MainLock
  BY <1>3 DEF MainLock, Acquire
<1>4. CASE CheckQueueSize
  BY <1>4 DEF CheckQueueSize, Release
<1>5. CASE MainRelock
  BY <1>5 DEF MainRelock, Acquire
<1>6. CASE AddClient
  BY <1>6 DEF AddClient, SignalClientAdded, Release, Emplace, Waiting
<1>7. CASE MainSpuriousWakeup
  BY <1>7 DEF MainSpuriousWakeup
<1>8. ASSUME NEW w \in Workers, WorkerLock(w) PROVE TakeIsDefined'
  BY <1>8 DEF WorkerLock, Acquire
<1>9. ASSUME NEW w \in Workers, TestEmpty(w) PROVE TakeIsDefined'
  BY <1>9 DEF TestEmpty, Release, FrontInv, Maximal
<1>10. ASSUME NEW w \in Workers, WorkerRelock(w) PROVE TakeIsDefined'
  BY <1>10 DEF WorkerRelock, Acquire
<1>11. ASSUME NEW w \in Workers, Top(w) PROVE TakeIsDefined'
  BY <1>11 DEF Top
<1>12. ASSUME NEW w \in Workers, Pop(w) PROVE TakeIsDefined'
  BY <1>12 DEF Pop, Release, SignalClientRemoved
<1>13. ASSUME NEW w \in Workers, ClientQuit(w) PROVE TakeIsDefined'
  BY <1>13 DEF ClientQuit
<1>14. ASSUME NEW w \in Workers, WorkerSpuriousWakeup(w) PROVE TakeIsDefined'
  BY <1>14 DEF WorkerSpuriousWakeup
<1>15. ASSUME NEW s \in Sockets, HangUp(s) PROVE TakeIsDefined'
  BY <1>15 DEF HangUp
<1>16. CASE UNCHANGED vars
  BY <1>16 DEF vars
<1>. QED
  BY <1>1, <1>2, <1>3, <1>4, <1>5, <1>6, <1>7, <1>8, <1>9, <1>10, <1>11,
     <1>12, <1>13, <1>14, <1>15, <1>16 DEF Next, MainStep, WorkerStep

(* A client moves from one place to the next and is never in two.          *)
LEMMA PlacedStep ==
  ASSUME IInv, [Next]_vars
  PROVE  ClientPlacedOnce'
<1> USE NamesAssumption DEF IInv, TypeOK, ClientPlacedOnce, InMainsHand, InWorkersHand
<1>1. CASE Accept
  BY <1>1 DEF Accept
<1>2. CASE AcceptFails
  BY <1>2 DEF AcceptFails, vars
<1>3. CASE MainLock
  BY <1>3 DEF MainLock, Acquire
<1>4. CASE CheckQueueSize
  BY <1>4 DEF CheckQueueSize, Release
<1>5. CASE MainRelock
  BY <1>5 DEF MainRelock, Acquire
<1>6. CASE AddClient
  BY <1>6 DEF AddClient, SignalClientAdded, Release, Emplace, Waiting
<1>7. CASE MainSpuriousWakeup
  BY <1>7 DEF MainSpuriousWakeup
<1>8. ASSUME NEW w \in Workers, WorkerLock(w) PROVE ClientPlacedOnce'
  BY <1>8 DEF WorkerLock, Acquire
<1>9. ASSUME NEW w \in Workers, TestEmpty(w) PROVE ClientPlacedOnce'
  BY <1>9 DEF TestEmpty, Release
<1>10. ASSUME NEW w \in Workers, WorkerRelock(w) PROVE ClientPlacedOnce'
  BY <1>10 DEF WorkerRelock, Acquire
<1>11. ASSUME NEW w \in Workers, Top(w) PROVE ClientPlacedOnce'
  BY <1>11 DEF Top
<1>12. ASSUME NEW w \in Workers, Pop(w) PROVE ClientPlacedOnce'
  <2>1. front \in worker_queue /\ current_client_socket[w] = front
    BY <1>12 DEF Pop, FrontInv, Maximal, TakeIsDefined
  <2>. QED
    BY <1>12, <2>1 DEF Pop, SignalClientRemoved
<1>13. ASSUME NEW w \in Workers, ClientQuit(w) PROVE ClientPlacedOnce'
  BY <1>13 DEF ClientQuit
<1>14. ASSUME NEW w \in Workers, WorkerSpuriousWakeup(w) PROVE ClientPlacedOnce'
  BY <1>14 DEF WorkerSpuriousWakeup
<1>15. ASSUME NEW s \in Sockets, HangUp(s) PROVE ClientPlacedOnce'
  BY <1>15 DEF HangUp
<1>16. CASE UNCHANGED vars
  BY <1>16 DEF vars
<1>. QED
  BY <1>1, <1>2, <1>3, <1>4, <1>5, <1>6, <1>7, <1>8, <1>9, <1>10, <1>11,
     <1>12, <1>13, <1>14, <1>15, <1>16 DEF Next, MainStep, WorkerStep

(* Every step of main, of a worker or of a client keeps the invariant.     *)
LEMMA Inductive == IInv /\ [Next]_vars => IInv'
  BY TypeStep, HandsStep, MutexStep, FrontStep, TakeStep, PlacedStep DEF IInv

(* Every reachable state satisfies the inductive invariant.                *)
THEOREM Invariance == Spec => []IInv
  BY InitEstablishes, Inductive, PTL DEF Spec

(* The variables keep their types: only sockets are queued and served.     *)
THEOREM TypeCorrect == Spec => []TypeOK
  BY Invariance, PTL DEF IInv

(* The queue and its neighbours are touched under worker_mutex only.       *)
THEOREM MutualExclusion == Spec => []MutexInv
  BY Invariance, PTL DEF IInv

(* No worker calls top() or pop() on an empty queue, and none pops another *)
(* client than the one it has read.                                        *)
THEOREM TakesAreDefined == Spec => []TakeIsDefined
  BY Invariance, PTL DEF IInv

(* No accepted client is lost, duplicated or handed to two workers.        *)
THEOREM ClientsPlacedOnce == Spec => []ClientPlacedOnce
  BY Invariance, PTL DEF IInv

-----------------------------------------------------------------------------
(* The size of the queue.                                                  *)

(* The queue is a finite set of sockets, its size a number.                *)
LEMMA QueueIsFinite ==
  ASSUME TypeOK
  PROVE  IsFiniteSet(worker_queue) /\ Cardinality(worker_queue) \in Nat
  BY SocketsAssumption, FS_Subset, FS_CardinalityType DEF TypeOK

(* A pop makes room for one client.                                        *)
LEMMA PopShrinks ==
  ASSUME IInv, NEW w \in Workers, Pop(w)
  PROVE  /\ front \in worker_queue
         /\ worker_queue' = worker_queue \ {front}
         /\ Cardinality(worker_queue') = Cardinality(worker_queue) - 1
<1>1. front \in worker_queue
  BY DEF Pop, IInv, TakeIsDefined, FrontInv, Maximal
<1>2. worker_queue' = worker_queue \ {front}
  BY DEF Pop
<1>. QED
  BY <1>1, <1>2, QueueIsFinite, FS_RemoveElement DEF IInv

(* emplace adds one client.                                                *)
LEMMA EmplaceGrows ==
  ASSUME IInv, AddClient
  PROVE  Cardinality(worker_queue') = Cardinality(worker_queue) + 1
<1>1. client_socket \notin worker_queue
  BY DEF AddClient, IInv, HandsInv, ClientPlacedOnce, InMainsHand
<1>2. worker_queue' = worker_queue \union {client_socket}
  BY DEF AddClient, Emplace
<1>. QED
  BY <1>1, <1>2, QueueIsFinite, FS_AddElement DEF IInv

(* Every other step leaves the queue as it is.                             *)
LEMMA QueueUntouched ==
  ASSUME [Next]_vars, ~AddClient, \A w \in Workers : ~Pop(w)
  PROVE  worker_queue' = worker_queue
  BY DEF Next, MainStep, WorkerStep, vars, Accept, AcceptFails, MainLock,
         CheckQueueSize, MainRelock, MainSpuriousWakeup, WorkerLock, TestEmpty,
         WorkerRelock, Top, ClientQuit, WorkerSpuriousWakeup, HangUp

(* main goes to push from a queue with room, or woken by a worker.         *)
LEMMA MainMoves ==
  ASSUME TypeOK, [Next]_vars, ~AddClient, \A w \in Workers : ~Pop(w)
  PROVE  /\ main_pc' = "relock" => main_pc = "relock" \/ SpuriousWakeups
         /\ main_pc' = "push" =>
              main_pc \in {"push", "relock"} \/ (main_pc = "check" /\ ~QueueFull)
         /\ main_pc' = "waiting" =>
              main_pc = "waiting" \/ (main_pc = "check" /\ QueueFull)
  BY DEF Next, MainStep, WorkerStep, vars, Accept, AcceptFails, MainLock,
         CheckQueueSize, MainRelock, MainSpuriousWakeup, WorkerLock, TestEmpty,
         WorkerRelock, Top, ClientQuit, WorkerSpuriousWakeup, HangUp

(* A step leaves room for the client main is about to queue: the worker    *)
(* that wakes main has taken one.                                          *)
LEMMA RoomStep == IInv /\ RoomInv /\ [Next]_vars => RoomInv'
<1> SUFFICES ASSUME IInv, RoomInv, [Next]_vars, ~SpuriousWakeups
             PROVE  /\ QueueBound'
                    /\ main_pc' \in {"relock", "push"} =>
                         Cardinality(worker_queue') < MaxWorkerQueueSize
  BY DEF RoomInv
<1> USE QueueSizeAssumption, QueueIsFinite DEF QueueBound, RoomInv, IInv
<1>1. CASE AddClient
  <2>1. main_pc = "push" /\ main_pc' = "accept"
    BY <1>1 DEF AddClient
  <2>. QED
    BY <1>1, <2>1, EmplaceGrows
<1>2. ASSUME NEW w \in Workers, Pop(w)
      PROVE  QueueBound' /\ Cardinality(worker_queue') < MaxWorkerQueueSize
  BY <1>2, PopShrinks
<1>3. CASE ~AddClient /\ \A w \in Workers : ~Pop(w)
  <2>1. worker_queue' = worker_queue
    BY <1>3, QueueUntouched
  <2>2. Cardinality(worker_queue) \in Nat /\ MaxWorkerQueueSize \in Nat
    OBVIOUS
  <2>3. /\ main_pc' = "relock" => main_pc = "relock"
        /\ main_pc' = "push" =>
             main_pc \in {"push", "relock"} \/ (main_pc = "check" /\ ~QueueFull)
    BY <1>3, MainMoves
  <2>4. /\ Cardinality(worker_queue) <= MaxWorkerQueueSize
        /\ main_pc \in {"relock", "push"} =>
             Cardinality(worker_queue) < MaxWorkerQueueSize
    OBVIOUS
  <2>5. ~QueueFull => Cardinality(worker_queue) < MaxWorkerQueueSize
    BY <2>2 DEF QueueFull
  <2>. HIDE DEF RoomInv, IInv, QueueBound
  <2>6. QueueBound'
    BY <2>1, <2>4 DEF QueueBound
  <2>. QED
    BY <2>1, <2>3, <2>4, <2>5, <2>6
<1>. QED
  BY <1>1, <1>2, <1>3

(* Without spurious wakeups the queue never exceeds MAX_WORKER_QUEUE_SIZE, *)
(* although main tests its size with an if.                                *)
THEOREM QueueBounded ==
  ASSUME ~SpuriousWakeups
  PROVE  Spec => []QueueBound
<1>1. Init => RoomInv
  BY FS_EmptySet, QueueSizeAssumption DEF Init, RoomInv, QueueBound
<1>2. RoomInv => QueueBound
  BY DEF RoomInv
<1>. QED
  BY <1>1, <1>2, Invariance, RoomStep, PTL DEF Spec

(* main sleeps on client_removed only while the queue is full: a pop wakes *)
(* it, and nobody but main fills the queue.                                *)
THEOREM MainSleepsWhenFull == Spec => []MainSleepsOnlyWhenFull
<1>1. Init => MainSleepsOnlyWhenFull
  BY DEF Init, MainSleepsOnlyWhenFull
<1>2. IInv /\ MainSleepsOnlyWhenFull /\ [Next]_vars => MainSleepsOnlyWhenFull'
  <2> SUFFICES ASSUME IInv, MainSleepsOnlyWhenFull, [Next]_vars
               PROVE  MainSleepsOnlyWhenFull'
    OBVIOUS
  <2>1. CASE AddClient
    BY <2>1 DEF AddClient, MainSleepsOnlyWhenFull
  <2>2. ASSUME NEW w \in Workers, Pop(w) PROVE MainSleepsOnlyWhenFull'
    BY <2>2 DEF Pop, SignalClientRemoved, MainSleepsOnlyWhenFull
  <2>3. CASE ~AddClient /\ \A w \in Workers : ~Pop(w)
    BY <2>3, QueueUntouched, MainMoves
       DEF MainSleepsOnlyWhenFull, QueueFull, IInv
  <2>. QED
    BY <2>1, <2>2, <2>3
<1>. QED
  BY <1>1, <1>2, Invariance, PTL DEF Spec

-----------------------------------------------------------------------------
(* No worker sleeps through a client: main signals one worker per client.  *)

(* The awake workers can be counted.                                       *)
LEMMA WorkersAreFinite ==
  /\ IsFiniteSet(OnTheWay) /\ Cardinality(OnTheWay) \in Nat
  /\ IsFiniteSet(OnTheWay') /\ Cardinality(OnTheWay') \in Nat
<1>1. OnTheWay \in SUBSET Workers /\ OnTheWay' \in SUBSET Workers
  BY DEF OnTheWay
<1>. QED
  BY <1>1, WorkersAssumption, FS_Subset, FS_CardinalityType

(* A step that keeps the queue, wakes workers and puts none to sleep.      *)
LEMMA MoreAwake ==
  ASSUME NoWorkerSleepsThroughClient, TypeOK, worker_queue' = worker_queue,
         Waiting' \in SUBSET Waiting, OnTheWay \in SUBSET OnTheWay'
  PROVE  NoWorkerSleepsThroughClient'
<1>1. Cardinality(OnTheWay) <= Cardinality(OnTheWay')
  BY WorkersAreFinite, FS_Subset
<1>2. Cardinality(worker_queue) \in Nat
  BY QueueIsFinite
<1>. QED
  BY <1>1, <1>2, WorkersAreFinite DEF NoWorkerSleepsThroughClient

(* A new client wakes a worker, a taken client takes one along.            *)
LEMMA AwakeStep ==
  IInv /\ NoWorkerSleepsThroughClient /\ [Next]_vars
    => NoWorkerSleepsThroughClient'
<1> SUFFICES ASSUME IInv, NoWorkerSleepsThroughClient, [Next]_vars
             PROVE  NoWorkerSleepsThroughClient'
  OBVIOUS
<1>0. TypeOK /\ TypeOK'
  BY TypeStep DEF IInv
<1>1. CASE AddClient
  <2>1. CASE Waiting = {}
    BY <1>1, <2>1 DEF AddClient, SignalClientAdded, NoWorkerSleepsThroughClient,
                      Waiting
  <2>2. CASE Waiting # {}
    <3>1. PICK w \in Waiting : pc' = [pc EXCEPT ![w] = "relock"]
      BY <1>1, <2>2 DEF AddClient, SignalClientAdded
    <3>2. w \in Workers \ OnTheWay
      BY DEF Waiting, OnTheWay
    <3>3. OnTheWay' = OnTheWay \union {w}
      BY <1>0, <3>1, <3>2 DEF OnTheWay, TypeOK
    <3>4. Cardinality(OnTheWay') = Cardinality(OnTheWay) + 1
      BY <3>2, <3>3, WorkersAreFinite, FS_AddElement
    <3>5. Cardinality(worker_queue') = Cardinality(worker_queue) + 1
      BY <1>1, EmplaceGrows
    <3>6. Cardinality(worker_queue) \in Nat
      BY <1>0, QueueIsFinite
    <3>. QED
      BY <2>2, <3>4, <3>5, <3>6, WorkersAreFinite DEF NoWorkerSleepsThroughClient
  <2>. QED
    BY <2>1, <2>2
<1>2. ASSUME NEW w \in Workers, Pop(w) PROVE NoWorkerSleepsThroughClient'
  <2>1. w \in OnTheWay /\ OnTheWay' = OnTheWay \ {w} /\ Waiting' = Waiting
    BY <1>0, <1>2 DEF Pop, OnTheWay, Waiting, TypeOK
  <2>2. Cardinality(OnTheWay') = Cardinality(OnTheWay) - 1
    BY <2>1, WorkersAreFinite, FS_RemoveElement
  <2>3. Cardinality(worker_queue') = Cardinality(worker_queue) - 1
    BY <1>2, PopShrinks
  <2>4. Cardinality(worker_queue) \in Nat
    BY <1>0, QueueIsFinite
  <2>. QED
    BY <2>1, <2>2, <2>3, <2>4, WorkersAreFinite DEF NoWorkerSleepsThroughClient
<1>3. ASSUME NEW w \in Workers, TestEmpty(w) PROVE NoWorkerSleepsThroughClient'
  <2>0. worker_queue' = worker_queue
    BY <1>3 DEF TestEmpty
  <2>1. CASE worker_queue = {}
    BY <2>0, <2>1, FS_EmptySet, WorkersAreFinite DEF NoWorkerSleepsThroughClient
  <2>2. CASE worker_queue # {}
    <3>1. pc' = [pc EXCEPT ![w] = "top"] /\ pc[w] = "test"
      BY <1>3, <2>2 DEF TestEmpty
    <3>2. Waiting' = Waiting /\ OnTheWay' = OnTheWay
      BY <1>0, <3>1 DEF Waiting, OnTheWay, TypeOK
    <3>. QED
      BY <1>0, <2>0, <3>2, MoreAwake
  <2>. QED
    BY <2>1, <2>2
<1>4. CASE /\ ~AddClient
           /\ \A w \in Workers : ~Pop(w) /\ ~TestEmpty(w)
  <2>1. worker_queue' = worker_queue
    BY <1>4, QueueUntouched
  <2>2. Waiting' \in SUBSET Waiting /\ OnTheWay \in SUBSET OnTheWay'
    BY <1>0, <1>4
       DEF TypeOK, Waiting, OnTheWay, Next, MainStep, WorkerStep, vars, Accept,
           AcceptFails, MainLock, CheckQueueSize, MainRelock,
           MainSpuriousWakeup, WorkerLock, WorkerRelock, Top, ClientQuit,
           WorkerSpuriousWakeup, HangUp
  <2>. QED
    BY <1>0, <2>1, <2>2, MoreAwake
<1>. QED
  BY <1>1, <1>2, <1>3, <1>4

(* While a worker sleeps, every queued client has a worker on its way.     *)
THEOREM NoSleepingWorker == Spec => []NoWorkerSleepsThroughClient
<1>1. Init => NoWorkerSleepsThroughClient
  BY FS_EmptySet, WorkersAreFinite DEF Init, NoWorkerSleepsThroughClient
<1>. QED
  BY <1>1, Invariance, AwakeStep, PTL DEF Spec

-----------------------------------------------------------------------------
(* The server as its clients see it.                                       *)

(* The clients in service are those of distinct workers: a worker that is  *)
(* not serving leaves a place.                                             *)
LEMMA FreeServer ==
  ASSUME NEW w \in Workers, pc[w] # "serve"
  PROVE  /\ IsFiniteSet(Serving)
         /\ Cardinality(Serving) < Cardinality(Workers)
<1> DEFINE Others == Workers \ {w}
           Taken == {current_client_socket[v] : v \in Others}
<1>1. IsFiniteSet(Others) /\ Cardinality(Others) = Cardinality(Workers) - 1
  BY WorkersAssumption, FS_RemoveElement
<1>2. Cardinality(Workers) \in Nat /\ Cardinality(Others) \in Nat
  BY <1>1, WorkersAssumption, FS_CardinalityType
<1>3. IsFiniteSet(Taken) /\ Cardinality(Taken) <= Cardinality(Others)
  <2> DEFINE f == [v \in Others |-> current_client_socket[v]]
  <2>1. f \in Surjection(Others, Taken)
    BY DEF Surjection
  <2> HIDE DEF f, Others, Taken
  <2>. QED BY <1>1, <2>1, FS_Surjection
<1>4. Cardinality(Taken) \in Nat
  BY <1>3, FS_CardinalityType
<1>5. Serving \in SUBSET Taken
  BY DEF Serving, InWorkersHand
<1>6. IsFiniteSet(Serving) /\ Cardinality(Serving) <= Cardinality(Taken)
  <2> HIDE DEF Taken
  <2>. QED BY <1>3, <1>5, FS_Subset
<1>7. Cardinality(Serving) \in Nat
  BY <1>6, FS_CardinalityType
<1> HIDE DEF Others, Taken
<1>. QED
  BY <1>1, <1>2, <1>3, <1>4, <1>6, <1>7

(* ClientService counts with the Cardinality of its own FiniteSets.        *)
LEMMA SameCardinality ==
  ASSUME NEW S
  PROVE  Service!Cardinality(S) = Cardinality(S)
  BY DEF Service!Cardinality, Cardinality

(* A step of the server is an arrival (emplace), a begin (pop), an end     *)
(* (the client quit) or nothing a client sees.                             *)
LEMMA ServiceStep ==
  ASSUME IInv, RoomInv, ~SpuriousWakeups, [Next]_vars
  PROVE  [Service!Next]_(Service!vars)
<1>0. TypeOK /\ TypeOK'
  BY TypeStep DEF IInv
<1>1. CASE AddClient
  <2>1. /\ client_socket \in Sockets
        /\ InMainsHand(client_socket)
    BY <1>1 DEF AddClient, IInv, HandsInv, InMainsHand
  <2>2. client_socket \notin worker_queue \union Serving \union quit
    BY <2>1 DEF IInv, ClientPlacedOnce, Serving
  <2>3. Cardinality(worker_queue) < MaxWorkerQueueSize
    BY <1>1 DEF RoomInv, AddClient
  <2>4. Serving' = Serving
    BY <1>0, <1>1 DEF AddClient, SignalClientAdded, Serving, InWorkersHand,
                      TypeOK, Waiting
  <2>5. /\ worker_queue' = worker_queue \union {client_socket}
        /\ \E p \in Priorities : priority' = [priority EXCEPT ![client_socket] = p]
        /\ quit' = quit
    BY <1>1 DEF AddClient, Emplace
  <2>6. Service!Arrive(client_socket)
    BY <2>2, <2>3, <2>4, <2>5, SameCardinality DEF Service!Arrive
  <2>. QED
    BY <2>1, <2>6 DEF Service!Next
<1>2. ASSUME NEW w \in Workers, Pop(w) PROVE [Service!Next]_(Service!vars)
  <2>1. /\ front \in worker_queue
        /\ current_client_socket[w] = front
        /\ \A t \in worker_queue : priority[t] <= priority[front]
    BY <1>2, PopShrinks DEF IInv, FrontInv, Maximal, Pop, TakeIsDefined
  <2>2. front \in Sockets
    BY <1>0, <2>1 DEF TypeOK
  <2>3. Cardinality(Serving) < Cardinality(Workers)
    BY <1>2, FreeServer DEF Pop
  <2>4. Serving' = Serving \union {front}
    BY <1>0, <1>2, <2>1, <2>2 DEF Pop, Serving, InWorkersHand, TypeOK
  <2>5. Service!Begin(front)
    BY <1>2, <2>1, <2>3, <2>4, SameCardinality DEF Service!Begin, Pop
  <2>. QED
    BY <2>2, <2>5 DEF Service!Next
<1>3. ASSUME NEW w \in Workers, ClientQuit(w) PROVE [Service!Next]_(Service!vars)
  <2> DEFINE s == current_client_socket[w]
  <2>1. s \in Sockets /\ InWorkersHand(w, s)
    BY <1>3 DEF ClientQuit, IInv, HandsInv, InWorkersHand
  <2>2. \A v \in Workers \ {w} : ~InWorkersHand(v, s)
    BY <2>1 DEF IInv, ClientPlacedOnce
  <2>3. Serving' = Serving \ {s}
    BY <1>0, <1>3, <2>1, <2>2 DEF ClientQuit, Serving, InWorkersHand, TypeOK
  <2>4. Service!End(s)
    BY <1>3, <2>1, <2>3 DEF Service!End, ClientQuit, Serving, queue_vars
  <2>. QED
    BY <2>1, <2>4 DEF Service!Next
<1>4. CASE /\ ~AddClient
           /\ \A w \in Workers : ~Pop(w) /\ ~ClientQuit(w)
  BY <1>0, <1>4
     DEF Service!vars, TypeOK, Serving, InWorkersHand, Next, MainStep,
         WorkerStep, vars, Accept, AcceptFails, MainLock, CheckQueueSize,
         MainRelock, MainSpuriousWakeup, WorkerLock, TestEmpty, WorkerRelock,
         Top, WorkerSpuriousWakeup, HangUp
<1>. QED
  BY <1>1, <1>2, <1>3, <1>4

(* The threads, the mutex and the signals implement the service, when no   *)
(* wakeup is spurious: bounded queue, most urgent first, once each.        *)
THEOREM Refinement ==
  ASSUME ~SpuriousWakeups
  PROVE  Spec => ImplementsService
<1>1. Init => Service!Init
  BY DEF Init, Service!Init, Serving, InWorkersHand
<1>2. Init => RoomInv
  BY FS_EmptySet, QueueSizeAssumption DEF Init, RoomInv, QueueBound
<1>. QED
  BY <1>1, <1>2, ServiceStep, Invariance, RoomStep, PTL
     DEF Spec, ImplementsService, Service!Spec
=============================================================================
