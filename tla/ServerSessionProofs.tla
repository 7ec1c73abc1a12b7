------------------------ MODULE ServerSessionProofs ------------------------
(***************************************************************************)
(* Proofs about ServerSession, for any number of workers, any buffer size, *)
(* any characters and removable characters, with and without line breaks;  *)
(* and that one worker and the logger, without a lock, keep the promise of *)
(* AnswerLog until they meet in the deque, not before its first map is     *)
(* full.                                                                   *)
(***************************************************************************)
EXTENDS ServerSession, SequenceTheorems, WellFoundedInduction, TLAPS

(* A worker that stores an answer has given one.                           *)
AnsweredInv ==
    \A w \in Workers : pc[w] # "read" => answered[w] \in 1..Messages

(* Once a worker has answered anybody its buffer is zero between messages, *)
(* and holds one message over zeros while that is answered.                *)
BufferInv ==
    \A w \in Workers : (answered[w] > 0 /\ ~left_over[w]) =>
       /\ (pc[w] = "read" /\ phase[w] \in {"accept", "read"}) => buff[w] = Zeros
       /\ phase[w] \in {"answer", "linebreak"} =>
             /\ Len(message[w]) \in 1..MAX_MSG_LENGTH
             /\ buff[w] = Strip(Overlay(Zeros, message[w]), Len(message[w]))

(* A client that has not left early has no message to be answered; it may  *)
(* only be written a line break, once.                                     *)
ClosedInv ==
    \A w \in Workers :
       /\ phase[w] = "accept" => connection[w] = "none"
       /\ (connection[w] \in {"closed", "reset"} /\ ~left_early[w]) =>
             stream[w] = <<>> /\ phase[w] # "answer"
       /\ (connection[w] = "broken" /\ ~left_early[w]) =>
             stream[w] = <<>> /\ phase[w] = "read"

(* The inductive invariant of the session.                                 *)
SessionInv == /\ SessionTypeOK /\ AnsweredInv /\ BufferInv /\ ClosedInv
              /\ OnlyLeavingEarlyKills

USE DEF worker_vars, logger_vars, end_vars, Goto

-----------------------------------------------------------------------------
(* The workers' half of server.cpp 79-122 and the logger of 161-194 keep   *)
(* the types of their variables.                                           *)
LEMMA LoggerTypeStep ==
  ASSUME TypeOK, AnsweredInv, [Next]_vars
  PROVE  TypeOK' /\ AnsweredInv'
<1> USE BoundsAssumption DEF TypeOK, AnsweredInv
<1>1. ASSUME NEW w \in Workers, Answer(w) PROVE TypeOK' /\ AnsweredInv'
  BY <1>1 DEF Answer
<1>2. ASSUME NEW w \in Workers, LoadFinish(w) PROVE TypeOK' /\ AnsweredInv'
  BY <1>2 DEF LoadFinish
<1>3. ASSUME NEW w \in Workers, ConstructWord(w)
      PROVE  TypeOK' /\ AnsweredInv'
  <2>1. <<w, answered[w]>> \in Fields
    BY <1>3 DEF ConstructWord, Fields
  <2>. QED
    BY <1>3, <2>1 DEF ConstructWord
<1>4. ASSUME NEW w \in Workers, ConstructResult(w)
      PROVE  TypeOK' /\ AnsweredInv'
  <2>1. <<w, answered[w]>> \in Fields
    BY <1>4 DEF ConstructResult, Fields
  <2>. QED
    BY <1>4, <2>1 DEF ConstructResult
<1>5. ASSUME NEW w \in Workers, LoadIncrement(w)
      PROVE  TypeOK' /\ AnsweredInv'
  BY <1>5 DEF LoadIncrement
<1>6. ASSUME NEW w \in Workers, StoreIncrement(w)
      PROVE  TypeOK' /\ AnsweredInv'
  BY <1>6 DEF StoreIncrement
<1>7. ASSUME NEW w \in Workers, SignalLogger(w)
      PROVE  TypeOK' /\ AnsweredInv'
  BY <1>7 DEF SignalLogger
<1>8. CASE TestEmpty \/ Wait \/ LeaveNode
  BY <1>8 DEF TestEmpty, Wait, LeaveNode
<1>9. CASE LogEntry
  <2>1. Unconstructed \in [word : Fields, result : Fields]
    BY DEF Unconstructed, Fields
  <2>2. memory[start] \in [word : Fields, result : Fields]
    OBVIOUS
  <2>3. log' \in Seq([word : Fields, result : Fields])
    <3>1. PICK e \in [word : Fields, result : Fields] : log' = Append(log, e)
      BY <1>9, <2>1, <2>2 DEF LogEntry
    <3>. QED
      BY <3>1, AppendProperties
  <2>. QED
    BY <1>9, <2>1, <2>3 DEF LogEntry
<1>10. CASE (\E w \in Workers : SkipEmptyMessage(w)) \/ UNCHANGED vars
  BY <1>10 DEF SkipEmptyMessage, vars
<1>11. ASSUME NEW w \in Workers, MoveMap(w) PROVE TypeOK' /\ AnsweredInv'
  <2>1. NodeOf(finish) \in Int /\ NodeOf(start) \in Int
    BY DequeAssumption DEF NodeOf
  <2>2. map_end' \in Int /\ map_size' \in Nat
    BY <1>11, <2>1 DEF MoveMap
  <2>. QED
    BY <1>11, <2>2 DEF MoveMap
<1>. QED
  BY <1>1, <1>2, <1>3, <1>4, <1>5, <1>6, <1>7, <1>8, <1>9, <1>10, <1>11
  DEF Next, WorkerStep, LoggerStep

-----------------------------------------------------------------------------
(* One worker: the end of the deque moves by its own increments alone, and *)
(* the slot behind the end takes the entry it constructs.                  *)
DequeInv(w) ==
    /\ finish = Published(w)
    /\ pc[w] \in {"move", "word", "result", "increment", "store"} =>
          slot[w] = finish
    /\ pc[w] = "result" => memory[finish].word = <<w, answered[w]>>
    /\ pc[w] \in {"increment", "store"} => memory[finish] = Entry(w, answered[w])
    /\ pc[w] = "store" => finish_register[w] = finish
    /\ start <= finish
    /\ logger_pc \in {"front", "leave"} => start < finish

(* The worker and the logger have not met while the map was moved.         *)
OneWorkerInv(w) == TypeOK /\ AnsweredInv /\ (raced \/ DequeInv(w))

(* The middle of the first map.                                            *)
LEMMA MiddleIsPlace ==
  /\ (MapPlaces - 1) \div 2 \in Int
  /\ MapPlaces \in Nat
BY DequeAssumption

(* Nothing is answered and nothing constructed at first.                   *)
LEMMA FirstTypes ==
  ASSUME Init
  PROVE  TypeOK /\ AnsweredInv
<1>1. /\ pc \in [Workers -> {"read", "load", "move", "word", "result",
                              "increment", "store", "signal"}]
      /\ answered \in [Workers -> 0..Messages]
      /\ slot \in [Workers -> Nat] /\ finish_register \in [Workers -> Nat]
  BY BoundsAssumption DEF Init
<1>2. memory \in [0..Slots -> [word : Fields, result : Fields]]
  BY DEF Init, Unconstructed, Fields
<1>3. /\ start \in 0..Slots /\ finish \in Nat
      /\ map_end \in Int /\ map_size \in Nat /\ raced \in BOOLEAN
      /\ logger_pc = "test"
  <2>1. /\ start = 0 /\ finish = 0 /\ logger_pc = "test" /\ raced = FALSE
        /\ map_end = (MapPlaces - 1) \div 2 /\ map_size = MapPlaces
    BY DEF Init
  <2>2. start \in 0..Slots /\ finish \in Nat
    BY <2>1, BoundsAssumption
  <2>3. map_end \in Int /\ map_size \in Nat
    BY <2>1, MiddleIsPlace
  <2>4. raced \in BOOLEAN
    BY <2>1
  <2>. QED
    BY <2>1, <2>2, <2>3, <2>4
<1>4. log \in Seq([word : Fields, result : Fields])
  BY DEF Init
<1>5. AnsweredInv
  BY DEF Init, AnsweredInv
<1>. QED
  BY <1>1, <1>2, <1>3, <1>4, <1>5 DEF TypeOK

(* The first state of server.cpp 79 and 163, whose deque is empty.         *)
LEMMA LoggerInit ==
  ASSUME NEW w, Workers = {w}, Init
  PROVE  OneWorkerInv(w) /\ Service!Init
<1>1. TypeOK /\ AnsweredInv
  BY FirstTypes
<1>2. DequeInv(w)
  BY DEF Init, DequeInv, Published
<1>3. Queue = <<>> /\ log = <<>> /\ raced = FALSE
  BY DEF Init, Queue
<1>. QED
  BY <1>1, <1>2, <1>3 DEF OneWorkerInv, Service!Init

(* A slot that the worker stores to is one of the deque's.                 *)
LEMMA SlotExists ==
  ASSUME NEW w, Workers = {w}, Messages <= Slots, OneWorkerInv(w), ~raced,
         pc[w] \in {"word", "result", "increment", "store"}
  PROVE  /\ finish \in 0..Slots /\ finish < Slots
         /\ memory[finish] \in [word : Fields, result : Fields]
<1>1. answered[w] \in 1..Messages /\ finish = answered[w] - 1
  BY DEF OneWorkerInv, AnsweredInv, DequeInv, Published
<1>. QED
  BY <1>1, BoundsAssumption DEF OneWorkerInv, TypeOK

(* Each step of the worker and of the logger keeps the deque in order.     *)
LEMMA DequeStep ==
  ASSUME NEW w, Workers = {w}, Messages <= Slots, OneWorkerInv(w), ~raced,
         [Next]_vars
  PROVE  DequeInv(w)'
<1> USE BoundsAssumption DEF OneWorkerInv, TypeOK, DequeInv, Published
<1>1. CASE Answer(w)
  BY <1>1 DEF Answer
<1>2. CASE LoadFinish(w)
  BY <1>2 DEF LoadFinish
<1>3. CASE ConstructWord(w)
  <2>1. memory'[finish].word = <<w, answered[w]>>
    BY <1>3, SlotExists DEF ConstructWord
  <2>. QED
    BY <1>3, <2>1 DEF ConstructWord
<1>4. CASE ConstructResult(w)
  <2>1. memory'[finish] = Entry(w, answered[w])
    BY <1>4, SlotExists DEF ConstructResult, Entry
  <2>. QED
    BY <1>4, <2>1 DEF ConstructResult
<1>5. CASE LoadIncrement(w)
  BY <1>5 DEF LoadIncrement
<1>6. CASE StoreIncrement(w)
  BY <1>6 DEF StoreIncrement
<1>7. CASE SignalLogger(w)
  BY <1>7 DEF SignalLogger
<1>8. CASE TestEmpty \/ Wait \/ LeaveNode
  BY <1>8 DEF TestEmpty, Wait, LeaveNode
<1>9. CASE LogEntry
  <2>1. start < finish /\ start' = start + 1 /\ logger_pc' = "test"
    BY <1>9 DEF LogEntry
  <2>2. UNCHANGED <<worker_vars, finish>>
    BY <1>9 DEF LogEntry
  <2>3. memory'[finish] = memory[finish]
    BY <1>9, <2>1 DEF LogEntry
  <2>. QED
    BY <2>1, <2>2, <2>3
<1>10. CASE SkipEmptyMessage(w) \/ UNCHANGED vars
  BY <1>10 DEF SkipEmptyMessage, vars
<1>11. CASE MoveMap(w)
  BY <1>11 DEF MoveMap
<1>. QED
  BY <1>1, <1>2, <1>3, <1>4, <1>5, <1>6, <1>7, <1>8, <1>9, <1>10, <1>11
  DEF Next, WorkerStep, LoggerStep

(* The slots of an array from a up to b as a sequence.                     *)
Slice(f, a, b) == [i \in 1..(b - a) |-> f[a + i - 1]]

LEMMA SliceIsSeq ==
  ASSUME NEW S, NEW f, NEW a \in Nat, NEW b \in Nat, a <= b,
         \A i \in a..(b - 1) : f[i] \in S
  PROVE  Slice(f, a, b) \in Seq(S)
<1>1. Slice(f, a, b) \in [1..(b - a) -> S] /\ b - a \in Nat
  BY DEF Slice
<1>. QED
  BY <1>1, SeqDef

(* An entry behind the end is appended by moving the end.                  *)
LEMMA SliceAppend ==
  ASSUME NEW f, NEW a \in Nat, NEW b \in Nat, a <= b
  PROVE  Slice(f, a, b + 1) = Append(Slice(f, a, b), f[b])
<1> DEFINE S == {f[i] : i \in a..b}
           q == Slice(f, a, b)
           s == Slice(f, a, b + 1)
           t == Append(q, f[b])
<1>1. q \in Seq(S) /\ Len(q) = b - a /\ \A i \in 1..(b - a) : q[i] = f[a + i - 1]
  <2>1. \A i \in a..(b - 1) : f[i] \in S
    OBVIOUS
  <2>2. q \in Seq(S)
    BY <2>1, SliceIsSeq
  <2>. QED
    BY <2>1, <2>2 DEF Slice
<1>2. /\ s \in Seq(S) /\ Len(s) = b + 1 - a
      /\ \A i \in 1..(b + 1 - a) : s[i] = f[a + i - 1]
  <2>1. s \in [1..(b + 1 - a) -> S] /\ b + 1 - a \in Nat
    BY DEF Slice
  <2>2. s \in Seq(S)
    BY <2>1, SeqDef
  <2>. QED
    BY <2>1, <2>2 DEF Slice
<1>3. f[b] \in S
  OBVIOUS
<1>. HIDE DEF S, q, s
<1>4. /\ t \in Seq(S) /\ Len(t) = Len(q) + 1 /\ t[Len(q) + 1] = f[b]
      /\ \A i \in 1..Len(q) : t[i] = q[i]
  BY <1>1, <1>3, AppendProperties
<1>. HIDE DEF t
<1>5. Len(s) = Len(t)
  BY <1>1, <1>2, <1>4
<1>6. \A i \in 1..Len(s) : s[i] = t[i]
  BY <1>1, <1>2, <1>4
<1>7. s = t
  BY <1>2, <1>4, <1>5, <1>6, SeqEqual
<1>. QED
  BY <1>7 DEF s, t, q

(* The oldest entry is removed by moving the start.                        *)
LEMMA SliceTail ==
  ASSUME NEW f, NEW a \in Nat, NEW b \in Nat, a < b
  PROVE  /\ Slice(f, a, b) # <<>> /\ Head(Slice(f, a, b)) = f[a]
         /\ Slice(f, a + 1, b) = Tail(Slice(f, a, b))
<1> DEFINE S == {f[i] : i \in a..b}
           q == Slice(f, a, b)
           s == Slice(f, a + 1, b)
<1>1. q \in Seq(S) /\ Len(q) = b - a /\ \A i \in 1..(b - a) : q[i] = f[a + i - 1]
  <2>1. a <= b /\ \A i \in a..(b - 1) : f[i] \in S
    OBVIOUS
  <2>2. q \in Seq(S)
    BY <2>1, SliceIsSeq
  <2>. QED
    BY <2>1, <2>2 DEF Slice
<1>2. /\ s \in Seq(S) /\ Len(s) = b - (a + 1)
      /\ \A i \in 1..(b - (a + 1)) : s[i] = f[a + 1 + i - 1]
  <2>1. a + 1 \in Nat /\ a + 1 <= b /\ \A i \in (a + 1)..(b - 1) : f[i] \in S
    OBVIOUS
  <2>2. s \in Seq(S)
    BY <2>1, SliceIsSeq
  <2>. QED
    BY <2>1, <2>2 DEF Slice
<1>. HIDE DEF S, q, s
<1>3. q # <<>> /\ Head(q) = f[a]
  BY <1>1
<1>4. /\ Tail(q) \in Seq(S) /\ Len(Tail(q)) = Len(q) - 1
      /\ \A i \in 1..Len(Tail(q)) : Tail(q)[i] = q[i + 1]
  BY <1>1, <1>3, HeadTailProperties
<1>5. Len(s) = Len(Tail(q))
  BY <1>1, <1>2, <1>4
<1>6. \A i \in 1..Len(s) : s[i] = Tail(q)[i]
  BY <1>1, <1>2, <1>4
<1>7. s = Tail(q)
  BY <1>2, <1>4, <1>5, <1>6, SeqEqual
<1>. QED
  BY <1>3, <1>7 DEF q, s

(* Pointers that do not fit together never do again.                       *)
LEMMA RacedStays ==
  ASSUME TypeOK, [Next]_vars, raced
  PROVE  raced'
BY DEF TypeOK, Next, WorkerStep, LoggerStep, vars, Answer, SkipEmptyMessage,
       LoadFinish, MoveMap, ConstructWord, ConstructResult, LoadIncrement,
       StoreIncrement, SignalLogger, TestEmpty, Wait, LeaveNode, LogEntry

(* The deque is the queue of AnswerLog: the increment of finish stores the *)
(* entry, front and pop log the oldest, all else is a stutter.             *)
LEMMA RefinementStep ==
  ASSUME NEW w, Workers = {w}, Messages <= Slots, OneWorkerInv(w), [Next]_vars
  PROVE  [Service!Next]_(Service!vars)
<1>a. CASE raced'
  BY <1>a DEF Service!Next
<1>b. ~raced' => raced = FALSE /\ raced' = FALSE
  <2>1. TypeOK /\ TypeOK'
    BY LoggerTypeStep DEF OneWorkerInv
  <2>. QED
    BY <2>1, RacedStays DEF TypeOK
<1>. SUFFICES ASSUME raced = FALSE, raced' = FALSE
             PROVE  [Service!Next]_(Service!vars)
  BY <1>a, <1>b
<1> USE BoundsAssumption DEF OneWorkerInv, TypeOK, DequeInv
<1>0. /\ finish <= Slots /\ start <= finish /\ start \in Nat /\ finish \in Nat
  BY DEF Published
<1>1. CASE ConstructWord(w) \/ ConstructResult(w)
  <2>1. slot[w] = finish /\ UNCHANGED <<start, finish, log>>
    BY <1>1 DEF ConstructWord, ConstructResult
  <2>2. \A i \in 0..Slots : i # finish => memory'[i] = memory[i]
    BY <1>1, <2>1 DEF ConstructWord, ConstructResult
  <2>3. \A i \in 1..(finish - start) : memory'[start + i - 1] = memory[start + i - 1]
    BY <1>0, <2>2
  <2>. QED
    BY <2>1, <2>3 DEF Service!vars, Queue
<1>2. CASE StoreIncrement(w)
  <2>1. /\ finish' = finish + 1 /\ UNCHANGED <<start, memory, log>>
        /\ memory[finish] = Entry(w, answered[w])
    BY <1>2 DEF StoreIncrement
  <2>2. Queue' = Append(Queue, memory[finish])
    <3>1. Slice(memory, start, finish + 1)
            = Append(Slice(memory, start, finish), memory[finish])
      BY <1>0, SliceAppend
    <3>. QED
      BY <2>1, <3>1 DEF Queue, Slice
  <2>3. Entry(w, answered[w]) \in {Entry(v, n) : v \in Workers, n \in 1..Messages}
    BY <1>2 DEF StoreIncrement, AnsweredInv
  <2>. QED
    BY <2>1, <2>2, <2>3 DEF Service!Next, Service!Store
<1>3. CASE LogEntry
  <2>1. /\ start < finish /\ start' = start + 1 /\ UNCHANGED finish
        /\ log' = Append(log, memory[start])
        /\ \A i \in 0..Slots : i # start => memory'[i] = memory[i]
    BY <1>3 DEF LogEntry
  <2>2. /\ Slice(memory, start, finish) # <<>>
        /\ Head(Slice(memory, start, finish)) = memory[start]
        /\ Slice(memory, start + 1, finish) = Tail(Slice(memory, start, finish))
    <3>. HIDE DEF OneWorkerInv, TypeOK, DequeInv
    <3>1. start < finish
      BY <2>1
    <3>2. Slice(memory, start, finish) # <<>>
      BY <1>0, <3>1, SliceTail
    <3>3. Head(Slice(memory, start, finish)) = memory[start]
      BY <1>0, <3>1, SliceTail
    <3>4. Slice(memory, start + 1, finish) = Tail(Slice(memory, start, finish))
      BY <1>0, <3>1, SliceTail
    <3>. QED
      BY <3>2, <3>3, <3>4
  <2>3. Slice(memory', start + 1, finish) = Slice(memory, start + 1, finish)
    BY <1>0, <2>1 DEF Slice
  <2>4. /\ Queue = Slice(memory, start, finish)
        /\ Queue' = Slice(memory', start + 1, finish)
    BY <2>1 DEF Queue, Slice
  <2>. QED
    BY <2>1, <2>2, <2>3, <2>4 DEF Service!Next, Service!LogOldest
<1>4. CASE \/ Answer(w) \/ SkipEmptyMessage(w) \/ LoadFinish(w)
           \/ MoveMap(w) \/ LoadIncrement(w) \/ SignalLogger(w)
           \/ TestEmpty \/ Wait \/ LeaveNode \/ UNCHANGED vars
  BY <1>4 DEF Answer, SkipEmptyMessage, LoadFinish, MoveMap, LoadIncrement,
              SignalLogger, TestEmpty, Wait, LeaveNode, vars, Service!vars,
              Queue
<1>. QED
  BY <1>1, <1>2, <1>3, <1>4 DEF Next, WorkerStep, LoggerStep

-----------------------------------------------------------------------------
(* Slots are numbered node by node.                                        *)
LEMMA NextSlot ==
  ASSUME NEW s \in Nat
  PROVE  NodeOf(s + 1) = IF LastOfNode(s) THEN NodeOf(s) + 1 ELSE NodeOf(s)
<1> DEFINE q == s \div NodeSlots
           r == s % NodeSlots
<1>1. s = NodeSlots * q + r /\ r \in 0..(NodeSlots - 1) /\ q \in Nat
  BY DequeAssumption
<1>2. CASE LastOfNode(s)
  <2>1. s + 1 = NodeSlots * (q + 1)
    BY <1>1, <1>2, DequeAssumption DEF LastOfNode
  <2>2. (s + 1) \div NodeSlots = q + 1
    BY <1>1, <2>1, DequeAssumption
  <2>. QED
    BY <1>2, <2>2 DEF NodeOf
<1>3. CASE ~LastOfNode(s)
  <2>1. s + 1 = NodeSlots * q + (r + 1) /\ r + 1 \in 0..(NodeSlots - 1)
    BY <1>1, <1>3, DequeAssumption DEF LastOfNode
  <2>2. (s + 1) \div NodeSlots = q
    BY <1>1, <2>1, DequeAssumption
  <2>. QED
    BY <1>3, <2>2 DEF NodeOf
<1>. QED
  BY <1>2, <1>3

LEMMA LastSlot ==
  ASSUME NEW s \in Nat, LastOfNode(s), NEW k \in Int, NodeOf(s) >= k - 1
  PROVE  s + 1 >= k * NodeSlots
<1> DEFINE q == s \div NodeSlots
<1>1. s = NodeSlots * q + (NodeSlots - 1) /\ q \in Nat /\ q + 1 >= k
  BY DequeAssumption DEF LastOfNode, NodeOf
<1>2. s + 1 = (q + 1) * NodeSlots
  BY <1>1, DequeAssumption
<1>3. (q + 1) * NodeSlots >= k * NodeSlots
  BY <1>1, DequeAssumption
<1>. QED
  BY <1>1, <1>2, <1>3, DequeAssumption

(* Until so many answers the map is the first one.                         *)
FirstMapInv(w) ==
    /\ raced => answered[w] >= FirstMapEntries
    /\ answered[w] < FirstMapEntries =>
          /\ pc[w] # "move" /\ map_size = MapPlaces
          /\ map_end = (MapPlaces - 1) \div 2 + NodeOf(finish)

LEMMA FirstMapStep ==
  ASSUME NEW w, Workers = {w}, OneWorkerInv(w), FirstMapInv(w), [Next]_vars
  PROVE  FirstMapInv(w)'
<1> USE DEF OneWorkerInv, TypeOK
<1>0. FirstMapEntries \in Int
  BY DequeAssumption, MiddleIsPlace DEF FirstMapEntries
<1>1. answered'[w] \in Nat /\ answered[w] \in Nat /\ answered'[w] >= answered[w]
  <2>1. CASE Answer(w)
    BY <2>1, BoundsAssumption DEF Answer
  <2>2. CASE UNCHANGED answered
    BY <2>2, BoundsAssumption
  <2>. QED
    BY <2>1, <2>2
    DEF Next, WorkerStep, LoggerStep, vars, SkipEmptyMessage, LoadFinish,
        MoveMap, ConstructWord, ConstructResult, LoadIncrement,
        StoreIncrement, SignalLogger, TestEmpty, Wait, LeaveNode, LogEntry
<1>a. raced \in BOOLEAN /\ raced' \in BOOLEAN
  <2>1. TypeOK'
    BY LoggerTypeStep
  <2>. QED
    BY <2>1
<1>b. raced => answered'[w] >= FirstMapEntries
  BY <1>0, <1>1 DEF FirstMapInv
<1>c. CASE answered'[w] >= FirstMapEntries
  <2>1. ~(answered'[w] < FirstMapEntries)
    BY <1>0, <1>1, <1>c
  <2>. QED
    BY <1>c, <2>1 DEF FirstMapInv
<1>d. answered'[w] < FirstMapEntries \/ answered'[w] >= FirstMapEntries
  BY <1>0, <1>1
<1>e. SUFFICES ASSUME answered'[w] < FirstMapEntries
               PROVE  /\ raced' = FALSE /\ pc'[w] # "move"
                      /\ map_size' = MapPlaces
                      /\ map_end' = (MapPlaces - 1) \div 2 + NodeOf(finish')
  BY <1>c, <1>d DEF FirstMapInv
<1>2. /\ answered[w] < FirstMapEntries /\ answered[w] \in Nat
      /\ raced = FALSE /\ pc[w] # "move" /\ map_size = MapPlaces
      /\ map_end = (MapPlaces - 1) \div 2 + NodeOf(finish)
      /\ DequeInv(w) /\ finish \in Nat
  BY <1>0, <1>1, <1>a, <1>b, <1>e DEF FirstMapInv
<1>3. CASE LoadFinish(w)
  <2>1. finish = answered[w] - 1
    BY <1>2, <1>3 DEF LoadFinish, DequeInv, Published
  <2>2. ~(LastOfNode(finish) /\ map_end + 2 > map_size)
    <3> DEFINE k == MapPlaces - (MapPlaces - 1) \div 2
    <3>1. SUFFICES ASSUME LastOfNode(finish), map_end + 2 > map_size
                   PROVE  FALSE
      OBVIOUS
    <3>2. k \in Int /\ NodeOf(finish) \in Int
      BY <1>2, MiddleIsPlace, DequeAssumption DEF NodeOf
    <3>3. NodeOf(finish) >= k - 1
      BY <1>2, <3>1, <3>2, MiddleIsPlace
    <3>4. finish + 1 >= k * NodeSlots
      BY <1>2, <3>1, <3>2, <3>3, LastSlot
    <3>. QED
      BY <1>0, <1>2, <2>1, <3>4 DEF FirstMapEntries
  <2>3. ~MeetsEmplace(w)
    BY DEF MeetsEmplace
  <2>. QED
    BY <1>2, <1>3, <2>2, <2>3 DEF LoadFinish
<1>4. CASE StoreIncrement(w)
  <2>1. slot[w] = finish /\ finish_register[w] = finish
    BY <1>2, <1>4 DEF StoreIncrement, DequeInv
  <2>2. NodeOf(finish) \in Int /\ (MapPlaces - 1) \div 2 \in Int
    BY <1>2, DequeAssumption DEF NodeOf
  <2>3. map_end' = (MapPlaces - 1) \div 2 + NodeOf(finish')
    <3>1. /\ finish' = finish + 1
          /\ map_end' = IF LastOfNode(finish) THEN map_end + 1 ELSE map_end
      BY <1>4, <2>1 DEF StoreIncrement
    <3>2. NodeOf(finish + 1)
            = IF LastOfNode(finish) THEN NodeOf(finish) + 1 ELSE NodeOf(finish)
      BY <1>2, NextSlot
    <3>. QED
      BY <1>2, <2>2, <3>1, <3>2
  <2>. QED
    BY <1>2, <1>4, <2>1, <2>3 DEF StoreIncrement
<1>5. CASE \/ Answer(w) \/ SkipEmptyMessage(w) \/ MoveMap(w)
           \/ ConstructWord(w) \/ ConstructResult(w) \/ LoadIncrement(w)
           \/ SignalLogger(w) \/ LoggerStep \/ UNCHANGED vars
  BY <1>2, <1>5
  DEF LoggerStep, vars, Answer, SkipEmptyMessage, MoveMap, ConstructWord,
      ConstructResult, LoadIncrement, SignalLogger, TestEmpty, Wait, LeaveNode,
      LogEntry
<1>. QED
  BY <1>3, <1>4, <1>5 DEF Next, WorkerStep

-----------------------------------------------------------------------------
(* What the session adds is a schedule: its steps are ServerLogger's.      *)
LEMMA SessionIsLogger ==
  ASSUME [SessionNext]_all_vars
  PROVE  [Next]_vars
<1>1. ASSUME NEW w \in Workers, ClientStep(w) PROVE UNCHANGED vars
  BY <1>1 DEF ClientStep, Connect, Close, Send
<1>2. ASSUME NEW w \in Workers, ReceiveWord(w) \/ SkipMessage(w) \/ EndOfStream(w)
      PROVE  UNCHANGED vars
  BY <1>2 DEF ReceiveWord, SkipMessage, EndOfStream, Read
<1>3. ASSUME NEW w \in Workers, WriteAnswer(w) \/ WriteLinebreak(w)
      PROVE  Answer(w) \/ UNCHANGED vars
  BY <1>3 DEF WriteAnswer, WriteLinebreak, AfterWrite
<1>4. ASSUME NEW w \in Workers, SignalAndClear(w) PROVE SignalLogger(w)
  BY <1>4 DEF SignalAndClear
<1>5. CASE UNCHANGED all_vars
  BY <1>5 DEF all_vars
<1>. QED
  BY <1>1, <1>2, <1>3, <1>4, <1>5
  DEF SessionNext, SessionStep, Next, WorkerStep

(* The smaller of two numbers.                                             *)
LEMMA MinOfTwo ==
  ASSUME NEW a \in Int, NEW b \in Int
  PROVE  Min({a, b}) = IF a <= b THEN a ELSE b
  BY DEF Min

(* read: one to MAX_MSG_LENGTH bytes are taken from the stream and overlay *)
(* the start of the buffer.                                                *)
LEMMA ReadTakes ==
  ASSUME NEW w \in Workers, SessionTypeOK, Read(w)
  PROVE  /\ message'[w] \in Seq(Characters)
         /\ Len(message'[w]) \in 1..MAX_MSG_LENGTH
         /\ message' = [message EXCEPT ![w] = message'[w]]
         /\ stream' \in [Workers -> Seq(Characters)]
         /\ buff'[w] \in [1..MAX_MSG_LENGTH -> Memory]
         /\ buff'[w] = Strip(Overlay(buff[w], message'[w]), Len(message'[w]))
         /\ buff' = [buff EXCEPT ![w] = buff'[w]]
<1> DEFINE length == Min({Len(stream[w]), MAX_MSG_LENGTH})
           m == SubSeq(stream[w], 1, length)
<1>1. /\ stream[w] \in Seq(Characters) /\ stream[w] # <<>>
      /\ Len(stream[w]) \in Nat \ {0} /\ MAX_MSG_LENGTH \in Nat \ {0}
  BY LengthAssumption DEF SessionTypeOK, Read
<1>2. length \in 1..MAX_MSG_LENGTH /\ length <= Len(stream[w])
  BY <1>1, MinOfTwo
<1>. HIDE DEF length
<1>3. \A i \in 1..Len(stream[w]) : stream[w][i] \in Characters
  BY <1>1, ElementOfSeq
<1>4. m \in Seq(Characters) /\ Len(m) = length
  BY <1>1, <1>2, <1>3, SubSeqProperties
<1>5. SubSeq(stream[w], length + 1, Len(stream[w])) \in Seq(Characters)
  BY <1>1, <1>2, <1>3, SubSeqProperties
<1>. HIDE DEF m
<1>6. /\ message' = [message EXCEPT ![w] = m]
      /\ stream' = [stream EXCEPT
                      ![w] = SubSeq(@, length + 1, Len(@))]
      /\ buff' = [buff EXCEPT ![w] = Strip(Overlay(@, m), length)]
  BY DEF Read, length, m
<1>7. /\ message'[w] = m
      /\ buff'[w] = Strip(Overlay(buff[w], m), length)
  BY <1>6 DEF SessionTypeOK
<1>8. \A i \in 1..Len(m) : m[i] \in Characters
  BY <1>4, ElementOfSeq
<1>9. Overlay(buff[w], m) \in [1..MAX_MSG_LENGTH -> Memory]
  <2>1. buff[w] \in [1..MAX_MSG_LENGTH -> Memory]
    BY DEF SessionTypeOK
  <2>2. Characters \subseteq Memory /\ Len(m) \in Nat
    BY <1>2, <1>4 DEF Memory
  <2>3. \A i \in 1..MAX_MSG_LENGTH :
           (IF i <= Len(m) THEN m[i] ELSE buff[w][i]) \in Memory
    <3> TAKE i \in 1..MAX_MSG_LENGTH
    <3>1. i <= Len(m) => m[i] \in Memory
      BY <1>8, <2>2
    <3>2. buff[w][i] \in Memory
      BY <2>1
    <3>. QED
      BY <3>1, <3>2
  <2>. QED
    BY <2>3 DEF Overlay
<1>10. Strip(Overlay(buff[w], m), length) \in [1..MAX_MSG_LENGTH -> Memory]
  BY <1>2, <1>9 DEF Strip, Memory
<1>. QED
  BY <1>2, <1>4, <1>5, <1>6, <1>7, <1>10 DEF SessionTypeOK

-----------------------------------------------------------------------------
(* The variables of the session keep their types.                          *)
LEMMA SessionTypeStep ==
  ASSUME SessionTypeOK, AnsweredInv, [SessionNext]_all_vars
  PROVE  SessionTypeOK' /\ AnsweredInv'
<1>0. TypeOK' /\ AnsweredInv'
  BY SessionIsLogger, LoggerTypeStep DEF SessionTypeOK
<1>1. ASSUME NEW w \in Workers, Connect(w) PROVE SessionTypeOK'
  <2>1. served[w] + 1 \in 0..Clients /\ 0 \in 0..Bytes
    BY <1>1, SessionBoundsAssumption DEF Connect, SessionTypeOK
  <2>. QED
    BY <1>0, <1>1, <2>1 DEF Connect, Enter, SessionTypeOK, vars
<1>2. ASSUME NEW w \in Workers, NEW c \in Characters, Send(w, c)
      PROVE  SessionTypeOK'
  <2>1. sent[w] + 1 \in 0..Bytes
    BY <1>2, SessionBoundsAssumption DEF Send, SessionTypeOK
  <2>2. Append(stream[w], c) \in Seq(Characters)
    BY DEF SessionTypeOK
  <2>. QED
    BY <1>0, <1>2, <2>1, <2>2 DEF Send, SessionTypeOK, vars
<1>3. ASSUME NEW w \in Workers, Close(w) PROVE SessionTypeOK'
  BY <1>0, <1>3 DEF Close, SessionTypeOK, vars
<1>4. ASSUME NEW w \in Workers, ReceiveWord(w) \/ SkipMessage(w)
      PROVE  SessionTypeOK'
  <2>1. Read(w) /\ pc[w] = "read" /\ phase[w] = "read"
    BY <1>4 DEF ReceiveWord, SkipMessage, Read
  <2>2. /\ message' \in [Workers -> Seq(Characters)]
        /\ stream' \in [Workers -> Seq(Characters)]
        /\ buff' \in [Workers -> [1..MAX_MSG_LENGTH -> Memory]]
    BY <2>1, ReadTakes DEF SessionTypeOK
  <2>3. UNCHANGED <<vars, connection, served, sent, left_early, killed>>
    BY <2>1 DEF Read
  <2>4. /\ phase' \in [Workers -> {"accept", "read", "answer", "linebreak"}]
        /\ left_over' \in [Workers -> BOOLEAN]
        /\ \A v \in Workers : v # w => phase'[v] = phase[v]
    BY <1>4 DEF ReceiveWord, SkipMessage, Enter, SessionTypeOK
  <2>. QED
    BY <1>0, <2>1, <2>2, <2>3, <2>4 DEF SessionTypeOK, vars
<1>5. ASSUME NEW w \in Workers, EndOfStream(w) PROVE SessionTypeOK'
  BY <1>0, <1>5 DEF EndOfStream, Enter, SessionTypeOK, vars
<1>6. ASSUME NEW w \in Workers, WriteAnswer(w) \/ WriteLinebreak(w)
      PROVE  SessionTypeOK'
  <2>1. /\ connection' \in [Workers -> {"none", "open", "closed", "reset", "broken"}]
        /\ killed' \in BOOLEAN
    BY <1>6 DEF WriteAnswer, WriteLinebreak, Write, SessionTypeOK
  <2>2. /\ phase[w] \in {"answer", "linebreak"}
        /\ \/ UNCHANGED <<phase, vars>>
           \/ Enter(w, "linebreak") /\ UNCHANGED vars
           \/ Enter(w, "read") /\ Answer(w)
    BY <1>6 DEF WriteAnswer, WriteLinebreak, AfterWrite
  <2>3. phase' \in [Workers -> {"accept", "read", "answer", "linebreak"}]
    BY <2>2 DEF Enter, SessionTypeOK
  <2>4. \A v \in Workers : phase'[v] \in {"answer", "linebreak"} => pc'[v] = "read"
    BY <2>2 DEF Enter, Answer, SessionTypeOK, TypeOK, vars
  <2>5. UNCHANGED <<stream, served, sent, buff, message, left_over, left_early>>
    BY <1>6 DEF WriteAnswer, WriteLinebreak
  <2>. QED
    BY <1>0, <2>1, <2>3, <2>4, <2>5 DEF SessionTypeOK
<1>7. ASSUME NEW w \in Workers, SignalAndClear(w) PROVE SessionTypeOK'
  <2>1. Zeros \in [1..MAX_MSG_LENGTH -> Memory] /\ <<>> \in Seq(Characters)
    BY DEF Zeros, Memory
  <2>. QED
    BY <1>0, <1>7, <2>1
    DEF SignalAndClear, SignalLogger, SessionTypeOK, TypeOK
<1>8. ASSUME NEW w \in Workers, UNCHANGED session_vars,
             \/ LoadFinish(w) \/ MoveMap(w) \/ ConstructWord(w)
             \/ ConstructResult(w) \/ LoadIncrement(w) \/ StoreIncrement(w)
      PROVE  SessionTypeOK'
  <2>1. \A v \in Workers : pc[v] = "read" => pc'[v] = "read"
    BY <1>8 DEF LoadFinish, MoveMap, ConstructWord, ConstructResult,
                LoadIncrement, StoreIncrement, SessionTypeOK, TypeOK
  <2>. QED
    BY <1>0, <1>8, <2>1 DEF SessionTypeOK, session_vars
<1>9. CASE LoggerStep /\ UNCHANGED session_vars
  BY <1>0, <1>9
  DEF LoggerStep, TestEmpty, Wait, LeaveNode, LogEntry, SessionTypeOK,
                    session_vars
<1>10. CASE UNCHANGED all_vars
  BY <1>0, <1>10 DEF all_vars, session_vars, SessionTypeOK, vars
<1>. QED
  BY <1>0, <1>1, <1>2, <1>3, <1>4, <1>5, <1>6, <1>7, <1>8, <1>9, <1>10
  DEF SessionNext, ClientStep, SessionStep

(* A read into a zeroed buffer leaves the message over zeros, and a single *)
(* byte that is skipped leaves zeros.                                      *)
LEMMA BufferStep ==
  ASSUME SessionTypeOK, BufferInv, [SessionNext]_all_vars
  PROVE  BufferInv'
<1>1. ASSUME NEW w \in Workers, Connect(w) PROVE BufferInv'
  BY <1>1 DEF Connect, Enter, BufferInv, SessionTypeOK, vars
<1>2. ASSUME NEW w \in Workers,
             Close(w) \/ (\E c \in Characters : Send(w, c)) \/ EndOfStream(w)
      PROVE  BufferInv'
  BY <1>2 DEF Close, Send, EndOfStream, Enter, BufferInv, SessionTypeOK, vars
<1>3. ASSUME NEW w \in Workers, ReceiveWord(w) \/ SkipMessage(w)
      PROVE  BufferInv'
  <2> DEFINE m == message'[w]
  <2>1. Read(w) /\ pc[w] = "read" /\ phase[w] = "read" /\ UNCHANGED vars
    BY <1>3 DEF ReceiveWord, SkipMessage, Read
  <2>2. /\ Len(m) \in 1..MAX_MSG_LENGTH
        /\ message' = [message EXCEPT ![w] = m]
        /\ buff' = [buff EXCEPT ![w] = buff'[w]]
        /\ buff'[w] = Strip(Overlay(buff[w], m), Len(m))
    BY <2>1, ReadTakes
  <2>. HIDE DEF m
  <2>3. ASSUME answered[w] > 0, ~left_over[w]
        PROVE  buff'[w] = Strip(Overlay(Zeros, m), Len(m))
    BY <2>1, <2>2, <2>3 DEF BufferInv
  <2>4. CASE ReceiveWord(w)
    <3>1. phase' = [phase EXCEPT ![w] = "answer"] /\ UNCHANGED left_over
      BY <2>4 DEF ReceiveWord, Enter
    <3>. QED
      BY <2>1, <2>2, <2>3, <3>1 DEF BufferInv, SessionTypeOK, vars, m
  <2>5. CASE SkipMessage(w)
    <3>1. /\ UNCHANGED phase /\ buff'[w][1] = NUL
          /\ left_over' = [left_over EXCEPT ![w] = @ \/ Len(m) > 1]
      BY <2>5 DEF SkipMessage, m
    <3>2. ASSUME answered[w] > 0, ~left_over'[w] PROVE buff'[w] = Zeros
      <4>1. ~left_over[w] /\ Len(m) = 1
        <5>1. left_over'[w] = (left_over[w] \/ Len(m) > 1)
          BY <3>1 DEF SessionTypeOK
        <5>2. ~left_over[w] /\ ~(Len(m) > 1)
          BY <3>2, <5>1
        <5>3. Len(m) = 1
          BY <2>2, <5>2, LengthAssumption
        <5>. QED
          BY <5>2, <5>3
      <4>2. buff'[w] = Strip(Overlay(Zeros, m), 1)
        BY <2>3, <3>2, <4>1
      <4>3. \A i \in 1..MAX_MSG_LENGTH : i # 1 => buff'[w][i] = NUL
        BY <4>1, <4>2 DEF Strip, Overlay, Zeros
      <4>4. buff'[w] = [i \in 1..MAX_MSG_LENGTH |-> buff'[w][i]]
        BY <4>2 DEF Strip, Overlay
      <4>. QED
        BY <3>1, <4>3, <4>4 DEF Zeros
    <3>. QED
      BY <2>1, <2>2, <3>1, <3>2 DEF BufferInv, SessionTypeOK, vars
  <2>. QED
    BY <1>3, <2>4, <2>5
<1>4. ASSUME NEW w \in Workers, WriteAnswer(w) \/ WriteLinebreak(w)
      PROVE  BufferInv'
  <2>1. /\ phase[w] \in {"answer", "linebreak"} /\ pc[w] = "read"
        /\ \/ UNCHANGED <<phase, vars>>
           \/ Enter(w, "linebreak") /\ UNCHANGED vars
           \/ Enter(w, "read") /\ Answer(w)
    BY <1>4 DEF WriteAnswer, WriteLinebreak, AfterWrite, SessionTypeOK
  <2>2. UNCHANGED <<buff, message, left_over>>
    BY <1>4 DEF WriteAnswer, WriteLinebreak
  <2>3. CASE UNCHANGED <<phase, vars>> \/ (Enter(w, "linebreak") /\ UNCHANGED vars)
    BY <2>1, <2>2, <2>3 DEF Enter, BufferInv, SessionTypeOK, vars
  <2>4. CASE Enter(w, "read") /\ Answer(w)
    <3>1. /\ phase' = [phase EXCEPT ![w] = "read"]
          /\ pc' = [pc EXCEPT ![w] = "load"]
          /\ answered' = [answered EXCEPT ![w] = @ + 1]
      BY <2>4 DEF Enter, Answer
    <3>. QED
      BY <2>2, <3>1 DEF BufferInv, SessionTypeOK, TypeOK
  <2>. QED
    BY <2>1, <2>3, <2>4
<1>5. ASSUME NEW w \in Workers, SignalAndClear(w) PROVE BufferInv'
  <2>1. phase[w] \in {"accept", "read"}
    BY <1>5 DEF SignalAndClear, SignalLogger, SessionTypeOK
  <2>2. /\ buff' = [buff EXCEPT ![w] = Zeros]
        /\ pc' = [pc EXCEPT ![w] = "read"]
        /\ left_over' = [left_over EXCEPT ![w] = FALSE]
        /\ message' = [message EXCEPT ![w] = <<>>]
        /\ UNCHANGED <<phase, answered>>
    BY <1>5 DEF SignalAndClear, SignalLogger
  <2>. QED
    BY <2>1, <2>2 DEF BufferInv, SessionTypeOK, TypeOK
<1>6. ASSUME NEW w \in Workers, UNCHANGED session_vars,
             \/ LoadFinish(w) \/ MoveMap(w) \/ ConstructWord(w)
             \/ ConstructResult(w) \/ LoadIncrement(w) \/ StoreIncrement(w)
      PROVE  BufferInv'
  <2>1. /\ UNCHANGED answered
        /\ \A v \in Workers : pc'[v] = "read" => pc[v] = "read"
    BY <1>6 DEF LoadFinish, MoveMap, ConstructWord, ConstructResult,
                LoadIncrement, StoreIncrement, SessionTypeOK, TypeOK
  <2>. QED
    BY <1>6, <2>1 DEF BufferInv, session_vars
<1>7. CASE (LoggerStep /\ UNCHANGED session_vars) \/ UNCHANGED all_vars
  BY <1>7
  DEF LoggerStep, TestEmpty, Wait, LeaveNode, LogEntry, BufferInv, session_vars,
              all_vars, vars
<1>. QED
  BY <1>1, <1>2, <1>3, <1>4, <1>5, <1>6, <1>7
  DEF SessionNext, ClientStep, SessionStep

(* A connection that is closed while nothing is to be answered carries at  *)
(* most one more write, which cannot be the one that kills.                *)
LEMMA ClosedStep ==
  ASSUME SessionTypeOK, ClosedInv, OnlyLeavingEarlyKills, [SessionNext]_all_vars
  PROVE  ClosedInv' /\ OnlyLeavingEarlyKills'
<1> DEFINE Both == ClosedInv /\ OnlyLeavingEarlyKills
<1>1. ASSUME ~killed, NEW w \in Workers, Connect(w) PROVE Both'
  BY <1>1 DEF Connect, Enter, ClosedInv, OnlyLeavingEarlyKills, SessionTypeOK
<1>2. ASSUME ~killed, NEW w \in Workers, NEW c \in Characters, Send(w, c)
      PROVE  Both'
  BY <1>2 DEF Send, ClosedInv, OnlyLeavingEarlyKills, SessionTypeOK
<1>3. ASSUME ~killed, NEW w \in Workers, Close(w) PROVE Both'
  BY <1>3 DEF Close, ClosedInv, OnlyLeavingEarlyKills, SessionTypeOK
<1>4. ASSUME ~killed, NEW w \in Workers, ReceiveWord(w) \/ SkipMessage(w)
      PROVE  Both'
  <2>1. /\ Read(w) /\ phase[w] = "read" /\ stream[w] # <<>>
        /\ UNCHANGED <<connection, left_early, killed>>
        /\ \A v \in Workers : v # w => stream'[v] = stream[v]
    BY <1>4 DEF ReceiveWord, SkipMessage, Read, SessionTypeOK
  <2>2. \/ phase' = [phase EXCEPT ![w] = "answer"]
        \/ UNCHANGED phase
    BY <1>4 DEF ReceiveWord, SkipMessage, Enter
  <2>. QED
    BY <1>4, <2>1, <2>2 DEF ClosedInv, OnlyLeavingEarlyKills, SessionTypeOK
<1>5. ASSUME ~killed, NEW w \in Workers, EndOfStream(w) PROVE Both'
  BY <1>5 DEF EndOfStream, Enter, ClosedInv, OnlyLeavingEarlyKills, SessionTypeOK
<1>6. ASSUME ~killed, NEW w \in Workers, WriteAnswer(w) PROVE Both'
  <2>1. UNCHANGED <<stream, left_early>> /\ phase[w] = "answer"
    BY <1>6 DEF WriteAnswer
  <2>2. connection[w] \in {"closed", "reset", "broken"} => left_early[w]
    BY <2>1 DEF ClosedInv
  <2>3. /\ connection[w] # "none"
        /\ \/ connection' = connection
           \/ /\ connection[w] \in {"closed", "reset"}
              /\ \E next \in {"closed", "broken"} :
                    connection' = [connection EXCEPT ![w] = next]
        /\ killed' => connection[w] = "broken"
    BY <1>6 DEF WriteAnswer, Write
  <2>4. \/ UNCHANGED phase
        \/ \E place \in {"read", "linebreak"} :
              phase' = [phase EXCEPT ![w] = place]
    BY <1>6 DEF WriteAnswer, AfterWrite, Enter
  <2>. QED
    BY <2>1, <2>2, <2>3, <2>4 DEF ClosedInv, OnlyLeavingEarlyKills, SessionTypeOK
<1>7. ASSUME ~killed, NEW w \in Workers, WriteLinebreak(w) PROVE Both'
  <2>1. UNCHANGED <<stream, left_early>> /\ phase[w] = "linebreak"
    BY <1>7 DEF WriteLinebreak
  <2>2. connection[w] = "broken" => left_early[w]
    BY <2>1 DEF ClosedInv
  <2>3. /\ connection[w] # "none"
        /\ \/ connection' = connection
           \/ /\ connection[w] \in {"closed", "reset"}
              /\ \E next \in {"closed", "broken"} :
                    connection' = [connection EXCEPT ![w] = next]
        /\ killed' => connection[w] = "broken"
    BY <1>7 DEF WriteLinebreak, Write
  <2>4. IF killed' THEN UNCHANGED phase
        ELSE phase' = [phase EXCEPT ![w] = "read"]
    BY <1>7 DEF WriteLinebreak, AfterWrite, Enter
  <2>5. CASE killed'
    BY <2>1, <2>2, <2>3, <2>4, <2>5
    DEF ClosedInv, OnlyLeavingEarlyKills, SessionTypeOK
  <2>6. CASE ~killed'
    <3>1. phase' = [phase EXCEPT ![w] = "read"]
      BY <2>4, <2>6
    <3>2. OnlyLeavingEarlyKills'
      BY <2>6 DEF OnlyLeavingEarlyKills
    <3>3. ASSUME NEW v \in Workers, v # w
          PROVE  /\ phase'[v] = phase[v] /\ connection'[v] = connection[v]
                 /\ stream'[v] = stream[v] /\ left_early'[v] = left_early[v]
      BY <2>1, <2>3, <3>1, <3>3 DEF SessionTypeOK
    <3>4. phase'[w] = "read"
      BY <3>1 DEF SessionTypeOK
    <3>5. connection'[w] \in {"closed", "reset", "broken"} /\ ~left_early[w] =>
             stream[w] = <<>>
      BY <2>1, <2>2, <2>3 DEF ClosedInv, SessionTypeOK
    <3>. QED
      BY <2>1, <3>2, <3>3, <3>4, <3>5 DEF ClosedInv
  <2>. QED
    BY <2>5, <2>6
<1>8. ASSUME ~killed, NEW w \in Workers, SignalAndClear(w) PROVE Both'
  BY <1>8 DEF SignalAndClear, ClosedInv, OnlyLeavingEarlyKills
<1>9. CASE UNCHANGED session_vars \/ UNCHANGED all_vars
  BY <1>9 DEF ClosedInv, OnlyLeavingEarlyKills, session_vars, all_vars
<1>. QED
  BY <1>1, <1>2, <1>3, <1>4, <1>5, <1>6, <1>7, <1>8, <1>9
  DEF SessionNext, ClientStep, SessionStep

-----------------------------------------------------------------------------
(* Min of a set of numbers is its least member.                            *)
LEMMA LeastOf ==
  ASSUME NEW S \in SUBSET Nat, S # {}
  PROVE  Min(S) \in S /\ \A i \in S : Min(S) <= i
<1> DEFINE R == OpToRel(<, Nat)
<1>1. IsWellFoundedOn(R, Nat)
  BY NatLessThanWellFounded
<1>. HIDE DEF R
<1>2. \E x \in S : \A y \in S : ~(<<y, x>> \in R)
  BY <1>1, WFMin
<1>3. \A x, y \in Nat : y < x => <<y, x>> \in R
  BY DEF R, OpToRel
<1>4. PICK x \in S : \A y \in S : ~(<<y, x>> \in R)
  BY <1>2
<1>5. \A y \in S : x <= y
  <2> TAKE y \in S
  <2>1. x \in Nat /\ y \in Nat /\ ~(<<y, x>> \in R)
    BY <1>4
  <2>2. ~(y < x)
    BY <1>3, <2>1
  <2>. QED
    BY <2>1, <2>2
<1>. QED
  BY <1>5 DEF Min

(* Prefixes of two sequences that agree up to their length are the same.   *)
LEMMA SamePrefix ==
  ASSUME NEW S, NEW s, NEW t, NEW n \in Nat,
         \A i \in 1..n : s[i] \in S /\ s[i] = t[i]
  PROVE  SubSeq(s, 1, n) = SubSeq(t, 1, n)
<1> DEFINE p == SubSeq(s, 1, n)
           q == SubSeq(t, 1, n)
<1>1. /\ p \in Seq(S) /\ Len(p) = IF 1 <= n THEN n ELSE 0
      /\ \A i \in 1..n : p[i] = s[i]
  <2>1. /\ p \in Seq(S) /\ Len(p) = IF 1 <= n THEN n - 1 + 1 ELSE 0
        /\ \A i \in 1..(n - 1 + 1) : p[i] = s[1 + i - 1]
    BY SubSeqProperties
  <2>. QED
    BY <2>1
<1>2. /\ q \in Seq(S) /\ Len(q) = IF 1 <= n THEN n ELSE 0
      /\ \A i \in 1..n : q[i] = t[i]
  <2>1. /\ q \in Seq(S) /\ Len(q) = IF 1 <= n THEN n - 1 + 1 ELSE 0
        /\ \A i \in 1..(n - 1 + 1) : q[i] = t[1 + i - 1]
    BY SubSeqProperties
  <2>. QED
    BY <2>1
<1>. HIDE DEF p, q
<1>3. Len(p) = Len(q) /\ \A i \in 1..Len(p) : p[i] = q[i]
  BY <1>1, <1>2
<1>4. p = q
  BY <1>1, <1>2, <1>3, SeqEqual
<1>. QED
  BY <1>4 DEF p, q

(* The C string in a buffer that holds text and then a NUL is the text up  *)
(* to its first NUL.                                                       *)
LEMMA TerminatedText ==
  ASSUME NEW text \in Seq(Characters), NEW b, Len(text) < MAX_MSG_LENGTH,
         \A i \in 1..Len(text) : b[i] = text[i],
         b[Len(text) + 1] = NUL
  PROVE  Words(b) = {UpToNul(text)}
<1> DEFINE k == Len(text)
           nuls == {i \in 1..k : text[i] = NUL}
           ends == {i \in 1..MAX_MSG_LENGTH : b[i] = NUL}
<1>0. k \in Nat /\ MAX_MSG_LENGTH \in Nat
  BY LengthAssumption
<1>1. \A i \in 1..k : text[i] \in Characters
  BY ElementOfSeq
<1>2. k + 1 \in ends /\ ends \in SUBSET Nat
  BY <1>0
<1>3. Min(ends) \in ends /\ \A i \in ends : Min(ends) <= i
  <2>. HIDE DEF ends
  <2>. QED
    BY <1>2, LeastOf
<1>4. Words(b) = {SubSeq(b, 1, Min(ends) - 1)}
  BY <1>2 DEF Words
<1>5. CASE nuls = {}
  <2>1. Min(ends) = k + 1
    <3>1. Min(ends) \in 1..MAX_MSG_LENGTH /\ b[Min(ends)] = NUL
      BY <1>3
    <3>2. Min(ends) \notin 1..k
      BY <1>5, <3>1
    <3>3. Min(ends) <= k + 1
      BY <1>2, <1>3
    <3>. QED
      BY <1>0, <3>1, <3>2, <3>3
  <2>2. SubSeq(b, 1, k) = SubSeq(text, 1, k)
    BY <1>0, <1>1, SamePrefix
  <2>3. SubSeq(text, 1, k) = text
    BY SubSeqFull
  <2>4. Min(ends) - 1 = k
    BY <1>0, <2>1
  <2>. QED
    BY <1>4, <1>5, <2>2, <2>3, <2>4 DEF UpToNul
<1>6. CASE nuls # {}
  <2>1. nuls \in SUBSET Nat
    OBVIOUS
  <2>2. Min(nuls) \in nuls /\ \A i \in nuls : Min(nuls) <= i
    <3>. HIDE DEF nuls
    <3>. QED
      BY <1>6, <2>1, LeastOf
  <2>3. \A i \in 1..k : i \in nuls <=> i \in ends
    BY <1>0
  <2>4. Min(nuls) = Min(ends)
    <3>1. Min(nuls) \in 1..k /\ Min(nuls) \in ends
      BY <2>2, <2>3
    <3>2. Min(ends) <= Min(nuls) /\ Min(ends) \in 1..k
      BY <1>0, <1>3, <3>1
    <3>3. Min(ends) \in nuls
      BY <1>3, <2>3, <3>2
    <3>. QED
      BY <1>0, <2>2, <3>1, <3>2, <3>3
  <2>5. Min(nuls) - 1 \in Nat /\ Min(nuls) - 1 <= k
    BY <1>0, <2>2
  <2>6. SubSeq(b, 1, Min(nuls) - 1) = SubSeq(text, 1, Min(nuls) - 1)
    <3>1. \A i \in 1..(Min(nuls) - 1) : b[i] \in Characters /\ b[i] = text[i]
      BY <1>0, <1>1, <2>5
    <3>. HIDE DEF nuls
    <3>. QED
      BY <2>5, <3>1, SamePrefix
  <2>. QED
    BY <1>4, <1>6, <2>4, <2>6 DEF UpToNul
<1>. QED
  BY <1>5, <1>6

(* A message over zeros that is shorter than the buffer, its last byte     *)
(* stripped, is looked up as its text.                                     *)
LEMMA MessageIsText ==
  ASSUME NEW m \in Seq(Characters), Len(m) \in 1..(MAX_MSG_LENGTH - 1)
  PROVE  Words(Strip(Overlay(Zeros, m), Len(m))) = {Text(m)}
<1> DEFINE n == Len(m)
           b == Strip(Overlay(Zeros, m), n)
<1>0. n \in Nat \ {0} /\ MAX_MSG_LENGTH \in Nat /\ n < MAX_MSG_LENGTH
  BY LengthAssumption
<1>1. /\ \A i \in 1..(n - 1) : b[i] = m[i]
      /\ b[n] = IF m[n] \in Removable THEN NUL ELSE m[n]
      /\ b[n + 1] = NUL
  BY <1>0 DEF Strip, Overlay, Zeros
<1>2. \A i \in 1..n : m[i] \in Characters
  BY ElementOfSeq
<1>3. CASE m[n] \in Removable
  <2> DEFINE text == SubSeq(m, 1, n - 1)
  <2>1. /\ text \in Seq(Characters)
        /\ Len(text) = IF 1 <= n - 1 THEN n - 1 - 1 + 1 ELSE 0
        /\ \A i \in 1..(n - 1 - 1 + 1) : text[i] = m[1 + i - 1]
    BY <1>0, <1>2, SubSeqProperties
  <2>2. Text(m) = UpToNul(text)
    BY <1>3 DEF Text, Last, Front
  <2>. HIDE DEF b, text, n
  <2>3. Len(text) = n - 1 /\ \A i \in 1..(n - 1) : text[i] = m[i]
    BY <1>0, <2>1
  <2>4. /\ Len(text) < MAX_MSG_LENGTH
        /\ \A i \in 1..Len(text) : b[i] = text[i]
        /\ b[Len(text) + 1] = NUL
    BY <1>0, <1>1, <1>3, <2>3
  <2>5. text \in Seq(Characters)
    BY <2>1
  <2>6. Words(b) = {Text(m)}
    BY <2>2, <2>4, <2>5, TerminatedText
  <2>. QED
    BY <2>6 DEF b, n
<1>4. CASE m[n] \notin Removable
  <2>1. Text(m) = UpToNul(m)
    BY <1>4 DEF Text, Last
  <2>. HIDE DEF b
  <2>2. \A i \in 1..Len(m) : b[i] = m[i]
    BY <1>0, <1>1, <1>4
  <2>3. Words(b) = {Text(m)}
    BY <1>0, <1>1, <2>1, <2>2, TerminatedText
  <2>. QED
    BY <2>3 DEF b
<1>. QED
  BY <1>3, <1>4

-----------------------------------------------------------------------------
(* The inductive invariant of the session holds in every state.            *)
THEOREM SessionInvariance == SessionSpec => []SessionInv
<1>1. ASSUME SessionInit PROVE SessionInv
  <2>0. Init
    BY <1>1 DEF SessionInit
  <2>1. TypeOK /\ AnsweredInv
    BY <2>0, FirstTypes
  <2>2. SessionTypeOK
    <3>1. buff \in [Workers -> [1..MAX_MSG_LENGTH -> Memory]]
      BY <1>1 DEF SessionInit, Memory
    <3>2. 0 \in 0..Clients /\ 0 \in 0..Bytes
      BY SessionBoundsAssumption
    <3>3. /\ stream \in [Workers -> Seq(Characters)]
          /\ message \in [Workers -> Seq(Characters)]
      <4>1. <<>> \in Seq(Characters)
        OBVIOUS
      <4>. QED
        BY <1>1, <4>1 DEF SessionInit
    <3>. QED
      BY <1>1, <2>1, <3>1, <3>2, <3>3 DEF SessionInit, SessionTypeOK
  <2>3. BufferInv /\ ClosedInv /\ OnlyLeavingEarlyKills
    BY <1>1
    DEF SessionInit, Init, BufferInv, ClosedInv, OnlyLeavingEarlyKills
  <2>. QED
    BY <2>1, <2>2, <2>3 DEF SessionInv
<1>2. ASSUME SessionInv, [SessionNext]_all_vars PROVE SessionInv'
  BY <1>2, SessionTypeStep, BufferStep, ClosedStep DEF SessionInv
<1>. QED
  BY <1>1, <1>2, PTL DEF SessionSpec

(* The variables of workers, clients and logger always have their types.   *)
THEOREM SessionTypeCorrect == SessionSpec => []SessionTypeOK
<1>1. SessionInv => SessionTypeOK
  BY DEF SessionInv
<1>. QED
  BY <1>1, SessionInvariance, PTL

(* The word looked up is the message just read, whatever was read before   *)
(* (server.cpp 79-122).                                                    *)
THEOREM NoRemnants == SessionSpec => []WordIsTheMessage
<1>1. ASSUME SessionInv PROVE WordIsTheMessage
  <2> SUFFICES ASSUME NEW w \in Workers, phase[w] = "answer", answered[w] > 0,
                      Len(message[w]) < MAX_MSG_LENGTH, ~left_over[w]
               PROVE  Words(buff[w]) = {Text(message[w])}
    BY DEF WordIsTheMessage
  <2>1. /\ message[w] \in Seq(Characters)
        /\ Len(message[w]) \in 1..(MAX_MSG_LENGTH - 1)
        /\ buff[w] = Strip(Overlay(Zeros, message[w]), Len(message[w]))
    BY <1>1, LengthAssumption DEF SessionInv, SessionTypeOK, BufferInv
  <2>. QED
    BY <2>1, MessageIsText
<1>. QED
  BY <1>1, SessionInvariance, PTL

(* No client that waits for its answers ends the server (server.cpp        *)
(* 106-110).                                                               *)
THEOREM PatientClientsKeepServer == SessionSpec => []OnlyLeavingEarlyKills
<1>1. SessionInv => OnlyLeavingEarlyKills
  BY DEF SessionInv
<1>. QED
  BY <1>1, SessionInvariance, PTL

(* The conversation only chooses when the workers and the logger of        *)
(* ServerLogger take their steps (server.cpp 79-122).                      *)
THEOREM SessionSchedulesLogger == SessionSpec => Spec
<1>1. SessionInit => Init
  BY DEF SessionInit
<1>2. [SessionNext]_all_vars => [Next]_vars
  BY SessionIsLogger
<1>. QED
  BY <1>1, <1>2, PTL DEF SessionSpec, Spec

(* One worker and the logger may only meet in the deque when the first map *)
(* is full, 30 answers after the start (server.cpp 117, 183).              *)
THEOREM RaceTakesManyAnswers ==
  ASSUME NEW w, Workers = {w}, Messages <= Slots
  PROVE  SessionSpec => []MapMovesLate
<1> DEFINE I == OneWorkerInv(w) /\ FirstMapInv(w)
<1>1. Init => I
  <2>1. NodeOf(0) = 0 /\ MapPlaces \in Nat
    BY DequeAssumption DEF NodeOf
  <2>2. Init => FirstMapInv(w)
    BY <2>1, MiddleIsPlace DEF Init, FirstMapInv
  <2>. QED
    BY <2>2, LoggerInit
<1>2. I /\ [Next]_vars => I'
  BY LoggerTypeStep, DequeStep, RacedStays, FirstMapStep DEF OneWorkerInv
<1>3. I => MapMovesLate
  BY DEF FirstMapInv, MapMovesLate
<1>. QED
  BY <1>1, <1>2, <1>3, SessionSchedulesLogger, PTL DEF Spec

(* One worker and the logger, without a lock, keep the promise of the      *)
(* answer log until they meet (server.cpp 117, 174-187): every entry       *)
(* stored is logged whole, once and in order.                              *)
THEOREM OneWorkerUntilTheyMeet ==
  ASSUME NEW w, Workers = {w}, Messages <= Slots
  PROVE  SessionSpec => ImplementsAnswerLog
<1>1. Init => OneWorkerInv(w) /\ Service!Init
  BY LoggerInit
<1>2. OneWorkerInv(w) /\ [Next]_vars => OneWorkerInv(w)'
  BY LoggerTypeStep, DequeStep, RacedStays DEF OneWorkerInv
<1>3. OneWorkerInv(w) /\ [Next]_vars => [Service!Next]_(Service!vars)
  BY RefinementStep
<1>. QED
  BY <1>1, <1>2, <1>3, SessionSchedulesLogger, PTL
  DEF Spec, ImplementsAnswerLog, Service!Spec

=============================================================================
