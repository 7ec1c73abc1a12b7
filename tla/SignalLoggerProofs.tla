------------------------- MODULE SignalLoggerProofs -------------------------
(***************************************************************************)
(* Proofs about SignalLogger, for any number of receivers, any assignment  *)
(* of the two signals to them, any batch size and any limit, with or       *)
(* without spurious wakeups, in both modes.                                *)
(***************************************************************************)
EXTENDS SignalLogger, FiniteSetTheorems, TLAPS

(* Who stores a counter owns its lock and has loaded its present value.    *)
CountLockInv ==
    \A r \in Receivers : pc[r] = "store" =>
       count_lock[Assigned[r]] = r /\ register[r] = count[Assigned[r]]

(* Who looks at LOGGER_QUEUE or changes it owns LOGGER_LOCK.               *)
LoggerLockInv ==
    /\ \A r \in Receivers : pc[r] \in {"test", "push"} => logger_lock = r
    /\ logger_pc \in {"test", "wait", "retest", "drain"} => logger_lock = Logger

(* A receiver pushes only where there is room, and a logger that has left  *)
(* its wait while the program runs has a batch.                            *)
RoomInv ==
    /\ \A r \in Receivers : pc[r] = "push" => Total(queue) < Capacity
    /\ (logger_pc = "retest" /\ PROGRAM_RUNNING) => Total(queue) = Capacity

(* When all receivers wait the batch is full and the logger is awake.      *)
AwakeInv ==
    (\A r \in Receivers : pc[r] = "waiting") =>
       Total(queue) = Capacity /\ logger_pc \notin {"wait", "waiting"}

(* The inductive invariant.                                                *)
IInv == /\ TypeOK /\ CountLockInv /\ LoggerLockInv /\ EverySignalAccounted
        /\ BatchesAreFull /\ RoomInv /\ AwakeInv

USE DEF count_vars, sender_vars, report_vars, Signals, Goto

-----------------------------------------------------------------------------
(* The entries of a batch are a number, one more after a push and none     *)
(* after a drain.                                                          *)
LEMMA Totals ==
  ASSUME NEW f \in [Signals -> Nat]
  PROVE  /\ Total(f) \in Nat
         /\ \A s \in Signals : Total([f EXCEPT ![s] = @ + 1]) = Total(f) + 1
         /\ Total([s \in Signals |-> 0]) = 0
  BY SignalsAssumption DEF Total

(* pthread_cond_signal(&EMPTIED_SIGNALS) changes nobody's place but that   *)
(* of one sleeping receiver, if there is one: they do not all sleep then.  *)
LEMMA Emptied ==
  ASSUME TypeOK, SignalEmptied
  PROVE  /\ pc' \in [Receivers -> {"loop", "check", "lock_count", "store",
                                   "lock_logger", "test", "waiting", "relock",
                                   "push", "leave", "ended"}]
         /\ \A r \in Receivers :
               pc'[r] = pc[r] \/ (pc[r] = "waiting" /\ pc'[r] = "relock")
         /\ ~ \A r \in Receivers : pc'[r] = "waiting"
<1>1. CASE Sleeping = {}
  BY <1>1, ReceiversAssumption DEF SignalEmptied, Sleeping, TypeOK
<1>2. CASE Sleeping # {}
  BY <1>2 DEF SignalEmptied, Sleeping, TypeOK
<1>. QED
  BY <1>1, <1>2

(* The logger after a signal of MAX_SIGNALS.                               *)
LEMMA Woken ==
  \/ WakeLogger = "relock" /\ logger_pc = "waiting"
  \/ WakeLogger = logger_pc /\ logger_pc # "waiting"
  BY DEF WakeLogger

(* The first state: all queues and counters are empty, nobody waits.       *)
LEMMA InitEstablishes == Init => IInv
<1> SUFFICES ASSUME Init PROVE IInv
  OBVIOUS
<1>1. TypeOK
  BY DEF Init, TypeOK
<1>2. Total(queue) = 0
  BY DEF Init, Total
<1>3. ASSUME NEW s \in Signals PROVE InHand(s) = {}
  BY DEF Init, InHand
<1>4. EverySignalAccounted
  BY <1>3, FS_EmptySet DEF Init, EverySignalAccounted
<1>5. CountLockInv /\ LoggerLockInv /\ AwakeInv
  BY ReceiversAssumption DEF Init, CountLockInv, LoggerLockInv, AwakeInv
<1>6. BatchesAreFull /\ RoomInv
  BY <1>2, NumbersAssumption DEF Init, BatchesAreFull, RoomInv
<1>. QED
  BY <1>1, <1>4, <1>5, <1>6 DEF IInv

-----------------------------------------------------------------------------
(* The variables keep their types.                                         *)
LEMMA TypeStep ==
  ASSUME TypeOK, [Next]_vars
  PROVE  TypeOK'
<1> USE AssignedAssumption DEF TypeOK
<1>1. ASSUME NEW s \in Signals, Generate(s) PROVE TypeOK'
  BY <1>1 DEF Generate
<1>2. ASSUME NEW r \in Receivers, Deliver(r) PROVE TypeOK'
  BY <1>2 DEF Deliver
<1>3. ASSUME NEW r \in Receivers, CheckLimit(r) PROVE TypeOK'
  BY <1>3 DEF CheckLimit
<1>4. ASSUME NEW r \in Receivers, LockAndLoad(r) PROVE TypeOK'
  BY <1>4 DEF LockAndLoad
<1>5. ASSUME NEW r \in Receivers, StoreAndUnlock(r) PROVE TypeOK'
  BY <1>5 DEF StoreAndUnlock
<1>6. ASSUME NEW r \in Receivers, LockLogger(r) PROVE TypeOK'
  BY <1>6 DEF LockLogger
<1>7. ASSUME NEW r \in Receivers, TestFull(r) PROVE TypeOK'
  BY <1>7 DEF TestFull, WakeLogger
<1>8. ASSUME NEW r \in Receivers, Push(r) PROVE TypeOK'
  BY <1>8 DEF Push
<1>9. ASSUME NEW r \in Receivers, LeaveLoop(r) \/ ReceiverSpuriousWakeup(r)
      PROVE  TypeOK'
  BY <1>9 DEF LeaveLoop, ReceiverSpuriousWakeup
<1>10. ASSUME NEW r \in Receivers, ReceiverEnds(r) PROVE TypeOK'
  BY <1>10 DEF ReceiverEnds, WakeLogger
<1>11. CASE LoggerRound \/ LoggerTest \/ LoggerRetest \/ LoggerSpuriousWakeup
  BY <1>11 DEF LoggerRound, LoggerTest, LoggerRetest, LoggerSpuriousWakeup
<1>12. CASE LoggerLock \/ LoggerWait
  BY <1>12 DEF LoggerLock, LoggerWait
<1>13. CASE Drain
  BY <1>13, Emptied DEF Drain
<1>14. CASE Terminate
  BY <1>14, Emptied DEF Terminate
<1>15. CASE TerminateReturns
  BY <1>15 DEF TerminateReturns, WakeLogger
<1>16. CASE UNCHANGED vars
  BY <1>16 DEF vars
<1>. QED
  BY <1>1, <1>2, <1>3, <1>4, <1>5, <1>6, <1>7, <1>8, <1>9, <1>10, <1>11,
     <1>12, <1>13, <1>14, <1>15, <1>16
  DEF Next, ReceiverStep, HandlerStep, LoggerStep

(* A counter is stored by the owner of its lock alone.                     *)
LEMMA CountLockStep ==
  ASSUME TypeOK, CountLockInv, [Next]_vars
  PROVE  CountLockInv'
<1> USE AssignedAssumption, NamesAssumption DEF TypeOK, CountLockInv
<1>1. ASSUME NEW r \in Receivers, LockAndLoad(r) PROVE CountLockInv'
  BY <1>1 DEF LockAndLoad
<1>2. ASSUME NEW r \in Receivers, StoreAndUnlock(r) PROVE CountLockInv'
  BY <1>2 DEF StoreAndUnlock
<1>3. ASSUME NEW r \in Receivers,
             \/ Deliver(r) \/ CheckLimit(r) \/ LockLogger(r) \/ TestFull(r)
             \/ Push(r) \/ LeaveLoop(r) \/ ReceiverEnds(r)
             \/ ReceiverSpuriousWakeup(r)
      PROVE  CountLockInv'
  BY <1>3 DEF Deliver, CheckLimit, LockLogger, TestFull, Push, LeaveLoop,
              ReceiverEnds, ReceiverSpuriousWakeup
<1>4. CASE Drain \/ Terminate
  <2>1. /\ UNCHANGED count_vars
        /\ \A r \in Receivers :
              pc'[r] = pc[r] \/ (pc[r] = "waiting" /\ pc'[r] = "relock")
    BY <1>4, Emptied DEF Drain, Terminate
  <2>. QED
    BY <2>1
<1>5. CASE \/ LoggerRound \/ LoggerLock \/ LoggerTest \/ LoggerWait
           \/ LoggerRetest \/ LoggerSpuriousWakeup \/ TerminateReturns
           \/ \E s \in Signals : Generate(s)
           \/ UNCHANGED vars
  BY <1>5 DEF LoggerRound, LoggerLock, LoggerTest, LoggerWait, LoggerRetest,
              LoggerSpuriousWakeup, TerminateReturns, Generate, vars
<1>. QED
  BY <1>1, <1>2, <1>3, <1>4, <1>5
  DEF Next, ReceiverStep, HandlerStep, LoggerStep

(* LOGGER_LOCK has one owner, and only the owner is between lock and       *)
(* unlock or wait; a logger that breaks out of its loop keeps it.          *)
LEMMA LoggerLockStep ==
  ASSUME TypeOK, LoggerLockInv, [Next]_vars
  PROVE  LoggerLockInv'
<1> USE NamesAssumption DEF TypeOK, LoggerLockInv
<1>1. ASSUME NEW r \in Receivers, LockLogger(r) PROVE LoggerLockInv'
  BY <1>1 DEF LockLogger
<1>2. ASSUME NEW r \in Receivers, TestFull(r) PROVE LoggerLockInv'
  BY <1>2, Woken DEF TestFull
<1>3. ASSUME NEW r \in Receivers, Push(r) PROVE LoggerLockInv'
  BY <1>3 DEF Push
<1>4. ASSUME NEW r \in Receivers, ReceiverEnds(r) PROVE LoggerLockInv'
  BY <1>4, Woken DEF ReceiverEnds
<1>5. ASSUME NEW r \in Receivers,
             \/ Deliver(r) \/ CheckLimit(r) \/ LockAndLoad(r)
             \/ StoreAndUnlock(r) \/ LeaveLoop(r) \/ ReceiverSpuriousWakeup(r)
      PROVE  LoggerLockInv'
  BY <1>5 DEF Deliver, CheckLimit, LockAndLoad, StoreAndUnlock, LeaveLoop,
              ReceiverSpuriousWakeup
<1>6. CASE LoggerLock
  BY <1>6 DEF LoggerLock
<1>7. CASE LoggerWait
  BY <1>7 DEF LoggerWait
<1>8. CASE Drain
  <2>1. /\ logger_pc = "drain" /\ logger_pc' = "head"
        /\ \A r \in Receivers :
              pc'[r] = pc[r] \/ (pc[r] = "waiting" /\ pc'[r] = "relock")
    BY <1>8, Emptied DEF Drain
  <2>. QED
    BY <2>1
<1>9. CASE Terminate
  <2>1. /\ UNCHANGED <<logger_pc, logger_lock>>
        /\ \A r \in Receivers :
              pc'[r] = pc[r] \/ (pc[r] = "waiting" /\ pc'[r] = "relock")
    BY <1>9, Emptied DEF Terminate
  <2>. QED
    BY <2>1
<1>10. CASE TerminateReturns
  BY <1>10, Woken DEF TerminateReturns
<1>11. CASE LoggerRound \/ LoggerTest \/ LoggerRetest \/ LoggerSpuriousWakeup
  BY <1>11 DEF LoggerRound, LoggerTest, LoggerRetest, LoggerSpuriousWakeup
<1>12. CASE (\E s \in Signals : Generate(s)) \/ UNCHANGED vars
  BY <1>12 DEF Generate, vars
<1>. QED
  BY <1>1, <1>2, <1>3, <1>4, <1>5, <1>6, <1>7, <1>8, <1>9, <1>10, <1>11, <1>12
  DEF Next, ReceiverStep, HandlerStep, LoggerStep

(* The queue grows only by a push where there is room, and the logger goes *)
(* to its drain only with a whole batch, which nobody changes meanwhile.   *)
LEMMA BatchStep ==
  ASSUME TypeOK, LoggerLockInv, BatchesAreFull, RoomInv, [Next]_vars
  PROVE  BatchesAreFull' /\ RoomInv'
<1> DEFINE Batch == BatchesAreFull /\ RoomInv
<1>0. Total(queue) \in Nat /\ Capacity \in Nat \ {0}
  BY Totals, NumbersAssumption DEF TypeOK
<1>1. ASSUME NEW r \in Receivers, LockLogger(r) PROVE Batch'
  BY <1>0, <1>1 DEF LockLogger, TypeOK, BatchesAreFull, RoomInv, Total
<1>2. ASSUME NEW r \in Receivers, TestFull(r) PROVE Batch'
  BY <1>0, <1>2, Woken DEF TestFull, TypeOK, BatchesAreFull, RoomInv, Total
<1>3. ASSUME NEW r \in Receivers, Push(r) PROVE Batch'
  <2>1. Total(queue') = Total(queue) + 1 /\ Total(queue) < Capacity
    BY <1>3, Totals, AssignedAssumption DEF Push, TypeOK, RoomInv
  <2>2. logger_pc' = logger_pc /\ logger_pc \notin {"retest", "drain"}
    BY <1>3, NamesAssumption DEF Push, LoggerLockInv
  <2>3. \A q \in Receivers : pc'[q] # "push"
    BY <1>3, NamesAssumption DEF Push, LoggerLockInv, TypeOK
  <2>. QED
    BY <1>0, <2>1, <2>2, <2>3 DEF BatchesAreFull, RoomInv, Total
<1>4. ASSUME NEW r \in Receivers,
             \/ Deliver(r) \/ CheckLimit(r) \/ LockAndLoad(r)
             \/ StoreAndUnlock(r) \/ LeaveLoop(r) \/ ReceiverSpuriousWakeup(r)
      PROVE  Batch'
  BY <1>4 DEF Deliver, CheckLimit, LockAndLoad, StoreAndUnlock, LeaveLoop,
              ReceiverSpuriousWakeup, TypeOK, BatchesAreFull, RoomInv, Total
<1>5. ASSUME NEW r \in Receivers, ReceiverEnds(r) PROVE Batch'
  BY <1>5, Woken DEF ReceiverEnds, TypeOK, BatchesAreFull, RoomInv, Total
<1>6. CASE LoggerTest
  BY <1>0, <1>6 DEF LoggerTest, BatchesAreFull, RoomInv, Total
<1>7. CASE LoggerRetest
  BY <1>7 DEF LoggerRetest, BatchesAreFull, RoomInv, Total
<1>8. CASE Drain
  <2>1. Total(queue') = 0 /\ logger_pc' = "head"
    BY <1>8 DEF Drain, Total
  <2>2. \A q \in Receivers : pc'[q] # "push"
    BY <1>8, Emptied, NamesAssumption DEF Drain, LoggerLockInv
  <2>. QED
    BY <1>0, <2>1, <2>2 DEF BatchesAreFull, RoomInv, Total
<1>9. CASE Terminate
  BY <1>9, Emptied DEF Terminate, BatchesAreFull, RoomInv, Total
<1>10. CASE TerminateReturns
  BY <1>10, Woken DEF TerminateReturns, BatchesAreFull, RoomInv, Total
<1>11. CASE LoggerRound \/ LoggerLock \/ LoggerWait \/ LoggerSpuriousWakeup
  BY <1>11 DEF LoggerRound, LoggerLock, LoggerWait, LoggerSpuriousWakeup,
               BatchesAreFull, RoomInv, Total
<1>12. CASE (\E s \in Signals : Generate(s)) \/ UNCHANGED vars
  BY <1>12 DEF Generate, vars, BatchesAreFull, RoomInv, Total
<1>. QED
  BY <1>1, <1>2, <1>3, <1>4, <1>5, <1>6, <1>7, <1>8, <1>9, <1>10, <1>11, <1>12
  DEF Next, ReceiverStep, HandlerStep, LoggerStep

(* The last receiver to wait has found a full batch and has woken the      *)
(* logger, which then does not wait; a drain wakes one receiver.           *)
LEMMA AwakeStep ==
  ASSUME TypeOK, LoggerLockInv, AwakeInv, [Next]_vars
  PROVE  AwakeInv'
<1>0. Total(queue) \in Nat /\ Capacity \in Nat
  BY Totals, NumbersAssumption DEF TypeOK
<1>1. ASSUME NEW r \in Receivers, TestFull(r) PROVE AwakeInv'
  <2>1. CASE Total(queue) = Capacity
    <3>1. logger_pc \notin {"wait"} /\ logger_pc' # "waiting" /\ logger_pc' # "wait"
      BY <1>1, <2>1, Woken, NamesAssumption DEF TestFull, LoggerLockInv
    <3>. QED
      BY <1>1, <2>1, <3>1 DEF TestFull, AwakeInv, Total
  <2>2. CASE Total(queue) # Capacity
    BY <1>1, <2>2 DEF TestFull, TypeOK, AwakeInv
  <2>. QED
    BY <2>1, <2>2
<1>2. ASSUME NEW r \in Receivers,
             \/ Deliver(r) \/ CheckLimit(r) \/ LockAndLoad(r)
             \/ StoreAndUnlock(r) \/ LockLogger(r) \/ Push(r)
             \/ LeaveLoop(r) \/ ReceiverEnds(r) \/ ReceiverSpuriousWakeup(r)
      PROVE  AwakeInv'
  <2>1. pc'[r] # "waiting"
    BY <1>2 DEF TypeOK, Deliver, CheckLimit, LockAndLoad, StoreAndUnlock,
         LockLogger, Push, LeaveLoop, ReceiverEnds, ReceiverSpuriousWakeup
  <2>. QED
    BY <2>1 DEF AwakeInv
<1>3. CASE LoggerTest
  BY <1>0, <1>3 DEF LoggerTest, AwakeInv, Total
<1>4. CASE Drain \/ Terminate
  BY <1>4, Emptied DEF Drain, Terminate, AwakeInv
<1>5. CASE TerminateReturns
  BY <1>5, Woken DEF TerminateReturns, AwakeInv, Total
<1>6. CASE \/ LoggerRound \/ LoggerLock \/ LoggerWait \/ LoggerRetest
           \/ LoggerSpuriousWakeup
  BY <1>6 DEF LoggerRound, LoggerLock, LoggerWait, LoggerRetest,
              LoggerSpuriousWakeup, AwakeInv, Total
<1>7. CASE (\E s \in Signals : Generate(s)) \/ UNCHANGED vars
  BY <1>7 DEF Generate, vars, AwakeInv, Total
<1>. QED
  BY <1>1, <1>2, <1>3, <1>4, <1>5, <1>6, <1>7
  DEF Next, ReceiverStep, HandlerStep, LoggerStep

(* The receivers that hold an entry of s are finitely many.                *)
LEMMA HandsAreFinite ==
  ASSUME NEW s
  PROVE  /\ IsFiniteSet(InHand(s))
         /\ Cardinality(InHand(s)) \in Nat
  BY ReceiversAssumption, FS_Subset, FS_CardinalityType DEF InHand

(* A counted signal is in one receiver's hands until it is pushed, and in  *)
(* the queue until it is drained.                                          *)
LEMMA AccountStep ==
  ASSUME TypeOK, CountLockInv, EverySignalAccounted, [Next]_vars
  PROVE  EverySignalAccounted'
<1> DEFINE Same == \A s \in Signals : InHand(s)' = InHand(s)
<1>a. ASSUME Same, UNCHANGED <<count, queue, received>>
      PROVE  EverySignalAccounted'
  BY <1>a DEF EverySignalAccounted
<1>1. ASSUME NEW r \in Receivers, StoreAndUnlock(r)
      PROVE  EverySignalAccounted'
  <2> SUFFICES ASSUME NEW s \in Signals
               PROVE  count'[s] = received'[s] + queue'[s]
                                    + Cardinality(InHand(s)')
    BY DEF EverySignalAccounted
  <2>1. register[r] = count[Assigned[r]] /\ r \notin InHand(s)
    BY <1>1 DEF StoreAndUnlock, CountLockInv, InHand
  <2>2. CASE s = Assigned[r]
    <3>1. InHand(s)' = InHand(s) \union {r}
      BY <1>1, <2>2 DEF StoreAndUnlock, InHand, TypeOK
    <3>2. Cardinality(InHand(s)') = Cardinality(InHand(s)) + 1
      BY <2>1, <3>1, HandsAreFinite, FS_AddElement
    <3>3. count'[s] = count[s] + 1 /\ UNCHANGED report_vars
      BY <1>1, <2>1, <2>2 DEF StoreAndUnlock, TypeOK
    <3>. QED
      BY <3>2, <3>3, HandsAreFinite DEF EverySignalAccounted, TypeOK
  <2>3. CASE s # Assigned[r]
    <3>1. InHand(s)' = InHand(s)
      BY <1>1, <2>3 DEF StoreAndUnlock, InHand, TypeOK
    <3>. QED
      BY <1>1, <2>3, <3>1 DEF StoreAndUnlock, EverySignalAccounted, TypeOK
  <2>. QED
    BY <2>2, <2>3
<1>2. ASSUME NEW r \in Receivers, Push(r) PROVE EverySignalAccounted'
  <2> SUFFICES ASSUME NEW s \in Signals
               PROVE  count'[s] = received'[s] + queue'[s]
                                    + Cardinality(InHand(s)')
    BY DEF EverySignalAccounted
  <2>1. pc'[r] \in {"loop", "leave"}
    BY <1>2 DEF Push, TypeOK
  <2>2. CASE s = Assigned[r]
    <3>1. r \in InHand(s) /\ InHand(s)' = InHand(s) \ {r}
      BY <1>2, <2>1, <2>2 DEF Push, InHand, TypeOK
    <3>2. Cardinality(InHand(s)') = Cardinality(InHand(s)) - 1
      BY <3>1, HandsAreFinite, FS_RemoveElement
    <3>3. queue'[s] = queue[s] + 1 /\ UNCHANGED <<count, received>>
      BY <1>2, <2>2 DEF Push, TypeOK
    <3>. QED
      BY <3>2, <3>3, HandsAreFinite DEF EverySignalAccounted, TypeOK
  <2>3. CASE s # Assigned[r]
    <3>1. InHand(s)' = InHand(s)
      BY <1>2, <2>3 DEF Push, InHand, TypeOK
    <3>. QED
      BY <1>2, <2>3, <3>1 DEF Push, EverySignalAccounted, TypeOK
  <2>. QED
    BY <2>2, <2>3
<1>3. CASE Drain
  <2>1. Same
    BY <1>3, Emptied DEF Drain, InHand, TypeOK
  <2>2. \A s \in Signals : /\ received'[s] + queue'[s] = received[s] + queue[s]
                           /\ count'[s] = count[s]
    BY <1>3 DEF Drain, TypeOK
  <2>. QED
    BY <2>1, <2>2 DEF EverySignalAccounted
<1>4. CASE Terminate
  <2>1. Same
    BY <1>4, Emptied DEF Terminate, InHand
  <2>. QED
    BY <1>4, <1>a, <2>1 DEF Terminate
<1>5. ASSUME NEW r \in Receivers,
             \/ Deliver(r) \/ CheckLimit(r) \/ LockAndLoad(r) \/ LockLogger(r)
             \/ TestFull(r) \/ LeaveLoop(r) \/ ReceiverEnds(r)
             \/ ReceiverSpuriousWakeup(r)
      PROVE  EverySignalAccounted'
  <2>1. UNCHANGED <<count, queue, received>>
    BY <1>5 DEF Deliver, CheckLimit, LockAndLoad, LockLogger, TestFull,
                LeaveLoop, ReceiverEnds, ReceiverSpuriousWakeup
  <2>2. Same
    BY <1>5 DEF Deliver, CheckLimit, LockAndLoad, LockLogger, TestFull,
                LeaveLoop, ReceiverEnds, ReceiverSpuriousWakeup, InHand, TypeOK
  <2>. QED
    BY <1>a, <2>1, <2>2
<1>6. CASE \/ LoggerRound \/ LoggerLock \/ LoggerTest \/ LoggerWait
           \/ LoggerRetest \/ LoggerSpuriousWakeup \/ TerminateReturns
           \/ \E s \in Signals : Generate(s)
           \/ UNCHANGED vars
  <2>1. UNCHANGED <<count, queue, received, pc>>
    BY <1>6 DEF LoggerRound, LoggerLock, LoggerTest, LoggerWait, LoggerRetest,
                LoggerSpuriousWakeup, TerminateReturns, Generate, vars
  <2>. QED
    BY <1>a, <2>1 DEF InHand
<1>. QED
  BY <1>1, <1>2, <1>3, <1>4, <1>5, <1>6
  DEF Next, ReceiverStep, HandlerStep, LoggerStep

-----------------------------------------------------------------------------
(* The inductive invariant holds in every state.                           *)
THEOREM Invariance == Spec => []IInv
<1>1. ASSUME IInv, [Next]_vars PROVE IInv'
  BY <1>1, TypeStep, CountLockStep, LoggerLockStep, AccountStep, BatchStep,
     AwakeStep DEF IInv
<1>. QED
  BY <1>1, InitEstablishes, PTL DEF Spec

(* The variables of the receivers and the logger always have their types.  *)
THEOREM TypeCorrect == Spec => []TypeOK
<1>1. IInv => TypeOK
  BY DEF IInv
<1>. QED
  BY <1>1, Invariance, PTL

(* No update of the queue is without its lock, and the counters are only   *)
(* stored by the thread that owns theirs (receiver.cpp 43-63).             *)
THEOREM LocksAreHeld == Spec => [](CountLockInv /\ LoggerLockInv)
<1>1. IInv => CountLockInv /\ LoggerLockInv
  BY DEF IInv
<1>. QED
  BY <1>1, Invariance, PTL

(* Every counted signal is in a receiver's hands, in the queue or in the   *)
(* received total (receiver.cpp 43-63, logger.cpp 47-83).                  *)
THEOREM NoSignalLost == Spec => []EverySignalAccounted
<1>1. IInv => EverySignalAccounted
  BY DEF IInv
<1>. QED
  BY <1>1, Invariance, PTL

(* The queue never holds more than a batch, and nothing but a whole batch  *)
(* is reported (receiver.cpp 51-62, logger.cpp 41-47).                     *)
THEOREM WholeBatches == Spec => []BatchesAreFull
<1>1. IInv => BatchesAreFull
  BY DEF IInv
<1>. QED
  BY <1>1, Invariance, PTL

(* The receivers and the logger never all wait for each other              *)
(* (receiver.cpp 51-53, logger.cpp 41-42).                                 *)
THEOREM SomeoneIsAwake == Spec => []NeverAllAsleep
<1>1. IInv => NeverAllAsleep
  BY DEF IInv, AwakeInv, NeverAllAsleep
<1>. QED
  BY <1>1, Invariance, PTL
=============================================================================
