---------------------------- MODULE SignalLogger ----------------------------
(***************************************************************************)
(* The signal-handling process once it is set up: the receiver threads in  *)
(* ReceiveSignal and HandleSignal (receiver.cpp), the Logger on the main   *)
(* thread (logger.cpp), the SIGTERM handler that interrupts that thread    *)
(* (initialize.cpp 44-51), and the locks, condition variables and counters *)
(* they share.                                                             *)
(***************************************************************************)
EXTENDS Integers, FiniteSets

CONSTANTS
    Receivers,         \* the receiver threads
    SIGUSR1, SIGUSR2,
    Assigned,          \* the signal each receiver has unblocked
    Capacity,          \* 16, the entries of a batch
    CountLimit,        \* 100000, where standard mode stops
    TIME_TRIAL,        \* the mode
    Sends,             \* bound: how often each signal is sent
    SpuriousWakeups,   \* may pthread_cond_wait return without a signal?
    Logger, Nobody     \* the main thread of the process; no thread

Signals == {SIGUSR1, SIGUSR2}

ASSUME ReceiversAssumption == IsFiniteSet(Receivers) /\ Receivers # {}
ASSUME SignalsAssumption == SIGUSR1 # SIGUSR2
ASSUME AssignedAssumption == Assigned \in [Receivers -> Signals]
ASSUME NumbersAssumption ==
    Capacity \in Nat \ {0} /\ CountLimit \in Nat /\ Sends \in Nat
ASSUME ModesAssumption == TIME_TRIAL \in BOOLEAN /\ SpuriousWakeups \in BOOLEAN
ASSUME NamesAssumption ==
    Logger # Nobody /\ Logger \notin Receivers /\ Nobody \notin Receivers

VARIABLES
    PROGRAM_RUNNING,
    sent,           \* kills of each signal by the generators
    pending,        \* signals pending for the process: a set, not a queue
    count,          \* SIGUSR1_COUNT, SIGUSR2_COUNT
    count_lock,     \* the owner of SIGUSR1_LOCK and of SIGUSR2_LOCK
    register,       \* a counter as each receiver has loaded it
    logger_lock,    \* the owner of LOGGER_LOCK
    queue,          \* entries of each signal in LOGGER_QUEUE
    received,       \* sigusr1_received, sigusr2_received
    pc, resume,     \* each receiver's place; where its handler returns to
    logger_pc,
    terminate       \* the SIGTERM handler: "none", "running" or "done"

count_vars  == <<count, count_lock, register>>
sender_vars == <<sent, pending>>
report_vars == <<queue, received>>
vars == <<PROGRAM_RUNNING, sender_vars, count_vars, logger_lock, report_vars,
          pc, resume, logger_pc, terminate>>

(* SIGUSR1_COUNT + SIGUSR2_COUNT, and the entries of a batch.              *)
Total(f) == f[SIGUSR1] + f[SIGUSR2]

Init ==
    /\ PROGRAM_RUNNING = TRUE
    /\ sent = [s \in Signals |-> 0] /\ pending = {}
    /\ count = [s \in Signals |-> 0]
    /\ count_lock = [s \in Signals |-> Nobody]
    /\ register = [r \in Receivers |-> 0]
    /\ logger_lock = Nobody
    /\ queue = [s \in Signals |-> 0] /\ received = [s \in Signals |-> 0]
    /\ pc = [r \in Receivers |-> "loop"]
    /\ resume = [r \in Receivers |-> "loop"]
    /\ logger_pc = "head" /\ terminate = "none"

Goto(r, place) == pc' = [pc EXCEPT ![r] = place]

WakeLogger == IF logger_pc = "waiting" THEN "relock" ELSE logger_pc

Sleeping == {r \in Receivers : pc[r] = "waiting"}

(* pthread_cond_signal(&EMPTIED_SIGNALS): one of the sleeping receivers.   *)
SignalEmptied ==
    IF Sleeping = {} THEN pc' = pc
    ELSE \E r \in Sleeping : Goto(r, "relock")

-----------------------------------------------------------------------------
(* A generator process sends s.  A signal already pending is not queued.   *)
Generate(s) ==
    /\ sent[s] < Sends
    /\ sent' = [sent EXCEPT ![s] = @ + 1]
    /\ pending' = pending \union {s}
    /\ UNCHANGED <<PROGRAM_RUNNING, count_vars, logger_lock, report_vars, pc,
                   resume, logger_pc, terminate>>

(***************************************************************************)
(* Receiver r.  Its signal is masked while its handler runs.               *)
(***************************************************************************)
Deliver(r) ==
    /\ pc[r] \in {"loop", "leave"}
    /\ Assigned[r] \in pending
    /\ pending' = pending \ {Assigned[r]}
    /\ resume' = [resume EXCEPT ![r] = pc[r]]
    /\ Goto(r, "check")
    /\ UNCHANGED <<PROGRAM_RUNNING, sent, count_vars, logger_lock, report_vars,
                   logger_pc, terminate>>

(* SIGUSR1_COUNT + SIGUSR2_COUNT == 100000, read without the locks.        *)
CheckLimit(r) ==
    /\ pc[r] = "check"
    /\ IF ~TIME_TRIAL /\ Total(count) = CountLimit
       THEN PROGRAM_RUNNING' = FALSE /\ Goto(r, resume[r])
       ELSE Goto(r, "lock_count") /\ UNCHANGED PROGRAM_RUNNING
    /\ UNCHANGED <<sender_vars, count_vars, logger_lock, report_vars, resume,
                   logger_pc, terminate>>

(* The counter is loaded without its lock.                                 *)
LoadUnlocked(r) ==
    /\ pc[r] = "lock_count"
    /\ register' = [register EXCEPT ![r] = count[Assigned[r]]]
    /\ Goto(r, "store")
    /\ UNCHANGED <<PROGRAM_RUNNING, sender_vars, count, count_lock, logger_lock,
                   report_vars, resume, logger_pc, terminate>>

LockAndLoad(r) ==
    /\ pc[r] = "lock_count"
    /\ count_lock[Assigned[r]] = Nobody
    /\ count_lock' = [count_lock EXCEPT ![Assigned[r]] = r]
    /\ register' = [register EXCEPT ![r] = count[Assigned[r]]]
    /\ Goto(r, "store")
    /\ UNCHANGED <<PROGRAM_RUNNING, sender_vars, count, logger_lock,
                   report_vars, resume, logger_pc, terminate>>

StoreAndUnlock(r) ==
    /\ pc[r] = "store"
    /\ count' = [count EXCEPT ![Assigned[r]] = register[r] + 1]
    /\ count_lock' = [count_lock EXCEPT ![Assigned[r]] = Nobody]
    /\ register' = [register EXCEPT ![r] = 0]
    /\ Goto(r, "lock_logger")
    /\ UNCHANGED <<PROGRAM_RUNNING, sender_vars, logger_lock, report_vars,
                   resume, logger_pc, terminate>>

(* if for while: a woken receiver does not look at the queue again.        *)
LockLoggerNoRetest(r) ==
    /\ pc[r] \in {"lock_logger", "relock"}
    /\ logger_lock = Nobody
    /\ logger_lock' = r
    /\ Goto(r, IF pc[r] = "relock" THEN "push" ELSE "test")
    /\ UNCHANGED <<PROGRAM_RUNNING, sender_vars, count_vars, report_vars,
                   resume, logger_pc, terminate>>

LockLogger(r) ==
    /\ pc[r] \in {"lock_logger", "relock"}
    /\ logger_lock = Nobody
    /\ logger_lock' = r
    /\ Goto(r, "test")
    /\ UNCHANGED <<PROGRAM_RUNNING, sender_vars, count_vars, report_vars,
                   resume, logger_pc, terminate>>

(* One entry too early: the logger, once woken, does not find a batch.     *)
TestAlmostFull(r) ==
    /\ pc[r] = "test"
    /\ IF Total(queue) >= Capacity - 1
       THEN /\ logger_pc' = WakeLogger
            /\ logger_lock' = Nobody
            /\ Goto(r, "waiting")
       ELSE Goto(r, "push") /\ UNCHANGED <<logger_lock, logger_pc>>
    /\ UNCHANGED <<PROGRAM_RUNNING, sender_vars, count_vars, report_vars,
                   resume, terminate>>

(* while (size == 16) { signal MAX_SIGNALS; wait for EMPTIED_SIGNALS }     *)
TestFull(r) ==
    /\ pc[r] = "test"
    /\ IF Total(queue) = Capacity
       THEN /\ logger_pc' = WakeLogger
            /\ logger_lock' = Nobody
            /\ Goto(r, "waiting")
       ELSE Goto(r, "push") /\ UNCHANGED <<logger_lock, logger_pc>>
    /\ UNCHANGED <<PROGRAM_RUNNING, sender_vars, count_vars, report_vars,
                   resume, terminate>>

ReceiverSpuriousWakeup(r) ==
    /\ SpuriousWakeups
    /\ pc[r] = "waiting"
    /\ Goto(r, "relock")
    /\ UNCHANGED <<PROGRAM_RUNNING, sender_vars, count_vars, logger_lock,
                   report_vars, resume, logger_pc, terminate>>

Push(r) ==
    /\ pc[r] = "push"
    /\ queue' = [queue EXCEPT ![Assigned[r]] = @ + 1]
    /\ logger_lock' = Nobody
    /\ Goto(r, resume[r])
    /\ UNCHANGED <<PROGRAM_RUNNING, sender_vars, count_vars, received, resume,
                   logger_pc, terminate>>

(* while (PROGRAM_RUNNING) sleep: the loop is left between two sleeps.     *)
LeaveLoop(r) ==
    /\ pc[r] = "loop"
    /\ ~PROGRAM_RUNNING
    /\ Goto(r, "leave")
    /\ UNCHANGED <<PROGRAM_RUNNING, sender_vars, count_vars, logger_lock,
                   report_vars, resume, logger_pc, terminate>>

(* The last signal of MAX_SIGNALS, then the thread ends.                   *)
ReceiverEnds(r) ==
    /\ pc[r] = "leave"
    /\ logger_pc' = WakeLogger
    /\ Goto(r, "ended")
    /\ UNCHANGED <<PROGRAM_RUNNING, sender_vars, count_vars, logger_lock,
                   report_vars, resume, terminate>>

-----------------------------------------------------------------------------
(* The main thread, in Logger.  A SIGTERM handler suspends it.             *)
NotInterrupted == terminate # "running"

(* while (PROGRAM_RUNNING), and the sleep that begins each round.          *)
LoggerRound ==
    /\ NotInterrupted
    /\ logger_pc = "head"
    /\ logger_pc' = IF PROGRAM_RUNNING THEN "lock" ELSE "exited"
    /\ UNCHANGED <<PROGRAM_RUNNING, sender_vars, count_vars, logger_lock,
                   report_vars, pc, resume, terminate>>

LoggerLock ==
    /\ NotInterrupted
    /\ logger_pc \in {"lock", "relock"}
    /\ logger_lock = Nobody
    /\ logger_lock' = Logger
    /\ logger_pc' = "test"
    /\ UNCHANGED <<PROGRAM_RUNNING, sender_vars, count_vars, report_vars, pc,
                   resume, terminate>>

(* while (size < 16): the logger does not notice that it has to stop.      *)
LoggerTestSizeOnly ==
    /\ NotInterrupted
    /\ logger_pc = "test"
    /\ logger_pc' = IF Total(queue) < Capacity THEN "wait" ELSE "retest"
    /\ UNCHANGED <<PROGRAM_RUNNING, sender_vars, count_vars, logger_lock,
                   report_vars, pc, resume, terminate>>

(* while (PROGRAM_RUNNING && size < 16)                                    *)
LoggerTest ==
    /\ NotInterrupted
    /\ logger_pc = "test"
    /\ logger_pc' = IF PROGRAM_RUNNING /\ Total(queue) < Capacity
                    THEN "wait" ELSE "retest"
    /\ UNCHANGED <<PROGRAM_RUNNING, sender_vars, count_vars, logger_lock,
                   report_vars, pc, resume, terminate>>

LoggerWait ==
    /\ NotInterrupted
    /\ logger_pc = "wait"
    /\ logger_pc' = "waiting"
    /\ logger_lock' = Nobody
    /\ UNCHANGED <<PROGRAM_RUNNING, sender_vars, count_vars, report_vars, pc,
                   resume, terminate>>

LoggerSpuriousWakeup ==
    /\ SpuriousWakeups /\ NotInterrupted
    /\ logger_pc = "waiting"
    /\ logger_pc' = "relock"
    /\ UNCHANGED <<PROGRAM_RUNNING, sender_vars, count_vars, logger_lock,
                   report_vars, pc, resume, terminate>>

(* if (!PROGRAM_RUNNING) break: LOGGER_LOCK is never given back.           *)
LoggerRetest ==
    /\ NotInterrupted
    /\ logger_pc = "retest"
    /\ logger_pc' = IF PROGRAM_RUNNING THEN "drain" ELSE "exited"
    /\ UNCHANGED <<PROGRAM_RUNNING, sender_vars, count_vars, logger_lock,
                   report_vars, pc, resume, terminate>>

(* The batch is written, added to the received totals and cleared.         *)
Drain ==
    /\ NotInterrupted
    /\ logger_pc = "drain"
    /\ received' = [s \in Signals |-> received[s] + queue[s]]
    /\ queue' = [s \in Signals |-> 0]
    /\ SignalEmptied
    /\ logger_lock' = Nobody
    /\ logger_pc' = "head"
    /\ UNCHANGED <<PROGRAM_RUNNING, sender_vars, count_vars, resume, terminate>>

(***************************************************************************)
(* SIGTERM, which the kernel gives to the main thread: the handler signals *)
(* EMPTIED_SIGNALS, sleeps and signals MAX_SIGNALS.                        *)
(***************************************************************************)
Terminate ==
    /\ terminate = "none"
    /\ logger_pc # "exited"
    /\ terminate' = "running"
    /\ PROGRAM_RUNNING' = FALSE
    /\ SignalEmptied
    /\ UNCHANGED <<sender_vars, count_vars, logger_lock, report_vars, resume,
                   logger_pc>>

TerminateReturns ==
    /\ terminate = "running"
    /\ terminate' = "done"
    /\ logger_pc' = WakeLogger
    /\ UNCHANGED <<PROGRAM_RUNNING, sender_vars, count_vars, logger_lock,
                   report_vars, pc, resume>>

-----------------------------------------------------------------------------
HandlerStep(r) ==
    \/ CheckLimit(r) \/ LockAndLoad(r) \/ StoreAndUnlock(r) \/ LockLogger(r)
    \/ TestFull(r) \/ Push(r)

ReceiverStep(r) ==
    Deliver(r) \/ HandlerStep(r) \/ LeaveLoop(r) \/ ReceiverEnds(r)

LoggerStep ==
    \/ LoggerRound \/ LoggerLock \/ LoggerTest \/ LoggerWait \/ LoggerRetest
    \/ Drain

Next == \/ \E s \in Signals : Generate(s)
        \/ \E r \in Receivers : ReceiverStep(r) \/ ReceiverSpuriousWakeup(r)
        \/ LoggerStep \/ LoggerSpuriousWakeup
        \/ Terminate \/ TerminateReturns

Spec == Init /\ [][Next]_vars

(* Threads are scheduled; nobody need send signals or SIGTERM.  A mutex    *)
(* that is released again and again is not kept from the logger for ever,  *)
(* as spurious wakeups are rare.                                           *)
FairSpec == /\ Spec
            /\ \A r \in Receivers : WF_vars(ReceiverStep(r))
            /\ WF_vars(LoggerStep)
            /\ SF_vars(LoggerLock)
            /\ WF_vars(TerminateReturns)

-----------------------------------------------------------------------------
(* The threads are at their places, the counters and the queue hold        *)
(* numbers, and a handler returns to the loop or to its end (receiver.cpp  *)
(* 29-86, logger.cpp 36-88).                                               *)
TypeOK ==
    /\ PROGRAM_RUNNING \in BOOLEAN
    /\ sent \in [Signals -> Nat]
    /\ pending \in SUBSET Signals
    /\ count \in [Signals -> Nat]
    /\ count_lock \in [Signals -> Receivers \union {Nobody}]
    /\ register \in [Receivers -> Nat]
    /\ logger_lock \in Receivers \union {Logger, Nobody}
    /\ queue \in [Signals -> Nat]
    /\ received \in [Signals -> Nat]
    /\ pc \in [Receivers -> {"loop", "check", "lock_count", "store",
                             "lock_logger", "test", "waiting", "relock",
                             "push", "leave", "ended"}]
    /\ resume \in [Receivers -> {"loop", "leave"}]
    /\ logger_pc \in {"head", "lock", "test", "wait", "waiting", "relock",
                      "retest", "drain", "exited"}
    /\ terminate \in {"none", "running", "done"}

(* Receivers that have counted their signal and not yet queued its entry.  *)
InHand(s) == {r \in Receivers :
                /\ Assigned[r] = s
                /\ pc[r] \in {"lock_logger", "test", "waiting", "relock", "push"}}

(***************************************************************************)
(* Nothing between the counters and the report is lost or counted twice: a *)
(* counted signal is in the hands of a receiver, in the queue or in the    *)
(* received total, so "loss" (logger.cpp 96-97) is the unfinished batch.   *)
(***************************************************************************)
EverySignalAccounted ==
    \A s \in Signals :
       count[s] = received[s] + queue[s] + Cardinality(InHand(s))

(***************************************************************************)
(* "When 16 signals (in total) have arrived, log the following" (notes     *)
(* 21): a batch is never larger or smaller than that.                      *)
(***************************************************************************)
BatchesAreFull == /\ Total(queue) <= Capacity
                  /\ logger_pc = "drain" => Total(queue) = Capacity

(* The last receiver to wait for room has woken the logger: they never all *)
(* sleep on each other.                                                    *)
NeverAllAsleep ==
    ~(logger_pc = "waiting" /\ \A r \in Receivers : pc[r] = "waiting")

(* SIGTERM ends the logger when it does not fall between the logger's test *)
(* and its wait (initialize.cpp 44-51).                                    *)
TerminateEndsLogger ==
    (terminate = "running" /\ logger_pc # "wait") ~> logger_pc = "exited"

(***************************************************************************)
(* "Release the logger in case it's waiting" (initialize.cpp 50): after    *)
(* SIGTERM the logger ends.                                                *)
(***************************************************************************)
LoggerIsReleased == terminate = "done" ~> logger_pc = "exited"
=============================================================================
