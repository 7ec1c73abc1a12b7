------------------------------ MODULE EventSim ------------------------------
(***************************************************************************)
(* The discrete event simulator: the loop of main (main.cpp 88-197) over   *)
(* the event queue, the CPU, two disks and the network, each with a FIFO   *)
(* queue of jobs, and ComponentHandler (245-307).  One step handles one    *)
(* event.  EventSimStats adds the statistics.                              *)
(***************************************************************************)
EXTENDS Integers, Sequences, FiniteSets

CONSTANTS
    INIT_TIME, FIN_TIME, ARRIVE_MIN, ARRIVE_MAX, CPU_MIN, CPU_MAX,
    DISK1_MIN, DISK1_MAX, DISK2_MIN, DISK2_MAX, NETWORK_MIN, NETWORK_MAX,
    QUIT_PROB, NETWORK_PROB

(* INIT_TIME < FIN_TIME is tested by main; the rest is what randomNum      *)
(* needs, and that no service and no gap between arrivals is negative.     *)
ASSUME TimesAssumption == INIT_TIME \in Nat /\ FIN_TIME \in Nat
                          /\ INIT_TIME < FIN_TIME
ASSUME RangesAssumption ==
    /\ ARRIVE_MIN \in Nat /\ ARRIVE_MAX \in Nat /\ ARRIVE_MIN <= ARRIVE_MAX
    /\ CPU_MIN \in Nat /\ CPU_MAX \in Nat /\ CPU_MIN <= CPU_MAX
    /\ DISK1_MIN \in Nat /\ DISK1_MAX \in Nat /\ DISK1_MIN <= DISK1_MAX
    /\ DISK2_MIN \in Nat /\ DISK2_MAX \in Nat /\ DISK2_MIN <= DISK2_MAX
    /\ NETWORK_MIN \in Nat /\ NETWORK_MAX \in Nat /\ NETWORK_MIN <= NETWORK_MAX
ASSUME ProbabilitiesAssumption == QUIT_PROB \in Int /\ NETWORK_PROB \in Int

VARIABLES
    sim_time,
    cur_job_num,
    sim_queue,      \* the pending events, each with its job and its time
    queue,          \* the jobs waiting for each component
    occupied,       \* is the component serving a job?
    last            \* the time of the event handled last

vars == <<sim_time, cur_job_num, sim_queue, queue, occupied, last>>

Devices == {"disk1", "disk2", "network"}
Components == Devices \union {"cpu"}

JOB_ARRIVAL == <<"arrived in simulation", "simulation">>
JOB_QUIT    == <<"quit the simulation", "simulation">>
ARRIVAL(c)  == <<"arrived", c>>
FINISH(c)   == <<"finished", c>>

Job(n, e, t) == [num |-> n, event |-> e, time |-> t]

(* randomNum(MIN, MAX): what a component takes for one job.                *)
ServiceTimes(c) ==
    CASE c = "cpu"     -> CPU_MIN .. CPU_MAX
      [] c = "disk1"   -> DISK1_MIN .. DISK1_MAX
      [] c = "disk2"   -> DISK2_MIN .. DISK2_MAX
      [] c = "network" -> NETWORK_MIN .. NETWORK_MAX

Init ==
    /\ sim_time = INIT_TIME
    /\ cur_job_num = 1
    /\ sim_queue = {Job(1, JOB_ARRIVAL, INIT_TIME)}
    /\ queue = [c \in Components |-> <<>>]
    /\ occupied = [c \in Components |-> FALSE]
    /\ last = INIT_TIME

(* The queue is a heap by time: any of the earliest events may be on top.  *)
(* An event has to be taken away before its job can be pushed again.       *)
Pull(e) ==
    /\ sim_time < FIN_TIME
    /\ e \in sim_queue
    /\ \A f \in sim_queue : e.time <= f.time
    /\ last' = e.time

Push(e, new) == sim_queue' = (sim_queue \ {e}) \union new

-----------------------------------------------------------------------------
(* The number is incremented after use.                                    *)
JobArrivalPostIncrement(e) ==
    /\ Pull(e) /\ e.event = JOB_ARRIVAL
    /\ sim_time' = e.time
    /\ cur_job_num' = cur_job_num + 1
    /\ \E gap \in ARRIVE_MIN .. ARRIVE_MAX :
          Push(e, {Job(cur_job_num, JOB_ARRIVAL, e.time + gap),
                   Job(e.num, ARRIVAL("cpu"), e.time)})
    /\ UNCHANGED <<queue, occupied>>

(* No next job is announced.                                               *)
JobArrivalUnannounced(e) ==
    /\ Pull(e) /\ e.event = JOB_ARRIVAL
    /\ sim_time' = e.time
    /\ cur_job_num' = cur_job_num + 1
    /\ Push(e, {Job(e.num, ARRIVAL("cpu"), e.time)})
    /\ UNCHANGED <<queue, occupied>>

(* A new job is announced, this one goes to the CPU.                       *)
JobArrival(e) ==
    /\ Pull(e) /\ e.event = JOB_ARRIVAL
    /\ sim_time' = e.time
    /\ cur_job_num' = cur_job_num + 1
    /\ \E gap \in ARRIVE_MIN .. ARRIVE_MAX :
          Push(e, {Job(cur_job_num + 1, JOB_ARRIVAL, e.time + gap),
                   Job(e.num, ARRIVAL("cpu"), e.time)})
    /\ UNCHANGED <<queue, occupied>>

JobQuit(e) ==
    /\ Pull(e) /\ e.event = JOB_QUIT
    /\ Push(e, {})
    /\ UNCHANGED <<sim_time, cur_job_num, queue, occupied>>

Enqueue(c, e) ==
    /\ Push(e, {})
    /\ queue' = [queue EXCEPT ![c] = Append(@, e.num)]
    /\ UNCHANGED <<sim_time, occupied>>

(* The finish is scheduled from sim_time, which may be older than e.       *)
CpuArrival(e) ==
    /\ Pull(e) /\ e.event = ARRIVAL("cpu")
    /\ IF occupied["cpu"]
       THEN Enqueue("cpu", e)
       ELSE /\ \E t \in ServiceTimes("cpu") :
                  Push(e, {Job(e.num, FINISH("cpu"), sim_time + t)})
            /\ occupied' = [occupied EXCEPT !["cpu"] = TRUE]
            /\ UNCHANGED <<sim_time, queue>>
    /\ UNCHANGED cur_job_num

(* The finish is scheduled from a clock that is not set.                   *)
DeviceArrivalOldClock(c, e) ==
    /\ Pull(e) /\ e.event = ARRIVAL(c)
    /\ IF occupied[c]
       THEN Enqueue(c, e)
       ELSE /\ \E t \in ServiceTimes(c) :
                  Push(e, {Job(e.num, FINISH(c), sim_time + t)})
            /\ occupied' = [occupied EXCEPT ![c] = TRUE]
            /\ UNCHANGED <<sim_time, queue>>
    /\ UNCHANGED cur_job_num

DeviceArrival(c, e) ==
    /\ Pull(e) /\ e.event = ARRIVAL(c)
    /\ IF occupied[c]
       THEN Enqueue(c, e)
       ELSE /\ sim_time' = e.time
            /\ \E t \in ServiceTimes(c) :
                  Push(e, {Job(e.num, FINISH(c), e.time + t)})
            /\ occupied' = [occupied EXCEPT ![c] = TRUE]
            /\ UNCHANGED queue
    /\ UNCHANGED cur_job_num

(* The component stays busy when nobody waits for it.                      *)
ComponentNotFreed(c, e, moved) ==
    Push(e, {moved}) /\ UNCHANGED <<sim_time, queue, occupied>>

(* Nobody waits: the component is free and sim_time stays what it was.     *)
FreeComponent(c, e, moved) ==
    /\ occupied' = [occupied EXCEPT ![c] = FALSE]
    /\ Push(e, {moved})
    /\ UNCHANGED <<sim_time, queue>>

(* The clock runs ahead to the finish of the job that is started.          *)
StartNextRunningAhead(c, e, moved) ==
    IF queue[c] = <<>>
    THEN FreeComponent(c, e, moved)
    ELSE \E t \in ServiceTimes(c) :
            /\ sim_time' = e.time + t
            /\ Push(e, {moved, Job(Head(queue[c]), FINISH(c), e.time + t)})
            /\ queue' = [queue EXCEPT ![c] = Tail(@)]
            /\ UNCHANGED occupied

(* The finished job moves on; the next one starts, or the component is     *)
(* free.                                                                   *)
StartNext(c, e, moved) ==
    IF queue[c] = <<>>
    THEN FreeComponent(c, e, moved)
    ELSE /\ sim_time' = e.time
         /\ \E t \in ServiceTimes(c) :
               Push(e, {moved, Job(Head(queue[c]), FINISH(c), e.time + t)})
         /\ queue' = [queue EXCEPT ![c] = Tail(@)]
         /\ UNCHANGED occupied

(* Disk with the shorter queue, either when they are equal.                *)
DiskChoices ==
    LET one == Len(queue["disk1"])
        two == Len(queue["disk2"])
    IN  IF one < two THEN {"disk1"} ELSE IF two < one THEN {"disk2"}
        ELSE {"disk1", "disk2"}

(* Where one draw from 0..100, <= QUIT_PROB or <= NETWORK_PROB, may lead.  *)
AfterCpu ==
    (IF QUIT_PROB >= 0 THEN {JOB_QUIT} ELSE {})
    \union (IF \E p \in 0..100 : QUIT_PROB < p /\ p <= NETWORK_PROB
            THEN {ARRIVAL("network")} ELSE {})
    \union (IF \E p \in 0..100 : QUIT_PROB < p /\ NETWORK_PROB < p
            THEN {ARRIVAL(d) : d \in DiskChoices} ELSE {})

CpuFinish(e) ==
    /\ Pull(e) /\ e.event = FINISH("cpu")
    /\ \E to \in AfterCpu : StartNext("cpu", e, Job(e.num, to, e.time))
    /\ UNCHANGED cur_job_num

DeviceFinish(c, e) ==
    /\ Pull(e) /\ e.event = FINISH(c)
    /\ StartNext(c, e, Job(e.num, ARRIVAL("cpu"), e.time))
    /\ UNCHANGED cur_job_num

Next ==
    \E e \in sim_queue :
       \/ JobArrival(e) \/ JobQuit(e) \/ CpuArrival(e) \/ CpuFinish(e)
       \/ \E c \in Devices : DeviceArrival(c, e) \/ DeviceFinish(c, e)

Spec == Init /\ [][Next]_vars

-----------------------------------------------------------------------------
Events == {JOB_ARRIVAL, JOB_QUIT} \union {ARRIVAL(c) : c \in Components}
                                  \union {FINISH(c) : c \in Components}

(* The clock, the job numbers, events and queues have the types of         *)
(* main.cpp 23-50, and no time is negative.                                *)
TypeOK ==
    /\ sim_time \in Nat /\ cur_job_num \in Nat /\ last \in Nat
    /\ sim_queue \in SUBSET [num : Nat, event : Events, time : Nat]
    /\ queue \in [Components -> Seq(Nat)]
    /\ occupied \in [Components -> BOOLEAN]

(* No pending event lies in the past: an event is never due before the     *)
(* simulated time.                                                         *)
EventsAhead == \A e \in sim_queue : e.time >= sim_time

(* The simulated time never goes back.                                     *)
TimeAdvances == [][sim_time' >= sim_time]_vars

Finishing(c) == {e \in sim_queue : e.event = FINISH(c)}

(***************************************************************************)
(* A component serves one job while it is occupied and none while it is    *)
(* free, and no job waits for a free component (main.cpp 120-131, 160-176, *)
(* 257-282, 292-305).                                                      *)
(***************************************************************************)
ComponentsConsistent ==
    \A c \in Components :
       /\ Cardinality(Finishing(c)) = IF occupied[c] THEN 1 ELSE 0
       /\ queue[c] # <<>> => occupied[c]

(* The places where job n is: its events and its positions in the queues.  *)
Places(n) ==
    {<<"event", e>> : e \in {f \in sim_queue : f.num = n}}
    \union UNION {{c} \X {i \in DOMAIN queue[c] : queue[c][i] = n} :
                    c \in Components}

(* No job is in two places, and one JOB_ARRIVAL announces the next one.    *)
JobPlacedOnce ==
    /\ \A n \in 1..cur_job_num : Cardinality(Places(n)) <= 1
    /\ {e.num : e \in {f \in sim_queue : f.event = JOB_ARRIVAL}} = {cur_job_num}

(***************************************************************************)
(* A job that has arrived is in one place until a JOB_QUIT takes it away,  *)
(* and there is always exactly one next job on its way (main.cpp 98-158).  *)
(***************************************************************************)
JobsConserved ==
    [][/\ JobPlacedOnce'
       /\ \A n \in 1..cur_job_num :
             (Places(n) # {} /\ Places(n)' = {}) =>
                \E e \in sim_queue : e.num = n /\ e.event = JOB_QUIT]_vars

(* The simulation reaches FIN_TIME when gaps and services take time.       *)
SimulationEnds == <>(sim_time >= FIN_TIME)

(***************************************************************************)
(* Events are handled in the order of their times, but for one: only a     *)
(* CPU_FINISH, whose time counts from a clock that was not set (main.cpp   *)
(* 128, 175, 304), may come after a later event.                           *)
(***************************************************************************)
OnlyCpuRunsLate ==
    [][last' < last =>
          \E e \in sim_queue \ sim_queue' : e.event = FINISH("cpu")]_vars
=============================================================================
