--------------------------- MODULE EventSimStats ---------------------------
(***************************************************************************)
(* The simulator with the statistics it prints at the end (main.cpp 75-79, *)
(* 113-178, 210-239, 251-306): samples of each queue's size, its maximum,  *)
(* the busy time and the finished jobs of each component.                  *)
(***************************************************************************)
EXTENDS EventSim, FiniteSetsExt

(* What the counters of main may hold before their first use, in which     *)
(* nothing sets them.  A large value would let the unsigned ones wrap.     *)
CONSTANT Leftovers

ASSUME LeftoversAssumption == Leftovers \subseteq Nat

VARIABLES
    size_entry,     \* the samples of each queue: their sum and their number
    size_max,
    utilization,
    job_count,
    leftover,       \* what all counters held at first
    longest         \* history: the greatest size each queue has had

counters == <<size_entry, size_max, utilization, job_count>>

statVars == <<vars, counters, leftover, longest>>

StatInit ==
    /\ Init
    /\ leftover \in Leftovers
    /\ size_entry = [c \in Components |-> [total |-> 0, amount |-> 0]]
    /\ size_max = [c \in Components |-> leftover]
    /\ utilization = [c \in Components |-> leftover]
    /\ job_count = [c \in Components |-> leftover]
    /\ longest = [c \in Components |-> 0]

-----------------------------------------------------------------------------
(* Samples and maximum are those of the queue before the event is handled. *)
SampleSize(c) ==
    size_entry' = [size_entry EXCEPT
                      ![c] = [total |-> @.total + Len(queue[c]),
                              amount |-> @.amount + 1]]

(* The maximum is brought up to date only while the component is free.     *)
UpdateMaxWhenFree(c) ==
    size_max' = [size_max EXCEPT
                    ![c] = IF occupied[c] THEN @ ELSE Max({@, Len(queue[c])})]

UpdateMax(c) ==
    size_max' = [size_max EXCEPT ![c] = Max({@, Len(queue[c])})]

(* The finish this step schedules at c, if any.                            *)
Started(c) == {f \in sim_queue' \ sim_queue : f.event = FINISH(c)}

(* The service time that was drawn: the finish counts from the new clock.  *)
AddServiceTime(c) ==
    utilization' =
        [utilization EXCEPT
            ![c] = IF Started(c) = {} THEN @
                   ELSE @ + (CHOOSE f \in Started(c) : TRUE).time - sim_time']

(* A job is counted only if another one waits.                             *)
CountJobIfNext(c) ==
    job_count' = [job_count EXCEPT ![c] = IF queue[c] = <<>> THEN @ ELSE @ + 1]

CountJob(c) == job_count' = [job_count EXCEPT ![c] = @ + 1]

(* A CPU that is free starts without adding the time to cpu_utilization.   *)
CountCpuArrival(e) ==
    /\ CpuArrival(e)
    /\ SampleSize("cpu") /\ UpdateMax("cpu")
    /\ UNCHANGED <<utilization, job_count>>

CountCpuFinish(e) ==
    /\ CpuFinish(e)
    /\ UpdateMax("cpu") /\ CountJob("cpu") /\ AddServiceTime("cpu")
    /\ IF queue["cpu"] = <<>> THEN UNCHANGED size_entry ELSE SampleSize("cpu")

(* As at the CPU, the time of a job that finds the device free is left out.*)
CountDeviceArrivalUntimed(c, e) ==
    /\ DeviceArrival(c, e)
    /\ SampleSize(c) /\ UpdateMax(c)
    /\ UNCHANGED <<utilization, job_count>>

CountDeviceArrival(c, e) ==
    /\ DeviceArrival(c, e)
    /\ SampleSize(c) /\ UpdateMax(c) /\ AddServiceTime(c)
    /\ UNCHANGED job_count

CountDeviceFinish(c, e) ==
    /\ DeviceFinish(c, e)
    /\ SampleSize(c) /\ UpdateMax(c) /\ CountJob(c) /\ AddServiceTime(c)

StatNext ==
    /\ \E e \in sim_queue :
          \/ (JobArrival(e) \/ JobQuit(e)) /\ UNCHANGED counters
          \/ CountCpuArrival(e) \/ CountCpuFinish(e)
          \/ \E c \in Devices : CountDeviceArrival(c, e) \/ CountDeviceFinish(c, e)
    /\ longest' = [c \in Components |-> Max({longest[c], Len(queue[c])'})]
    /\ UNCHANGED leftover

StatSpec == StatInit /\ [][StatNext]_statVars /\ WF_statVars(StatNext)

-----------------------------------------------------------------------------
(***************************************************************************)
(* The maximum printed is the greatest size the queue has had, or one less *)
(* when the queue has just reached it, or what the variable held at first; *)
(* the average does not exceed it (main.cpp 115-118, 135-136, 251-254).    *)
(***************************************************************************)
MaximumLagsByOne ==
    \A c \in Components :
       /\ longest[c] > size_max[c] =>
             size_max[c] = longest[c] - 1 /\ Len(queue[c]) = longest[c]
       /\ size_max[c] <= Max({leftover, longest[c]})
       /\ size_entry[c].total <= size_entry[c].amount * size_max[c]

Finished(c) == job_count[c] - leftover

(* The jobs at device c: arriving, waiting or being served.                *)
JobsAt(c) ==
    Len(queue[c])
    + Cardinality({e \in sim_queue : e.event \in {ARRIVAL(c), FINISH(c)}})

(***************************************************************************)
(* The throughputs add up: each job the CPU has finished has gone to a     *)
(* device, where it was counted or still is, or has left or is about to    *)
(* (main.cpp 138-158, 285-290).                                            *)
(***************************************************************************)
ThroughputsAddUp ==
    Finished("cpu") =
        (Finished("disk1") + JobsAt("disk1"))
        + (Finished("disk2") + JobsAt("disk2"))
        + (Finished("network") + JobsAt("network"))
        + Cardinality({e \in sim_queue : e.event = JOB_QUIT})
        + Cardinality({n \in 1..cur_job_num : Places(n) = {}})

(***************************************************************************)
(* The busy time of a device is that of the jobs it has finished and of    *)
(* the one it serves, over all orders of events; the CPU's is not more     *)
(* than that (main.cpp 171, 262, 300).  That the CPU's may be less, down   *)
(* to nothing, is not claimed: line 124 leaves out the jobs that find it   *)
(* free, against "time_the_server_is_busy" (README 109).                   *)
(***************************************************************************)
BusyTimeMatchesJobs ==
    \A c \in Components :
       LET busy == utilization[c] - leftover
           served == Finished(c) + IF occupied[c] THEN 1 ELSE 0
       IN  /\ busy <= served * Max(ServiceTimes(c))
           /\ c \in Devices => busy >= served * Min(ServiceTimes(c))
=============================================================================
