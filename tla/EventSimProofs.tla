--------------------------- MODULE EventSimProofs ---------------------------
(***************************************************************************)
(* Proofs about EventSim and EventSimStats: the clock of the simulation    *)
(* and its pending events, the jobs and the components, and what the       *)
(* printed maxima, busy times and throughputs say of the jobs, for any     *)
(* configuration and whatever the counters held at first.                  *)
(***************************************************************************)
EXTENDS EventSimStats, FiniteSetTheorems, TLAPS

(* The inductive invariant.                                                *)
IInv == TypeOK /\ EventsAhead

(* What randomNum returns for a component is not negative.                 *)
LEMMA ServiceTimesAreNatural ==
  ASSUME NEW c \in Components
  PROVE  ServiceTimes(c) \subseteq Nat
  BY RangesAssumption DEF ServiceTimes, Components, Devices

(* A job that is made or moved on is a job.                                *)
LEMMA JobType ==
  ASSUME NEW n \in Nat, NEW ev \in Events, NEW t \in Nat
  PROVE  /\ Job(n, ev, t) \in [num : Nat, event : Events, time : Nat]
         /\ Job(n, ev, t).time = t
  BY DEF Job

(* The event on top of the heap is a job of now or later, and every other  *)
(* pending event is no earlier.                                            *)
LEMMA PulledEvent ==
  ASSUME IInv, NEW e \in sim_queue, Pull(e)
  PROVE  /\ e.num \in Nat /\ e.time \in Nat /\ e.event \in Events
         /\ e.time >= sim_time
         /\ \A f \in sim_queue : f.time \in Nat /\ f.time >= e.time
         /\ last' \in Nat
<1>1. \A f \in sim_queue : f \in [num : Nat, event : Events, time : Nat]
  BY DEF IInv, TypeOK
<1>2. e.num \in Nat /\ e.time \in Nat /\ e.event \in Events
  BY <1>1
<1>3. \A f \in sim_queue : f.time \in Nat /\ e.time <= f.time
  BY <1>1 DEF Pull
<1>. QED
  BY <1>2, <1>3 DEF Pull, IInv, EventsAhead

(* A step keeps the invariant if its clock stays at or behind the pulled   *)
(* event and what it pushes is due no earlier than the clock.              *)
LEMMA PushKeeps ==
  ASSUME IInv, NEW e \in sim_queue, Pull(e),
         NEW new \in SUBSET [num : Nat, event : Events, time : Nat],
         Push(e, new),
         sim_time' \in {sim_time, e.time},
         \A f \in new : f.time >= sim_time',
         cur_job_num' \in Nat,
         queue' \in [Components -> Seq(Nat)],
         occupied' \in [Components -> BOOLEAN]
  PROVE  IInv' /\ sim_time' >= sim_time
<1>1. sim_queue' = (sim_queue \ {e}) \union new
  BY DEF Push
<1>2. sim_time \in Nat /\ sim_time' \in Nat /\ sim_time' <= e.time
      /\ sim_time' >= sim_time
  BY PulledEvent DEF IInv, TypeOK
<1>3. TypeOK'
  BY <1>1, <1>2, PulledEvent DEF IInv, TypeOK
<1>4. \A f \in sim_queue' : f.time >= sim_time'
  BY <1>1, <1>2, PulledEvent
<1>. QED
  BY <1>2, <1>3, <1>4 DEF IInv, EventsAhead

(* Appending to or taking from a queue of job numbers leaves one.          *)
LEMMA QueuesOfJobs ==
  ASSUME TypeOK, NEW c \in Components
  PROVE  /\ \A n \in Nat : [queue EXCEPT ![c] = Append(@, n)]
                              \in [Components -> Seq(Nat)]
         /\ queue[c] # <<>> =>
              /\ Head(queue[c]) \in Nat
              /\ [queue EXCEPT ![c] = Tail(@)] \in [Components -> Seq(Nat)]
  BY DEF TypeOK

(* The component is freed or starts its next job.                          *)
LEMMA StartNextKeeps ==
  ASSUME IInv, NEW e \in sim_queue, Pull(e), NEW c \in Components,
         NEW ev \in Events, StartNext(c, e, Job(e.num, ev, e.time)),
         UNCHANGED cur_job_num
  PROVE  IInv' /\ sim_time' >= sim_time
<1> DEFINE moved == Job(e.num, ev, e.time)
<1>1. /\ moved \in [num : Nat, event : Events, time : Nat]
      /\ moved.time = e.time
  BY PulledEvent, JobType
<1>2. TypeOK /\ sim_time \in Nat /\ cur_job_num' \in Nat
  BY DEF IInv, TypeOK
<1>3. CASE queue[c] = <<>>
  <2>1. /\ Push(e, {moved})
        /\ sim_time' = sim_time /\ queue' = queue
        /\ occupied' = [occupied EXCEPT ![c] = FALSE]
    BY <1>3 DEF StartNext, FreeComponent
  <2>2. occupied' \in [Components -> BOOLEAN] /\ queue' \in [Components -> Seq(Nat)]
    BY <1>2, <2>1 DEF TypeOK
  <2> HIDE DEF moved
  <2>. QED
    BY <1>1, <1>2, <2>1, <2>2, PulledEvent, PushKeeps
<1>4. CASE queue[c] # <<>>
  <2>1. PICK t \in ServiceTimes(c) :
           Push(e, {moved, Job(Head(queue[c]), FINISH(c), e.time + t)})
    BY <1>4 DEF StartNext
  <2> DEFINE next == Job(Head(queue[c]), FINISH(c), e.time + t)
  <2>2. t \in Nat
    BY ServiceTimesAreNatural
  <2>3. FINISH(c) \in Events
    BY DEF Events
  <2>4. Head(queue[c]) \in Nat
    BY <1>2, <1>4, QueuesOfJobs
  <2>5. e.time \in Nat /\ e.time + t \in Nat /\ e.time + t >= e.time
    BY <2>2, PulledEvent
  <2>6. /\ next \in [num : Nat, event : Events, time : Nat]
        /\ next.time = e.time + t
    BY <2>3, <2>4, <2>5, JobType
  <2>7. /\ sim_time' = e.time
        /\ queue' = [queue EXCEPT ![c] = Tail(@)]
        /\ occupied' = occupied
    BY <1>4 DEF StartNext
  <2>8. queue' \in [Components -> Seq(Nat)] /\ occupied' \in [Components -> BOOLEAN]
    BY <1>2, <1>4, <2>7, QueuesOfJobs DEF TypeOK
  <2>9. Push(e, {moved, next})
    BY <2>1
  <2> HIDE DEF moved, next
  <2>10. /\ {moved, next} \in SUBSET [num : Nat, event : Events, time : Nat]
         /\ \A f \in {moved, next} : f.time >= sim_time'
    BY <1>1, <2>5, <2>6, <2>7
  <2>. QED
    BY <1>2, <2>7, <2>8, <2>9, <2>10, PushKeeps
<1>. QED
  BY <1>3, <1>4

(* Every step keeps the invariant, and the clock does not go back.         *)
LEMMA Step ==
  ASSUME IInv, [Next]_vars
  PROVE  IInv' /\ sim_time' >= sim_time
<1>0. TypeOK /\ sim_time \in Nat /\ cur_job_num \in Nat
  BY DEF IInv, TypeOK
<1>1. ASSUME NEW e \in sim_queue, JobArrival(e)
      PROVE  IInv' /\ sim_time' >= sim_time
  <2>1. PICK gap \in ARRIVE_MIN .. ARRIVE_MAX :
           Push(e, {Job(cur_job_num + 1, JOB_ARRIVAL, e.time + gap),
                    Job(e.num, ARRIVAL("cpu"), e.time)})
    BY <1>1 DEF JobArrival
  <2> DEFINE announced == Job(cur_job_num + 1, JOB_ARRIVAL, e.time + gap)
             arrived == Job(e.num, ARRIVAL("cpu"), e.time)
  <2>2. Pull(e) /\ e.num \in Nat /\ e.time \in Nat
    BY <1>1, PulledEvent DEF JobArrival
  <2>3. gap \in Nat /\ e.time + gap \in Nat /\ e.time + gap >= e.time
    BY <2>2, RangesAssumption
  <2>4. JOB_ARRIVAL \in Events /\ ARRIVAL("cpu") \in Events
    BY DEF Events, Components
  <2>5. cur_job_num + 1 \in Nat
    BY <1>0
  <2>6. /\ announced \in [num : Nat, event : Events, time : Nat]
        /\ announced.time = e.time + gap
    BY <2>3, <2>4, <2>5, JobType
  <2>7. /\ arrived \in [num : Nat, event : Events, time : Nat]
        /\ arrived.time = e.time
    BY <2>2, <2>4, JobType
  <2>8. /\ sim_time' = e.time /\ cur_job_num' \in Nat
        /\ queue' \in [Components -> Seq(Nat)]
        /\ occupied' \in [Components -> BOOLEAN]
    BY <1>0, <1>1 DEF JobArrival, TypeOK
  <2>9. Push(e, {announced, arrived})
    BY <2>1
  <2> HIDE DEF announced, arrived
  <2>10. /\ {announced, arrived} \in SUBSET [num : Nat, event : Events, time : Nat]
         /\ \A f \in {announced, arrived} : f.time >= sim_time'
    BY <2>2, <2>3, <2>6, <2>7, <2>8
  <2>. QED
    BY <2>2, <2>8, <2>9, <2>10, PushKeeps
<1>2. ASSUME NEW e \in sim_queue, JobQuit(e)
      PROVE  IInv' /\ sim_time' >= sim_time
  BY <1>0, <1>2, PushKeeps DEF JobQuit, TypeOK
<1>3. ASSUME NEW e \in sim_queue, NEW c \in Components,
             Pull(e), Enqueue(c, e), UNCHANGED cur_job_num
      PROVE  IInv' /\ sim_time' >= sim_time
  <2>1. e.num \in Nat
    BY <1>3, PulledEvent
  <2>2. queue' \in [Components -> Seq(Nat)]
    BY <1>0, <1>3, <2>1, QueuesOfJobs DEF Enqueue
  <2>3. /\ Push(e, {}) /\ sim_time' = sim_time
        /\ cur_job_num' \in Nat
        /\ occupied' \in [Components -> BOOLEAN]
    BY <1>0, <1>3 DEF Enqueue, TypeOK
  <2>4. {} \in SUBSET [num : Nat, event : Events, time : Nat]
    OBVIOUS
  <2>. QED
    BY <1>3, <2>2, <2>3, <2>4, PushKeeps
<1>4. ASSUME NEW e \in sim_queue, NEW c \in Components, Pull(e),
             NEW from \in Nat, from >= sim_time',
             sim_time' \in {sim_time, e.time},
             \E t \in ServiceTimes(c) : Push(e, {Job(e.num, FINISH(c), from + t)}),
             occupied' = [occupied EXCEPT ![c] = TRUE],
             UNCHANGED <<queue, cur_job_num>>
      PROVE  IInv' /\ sim_time' >= sim_time
  <2>1. PICK t \in ServiceTimes(c) : Push(e, {Job(e.num, FINISH(c), from + t)})
    BY <1>4
  <2> DEFINE served == Job(e.num, FINISH(c), from + t)
  <2>2. e.num \in Nat /\ e.time \in Nat /\ sim_time' \in Nat
    BY <1>0, <1>4, PulledEvent
  <2>3. t \in Nat /\ from + t \in Nat /\ from + t >= sim_time'
    BY <1>4, <2>2, ServiceTimesAreNatural
  <2>4. FINISH(c) \in Events
    BY DEF Events
  <2>5. /\ served \in [num : Nat, event : Events, time : Nat]
        /\ served.time >= sim_time'
    BY <2>2, <2>3, <2>4, JobType
  <2>6. /\ cur_job_num' \in Nat
        /\ queue' \in [Components -> Seq(Nat)]
        /\ occupied' \in [Components -> BOOLEAN]
    BY <1>0, <1>4 DEF TypeOK
  <2>7. Push(e, {served})
    BY <2>1
  <2> HIDE DEF served
  <2>. QED
    BY <1>4, <2>5, <2>6, <2>7, PushKeeps
<1>5. ASSUME NEW e \in sim_queue, CpuArrival(e)
      PROVE  IInv' /\ sim_time' >= sim_time
  <2>1. "cpu" \in Components
    BY DEF Components
  <2>. QED
    BY <1>0, <1>3, <1>4, <1>5, <2>1 DEF CpuArrival
<1>6. ASSUME NEW e \in sim_queue, NEW c \in Devices, DeviceArrival(c, e)
      PROVE  IInv' /\ sim_time' >= sim_time
  <2>1. c \in Components /\ Pull(e) /\ e.time \in Nat
    BY <1>6, PulledEvent DEF Components, DeviceArrival
  <2>2. CASE occupied[c]
    BY <1>3, <1>6, <2>1, <2>2 DEF DeviceArrival
  <2>3. CASE ~occupied[c]
    <3>1. /\ sim_time' = e.time
          /\ \E t \in ServiceTimes(c) : Push(e, {Job(e.num, FINISH(c), e.time + t)})
          /\ occupied' = [occupied EXCEPT ![c] = TRUE]
          /\ UNCHANGED <<queue, cur_job_num>>
      BY <1>6, <2>3 DEF DeviceArrival
    <3>2. e.time >= sim_time'
      BY <2>1, <3>1
    <3>. QED
      BY <1>4, <2>1, <3>1, <3>2
  <2>. QED
    BY <2>2, <2>3
<1>7. ASSUME NEW e \in sim_queue, CpuFinish(e)
      PROVE  IInv' /\ sim_time' >= sim_time
  <2>1. AfterCpu \subseteq Events
    BY DEF AfterCpu, DiskChoices, Events, Components, Devices
  <2>. QED
    BY <1>7, <2>1, StartNextKeeps DEF CpuFinish, Components
<1>8. ASSUME NEW e \in sim_queue, NEW c \in Devices, DeviceFinish(c, e)
      PROVE  IInv' /\ sim_time' >= sim_time
  <2>1. ARRIVAL("cpu") \in Events /\ c \in Components
    BY DEF Events, Components
  <2>. QED
    BY <1>8, <2>1, StartNextKeeps DEF DeviceFinish
<1>9. CASE UNCHANGED vars
  BY <1>0, <1>9 DEF IInv, TypeOK, EventsAhead, vars
<1>. QED
  BY <1>1, <1>2, <1>5, <1>6, <1>7, <1>8, <1>9 DEF Next

(* Every reachable state satisfies the inductive invariant.                *)
THEOREM Invariance == Spec => []IInv
<1>1. Init => IInv
  BY TimesAssumption
     DEF Init, IInv, TypeOK, EventsAhead, Job, Events
<1>2. IInv /\ [Next]_vars => IInv'
  BY Step
<1>. QED
  BY <1>1, <1>2, PTL DEF Spec

(* The variables keep their types: no time is ever negative.               *)
THEOREM TypeCorrect == Spec => []TypeOK
  BY Invariance, PTL DEF IInv

(* No pending event lies in the past of the clock.                         *)
THEOREM EventsNeverPast == Spec => []EventsAhead
  BY Invariance, PTL DEF IInv

(* The clock never goes back, although it stands still at some events.     *)
THEOREM TimeNeverBack == Spec => TimeAdvances
<1>1. IInv /\ [Next]_vars => [sim_time' >= sim_time]_vars
  BY Step
<1>. QED
  BY <1>1, Invariance, PTL DEF Spec, TimeAdvances

-----------------------------------------------------------------------------
(***************************************************************************)
(* The jobs and the components.  A step of main.cpp 88-197 does one of six *)
(* things to them, whatever the times it draws.                            *)
(***************************************************************************)
Announces(e) ==
    /\ e.event = JOB_ARRIVAL
    /\ cur_job_num' = cur_job_num + 1
    /\ \E t \in Nat : /\ t >= e.time
                      /\ Push(e, {Job(cur_job_num + 1, JOB_ARRIVAL, t),
                                  Job(e.num, ARRIVAL("cpu"), e.time)})
    /\ UNCHANGED <<queue, occupied>>

Quits(e) ==
    /\ e.event = JOB_QUIT
    /\ Push(e, {})
    /\ UNCHANGED <<cur_job_num, queue, occupied>>

(* It waits for a busy component.                                          *)
Waits(c, e) ==
    /\ e.event = ARRIVAL(c) /\ occupied[c]
    /\ Push(e, {})
    /\ queue' = [queue EXCEPT ![c] = Append(@, e.num)]
    /\ UNCHANGED <<cur_job_num, occupied>>

(* It is served by a free one; only a disk's or the network's finish is    *)
(* known to come after the event.                                          *)
Served(c, e) ==
    /\ e.event = ARRIVAL(c) /\ ~occupied[c]
    /\ \E t \in Nat : /\ c # "cpu" => t >= e.time
                      /\ Push(e, {Job(e.num, FINISH(c), t)})
    /\ occupied' = [occupied EXCEPT ![c] = TRUE]
    /\ UNCHANGED <<cur_job_num, queue>>

(* The CPU's jobs quit or go to a device, those of a device to the CPU.    *)
Destinations(c) ==
    IF c = "cpu" THEN {JOB_QUIT} \union {ARRIVAL(d) : d \in Devices}
    ELSE {ARRIVAL("cpu")}

(* It leaves a component that nobody waits for.                            *)
Frees(c, e) ==
    /\ e.event = FINISH(c) /\ queue[c] = <<>>
    /\ \E to \in Destinations(c) : Push(e, {Job(e.num, to, e.time)})
    /\ occupied' = [occupied EXCEPT ![c] = FALSE]
    /\ UNCHANGED <<cur_job_num, queue>>

(* It leaves a component to the first that waits.                          *)
Follows(c, e) ==
    /\ e.event = FINISH(c) /\ queue[c] # <<>>
    /\ \E to \in Destinations(c), t \in Nat :
          /\ t >= e.time
          /\ Push(e, {Job(e.num, to, e.time), Job(Head(queue[c]), FINISH(c), t)})
    /\ queue' = [queue EXCEPT ![c] = Tail(@)]
    /\ UNCHANGED <<cur_job_num, occupied>>

Handled(e) ==
    \/ Announces(e) \/ Quits(e)
    \/ \E c \in Components :
          Waits(c, e) \/ Served(c, e) \/ Frees(c, e) \/ Follows(c, e)

LEMMA StartNextShape ==
  ASSUME IInv, NEW e \in sim_queue, Pull(e), NEW c \in Components,
         e.event = FINISH(c), NEW to \in Destinations(c),
         StartNext(c, e, Job(e.num, to, e.time)), UNCHANGED cur_job_num
  PROVE  Frees(c, e) \/ Follows(c, e)
<1>1. CASE queue[c] = <<>>
  BY <1>1 DEF StartNext, FreeComponent, Frees
<1>2. CASE queue[c] # <<>>
  <2>1. PICK t \in ServiceTimes(c) :
           Push(e, {Job(e.num, to, e.time),
                    Job(Head(queue[c]), FINISH(c), e.time + t)})
    BY <1>2 DEF StartNext
  <2>2. e.time + t \in Nat /\ e.time + t >= e.time
    BY PulledEvent, ServiceTimesAreNatural
  <2>3. queue' = [queue EXCEPT ![c] = Tail(@)] /\ UNCHANGED occupied
    BY <1>2 DEF StartNext
  <2>. QED
    BY <1>2, <2>1, <2>2, <2>3 DEF Follows
<1>. QED
  BY <1>1, <1>2

(* What the handlers do in the words above.                                *)
LEMMA JobArrivalShape ==
  ASSUME IInv, NEW e \in sim_queue, JobArrival(e)
  PROVE  Pull(e) /\ Announces(e)
<1>1. PICK gap \in ARRIVE_MIN .. ARRIVE_MAX :
         Push(e, {Job(cur_job_num + 1, JOB_ARRIVAL, e.time + gap),
                  Job(e.num, ARRIVAL("cpu"), e.time)})
  BY DEF JobArrival
<1>2. Pull(e)
  BY DEF JobArrival
<1>3. e.time + gap \in Nat /\ e.time + gap >= e.time
  BY <1>2, PulledEvent, RangesAssumption
<1>. QED
  BY <1>1, <1>2, <1>3 DEF JobArrival, Announces

LEMMA CpuArrivalShape ==
  ASSUME IInv, NEW e \in sim_queue, CpuArrival(e)
  PROVE  Pull(e) /\ (Waits("cpu", e) \/ Served("cpu", e))
<1>1. CASE occupied["cpu"]
  BY <1>1 DEF CpuArrival, Enqueue, Waits
<1>2. CASE ~occupied["cpu"]
  <2>1. PICK t \in ServiceTimes("cpu") :
           Push(e, {Job(e.num, FINISH("cpu"), sim_time + t)})
    BY <1>2 DEF CpuArrival
  <2>2. sim_time + t \in Nat
    BY ServiceTimesAreNatural DEF IInv, TypeOK, Components
  <2>. QED
    BY <1>2, <2>1, <2>2 DEF CpuArrival, Served
<1>. QED
  BY <1>1, <1>2

LEMMA DeviceArrivalShape ==
  ASSUME IInv, NEW e \in sim_queue, NEW c \in Devices, DeviceArrival(c, e)
  PROVE  Pull(e) /\ (Waits(c, e) \/ Served(c, e))
<1>1. CASE occupied[c]
  BY <1>1 DEF DeviceArrival, Enqueue, Waits
<1>2. CASE ~occupied[c]
  <2>1. PICK t \in ServiceTimes(c) :
           Push(e, {Job(e.num, FINISH(c), e.time + t)})
    BY <1>2 DEF DeviceArrival
  <2>2. Pull(e)
    BY DEF DeviceArrival
  <2>3. e.time + t \in Nat /\ e.time + t >= e.time
    BY <2>2, PulledEvent, ServiceTimesAreNatural DEF Components
  <2>. QED
    BY <1>2, <2>1, <2>3 DEF DeviceArrival, Served
<1>. QED
  BY <1>1, <1>2

LEMMA CpuFinishShape ==
  ASSUME IInv, NEW e \in sim_queue, CpuFinish(e)
  PROVE  Pull(e) /\ (Frees("cpu", e) \/ Follows("cpu", e))
<1>1. PICK to \in AfterCpu : StartNext("cpu", e, Job(e.num, to, e.time))
  BY DEF CpuFinish
<1>2. to \in Destinations("cpu") /\ "cpu" \in Components
  BY DEF AfterCpu, DiskChoices, Destinations, Components, Devices
<1>. QED
  BY <1>1, <1>2, StartNextShape DEF CpuFinish

LEMMA DeviceFinishShape ==
  ASSUME IInv, NEW e \in sim_queue, NEW c \in Devices, DeviceFinish(c, e)
  PROVE  Pull(e) /\ (Frees(c, e) \/ Follows(c, e))
<1>1. ARRIVAL("cpu") \in Destinations(c) /\ c \in Components
  BY DEF Destinations, Components, Devices
<1>. QED
  BY <1>1, StartNextShape DEF DeviceFinish

(* Every event is handled in one of these ways.                            *)
LEMMA Shapes ==
  ASSUME IInv, Next
  PROVE  \E e \in sim_queue : Pull(e) /\ Handled(e)
<1>1. "cpu" \in Components /\ Devices \subseteq Components
  BY DEF Components
<1>2. ASSUME NEW e \in sim_queue, JobQuit(e) PROVE Pull(e) /\ Quits(e)
  BY <1>2 DEF JobQuit, Quits
<1>. QED
  BY <1>1, <1>2, JobArrivalShape, CpuArrivalShape, CpuFinishShape,
     DeviceArrivalShape, DeviceFinishShape DEF Next, Handled

(* A job has a number up to cur_job_num.                                   *)
Numbered ==
    /\ \A e \in sim_queue : e.num \in 1..cur_job_num
    /\ \A c \in Components : \A i \in 1..Len(queue[c]) :
          queue[c][i] \in 1..cur_job_num

(* It is one event, or has one position in one queue, never both.          *)
OneEvent == \A e, f \in sim_queue : e.num = f.num => e = f

EventOrQueued ==
    \A e \in sim_queue, c \in Components : \A i \in 1..Len(queue[c]) :
       queue[c][i] # e.num

OnePosition ==
    \A c, d \in Components :
    \A i \in 1..Len(queue[c]), j \in 1..Len(queue[d]) :
       queue[c][i] = queue[d][j] => c = d /\ i = j

(* The newest job, and it alone, is the next to arrive.                    *)
NextArrival ==
    /\ \A e \in sim_queue : e.event = JOB_ARRIVAL <=> e.num = cur_job_num
    /\ \E e \in sim_queue : e.event = JOB_ARRIVAL

NumbersInv == Numbered /\ OneEvent /\ EventOrQueued /\ OnePosition /\ NextArrival

(* An occupied component has the one event that will free it, and only an  *)
(* occupied one has a queue.                                               *)
ServersInv ==
    \A c \in Components :
       /\ occupied[c] <=> \E e \in sim_queue : e.event = FINISH(c)
       /\ \A e, f \in sim_queue : e.event = FINISH(c) /\ f.event = FINISH(c) => e = f
       /\ queue[c] # <<>> => occupied[c]

(* What is still to come is not earlier than what was handled last, but    *)
(* for the CPU's finish.                                                   *)
OrderInv == \A e \in sim_queue : e.time >= last \/ e.event = FINISH("cpu")

JobsInv == IInv /\ NumbersInv /\ ServersInv /\ OrderInv

(* The events of the simulator are told apart by their names.              *)
LEMMA EventNames ==
  /\ JOB_ARRIVAL # JOB_QUIT
  /\ \A c : ARRIVAL(c) # JOB_ARRIVAL /\ ARRIVAL(c) # JOB_QUIT
  /\ \A c : FINISH(c) # JOB_ARRIVAL /\ FINISH(c) # JOB_QUIT
  /\ \A c, d : ARRIVAL(c) # FINISH(d)
  /\ \A c, d : FINISH(c) = FINISH(d) => c = d
  BY DEF JOB_ARRIVAL, JOB_QUIT, ARRIVAL, FINISH

LEMMA JobFields ==
  \A n, ev, t : /\ Job(n, ev, t).num = n /\ Job(n, ev, t).event = ev
                /\ Job(n, ev, t).time = t
  BY DEF Job

(* The queue of a component after a job has come or gone.                  *)
LEMMA Queued ==
  ASSUME TypeOK, NEW c \in Components, NEW n \in Nat,
         queue' = [queue EXCEPT ![c] = Append(@, n)]
  PROVE  /\ Len(queue'[c]) = Len(queue[c]) + 1 /\ Len(queue[c]) \in Nat
         /\ queue'[c][Len(queue[c]) + 1] = n
         /\ \A i \in 1..Len(queue[c]) : queue'[c][i] = queue[c][i]
         /\ \A d \in Components : d # c => queue'[d] = queue[d]
<1>1. queue[c] \in Seq(Nat) /\ queue'[c] = Append(queue[c], n)
  BY DEF TypeOK
<1>2. \A d \in Components : d # c => queue'[d] = queue[d]
  BY DEF TypeOK
<1>. QED
  BY <1>1, <1>2

LEMMA Unqueued ==
  ASSUME TypeOK, NEW c \in Components, queue[c] # <<>>,
         queue' = [queue EXCEPT ![c] = Tail(@)]
  PROVE  /\ Len(queue'[c]) = Len(queue[c]) - 1 /\ Len(queue[c]) \in Nat \ {0}
         /\ Head(queue[c]) = queue[c][1]
         /\ \A i \in 1..Len(queue'[c]) : queue'[c][i] = queue[c][i + 1]
         /\ \A d \in Components : d # c => queue'[d] = queue[d]
  BY DEF TypeOK

(* The numbers stay unique: a step moves the job of its event, and takes   *)
(* at most one other from the head of a queue.                             *)
LEMMA NumbersStep ==
  ASSUME IInv, NumbersInv, NEW e \in sim_queue, Pull(e), Handled(e)
  PROVE  NumbersInv'
<1>0. /\ TypeOK /\ cur_job_num \in Nat /\ e.num \in Nat
      /\ e.num \in 1..cur_job_num
  BY PulledEvent DEF IInv, TypeOK, NumbersInv, Numbered
<1>1. CASE Announces(e)
  <2>1. PICK t \in Nat :
           Push(e, {Job(cur_job_num + 1, JOB_ARRIVAL, t),
                    Job(e.num, ARRIVAL("cpu"), e.time)})
    BY <1>1 DEF Announces
  <2> DEFINE new == Job(cur_job_num + 1, JOB_ARRIVAL, t)
             moved == Job(e.num, ARRIVAL("cpu"), e.time)
  <2>2. /\ new.num = cur_job_num + 1 /\ new.event = JOB_ARRIVAL
        /\ moved.num = e.num /\ moved.event # JOB_ARRIVAL
    BY JobFields, EventNames
  <2>3. sim_queue' = (sim_queue \ {e}) \union {new, moved}
    BY <2>1 DEF Push
  <2>. HIDE DEF new, moved
  <2>4. /\ cur_job_num' = cur_job_num + 1 /\ queue' = queue
        /\ e.event = JOB_ARRIVAL
    BY <1>1 DEF Announces
  <2>5. e.num = cur_job_num
    BY <2>4 DEF NumbersInv, NextArrival
  <2>6. Numbered'
    BY <1>0, <2>2, <2>3, <2>4 DEF NumbersInv, Numbered
  <2>7. OneEvent'
    BY <1>0, <2>2, <2>3, <2>4 DEF NumbersInv, Numbered, OneEvent
  <2>8. EventOrQueued'
    BY <1>0, <2>2, <2>3, <2>4 DEF NumbersInv, Numbered, EventOrQueued
  <2>9. OnePosition'
    BY <2>4 DEF NumbersInv, OnePosition
  <2>10. NextArrival'
    BY <1>0, <2>2, <2>3, <2>4, <2>5
    DEF NumbersInv, Numbered, OneEvent, NextArrival
  <2>. QED
    BY <2>6, <2>7, <2>8, <2>9, <2>10 DEF NumbersInv
<1>2. CASE Quits(e)
  <2>1. /\ sim_queue' = sim_queue \ {e} /\ UNCHANGED <<cur_job_num, queue>>
        /\ e.event # JOB_ARRIVAL
    BY <1>2, EventNames DEF Quits, Push
  <2>. QED
    BY <2>1 DEF NumbersInv, Numbered, OneEvent, EventOrQueued, OnePosition,
                NextArrival
<1>3. ASSUME NEW c \in Components, Waits(c, e) PROVE NumbersInv'
  <2>1. /\ sim_queue' = sim_queue \ {e} /\ UNCHANGED cur_job_num
        /\ e.event # JOB_ARRIVAL
    BY <1>3, EventNames DEF Waits, Push
  <2>2. /\ Len(queue'[c]) = Len(queue[c]) + 1 /\ Len(queue[c]) \in Nat
        /\ queue'[c][Len(queue[c]) + 1] = e.num
        /\ \A i \in 1..Len(queue[c]) : queue'[c][i] = queue[c][i]
        /\ \A d \in Components : d # c => queue'[d] = queue[d]
    BY <1>0, <1>3, Queued DEF Waits
  <2>3. Numbered'
    BY <1>0, <2>1, <2>2 DEF NumbersInv, Numbered
  <2>4. OneEvent' /\ NextArrival'
    BY <2>1 DEF NumbersInv, OneEvent, NextArrival
  <2>5. EventOrQueued'
    BY <2>1, <2>2 DEF NumbersInv, OneEvent, EventOrQueued
  <2>6. OnePosition'
    <3>1. \A d \in Components : \A i \in 1..Len(queue'[d]) :
             \/ d = c /\ i = Len(queue[c]) + 1 /\ queue'[d][i] = e.num
             \/ i \in 1..Len(queue[d]) /\ queue'[d][i] = queue[d][i]
      BY <2>2
    <3>. QED
      BY <3>1 DEF NumbersInv, EventOrQueued, OnePosition
  <2>. QED
    BY <2>3, <2>4, <2>5, <2>6 DEF NumbersInv
<1>4. ASSUME NEW c \in Components, Served(c, e) \/ Frees(c, e)
      PROVE  NumbersInv'
  <2>0. PICK to \in Destinations(c) \union {FINISH(c)} :
           \E t : sim_queue' = (sim_queue \ {e}) \union {Job(e.num, to, t)}
    BY <1>4 DEF Served, Frees, Push
  <2>1. PICK t : sim_queue' = (sim_queue \ {e}) \union {Job(e.num, to, t)}
    BY <2>0
  <2> DEFINE moved == Job(e.num, to, t)
  <2>2. moved.num = e.num /\ moved.event # JOB_ARRIVAL
    BY JobFields, EventNames DEF Destinations
  <2>3. sim_queue' = (sim_queue \ {e}) \union {moved}
    BY <2>1
  <2>4. UNCHANGED <<cur_job_num, queue>> /\ e.event # JOB_ARRIVAL
    BY <1>4, EventNames DEF Served, Frees
  <2>. HIDE DEF moved
  <2>5. Numbered' /\ OneEvent' /\ EventOrQueued' /\ OnePosition'
    BY <2>2, <2>3, <2>4
    DEF NumbersInv, Numbered, OneEvent, EventOrQueued, OnePosition
  <2>6. NextArrival'
    BY <2>2, <2>3, <2>4 DEF NumbersInv, NextArrival
  <2>. QED
    BY <2>5, <2>6 DEF NumbersInv
<1>5. ASSUME NEW c \in Components, Follows(c, e) PROVE NumbersInv'
  <2>1. PICK to \in Destinations(c), t \in Nat :
           Push(e, {Job(e.num, to, e.time), Job(Head(queue[c]), FINISH(c), t)})
    BY <1>5 DEF Follows
  <2> DEFINE moved == Job(e.num, to, e.time)
             next == Job(Head(queue[c]), FINISH(c), t)
  <2>2. /\ moved.num = e.num /\ moved.event # JOB_ARRIVAL
        /\ next.num = Head(queue[c]) /\ next.event # JOB_ARRIVAL
    BY JobFields, EventNames DEF Destinations
  <2>3. sim_queue' = (sim_queue \ {e}) \union {moved, next}
    BY <2>1 DEF Push
  <2>4. UNCHANGED cur_job_num /\ e.event # JOB_ARRIVAL
    BY <1>5, EventNames DEF Follows
  <2>. HIDE DEF moved, next
  <2>5. /\ Len(queue'[c]) = Len(queue[c]) - 1 /\ Len(queue[c]) \in Nat \ {0}
        /\ Head(queue[c]) = queue[c][1]
        /\ \A i \in 1..Len(queue'[c]) : queue'[c][i] = queue[c][i + 1]
        /\ \A d \in Components : d # c => queue'[d] = queue[d]
    BY <1>0, <1>5, Unqueued DEF Follows
  <2>6. 1 \in 1..Len(queue[c]) /\ next.num = queue[c][1]
    BY <2>2, <2>5
  <2>7. /\ next.num \in 1..cur_job_num
        /\ \A f \in sim_queue : f.num # next.num
    BY <2>6 DEF NumbersInv, Numbered, EventOrQueued
  <2>a. ASSUME NEW d \in Components, NEW i \in 1..Len(queue'[d])
        PROVE  \E k \in 1..Len(queue[d]) : /\ queue'[d][i] = queue[d][k]
                                           /\ k = IF d = c THEN i + 1 ELSE i
    <3>1. CASE d = c
      BY <2>5, <3>1
    <3>2. CASE d # c
      BY <2>5, <3>2
    <3>. QED
      BY <3>1, <3>2
  <2>8. Numbered'
    <3>1. \A d \in Components : \A i \in 1..Len(queue'[d]) :
             queue'[d][i] \in 1..cur_job_num
      BY <2>a DEF NumbersInv, Numbered
    <3>. QED
      BY <1>0, <2>2, <2>3, <2>4, <2>7, <3>1 DEF NumbersInv, Numbered
  <2>9. OneEvent'
    BY <2>2, <2>3, <2>7 DEF NumbersInv, OneEvent
  <2>10. EventOrQueued'
    <3>1. ASSUME NEW d \in Components, NEW i \in 1..Len(queue'[d])
          PROVE  /\ \A f \in sim_queue : queue'[d][i] # f.num
                 /\ queue'[d][i] # next.num
      <4>1. PICK k \in 1..Len(queue[d]) : /\ queue'[d][i] = queue[d][k]
                                          /\ k = IF d = c THEN i + 1 ELSE i
        BY <2>a
      <4>2. d # c \/ k # 1
        BY <4>1
      <4>3. queue[d][k] # queue[c][1]
        BY <2>6, <4>2 DEF NumbersInv, OnePosition
      <4>. QED
        BY <2>6, <4>1, <4>3 DEF NumbersInv, EventOrQueued
    <3>. QED
      BY <2>2, <2>3, <3>1 DEF EventOrQueued
  <2>11. OnePosition'
    <3> SUFFICES ASSUME NEW d1 \in Components, NEW d2 \in Components,
                        NEW i \in 1..Len(queue'[d1]), NEW j \in 1..Len(queue'[d2]),
                        queue'[d1][i] = queue'[d2][j]
                 PROVE  d1 = d2 /\ i = j
      BY DEF OnePosition
    <3>1. PICK k \in 1..Len(queue[d1]) : /\ queue'[d1][i] = queue[d1][k]
                                         /\ k = IF d1 = c THEN i + 1 ELSE i
      BY <2>a
    <3>2. PICK l \in 1..Len(queue[d2]) : /\ queue'[d2][j] = queue[d2][l]
                                         /\ l = IF d2 = c THEN j + 1 ELSE j
      BY <2>a
    <3>3. d1 = d2 /\ k = l
      <4>1. queue[d1][k] = queue[d2][l]
        BY <3>1, <3>2
      <4>. QED
        BY <4>1 DEF NumbersInv, OnePosition
    <3>. QED
      BY <3>1, <3>2, <3>3
  <2>12. NextArrival'
    BY <2>2, <2>3, <2>4, <2>7 DEF NumbersInv, NextArrival
  <2>. QED
    BY <2>8, <2>9, <2>10, <2>11, <2>12 DEF NumbersInv
<1>. QED
  BY <1>1, <1>2, <1>3, <1>4, <1>5 DEF Handled

(* A component is occupied exactly while its finish is pending.            *)
LEMMA ServersStep ==
  ASSUME IInv, NumbersInv, ServersInv, NEW e \in sim_queue, Pull(e), Handled(e)
  PROVE  ServersInv'
<1>0. /\ TypeOK /\ e.num \in Nat
      /\ "cpu" \in Components
  BY PulledEvent DEF IInv, TypeOK, Components
<1>1. CASE Announces(e)
  <2>1. PICK t \in Nat :
           sim_queue' = (sim_queue \ {e})
             \union {Job(cur_job_num + 1, JOB_ARRIVAL, t),
                     Job(e.num, ARRIVAL("cpu"), e.time)}
    BY <1>1 DEF Announces, Push
  <2>2. \A c \in Components : \A f :
           f.event = FINISH(c) => (f \in sim_queue' <=> f \in sim_queue)
    BY <1>1, <2>1, EventNames, JobFields DEF Announces
  <2>. QED
    BY <1>1, <2>2 DEF Announces, ServersInv
<1>2. CASE Quits(e)
  <2>1. \A c \in Components : \A f :
           f.event = FINISH(c) => (f \in sim_queue' <=> f \in sim_queue)
    BY <1>2, EventNames DEF Quits, Push
  <2>. QED
    BY <1>2, <2>1 DEF Quits, ServersInv
<1>3. ASSUME NEW c \in Components, Waits(c, e) PROVE ServersInv'
  <2>1. \A d \in Components : \A f :
           f.event = FINISH(d) => (f \in sim_queue' <=> f \in sim_queue)
    BY <1>3, EventNames DEF Waits, Push
  <2>2. /\ UNCHANGED occupied /\ occupied[c]
        /\ \A d \in Components : d # c => queue'[d] = queue[d]
    BY <1>0, <1>3, Queued DEF Waits
  <2>. QED
    BY <2>1, <2>2 DEF ServersInv
<1>4. ASSUME NEW c \in Components, Served(c, e) PROVE ServersInv'
  <2>1. PICK t \in Nat : sim_queue' = (sim_queue \ {e}) \union {Job(e.num, FINISH(c), t)}
    BY <1>4 DEF Served, Push
  <2> DEFINE served == Job(e.num, FINISH(c), t)
  <2>2. /\ served.event = FINISH(c)
        /\ \A d \in Components : e.event # FINISH(d)
        /\ \A d \in Components : d # c => served.event # FINISH(d)
    BY <1>4, EventNames, JobFields DEF Served
  <2>3. sim_queue' = (sim_queue \ {e}) \union {served}
    BY <2>1
  <2>. HIDE DEF served
  <2>4. /\ ~occupied[c] /\ occupied' = [occupied EXCEPT ![c] = TRUE]
        /\ UNCHANGED queue
    BY <1>4 DEF Served
  <2>5. \A f \in sim_queue : f.event # FINISH(c)
    BY <2>4 DEF ServersInv
  <2>6. ASSUME NEW d \in Components, d # c
        PROVE  /\ occupied'[d] = occupied[d]
               /\ \A f : f.event = FINISH(d) => (f \in sim_queue' <=> f \in sim_queue)
    BY <1>0, <2>2, <2>3, <2>4, <2>6 DEF TypeOK
  <2>7. /\ occupied'[c] /\ served \in sim_queue'
        /\ \A f \in sim_queue' : f.event = FINISH(c) => f = served
    BY <1>0, <2>3, <2>4, <2>5 DEF TypeOK
  <2>. QED
    BY <2>2, <2>4, <2>6, <2>7 DEF ServersInv
<1>5. ASSUME NEW c \in Components, Frees(c, e) PROVE ServersInv'
  <2>1. PICK to \in Destinations(c) :
           sim_queue' = (sim_queue \ {e}) \union {Job(e.num, to, e.time)}
    BY <1>5 DEF Frees, Push
  <2> DEFINE moved == Job(e.num, to, e.time)
  <2>2. /\ \A d \in Components : moved.event # FINISH(d)
        /\ e.event = FINISH(c)
        /\ \A d \in Components : d # c => e.event # FINISH(d)
    BY <1>5, EventNames, JobFields DEF Frees, Destinations
  <2>3. sim_queue' = (sim_queue \ {e}) \union {moved}
    BY <2>1
  <2>. HIDE DEF moved
  <2>4. /\ queue[c] = <<>> /\ occupied' = [occupied EXCEPT ![c] = FALSE]
        /\ UNCHANGED queue
    BY <1>5 DEF Frees
  <2>5. \A f \in sim_queue' : f.event # FINISH(c)
    BY <2>2, <2>3 DEF ServersInv
  <2>6. ASSUME NEW d \in Components, d # c
        PROVE  /\ occupied'[d] = occupied[d]
               /\ \A f : f.event = FINISH(d) => (f \in sim_queue' <=> f \in sim_queue)
    BY <1>0, <2>2, <2>3, <2>4, <2>6 DEF TypeOK
  <2>7. ~occupied'[c]
    BY <1>0, <2>4 DEF TypeOK
  <2>. QED
    BY <2>4, <2>5, <2>6, <2>7 DEF ServersInv
<1>6. ASSUME NEW c \in Components, Follows(c, e) PROVE ServersInv'
  <2>1. PICK to \in Destinations(c), t \in Nat :
           sim_queue' = (sim_queue \ {e})
             \union {Job(e.num, to, e.time), Job(Head(queue[c]), FINISH(c), t)}
    BY <1>6 DEF Follows, Push
  <2> DEFINE moved == Job(e.num, to, e.time)
             next == Job(Head(queue[c]), FINISH(c), t)
  <2>2. /\ \A d \in Components : moved.event # FINISH(d)
        /\ next.event = FINISH(c) /\ e.event = FINISH(c)
        /\ \A d \in Components : d # c => e.event # FINISH(d) /\ next.event # FINISH(d)
    BY <1>6, EventNames, JobFields DEF Follows, Destinations
  <2>3. sim_queue' = (sim_queue \ {e}) \union {moved, next}
    BY <2>1
  <2>. HIDE DEF moved, next
  <2>4. /\ UNCHANGED occupied /\ occupied[c]
        /\ \A d \in Components : d # c => queue'[d] = queue[d]
    BY <1>0, <1>6, <2>2, Unqueued DEF Follows, ServersInv
  <2>5. \A f \in sim_queue : f.event = FINISH(c) => f = e
    BY <2>2 DEF ServersInv
  <2>6. ASSUME NEW d \in Components, d # c
        PROVE  \A f : f.event = FINISH(d) => (f \in sim_queue' <=> f \in sim_queue)
    BY <2>2, <2>3, <2>6
  <2>7. /\ next \in sim_queue'
        /\ \A f \in sim_queue' : f.event = FINISH(c) => f = next
    BY <1>0, <2>2, <2>3, <2>5
  <2>. QED
    BY <2>2, <2>4, <2>6, <2>7 DEF ServersInv
<1>. QED
  BY <1>1, <1>2, <1>3, <1>4, <1>5, <1>6 DEF Handled

(* Nothing is pushed that is due before the event that pushes it, but a    *)
(* finish of the CPU.                                                      *)
LEMMA OrderStep ==
  ASSUME IInv, NEW e \in sim_queue, Pull(e), Handled(e)
  PROVE  OrderInv'
<1>0. /\ last' = e.time /\ e.time \in Nat
      /\ \A f \in sim_queue : f.time >= e.time
  BY PulledEvent DEF Pull
<1>1. \A f \in sim_queue' : \/ f \in sim_queue
                             \/ f.time >= e.time \/ f.event = FINISH("cpu")
  <2>1. CASE Announces(e)
    BY <1>0, <2>1, JobFields DEF Announces, Push
  <2>2. CASE Quits(e) \/ \E c \in Components : Waits(c, e)
    BY <2>2 DEF Quits, Waits, Push
  <2>3. ASSUME NEW c \in Components, Served(c, e)
        PROVE  \A f \in sim_queue' : \/ f \in sim_queue
                                     \/ f.time >= e.time \/ f.event = FINISH("cpu")
    BY <2>3, JobFields DEF Served, Push
  <2>4. ASSUME NEW c \in Components, Frees(c, e) \/ Follows(c, e)
        PROVE  \A f \in sim_queue' : \/ f \in sim_queue
                                     \/ f.time >= e.time \/ f.event = FINISH("cpu")
    BY <1>0, <2>4, JobFields DEF Frees, Follows, Push
  <2>. QED
    BY <2>1, <2>2, <2>3, <2>4 DEF Handled
<1>. QED
  BY <1>0, <1>1 DEF OrderInv

(* Every reachable state keeps jobs, components and order.                 *)
THEOREM JobsInvariance == Spec => []JobsInv
<1>1. Init => JobsInv
  <2> SUFFICES ASSUME Init PROVE JobsInv
    OBVIOUS
  <2>1. IInv
    BY TimesAssumption DEF Init, IInv, TypeOK, EventsAhead, Job, Events
  <2>2. NumbersInv /\ OrderInv
    BY <2>1, JobFields, TimesAssumption
    DEF Init, NumbersInv, Numbered, OneEvent, EventOrQueued, OnePosition,
        NextArrival, OrderInv
  <2>3. ServersInv
    BY EventNames, JobFields DEF Init, ServersInv
  <2>. QED
    BY <2>1, <2>2, <2>3 DEF JobsInv
<1>2. ASSUME JobsInv, [Next]_vars PROVE JobsInv'
  <2>1. IInv'
    BY <1>2, Step DEF JobsInv
  <2>2. CASE UNCHANGED vars
    BY <1>2, <2>1, <2>2
    DEF JobsInv, NumbersInv, Numbered, OneEvent, EventOrQueued, OnePosition,
        NextArrival, ServersInv, OrderInv, vars
  <2>3. CASE Next
    BY <1>2, <2>1, <2>3, Shapes, NumbersStep, ServersStep, OrderStep DEF JobsInv
  <2>. QED
    BY <1>2, <2>2, <2>3
<1>. QED
  BY <1>1, <1>2, PTL DEF Spec

(* A component serves one job or none, and none waits for a free one       *)
(* (main.cpp 120-131, 160-176, 257-282, 292-305).                          *)
THEOREM ComponentsServe == Spec => []ComponentsConsistent
<1>1. ASSUME JobsInv PROVE ComponentsConsistent
  <2> SUFFICES ASSUME NEW c \in Components
               PROVE  /\ Cardinality(Finishing(c)) = IF occupied[c] THEN 1 ELSE 0
                      /\ queue[c] # <<>> => occupied[c]
    BY DEF ComponentsConsistent
  <2>1. CASE occupied[c]
    <3>1. PICK e \in sim_queue : e.event = FINISH(c)
      BY <1>1, <2>1 DEF JobsInv, ServersInv
    <3>2. Finishing(c) = {e}
      BY <1>1, <3>1 DEF JobsInv, ServersInv, Finishing
    <3>. QED
      BY <2>1, <3>2, FS_Singleton
  <2>2. CASE ~occupied[c]
    <3>1. Finishing(c) = {}
      BY <1>1, <2>2 DEF JobsInv, ServersInv, Finishing
    <3>. QED
      BY <1>1, <2>2, <3>1, FS_EmptySet DEF JobsInv, ServersInv
  <2>. QED
    BY <2>1, <2>2
<1>. QED
  BY <1>1, JobsInvariance, PTL

(* Only the finish of the CPU is handled after a later event (main.cpp     *)
(* 128, 175, 304).                                                         *)
THEOREM OrderedButForTheCpu == Spec => OnlyCpuRunsLate
<1>1. ASSUME JobsInv, Next, last' < last
      PROVE  \E e \in sim_queue \ sim_queue' : e.event = FINISH("cpu")
  <2>1. PICK e \in sim_queue : Pull(e) /\ Handled(e)
    BY <1>1, Shapes DEF JobsInv
  <2>2. last' = e.time /\ e.time \in Nat /\ last \in Nat
    BY <1>1, <2>1, PulledEvent DEF JobsInv, IInv, TypeOK, Pull
  <2>3. e.event = FINISH("cpu")
    BY <1>1, <2>2 DEF JobsInv, OrderInv
  <2>4. PICK c \in Components : Frees(c, e) \/ Follows(c, e)
    BY <2>1, <2>3, EventNames DEF Handled, Announces, Quits, Waits, Served
  <2>5. \A to \in Destinations(c) : Job(e.num, to, e.time) # e
    BY <2>3, EventNames, JobFields DEF Destinations
  <2>6. CASE Frees(c, e)
    <3>1. e \notin sim_queue'
      BY <2>5, <2>6 DEF Frees, Push
    <3>. QED
      BY <2>3, <3>1
  <2>7. CASE Follows(c, e)
    <3>1. queue[c] # <<>> /\ queue[c] \in Seq(Nat)
      BY <1>1, <2>7 DEF Follows, JobsInv, IInv, TypeOK
    <3>2. 1 \in 1..Len(queue[c]) /\ Head(queue[c]) = queue[c][1]
      BY <3>1
    <3>3. Head(queue[c]) # e.num
      BY <1>1, <3>2 DEF JobsInv, NumbersInv, EventOrQueued
    <3>4. \A t : Job(Head(queue[c]), FINISH(c), t) # e
      BY <3>3, JobFields
    <3>5. e \notin sim_queue'
      BY <2>5, <2>7, <3>4 DEF Follows, Push
    <3>. QED
      BY <2>3, <3>5
  <2>. QED
    BY <2>4, <2>6, <2>7
<1>2. JobsInv /\ [Next]_vars =>
         [last' < last =>
            \E e \in sim_queue \ sim_queue' : e.event = FINISH("cpu")]_vars
  BY <1>1
<1>. QED
  BY <1>2, JobsInvariance, PTL DEF Spec, OnlyCpuRunsLate

(* Job n is an event or waits in a queue.                                  *)
Present(n) ==
    \/ \E e \in sim_queue : e.num = n
    \/ \E c \in Components : \E i \in 1..Len(queue[c]) : queue[c][i] = n

(* Every place of a job in an event or a queue is one of its places.       *)
LEMMA PresentHasPlace ==
  ASSUME TypeOK, NEW n
  PROVE  /\ Present(n) <=> Places(n) # {}
         /\ \A p \in Places(n) :
              \/ \E e \in sim_queue : e.num = n /\ p = <<"event", e>>
              \/ \E c \in Components : \E i \in 1..Len(queue[c]) :
                    queue[c][i] = n /\ p = <<c, i>>
<1>1. \A c \in Components : DOMAIN queue[c] = 1..Len(queue[c])
  BY DEF TypeOK
<1>2. \A p : p \in Places(n) <=>
         \/ \E e \in sim_queue : e.num = n /\ p = <<"event", e>>
         \/ \E c \in Components : \E i \in DOMAIN queue[c] :
               queue[c][i] = n /\ p = <<c, i>>
  BY DEF Places
<1>. QED
  BY <1>1, <1>2 DEF Present

LEMMA AtMostOnePlace ==
  ASSUME JobsInv
  PROVE  JobPlacedOnce
<1>1. ASSUME NEW n PROVE Cardinality(Places(n)) <= 1
  <2>0. \A p \in Places(n) :
              \/ \E e \in sim_queue : e.num = n /\ p = <<"event", e>>
              \/ \E c \in Components : \E i \in 1..Len(queue[c]) :
                    queue[c][i] = n /\ p = <<c, i>>
    BY PresentHasPlace DEF JobsInv, IInv
  <2>1. ASSUME NEW p \in Places(n), NEW q \in Places(n) PROVE p = q
    <3>1. CASE \E e \in sim_queue : e.num = n
      BY <2>0, <3>1 DEF JobsInv, NumbersInv, OneEvent, EventOrQueued
    <3>2. CASE ~ \E e \in sim_queue : e.num = n
      <4>a. PICK c \in Components : \E i \in 1..Len(queue[c]) :
               queue[c][i] = n /\ p = <<c, i>>
        BY <2>0, <3>2
      <4>1. PICK i \in 1..Len(queue[c]) : queue[c][i] = n /\ p = <<c, i>>
        BY <4>a
      <4>b. PICK d \in Components : \E j \in 1..Len(queue[d]) :
               queue[d][j] = n /\ q = <<d, j>>
        BY <2>0, <3>2
      <4>2. PICK j \in 1..Len(queue[d]) : queue[d][j] = n /\ q = <<d, j>>
        BY <4>b
      <4>3. queue[c][i] = queue[d][j]
        BY <4>1, <4>2
      <4>4. c = d /\ i = j
        BY <4>3 DEF JobsInv, NumbersInv, OnePosition
      <4>. QED
        BY <4>1, <4>2, <4>4
    <3>. QED
      BY <3>1, <3>2
  <2>2. CASE Places(n) = {}
    BY <2>2, FS_EmptySet
  <2>3. CASE Places(n) # {}
    <3>1. PICK p : Places(n) = {p}
      BY <2>1, <2>3
    <3>. QED
      BY <3>1, FS_Singleton
  <2>. QED
    BY <2>2, <2>3
<1>2. {e.num : e \in {f \in sim_queue : f.event = JOB_ARRIVAL}} = {cur_job_num}
  BY DEF JobsInv, NumbersInv, NextArrival
<1>. QED
  BY <1>1, <1>2 DEF JobPlacedOnce

(* A job that has a place keeps one, unless its JOB_QUIT is handled.       *)
LEMMA StaysPresent ==
  ASSUME JobsInv, NEW e \in sim_queue, Pull(e), Handled(e),
         NEW n, Present(n), ~(e.num = n /\ e.event = JOB_QUIT)
  PROVE  Present(n)'
<1>0. TypeOK /\ e.num \in Nat
  BY PulledEvent DEF JobsInv, IInv
<1>2. CASE Announces(e)
  BY <1>2, JobFields DEF Announces, Push, Present
<1>3. CASE Quits(e)
  BY <1>3 DEF Quits, Push, Present
<1>4. ASSUME NEW c \in Components, Waits(c, e) PROVE Present(n)'
  <2>1. /\ Len(queue'[c]) = Len(queue[c]) + 1 /\ Len(queue[c]) \in Nat
        /\ queue'[c][Len(queue[c]) + 1] = e.num
        /\ \A i \in 1..Len(queue[c]) : queue'[c][i] = queue[c][i]
        /\ \A d \in Components : d # c => queue'[d] = queue[d]
    BY <1>0, <1>4, Queued DEF Waits
  <2>2. \A d \in Components : \A i \in 1..Len(queue[d]) :
           i \in 1..Len(queue'[d]) /\ queue'[d][i] = queue[d][i]
    BY <2>1
  <2>3. Len(queue[c]) + 1 \in 1..Len(queue'[c])
    BY <2>1
  <2>4. sim_queue' = sim_queue \ {e}
    BY <1>4 DEF Waits, Push
  <2>. QED
    BY <2>1, <2>2, <2>3, <2>4 DEF Present
<1>5. ASSUME NEW c \in Components, Served(c, e) \/ Frees(c, e) PROVE Present(n)'
  BY <1>5, JobFields DEF Served, Frees, Push, Present
<1>6. ASSUME NEW c \in Components, Follows(c, e) PROVE Present(n)'
  <2>1. PICK to \in Destinations(c), t \in Nat :
           sim_queue' = (sim_queue \ {e})
             \union {Job(e.num, to, e.time), Job(Head(queue[c]), FINISH(c), t)}
    BY <1>6 DEF Follows, Push
  <2>2. /\ Len(queue'[c]) = Len(queue[c]) - 1 /\ Len(queue[c]) \in Nat \ {0}
        /\ Head(queue[c]) = queue[c][1]
        /\ \A i \in 1..Len(queue'[c]) : queue'[c][i] = queue[c][i + 1]
        /\ \A d \in Components : d # c => queue'[d] = queue[d]
    BY <1>0, <1>6, Unqueued DEF Follows
  <2>3. CASE \E f \in sim_queue : f.num = n
    BY <2>1, <2>3, JobFields DEF Present
  <2>4. ASSUME NEW d \in Components, NEW i \in 1..Len(queue[d]), queue[d][i] = n
        PROVE  Present(n)'
    <3>1. CASE d # c
      BY <2>2, <2>4, <3>1 DEF Present
    <3>2. CASE d = c /\ i = 1
      BY <2>1, <2>2, <2>4, <3>2, JobFields DEF Present
    <3>3. CASE d = c /\ i # 1
      <4>1. i - 1 \in 1..Len(queue'[c]) /\ queue'[c][i - 1] = n
        BY <2>2, <2>4, <3>3
      <4>. QED
        BY <4>1 DEF Present
    <3>. QED
      BY <3>1, <3>2, <3>3
  <2>. QED
    BY <2>3, <2>4 DEF Present
<1>. QED
  BY <1>2, <1>3, <1>4, <1>5, <1>6 DEF Handled

(* A job is in one place until it quits, and one job is always on its way  *)
(* (main.cpp 98-158, 245-307).                                             *)
THEOREM JobsAreConserved == Spec => JobsConserved
<1>1. JobsInv => JobPlacedOnce
  BY AtMostOnePlace
<1>2. ASSUME JobsInv, JobsInv', Next, NEW n \in 1..cur_job_num,
             Places(n) # {}, Places(n)' = {}
      PROVE  \E e \in sim_queue : e.num = n /\ e.event = JOB_QUIT
  <2>1. Present(n)
    BY <1>2, PresentHasPlace DEF JobsInv, IInv
  <2>2. Present(n)' => Places(n)' # {}
    <3>1. \A c \in Components : DOMAIN queue'[c] = 1..Len(queue'[c])
      BY <1>2 DEF JobsInv, IInv, TypeOK
    <3>2. \A p : p \in Places(n)' <=>
             \/ \E e \in sim_queue' : e.num = n /\ p = <<"event", e>>
             \/ \E c \in Components : \E i \in DOMAIN queue'[c] :
                   queue'[c][i] = n /\ p = <<c, i>>
      BY DEF Places
    <3>. QED
      BY <3>1, <3>2 DEF Present
  <2>3. PICK e \in sim_queue : Pull(e) /\ Handled(e)
    BY <1>2, Shapes DEF JobsInv
  <2>. QED
    BY <1>2, <2>1, <2>2, <2>3, StaysPresent
<1>3. JobsInv /\ JobsInv' /\ JobPlacedOnce' /\ [Next]_vars =>
         [/\ JobPlacedOnce'
          /\ \A n \in 1..cur_job_num :
                (Places(n) # {} /\ Places(n)' = {}) =>
                   \E e \in sim_queue : e.num = n /\ e.event = JOB_QUIT]_vars
  BY <1>2
<1>. QED
  BY <1>1, <1>3, JobsInvariance, PTL DEF Spec, JobsConserved

-----------------------------------------------------------------------------
(* The statistics.                                                         *)

StatTypeOK ==
    /\ leftover \in Nat
    /\ size_entry \in [Components -> [total : Nat, amount : Nat]]
    /\ size_max \in [Components -> Nat] /\ utilization \in [Components -> Nat]
    /\ job_count \in [Components -> Nat] /\ longest \in [Components -> Nat]

(* The time one job takes is added to the busy time of c.                  *)
AddsOneJob(c) ==
    \E t \in ServiceTimes(c) : utilization' = [utilization EXCEPT ![c] = @ + t]

(* What an event at component c does to its counters.                      *)
Counts(c, e) ==
    /\ UpdateMax(c)
    /\ UNCHANGED size_entry \/ SampleSize(c)
    /\ \/ Waits(c, e) /\ UNCHANGED <<utilization, job_count>>
       \/ /\ Served(c, e) /\ UNCHANGED job_count
          /\ IF c = "cpu" THEN UNCHANGED utilization ELSE AddsOneJob(c)
       \/ Frees(c, e) /\ CountJob(c) /\ UNCHANGED utilization
       \/ Follows(c, e) /\ CountJob(c) /\ AddsOneJob(c)

HandledAndCounted(e) ==
    \/ (Announces(e) \/ Quits(e)) /\ UNCHANGED counters
    \/ \E c \in Components : Counts(c, e)

-----------------------------------------------------------------------------
LEMMA MaxOfTwo ==
  ASSUME NEW a \in Nat, NEW b \in Nat
  PROVE  Max({a, b}) = IF a >= b THEN a ELSE b
BY DEF Max

LEMMA MaxAndMinOfRange ==
  ASSUME NEW a \in Nat, NEW b \in Nat, a <= b
  PROVE  Max(a .. b) = b /\ Min(a .. b) = a
BY DEF Max, Min

(* The least and the greatest time a component takes for one job.          *)
LEMMA ServiceTimeBounds ==
  ASSUME NEW c \in Components
  PROVE  /\ Max(ServiceTimes(c)) \in Nat /\ Min(ServiceTimes(c)) \in Nat
         /\ \A t \in ServiceTimes(c) :
               t \in Nat /\ Min(ServiceTimes(c)) <= t /\ t <= Max(ServiceTimes(c))
<1>1. PICK a \in Nat, b \in Nat : ServiceTimes(c) = a .. b /\ a <= b
  BY RangesAssumption DEF ServiceTimes, Components, Devices
<1>2. Max(a .. b) = b /\ Min(a .. b) = a
  BY <1>1, MaxAndMinOfRange
<1>. QED  BY <1>1, <1>2

(* A finish that was not pending is the one the step has started.          *)
LEMMA OneStarted ==
  ASSUME StatTypeOK, NEW c \in Components,
         NEW m \in sim_queue' \ sim_queue, m.event = FINISH(c),
         \A f \in sim_queue' \ sim_queue : f.event = FINISH(c) => f = m,
         NEW t \in ServiceTimes(c), NEW u \in Nat, m.time = u + t, sim_time' = u,
         AddServiceTime(c)
  PROVE  AddsOneJob(c)
<1>1. Started(c) = {m}
  BY DEF Started
<1>2. (CHOOSE f \in Started(c) : TRUE) = m
  BY <1>1
<1>3. utilization' = [utilization EXCEPT ![c] = @ + (u + t) - u]
  BY <1>1, <1>2 DEF AddServiceTime
<1>4. t \in Nat /\ utilization[c] \in Nat
  BY ServiceTimeBounds DEF StatTypeOK
<1>5. utilization[c] + (u + t) - u = utilization[c] + t
  BY <1>4
<1>. QED  BY <1>3, <1>5 DEF AddsOneJob

LEMMA NoneStarted ==
  ASSUME StatTypeOK, NEW c \in Components,
         \A f \in sim_queue' \ sim_queue : f.event # FINISH(c),
         AddServiceTime(c)
  PROVE  UNCHANGED utilization
<1>1. Started(c) = {}
  BY DEF Started
<1>. QED  BY <1>1 DEF AddServiceTime, StatTypeOK

(* The job that follows has no event yet, so its finish is the one started.*)
LEMMA StartNextAdds ==
  ASSUME JobsInv, StatTypeOK, NEW e \in sim_queue, Pull(e),
         NEW c \in Components, e.event = FINISH(c), NEW to \in Destinations(c),
         StartNext(c, e, Job(e.num, to, e.time)), AddServiceTime(c)
  PROVE  IF queue[c] = <<>> THEN UNCHANGED utilization ELSE AddsOneJob(c)
<1> DEFINE moved == Job(e.num, to, e.time)
<1>1. moved.event # FINISH(c)
  BY EventNames, JobFields DEF Destinations
<1>2. CASE queue[c] = <<>>
  <2>1. sim_queue' = (sim_queue \ {e}) \union {moved}
    BY <1>2 DEF StartNext, FreeComponent, Push
  <2> HIDE DEF moved
  <2>2. \A f \in sim_queue' \ sim_queue : f.event # FINISH(c)
    BY <1>1, <2>1
  <2>3. UNCHANGED utilization
    BY <2>2, NoneStarted
  <2>. QED  BY <1>2, <2>3
<1>3. CASE queue[c] # <<>>
  <2>1. PICK t \in ServiceTimes(c) :
           Push(e, {moved, Job(Head(queue[c]), FINISH(c), e.time + t)})
    BY <1>3 DEF StartNext
  <2> DEFINE next == Job(Head(queue[c]), FINISH(c), e.time + t)
  <2>2. sim_queue' = (sim_queue \ {e}) \union {moved, next}
    BY <2>1 DEF Push
  <2>3. /\ next.event = FINISH(c) /\ next.time = e.time + t
        /\ next.num = Head(queue[c])
    BY JobFields
  <2>4. sim_time' = e.time /\ e.time \in Nat
    BY <1>3, PulledEvent DEF StartNext, JobsInv
  <2> HIDE DEF moved, next
  <2>5. queue[c] \in Seq(Nat)
    BY DEF JobsInv, IInv, TypeOK
  <2>6. 1 \in 1..Len(queue[c]) /\ Head(queue[c]) = queue[c][1]
    BY <1>3, <2>5
  <2>7. next \notin sim_queue
    BY <2>3, <2>6 DEF JobsInv, NumbersInv, EventOrQueued
  <2>8. /\ next \in sim_queue' \ sim_queue
        /\ \A f \in sim_queue' \ sim_queue : f.event = FINISH(c) => f = next
    BY <1>1, <2>2, <2>7
  <2>9. AddsOneJob(c)
    BY <2>3, <2>4, <2>8, OneStarted
  <2>. QED  BY <1>3, <2>9
<1>. QED  BY <1>2, <1>3

LEMMA DeviceArrivalCounts ==
  ASSUME JobsInv, StatTypeOK, NEW e \in sim_queue, NEW c \in Devices,
         CountDeviceArrival(c, e)
  PROVE  Counts(c, e)
<1>1. /\ c \in Components /\ c # "cpu" /\ DeviceArrival(c, e)
      /\ UpdateMax(c) /\ SampleSize(c) /\ AddServiceTime(c)
      /\ UNCHANGED job_count
  BY DEF Components, Devices, CountDeviceArrival
<1>2. Pull(e) /\ (Waits(c, e) \/ Served(c, e))
  BY <1>1, DeviceArrivalShape DEF JobsInv
<1>3. CASE occupied[c]
  <2>1. Waits(c, e)
    BY <1>2, <1>3 DEF Served
  <2>2. \A f \in sim_queue' \ sim_queue : f.event # FINISH(c)
    BY <2>1 DEF Waits, Push
  <2>3. UNCHANGED utilization
    BY <1>1, <2>2, NoneStarted
  <2>. QED  BY <1>1, <2>1, <2>3 DEF Counts
<1>4. CASE ~occupied[c]
  <2>1. Served(c, e)
    BY <1>2, <1>4 DEF Waits
  <2>2. PICK t \in ServiceTimes(c) : Push(e, {Job(e.num, FINISH(c), e.time + t)})
    BY <1>1, <1>4 DEF DeviceArrival
  <2> DEFINE m == Job(e.num, FINISH(c), e.time + t)
  <2>3. sim_queue' = (sim_queue \ {e}) \union {m}
    BY <2>2 DEF Push
  <2>4. m.event = FINISH(c) /\ m.time = e.time + t
    BY JobFields
  <2> HIDE DEF m
  <2>5. \A f \in sim_queue : f.event # FINISH(c)
    BY <1>1, <1>4 DEF JobsInv, ServersInv
  <2>6. /\ m \in sim_queue' \ sim_queue
        /\ \A f \in sim_queue' \ sim_queue : f.event = FINISH(c) => f = m
    BY <2>3, <2>4, <2>5
  <2>7. sim_time' = e.time /\ e.time \in Nat
    BY <1>1, <1>2, <1>4, PulledEvent DEF DeviceArrival, JobsInv
  <2>8. AddsOneJob(c)
    BY <1>1, <2>4, <2>6, <2>7, OneStarted
  <2>. QED  BY <1>1, <2>1, <2>8 DEF Counts
<1>. QED  BY <1>3, <1>4

LEMMA DeviceFinishCounts ==
  ASSUME JobsInv, StatTypeOK, NEW e \in sim_queue, NEW c \in Devices,
         CountDeviceFinish(c, e)
  PROVE  Counts(c, e)
<1>1. /\ c \in Components /\ ARRIVAL("cpu") \in Destinations(c)
      /\ UpdateMax(c) /\ SampleSize(c) /\ CountJob(c) /\ AddServiceTime(c)
      /\ DeviceFinish(c, e)
  BY DEF Components, Devices, Destinations, CountDeviceFinish
<1>2. Pull(e) /\ (Frees(c, e) \/ Follows(c, e))
  BY <1>1, DeviceFinishShape DEF JobsInv
<1>3. /\ e.event = FINISH(c)
      /\ StartNext(c, e, Job(e.num, ARRIVAL("cpu"), e.time))
  BY <1>1 DEF DeviceFinish
<1>4. IF queue[c] = <<>> THEN UNCHANGED utilization ELSE AddsOneJob(c)
  BY <1>1, <1>2, <1>3, StartNextAdds
<1>. QED  BY <1>1, <1>2, <1>4 DEF Counts, Frees, Follows

LEMMA CpuArrivalCounts ==
  ASSUME JobsInv, StatTypeOK, NEW e \in sim_queue, CountCpuArrival(e)
  PROVE  Counts("cpu", e)
BY CpuArrivalShape DEF CountCpuArrival, Counts, JobsInv

LEMMA CpuFinishCounts ==
  ASSUME JobsInv, StatTypeOK, NEW e \in sim_queue, CountCpuFinish(e)
  PROVE  Counts("cpu", e)
<1>1. /\ "cpu" \in Components /\ CpuFinish(e)
      /\ UpdateMax("cpu") /\ CountJob("cpu") /\ AddServiceTime("cpu")
      /\ UNCHANGED size_entry \/ SampleSize("cpu")
  BY DEF Components, CountCpuFinish
<1>2. Pull(e) /\ (Frees("cpu", e) \/ Follows("cpu", e))
  BY <1>1, CpuFinishShape DEF JobsInv
<1>3. PICK to \in AfterCpu : StartNext("cpu", e, Job(e.num, to, e.time))
  BY <1>1 DEF CpuFinish
<1>4. to \in Destinations("cpu") /\ e.event = FINISH("cpu")
  BY <1>1 DEF AfterCpu, DiskChoices, Destinations, Devices, CpuFinish
<1>5. IF queue["cpu"] = <<>> THEN UNCHANGED utilization ELSE AddsOneJob("cpu")
  BY <1>1, <1>2, <1>3, <1>4, StartNextAdds
<1>. QED  BY <1>1, <1>2, <1>5 DEF Counts, Frees, Follows

(* Every step is one of the simulator's, and is counted in one of the ways *)
(* above.                                                                  *)
LEMMA StatShapes ==
  ASSUME JobsInv, StatTypeOK, StatNext
  PROVE  /\ Next
         /\ \E e \in sim_queue : Pull(e) /\ HandledAndCounted(e)
         /\ longest' = [c \in Components |-> Max({longest[c], Len(queue[c])'})]
         /\ UNCHANGED leftover
<1>1. PICK e \in sim_queue :
          \/ (JobArrival(e) \/ JobQuit(e)) /\ UNCHANGED counters
          \/ CountCpuArrival(e) \/ CountCpuFinish(e)
          \/ \E c \in Devices : CountDeviceArrival(c, e) \/ CountDeviceFinish(c, e)
  BY DEF StatNext
<1>2. Next
  BY <1>1 DEF Next, CountCpuArrival, CountCpuFinish, CountDeviceArrival,
              CountDeviceFinish
<1>3. Pull(e)
  BY <1>1 DEF JobArrival, JobQuit, CountCpuArrival, CpuArrival, CountCpuFinish,
              CpuFinish, CountDeviceArrival, DeviceArrival, CountDeviceFinish,
              DeviceFinish
<1>4. HandledAndCounted(e)
  <2>1. CASE (JobArrival(e) \/ JobQuit(e)) /\ UNCHANGED counters
    BY <2>1, JobArrivalShape DEF JobsInv, JobQuit, Quits, HandledAndCounted
  <2>2. CASE CountCpuArrival(e) \/ CountCpuFinish(e)
    BY <2>2, CpuArrivalCounts, CpuFinishCounts DEF HandledAndCounted, Components
  <2>3. ASSUME NEW c \in Devices,
               CountDeviceArrival(c, e) \/ CountDeviceFinish(c, e)
        PROVE  HandledAndCounted(e)
    BY <2>3, DeviceArrivalCounts, DeviceFinishCounts
       DEF HandledAndCounted, Components
  <2>. QED  BY <1>1, <2>1, <2>2, <2>3
<1>. QED  BY <1>2, <1>3, <1>4 DEF StatNext

-----------------------------------------------------------------------------
(* The maxima *)

(* No queue is longer than it has ever been.                               *)
LongestInv == \A c \in Components : Len(queue[c]) <= longest[c]

(* In numbers: m the maximum, l the greatest size so far, n the size of    *)
(* the queue, total and amount its samples; the queue grows by one at most.*)
LEMMA MaximumOfSizes ==
  ASSUME NEW m \in Nat, NEW l \in Nat, NEW n \in Nat, NEW first \in Nat,
         NEW total \in Nat, NEW amount \in Nat, NEW grown \in Nat,
         n <= l, l > m => m = l - 1 /\ n = l,
         m <= Max({first, l}), total <= amount * m, grown <= n + 1
  PROVE  LET max == Max({m, n})
             long == Max({l, grown})
         IN  /\ grown <= long
             /\ long > max => max = long - 1 /\ grown = long
             /\ max <= Max({first, long})
             /\ total <= amount * max /\ total + n <= (amount + 1) * max
<1> DEFINE max == Max({m, n})
           long == Max({l, grown})
<1>1. max = (IF m >= n THEN m ELSE n) /\ long = (IF l >= grown THEN l ELSE grown)
  BY MaxOfTwo
<1>2. /\ Max({first, l}) = IF first >= l THEN first ELSE l
      /\ Max({first, long}) = IF first >= long THEN first ELSE long
  BY <1>1, MaxOfTwo
<1>3. max \in Nat /\ long \in Nat /\ max >= m /\ max >= n
  BY <1>1
<1> HIDE DEF max, long
<1>4. amount * m <= amount * max
  BY <1>3
<1>5. amount * m \in Nat /\ amount * max \in Nat
      /\ (amount + 1) * max = amount * max + max
  BY <1>3
<1>6. total <= amount * max /\ total + n <= (amount + 1) * max
  BY <1>3, <1>4, <1>5
<1>7. grown <= long /\ (long > max => max = long - 1 /\ grown = long)
  BY <1>1
<1>8. max <= Max({first, long})
  BY <1>1, <1>2
<1>. QED  BY <1>6, <1>7, <1>8 DEF max, long

(* Only the queue of the component whose event it is changes, by one.      *)
LEMMA QueueGrows ==
  ASSUME JobsInv, NEW e \in sim_queue, Pull(e), NEW c \in Components, Counts(c, e)
  PROVE  /\ Len(queue[c]) \in Nat /\ Len(queue'[c]) \in Nat
         /\ Len(queue'[c]) <= Len(queue[c]) + 1
         /\ \A d \in Components \ {c} : queue'[d] = queue[d]
<1>1. TypeOK /\ e.num \in Nat /\ Len(queue[c]) \in Nat
  BY PulledEvent DEF JobsInv, IInv, TypeOK
<1>2. CASE Waits(c, e)
  BY <1>1, <1>2, Queued DEF Waits
<1>3. CASE Served(c, e) \/ Frees(c, e)
  BY <1>1, <1>3 DEF Served, Frees
<1>4. CASE Follows(c, e)
  BY <1>1, <1>4, Unqueued DEF Follows
<1>. QED  BY <1>2, <1>3, <1>4 DEF Counts

MaxInv == LongestInv /\ MaximumLagsByOne

LEMMA LongestElsewhere ==
  ASSUME JobsInv, StatTypeOK, LongestInv, NEW d \in Components,
         queue'[d] = queue[d],
         longest' = [c \in Components |-> Max({longest[c], Len(queue[c])'})]
  PROVE  longest'[d] = longest[d]
<1>1. longest[d] \in Nat /\ Len(queue[d]) \in Nat /\ longest[d] >= Len(queue[d])
  BY DEF JobsInv, IInv, TypeOK, StatTypeOK, LongestInv
<1>2. longest'[d] = Max({longest[d], Len(queue[d])})
  OBVIOUS
<1>. QED  BY <1>1, <1>2, MaxOfTwo

LEMMA MaxStep ==
  ASSUME JobsInv, JobsInv', StatTypeOK, MaxInv, NEW e \in sim_queue, Pull(e),
         HandledAndCounted(e), UNCHANGED leftover,
         longest' = [c \in Components |-> Max({longest[c], Len(queue[c])'})]
  PROVE  MaxInv' /\ size_max' \in [Components -> Nat]
         /\ longest' \in [Components -> Nat]
         /\ size_entry' \in [Components -> [total : Nat, amount : Nat]]
<1>1. \A d \in Components :
         Len(queue'[d]) \in Nat /\ Len(queue[d]) \in Nat
         /\ longest[d] \in Nat /\ size_max[d] \in Nat
         /\ size_entry[d].total \in Nat /\ size_entry[d].amount \in Nat
  BY DEF JobsInv, IInv, TypeOK, StatTypeOK
<1>2. longest' \in [Components -> Nat]
  BY <1>1, MaxOfTwo
<1>3. CASE (Announces(e) \/ Quits(e)) /\ UNCHANGED counters
  <2>1. queue' = queue /\ size_max' = size_max /\ size_entry' = size_entry
    BY <1>3 DEF Announces, Quits, counters
  <2>2. \A d \in Components : longest'[d] = longest[d]
    BY <2>1, LongestElsewhere DEF MaxInv
  <2>3. MaxInv'
    BY <2>1, <2>2 DEF MaxInv, LongestInv, MaximumLagsByOne
  <2>. QED  BY <1>2, <2>1, <2>3 DEF StatTypeOK
<1>4. ASSUME NEW c \in Components, Counts(c, e)
      PROVE  MaxInv' /\ size_max' \in [Components -> Nat]
             /\ size_entry' \in [Components -> [total : Nat, amount : Nat]]
  <2>1. /\ size_max' = [size_max EXCEPT ![c] = Max({@, Len(queue[c])})]
        /\ UNCHANGED size_entry \/ SampleSize(c)
    BY <1>4 DEF Counts, UpdateMax
  <2>2. Max({size_max[c], Len(queue[c])}) \in Nat
    BY <1>1, MaxOfTwo
  <2>3. size_max' \in [Components -> Nat]
    BY <2>1, <2>2 DEF StatTypeOK
  <2>4. size_entry' \in [Components -> [total : Nat, amount : Nat]]
    <3>1. [total |-> size_entry[c].total + Len(queue[c]),
           amount |-> size_entry[c].amount + 1] \in [total : Nat, amount : Nat]
      BY <1>1
    <3>2. CASE UNCHANGED size_entry
      BY <3>2 DEF StatTypeOK
    <3>3. CASE SampleSize(c)
      BY <3>1, <3>3 DEF StatTypeOK, SampleSize
    <3>. QED  BY <2>1, <3>2, <3>3
  <2>5. ASSUME NEW d \in Components \ {c}
        PROVE  queue'[d] = queue[d] /\ longest'[d] = longest[d]
               /\ size_max'[d] = size_max[d] /\ size_entry'[d] = size_entry[d]
    <3>1. queue'[d] = queue[d]
      BY <1>4, QueueGrows
    <3>2. longest'[d] = longest[d]
      BY <3>1, LongestElsewhere DEF MaxInv
    <3>. QED  BY <2>1, <3>1, <3>2 DEF StatTypeOK, SampleSize
  <2>6. /\ size_max'[c] = Max({size_max[c], Len(queue[c])})
        /\ longest'[c] = Max({longest[c], Len(queue'[c])})
    BY <2>1 DEF StatTypeOK
  <2>7. \/ size_entry'[c] = size_entry[c]
        \/ /\ size_entry'[c].total = size_entry[c].total + Len(queue[c])
           /\ size_entry'[c].amount = size_entry[c].amount + 1
    BY <2>1 DEF StatTypeOK, SampleSize
  <2>8. /\ Len(queue[c]) <= longest[c]
        /\ longest[c] > size_max[c] =>
             size_max[c] = longest[c] - 1 /\ Len(queue[c]) = longest[c]
        /\ size_max[c] <= Max({leftover, longest[c]})
        /\ size_entry[c].total <= size_entry[c].amount * size_max[c]
    BY DEF MaxInv, LongestInv, MaximumLagsByOne
  <2>9. Len(queue'[c]) <= Len(queue[c]) + 1
    BY <1>4, QueueGrows
  <2> DEFINE max == Max({size_max[c], Len(queue[c])})
             long == Max({longest[c], Len(queue'[c])})
  <2>10. /\ Len(queue'[c]) <= long
         /\ long > max => max = long - 1 /\ Len(queue'[c]) = long
         /\ max <= Max({leftover, long})
         /\ size_entry[c].total <= size_entry[c].amount * max
         /\ size_entry[c].total + Len(queue[c]) <= (size_entry[c].amount + 1) * max
    <3>1. leftover \in Nat
      BY DEF StatTypeOK
    <3>. QED  BY <1>1, <2>8, <2>9, <3>1, MaximumOfSizes
  <2>11. /\ Len(queue'[c]) <= longest'[c]
         /\ longest'[c] > size_max'[c] =>
              size_max'[c] = longest'[c] - 1 /\ Len(queue'[c]) = longest'[c]
         /\ size_max'[c] <= Max({leftover, longest'[c]})
         /\ size_entry'[c].total <= size_entry'[c].amount * size_max'[c]
    <3> HIDE DEF max, long
    <3>1. size_max'[c] = max /\ longest'[c] = long
      BY <2>6 DEF max, long
    <3>. QED  BY <2>7, <2>10, <3>1
  <2>12. MaxInv'
    BY <2>5, <2>8, <2>11 DEF MaxInv, LongestInv, MaximumLagsByOne
  <2>. QED  BY <2>3, <2>4, <2>12
<1>. QED  BY <1>2, <1>3, <1>4 DEF HandledAndCounted

-----------------------------------------------------------------------------
(* The busy times *)

Serving(c) == IF occupied[c] THEN 1 ELSE 0

(* Counters only grow.                                                     *)
CountersInv ==
    \A c \in Components : job_count[c] >= leftover /\ utilization[c] >= leftover

BusyInv == CountersInv /\ BusyTimeMatchesJobs

(* One more job was served, and took one of the times it can take.         *)
LEMMA OneMoreServed ==
  ASSUME NEW busy \in Nat, NEW served \in Nat, NEW min \in Nat, NEW max \in Nat,
         NEW t \in Nat, min <= t, t <= max, busy <= served * max
  PROVE  /\ busy + t <= (served + 1) * max /\ busy <= (served + 1) * max
         /\ busy >= served * min => busy + t >= (served + 1) * min
<1>1. served * max \in Nat /\ served * min \in Nat
  OBVIOUS
<1>2. (served + 1) * max = served * max + max
      /\ (served + 1) * min = served * min + min
  OBVIOUS
<1>. QED  BY <1>1, <1>2

(* In numbers: the counters u and j held first before anything was served; *)
(* the step serves a job or not, and u gets its time unless it is left out.*)
LEMMA BusyOfServed ==
  ASSUME NEW u \in Nat, NEW u2 \in Nat, NEW j \in Nat, NEW j2 \in Nat,
         NEW s \in Nat, NEW s2 \in Nat, NEW first \in Nat,
         NEW min \in Nat, NEW max \in Nat, NEW timed \in BOOLEAN,
         u >= first, j >= first, j2 >= first,
         u - first <= (j - first + s) * max,
         timed => u - first >= (j - first + s) * min,
         \/ j2 + s2 = j + s /\ u2 = u
         \/ /\ j2 + s2 = j + s + 1
            /\ \/ \E t \in Nat : min <= t /\ t <= max /\ u2 = u + t
               \/ ~timed /\ u2 = u
  PROVE  /\ u2 >= first
         /\ u2 - first <= (j2 - first + s2) * max
         /\ timed => u2 - first >= (j2 - first + s2) * min
<1> DEFINE busy == u - first
           served == j - first + s
<1>1. busy \in Nat /\ served \in Nat
  OBVIOUS
<1>2. CASE j2 + s2 = j + s /\ u2 = u
  <2>1. j2 - first + s2 = served
    BY <1>2
  <2>. QED  BY <1>2, <2>1
<1>3. ASSUME j2 + s2 = j + s + 1, NEW t \in Nat, min <= t, t <= max, u2 = u + t
      PROVE  /\ u2 >= first
             /\ u2 - first <= (j2 - first + s2) * max
             /\ timed => u2 - first >= (j2 - first + s2) * min
  <2>1. j2 - first + s2 = served + 1 /\ u2 - first = busy + t
    BY <1>3
  <2>2. busy <= served * max /\ (timed => busy >= served * min)
    OBVIOUS
  <2> HIDE DEF busy, served
  <2>3. /\ busy + t <= (served + 1) * max
        /\ busy >= served * min => busy + t >= (served + 1) * min
    BY <1>1, <1>3, <2>2, OneMoreServed
  <2>. QED  BY <1>3, <2>1, <2>2, <2>3
<1>4. ASSUME j2 + s2 = j + s + 1, ~timed, u2 = u
      PROVE  u2 >= first /\ u2 - first <= (j2 - first + s2) * max
  <2>1. j2 - first + s2 = served + 1 /\ u2 - first = busy
    BY <1>4
  <2>2. (served + 1) * max = served * max + max
    BY <1>1
  <2>3. busy <= served * max
    OBVIOUS
  <2> HIDE DEF busy, served
  <2>. QED  BY <1>1, <1>4, <2>1, <2>2, <2>3
<1>. QED  BY <1>2, <1>3, <1>4

(* What the step adds to the jobs c has served or serves, and to its time. *)
LEMMA CountsServed ==
  ASSUME JobsInv, JobsInv', StatTypeOK, NEW e \in sim_queue, Pull(e),
         NEW c \in Components, Counts(c, e)
  PROVE  /\ utilization' \in [Components -> Nat]
         /\ job_count' \in [Components -> Nat]
         /\ \A d \in Components \ {c} :
               /\ utilization'[d] = utilization[d] /\ job_count'[d] = job_count[d]
               /\ occupied'[d] = occupied[d]
         /\ job_count'[c] \in {job_count[c], job_count[c] + 1}
         /\ \/ /\ job_count'[c] + Serving(c)' = job_count[c] + Serving(c)
               /\ utilization'[c] = utilization[c]
            \/ /\ job_count'[c] + Serving(c)' = job_count[c] + Serving(c) + 1
               /\ \/ \E t \in ServiceTimes(c) : utilization'[c] = utilization[c] + t
                  \/ c = "cpu" /\ utilization'[c] = utilization[c]
<1>1. /\ occupied \in [Components -> BOOLEAN]
      /\ utilization \in [Components -> Nat] /\ job_count \in [Components -> Nat]
      /\ Serving(c) \in Nat /\ c \in Components
  BY DEF JobsInv, IInv, TypeOK, StatTypeOK, Serving
<1>2. e.event = FINISH(c) => occupied[c]
  BY DEF JobsInv, ServersInv
<1>3. AddsOneJob(c) =>
        /\ utilization' \in [Components -> Nat]
        /\ \A d \in Components \ {c} : utilization'[d] = utilization[d]
        /\ \E t \in ServiceTimes(c) : utilization'[c] = utilization[c] + t
  BY <1>1, ServiceTimeBounds DEF AddsOneJob
<1>4. CASE Waits(c, e) /\ UNCHANGED <<utilization, job_count>>
  BY <1>1, <1>4 DEF Waits, Serving
<1>5. CASE /\ Served(c, e) /\ UNCHANGED job_count
           /\ IF c = "cpu" THEN UNCHANGED utilization ELSE AddsOneJob(c)
  <2>1. Serving(c) = 0 /\ Serving(c)' = 1
        /\ \A d \in Components \ {c} : occupied'[d] = occupied[d]
    BY <1>1, <1>5 DEF Served, Serving
  <2>2. CASE c = "cpu"
    BY <1>1, <1>5, <2>1, <2>2
  <2>3. CASE c # "cpu"
    BY <1>1, <1>3, <1>5, <2>1, <2>3
  <2>. QED  BY <2>2, <2>3
<1>6. CASE Frees(c, e) /\ CountJob(c) /\ UNCHANGED utilization
  <2>1. Serving(c) = 1 /\ Serving(c)' = 0
        /\ \A d \in Components \ {c} : occupied'[d] = occupied[d]
    BY <1>1, <1>2, <1>6 DEF Frees, Serving
  <2>2. job_count' \in [Components -> Nat] /\ job_count'[c] = job_count[c] + 1
        /\ \A d \in Components \ {c} : job_count'[d] = job_count[d]
    BY <1>1, <1>6 DEF CountJob
  <2>. QED  BY <1>1, <1>6, <2>1, <2>2
<1>7. CASE Follows(c, e) /\ CountJob(c) /\ AddsOneJob(c)
  <2>1. Serving(c) = 1 /\ Serving(c)' = 1 /\ queue[c] # <<>>
        /\ \A d \in Components \ {c} : occupied'[d] = occupied[d]
    BY <1>1, <1>2, <1>7 DEF Follows, Serving
  <2>2. job_count' \in [Components -> Nat] /\ job_count'[c] = job_count[c] + 1
        /\ \A d \in Components \ {c} : job_count'[d] = job_count[d]
    BY <1>1, <1>7 DEF CountJob
  <2>. QED  BY <1>1, <1>3, <1>7, <2>1, <2>2
<1>. QED  BY <1>4, <1>5, <1>6, <1>7 DEF Counts

(* The busy time of one component, as BusyTimeMatchesJobs has it.          *)
BusyRight(c) ==
    LET busy == utilization[c] - leftover
        served == Finished(c) + Serving(c)
    IN  /\ busy <= served * Max(ServiceTimes(c))
        /\ c \in Devices => busy >= served * Min(ServiceTimes(c))

LEMMA BusyMeans ==
  BusyTimeMatchesJobs <=> \A c \in Components : BusyRight(c)
BY DEF BusyTimeMatchesJobs, BusyRight, Serving, Components

LEMMA BusyStep ==
  ASSUME JobsInv, JobsInv', StatTypeOK, BusyInv, NEW e \in sim_queue,
         Pull(e), HandledAndCounted(e), UNCHANGED leftover
  PROVE  BusyInv' /\ utilization' \in [Components -> Nat]
         /\ job_count' \in [Components -> Nat]
<1>2. \A c \in Devices : c # "cpu" /\ c \in Components
  BY DEF Components, Devices
<1>3. CASE (Announces(e) \/ Quits(e)) /\ UNCHANGED counters
  <2>1. UNCHANGED <<utilization, job_count, occupied>>
    BY <1>3 DEF Announces, Quits, counters
  <2>2. CountersInv' /\ \A d \in Components : BusyRight(d)'
    BY <2>1, BusyMeans DEF BusyInv, CountersInv, BusyRight, Finished, Serving
  <2>4. BusyTimeMatchesJobs'
    BY <2>2 DEF BusyTimeMatchesJobs, BusyRight, Serving
  <2>. QED  BY <2>1, <2>2, <2>4 DEF BusyInv, StatTypeOK
<1>4. ASSUME NEW c \in Components, Counts(c, e)
      PROVE  BusyInv' /\ utilization' \in [Components -> Nat]
             /\ job_count' \in [Components -> Nat]
  <2>1. /\ utilization' \in [Components -> Nat]
        /\ job_count' \in [Components -> Nat]
        /\ \A d \in Components \ {c} :
              /\ utilization'[d] = utilization[d] /\ job_count'[d] = job_count[d]
              /\ occupied'[d] = occupied[d]
        /\ job_count'[c] \in {job_count[c], job_count[c] + 1}
    BY <1>4, CountsServed
  <2>2. /\ utilization[c] \in Nat /\ job_count[c] \in Nat /\ leftover \in Nat
        /\ utilization'[c] \in Nat /\ job_count'[c] \in Nat
        /\ utilization[c] >= leftover /\ job_count[c] >= leftover
        /\ job_count'[c] >= leftover /\ Serving(c) \in Nat /\ Serving(c)' \in Nat
    BY <2>1 DEF StatTypeOK, BusyInv, CountersInv, Serving
  <2> DEFINE max == Max(ServiceTimes(c))
             min == Min(ServiceTimes(c))
             timed == c \in Devices
  <2>3. /\ utilization[c] - leftover
             <= (job_count[c] - leftover + Serving(c)) * max
        /\ timed => utilization[c] - leftover
                      >= (job_count[c] - leftover + Serving(c)) * min
    BY BusyMeans DEF BusyInv, BusyRight, Finished
  <2>4. max \in Nat /\ min \in Nat /\ timed \in BOOLEAN
        /\ \A t \in ServiceTimes(c) : t \in Nat /\ min <= t /\ t <= max
    BY ServiceTimeBounds
  <2>a. \/ /\ job_count'[c] + Serving(c)' = job_count[c] + Serving(c)
           /\ utilization'[c] = utilization[c]
        \/ /\ job_count'[c] + Serving(c)' = job_count[c] + Serving(c) + 1
           /\ \/ \E t \in Nat : /\ min <= t /\ t <= max
                                /\ utilization'[c] = utilization[c] + t
              \/ ~timed /\ utilization'[c] = utilization[c]
    BY <1>2, <1>4, <2>4, CountsServed
  <2> HIDE DEF max, min, timed
  <2>6. /\ utilization'[c] >= leftover
        /\ utilization'[c] - leftover
             <= (job_count'[c] - leftover + Serving(c)') * max
        /\ timed => utilization'[c] - leftover
                      >= (job_count'[c] - leftover + Serving(c)') * min
    <3> DEFINE u == utilization[c]
               u2 == utilization'[c]
               j == job_count[c]
               j2 == job_count'[c]
               s == Serving(c)
               s2 == Serving(c)'
    <3>1. /\ u \in Nat /\ u2 \in Nat /\ j \in Nat /\ j2 \in Nat /\ s \in Nat
          /\ s2 \in Nat /\ leftover \in Nat
          /\ u >= leftover /\ j >= leftover /\ j2 >= leftover
      BY <2>2
    <3>2. /\ u - leftover <= (j - leftover + s) * max
          /\ timed => u - leftover >= (j - leftover + s) * min
      BY <2>3
    <3>3. \/ j2 + s2 = j + s /\ u2 = u
          \/ /\ j2 + s2 = j + s + 1
             /\ \/ \E t \in Nat : min <= t /\ t <= max /\ u2 = u + t
                \/ ~timed /\ u2 = u
      BY <2>a
    <3> HIDE DEF u, u2, j, j2, s, s2
    <3>4. u2 >= leftover
      BY <2>4, <3>1, <3>2, <3>3, BusyOfServed
    <3>5. u2 - leftover <= (j2 - leftover + s2) * max
      BY <2>4, <3>1, <3>2, <3>3, BusyOfServed
    <3>6. timed => u2 - leftover >= (j2 - leftover + s2) * min
      BY <2>4, <3>1, <3>2, <3>3, BusyOfServed
    <3>. QED  BY <3>4, <3>5, <3>6 DEF u2, j2, s2
  <2>7. \A d \in Components : BusyRight(d)'
    <3>1. ASSUME NEW d \in Components \ {c} PROVE BusyRight(d)'
      BY <2>1, BusyMeans DEF BusyInv, BusyRight, Finished, Serving
    <3>2. BusyRight(c)'
      BY <2>6 DEF BusyRight, Finished, max, min, timed
    <3>. QED  BY <3>1, <3>2
  <2>8. CountersInv'
    BY <2>1, <2>2, <2>6 DEF BusyInv, CountersInv
  <2>10. BusyTimeMatchesJobs'
    BY <2>7 DEF BusyTimeMatchesJobs, BusyRight, Serving
  <2>. QED  BY <2>1, <2>8, <2>10 DEF BusyInv
<1>. QED  BY <1>3, <1>4 DEF HandledAndCounted

-----------------------------------------------------------------------------
(* The throughputs.  The jobs are counted where they are: at a device, on  *)
(* their way out, or gone; those at the CPU and before it are not.         *)

(* The pending events of some kinds.                                       *)
Pending(kinds) == {f \in sim_queue : f.event \in kinds}

AtDevice(d) == {ARRIVAL(d), FINISH(d)}

Gone == {n \in 1..cur_job_num : ~Present(n)}

FiniteInv == IsFiniteSet(sim_queue)

OneIf(kinds, f) == IF f.event \in kinds THEN 1 ELSE 0

LEMMA CountWithout ==
  ASSUME NEW S, IsFiniteSet(S), NEW e \in S, NEW kinds
  PROVE  /\ IsFiniteSet(S \ {e})
         /\ Cardinality({f \in S \ {e} : f.event \in kinds})
               = Cardinality({f \in S : f.event \in kinds}) - OneIf(kinds, e)
         /\ Cardinality({f \in S : f.event \in kinds}) \in Nat
<1> DEFINE T == {f \in S : f.event \in kinds}
           U == {f \in S \ {e} : f.event \in kinds}
<1>1. IsFiniteSet(T) /\ Cardinality(T) \in Nat /\ IsFiniteSet(S \ {e})
  <2>1. T \subseteq S /\ S \ {e} \subseteq S
    OBVIOUS
  <2>. QED  BY <2>1, FS_Subset, FS_CardinalityType
<1>2. CASE e.event \in kinds
  <2>1. U = T \ {e} /\ e \in T
    BY <1>2
  <2> HIDE DEF T, U
  <2>2. Cardinality(U) = Cardinality(T) - 1
    BY <1>1, <2>1, FS_RemoveElement
  <2>. QED  BY <1>1, <1>2, <2>2 DEF OneIf, T, U
<1>3. CASE e.event \notin kinds
  <2>1. U = T
    BY <1>3
  <2> HIDE DEF T, U
  <2>2. Cardinality(U) = Cardinality(T) - 0
    BY <1>1, <2>1
  <2>. QED  BY <1>1, <1>3, <2>2 DEF OneIf, T, U
<1>. QED  BY <1>2, <1>3

LEMMA CountWith ==
  ASSUME NEW S, IsFiniteSet(S), NEW m, m \notin S, NEW kinds
  PROVE  /\ IsFiniteSet(S \union {m})
         /\ Cardinality({f \in S \union {m} : f.event \in kinds})
               = Cardinality({f \in S : f.event \in kinds}) + OneIf(kinds, m)
         /\ Cardinality({f \in S : f.event \in kinds}) \in Nat
<1> DEFINE T == {f \in S : f.event \in kinds}
           U == {f \in S \union {m} : f.event \in kinds}
<1>1. IsFiniteSet(T) /\ Cardinality(T) \in Nat /\ IsFiniteSet(S \union {m})
  <2>1. T \subseteq S
    OBVIOUS
  <2>. QED  BY <2>1, FS_Subset, FS_CardinalityType, FS_AddElement
<1>2. CASE m.event \in kinds
  <2>1. U = T \union {m} /\ m \notin T
    BY <1>2
  <2> HIDE DEF T, U
  <2>2. Cardinality(U) = Cardinality(T) + 1
    BY <1>1, <2>1, FS_AddElement
  <2>. QED  BY <1>1, <1>2, <2>2 DEF OneIf, T, U
<1>3. CASE m.event \notin kinds
  <2>1. U = T
    BY <1>3
  <2> HIDE DEF T, U
  <2>2. Cardinality(U) = Cardinality(T) + 0
    BY <1>1, <2>1
  <2>. QED  BY <1>1, <1>3, <2>2 DEF OneIf, T, U
<1>. QED  BY <1>2, <1>3

(* The event is taken out, and nothing, one job or two are pushed.         *)
LEMMA PendingTaken ==
  ASSUME FiniteInv, NEW e \in sim_queue, sim_queue' = sim_queue \ {e}, NEW kinds
  PROVE  /\ FiniteInv' /\ Cardinality(Pending(kinds)) \in Nat
         /\ Cardinality(Pending(kinds)')
               = Cardinality(Pending(kinds)) - OneIf(kinds, e)
BY CountWithout DEF FiniteInv, Pending

LEMMA PendingMoved ==
  ASSUME FiniteInv, NEW e \in sim_queue, NEW m, m \notin sim_queue \ {e},
         sim_queue' = (sim_queue \ {e}) \union {m}, NEW kinds
  PROVE  /\ FiniteInv' /\ Cardinality(Pending(kinds)) \in Nat
         /\ Cardinality(Pending(kinds)') = Cardinality(Pending(kinds))
                                           - OneIf(kinds, e) + OneIf(kinds, m)
<1> DEFINE S == sim_queue \ {e}
<1>1. /\ IsFiniteSet(S) /\ Cardinality(Pending(kinds)) \in Nat
      /\ Cardinality({f \in S : f.event \in kinds})
            = Cardinality(Pending(kinds)) - OneIf(kinds, e)
  BY CountWithout DEF FiniteInv, Pending
<1>2. m \notin S /\ sim_queue' = S \union {m}
  OBVIOUS
<1> HIDE DEF S
<1>3. /\ IsFiniteSet(S \union {m})
      /\ Cardinality({f \in S \union {m} : f.event \in kinds})
            = Cardinality({f \in S : f.event \in kinds}) + OneIf(kinds, m)
  BY <1>1, <1>2, CountWith
<1>4. Pending(kinds)' = {f \in S \union {m} : f.event \in kinds}
  BY <1>2 DEF Pending
<1>. QED  BY <1>1, <1>2, <1>3, <1>4 DEF FiniteInv

LEMMA PendingMovedTwo ==
  ASSUME FiniteInv, NEW e \in sim_queue, NEW m, NEW k,
         m \notin sim_queue \ {e}, k \notin sim_queue \ {e}, m # k,
         sim_queue' = (sim_queue \ {e}) \union {m, k}, NEW kinds
  PROVE  /\ FiniteInv' /\ Cardinality(Pending(kinds)) \in Nat
         /\ Cardinality(Pending(kinds)')
               = Cardinality(Pending(kinds))
                 - OneIf(kinds, e) + OneIf(kinds, m) + OneIf(kinds, k)
<1> DEFINE S == sim_queue \ {e}
           R == S \union {m}
<1>1. /\ IsFiniteSet(S) /\ Cardinality(Pending(kinds)) \in Nat
      /\ Cardinality({f \in S : f.event \in kinds})
            = Cardinality(Pending(kinds)) - OneIf(kinds, e)
  BY CountWithout DEF FiniteInv, Pending
<1>2. m \notin S /\ k \notin R /\ sim_queue' = R \union {k}
  OBVIOUS
<1> HIDE DEF S
<1>3. /\ IsFiniteSet(R)
      /\ Cardinality({f \in R : f.event \in kinds})
            = Cardinality({f \in S : f.event \in kinds}) + OneIf(kinds, m)
  BY <1>1, <1>2, CountWith
<1> HIDE DEF R
<1>4. /\ IsFiniteSet(R \union {k})
      /\ Cardinality({f \in R \union {k} : f.event \in kinds})
            = Cardinality({f \in R : f.event \in kinds}) + OneIf(kinds, k)
  BY <1>2, <1>3, CountWith
<1>5. Pending(kinds)' = {f \in R \union {k} : f.event \in kinds}
  BY <1>2 DEF Pending
<1>. QED  BY <1>1, <1>2, <1>3, <1>4, <1>5 DEF FiniteInv

(* Where a pending event counts: at the device it names, or on its way out.*)
LEMMA Kinds ==
  ASSUME NEW f, NEW d \in Devices
  PROVE  /\ \A c : f.event \in {ARRIVAL(c), FINISH(c)} =>
               /\ OneIf(AtDevice(d), f) = IF d = c THEN 1 ELSE 0
               /\ OneIf({JOB_QUIT}, f) = 0
         /\ f.event = JOB_QUIT =>
               OneIf(AtDevice(d), f) = 0 /\ OneIf({JOB_QUIT}, f) = 1
         /\ f.event = JOB_ARRIVAL =>
               OneIf(AtDevice(d), f) = 0 /\ OneIf({JOB_QUIT}, f) = 0
<1>1. \A c : ARRIVAL(c) = ARRIVAL(d) => c = d
  BY DEF ARRIVAL
<1>2. \A c : ARRIVAL(c) \in AtDevice(d) <=> d = c
  BY <1>1, EventNames DEF AtDevice
<1>3. \A c : FINISH(c) \in AtDevice(d) <=> d = c
  BY EventNames DEF AtDevice
<1>4. JOB_QUIT \notin AtDevice(d) /\ JOB_ARRIVAL \notin AtDevice(d)
  BY EventNames DEF AtDevice
<1>5. \A c : f.event \in {ARRIVAL(c), FINISH(c)} =>
            OneIf(AtDevice(d), f) = IF d = c THEN 1 ELSE 0
  BY <1>2, <1>3 DEF OneIf
<1>6. \A c : f.event \in {ARRIVAL(c), FINISH(c)} => OneIf({JOB_QUIT}, f) = 0
  BY EventNames DEF OneIf
<1>7. f.event = JOB_QUIT =>
         OneIf(AtDevice(d), f) = 0 /\ OneIf({JOB_QUIT}, f) = 1
  BY <1>4 DEF OneIf
<1>8. f.event = JOB_ARRIVAL =>
         OneIf(AtDevice(d), f) = 0 /\ OneIf({JOB_QUIT}, f) = 0
  BY <1>4, EventNames DEF OneIf
<1>. QED  BY <1>5, <1>6, <1>7, <1>8

(* What a device has finished and still has.                               *)
Flow(d) == Finished(d) + Len(queue[d]) + Cardinality(Pending(AtDevice(d)))

Leaving == Cardinality(Pending({JOB_QUIT}))

(* A step moves one job at most to a device or out, and then it is the CPU *)
(* that has finished it; a job that moves to the CPU is not counted.       *)
Moves(to) ==
    /\ \A d \in Devices : Flow(d)' = Flow(d) + IF to = ARRIVAL(d) THEN 1 ELSE 0
    /\ Leaving' = Leaving + IF to = JOB_QUIT THEN 1 ELSE 0
    /\ Finished("cpu")' = Finished("cpu") + IF to = ARRIVAL("cpu") THEN 0 ELSE 1

(* What makes the counts numbers.                                         *)
FlowTypes == JobsInv /\ StatTypeOK /\ CountersInv /\ FiniteInv

LEMMA FlowsAreNumbers ==
  ASSUME FlowTypes, NEW d \in Components
  PROVE  /\ Finished(d) \in Nat /\ Len(queue[d]) \in Nat
         /\ Cardinality(Pending(AtDevice(d))) \in Nat /\ Leaving \in Nat
         /\ Flow(d) \in Nat
<1>1. Finished(d) \in Nat
  BY DEF FlowTypes, StatTypeOK, CountersInv, Finished
<1>2. Len(queue[d]) \in Nat
  BY DEF FlowTypes, JobsInv, IInv, TypeOK
<1>3. \A kinds : Cardinality(Pending(kinds)) \in Nat
  <2>1. \A kinds : Pending(kinds) \subseteq sim_queue
    BY DEF Pending
  <2>. QED  BY <2>1, FS_Subset, FS_CardinalityType DEF FiniteInv, FlowTypes
<1>. QED  BY <1>1, <1>2, <1>3 DEF Flow, Leaving

(* The finished jobs of a component are counted one by one.                *)
LEMMA FinishedGrows ==
  ASSUME FlowTypes, UNCHANGED leftover, NEW c \in Components
  PROVE  /\ UNCHANGED job_count =>
              \A d \in Components : Finished(d)' = Finished(d)
         /\ CountJob(c) =>
              \A d \in Components :
                 Finished(d)' = Finished(d) + IF d = c THEN 1 ELSE 0
<1>1. \A d \in Components : Finished(d) \in Nat /\ Finished(d)' = job_count'[d] - leftover
  BY DEF FlowTypes, StatTypeOK, CountersInv, Finished
<1>2. UNCHANGED job_count => \A d \in Components : Finished(d)' = Finished(d)
  BY <1>1 DEF Finished
<1>3. ASSUME CountJob(c), NEW d \in Components
      PROVE  Finished(d)' = Finished(d) + IF d = c THEN 1 ELSE 0
  <2>1. job_count'[d] = job_count[d] + IF d = c THEN 1 ELSE 0
    BY <1>3 DEF CountJob, FlowTypes, StatTypeOK
  <2>2. job_count[d] \in Nat /\ leftover \in Nat
    BY DEF FlowTypes, StatTypeOK
  <2>. QED  BY <1>1, <2>1, <2>2 DEF Finished
<1>. QED  BY <1>2, <1>3

(* A job that goes from one part of a device's flow to another leaves the  *)
(* flow as it was; one that is sent to the device adds to it.              *)
LEMMA OnePartGrows ==
  ASSUME NEW f \in Nat, NEW l \in Nat, NEW p \in Nat
  PROVE  f + l + (p + 1) = f + l + p + 1
OBVIOUS

LEMMA PartsExchange ==
  ASSUME NEW f \in Nat, NEW l \in Nat, NEW p \in Nat
  PROVE  /\ f + (l + 1) + (p - 1) = f + l + p
         /\ f + 1 + l + (p - 1) = f + l + p
         /\ f + 1 + (l - 1) + p = f + l + p
OBVIOUS

LEMMA FlowChanges ==
  ASSUME FlowTypes, NEW d \in Devices
  PROVE  LET f == Finished(d)
             l == Len(queue[d])
             p == Cardinality(Pending(AtDevice(d)))
             f2 == Finished(d)'
             l2 == Len(queue'[d])
             p2 == Cardinality(Pending(AtDevice(d))')
         IN  /\ f2 = f /\ l2 = l /\ p2 = p + 1 => Flow(d)' = Flow(d) + 1
             /\ \/ f2 = f /\ l2 = l /\ p2 = p
                \/ f2 = f /\ l2 = l + 1 /\ p2 = p - 1
                \/ f2 = f + 1 /\ l2 = l /\ p2 = p - 1
                \/ f2 = f + 1 /\ l2 = l - 1 /\ p2 = p
                => Flow(d)' = Flow(d)
<1> DEFINE f == Finished(d)
           l == Len(queue[d])
           p == Cardinality(Pending(AtDevice(d)))
           f2 == Finished(d)'
           l2 == Len(queue'[d])
           p2 == Cardinality(Pending(AtDevice(d))')
<1>1. f \in Nat /\ l \in Nat /\ p \in Nat
  BY FlowsAreNumbers DEF Components
<1>2. Flow(d) = f + l + p
  BY DEF Flow
<1>3. Flow(d)' = f2 + l2 + p2
  BY DEF Flow, AtDevice
<1> HIDE DEF f, l, p, f2, l2, p2
<1>4. f + l + (p + 1) = f + l + p + 1
  BY <1>1, OnePartGrows
<1>5. /\ f + (l + 1) + (p - 1) = f + l + p
      /\ f + 1 + l + (p - 1) = f + l + p
      /\ f + 1 + (l - 1) + p = f + l + p
  BY <1>1, PartsExchange
<1>6. \/ f2 = f /\ l2 = l /\ p2 = p
      \/ f2 = f /\ l2 = l + 1 /\ p2 = p - 1
      \/ f2 = f + 1 /\ l2 = l /\ p2 = p - 1
      \/ f2 = f + 1 /\ l2 = l - 1 /\ p2 = p
      => f2 + l2 + p2 = f + l + p
  BY <1>5
<1>7. f2 = f /\ l2 = l /\ p2 = p + 1 => f2 + l2 + p2 = f + l + p + 1
  BY <1>4
<1>. QED  BY <1>2, <1>3, <1>6, <1>7 DEF f, l, p, f2, l2, p2

LEMMA LeavingThen ==
  Leaving' = Cardinality(Pending({JOB_QUIT})')
BY DEF Leaving, JOB_QUIT

(* A job takes the event that carries it out of the queue, so its next     *)
(* event is pending nowhere else.                                          *)
LEMMA MovedIsNew ==
  ASSUME JobsInv, NEW e \in sim_queue, NEW to, NEW t
  PROVE  Job(e.num, to, t) \notin sim_queue \ {e}
<1>1. Job(e.num, to, t).num = e.num
  BY JobFields
<1> DEFINE m == Job(e.num, to, t)
<1>2. m.num = e.num
  BY <1>1
<1> HIDE DEF m
<1>3. m \in sim_queue => m = e
  BY <1>2 DEF JobsInv, NumbersInv, OneEvent
<1>. QED  BY <1>3 DEF m

(* The parts of the flows when the event e is taken and m is pushed.       *)
LEMMA MovedFlows ==
  ASSUME FlowTypes, NEW e \in sim_queue, NEW c \in Components,
         e.event \in {ARRIVAL(c), FINISH(c)}, NEW m, m \notin sim_queue \ {e},
         sim_queue' = (sim_queue \ {e}) \union {m}
  PROVE  /\ FiniteInv'
         /\ \A d \in Devices :
               /\ Cardinality(Pending(AtDevice(d))) \in Nat
               /\ Cardinality(Pending(AtDevice(d))')
                     = Cardinality(Pending(AtDevice(d)))
                       - (IF d = c THEN 1 ELSE 0) + OneIf(AtDevice(d), m)
         /\ Leaving \in Nat /\ Leaving' = Leaving + OneIf({JOB_QUIT}, m)
<1>1. FiniteInv
  BY DEF FlowTypes
<1>2. FiniteInv'
  BY <1>1, PendingMoved
<1>3. ASSUME NEW d \in Devices
      PROVE  /\ Cardinality(Pending(AtDevice(d))) \in Nat
             /\ Cardinality(Pending(AtDevice(d))')
                   = Cardinality(Pending(AtDevice(d)))
                     - (IF d = c THEN 1 ELSE 0) + OneIf(AtDevice(d), m)
  <2>1. OneIf(AtDevice(d), e) = IF d = c THEN 1 ELSE 0
    BY Kinds
  <2>. QED  BY <1>1, <2>1, PendingMoved
<1>4. /\ Cardinality(Pending({JOB_QUIT})) \in Nat
      /\ Cardinality(Pending({JOB_QUIT})')
            = Cardinality(Pending({JOB_QUIT})) - 0 + OneIf({JOB_QUIT}, m)
  <2>1. OneIf({JOB_QUIT}, e) = 0
    BY Kinds DEF Devices
  <2>. QED  BY <1>1, <2>1, PendingMoved
<1>5. Cardinality(Pending({JOB_QUIT})) - 0 = Cardinality(Pending({JOB_QUIT}))
  BY <1>4
<1>. QED  BY <1>2, <1>3, <1>4, <1>5, LeavingThen DEF Leaving

LEMMA NothingMoves ==
  ASSUME FlowTypes, \A d \in Devices : Flow(d)' = Flow(d), Leaving' = Leaving,
         Finished("cpu")' = Finished("cpu")
  PROVE  Moves(ARRIVAL("cpu"))
<1>1. \A d \in Devices : ARRIVAL("cpu") # ARRIVAL(d) /\ d \in Components
  BY DEF Components, Devices, ARRIVAL
<1>2. \A d \in Components : Flow(d) \in Nat /\ Leaving \in Nat /\ Finished(d) \in Nat
  BY FlowsAreNumbers
<1>3. "cpu" \in Components
  BY DEF Components
<1>. QED  BY <1>1, <1>2, <1>3, EventNames DEF Moves

LEMMA WaitsMoves ==
  ASSUME FlowTypes, UNCHANGED leftover, NEW e \in sim_queue, Pull(e),
         NEW c \in Components, Waits(c, e), UNCHANGED job_count
  PROVE  FiniteInv' /\ Moves(ARRIVAL("cpu"))
<1>1. sim_queue' = sim_queue \ {e} /\ e.event = ARRIVAL(c)
  BY DEF Waits, Push
<1>2. TypeOK /\ e.num \in Nat /\ FiniteInv
  BY PulledEvent DEF FlowTypes, JobsInv, IInv
<1>3. Len(queue'[c]) = Len(queue[c]) + 1
      /\ \A d \in Components : d # c => queue'[d] = queue[d]
  BY <1>2, Queued DEF Waits
<1>4. FiniteInv'
  BY <1>1, <1>2, PendingTaken
<1>5. \A d \in Components : Finished(d) \in Nat /\ Finished(d)' = Finished(d)
  BY FinishedGrows, FlowsAreNumbers
<1>6. ASSUME NEW d \in Devices PROVE Flow(d)' = Flow(d)
  <2>1. d \in Components /\ OneIf(AtDevice(d), e) = IF d = c THEN 1 ELSE 0
    BY <1>1, Kinds DEF Components
  <2>2. /\ Cardinality(Pending(AtDevice(d))) \in Nat
        /\ Cardinality(Pending(AtDevice(d))')
              = Cardinality(Pending(AtDevice(d))) - OneIf(AtDevice(d), e)
    BY <1>1, <1>2, PendingTaken DEF AtDevice
  <2>4. CASE d = c
    BY <1>3, <1>5, <2>1, <2>2, <2>4, FlowChanges
  <2>5. CASE d # c
    BY <1>3, <1>5, <2>1, <2>2, <2>5, FlowChanges
  <2>. QED  BY <2>4, <2>5
<1>7. Leaving' = Leaving
  <2>1. OneIf({JOB_QUIT}, e) = 0
    BY <1>1, Kinds DEF Devices
  <2>2. Cardinality(Pending({JOB_QUIT})') = Cardinality(Pending({JOB_QUIT})) - 0
        /\ Cardinality(Pending({JOB_QUIT})) \in Nat
    BY <1>1, <1>2, <2>1, PendingTaken DEF JOB_QUIT
  <2>. QED  BY <2>2, LeavingThen DEF Leaving
<1>8. "cpu" \in Components
  BY DEF Components
<1>. QED  BY <1>4, <1>5, <1>6, <1>7, <1>8, NothingMoves

LEMMA ServedMoves ==
  ASSUME FlowTypes, UNCHANGED leftover, NEW e \in sim_queue, Pull(e),
         NEW c \in Components, Served(c, e), UNCHANGED job_count
  PROVE  FiniteInv' /\ Moves(ARRIVAL("cpu"))
<1>1. PICK t \in Nat : sim_queue' = (sim_queue \ {e}) \union {Job(e.num, FINISH(c), t)}
  BY DEF Served, Push
<1>2. e.event \in {ARRIVAL(c), FINISH(c)} /\ UNCHANGED queue
  BY DEF Served
<1> DEFINE m == Job(e.num, FINISH(c), t)
<1>3. m \notin sim_queue \ {e} /\ m.event = FINISH(c)
  BY MovedIsNew, JobFields DEF FlowTypes
<1>4. sim_queue' = (sim_queue \ {e}) \union {m}
  BY <1>1
<1> HIDE DEF m
<1>5. /\ \A d \in Devices : OneIf(AtDevice(d), m) = IF d = c THEN 1 ELSE 0
      /\ OneIf({JOB_QUIT}, m) = 0
  BY <1>3, Kinds DEF Devices
<1>6. /\ FiniteInv'
      /\ \A d \in Devices :
            /\ Cardinality(Pending(AtDevice(d))) \in Nat
            /\ Cardinality(Pending(AtDevice(d))')
                  = Cardinality(Pending(AtDevice(d)))
                    - (IF d = c THEN 1 ELSE 0) + OneIf(AtDevice(d), m)
      /\ Leaving \in Nat /\ Leaving' = Leaving + OneIf({JOB_QUIT}, m)
  BY <1>2, <1>3, <1>4, MovedFlows
<1>7. \A d \in Components : Finished(d)' = Finished(d)
  BY FinishedGrows
<1>8. \A d \in Devices : d \in Components
  BY DEF Components
<1>9. ASSUME NEW d \in Devices PROVE Flow(d)' = Flow(d)
  <2>1. Cardinality(Pending(AtDevice(d))') = Cardinality(Pending(AtDevice(d)))
    BY <1>5, <1>6
  <2>. QED  BY <1>2, <1>7, <1>8, <2>1, FlowChanges
<1>10. Leaving' = Leaving /\ "cpu" \in Components
  BY <1>5, <1>6 DEF Components
<1>. QED  BY <1>6, <1>7, <1>9, <1>10, NothingMoves

(* Where a finished job is sent; only the CPU sends it to a device or out. *)
LEMMA DestinationCounts ==
  ASSUME NEW c \in Components, NEW to \in Destinations(c), NEW m, m.event = to,
         NEW d \in Devices
  PROVE  /\ OneIf(AtDevice(d), m) = IF to = ARRIVAL(d) THEN 1 ELSE 0
         /\ OneIf({JOB_QUIT}, m) = IF to = JOB_QUIT THEN 1 ELSE 0
         /\ d = c => to # ARRIVAL(d)
         /\ to = ARRIVAL("cpu") <=> c # "cpu"
<1>1. \A a, b : ARRIVAL(a) = ARRIVAL(b) => a = b
  BY DEF ARRIVAL
<1>2. to \in {JOB_QUIT, ARRIVAL("cpu")} \union {ARRIVAL(a) : a \in Devices}
  BY DEF Destinations
<1>3. (d = c => to # ARRIVAL(d)) /\ (to = ARRIVAL("cpu") <=> c # "cpu")
  BY <1>1, EventNames DEF Destinations, Components, Devices
<1>4. OneIf(AtDevice(d), m) = IF to = ARRIVAL(d) THEN 1 ELSE 0
  BY <1>1, <1>2, EventNames DEF OneIf, AtDevice
<1>5. OneIf({JOB_QUIT}, m) = IF to = JOB_QUIT THEN 1 ELSE 0
  BY DEF OneIf
<1>. QED  BY <1>3, <1>4, <1>5

(* A job leaves c, which is free then or serves the first that waits.      *)
LEMMA LeavesMoves ==
  ASSUME FlowTypes, UNCHANGED leftover, NEW c \in Components, CountJob(c),
         NEW to \in Destinations(c),
         Leaving' = Leaving + IF to = JOB_QUIT THEN 1 ELSE 0,
         \A d \in Devices \ {c} :
            /\ Len(queue'[d]) = Len(queue[d])
            /\ Cardinality(Pending(AtDevice(d))')
                  = Cardinality(Pending(AtDevice(d)))
                    + IF to = ARRIVAL(d) THEN 1 ELSE 0,
         c \in Devices =>
            \/ /\ Len(queue'[c]) = Len(queue[c])
               /\ Cardinality(Pending(AtDevice(c))')
                     = Cardinality(Pending(AtDevice(c))) - 1
            \/ /\ Len(queue'[c]) = Len(queue[c]) - 1
               /\ Cardinality(Pending(AtDevice(c))')
                     = Cardinality(Pending(AtDevice(c)))
  PROVE  Moves(to)
<1>1. \A d \in Components :
         /\ Finished(d) \in Nat /\ Flow(d) \in Nat
         /\ Cardinality(Pending(AtDevice(d))) \in Nat
         /\ Finished(d)' = Finished(d) + IF d = c THEN 1 ELSE 0
  BY FinishedGrows, FlowsAreNumbers
<1>2. \A d \in Devices : d \in Components /\ (d = c => to # ARRIVAL(d))
  BY DestinationCounts, JobFields DEF Components
<1>3. "cpu" \in Components /\ (to = ARRIVAL("cpu") <=> c # "cpu")
  BY DestinationCounts, JobFields DEF Components, Devices
<1>4. Finished("cpu")' = Finished("cpu") + IF to = ARRIVAL("cpu") THEN 0 ELSE 1
  BY <1>1, <1>3
<1>5. ASSUME NEW d \in Devices
      PROVE  Flow(d)' = Flow(d) + IF to = ARRIVAL(d) THEN 1 ELSE 0
  <2>1. Flow(d) \in Nat /\ Finished(d) \in Nat
        /\ Finished(d)' = Finished(d) + IF d = c THEN 1 ELSE 0
    BY <1>1, <1>2
  <2>2. CASE d = c
    <3>1. Flow(d)' = Flow(d)
      BY <2>1, <2>2, FlowChanges
    <3>. QED  BY <1>2, <2>1, <2>2, <3>1
  <2>3. CASE d # c /\ to = ARRIVAL(d)
    <3>1. /\ Len(queue'[d]) = Len(queue[d]) /\ Finished(d)' = Finished(d)
          /\ Cardinality(Pending(AtDevice(d))')
                = Cardinality(Pending(AtDevice(d))) + 1
      BY <2>1, <2>3
    <3>. QED  BY <2>3, <3>1, FlowChanges
  <2>4. CASE d # c /\ to # ARRIVAL(d)
    <3>1. /\ Len(queue'[d]) = Len(queue[d]) /\ Finished(d)' = Finished(d)
          /\ Cardinality(Pending(AtDevice(d))')
                = Cardinality(Pending(AtDevice(d)))
      BY <1>1, <1>2, <2>1, <2>4
    <3>2. Flow(d)' = Flow(d)
      BY <3>1, FlowChanges
    <3>. QED  BY <2>1, <2>4, <3>2
  <2>. QED  BY <2>2, <2>3, <2>4
<1>. QED  BY <1>4, <1>5 DEF Moves

LEMMA FreesMoves ==
  ASSUME FlowTypes, UNCHANGED leftover, NEW e \in sim_queue, Pull(e),
         NEW c \in Components, Frees(c, e), CountJob(c)
  PROVE  FiniteInv' /\ \E to \in Destinations(c) : Moves(to)
<1>1. PICK to \in Destinations(c) :
         sim_queue' = (sim_queue \ {e}) \union {Job(e.num, to, e.time)}
  BY DEF Frees, Push
<1>2. e.event \in {ARRIVAL(c), FINISH(c)} /\ UNCHANGED queue
  BY DEF Frees
<1> DEFINE m == Job(e.num, to, e.time)
<1>3. m \notin sim_queue \ {e} /\ m.event = to
  BY MovedIsNew, JobFields DEF FlowTypes
<1>4. sim_queue' = (sim_queue \ {e}) \union {m}
  BY <1>1
<1> HIDE DEF m
<1>5. /\ FiniteInv'
      /\ \A d \in Devices :
            /\ Cardinality(Pending(AtDevice(d))) \in Nat
            /\ Cardinality(Pending(AtDevice(d))')
                  = Cardinality(Pending(AtDevice(d)))
                    - (IF d = c THEN 1 ELSE 0) + OneIf(AtDevice(d), m)
      /\ Leaving \in Nat /\ Leaving' = Leaving + OneIf({JOB_QUIT}, m)
  BY <1>2, <1>3, <1>4, MovedFlows
<1>6. \A d \in Devices :
         /\ OneIf(AtDevice(d), m) = IF to = ARRIVAL(d) THEN 1 ELSE 0
         /\ d = c => to # ARRIVAL(d)
  BY <1>3, DestinationCounts
<1>7. OneIf({JOB_QUIT}, m) = IF to = JOB_QUIT THEN 1 ELSE 0
  BY <1>3, DestinationCounts DEF Devices
<1>8. \A d \in Devices \ {c} :
         /\ Len(queue'[d]) = Len(queue[d])
         /\ Cardinality(Pending(AtDevice(d))')
               = Cardinality(Pending(AtDevice(d)))
                 + IF to = ARRIVAL(d) THEN 1 ELSE 0
  BY <1>2, <1>5, <1>6
<1>9. c \in Devices =>
         /\ Len(queue'[c]) = Len(queue[c])
         /\ Cardinality(Pending(AtDevice(c))')
               = Cardinality(Pending(AtDevice(c))) - 1
  BY <1>2, <1>5, <1>6
<1>10. Moves(to)
  BY <1>5, <1>7, <1>8, <1>9, LeavesMoves
<1>. QED  BY <1>5, <1>10

LEMMA FollowsMoves ==
  ASSUME FlowTypes, UNCHANGED leftover, NEW e \in sim_queue, Pull(e),
         NEW c \in Components, Follows(c, e), CountJob(c)
  PROVE  FiniteInv' /\ \E to \in Destinations(c) : Moves(to)
<1>1. PICK to \in Destinations(c), t \in Nat :
         sim_queue' = (sim_queue \ {e})
           \union {Job(e.num, to, e.time), Job(Head(queue[c]), FINISH(c), t)}
  BY DEF Follows, Push
<1>2. e.event = FINISH(c) /\ TypeOK /\ FiniteInv
  BY DEF Follows, FlowTypes, JobsInv, IInv
<1>3. /\ Len(queue'[c]) = Len(queue[c]) - 1 /\ Len(queue[c]) \in Nat \ {0}
      /\ Head(queue[c]) = queue[c][1]
      /\ \A d \in Components : d # c => queue'[d] = queue[d]
  BY <1>2, Unqueued DEF Follows
<1>4. \A f \in sim_queue : f.num # Head(queue[c])
  <2>1. 1 \in 1..Len(queue[c])
    BY <1>3
  <2>. QED  BY <1>3, <2>1 DEF FlowTypes, JobsInv, NumbersInv, EventOrQueued
<1> DEFINE m == Job(e.num, to, e.time)
           k == Job(Head(queue[c]), FINISH(c), t)
<1>5. m \notin sim_queue \ {e} /\ m.event = to /\ m.num = e.num
  BY MovedIsNew, JobFields DEF FlowTypes
<1>6. k.event = FINISH(c) /\ k.num = Head(queue[c])
  BY JobFields
<1>7. sim_queue' = (sim_queue \ {e}) \union {m, k}
  BY <1>1
<1> HIDE DEF m, k
<1>8. k \notin sim_queue \ {e} /\ m # k
  BY <1>4, <1>5, <1>6
<1>9. FiniteInv'
  BY <1>2, <1>5, <1>7, <1>8, PendingMovedTwo
<1>10. \A kinds :
          /\ Cardinality(Pending(kinds)) \in Nat
          /\ Cardinality(Pending(kinds)')
                = Cardinality(Pending(kinds))
                  - OneIf(kinds, e) + OneIf(kinds, m) + OneIf(kinds, k)
  BY <1>2, <1>5, <1>7, <1>8, PendingMovedTwo
<1>11. ASSUME NEW d \in Devices
       PROVE  /\ d = c => to # ARRIVAL(d)
              /\ Cardinality(Pending(AtDevice(d))) \in Nat
              /\ Cardinality(Pending(AtDevice(d))')
                    = Cardinality(Pending(AtDevice(d)))
                      + IF to = ARRIVAL(d) THEN 1 ELSE 0
  <2>1. /\ OneIf(AtDevice(d), e) = IF d = c THEN 1 ELSE 0
        /\ OneIf(AtDevice(d), k) = IF d = c THEN 1 ELSE 0
    BY <1>2, <1>6, Kinds
  <2>2. /\ OneIf(AtDevice(d), m) = IF to = ARRIVAL(d) THEN 1 ELSE 0
        /\ d = c => to # ARRIVAL(d)
    BY <1>5, DestinationCounts
  <2>3. /\ Cardinality(Pending(AtDevice(d))) \in Nat
        /\ Cardinality(Pending(AtDevice(d))')
              = Cardinality(Pending(AtDevice(d)))
                - OneIf(AtDevice(d), e) + OneIf(AtDevice(d), m) + OneIf(AtDevice(d), k)
    BY <1>10
  <2>. QED  BY <2>1, <2>2, <2>3
<1>12. Leaving' = Leaving + IF to = JOB_QUIT THEN 1 ELSE 0
  <2>1. OneIf({JOB_QUIT}, e) = 0 /\ OneIf({JOB_QUIT}, k) = 0
    BY <1>2, <1>6, Kinds DEF Devices
  <2>2. OneIf({JOB_QUIT}, m) = IF to = JOB_QUIT THEN 1 ELSE 0
    BY <1>5, DestinationCounts DEF Devices
  <2>3. /\ Cardinality(Pending({JOB_QUIT})) \in Nat
        /\ Cardinality(Pending({JOB_QUIT})')
              = Cardinality(Pending({JOB_QUIT}))
                - OneIf({JOB_QUIT}, e) + OneIf({JOB_QUIT}, m) + OneIf({JOB_QUIT}, k)
    BY <1>10
  <2>4. Cardinality(Pending({JOB_QUIT})')
           = Cardinality(Pending({JOB_QUIT})) + IF to = JOB_QUIT THEN 1 ELSE 0
    BY <2>1, <2>2, <2>3
  <2>. QED  BY <2>4, LeavingThen DEF Leaving
<1>13. \A d \in Devices \ {c} :
          /\ Len(queue'[d]) = Len(queue[d])
          /\ Cardinality(Pending(AtDevice(d))')
                = Cardinality(Pending(AtDevice(d)))
                  + IF to = ARRIVAL(d) THEN 1 ELSE 0
  BY <1>3, <1>11 DEF Components
<1>14. c \in Devices =>
          /\ Len(queue'[c]) = Len(queue[c]) - 1
          /\ Cardinality(Pending(AtDevice(c))')
                = Cardinality(Pending(AtDevice(c)))
  BY <1>3, <1>11
<1>15. Moves(to)
  BY <1>12, <1>13, <1>14, LeavesMoves
<1>. QED  BY <1>9, <1>15

LEMMA AnnouncesMoves ==
  ASSUME FlowTypes, UNCHANGED leftover, NEW e \in sim_queue, Pull(e),
         Announces(e), UNCHANGED job_count
  PROVE  FiniteInv' /\ Moves(ARRIVAL("cpu"))
<1>1. PICK t \in Nat :
         sim_queue' = (sim_queue \ {e})
           \union {Job(cur_job_num + 1, JOB_ARRIVAL, t),
                   Job(e.num, ARRIVAL("cpu"), e.time)}
  BY DEF Announces, Push
<1>2. e.event = JOB_ARRIVAL /\ FiniteInv /\ UNCHANGED queue
  BY DEF Announces, FlowTypes
<1>3. \A f \in sim_queue : f.num # cur_job_num + 1
  BY DEF FlowTypes, JobsInv, IInv, TypeOK, NumbersInv, Numbered
<1> DEFINE m == Job(cur_job_num + 1, JOB_ARRIVAL, t)
           k == Job(e.num, ARRIVAL("cpu"), e.time)
<1>4. k \notin sim_queue \ {e} /\ k.event = ARRIVAL("cpu") /\ k.num = e.num
  BY MovedIsNew, JobFields DEF FlowTypes
<1>5. m.event = JOB_ARRIVAL /\ m.num = cur_job_num + 1
  BY JobFields
<1>6. sim_queue' = (sim_queue \ {e}) \union {m, k}
  BY <1>1
<1> HIDE DEF m, k
<1>7. m \notin sim_queue \ {e} /\ m # k
  BY <1>3, <1>4, <1>5
<1>8. FiniteInv'
  BY <1>2, <1>4, <1>6, <1>7, PendingMovedTwo
<1>9. \A kinds :
         /\ Cardinality(Pending(kinds)) \in Nat
         /\ Cardinality(Pending(kinds)')
               = Cardinality(Pending(kinds))
                 - OneIf(kinds, e) + OneIf(kinds, m) + OneIf(kinds, k)
  BY <1>2, <1>4, <1>6, <1>7, PendingMovedTwo
<1>10. \A d \in Components : Finished(d)' = Finished(d)
  BY FinishedGrows DEF Components
<1>11. "cpu" \in Components /\ "cpu" \notin Devices
       /\ \A d \in Devices : d \in Components
  BY DEF Components, Devices
<1>12. ASSUME NEW d \in Devices PROVE Flow(d)' = Flow(d)
  <2>1. /\ OneIf(AtDevice(d), e) = 0 /\ OneIf(AtDevice(d), m) = 0
        /\ OneIf(AtDevice(d), k) = 0
    BY <1>2, <1>4, <1>5, <1>11, Kinds
  <2>2. Cardinality(Pending(AtDevice(d))') = Cardinality(Pending(AtDevice(d)))
    BY <1>9, <2>1
  <2>. QED  BY <1>2, <1>10, <1>11, <2>2, FlowChanges
<1>13. Leaving' = Leaving
  <2>1. /\ OneIf({JOB_QUIT}, e) = 0 /\ OneIf({JOB_QUIT}, m) = 0
        /\ OneIf({JOB_QUIT}, k) = 0
    BY <1>2, <1>4, <1>5, EventNames DEF OneIf
  <2>2. Cardinality(Pending({JOB_QUIT})') = Cardinality(Pending({JOB_QUIT}))
    BY <1>9, <2>1
  <2>. QED  BY <2>2, LeavingThen DEF Leaving
<1>. QED  BY <1>8, <1>10, <1>11, <1>12, <1>13, NothingMoves

(* A job that has left does not come back.                                 *)
LEMMA StaysAbsent ==
  ASSUME JobsInv, NEW e \in sim_queue, Pull(e), Handled(e),
         NEW n \in 1..cur_job_num, Present(n)'
  PROVE  Present(n)
<1>0. TypeOK /\ e.num \in Nat /\ cur_job_num \in Nat
  BY PulledEvent DEF JobsInv, IInv, TypeOK
<1>1. Present(e.num)
  BY DEF Present
<1>2. CASE Announces(e)
  BY <1>0, <1>1, <1>2, JobFields DEF Announces, Push, Present
<1>3. CASE Quits(e)
  BY <1>3 DEF Quits, Push, Present
<1>4. ASSUME NEW c \in Components, Waits(c, e) PROVE Present(n)
  <2>1. /\ Len(queue'[c]) = Len(queue[c]) + 1 /\ Len(queue[c]) \in Nat
        /\ queue'[c][Len(queue[c]) + 1] = e.num
        /\ \A i \in 1..Len(queue[c]) : queue'[c][i] = queue[c][i]
        /\ \A d \in Components : d # c => queue'[d] = queue[d]
    BY <1>0, <1>4, Queued DEF Waits
  <2>2. sim_queue' = sim_queue \ {e}
    BY <1>4 DEF Waits, Push
  <2>3. \A i \in 1..Len(queue'[c]) :
           i \in 1..Len(queue[c]) \/ i = Len(queue[c]) + 1
    BY <2>1
  <2>. QED  BY <1>1, <2>1, <2>2, <2>3 DEF Present
<1>5. ASSUME NEW c \in Components, Served(c, e) \/ Frees(c, e) PROVE Present(n)
  BY <1>1, <1>5, JobFields DEF Served, Frees, Push, Present
<1>6. ASSUME NEW c \in Components, Follows(c, e) PROVE Present(n)
  <2>1. PICK to \in Destinations(c), t \in Nat :
           sim_queue' = (sim_queue \ {e})
             \union {Job(e.num, to, e.time), Job(Head(queue[c]), FINISH(c), t)}
    BY <1>6 DEF Follows, Push
  <2>2. /\ Len(queue'[c]) = Len(queue[c]) - 1 /\ Len(queue[c]) \in Nat \ {0}
        /\ Head(queue[c]) = queue[c][1]
        /\ \A i \in 1..Len(queue'[c]) : queue'[c][i] = queue[c][i + 1]
        /\ \A d \in Components : d # c => queue'[d] = queue[d]
    BY <1>0, <1>6, Unqueued DEF Follows
  <2>3. 1 \in 1..Len(queue[c])
        /\ \A i \in 1..Len(queue'[c]) : i + 1 \in 1..Len(queue[c])
    BY <2>2
  <2>4. Present(Head(queue[c]))
    BY <2>2, <2>3 DEF Present
  <2>5. CASE \E f \in sim_queue' : f.num = n
    BY <1>1, <2>1, <2>4, <2>5, JobFields DEF Present
  <2>6. CASE \E d \in Components : \E i \in 1..Len(queue'[d]) : queue'[d][i] = n
    <3>1. PICK d \in Components : \E i \in 1..Len(queue'[d]) : queue'[d][i] = n
      BY <2>6
    <3>2. PICK i \in 1..Len(queue'[d]) : queue'[d][i] = n
      BY <3>1
    <3>3. \E j \in 1..Len(queue[d]) : queue[d][j] = n
      BY <2>2, <2>3, <3>2
    <3>. QED  BY <3>3 DEF Present
  <2>. QED  BY <2>5, <2>6 DEF Present
<1>. QED  BY <1>2, <1>3, <1>4, <1>5, <1>6 DEF Handled

(* Only a JOB_QUIT takes a job away, and it is its own.                    *)
LEMMA GoneStays ==
  ASSUME JobsInv, NEW e \in sim_queue, Pull(e), Handled(e), ~Quits(e)
  PROVE  Gone' = Gone
<1>1. cur_job_num \in Nat /\ e.event # JOB_QUIT
  <2>1. Announces(e) \/ \E c \in Components :
           Waits(c, e) \/ Served(c, e) \/ Frees(c, e) \/ Follows(c, e)
    BY DEF Handled
  <2>2. e.event # JOB_QUIT
    BY <2>1, EventNames DEF Announces, Waits, Served, Frees, Follows
  <2>. QED  BY <2>2 DEF JobsInv, IInv, TypeOK
<1>2. \A n \in 1..cur_job_num : Present(n)' <=> Present(n)
  BY <1>1, StaysPresent, StaysAbsent
<1>3. CASE Announces(e)
  <2>1. \A n : n = cur_job_num + 1 => Present(n)'
    <3>1. \E f \in sim_queue' : f.num = cur_job_num + 1
      BY <1>3, JobFields DEF Announces, Push
    <3>. QED  BY <3>1 DEF Present
  <2>2. cur_job_num' = cur_job_num + 1
    BY <1>3 DEF Announces
  <2>3. \A n : n \in 1..cur_job_num' <=>
               n \in 1..cur_job_num \/ n = cur_job_num + 1
    BY <1>1, <2>2
  <2>4. \A n : n \in 1..cur_job_num' /\ ~Present(n)'
               <=> n \in 1..cur_job_num /\ ~Present(n)
    BY <1>1, <1>2, <2>1, <2>3
  <2>5. Gone' = {n \in 1..cur_job_num' : ~Present(n)'}
    BY DEF Gone
  <2>. QED  BY <2>4, <2>5 DEF Gone
<1>4. CASE ~Announces(e)
  <2>1. UNCHANGED cur_job_num
    BY <1>4 DEF Handled, Waits, Served, Frees, Follows
  <2>. QED  BY <1>2, <2>1 DEF Gone
<1>. QED  BY <1>3, <1>4

LEMMA QuitterIsGone ==
  ASSUME JobsInv, NEW e \in sim_queue, Pull(e), Quits(e)
  PROVE  Gone' = Gone \union {e.num} /\ e.num \notin Gone
<1>1. /\ e.event = JOB_QUIT /\ sim_queue' = sim_queue \ {e}
      /\ UNCHANGED <<cur_job_num, queue>> /\ Handled(e)
  BY DEF Quits, Push, Handled
<1>2. e.num \in 1..cur_job_num
  BY DEF JobsInv, NumbersInv, Numbered
<1>3. Present(e.num)
  BY DEF Present
<1>4. ~Present(e.num)'
  BY <1>1 DEF Present, JobsInv, NumbersInv, OneEvent, EventOrQueued
<1>5. \A n \in 1..cur_job_num : n # e.num => (Present(n)' <=> Present(n))
  BY <1>1, StaysPresent, StaysAbsent
<1>6. Gone' = Gone \union {e.num}
  BY <1>1, <1>2, <1>4, <1>5 DEF Gone
<1>. QED  BY <1>3, <1>6 DEF Gone

LEMMA QuitsLeaves ==
  ASSUME FlowTypes, UNCHANGED leftover, NEW e \in sim_queue, Pull(e),
         Quits(e), UNCHANGED job_count
  PROVE  /\ FiniteInv' /\ Leaving' = Leaving - 1
         /\ \A d \in Devices : Flow(d)' = Flow(d)
         /\ Finished("cpu")' = Finished("cpu")
<1>1. /\ e.event = JOB_QUIT /\ sim_queue' = sim_queue \ {e} /\ FiniteInv
      /\ UNCHANGED queue
  BY DEF Quits, Push, FlowTypes
<1>2. FiniteInv'
  BY <1>1, PendingTaken
<1>3. "cpu" \in Components /\ \A d \in Devices : d \in Components
  BY DEF Components
<1>4. \A d \in Components : Finished(d)' = Finished(d)
  BY <1>3, FinishedGrows
<1>5. ASSUME NEW d \in Devices PROVE Flow(d)' = Flow(d)
  <2>1. OneIf(AtDevice(d), e) = 0
    BY <1>1, Kinds
  <2>2. /\ Cardinality(Pending(AtDevice(d))) \in Nat
        /\ Cardinality(Pending(AtDevice(d))')
              = Cardinality(Pending(AtDevice(d))) - 0
    BY <1>1, <2>1, PendingTaken
  <2>3. Cardinality(Pending(AtDevice(d))') = Cardinality(Pending(AtDevice(d)))
    BY <2>2
  <2>. QED  BY <1>1, <1>3, <1>4, <2>3, FlowChanges
<1>6. Leaving' = Leaving - 1
  <2>1. OneIf({JOB_QUIT}, e) = 1
    BY <1>1 DEF OneIf
  <2>2. Cardinality(Pending({JOB_QUIT})') = Cardinality(Pending({JOB_QUIT})) - 1
    BY <1>1, <2>1, PendingTaken
  <2>. QED  BY <2>2, LeavingThen DEF Leaving
<1>. QED  BY <1>2, <1>3, <1>4, <1>5, <1>6

(* What the CPU has finished flows through the devices, leaves or is gone. *)
FlowInv ==
    Finished("cpu") = Flow("disk1") + Flow("disk2") + Flow("network")
                      + Leaving + Cardinality(Gone)

LEMMA GoneIsFinite ==
  ASSUME JobsInv
  PROVE  IsFiniteSet(Gone) /\ Cardinality(Gone) \in Nat
<1>1. cur_job_num \in Nat
  BY DEF JobsInv, IInv, TypeOK
<1>2. IsFiniteSet(1..cur_job_num) /\ Gone \subseteq 1..cur_job_num
  BY <1>1, FS_Interval DEF Gone
<1>. QED  BY <1>2, FS_Subset, FS_CardinalityType

(* Wherever the job goes, both sides grow alike.                           *)
LEMMA MovesBalance ==
  ASSUME FlowTypes, FlowInv, NEW to, Moves(to),
         to \in {JOB_QUIT, ARRIVAL("cpu")} \union {ARRIVAL(d) : d \in Devices},
         Gone' = Gone
  PROVE  FlowInv'
<1> DEFINE f1 == Flow("disk1")
           f2 == Flow("disk2")
           f3 == Flow("network")
           l == Leaving
           g == Cardinality(Gone)
           f == Finished("cpu")
<1>1. /\ f1 \in Nat /\ f2 \in Nat /\ f3 \in Nat /\ l \in Nat /\ g \in Nat
      /\ f \in Nat
  BY FlowsAreNumbers, GoneIsFinite DEF FlowTypes, Components, Devices
<1>2. f = f1 + f2 + f3 + l + g
  BY DEF FlowInv
<1>3. /\ Flow("disk1")' = f1 + IF to = ARRIVAL("disk1") THEN 1 ELSE 0
      /\ Flow("disk2")' = f2 + IF to = ARRIVAL("disk2") THEN 1 ELSE 0
      /\ Flow("network")' = f3 + IF to = ARRIVAL("network") THEN 1 ELSE 0
      /\ Leaving' = l + IF to = JOB_QUIT THEN 1 ELSE 0
      /\ Finished("cpu")' = f + IF to = ARRIVAL("cpu") THEN 0 ELSE 1
      /\ Cardinality(Gone)' = g
  BY DEF Moves, Devices
<1>4. to \in {JOB_QUIT, ARRIVAL("cpu"), ARRIVAL("disk1"), ARRIVAL("disk2"),
              ARRIVAL("network")}
  BY DEF Devices
<1>5. \A a, b : ARRIVAL(a) = ARRIVAL(b) => a = b
  BY DEF ARRIVAL
<1> HIDE DEF f1, f2, f3, l, g, f
<1>6. Finished("cpu")' = Flow("disk1")' + Flow("disk2")' + Flow("network")'
                         + Leaving' + Cardinality(Gone)'
  <2>1. CASE to = JOB_QUIT
    BY <1>1, <1>2, <1>3, <2>1, EventNames
  <2>2. CASE to = ARRIVAL("cpu")
    BY <1>1, <1>2, <1>3, <1>5, <2>2, EventNames
  <2>3. CASE to = ARRIVAL("disk1")
    BY <1>1, <1>2, <1>3, <1>5, <2>3, EventNames
  <2>4. CASE to = ARRIVAL("disk2")
    BY <1>1, <1>2, <1>3, <1>5, <2>4, EventNames
  <2>5. CASE to = ARRIVAL("network")
    BY <1>1, <1>2, <1>3, <1>5, <2>5, EventNames
  <2>. QED  BY <1>4, <2>1, <2>2, <2>3, <2>4, <2>5
<1>. QED  BY <1>6 DEF FlowInv

(* A job that quits goes from the leaving to the gone.                     *)
LEMMA QuitsBalance ==
  ASSUME FlowTypes, FlowInv, UNCHANGED leftover, NEW e \in sim_queue, Pull(e),
         Quits(e), UNCHANGED job_count
  PROVE  FiniteInv' /\ FlowInv'
<1> DEFINE s == Flow("disk1") + Flow("disk2") + Flow("network")
           g == Cardinality(Gone)
<1>1. s \in Nat /\ Leaving \in Nat /\ g \in Nat
  BY FlowsAreNumbers, GoneIsFinite DEF FlowTypes, Components, Devices
<1>2. Finished("cpu") = s + Leaving + g
  BY DEF FlowInv
<1>3. /\ FiniteInv' /\ Leaving' = Leaving - 1
      /\ \A d \in Devices : Flow(d)' = Flow(d)
      /\ Finished("cpu")' = Finished("cpu")
  BY QuitsLeaves
<1>4. Flow("disk1")' + Flow("disk2")' + Flow("network")' = s
  BY <1>3 DEF Devices
<1>5. Cardinality(Gone)' = g + 1
  <2>1. Gone' = Gone \union {e.num} /\ e.num \notin Gone
    BY QuitterIsGone DEF FlowTypes
  <2>2. IsFiniteSet(Gone)
    BY GoneIsFinite DEF FlowTypes
  <2>3. Cardinality(Gone \union {e.num}) = Cardinality(Gone) + 1
    BY <2>1, <2>2, FS_AddElement
  <2>. QED  BY <2>1, <2>3
<1> HIDE DEF s, g
<1>6. s + (Leaving - 1) + (g + 1) = s + Leaving + g
  BY <1>1
<1>. QED  BY <1>2, <1>3, <1>4, <1>5, <1>6 DEF FlowInv

LEMMA FlowStep ==
  ASSUME FlowTypes, FlowInv, UNCHANGED leftover, NEW e \in sim_queue, Pull(e),
         HandledAndCounted(e)
  PROVE  FiniteInv' /\ FlowInv'
<1>1. JobsInv
  BY DEF FlowTypes
<1>2. CASE Announces(e) /\ UNCHANGED counters
  <2>1. FiniteInv' /\ Moves(ARRIVAL("cpu"))
    BY <1>2, AnnouncesMoves DEF counters
  <2>2. Handled(e) /\ ~Quits(e)
    BY <1>2, EventNames DEF Handled, Announces, Quits
  <2>3. Gone' = Gone
    BY <1>1, <2>2, GoneStays
  <2>. QED  BY <2>1, <2>3, MovesBalance
<1>3. CASE Quits(e) /\ UNCHANGED counters
  BY <1>3, QuitsBalance DEF counters
<1>4. ASSUME NEW c \in Components, Counts(c, e)
      PROVE  FiniteInv' /\ FlowInv'
  <2>1. FiniteInv'
    BY <1>4, WaitsMoves, ServedMoves, FreesMoves, FollowsMoves DEF Counts
  <2>2. \E to \in {ARRIVAL("cpu")} \union Destinations(c) : Moves(to)
    BY <1>4, WaitsMoves, ServedMoves, FreesMoves, FollowsMoves DEF Counts
  <2>3. Handled(e) /\ ~Quits(e)
    BY <1>4, EventNames
       DEF Counts, Handled, Waits, Served, Frees, Follows, Quits
  <2>4. Gone' = Gone
    BY <1>1, <2>3, GoneStays
  <2>5. {ARRIVAL("cpu")} \union Destinations(c)
           \subseteq {JOB_QUIT, ARRIVAL("cpu")} \union {ARRIVAL(d) : d \in Devices}
    BY DEF Destinations
  <2>. QED  BY <2>1, <2>2, <2>4, <2>5, MovesBalance
<1>. QED  BY <1>2, <1>3, <1>4 DEF HandledAndCounted

(* The flows are what ThroughputsAddUp adds up.                            *)
LEMMA FlowsAreThroughputs ==
  ASSUME FlowTypes, FlowInv
  PROVE  ThroughputsAddUp
<1>1. \A d \in Devices :
         /\ Finished(d) \in Nat /\ Len(queue[d]) \in Nat
         /\ Cardinality(Pending(AtDevice(d))) \in Nat
  BY FlowsAreNumbers DEF Components
<1>2. \A d \in Devices : Finished(d) + JobsAt(d) = Flow(d)
  BY <1>1 DEF Flow, JobsAt, Pending, AtDevice
<1>3. Leaving = Cardinality({e \in sim_queue : e.event = JOB_QUIT})
  <2>1. Pending({JOB_QUIT}) = {e \in sim_queue : e.event = JOB_QUIT}
    BY DEF Pending
  <2>. QED  BY <2>1 DEF Leaving
<1>4. Gone = {n \in 1..cur_job_num : Places(n) = {}}
  BY PresentHasPlace DEF Gone, FlowTypes, JobsInv, IInv
<1>5. /\ Finished("disk1") + JobsAt("disk1") = Flow("disk1")
      /\ Finished("disk2") + JobsAt("disk2") = Flow("disk2")
      /\ Finished("network") + JobsAt("network") = Flow("network")
  BY <1>2 DEF Devices
<1>. QED  BY <1>3, <1>4, <1>5 DEF FlowInv, ThroughputsAddUp
-----------------------------------------------------------------------------
(* What the counters say in every state, with the jobs as JobsInv has them.*)
StatInv == StatTypeOK /\ MaxInv /\ BusyInv /\ FiniteInv /\ FlowInv

LEMMA NothingCounted ==
  ASSUME StatInit
  PROVE  StatInv
<1>1. leftover \in Nat /\ \A c \in Components : queue[c] = <<>> /\ ~occupied[c]
  BY LeftoversAssumption DEF StatInit, Init
<1>2. StatTypeOK
  BY <1>1 DEF StatInit, StatTypeOK
<1>3. MaxInv
  <2>1. Max({leftover, 0}) = leftover
    BY <1>1, MaxOfTwo
  <2>. QED  BY <1>1, <2>1 DEF StatInit, MaxInv, LongestInv, MaximumLagsByOne
<1>4. BusyInv
  <2>1. \A c \in Components :
           Max(ServiceTimes(c)) \in Nat /\ Min(ServiceTimes(c)) \in Nat
    BY ServiceTimeBounds
  <2>2. \A c \in Components : utilization[c] = leftover /\ job_count[c] = leftover
    BY DEF StatInit
  <2>3. \A c \in Components : BusyRight(c)
    BY <1>1, <2>1, <2>2 DEF BusyRight, Finished, Serving
  <2>. QED  BY <1>1, <2>2, <2>3, BusyMeans DEF BusyInv, CountersInv
<1>5. FiniteInv
  BY FS_Singleton DEF StatInit, Init, FiniteInv
<1>6. FlowInv
  <2>1. \A c \in Components : Finished(c) = 0 /\ Len(queue[c]) = 0
    BY <1>1 DEF StatInit, Finished
  <2>2. sim_queue = {Job(1, JOB_ARRIVAL, INIT_TIME)} /\ cur_job_num = 1
    BY DEF StatInit, Init
  <2>3. ASSUME NEW kinds, JOB_ARRIVAL \notin kinds
        PROVE  Cardinality(Pending(kinds)) = 0
    <3>1. Pending(kinds) = {}
      BY <2>2, <2>3, JobFields DEF Pending
    <3>. QED  BY <3>1, FS_EmptySet
  <2>4. ASSUME NEW d \in Devices PROVE Flow(d) = 0
    <3>1. JOB_ARRIVAL \notin AtDevice(d) /\ d \in Components
      BY EventNames DEF AtDevice, Components
    <3>. QED  BY <2>1, <2>3, <3>1 DEF Flow
  <2>5. Leaving = 0
    BY <2>3, EventNames DEF Leaving
  <2>6. Gone = {}
    <3>1. 1..cur_job_num = {1} /\ Present(1)
      BY <2>2, JobFields DEF Present
    <3>. QED  BY <3>1 DEF Gone
  <2>. QED  BY <2>1, <2>4, <2>5, <2>6, FS_EmptySet
            DEF FlowInv, Components, Devices
<1>. QED  BY <1>2, <1>3, <1>4, <1>5, <1>6 DEF StatInv

LEMMA StatStep ==
  ASSUME JobsInv, JobsInv', StatInv, [StatNext]_statVars
  PROVE  StatInv'
<1>1. CASE UNCHANGED statVars
  <2>1. /\ UNCHANGED vars /\ UNCHANGED counters /\ UNCHANGED <<leftover, longest>>
    BY <1>1 DEF statVars
  <2>2. UNCHANGED <<queue, occupied, size_entry, size_max, utilization, job_count>>
    BY <2>1 DEF vars, counters
  <2>3. StatTypeOK' /\ MaxInv'
    BY <2>1, <2>2 DEF StatInv, StatTypeOK, MaxInv, LongestInv, MaximumLagsByOne
  <2>4. BusyInv'
    BY <2>1, <2>2
       DEF StatInv, BusyInv, CountersInv, BusyTimeMatchesJobs, Finished
  <2>5. UNCHANGED <<sim_queue, cur_job_num>>
    BY <2>1 DEF vars
  <2>6. FiniteInv' /\ FlowInv'
    <3>1. \A d \in Components : Finished(d)' = Finished(d)
      BY <2>1, <2>2 DEF Finished
    <3>2. \A kinds : Pending(kinds)' = Pending(kinds)
      BY <2>5 DEF Pending
    <3>3. \A d \in Devices : Flow(d)' = Flow(d)
      <4>1. \A d \in Devices : Pending(AtDevice(d))' = Pending(AtDevice(d))
        BY <2>5 DEF Pending, AtDevice, ARRIVAL, FINISH
      <4>. QED  BY <2>2, <3>1, <4>1 DEF Flow, Components
    <3>4. Leaving' = Leaving
      BY <3>2, LeavingThen DEF Leaving
    <3>5. Gone' = Gone
      <4>1. \A n : Present(n)' <=> Present(n)
        BY <2>2, <2>5 DEF Present
      <4>. QED  BY <2>5, <4>1 DEF Gone
    <3>6. FiniteInv'
      BY <2>5 DEF StatInv, FiniteInv
    <3>. QED  BY <3>1, <3>3, <3>4, <3>5, <3>6
              DEF StatInv, FlowInv, Components, Devices
  <2>. QED  BY <2>1, <2>3, <2>4, <2>6 DEF StatInv
<1>2. CASE StatNext
  <2>1. /\ Next
        /\ longest' = [c \in Components |-> Max({longest[c], Len(queue[c])'})]
        /\ UNCHANGED leftover
    BY <1>2, StatShapes DEF StatInv
  <2>2. PICK e \in sim_queue : Pull(e) /\ HandledAndCounted(e)
    BY <1>2, StatShapes DEF StatInv
  <2>3. /\ MaxInv' /\ size_max' \in [Components -> Nat]
        /\ longest' \in [Components -> Nat]
        /\ size_entry' \in [Components -> [total : Nat, amount : Nat]]
    BY <2>1, <2>2, MaxStep DEF StatInv
  <2>4. /\ BusyInv' /\ utilization' \in [Components -> Nat]
        /\ job_count' \in [Components -> Nat]
    BY <2>1, <2>2, BusyStep DEF StatInv
  <2>5. FiniteInv' /\ FlowInv'
    BY <2>1, <2>2, FlowStep DEF StatInv, BusyInv, FlowTypes
  <2>. QED  BY <2>1, <2>3, <2>4, <2>5 DEF StatInv, StatTypeOK
<1>. QED  BY <1>1, <1>2

(* The statistics change nothing in the simulation: every run of the       *)
(* simulator that counts is, but for its counters, one of EventSim         *)
(* (main.cpp 113-178, 251-306).                                            *)
THEOREM StatisticsOnlyObserve == StatSpec => Spec
<1>1. StatInit => Init
  BY DEF StatInit
<1>2. [StatNext]_statVars => [Next]_vars
  BY DEF StatNext, Next, CountCpuArrival, CountCpuFinish, CountDeviceArrival,
         CountDeviceFinish, statVars
<1>. QED  BY <1>1, <1>2, PTL DEF StatSpec, Spec

(* In every reachable state the counters agree with the jobs, whatever they*)
(* held at first (main.cpp 75-79, 113-178, 251-306).                       *)
THEOREM StatInvariance == StatSpec => [](JobsInv /\ StatInv)
<1>1. StatInit => StatInv
  BY NothingCounted
<1>2. JobsInv /\ JobsInv' /\ StatInv /\ [StatNext]_statVars => StatInv'
  BY StatStep
<1>. QED  BY <1>1, <1>2, StatisticsOnlyObserve, JobsInvariance, PTL DEF StatSpec

(* The maximum printed is the greatest size of the queue, or one less when *)
(* the queue has only just reached it, and the average is not above it     *)
(* (main.cpp 115-118, 135-136, 251-254).                                   *)
THEOREM MaximaAreRight == StatSpec => []MaximumLagsByOne
<1>1. StatInv => MaximumLagsByOne
  BY DEF StatInv, MaxInv
<1>. QED  BY <1>1, StatInvariance, PTL

(* The busy time printed lies between what the finished jobs take at least *)
(* and at most, the CPU's below the most (main.cpp 124, 171, 262, 300).    *)
THEOREM BusyTimesAreRight == StatSpec => []BusyTimeMatchesJobs
<1>1. StatInv => BusyTimeMatchesJobs
  BY DEF StatInv, BusyInv
<1>. QED  BY <1>1, StatInvariance, PTL

(* The throughputs add up: each job the CPU has finished was counted at a  *)
(* device or is still there, or leaves or has left (main.cpp 138-158,      *)
(* 285-290).                                                               *)
THEOREM ThroughputsAreRight == StatSpec => []ThroughputsAddUp
<1>1. JobsInv /\ StatInv => ThroughputsAddUp
  BY FlowsAreThroughputs DEF StatInv, BusyInv, FlowTypes
<1>. QED  BY <1>1, StatInvariance, PTL
=============================================================================
