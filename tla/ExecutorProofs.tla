--------------------------- MODULE ExecutorProofs ---------------------------
(***************************************************************************)
(* Safety of the Executor (scheduler/src/executor.cpp), proved for any     *)
(* tasks, threads, capacities and bounds.  Two facts carry the argument:   *)
(* the job numbers that Enqueue hands out are never used twice, so that a  *)
(* push always adds a job and the priority queue has one top; and          *)
(* TaskState::queued is the number of places, spread over the callers, the *)
(* group's queue and the workers, in which a release of the task waits.    *)
(***************************************************************************)
EXTENDS Executor, TLAPS

Job == [task : Tasks, release : Int, sequence : Int]
Release == [task : Tasks, release : Int]

CallIdle == [at : {"idle"}]
CallTask == [at : {"added", "async", "cancelled", "cancelWake"}, task : Tasks]
CallRelease == [at : {"admit"}, task : Tasks, release : Int]
CallJob == [at : {"reserve", "push", "wake"}, task : Tasks, release : Int,
            sequence : Int]
CallState == CallIdle \cup CallTask \cup CallRelease \cup CallJob

WorkerFree == [at : {"unborn", "check", "asleep", "exited"}]
WorkerPopped == [at : {"popped"}, job : Job, stopping : BOOLEAN]
WorkerBusy == [at : {"callback"}, job : Job]
WorkerState == WorkerFree \cup WorkerPopped \cup WorkerBusy

SchedState ==
  [at : {"unborn", "plan", "asleep", "awake", "release", "exited"},
   due : SUBSET Release, wake : SUBSET Int]
TaskState ==
  [added : BOOLEAN, cancelled : BOOLEAN, queued : Nat, next : Int,
   releases : Nat, overflows : Nat, started : Nat, finished : Nat,
   drops : Nat, turnedAway : Nat]

TypeInv ==
  /\ now \in Nat /\ now <= MaxTime /\ sequence \in Int
  /\ stopping \in BOOLEAN /\ groupStopping \in BOOLEAN
  /\ task \in [Tasks -> TaskState]
  /\ queue \subseteq Job /\ IsFiniteSet(queue)
  /\ call \in [Threads -> CallState]
  /\ sched \in SchedState
  /\ worker \in [Workers -> WorkerState]

(* A number is that of one call of Enqueue or of one job, and was handed   *)
(* out.  After the push the call has it no more.                           *)
Numbered(c) == call[c].at \in {"reserve", "push"}
NumberInv ==
  /\ \A j \in queue : j.sequence < sequence
  /\ \A j, k \in queue : j.sequence = k.sequence => j = k
  /\ \A c \in Threads : Numbered(c) =>
       /\ call[c].sequence < sequence
       /\ \A j \in queue : j.sequence # call[c].sequence
       /\ \A d \in Threads : Numbered(d) /\ d # c =>
            call[d].sequence # call[c].sequence

(* No worker runs before Start has made them, and one that has left has    *)
(* seen the queue of a stopping group empty, which it then remains.        *)
StopInv ==
  /\ control \in {"idle", "spawn"} => \A w \in Workers : worker[w].at = "unborn"
  /\ \A w \in Workers : worker[w].at = "exited" => groupStopping /\ queue = {}
  /\ control = "stopped" => \A w \in Workers : worker[w].at = "exited"

(* The bookkeeping of one task: jobs, reservations and popped jobs in the  *)
(* first count, callbacks that run in the last.                            *)
Balanced(r, waiting, executing) ==
  /\ r.queued = waiting
  /\ r.releases = r.queued + r.started + r.drops + r.overflows + r.turnedAway
  /\ r.started - r.finished = executing

Waiting(t) == Cardinality(JobsOf(t)) + Cardinality(Reserving(t))
              + Cardinality(Popped(t))
Account(t) == Balanced(task[t], Waiting(t), Cardinality(Executing(t)))

CapacityInv ==
  /\ \A t \in Tasks : task[t].queued <= TaskCapacity
  /\ Cardinality(queue) <= GroupCapacity

IInv ==
  /\ TypeInv /\ NumberInv /\ StopInv /\ CapacityInv
  /\ \A t \in Tasks : Account(t)

-----------------------------------------------------------------------------
(* What is used of finite sets: elements come and go one at a time, and a  *)
(* set of subsets of a finite set has a minimal one.  The library's        *)
(* theorems, from which SetFactsHold proves it, are brought in only after  *)
(* the steps, whose proofs do without them.                                *)
SetFacts ==
  /\ IsFiniteSet({}) /\ Cardinality({}) = 0
  /\ \A S : IsFiniteSet(S) =>
       Cardinality(S) \in Nat /\ (Cardinality(S) = 0 => S = {})
  /\ \A S : \A T \in SUBSET S : IsFiniteSet(S) => IsFiniteSet(T)
  /\ \A S, x : IsFiniteSet(S) =>
       /\ IsFiniteSet(S \cup {x}) /\ IsFiniteSet(S \ {x})
       /\ x \notin S => Cardinality(S \cup {x}) = Cardinality(S) + 1
       /\ x \in S => Cardinality(S \ {x}) = Cardinality(S) - 1
  /\ \A S : \A C \in SUBSET (SUBSET S) :
       IsFiniteSet(S) /\ C # {} =>
         \E X \in C : \A Y \in C : Y \subseteq X => Y = X

-----------------------------------------------------------------------------
(* HigherPriorityFirst is a strict order, total on jobs that have          *)
(* different numbers.                                                      *)
LEMMA BeforeOrder ==
  ASSUME NEW i \in Job, NEW j \in Job, NEW k \in Job
  PROVE  /\ ~Before(i, i)
         /\ Before(i, j) /\ Before(j, k) => Before(i, k)
         /\ i.sequence # j.sequence => Before(i, j) \/ Before(j, i)
<1>1. /\ Priority[i.task] \in Int /\ Priority[j.task] \in Int
      /\ Priority[k.task] \in Int
  BY Zenon, TaskAssumption DEF Job
<1>2. /\ i.release \in Int /\ j.release \in Int /\ k.release \in Int
      /\ i.sequence \in Int /\ j.sequence \in Int /\ k.sequence \in Int
  BY Zenon DEF Job
<1> QED
  BY <1>1, <1>2 DEF Before

(* Therefore a queue that is not empty has a top, and only one: the job    *)
(* that all the others go after, which is the one a worker pops.           *)
LEMMA TopFirst ==
  ASSUME SetFacts, TypeInv, NumberInv, queue # {}
  PROVE  /\ Top \in queue
         /\ \A k \in queue \ {Top} : Before(Top, k)
<1> DEFINE Ahead(j) == {k \in queue : Before(k, j)}
           Aheads == {Ahead(j) : j \in queue}
<1>1. Aheads \in SUBSET (SUBSET queue) /\ Aheads # {}
  <2>1. \A j \in queue : Ahead(j) \in SUBSET queue
    OBVIOUS
  <2> HIDE DEF Ahead
  <2> QED
    BY Zenon, <2>1
<1>2. PICK X \in Aheads : \A Y \in Aheads : Y \subseteq X => Y = X
  <2>1. IsFiniteSet(queue)
    BY Zenon DEF TypeInv
  <2>2. \A C \in SUBSET (SUBSET queue) :
          C # {} => \E X \in C : \A Y \in C : Y \subseteq X => Y = X
    BY <2>1 DEF SetFacts
  <2> HIDE DEF Aheads
  <2> QED
    BY Zenon, <1>1, <2>2
<1>3. PICK j \in queue : X = Ahead(j)
  OBVIOUS
<1>4. ASSUME NEW k \in queue \ {j} PROVE Before(j, k)
  <2>1. j \in Job /\ k \in Job /\ j.sequence # k.sequence
    BY Zenon, <1>4 DEF TypeInv, NumberInv
  <2>2. SUFFICES ASSUME Before(k, j) PROVE FALSE
    BY Zenon, <2>1, BeforeOrder
  <2>3. Ahead(k) \subseteq Ahead(j)
    BY Zenon, <2>1, <2>2, BeforeOrder DEF TypeInv
  <2>4. k \in Ahead(j) /\ k \notin Ahead(k)
    BY Zenon, <2>1, <2>2, BeforeOrder
  <2> QED
    BY Zenon, <1>2, <1>3, <2>3, <2>4
<1> HIDE DEF Ahead
<1>5. \E i \in queue : \A k \in queue \ {i} : Before(i, k)
  BY Zenon, <1>4
<1> QED
  BY Zenon, <1>5 DEF Top

-----------------------------------------------------------------------------
(* Where a thread is tells what its record holds.                          *)
LEMMA CallShape ==
  ASSUME NEW r \in CallState
  PROVE  /\ r.at \in {"added", "async", "cancelled", "cancelWake"} => r \in CallTask
         /\ r.at = "admit" => r \in CallRelease
         /\ r.at \in {"reserve", "push", "wake"} => r \in CallJob
BY Zenon DEF CallState, CallIdle, CallTask, CallRelease, CallJob

(* The same for a worker.                                                  *)
LEMMA WorkerShape ==
  ASSUME NEW r \in WorkerState
  PROVE  /\ r.at = "popped" => r \in WorkerPopped
         /\ r.at = "callback" => r \in WorkerBusy
         /\ r.at \notin {"popped", "callback"} => r \in WorkerFree
BY Zenon DEF WorkerState, WorkerFree, WorkerPopped, WorkerBusy

(* The records the steps put there are such records.                       *)
LEMMA CallStates ==
  /\ NoCall \in CallState
  /\ CallTask \subseteq CallState
  /\ CallRelease \subseteq CallState
  /\ CallJob \subseteq CallState
BY Zenon DEF NoCall, CallState, CallIdle

(* Which steps change what.                                                *)
LEMMA CallFrame ==
  ASSUME [Next]_vars
  PROVE  \/ UNCHANGED call
         \/ \E c \in Callers, t \in Tasks : AddTask(c, t) \/ Notify(c, t) \/ Cancel(c, t)
         \/ \E c \in Threads : CallStep(c)
         \/ SchedulerRelease
<1>1. CASE Tick \/ Start \/ StopRequest \/ ControlStep
  BY Zenon, <1>1 DEF Tick, Start, StopRequest, ControlStep, StartThreads,
              StopWakeScheduler, StopGroup, StopWakeGroup, StopJoin
<1>2. CASE SchedulerPlan \/ SchedulerAwake
  BY Zenon, <1>2 DEF SchedulerPlan, SchedulerAwake
<1>3. ASSUME NEW w \in Workers, WorkerStep(w) PROVE UNCHANGED call
  BY Zenon, <1>3 DEF WorkerStep, WorkerSleep, WorkerExit, WorkerPop, WorkerDispatch,
              WorkerFinish
<1>4. CASE UNCHANGED vars
  BY Zenon, <1>4 DEF vars
<1> QED
  BY Zenon, <1>1, <1>2, <1>3, <1>4 DEF Next, SchedulerStep

(* Each record that a thread gets has one of the shapes.                   *)
LEMMA CallTypeStep ==
  ASSUME TypeInv, [Next]_vars
  PROVE  call' \in [Threads -> CallState]
<1> USE CallStates
<1> DEFINE Goal == call' \in [Threads -> CallState]
<1>0. Callers \subseteq Threads /\ Scheduler \in Threads
  BY Zenon DEF Threads
<1>2. CASE UNCHANGED call
  BY Zenon, <1>2 DEF TypeInv
<1>3. ASSUME NEW c \in Callers, NEW t \in Tasks, AddTask(c, t)
      PROVE  Goal
  <2>1. [at |-> "added", task |-> t] \in CallTask
    BY Zenon DEF CallTask
  <2> QED
    BY Zenon, <1>3, <2>1, <1>0 DEF AddTask, TypeInv
<1>4. ASSUME NEW c \in Callers, NEW t \in Tasks, Notify(c, t)
      PROVE  Goal
  <2>1. [at |-> "admit", task |-> t, release |-> now] \in CallRelease
    BY DEF CallRelease, TypeInv
  <2> QED
    BY Zenon, <1>4, <2>1, <1>0 DEF Notify, TypeInv
<1>5. ASSUME NEW c \in Callers, NEW t \in Tasks, Cancel(c, t)
      PROVE  Goal
  <2>1. [at |-> "cancelled", task |-> t] \in CallTask
    BY Zenon DEF CallTask
  <2> QED
    BY Zenon, <1>5, <2>1, <1>0 DEF Cancel, TypeInv
<1>6. ASSUME NEW c \in Threads, AddTaskWake(c) \/ CancelVersion(c) \/ CancelWake(c)
      PROVE  Goal
  <2>1. call[c] \in CallTask
    BY Zenon, <1>6, CallShape DEF AddTaskWake, CancelVersion, CancelWake, At, TypeInv
  <2>2. [call[c] EXCEPT !.at = "async"] \in CallTask
    BY Zenon, <2>1 DEF CallTask
  <2>3. [call[c] EXCEPT !.at = "cancelWake"] \in CallTask
    BY Zenon, <2>1 DEF CallTask
  <2>4. \/ call' = [call EXCEPT ![c] = NoCall]
        \/ call' = [call EXCEPT ![c].at = "async"]
        \/ call' = [call EXCEPT ![c].at = "cancelWake"]
    BY Zenon, <1>6 DEF AddTaskWake, CancelVersion, CancelWake, Goto, Return
  <2> QED
    BY Zenon, <2>2, <2>3, <2>4 DEF TypeInv
<1>7. ASSUME NEW c \in Threads, AddTaskRelease(c)
      PROVE  Goal
  <2>1. call[c] \in CallTask
    BY Zenon, <1>7, CallShape DEF AddTaskRelease, At, TypeInv
  <2>2. [at |-> "admit", task |-> call[c].task, release |-> now] \in CallRelease
    BY <2>1 DEF CallTask, CallRelease, TypeInv
  <2> QED
    BY Zenon, <1>7, <2>2 DEF AddTaskRelease, Return, TypeInv
<1>8. ASSUME NEW c \in Threads, EnqueueAdmit(c)
      PROVE  Goal
  <2>1. call[c] \in CallRelease
    BY Zenon, <1>8, CallShape DEF EnqueueAdmit, At, TypeInv
  <2>2. [at |-> "reserve", task |-> call[c].task, release |-> call[c].release,
         sequence |-> sequence] \in CallJob
    BY Zenon, <2>1 DEF CallRelease, CallJob, TypeInv
  <2>3. CASE ~running \/ stopping
    BY Zenon, <1>8, <2>3 DEF EnqueueAdmit, Return, TypeInv
  <2>4. CASE ~(~running \/ stopping)
    <3>1. call' = [call EXCEPT ![c] =
            [at |-> "reserve", task |-> call[c].task,
             release |-> call[c].release, sequence |-> sequence]]
      BY Zenon, <1>8, <2>4 DEF EnqueueAdmit, TypeInv
    <3> QED
      BY Zenon, <3>1, <2>2 DEF TypeInv
  <2> QED
    BY Zenon, <2>3, <2>4
<1>9. ASSUME NEW c \in Threads, EnqueueReserve(c) \/ EnqueuePush(c)
      PROVE  Goal
  <2>1. call[c] \in CallJob
    BY Zenon, <1>9, CallShape DEF EnqueueReserve, EnqueuePush, At, TypeInv
  <2>2. [call[c] EXCEPT !.at = "push"] \in CallJob
    BY Zenon, <2>1 DEF CallJob
  <2>3. [call[c] EXCEPT !.at = "wake"] \in CallJob
    BY Zenon, <2>1 DEF CallJob
  <2>4. \/ call' = [call EXCEPT ![c] = NoCall]
        \/ call' = [call EXCEPT ![c].at = "push"]
        \/ call' = [call EXCEPT ![c].at = "wake"]
    BY Zenon, <1>9 DEF EnqueueReserve, EnqueuePush, Goto, Return
  <2> QED
    BY Zenon, <2>2, <2>3, <2>4 DEF TypeInv
<1>10. ASSUME NEW c \in Threads,
              EnqueueClosed(c) \/ EnqueueGroupFull(c) \/ EnqueueWake(c)
       PROVE  Goal
  BY Zenon, <1>10 DEF EnqueueClosed, EnqueueGroupFull, EnqueueWake, Return, TypeInv
<1>11. CASE SchedulerRelease
  <2>1. CASE UNCHANGED call
    BY Zenon, <2>1 DEF TypeInv
  <2>2. ASSUME NEW d \in sched.due,
               call' = [call EXCEPT ![Scheduler] =
                 [at |-> "admit", task |-> d.task, release |-> d.release]]
        PROVE  Goal
    <3>1. d \in Release
      BY Zenon DEF TypeInv, SchedState
    <3>2. [at |-> "admit", task |-> d.task, release |-> d.release] \in CallRelease
      BY Zenon, <3>1 DEF Release, CallRelease
    <3> QED
      BY Zenon, <1>0, <2>2, <3>2 DEF TypeInv
  <2> QED
    BY Zenon, <1>0, <1>11, <2>1, <2>2 DEF SchedulerRelease
<1> QED
  BY Zenon, <1>0, <1>2, <1>3, <1>4, <1>5, <1>6, <1>7, <1>8, <1>9, <1>10, <1>11, CallFrame
     DEF CallStep

-----------------------------------------------------------------------------
(* The scheduler thread plans releases of tasks that are periodic, at      *)
(* times that are numbers.                                                 *)
LEMMA ReleaseTimes ==
  ASSUME TypeInv, NEW t \in Scheduled
  PROVE  /\ t \in Tasks /\ task[t].next \in Int /\ Period[t] \in Int
         /\ ReleasesCome(t) \in Int
         /\ task[t].next + ReleasesCome(t) * Period[t] \in Int
         /\ \A i \in Int : task[t].next + i * Period[t] \in Int
<1>1. t \in Tasks /\ Period[t] \in Nat /\ Period[t] > 0
  BY Zenon, TaskAssumption DEF Scheduled, Periodic
<1>2. task[t].next \in Int /\ now \in Int
  BY <1>1 DEF TypeInv, TaskState
<1>3. ReleasesCome(t) \in Int
  BY <1>1, <1>2 DEF ReleasesCome
<1>4. ASSUME NEW i \in Int PROVE task[t].next + i * Period[t] \in Int
  BY <1>1, <1>2
<1> QED
  BY <1>1, <1>2, <1>3, <1>4

(* The scheduler thread keeps a set of releases and at most one time.      *)
LEMMA SchedTypeStep ==
  ASSUME TypeInv, [Next]_vars
  PROVE  sched' \in SchedState
<1>1. CASE UNCHANGED sched
  BY Zenon, <1>1 DEF TypeInv
<1>2. CASE sched' = SchedulerNotified
  BY Zenon, <1>2 DEF SchedulerNotified, TypeInv, SchedState
<1>3. CASE StartThreads
  BY Zenon, <1>3 DEF StartThreads, TypeInv, SchedState
<1>4. CASE SchedulerPlan
  <2>1. Earliest \subseteq Int
    BY Zenon DEF Earliest, Scheduled, Periodic, TypeInv, TaskState
  <2>2. CASE sched' = [sched EXCEPT !.at = "exited"]
    BY Zenon, <2>2 DEF TypeInv, SchedState
  <2>3. CASE sched' = [sched EXCEPT !.at = "asleep", !.wake = Earliest]
    <3>1. PICK e : e = Earliest
      OBVIOUS
    <3>2. sched' = [sched EXCEPT !.at = "asleep", !.wake = e]
      BY Zenon, <2>3, <3>1
    <3>3. sched' = [at |-> "asleep", due |-> sched.due, wake |-> e]
      BY Zenon, <3>2 DEF TypeInv, SchedState
    <3> QED
      BY Zenon, <2>1, <3>1, <3>3 DEF TypeInv, SchedState
  <2> DEFINE Due(t) ==
               {[task |-> t, release |-> task[t].next + i * Period[t]] :
                i \in 0 .. CaughtUp(t) - 1}
  <2>4. CASE sched' = [at |-> "release", wake |-> {},
                       due |-> UNION {Due(t) : t \in Scheduled}]
    <3>1. ASSUME NEW t \in Scheduled PROVE Due(t) \subseteq Release
      <4>1. t \in Tasks /\ \A i \in Int : task[t].next + i * Period[t] \in Int
        BY Zenon, ReleaseTimes
      <4>2. \A i \in 0 .. CaughtUp(t) - 1 : i \in Int
        OBVIOUS
      <4> QED
        BY <4>1, <4>2 DEF Release
    <3> HIDE DEF Due
    <3>2. UNION {Due(t) : t \in Scheduled} \subseteq Release
      BY Zenon, <3>1
    <3> QED
      BY Zenon, <2>4, <3>2 DEF SchedState
  <2>5. \/ sched' = [sched EXCEPT !.at = "exited"]
        \/ sched' = [sched EXCEPT !.at = "asleep", !.wake = Earliest]
        \/ sched' = [at |-> "release", wake |-> {},
                     due |-> UNION {Due(t) : t \in Scheduled}]
    BY Zenon, <1>4 DEF SchedulerPlan
  <2> HIDE DEF Due
  <2> QED
    BY Zenon, <2>2, <2>3, <2>4, <2>5
<1>5. CASE SchedulerAwake
  BY Zenon, <1>5 DEF SchedulerAwake, TypeInv, SchedState
<1>6. CASE SchedulerRelease
  BY ZenonT(40), <1>6 DEF SchedulerRelease, TypeInv, SchedState
<1>7. ASSUME NEW c \in Threads, CallStep(c)
      PROVE  UNCHANGED sched \/ sched' = SchedulerNotified
  BY Zenon, <1>7 DEF CallStep, AddTaskWake, AddTaskRelease, EnqueueAdmit,
       EnqueueReserve, EnqueueClosed, EnqueueGroupFull, EnqueuePush,
       EnqueueWake, CancelVersion, CancelWake
<1>8. ASSUME NEW c \in Callers, NEW t \in Tasks,
             AddTask(c, t) \/ Notify(c, t) \/ Cancel(c, t)
      PROVE  UNCHANGED sched
  BY Zenon, <1>8 DEF AddTask, Notify, Cancel
<1>9. ASSUME NEW w \in Workers, WorkerStep(w) PROVE UNCHANGED sched
  BY Zenon, <1>9 DEF WorkerStep, WorkerSleep, WorkerExit, WorkerPop, WorkerDispatch,
              WorkerFinish
<1>10. CASE Tick \/ Start \/ StopRequest \/ StopGroup \/ StopWakeGroup \/ StopJoin
  BY Zenon, <1>1, <1>10 DEF Tick, Start, StopRequest, StopGroup, StopWakeGroup, StopJoin
<1>11. CASE StopWakeScheduler
  BY Zenon, <1>2, <1>11 DEF StopWakeScheduler
<1>12. CASE UNCHANGED vars
  BY Zenon, <1>1, <1>12 DEF vars
<1> QED
  BY Zenon, <1>1, <1>2, <1>3, <1>4, <1>5, <1>6, <1>7, <1>8, <1>9, <1>10, <1>11, <1>12
     DEF Next, ControlStep, SchedulerStep

-----------------------------------------------------------------------------
(* A record of the workers changes by the step of one of them, or by a     *)
(* wake-up or Start, which touch only workers that hold no job.            *)
Holding == {"popped", "callback"}
WorkersQuiet ==
  \A w \in Workers : \/ worker'[w] = worker[w]
                     \/ worker[w].at \notin Holding /\ worker'[w].at \notin Holding

(* notify_one changes at most one worker, from asleep to check.            *)
LEMMA WokenWorkers ==
  ASSUME TypeInv, worker' \in WokenOne
  PROVE  /\ WorkersQuiet /\ worker' \in [Workers -> WorkerState]
         /\ \A w \in Workers : worker'[w] = worker[w] \/ worker'[w].at = "check"
         /\ \A w \in Workers : worker[w].at = "exited" => worker'[w] = worker[w]
         /\ \A w \in Workers : worker[w].at = "unborn" => worker'[w] = worker[w]
<1>1. CASE worker' = worker
  BY Zenon, <1>1 DEF WorkersQuiet, TypeInv
<1>2. ASSUME NEW v \in Workers, worker[v].at = "asleep",
             worker' = [worker EXCEPT ![v].at = "check"]
      PROVE  /\ worker'[v] = [at |-> "check"]
             /\ \A w \in Workers \ {v} : worker'[w] = worker[w]
             /\ worker' \in [Workers -> WorkerState]
  <2>1. worker[v] \in WorkerFree
    BY Zenon, <1>2, WorkerShape DEF TypeInv
  <2>2. [worker[v] EXCEPT !.at = "check"] = [at |-> "check"]
    BY <2>1 DEF WorkerFree
  <2>3. worker' = [worker EXCEPT ![v] = [at |-> "check"]]
    BY Zenon, <1>2, <2>2
  <2>4. [at |-> "check"] \in WorkerState
    BY Zenon DEF WorkerState, WorkerFree
  <2> QED
    BY Zenon, <2>3, <2>4 DEF TypeInv
<1>3. worker' = worker \/ \E v \in Workers :
        worker[v].at = "asleep" /\ worker' = [worker EXCEPT ![v].at = "check"]
  BY Zenon DEF WokenOne
<1> QED
  BY Zenon, <1>1, <1>2, <1>3 DEF WorkersQuiet, Holding

(* Only its own steps, a wake-up or Start move a worker.                   *)
LEMMA WorkerFrame ==
  ASSUME [Next]_vars
  PROVE  \/ UNCHANGED worker
         \/ StartThreads \/ StopWakeGroup
         \/ \E c \in Threads : EnqueueWake(c)
         \/ \E w \in Workers : WorkerStep(w)
<1>1. CASE Tick \/ Start \/ StopRequest \/ StopWakeScheduler \/ StopGroup \/ StopJoin
  BY Zenon, <1>1 DEF Tick, Start, StopRequest, StopWakeScheduler, StopGroup, StopJoin
<1>2. CASE SchedulerStep
  BY Zenon, <1>2 DEF SchedulerStep, SchedulerPlan, SchedulerAwake, SchedulerRelease
<1>3. ASSUME NEW c \in Callers, NEW t \in Tasks,
             AddTask(c, t) \/ Notify(c, t) \/ Cancel(c, t)
      PROVE  UNCHANGED worker
  BY Zenon, <1>3 DEF AddTask, Notify, Cancel
<1>4. ASSUME NEW c \in Threads, CallStep(c) PROVE UNCHANGED worker \/ EnqueueWake(c)
  BY Zenon, <1>4 DEF CallStep, AddTaskWake, AddTaskRelease, EnqueueAdmit, EnqueueReserve,
       EnqueueClosed, EnqueueGroupFull, EnqueuePush, CancelVersion, CancelWake
<1>5. CASE UNCHANGED vars
  BY Zenon, <1>5 DEF vars
<1> QED
  BY Zenon, <1>1, <1>2, <1>3, <1>4, <1>5 DEF Next, ControlStep

(* Start makes workers where there are none yet.                           *)
LEMMA StartedWorkers ==
  ASSUME TypeInv, StopInv, StartThreads
  PROVE  WorkersQuiet /\ worker' \in [Workers -> WorkerState]
BY Zenon DEF StartThreads, StopInv, WorkersQuiet, Holding, WorkerState, WorkerFree

(* notify_all moves the sleeping workers only.                             *)
LEMMA WokenGroup ==
  ASSUME TypeInv, StopWakeGroup
  PROVE  WorkersQuiet /\ worker' \in [Workers -> WorkerState]
BY Zenon DEF StopWakeGroup, TypeInv, WorkersQuiet, Holding, WorkerState, WorkerFree

(* What a step of a worker makes of its record.                            *)
LEMMA WorkerEffect ==
  ASSUME SetFacts, TypeInv, NumberInv, NEW w \in Workers
  PROVE  /\ WorkerSleep(w) => worker' = [worker EXCEPT ![w] = [at |-> "asleep"]]
         /\ WorkerExit(w) => worker' = [worker EXCEPT ![w] = [at |-> "exited"]]
         /\ WorkerPop(w) =>
              /\ Top \in Job
              /\ worker' = [worker EXCEPT ![w] =
                   [at |-> "popped", job |-> Top, stopping |-> groupStopping]]
         /\ WorkerDispatch(w) => worker[w] \in WorkerPopped
         /\ WorkerDispatch(w) /\ Outcome(w) = "started" =>
              worker' = [worker EXCEPT ![w] = [at |-> "callback", job |-> worker[w].job]]
         /\ WorkerDispatch(w) /\ Outcome(w) # "started" =>
              worker' = [worker EXCEPT ![w] = [at |-> "check"]]
         /\ WorkerFinish(w) => /\ worker[w] \in WorkerBusy
                               /\ worker' = [worker EXCEPT ![w] = [at |-> "check"]]
<1>1. CASE worker[w].at = "check"
  <2>1. worker[w] \in WorkerFree
    BY Zenon, <1>1, WorkerShape DEF TypeInv
  <2>2. /\ [worker[w] EXCEPT !.at = "asleep"] = [at |-> "asleep"]
        /\ [worker[w] EXCEPT !.at = "exited"] = [at |-> "exited"]
    BY <2>1 DEF WorkerFree
  <2>3. WorkerSleep(w) => worker' = [worker EXCEPT ![w] = [at |-> "asleep"]]
    BY Zenon, <2>2 DEF WorkerSleep
  <2>4. WorkerExit(w) => worker' = [worker EXCEPT ![w] = [at |-> "exited"]]
    BY Zenon, <2>2 DEF WorkerExit
  <2>5. WorkerPop(w) => Top \in Job
    BY Zenon, TopFirst DEF WorkerPop, TypeInv
  <2> QED
    BY Zenon, <1>1, <2>3, <2>4, <2>5 DEF WorkerPop, WorkerDispatch, WorkerFinish
<1>2. CASE worker[w].at = "popped"
  <2>1. worker[w] \in WorkerPopped
    BY Zenon, <1>2, WorkerShape DEF TypeInv
  <2>2. WorkerDispatch(w) =>
          worker' = [worker EXCEPT ![w] =
                       IF Outcome(w) = "started"
                       THEN [at |-> "callback", job |-> worker[w].job]
                       ELSE [at |-> "check"]]
    BY Zenon DEF WorkerDispatch, TypeInv
  <2>3. ~WorkerSleep(w) /\ ~WorkerExit(w) /\ ~WorkerPop(w) /\ ~WorkerFinish(w)
    BY Zenon, <1>2 DEF WorkerSleep, WorkerExit, WorkerPop, WorkerFinish
  <2> QED
    BY Zenon, <2>1, <2>2, <2>3
<1>3. CASE worker[w].at = "callback"
  <2>1. worker[w] \in WorkerBusy
    BY Zenon, <1>3, WorkerShape DEF TypeInv
  <2>2. /\ ~WorkerSleep(w) /\ ~WorkerExit(w)
        /\ ~WorkerPop(w) /\ ~WorkerDispatch(w)
    BY Zenon, <1>3 DEF WorkerSleep, WorkerExit, WorkerPop, WorkerDispatch
  <2> QED
    BY Zenon, <2>1, <2>2 DEF WorkerFinish
<1> QED
  BY Zenon, <1>1, <1>2, <1>3 DEF WorkerSleep, WorkerExit, WorkerPop, WorkerDispatch, WorkerFinish

(* So the workers' records keep their form.                                *)
LEMMA WorkerTypeStep ==
  ASSUME SetFacts, TypeInv, NumberInv, StopInv, [Next]_vars
  PROVE  worker' \in [Workers -> WorkerState]
<1>1. CASE UNCHANGED worker
  BY Zenon, <1>1 DEF TypeInv
<1>2. CASE StartThreads \/ StopWakeGroup
  BY Zenon, <1>2, StartedWorkers, WokenGroup
<1>3. CASE \E c \in Threads : EnqueueWake(c)
  BY Zenon, <1>3, WokenWorkers DEF EnqueueWake
<1>4. ASSUME NEW w \in Workers, WorkerStep(w)
      PROVE  worker' \in [Workers -> WorkerState]
  <2>1. /\ [at |-> "asleep"] \in WorkerState
        /\ [at |-> "exited"] \in WorkerState
        /\ [at |-> "check"] \in WorkerState
    BY Zenon DEF WorkerState, WorkerFree
  <2>2. Top \in Job =>
          [at |-> "popped", job |-> Top, stopping |-> groupStopping] \in WorkerState
    BY Zenon DEF WorkerState, WorkerPopped, TypeInv
  <2>3. worker[w] \in WorkerPopped =>
          [at |-> "callback", job |-> worker[w].job] \in WorkerState
    BY Zenon DEF WorkerState, WorkerPopped, WorkerBusy
  <2>4. PICK v \in WorkerState : worker' = [worker EXCEPT ![w] = v]
    <3>1. CASE WorkerSleep(w) \/ WorkerExit(w)
      BY Zenon, <2>1, <3>1, WorkerEffect
    <3>2. CASE WorkerPop(w)
      BY Zenon, <2>2, <3>2, WorkerEffect
    <3>3. CASE WorkerDispatch(w)
      BY Zenon, <2>1, <2>3, <3>3, WorkerEffect
    <3>4. CASE WorkerFinish(w)
      BY Zenon, <2>1, <3>4, WorkerEffect
    <3> QED
      BY Zenon, <1>4, <3>1, <3>2, <3>3, <3>4 DEF WorkerStep
  <2> QED
    BY Zenon, <2>4 DEF TypeInv
<1> QED
  BY Zenon, <1>1, <1>2, <1>3, <1>4, WorkerFrame

-----------------------------------------------------------------------------
(* The places in which a release of a task waits or runs, as a thread or a *)
(* worker moves.                                                           *)
LEMMA ReservingMove ==
  ASSUME TypeInv, NEW c \in Threads, NEW v, call' = [call EXCEPT ![c] = v],
         NEW t \in Tasks
  PROVE  Reserving(t)' = IF v.at = "push" /\ v.task = t
                         THEN Reserving(t) \cup {c} ELSE Reserving(t) \ {c}
BY Zenon DEF Reserving, At, TypeInv

(* Where w stands decides whether it holds or runs a release of t.         *)
LEMMA WorkerMove ==
  ASSUME TypeInv, NEW w \in Workers, NEW v, worker' = [worker EXCEPT ![w] = v],
         NEW t \in Tasks
  PROVE  /\ v.at = "popped" /\ v.job.task = t => Popped(t)' = Popped(t) \cup {w}
         /\ v.at = "popped" /\ v.job.task # t => Popped(t)' = Popped(t) \ {w}
         /\ v.at # "popped" => Popped(t)' = Popped(t) \ {w}
         /\ v.at = "callback" /\ v.job.task = t => Executing(t)' = Executing(t) \cup {w}
         /\ v.at = "callback" /\ v.job.task # t => Executing(t)' = Executing(t) \ {w}
         /\ v.at # "callback" => Executing(t)' = Executing(t) \ {w}
BY Zenon DEF Popped, Executing, TypeInv

(* Workers that hold no job before and after do not count.                 *)
LEMMA WorkersQuietSets ==
  ASSUME WorkersQuiet, NEW t \in Tasks
  PROVE  Popped(t)' = Popped(t) /\ Executing(t)' = Executing(t)
BY Zenon DEF WorkersQuiet, Popped, Executing, Holding

(* They are finitely many.                                                 *)
LEMMA Counts ==
  ASSUME SetFacts, TypeInv, NEW t \in Tasks
  PROVE  /\ IsFiniteSet(JobsOf(t)) /\ Cardinality(JobsOf(t)) \in Nat
         /\ IsFiniteSet(Reserving(t)) /\ Cardinality(Reserving(t)) \in Nat
         /\ IsFiniteSet(Popped(t)) /\ Cardinality(Popped(t)) \in Nat
         /\ IsFiniteSet(Executing(t)) /\ Cardinality(Executing(t)) \in Nat
         /\ Cardinality(queue) \in Nat
<1>1. IsFiniteSet(Threads)
  BY Zenon, ThreadsAssumption DEF Threads, SetFacts
<1>2. /\ JobsOf(t) \in SUBSET queue /\ Reserving(t) \in SUBSET Threads
      /\ Popped(t) \in SUBSET Workers /\ Executing(t) \in SUBSET Workers
  BY Zenon DEF JobsOf, Reserving, Popped, Executing
<1>3. IsFiniteSet(JobsOf(t)) /\ IsFiniteSet(queue)
  BY Zenon, <1>2 DEF TypeInv, SetFacts
<1>4. IsFiniteSet(Reserving(t))
  BY Zenon, <1>1, <1>2 DEF SetFacts
<1>5. IsFiniteSet(Popped(t)) /\ IsFiniteSet(Executing(t))
  BY Zenon, <1>2, ThreadsAssumption DEF SetFacts
<1> QED
  BY Zenon, <1>3, <1>4, <1>5 DEF SetFacts

(* Adding or removing one of them.                                         *)
LEMMA OneMore ==
  ASSUME SetFacts, NEW S, IsFiniteSet(S), NEW x, x \notin S
  PROVE  Cardinality(S \cup {x}) = Cardinality(S) + 1
BY Zenon DEF SetFacts

(* The same for one that leaves, which had to be counted.                  *)
LEMMA OneLess ==
  ASSUME SetFacts, NEW S, IsFiniteSet(S), NEW x, x \in S
  PROVE  Cardinality(S \ {x}) = Cardinality(S) - 1 /\ Cardinality(S) >= 1
<1>1. Cardinality(S \ {x}) = Cardinality(S) - 1
  BY Zenon DEF SetFacts
<1>2. Cardinality(S) \in Nat /\ Cardinality(S) # 0
  BY Zenon DEF SetFacts
<1> QED
  BY <1>1, <1>2

-----------------------------------------------------------------------------
(* The counters of the tasks, and the steps that leave them alone.         *)
SameBooks(t) ==
  /\ task'[t].queued = task[t].queued /\ task'[t].releases = task[t].releases
  /\ task'[t].overflows = task[t].overflows /\ task'[t].started = task[t].started
  /\ task'[t].finished = task[t].finished /\ task'[t].drops = task[t].drops
  /\ task'[t].turnedAway = task[t].turnedAway
TasksQuiet ==
  task' \in [Tasks -> TaskState] /\ \A t \in Tasks : SameBooks(t)

(* Which steps change a task's record.                                     *)
LEMMA TaskFrame ==
  ASSUME [Next]_vars
  PROVE  \/ UNCHANGED task
         \/ Start \/ SchedulerPlan
         \/ \E c \in Callers, t \in Tasks : AddTask(c, t) \/ Cancel(c, t)
         \/ \E c \in Threads : EnqueueReserve(c) \/ EnqueueClosed(c) \/ EnqueueGroupFull(c)
         \/ \E w \in Workers : WorkerDispatch(w) \/ WorkerFinish(w)
<1>1. CASE Tick \/ StopRequest \/ ControlStep
  BY Zenon, <1>1 DEF Tick, StopRequest, ControlStep, StartThreads, StopWakeScheduler,
              StopGroup, StopWakeGroup, StopJoin
<1>2. CASE SchedulerAwake \/ SchedulerRelease
  BY Zenon, <1>2 DEF SchedulerAwake, SchedulerRelease
<1>3. ASSUME NEW c \in Callers, NEW t \in Tasks, Notify(c, t) PROVE UNCHANGED task
  BY Zenon, <1>3 DEF Notify
<1>4. ASSUME NEW c \in Threads, CallStep(c)
      PROVE  UNCHANGED task \/ EnqueueReserve(c) \/ EnqueueClosed(c) \/ EnqueueGroupFull(c)
  BY Zenon, <1>4 DEF CallStep, AddTaskWake, AddTaskRelease, EnqueueAdmit, EnqueuePush,
              EnqueueWake, CancelVersion, CancelWake
<1>5. ASSUME NEW w \in Workers, WorkerStep(w)
      PROVE  UNCHANGED task \/ WorkerDispatch(w) \/ WorkerFinish(w)
  BY Zenon, <1>5 DEF WorkerStep, WorkerSleep, WorkerExit, WorkerPop
<1>6. CASE UNCHANGED vars
  BY Zenon, <1>6 DEF vars
<1> QED
  BY Zenon, <1>1, <1>2, <1>3, <1>4, <1>5, <1>6 DEF Next, SchedulerStep

(* Start, the scheduler's plan, AddTask and Cancel leave the counters      *)
(* alone.                                                                  *)
LEMMA QuietTasks ==
  ASSUME TypeInv,
         \/ UNCHANGED task \/ Start \/ SchedulerPlan
         \/ \E c \in Callers, t \in Tasks : AddTask(c, t) \/ Cancel(c, t)
  PROVE  TasksQuiet
<1>1. CASE UNCHANGED task
  BY Zenon, <1>1 DEF TypeInv, TasksQuiet, SameBooks
<1>2. ASSUME NEW n \in [Tasks -> Int],
             \A t \in Tasks : \/ task'[t] = task[t]
                              \/ task'[t] = [task[t] EXCEPT !.next = n[t]],
             \E f : task' = [t \in Tasks |-> f[t]]
      PROVE  TasksQuiet
  <2>1. ASSUME NEW t \in Tasks PROVE task'[t] \in TaskState /\ SameBooks(t)
    <3>1. task[t] \in TaskState /\ n[t] \in Int
      BY Zenon DEF TypeInv
    <3> QED
      BY Zenon, <1>2, <3>1 DEF TaskState, SameBooks
  <2>2. PICK f : task' = [t \in Tasks |-> f[t]]
    BY Zenon, <1>2
  <2> QED
    BY Zenon, <2>1, <2>2 DEF TasksQuiet
<1>3. CASE Start
  <2> DEFINE n == [t \in Tasks |-> now + Period[t]]
             f == [t \in Tasks |-> IF t \in Periodic /\ task[t].added
                THEN [task[t] EXCEPT !.next = now + Period[t]]
                ELSE task[t]]
  <2>1. n \in [Tasks -> Int]
    BY TaskAssumption DEF TypeInv
  <2>2. \A t \in Tasks : n[t] = now + Period[t]
    OBVIOUS
  <2>3. task' = f
    BY Zenon, <1>3 DEF Start
  <2>4. \A t \in Tasks : task'[t] = task[t] \/ task'[t] = [task[t] EXCEPT !.next = n[t]]
    BY Zenon, <2>2, <2>3
  <2>5. task' = [t \in Tasks |-> f[t]]
    BY Zenon, <2>3
  <2> HIDE DEF n, f
  <2> QED
    BY Zenon, <1>2, <2>1, <2>4, <2>5
<1>4. CASE SchedulerPlan
  <2> DEFINE n == [t \in Tasks |-> IF t \in Scheduled
                                   THEN task[t].next + ReleasesCome(t) * Period[t]
                                   ELSE 0]
             f == [t \in Tasks |->
                     IF t \in Scheduled
                     THEN [task[t] EXCEPT !.next = @ + ReleasesCome(t) * Period[t]]
                     ELSE task[t]]
  <2>0. task' = task \/ task' = f
    BY Zenon, <1>4 DEF SchedulerPlan
  <2>1. n \in [Tasks -> Int]
    <3>1. \A t \in Tasks : t \in Scheduled =>
            task[t].next + ReleasesCome(t) * Period[t] \in Int
      BY Zenon, ReleaseTimes
    <3> QED
      BY <3>1
  <2>2. ASSUME NEW t \in Tasks
        PROVE  f[t] = task[t] \/ f[t] = [task[t] EXCEPT !.next = n[t]]
    <3>1. task[t] \in TaskState
      BY Zenon DEF TypeInv
    <3>2. CASE t \in Scheduled
      <4>1. n[t] = task[t].next + ReleasesCome(t) * Period[t]
        BY Zenon, <3>2
      <4>2. f[t] = [task[t] EXCEPT !.next = @ + ReleasesCome(t) * Period[t]]
        BY Zenon, <3>2
      <4>3. [task[t] EXCEPT !.next = @ + ReleasesCome(t) * Period[t]]
              = [task[t] EXCEPT !.next = task[t].next + ReleasesCome(t) * Period[t]]
        BY Zenon, <3>1 DEF TaskState
      <4> QED
        BY Zenon, <4>1, <4>2, <4>3
    <3>3. CASE t \notin Scheduled
      BY Zenon, <3>3
    <3> QED
      BY Zenon, <3>2, <3>3
  <2>3. f = [t \in Tasks |-> f[t]]
    OBVIOUS
  <2> HIDE DEF n, f
  <2>4. CASE task' = f
    <3>1. task' = [t \in Tasks |-> f[t]]
      BY Zenon, <2>3, <2>4
    <3>2. \A t \in Tasks : \/ task'[t] = task[t]
                           \/ task'[t] = [task[t] EXCEPT !.next = n[t]]
      BY Zenon, <2>2, <2>4
    <3> QED
      BY Zenon, <1>2, <2>1, <3>1, <3>2
  <2> QED
    BY Zenon, <1>1, <2>0, <2>4
<1>5. ASSUME NEW c \in Callers, NEW t \in Tasks, AddTask(c, t) \/ Cancel(c, t)
      PROVE  TasksQuiet
  <2>0. task[t] \in TaskState /\ task \in [Tasks -> TaskState]
    BY Zenon DEF TypeInv
  <2>1. ASSUME NEW r, task' = [task EXCEPT ![t] = r], r \in TaskState,
               r.queued = task[t].queued, r.releases = task[t].releases,
               r.overflows = task[t].overflows, r.started = task[t].started,
               r.finished = task[t].finished, r.drops = task[t].drops,
               r.turnedAway = task[t].turnedAway
        PROVE  TasksQuiet
    BY Zenon, <2>0, <2>1 DEF TasksQuiet, SameBooks
  <2>2. CASE AddTask(c, t)
    <3>1. PICK n \in Int : n = IF running /\ t \in Periodic
                              THEN now + Period[t] ELSE task[t].next
      BY <2>0, TaskAssumption DEF TypeInv, TaskState
    <3> DEFINE r == [task[t] EXCEPT !.added = TRUE, !.next = n]
    <3>2. task' = [task EXCEPT ![t] = r]
      BY Zenon, <2>0, <2>2, <3>1 DEF AddTask, TaskState
    <3>3. /\ r \in TaskState
          /\ r.queued = task[t].queued /\ r.releases = task[t].releases
          /\ r.overflows = task[t].overflows /\ r.started = task[t].started
          /\ r.finished = task[t].finished /\ r.drops = task[t].drops
          /\ r.turnedAway = task[t].turnedAway
      BY Zenon, <2>0 DEF TaskState
    <3> HIDE DEF r
    <3> QED
      BY Zenon, <2>1, <3>2, <3>3
  <2>3. CASE Cancel(c, t)
    <3> DEFINE r == [task[t] EXCEPT !.cancelled = TRUE]
    <3>2. task' = [task EXCEPT ![t] = r]
      BY Zenon, <2>0, <2>3 DEF Cancel
    <3>3. /\ r \in TaskState
          /\ r.queued = task[t].queued /\ r.releases = task[t].releases
          /\ r.overflows = task[t].overflows /\ r.started = task[t].started
          /\ r.finished = task[t].finished /\ r.drops = task[t].drops
          /\ r.turnedAway = task[t].turnedAway
      BY Zenon, <2>0 DEF TaskState
    <3> HIDE DEF r
    <3> QED
      BY Zenon, <2>1, <3>2, <3>3
  <2> QED
    BY Zenon, <1>5, <2>2, <2>3
<1> QED
  BY Zenon, <1>1, <1>3, <1>4, <1>5

-----------------------------------------------------------------------------
Books ==
  /\ task \in [Tasks -> TaskState]
  /\ CapacityInv
  /\ \A t \in Tasks : Account(t)

(* No call enters or leaves the gap between the second and the third       *)
(* section of Enqueue.                                                     *)
CallsQuiet ==
  \A c \in Threads : \/ call'[c] = call[c]
                     \/ call[c].at # "push" /\ call'[c].at # "push"

(* A step that moves no release keeps the books as they are.               *)
LEMMA QuietBooks ==
  ASSUME IInv, TasksQuiet, CallsQuiet, WorkersQuiet, UNCHANGED queue
  PROVE  Books'
<1>1. ASSUME NEW t \in Tasks PROVE Account(t)'
  <2>1. JobsOf(t)' = JobsOf(t)
    BY Zenon DEF JobsOf
  <2>2. Reserving(t)' = Reserving(t)
    BY Zenon DEF Reserving, CallsQuiet, At
  <2>3. Popped(t)' = Popped(t) /\ Executing(t)' = Executing(t)
    BY Zenon, WorkersQuietSets
  <2>4. SameBooks(t)
    BY Zenon DEF TasksQuiet
  <2> QED
    BY Zenon, <2>1, <2>2, <2>3, <2>4 DEF Account, Waiting, Balanced, IInv, SameBooks
<1>2. CapacityInv'
  BY Zenon DEF CapacityInv, IInv, TasksQuiet, SameBooks
<1> QED
  BY Zenon, <1>1, <1>2 DEF Books, TasksQuiet

(* A step that concerns the releases of one task.                          *)
SameElsewhere(t) ==
  \A u \in Tasks \ {t} :
    /\ task'[u] = task[u]
    /\ JobsOf(u)' = JobsOf(u) /\ Reserving(u)' = Reserving(u)
    /\ Popped(u)' = Popped(u) /\ Executing(u)' = Executing(u)

(* A step that moves releases of one task has that task's books to keep.   *)
LEMMA OneTaskBooks ==
  ASSUME IInv, NEW t \in Tasks, task' \in [Tasks -> TaskState],
         SameElsewhere(t), Account(t)', task'[t].queued <= TaskCapacity,
         Cardinality(queue') <= GroupCapacity
  PROVE  Books'
<1>1. ASSUME NEW u \in Tasks PROVE Account(u)'
  <2>1. CASE u = t
    BY Zenon, <2>1
  <2>2. CASE u # t
    BY Zenon, <2>2 DEF SameElsewhere, Account, Waiting, IInv
  <2> QED
    BY Zenon, <2>1, <2>2
<1>2. CapacityInv'
  BY Zenon DEF CapacityInv, IInv, SameElsewhere
<1> QED
  BY Zenon, <1>1, <1>2 DEF Books

(* What stands still is counted as before.                                 *)
LEMMA SameSets ==
  ASSUME NEW t \in Tasks
  PROVE  /\ UNCHANGED queue => JobsOf(t)' = JobsOf(t)
         /\ UNCHANGED call => Reserving(t)' = Reserving(t)
         /\ UNCHANGED worker => Popped(t)' = Popped(t) /\ Executing(t)' = Executing(t)
BY Zenon DEF JobsOf, Reserving, Popped, Executing, At

(* By how much the counters of a task change, and what keeps them in       *)
(* balance.                                                                *)
Delta(b, r, queued, releases, overflows, started, finished, drops, turned) ==
  /\ r.queued = b.queued + queued /\ r.releases = b.releases + releases
  /\ r.overflows = b.overflows + overflows /\ r.started = b.started + started
  /\ r.finished = b.finished + finished /\ r.drops = b.drops + drops
  /\ r.turnedAway = b.turnedAway + turned

(* A counter of TaskState that goes up stays a natural number.             *)
LEMMA Counters ==
  ASSUME NEW s \in TaskState
  PROVE  /\ s.releases + 1 \in Nat /\ s.overflows + 1 \in Nat
         /\ s.queued + 1 \in Nat /\ s.turnedAway + 1 \in Nat
  BY DEF TaskState

(* The arithmetic of the books: what a step adds to the counters it adds   *)
(* to what they count.                                                     *)
LEMMA BalancedSteps ==
  ASSUME NEW b \in TaskState, NEW r \in TaskState, NEW w \in Int, NEW e \in Int,
         Balanced(b, w, e)
  PROVE  /\ Delta(b, r, 0, 1, 1, 0, 0, 0, 0) => Balanced(r, w, e)
         /\ Delta(b, r, 1, 1, 0, 0, 0, 0, 0) => Balanced(r, w + 1, e)
         /\ Delta(b, r, -1, 0, 1, 0, 0, 0, 0) => Balanced(r, w - 1, e)
         /\ Delta(b, r, -1, 0, 0, 0, 0, 1, 0) => Balanced(r, w - 1, e)
         /\ Delta(b, r, -1, 0, 0, 0, 0, 0, 1) => Balanced(r, w - 1, e)
         /\ Delta(b, r, -1, 0, 0, 1, 0, 0, 0) => Balanced(r, w - 1, e + 1)
         /\ Delta(b, r, 0, 0, 0, 0, 1, 0, 0) => Balanced(r, w, e - 1)
<1>1. PICK q \in Nat, n \in Nat, o \in Nat, s \in Nat, f \in Nat, d \in Nat, a \in Nat :
        /\ q = b.queued /\ n = b.releases /\ o = b.overflows /\ s = b.started
        /\ f = b.finished /\ d = b.drops /\ a = b.turnedAway
  BY Zenon DEF TaskState
<1>2. q = w /\ n = q + s + d + o + a /\ s - f = e
  BY Zenon, <1>1 DEF Balanced
<1>3. ASSUME NEW dq \in {-1, 0, 1}, NEW dn \in {0, 1}, NEW do \in {0, 1},
             NEW ds \in {0, 1}, NEW df \in {0, 1}, NEW dd \in {0, 1}, NEW da \in {0, 1},
             dn = dq + ds + dd + do + da,
             Delta(b, r, dq, dn, do, ds, df, dd, da)
      PROVE  Balanced(r, w + dq, e + ds - df)
  <2>1. /\ r.queued = q + dq /\ r.releases = n + dn /\ r.overflows = o + do
        /\ r.started = s + ds /\ r.finished = f + df /\ r.drops = d + dd
        /\ r.turnedAway = a + da
    BY Zenon, <1>1, <1>3 DEF Delta
  <2>2. q + dq = w + dq
    BY Zenon, <1>2
  <2>3. n + dn = (q + dq) + (s + ds) + (d + dd) + (o + do) + (a + da)
    BY <1>2, <1>3
  <2>4. (s + ds) - (f + df) = e + ds - df
    BY SMTT(60), <1>2
  <2> QED
    BY Zenon, <2>1, <2>2, <2>3, <2>4 DEF Balanced
<1> HIDE DEF Balanced
<1> QED
  BY <1>3

(* A call of Enqueue that is past its first section.                       *)
LEMMA ReserveBooks ==
  ASSUME SetFacts, IInv, NEW c \in Threads, EnqueueReserve(c)
  PROVE  Books'
<1>0. call[c] \in CallJob /\ call[c].at = "reserve"
  BY Zenon, CallShape DEF EnqueueReserve, At, IInv, TypeInv
<1> PICK t \in Tasks : t = call[c].task
  BY Zenon, <1>0 DEF CallJob
<1>1. /\ call[c] \in CallJob /\ call[c].at = "reserve" /\ t = call[c].task
      /\ task \in [Tasks -> TaskState] /\ task[t] \in TaskState
  BY Zenon, <1>0 DEF IInv, TypeInv
<1>2. TypeInv /\ Account(t) /\ task[t].queued <= TaskCapacity
  BY Zenon, <1>1 DEF IInv, CapacityInv
<1>9. /\ Balanced(task[t], Waiting(t), Cardinality(Executing(t)))
      /\ Waiting(t) \in Int /\ Cardinality(Executing(t)) \in Int
      /\ Cardinality(JobsOf(t)) \in Nat /\ Cardinality(Reserving(t)) \in Nat
      /\ Cardinality(Popped(t)) \in Nat
  BY SMTT(60), <1>2, Counts DEF Account, Waiting
<1>3. \A u \in Tasks : /\ JobsOf(u)' = JobsOf(u) /\ Popped(u)' = Popped(u)
                       /\ Executing(u)' = Executing(u)
  BY Zenon, SameSets DEF EnqueueReserve
<1>4. Cardinality(queue') <= GroupCapacity
  BY Zenon DEF EnqueueReserve, IInv, CapacityInv
<1>5. WorkersQuiet /\ UNCHANGED queue
  BY Zenon DEF EnqueueReserve, WorkersQuiet
<1>6. CASE Return(c) /\ UNCHANGED task
  <2>1. CallsQuiet
    BY Zenon, <1>1, <1>6 DEF Return, CallsQuiet, NoCall, TypeInv, IInv
  <2>2. TasksQuiet
    BY Zenon, <1>2, <1>6, QuietTasks
  <2> QED
    BY Zenon, <1>5, <2>1, <2>2, QuietBooks
<1>7. CASE Return(c) /\ task' = Overflowed(Bump(t, "releases"), t)
  <2> PICK m \in Nat, n \in Nat :
             m = task[t].releases + 1 /\ n = task[t].overflows + 1
    BY Zenon, <1>1, Counters
  <2> DEFINE r == [task[t] EXCEPT !.releases = m, !.overflows = n]
  <2>0. r \in TaskState
    BY Zenon, <1>1 DEF TaskState
  <2>1. task' = [task EXCEPT ![t] = r]
    BY Zenon, <1>1, <1>7 DEF Overflowed, Bump, TaskState
  <2>2. Delta(task[t], r, 0, 1, 1, 0, 0, 0, 0)
    BY <1>1 DEF TaskState, Delta
  <2> HIDE DEF r
  <2>3. \A u \in Tasks : Reserving(u)' = Reserving(u)
    BY Zenon, <1>1, <1>7 DEF Return, NoCall, Reserving, At, IInv, TypeInv
  <2>4. task' \in [Tasks -> TaskState] /\ task'[t] = r
    BY Zenon, <1>1, <2>0, <2>1
  <2>5. SameElsewhere(t)
    BY Zenon, <1>1, <1>3, <2>1, <2>3 DEF SameElsewhere
  <2>6. Account(t)'
    <3>1. Balanced(r, Waiting(t), Cardinality(Executing(t)))
      BY Zenon, <1>1, <1>9, <2>0, <2>2, BalancedSteps
    <3> QED
      BY Zenon, <1>3, <2>3, <2>4, <3>1 DEF Account, Waiting
  <2> QED
    BY SMTT(60), <1>1, <1>2, <1>4, <2>2, <2>4, <2>5, <2>6, OneTaskBooks DEF Delta, TaskState
<1>8. CASE /\ ~TaskFull(t) /\ Goto(c, "push")
           /\ task' = [task EXCEPT ![t].releases = @ + 1, ![t].queued = @ + 1]
  <2> PICK m \in Nat, n \in Nat :
             m = task[t].releases + 1 /\ n = task[t].queued + 1
    BY Zenon, <1>1, Counters
  <2> DEFINE r == [task[t] EXCEPT !.releases = m, !.queued = n]
             v == [call[c] EXCEPT !.at = "push"]
  <2>0. r \in TaskState
    BY Zenon, <1>1 DEF TaskState
  <2>1. task' = [task EXCEPT ![t] = r]
    BY Zenon, <1>1, <1>8 DEF TaskState
  <2>2. Delta(task[t], r, 1, 1, 0, 0, 0, 0, 0)
    BY <1>1 DEF TaskState, Delta
  <2>3. call' = [call EXCEPT ![c] = v] /\ v.at = "push" /\ v.task = t
    BY Zenon, <1>1, <1>8 DEF Goto, CallJob
  <2> HIDE DEF r, v
  <2>4. \A u \in Tasks : c \notin Reserving(u)
    BY Zenon, <1>1 DEF Reserving, At
  <2>5. Reserving(t)' = Reserving(t) \cup {c}
    BY Zenon, <1>1, <1>2, <2>3, ReservingMove
  <2>6. ASSUME NEW u \in Tasks \ {t} PROVE Reserving(u)' = Reserving(u)
    <3>1. Reserving(u)' = Reserving(u) \ {c}
      BY Zenon, <1>2, <2>3, ReservingMove
    <3> QED
      BY Zenon, <2>4, <3>1
  <2>7. task' \in [Tasks -> TaskState] /\ task'[t] = r
    BY Zenon, <1>1, <2>0, <2>1
  <2>8. SameElsewhere(t)
    BY Zenon, <1>1, <1>3, <2>1, <2>6 DEF SameElsewhere
  <2>9. Cardinality(Reserving(t)') = Cardinality(Reserving(t)) + 1
    BY Zenon, <1>1, <1>2, <2>4, <2>5, Counts, OneMore
  <2>11. Account(t)'
    <3>1. Waiting(t)' = Waiting(t) + 1 /\ Waiting(t) \in Nat
      BY SMTT(60), <1>3, <1>9, <2>9 DEF Waiting
    <3>2. Balanced(r, Waiting(t) + 1, Cardinality(Executing(t)))
      BY Zenon, <1>1, <1>9, <2>0, <2>2, BalancedSteps
    <3> QED
      BY Zenon, <1>3, <2>7, <3>1, <3>2 DEF Account
  <2>12. task'[t].queued <= TaskCapacity
    <3>1. task[t].queued \in Nat /\ ~(task[t].queued >= TaskCapacity)
      BY Zenon, <1>1, <1>8 DEF TaskFull, TaskState
    <3> QED
      BY SMTT(60), <2>2, <2>7, <3>1, CapacityAssumption DEF Delta
  <2> QED
    BY Zenon, <1>1, <1>4, <2>7, <2>8, <2>11, <2>12, OneTaskBooks
<1> QED
  BY Zenon, <1>1, <1>6, <1>7, <1>8 DEF EnqueueReserve

(* The third section: turned away by a stopping group or a full one.       *)
LEMMA TurnedAwayBooks ==
  ASSUME SetFacts, IInv, NEW c \in Threads, EnqueueClosed(c) \/ EnqueueGroupFull(c)
  PROVE  Books'
<1>0. call[c] \in CallJob /\ call[c].at = "push" /\ Return(c) /\ UNCHANGED <<queue, worker>>
  BY Zenon, CallShape DEF EnqueueClosed, EnqueueGroupFull, At, IInv, TypeInv
<1> PICK t \in Tasks : t = call[c].task
  BY Zenon, <1>0 DEF CallJob
<1>1. TypeInv /\ Account(t) /\ task \in [Tasks -> TaskState] /\ task[t] \in TaskState
  BY Zenon DEF IInv, TypeInv
<1>2. /\ Balanced(task[t], Waiting(t), Cardinality(Executing(t)))
      /\ Waiting(t) \in Int /\ Cardinality(Executing(t)) \in Int
      /\ Cardinality(JobsOf(t)) \in Nat /\ Cardinality(Reserving(t)) \in Nat
      /\ Cardinality(Popped(t)) \in Nat /\ IsFiniteSet(Reserving(t))
  BY SMTT(60), <1>1, Counts DEF Account, Waiting
<1>3. \A u \in Tasks : /\ JobsOf(u)' = JobsOf(u) /\ Popped(u)' = Popped(u)
                       /\ Executing(u)' = Executing(u)
  BY Zenon, <1>0, SameSets
<1>4. ASSUME NEW u \in Tasks PROVE Reserving(u)' = Reserving(u) \ {c}
  <2>1. call' = [call EXCEPT ![c] = NoCall] /\ NoCall.at # "push"
    BY Zenon, <1>0 DEF Return, NoCall
  <2> QED
    BY Zenon, <1>1, <2>1, ReservingMove
<1>5. c \in Reserving(t) /\ \A u \in Tasks \ {t} : c \notin Reserving(u)
  BY Zenon, <1>0 DEF Reserving, At
<1>6. Cardinality(Reserving(t)') = Cardinality(Reserving(t)) - 1 /\ Cardinality(Reserving(t)) >= 1
  BY Zenon, <1>2, <1>4, <1>5, OneLess
<1>7. Waiting(t)' = Waiting(t) - 1 /\ task[t].queued >= 1 /\ task[t].queued \in Nat
  BY <1>1, <1>2, <1>3, <1>6 DEF Waiting, Balanced, TaskState
<1>8. ASSUME NEW r \in TaskState, task' = [task EXCEPT ![t] = r],
             r.queued = task[t].queued - 1,
             Balanced(r, Waiting(t) - 1, Cardinality(Executing(t)))
      PROVE  Books'
  <2>1. task' \in [Tasks -> TaskState] /\ task'[t] = r
    BY Zenon, <1>1, <1>8
  <2>2. SameElsewhere(t)
    <3>1. ASSUME NEW u \in Tasks \ {t} PROVE task'[u] = task[u]
      BY Zenon, <1>1, <1>8
    <3>2. ASSUME NEW u \in Tasks \ {t} PROVE Reserving(u)' = Reserving(u)
      <4>1. Reserving(u)' = Reserving(u) \ {c} /\ c \notin Reserving(u)
        BY Zenon, <1>4, <1>5
      <4> QED
        BY Zenon, <4>1
    <3> QED
      BY Zenon, <1>3, <3>1, <3>2 DEF SameElsewhere
  <2>3. Account(t)'
    BY Zenon, <1>3, <1>7, <1>8, <2>1 DEF Account
  <2>4. task'[t].queued <= TaskCapacity
    BY <1>7, <1>8, <2>1, CapacityAssumption DEF IInv, CapacityInv
  <2>5. Cardinality(queue') <= GroupCapacity
    BY Zenon, <1>0 DEF IInv, CapacityInv
  <2> QED
    BY Zenon, <2>1, <2>2, <2>3, <2>4, <2>5, OneTaskBooks
<1> PICK m \in Nat : m = task[t].queued - 1
  BY <1>7
<1>9. CASE EnqueueClosed(c)
  <2> PICK n \in Nat : n = task[t].turnedAway + 1
    BY Zenon, <1>1, Counters
  <2> DEFINE r == [task[t] EXCEPT !.queued = m, !.turnedAway = n]
  <2>1. r \in TaskState
    BY ZenonT(40), <1>1 DEF TaskState
  <2>2. task' = [task EXCEPT ![t] = r]
    BY Zenon, <1>1, <1>9 DEF EnqueueClosed, Unreserve, TaskState
  <2>3. r.queued = task[t].queued - 1 /\ Delta(task[t], r, -1, 0, 0, 0, 0, 0, 1)
    BY SMTT(60), <1>1, <1>7 DEF TaskState, Delta
  <2> HIDE DEF r
  <2>4. Balanced(r, Waiting(t) - 1, Cardinality(Executing(t)))
    BY Zenon, <1>1, <1>2, <2>1, <2>3, BalancedSteps
  <2> QED
    BY Zenon, <1>8, <2>1, <2>2, <2>3, <2>4
<1>10. CASE EnqueueGroupFull(c)
  <2> PICK n \in Nat : n = task[t].overflows + 1
    BY Zenon, <1>1, Counters
  <2> DEFINE r == [task[t] EXCEPT !.queued = m, !.overflows = n]
  <2>1. r \in TaskState
    BY ZenonT(40), <1>1 DEF TaskState
  <2>2. task' = [task EXCEPT ![t] = r]
    BY Zenon, <1>1, <1>10 DEF EnqueueGroupFull, Overflowed, Unreserve, TaskState
  <2>3. r.queued = task[t].queued - 1 /\ Delta(task[t], r, -1, 0, 1, 0, 0, 0, 0)
    BY SMTT(60), <1>1, <1>7 DEF TaskState, Delta
  <2> HIDE DEF r
  <2>4. Balanced(r, Waiting(t) - 1, Cardinality(Executing(t)))
    BY Zenon, <1>1, <1>2, <2>1, <2>3, BalancedSteps
  <2> QED
    BY Zenon, <1>8, <2>1, <2>2, <2>3, <2>4
<1> QED
  BY Zenon, <1>9, <1>10

(* A push adds a job that was not there, as its number is its own.         *)
LEMMA PushBooks ==
  ASSUME SetFacts, IInv, NEW c \in Threads, EnqueuePush(c)
  PROVE  Books'
<1>0. call[c] \in CallJob /\ call[c].at = "push" /\ UNCHANGED <<task, worker>>
  BY Zenon, CallShape DEF EnqueuePush, At, IInv, TypeInv
<1> PICK t \in Tasks : t = call[c].task
  BY Zenon, <1>0 DEF CallJob
<1> DEFINE J == [task |-> call[c].task, release |-> call[c].release,
                 sequence |-> call[c].sequence]
<1> PICK j \in Job : j = J /\ j.task = t /\ j.sequence = call[c].sequence
  <2>1. J \in Job /\ J.task = t /\ J.sequence = call[c].sequence
    BY Zenon, <1>0 DEF CallJob, Job
  <2> HIDE DEF J
  <2> QED
    BY Zenon, <2>1
<1>1. TypeInv /\ Account(t) /\ task \in [Tasks -> TaskState] /\ task[t] \in TaskState
  BY Zenon DEF IInv, TypeInv
<1>2. /\ Cardinality(JobsOf(t)) \in Nat /\ Cardinality(Reserving(t)) \in Nat
      /\ Cardinality(Popped(t)) \in Nat /\ Cardinality(queue) \in Nat
      /\ IsFiniteSet(Reserving(t)) /\ IsFiniteSet(JobsOf(t)) /\ IsFiniteSet(queue)
  BY Zenon, <1>1, Counts DEF TypeInv
<1>3. queue' = queue \cup {j} /\ j \notin queue
  <2>1. queue' = queue \cup {j}
    BY Zenon DEF EnqueuePush
  <2>2. \A k \in queue : k.sequence # call[c].sequence
    BY Zenon, <1>0 DEF IInv, NumberInv, Numbered
  <2> QED
    BY Zenon, <2>1, <2>2
<1>4. \A u \in Tasks : Popped(u)' = Popped(u) /\ Executing(u)' = Executing(u)
  BY Zenon, <1>0, SameSets
<1>5. ASSUME NEW u \in Tasks PROVE Reserving(u)' = Reserving(u) \ {c}
  <2> DEFINE v == [call[c] EXCEPT !.at = "wake"]
  <2>1. call' = [call EXCEPT ![c] = v] /\ v.at # "push"
    BY Zenon, <1>0 DEF EnqueuePush, Goto, CallJob
  <2> HIDE DEF v
  <2> QED
    BY Zenon, <1>1, <2>1, ReservingMove
<1>6. c \in Reserving(t) /\ \A u \in Tasks \ {t} : c \notin Reserving(u)
  BY Zenon, <1>0 DEF Reserving, At
<1>7. /\ JobsOf(t)' = JobsOf(t) \cup {j} /\ j \notin JobsOf(t)
      /\ \A u \in Tasks \ {t} : JobsOf(u)' = JobsOf(u)
  BY Zenon, <1>3 DEF JobsOf
<1>8. Cardinality(Reserving(t)') = Cardinality(Reserving(t)) - 1
  BY Zenon, <1>2, <1>5, <1>6, OneLess
<1>9. Cardinality(JobsOf(t)') = Cardinality(JobsOf(t)) + 1
  BY Zenon, <1>2, <1>7, OneMore
<1>10. Cardinality(queue') = Cardinality(queue) + 1
  BY Zenon, <1>2, <1>3, OneMore
<1>11. Waiting(t)' = Waiting(t)
  BY SMTT(60), <1>2, <1>4, <1>8, <1>9 DEF Waiting
<1>12. Account(t)'
  BY Zenon, <1>0, <1>1, <1>4, <1>11 DEF Account
<1>13. SameElsewhere(t)
  BY SMTT(60), <1>0, <1>4, <1>5, <1>6, <1>7 DEF SameElsewhere
<1>14. Cardinality(queue') <= GroupCapacity
  BY SMTT(60), <1>2, <1>10, CapacityAssumption DEF EnqueuePush, GroupFull
<1>15. task' \in [Tasks -> TaskState] /\ task'[t].queued <= TaskCapacity
  BY Zenon, <1>0, <1>1 DEF IInv, CapacityInv
<1> QED
  BY Zenon, <1>12, <1>13, <1>14, <1>15, OneTaskBooks

(* A worker takes the top of the queue.                                    *)
LEMMA PopBooks ==
  ASSUME SetFacts, IInv, NEW w \in Workers, WorkerPop(w)
  PROVE  Books'
<1>0. /\ TypeInv /\ NumberInv /\ worker[w].at = "check" /\ Top \in queue
      /\ UNCHANGED <<task, call>> /\ queue' = queue \ {Top}
  BY Zenon, TopFirst DEF WorkerPop, IInv
<1>j. PICK j \in Job : j = Top /\ j \in queue
  BY Zenon, <1>0 DEF TypeInv
<1>t. PICK t \in Tasks : t = j.task
  BY Zenon DEF Job
<1>a. TypeInv
  BY Zenon, <1>0
<1>1. Account(t) /\ task \in [Tasks -> TaskState]
  BY Zenon DEF IInv, TypeInv
<1>2. /\ Cardinality(JobsOf(t)) \in Nat /\ Cardinality(Reserving(t)) \in Nat
      /\ Cardinality(Popped(t)) \in Nat /\ Cardinality(queue) \in Nat
      /\ IsFiniteSet(Popped(t)) /\ IsFiniteSet(JobsOf(t)) /\ IsFiniteSet(queue)
  BY Zenon, <1>0, Counts DEF TypeInv
<1>3. \A u \in Tasks : Reserving(u)' = Reserving(u)
  BY Zenon, <1>0, SameSets
<1>4. \A u \in Tasks : w \notin Popped(u) /\ w \notin Executing(u)
  BY Zenon, <1>0 DEF Popped, Executing
<1> DEFINE v == [at |-> "popped", job |-> Top, stopping |-> groupStopping]
<1>5. /\ worker' = [worker EXCEPT ![w] = v]
      /\ v.at = "popped" /\ v.at # "callback" /\ v.job.task = t
  BY Zenon, <1>0, <1>j, <1>t, WorkerEffect
<1> HIDE DEF v
<1>6. /\ Popped(t)' = Popped(t) \cup {w} /\ Executing(t)' = Executing(t)
  <2>1. Executing(t)' = Executing(t) \ {w}
    BY Zenon, <1>a, <1>5, WorkerMove
  <2>2. Popped(t)' = Popped(t) \cup {w}
    BY Zenon, <1>a, <1>5, WorkerMove
  <2> QED
    BY Zenon, <1>4, <2>1, <2>2
<1>7. ASSUME NEW u \in Tasks \ {t}
      PROVE  Popped(u)' = Popped(u) /\ Executing(u)' = Executing(u)
  <2>0. u \in Tasks /\ v.job.task # u
    BY Zenon, <1>5
  <2>1. Popped(u)' = Popped(u) \ {w} /\ Executing(u)' = Executing(u) \ {w}
    BY Zenon, <1>a, <1>5, <2>0, WorkerMove
  <2> QED
    BY Zenon, <1>4, <2>1
<1>8. /\ JobsOf(t)' = JobsOf(t) \ {j} /\ j \in JobsOf(t)
      /\ \A u \in Tasks \ {t} : JobsOf(u)' = JobsOf(u)
  BY Zenon, <1>0, <1>j, <1>t DEF JobsOf
<1>9. Cardinality(Popped(t)') = Cardinality(Popped(t)) + 1
  BY Zenon, <1>2, <1>4, <1>6, OneMore
<1>10. Cardinality(JobsOf(t)') = Cardinality(JobsOf(t)) - 1
  BY Zenon, <1>2, <1>8, OneLess
<1>11. Cardinality(queue') = Cardinality(queue) - 1
  BY Zenon, <1>0, <1>2, <1>j, OneLess
<1>12. Waiting(t)' = Waiting(t)
  BY SMTT(60), <1>2, <1>3, <1>9, <1>10 DEF Waiting
<1>13. Account(t)'
  BY Zenon, <1>0, <1>1, <1>6, <1>12 DEF Account
<1>14. SameElsewhere(t)
  BY Zenon, <1>0, <1>3, <1>7, <1>8 DEF SameElsewhere
<1>15. Cardinality(queue') <= GroupCapacity
  BY SMTT(60), <1>2, <1>11, CapacityAssumption DEF IInv, CapacityInv
<1>16. task' \in [Tasks -> TaskState] /\ task'[t].queued <= TaskCapacity
  BY Zenon, <1>0, <1>1 DEF IInv, CapacityInv
<1> QED
  BY Zenon, <1>13, <1>14, <1>15, <1>16, OneTaskBooks

(* What a popped job becomes is counted once, and its place is free again. *)
LEMMA DispatchBooks ==
  ASSUME SetFacts, IInv, NEW w \in Workers, WorkerDispatch(w)
  PROVE  Books'
<1>0. /\ TypeInv /\ NumberInv /\ worker[w].at = "popped" /\ worker[w] \in WorkerPopped
      /\ UNCHANGED <<queue, call>>
  BY Zenon, WorkerEffect DEF WorkerDispatch, IInv
<1>t. PICK t \in Tasks : t = worker[w].job.task
  BY Zenon, <1>0 DEF WorkerPopped, Job
<1>a. TypeInv
  BY Zenon, <1>0
<1>1. Account(t) /\ task \in [Tasks -> TaskState] /\ task[t] \in TaskState
  BY Zenon DEF IInv, TypeInv
<1>2. /\ Balanced(task[t], Waiting(t), Cardinality(Executing(t)))
      /\ Waiting(t) \in Int /\ Cardinality(Executing(t)) \in Int
      /\ Cardinality(JobsOf(t)) \in Nat /\ Cardinality(Reserving(t)) \in Nat
      /\ Cardinality(Popped(t)) \in Nat
      /\ IsFiniteSet(Popped(t)) /\ IsFiniteSet(Executing(t))
  BY SMTT(60), <1>0, <1>1, Counts DEF Account, Waiting
<1>3. \A u \in Tasks : JobsOf(u)' = JobsOf(u) /\ Reserving(u)' = Reserving(u)
  BY Zenon, <1>0, SameSets
<1>4. /\ w \in Popped(t) /\ \A u \in Tasks \ {t} : w \notin Popped(u)
      /\ \A u \in Tasks : w \notin Executing(u)
  BY Zenon, <1>0, <1>t DEF Popped, Executing
<1>5. PICK v : /\ worker' = [worker EXCEPT ![w] = v]
               /\ v.at # "popped"
               /\ Outcome(w) = "started" => v.at = "callback" /\ v.job.task = t
               /\ Outcome(w) # "started" => v.at # "callback"
  <2>1. CASE Outcome(w) = "started"
    <3> DEFINE v == [at |-> "callback", job |-> worker[w].job]
    <3>1. v.at = "callback" /\ v.at # "popped" /\ v.job.task = t
      BY Zenon, <1>t
    <3>2. worker' = [worker EXCEPT ![w] = v]
      BY Zenon, <1>0, <2>1, WorkerEffect
    <3> HIDE DEF v
    <3> QED
      BY Zenon, <2>1, <3>1, <3>2
  <2>2. CASE Outcome(w) # "started"
    <3> DEFINE v == [at |-> "check"]
    <3>1. v.at # "callback" /\ v.at # "popped"
      OBVIOUS
    <3>2. worker' = [worker EXCEPT ![w] = v]
      BY Zenon, <1>0, <2>2, WorkerEffect
    <3> HIDE DEF v
    <3> QED
      BY Zenon, <2>2, <3>1, <3>2
  <2> QED
    BY Zenon, <2>1, <2>2
<1>6. \A u \in Tasks : Popped(u)' = Popped(u) \ {w}
  BY Zenon, <1>a, <1>5, WorkerMove
<1>7. ASSUME NEW u \in Tasks \ {t}
      PROVE  Popped(u)' = Popped(u) /\ Executing(u)' = Executing(u)
  <2>0. u \in Tasks /\ u # t
    OBVIOUS
  <2>1. Executing(u)' = Executing(u) \ {w}
    BY Zenon, <1>a, <1>5, <2>0, WorkerMove
  <2>2. w \notin Popped(u) /\ w \notin Executing(u)
    BY Zenon, <1>4
  <2> QED
    BY Zenon, <1>6, <2>1, <2>2
<1>8. Cardinality(Popped(t)') = Cardinality(Popped(t)) - 1 /\ Cardinality(Popped(t)) >= 1
  BY Zenon, <1>2, <1>4, <1>6, OneLess
<1>9. Waiting(t)' = Waiting(t) - 1 /\ task[t].queued >= 1 /\ task[t].queued \in Nat
  BY SMTT(60), <1>1, <1>2, <1>3, <1>8 DEF Waiting, Balanced, TaskState
<1>10. Outcome(w) = "started" => Cardinality(Executing(t)') = Cardinality(Executing(t)) + 1
  <2> SUFFICES ASSUME Outcome(w) = "started"
               PROVE  Cardinality(Executing(t)') = Cardinality(Executing(t)) + 1
    OBVIOUS
  <2>1. Executing(t)' = Executing(t) \cup {w}
    BY Zenon, <1>a, <1>5, WorkerMove
  <2> QED
    BY Zenon, <1>2, <1>4, <2>1, OneMore
<1>11. Outcome(w) # "started" => Executing(t)' = Executing(t)
  <2> SUFFICES ASSUME Outcome(w) # "started" PROVE Executing(t)' = Executing(t)
    OBVIOUS
  <2>1. Executing(t)' = Executing(t) \ {w}
    BY Zenon, <1>a, <1>5, WorkerMove
  <2> QED
    BY Zenon, <1>4, <2>1
<1>12. ASSUME NEW r \in TaskState, task' = [task EXCEPT ![t] = r],
              r.queued = task[t].queued - 1,
              Balanced(r, Waiting(t)', Cardinality(Executing(t)'))
       PROVE  Books'
  <2>1. task' \in [Tasks -> TaskState] /\ task'[t] = r
    BY Zenon, <1>1, <1>12
  <2>2. SameElsewhere(t)
    <3>1. ASSUME NEW u \in Tasks \ {t} PROVE task'[u] = task[u]
      BY Zenon, <1>1, <1>12
    <3> QED
      BY Zenon, <1>3, <1>7, <3>1 DEF SameElsewhere
  <2>3. Account(t)'
    BY Zenon, <1>12, <2>1 DEF Account
  <2>4. task'[t].queued <= TaskCapacity
    BY SMTT(60), <1>9, <1>12, <2>1, CapacityAssumption DEF IInv, CapacityInv
  <2>5. Cardinality(queue') <= GroupCapacity
    BY Zenon, <1>0 DEF IInv, CapacityInv
  <2> QED
    BY Zenon, <2>1, <2>2, <2>3, <2>4, <2>5, OneTaskBooks
<1>13. PICK m \in Nat : m = task[t].queued - 1
  BY SMTT(60), <1>9
<1>14. task' = [Bump(t, Outcome(w)) EXCEPT ![t].queued = IF @ > 0 THEN @ - 1 ELSE @]
  BY Zenon, <1>t DEF WorkerDispatch, Counted
<1>15. CASE Outcome(w) = "started"
  <2>1. PICK n \in Nat : n = task[t].started + 1
    BY <1>1 DEF TaskState
  <2> DEFINE r == [task[t] EXCEPT !.started = n, !.queued = m]
  <2>2. r \in TaskState
    BY Zenon, <1>1 DEF TaskState
  <2>3. task' = [task EXCEPT ![t] = r]
    <3> DEFINE b == [task[t] EXCEPT !.started = n]
    <3>1. b.queued = task[t].queued /\ [b EXCEPT !.queued = m] = r
      BY Zenon, <1>1 DEF TaskState
    <3>2. PICK B : B = Bump(t, Outcome(w))
      OBVIOUS
    <3>3. B = [task EXCEPT ![t] = b]
      BY Zenon, <1>1, <1>15, <2>1, <3>2 DEF Bump
    <3> HIDE DEF b, r
    <3>4. B[t] = b /\ B[t].queued > 0 /\ B[t].queued - 1 = m
      BY <1>1, <1>9, <1>13, <3>1, <3>3
    <3>5. task' = [B EXCEPT ![t].queued = m]
      BY Zenon, <1>14, <3>2, <3>4
    <3>6. task' = [B EXCEPT ![t] = r]
      BY Zenon, <3>1, <3>4, <3>5
    <3> QED
      BY Zenon, <1>1, <3>3, <3>6
  <2>4. r.queued = task[t].queued - 1 /\ Delta(task[t], r, -1, 0, 0, 1, 0, 0, 0)
    BY SMTT(60), <1>1, <1>9, <1>13, <2>1 DEF TaskState, Delta
  <2> HIDE DEF r
  <2>5. Balanced(r, Waiting(t) - 1, Cardinality(Executing(t)) + 1)
    BY Zenon, <1>1, <1>2, <2>2, <2>4, BalancedSteps
  <2>6. Balanced(r, Waiting(t)', Cardinality(Executing(t)'))
    BY Zenon, <1>9, <1>10, <1>15, <2>5
  <2> QED
    BY Zenon, <1>12, <2>2, <2>3, <2>4, <2>6
<1>16. CASE Outcome(w) = "drops"
  <2>1. PICK n \in Nat : n = task[t].drops + 1
    BY <1>1 DEF TaskState
  <2> DEFINE r == [task[t] EXCEPT !.drops = n, !.queued = m]
  <2>2. r \in TaskState
    BY Zenon, <1>1 DEF TaskState
  <2>3. task' = [task EXCEPT ![t] = r]
    <3> DEFINE b == [task[t] EXCEPT !.drops = n]
    <3>1. b.queued = task[t].queued /\ [b EXCEPT !.queued = m] = r
      BY Zenon, <1>1 DEF TaskState
    <3>2. PICK B : B = Bump(t, Outcome(w))
      OBVIOUS
    <3>3. B = [task EXCEPT ![t] = b]
      BY Zenon, <1>1, <1>16, <2>1, <3>2 DEF Bump
    <3> HIDE DEF b, r
    <3>4. B[t] = b /\ B[t].queued > 0 /\ B[t].queued - 1 = m
      BY <1>1, <1>9, <1>13, <3>1, <3>3
    <3>5. task' = [B EXCEPT ![t].queued = m]
      BY Zenon, <1>14, <3>2, <3>4
    <3>6. task' = [B EXCEPT ![t] = r]
      BY Zenon, <3>1, <3>4, <3>5
    <3> QED
      BY Zenon, <1>1, <3>3, <3>6
  <2>4. r.queued = task[t].queued - 1 /\ Delta(task[t], r, -1, 0, 0, 0, 0, 1, 0)
    BY SMTT(60), <1>1, <1>9, <1>13, <2>1 DEF TaskState, Delta
  <2> HIDE DEF r
  <2>5. Balanced(r, Waiting(t) - 1, Cardinality(Executing(t)))
    BY Zenon, <1>1, <1>2, <2>2, <2>4, BalancedSteps
  <2>6. Balanced(r, Waiting(t)', Cardinality(Executing(t)'))
    BY Zenon, <1>9, <1>11, <1>16, <2>5
  <2> QED
    BY Zenon, <1>12, <2>2, <2>3, <2>4, <2>6
<1>17. CASE Outcome(w) = "turnedAway"
  <2>1. PICK n \in Nat : n = task[t].turnedAway + 1
    BY Zenon, <1>1, Counters
  <2> DEFINE r == [task[t] EXCEPT !.turnedAway = n, !.queued = m]
  <2>2. r \in TaskState
    BY Zenon, <1>1 DEF TaskState
  <2>3. task' = [task EXCEPT ![t] = r]
    <3> DEFINE b == [task[t] EXCEPT !.turnedAway = n]
    <3>1. b.queued = task[t].queued /\ [b EXCEPT !.queued = m] = r
      BY Zenon, <1>1 DEF TaskState
    <3>2. PICK B : B = Bump(t, Outcome(w))
      OBVIOUS
    <3>3. B = [task EXCEPT ![t] = b]
      BY Zenon, <1>1, <1>17, <2>1, <3>2 DEF Bump
    <3> HIDE DEF b, r
    <3>4. B[t] = b /\ B[t].queued > 0 /\ B[t].queued - 1 = m
      BY <1>1, <1>9, <1>13, <3>1, <3>3
    <3>5. task' = [B EXCEPT ![t].queued = m]
      BY Zenon, <1>14, <3>2, <3>4
    <3>6. task' = [B EXCEPT ![t] = r]
      BY Zenon, <3>1, <3>4, <3>5
    <3> QED
      BY Zenon, <1>1, <3>3, <3>6
  <2>4. r.queued = task[t].queued - 1 /\ Delta(task[t], r, -1, 0, 0, 0, 0, 0, 1)
    BY SMTT(60), <1>1, <1>9, <1>13, <2>1 DEF TaskState, Delta
  <2> HIDE DEF r
  <2>5. Balanced(r, Waiting(t) - 1, Cardinality(Executing(t)))
    BY Zenon, <1>1, <1>2, <2>2, <2>4, BalancedSteps
  <2>6. Balanced(r, Waiting(t)', Cardinality(Executing(t)'))
    BY Zenon, <1>9, <1>11, <1>17, <2>5
  <2> QED
    BY Zenon, <1>12, <2>2, <2>3, <2>4, <2>6
<1>18. Outcome(w) \in {"started", "drops", "turnedAway"}
  BY Zenon DEF Outcome
<1> QED
  BY Zenon, <1>15, <1>16, <1>17, <1>18

(* A callback returns.                                                     *)
LEMMA FinishBooks ==
  ASSUME SetFacts, IInv, NEW w \in Workers, WorkerFinish(w)
  PROVE  Books'
<1>0. /\ TypeInv /\ NumberInv /\ worker[w].at = "callback" /\ worker[w] \in WorkerBusy
      /\ UNCHANGED <<queue, call>>
  BY Zenon, WorkerEffect DEF WorkerFinish, IInv
<1>a. TypeInv
  BY Zenon, <1>0
<1>t. PICK t \in Tasks : t = worker[w].job.task
  BY Zenon, <1>0 DEF WorkerBusy, Job
<1>1. Account(t) /\ task \in [Tasks -> TaskState] /\ task[t] \in TaskState
  BY Zenon DEF IInv, TypeInv
<1>2. /\ Balanced(task[t], Waiting(t), Cardinality(Executing(t)))
      /\ Waiting(t) \in Int /\ Cardinality(Executing(t)) \in Int
      /\ IsFiniteSet(Executing(t))
  BY SMTT(60), <1>0, <1>1, Counts DEF Account, Waiting
<1>3. \A u \in Tasks : JobsOf(u)' = JobsOf(u) /\ Reserving(u)' = Reserving(u)
  BY Zenon, <1>0, SameSets
<1>4. /\ w \in Executing(t) /\ \A u \in Tasks \ {t} : w \notin Executing(u)
      /\ \A u \in Tasks : w \notin Popped(u)
  BY Zenon, <1>0, <1>t DEF Popped, Executing
<1>5. \A u \in Tasks : Popped(u)' = Popped(u) \ {w} /\ Executing(u)' = Executing(u) \ {w}
  <2> DEFINE v == [at |-> "check"]
  <2>1. v.at # "callback" /\ v.at # "popped"
    OBVIOUS
  <2>2. worker' = [worker EXCEPT ![w] = v]
    BY Zenon, <1>0, WorkerEffect
  <2> HIDE DEF v
  <2> QED
    BY Zenon, <1>a, <2>1, <2>2, WorkerMove
<1>6. ASSUME NEW u \in Tasks PROVE Popped(u)' = Popped(u)
  <2>1. Popped(u)' = Popped(u) \ {w} /\ w \notin Popped(u)
    BY Zenon, <1>4, <1>5
  <2> QED
    BY Zenon, <2>1
<1>7. ASSUME NEW u \in Tasks \ {t} PROVE Executing(u)' = Executing(u)
  <2>1. Executing(u)' = Executing(u) \ {w} /\ w \notin Executing(u)
    BY Zenon, <1>4, <1>5
  <2> QED
    BY Zenon, <2>1
<1>8. Cardinality(Executing(t)') = Cardinality(Executing(t)) - 1
  BY Zenon, <1>2, <1>4, <1>5, OneLess
<1>9. Waiting(t)' = Waiting(t)
  BY Zenon, <1>3, <1>6 DEF Waiting
<1>10. PICK n \in Nat : n = task[t].finished + 1
  BY <1>1 DEF TaskState
<1> DEFINE r == [task[t] EXCEPT !.finished = n]
<1>11. r \in TaskState
  BY Zenon, <1>1 DEF TaskState
<1>12. task' = [task EXCEPT ![t] = r]
  BY Zenon, <1>1, <1>t, <1>10 DEF WorkerFinish, Bump, TaskState
<1>13. r.queued = task[t].queued /\ Delta(task[t], r, 0, 0, 0, 0, 1, 0, 0)
  BY <1>1, <1>10 DEF TaskState, Delta
<1> HIDE DEF r
<1>14. Balanced(r, Waiting(t)', Cardinality(Executing(t)'))
  <2>1. Balanced(r, Waiting(t), Cardinality(Executing(t)) - 1)
    BY Zenon, <1>1, <1>2, <1>11, <1>13, BalancedSteps
  <2> QED
    BY Zenon, <1>8, <1>9, <2>1
<1>15. task' \in [Tasks -> TaskState] /\ task'[t] = r
  BY Zenon, <1>1, <1>11, <1>12
<1>16. SameElsewhere(t)
  <2>1. ASSUME NEW u \in Tasks \ {t} PROVE task'[u] = task[u]
    BY Zenon, <1>1, <1>12
  <2> QED
    BY Zenon, <1>3, <1>6, <1>7, <2>1 DEF SameElsewhere
<1>17. Account(t)'
  BY Zenon, <1>14, <1>15 DEF Account
<1>18. task'[t].queued <= TaskCapacity /\ Cardinality(queue') <= GroupCapacity
  BY Zenon, <1>0, <1>13, <1>15 DEF IInv, CapacityInv
<1> QED
  BY Zenon, <1>15, <1>16, <1>17, <1>18, OneTaskBooks

(* The group's queue changes by a push and by a pop.                       *)
LEMMA QueueFrame ==
  ASSUME [Next]_vars
  PROVE  \/ UNCHANGED queue
         \/ \E c \in Threads : EnqueuePush(c)
         \/ \E w \in Workers : WorkerPop(w)
<1>1. CASE Tick \/ Start \/ StopRequest \/ ControlStep
  BY Zenon, <1>1 DEF Tick, Start, StopRequest, ControlStep, StartThreads,
              StopWakeScheduler, StopGroup, StopWakeGroup, StopJoin
<1>2. CASE SchedulerStep
  BY Zenon, <1>2 DEF SchedulerStep, SchedulerPlan, SchedulerAwake, SchedulerRelease
<1>3. ASSUME NEW c \in Callers, NEW t \in Tasks,
             AddTask(c, t) \/ Notify(c, t) \/ Cancel(c, t)
      PROVE  UNCHANGED queue
  BY Zenon, <1>3 DEF AddTask, Notify, Cancel
<1>4. ASSUME NEW c \in Threads, CallStep(c) PROVE UNCHANGED queue \/ EnqueuePush(c)
  BY Zenon, <1>4 DEF CallStep, AddTaskWake, AddTaskRelease, EnqueueAdmit, EnqueueReserve,
       EnqueueClosed, EnqueueGroupFull, EnqueueWake, CancelVersion, CancelWake
<1>5. ASSUME NEW w \in Workers, WorkerStep(w) PROVE UNCHANGED queue \/ WorkerPop(w)
  BY Zenon, <1>5 DEF WorkerStep, WorkerSleep, WorkerExit, WorkerDispatch, WorkerFinish
<1>6. CASE UNCHANGED vars
  BY Zenon, <1>6 DEF vars
<1> QED
  BY Zenon, <1>1, <1>2, <1>3, <1>4, <1>5, <1>6 DEF Next

(* The steps of Enqueue and of the workers that move a release.            *)
Moving ==
  \/ \E c \in Threads : \/ EnqueueReserve(c) \/ EnqueueClosed(c)
                        \/ EnqueueGroupFull(c) \/ EnqueuePush(c)
  \/ \E w \in Workers : WorkerPop(w) \/ WorkerDispatch(w) \/ WorkerFinish(w)

(* A call at rest, on its way into Enqueue or on its way out of it.        *)
CallsCalm ==
  \A c \in Threads : \/ call'[c] = call[c]
                     \/ call[c].at # "push" /\ call'[c].at \notin {"reserve", "push"}

(* All calls but those that move a release or take a number are such.      *)
LEMMA CalmCalls ==
  ASSUME TypeInv, [Next]_vars, ~Moving, ~\E c \in Threads : EnqueueAdmit(c)
  PROVE  CallsCalm
<1>0. Callers \subseteq Threads /\ Scheduler \in Threads
  BY Zenon DEF Threads
<1>1. CASE UNCHANGED call
  BY Zenon, <1>1 DEF CallsCalm
<1>3. ASSUME NEW c \in Callers, NEW t \in Tasks,
             AddTask(c, t) \/ Notify(c, t) \/ Cancel(c, t)
      PROVE  CallsCalm
  <2>1. call[c].at # "push" /\ c \in Threads
    BY Zenon, <1>0, <1>3 DEF AddTask, Notify, Cancel, At
  <2>2. CASE call' = [call EXCEPT ![c] = [at |-> "added", task |-> t]]
    BY Zenon, <2>1, <2>2 DEF CallsCalm, TypeInv
  <2>3. CASE call' = [call EXCEPT ![c] = [at |-> "admit", task |-> t, release |-> now]]
    BY Zenon, <2>1, <2>3 DEF CallsCalm, TypeInv
  <2>4. CASE call' = [call EXCEPT ![c] = [at |-> "cancelled", task |-> t]]
    BY Zenon, <2>1, <2>4 DEF CallsCalm, TypeInv
  <2> QED
    BY Zenon, <1>3, <2>2, <2>3, <2>4 DEF AddTask, Notify, Cancel
<1>4. ASSUME NEW c \in Threads,
             AddTaskWake(c) \/ CancelVersion(c) \/ CancelWake(c)
      PROVE  CallsCalm
  <2>1. call[c] \in CallTask /\ call[c].at # "push"
    BY Zenon, <1>4, CallShape DEF AddTaskWake, CancelVersion, CancelWake, At, TypeInv
  <2>2. CASE Return(c)
    BY Zenon, <2>1, <2>2 DEF Return, NoCall, CallsCalm, TypeInv
  <2>3. CASE Goto(c, "async")
    <3>1. [call[c] EXCEPT !.at = "async"].at = "async"
      BY Zenon, <2>1 DEF CallTask
    <3> QED
      BY Zenon, <2>1, <2>3, <3>1 DEF Goto, CallsCalm, TypeInv
  <2>4. CASE Goto(c, "cancelWake")
    <3>1. [call[c] EXCEPT !.at = "cancelWake"].at = "cancelWake"
      BY Zenon, <2>1 DEF CallTask
    <3> QED
      BY Zenon, <2>1, <2>4, <3>1 DEF Goto, CallsCalm, TypeInv
  <2> QED
    BY Zenon, <1>4, <2>2, <2>3, <2>4 DEF AddTaskWake, CancelVersion, CancelWake
<1>5. ASSUME NEW c \in Threads, AddTaskRelease(c) \/ EnqueueWake(c)
      PROVE  CallsCalm
  <2>1. call[c].at # "push"
    BY Zenon, <1>5 DEF AddTaskRelease, EnqueueWake, At
  <2>2. CASE Return(c)
    BY Zenon, <2>1, <2>2 DEF Return, NoCall, CallsCalm, TypeInv
  <2>3. CASE call' = [call EXCEPT ![c] = [at |-> "admit", task |-> call[c].task,
                                          release |-> now]]
    BY Zenon, <2>1, <2>3 DEF CallsCalm, TypeInv
  <2> QED
    BY Zenon, <1>5, <2>2, <2>3 DEF AddTaskRelease, EnqueueWake
<1>6. CASE SchedulerRelease
  <2>1. call[Scheduler].at # "push"
    BY Zenon, <1>6 DEF SchedulerRelease, At
  <2>2. ASSUME NEW d \in sched.due,
               call' = [call EXCEPT ![Scheduler] =
                 [at |-> "admit", task |-> d.task, release |-> d.release]]
        PROVE  CallsCalm
    BY Zenon, <1>0, <2>1, <2>2 DEF CallsCalm, TypeInv
  <2> QED
    BY Zenon, <1>1, <1>6, <2>2 DEF SchedulerRelease
<1> QED
  BY Zenon, <1>1, <1>3, <1>4, <1>5, <1>6, CallFrame DEF CallStep, Moving

(* The first section of Enqueue hands out the next number.                 *)
LEMMA Admitted ==
  ASSUME TypeInv, NEW c \in Threads, EnqueueAdmit(c)
  PROVE  /\ call[c].at = "admit"
         /\ \A d \in Threads \ {c} : call'[d] = call[d]
         /\ \/ call'[c].at = "idle" /\ UNCHANGED sequence
            \/ /\ call'[c].at = "reserve" /\ call'[c].sequence = sequence
               /\ sequence' = sequence + 1
BY DEF EnqueueAdmit, At, Return, NoCall, TypeInv

(* No other step reserves a place or gives one up.                         *)
LEMMA QuietCalls ==
  ASSUME TypeInv, [Next]_vars, ~Moving
  PROVE  CallsQuiet
<1>1. ASSUME NEW c \in Threads, EnqueueAdmit(c) PROVE CallsQuiet
  BY Zenon, <1>1, Admitted DEF CallsQuiet
<1>2. CASE ~\E c \in Threads : EnqueueAdmit(c)
  BY Zenon, <1>2, CalmCalls DEF CallsCalm, CallsQuiet
<1> QED
  BY Zenon, <1>1, <1>2

(* No other step gives a worker a job or takes one from it.                *)
LEMMA QuietWorkers ==
  ASSUME SetFacts, TypeInv, NumberInv, StopInv, [Next]_vars, ~Moving
  PROVE  WorkersQuiet
<1>1. CASE UNCHANGED worker
  BY Zenon, <1>1 DEF WorkersQuiet
<1>2. CASE \E c \in Threads : EnqueueWake(c)
  BY Zenon, <1>2, WokenWorkers DEF EnqueueWake
<1>3. ASSUME NEW w \in Workers, WorkerSleep(w) \/ WorkerExit(w)
      PROVE  WorkersQuiet
  <2>1. worker[w].at = "check"
    BY Zenon, <1>3 DEF WorkerSleep, WorkerExit
  <2>2. \/ worker' = [worker EXCEPT ![w] = [at |-> "asleep"]]
        \/ worker' = [worker EXCEPT ![w] = [at |-> "exited"]]
    BY Zenon, <1>3, WorkerEffect
  <2> QED
    BY <2>1, <2>2 DEF WorkersQuiet, Holding, TypeInv
<1> QED
  BY Zenon, <1>1, <1>2, <1>3, WorkerFrame, StartedWorkers, WokenGroup DEF WorkerStep, Moving

(* TaskState::queued and the statistics stay right, whatever happens.      *)
LEMMA BooksStep ==
  ASSUME SetFacts, IInv, [Next]_vars
  PROVE  Books'
<1>1. CASE Moving
  BY Zenon, <1>1, ReserveBooks, TurnedAwayBooks, PushBooks, PopBooks, DispatchBooks,
     FinishBooks DEF Moving
<1>2. CASE ~Moving
  <2>1. CallsQuiet /\ WorkersQuiet
    BY Zenon, <1>2, QuietCalls, QuietWorkers DEF IInv
  <2>2. UNCHANGED queue
    BY Zenon, <1>2, QueueFrame DEF Moving
  <2>3. TasksQuiet
    BY Zenon, <1>2, TaskFrame, QuietTasks DEF Moving, IInv
  <2> QED
    BY Zenon, <2>1, <2>2, <2>3, QuietBooks
<1> QED
  BY Zenon, <1>1, <1>2

-----------------------------------------------------------------------------
(* The clock, the flags and the number of the next job only go up.         *)
LEMMA Monotone ==
  ASSUME TypeInv, [Next]_vars
  PROVE  /\ now' \in Nat /\ now' <= MaxTime
         /\ stopping' \in BOOLEAN /\ groupStopping' \in BOOLEAN
         /\ groupStopping => groupStopping'
         /\ sequence' = sequence \/ \E c \in Threads : EnqueueAdmit(c)
<1> USE DEF flagVars
<1>1. CASE Tick
  BY <1>1, BoundsAssumption DEF Tick, TypeInv
<1>2. CASE Start \/ StopRequest \/ ControlStep
  BY Zenon, <1>2 DEF Start, StopRequest, ControlStep, StartThreads, StopWakeScheduler,
              StopGroup, StopWakeGroup, StopJoin, TypeInv
<1>3. CASE SchedulerStep
  BY Zenon, <1>3 DEF SchedulerStep, SchedulerPlan, SchedulerAwake, SchedulerRelease, TypeInv
<1>4. ASSUME NEW c \in Callers, NEW t \in Tasks,
             AddTask(c, t) \/ Notify(c, t) \/ Cancel(c, t)
      PROVE  UNCHANGED <<now, flagVars, sequence>>
  BY Zenon, <1>4 DEF AddTask, Notify, Cancel
<1>5. ASSUME NEW c \in Threads, CallStep(c)
      PROVE  UNCHANGED <<now, flagVars>> /\ (EnqueueAdmit(c) \/ UNCHANGED sequence)
  BY Zenon, <1>5 DEF CallStep, AddTaskWake, AddTaskRelease, EnqueueAdmit, EnqueueReserve,
       EnqueueClosed, EnqueueGroupFull, EnqueuePush, EnqueueWake, CancelVersion,
       CancelWake
<1>6. ASSUME NEW w \in Workers, WorkerStep(w)
      PROVE  UNCHANGED <<now, flagVars, sequence>>
  BY Zenon, <1>6 DEF WorkerStep, WorkerSleep, WorkerExit, WorkerPop, WorkerDispatch,
              WorkerFinish
<1>7. CASE UNCHANGED vars
  BY Zenon, <1>7 DEF vars, TypeInv
<1> QED
  BY Zenon, <1>1, <1>2, <1>3, <1>4, <1>5, <1>6, <1>7 DEF Next, TypeInv

(* The queue stays a finite set of jobs.                                   *)
LEMMA QueueTypeStep ==
  ASSUME SetFacts, TypeInv, [Next]_vars
  PROVE  queue' \subseteq Job /\ IsFiniteSet(queue')
<1>1. CASE UNCHANGED queue
  BY Zenon, <1>1 DEF TypeInv
<1>2. ASSUME NEW c \in Threads, EnqueuePush(c)
      PROVE  queue' \subseteq Job /\ IsFiniteSet(queue')
  <2> DEFINE j == [task |-> call[c].task, release |-> call[c].release,
                   sequence |-> call[c].sequence]
  <2>1. call[c] \in CallJob
    BY Zenon, <1>2, CallShape DEF EnqueuePush, At, TypeInv
  <2>2. j \in Job
    BY Zenon, <2>1 DEF CallJob, Job
  <2>3. queue' = queue \cup {j}
    BY Zenon, <1>2 DEF EnqueuePush
  <2> HIDE DEF j
  <2> QED
    BY Zenon, <2>2, <2>3 DEF TypeInv, SetFacts
<1>3. ASSUME NEW w \in Workers, WorkerPop(w)
      PROVE  queue' \subseteq Job /\ IsFiniteSet(queue')
  BY Zenon, <1>3 DEF WorkerPop, TypeInv, SetFacts
<1> QED
  BY Zenon, <1>1, <1>2, <1>3, QueueFrame

(* Every step keeps the types.                                             *)
LEMMA TypeStep ==
  ASSUME SetFacts, IInv, [Next]_vars
  PROVE  TypeInv'
<1>1. TypeInv /\ NumberInv /\ StopInv
  BY Zenon DEF IInv
<1>2. task' \in [Tasks -> TaskState]
  BY Zenon, BooksStep DEF Books
<1>3. sequence' \in Int
  BY SMTT(60), <1>1, Monotone, Admitted DEF TypeInv
<1> QED
  BY Zenon, <1>1, <1>2, <1>3, Monotone, QueueTypeStep, CallTypeStep, SchedTypeStep,
     WorkerTypeStep DEF TypeInv

-----------------------------------------------------------------------------
(* Numbers that are in use stay the only ones of their kind.               *)
NumbersKept ==
  \A c \in Threads : Numbered(c)' => Numbered(c) /\ call'[c].sequence = call[c].sequence

(* A step that takes no number and adds no job keeps NumberInv.            *)
LEMMA KeptNumbers ==
  ASSUME NumberInv, NumbersKept, queue' \subseteq queue, UNCHANGED sequence
  PROVE  NumberInv'
BY Zenon DEF NumberInv, NumbersKept, Numbered

(* Enqueue's first section takes a number nobody has; the push hands it on *)
(* to the job.                                                             *)
LEMMA NumberStep ==
  ASSUME IInv, [Next]_vars
  PROVE  NumberInv'
<1>1. TypeInv /\ NumberInv /\ sequence \in Int
  BY Zenon DEF IInv, TypeInv
<1>2. ASSUME NEW c \in Threads, EnqueueAdmit(c) PROVE NumberInv'
  <2>1. UNCHANGED queue
    BY Zenon, <1>2 DEF EnqueueAdmit
  <2>2. CASE call'[c].at = "idle" /\ UNCHANGED sequence
    <3>1. NumbersKept
      BY Zenon, <1>1, <1>2, <2>2, Admitted DEF NumbersKept, Numbered
    <3> QED
      BY Zenon, <1>1, <2>1, <2>2, <3>1, KeptNumbers
  <2>3. CASE /\ call'[c].at = "reserve" /\ call'[c].sequence = sequence
             /\ sequence' = sequence + 1
    <3>1. \A d \in Threads \ {c} : call'[d] = call[d]
      BY Zenon, <1>1, <1>2, Admitted
    <3>2. \A j \in queue : j.sequence \in Int /\ j.sequence < sequence
      BY Zenon, <1>1 DEF TypeInv, Job, NumberInv
    <3>3. ASSUME NEW d \in Threads \ {c}, Numbered(d)
          PROVE  call[d].sequence \in Int /\ call[d].sequence < sequence
      <4>1. call[d] \in CallJob
        BY Zenon, <1>1, <3>3, CallShape DEF Numbered, TypeInv
      <4> QED
        BY Zenon, <1>1, <3>3, <4>1 DEF NumberInv, CallJob
    <3>4. \A d \in Threads \ {c} : Numbered(d)' <=> Numbered(d)
      BY Zenon, <3>1 DEF Numbered
    <3>5. \A j \in queue' : j.sequence < sequence'
      BY SMTT(60), <1>1, <2>1, <2>3, <3>2
    <3>6. \A j, k \in queue' : j.sequence = k.sequence => j = k
      BY Zenon, <1>1, <2>1 DEF NumberInv
    <3>7. ASSUME NEW d \in Threads, Numbered(d)'
          PROVE  /\ call'[d].sequence < sequence'
                 /\ \A j \in queue' : j.sequence # call'[d].sequence
                 /\ \A f \in Threads : Numbered(f)' /\ f # d =>
                      call'[f].sequence # call'[d].sequence
      <4>1. CASE d = c
        BY SMTT(60), <1>1, <2>1, <2>3, <3>1, <3>2, <3>3, <3>4, <4>1
      <4>2. CASE d # c
        <5>1. Numbered(d) /\ call'[d] = call[d]
          BY Zenon, <3>1, <3>4, <3>7, <4>2
        <5>2. call[d].sequence \in Int /\ call[d].sequence < sequence
          BY Zenon, <3>3, <4>2, <5>1
        <5>3. \A j \in queue : j.sequence # call[d].sequence
          BY Zenon, <1>1, <5>1 DEF NumberInv
        <5>4. \A f \in Threads \ {c} : Numbered(f) /\ f # d =>
                call[f].sequence # call[d].sequence
          BY Zenon, <1>1, <5>1 DEF NumberInv
        <5> QED
          BY SMTT(60), <1>1, <2>1, <2>3, <3>1, <3>4, <5>1, <5>2, <5>3, <5>4
      <4> QED
        BY Zenon, <4>1, <4>2
    <3> QED
      BY Zenon, <3>5, <3>6, <3>7 DEF NumberInv
  <2> QED
    BY Zenon, <1>1, <1>2, <2>2, <2>3, Admitted
<1>3. ASSUME NEW c \in Threads, EnqueuePush(c) PROVE NumberInv'
  <2> DEFINE j == [task |-> call[c].task, release |-> call[c].release,
                   sequence |-> call[c].sequence]
             v == [call[c] EXCEPT !.at = "wake"]
  <2>1. call[c] \in CallJob /\ Numbered(c) /\ UNCHANGED sequence
    BY Zenon, <1>1, <1>3, CallShape DEF EnqueuePush, At, TypeInv, Numbered
  <2>2. j.sequence = call[c].sequence
    OBVIOUS
  <2>3. queue' = queue \cup {j}
    BY Zenon, <1>3 DEF EnqueuePush
  <2>4. v.at = "wake"
    BY Zenon, <2>1 DEF CallJob
  <2>5. call' = [call EXCEPT ![c] = v]
    BY Zenon, <1>3 DEF EnqueuePush, Goto
  <2> HIDE DEF j, v
  <2>6. ~Numbered(c)' /\ \A d \in Threads \ {c} : call'[d] = call[d]
    BY Zenon, <1>1, <2>4, <2>5 DEF Numbered, TypeInv
  <2>7. \A d \in Threads \ {c} : Numbered(d)' <=> Numbered(d)
    BY Zenon, <2>6 DEF Numbered
  <2>8. call[c].sequence < sequence /\ \A k \in queue : k.sequence # call[c].sequence
    BY Zenon, <1>1, <2>1 DEF NumberInv
  <2>9. /\ \A k \in queue' : k.sequence < sequence'
        /\ \A k, l \in queue' : k.sequence = l.sequence => k = l
    BY Zenon, <1>1, <2>1, <2>2, <2>3, <2>8 DEF NumberInv
  <2>10. ASSUME NEW d \in Threads, Numbered(d)'
         PROVE  /\ call'[d].sequence < sequence'
                /\ \A k \in queue' : k.sequence # call'[d].sequence
                /\ \A f \in Threads : Numbered(f)' /\ f # d =>
                     call'[f].sequence # call'[d].sequence
    <3>1. d # c /\ Numbered(d) /\ call'[d] = call[d]
      BY Zenon, <2>6, <2>7, <2>10
    <3>2. /\ call[d].sequence < sequence /\ call[c].sequence # call[d].sequence
          /\ \A k \in queue : k.sequence # call[d].sequence
          /\ \A f \in Threads : Numbered(f) /\ f # d => call[f].sequence # call[d].sequence
      BY Zenon, <1>1, <2>1, <3>1 DEF NumberInv
    <3> QED
      BY Zenon, <2>1, <2>2, <2>3, <2>6, <2>7, <3>1, <3>2
  <2> QED
    BY Zenon, <2>9, <2>10 DEF NumberInv
<1>4. ASSUME NEW c \in Threads, EnqueueReserve(c) \/ EnqueueClosed(c) \/ EnqueueGroupFull(c)
      PROVE  NumberInv'
  <2>1. call[c] \in CallJob /\ Numbered(c) /\ UNCHANGED <<sequence, queue>>
    BY Zenon, <1>1, <1>4, CallShape
       DEF EnqueueReserve, EnqueueClosed, EnqueueGroupFull, At, TypeInv, Numbered
  <2>2. CASE Return(c)
    <3>1. NumbersKept
      BY Zenon, <1>1, <2>2 DEF Return, NoCall, NumbersKept, Numbered, TypeInv
    <3> QED
      BY Zenon, <1>1, <2>1, <3>1, KeptNumbers
  <2>3. CASE Goto(c, "push")
    <3> DEFINE v == [call[c] EXCEPT !.at = "push"]
    <3>1. v.sequence = call[c].sequence
      BY Zenon, <2>1 DEF CallJob
    <3>2. call' = [call EXCEPT ![c] = v]
      BY Zenon, <2>3 DEF Goto
    <3> HIDE DEF v
    <3>3. NumbersKept
      BY Zenon, <1>1, <2>1, <3>1, <3>2 DEF NumbersKept, Numbered, TypeInv
    <3> QED
      BY Zenon, <1>1, <2>1, <3>3, KeptNumbers
  <2> QED
    BY Zenon, <1>4, <2>2, <2>3 DEF EnqueueReserve, EnqueueClosed, EnqueueGroupFull
<1>5. ASSUME NEW w \in Workers, WorkerPop(w) \/ WorkerDispatch(w) \/ WorkerFinish(w)
      PROVE  NumberInv'
  <2>1. UNCHANGED <<call, sequence>> /\ queue' \subseteq queue
    BY Zenon, <1>5 DEF WorkerPop, WorkerDispatch, WorkerFinish
  <2> QED
    BY Zenon, <1>1, <2>1, KeptNumbers DEF NumbersKept, Numbered
<1>6. CASE ~Moving /\ ~\E c \in Threads : EnqueueAdmit(c)
  <2>1. UNCHANGED <<queue, sequence>>
    BY Zenon, <1>1, <1>6, QueueFrame, Monotone DEF Moving
  <2>2. NumbersKept
    BY Zenon, <1>1, <1>6, CalmCalls DEF CallsCalm, NumbersKept, Numbered
  <2> QED
    BY Zenon, <1>1, <2>1, <2>2, KeptNumbers
<1> QED
  BY Zenon, <1>2, <1>3, <1>4, <1>5, <1>6 DEF Moving

-----------------------------------------------------------------------------
(* How the thread that starts and stops gets to the ends of its way.       *)
LEMMA ControlFrame ==
  ASSUME [Next]_vars
  PROVE  /\ control' \in {"idle", "spawn"} =>
              control \in {"idle", "spawn"} /\ ~StartThreads /\ ~StopWakeGroup
         /\ control' = "stopped" => control = "stopped" \/ StopJoin
<1>1. CASE Start \/ StopRequest \/ ControlStep
  BY Zenon, <1>1 DEF Start, StopRequest, ControlStep, StartThreads, StopWakeScheduler,
              StopGroup, StopWakeGroup, StopJoin
<1>2. CASE UNCHANGED control
  BY Zenon, <1>2 DEF StartThreads, StopWakeGroup
<1>3. CASE Tick \/ SchedulerStep
  BY Zenon, <1>2, <1>3 DEF Tick, SchedulerStep, SchedulerPlan, SchedulerAwake, SchedulerRelease
<1>4. ASSUME NEW c \in Callers, NEW t \in Tasks,
             AddTask(c, t) \/ Notify(c, t) \/ Cancel(c, t)
      PROVE  UNCHANGED control
  BY Zenon, <1>4 DEF AddTask, Notify, Cancel
<1>5. ASSUME NEW c \in Threads, CallStep(c) PROVE UNCHANGED control
  BY Zenon, <1>5 DEF CallStep, AddTaskWake, AddTaskRelease, EnqueueAdmit, EnqueueReserve,
       EnqueueClosed, EnqueueGroupFull, EnqueuePush, EnqueueWake, CancelVersion,
       CancelWake
<1>6. ASSUME NEW w \in Workers, WorkerStep(w) PROVE UNCHANGED control
  BY Zenon, <1>6 DEF WorkerStep, WorkerSleep, WorkerExit, WorkerPop, WorkerDispatch,
              WorkerFinish
<1>7. CASE UNCHANGED vars
  BY Zenon, <1>2, <1>7 DEF vars
<1> QED
  BY Zenon, <1>1, <1>2, <1>3, <1>4, <1>5, <1>6, <1>7 DEF Next

(* A worker leaves by WorkerExit, does not come back, and none is at work  *)
(* before Start.                                                           *)
LEMMA WorkerEnds ==
  ASSUME SetFacts, TypeInv, NumberInv, StopInv, [Next]_vars, NEW w \in Workers
  PROVE  /\ worker'[w].at = "exited" => worker[w].at = "exited" \/ WorkerExit(w)
         /\ worker[w].at = "exited" => worker'[w].at = "exited"
         /\ worker[w].at = "unborn" => worker'[w].at = "unborn" \/ StartThreads
<1>1. CASE UNCHANGED worker
  BY Zenon, <1>1
<1>2. CASE StartThreads
  BY Zenon, <1>2 DEF StartThreads, StopInv
<1>3. CASE StopWakeGroup
  BY Zenon, <1>3 DEF StopWakeGroup
<1>4. CASE \E c \in Threads : EnqueueWake(c)
  BY Zenon, <1>4, WokenWorkers DEF EnqueueWake
<1>5. ASSUME NEW v \in Workers, WorkerStep(v)
      PROVE  /\ worker'[w].at = "exited" => worker[w].at = "exited" \/ WorkerExit(w)
             /\ worker[w].at = "exited" => worker'[w].at = "exited"
             /\ worker[w].at = "unborn" => worker'[w].at = "unborn"
  <2>1. worker[v].at \in {"check", "popped", "callback"}
    BY Zenon, <1>5 DEF WorkerStep, WorkerSleep, WorkerExit, WorkerPop, WorkerDispatch,
                WorkerFinish
  <2>2. CASE WorkerSleep(v) \/ WorkerExit(v)
    BY SMTT(60), <2>1, <2>2, WorkerEffect DEF TypeInv
  <2>3. CASE WorkerPop(v)
    BY SMTT(60), <2>1, <2>3, WorkerEffect DEF TypeInv
  <2>4. CASE WorkerDispatch(v)
    BY SMTT(60), <2>1, <2>4, WorkerEffect DEF TypeInv
  <2>5. CASE WorkerFinish(v)
    BY SMTT(60), <2>1, <2>5, WorkerEffect DEF TypeInv
  <2> QED
    BY Zenon, <1>5, <2>2, <2>3, <2>4, <2>5 DEF WorkerStep
<1> QED
  BY Zenon, <1>1, <1>2, <1>3, <1>4, <1>5, WorkerFrame


(* A worker leaves only when the group is stopping and its queue is empty. *)
(* From then on the push is refused, so the queue stays empty.             *)
LEMMA StopStep ==
  ASSUME SetFacts, IInv, [Next]_vars
  PROVE  StopInv'
<1>1. TypeInv /\ NumberInv /\ StopInv
  BY Zenon DEF IInv
<1>2. control' \in {"idle", "spawn"} => \A w \in Workers : worker'[w].at = "unborn"
  BY Zenon, <1>1, ControlFrame, WorkerEnds DEF StopInv
<1>3. ASSUME NEW w \in Workers, worker'[w].at = "exited"
      PROVE  groupStopping' /\ queue' = {}
  <2>1. groupStopping /\ queue = {}
    BY Zenon, <1>1, <1>3, WorkerEnds DEF StopInv, WorkerExit, MayExit
  <2>2. groupStopping'
    BY Zenon, <1>1, <2>1, Monotone
  <2>3. UNCHANGED queue
    BY Zenon, <2>1, QueueFrame DEF EnqueuePush, GroupClosed, WorkerPop
  <2> QED
    BY Zenon, <2>1, <2>2, <2>3
<1>4. ASSUME control' = "stopped", NEW w \in Workers
      PROVE  worker'[w].at = "exited"
  BY Zenon, <1>1, <1>4, ControlFrame, WorkerEnds DEF StopInv, StopJoin
<1> QED
  BY Zenon, <1>2, <1>3, <1>4 DEF StopInv

-----------------------------------------------------------------------------
(* Before Start nothing waits and nothing runs.                            *)
LEMMA InitInv ==
  ASSUME SetFacts, Init
  PROVE  IInv
<1>1. /\ now = 0 /\ sequence = 1 /\ stopping = FALSE /\ groupStopping = FALSE
      /\ queue = {} /\ call = [c \in Threads |-> NoCall]
      /\ worker = [w \in Workers |-> [at |-> "unborn"]]
      /\ control = "idle"
  BY Zenon DEF Init
<1>2. TypeInv
  <2>1. task \in [Tasks -> TaskState]
    BY DEF Init, TaskState
  <2>2. call \in [Threads -> CallState]
    BY Zenon, <1>1, CallStates
  <2>3. worker \in [Workers -> WorkerState]
    BY Zenon, <1>1 DEF WorkerState, WorkerFree
  <2>4. sched \in SchedState
    BY Zenon DEF Init, SchedState
  <2>5. queue \subseteq Job /\ IsFiniteSet(queue)
    BY Zenon, <1>1 DEF SetFacts
  <2>6. now \in Nat /\ now <= MaxTime /\ sequence \in Int
    BY <1>1, BoundsAssumption
  <2>7. stopping \in BOOLEAN /\ groupStopping \in BOOLEAN
    BY Zenon, <1>1
  <2> QED
    BY Zenon, <2>1, <2>2, <2>3, <2>4, <2>5, <2>6, <2>7 DEF TypeInv
<1>3. NumberInv /\ StopInv
  BY Zenon, <1>1 DEF NumberInv, Numbered, NoCall, StopInv
<1>4. Cardinality({}) = 0
  BY Zenon DEF SetFacts
<1>5. ASSUME NEW t \in Tasks PROVE Account(t)
  <2>1. JobsOf(t) = {} /\ Reserving(t) = {} /\ Popped(t) = {} /\ Executing(t) = {}
    BY Zenon, <1>1 DEF JobsOf, Reserving, Popped, Executing, At, NoCall
  <2>2. /\ task[t].queued = 0 /\ task[t].releases = 0 /\ task[t].started = 0
        /\ task[t].drops = 0 /\ task[t].overflows = 0 /\ task[t].turnedAway = 0
        /\ task[t].finished = 0
    BY Zenon DEF Init
  <2> QED
    BY SMTT(60), <1>4, <2>1, <2>2 DEF Account, Waiting, Balanced
<1>6. CapacityInv
  BY <1>1, <1>4, CapacityAssumption DEF CapacityInv, Init
<1> QED
  BY Zenon, <1>2, <1>3, <1>5, <1>6 DEF IInv

-----------------------------------------------------------------------------
INSTANCE FiniteSetTheorems

(* The facts about finite sets hold.                                       *)
LEMMA SetFactsHold == SetFacts
<1>1. IsFiniteSet({}) /\ Cardinality({}) = 0
  BY Zenon, FS_EmptySet
<1>2. \A S : IsFiniteSet(S) =>
        Cardinality(S) \in Nat /\ (Cardinality(S) = 0 => S = {})
  BY Zenon, FS_CardinalityType, FS_EmptySet
<1>3. \A S : \A T \in SUBSET S : IsFiniteSet(S) => IsFiniteSet(T)
  BY Zenon, FS_Subset
<1>4. \A S, x : IsFiniteSet(S) =>
        /\ IsFiniteSet(S \cup {x}) /\ IsFiniteSet(S \ {x})
        /\ x \notin S => Cardinality(S \cup {x}) = Cardinality(S) + 1
        /\ x \in S => Cardinality(S \ {x}) = Cardinality(S) - 1
  BY Zenon, FS_AddElement, FS_RemoveElement
<1>5. \A S : \A C \in SUBSET (SUBSET S) :
        IsFiniteSet(S) /\ C # {} =>
          \E X \in C : \A Y \in C : Y \subseteq X => Y = X
  <2> TAKE S
  <2> TAKE C \in SUBSET (SUBSET S)
  <2> HAVE IsFiniteSet(S) /\ C # {}
  <2>1. IsWellFoundedOn(StrictSubsetOrdering(S), FiniteSubsetsOf(S))
    BY Zenon, FS_StrictSubsetOrderingWellFounded
  <2>2. C \subseteq FiniteSubsetsOf(S)
    BY Zenon, <1>3 DEF FiniteSubsetsOf
  <2>3. PICK X \in C : \A Y \in C : <<Y, X>> \notin StrictSubsetOrdering(S)
    BY Zenon, <2>1, <2>2, WFMin
  <2> QED
    BY Zenon, <2>3 DEF StrictSubsetOrdering
<1> QED
  BY Zenon, <1>1, <1>2, <1>3, <1>4, <1>5 DEF SetFacts

(* The inductive invariant holds throughout, for any number of tasks,      *)
(* callers and workers.                                                    *)
THEOREM Invariance == Spec => []IInv
<1>1. IInv /\ [Next]_vars => IInv'
  BY Zenon, SetFactsHold, BooksStep, TypeStep, NumberStep, StopStep DEF IInv, Books
<1> QED
  BY <1>1, SetFactsHold, InitInv, PTL DEF Spec

(* No release is lost or counted twice between Enqueue's three sections,   *)
(* the group's queue and the workers, and both queues keep their           *)
(* capacities.                                                             *)
THEOREM ReleasesAccountedHolds == Spec => []ReleasesAccounted
<1>1. ASSUME IInv PROVE ReleasesAccounted
  <2>1. ASSUME NEW t \in Tasks
        PROVE  /\ task[t].queued \in 0 .. TaskCapacity
               /\ task[t].finished \in 0 .. task[t].started
    <3>1. task[t] \in TaskState /\ Cardinality(Executing(t)) \in Nat
      BY Zenon, <1>1, SetFactsHold, Counts DEF IInv, TypeInv
    <3>2. task[t].queued <= TaskCapacity
      BY Zenon, <1>1 DEF IInv, CapacityInv
    <3>3. task[t].started - task[t].finished = Cardinality(Executing(t))
      BY Zenon, <1>1 DEF IInv, Account, Balanced
    <3>4. /\ task[t].queued \in Nat /\ task[t].finished \in Nat
          /\ task[t].started \in Nat
      BY Zenon, <3>1 DEF TaskState
    <3> QED
      BY SMTT(60), <3>1, <3>2, <3>3, <3>4, CapacityAssumption
  <2>2. TypeOK
    BY SMTT(60), <1>1, <2>1, BoundsAssumption DEF TypeOK, IInv, TypeInv, CapacityInv
  <2> QED
    BY Zenon, <1>1, <2>2 DEF ReleasesAccounted, IInv, Account, Balanced, Waiting
<1> QED
  BY <1>1, Invariance, PTL

(* When Stop has returned, no job waits in the group and no callback runs, *)
(* whatever calls of Enqueue it overtook.                                  *)
THEOREM StopQuiescesHolds == Spec => []StopQuiesces
<1>1. ASSUME IInv PROVE StopQuiesces
  BY Zenon, <1>1, ThreadsAssumption DEF IInv, StopInv, StopQuiesces, Popped, Executing
<1> QED
  BY <1>1, Invariance, PTL


(* Once Cancel has set the flag, a worker that has popped a job of the     *)
(* task reads it under the task's mutex before it starts the callback.     *)
THEOREM NoStartAfterCancelHolds == Spec => NoStartAfterCancel
<1> DEFINE Kept == \A t \in Tasks :
             task[t].cancelled => task'[t].started = task[t].started
<1>1. ASSUME IInv, [Next]_vars PROVE Kept
  <2>0. TypeInv /\ NumberInv /\ task \in [Tasks -> TaskState]
    BY Zenon, <1>1 DEF IInv, TypeInv
  <2>1. CASE \/ UNCHANGED task \/ Start \/ SchedulerPlan
             \/ \E c \in Callers, t \in Tasks : AddTask(c, t) \/ Cancel(c, t)
    BY Zenon, <2>0, <2>1, QuietTasks DEF TasksQuiet, SameBooks
  <2>2. ASSUME NEW c \in Threads,
               EnqueueReserve(c) \/ EnqueueClosed(c) \/ EnqueueGroupFull(c)
        PROVE  Kept
    <3>1. call[c] \in CallJob
      BY Zenon, <1>1, <2>2, CallShape
         DEF EnqueueReserve, EnqueueClosed, EnqueueGroupFull, At, IInv, TypeInv
    <3>t. PICK t \in Tasks : t = call[c].task
      BY Zenon, <3>1 DEF CallJob
    <3>2. task[t] \in TaskState
      BY Zenon, <2>0
    <3>3. CASE EnqueueReserve(c)
      <4>1. \/ UNCHANGED task
            \/ task' = Overflowed(Bump(t, "releases"), t)
            \/ task' = [task EXCEPT ![t].releases = @ + 1, ![t].queued = @ + 1]
        BY Zenon, <3>3, <3>t DEF EnqueueReserve
      <4>2. CASE task' = Overflowed(Bump(t, "releases"), t)
        BY Zenon, <2>0, <3>2, <4>2 DEF Overflowed, Bump, TaskState
      <4>3. CASE task' = [task EXCEPT ![t].releases = @ + 1, ![t].queued = @ + 1]
        BY Zenon, <2>0, <3>2, <4>3 DEF TaskState
      <4> QED
        BY Zenon, <4>1, <4>2, <4>3
    <3>4. CASE EnqueueClosed(c)
      BY Zenon, <2>0, <3>t, <3>2, <3>4 DEF EnqueueClosed, Unreserve, TaskState
    <3>5. CASE EnqueueGroupFull(c)
      BY Zenon, <2>0, <3>t, <3>2, <3>5 DEF EnqueueGroupFull, Overflowed, Unreserve, TaskState
    <3> QED
      BY Zenon, <2>2, <3>3, <3>4, <3>5
  <2>3. ASSUME NEW w \in Workers, WorkerDispatch(w) PROVE Kept
    <3>1. worker[w] \in WorkerPopped
      BY Zenon, <2>0, <2>3, SetFactsHold, WorkerEffect
    <3>t. PICK t \in Tasks : t = worker[w].job.task
      BY Zenon, <3>1 DEF WorkerPopped, Job
    <3>2. task[t] \in TaskState
      BY Zenon, <2>0
    <3>3. task[t].cancelled => Outcome(w) = "turnedAway"
      BY Zenon, <3>t DEF Outcome, MayStart
    <3> QED
      BY Zenon, <2>0, <2>3, <3>t, <3>2, <3>3 DEF WorkerDispatch, Counted, Bump, TaskState
  <2>4. ASSUME NEW w \in Workers, WorkerFinish(w) PROVE Kept
    <3>1. worker[w] \in WorkerBusy
      BY Zenon, <2>0, <2>4, SetFactsHold, WorkerEffect
    <3>t. PICK t \in Tasks : t = worker[w].job.task
      BY Zenon, <3>1 DEF WorkerBusy, Job
    <3>2. task[t] \in TaskState
      BY Zenon, <2>0
    <3> QED
      BY Zenon, <2>0, <2>4, <3>t, <3>2 DEF WorkerFinish, Bump, TaskState
  <2> QED
    BY Zenon, <1>1, <2>1, <2>2, <2>3, <2>4, TaskFrame
<1>2. IInv /\ [Next]_vars => [Kept]_vars
  BY Zenon, <1>1
<1> QED
  BY <1>2, Invariance, PTL DEF Spec, NoStartAfterCancel
=============================================================================
