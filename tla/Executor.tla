------------------------------ MODULE Executor ------------------------------
(***************************************************************************)
(* scheduler/src/executor.cpp, class Executor with one callback group:     *)
(* application threads call AddTask, Notify and Cancel, the scheduler      *)
(* thread releases periodic tasks, worker threads take jobs out of the     *)
(* group's priority queue, and one thread calls Start and later Stop.      *)
(*                                                                         *)
(* One action is one critical section.  Enqueue has three of them, each    *)
(* under another mutex (executor, task, group), with nothing held between: *)
(* its callers stand at "admit", "reserve", "push" and "wake".  Groups     *)
(* share only the executor's mutex, so one group stands for any of them.   *)
(* Deadline statistics, timing samples and the degraded flag are left out; *)
(* the Drop policy, which decides whether a job runs, is kept.             *)
(***************************************************************************)
EXTENDS Integers, FiniteSets

CONSTANTS
  Tasks,            \* the tasks that may be added
  Callers,          \* application threads
  Scheduler,        \* the scheduler thread, as a caller of Enqueue
  Workers,          \* the group's worker threads
  Kind,             \* TaskConfig::kind of each task
  Priority,         \* TaskConfig::priority
  Period,           \* TaskConfig::period
  Deadline,         \* TaskConfig::deadline, 0 for none
  DropTasks,        \* tasks whose deadline_policy is Drop
  TaskCapacity,     \* TaskConfig::queue_capacity
  GroupCapacity,    \* CallbackGroupConfig::queue_capacity
  MaxCatchUp,       \* maximum_catch_up
  MaxJobs,          \* bound: calls of Enqueue in a behaviour
  MaxTime           \* bound: the clock

Threads == Callers \cup {Scheduler}
Periodic == {t \in Tasks : Kind[t] = "Periodic"}

ASSUME CapacityAssumption ==
  /\ TaskCapacity \in Nat \ {0}
  /\ GroupCapacity \in Nat \ {0}
  /\ MaxCatchUp \in Nat \ {0}
ASSUME TaskAssumption ==
  /\ Kind \in [Tasks -> {"Periodic", "Event", "Async"}]
  /\ Priority \in [Tasks -> Int]
  /\ Deadline \in [Tasks -> Nat]
  /\ Period \in [Tasks -> Nat]
  /\ \A t \in Tasks : Kind[t] = "Periodic" => Period[t] > 0
  /\ Scheduler \notin Callers
ASSUME ThreadsAssumption ==      \* CreateCallbackGroup wants worker_count > 0
  IsFiniteSet(Callers) /\ IsFiniteSet(Workers) /\ Workers # {}
ASSUME BoundsAssumption == MaxJobs \in Nat /\ MaxTime \in Nat

VARIABLES
  now,            \* the clock
  running,        \* impl_->running
  stopping,       \* impl_->stopping
  groupStopping,  \* CallbackGroup::stopping
  sequence,       \* next_job_sequence
  changed,        \* schedule_version # the scheduler's observed_version
  task,           \* TaskState of each task, with the counters properties read
  queue,          \* CallbackGroup::queue, a set of jobs
  call,           \* where each thread is in AddTask, Notify, Enqueue, Cancel
  sched,          \* the scheduler thread: where it is, its local due, and the
                  \* time, if any, at which its wait ends by itself
  worker,         \* where each worker is, its local job and group_stopping
  control         \* the thread that calls Start and Stop

flagVars == <<running, stopping, groupStopping>>
vars == <<now, flagVars, sequence, changed, task, queue, call, sched, worker,
          control>>

-----------------------------------------------------------------------------
(* Faulty variants of the definitions below.  No action uses them: each is *)
(* a plausible slip in the code that breaks one of the properties.         *)
UnreserveForgotten(t) == task
WokenOneNobody == {worker}
SchedulerNotifiedNever == sched
MayStartCancelled(w) == ~worker[w].stopping
PushWhileStopping == FALSE
VersionKept == changed

-----------------------------------------------------------------------------
NoCall == [at |-> "idle"]
At(c, label) == call[c].at = label
Goto(c, label) == call' = [call EXCEPT ![c].at = label]
Return(c) == call' = [call EXCEPT ![c] = NoCall]
Bump(t, counter) == [task EXCEPT ![t][counter] = @ + 1]

(* Job, and HigherPriorityFirst: the job that top() returns is the one no  *)
(* other job goes before.                                                  *)
Before(j, k) ==
  \/ Priority[j.task] > Priority[k.task]
  \/ Priority[j.task] = Priority[k.task] /\ j.release < k.release
  \/ Priority[j.task] = Priority[k.task] /\ j.release = k.release
     /\ j.sequence < k.sequence
Top == CHOOSE j \in queue : \A k \in queue \ {j} : Before(j, k)

TaskFull(t) == task[t].queued >= TaskCapacity
GroupFull == Cardinality(queue) >= GroupCapacity
GroupClosed == groupStopping

(* --task->queued on the two ways out of Enqueue's third section.          *)
Unreserve(t) == [task EXCEPT ![t].queued = @ - 1]
Overflowed(tasks, t) == [tasks EXCEPT ![t].overflows = @ + 1]

(* notify_one wakes one sleeping worker, if there is one.                  *)
WokenOne ==
  LET asleep == {w \in Workers : worker[w].at = "asleep"} IN
  IF asleep = {} THEN {worker}
  ELSE {[worker EXCEPT ![w].at = "check"] : w \in asleep}

(* scheduler_condition.notify_all, and ++schedule_version before it.       *)
SchedulerNotified ==
  IF sched.at = "asleep" THEN [sched EXCEPT !.at = "awake"] ELSE sched
VersionBumped == TRUE

(* How many of t's releases have come, and how many of them are released   *)
(* now: the rest is skipped (periodic_releases_skipped).                   *)
ReleasesCome(t) ==
  IF task[t].next > now THEN 0 ELSE (now - task[t].next) \div Period[t] + 1
CaughtUp(t) ==
  IF ReleasesCome(t) > MaxCatchUp THEN MaxCatchUp ELSE ReleasesCome(t)

Scheduled == {t \in Periodic : task[t].added /\ ~task[t].cancelled}
IsDue(t) == task[t].next <= now
Earliest == {task[t].next : t \in {u \in Scheduled :
               \A v \in Scheduled : task[u].next <= task[v].next}}

Init ==
  /\ now = 0
  /\ running = FALSE /\ stopping = FALSE /\ groupStopping = FALSE
  /\ sequence = 1
  /\ changed = FALSE
  /\ task = [t \in Tasks |->
               [added |-> FALSE, cancelled |-> FALSE, queued |-> 0, next |-> 0,
                releases |-> 0, overflows |-> 0, started |-> 0, finished |-> 0,
                drops |-> 0, turnedAway |-> 0]]
  /\ queue = {}
  /\ call = [c \in Threads |-> NoCall]
  /\ sched = [at |-> "unborn", due |-> {}, wake |-> {}]
  /\ worker = [w \in Workers |-> [at |-> "unborn"]]
  /\ control = "idle"

Tick ==
  /\ now < MaxTime
  /\ now' = now + 1
  /\ UNCHANGED <<flagVars, sequence, changed, task, queue, call, sched, worker,
                 control>>

-----------------------------------------------------------------------------
(* Start: the flag and the first release times under the mutex, then the   *)
(* threads.                                                                *)
Start ==
  /\ control = "idle"
  /\ ~running /\ ~stopping
  /\ running' = TRUE
  /\ task' = [t \in Tasks |->
                IF t \in Periodic /\ task[t].added
                THEN [task[t] EXCEPT !.next = now + Period[t]]
                ELSE task[t]]
  /\ control' = "spawn"
  /\ UNCHANGED <<now, stopping, groupStopping, sequence, changed, queue, call,
                 sched, worker>>

StartThreads ==
  /\ control = "spawn"
  /\ sched' = [sched EXCEPT !.at = "plan"]
  /\ worker' = [w \in Workers |-> [at |-> "check"]]
  /\ control' = "started"
  /\ UNCHANGED <<now, flagVars, sequence, changed, task, queue, call>>

(* AddTask: registers under the mutex, then wakes the scheduler; an Async  *)
(* task added to a running executor is released once.                      *)
AddTask(c, t) ==
  /\ At(c, "idle")
  /\ ~task[t].added
  /\ ~stopping
  /\ task' = [task EXCEPT ![t].added = TRUE,
                          ![t].next = IF running /\ t \in Periodic
                                      THEN now + Period[t] ELSE @]
  /\ changed' = VersionBumped
  /\ call' = [call EXCEPT ![c] = [at |-> "added", task |-> t]]
  /\ UNCHANGED <<now, flagVars, sequence, queue, sched, worker, control>>

AddTaskWake(c) ==
  /\ At(c, "added")
  /\ sched' = SchedulerNotified
  /\ IF Kind[call[c].task] = "Async"
     THEN Goto(c, "async")
     ELSE Return(c)
  /\ UNCHANGED <<now, flagVars, sequence, changed, task, queue, worker, control>>

AddTaskRelease(c) ==
  /\ At(c, "async")
  /\ IF running
     THEN call' = [call EXCEPT ![c] = [at |-> "admit", task |-> call[c].task,
                                       release |-> now]]
     ELSE Return(c)
  /\ UNCHANGED <<now, flagVars, sequence, changed, task, queue, sched, worker,
                 control>>

(* The calls of Enqueue that still have to take a number.                  *)
Numberless == {c \in Threads : call[c].at \in {"added", "async", "admit"}}

Notify(c, t) ==
  /\ At(c, "idle")
  /\ task[t].added
  /\ t \notin Periodic
  /\ sequence + Cardinality(Numberless) <= MaxJobs
  /\ call' = [call EXCEPT ![c] = [at |-> "admit", task |-> t, release |-> now]]
  /\ UNCHANGED <<now, flagVars, sequence, changed, task, queue, sched, worker,
                 control>>

-----------------------------------------------------------------------------
(* Enqueue, first section: the executor's mutex.                           *)
EnqueueAdmit(c) ==
  /\ At(c, "admit")
  /\ IF ~running \/ stopping
     THEN Return(c) /\ UNCHANGED sequence
     ELSE /\ sequence' = sequence + 1
          /\ call' = [call EXCEPT ![c] = [at |-> "reserve", task |-> @.task,
                                          release |-> @.release,
                                          sequence |-> sequence]]
  /\ UNCHANGED <<now, flagVars, changed, task, queue, sched, worker, control>>

(* Second section: the task's mutex.                                       *)
EnqueueReserve(c) ==
  /\ At(c, "reserve")
  /\ LET t == call[c].task IN
     \/ /\ task[t].cancelled
        /\ Return(c)
        /\ UNCHANGED task
     \/ /\ ~task[t].cancelled
        /\ TaskFull(t)
        /\ task' = Overflowed(Bump(t, "releases"), t)
        /\ Return(c)
     \/ /\ ~task[t].cancelled
        /\ ~TaskFull(t)
        /\ task' = [task EXCEPT ![t].releases = @ + 1, ![t].queued = @ + 1]
        /\ Goto(c, "push")
  /\ UNCHANGED <<now, flagVars, sequence, changed, queue, sched, worker,
                 control>>

(* Third section: the group's mutex, with the task's inside it on the two  *)
(* ways out.  turnedAway is history: the code counts this exit nowhere.    *)
EnqueueClosed(c) ==
  /\ At(c, "push")
  /\ GroupClosed
  /\ LET t == call[c].task IN
     task' = [Unreserve(t) EXCEPT ![t].turnedAway = @ + 1]
  /\ Return(c)
  /\ UNCHANGED <<now, flagVars, sequence, changed, queue, sched, worker,
                 control>>

EnqueueGroupFull(c) ==
  /\ At(c, "push")
  /\ ~GroupClosed
  /\ GroupFull
  /\ LET t == call[c].task IN
     task' = Overflowed(Unreserve(t), t)
  /\ Return(c)
  /\ UNCHANGED <<now, flagVars, sequence, changed, queue, sched, worker,
                 control>>

EnqueuePush(c) ==
  /\ At(c, "push")
  /\ ~GroupClosed
  /\ ~GroupFull
  /\ queue' = queue \cup {[task |-> call[c].task, release |-> call[c].release,
                           sequence |-> call[c].sequence]}
  /\ Goto(c, "wake")
  /\ UNCHANGED <<now, flagVars, sequence, changed, task, sched, worker, control>>

EnqueueWake(c) ==
  /\ At(c, "wake")
  /\ worker' \in WokenOne
  /\ Return(c)
  /\ UNCHANGED <<now, flagVars, sequence, changed, task, queue, sched, control>>

-----------------------------------------------------------------------------
(* Cancel: the task's mutex, the executor's mutex, the condition variable. *)
Cancel(c, t) ==
  /\ At(c, "idle")
  /\ task[t].added
  /\ ~task[t].cancelled
  /\ task' = [task EXCEPT ![t].cancelled = TRUE]
  /\ call' = [call EXCEPT ![c] = [at |-> "cancelled", task |-> t]]
  /\ UNCHANGED <<now, flagVars, sequence, changed, queue, sched, worker, control>>

CancelVersion(c) ==
  /\ At(c, "cancelled")
  /\ changed' = VersionBumped
  /\ Goto(c, "cancelWake")
  /\ UNCHANGED <<now, flagVars, sequence, task, queue, sched, worker, control>>

CancelWake(c) ==
  /\ At(c, "cancelWake")
  /\ sched' = SchedulerNotified
  /\ Return(c)
  /\ UNCHANGED <<now, flagVars, sequence, changed, task, queue, worker, control>>

-----------------------------------------------------------------------------
(* SchedulerLoop.  Planning and falling asleep are one section: the wait   *)
(* releases the mutex atomically.                                          *)
SchedulerPlan ==
  /\ sched.at = "plan"
  /\ \/ /\ stopping
        /\ sched' = [sched EXCEPT !.at = "exited"]
        /\ UNCHANGED <<task, changed>>
     \/ /\ ~stopping
        /\ ~\E t \in Scheduled : IsDue(t)
        /\ sched' = [sched EXCEPT !.at = "asleep", !.wake = Earliest]
        /\ changed' = FALSE
        /\ UNCHANGED task
     \/ /\ ~stopping
        /\ \E t \in Scheduled : IsDue(t)
        /\ sched' = [at |-> "release", wake |-> {},
                     due |-> UNION {{[task |-> t,
                                      release |-> task[t].next + i * Period[t]] :
                                     i \in 0 .. CaughtUp(t) - 1} :
                                    t \in Scheduled}]
        /\ task' = [t \in Tasks |->
                      IF t \in Scheduled
                      THEN [task[t] EXCEPT
                              !.next = @ + ReleasesCome(t) * Period[t]]
                      ELSE task[t]]
        /\ UNCHANGED changed
  /\ UNCHANGED <<now, flagVars, sequence, queue, call, worker, control>>

(* A notified scheduler looks at the predicate again; a sleeping one also  *)
(* wakes when the release time comes that was the earliest as it slept.    *)
SchedulerAwake ==
  /\ \/ /\ sched.at = "awake"
        /\ sched' = IF stopping \/ changed
                    THEN [sched EXCEPT !.at = "plan", !.wake = {}]
                    ELSE [sched EXCEPT !.at = "asleep"]
     \/ /\ sched.at = "asleep"
        /\ \E at \in sched.wake : at <= now
        /\ sched' = [sched EXCEPT !.at = "plan", !.wake = {}]
  /\ UNCHANGED <<now, flagVars, sequence, changed, task, queue, call, worker,
                 control>>

(* The loop over due: one Enqueue after another, a task's releases in      *)
(* order, their results ignored.                                           *)
SchedulerRelease ==
  /\ sched.at = "release"
  /\ At(Scheduler, "idle")
  /\ \/ /\ sched.due = {}
        /\ sched' = [sched EXCEPT !.at = "plan"]
        /\ UNCHANGED call
     \/ \E d \in sched.due :
          /\ \A e \in sched.due : e.task = d.task => d.release <= e.release
          /\ sched' = [sched EXCEPT !.due = @ \ {d}]
          /\ call' = [call EXCEPT ![Scheduler] =
                        [at |-> "admit", task |-> d.task, release |-> d.release]]
  /\ UNCHANGED <<now, flagVars, sequence, changed, task, queue, worker, control>>

-----------------------------------------------------------------------------
(* WorkerLoop.                                                             *)
MayExit == groupStopping /\ queue = {}
MayStart(w) == ~task[worker[w].job.task].cancelled /\ ~worker[w].stopping

Expired(j) == Deadline[j.task] > 0 /\ now > j.release + Deadline[j.task]

WorkerSleep(w) ==
  /\ worker[w].at = "check"
  /\ ~groupStopping /\ queue = {}
  /\ worker' = [worker EXCEPT ![w].at = "asleep"]
  /\ UNCHANGED <<now, flagVars, sequence, changed, task, queue, call, sched,
                 control>>

WorkerExit(w) ==
  /\ worker[w].at = "check"
  /\ MayExit
  /\ worker' = [worker EXCEPT ![w].at = "exited"]
  /\ UNCHANGED <<now, flagVars, sequence, changed, task, queue, call, sched,
                 control>>

WorkerPop(w) ==
  /\ worker[w].at = "check"
  /\ queue # {}
  /\ worker' = [worker EXCEPT ![w] = [at |-> "popped", job |-> Top,
                                      stopping |-> groupStopping]]
  /\ queue' = queue \ {Top}
  /\ UNCHANGED <<now, flagVars, sequence, changed, task, call, sched, control>>

(* What became of a popped job: discarded, dropped for its deadline, or    *)
(* its callback is started.                                                *)
Outcome(w) ==
  IF ~MayStart(w) THEN "turnedAway"
  ELSE IF Expired(worker[w].job) /\ worker[w].job.task \in DropTasks THEN "drops"
  ELSE "started"
Counted(t, outcome) == Bump(t, outcome)

WorkerDispatch(w) ==
  /\ worker[w].at = "popped"
  /\ LET t == worker[w].job.task IN
     /\ task' = [Counted(t, Outcome(w)) EXCEPT
                   ![t].queued = IF @ > 0 THEN @ - 1 ELSE @]
     /\ worker' = [worker EXCEPT ![w] =
                     IF Outcome(w) = "started"
                     THEN [at |-> "callback", job |-> @.job]
                     ELSE [at |-> "check"]]
  /\ UNCHANGED <<now, flagVars, sequence, changed, queue, call, sched, control>>

WorkerFinish(w) ==
  /\ worker[w].at = "callback"
  /\ task' = Bump(worker[w].job.task, "finished")
  /\ worker' = [worker EXCEPT ![w] = [at |-> "check"]]
  /\ UNCHANGED <<now, flagVars, sequence, changed, queue, call, sched, control>>

-----------------------------------------------------------------------------
(* Stop: flags, scheduler wake-up, group flag, worker wake-up, joins.      *)
StopRequest ==
  /\ control = "started"
  /\ running' = FALSE
  /\ stopping' = TRUE
  /\ changed' = VersionBumped
  /\ control' = "wakeScheduler"
  /\ UNCHANGED <<now, groupStopping, sequence, task, queue, call, sched, worker>>

StopWakeScheduler ==
  /\ control = "wakeScheduler"
  /\ sched' = SchedulerNotified
  /\ control' = "stopGroup"
  /\ UNCHANGED <<now, flagVars, sequence, changed, task, queue, call, worker>>

StopGroup ==
  /\ control = "stopGroup"
  /\ groupStopping' = TRUE
  /\ control' = "wakeGroup"
  /\ UNCHANGED <<now, running, stopping, sequence, changed, task, queue, call,
                 sched, worker>>

StopWakeGroup ==
  /\ control = "wakeGroup"
  /\ worker' = [w \in Workers |-> IF worker[w].at = "asleep"
                                  THEN [at |-> "check"] ELSE worker[w]]
  /\ control' = "join"
  /\ UNCHANGED <<now, flagVars, sequence, changed, task, queue, call, sched>>

StopJoin ==
  /\ control = "join"
  /\ sched.at = "exited"
  /\ \A w \in Workers : worker[w].at = "exited"
  /\ control' = "stopped"
  /\ UNCHANGED <<now, flagVars, sequence, changed, task, queue, call, sched,
                 worker>>

-----------------------------------------------------------------------------
CallStep(c) ==
  \/ AddTaskWake(c) \/ AddTaskRelease(c)
  \/ EnqueueAdmit(c) \/ EnqueueReserve(c)
  \/ EnqueueClosed(c) \/ EnqueueGroupFull(c) \/ EnqueuePush(c) \/ EnqueueWake(c)
  \/ CancelVersion(c) \/ CancelWake(c)
SchedulerStep == SchedulerPlan \/ SchedulerAwake \/ SchedulerRelease
WorkerStep(w) ==
  \/ WorkerSleep(w) \/ WorkerExit(w) \/ WorkerPop(w)
  \/ WorkerDispatch(w) \/ WorkerFinish(w)
ControlStep ==
  StartThreads \/ StopWakeScheduler \/ StopGroup \/ StopWakeGroup \/ StopJoin

Next ==
  \/ Tick
  \/ Start \/ StopRequest \/ ControlStep
  \/ \E c \in Callers, t \in Tasks : AddTask(c, t) \/ Notify(c, t) \/ Cancel(c, t)
  \/ \E c \in Threads : CallStep(c)
  \/ SchedulerStep
  \/ \E w \in Workers : WorkerStep(w)

Spec == Init /\ [][Next]_vars

(* Every thread that can run does, and callbacks return.  Nobody is        *)
(* assumed to call anything, and the clock may stand still.                *)
FairSpec ==
  /\ Spec
  /\ WF_vars(ControlStep)
  /\ WF_vars(SchedulerStep)
  /\ \A c \in Threads : WF_vars(CallStep(c))
  /\ \A w \in Workers : WF_vars(WorkerStep(w))

-----------------------------------------------------------------------------
JobsOf(t) == {j \in queue : j.task = t}
Reserving(t) == {c \in Threads : At(c, "push") /\ call[c].task = t}
Popped(t) == {w \in Workers : worker[w].at = "popped" /\ worker[w].job.task = t}
Executing(t) ==
  {w \in Workers : worker[w].at = "callback" /\ worker[w].job.task = t}

(* The queues keep their capacities: at most TaskConfig::queue_capacity    *)
(* releases of a task wait, and at most CallbackGroupConfig::queue_capacity*)
(* jobs of a group, although the two are tested in different sections.     *)
TypeOK ==
  /\ now \in 0 .. MaxTime
  /\ \A t \in Tasks : task[t].queued \in 0 .. TaskCapacity
  /\ \A t \in Tasks : task[t].finished \in 0 .. task[t].started
  /\ Cardinality(queue) <= GroupCapacity

(* No release is lost or run twice: each ends as a started callback, a     *)
(* deadline drop, a queue overflow or a job turned away by Cancel or Stop, *)
(* and the callbacks started but not finished are the ones executing.      *)
(* TaskState::queued, which three critical sections of two mutexes change, *)
(* counts exactly the releases that wait: jobs in the group's queue,       *)
(* Enqueue calls between their second and third section, and jobs a worker *)
(* has popped but not dispatched.  A leaked unit would make Notify answer  *)
(* QueueFull for ever.  The queues keep their capacities (TypeOK).         *)
ReleasesAccounted ==
  /\ TypeOK
  /\ \A t \in Tasks :
       /\ task[t].queued = Cardinality(JobsOf(t)) + Cardinality(Reserving(t))
                           + Cardinality(Popped(t))
       /\ task[t].releases = task[t].queued + task[t].started + task[t].drops
                             + task[t].overflows + task[t].turnedAway
       /\ task[t].started - task[t].finished = Cardinality(Executing(t))

(* When Stop has returned, no job waits and no callback runs, whatever     *)
(* Enqueue calls it overtook (README: Stop joins all workers).             *)
StopQuiesces ==
  control = "stopped" =>
    /\ queue = {}
    /\ \A t \in Tasks : Popped(t) = {} /\ Executing(t) = {}

(* After Cancel has set the flag, no callback of that task starts, even    *)
(* for jobs that were queued or popped before.                             *)
NoStartAfterCancel ==
  [][\A t \in Tasks : task[t].cancelled => task'[t].started = task[t].started]_vars

(* A waiting release does not wait for ever: some worker takes it.         *)
JobsAreTaken == \A t \in Tasks : JobsOf(t) # {} ~> JobsOf(t) = {}

(* A periodic release that is due is released by the scheduler thread, at  *)
(* whatever moment the task was added, unless it is cancelled or the       *)
(* executor stops.                                                         *)
PeriodicIsReleased ==
  \A t \in Periodic :
    (sched.at # "unborn" /\ t \in Scheduled /\ IsDue(t))
      ~> (~IsDue(t) \/ task[t].cancelled \/ stopping)

(* Stop returns once the callbacks do: none of the threads it joins stays  *)
(* asleep.                                                                 *)
StopReturns == (control = "wakeScheduler") ~> (control = "stopped")
=============================================================================
