----------------------------- MODULE EventTask -----------------------------
(***************************************************************************)
(* How a Subscriber or a Service of runtime/src/node.cpp sees the Executor *)
(* (scheduler/src/executor.cpp): one Event task with queue_capacity 1, in  *)
(* a callback group whose bounded queue it shares with other tasks.  The   *)
(* endpoint modules extend this one.                                       *)
(*                                                                         *)
(* Notify is the second and third critical section of Executor::Enqueue    *)
(* ("reserve" and "push" below); module Executor has the whole of it.      *)
(* What the priorities decide there is any choice here, and the executor   *)
(* is not stopped.                                                         *)
(***************************************************************************)
EXTENDS Integers, FiniteSets

CONSTANTS
  Workers,          \* the group's worker threads
  GroupCapacity,    \* CallbackGroupConfig::queue_capacity
  MaxOthers         \* how many jobs of other tasks may wait at a time

ASSUME GroupAssumption == GroupCapacity \in Nat \ {0} /\ MaxOthers \in Nat

VARIABLES
  cancelled,   \* TaskState::cancelled
  queued,      \* TaskState::queued
  jobs,        \* jobs of this task in the group's queue
  others,      \* jobs of other tasks in the group's queue
  worker,      \* what each worker does
  refused      \* history: the last job of this task found the queue full

enqueueVars == <<cancelled, queued, jobs, others, refused>>
taskVars == <<enqueueVars, worker>>

-----------------------------------------------------------------------------
GroupHasRoom == jobs + others < GroupCapacity
TaskAccepts == ~cancelled /\ queued < 1

TaskInit ==
  /\ cancelled = FALSE
  /\ queued = 0
  /\ jobs = 0
  /\ others = 0
  /\ worker = [w \in Workers |-> "idle"]
  /\ refused = FALSE

(* The second and the third section of Enqueue.                            *)
EnqueueReserve ==
  /\ queued' = IF TaskAccepts THEN queued + 1 ELSE queued
  /\ UNCHANGED <<cancelled, jobs, others, refused>>

EnqueuePush ==
  /\ jobs' = IF GroupHasRoom THEN jobs + 1 ELSE jobs
  /\ queued' = IF GroupHasRoom THEN queued ELSE queued - 1
  /\ refused' = ~GroupHasRoom
  /\ UNCHANGED <<cancelled, others>>

(* Another task of the group is notified; its job runs to its end.         *)
OtherNotify ==
  /\ others < MaxOthers
  /\ GroupHasRoom
  /\ others' = others + 1
  /\ UNCHANGED <<cancelled, queued, jobs, worker, refused>>

OtherTaken(w) ==
  /\ worker[w] = "idle"
  /\ others > 0
  /\ others' = others - 1
  /\ worker' = [worker EXCEPT ![w] = "other"]
  /\ UNCHANGED <<cancelled, queued, jobs, refused>>

OtherFinished(w) ==
  /\ worker[w] = "other"
  /\ worker' = [worker EXCEPT ![w] = "idle"]
  /\ UNCHANGED enqueueVars

(* WorkerLoop with a job of this task: pop it, then dispatch it under the  *)
(* task's mutex; a cancelled task's callback is not called.                *)
JobTaken(w) ==
  /\ worker[w] = "idle"
  /\ jobs > 0
  /\ jobs' = jobs - 1
  /\ worker' = [worker EXCEPT ![w] = "popped"]
  /\ UNCHANGED <<cancelled, queued, others, refused>>

JobDispatched(w) ==
  /\ worker[w] = "popped"
  /\ queued' = queued - 1
  /\ worker' = [worker EXCEPT ![w] = IF cancelled THEN "idle" ELSE "process"]
  /\ UNCHANGED <<cancelled, jobs, others, refused>>

OtherStep(w) == OtherTaken(w) \/ OtherFinished(w)
=============================================================================
