---------------------------- MODULE ServiceCalls ----------------------------
(***************************************************************************)
(* runtime/src/node.cpp, Service::Impl: transport threads call Invoke,     *)
(* which queues a PendingCall, schedules the service's Event task and      *)
(* waits for the call's promise; workers run ProcessOne, which lets the    *)
(* handler answer one call; one thread calls Close, which answers the      *)
(* queued ones.                                                            *)
(*                                                                         *)
(* One action is one critical section of Service::Impl::mutex or of the    *)
(* executor, or the setting of a promise.  A PendingCall is its number; an *)
(* Invoke that gave up may leave its PendingCall behind in the queue.      *)
(***************************************************************************)
EXTENDS EventTask, Sequences

CONSTANTS
  Callers,          \* threads that call Invoke
  FiniteCallers,    \* those of them whose deadline is finite
  QueueCapacity,    \* kQueueCapacity
  MaxCalls          \* bound: calls queued in a behaviour

Calls == 1 .. MaxCalls

VARIABLES
  closed, scheduled, queue,
  made,         \* how many PendingCalls there have been
  completion,   \* the promise of each: "unset", or the status it was set to
  sets,         \* history: how often each promise was set
  handled,      \* history: the calls the handler was called for
  told,         \* history: what the Invoke of each call returned
  invoke,       \* where each caller is in Invoke
  pending,      \* its PendingCall
  expired,      \* the callers whose deadline has passed
  working,      \* the PendingCall each worker holds, 0 for none
  answer,       \* the handler's status, before the promise is set
  closer,       \* where the thread that calls Close is
  closing       \* the calls Close swapped out and has still to answer

queueVars == <<closed, scheduled, queue, made>>
promiseVars == <<completion, sets>>
invokeVars == <<invoke, pending, expired, told>>
workVars == <<working, answer, handled>>
closeVars == <<closer, closing>>
vars == <<taskVars, queueVars, promiseVars, invokeVars, workVars, closeVars>>

-----------------------------------------------------------------------------
(* Faulty variants of the definitions below.  No action uses them: each is *)
(* a plausible slip in the code that breaks one of the properties.         *)
TakenBackNot(c) == [queue |-> queue, scheduled |-> FALSE]
SwappedOutNothing == << >>

-----------------------------------------------------------------------------
Full == Len(queue) >= QueueCapacity
Backlog == ~closed /\ queue # << >>
Remaining == Tail(queue)
SwappedOut == queue

(* std::find the call, and erase it if it is still there.                  *)
Found(c) == {i \in 1 .. Len(queue) : queue[i] = pending[c]}
Erased(i) ==
  [j \in 1 .. Len(queue) - 1 |-> IF j < i THEN queue[j] ELSE queue[j + 1]]
Rest(c) ==
  IF Found(c) = {} THEN queue
  ELSE Erased(CHOOSE i \in Found(c) : \A j \in Found(c) : i <= j)
TakenBack(c) ==
  [queue |-> Rest(c), scheduled |-> scheduled /\ Rest(c) # << >>]

(* completion.set_value.                                                   *)
SetValue(k, status) ==
  /\ completion' = [completion EXCEPT ![k] = status]
  /\ sets' = [sets EXCEPT ![k] = @ + 1]

Init ==
  /\ TaskInit
  /\ closed = FALSE
  /\ scheduled = FALSE
  /\ queue = << >>
  /\ made = 0
  /\ completion = [k \in Calls |-> "unset"]
  /\ sets = [k \in Calls |-> 0]
  /\ handled = {}
  /\ told = [k \in Calls |-> "nothing"]
  /\ invoke = [c \in Callers |-> "idle"]
  /\ pending = [c \in Callers |-> 0]
  /\ expired = {}
  /\ working = [w \in Workers |-> 0]
  /\ answer = [w \in Workers |-> "none"]
  /\ closer = "idle"
  /\ closing = << >>

(* The deadline of a call that is under way passes.                        *)
Expire(c) ==
  /\ c \in FiniteCallers \ expired
  /\ invoke[c] # "idle"
  /\ expired' = expired \cup {c}
  /\ UNCHANGED <<taskVars, queueVars, promiseVars, invoke, pending, told,
                 workVars, closeVars>>

-----------------------------------------------------------------------------
(* Invoke.  Refused at once (expired, closed or queue full) it changes     *)
(* nothing; else it queues its call.                                       *)
InvokeQueue(c) ==
  /\ invoke[c] = "idle"
  /\ made < MaxCalls
  /\ ~closed
  /\ ~Full
  /\ made' = made + 1
  /\ pending' = [pending EXCEPT ![c] = made + 1]
  /\ queue' = Append(queue, made + 1)
  /\ scheduled' = TRUE
  /\ invoke' = [invoke EXCEPT ![c] = IF scheduled THEN "waiting" ELSE "reserve"]
  /\ UNCHANGED <<taskVars, closed, promiseVars, expired, told, workVars,
                 closeVars>>

InvokeReserve(c) ==
  /\ invoke[c] = "reserve"
  /\ invoke' = [invoke EXCEPT ![c] = IF TaskAccepts THEN "push" ELSE "failed"]
  /\ EnqueueReserve
  /\ UNCHANGED <<worker, queueVars, promiseVars,
                 pending, expired, told, workVars, closeVars>>

InvokePush(c) ==
  /\ invoke[c] = "push"
  /\ invoke' = [invoke EXCEPT ![c] = IF GroupHasRoom THEN "waiting" ELSE "failed"]
  /\ EnqueuePush
  /\ UNCHANGED <<worker, queueVars, promiseVars, pending,
                 expired, told, workVars, closeVars>>

Returns(c, status) ==
  /\ invoke' = [invoke EXCEPT ![c] = "idle"]
  /\ told' = [told EXCEPT ![pending[c]] = status]
  /\ pending' = [pending EXCEPT ![c] = 0]
  /\ expired' = expired \ {c}

(* After a failed Notify the call is taken back; scheduled is cleared only *)
(* if that leaves the queue empty.                                         *)
InvokeFailed(c) ==
  /\ invoke[c] = "failed"
  /\ queue' = TakenBack(c).queue
  /\ scheduled' = TakenBack(c).scheduled
  /\ Returns(c, "Refused")
  /\ UNCHANGED <<taskVars, closed, made, promiseVars, workVars, closeVars>>

(* The future: ready, or not ready when the deadline has passed.           *)
InvokeReady(c) ==
  /\ invoke[c] = "waiting"
  /\ completion[pending[c]] # "unset"
  /\ Returns(c, completion[pending[c]])
  /\ UNCHANGED <<taskVars, queueVars, promiseVars, workVars, closeVars>>

InvokeTimeout(c) ==
  /\ invoke[c] = "waiting"
  /\ c \in expired
  /\ completion[pending[c]] = "unset"
  /\ Returns(c, "Timeout")
  /\ UNCHANGED <<taskVars, queueVars, promiseVars, workVars, closeVars>>

-----------------------------------------------------------------------------
(* ProcessOne.                                                             *)
ProcessNothing(w) ==
  /\ worker[w] = "process"
  /\ ~Backlog
  /\ scheduled' = FALSE
  /\ worker' = [worker EXCEPT ![w] = "idle"]
  /\ UNCHANGED <<enqueueVars, closed, queue, made,
                 promiseVars, invokeVars, workVars, closeVars>>

ProcessTake(w) ==
  /\ worker[w] = "process"
  /\ Backlog
  /\ working' = [working EXCEPT ![w] = Head(queue)]
  /\ queue' = Remaining
  /\ worker' = [worker EXCEPT ![w] = "handle"]
  /\ UNCHANGED <<enqueueVars, closed, scheduled, made,
                 promiseVars, invokeVars, answer, handled, closeVars>>

(* A call whose deadline has passed, its caller gone or not, is not        *)
(* handled; a handler may answer, refuse or throw.                         *)
Overdue(k) == told[k] = "Timeout" \/ \E c \in expired : pending[c] = k

ProcessHandle(w) ==
  /\ worker[w] = "handle"
  /\ LET k == working[w] IN
     IF Overdue(k)
     THEN /\ answer' = [answer EXCEPT ![w] = "Timeout"]
          /\ UNCHANGED handled
     ELSE /\ \E status \in {"Ok", "Internal"} :
               answer' = [answer EXCEPT ![w] = status]
          /\ handled' = handled \cup {k}
  /\ worker' = [worker EXCEPT ![w] = "answer"]
  /\ UNCHANGED <<enqueueVars, queueVars, promiseVars,
                 invokeVars, working, closeVars>>

ProcessAnswer(w) ==
  /\ worker[w] = "answer"
  /\ SetValue(working[w], answer[w])
  /\ working' = [working EXCEPT ![w] = 0]
  /\ answer' = [answer EXCEPT ![w] = "none"]
  /\ worker' = [worker EXCEPT ![w] = "reschedule"]
  /\ UNCHANGED <<enqueueVars, queueVars, invokeVars,
                 handled, closeVars>>

ProcessReschedule(w) ==
  /\ worker[w] = "reschedule"
  /\ scheduled' = (Backlog /\ scheduled)
  /\ worker' = [worker EXCEPT ![w] = IF Backlog THEN "reserve" ELSE "idle"]
  /\ UNCHANGED <<enqueueVars, closed, queue, made,
                 promiseVars, invokeVars, workVars, closeVars>>

(* Its Notify, whose status is ignored: static_cast<void>.                 *)
ProcessReserve(w) ==
  /\ worker[w] = "reserve"
  /\ worker' = [worker EXCEPT ![w] = IF TaskAccepts THEN "push" ELSE "idle"]
  /\ EnqueueReserve
  /\ UNCHANGED <<queueVars, promiseVars, invokeVars,
                 workVars, closeVars>>

ProcessPush(w) ==
  /\ worker[w] = "push"
  /\ worker' = [worker EXCEPT ![w] = "idle"]
  /\ EnqueuePush
  /\ UNCHANGED <<queueVars, promiseVars, invokeVars,
                 workVars, closeVars>>

-----------------------------------------------------------------------------
(* Close: swaps the queue out under the mutex, answers each call Closed,   *)
(* then RemoveService and Executor::Cancel.                                *)
Close ==
  /\ closer = "idle"
  /\ closed' = TRUE
  /\ scheduled' = FALSE
  /\ closing' = SwappedOut
  /\ queue' = << >>
  /\ closer' = "answer"
  /\ UNCHANGED <<taskVars, made, promiseVars, invokeVars, workVars>>

CloseAnswer ==
  /\ closer = "answer"
  /\ closing # << >>
  /\ SetValue(Head(closing), "Closed")
  /\ closing' = Tail(closing)
  /\ UNCHANGED <<taskVars, queueVars, invokeVars, workVars, closer>>

CloseCancel ==
  /\ closer = "answer"
  /\ closing = << >>
  /\ cancelled' = TRUE
  /\ closer' = "closed"
  /\ UNCHANGED <<queued, jobs, others, refused, worker, queueVars, promiseVars,
                 invokeVars, workVars, closing>>

-----------------------------------------------------------------------------
InvokeStep(c) ==
  \/ InvokeReserve(c) \/ InvokePush(c) \/ InvokeFailed(c)
  \/ InvokeReady(c) \/ InvokeTimeout(c)
ProcessStep(w) ==
  \/ ProcessNothing(w) \/ ProcessTake(w) \/ ProcessHandle(w) \/ ProcessAnswer(w)
  \/ ProcessReschedule(w) \/ ProcessReserve(w) \/ ProcessPush(w)
RestUnchanged ==
  UNCHANGED <<queueVars, promiseVars, invokeVars, workVars, closeVars>>
Take(w) == JobTaken(w) /\ RestUnchanged
TaskStep(w) == (JobDispatched(w) \/ OtherStep(w)) /\ RestUnchanged
CloseStep == CloseAnswer \/ CloseCancel

Next ==
  \/ \E c \in Callers : Expire(c) \/ InvokeQueue(c) \/ InvokeStep(c)
  \/ \E w \in Workers : Take(w) \/ TaskStep(w) \/ ProcessStep(w)
  \/ OtherNotify /\ RestUnchanged
  \/ Close \/ CloseStep

Spec == Init /\ [][Next]_vars

(* As in Subscription: threads that can run do, handlers return, and a     *)
(* waiting job is taken in its turn.  No deadline is assumed to pass.      *)
Fairness ==
  /\ WF_vars(CloseStep)
  /\ \A c \in Callers : WF_vars(InvokeStep(c))
  /\ \A w \in Workers : WF_vars(ProcessStep(w)) /\ WF_vars(TaskStep(w))
  /\ SF_vars(\E w \in Workers : Take(w))

FairSpec == Spec /\ Fairness

-----------------------------------------------------------------------------
Queued(k) == \E i \in 1 .. Len(queue) : queue[i] = k

(* What Invoke tells its caller is true of the handler: Ok and Internal    *)
(* mean that it was called, and a call that was refused or answered Closed *)
(* was never handled, nor will be.  Timeout leaves both open.  No promise  *)
(* is set twice, as a second set_value throws std::future_error in a       *)
(* worker or in Close: a call that can still be answered, because it is    *)
(* queued, with a worker or with Close, has not been answered.             *)
AnswersAreTrue ==
  /\ \A k \in Calls :
       /\ told[k] \in {"Ok", "Internal"} => k \in handled
       /\ told[k] \in {"Refused", "Closed"} => k \notin handled
       /\ sets[k] <= 1
       /\ Queued(k) => sets[k] = 0
  /\ \A w \in Workers : working[w] # 0 => sets[working[w]] = 0

(* Every Invoke returns, with a finite deadline or without one: the task   *)
(* runs or Close answers.  Only where the group's queue was full when the  *)
(* service last put its job there may a caller wait on.                    *)
InvokeReturns == \A c \in Callers : []<>(refused \/ invoke[c] = "idle")
=============================================================================
