---------------------------- MODULE Subscription ----------------------------
(***************************************************************************)
(* runtime/src/node.cpp, Subscriber::Impl: transport threads call Accept,  *)
(* which puts a message into a bounded queue and schedules the             *)
(* subscription's Event task; workers run ProcessOne, which hands one      *)
(* message to the application and schedules itself again while messages    *)
(* are left; one thread calls Close.  LoanedSubscriber::Impl (lines        *)
(* 237-350) is the same code with samples in the place of messages.        *)
(*                                                                         *)
(* One action is one critical section of Subscriber::Impl::mutex or of the *)
(* executor.  A message is the number it got when it was received.         *)
(***************************************************************************)
EXTENDS EventTask, Sequences

CONSTANTS
  Receivers,        \* transport threads that call Accept
  QueueCapacity,    \* SubscriptionOptions::queue_capacity
  OverflowPolicies, \* the values of overflow_policy to consider
  MaxMessages       \* bound: messages received in a behaviour

ASSUME QueueAssumption == QueueCapacity \in Nat \ {0}   \* CreateSubscriber
ASSUME PolicyAssumption == OverflowPolicies \subseteq {"DropNewest", "DropOldest"}
ASSUME BoundsAssumption == MaxMessages \in Nat

VARIABLES
  policy,       \* SubscriptionOptions::overflow_policy
  closed, scheduled, queue,
  stats,        \* received_messages, dropped_messages, delivered_messages
  accept,       \* where each receiver is in Accept
  message,      \* the message each worker holds in ProcessOne, 0 for none
  delivered,    \* history: the messages whose callback was called, in order
  thrown,       \* history: callbacks that threw
  cleared,      \* history: messages that Close threw away
  closer        \* where the thread that calls Close is

stateVars == <<policy, closed, scheduled, queue, stats>>
historyVars == <<delivered, thrown, cleared>>
vars == <<taskVars, stateVars, accept, message, historyVars, closer>>

-----------------------------------------------------------------------------
(* Faulty variants of the definitions below.  No action uses them: each is *)
(* a plausible slip in the code that breaks one of the properties.         *)
MustScheduleAlways == TRUE
OldestDroppedUncounted == stats
StaysScheduledWhenEmpty == TRUE

-----------------------------------------------------------------------------
Full == Len(queue) >= QueueCapacity
MustSchedule == ~scheduled
Backlog == ~closed /\ queue # << >>
DropCounted == [stats EXCEPT !.dropped = @ + 1]

(* The value of scheduled after ProcessOne has looked at the queue.        *)
StaysScheduled == Backlog

Init ==
  /\ TaskInit
  /\ policy \in OverflowPolicies
  /\ closed = FALSE
  /\ scheduled = FALSE
  /\ queue = << >>
  /\ stats = [received |-> 0, dropped |-> 0, delivered |-> 0]
  /\ accept = [r \in Receivers |-> "idle"]
  /\ message = [w \in Workers |-> 0]
  /\ delivered = << >>
  /\ thrown = 0
  /\ cleared = 0
  /\ closer = "idle"

-----------------------------------------------------------------------------
(* Accept, first section.  A message for a closed subscription is ignored  *)
(* and changes nothing.                                                    *)
AcceptDropNewest(r) ==
  /\ accept[r] = "idle"
  /\ stats.received < MaxMessages
  /\ ~closed
  /\ Full
  /\ policy = "DropNewest"
  /\ stats' = [DropCounted EXCEPT !.received = @ + 1]
  /\ UNCHANGED <<taskVars, policy, closed, scheduled, queue, accept, message,
                 historyVars, closer>>

AcceptQueue(r) ==
  /\ accept[r] = "idle"
  /\ stats.received < MaxMessages
  /\ ~closed
  /\ Full => policy = "DropOldest"
  /\ stats' = [(IF Full THEN DropCounted ELSE stats) EXCEPT !.received = @ + 1]
  /\ queue' = Append(IF Full THEN Tail(queue) ELSE queue, stats.received + 1)
  /\ scheduled' = TRUE
  /\ accept' = [accept EXCEPT ![r] = IF MustSchedule THEN "reserve" ELSE "idle"]
  /\ UNCHANGED <<taskVars, policy, closed, message, historyVars, closer>>

(* Accept's Notify, and what it does with an error.                        *)
AcceptReserve(r) ==
  /\ accept[r] = "reserve"
  /\ accept' = [accept EXCEPT ![r] = IF TaskAccepts THEN "push" ELSE "failed"]
  /\ EnqueueReserve
  /\ UNCHANGED <<worker, stateVars, message,
                 historyVars, closer>>

AcceptPush(r) ==
  /\ accept[r] = "push"
  /\ accept' = [accept EXCEPT ![r] = IF GroupHasRoom THEN "idle" ELSE "failed"]
  /\ EnqueuePush
  /\ UNCHANGED <<worker, stateVars, message, historyVars,
                 closer>>

AcceptFailed(r) ==
  /\ accept[r] = "failed"
  /\ scheduled' = FALSE
  /\ accept' = [accept EXCEPT ![r] = "idle"]
  /\ UNCHANGED <<taskVars, policy, closed, queue, stats, message, historyVars, closer>>

-----------------------------------------------------------------------------
(* ProcessOne.                                                             *)
ProcessNothing(w) ==
  /\ worker[w] = "process"
  /\ ~Backlog
  /\ scheduled' = FALSE
  /\ worker' = [worker EXCEPT ![w] = "idle"]
  /\ UNCHANGED <<enqueueVars, policy, closed, queue, stats, accept,
                 message, historyVars, closer>>

ProcessTake(w) ==
  /\ worker[w] = "process"
  /\ Backlog
  /\ message' = [message EXCEPT ![w] = Head(queue)]
  /\ queue' = Tail(queue)
  /\ worker' = [worker EXCEPT ![w] = "callback"]
  /\ UNCHANGED <<enqueueVars, policy, closed, scheduled, stats,
                 accept, historyVars, closer>>

(* The callback runs; one that throws has its message counted as dropped,  *)
(* and then as delivered like any other.                                   *)
ProcessCallback(w) ==
  /\ worker[w] = "callback"
  /\ delivered' = Append(delivered, message[w])
  /\ \E throws \in BOOLEAN :
       /\ stats' = IF throws THEN [stats EXCEPT !.dropped = @ + 1] ELSE stats
       /\ thrown' = IF throws THEN thrown + 1 ELSE thrown
  /\ worker' = [worker EXCEPT ![w] = "count"]
  /\ UNCHANGED <<enqueueVars, policy, closed, scheduled, queue,
                 accept, message, cleared, closer>>

ProcessCount(w) ==
  /\ worker[w] = "count"
  /\ stats' = [stats EXCEPT !.delivered = @ + 1]
  /\ message' = [message EXCEPT ![w] = 0]
  /\ worker' = [worker EXCEPT ![w] = "reschedule"]
  /\ UNCHANGED <<enqueueVars, policy, closed, scheduled, queue,
                 accept, historyVars, closer>>

ProcessReschedule(w) ==
  /\ worker[w] = "reschedule"
  /\ scheduled' = (StaysScheduled /\ scheduled)
  /\ worker' = [worker EXCEPT ![w] = IF Backlog THEN "reserve" ELSE "idle"]
  /\ UNCHANGED <<enqueueVars, policy, closed, queue, stats, accept,
                 message, historyVars, closer>>

(* Its Notify, whose status is ignored: static_cast<void>.                 *)
ProcessReserve(w) ==
  /\ worker[w] = "reserve"
  /\ worker' = [worker EXCEPT ![w] = IF TaskAccepts THEN "push" ELSE "idle"]
  /\ EnqueueReserve
  /\ UNCHANGED <<stateVars, accept, message,
                 historyVars, closer>>

ProcessPush(w) ==
  /\ worker[w] = "push"
  /\ worker' = [worker EXCEPT ![w] = "idle"]
  /\ EnqueuePush
  /\ UNCHANGED <<stateVars, accept, message, historyVars,
                 closer>>

-----------------------------------------------------------------------------
(* Close: its critical section, then Unsubscribe and Executor::Cancel.     *)
Close ==
  /\ closer = "idle"
  /\ closed' = TRUE
  /\ queue' = << >>
  /\ scheduled' = FALSE
  /\ cleared' = Len(queue)
  /\ closer' = "cancel"
  /\ UNCHANGED <<taskVars, policy, stats, accept, message, delivered, thrown>>

CloseCancel ==
  /\ closer = "cancel"
  /\ cancelled' = TRUE
  /\ closer' = "closed"
  /\ UNCHANGED <<queued, jobs, others, refused, worker, stateVars, accept, message,
                 historyVars>>

-----------------------------------------------------------------------------
AcceptStep(r) == AcceptReserve(r) \/ AcceptPush(r) \/ AcceptFailed(r)
ProcessStep(w) ==
  \/ ProcessNothing(w) \/ ProcessTake(w) \/ ProcessCallback(w) \/ ProcessCount(w)
  \/ ProcessReschedule(w) \/ ProcessReserve(w) \/ ProcessPush(w)
Take(w) ==
  JobTaken(w) /\ UNCHANGED <<stateVars, accept, message, historyVars, closer>>
TaskStep(w) ==
  /\ JobDispatched(w) \/ OtherStep(w)
  /\ UNCHANGED <<stateVars, accept, message, historyVars, closer>>
Others == OtherNotify /\ UNCHANGED <<stateVars, accept, message, historyVars, closer>>

Next ==
  \/ \E r \in Receivers : AcceptDropNewest(r) \/ AcceptQueue(r) \/ AcceptStep(r)
  \/ \E w \in Workers : Take(w) \/ TaskStep(w) \/ ProcessStep(w)
  \/ Others
  \/ Close \/ CloseCancel

Spec == Init /\ [][Next]_vars

(* Threads that can run do, and callbacks return.  A waiting job is taken  *)
(* in its turn: the endpoint tasks have the default priority, and among    *)
(* equal priorities the earlier release goes first.  Nobody is assumed to  *)
(* send a message, to notify another task or to call Close.                *)
Fairness ==
  /\ WF_vars(CloseCancel)
  /\ \A r \in Receivers : WF_vars(AcceptStep(r))
  /\ \A w \in Workers : WF_vars(ProcessStep(w)) /\ WF_vars(TaskStep(w))
  /\ SF_vars(\E w \in Workers : Take(w))

FairSpec == Spec /\ Fairness

-----------------------------------------------------------------------------
Delivering == {w \in Workers : message[w] # 0}

(* Callbacks of one subscription never overlap and see the messages in the *)
(* order they were received, on however many workers and however the calls *)
(* of Accept and ProcessOne interleave (docs/architecture.md: each         *)
(* subscription schedules at most one Event task).                         *)
SerialInOrder ==
  /\ Cardinality(Delivering) <= 1
  /\ \A i \in 1 .. Len(delivered) - 1 : delivered[i] < delivered[i + 1]

(* Every message received is in the queue, in a callback, delivered,       *)
(* dropped for want of room, or thrown away by Close, and in one of these  *)
(* places only: SubscriptionStats adds up once the callbacks that threw,   *)
(* which it counts twice, are taken off.                                   *)
MessagesAccounted ==
  stats.received = Len(queue) + Cardinality(Delivering) + stats.delivered
                   + (stats.dropped - thrown) + cleared

(* While scheduled is set, which keeps every Accept from notifying, a run  *)
(* of ProcessOne is on its way: the task is queued, being notified or      *)
(* running (docs/architecture.md: ProcessOne schedules itself again while  *)
(* there is a backlog).                                                    *)
BacklogIsRescheduled ==
  (scheduled /\ Backlog) =>
    \/ queued > 0
    \/ \E r \in Receivers : accept[r] # "idle"
    \/ \E w \in Workers : worker[w] \notin {"idle", "other"}

(* A queued message does not stay for ever: it is delivered, dropped for a *)
(* newer one, or thrown away by Close, unless the group's queue was full   *)
(* when the subscription last put its job there.  Nothing but that refusal *)
(* can make ProcessOne and Accept leave a message behind.                  *)
BacklogIsServed ==
  \A m \in 1 .. MaxMessages :
    []<>(refused \/ ~\E i \in 1 .. Len(queue) : queue[i] = m)
=============================================================================
