---------------------------- MODULE TcpSubscriber ----------------------------
(***************************************************************************)
(* tcp_pubsub/src/subscriber_impl.cpp and subscriber_session_impl.cpp: a   *)
(* subscriber with its sessions, each a chain of asynchronous operations   *)
(* that connects, reads frames and reconnects, and the callback, run by    *)
(* the session (synchronous) or by a callback thread fed through a 1-      *)
(* element queue (asynchronous).                                           *)
(*                                                                         *)
(* A session has one outstanding operation or posted handlers; a handler   *)
(* that tests canceled_ and starts the next operation is one action, and   *)
(* what it started may succeed or be aborted when cancel comes after the   *)
(* test.  setCallback and cancel are called by one thread at a time.  The  *)
(* peer and the network decide how an operation ends.                      *)
(***************************************************************************)
EXTENDS Integers, Sequences

CONSTANTS
  Sessions,         \* SubscriberSession_Impl objects
  Publishers,       \* length of publisher_list_
  MaxReconnections, \* max_reconnection_attempts_, negative for ever
  Threads,          \* callback threads, one per asynchronous setCallback
  MaxFrames,        \* bound: data frames of a session
  MaxCalls          \* bound: calls of setCallback and cancel

ASSUME ListAssumption == Publishers \in Nat \ {0}
ASSUME RetryAssumption == MaxReconnections \in Int
ASSUME BoundsAssumption == MaxFrames \in Nat /\ MaxCalls \in Nat

VARIABLES
  list,       \* session_list_
  stage,      \* the outstanding operation of each session
  index,      \* the entry of publisher_list_ it resolves
  posts,      \* the handlers it posted to its strand, in order
  canceled,   \* canceled_
  retries,    \* retries_left_
  onData,     \* its synchronous_callback_: call the user or store the frame
  frames,     \* data frames it was sent
  failures,   \* connections that failed since a frame was last received
  sync,       \* user_callback_is_synchronous_
  slot,       \* last_callback_data_, a frame of a session or Empty
  stop,       \* callback_thread_stop_
  thread,     \* where each callback thread is and the frame it holds
  current,    \* callback_thread_, a set of at most one thread
  call,       \* the setCallback or cancel call under way
  calls,      \* how many were made
  last        \* the newest frame of each session given to the user

session == <<list, stage, index, posts, canceled, retries, frames, failures>>
delivery == <<slot, thread, last>>
control == <<sync, stop, current, call, calls>>
vars == <<session, onData, delivery, control>>

Empty == <<>>
Idle == [op |-> "none", at |-> "idle"]

Init ==
  /\ list = {}
  /\ stage = [s \in Sessions |-> "new"]
  /\ index = [s \in Sessions |-> 1]
  /\ posts = [s \in Sessions |-> <<>>]
  /\ canceled = [s \in Sessions |-> FALSE]
  /\ retries = [s \in Sessions |-> MaxReconnections]
  /\ onData = [s \in Sessions |-> "none"]
  /\ frames = [s \in Sessions |-> 0]
  /\ failures = [s \in Sessions |-> 0]
  /\ last = [s \in Sessions |-> 0]
  /\ sync = TRUE /\ slot = Empty /\ stop = TRUE /\ current = {}
  /\ thread = [t \in Threads |-> [at |-> "none", data |-> Empty]]
  /\ call = Idle /\ calls = 0

-----------------------------------------------------------------------------
(* A session: connecting and reading *)

Post(do, arg) == [do |-> do, arg |-> arg]

Become(s, next) == stage' = [stage EXCEPT ![s] = next]

sessionClosedHandler(s) == list' = list \ {s} /\ Become(s, "closed")

RetriesLeft(s) == ~canceled[s] /\ retries[s] # 0

connectionFailedHandler(s) ==
  /\ failures' = [failures EXCEPT ![s] = @ + 1]
  /\ IF RetriesLeft(s)
     THEN /\ retries' = [retries EXCEPT ![s] = IF @ > 0 THEN @ - 1 ELSE @]
          /\ Become(s, "retry")
          /\ UNCHANGED list
     ELSE sessionClosedHandler(s) /\ UNCHANGED retries

(* An operation succeeded and the next function starts the next one. *)
Continue(s, stages) ==
  IF canceled[s] THEN connectionFailedHandler(s)
  ELSE /\ \E next \in stages : Become(s, next)
       /\ UNCHANGED <<list, retries, failures>>

Unposted == UNCHANGED <<posts, canceled, frames, onData, delivery, control>>

resolveEndpoint(s) ==            \* the resolver found no address
  /\ stage[s] = "resolve"
  /\ IF index[s] < Publishers
     THEN index' = [index EXCEPT ![s] = @ + 1] /\ Continue(s, {"resolve"})
     ELSE UNCHANGED index /\ connectionFailedHandler(s)
  /\ Unposted

connectToEndpoint(s) ==
  /\ stage[s] = "resolve" /\ Continue(s, {"connect"})
  /\ UNCHANGED index /\ Unposted

sendProtokolHandshakeRequest(s) ==
  /\ stage[s] = "connect" /\ Continue(s, {"request"})
  /\ UNCHANGED index /\ Unposted

readHeaderLength(s) ==           \* the request was sent
  /\ stage[s] = "request" /\ Continue(s, {"length"})
  /\ UNCHANGED index /\ Unposted

readHeaderContent(s) ==
  /\ stage[s] = "length" /\ Continue(s, {"content"})
  /\ UNCHANGED index /\ Unposted

discardDataBetweenHeaderAndPayload(s) ==
  /\ stage[s] = "content" /\ Continue(s, {"discard"})
  /\ UNCHANGED index /\ Unposted

(* A frame of size 0 has no payload: the next header is read. *)
readPayload(s) ==
  /\ stage[s] \in {"content", "discard"} /\ Continue(s, {"payload", "length"})
  /\ UNCHANGED index /\ Unposted

(* The operation failed, or the header it read was too short. *)
OperationFailed(s) ==
  /\ stage[s] \in {"connect", "request", "length", "content", "discard", "payload"}
  /\ connectionFailedHandler(s)
  /\ UNCHANGED index /\ Unposted

(* A whole frame was read: a data frame is posted for delivery before the   *)
(* next read is posted, a handshake or an unknown type is not delivered.    *)
FrameRead(s, isData) ==
  /\ stage[s] = "payload"
  /\ Become(s, "posted")
  /\ retries' = [retries EXCEPT ![s] = MaxReconnections]
  /\ failures' = [failures EXCEPT ![s] = 0]
  /\ IF isData
     THEN /\ frames[s] < MaxFrames
          /\ frames' = [frames EXCEPT ![s] = @ + 1]
          /\ posts' = [posts EXCEPT ![s] =
               @ \o <<Post("deliver", frames[s] + 1), Post("read", 0)>>]
     ELSE /\ posts' = [posts EXCEPT ![s] = Append(@, Post("read", 0))]
          /\ UNCHANGED frames
  /\ UNCHANGED <<list, index, canceled, onData, delivery, control>>

(* A handshake with a version above 0: the budget is reset, then one        *)
(* attempt is taken from it.                                                *)
VersionRejected(s) ==
  /\ stage[s] = "payload"
  /\ failures' = [failures EXCEPT ![s] = 1]
  /\ IF ~canceled[s] /\ MaxReconnections # 0
     THEN /\ retries' = [retries EXCEPT ![s] =
               IF MaxReconnections > 0 THEN MaxReconnections - 1
               ELSE MaxReconnections]
          /\ Become(s, "retry")
          /\ UNCHANGED list
     ELSE /\ retries' = [retries EXCEPT ![s] = MaxReconnections]
          /\ sessionClosedHandler(s)
  /\ UNCHANGED index /\ Unposted

(* Faulty variant: the aborted timer only returns. *)
RetryAborted_Returns(s) ==
  /\ stage[s] = "retry" /\ canceled[s] /\ Become(s, "closed")
  /\ UNCHANGED <<list, index, retries, failures>> /\ Unposted

(* retry_timer_ expired, or was aborted by cancel. *)
RetryFires(s) ==
  /\ stage[s] = "retry"
  /\ index' = [index EXCEPT ![s] = 1]
  /\ Continue(s, {"resolve"})
  /\ Unposted

RetryAborted(s) ==
  /\ stage[s] = "retry" /\ canceled[s]
  /\ sessionClosedHandler(s)
  /\ UNCHANGED <<index, retries, failures>> /\ Unposted

-----------------------------------------------------------------------------
(* Delivery: posted handlers and the callback thread *)

(* A thread that found its predicate false holds last_callback_data_mutex_  *)
(* until it blocks.                                                         *)
DataMutexFree == \A t \in Threads : thread[t].at # "blocking"

notify_all(threads) ==
  [t \in Threads |->
     IF threads[t].at = "waiting" THEN [threads[t] EXCEPT !.at = "check"]
     ELSE threads[t]]

Popped(s) == [posts EXCEPT ![s] = Tail(@)]

setSynchronousCallback(s) ==
  /\ onData' = [onData EXCEPT ![s] = Head(posts[s]).arg]
  /\ posts' = Popped(s)
  /\ UNCHANGED <<list, stage, retries, failures, delivery>>

(* The test of canceled_ before the callback. *)
Deliver(s) ==
  /\ IF canceled[s]
     THEN connectionFailedHandler(s) /\ posts' = Popped(s)
     ELSE /\ posts' = [posts EXCEPT ![s][1].do = "invoke"]
          /\ UNCHANGED <<list, stage, retries, failures>>
  /\ UNCHANGED <<onData, delivery>>

GiveToUser(s, frame) ==
  /\ last' = [last EXCEPT ![s] = frame]
  /\ UNCHANGED <<slot, thread>>

(* Faulty variant: the callback thread is not notified. *)
StoreFrame_Silent(s, frame) == slot' = <<s, frame>> /\ UNCHANGED <<thread, last>>

StoreFrame(s, frame) ==
  /\ slot' = <<s, frame>>
  /\ thread' = notify_all(thread)
  /\ UNCHANGED last

(* The session's callback, as setCallbackToSession made it. *)
Invoke(s) ==
  /\ DataMutexFree
  /\ posts' = Popped(s)
  /\ CASE onData[s] = "sync" /\ sync -> GiveToUser(s, Head(posts[s]).arg)
       [] onData[s] = "async" /\ ~sync -> StoreFrame(s, Head(posts[s]).arg)
       [] OTHER -> UNCHANGED delivery
  /\ UNCHANGED <<list, stage, retries, failures, onData>>

ReadNext(s) ==
  /\ Continue(s, {"length"})
  /\ posts' = Popped(s)
  /\ UNCHANGED <<onData, delivery>>

RunPost(s) ==
  /\ posts[s] # <<>>
  /\ \/ Head(posts[s]).do = "set" /\ setSynchronousCallback(s)
     \/ Head(posts[s]).do = "deliver" /\ Deliver(s)
     \/ Head(posts[s]).do = "invoke" /\ Invoke(s)
     \/ Head(posts[s]).do = "read" /\ ReadNext(s)
  /\ UNCHANGED <<index, canceled, frames, control>>

Goes(t, at, data) == thread' = [thread EXCEPT ![t] = [at |-> at, data |-> data]]

(* The wait of the callback thread: its predicate, the exit, the swap. *)
CheckQueue(t) ==
  /\ thread[t].at = "check" /\ DataMutexFree
  /\ CASE stop -> Goes(t, "exited", Empty) /\ UNCHANGED slot
       [] ~stop /\ slot # Empty -> Goes(t, "taken", slot) /\ slot' = Empty
       [] OTHER -> Goes(t, "blocking", Empty) /\ UNCHANGED slot
  /\ UNCHANGED <<session, onData, last, control>>

Block(t) ==
  /\ thread[t].at = "blocking" /\ Goes(t, "waiting", Empty)
  /\ UNCHANGED <<session, onData, slot, last, control>>

AsyncCallback(t) ==
  /\ thread[t].at = "taken"
  /\ last' = [last EXCEPT ![thread[t].data[1]] = thread[t].data[2]]
  /\ Goes(t, "check", Empty)
  /\ UNCHANGED <<session, onData, slot, control>>

-----------------------------------------------------------------------------
(* The user's calls *)

SessionCallback == IF sync THEN "sync" ELSE "async"

addSession(s) ==
  /\ call = Idle /\ stage[s] = "new"
  /\ list' = list \cup {s}
  /\ Become(s, "resolve")
  /\ posts' = [posts EXCEPT ![s] = <<Post("set", SessionCallback)>>]
  /\ UNCHANGED <<index, canceled, retries, onData, frames, failures, delivery, control>>

(* SubscriberSession::cancel: what is outstanding is aborted. *)
cancelSession(s) ==
  /\ stage[s] # "new" /\ ~canceled[s]
  /\ canceled' = [canceled EXCEPT ![s] = TRUE]
  /\ UNCHANGED <<list, stage, index, posts, retries, onData, frames, failures,
                 delivery, control>>

(* The first part of setCallback and cancel: the old thread is told to stop. *)
StopThread(op) ==
  IF current = {}
  THEN call' = [op |-> op, at |-> "finish"] /\ UNCHANGED <<stop, thread>>
  ELSE /\ stop' = TRUE
       /\ thread' = notify_all(thread)
       /\ call' = [op |-> op, at |-> "join"]

setCallback(op) ==
  /\ call = Idle /\ calls < MaxCalls /\ calls' = calls + 1
  /\ op = "async" => \E t \in Threads : thread[t].at = "none"
  /\ StopThread(op)
  /\ UNCHANGED <<session, onData, slot, last, sync, current>>

cancel ==
  /\ call = Idle /\ calls < MaxCalls /\ calls' = calls + 1
  /\ canceled' = [s \in Sessions |-> canceled[s] \/ s \in list]
  /\ StopThread("cancel")
  /\ UNCHANGED <<list, stage, index, posts, retries, frames, failures, onData,
                 slot, last, sync, current>>

Joined == \A t \in current : thread[t].at = "exited"

JoinThread ==
  /\ call.at = "join" /\ Joined
  /\ current' = {}
  /\ call' = [call EXCEPT !.at = "finish"]
  /\ UNCHANGED <<session, onData, delivery, sync, stop, calls>>

(* setCallbackToSession for every session of the list. *)
RenewCallbacks(mode) ==
  posts' = [s \in Sessions |->
              IF s \in list /\ ~canceled[s] THEN Append(posts[s], Post("set", mode))
              ELSE posts[s]]

(* Faulty variant: the frame of the old callback stays. *)
SlotCleared_Keeps == slot

SlotCleared == Empty

FinishSync ==
  /\ call.op = "sync" /\ call.at = "finish" /\ DataMutexFree
  /\ sync' = TRUE /\ slot' = SlotCleared
  /\ RenewCallbacks("sync")
  /\ call' = Idle
  /\ UNCHANGED <<list, stage, index, canceled, retries, frames, failures, onData,
                 thread, last, stop, current, calls>>

FinishAsync(t) ==
  /\ call.op = "async" /\ call.at = "finish" /\ thread[t].at = "none"
  /\ sync' = FALSE /\ stop' = FALSE
  /\ Goes(t, "check", Empty) /\ current' = {t}
  /\ IF sync THEN RenewCallbacks("async") ELSE UNCHANGED posts
  /\ call' = Idle
  /\ UNCHANGED <<list, stage, index, canceled, retries, frames, failures, onData,
                 slot, last, calls>>

FinishCancel ==
  /\ call.op = "cancel" /\ call.at = "finish"
  /\ sync' = TRUE /\ call' = Idle
  /\ UNCHANGED <<session, onData, delivery, stop, current, calls>>

-----------------------------------------------------------------------------

SessionStep(s) ==
  \/ resolveEndpoint(s) \/ connectToEndpoint(s) \/ sendProtokolHandshakeRequest(s)
  \/ readHeaderLength(s) \/ readHeaderContent(s)
  \/ discardDataBetweenHeaderAndPayload(s) \/ readPayload(s) \/ OperationFailed(s)
  \/ \E isData \in BOOLEAN : FrameRead(s, isData)
  \/ VersionRejected(s) \/ RetryFires(s) \/ RetryAborted(s)

ThreadStep(t) == CheckQueue(t) \/ Block(t) \/ AsyncCallback(t)

CallStep ==
  JoinThread \/ FinishSync \/ FinishCancel \/ \E t \in Threads : FinishAsync(t)

Next ==
  \/ \E s \in Sessions :
       SessionStep(s) \/ RunPost(s) \/ addSession(s) \/ cancelSession(s)
  \/ \E t \in Threads : ThreadStep(t)
  \/ \E op \in {"sync", "async"} : setCallback(op)
  \/ cancel \/ CallStep

Spec == Init /\ [][Next]_vars

(* The executor runs posted handlers and completes what was aborted, a      *)
(* thread that can run runs, callbacks return.  Nothing is assumed of the   *)
(* network of a session that was not canceled.                              *)
Fairness ==
  /\ \A s \in Sessions :
       WF_vars(RunPost(s)) /\ WF_vars(canceled[s] /\ SessionStep(s))
  /\ \A t \in Threads : WF_vars(ThreadStep(t))
  /\ WF_vars(CallStep)

FairSpec == Spec /\ Fairness

-----------------------------------------------------------------------------
(* Properties *)

(* A session leaves the list by itself only after it was canceled or when   *)
(* more connections failed in a row, since a frame last arrived, than the   *)
(* attempts it was given (retries_left_ is reset by every frame).           *)
GivesUpWhenSpent ==
  \A s \in Sessions : stage[s] = "closed" =>
    canceled[s] \/ MaxReconnections \in 0 .. failures[s] - 1

(* Whatever a session does when it is canceled, resolving, connecting,      *)
(* reading, delivering or waiting to retry, it is removed from the list.    *)
CanceledIsRemoved ==
  \A s \in Sessions : canceled[s] ~> s \notin list

(* The frames of a session reach the user in the order they were sent, also *)
(* across changes between the synchronous and the asynchronous callback.    *)
CallbacksInOrder == [][\A s \in Sessions : last'[s] >= last[s]]_vars

(* The callback thread never sleeps on a frame that was stored for it:      *)
(* before it blocks the frame is seen, after it blocked it is notified.     *)
StoredWakesThread ==
  slot # Empty /\ ~stop =>
    \A t \in current : thread[t].at \notin {"blocking", "waiting"}

(* What the documentation says, and the code does not do: setCallback and   *)
(* cancel return once the running callback has returned.  They set          *)
(* callback_thread_stop_ and notify without last_callback_data_mutex_, so   *)
(* that a thread which has just found nothing to do may miss both.          *)
CancelReturns == call # Idle ~> call = Idle
=============================================================================
