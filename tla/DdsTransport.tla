----------------------------- MODULE DdsTransport -----------------------------
(***************************************************************************)
(* transport/src/dds_transport.cpp, publish and subscribe (its services    *)
(* are DdsRpc and DdsServices). Every call holds the mutex from its first  *)
(* to its last line, except Close, which joins the receivers without it.   *)
(* The DDS library may lose a sample on its way to a reader (KeepLast,     *)
(* BestEffort) and is otherwise first in, first out. Messages are of one   *)
(* topic, and receivers find memory for their sample.                      *)
(***************************************************************************)
EXTENDS Integers, Sequences, FiniteSetsExt

CONSTANTS
  Subs,         \* subscriptions, each with a reader and a receiver thread
  Callers,      \* threads that call the transport
  MaxMessages,  \* bound: calls to Publish
  MaxErrors     \* bound: samples discarded and errors of dds_take

VARIABLES
  closed,         \* closed
  subscriptions,  \* subscriptions
  opened,         \* subscriptions made so far
  call,           \* what each caller waits for
  receiver,       \* where each receiver thread is and its sample
  stopRequested,  \* the stop token of each receiver
  history,        \* samples in each reader
  messages,       \* calls to Publish so far
  published,      \* messages written
  handed,         \* messages given to each callback
  silent,         \* subscriptions whose Unsubscribe or Close returned
  discarded,      \* samples that were not valid, errors of dds_take
  stats           \* TransportStats

calls == <<closed, subscriptions, opened, call>>
reception == <<receiver, stopRequested, handed, discarded>>
vars == <<calls, reception, history, messages, published, silent, stats>>

Idle == [at |-> "idle", todo |-> {}]
Message == 1..MaxMessages

Init ==
  /\ closed = FALSE /\ subscriptions = {} /\ opened = {} /\ silent = {}
  /\ call = [c \in Callers |-> Idle]
  /\ receiver = [s \in Subs |-> [at |-> "none", m |-> 0]]
  /\ stopRequested = [s \in Subs |-> FALSE]
  /\ history = [s \in Subs |-> <<>>]
  /\ messages = 0 /\ published = {} /\ discarded = 0
  /\ handed = [s \in Subs |-> {}]
  /\ stats = [published |-> 0, publishFailures |-> 0, delivered |-> 0, dropped |-> 0]

(* Unsubscribe joins its receiver with the mutex held. *)
MutexFree == \A c \in Callers : call[c].at # "unsubscribe"

CanCall(c) == call[c] = Idle /\ MutexFree

-----------------------------------------------------------------------------
(* Publish *)

(* Closed, an invalid argument, a writer with another QoS, a failed write. *)
PublishFails(c) ==
  /\ CanCall(c) /\ messages < MaxMessages
  /\ messages' = messages + 1
  /\ stats' = [stats EXCEPT !.publishFailures = @ + 1]
  /\ UNCHANGED <<calls, reception, history, published, silent>>

(* dds_write reaches some of the readers that exist. *)
Publish(c) ==
  /\ CanCall(c) /\ messages < MaxMessages /\ ~closed
  /\ messages' = messages + 1
  /\ \E reached \in SUBSET subscriptions :
       history' = [s \in Subs |->
         IF s \in reached THEN Append(history[s], messages + 1) ELSE history[s]]
  /\ published' = published \cup {messages + 1}
  /\ stats' = [stats EXCEPT !.published = @ + 1]
  /\ UNCHANGED <<calls, reception, silent>>

-----------------------------------------------------------------------------
(* Subscribe, Unsubscribe, Close *)

Subscribe(c, s) ==
  /\ CanCall(c) /\ ~closed /\ s \notin opened
  /\ opened' = opened \cup {s} /\ subscriptions' = subscriptions \cup {s}
  /\ receiver' = [receiver EXCEPT ![s].at = "poll"]
  /\ UNCHANGED <<closed, call, stopRequested, handed, discarded, history,
                 messages, published, silent, stats>>

Unsubscribe(c, s) ==
  /\ CanCall(c) /\ ~closed /\ s \in subscriptions
  /\ subscriptions' = subscriptions \ {s}
  /\ stopRequested' = [stopRequested EXCEPT ![s] = TRUE]
  /\ call' = [call EXCEPT ![c] = [at |-> "unsubscribe", todo |-> {s}]]
  /\ UNCHANGED <<closed, opened, receiver, handed, discarded, history, messages,
                 published, silent, stats>>

(* The critical section of Close; a second Close returns at once. *)
Close(c) ==
  /\ CanCall(c) /\ ~closed /\ closed' = TRUE
  /\ subscriptions' = {}
  /\ call' = [call EXCEPT ![c] = [at |-> "closing", todo |-> subscriptions]]
  /\ UNCHANGED <<opened, reception, history, messages, published, silent, stats>>

(* After the RPC engine was closed. *)
RequestStops(c) ==
  /\ call[c].at = "closing"
  /\ stopRequested' = [s \in Subs |-> stopRequested[s] \/ s \in call[c].todo]
  /\ call' = [call EXCEPT ![c].at = "close"]
  /\ UNCHANGED <<closed, subscriptions, opened, receiver, handed, discarded,
                 history, messages, published, silent, stats>>

(* Faulty variant: the reader is deleted while its receiver still runs. *)
Joined_Not(c) == TRUE

Joined(c) == \A s \in call[c].todo : receiver[s].at = "exited"

(* The receivers were joined, the reader or the participant is deleted. *)
CallReturns(c) ==
  /\ call[c].at \in {"unsubscribe", "close"} /\ Joined(c)
  /\ silent' = silent \cup call[c].todo
  /\ call' = [call EXCEPT ![c] = Idle]
  /\ UNCHANGED <<closed, subscriptions, opened, reception, history, messages,
                 published, stats>>

-----------------------------------------------------------------------------
(* ReceiveLoop *)

Take(s) ==
  /\ receiver[s].at = "poll" /\ ~stopRequested[s] /\ history[s] # <<>>
  /\ history' = [history EXCEPT ![s] = Tail(@)]
  /\ receiver' = [receiver EXCEPT ![s] = [at |-> "taken", m |-> Head(history[s])]]
  /\ UNCHANGED <<calls, stopRequested, handed, discarded, messages, published,
                 silent, stats>>

EnterCallback(s) ==
  /\ receiver[s].at = "taken"
  /\ receiver' = [receiver EXCEPT ![s] = [at |-> "callback", m |-> 0]]
  /\ handed' = [handed EXCEPT ![s] = @ \cup {receiver[s].m}]
  /\ UNCHANGED <<calls, stopRequested, discarded, history, messages, published,
                 silent, stats>>

(* dds_take fails, or takes a sample without valid data or of another       *)
(* version or size.                                                         *)
TakeInvalid(s) ==
  /\ receiver[s].at = "poll" /\ ~stopRequested[s] /\ discarded < MaxErrors
  /\ \/ UNCHANGED history
     \/ history[s] # <<>> /\ history' = [history EXCEPT ![s] = Tail(@)]
  /\ discarded' = discarded + 1
  /\ stats' = [stats EXCEPT !.dropped = @ + 1]
  /\ UNCHANGED <<calls, receiver, stopRequested, handed, messages, published, silent>>

CallbackReturns(s, throws) ==
  /\ receiver[s].at = "callback"
  /\ receiver' = [receiver EXCEPT ![s].at = "poll"]
  /\ stats' = IF throws THEN [stats EXCEPT !.dropped = @ + 1]
              ELSE [stats EXCEPT !.delivered = @ + 1]
  /\ UNCHANGED <<calls, stopRequested, handed, discarded, history, messages,
                 published, silent>>

(* Faulty variant: the loop looks for a sample first. *)
LoopEnds_Drains(s) == stopRequested[s] /\ history[s] = <<>>

LoopEnds(s) == stopRequested[s]

ReceiverExits(s) ==
  /\ receiver[s].at = "poll" /\ LoopEnds(s)
  /\ receiver' = [receiver EXCEPT ![s].at = "exited"]
  /\ UNCHANGED <<calls, stopRequested, handed, discarded, history, messages,
                 published, silent, stats>>

-----------------------------------------------------------------------------

ReceiverStep(s) ==
  \/ Take(s) \/ EnterCallback(s) \/ TakeInvalid(s) \/ ReceiverExits(s)
  \/ \E throws \in BOOLEAN : CallbackReturns(s, throws)

Next ==
  \/ \E c \in Callers :
       \/ PublishFails(c) \/ Publish(c) \/ Close(c) \/ RequestStops(c) \/ CallReturns(c)
       \/ \E s \in Subs : Subscribe(c, s) \/ Unsubscribe(c, s)
  \/ \E s \in Subs : ReceiverStep(s)

Spec == Init /\ [][Next]_vars

(* Threads run, callbacks return, and none of them calls the transport. *)
Fairness ==
  /\ \A s \in Subs : WF_vars(ReceiverStep(s))
  /\ \A c \in Callers : WF_vars(RequestStops(c)) /\ WF_vars(CallReturns(c))

FairSpec == Spec /\ Fairness

-----------------------------------------------------------------------------
(* Properties *)

(* Samples taken are counted once each: delivered, dropped, or in a         *)
(* callback (ReceiveLoop).                                                  *)
Books ==
  stats.delivered + stats.dropped
    + Cardinality({s \in Subs : receiver[s].at = "callback"})
  = discarded + FoldSet(LAMBDA s, n : n + Cardinality(handed[s]), 0, Subs)

(* A caller is in Unsubscribe or Close, waiting for receivers. *)
InCall(c) == call[c] # Idle

(* The transport delivers as MessageDelivery says: nothing is delivered     *)
(* once Unsubscribe or the Close that found it open has returned.           *)
Delivery == INSTANCE MessageDelivery WITH Messages <- Message

ImplementsDelivery == Delivery!Spec
=============================================================================
