--------------------------- MODULE FastIpcTransport ---------------------------
(***************************************************************************)
(* transport/src/fastipc_transport.cpp: the transport of a producer        *)
(* process and the one of the consumer process of the same channels.  A    *)
(* channel of the FastIPC library (external) is a queue of Slots slots, a  *)
(* loan and a sample held by a loaned callback occupying one each.         *)
(*                                                                         *)
(* Threads publish and borrow concurrently; Subscribe, Unsubscribe and     *)
(* Close of the consumer are called by one thread, its owner: they touch   *)
(* the jthread of an endpoint without a lock.                              *)
(***************************************************************************)
EXTENDS Integers, Sequences, FiniteSetsExt

CONSTANTS
  Subs,         \* endpoints, one channel each
  Publishers,   \* threads that publish on the producer's transport
  Slots,        \* slot_count
  MaxMessages,  \* bound: messages; also of receptions that may fail
  MaxCalls      \* bound: calls to Subscribe

VARIABLES
  pubClosed,    \* closed of the producer's transport, its channels closed too
  pub,          \* what each publishing thread is in the middle of
  sendMutex,    \* endpoints whose send_mutex is held
  pubStats,     \* the producer's TransportStats
  queue,        \* messages in the slots of each channel
  messages,     \* messages so far
  published,    \* messages that were put into a channel
  closed,       \* closed of the consumer's transport
  subscribed,   \* endpoints with a subscription_id
  callback,     \* callback or loaned_callback of each endpoint, by kind
  channelOpen,  \* the consumer's side of each channel
  receiver,     \* its thread: kind of loop, where it is, what it received
  stopRequested,\* the thread's stop token
  owner,        \* what the owner is in the middle of
  opened,       \* endpoints that were subscribed to
  subscribes,   \* calls to Subscribe so far
  handed,       \* messages given to a callback of each endpoint
  silent,       \* endpoints whose Unsubscribe or Close returned
  received,     \* frames received, and errors of the channel
  stats         \* the consumer's TransportStats

producer == <<pubClosed, pub, sendMutex, pubStats, messages, published>>
subscription == <<closed, subscribed, callback, channelOpen, stopRequested,
                  owner, opened, subscribes, silent>>
reception == <<receiver, handed, received, stats>>
vars == <<producer, queue, subscription, reception>>

Message == 1..MaxMessages
NoOne == [at |-> "idle", e |-> {}, m |-> 0]
NoThread == [at |-> "none", kind |-> "none", m |-> 0]

Init ==
  /\ pubClosed = FALSE /\ pub = [p \in Publishers |-> NoOne] /\ sendMutex = {}
  /\ pubStats = [published |-> 0, failures |-> 0, dropped |-> 0]
  /\ queue = [e \in Subs |-> <<>>] /\ messages = 0 /\ published = {}
  /\ closed = FALSE /\ subscribed = {} /\ opened = {} /\ silent = {}
  /\ callback = [e \in Subs |-> "none"]
  /\ channelOpen = [e \in Subs |-> TRUE]
  /\ receiver = [e \in Subs |-> NoThread]
  /\ stopRequested = [e \in Subs |-> FALSE]
  /\ owner = [at |-> "idle", todo |-> {}] /\ subscribes = 0 /\ received = 0
  /\ handed = [e \in Subs |-> {}]
  /\ stats = [delivered |-> 0, dropped |-> 0]

-----------------------------------------------------------------------------
(* Publish and Loan *)

Loans(e) == Cardinality({p \in Publishers : pub[p].at = "loan" /\ pub[p].e = {e}})

Held(e) ==
  IF receiver[e].kind = "loaned" /\ receiver[e].at \in {"have", "callback"}
  THEN 1 ELSE 0

HasSlot(e) == Len(queue[e]) + Loans(e) + Held(e) < Slots

PubFails(dropped) ==
  pubStats' = [pubStats EXCEPT !.failures = @ + 1,
                               !.dropped = IF dropped THEN @ + 1 ELSE @]

(* The critical section of Publish and Loan finds the endpoint; an error    *)
(* there, or a payload that is too large, is a failure.                     *)
FindEndpoint(p, e, op) ==
  /\ pub[p] = NoOne /\ messages < MaxMessages
  /\ messages' = messages + 1
  /\ \/ ~pubClosed
        /\ pub' = [pub EXCEPT ![p] = [at |-> op, e |-> {e}, m |-> messages + 1]]
        /\ UNCHANGED pubStats
     \/ PubFails(FALSE) /\ UNCHANGED pub
  /\ UNCHANGED <<pubClosed, sendMutex, published, queue, subscription, reception>>

LockSend(p, e) ==
  /\ pub[p].at \in {"publish", "borrow"} /\ pub[p].e = {e} /\ e \notin sendMutex
  /\ sendMutex' = sendMutex \cup {e}
  /\ pub' = [pub EXCEPT ![p].at = IF @ = "publish" THEN "send" ELSE "lend"]
  /\ UNCHANGED <<pubClosed, pubStats, messages, published, queue, subscription,
                 reception>>

Ends(p) == pub' = [pub EXCEPT ![p] = NoOne]

Put(p, e) ==
  /\ queue' = [queue EXCEPT ![e] = Append(@, pub[p].m)]
  /\ published' = published \cup {pub[p].m}
  /\ pubStats' = [pubStats EXCEPT !.published = @ + 1]

(* channel->Send, with the mutex held until it returns. *)
Send(p, e) ==
  /\ pub[p].at = "send" /\ pub[p].e = {e} /\ ~pubClosed /\ HasSlot(e)
  /\ Put(p, e) /\ Ends(p) /\ sendMutex' = sendMutex \ {e}
  /\ UNCHANGED <<pubClosed, messages, subscription, reception>>

(* channel->Loan *)
Lend(p, e) ==
  /\ pub[p].at = "lend" /\ pub[p].e = {e} /\ ~pubClosed /\ HasSlot(e)
  /\ pub' = [pub EXCEPT ![p].at = "loan"]
  /\ sendMutex' = sendMutex \ {e}
  /\ UNCHANGED <<pubClosed, pubStats, messages, published, queue, subscription,
                 reception>>

(* No slot is free: dropped (BestEffort) or the deadline expired (Reliable);*)
(* or the channel is closed or its peer gone.                               *)
SendFails(p, e) ==
  /\ pub[p].at \in {"send", "lend"} /\ pub[p].e = {e}
  /\ \E dropped \in BOOLEAN : (dropped => ~HasSlot(e)) /\ PubFails(dropped)
  /\ Ends(p) /\ sendMutex' = sendMutex \ {e}
  /\ UNCHANGED <<pubClosed, messages, published, queue, subscription, reception>>

(* TransportPublisherLoan: Publish succeeds or fails, or Abandon. *)
LoanPublish(p, e) ==
  /\ pub[p].at = "loan" /\ pub[p].e = {e} /\ Ends(p)
  /\ \/ ~pubClosed /\ Put(p, e)
     \/ PubFails(FALSE) /\ UNCHANGED <<queue, published>>
     \/ UNCHANGED <<pubStats, queue, published>>
  /\ UNCHANGED <<pubClosed, sendMutex, messages, subscription, reception>>

(* Close of the producer's transport; it has no receivers. *)
PubClose ==
  /\ ~pubClosed /\ pubClosed' = TRUE
  /\ UNCHANGED <<pub, sendMutex, pubStats, messages, published, queue,
                 subscription, reception>>

-----------------------------------------------------------------------------
(* ReceiveCopyLoop and ReceiveLoanedLoop *)

Thread(e, at, m) == receiver' = [receiver EXCEPT ![e].at = at, ![e].m = m]

Receive(e) ==
  /\ receiver[e].at = "poll" /\ ~stopRequested[e] /\ channelOpen[e]
  /\ queue[e] # <<>>
  /\ queue' = [queue EXCEPT ![e] = Tail(@)]
  /\ Thread(e, "have", Head(queue[e]))
  /\ received' = received + 1
  /\ UNCHANGED <<producer, subscription, handed, stats>>

(* An error other than a timeout, a missing or dead peer or a closed channel. *)
ReceiveFails(e) ==
  /\ receiver[e].at = "poll" /\ ~stopRequested[e] /\ channelOpen[e]
  /\ received < MaxMessages /\ received' = received + 1
  /\ stats' = [stats EXCEPT !.dropped = @ + 1]
  /\ UNCHANGED <<producer, queue, subscription, receiver, handed>>

ReceiverExits(e) ==
  /\ receiver[e].at = "poll" /\ (stopRequested[e] \/ ~channelOpen[e])
  /\ Thread(e, "exited", 0)
  /\ UNCHANGED <<producer, queue, subscription, handed, received, stats>>

DropReceived(e) ==
  /\ stats' = [stats EXCEPT !.dropped = @ + 1]
  /\ Thread(e, "poll", 0) /\ UNCHANGED handed

(* The frame does not decode, or the callback that is copied under          *)
(* callback_mutex is empty by now; else it is called.                       *)
Dispatch(e) ==
  /\ receiver[e].at = "have"
  /\ \/ DropReceived(e)
     \/ /\ callback[e] = receiver[e].kind
        /\ Thread(e, "callback", receiver[e].m)
        /\ handed' = [handed EXCEPT ![e] = @ \cup {receiver[e].m}]
        /\ UNCHANGED stats
  /\ UNCHANGED <<producer, queue, subscription, received>>

CallbackReturns(e, throws) ==
  /\ receiver[e].at = "callback"
  /\ Thread(e, "poll", 0)
  /\ stats' = IF throws THEN [stats EXCEPT !.dropped = @ + 1]
              ELSE [stats EXCEPT !.delivered = @ + 1]
  /\ UNCHANGED <<producer, queue, subscription, handed, received>>

-----------------------------------------------------------------------------
(* Subscribe, SubscribeLoaned, Unsubscribe, Close *)

(* The thread may fail to start; the callback then stays behind. *)
Subscribe(e, kind) ==
  /\ owner.at = "idle" /\ subscribes < MaxCalls /\ subscribes' = subscribes + 1
  /\ ~closed /\ e \notin subscribed
  /\ callback' = [callback EXCEPT ![e] = kind]
  /\ \/ /\ subscribed' = subscribed \cup {e} /\ opened' = opened \cup {e}
        /\ stopRequested' = [stopRequested EXCEPT ![e] = FALSE]
        /\ receiver' = [receiver EXCEPT ![e] = [at |-> "poll", kind |-> kind, m |-> 0]]
     \/ UNCHANGED <<subscribed, opened, stopRequested, receiver>>
  /\ UNCHANGED <<producer, queue, closed, channelOpen, owner, silent, handed,
                 received, stats>>

Unsubscribe(e) ==
  /\ owner.at = "idle" /\ e \in subscribed /\ ~closed
  /\ subscribed' = subscribed \ {e}
  /\ callback' = [callback EXCEPT ![e] = "none"]
  /\ owner' = [at |-> "stop", todo |-> {e}]
  /\ UNCHANGED <<producer, queue, closed, channelOpen, stopRequested, opened,
                 subscribes, silent, reception>>

Close ==
  /\ owner.at = "idle" /\ ~closed /\ closed' = TRUE
  /\ owner' = [at |-> "stop", todo |-> Subs]
  /\ UNCHANGED <<producer, queue, subscribed, callback, channelOpen,
                 stopRequested, opened, subscribes, silent, reception>>

Joined(e) == receiver[e].at \in {"none", "exited"}

StopReceivers ==
  /\ owner.at = "stop"
  /\ stopRequested' = [e \in Subs |-> stopRequested[e] \/ e \in owner.todo]
  /\ channelOpen' = [e \in Subs |-> channelOpen[e] /\ e \notin owner.todo]
  /\ owner' = [owner EXCEPT !.at = "join"]
  /\ UNCHANGED <<producer, queue, closed, subscribed, callback, opened,
                 subscribes, silent, reception>>

JoinReceivers ==
  /\ owner.at = "join" /\ \A e \in owner.todo : Joined(e)
  /\ silent' = silent \cup owner.todo
  /\ owner' = [at |-> "idle", todo |-> {}]
  /\ UNCHANGED <<producer, queue, closed, subscribed, callback, channelOpen,
                 stopRequested, opened, subscribes, reception>>

-----------------------------------------------------------------------------

PublisherStep(p, e) ==
  \/ \E op \in {"publish", "borrow"} : FindEndpoint(p, e, op)
  \/ LockSend(p, e) \/ Send(p, e) \/ Lend(p, e) \/ SendFails(p, e) \/ LoanPublish(p, e)

ReceiverStep(e) ==
  \/ Receive(e) \/ ReceiveFails(e) \/ ReceiverExits(e) \/ Dispatch(e)
  \/ \E throws \in BOOLEAN : CallbackReturns(e, throws)

Next ==
  \/ \E p \in Publishers, e \in Subs : PublisherStep(p, e)
  \/ \E e \in Subs :
       \/ ReceiverStep(e) \/ Unsubscribe(e)
       \/ \E kind \in {"copy", "loaned"} : Subscribe(e, kind)
  \/ PubClose \/ Close \/ StopReceivers \/ JoinReceivers

Spec == Init /\ [][Next]_vars

(* Receivers and the owner run and callbacks return. *)
Fairness ==
  /\ \A e \in Subs : WF_vars(ReceiverStep(e))
  /\ WF_vars(StopReceivers) /\ WF_vars(JoinReceivers)

FairSpec == Spec /\ Fairness

-----------------------------------------------------------------------------
(* Properties *)

(* Every frame received is counted once, as delivered or dropped, and every *)
(* message published, refused or still under way.                           *)
Books ==
  /\ received = stats.delivered + stats.dropped
       + Cardinality({e \in Subs : receiver[e].at \in {"have", "callback"}})
  /\ pubStats.published = Cardinality(published)
  /\ \A e \in Subs : Len(queue[e]) + Loans(e) + Held(e) <= Slots

(* The owner is in Unsubscribe or Close, waiting for receivers. *)
InCall == owner.at # "idle"

(* The transport delivers as MessageDelivery says: an endpoint is silent    *)
(* once its Unsubscribe or Close has returned.                              *)
Delivery == INSTANCE MessageDelivery WITH Messages <- Message

ImplementsDelivery == Delivery!Spec
=============================================================================
