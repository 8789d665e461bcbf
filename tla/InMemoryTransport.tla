-------------------------- MODULE InMemoryTransport --------------------------
(***************************************************************************)
(* transport/src/in_memory_transport.cpp.  Publish copies the callbacks    *)
(* under the mutex and calls them after it: a callback may be entered      *)
(* after its Unsubscribe has returned.  Messages are of one topic.         *)
(***************************************************************************)
EXTENDS Integers, FiniteSetsExt

CONSTANTS
  Subs,         \* subscription ids
  Callers,      \* threads that call Publish and Request
  Services,     \* service ids
  Names,        \* service names
  MaxMessages,  \* bound: calls to Publish
  MaxRequests   \* bound: calls to Request

VARIABLES
  closed,         \* closed
  subscriptions,  \* subscriptions
  opened,         \* ids given out so far
  services,       \* services: the name of each advertised id
  serviceNames,   \* service_names: the id of each name
  retired,        \* service ids that were removed
  calling,        \* what each caller is in the middle of
  messages,       \* calls to Publish so far
  requests,       \* calls to Request so far
  accepted,       \* messages counted in published_messages
  handed,         \* messages given to each subscription's callback
  answered,       \* requests whose callback returned a response
  stats           \* TransportStats

vars == <<closed, subscriptions, opened, services, serviceNames, retired,
          calling, messages, requests, accepted, handed, answered, stats>>

Message == 1..MaxMessages
Idle == [at |-> "idle", todo |-> {}, delivered |-> 0, failed |-> 0, m |-> 0]
Empty == [x \in {} |-> x]

Init ==
  /\ closed = FALSE /\ subscriptions = {} /\ opened = {}
  /\ services = Empty /\ serviceNames = Empty /\ retired = {}
  /\ calling = [c \in Callers |-> Idle]
  /\ messages = 0 /\ requests = 0 /\ accepted = {} /\ answered = 0
  /\ handed = [s \in Subs |-> {}]
  /\ stats = [published |-> 0, publishFailures |-> 0, delivered |-> 0,
              dropped |-> 0, rpcRequests |-> 0, rpcFailures |-> 0]

registry == <<closed, subscriptions, opened, services, serviceNames, retired>>

-----------------------------------------------------------------------------
(* Publish: the critical section, the callbacks, the counters *)

Publish(c) ==
  /\ calling[c] = Idle /\ messages < MaxMessages
  /\ messages' = messages + 1
  /\ IF closed
     THEN /\ stats' = [stats EXCEPT !.publishFailures = @ + 1]
          /\ UNCHANGED <<calling, accepted>>
     ELSE /\ stats' = [stats EXCEPT !.published = @ + 1]
          /\ accepted' = accepted \cup {messages + 1}
          /\ calling' = [calling EXCEPT ![c] =
               [Idle EXCEPT !.at = "publish", !.todo = subscriptions,
                            !.m = messages + 1]]
  /\ UNCHANGED <<registry, requests, handed, answered>>

Callback(c, s, throws) ==
  /\ calling[c].at = "publish" /\ s \in calling[c].todo
  /\ handed' = [handed EXCEPT ![s] = @ \cup {calling[c].m}]
  /\ calling' = [calling EXCEPT ![c].todo = @ \ {s},
                                ![c].delivered = IF throws THEN @ ELSE @ + 1,
                                ![c].failed = IF throws THEN @ + 1 ELSE @]
  /\ UNCHANGED <<registry, messages, requests, accepted, answered, stats>>

(* Faulty variant: a callback that threw is not counted. *)
Counted_Thrown(call) == [stats EXCEPT !.delivered = @ + call.delivered]

Counted(call) ==
  [stats EXCEPT !.delivered = @ + call.delivered, !.dropped = @ + call.failed]

PublishReturns(c) ==
  /\ calling[c].at = "publish" /\ calling[c].todo = {}
  /\ stats' = Counted(calling[c])
  /\ calling' = [calling EXCEPT ![c] = Idle]
  /\ UNCHANGED <<registry, messages, requests, accepted, handed, answered>>

-----------------------------------------------------------------------------
(* Subscriptions and services, under the mutex *)

Subscribe(s) ==
  /\ ~closed /\ s \notin opened
  /\ opened' = opened \cup {s} /\ subscriptions' = subscriptions \cup {s}
  /\ UNCHANGED <<closed, services, serviceNames, retired, calling, messages,
                 requests, accepted, handed, answered, stats>>

Unsubscribe(s) ==
  /\ s \in subscriptions /\ subscriptions' = subscriptions \ {s}
  /\ UNCHANGED <<closed, opened, services, serviceNames, retired, calling,
                 messages, requests, accepted, handed, answered, stats>>

Without(f, x) == [y \in DOMAIN f \ {x} |-> f[y]]
With(f, x, v) == [y \in DOMAIN f \cup {x} |-> IF y = x THEN v ELSE f[y]]

AdvertiseService(i, name) ==
  /\ ~closed /\ name \notin DOMAIN serviceNames
  /\ i \notin DOMAIN services \cup retired
  /\ services' = With(services, i, name)
  /\ serviceNames' = With(serviceNames, name, i)
  /\ UNCHANGED <<closed, subscriptions, opened, retired, calling, messages,
                 requests, accepted, handed, answered, stats>>

RemoveService(i) ==
  /\ i \in DOMAIN services
  /\ services' = Without(services, i)
  /\ serviceNames' = Without(serviceNames, services[i])
  /\ retired' = retired \cup {i}
  /\ UNCHANGED <<closed, subscriptions, opened, calling, messages, requests,
                 accepted, handed, answered, stats>>

Close ==
  /\ ~closed /\ closed' = TRUE
  /\ subscriptions' = {} /\ services' = Empty /\ serviceNames' = Empty
  /\ retired' = retired \cup DOMAIN services
  /\ UNCHANGED <<opened, calling, messages, requests, accepted, handed, answered, stats>>

(* Request: the lookup, then the callback's answer or failure. *)
Request(c, name) ==
  /\ calling[c] = Idle /\ requests < MaxRequests
  /\ requests' = requests + 1
  /\ IF closed \/ name \notin DOMAIN serviceNames
     THEN /\ stats' = [stats EXCEPT !.rpcFailures = @ + 1]
          /\ UNCHANGED calling
     ELSE /\ stats' = [stats EXCEPT !.rpcRequests = @ + 1]
          /\ calling' = [calling EXCEPT ![c] = [Idle EXCEPT !.at = "request"]]
  /\ UNCHANGED <<registry, messages, accepted, handed, answered>>

RequestReturns(c, ok) ==
  /\ calling[c].at = "request"
  /\ calling' = [calling EXCEPT ![c] = Idle]
  /\ answered' = IF ok THEN answered + 1 ELSE answered
  /\ stats' = IF ok THEN stats ELSE [stats EXCEPT !.rpcFailures = @ + 1]
  /\ UNCHANGED <<registry, messages, requests, accepted, handed>>

Next ==
  \/ \E c \in Callers :
       \/ Publish(c) \/ PublishReturns(c)
       \/ \E s \in Subs, throws \in BOOLEAN : Callback(c, s, throws)
       \/ \E name \in Names : Request(c, name)
       \/ \E ok \in BOOLEAN : RequestReturns(c, ok)
  \/ \E s \in Subs : Subscribe(s) \/ Unsubscribe(s)
  \/ \E i \in Services :
       RemoveService(i) \/ \E name \in Names : AdvertiseService(i, name)
  \/ Close

Spec == Init /\ [][Next]_vars

-----------------------------------------------------------------------------
(* Properties *)

(* When no call is under way every callback entered was counted as          *)
(* delivered or dropped and every request as answered or failed, and the    *)
(* two service maps agree, whatever was removed or closed in between.       *)
Books ==
  /\ (\A c \in Callers : calling[c] = Idle) =>
       /\ stats.delivered + stats.dropped
            = FoldSet(LAMBDA s, n : n + Cardinality(handed[s]), 0, Subs)
       /\ answered + stats.rpcFailures = requests
  /\ \A i \in DOMAIN services :
       services[i] \in DOMAIN serviceNames /\ serviceNames[services[i]] = i
  /\ \A name \in DOMAIN serviceNames :
       serviceNames[name] \in DOMAIN services /\ services[serviceNames[name]] = name

(* The transport delivers as MessageDelivery says, without the silence      *)
(* after Unsubscribe.                                                       *)
Delivery ==
  INSTANCE MessageDelivery WITH
    Messages <- Message,
    published <- accepted,
    silent <- {}

ImplementsDelivery == Delivery!Spec
=============================================================================
