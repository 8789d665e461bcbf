------------------------------- MODULE DdsRpc -------------------------------
(***************************************************************************)
(* transport/src/dds_rpc_engine.cpp: request/response over DDS topics.     *)
(* Participants share the request and the response topic of one service:   *)
(* every participant's reader sees every response, and each participant    *)
(* numbers its requests from 1, so only GUID and number together tell      *)
(* whose a response is.  Threads call Request, a receiver thread per       *)
(* client channel completes them, one service thread answers, and one      *)
(* thread per participant calls Close.                                     *)
(*                                                                         *)
(* One action is one critical section (engine mutex, state_mutex or        *)
(* write_mutex) or one DDS call.  DDS (external) delays samples at will    *)
(* and delivers them in any order; a lost sample is one that is never      *)
(* taken, which no fairness excludes.                                      *)
(* A message is the request it belongs to; the checks of version, names    *)
(* and sizes, which only reject malformed samples, are left out.           *)
(***************************************************************************)
EXTENDS Integers, FiniteSets

CONSTANTS
  Participants,     \* client_guid of each engine
  Callers,          \* threads that call Request
  Home,             \* the participant each of them uses
  FiniteCallers,    \* those whose deadline is finite
  Closing,          \* the participants that are closed at some time
  MaxRequests       \* bound: request numbers of a participant

ASSUME RpcAssumption ==
  /\ Home \in [Callers -> Participants]
  /\ FiniteCallers \subseteq Callers
  /\ Closing \subseteq Participants
  /\ MaxRequests \in [Participants -> Nat]

NoRequest == << >>

(* The completion of a pending entry: none yet, Closed, or a response.     *)
None == << >>
Closed == <<"Closed">>

VARIABLES
  nextRequestId,   \* next_request_id of each engine
  engineClosed,    \* Impl::closed
  channelClosed,   \* ClientChannel::closed
  pending,         \* the numbers in ClientChannel::pending
  completed,       \* what a pending entry was completed with, per caller
  call,            \* where each caller is in Request
  request,         \* its request: GUID and number
  expired,         \* callers whose deadline has passed
  requests,        \* samples on the request topic
  responses,       \* samples in each participant's response reader
  receiver,        \* where each channel's receiver thread is
  service,         \* the request the service thread handles, or NoRequest
  closer,          \* where each participant's Close is
  deleted          \* participants whose reader and writer are deleted

channelVars == <<nextRequestId, engineClosed, channelClosed, pending, deleted>>
callVars == <<completed, call, request, expired>>
netVars == <<requests, responses>>
vars == <<channelVars, callVars, netVars, receiver, service, closer>>

-----------------------------------------------------------------------------
(* Faulty variants of the definitions below.  No action uses them: each is *)
(* a plausible slip in the code that breaks one of the properties.         *)
MatchesNumberOnly(p, r) == r[2] \in pending[p]
EntryLeftBehind(c) == pending
WriterNotAwaited(p) == TRUE
WaitersNotWoken(p) == call

-----------------------------------------------------------------------------
Number(c) == request[c][2]

(* The response filter and the pending lookup of ReceiveResponses.         *)
Matches(p, r) == r[1] = p /\ r[2] \in pending[p]

(* remove_pending.                                                         *)
EntryRemoved(c) == [pending EXCEPT ![Home[c]] = @ \ {Number(c)}]

(* state_changed.notify_all.                                               *)
WaitersWoken(p) ==
  [c \in Callers |-> IF Home[c] = p /\ call[c] = "asleep" THEN "wait" ELSE call[c]]

WriteMutexFree(p) == \A c \in Callers : Home[c] = p => call[c] # "writing"

(* Close locks and unlocks write_mutex to let a running dds_write finish.  *)
WriterReleased(p) == WriteMutexFree(p)

(* receiver.request_stop comes with the closed flag of the channel.        *)
StopRequested(p) == p \in channelClosed

Returns(c) ==
  /\ call' = [call EXCEPT ![c] = "idle"]
  /\ request' = [request EXCEPT ![c] = NoRequest]
  /\ completed' = [completed EXCEPT ![c] = None]
  /\ expired' = expired \ {c}

Goto(c, label) ==
  /\ call' = [call EXCEPT ![c] = label]
  /\ UNCHANGED <<completed, request, expired>>

Init ==
  /\ nextRequestId = [p \in Participants |-> 1]
  /\ engineClosed = {}
  /\ channelClosed = {}
  /\ pending = [p \in Participants |-> {}]
  /\ completed = [c \in Callers |-> None]
  /\ call = [c \in Callers |-> "idle"]
  /\ request = [c \in Callers |-> NoRequest]
  /\ expired = {}
  /\ requests = {}
  /\ responses = [p \in Participants |-> {}]
  /\ receiver = [p \in Participants |-> "taking"]
  /\ service = NoRequest
  /\ closer = [p \in Participants |-> "idle"]
  /\ deleted = {}

(* The deadline of a Request that is under way passes.                     *)
Expire(c) ==
  /\ c \in FiniteCallers \ expired
  /\ call[c] # "idle"
  /\ expired' = expired \cup {c}
  /\ UNCHANGED <<channelVars, completed, call, request, netVars,
                 receiver, service, closer>>

-----------------------------------------------------------------------------
(* Request: the channel and a number, while the engine is open.            *)
RequestBegin(c) ==
  LET p == Home[c] IN
  /\ call[c] = "idle"
  /\ p \notin engineClosed
  /\ nextRequestId[p] <= MaxRequests[p]
  /\ request' = [request EXCEPT ![c] = <<p, nextRequestId[p]>>]
  /\ nextRequestId' = [nextRequestId EXCEPT ![p] = @ + 1]
  /\ call' = [call EXCEPT ![c] = "insert"]
  /\ UNCHANGED <<engineClosed, channelClosed, pending, deleted, completed,
                 expired, netVars, receiver, service, closer>>

RequestInsert(c) ==
  /\ call[c] = "insert"
  /\ IF Home[c] \in channelClosed
     THEN Returns(c) /\ UNCHANGED pending
     ELSE /\ pending' = [pending EXCEPT ![Home[c]] = @ \cup {Number(c)}]
          /\ Goto(c, "budget")
  /\ UNCHANGED <<nextRequestId, engineClosed, channelClosed, deleted, netVars,
                 receiver, service, closer>>

RequestBudget(c) ==
  /\ call[c] = "budget"
  /\ IF c \in expired
     THEN pending' = EntryRemoved(c) /\ Returns(c)
     ELSE Goto(c, "write") /\ UNCHANGED pending
  /\ UNCHANGED <<nextRequestId, engineClosed, channelClosed, deleted, netVars,
                 receiver, service, closer>>

(* Under write_mutex: the closed check, then dds_write, which may fail.    *)
RequestLockWriter(c) ==
  /\ call[c] = "write"
  /\ WriteMutexFree(Home[c])
  /\ IF Home[c] \in channelClosed
     THEN pending' = EntryRemoved(c) /\ Returns(c)
     ELSE Goto(c, "writing") /\ UNCHANGED pending
  /\ UNCHANGED <<nextRequestId, engineClosed, channelClosed, deleted, netVars,
                 receiver, service, closer>>

RequestWrite(c) ==
  /\ call[c] = "writing"
  /\ \/ requests' = requests \cup {request[c]} /\ Goto(c, "wait")
     \/ UNCHANGED requests /\ Goto(c, "failed")
  /\ UNCHANGED <<channelVars, responses, receiver, service, closer>>

RequestFailed(c) ==
  /\ call[c] = "failed"
  /\ pending' = EntryRemoved(c)
  /\ Returns(c)
  /\ UNCHANGED <<nextRequestId, engineClosed, channelClosed, deleted, netVars,
                 receiver, service, closer>>

(* The wait under state_mutex: look, then sleep until notified or late.    *)
RequestSleep(c) ==
  /\ call[c] = "wait"
  /\ completed[c] = None
  /\ c \notin expired
  /\ Goto(c, "asleep")
  /\ UNCHANGED <<channelVars, netVars, receiver, service, closer>>

RequestCompleted(c) ==
  /\ \/ call[c] = "wait"
     \/ call[c] = "asleep" /\ c \in expired
  /\ completed[c] # None
  /\ Returns(c)
  /\ UNCHANGED <<channelVars, netVars, receiver, service, closer>>

RequestTimeout(c) ==
  /\ call[c] \in {"wait", "asleep"}
  /\ c \in expired
  /\ completed[c] = None
  /\ pending' = EntryRemoved(c)
  /\ Returns(c)
  /\ UNCHANGED <<nextRequestId, engineClosed, channelClosed, deleted, netVars,
                 receiver, service, closer>>

-----------------------------------------------------------------------------
(* ReceiveResponses: take a sample; complete the entry it matches, and     *)
(* notify after the unlock; drop any other.                                *)
ReceiveMatched(p) ==
  /\ receiver[p] = "taking"
  /\ \E r \in responses[p] :
       /\ Matches(p, r)
       /\ completed' = [c \in Callers |->
                          IF Home[c] = p /\ request[c] # NoRequest
                             /\ Number(c) = r[2]
                          THEN r ELSE completed[c]]
       /\ pending' = [pending EXCEPT ![p] = @ \ {r[2]}]
       /\ responses' = [responses EXCEPT ![p] = @ \ {r}]
  /\ receiver' = [receiver EXCEPT ![p] = "notify"]
  /\ UNCHANGED <<nextRequestId, engineClosed, channelClosed, deleted, call,
                 request, expired, requests, service, closer>>

ReceiveDropped(p) ==
  /\ receiver[p] = "taking"
  /\ \E r \in responses[p] :
       /\ ~Matches(p, r)
       /\ responses' = [responses EXCEPT ![p] = @ \ {r}]
  /\ UNCHANGED <<channelVars, callVars, requests, receiver, service, closer>>

ReceiveNotify(p) ==
  /\ receiver[p] = "notify"
  /\ call' = WaitersWoken(p)
  /\ receiver' = [receiver EXCEPT ![p] = "taking"]
  /\ UNCHANGED <<channelVars, completed, request, expired, netVars,
                 service, closer>>

(* The loop ends between two samples once the stop was requested.          *)
ReceiveStop(p) ==
  /\ receiver[p] = "taking"
  /\ StopRequested(p)
  /\ receiver' = [receiver EXCEPT ![p] = "stopped"]
  /\ UNCHANGED <<channelVars, callVars, netVars, service, closer>>

(* ReceiveRequests: the service thread takes a request, calls the handler  *)
(* and writes the response, which every participant's reader gets.         *)
ServiceTake ==
  /\ service = NoRequest
  /\ \E r \in requests :
       /\ service' = r
       /\ requests' = requests \ {r}
  /\ UNCHANGED <<channelVars, callVars, responses, receiver, closer>>

ServiceRespond ==
  /\ service # NoRequest
  /\ responses' = [p \in Participants |->
                     IF p \in deleted THEN responses[p]
                     ELSE responses[p] \cup {service}]
  /\ service' = NoRequest
  /\ UNCHANGED <<channelVars, callVars, requests, receiver, closer>>

-----------------------------------------------------------------------------
(* Close and CloseClient.                                                  *)
CloseEngine(p) ==
  /\ closer[p] = "idle"
  /\ p \in Closing
  /\ engineClosed' = engineClosed \cup {p}
  /\ closer' = [closer EXCEPT ![p] = "channel"]
  /\ UNCHANGED <<nextRequestId, channelClosed, pending, deleted, callVars,
                 netVars, receiver, service>>

CloseChannel(p) ==
  /\ closer[p] = "channel"
  /\ channelClosed' = channelClosed \cup {p}
  /\ closer' = [closer EXCEPT ![p] = "complete"]
  /\ UNCHANGED <<nextRequestId, engineClosed, pending, deleted, callVars,
                 netVars, receiver, service>>

CloseComplete(p) ==
  /\ closer[p] = "complete"
  /\ completed' = [c \in Callers |->
                     IF /\ Home[c] = p
                        /\ request[c] # NoRequest
                        /\ Number(c) \in pending[p]
                     THEN Closed ELSE completed[c]]
  /\ pending' = [pending EXCEPT ![p] = {}]
  /\ closer' = [closer EXCEPT ![p] = "notify"]
  /\ UNCHANGED <<nextRequestId, engineClosed, channelClosed, deleted, call,
                 request, expired, netVars, receiver, service>>

CloseNotify(p) ==
  /\ closer[p] = "notify"
  /\ call' = WaitersWoken(p)
  /\ closer' = [closer EXCEPT ![p] = "writer"]
  /\ UNCHANGED <<channelVars, completed, request, expired, netVars,
                 receiver, service>>

CloseWriter(p) ==
  /\ closer[p] = "writer"
  /\ WriterReleased(p)
  /\ closer' = [closer EXCEPT ![p] = "join"]
  /\ UNCHANGED <<channelVars, callVars, netVars, receiver, service>>

CloseJoin(p) ==
  /\ closer[p] = "join"
  /\ receiver[p] = "stopped"
  /\ deleted' = deleted \cup {p}
  /\ responses' = [responses EXCEPT ![p] = {}]
  /\ closer' = [closer EXCEPT ![p] = "closed"]
  /\ UNCHANGED <<nextRequestId, engineClosed, channelClosed, pending, callVars,
                 requests, receiver, service>>

-----------------------------------------------------------------------------
RequestStep(c) ==
  \/ RequestInsert(c) \/ RequestBudget(c) \/ RequestLockWriter(c)
  \/ RequestWrite(c) \/ RequestFailed(c) \/ RequestSleep(c)
  \/ RequestCompleted(c) \/ RequestTimeout(c)
ReceiverStep(p) ==
  ReceiveMatched(p) \/ ReceiveDropped(p) \/ ReceiveNotify(p) \/ ReceiveStop(p)
CloseStep(p) ==
  \/ CloseChannel(p) \/ CloseComplete(p) \/ CloseNotify(p)
  \/ CloseWriter(p) \/ CloseJoin(p)

Next ==
  \/ \E c \in Callers : Expire(c) \/ RequestBegin(c) \/ RequestStep(c)
  \/ \E p \in Participants : ReceiverStep(p) \/ CloseEngine(p) \/ CloseStep(p)
  \/ ServiceTake \/ ServiceRespond

Spec == Init /\ [][Next]_vars

(* Threads that can run do.  No sample has to arrive, no service to answer *)
(* and no deadline to pass; a receiver told to stop sees it between two    *)
(* samples, of which finitely many are left.                               *)
FairSpec ==
  /\ Spec
  /\ \A c \in Callers : WF_vars(RequestStep(c))
  /\ \A p \in Participants : WF_vars(ReceiverStep(p)) /\ WF_vars(CloseStep(p))

-----------------------------------------------------------------------------
Live(c) ==
  /\ call[c] \in {"budget", "write", "writing", "failed", "wait", "asleep"}
  /\ completed[c] = None

(* The pending map holds exactly the requests that are under way and not   *)
(* completed: no exit of Request, no response and no Close leaves an entry *)
(* behind, and none loses the entry of a call that still waits.            *)
PendingIsLive ==
  \A p \in Participants :
    pending[p] = {Number(c) : c \in {d \in Callers : Home[d] = p /\ Live(d)}}

(* A Request that returns a response returns the one to its own request,   *)
(* although every participant sees all responses and numbers repeat        *)
(* (docs/architecture.md: a response must not complete a call of another   *)
(* GUID or request ID, nor one that has timed out).                        *)
OwnResponse ==
  \A c \in Callers :
    (completed[c] \notin {None, Closed}) =>
      completed[c] = request[c]

(* dds_write is never called on a writer that Close has deleted, however   *)
(* Request and Close interleave.                                           *)
NoWriteAfterDelete ==
  \A c \in Callers : call[c] = "writing" => Home[c] \notin deleted

(* Close returns, it never waits for a thread that waits for it, and it    *)
(* releases every Request that is under way, also one whose deadline is    *)
(* infinite and whose response was lost.  (closer leaves "idle" for good,  *)
(* and after that no Request begins.)                                      *)
CloseReleasesCallers ==
  []<>(\A p \in Participants :
         \/ closer[p] = "idle"
         \/ /\ closer[p] = "closed"
            /\ \A c \in Callers : Home[c] = p => call[c] = "idle")
=============================================================================
