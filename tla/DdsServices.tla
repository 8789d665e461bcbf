----------------------------- MODULE DdsServices -----------------------------
(***************************************************************************)
(* transport/src/dds_rpc_engine.cpp, the services of one engine:           *)
(* AdvertiseService, RemoveService, Close and the receiver thread of each  *)
(* endpoint (its Request side is DdsRpc).  The maps change under the       *)
(* engine's mutex; an endpoint that was taken out of them is closed, and   *)
(* its thread joined, without it.                                          *)
(*                                                                         *)
(* The callback of a service is Service::Impl::Invoke, which waits for a   *)
(* handler on the executor.  The handler may itself call Request on this   *)
(* engine, or remove its own service; all other calls come from threads    *)
(* that run no handler.                                                    *)
(***************************************************************************)
EXTENDS Integers, FiniteSets

CONSTANTS
  Callers,      \* threads that call the engine
  NoCaller,     \* no caller
  Services,     \* service ids
  Names,        \* service names
  MaxRequests   \* bound: requests taken by all receivers

VARIABLES
  closed,         \* closed
  services,       \* services and service_names: the name of each id
  issued,         \* ids below next_service_id
  endpoint,       \* where each receiver thread is
  awaited,        \* the caller that the callback of each waits for, if any
  stop,           \* endpoints whose stop was requested
  deleted,        \* endpoints whose reader and writer are deleted
  clientsClosed,  \* Close has closed the client channels
  call,           \* what each caller is in the middle of
  requests        \* requests taken so far

registry == <<closed, services, issued>>
threads == <<endpoint, awaited, requests>>
teardown == <<stop, deleted, clientsClosed>>
vars == <<registry, threads, teardown, call>>

Idle == [at |-> "idle", todo |-> {}]

Init ==
  /\ closed = FALSE /\ services = [i \in {} |-> {}] /\ issued = {}
  /\ endpoint = [i \in Services |-> "none"]
  /\ awaited = [i \in Services |-> NoCaller]
  /\ stop = {} /\ deleted = {} /\ clientsClosed = FALSE
  /\ call = [c \in Callers |-> Idle]
  /\ requests = 0

-----------------------------------------------------------------------------
(* AdvertiseService, RemoveService, Close *)

Advertised == {services[i] : i \in DOMAIN services}
Without(i) == [j \in DOMAIN services \ {i} |-> services[j]]

(* Topics, reader, writer or thread may fail; the id is then spent. *)
AdvertiseService(c, i, name) ==
  /\ call[c] = Idle /\ ~closed /\ name \notin Advertised /\ i \notin issued
  /\ issued' = issued \cup {i}
  /\ \/ /\ services' = [j \in DOMAIN services \cup {i} |->
                          IF j = i THEN name ELSE services[j]]
        /\ endpoint' = [endpoint EXCEPT ![i] = "poll"]
     \/ UNCHANGED <<services, endpoint>>
  /\ UNCHANGED <<closed, awaited, requests, teardown, call>>

Remove(c, i) ==
  /\ call[c] = Idle /\ ~closed /\ i \in DOMAIN services
  /\ services' = Without(i)
  /\ call' = [call EXCEPT ![c] = [at |-> "services", todo |-> {i}]]
  /\ UNCHANGED <<closed, issued, endpoint, requests, teardown>>

RemoveService(c, i) == Remove(c, i) /\ UNCHANGED awaited

(* The caller runs the handler of a request to the service, and Invoke has  *)
(* an infinite deadline: it waits until the handler is done.                *)
RemoveOwnService(c, i) ==
  /\ endpoint[i] = "callback" /\ awaited[i] = NoCaller
  /\ Remove(c, i) /\ awaited' = [awaited EXCEPT ![i] = c]

Close(c) ==
  /\ call[c] = Idle /\ ~closed /\ closed' = TRUE
  /\ call' = [call EXCEPT ![c] = [at |-> "clients", todo |-> DOMAIN services]]
  /\ services' = [i \in {} |-> {}]
  /\ UNCHANGED <<issued, threads, teardown>>

(* CloseClient for every channel: it completes the requests under way. *)
CloseClients(c) ==
  /\ call[c].at = "clients" /\ clientsClosed' = TRUE
  /\ call' = [call EXCEPT ![c].at = "services"]
  /\ UNCHANGED <<registry, threads, stop, deleted>>

(* CloseService, for one endpoint after the other. *)
CloseService(c, i) ==
  /\ call[c].at = "services" /\ i \in call[c].todo /\ i \notin stop
  /\ call[c].todo \cap stop = {}
  /\ stop' = stop \cup {i}
  /\ UNCHANGED <<registry, threads, deleted, clientsClosed, call>>

JoinService(c, i) ==
  /\ call[c].at = "services" /\ i \in call[c].todo \cap stop
  /\ endpoint[i] = "exited"
  /\ deleted' = deleted \cup {i}
  /\ call' = [call EXCEPT ![c].todo = @ \ {i}]
  /\ UNCHANGED <<registry, threads, stop, clientsClosed>>

CallReturns(c) ==
  /\ call[c].at = "services" /\ call[c].todo = {}
  /\ call' = [call EXCEPT ![c] = Idle]
  /\ UNCHANGED <<registry, threads, teardown>>

-----------------------------------------------------------------------------
(* ReceiveRequests *)

Moves(i, from, to) == endpoint[i] = from /\ endpoint' = [endpoint EXCEPT ![i] = to]

(* A request whose budget has expired is answered without the callback. *)
TakeRequest(i) ==
  /\ i \notin stop /\ requests < MaxRequests /\ requests' = requests + 1
  /\ Moves(i, "poll", "callback") \/ Moves(i, "poll", "respond")
  /\ UNCHANGED <<registry, awaited, teardown, call>>

(* The handler calls Request, without a deadline, and waits for a response  *)
(* or for the channel to be closed.                                         *)
HandlerRequests(i) ==
  /\ ~closed /\ awaited[i] = NoCaller /\ Moves(i, "callback", "request")
  /\ UNCHANGED <<registry, awaited, requests, teardown, call>>

RequestReturns(i) ==
  /\ Moves(i, "request", "callback")
  /\ UNCHANGED <<registry, awaited, requests, teardown, call>>

CallbackReturns(i) ==
  /\ awaited[i] # NoCaller => call[awaited[i]] = Idle
  /\ Moves(i, "callback", "respond")
  /\ UNCHANGED <<registry, awaited, requests, teardown, call>>

WriteResponse(i) ==
  /\ Moves(i, "respond", "poll")
  /\ UNCHANGED <<registry, awaited, requests, teardown, call>>

ReceiverExits(i) ==
  /\ i \in stop /\ Moves(i, "poll", "exited")
  /\ UNCHANGED <<registry, awaited, requests, teardown, call>>

-----------------------------------------------------------------------------

CallStep(c) ==
  \/ CloseClients(c) \/ CallReturns(c)
  \/ \E i \in Services : CloseService(c, i) \/ JoinService(c, i)

ReceiverStep(i) ==
  \/ TakeRequest(i) \/ CallbackReturns(i) \/ WriteResponse(i) \/ ReceiverExits(i)

Next ==
  \/ \E c \in Callers :
       \/ Close(c) \/ CallStep(c)
       \/ \E i \in Services :
            \/ RemoveService(c, i) \/ RemoveOwnService(c, i)
            \/ \E name \in Names : AdvertiseService(c, i, name)
  \/ \E i \in Services : ReceiverStep(i) \/ HandlerRequests(i) \/ RequestReturns(i)

Spec == Init /\ [][Next]_vars

(* Threads run and handlers return; a request that a handler made is ended  *)
(* by the closing of its channel and by nothing else that could be relied   *)
(* on.                                                                      *)
Fairness ==
  /\ \A c \in Callers : WF_vars(CallStep(c))
  /\ \A i \in Services :
       WF_vars(ReceiverStep(i)) /\ WF_vars(clientsClosed /\ RequestReturns(i))

FairSpec == Spec /\ Fairness

-----------------------------------------------------------------------------
(* Properties *)

(* A service that can be found by its name is served, by one endpoint; the  *)
(* reader and the writer of an endpoint are deleted only when its thread,   *)
(* which takes from the one and writes to the other, has ended.             *)
EndpointsSound ==
  /\ \A i, j \in DOMAIN services : services[i] = services[j] => i = j
  /\ \A i \in DOMAIN services : endpoint[i] \notin {"none", "exited"} /\ i \notin stop
  /\ \A i \in deleted : endpoint[i] = "exited"

(* A call that waits, unless it waits for itself, having removed the        *)
(* service whose handler it runs, or for a handler that waits for a         *)
(* response while the engine is open.                                       *)
InCall(c) ==
  /\ call[c] # Idle
  /\ \A i \in call[c].todo : awaited[i] # c /\ (endpoint[i] = "request" => closed)
=============================================================================
