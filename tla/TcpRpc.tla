-------------------------------- MODULE TcpRpc --------------------------------
(***************************************************************************)
(* distributed/src/rpc.cpp: RpcServer, one worker thread that accepts and  *)
(* handles one connection at a time, its owner's Start and Stop, and       *)
(* RpcClient::Call, one connection per call.  A frame is read and written  *)
(* in two parts, its header and the rest.  A deadline may expire, a stop   *)
(* token fire and a connection break at any wait; what the peer finds then *)
(* is modelled by the connection being closed.                             *)
(***************************************************************************)
EXTENDS Integers, Sequences

CONSTANTS
  Clients,      \* calls of RpcClient::Call, or peers that write something else
  NoClient,     \* the worker has no connection
  ListenBacklog,\* listen_backlog
  MaxStarts,    \* bound: calls to Start
  MaxErrors     \* bound: errors of poll and accept

VARIABLES
  running,    \* running
  worker,     \* where the worker thread is
  stopping,   \* its stop token
  owner,      \* where the thread that calls Start and Stop is
  starts,     \* calls to Start
  handlers,   \* handlers has the method of the calls
  backlog,    \* connections the kernel has accepted for the listener
  conn,       \* the connection HandleConnection works on
  stats,      \* RpcServerStats
  errors,     \* errors of poll and accept, the ones without a connection
  call,       \* where each client is
  valid,      \* it writes a request within the server's bounds
  up,         \* parts of the request it has written
  down,       \* the response is there to be read
  closed      \* the server has closed its connection

server == <<running, worker, stopping, owner, starts, handlers, conn, stats,
            errors>>
client == <<call, valid, up>>
vars == <<server, backlog, client, down, closed>>

NoStats == [accepted |-> 0, requests |-> 0, responses |-> 0, malformed |-> 0,
            handlerFailures |-> 0, ioFailures |-> 0]

Init ==
  /\ running = FALSE /\ worker = "none" /\ stopping = FALSE
  /\ owner = "idle" /\ starts = 0 /\ handlers = FALSE
  /\ backlog = <<>> /\ conn = NoClient
  /\ stats = NoStats /\ errors = 0
  /\ call = [c \in Clients |-> "idle"]
  /\ valid \in [Clients -> BOOLEAN]
  /\ up = [c \in Clients |-> 0]
  /\ down = [c \in Clients |-> FALSE]
  /\ closed = [c \in Clients |-> FALSE]

-----------------------------------------------------------------------------
(* RpcClient::Call *)

At(c, stage) == call' = [call EXCEPT ![c] = stage]

(* The arguments are checked, the socket is made and connect is called. *)
Call(c) ==
  /\ call[c] = "idle" /\ At(c, "connect")
  /\ UNCHANGED <<server, backlog, valid, up, down, closed>>

Connected(c) ==
  /\ call[c] = "connect" /\ Len(backlog) < ListenBacklog
  /\ backlog' = Append(backlog, c)
  /\ At(c, "write")
  /\ UNCHANGED <<server, valid, up, down, closed>>

WritePart(c) ==
  /\ call[c] = "write" /\ ~closed[c]
  /\ up' = [up EXCEPT ![c] = @ + 1]
  /\ At(c, IF up[c] = 1 THEN "read" ELSE "write")
  /\ UNCHANGED <<server, backlog, valid, down, closed>>

Returns(c) == At(c, "returned") /\ UNCHANGED <<server, backlog, valid, up, down, closed>>

(* The whole response was read; its status code is the one of the call. *)
ReadResponse(c) == call[c] = "read" /\ down[c] /\ Returns(c)

(* A wait of Call ends without what it waits for: the deadline passed, stop *)
(* was requested or the server closed the connection.  The first can be at  *)
(* any time.                                                                *)
CallFails(c) == call[c] \in {"connect", "write", "read"} /\ Returns(c)

-----------------------------------------------------------------------------
(* Impl::Run *)

Count(field) == stats' = [stats EXCEPT ![field] = @ + 1]

Accept ==
  /\ worker = "poll" /\ ~stopping /\ backlog # <<>>
  /\ conn' = Head(backlog) /\ backlog' = Tail(backlog)
  /\ Count("accepted")
  /\ worker' = "header"
  /\ UNCHANGED <<running, stopping, owner, starts, handlers, errors,
                 client, down, closed>>

(* poll or accept fails, or the new connection cannot be made nonblocking. *)
AcceptFails ==
  /\ worker = "poll" /\ ~stopping /\ errors < MaxErrors
  /\ errors' = errors + 1
  /\ Count("ioFailures")
  /\ \/ UNCHANGED <<backlog, closed>>
     \/ /\ backlog # <<>> /\ backlog' = Tail(backlog)
        /\ closed' = [closed EXCEPT ![Head(backlog)] = TRUE]
  /\ UNCHANGED <<running, worker, stopping, owner, starts, handlers, conn,
                 client, down>>

WorkerExits ==
  /\ worker = "poll" /\ stopping
  /\ worker' = "exited"
  /\ UNCHANGED <<running, stopping, owner, starts, handlers, conn, stats,
                 errors, backlog, client, down, closed>>

-----------------------------------------------------------------------------
(* Impl::HandleConnection *)

(* It returns, and Run closes the connection and polls again. *)
ConnectionDone ==
  /\ worker' = "poll" /\ conn' = NoClient
  /\ closed' = [closed EXCEPT ![conn] = TRUE]

ReadHeader ==
  /\ worker = "header" /\ up[conn] >= 1
  /\ IF valid[conn]
     THEN worker' = "body" /\ UNCHANGED <<conn, closed, stats>>
     ELSE Count("malformed") /\ ConnectionDone
  /\ UNCHANGED <<running, stopping, owner, starts, handlers, errors, backlog,
                 client, down>>

(* The rest was read and the handler is looked up: there is none, or the    *)
(* request's deadline, which starts only now, has expired at once.          *)
Dispatch ==
  /\ worker = "body" /\ up[conn] = 2
  /\ \/ handlers /\ worker' = "handler" /\ Count("requests")
     \/ /\ worker' = "reply"
        /\ stats' = [stats EXCEPT !.requests = @ + 1, !.handlerFailures = @ + 1]
  /\ UNCHANGED <<running, stopping, owner, starts, handlers, conn, errors,
                 backlog, client, down, closed>>

(* The handler returns a payload, one that is too large, a status, or it    *)
(* throws.                                                                  *)
HandlerReturns ==
  /\ worker = "handler" /\ worker' = "reply"
  /\ UNCHANGED stats \/ Count("handlerFailures")
  /\ UNCHANGED <<running, stopping, owner, starts, handlers, conn, errors,
                 backlog, client, down, closed>>

WriteResponse ==
  /\ worker = "reply"
  /\ down' = [down EXCEPT ![conn] = TRUE]
  /\ Count("responses") /\ ConnectionDone
  /\ UNCHANGED <<running, stopping, owner, starts, handlers, errors, backlog,
                 client>>

(* Faulty variant: a client that writes nothing is waited for. *)
IoDeadline_None == call[conn] = "returned" \/ stopping

(* The wait of ReadExact or WriteExact ends without the bytes: io_timeout   *)
(* passed, stop was requested, or the client closed the connection.  The    *)
(* first can be at any time.                                                *)
IoDeadline == TRUE

IoFails ==
  /\ worker \in {"header", "body", "reply"} /\ IoDeadline
  /\ Count("ioFailures") /\ ConnectionDone
  /\ UNCHANGED <<running, stopping, owner, starts, handlers, errors, backlog,
                 client, down>>

-----------------------------------------------------------------------------
(* RegisterHandler, Start and Stop *)

RegisterHandler ==
  /\ ~handlers /\ handlers' = TRUE
  /\ UNCHANGED <<running, worker, stopping, owner, starts, conn, stats,
                 errors, backlog, client, down, closed>>

Start ==
  /\ owner = "idle" /\ ~running /\ starts < MaxStarts
  /\ running' = TRUE /\ starts' = starts + 1
  /\ worker' = "poll" /\ stopping' = FALSE
  /\ UNCHANGED <<owner, handlers, conn, stats, errors, backlog, client,
                 down, closed>>

(* Faulty variant: the worker is not joined. *)
StopJoins_Not == TRUE

StopJoins == worker = "exited"

Stop ==
  /\ owner = "idle" /\ running
  /\ running' = FALSE /\ stopping' = TRUE
  /\ owner' = "join"
  /\ UNCHANGED <<worker, starts, handlers, conn, stats, errors, backlog,
                 client, down, closed>>

StopReturns ==
  /\ owner = "join" /\ StopJoins
  /\ owner' = "idle"
  /\ UNCHANGED <<running, worker, stopping, starts, handlers, conn, stats,
                 errors, backlog, client, down, closed>>

-----------------------------------------------------------------------------

ClientStep(c) ==
  Call(c) \/ Connected(c) \/ WritePart(c) \/ ReadResponse(c) \/ CallFails(c)

WorkerStep ==
  \/ Accept \/ WorkerExits \/ ReadHeader \/ Dispatch \/ HandlerReturns
  \/ WriteResponse \/ IoFails

Next ==
  \/ \E c \in Clients : ClientStep(c)
  \/ WorkerStep \/ AcceptFails
  \/ RegisterHandler \/ Start \/ Stop \/ StopReturns

Spec == Init /\ [][Next]_vars

(* The worker runs, handlers return and Stop goes on.  No client is assumed *)
(* to write or read anything, nor to close its connection.                  *)
Fairness == WF_vars(WorkerStep) /\ WF_vars(StopReturns)

FairSpec == Spec /\ Fairness

-----------------------------------------------------------------------------
(* Properties *)

(* Every accepted connection is counted once, as malformed, as answered or  *)
(* as an I/O failure, and every request read as answered or failed, however *)
(* its peer behaves and whenever Stop comes (the early returns of           *)
(* HandleConnection).                                                       *)
BooksBalance ==
  LET current == IF conn = NoClient THEN 0 ELSE 1
  IN /\ stats.accepted =
          stats.malformed + stats.responses + (stats.ioFailures - errors) + current
     /\ stats.responses <= stats.requests
     /\ stats.handlerFailures <= stats.requests

(* After Stop returned, and before the next Start, no handler runs and no   *)
(* connection is held (Stop joins the worker).                              *)
QuietAfterStop ==
  ~running /\ owner = "idle" => conn = NoClient /\ worker # "handler"

(* A connection in the backlog is accepted while the server runs, whatever  *)
(* the connection before it does: a client that writes nothing holds the    *)
(* only worker for io_timeout at most.                                      *)
IsAccepted(c) ==
  (\E i \in DOMAIN backlog : backlog[i] = c) /\ running
    ~> ~running \/ \A i \in DOMAIN backlog : backlog[i] # c

=============================================================================
