-------------------------------- MODULE MCTcp --------------------------------
(***************************************************************************)
(* Instances for TLC of the three programs that speak TCP: a behaviour is  *)
(* one of the publisher, of the subscriber or of the RPC server and its    *)
(* clients.  The variables of the other two keep their initial values,     *)
(* where nothing that FairSpec mentions is enabled.                        *)
(***************************************************************************)
EXTENDS TcpSubscriber

CONSTANTS
  Connections, NoSession, Cancellers, MaxSends,            \* TcpPublisher
  Clients, NoClient, ListenBacklog, MaxStarts, MaxErrors,  \* TcpRpc
  s1, c1                                 \* a connection and a client

ASSUME TcpAssumption ==
  /\ MaxSends \in Nat /\ NoSession \notin Connections /\ NoClient \notin Clients
  /\ ListenBacklog \in Nat \ {0} /\ MaxStarts \in Nat /\ MaxErrors \in Nat

VARIABLES
  part,   \* the program of this behaviour
  pubRunning, pubListening, pubAccept, pubList, pubState, pubOpen, pubRead,
  pubStrand, pubSending, pubNext, pubOut, pubWire, pubFrames, pubCancel,
  rpcRunning, rpcWorker, rpcStopping, rpcOwner, rpcStarts, rpcHandlers,
  rpcBacklog, rpcConn, rpcStats, rpcErrors, rpcCall, rpcValid, rpcUp,
  rpcDown, rpcClosed

pubVars ==
  <<pubRunning, pubListening, pubAccept, pubList, pubState, pubOpen, pubRead,
    pubStrand, pubSending, pubNext, pubOut, pubWire, pubFrames, pubCancel>>

rpcVars ==
  <<rpcRunning, rpcWorker, rpcStopping, rpcOwner, rpcStarts, rpcHandlers,
    rpcBacklog, rpcConn, rpcStats, rpcErrors, rpcCall, rpcValid, rpcUp,
    rpcDown, rpcClosed>>

Pub == INSTANCE TcpPublisher WITH
  Sessions <- Connections, MaxFrames <- MaxSends, running <- pubRunning,
  listening <- pubListening, accept <- pubAccept, list <- pubList, state <-
  pubState, open <- pubOpen, read <- pubRead, strand <- pubStrand, sending
  <- pubSending, next <- pubNext, out <- pubOut, wire <- pubWire, frames <-
  pubFrames, cancel <- pubCancel

Rpc == INSTANCE TcpRpc WITH
  running <- rpcRunning, worker <- rpcWorker, stopping <- rpcStopping, owner
  <- rpcOwner, starts <- rpcStarts, handlers <- rpcHandlers, backlog <-
  rpcBacklog, conn <- rpcConn, stats <- rpcStats, errors <- rpcErrors, call
  <- rpcCall, valid <- rpcValid, up <- rpcUp, down <- rpcDown, closed <-
  rpcClosed

MCInit ==
  /\ part \in {"publisher", "subscriber", "rpc"}
  /\ Init /\ Pub!Init /\ Rpc!Init
  /\ part # "rpc" => \A c \in Clients : rpcValid[c]

MCNext ==
  /\ UNCHANGED part
  /\ \/ part = "publisher" /\ Pub!Next /\ UNCHANGED <<vars, rpcVars>>
     \/ part = "subscriber" /\ Next /\ UNCHANGED <<pubVars, rpcVars>>
     \/ part = "rpc" /\ Rpc!Next /\ UNCHANGED <<vars, pubVars>>

MCSpec ==
  /\ MCInit /\ [][MCNext]_<<part, vars, pubVars, rpcVars>>
  /\ Fairness /\ Pub!Fairness /\ Rpc!Fairness

-----------------------------------------------------------------------------
(* Sessions are sound at both ends: a subscriber sees the handshake         *)
(* response before any data, whenever send is called; an open connection of *)
(* the publisher is in publisher_sessions_, where send and cancel find it;  *)
(* a subscriber's session that was not canceled gives up only after the     *)
(* attempts it was given failed in a row (publisher_session.cpp,            *)
(* subscriber_session_impl.cpp).                                            *)
SessionsSound == Pub!HandshakeFirst /\ Pub!OpenIsListed /\ GivesUpWhenSpent

(* The frame kept in next_buffer_to_send_ of a running session is sent by   *)
(* whichever write ends next (publisher_session.cpp, sendBufferToClient).   *)
(* Connections are interchangeable: one of them stands for all.             *)
NextIsSent == Pub!NextIsSentTo(s1)

(* After RpcServer::Stop returned, and before the next Start, no handler    *)
(* runs and no connection is held; every connection accepted and every      *)
(* request read is counted once in RpcServerStats, however it ended.        *)
ServerBooks == Rpc!QuietAfterStop /\ Rpc!BooksBalance

(* A connection in the backlog is accepted while the server runs, whatever  *)
(* the client before it does or fails to do (rpc.cpp, HandleConnection).    *)
(* Clients are interchangeable, too.                                        *)
QueuedIsAccepted == Rpc!IsAccepted(c1)
=============================================================================
