---------------------------- MODULE MCTransports ----------------------------
(***************************************************************************)
(* Instances for TLC of the three transports, of the services of the DDS   *)
(* transport, of the recording transport and of the replayer: a behaviour  *)
(* is one of one of them.  The variables of the others keep their initial  *)
(* values, where nothing that MCSpec is fair to is enabled.                *)
(***************************************************************************)
EXTENDS Replayer

CONSTANTS
  Subs, Callers, NoCaller, MaxPublished, Services, Names, MaxRequests,
  Endpoints, Publishers, Slots, MaxCalls, MaxErrors, MaxMessages,
  c1, r1                                 \* a caller and a reader

VARIABLES
  part,   \* the program of this behaviour
  memClosed, memSubscriptions, memOpened, memServices, memServiceNames,
  memRetired, memCalling, memMessages, memRequests, memAccepted, memHanded,
  memAnswered, memStats,
  ddsClosed, ddsSubscriptions, ddsOpened, ddsCall, ddsReceiver,
  ddsStopRequested, ddsHistory, ddsMessages, ddsPublished, ddsHanded,
  ddsSilent, ddsDiscarded, ddsStats,
  svcClosed, svcServices, svcIssued, svcEndpoint, svcAwaited, svcStop,
  svcDeleted, svcClientsClosed, svcCall, svcRequests,
  ipcPubClosed, ipcPub, ipcSendMutex, ipcPubStats, ipcQueue, ipcMessages,
  ipcPublished, ipcClosed, ipcSubscribed, ipcCallback, ipcChannelOpen,
  ipcReceiver, ipcStopRequested, ipcOwner, ipcOpened, ipcSubscribes,
  ipcHanded, ipcSilent, ipcReceived, ipcStats,
  recAccepted, recDurable, recSealed, recPublished, recOpen, recStrict,
  recStops, recClosed, recFailures, recCalling, recMessages, recNumber,
  recStopped

memVars ==
  <<memClosed, memSubscriptions, memOpened, memServices, memServiceNames,
    memRetired, memCalling, memMessages, memRequests, memAccepted,
    memHanded, memAnswered, memStats>>

ddsVars ==
  <<ddsClosed, ddsSubscriptions, ddsOpened, ddsCall, ddsReceiver,
    ddsStopRequested, ddsHistory, ddsMessages, ddsPublished, ddsHanded,
    ddsSilent, ddsDiscarded, ddsStats>>

svcVars ==
  <<svcClosed, svcServices, svcIssued, svcEndpoint, svcAwaited, svcStop,
    svcDeleted, svcClientsClosed, svcCall, svcRequests>>

ipcVars ==
  <<ipcPubClosed, ipcPub, ipcSendMutex, ipcPubStats, ipcQueue, ipcMessages,
    ipcPublished, ipcClosed, ipcSubscribed, ipcCallback, ipcChannelOpen,
    ipcReceiver, ipcStopRequested, ipcOwner, ipcOpened, ipcSubscribes,
    ipcHanded, ipcSilent, ipcReceived, ipcStats>>

recVars ==
  <<recAccepted, recDurable, recSealed, recPublished, recOpen, recStrict,
    recStops, recClosed, recFailures, recCalling, recMessages, recNumber,
    recStopped>>

Mem == INSTANCE InMemoryTransport WITH
  MaxMessages <- MaxPublished, closed <- memClosed, subscriptions <-
  memSubscriptions, opened <- memOpened, services <- memServices,
  serviceNames <- memServiceNames, retired <- memRetired, calling <-
  memCalling, messages <- memMessages, requests <- memRequests, accepted <-
  memAccepted, handed <- memHanded, answered <- memAnswered, stats <-
  memStats

Dds == INSTANCE DdsTransport WITH
  MaxMessages <- MaxPublished, closed <- ddsClosed, subscriptions <-
  ddsSubscriptions, opened <- ddsOpened, call <- ddsCall, receiver <-
  ddsReceiver, stopRequested <- ddsStopRequested, history <- ddsHistory,
  messages <- ddsMessages, published <- ddsPublished, handed <- ddsHanded,
  silent <- ddsSilent, discarded <- ddsDiscarded, stats <- ddsStats

Svc == INSTANCE DdsServices WITH
  closed <- svcClosed, services <- svcServices, issued <- svcIssued,
  endpoint <- svcEndpoint, awaited <- svcAwaited, stop <- svcStop, deleted
  <- svcDeleted, clientsClosed <- svcClientsClosed, call <- svcCall,
  requests <- svcRequests, MaxRequests <- MaxPublished

Fast == INSTANCE FastIpcTransport WITH
  MaxMessages <- MaxPublished, Subs <- Endpoints, pubClosed <- ipcPubClosed,
  pub <- ipcPub, sendMutex <- ipcSendMutex, pubStats <- ipcPubStats, queue
  <- ipcQueue, messages <- ipcMessages, published <- ipcPublished, closed <-
  ipcClosed, subscribed <- ipcSubscribed, callback <- ipcCallback,
  channelOpen <- ipcChannelOpen, receiver <- ipcReceiver, stopRequested <-
  ipcStopRequested, owner <- ipcOwner, opened <- ipcOpened, subscribes <-
  ipcSubscribes, handed <- ipcHanded, silent <- ipcSilent, received <-
  ipcReceived, stats <- ipcStats

Rec == INSTANCE RecordingTransport WITH
  accepted <- recAccepted, durable <- recDurable, sealed <- recSealed,
  published <- recPublished, open <- recOpen, strict <- recStrict, stops <-
  recStops, closed <- recClosed, failures <- recFailures, calling <-
  recCalling, messages <- recMessages, number <- recNumber, stopped <-
  recStopped

MCInit ==
  /\ part \in {"inMemory", "dds", "services", "fastIpc", "recording", "replayer"}
  /\ Init /\ Mem!Init /\ Dds!Init /\ Svc!Init /\ Fast!Init /\ Rec!Init
  /\ part # "replayer" => trace = << >>
  /\ part # "recording" => recStrict /\ recStops

MCNext ==
  /\ UNCHANGED part
  /\ \/ /\ part = "inMemory" /\ Mem!Next
        /\ UNCHANGED <<vars, ddsVars, svcVars, ipcVars, recVars>>
     \/ /\ part = "dds" /\ Dds!Next
        /\ UNCHANGED <<vars, memVars, svcVars, ipcVars, recVars>>
     \/ /\ part = "services" /\ Svc!Next
        /\ UNCHANGED <<vars, memVars, ddsVars, ipcVars, recVars>>
     \/ /\ part = "fastIpc" /\ Fast!Next
        /\ UNCHANGED <<vars, memVars, ddsVars, svcVars, recVars>>
     \/ /\ part = "recording" /\ Rec!Next
        /\ UNCHANGED <<vars, memVars, ddsVars, svcVars, ipcVars>>
     \/ /\ part = "replayer" /\ Next
        /\ UNCHANGED <<memVars, ddsVars, svcVars, ipcVars, recVars>>

MCSpec ==
  /\ MCInit
  /\ [][MCNext]_<<part, vars, memVars, ddsVars, svcVars, ipcVars, recVars>>
  /\ Fairness /\ Dds!Fairness /\ Svc!Fairness /\ Fast!Fairness

-----------------------------------------------------------------------------
(* Each transport delivers as MessageDelivery says: a message at most once  *)
(* per subscription, only after it was published and, with DDS and FastIPC, *)
(* not once Unsubscribe or Close has returned (node.cpp relies on it).      *)
TransportsDeliver ==
  Mem!ImplementsDelivery /\ Dds!ImplementsDelivery /\ Fast!ImplementsDelivery

(* TransportStats adds up whatever races with what: every callback entered, *)
(* sample taken or frame received is counted once, as delivered or dropped, *)
(* and every request of the in-memory transport as answered or failed.  A   *)
(* DDS service that is listed is served by one endpoint, whose reader and   *)
(* writer are deleted only after its thread (dds_rpc_engine.cpp).           *)
TransportBooks == Mem!Books /\ Dds!Books /\ Fast!Books /\ Svc!EndpointsSound

(* Unsubscribe and Close of the DDS and the FastIPC transport return while  *)
(* messages keep arriving, publishers wait for a slot and other calls race  *)
(* with them (they join receivers); so do RemoveService and Close of the    *)
(* DDS RPC engine, also when a handler waits in a Request of its own,       *)
(* except a RemoveService of a handler's own service and one that meets     *)
(* such a Request while the engine is open; and so does Replay, also when   *)
(* the file is reset under it, unless that made it wait for centuries.      *)
(* One behaviour has calls of one kind only; callers and readers are        *)
(* interchangeable, so that one of them stands for all.                     *)
UnderWay ==
  Dds!InCall(c1) \/ Svc!InCall(c1) \/ Fast!InCall \/ Replaying(r1)
CallsReturn == UnderWay ~> ~UnderWay

(* Under RequireRecord nothing is published that was not recorded before,   *)
(* and what was recorded is in the file once Close returned, also when      *)
(* Publish and Close overlap (record_replay.cpp, RecordingTransport).       *)
PublishedIsRecorded == Rec!PublishedIsRecorded
=============================================================================
