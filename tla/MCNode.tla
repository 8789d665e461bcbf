------------------------------- MODULE MCNode -------------------------------
(***************************************************************************)
(* Instances for TLC of the two endpoints of a node that run on the        *)
(* executor: a behaviour is one of a subscription or one of a service, in  *)
(* a group whose queue another task may fill, called by the same transport *)
(* threads.  The variables of the other keep their initial values.         *)
(***************************************************************************)
EXTENDS Subscription

CONSTANTS FiniteCallers, CallCapacity, MaxCalls   \* ServiceCalls

ASSUME ServiceAssumption ==
  /\ CallCapacity \in Nat \ {0} /\ MaxCalls \in Nat
  /\ FiniteCallers \subseteq Receivers

VARIABLES
  endpoint,   \* the endpoint of this behaviour
  srvCancelled, srvQueued, srvJobs, srvOthers, srvWorker, srvRefused,
  srvClosed, srvScheduled, srvQueue, srvMade, srvCompletion, srvSets,
  srvHandled, srvTold, srvInvoke, srvPending, srvExpired, srvWorking,
  srvAnswer, srvCloser, srvClosing

srvVars ==
  <<srvCancelled, srvQueued, srvJobs, srvOthers, srvWorker, srvRefused,
    srvClosed, srvScheduled, srvQueue, srvMade, srvCompletion, srvSets,
    srvHandled, srvTold, srvInvoke, srvPending, srvExpired, srvWorking,
    srvAnswer, srvCloser, srvClosing>>

Srv == INSTANCE ServiceCalls WITH
  Callers <- Receivers, QueueCapacity <- CallCapacity, cancelled <-
  srvCancelled, queued <- srvQueued, jobs <- srvJobs, others <- srvOthers,
  worker <- srvWorker, refused <- srvRefused, closed <- srvClosed, scheduled
  <- srvScheduled, queue <- srvQueue, made <- srvMade, completion <-
  srvCompletion, sets <- srvSets, handled <- srvHandled, told <- srvTold,
  invoke <- srvInvoke, pending <- srvPending, expired <- srvExpired, working
  <- srvWorking, answer <- srvAnswer, closer <- srvCloser, closing <-
  srvClosing

MCInit ==
  /\ endpoint \in {"subscription", "service"}
  /\ Init /\ Srv!Init
  /\ endpoint = "service" => policy = "DropNewest"

InSub(action) ==
  endpoint = "subscription" /\ action /\ UNCHANGED <<endpoint, srvVars>>
InSrv(action) ==
  endpoint = "service" /\ action /\ UNCHANGED <<endpoint, vars>>

MCNext == InSub(Next) \/ InSrv(Srv!Next)

mcVars == <<endpoint, vars, srvVars>>

(* The fairness of the endpoint that the behaviour is of. *)
MCSpec ==
  /\ MCInit /\ [][MCNext]_mcVars
  /\ WF_mcVars(InSub(CloseCancel) \/ InSrv(Srv!CloseStep))
  /\ \A r \in Receivers :
       WF_mcVars(InSub(AcceptStep(r)) \/ InSrv(Srv!InvokeStep(r)))
  /\ \A w \in Workers :
       /\ WF_mcVars(InSub(ProcessStep(w)) \/ InSrv(Srv!ProcessStep(w)))
       /\ WF_mcVars(InSub(TaskStep(w)) \/ InSrv(Srv!TaskStep(w)))
  /\ SF_mcVars(\E w \in Workers : InSub(Take(w)) \/ InSrv(Srv!Take(w)))

-----------------------------------------------------------------------------
(* What Invoke tells its caller is true of what the handler did, and no     *)
(* promise is set twice (node.cpp, Service::Impl).                          *)
AnswersAreTrue == Srv!AnswersAreTrue

(* Every Invoke returns, unless the group's queue was full when the service *)
(* last put its job there (node.cpp, Service::Impl::Invoke and Close).      *)
InvokeReturns == Srv!InvokeReturns
=============================================================================
