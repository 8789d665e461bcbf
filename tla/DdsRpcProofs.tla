---------------------------- MODULE DdsRpcProofs ----------------------------
(***************************************************************************)
(* Safety of the DDS request/response engine                               *)
(* (transport/src/dds_rpc_engine.cpp), proved for any participants,        *)
(* callers and bounds.  What carries the argument is that a number stands  *)
(* for one call of Request of its participant at a time: two calls never   *)
(* share one, and every entry of the pending map is some call's own.       *)
(***************************************************************************)
EXTENDS DdsRpc, TLAPS

Request == Participants \X Nat

Labels == {"idle", "insert", "budget", "write", "writing", "failed", "wait", "asleep"}

TypeInv ==
  /\ nextRequestId \in [Participants -> Nat]
  /\ pending \in [Participants -> SUBSET Nat]
  /\ completed \in [Callers -> {None, Closed} \cup Request]
  /\ call \in [Callers -> Labels]
  /\ request \in [Callers -> {NoRequest} \cup Request]
  /\ requests \subseteq Request
  /\ responses \in [Participants -> SUBSET Request]
  /\ service \in {NoRequest} \cup Request
  /\ closer \in [Participants -> {"idle", "channel", "complete", "notify", "writer",
                                  "join", "closed"}]

(* A call has a request while it runs, with its participant's GUID and a   *)
(* number that was handed out and that no other call there has.            *)
Busy(c) == call[c] # "idle"
NumberInv ==
  /\ \A c \in Callers : request[c] = NoRequest <=> ~Busy(c)
  /\ \A c \in Callers : Busy(c) =>
       request[c][1] = Home[c] /\ Number(c) < nextRequestId[Home[c]]
  /\ \A c, d \in Callers :
       Busy(c) /\ Busy(d) /\ c # d /\ Home[c] = Home[d] => Number(c) # Number(d)

(* A call is completed after it has made its entry, by Close or by the     *)
(* response to its own request.                                            *)
CompletedInv ==
  \A c \in Callers : completed[c] # None =>
    /\ call[c] \notin {"idle", "insert"}
    /\ completed[c] = Closed \/ completed[c] = request[c]

(* PendingIsLive, one entry and one call at a time.                        *)
Entered == \A c \in Callers : Live(c) => Number(c) \in pending[Home[c]]
Owned ==
  \A p \in Participants : \A n \in pending[p] :
    \E c \in Callers : Home[c] = p /\ Live(c) /\ Number(c) = n
PendingInv == Entered /\ Owned

(* The channel's closed flag comes before the wait for the writer, and the *)
(* deletion after it.                                                      *)
CloseInv ==
  /\ \A p \in Participants : closer[p] \notin {"idle", "channel"} => p \in channelClosed
  /\ \A c \in Callers : call[c] = "writing" => closer[Home[c]] \notin {"join", "closed"}
  /\ \A p \in Participants : p \in deleted => closer[p] = "closed"

IInv == TypeInv /\ NumberInv /\ CompletedInv /\ PendingInv /\ CloseInv


-----------------------------------------------------------------------------
(* A request is no completion of another kind, and its GUID and number     *)
(* are all there is to it.                                                 *)
LEMMA Requests ==
  ASSUME NEW r \in Request
  PROVE  /\ r # NoRequest /\ r # None /\ r # Closed
         /\ r[1] \in Participants /\ r[2] \in Nat
         /\ \A s \in Request : r[1] = s[1] /\ r[2] = s[2] => r = s
<1>1. PICK p \in Participants, n \in Nat : r = <<p, n>>
  BY DEF Request
<1>2. <<p, n>> # << >> /\ <<p, n>> # <<"Closed">>
  OBVIOUS
<1>3. r[1] \in Participants /\ r[2] \in Nat
  BY Zenon, <1>1
<1>4. \A s \in Request : r[1] = s[1] /\ r[2] = s[2] => r = s
  BY DEF Request
<1> QED
  BY Zenon, <1>1, <1>2, <1>3, <1>4 DEF NoRequest, None, Closed

(* Being closed is a completion.                                           *)
LEMMA ClosedIsCompletion == Closed # None
<1>1. <<"Closed">> # << >>
  OBVIOUS
<1> QED
  BY Zenon, <1>1 DEF Closed, None

(* The two ways a step of Request ends, and what the other callers see.    *)
Rest(c) ==
  \A d \in Callers \ {c} :
    /\ call'[d] = call[d] /\ request'[d] = request[d]
    /\ completed'[d] = completed[d]
CallTypes ==
  /\ call' \in [Callers -> Labels]
  /\ request' \in [Callers -> {NoRequest} \cup Request]
  /\ completed' \in [Callers -> {None, Closed} \cup Request]

(* Request returns: nothing of the call is left.                           *)
LEMMA ReturnsEffect ==
  ASSUME TypeInv, NEW c \in Callers, Returns(c)
  PROVE  /\ call'[c] = "idle" /\ request'[c] = NoRequest /\ completed'[c] = None
         /\ Rest(c) /\ CallTypes
BY Zenon DEF TypeInv, Returns, Rest, CallTypes, Labels

(* Request goes on: its request and completion stay as they are.           *)
LEMMA GotoEffect ==
  ASSUME TypeInv, NEW c \in Callers, NEW label \in Labels, Goto(c, label)
  PROVE  /\ call'[c] = label /\ UNCHANGED <<request, completed>>
         /\ Rest(c) /\ CallTypes
BY Zenon DEF TypeInv, Goto, Rest, CallTypes

(* A step in which no call begins, ends, makes its entry or is completed.  *)
Calm ==
  /\ UNCHANGED <<nextRequestId, pending, completed, request>>
  /\ call' \in [Callers -> Labels]
  /\ \A c \in Callers : \/ call'[c] = call[c]
                        \/ /\ call[c] \notin {"idle", "insert"}
                           /\ call'[c] \notin {"idle", "insert"}

(* A step in which c's Request returns, with or without its entry.         *)
Left(c) ==
  /\ Busy(c) /\ Returns(c) /\ UNCHANGED nextRequestId
  /\ \/ pending' = EntryRemoved(c)
     \/ UNCHANGED pending /\ ~Live(c)

Inserted(c) == RequestInsert(c) /\ Goto(c, "budget")

(* A call that goes on past its entry is calm.                             *)
LEMMA CalmGoto ==
  ASSUME TypeInv, NEW c \in Callers, NEW label \in Labels, Goto(c, label),
         label \notin {"idle", "insert"}, call[c] \notin {"idle", "insert"},
         UNCHANGED <<nextRequestId, pending>>
  PROVE  Calm
BY Zenon, GotoEffect DEF Calm, CallTypes, Rest

(* notify_all on state_changed lets sleepers look again, no more.          *)
LEMMA CalmWoken ==
  ASSUME TypeInv, NEW p \in Participants, call' = WaitersWoken(p),
         UNCHANGED <<nextRequestId, pending, completed, request>>
  PROVE  Calm
BY Zenon DEF Calm, WaitersWoken, TypeInv, Labels

(* So is whatever does not touch the calls.                                *)
LEMMA CalmStill ==
  ASSUME TypeInv, UNCHANGED <<nextRequestId, pending, completed, call, request>>
  PROVE  Calm
BY Zenon DEF Calm, TypeInv

(* Every step is of one of these kinds.                                    *)
LEMMA Kinds ==
  ASSUME TypeInv, [Next]_vars
  PROVE  \/ Calm
         \/ \E c \in Callers : RequestBegin(c) \/ Left(c) \/ Inserted(c)
         \/ \E p \in Participants : ReceiveMatched(p) \/ CloseComplete(p)
<1> USE DEF channelVars, callVars
<1>1. ASSUME NEW c \in Callers, Expire(c) PROVE Calm
  BY Zenon, <1>1, CalmStill DEF Expire
<1>2. ASSUME NEW c \in Callers, RequestStep(c) PROVE Calm \/ Left(c) \/ Inserted(c)
  <2>1. CASE RequestInsert(c)
    BY Zenon, <2>1 DEF RequestInsert, Left, Busy, Inserted, Live
  <2>2. CASE RequestBudget(c)
    BY Zenon, <2>2, CalmGoto DEF RequestBudget, Left, Busy, Labels
  <2>3. CASE RequestLockWriter(c)
    BY Zenon, <2>3, CalmGoto DEF RequestLockWriter, Left, Busy, Labels
  <2>4. CASE RequestWrite(c)
    BY Zenon, <2>4, CalmGoto DEF RequestWrite, Labels
  <2>5. CASE RequestFailed(c) \/ RequestTimeout(c)
    BY Zenon, <2>5 DEF RequestFailed, RequestTimeout, Left, Busy
  <2>6. CASE RequestSleep(c)
    BY Zenon, <2>6, CalmGoto DEF RequestSleep, Labels
  <2>7. CASE RequestCompleted(c)
    BY Zenon, <2>7 DEF RequestCompleted, Left, Busy, Live
  <2> QED
    BY Zenon, <1>2, <2>1, <2>2, <2>3, <2>4, <2>5, <2>6, <2>7 DEF RequestStep
<1>3. ASSUME NEW p \in Participants, ReceiverStep(p) PROVE Calm \/ ReceiveMatched(p)
  <2>1. CASE ReceiveNotify(p)
    BY Zenon, <2>1, CalmWoken DEF ReceiveNotify
  <2> QED
    BY Zenon, <1>3, <2>1, CalmStill DEF ReceiverStep, ReceiveDropped, ReceiveStop
<1>4. ASSUME NEW p \in Participants, CloseEngine(p) \/ CloseStep(p)
      PROVE  Calm \/ CloseComplete(p)
  <2>1. CASE CloseNotify(p)
    BY Zenon, <2>1, CalmWoken DEF CloseNotify
  <2> QED
    BY Zenon, <1>4, <2>1, CalmStill DEF CloseEngine, CloseStep, CloseChannel, CloseWriter,
                                 CloseJoin
<1>5. CASE ServiceTake \/ ServiceRespond \/ UNCHANGED vars
  BY Zenon, <1>5, CalmStill DEF ServiceTake, ServiceRespond, vars
<1> QED
  BY Zenon, <1>1, <1>2, <1>3, <1>4, <1>5 DEF Next

-----------------------------------------------------------------------------
(* What the kinds of steps do to the calls' state.                         *)
LEMMA BeginEffect ==
  ASSUME TypeInv, NEW c \in Callers, RequestBegin(c)
  PROVE  /\ call[c] = "idle" /\ call'[c] = "insert"
         /\ request'[c] = <<Home[c], nextRequestId[Home[c]]>>
         /\ completed'[c] = completed[c] /\ Rest(c) /\ CallTypes
         /\ UNCHANGED pending
         /\ nextRequestId' = [nextRequestId EXCEPT ![Home[c]] = @ + 1]
         /\ nextRequestId' \in [Participants -> Nat]
<1>1. Home[c] \in Participants /\ nextRequestId[Home[c]] \in Nat
  BY Zenon, RpcAssumption DEF TypeInv
<1>2. <<Home[c], nextRequestId[Home[c]]>> \in Request
  BY Zenon, <1>1 DEF Request
<1> QED
  BY <1>1, <1>2 DEF RequestBegin, TypeInv, Rest, CallTypes, Labels

(* Request makes its entry, if the channel is open.                        *)
LEMMA InsertEffect ==
  ASSUME TypeInv, NEW c \in Callers, Inserted(c)
  PROVE  /\ call[c] = "insert" /\ call'[c] = "budget"
         /\ UNCHANGED <<request, completed, nextRequestId>> /\ Rest(c) /\ CallTypes
         /\ pending' = [pending EXCEPT ![Home[c]] = @ \cup {Number(c)}]
<1>1. "budget" \in Labels
  BY Zenon DEF Labels
<1>2. call[c] = "insert" /\ Goto(c, "budget") /\ UNCHANGED nextRequestId
  BY Zenon DEF Inserted, RequestInsert
<1>3. call'[c] = "budget" /\ UNCHANGED <<request, completed>> /\ Rest(c) /\ CallTypes
  BY Zenon, <1>1, <1>2, GotoEffect
<1>4. ~Returns(c)
  BY Zenon, <1>3, ReturnsEffect
<1> QED
  BY Zenon, <1>2, <1>3, <1>4 DEF Inserted, RequestInsert


-----------------------------------------------------------------------------
(* Numbers stay apart: the only new one is the participant's next.         *)
LEMMA NumberStep ==
  ASSUME IInv, [Next]_vars
  PROVE  NumberInv'
<1>0. /\ TypeInv /\ NumberInv
      /\ \A c \in Callers : Home[c] \in Participants
      /\ \A p \in Participants : nextRequestId[p] \in Nat
  BY Zenon, RpcAssumption DEF IInv, TypeInv
<1>1. ASSUME NEW c \in Callers, Busy(c) PROVE request[c] \in Request /\ Number(c) \in Nat
  <2>1. request[c] \in Request
    BY Zenon, <1>0, <1>1 DEF NumberInv, TypeInv
  <2> QED
    BY Zenon, <2>1, Requests DEF Number
<1>2. CASE UNCHANGED <<nextRequestId, request>> /\ \A c \in Callers : Busy(c)' <=> Busy(c)
  BY Zenon, <1>0, <1>2 DEF NumberInv, Number
<1>3. CASE Calm
  BY Zenon, <1>2, <1>3 DEF Calm, Busy
<1>4. ASSUME NEW c \in Callers, RequestBegin(c) PROVE NumberInv'
  <2> DEFINE p == Home[c]
  <2>1. /\ ~Busy(c) /\ Busy(c)' /\ Rest(c)
        /\ request'[c] = <<p, nextRequestId[p]>>
        /\ nextRequestId'[p] = nextRequestId[p] + 1
        /\ \A q \in Participants \ {p} : nextRequestId'[q] = nextRequestId[q]
    BY <1>0, <1>4, BeginEffect DEF Busy, TypeInv
  <2>2. p \in Participants /\ nextRequestId[p] \in Nat
    BY Zenon, <1>0
  <2>3. <<p, nextRequestId[p]>> \in Request
    BY Zenon, <2>2 DEF Request
  <2>4. request'[c] # NoRequest /\ request'[c][1] = p /\ Number(c)' = nextRequestId[p]
    BY <2>1, <2>3, Requests DEF Number
  <2>5. \A d \in Callers \ {c} : /\ Busy(d)' <=> Busy(d)
                                 /\ request'[d] = request[d]
                                 /\ Number(d)' = Number(d)
    BY Zenon, <2>1 DEF Rest, Busy, Number
  <2> HIDE DEF p
  <2>6. \A d \in Callers : Busy(d) /\ Home[d] = p => Number(d) \in Nat /\ Number(d) < nextRequestId[p]
    BY Zenon, <1>0, <1>1 DEF NumberInv
  <2>7. \A d \in Callers : request'[d] = NoRequest <=> ~Busy(d)'
    BY ZenonT(60), <1>0, <2>1, <2>4, <2>5 DEF NumberInv
  <2>8. ASSUME NEW d \in Callers, Busy(d)'
        PROVE  request'[d][1] = Home[d] /\ Number(d)' < nextRequestId'[Home[d]]
    <3>1. CASE d = c
      BY <2>1, <2>2, <2>4, <3>1 DEF p
    <3>2. CASE d # c
      <4>1. Busy(d) /\ Number(d)' = Number(d) /\ request'[d] = request[d]
        BY Zenon, <2>5, <2>8, <3>2
      <4>2. /\ request[d][1] = Home[d] /\ Number(d) < nextRequestId[Home[d]]
            /\ Number(d) \in Nat /\ nextRequestId[Home[d]] \in Nat
            /\ Home[d] \in Participants
        BY Zenon, <1>0, <1>1, <4>1 DEF NumberInv
      <4>3. nextRequestId'[Home[d]] \in {nextRequestId[Home[d]], nextRequestId[Home[d]] + 1}
        BY Zenon, <2>1, <4>2
      <4> QED
        BY <4>1, <4>2, <4>3
    <3> QED
      BY Zenon, <3>1, <3>2
  <2>9. ASSUME NEW d \in Callers, NEW f \in Callers, Busy(d)', Busy(f)', d # f,
               Home[d] = Home[f]
        PROVE  Number(d)' # Number(f)'
    <3>1. CASE d = c
      BY <2>2, <2>4, <2>5, <2>6, <2>9, <3>1 DEF p
    <3>2. CASE f = c
      BY <2>2, <2>4, <2>5, <2>6, <2>9, <3>2 DEF p
    <3>3. CASE d # c /\ f # c
      BY Zenon, <1>0, <2>5, <2>9, <3>3 DEF NumberInv
    <3> QED
      BY Zenon, <3>1, <3>2, <3>3
  <2> QED
    BY Zenon, <2>7, <2>8, <2>9 DEF NumberInv
<1>5. ASSUME NEW c \in Callers, Left(c) PROVE NumberInv'
  <2>1. ~Busy(c)' /\ request'[c] = NoRequest /\ Rest(c) /\ UNCHANGED nextRequestId
    BY Zenon, <1>0, <1>5, ReturnsEffect DEF Left, Busy
  <2>2. \A d \in Callers \ {c} : /\ Busy(d)' <=> Busy(d)
                                 /\ request'[d] = request[d]
                                 /\ Number(d)' = Number(d)
    BY Zenon, <2>1 DEF Rest, Busy, Number
  <2> QED
    BY Zenon, <1>0, <2>1, <2>2 DEF NumberInv
<1>6. ASSUME NEW c \in Callers, Inserted(c) PROVE NumberInv'
  BY Zenon, <1>0, <1>2, <1>6, InsertEffect DEF Rest, Busy
<1>7. ASSUME NEW p \in Participants, ReceiveMatched(p) \/ CloseComplete(p) PROVE NumberInv'
  BY Zenon, <1>2, <1>7 DEF ReceiveMatched, CloseComplete, Busy
<1> QED
  BY Zenon, <1>0, <1>3, <1>4, <1>5, <1>6, <1>7, Kinds

-----------------------------------------------------------------------------
(* An entry is the entry of one call.                                      *)
LEMMA OneOwner ==
  ASSUME IInv, NEW p \in Participants, NEW n \in pending[p]
  PROVE  \E c \in Callers :
           /\ Home[c] = p /\ Live(c) /\ Number(c) = n /\ request[c] \in Request
           /\ request[c][1] = p /\ request[c][2] = n
           /\ \A d \in Callers : Home[d] = p /\ Busy(d) /\ Number(d) = n => d = c
<1>1. PICK c \in Callers : Home[c] = p /\ Live(c) /\ Number(c) = n
  BY Zenon DEF IInv, PendingInv, Owned
<1>2. Busy(c)
  BY Zenon, <1>1 DEF Live, Busy
<1>3. request[c] \in Request
  BY Zenon, <1>2 DEF IInv, NumberInv, TypeInv
<1>4. request[c][1] = p /\ request[c][2] = n
  BY Zenon, <1>1, <1>2 DEF IInv, NumberInv, Number
<1>5. \A d \in Callers : Home[d] = p /\ Busy(d) /\ Number(d) = n => d = c
  BY Zenon, <1>1, <1>2 DEF IInv, NumberInv
<1> QED
  BY Zenon, <1>1, <1>3, <1>4, <1>5

(* ReceiveResponses completes that call, with the response to its request. *)
LEMMA MatchedEffect ==
  ASSUME IInv, NEW p \in Participants, ReceiveMatched(p)
  PROVE  \E c \in Callers, n \in pending[p] :
           /\ Home[c] = p /\ Live(c) /\ Number(c) = n
           /\ \A d \in Callers : Home[d] = p /\ Busy(d) /\ Number(d) = n => d = c
           /\ completed' = [completed EXCEPT ![c] = request[c]]
           /\ pending' = [pending EXCEPT ![p] = @ \ {n}]
           /\ UNCHANGED <<call, request, nextRequestId>>
           /\ request[c] \in Request
<1>1. PICK r \in responses[p] :
        /\ Matches(p, r)
        /\ completed' = [c \in Callers |->
                           IF Home[c] = p /\ request[c] # NoRequest /\ Number(c) = r[2]
                           THEN r ELSE completed[c]]
        /\ pending' = [pending EXCEPT ![p] = @ \ {r[2]}]
  BY Zenon DEF ReceiveMatched
<1>2. r \in Request /\ r[1] = p /\ r[2] \in pending[p]
  BY Zenon, <1>1 DEF Matches, IInv, TypeInv
<1>3. PICK c \in Callers :
        /\ Home[c] = p /\ Live(c) /\ Number(c) = r[2] /\ request[c] \in Request
        /\ request[c][1] = p /\ request[c][2] = r[2]
        /\ \A d \in Callers : Home[d] = p /\ Busy(d) /\ Number(d) = r[2] => d = c
  BY Zenon, <1>2, OneOwner
<1>4. r = request[c] /\ request[c] # NoRequest
  BY Zenon, <1>2, <1>3, Requests
<1>5. \A d \in Callers : request[d] # NoRequest <=> Busy(d)
  BY Zenon DEF IInv, NumberInv
<1>6. \A d \in Callers \ {c} :
        ~(Home[d] = p /\ request[d] # NoRequest /\ Number(d) = r[2])
  BY Zenon, <1>3, <1>5
<1>7. completed' = [completed EXCEPT ![c] = request[c]]
  BY Zenon, <1>1, <1>3, <1>4, <1>6 DEF IInv, TypeInv
<1>8. UNCHANGED <<call, request, nextRequestId>>
  BY Zenon DEF ReceiveMatched
<1> QED
  BY Zenon, <1>1, <1>2, <1>3, <1>7, <1>8


(* Close completes the calls that are live, and no other.                  *)
LEMMA CompleteEffect ==
  ASSUME IInv, NEW p \in Participants, CloseComplete(p)
  PROVE  /\ \A c \in Callers : /\ Home[c] = p /\ Live(c) => completed'[c] = Closed
                               /\ ~(Home[c] = p /\ Live(c)) => completed'[c] = completed[c]
         /\ completed' \in [Callers -> {None, Closed} \cup Request]
         /\ pending' = [pending EXCEPT ![p] = {}]
         /\ UNCHANGED <<call, request, nextRequestId>>
<1> DEFINE Hit(c) == Home[c] = p /\ request[c] # NoRequest /\ Number(c) \in pending[p]
<1>1. completed' = [c \in Callers |-> IF Hit(c) THEN Closed ELSE completed[c]]
  BY Zenon DEF CloseComplete
<1>2. ASSUME NEW c \in Callers PROVE Hit(c) <=> Home[c] = p /\ Live(c)
  <2>1. ASSUME Hit(c) PROVE Live(c)
    <3>1. Busy(c)
      BY Zenon, <2>1 DEF IInv, NumberInv
    <3> QED
      BY <2>1, <3>1, OneOwner
  <2>2. ASSUME Home[c] = p, Live(c) PROVE Hit(c)
    <3>1. request[c] # NoRequest
      BY Zenon, <2>2 DEF IInv, NumberInv, Busy, Live
    <3> QED
      BY Zenon, <2>2, <3>1 DEF IInv, PendingInv, Entered
  <2> QED
    BY Zenon, <2>1, <2>2
<1>3. completed \in [Callers -> {None, Closed} \cup Request]
  BY Zenon DEF IInv, TypeInv
<1> HIDE DEF Hit
<1>4. completed' \in [Callers -> {None, Closed} \cup Request]
  BY Zenon, <1>1, <1>3
<1> QED
  BY Zenon, <1>1, <1>2, <1>4 DEF CloseComplete

(* Only a live call is completed, and by what belongs to it.               *)
LEMMA CompletedStep ==
  ASSUME IInv, [Next]_vars
  PROVE  CompletedInv'
<1>0. TypeInv /\ CompletedInv
  BY Zenon DEF IInv
<1>1. CASE Calm
  BY Zenon, <1>0, <1>1 DEF Calm, CompletedInv
<1>2. ASSUME NEW c \in Callers, RequestBegin(c) PROVE CompletedInv'
  <2>1. completed'[c] = None /\ Rest(c)
    BY Zenon, <1>0, <1>2, BeginEffect DEF CompletedInv
  <2> QED
    BY Zenon, <1>0, <2>1 DEF CompletedInv, Rest
<1>3. ASSUME NEW c \in Callers, Left(c) PROVE CompletedInv'
  <2>1. completed'[c] = None /\ Rest(c)
    BY Zenon, <1>0, <1>3, ReturnsEffect DEF Left
  <2> QED
    BY Zenon, <1>0, <2>1 DEF CompletedInv, Rest
<1>4. ASSUME NEW c \in Callers, Inserted(c) PROVE CompletedInv'
  <2>1. completed'[c] = None /\ Rest(c)
    BY Zenon, <1>0, <1>4, InsertEffect DEF CompletedInv
  <2> QED
    BY Zenon, <1>0, <2>1 DEF CompletedInv, Rest
<1>5. ASSUME NEW p \in Participants, ReceiveMatched(p) PROVE CompletedInv'
  <2>1. PICK c \in Callers : /\ Live(c) /\ UNCHANGED <<call, request>>
                             /\ completed' = [completed EXCEPT ![c] = request[c]]
    BY Zenon, <1>5, MatchedEffect
  <2>2. call[c] \notin {"idle", "insert"}
    BY Zenon, <2>1 DEF Live
  <2> QED
    BY Zenon, <1>0, <2>1, <2>2 DEF CompletedInv, TypeInv
<1>6. ASSUME NEW p \in Participants, CloseComplete(p) PROVE CompletedInv'
  <2>1. /\ UNCHANGED <<call, request>>
        /\ \A c \in Callers : \/ completed'[c] = completed[c]
                              \/ completed'[c] = Closed /\ Live(c)
    BY Zenon, <1>6, CompleteEffect
  <2> QED
    BY Zenon, <1>0, <2>1 DEF CompletedInv, Live
<1> QED
  BY Zenon, <1>0, <1>1, <1>2, <1>3, <1>4, <1>5, <1>6, Kinds

-----------------------------------------------------------------------------
(* The live calls and the pending map change together.                     *)
LEMMA PendingStep ==
  ASSUME IInv, [Next]_vars
  PROVE  PendingInv'
<1>0. /\ TypeInv /\ CompletedInv /\ NumberInv /\ Entered /\ Owned
      /\ \A c \in Callers : Home[c] \in Participants
      /\ \A p \in Participants : pending[p] \subseteq Nat
  BY Zenon, RpcAssumption DEF IInv, PendingInv, TypeInv
<1>1. ASSUME UNCHANGED pending,
             \A c \in Callers : /\ Live(c)' <=> Live(c)
                                /\ Live(c) => Number(c)' = Number(c)
      PROVE  PendingInv'
  BY <1>0, <1>1 DEF PendingInv, Entered, Owned
<1>2. CASE Calm
  <2>1. \A c \in Callers : Number(c)' = Number(c)
    BY Zenon, <1>2 DEF Calm, Number
  <2>2. \A c \in Callers : Live(c)' <=> Live(c)
    BY Zenon, <1>0, <1>2 DEF Calm, Live, Labels, TypeInv
  <2> QED
    BY Zenon, <1>1, <1>2, <2>1, <2>2 DEF Calm
<1>3. ASSUME NEW c \in Callers, RequestBegin(c) PROVE PendingInv'
  <2>1. ~Live(c) /\ ~Live(c)' /\ Rest(c) /\ UNCHANGED pending
    BY Zenon, <1>0, <1>3, BeginEffect DEF Live
  <2>2. \A d \in Callers : /\ Live(d)' <=> Live(d)
                           /\ Live(d) => Number(d)' = Number(d)
    BY Zenon, <2>1 DEF Rest, Live, Number
  <2> QED
    BY Zenon, <1>1, <2>1, <2>2
<1>4. ASSUME NEW c \in Callers, Left(c) PROVE PendingInv'
  <2>1. ~Live(c)' /\ Rest(c)
    BY Zenon, <1>0, <1>4, ReturnsEffect DEF Live, Left
  <2>2. \A d \in Callers \ {c} : (Live(d)' <=> Live(d)) /\ Number(d)' = Number(d)
    BY Zenon, <2>1 DEF Rest, Live, Number
  <2>3. CASE UNCHANGED pending /\ ~Live(c)
    BY Zenon, <1>1, <2>1, <2>2, <2>3
  <2>4. CASE pending' = EntryRemoved(c)
    <3>0. Home[c] \in Participants
      BY Zenon, <1>0
    <3>1. /\ pending'[Home[c]] = pending[Home[c]] \ {Number(c)}
          /\ \A p \in Participants \ {Home[c]} : pending'[p] = pending[p]
      BY Zenon, <1>0, <2>4 DEF EntryRemoved, TypeInv
    <3>2. Busy(c)
      BY Zenon, <1>4 DEF Left
    <3>3. \A d \in Callers \ {c} : Live(d) /\ Home[d] = Home[c] => Number(d) # Number(c)
      BY Zenon, <1>0, <3>2 DEF NumberInv, Live, Busy
    <3>4. Entered'
      BY ZenonT(60), <1>0, <2>1, <2>2, <3>1, <3>3 DEF Entered
    <3>5. ASSUME NEW p \in Participants, NEW n \in pending'[p]
          PROVE  \E d \in Callers : Home[d] = p /\ Live(d)' /\ Number(d)' = n
      <4>1. n \in pending[p] /\ ~(p = Home[c] /\ n = Number(c))
        BY Zenon, <3>1, <3>5
      <4>2. PICK d \in Callers : Home[d] = p /\ Live(d) /\ Number(d) = n
        BY Zenon, <1>0, <4>1 DEF Owned
      <4>3. d # c
        BY Zenon, <4>1, <4>2
      <4> QED
        BY Zenon, <2>2, <4>2, <4>3
    <3> QED
      BY Zenon, <3>4, <3>5 DEF PendingInv, Owned
  <2> QED
    BY Zenon, <1>4, <2>3, <2>4 DEF Left
<1>5. ASSUME NEW c \in Callers, Inserted(c) PROVE PendingInv'
  <2>1. /\ call[c] = "insert" /\ call'[c] = "budget" /\ Rest(c)
        /\ UNCHANGED <<request, completed>>
        /\ pending' = [pending EXCEPT ![Home[c]] = @ \cup {Number(c)}]
    BY Zenon, <1>0, <1>5, InsertEffect
  <2>2. ~Live(c) /\ Live(c)' /\ \A d \in Callers \ {c} : Live(d)' <=> Live(d)
    BY Zenon, <1>0, <2>1 DEF Live, Rest, CompletedInv
  <2>3. \A d \in Callers : Number(d)' = Number(d)
    BY Zenon, <2>1 DEF Number
  <2>4. /\ pending'[Home[c]] = pending[Home[c]] \cup {Number(c)}
        /\ \A p \in Participants \ {Home[c]} : pending'[p] = pending[p]
    BY Zenon, <1>0, <2>1 DEF TypeInv
  <2>5. Entered'
    BY Zenon, <1>0, <2>2, <2>3, <2>4 DEF Entered
  <2>6. ASSUME NEW p \in Participants, NEW n \in pending'[p]
        PROVE  \E d \in Callers : Home[d] = p /\ Live(d)' /\ Number(d)' = n
    <3>1. CASE n \in pending[p]
      BY <1>0, <2>2, <2>3, <3>1 DEF Owned
    <3>2. CASE n \notin pending[p]
      BY Zenon, <2>2, <2>3, <2>4, <2>6, <3>2
    <3> QED
      BY Zenon, <3>1, <3>2
  <2> QED
    BY Zenon, <2>5, <2>6 DEF PendingInv, Owned
<1>6. ASSUME NEW p \in Participants, ReceiveMatched(p) PROVE PendingInv'
  <2>1. PICK c \in Callers, n \in pending[p] :
          /\ Home[c] = p /\ Live(c) /\ Number(c) = n
          /\ \A d \in Callers : Home[d] = p /\ Busy(d) /\ Number(d) = n => d = c
          /\ completed' = [completed EXCEPT ![c] = request[c]]
          /\ pending' = [pending EXCEPT ![p] = @ \ {n}]
          /\ UNCHANGED <<call, request>>
          /\ request[c] \in Request
    BY Zenon, <1>6, MatchedEffect
  <2>2. ~Live(c)' /\ \A d \in Callers \ {c} : Live(d)' <=> Live(d)
    <3>1. completed'[c] # None /\ \A d \in Callers \ {c} : completed'[d] = completed[d]
      BY Zenon, <1>0, <2>1, Requests DEF TypeInv
    <3> QED
      BY Zenon, <2>1, <3>1 DEF Live
  <2>3. \A d \in Callers : Number(d)' = Number(d)
    BY Zenon, <2>1 DEF Number
  <2>4. /\ pending'[p] = pending[p] \ {n}
        /\ \A q \in Participants \ {p} : pending'[q] = pending[q]
    BY Zenon, <1>0, <2>1 DEF TypeInv
  <2>5. \A d \in Callers \ {c} : Live(d) /\ Home[d] = p => Number(d) # n
    BY Zenon, <2>1 DEF Live, Busy
  <2>6. Entered'
    BY Zenon, <1>0, <2>2, <2>3, <2>4, <2>5 DEF Entered
  <2>7. ASSUME NEW q \in Participants, NEW m \in pending'[q]
        PROVE  \E d \in Callers : Home[d] = q /\ Live(d)' /\ Number(d)' = m
    <3>1. m \in pending[q] /\ ~(q = p /\ m = n)
      BY Zenon, <2>4, <2>7
    <3>2. PICK d \in Callers : Home[d] = q /\ Live(d) /\ Number(d) = m
      BY Zenon, <1>0, <3>1 DEF Owned
    <3>3. d # c
      BY Zenon, <2>1, <3>1, <3>2
    <3> QED
      BY Zenon, <2>2, <2>3, <3>2, <3>3
  <2> QED
    BY Zenon, <2>6, <2>7 DEF PendingInv, Owned
<1>7. ASSUME NEW p \in Participants, CloseComplete(p) PROVE PendingInv'
  <2>1. /\ UNCHANGED <<call, request>>
        /\ pending' = [pending EXCEPT ![p] = {}]
        /\ \A c \in Callers : /\ Home[c] = p /\ Live(c) => completed'[c] = Closed
                              /\ ~(Home[c] = p /\ Live(c)) => completed'[c] = completed[c]
    BY Zenon, <1>7, CompleteEffect
  <2>2. \A c \in Callers : Number(c)' = Number(c)
    BY Zenon, <2>1 DEF Number
  <2>3. \A c \in Callers : Live(c)' <=> Live(c) /\ Home[c] # p
    BY Zenon, <2>1, ClosedIsCompletion DEF Live
  <2>4. pending'[p] = {} /\ \A q \in Participants \ {p} : pending'[q] = pending[q]
    BY Zenon, <1>0, <2>1 DEF TypeInv
  <2>5. Entered'
    BY Zenon, <1>0, <2>2, <2>3, <2>4 DEF Entered
  <2>6. ASSUME NEW q \in Participants, NEW m \in pending'[q]
        PROVE  \E d \in Callers : Home[d] = q /\ Live(d)' /\ Number(d)' = m
    <3>1. m \in pending[q] /\ q # p
      BY Zenon, <2>4, <2>6
    <3> QED
      BY <1>0, <2>2, <2>3, <3>1 DEF Owned
  <2> QED
    BY Zenon, <2>5, <2>6 DEF PendingInv, Owned
<1> QED
  BY Zenon, <1>0, <1>2, <1>3, <1>4, <1>5, <1>6, <1>7, Kinds


-----------------------------------------------------------------------------
(* Nobody starts to write after the channel is closed, and Close passes    *)
(* the writer's mutex when nobody writes any more.                         *)
LEMMA CloseStepKeeps ==
  ASSUME IInv, [Next]_vars
  PROVE  CloseInv'
<1>0. /\ TypeInv /\ CloseInv
      /\ \A c \in Callers : Home[c] \in Participants
  BY Zenon, RpcAssumption DEF IInv, TypeInv
<1> USE DEF channelVars, callVars
<1>1. ASSUME UNCHANGED <<closer, channelClosed, deleted>>,
             \A c \in Callers : call'[c] = "writing" =>
               call[c] = "writing" \/ Home[c] \notin channelClosed
      PROVE  CloseInv'
  BY Zenon, <1>0, <1>1 DEF CloseInv
<1>2. ASSUME NEW c \in Callers, NEW label \in Labels, Goto(c, label),
             label # "writing" \/ Home[c] \notin channelClosed,
             UNCHANGED <<closer, channelClosed, deleted>>
      PROVE  CloseInv'
  BY Zenon, <1>0, <1>1, <1>2, GotoEffect DEF Rest
<1>3. ASSUME NEW c \in Callers, Returns(c), UNCHANGED <<closer, channelClosed, deleted>>
      PROVE  CloseInv'
  BY Zenon, <1>0, <1>1, <1>3, ReturnsEffect DEF Rest
<1>4. ASSUME NEW c \in Callers, Expire(c) \/ RequestBegin(c) PROVE CloseInv'
  BY Zenon, <1>0, <1>1, <1>4, BeginEffect DEF Expire, RequestBegin, Rest
<1>5. ASSUME NEW c \in Callers, RequestStep(c) PROVE CloseInv'
  <2>1. UNCHANGED <<closer, channelClosed, deleted>>
    BY Zenon, <1>5 DEF RequestStep, RequestInsert, RequestBudget, RequestLockWriter,
       RequestWrite, RequestFailed, RequestSleep, RequestCompleted, RequestTimeout
  <2>2. \/ Returns(c)
        \/ \E label \in Labels : /\ Goto(c, label)
                                 /\ label # "writing" \/ Home[c] \notin channelClosed
    BY Zenon, <1>5 DEF RequestStep, RequestInsert, RequestBudget, RequestLockWriter,
       RequestWrite, RequestFailed, RequestSleep, RequestCompleted, RequestTimeout,
       Labels
  <2> QED
    BY Zenon, <1>2, <1>3, <2>1, <2>2
<1>6. ASSUME NEW p \in Participants, ReceiverStep(p) PROVE CloseInv'
  BY Zenon, <1>1, <1>6 DEF ReceiverStep, ReceiveMatched, ReceiveDropped, ReceiveNotify,
                    ReceiveStop, WaitersWoken
<1>7. CASE ServiceTake \/ ServiceRespond \/ UNCHANGED vars
  BY Zenon, <1>1, <1>7 DEF ServiceTake, ServiceRespond, vars
<1>8. ASSUME NEW p \in Participants, CloseEngine(p) \/ CloseStep(p) PROVE CloseInv'
  <2>1. CASE CloseEngine(p) \/ CloseChannel(p) \/ CloseComplete(p)
    BY ZenonT(60), <1>0, <2>1 DEF CloseEngine, CloseChannel, CloseComplete, CloseInv, TypeInv
  <2>2. CASE CloseNotify(p)
    <3>1. \A c \in Callers : call'[c] = "writing" => call[c] = "writing"
      BY Zenon, <2>2 DEF CloseNotify, WaitersWoken
    <3> QED
      BY Zenon, <1>0, <2>2, <3>1 DEF CloseNotify, CloseInv, TypeInv
  <2>3. CASE CloseWriter(p)
    BY Zenon, <1>0, <2>3 DEF CloseWriter, WriterReleased, WriteMutexFree, CloseInv, TypeInv
  <2>4. CASE CloseJoin(p)
    BY Zenon, <1>0, <2>4 DEF CloseJoin, CloseInv, TypeInv
  <2> QED
    BY Zenon, <1>8, <2>1, <2>2, <2>3, <2>4 DEF CloseStep
<1> QED
  BY Zenon, <1>4, <1>5, <1>6, <1>7, <1>8 DEF Next

(* Samples are requests, and Close goes its way.                           *)
LEMMA NetTypes ==
  ASSUME IInv, [Next]_vars
  PROVE  /\ requests' \subseteq Request
         /\ responses' \in [Participants -> SUBSET Request]
         /\ service' \in {NoRequest} \cup Request
         /\ closer' \in [Participants -> {"idle", "channel", "complete", "notify",
                                          "writer", "join", "closed"}]
<1>0. TypeInv /\ NumberInv
  BY Zenon DEF IInv
<1> USE DEF netVars, TypeInv
<1>1. ASSUME NEW c \in Callers, Expire(c) \/ RequestBegin(c)
      PROVE  UNCHANGED <<netVars, service, closer>>
  BY Zenon, <1>1 DEF Expire, RequestBegin
<1>2. ASSUME NEW c \in Callers, RequestStep(c)
      PROVE  /\ UNCHANGED <<responses, service, closer>>
             /\ requests' \subseteq Request
  <2>1. RequestWrite(c) => request[c] \in Request
    BY Zenon, <1>0 DEF RequestWrite, NumberInv, Busy
  <2> QED
    BY Zenon, <1>0, <1>2, <2>1 DEF RequestStep, RequestInsert, RequestBudget, RequestLockWriter,
       RequestWrite, RequestFailed, RequestSleep, RequestCompleted, RequestTimeout
<1>3. ASSUME NEW p \in Participants, ReceiverStep(p)
      PROVE  /\ UNCHANGED <<requests, service, closer>>
             /\ responses' \in [Participants -> SUBSET Request]
  BY <1>0, <1>3 DEF ReceiverStep, ReceiveMatched, ReceiveDropped, ReceiveNotify,
                    ReceiveStop
<1>4. CASE ServiceTake
  BY Zenon, <1>0, <1>4 DEF ServiceTake
<1>5. CASE ServiceRespond
  BY Zenon, <1>0, <1>5 DEF ServiceRespond
<1>6. ASSUME NEW p \in Participants, CloseEngine(p) \/ CloseStep(p)
      PROVE  /\ UNCHANGED <<requests, service>>
             /\ responses' \in [Participants -> SUBSET Request]
             /\ closer' \in [Participants -> {"idle", "channel", "complete", "notify",
                                              "writer", "join", "closed"}]
  BY Zenon, <1>0, <1>6 DEF CloseEngine, CloseStep, CloseChannel, CloseComplete, CloseNotify,
                    CloseWriter, CloseJoin
<1>7. CASE UNCHANGED vars
  BY Zenon, <1>0, <1>7 DEF vars
<1> QED
  BY Zenon, <1>0, <1>1, <1>2, <1>3, <1>4, <1>5, <1>6, <1>7 DEF Next


(* Every step keeps the types.                                             *)
LEMMA TypeStep ==
  ASSUME IInv, [Next]_vars
  PROVE  TypeInv'
<1>0. /\ TypeInv /\ NumberInv
      /\ \A c \in Callers : Home[c] \in Participants /\ request[c] \in {NoRequest} \cup Request
  BY Zenon, RpcAssumption DEF IInv, TypeInv
<1>1. SUFFICES /\ nextRequestId' \in [Participants -> Nat]
               /\ pending' \in [Participants -> SUBSET Nat]
               /\ CallTypes
  BY Zenon, NetTypes DEF TypeInv, CallTypes
<1>2. CASE Calm
  BY Zenon, <1>0, <1>2 DEF Calm, TypeInv, CallTypes
<1>3. ASSUME NEW c \in Callers, RequestBegin(c)
      PROVE  /\ nextRequestId' \in [Participants -> Nat]
             /\ pending' \in [Participants -> SUBSET Nat]
             /\ CallTypes
  BY Zenon, <1>0, <1>3, BeginEffect DEF TypeInv
<1>4. ASSUME NEW c \in Callers, Left(c)
      PROVE  /\ nextRequestId' \in [Participants -> Nat]
             /\ pending' \in [Participants -> SUBSET Nat]
             /\ CallTypes
  BY <1>0, <1>4, ReturnsEffect DEF Left, EntryRemoved, TypeInv
<1>5. ASSUME NEW c \in Callers, Inserted(c)
      PROVE  /\ nextRequestId' \in [Participants -> Nat]
             /\ pending' \in [Participants -> SUBSET Nat]
             /\ CallTypes
  <2>1. /\ UNCHANGED nextRequestId /\ CallTypes /\ call[c] = "insert"
        /\ pending' = [pending EXCEPT ![Home[c]] = @ \cup {Number(c)}]
    BY Zenon, <1>0, <1>5, InsertEffect
  <2>2. request[c] \in Request
    BY Zenon, <1>0, <2>1 DEF NumberInv, Busy
  <2>3. Number(c) \in Nat
    BY Zenon, <2>2, Requests DEF Number
  <2> QED
    BY Zenon, <1>0, <2>1, <2>3 DEF TypeInv
<1>6. ASSUME NEW p \in Participants, ReceiveMatched(p)
      PROVE  /\ nextRequestId' \in [Participants -> Nat]
             /\ pending' \in [Participants -> SUBSET Nat]
             /\ CallTypes
  <2>1. PICK c \in Callers, n \in pending[p] :
          /\ completed' = [completed EXCEPT ![c] = request[c]]
          /\ pending' = [pending EXCEPT ![p] = @ \ {n}]
          /\ UNCHANGED <<call, request, nextRequestId>>
          /\ request[c] \in Request
    BY Zenon, <1>6, MatchedEffect
  <2> QED
    BY Zenon, <1>0, <2>1 DEF TypeInv, CallTypes
<1>7. ASSUME NEW p \in Participants, CloseComplete(p)
      PROVE  /\ nextRequestId' \in [Participants -> Nat]
             /\ pending' \in [Participants -> SUBSET Nat]
             /\ CallTypes
  BY Zenon, <1>0, <1>7, CompleteEffect DEF TypeInv, CallTypes
<1> QED
  BY Zenon, <1>0, <1>2, <1>3, <1>4, <1>5, <1>6, <1>7, Kinds

-----------------------------------------------------------------------------
(* Before the first Request nothing is pending.                            *)
LEMMA InitInv ==
  ASSUME Init
  PROVE  IInv
<1>1. TypeInv
  BY Zenon DEF Init, TypeInv, Labels
<1>2. NumberInv /\ CompletedInv /\ PendingInv
  BY Zenon, RpcAssumption DEF Init, NumberInv, CompletedInv, PendingInv, Entered, Owned, Live, Busy
<1>3. CloseInv
  BY Zenon, RpcAssumption DEF Init, CloseInv
<1> QED
  BY Zenon, <1>1, <1>2, <1>3 DEF IInv

(* The inductive invariant holds throughout, for any participants and      *)
(* callers.                                                                *)
THEOREM Invariance == Spec => []IInv
<1>1. IInv /\ [Next]_vars => IInv'
  BY Zenon, TypeStep, NumberStep, CompletedStep, PendingStep, CloseStepKeeps DEF IInv
<1> QED
  BY <1>1, InitInv, PTL DEF Spec

(* No exit of Request, no response and no Close leaves an entry of the     *)
(* pending map behind or takes that of a call that still waits.            *)
THEOREM PendingIsLiveHolds == Spec => []PendingIsLive
<1>1. ASSUME IInv PROVE PendingIsLive
  BY <1>1 DEF IInv, PendingInv, Entered, Owned, PendingIsLive
<1> QED
  BY <1>1, Invariance, PTL

(* A response completes the call whose GUID and number it carries, and no  *)
(* other, although all participants count from 1 and see all responses.    *)
THEOREM OwnResponseHolds == Spec => []OwnResponse
<1>1. ASSUME IInv PROVE OwnResponse
  BY Zenon, <1>1 DEF IInv, CompletedInv, OwnResponse
<1> QED
  BY <1>1, Invariance, PTL

(* CloseClient deletes the writer after the last dds_write.                *)
THEOREM NoWriteAfterDeleteHolds == Spec => []NoWriteAfterDelete
<1>1. ASSUME IInv PROVE NoWriteAfterDelete
  BY Zenon, <1>1, RpcAssumption DEF IInv, CloseInv, NoWriteAfterDelete
<1> QED
  BY <1>1, Invariance, PTL
=============================================================================
