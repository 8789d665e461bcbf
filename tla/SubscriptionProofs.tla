------------------------- MODULE SubscriptionProofs -------------------------
(***************************************************************************)
(* Safety of Subscriber::Impl (runtime/src/node.cpp), proved for any       *)
(* threads, capacities and bounds.  Everything follows from one fact: the  *)
(* right to run ProcessOne is a token.  A call of Accept that notifies,    *)
(* the job in the group's queue and the worker that runs it hold it in     *)
(* turn, and nobody makes a second one while scheduled is set.             *)
(***************************************************************************)
EXTENDS Subscription, FiniteSetTheorems, TLAPS

Places == {"idle", "other", "popped", "process", "callback", "count",
           "reschedule", "reserve", "push"}

Counters == [received : Nat, dropped : Nat, delivered : Nat]

TypeInv ==
  /\ jobs \in Nat /\ worker \in [Workers -> Places]
  /\ accept \in [Receivers -> {"idle", "reserve", "push", "failed"}]
  /\ message \in [Workers -> Nat]
  /\ queue \in Seq(Nat) /\ delivered \in Seq(Nat)
  /\ stats \in Counters /\ thrown \in Nat /\ cleared \in Nat

Holds(w) == worker[w] \notin {"idle", "other"}
Asks(r) == accept[r] # "idle"
NoneAsks == \A r \in Receivers : ~Asks(r)
NoneHolds == \A w \in Workers : ~Holds(w)

(* There is at most one token, and none while an Accept may make one.      *)
TokenInv ==
  /\ jobs > 0 => jobs = 1 /\ NoneAsks /\ NoneHolds
  /\ \A r \in Receivers :
       Asks(r) => NoneHolds /\ \A q \in Receivers : Asks(q) => q = r
  /\ \A w \in Workers : Holds(w) => \A v \in Workers : Holds(v) => v = w
  /\ ~closed /\ ~scheduled => jobs = 0 /\ NoneAsks /\ NoneHolds

(* Delivered messages, the one in a callback and the queued ones form one  *)
(* sequence that increases.                                                *)
Increasing(s) == \A i, j \in 1 .. Len(s) : i < j => s[i] < s[j]

QueueOrder ==
  /\ Increasing(delivered) /\ Increasing(queue)
  /\ \A i \in 1 .. Len(delivered) : delivered[i] <= stats.received
  /\ \A j \in 1 .. Len(queue) : queue[j] > 0 /\ queue[j] <= stats.received
  /\ \A i \in 1 .. Len(delivered), j \in 1 .. Len(queue) : delivered[i] < queue[j]

CallbackOrder(w) ==
  /\ message[w] # 0 <=> worker[w] \in {"callback", "count"}
  /\ worker[w] = "callback" =>
       /\ message[w] <= stats.received
       /\ \A i \in 1 .. Len(delivered) : delivered[i] < message[w]
       /\ \A j \in 1 .. Len(queue) : message[w] < queue[j]

OrderInv == QueueOrder /\ \A w \in Workers : CallbackOrder(w)

(* Close clears the queue once.                                            *)
CloseInv == closer = "idle" => ~closed /\ cleared = 0

IInv == TypeInv /\ TokenInv /\ OrderInv /\ CloseInv /\ MessagesAccounted

-----------------------------------------------------------------------------
(* Sequences: what Append, Tail and Head do, index by index.               *)
LEMMA Appended ==
  ASSUME NEW s \in Seq(Nat), NEW m \in Nat
  PROVE  /\ Append(s, m) \in Seq(Nat) /\ Len(Append(s, m)) = Len(s) + 1
         /\ Append(s, m)[Len(s) + 1] = m
         /\ \A i \in 1 .. Len(s) : Append(s, m)[i] = s[i]
  OBVIOUS

(* A sequence that is not empty, and what is left without its head.        *)
LEMMA Behead ==
  ASSUME NEW s \in Seq(Nat), s # << >>
  PROVE  /\ Tail(s) \in Seq(Nat) /\ Len(Tail(s)) = Len(s) - 1 /\ Len(s) > 0
         /\ Head(s) = s[1] /\ Head(s) \in Nat
         /\ \A i \in 1 .. Len(Tail(s)) : Tail(s)[i] = s[i + 1]
  OBVIOUS

(* An increasing sequence stays one when its head goes.                    *)
LEMMA IncreasingTail ==
  ASSUME NEW s \in Seq(Nat), s # << >>, Increasing(s)
  PROVE  /\ Increasing(Tail(s))
         /\ \A i \in 1 .. Len(Tail(s)) : Head(s) < Tail(s)[i]
         /\ \A i \in 1 .. Len(Tail(s)) : \E j \in 1 .. Len(s) : Tail(s)[i] = s[j]
<1>1. \A i \in 1 .. Len(Tail(s)) : i + 1 \in 1 .. Len(s) /\ Tail(s)[i] = s[i + 1]
  BY Behead
<1>2. 1 \in 1 .. Len(s) /\ Head(s) = s[1]
  BY Behead
<1>3. Len(Tail(s)) \in Nat
  BY Behead
<1> QED
  BY <1>1, <1>2, <1>3 DEF Increasing

(* Appending an element above all others keeps a sequence increasing.      *)
LEMMA IncreasingAppend ==
  ASSUME NEW s \in Seq(Nat), NEW m \in Nat, Increasing(s),
         \A i \in 1 .. Len(s) : s[i] < m
  PROVE  Increasing(Append(s, m))
<1>1. /\ Len(Append(s, m)) = Len(s) + 1 /\ Append(s, m)[Len(s) + 1] = m
      /\ \A i \in 1 .. Len(s) : Append(s, m)[i] = s[i]
  BY Appended
<1>2. Len(s) \in Nat
  OBVIOUS
<1> SUFFICES ASSUME NEW i \in 1 .. Len(s) + 1, NEW j \in 1 .. Len(s) + 1, i < j
             PROVE  Append(s, m)[i] < Append(s, m)[j]
  BY <1>1 DEF Increasing
<1>3. i \in 1 .. Len(s)
  BY <1>2
<1>4. CASE j = Len(s) + 1
  BY <1>1, <1>3, <1>4
<1>5. CASE j \in 1 .. Len(s)
  BY <1>1, <1>3, <1>5 DEF Increasing
<1> QED
  BY <1>2, <1>4, <1>5

-----------------------------------------------------------------------------
(* A new subscription has no token and no message.                         *)
LEMMA InitInv == Init => IInv
<1> SUFFICES ASSUME Init PROVE IInv
  OBVIOUS
<1>1. TypeInv
  BY DEF Init, TaskInit, TypeInv, Places, Counters
<1>2. TokenInv
  BY DEF Init, TaskInit, TokenInv, Holds, Asks, NoneAsks, NoneHolds
<1>3. OrderInv
  BY DEF Init, TaskInit, OrderInv, QueueOrder, CallbackOrder, Increasing
<1>4. CloseInv
  BY DEF Init, CloseInv
<1>5. Delivering = {}
  BY DEF Init, Delivering
<1>6. MessagesAccounted
  BY <1>5, FS_EmptySet DEF Init, MessagesAccounted
<1> QED
  BY <1>1, <1>2, <1>3, <1>4, <1>6 DEF IInv

(* The counters, each raised by one.                                       *)
LEMMA Raised ==
  ASSUME NEW c \in Counters
  PROVE  /\ c.received \in Nat /\ c.dropped \in Nat /\ c.delivered \in Nat
         /\ [c EXCEPT !.received = @ + 1] \in Counters
         /\ [c EXCEPT !.dropped = @ + 1] \in Counters
         /\ [c EXCEPT !.delivered = @ + 1] \in Counters
<1>1. c.received \in Nat /\ c.dropped \in Nat /\ c.delivered \in Nat
  BY DEF Counters
<1>2. [c EXCEPT !.received = @ + 1] \in Counters
  BY <1>1 DEF Counters
<1>3. [c EXCEPT !.dropped = @ + 1] \in Counters
  BY <1>1 DEF Counters
<1>4. [c EXCEPT !.delivered = @ + 1] \in Counters
  BY <1>1 DEF Counters
<1> QED
  BY <1>1, <1>2, <1>3, <1>4

(* Every step keeps the types.                                             *)
LEMMA TypeStep ==
  ASSUME TypeInv, [Next]_vars
  PROVE  TypeInv'
<1>1. ASSUME NEW r \in Receivers, AcceptDropNewest(r)
      PROVE  TypeInv'
  <2>1. DropCounted \in Counters
    BY Zenon, Raised DEF DropCounted, TypeInv
  <2>2. stats' \in Counters
    BY Zenon, <1>1, <2>1, Raised DEF AcceptDropNewest
  <2> QED
    BY <1>1, <2>2 DEF AcceptDropNewest, TypeInv, taskVars, enqueueVars, historyVars
<1>2. ASSUME NEW r \in Receivers, AcceptQueue(r)
      PROVE  TypeInv'
  <2>0. (IF Full THEN DropCounted ELSE stats) \in Counters
    BY Zenon, Raised DEF DropCounted, TypeInv
  <2>1. stats' \in Counters
    BY Zenon, <1>2, <2>0, Raised DEF AcceptQueue
  <2>2. stats.received + 1 \in Nat
    BY DEF TypeInv, Counters
  <2>3. Full => queue # << >>
    BY QueueAssumption DEF Full, TypeInv
  <2>4. (IF Full THEN Tail(queue) ELSE queue) \in Seq(Nat)
    <3>1. Full => Tail(queue) \in Seq(Nat)
      BY <2>3, Behead DEF TypeInv
    <3> QED
      BY <3>1, Zenon DEF TypeInv
  <2>5. queue' \in Seq(Nat)
    BY <1>2, <2>2, <2>4, Appended DEF AcceptQueue
  <2>6. accept' \in [Receivers -> {"idle", "reserve", "push", "failed"}]
    BY <1>2 DEF AcceptQueue, TypeInv
  <2> QED
    BY <1>2, <2>1, <2>5, <2>6 DEF AcceptQueue, TypeInv, taskVars, enqueueVars, historyVars
<1>3. ASSUME NEW r \in Receivers, AcceptStep(r)
      PROVE  TypeInv'
  <2>1. CASE AcceptReserve(r)
    BY <2>1 DEF AcceptReserve, EnqueueReserve, TypeInv, stateVars, historyVars
  <2>2. CASE AcceptPush(r)
    BY <2>2 DEF AcceptPush, EnqueuePush, TypeInv, stateVars, historyVars
  <2>3. CASE AcceptFailed(r)
    BY <2>3 DEF AcceptFailed, TypeInv, taskVars, enqueueVars, historyVars
  <2> QED
    BY <1>3, <2>1, <2>2, <2>3 DEF AcceptStep
<1>4. ASSUME NEW w \in Workers, Take(w) \/ TaskStep(w)
      PROVE  TypeInv'
  <2>1. CASE Take(w)
    BY <2>1 DEF Take, JobTaken, TypeInv, Places, stateVars, historyVars
  <2>2. CASE TaskStep(w)
    <3>1. worker' \in [Workers -> Places] /\ jobs' = jobs
      BY Zenon, <2>2 DEF TaskStep, JobDispatched, OtherStep, OtherTaken, OtherFinished, TypeInv,
                  Places, enqueueVars
    <3> QED
      BY <2>2, <3>1 DEF TaskStep, TypeInv, stateVars, historyVars
  <2> QED
    BY <1>4, <2>1, <2>2
<1>5. ASSUME NEW w \in Workers, ProcessTake(w)
      PROVE  TypeInv'
  <2>1. Head(queue) \in Nat /\ Tail(queue) \in Seq(Nat)
    BY <1>5, Behead DEF ProcessTake, Backlog, TypeInv
  <2> QED
    BY <1>5, <2>1 DEF ProcessTake, TypeInv, Places, enqueueVars, historyVars
<1>6. ASSUME NEW w \in Workers, ProcessCallback(w)
      PROVE  TypeInv'
  <2>1. stats' \in Counters /\ thrown' \in Nat
    <3>1. [stats EXCEPT !.dropped = @ + 1] \in Counters
      BY Raised, Zenon DEF TypeInv
    <3>3. thrown + 1 \in Nat
      BY DEF TypeInv
    <3>2. PICK throws \in BOOLEAN :
            /\ stats' = IF throws THEN [stats EXCEPT !.dropped = @ + 1] ELSE stats
            /\ thrown' = IF throws THEN thrown + 1 ELSE thrown
      BY <1>6, Zenon DEF ProcessCallback
    <3> QED
      BY <3>1, <3>2, <3>3, Zenon DEF TypeInv
  <2>2. delivered' \in Seq(Nat)
    BY <1>6, Appended DEF ProcessCallback, TypeInv
  <2> QED
    BY <1>6, <2>1, <2>2 DEF ProcessCallback, TypeInv, Places, enqueueVars
<1>7. ASSUME NEW w \in Workers, ProcessCount(w)
      PROVE  TypeInv'
  <2>1. stats' \in Counters
    BY Zenon, <1>7, Raised DEF ProcessCount, TypeInv
  <2> QED
    BY <1>7, <2>1 DEF ProcessCount, TypeInv, Places, enqueueVars, historyVars
<1>8. ASSUME NEW w \in Workers,
             ProcessNothing(w) \/ ProcessReschedule(w) \/ ProcessReserve(w) \/ ProcessPush(w)
      PROVE  TypeInv'
  <2>1. CASE ProcessNothing(w)
    BY <2>1 DEF ProcessNothing, TypeInv, Places, enqueueVars, historyVars
  <2>2. CASE ProcessReschedule(w)
    BY <2>2 DEF ProcessReschedule, TypeInv, Places, enqueueVars, historyVars
  <2>3. CASE ProcessReserve(w)
    BY <2>3 DEF ProcessReserve, EnqueueReserve, TypeInv, Places, stateVars, historyVars
  <2>4. CASE ProcessPush(w)
    BY <2>4 DEF ProcessPush, EnqueuePush, TypeInv, Places, stateVars, historyVars
  <2> QED
    BY <1>8, <2>1, <2>2, <2>3, <2>4
<1>9. CASE Others \/ CloseCancel \/ UNCHANGED vars
  <2>1. UNCHANGED <<jobs, worker, accept, message, queue, delivered, stats, thrown, cleared>>
    BY <1>9 DEF Others, OtherNotify, CloseCancel, vars, taskVars, enqueueVars, stateVars,
                historyVars
  <2> QED
    BY <2>1 DEF TypeInv
<1>10. CASE Close
  BY <1>10 DEF Close, TypeInv, taskVars, enqueueVars
<1> QED
  BY <1>1, <1>2, <1>3, <1>4, <1>5, <1>6, <1>7, <1>8, <1>9, <1>10 DEF Next, ProcessStep

-----------------------------------------------------------------------------
(* Whoever holds the token holds the only one.                             *)
LEMMA HolderAlone ==
  ASSUME TypeInv, TokenInv, NEW w \in Workers, Holds(w)
  PROVE  /\ jobs = 0 /\ NoneAsks /\ \A v \in Workers : v # w => ~Holds(v)
         /\ ~closed => scheduled
<1>1. ~NoneHolds
  BY DEF NoneHolds
<1>2. NoneAsks
  BY <1>1, Zenon DEF TokenInv, NoneAsks
<1>3. jobs = 0
  BY <1>1 DEF TokenInv, TypeInv
<1>4. ~closed => scheduled
  BY <1>1, Zenon DEF TokenInv
<1> QED
  BY <1>2, <1>3, <1>4, Zenon DEF TokenInv

(* An Accept that notifies holds the only token.                           *)
LEMMA AskerAlone ==
  ASSUME TypeInv, TokenInv, NEW r \in Receivers, Asks(r)
  PROVE  /\ jobs = 0 /\ NoneHolds /\ \A q \in Receivers : q # r => ~Asks(q)
         /\ ~closed => scheduled
<1>1. ~NoneAsks
  BY DEF NoneAsks
<1>2. jobs = 0
  BY <1>1 DEF TokenInv, TypeInv
<1>3. ~closed => scheduled
  BY <1>1, Zenon DEF TokenInv
<1> QED
  BY <1>2, <1>3, Zenon DEF TokenInv

(* A worker that moves leaves the other workers where they are.            *)
LEMMA Moves ==
  ASSUME TypeInv, NEW w \in Workers, NEW p, worker' = [worker EXCEPT ![w] = p]
  PROVE  /\ worker'[w] = p /\ Holds(w)' = (p \notin {"idle", "other"})
         /\ \A v \in Workers : v # w => worker'[v] = worker[v] /\ Holds(v)' = Holds(v)
  BY DEF TypeInv, Holds

(* A worker that keeps the token keeps it single.                          *)
LEMMA TokenKept ==
  ASSUME TypeInv, TokenInv, NEW w \in Workers, Holds(w), Holds(w)',
         \A v \in Workers : v # w => Holds(v)' = Holds(v),
         UNCHANGED <<jobs, accept, closed>>, ~closed => scheduled'
  PROVE  TokenInv'
<1>1. /\ jobs = 0 /\ NoneAsks /\ \A v \in Workers : v # w => ~Holds(v)
  BY HolderAlone, Zenon
<1>2. NoneAsks'
  BY <1>1 DEF NoneAsks, Asks
<1>3. jobs' = 0 /\ ~(jobs' > 0)
  BY <1>1
<1>4. \A v \in Workers : Holds(v)' => v = w
  BY <1>1, Zenon
<1> QED
  BY <1>2, <1>3, <1>4, Zenon DEF TokenInv, NoneAsks

(* A worker that lets the token go, back into the group's queue or not.    *)
LEMMA TokenGone ==
  ASSUME TypeInv, TokenInv, NEW w \in Workers, Holds(w), ~Holds(w)',
         \A v \in Workers : v # w => Holds(v)' = Holds(v),
         UNCHANGED accept, jobs' \in {0, 1}, jobs' = 1 => closed' \/ scheduled'
  PROVE  TokenInv'
<1>1. /\ NoneAsks /\ \A v \in Workers : v # w => ~Holds(v)
  BY HolderAlone, Zenon
<1>2. NoneAsks'
  BY <1>1 DEF NoneAsks, Asks
<1>3. NoneHolds'
  BY <1>1, Zenon DEF NoneHolds
<1>4. jobs' > 0 => jobs' = 1
  OBVIOUS
<1> QED
  BY <1>2, <1>3, <1>4, Zenon DEF TokenInv, NoneAsks, NoneHolds

(* Every step keeps the token single.                                      *)
LEMMA TokenStep ==
  ASSUME TypeInv, TokenInv, [Next]_vars
  PROVE  TokenInv'
<1>1. ASSUME NEW r \in Receivers, AcceptDropNewest(r)
      PROVE  TokenInv'
  BY <1>1 DEF AcceptDropNewest, taskVars, enqueueVars, TokenInv, NoneAsks, NoneHolds, Asks, Holds
<1>2. ASSUME NEW r \in Receivers, AcceptQueue(r)
      PROVE  TokenInv'
  <2>1. UNCHANGED <<jobs, worker, closed>> /\ ~closed /\ scheduled'
    BY <1>2 DEF AcceptQueue, taskVars, enqueueVars
  <2>2. \A v \in Workers : Holds(v)' = Holds(v)
    BY <2>1 DEF Holds
  <2>3. \A q \in Receivers : q # r => Asks(q)' = Asks(q)
    BY <1>2 DEF AcceptQueue, Asks, TypeInv
  <2>4. CASE scheduled
    <3>1. ~Asks(r)' /\ ~Asks(r)
      BY <1>2, <2>4 DEF AcceptQueue, MustSchedule, Asks, TypeInv
    <3>2. \A q \in Receivers : Asks(q)' <=> Asks(q)
      BY <2>3, <3>1, Zenon
    <3> QED
      BY <2>1, <2>2, <2>4, <3>2, Zenon DEF TokenInv, NoneAsks, NoneHolds
  <2>5. CASE ~scheduled
    <3>1. jobs = 0 /\ NoneAsks /\ NoneHolds
      BY <2>1, <2>5, Zenon DEF TokenInv
    <3>2. jobs' = 0 /\ ~(jobs' > 0)
      BY <2>1, <3>1
    <3>3. NoneHolds' /\ \A q \in Receivers : Asks(q)' => q = r
      BY <2>2, <2>3, <3>1, Zenon DEF NoneHolds, NoneAsks
    <3> QED
      BY <2>1, <3>2, <3>3, Zenon DEF TokenInv, NoneHolds
  <2> QED
    BY <2>4, <2>5
<1>3. ASSUME NEW r \in Receivers, AcceptStep(r)
      PROVE  TokenInv'
  <2>1. Asks(r)
    BY <1>3 DEF AcceptStep, AcceptReserve, AcceptPush, AcceptFailed, Asks
  <2>2. /\ jobs = 0 /\ NoneHolds /\ \A q \in Receivers : q # r => ~Asks(q)
        /\ ~closed => scheduled
    BY <2>1, AskerAlone, Zenon
  <2>3. UNCHANGED <<worker, closed>>
    BY <1>3 DEF AcceptStep, AcceptReserve, AcceptPush, AcceptFailed, stateVars, taskVars
  <2>4. NoneHolds'
    BY <2>2, <2>3 DEF NoneHolds, Holds
  <2>5. \A q \in Receivers : Asks(q)' => q = r
    BY <1>3, <2>2 DEF AcceptStep, AcceptReserve, AcceptPush, AcceptFailed, Asks, TypeInv
  <2>6. CASE AcceptReserve(r)
    <3>1. UNCHANGED <<jobs, scheduled>>
      BY <2>6 DEF AcceptReserve, EnqueueReserve, stateVars
    <3>2. ~(jobs' > 0)
      BY <2>2, <3>1
    <3> QED
      BY <2>2, <2>3, <2>4, <2>5, <3>1, <3>2, Zenon DEF TokenInv, NoneHolds
  <2>7. CASE AcceptPush(r)
    <3>1. UNCHANGED scheduled /\ jobs' \in {0, 1} /\ (jobs' = 1 => ~Asks(r)')
      BY <2>2, <2>7 DEF AcceptPush, EnqueuePush, Asks, stateVars, TypeInv
    <3>2. jobs' > 0 => jobs' = 1 /\ NoneAsks'
      BY <2>5, <3>1 DEF NoneAsks
    <3> QED
      BY <2>2, <2>3, <2>4, <2>5, <3>1, <3>2, Zenon DEF TokenInv, NoneHolds
  <2>8. CASE AcceptFailed(r)
    <3>1. UNCHANGED jobs /\ ~Asks(r)'
      BY <2>8 DEF AcceptFailed, taskVars, enqueueVars, Asks, TypeInv
    <3>2. NoneAsks'
      BY <2>5, <3>1, Zenon DEF NoneAsks
    <3>3. jobs' = 0 /\ ~(jobs' > 0)
      BY <2>2, <3>1
    <3> QED
      BY <2>4, <3>2, <3>3, Zenon DEF TokenInv, NoneHolds, NoneAsks
  <2> QED
    BY <1>3, <2>6, <2>7, <2>8 DEF AcceptStep
<1>4. ASSUME NEW w \in Workers, Take(w)
      PROVE  TokenInv'
  <2>1. jobs > 0 /\ jobs' = jobs - 1 /\ UNCHANGED <<accept, closed, scheduled>>
    BY <1>4 DEF Take, JobTaken, stateVars
  <2>2. jobs = 1 /\ NoneAsks /\ NoneHolds /\ (closed \/ scheduled)
    BY <2>1 DEF TokenInv
  <2>3. Holds(w)' /\ \A v \in Workers : v # w => Holds(v)' = Holds(v)
    BY Zenon, <1>4, Moves DEF Take, JobTaken
  <2>4. jobs' = 0 /\ ~(jobs' > 0)
    BY <2>1, <2>2
  <2>5. NoneAsks'
    BY <2>1, <2>2 DEF NoneAsks, Asks
  <2> QED
    BY <2>1, <2>2, <2>3, <2>4, <2>5, Zenon DEF TokenInv, NoneAsks, NoneHolds
<1>5. ASSUME NEW w \in Workers, TaskStep(w)
      PROVE  TokenInv'
  <2>1. UNCHANGED <<jobs, accept, closed, scheduled>>
    BY <1>5 DEF TaskStep, JobDispatched, OtherStep, OtherTaken, OtherFinished, stateVars,
                enqueueVars
  <2>2. CASE JobDispatched(w)
    <3>1. Holds(w)
      BY <2>2 DEF JobDispatched, Holds
    <3>2. \A v \in Workers : v # w => Holds(v)' = Holds(v)
      BY Zenon, <2>2, Moves DEF JobDispatched
    <3>3. jobs = 0 /\ (~closed => scheduled)
      BY <3>1, HolderAlone, Zenon
    <3>4. CASE Holds(w)'
      BY <2>1, <3>1, <3>2, <3>3, <3>4, TokenKept
    <3>5. CASE ~Holds(w)'
      BY <2>1, <3>1, <3>2, <3>3, <3>5, TokenGone
    <3> QED
      BY <3>4, <3>5
  <2>3. CASE OtherStep(w)
    <3>1. \A v \in Workers : Holds(v)' = Holds(v)
      BY <2>3 DEF OtherStep, OtherTaken, OtherFinished, Holds, TypeInv
    <3> QED
      BY <2>1, <3>1 DEF TokenInv, NoneAsks, NoneHolds, Asks
  <2> QED
    BY <1>5, <2>2, <2>3 DEF TaskStep
<1>6. ASSUME NEW w \in Workers, ProcessStep(w)
      PROVE  TokenInv'
  <2>1. Holds(w)
    BY <1>6 DEF ProcessStep, ProcessNothing, ProcessTake, ProcessCallback, ProcessCount,
                ProcessReschedule, ProcessReserve, ProcessPush, Holds
  <2>2. jobs = 0 /\ (~closed => scheduled)
    BY <2>1, HolderAlone, Zenon
  <2>3. UNCHANGED <<accept, closed>>
    BY <1>6 DEF ProcessStep, ProcessNothing, ProcessTake, ProcessCallback, ProcessCount,
                ProcessReschedule, ProcessReserve, ProcessPush, stateVars
  <2>4. \A v \in Workers : v # w => Holds(v)' = Holds(v)
    BY <1>6, Moves, Zenon DEF ProcessStep, ProcessNothing, ProcessTake, ProcessCallback,
       ProcessCount, ProcessReschedule, ProcessReserve, ProcessPush
  <2>5. CASE ProcessNothing(w)
    <3>1. ~Holds(w)' /\ jobs' = 0
      BY Zenon, <2>2, <2>5, Moves DEF ProcessNothing, enqueueVars
    <3> QED
      BY <2>1, <2>3, <2>4, <3>1, TokenGone
  <2>6. CASE ProcessTake(w) \/ ProcessCallback(w) \/ ProcessCount(w)
    <3>1. Holds(w)' /\ UNCHANGED <<jobs, scheduled>>
      BY Zenon, <2>6, Moves DEF ProcessTake, ProcessCallback, ProcessCount, enqueueVars
    <3> QED
      BY <2>1, <2>2, <2>3, <2>4, <3>1, TokenKept
  <2>7. CASE ProcessReschedule(w)
    <3>1. UNCHANGED jobs /\ scheduled' = (Backlog /\ scheduled)
      BY <2>7 DEF ProcessReschedule, StaysScheduled, enqueueVars
    <3>2. CASE Backlog
      <4>1. Holds(w)' /\ (~closed => scheduled')
        BY Zenon, <2>2, <2>7, <3>1, <3>2, Moves DEF ProcessReschedule
      <4> QED
        BY <2>1, <2>3, <2>4, <3>1, <4>1, TokenKept
    <3>3. CASE ~Backlog
      <4>1. ~Holds(w)' /\ jobs' = 0
        BY Zenon, <2>2, <2>7, <3>1, <3>3, Moves DEF ProcessReschedule
      <4> QED
        BY <2>1, <2>3, <2>4, <4>1, TokenGone
    <3> QED
      BY <3>2, <3>3
  <2>8. CASE ProcessReserve(w)
    <3>1. UNCHANGED <<jobs, scheduled>>
      BY <2>8 DEF ProcessReserve, EnqueueReserve, stateVars
    <3>2. CASE Holds(w)'
      BY <2>1, <2>2, <2>3, <2>4, <3>1, <3>2, TokenKept
    <3>3. CASE ~Holds(w)'
      BY <2>1, <2>2, <2>3, <2>4, <3>1, <3>3, TokenGone
    <3> QED
      BY <3>2, <3>3
  <2>9. CASE ProcessPush(w)
    <3>1. ~Holds(w)'
      BY Zenon, <2>9, Moves DEF ProcessPush
    <3>2. jobs' \in {0, 1} /\ UNCHANGED scheduled
      BY <2>2, <2>9 DEF ProcessPush, EnqueuePush, stateVars
    <3> QED
      BY <2>1, <2>2, <2>3, <2>4, <3>1, <3>2, TokenGone
  <2> QED
    BY <1>6, <2>5, <2>6, <2>7, <2>8, <2>9 DEF ProcessStep
<1>7. CASE Others \/ CloseCancel \/ UNCHANGED vars
  <2>1. UNCHANGED <<jobs, worker, accept, closed, scheduled>>
    BY <1>7 DEF Others, OtherNotify, CloseCancel, vars, taskVars, enqueueVars, stateVars
  <2> QED
    BY <2>1 DEF TokenInv, NoneAsks, NoneHolds, Asks, Holds
<1>8. CASE Close
  <2>1. UNCHANGED <<jobs, worker, accept>> /\ closed'
    BY <1>8 DEF Close, taskVars, enqueueVars
  <2> QED
    BY <2>1 DEF TokenInv, NoneAsks, NoneHolds, Asks, Holds
<1> QED
  BY <1>1, <1>2, <1>3, <1>4, <1>5, <1>6, <1>7, <1>8 DEF Next

-----------------------------------------------------------------------------
(* A step that touches no message, and moves no worker into or out of a    *)
(* callback, keeps the order.                                              *)
LEMMA OrderKept ==
  ASSUME OrderInv, UNCHANGED <<delivered, queue, stats, message>>,
         \A w \in Workers : \/ worker'[w] = worker[w]
                           \/ {worker[w], worker'[w]} \cap {"callback", "count"} = {}
  PROVE  OrderInv'
<1>1. QueueOrder'
  BY DEF OrderInv, QueueOrder, Increasing
<1>2. ASSUME NEW w \in Workers PROVE CallbackOrder(w)'
  <2>1. CallbackOrder(w)
    BY DEF OrderInv
  <2>2. CASE worker'[w] = worker[w]
    BY <2>1, <2>2 DEF CallbackOrder
  <2>3. CASE {worker[w], worker'[w]} \cap {"callback", "count"} = {}
    BY Zenon, <2>1, <2>3 DEF CallbackOrder
  <2> QED
    BY <2>2, <2>3
<1> QED
  BY <1>1, <1>2 DEF OrderInv

(* A worker that runs ProcessOne is the only one in a callback.            *)
LEMMA OthersIdle ==
  ASSUME TypeInv, TokenInv, NEW w \in Workers, Holds(w),
         NEW v \in Workers, v # w
  PROVE  worker[v] \notin {"callback", "count"}
  BY HolderAlone DEF Holds

(* Accept, when it drops the newest message and when it queues one.        *)
LEMMA OrderAcceptDrop ==
  ASSUME TypeInv, OrderInv, NEW r \in Receivers, AcceptDropNewest(r)
  PROVE  OrderInv'
<1>1. /\ UNCHANGED <<delivered, queue, message, worker>>
      /\ stats' = [DropCounted EXCEPT !.received = @ + 1]
  BY DEF AcceptDropNewest, taskVars, historyVars
<1>2. stats.received \in Nat /\ stats'.received = stats.received + 1
  BY <1>1 DEF DropCounted, TypeInv, Counters
<1>3. \A n \in Nat : n <= stats.received => n <= stats'.received
  BY <1>2
<1>4. /\ \A i \in 1 .. Len(delivered) : delivered[i] \in Nat
      /\ \A i \in 1 .. Len(queue) : queue[i] \in Nat
      /\ \A w \in Workers : message[w] \in Nat
  BY DEF TypeInv
<1>5. QueueOrder'
  BY <1>1, <1>3, <1>4 DEF OrderInv, QueueOrder, Increasing
<1>6. ASSUME NEW w \in Workers PROVE CallbackOrder(w)'
  BY <1>1, <1>3, <1>4 DEF OrderInv, CallbackOrder
<1> QED
  BY <1>5, <1>6 DEF OrderInv

(* Accept numbers the new message above all the older ones.                *)
LEMMA OrderAcceptQueue ==
  ASSUME TypeInv, OrderInv, NEW r \in Receivers, AcceptQueue(r)
  PROVE  OrderInv'
<1> DEFINE kept == IF Full THEN Tail(queue) ELSE queue
           n == stats.received + 1
<1>1. UNCHANGED <<delivered, message, worker>> /\ queue' = Append(kept, n)
  BY DEF AcceptQueue, taskVars, historyVars
<1>2. stats.received \in Nat /\ n \in Nat
  BY DEF TypeInv, Counters
<1>3. stats'.received = n
  BY DEF AcceptQueue, DropCounted, TypeInv, Counters
<1>4. /\ kept \in Seq(Nat) /\ Increasing(kept)
      /\ \A i \in 1 .. Len(kept) : \E j \in 1 .. Len(queue) : kept[i] = queue[j]
  <2>1. CASE Full
    <3>1. queue # << >>
      BY <2>1, QueueAssumption DEF Full, TypeInv
    <3> QED
      BY <2>1, <3>1, Behead, IncreasingTail DEF TypeInv, OrderInv, QueueOrder
  <2>2. CASE ~Full
    BY <2>2 DEF TypeInv, OrderInv, QueueOrder
  <2> QED
    BY <2>1, <2>2
<1> HIDE DEF kept
<1>5. \A j \in 1 .. Len(queue) : queue[j] \in Nat /\ queue[j] > 0 /\ queue[j] < n
  BY <1>2 DEF TypeInv, OrderInv, QueueOrder
<1>6. \A i \in 1 .. Len(kept) : kept[i] \in Nat /\ kept[i] > 0 /\ kept[i] < n
  BY <1>4, <1>5
<1> HIDE DEF n
<1>7. /\ Len(queue') = Len(kept) + 1 /\ queue'[Len(kept) + 1] = n
      /\ \A i \in 1 .. Len(kept) : queue'[i] = kept[i]
  BY <1>1, <1>2, <1>4, Appended
<1>8. \A j \in 1 .. Len(queue') : j \in 1 .. Len(kept) \/ j = Len(kept) + 1
  BY <1>4, <1>7
<1>9. Increasing(queue')
  BY <1>1, <1>2, <1>4, <1>6, IncreasingAppend
<1>10. \A j \in 1 .. Len(queue') :
         \/ queue'[j] = n
         \/ \E i \in 1 .. Len(queue) : queue'[j] = queue[i]
  BY <1>4, <1>7, <1>8
<1>11. \A i \in 1 .. Len(delivered) : delivered[i] \in Nat /\ delivered[i] < n
  BY <1>2 DEF n, TypeInv, OrderInv, QueueOrder
<1>12. QueueOrder'
  <2>1. Increasing(delivered')
    BY <1>1 DEF OrderInv, QueueOrder
  <2>2. \A i \in 1 .. Len(delivered') : delivered'[i] <= stats'.received
    BY <1>1, <1>2, <1>3, <1>11
  <2>3. \A j \in 1 .. Len(queue') : queue'[j] > 0 /\ queue'[j] <= stats'.received
    BY <1>2, <1>3, <1>5, <1>10 DEF n
  <2>4. \A i \in 1 .. Len(delivered'), j \in 1 .. Len(queue') : delivered'[i] < queue'[j]
    BY <1>1, <1>10, <1>11 DEF OrderInv, QueueOrder
  <2> QED
    BY <1>9, <2>1, <2>2, <2>3, <2>4 DEF QueueOrder, Increasing
<1>13. ASSUME NEW w \in Workers PROVE CallbackOrder(w)'
  <2>1. CallbackOrder(w) /\ message[w] \in Nat
    BY DEF OrderInv, TypeInv
  <2>2. worker[w] = "callback" => message[w] < n
    BY <1>2, <2>1 DEF n, CallbackOrder
  <2>3. worker[w] = "callback" => \A j \in 1 .. Len(queue') : message[w] < queue'[j]
    BY <1>10, <2>1, <2>2 DEF CallbackOrder
  <2>4. worker[w] = "callback" => message[w] <= stats'.received
    BY <1>2, <1>3, <2>1, <2>2
  <2> QED
    BY <1>1, <2>1, <2>3, <2>4 DEF CallbackOrder
<1> QED
  BY <1>12, <1>13 DEF OrderInv

(* ProcessOne: the head of the queue goes to the callback, and from there  *)
(* to the end of the delivered messages.                                   *)
LEMMA OrderTake ==
  ASSUME TypeInv, TokenInv, OrderInv, NEW w \in Workers, ProcessTake(w)
  PROVE  OrderInv'
<1>1. /\ UNCHANGED <<delivered, stats>> /\ queue # << >> /\ queue' = Tail(queue)
      /\ message' = [message EXCEPT ![w] = Head(queue)]
      /\ worker' = [worker EXCEPT ![w] = "callback"] /\ Holds(w)
  BY DEF ProcessTake, Backlog, historyVars, Holds
<1>2. queue \in Seq(Nat) /\ Increasing(queue)
  BY DEF TypeInv, OrderInv, QueueOrder
<1>3. /\ Increasing(queue')
      /\ \A i \in 1 .. Len(queue') : Head(queue) < queue'[i]
      /\ \A i \in 1 .. Len(queue') : \E j \in 1 .. Len(queue) : queue'[i] = queue[j]
  BY <1>1, <1>2, IncreasingTail
<1>4. 1 \in 1 .. Len(queue) /\ Head(queue) = queue[1] /\ Head(queue) \in Nat
  BY <1>1, <1>2, Behead
<1>5. QueueOrder'
  BY <1>1, <1>3 DEF OrderInv, QueueOrder, Increasing
<1>6. CallbackOrder(w)'
  <2>1. worker'[w] = "callback" /\ message'[w] = Head(queue)
    BY <1>1 DEF TypeInv
  <2>2. Head(queue) > 0 /\ Head(queue) <= stats.received
    BY <1>4 DEF OrderInv, QueueOrder
  <2>3. \A i \in 1 .. Len(delivered) : delivered[i] < Head(queue)
    BY <1>4 DEF OrderInv, QueueOrder
  <2>4. Head(queue) # 0
    BY <1>4, <2>2
  <2> QED
    BY <1>1, <1>3, <2>1, <2>2, <2>3, <2>4 DEF CallbackOrder
<1>7. ASSUME NEW v \in Workers, v # w PROVE CallbackOrder(v)'
  <2>1. worker'[v] = worker[v] /\ message'[v] = message[v]
    BY <1>1, <1>7 DEF TypeInv
  <2>2. worker[v] \notin {"callback", "count"}
    BY <1>1, <1>7, OthersIdle
  <2> QED
    BY <2>1, <2>2 DEF OrderInv, CallbackOrder
<1> QED
  BY <1>5, <1>6, <1>7, Zenon DEF OrderInv

(* The callback's message follows all that were delivered before.          *)
LEMMA OrderCallback ==
  ASSUME TypeInv, TokenInv, OrderInv, NEW w \in Workers, ProcessCallback(w)
  PROVE  OrderInv'
<1>1. /\ UNCHANGED <<queue, message>> /\ delivered' = Append(delivered, message[w])
      /\ worker' = [worker EXCEPT ![w] = "count"] /\ worker[w] = "callback" /\ Holds(w)
  BY DEF ProcessCallback, Holds
<1>2. stats'.received = stats.received /\ stats.received \in Nat
  BY DEF ProcessCallback, TypeInv, Counters
<1>3. /\ message[w] \in Nat /\ message[w] # 0 /\ message[w] <= stats.received
      /\ \A i \in 1 .. Len(delivered) : delivered[i] < message[w]
      /\ \A j \in 1 .. Len(queue) : message[w] < queue[j]
  BY <1>1 DEF TypeInv, OrderInv, CallbackOrder
<1>4. /\ Len(delivered') = Len(delivered) + 1 /\ delivered'[Len(delivered) + 1] = message[w]
      /\ \A i \in 1 .. Len(delivered) : delivered'[i] = delivered[i]
  BY <1>1, <1>3, Appended DEF TypeInv
<1>5. \A i \in 1 .. Len(delivered') : i \in 1 .. Len(delivered) \/ i = Len(delivered) + 1
  BY <1>4 DEF TypeInv
<1>6. Increasing(delivered')
  BY <1>1, <1>3, IncreasingAppend DEF TypeInv, OrderInv, QueueOrder
<1>7. QueueOrder'
  <2>1. Increasing(queue')
    BY <1>1 DEF OrderInv, QueueOrder
  <2>2. \A i \in 1 .. Len(delivered') : delivered'[i] <= stats'.received
    BY <1>2, <1>3, <1>4, <1>5 DEF OrderInv, QueueOrder
  <2>3. \A j \in 1 .. Len(queue') : queue'[j] > 0 /\ queue'[j] <= stats'.received
    BY <1>1, <1>2 DEF OrderInv, QueueOrder
  <2>4. \A i \in 1 .. Len(delivered'), j \in 1 .. Len(queue') : delivered'[i] < queue'[j]
    BY <1>1, <1>3, <1>4, <1>5 DEF OrderInv, QueueOrder
  <2> QED
    BY <1>6, <2>1, <2>2, <2>3, <2>4 DEF QueueOrder, Increasing
<1>8. CallbackOrder(w)'
  <2>1. worker'[w] = "count" /\ message'[w] # 0
    BY <1>1, <1>3 DEF TypeInv
  <2> QED
    BY <2>1 DEF CallbackOrder
<1>9. ASSUME NEW v \in Workers, v # w PROVE CallbackOrder(v)'
  <2>1. worker'[v] = worker[v] /\ message'[v] = message[v]
    BY <1>1, <1>9 DEF TypeInv
  <2>2. worker[v] \notin {"callback", "count"}
    BY <1>1, <1>9, OthersIdle
  <2> QED
    BY <2>1, <2>2 DEF OrderInv, CallbackOrder
<1> QED
  BY <1>7, <1>8, <1>9, Zenon DEF OrderInv

(* Counting the delivery ends the worker's hold on the message.            *)
LEMMA OrderCount ==
  ASSUME TypeInv, TokenInv, OrderInv, NEW w \in Workers, ProcessCount(w)
  PROVE  OrderInv'
<1>1. /\ UNCHANGED <<queue, delivered>> /\ message' = [message EXCEPT ![w] = 0]
      /\ worker' = [worker EXCEPT ![w] = "reschedule"] /\ Holds(w)
  BY DEF ProcessCount, historyVars, Holds
<1>2. stats'.received = stats.received
  BY DEF ProcessCount, TypeInv, Counters
<1>3. QueueOrder'
  BY <1>1, <1>2 DEF OrderInv, QueueOrder, Increasing
<1>4. CallbackOrder(w)'
  <2>1. worker'[w] = "reschedule" /\ message'[w] = 0
    BY <1>1 DEF TypeInv
  <2> QED
    BY <2>1 DEF CallbackOrder
<1>5. ASSUME NEW v \in Workers, v # w PROVE CallbackOrder(v)'
  <2>1. worker'[v] = worker[v] /\ message'[v] = message[v]
    BY <1>1, <1>5 DEF TypeInv
  <2>2. worker[v] \notin {"callback", "count"}
    BY <1>1, <1>5, OthersIdle
  <2> QED
    BY <2>1, <2>2 DEF OrderInv, CallbackOrder
<1> QED
  BY <1>3, <1>4, <1>5, Zenon DEF OrderInv

(* Every step keeps the order.                                             *)
LEMMA OrderStep ==
  ASSUME TypeInv, TokenInv, OrderInv, [Next]_vars
  PROVE  OrderInv'
<1>1. ASSUME NEW r \in Receivers, AcceptStep(r)
      PROVE  OrderInv'
  <2>1. UNCHANGED <<delivered, queue, stats, message, worker>>
    BY <1>1 DEF AcceptStep, AcceptReserve, AcceptPush, AcceptFailed, taskVars, stateVars,
                historyVars
  <2> QED
    BY <2>1, OrderKept
<1>2. ASSUME NEW w \in Workers,
             \/ Take(w) \/ TaskStep(w) \/ ProcessNothing(w)
             \/ ProcessReschedule(w) \/ ProcessReserve(w) \/ ProcessPush(w)
      PROVE  OrderInv'
  <2>1. UNCHANGED <<delivered, queue, stats, message>>
    BY <1>2 DEF Take, TaskStep, ProcessNothing, ProcessReschedule, ProcessReserve, ProcessPush,
                stateVars, historyVars
  <2>2. PICK p \in Places \ {"callback", "count"} :
          worker' = [worker EXCEPT ![w] = p] /\ worker[w] \notin {"callback", "count"}
    BY <1>2 DEF Take, JobTaken, TaskStep, JobDispatched, OtherStep, OtherTaken, OtherFinished,
                ProcessNothing, ProcessReschedule, ProcessReserve, ProcessPush, Places
  <2>3. \A v \in Workers : \/ worker'[v] = worker[v]
                           \/ {worker[v], worker'[v]} \cap {"callback", "count"} = {}
    BY <2>2 DEF TypeInv
  <2> QED
    BY <2>1, <2>3, OrderKept
<1>3. CASE Others \/ CloseCancel \/ UNCHANGED vars
  <2>1. UNCHANGED <<delivered, queue, stats, message, worker>>
    BY <1>3 DEF Others, OtherNotify, CloseCancel, vars, taskVars, stateVars, historyVars
  <2> QED
    BY <2>1, OrderKept
<1>4. CASE Close
  <2>1. UNCHANGED <<delivered, stats, message, worker>> /\ queue' = << >>
    BY <1>4 DEF Close, taskVars
  <2>2. QueueOrder'
    BY <2>1 DEF OrderInv, QueueOrder, Increasing
  <2>3. ASSUME NEW w \in Workers PROVE CallbackOrder(w)'
    BY <2>1 DEF OrderInv, CallbackOrder
  <2> QED
    BY <2>2, <2>3 DEF OrderInv
<1> QED
  BY <1>1, <1>2, <1>3, <1>4, OrderAcceptDrop, OrderAcceptQueue, OrderTake, OrderCallback,
     OrderCount DEF Next, ProcessStep

-----------------------------------------------------------------------------
(* Close runs its section once.                                            *)
LEMMA CloseStep ==
  ASSUME CloseInv, [Next]_vars
  PROVE  CloseInv'
<1>1. CASE Close
  BY <1>1 DEF Close, CloseInv
<1>2. CASE CloseCancel
  BY <1>2 DEF CloseCancel, CloseInv
<1>3. CASE ~Close /\ ~CloseCancel
  <2>1. UNCHANGED <<closer, closed, cleared>>
    BY <1>3 DEF Next, vars, AcceptDropNewest, AcceptQueue, AcceptStep, AcceptReserve, AcceptPush,
       AcceptFailed, Take, TaskStep, ProcessStep, ProcessNothing, ProcessTake, ProcessCallback,
       ProcessCount, ProcessReschedule, ProcessReserve, ProcessPush, Others, stateVars,
       historyVars
  <2> QED
    BY <2>1 DEF CloseInv
<1> QED
  BY <1>1, <1>2, <1>3

(* Delivering is the worker that holds the token, or nobody.               *)
LEMMA OneDelivers ==
  ASSUME TypeInv, TokenInv, OrderInv
  PROVE  Cardinality(Delivering) \in {0, 1}
<1>1. \A w \in Delivering : w \in Workers /\ Holds(w)
  BY DEF Delivering, OrderInv, CallbackOrder, Holds
<1>2. \A v, w \in Delivering : v = w
  BY <1>1, Zenon DEF TokenInv
<1>3. CASE Delivering = {}
  BY <1>3, FS_EmptySet
<1>4. ASSUME NEW w \in Delivering PROVE Cardinality(Delivering) = 1
  <2>1. Delivering = {w}
    BY <1>2, <1>4
  <2> QED
    BY <2>1, FS_Singleton
<1> QED
  BY <1>3, <1>4

(* With a token holder, nobody else is in a callback.                      *)
LEMMA SoleDeliverer ==
  ASSUME TypeInv, TokenInv, OrderInv, NEW w \in Workers, Holds(w)
  PROVE  Delivering = IF message[w] # 0 THEN {w} ELSE {}
<1>1. \A v \in Workers : v # w => message[v] = 0
  BY OthersIdle DEF OrderInv, CallbackOrder
<1> QED
  BY <1>1 DEF Delivering

(* Every step keeps the books balanced.  The values before the step get    *)
(* names, so that what is left of each case is arithmetic on constants.    *)
LEMMA AccountedStep ==
  ASSUME TypeInv, TokenInv, OrderInv, CloseInv, MessagesAccounted, [Next]_vars
  PROVE  MessagesAccounted'
<1> DEFINE Books(received, len, cb, done, dropped, th, cl) ==
      /\ stats.received = received /\ Len(queue) = len /\ Cardinality(Delivering) = cb
      /\ stats.delivered = done /\ stats.dropped = dropped /\ thrown = th /\ cleared = cl
<1>a. PICK rec \in Nat, len \in Nat, cb \in Nat, done \in Nat, drop \in Nat, th \in Nat,
           cl \in Nat : Books(rec, len, cb, done, drop, th, cl)
  <2>1. /\ stats.received \in Nat /\ stats.dropped \in Nat /\ stats.delivered \in Nat
        /\ thrown \in Nat /\ cleared \in Nat /\ Len(queue) \in Nat
    BY DEF TypeInv, Counters
  <2>2. Cardinality(Delivering) \in Nat
    BY OneDelivers
  <2> QED
    BY <2>1, <2>2, Zenon
<1>b. rec = len + cb + done + (drop - th) + cl
  BY <1>a DEF MessagesAccounted
<1>c. message' = message => Cardinality(Delivering') = cb
  BY <1>a DEF Delivering
<1>1. ASSUME NEW r \in Receivers, AcceptDropNewest(r)
      PROVE  MessagesAccounted'
  <2>1. /\ stats'.received = rec + 1 /\ stats'.dropped = drop + 1 /\ stats'.delivered = done
    BY <1>a, <1>1 DEF AcceptDropNewest, DropCounted, TypeInv, Counters
  <2>2. UNCHANGED <<queue, message, thrown, cleared>>
    BY <1>1 DEF AcceptDropNewest, historyVars
  <2>3. Len(queue') = len /\ Cardinality(Delivering') = cb /\ thrown' = th /\ cleared' = cl
    BY <1>a, <1>c, <2>2
  <2> QED
    BY <1>b, <2>1, <2>3 DEF MessagesAccounted
<1>2. ASSUME NEW r \in Receivers, AcceptQueue(r)
      PROVE  MessagesAccounted'
  <2>1. UNCHANGED <<message, thrown, cleared>>
    BY <1>2 DEF AcceptQueue, historyVars
  <2>2. Cardinality(Delivering') = cb /\ thrown' = th /\ cleared' = cl
    BY <1>a, <1>c, <2>1
  <2>3. stats'.received = rec + 1 /\ stats'.delivered = done
    BY <1>a, <1>2 DEF AcceptQueue, DropCounted, TypeInv, Counters
  <2>4. CASE Full
    <3>1. stats'.dropped = drop + 1
      BY <1>a, <1>2, <2>4 DEF AcceptQueue, DropCounted, TypeInv, Counters
    <3>2. queue # << >>
      BY <2>4, QueueAssumption DEF Full, TypeInv
    <3>3. Tail(queue) \in Seq(Nat) /\ Len(Tail(queue)) = len - 1
      BY <1>a, <3>2, Behead DEF TypeInv
    <3>4. queue' = Append(Tail(queue), rec + 1)
      BY <1>a, <1>2, <2>4 DEF AcceptQueue
    <3>5. Len(queue') = len
      BY <3>3, <3>4, Appended
    <3> QED
      BY <1>b, <2>2, <2>3, <3>1, <3>5 DEF MessagesAccounted
  <2>5. CASE ~Full
    <3>1. stats'.dropped = drop
      BY <1>a, <1>2, <2>5 DEF AcceptQueue, TypeInv, Counters
    <3>2. queue' = Append(queue, rec + 1)
      BY <1>a, <1>2, <2>5 DEF AcceptQueue
    <3>3. Len(queue') = len + 1
      BY <1>a, <3>2, Appended DEF TypeInv
    <3> QED
      BY <1>b, <2>2, <2>3, <3>1, <3>3 DEF MessagesAccounted
  <2> QED
    BY <2>4, <2>5
<1>3. ASSUME NEW w \in Workers, ProcessTake(w)
      PROVE  MessagesAccounted'
  <2>1. /\ UNCHANGED <<stats, thrown, cleared>> /\ queue # << >> /\ queue' = Tail(queue)
        /\ worker[w] = "process" /\ message' = [message EXCEPT ![w] = Head(queue)]
    BY <1>3 DEF ProcessTake, Backlog, historyVars
  <2>2. Len(queue') = len - 1 /\ 1 \in 1 .. Len(queue) /\ Head(queue) = queue[1]
    BY <1>a, <2>1, Behead DEF TypeInv
  <2>3. message[w] = 0 /\ Holds(w)
    BY <2>1 DEF OrderInv, CallbackOrder, Holds
  <2>4. Delivering = {}
    BY <2>3, SoleDeliverer
  <2>5. queue[1] > 0 /\ queue[1] \in Nat
    BY <2>2 DEF OrderInv, QueueOrder, TypeInv
  <2>6. Head(queue) # 0
    BY <2>2, <2>5
  <2>7. Delivering' = {w}
    BY <2>1, <2>4, <2>6 DEF Delivering, TypeInv
  <2>8. cb = 0 /\ Cardinality(Delivering') = 1
    BY Zenon, <1>a, <2>4, <2>7, FS_EmptySet, FS_Singleton
  <2>9. /\ stats'.received = rec /\ stats'.dropped = drop /\ stats'.delivered = done
        /\ thrown' = th /\ cleared' = cl
    BY <1>a, <2>1
  <2> QED
    BY <1>b, <2>2, <2>8, <2>9 DEF MessagesAccounted
<1>4. ASSUME NEW w \in Workers, ProcessCallback(w)
      PROVE  MessagesAccounted'
  <2>1. UNCHANGED <<message, queue, cleared>>
    BY <1>4 DEF ProcessCallback
  <2>2. Len(queue') = len /\ Cardinality(Delivering') = cb /\ cleared' = cl
    BY <1>a, <1>c, <2>1
  <2>3. PICK throws \in BOOLEAN :
          /\ stats' = IF throws THEN [stats EXCEPT !.dropped = @ + 1] ELSE stats
          /\ thrown' = IF throws THEN thrown + 1 ELSE thrown
    BY <1>4, Zenon DEF ProcessCallback
  <2>4. stats'.received = rec /\ stats'.delivered = done
    BY <1>a, <2>3 DEF TypeInv, Counters
  <2>5. CASE throws
    <3>1. stats'.dropped = drop + 1 /\ thrown' = th + 1
      BY <1>a, <2>3, <2>5 DEF TypeInv, Counters
    <3> QED
      BY <1>b, <2>2, <2>4, <3>1 DEF MessagesAccounted
  <2>6. CASE ~throws
    <3>1. stats'.dropped = drop /\ thrown' = th
      BY <1>a, <2>3, <2>6
    <3> QED
      BY <1>b, <2>2, <2>4, <3>1 DEF MessagesAccounted
  <2> QED
    BY <2>5, <2>6
<1>5. ASSUME NEW w \in Workers, ProcessCount(w)
      PROVE  MessagesAccounted'
  <2>1. /\ UNCHANGED <<queue, thrown, cleared>> /\ message' = [message EXCEPT ![w] = 0]
        /\ worker[w] = "count"
    BY <1>5 DEF ProcessCount, historyVars
  <2>2. stats'.received = rec /\ stats'.dropped = drop /\ stats'.delivered = done + 1
    BY <1>a, <1>5 DEF ProcessCount, TypeInv, Counters
  <2>3. message[w] # 0 /\ Holds(w)
    BY <2>1 DEF OrderInv, CallbackOrder, Holds
  <2>4. Delivering = {w}
    BY <2>3, SoleDeliverer
  <2>5. Delivering' = {}
    BY <2>1, <2>4 DEF Delivering, TypeInv
  <2>6. cb = 1 /\ Cardinality(Delivering') = 0
    BY Zenon, <1>a, <2>4, <2>5, FS_EmptySet, FS_Singleton
  <2>7. Len(queue') = len /\ thrown' = th /\ cleared' = cl
    BY <1>a, <2>1
  <2> QED
    BY <1>b, <2>2, <2>6, <2>7 DEF MessagesAccounted
<1>6. CASE Close
  <2>1. UNCHANGED <<stats, message, thrown>> /\ queue' = << >> /\ cleared' = Len(queue)
    BY <1>6 DEF Close
  <2>2. cl = 0 /\ cleared' = len /\ Len(queue') = 0
    BY <1>a, <1>6, <2>1 DEF Close, CloseInv
  <2>3. /\ stats'.received = rec /\ stats'.dropped = drop /\ stats'.delivered = done
        /\ thrown' = th /\ Cardinality(Delivering') = cb
    BY <1>a, <1>c, <2>1
  <2> QED
    BY <1>b, <2>2, <2>3 DEF MessagesAccounted
<1>7. CASE UNCHANGED <<stats, message, queue, thrown, cleared>>
  BY <1>7 DEF MessagesAccounted, Delivering
<1>8. ASSUME NEW r \in Receivers, AcceptStep(r)
      PROVE  UNCHANGED <<stats, message, queue, thrown, cleared>>
  BY <1>8 DEF AcceptStep, AcceptReserve, AcceptPush, AcceptFailed, stateVars, historyVars
<1>9. ASSUME NEW w \in Workers,
             \/ Take(w) \/ TaskStep(w) \/ ProcessNothing(w)
             \/ ProcessReschedule(w) \/ ProcessReserve(w) \/ ProcessPush(w)
      PROVE  UNCHANGED <<stats, message, queue, thrown, cleared>>
  BY <1>9 DEF Take, TaskStep, ProcessNothing, ProcessReschedule, ProcessReserve, ProcessPush,
              stateVars, historyVars
<1>10. Others \/ CloseCancel \/ UNCHANGED vars
         => UNCHANGED <<stats, message, queue, thrown, cleared>>
  BY DEF Others, CloseCancel, vars, stateVars, historyVars
<1> QED
  BY <1>1, <1>2, <1>3, <1>4, <1>5, <1>6, <1>7, <1>8, <1>9, <1>10 DEF Next, ProcessStep

-----------------------------------------------------------------------------
(* The invariant holds of every behaviour.                                 *)
LEMMA Invariance == Spec => []IInv
<1>1. Init => IInv
  BY InitInv
<1>2. IInv /\ [Next]_vars => IInv'
  BY TypeStep, TokenStep, OrderStep, CloseStep, AccountedStep DEF IInv
<1> QED
  BY <1>1, <1>2, PTL DEF Spec

(* SerialInOrder: with any number of workers and receivers the callbacks   *)
(* of a subscription never overlap, and see the messages in the order in   *)
(* which Accept numbered them.  Nothing is assumed of the executor but     *)
(* that a job is taken by one worker.                                      *)
THEOREM SerialInOrderHolds == Spec => []SerialInOrder
<1>1. IInv => SerialInOrder
  <2> SUFFICES ASSUME IInv PROVE SerialInOrder
    OBVIOUS
  <2>1. Cardinality(Delivering) <= 1
    BY OneDelivers DEF IInv
  <2>2. Len(delivered) \in Nat
    BY DEF IInv, TypeInv
  <2>3. \A i \in 1 .. Len(delivered) - 1 : delivered[i] < delivered[i + 1]
    BY <2>2 DEF IInv, OrderInv, QueueOrder, Increasing
  <2> QED
    BY <2>1, <2>3 DEF SerialInOrder
<1>2. Spec => []IInv
  BY Invariance
<1> QED
  BY <1>1, <1>2, PTL

(* MessagesAccounted: SubscriptionStats adds up in every state, for any    *)
(* capacity, overflow policy and number of threads.                        *)
THEOREM MessagesAccountedHolds == Spec => []MessagesAccounted
<1>1. IInv => MessagesAccounted
  BY DEF IInv
<1>2. Spec => []IInv
  BY Invariance
<1> QED
  BY <1>1, <1>2, PTL
=============================================================================
