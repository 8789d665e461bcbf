--------------------------- MODULE ServiceProofs ---------------------------
(***************************************************************************)
(* Safety of Service::Impl (runtime/src/node.cpp), proved for any callers, *)
(* workers, capacities and bounds.  A PendingCall is in one place at a     *)
(* time: in the queue, with a worker or with Close; its promise is set as  *)
(* it leaves the last of them.  What Invoke tells a caller whose Notify    *)
(* failed rests on the token of the Event task, as in Subscription: while  *)
(* the caller has it no worker can take a call out of the queue.           *)
(***************************************************************************)
EXTENDS MCNode, TLAPS

Calls == Srv!Calls
Places == {"idle", "other", "popped", "process", "handle", "answer",
           "reschedule", "reserve", "push"}
Answers == {"Ok", "Internal", "Timeout"}
Answered == Answers \cup {"Closed"}

Types ==
  /\ srvMade \in Nat /\ srvMade <= MaxCalls
  /\ srvJobs \in Nat
  /\ srvWorker \in [Workers -> Places]
  /\ srvInvoke \in [Receivers -> {"idle", "reserve", "push", "failed", "waiting"}]
  /\ srvPending \in [Receivers -> Nat]
  /\ srvQueue \in Seq(Calls) /\ srvClosing \in Seq(Calls)
  /\ srvWorking \in [Workers -> Calls \cup {0}]
  /\ srvAnswer \in [Workers -> Answers \cup {"none"}]
  /\ srvCompletion \in [Calls -> Answered \cup {"unset"}]
  /\ srvSets \in [Calls -> Nat]
  /\ srvTold \in [Calls -> Answered \cup {"nothing", "Refused"}]

(* The right to run ProcessOne: a caller that notifies, the job and the    *)
(* worker that runs it have it in turn.                                    *)
Holds(w) == srvWorker[w] \notin {"idle", "other"}
Asks(c) == srvInvoke[c] \in {"reserve", "push", "failed"}
NoneAsks == \A c \in Receivers : ~Asks(c)
NoneHolds == \A w \in Workers : ~Holds(w)
Token ==
  /\ srvJobs > 0 => srvJobs = 1 /\ NoneAsks /\ NoneHolds
  /\ \A c \in Receivers :
       Asks(c) => NoneHolds /\ \A d \in Receivers : Asks(d) => d = c
  /\ \A w \in Workers : Holds(w) => \A v \in Workers : Holds(v) => v = w
  /\ ~srvClosed /\ ~srvScheduled => srvJobs = 0 /\ NoneAsks /\ NoneHolds

(* Where a call is.  No two entries are of the same call.                  *)
In(s, k) == \E i \in 1 .. Len(s) : s[i] = k
Distinct(s) == \A i, j \in 1 .. Len(s) : s[i] = s[j] => i = j
Held(k) == \E w \in Workers : srvWorking[w] = k

OnePlace ==
  /\ Distinct(srvQueue) /\ Distinct(srvClosing)
  /\ \A k \in Calls :
       /\ In(srvQueue, k) => ~In(srvClosing, k) /\ ~Held(k)
       /\ In(srvClosing, k) => ~Held(k)
       /\ In(srvQueue, k) \/ In(srvClosing, k) \/ Held(k) =>
            k <= srvMade /\ srvSets[k] = 0
  /\ \A w \in Workers :
       /\ srvWorking[w] # 0 <=> srvWorker[w] \in {"handle", "answer"}
       /\ srvWorking[w] # 0 =>
            \A v \in Workers : srvWorking[v] = srvWorking[w] => v = w

(* What is known of a call when its promise is set or its Invoke returns.  *)
CallTruth(k) ==
  /\ srvSets[k] <= 1 /\ (srvSets[k] = 0 <=> srvCompletion[k] = "unset")
  /\ k > srvMade => /\ srvSets[k] = 0 /\ srvTold[k] = "nothing"
                    /\ k \notin srvHandled
  /\ k \in srvHandled => ~In(srvQueue, k) /\ ~In(srvClosing, k)
  /\ srvCompletion[k] \in {"Ok", "Internal"} => k \in srvHandled
  /\ srvCompletion[k] = "Closed" => k \notin srvHandled
  /\ srvTold[k] \in {"Ok", "Internal"} => k \in srvHandled
  /\ srvTold[k] = "Closed" => srvCompletion[k] = "Closed"
  /\ srvTold[k] = "Refused" => /\ k \notin srvHandled
                               /\ ~In(srvQueue, k) /\ ~Held(k)
(* By a worker, around the handler.                                        *)
WorkerTruth(w) ==
  /\ srvWorker[w] = "handle" => srvWorking[w] \notin srvHandled
  /\ srvWorker[w] = "answer" =>
       /\ srvAnswer[w] \in Answers
       /\ srvAnswer[w] \in {"Ok", "Internal"} => srvWorking[w] \in srvHandled
(* By a caller in Invoke.                                                  *)
CallerTruth(c) ==
  /\ srvInvoke[c] # "idle" => srvPending[c] \in Calls /\ srvPending[c] <= srvMade
  /\ Asks(c) => srvPending[c] \notin srvHandled /\ ~Held(srvPending[c])
Truth ==
  /\ \A k \in Calls : CallTruth(k)
  /\ \A w \in Workers : WorkerTruth(w)
  /\ \A c \in Receivers : CallerTruth(c)

SrvInv == Types /\ Token /\ OnePlace /\ Truth

-----------------------------------------------------------------------------
(* What Append, Tail and Head do, index by index.                          *)
LEMMA Appended ==
  ASSUME NEW S, NEW s \in Seq(S), NEW m \in S
  PROVE  /\ Append(s, m) \in Seq(S) /\ Len(Append(s, m)) = Len(s) + 1
         /\ Append(s, m)[Len(s) + 1] = m
         /\ \A i \in 1 .. Len(s) : Append(s, m)[i] = s[i]
  OBVIOUS

(* What is left of a queue whose first call was taken.                     *)
LEMMA Behead ==
  ASSUME NEW S, NEW s \in Seq(S), s # << >>
  PROVE  /\ Tail(s) \in Seq(S) /\ Len(Tail(s)) = Len(s) - 1 /\ Len(s) > 0
         /\ Head(s) = s[1] /\ Head(s) \in S
         /\ \A i \in 1 .. Len(Tail(s)) : Tail(s)[i] = s[i + 1]
  OBVIOUS

(* A service begins with no calls and no token.                            *)
LEMMA InitInv == Srv!Init => SrvInv
<1> SUFFICES ASSUME Srv!Init PROVE SrvInv
  OBVIOUS
<1>1. Types
  BY ServiceAssumption DEF Srv!Init, Srv!TaskInit, Types, Calls, Places, Answers, Answered
<1>2. Token
  BY DEF Srv!Init, Srv!TaskInit, Token, Holds, Asks, NoneAsks, NoneHolds
<1>3. OnePlace
  BY DEF Srv!Init, Srv!TaskInit, OnePlace, In, Distinct, Held, Calls, Srv!Calls
<1>4. Truth
  BY DEF Srv!Init, Srv!TaskInit, Truth, CallTruth, WorkerTruth, CallerTruth, Calls, Srv!Calls, In, Held, Asks
<1> QED
  BY Zenon, <1>1, <1>2, <1>3, <1>4 DEF SrvInv

(* What is in a queue when a call is put at its end.                       *)
LEMMA InAppend ==
  ASSUME NEW S, NEW s \in Seq(S), NEW m \in S
  PROVE  /\ \A k : In(Append(s, m), k) <=> In(s, k) \/ k = m
         /\ Distinct(s) /\ ~In(s, m) => Distinct(Append(s, m))
<1> DEFINE t == Append(s, m)
<1>1. /\ Len(t) = Len(s) + 1 /\ t[Len(s) + 1] = m /\ Len(s) \in Nat
      /\ \A i \in 1 .. Len(s) : t[i] = s[i]
  BY Appended
<1> HIDE DEF t
<1>2. \A k : In(t, k) <=> In(s, k) \/ k = m
  BY <1>1 DEF In
<1>3. ASSUME Distinct(s), ~In(s, m) PROVE Distinct(t)
  <2> SUFFICES ASSUME NEW i \in 1 .. Len(s) + 1, NEW j \in 1 .. Len(s) + 1, t[i] = t[j]
               PROVE  i = j
    BY Zenon, <1>1 DEF Distinct
  <2>1. CASE i \in 1 .. Len(s) /\ j \in 1 .. Len(s)
    BY Zenon, <1>1, <1>3, <2>1 DEF Distinct
  <2>2. CASE i = Len(s) + 1 /\ j \in 1 .. Len(s)
    BY Zenon, <1>1, <1>3, <2>2 DEF In
  <2>3. CASE i \in 1 .. Len(s) /\ j = Len(s) + 1
    BY Zenon, <1>1, <1>3, <2>3 DEF In
  <2> QED
    BY <1>1, <2>1, <2>2, <2>3
<1> QED
  BY Zenon, <1>2, <1>3 DEF t

(* What is left when the entry at i is erased: all the others, in order.   *)
LEMMA Erase ==
  ASSUME NEW S, NEW s \in Seq(S), NEW t \in Seq(S), NEW i \in 1 .. Len(s),
         Distinct(s), Len(t) = Len(s) - 1,
         \A j \in 1 .. Len(t) : /\ j < i => t[j] = s[j]
                                /\ j >= i => t[j] = s[j + 1]
  PROVE  /\ Distinct(t)
         /\ \A k : In(t, k) <=> In(s, k) /\ k # s[i]
<1>1. Len(s) \in Nat /\ Len(s) > 0
  OBVIOUS
<1>2. \A j \in 1 .. Len(s) - 1 : /\ j < i => t[j] = s[j]
                                 /\ j >= i => t[j] = s[j + 1]
  OBVIOUS
<1>4. Len(t) = Len(s) - 1
  OBVIOUS
<1>5. Distinct(t)
  BY <1>1, <1>2, <1>4 DEF Distinct
<1>6. ASSUME NEW k, In(t, k) PROVE In(s, k) /\ k # s[i]
  <2>1. PICK j \in 1 .. Len(s) - 1 : t[j] = k
    BY Zenon, <1>4, <1>6 DEF In
  <2>2. j \in 1 .. Len(s) /\ j + 1 \in 1 .. Len(s)
    BY <1>1
  <2>3. CASE j < i
    BY <1>1, <1>2, <2>1, <2>2, <2>3 DEF In, Distinct
  <2>4. CASE j >= i
    BY <1>1, <1>2, <2>1, <2>2, <2>4 DEF In, Distinct
  <2> QED
    BY <1>1, <2>3, <2>4
<1>7. ASSUME NEW k, In(s, k), k # s[i] PROVE In(t, k)
  <2>1. PICK j \in 1 .. Len(s) : s[j] = k
    BY Zenon, <1>7 DEF In
  <2>2. CASE j < i
    <3>1. j \in 1 .. Len(s) - 1
      BY <1>1, <2>2
    <3> QED
      BY Zenon, <1>2, <1>4, <2>1, <2>2, <3>1 DEF In
  <2>3. CASE j > i
    <3>1. j - 1 \in 1 .. Len(s) - 1 /\ j - 1 >= i /\ (j - 1) + 1 = j
      BY <1>1, <2>3
    <3> QED
      BY Zenon, <1>2, <1>4, <2>1, <3>1 DEF In
  <2> QED
    BY <1>1, <1>7, <2>1, <2>2, <2>3
<1> QED
  BY Zenon, <1>5, <1>6, <1>7

(* The front of a queue is in it, and it alone goes when it is popped.     *)
LEMMA InTail ==
  ASSUME NEW S, NEW s \in Seq(S), s # << >>, Distinct(s)
  PROVE  /\ Tail(s) \in Seq(S) /\ Distinct(Tail(s))
         /\ Head(s) \in S /\ In(s, Head(s))
         /\ \A k : In(Tail(s), k) <=> In(s, k) /\ k # Head(s)
<1>1. /\ Tail(s) \in Seq(S) /\ Len(Tail(s)) = Len(s) - 1 /\ Len(s) \in Nat
      /\ Head(s) = s[1] /\ Head(s) \in S /\ 1 \in 1 .. Len(s)
      /\ \A i \in 1 .. Len(Tail(s)) : Tail(s)[i] = s[i + 1]
  BY Behead
<1> DEFINE t == Tail(s)
<1>2. /\ t \in Seq(S) /\ Len(t) = Len(s) - 1
      /\ \A j \in 1 .. Len(t) : /\ j < 1 => t[j] = s[j]
                                /\ j >= 1 => t[j] = s[j + 1]
  BY <1>1
<1> HIDE DEF t
<1>4. Distinct(t) /\ \A k : In(t, k) <=> In(s, k) /\ k # s[1]
  BY ZenonT(60), <1>1, <1>2, Erase
<1>5. In(s, Head(s))
  BY Zenon, <1>1 DEF In
<1> QED
  BY Zenon, <1>1, <1>4, <1>5 DEF t

(* node.cpp:417: the failed call is out of the queue, and no other one.    *)
LEMMA InRest ==
  ASSUME Types, Distinct(srvQueue), NEW c \in Receivers
  PROVE  /\ Srv!Rest(c) \in Seq(Calls) /\ Distinct(Srv!Rest(c))
         /\ \A k : In(Srv!Rest(c), k) <=> In(srvQueue, k) /\ k # srvPending[c]
<1>0. srvQueue \in Seq(Calls)
  BY Zenon DEF Types
<1>1. CASE Srv!Found(c) = {}
  <2>1. ~In(srvQueue, srvPending[c])
    BY Zenon, <1>1 DEF Srv!Found, In
  <2>2. Srv!Rest(c) = srvQueue
    BY Zenon, <1>1 DEF Srv!Rest
  <2> QED
    BY Zenon, <1>0, <2>1, <2>2
<1>2. CASE Srv!Found(c) # {}
  <2>1. PICK i \in 1 .. Len(srvQueue) : srvQueue[i] = srvPending[c]
    BY Zenon, <1>2 DEF Srv!Found
  <2>2. Srv!Found(c) = {i}
    BY Zenon, <2>1 DEF Srv!Found, Distinct
  <2>3. i <= i
    BY <1>0
  <2>4. (CHOOSE n \in Srv!Found(c) : \A j \in Srv!Found(c) : n <= j) = i
    BY Zenon, <2>2, <2>3
  <2>5. Srv!Rest(c) = Srv!Erased(i)
    BY Zenon, <1>2, <2>4 DEF Srv!Rest
  <2> DEFINE t == Srv!Rest(c)
             n == Len(srvQueue)
  <2>6. t = [j \in 1 .. n - 1 |-> IF j < i THEN srvQueue[j] ELSE srvQueue[j + 1]]
    BY Zenon, <2>5 DEF Srv!Erased
  <2>a. n \in Nat /\ \A j \in 1 .. n : srvQueue[j] \in Calls
    BY <1>0
  <2> HIDE DEF t, n
  <2>b. \A j \in 1 .. n - 1 : /\ j < i => t[j] = srvQueue[j]
                              /\ j >= i => t[j] = srvQueue[j + 1]
    BY <2>1, <2>6, <2>a DEF n
  <2>c. \A j \in 1 .. n - 1 : t[j] \in Calls
    <3> SUFFICES ASSUME NEW j \in 1 .. n - 1 PROVE t[j] \in Calls
      OBVIOUS
    <3>1. i \in Nat /\ j \in 1 .. n /\ j + 1 \in 1 .. n
      BY <2>1, <2>a
    <3>2. CASE j < i
      BY Zenon, <2>a, <2>b, <3>1, <3>2
    <3>3. CASE j >= i
      BY Zenon, <2>a, <2>b, <3>1, <3>3
    <3> QED
      BY <3>1, <3>2, <3>3
  <2>d. t \in [1 .. n - 1 -> Calls]
    <3>1. DOMAIN t = 1 .. n - 1 /\ t = [j \in 1 .. n - 1 |-> t[j]]
      BY Zenon, <2>6
    <3> QED
      BY Zenon, <2>c, <3>1
  <2>e. n - 1 \in Nat
    BY <2>1, <2>a DEF n
  <2>f. t \in Seq(Calls) /\ Len(t) = n - 1
    BY <2>d, <2>e
  <2>7. /\ Distinct(t)
        /\ \A k : In(t, k) <=> In(srvQueue, k) /\ k # srvQueue[i]
    <3>1. /\ Len(t) = Len(srvQueue) - 1
          /\ \A j \in 1 .. Len(t) : /\ j < i => t[j] = srvQueue[j]
                                    /\ j >= i => t[j] = srvQueue[j + 1]
      BY Zenon, <2>b, <2>f DEF n
    <3> QED
      BY ZenonT(60), <1>0, <2>1, <2>f, <3>1, Erase
  <2> QED
    BY Zenon, <2>1, <2>7, <2>f DEF t
<1> QED
  BY Zenon, <1>1, <1>2

-----------------------------------------------------------------------------
(* Every step of the service keeps the types.                              *)
LEMMA TypeStep ==
  ASSUME SrvInv, Srv!Next
  PROVE  Types'
<1> USE DEF Srv!taskVars, Srv!enqueueVars, Srv!queueVars, Srv!promiseVars,
            Srv!invokeVars, Srv!workVars, Srv!closeVars
<1>0. Types /\ Truth /\ Distinct(srvQueue) /\ Distinct(srvClosing)
  BY Zenon DEF SrvInv, OnePlace
<1>1. ASSUME NEW c \in Receivers, Srv!Expire(c) PROVE Types'
  BY Zenon, <1>0, <1>1 DEF Srv!Expire, Types
<1>2. ASSUME NEW c \in Receivers, Srv!InvokeQueue(c) PROVE Types'
  <2>1. srvMade + 1 \in Calls /\ srvMade + 1 \in Nat /\ srvMade + 1 <= MaxCalls
    BY <1>0, <1>2, ServiceAssumption DEF Srv!InvokeQueue, Types, Calls, Srv!Calls
  <2>2. srvQueue' \in Seq(Calls)
    BY Zenon, <1>0, <1>2, <2>1, Appended DEF Srv!InvokeQueue, Types
  <2>3. srvPending' \in [Receivers -> Nat]
    BY Zenon, <1>0, <1>2, <2>1 DEF Srv!InvokeQueue, Types
  <2>4. srvInvoke' \in [Receivers -> {"idle", "reserve", "push", "failed", "waiting"}]
    BY Zenon, <1>0, <1>2 DEF Srv!InvokeQueue, Types
  <2> QED
    BY Zenon, <1>0, <1>2, <2>1, <2>2, <2>3, <2>4 DEF Srv!InvokeQueue, Types
<1>3. ASSUME NEW c \in Receivers, Srv!InvokeReserve(c) PROVE Types'
  BY Zenon, <1>0, <1>3 DEF Srv!InvokeReserve, Srv!EnqueueReserve, Types
<1>4. ASSUME NEW c \in Receivers, Srv!InvokePush(c) PROVE Types'
  BY <1>0, <1>4 DEF Srv!InvokePush, Srv!EnqueuePush, Types
<1>5. ASSUME NEW c \in Receivers, NEW status \in Answered \cup {"Refused"},
             srvPending[c] \in Calls, Srv!Returns(c, status)
      PROVE  /\ srvInvoke' \in [Receivers ->
                  {"idle", "reserve", "push", "failed", "waiting"}]
             /\ srvPending' \in [Receivers -> Nat]
             /\ srvTold' \in [Calls -> Answered \cup {"nothing", "Refused"}]
  BY Zenon, <1>0, <1>5 DEF Srv!Returns, Types
<1>6. ASSUME NEW c \in Receivers, Srv!InvokeFailed(c) PROVE Types'
  <2>1. srvPending[c] \in Calls
    BY Zenon, <1>0, <1>6 DEF Srv!InvokeFailed, Truth, CallerTruth
  <2>2. srvQueue' \in Seq(Calls)
    BY Zenon, <1>0, <1>6, InRest DEF Srv!InvokeFailed, Srv!TakenBack
  <2> QED
    BY Zenon, <1>0, <1>5, <1>6, <2>1, <2>2 DEF Srv!InvokeFailed, Types
<1>7. ASSUME NEW c \in Receivers, Srv!InvokeReady(c) PROVE Types'
  <2>1. srvPending[c] \in Calls
    BY Zenon, <1>0, <1>7 DEF Srv!InvokeReady, Truth, CallerTruth
  <2>2. srvCompletion[srvPending[c]] \in Answered
    BY Zenon, <1>0, <1>7, <2>1 DEF Srv!InvokeReady, Types
  <2> QED
    BY Zenon, <1>0, <1>5, <1>7, <2>1, <2>2 DEF Srv!InvokeReady, Types
<1>8. ASSUME NEW c \in Receivers, Srv!InvokeTimeout(c) PROVE Types'
  <2>1. srvPending[c] \in Calls
    BY Zenon, <1>0, <1>8 DEF Srv!InvokeTimeout, Truth, CallerTruth
  <2>2. "Timeout" \in Answered
    BY Zenon DEF Answered, Answers
  <2> QED
    BY Zenon, <1>0, <1>5, <1>8, <2>1, <2>2 DEF Srv!InvokeTimeout, Types
<1>9. ASSUME NEW w \in Workers, Srv!Take(w) \/ Srv!TaskStep(w) PROVE Types'
  <2>1. srvJobs' \in Nat
    BY <1>0, <1>9 DEF Srv!Take, Srv!TaskStep, Srv!JobTaken, Srv!JobDispatched,
       Srv!OtherStep, Srv!OtherTaken, Srv!OtherFinished, Types
  <2>3. srvWorker' \in [Workers -> Places]
    <3>1. \E p \in Places : srvWorker' = [srvWorker EXCEPT ![w] = p]
      BY Zenon, <1>9 DEF Srv!Take, Srv!TaskStep, Srv!JobTaken, Srv!JobDispatched,
         Srv!OtherStep, Srv!OtherTaken, Srv!OtherFinished, Places
    <3> QED
      BY Zenon, <1>0, <3>1 DEF Types
  <2>2. Srv!RestUnchanged
    BY Zenon, <1>9 DEF Srv!Take, Srv!TaskStep
  <2> QED
    BY Zenon, <1>0, <2>1, <2>2, <2>3 DEF Srv!RestUnchanged, Types
<1>10. ASSUME NEW w \in Workers, Srv!ProcessStep(w) PROVE Types'
  <2>1. CASE Srv!ProcessNothing(w)
    BY Zenon, <1>0, <2>1 DEF Srv!ProcessNothing, Types, Places
  <2>2. CASE Srv!ProcessTake(w)
    <3>1. srvQueue # << >> /\ srvQueue' = Tail(srvQueue)
      BY Zenon, <2>2 DEF Srv!ProcessTake, Srv!Backlog, Srv!Remaining
    <3>2. srvQueue' \in Seq(Calls) /\ Head(srvQueue) \in Calls
      BY Zenon, <1>0, <3>1, Behead DEF Types
    <3>3. srvWorking' \in [Workers -> Calls \cup {0}]
      BY Zenon, <1>0, <2>2, <3>2 DEF Srv!ProcessTake, Types
    <3>4. srvWorker' \in [Workers -> Places]
      BY Zenon, <1>0, <2>2 DEF Srv!ProcessTake, Types, Places
    <3> QED
      BY Zenon, <1>0, <2>2, <3>2, <3>3, <3>4 DEF Srv!ProcessTake, Types
  <2>3. CASE Srv!ProcessHandle(w)
    <3>1. srvAnswer' \in [Workers -> Answers \cup {"none"}]
      BY Zenon, <1>0, <2>3 DEF Srv!ProcessHandle, Types, Answers
    <3>2. srvWorker' \in [Workers -> Places]
      BY Zenon, <1>0, <2>3 DEF Srv!ProcessHandle, Types, Places
    <3> QED
      BY Zenon, <1>0, <2>3, <3>1, <3>2 DEF Srv!ProcessHandle, Types
  <2>4. CASE Srv!ProcessAnswer(w)
    <3>1. srvAnswer[w] \in Answered
      BY Zenon, <1>0, <2>4 DEF Srv!ProcessAnswer, Truth, WorkerTruth, Answered
    <3>2. srvCompletion' \in [Calls -> Answered \cup {"unset"}]
      BY Zenon, <1>0, <2>4, <3>1 DEF Srv!ProcessAnswer, Srv!SetValue, Types
    <3>5. srvSets' \in [Calls -> Nat]
      <4>1. srvWorking[w] \in Calls
        BY ZenonT(60), <1>0, <2>4 DEF Srv!ProcessAnswer, SrvInv, OnePlace, Types
      <4>2. srvSets[srvWorking[w]] + 1 \in Nat
        BY <1>0, <4>1 DEF Types
      <4> QED
        BY Zenon, <1>0, <2>4, <4>2 DEF Srv!ProcessAnswer, Srv!SetValue, Types
    <3>3. srvWorking' \in [Workers -> Calls \cup {0}]
      BY Zenon, <1>0, <2>4 DEF Srv!ProcessAnswer, Types
    <3>4. srvWorker' \in [Workers -> Places] /\ srvAnswer' \in [Workers -> Answers \cup {"none"}]
      BY Zenon, <1>0, <2>4 DEF Srv!ProcessAnswer, Types, Places
    <3> QED
      BY Zenon, <1>0, <2>4, <3>2, <3>3, <3>4, <3>5 DEF Srv!ProcessAnswer, Types
  <2>5. CASE Srv!ProcessReschedule(w)
    BY Zenon, <1>0, <2>5 DEF Srv!ProcessReschedule, Types, Places
  <2>6. CASE Srv!ProcessReserve(w)
    BY Zenon, <1>0, <2>6 DEF Srv!ProcessReserve, Srv!EnqueueReserve, Types, Places
  <2>7. CASE Srv!ProcessPush(w)
    BY <1>0, <2>7 DEF Srv!ProcessPush, Srv!EnqueuePush, Types, Places
  <2> QED
    BY Zenon, <1>10, <2>1, <2>2, <2>3, <2>4, <2>5, <2>6, <2>7 DEF Srv!ProcessStep
<1>11. CASE Srv!OtherNotify /\ Srv!RestUnchanged
  BY Zenon, <1>0, <1>11 DEF Srv!OtherNotify, Srv!RestUnchanged, Types
<1>12. CASE Srv!Close
  <2>1. << >> \in Seq(Calls)
    OBVIOUS
  <2> QED
    BY Zenon, <1>0, <1>12, <2>1 DEF Srv!Close, Srv!SwappedOut, Types
<1>13. CASE Srv!CloseStep
  <2>1. CASE Srv!CloseAnswer
    <3>1. Tail(srvClosing) \in Seq(Calls)
      BY Zenon, <1>0, <2>1, Behead DEF Srv!CloseAnswer, Types
    <3>2. /\ srvCompletion' \in [Calls -> Answered \cup {"unset"}]
          /\ srvSets' \in [Calls -> Nat]
      BY <1>0, <2>1 DEF Srv!CloseAnswer, Srv!SetValue, Types, Answered
    <3> QED
      BY Zenon, <1>0, <2>1, <3>1, <3>2 DEF Srv!CloseAnswer, Types
  <2>2. CASE Srv!CloseCancel
    BY Zenon, <1>0, <2>2 DEF Srv!CloseCancel, Types
  <2> QED
    BY Zenon, <1>13, <2>1, <2>2 DEF Srv!CloseStep
<1> QED
  BY Zenon, <1>1, <1>2, <1>3, <1>4, <1>6, <1>7, <1>8, <1>9, <1>10, <1>11, <1>12, <1>13
     DEF Srv!Next, Srv!InvokeStep

-----------------------------------------------------------------------------
(* A worker that holds the token holds the only one.                       *)
LEMMA HolderAlone ==
  ASSUME Types, Token, NEW w \in Workers, Holds(w)
  PROVE  /\ srvJobs = 0 /\ NoneAsks /\ \A v \in Workers : v # w => ~Holds(v)
         /\ ~srvClosed => srvScheduled
<1>1. ~NoneHolds
  BY Zenon DEF NoneHolds
<1>2. NoneAsks
  BY Zenon, <1>1 DEF Token, NoneAsks
<1>3. srvJobs = 0
  BY <1>1 DEF Token, Types
<1>4. ~srvClosed => srvScheduled
  BY Zenon, <1>1 DEF Token
<1> QED
  BY Zenon, <1>2, <1>3, <1>4 DEF Token

(* So does an Invoke that notifies.                                        *)
LEMMA AskerAlone ==
  ASSUME Types, Token, NEW c \in Receivers, Asks(c)
  PROVE  /\ srvJobs = 0 /\ NoneHolds /\ \A d \in Receivers : d # c => ~Asks(d)
         /\ ~srvClosed => srvScheduled
<1>1. ~NoneAsks
  BY Zenon DEF NoneAsks
<1>2. srvJobs = 0
  BY <1>1 DEF Token, Types
<1>3. ~srvClosed => srvScheduled
  BY Zenon, <1>1 DEF Token
<1> QED
  BY Zenon, <1>2, <1>3 DEF Token

(* A worker that moves leaves the other workers where they are.            *)
LEMMA Moves ==
  ASSUME Types, NEW w \in Workers, NEW p, srvWorker' = [srvWorker EXCEPT ![w] = p]
  PROVE  /\ srvWorker'[w] = p /\ Holds(w)' = (p \notin {"idle", "other"})
         /\ \A v \in Workers :
              v # w => srvWorker'[v] = srvWorker[v] /\ Holds(v)' = Holds(v)
  BY Zenon DEF Types, Holds

(* A worker that keeps the token keeps it single.                          *)
LEMMA TokenKept ==
  ASSUME Types, Token, NEW w \in Workers, Holds(w), Holds(w)',
         \A v \in Workers : v # w => Holds(v)' = Holds(v),
         UNCHANGED <<srvJobs, srvInvoke, srvClosed>>, ~srvClosed => srvScheduled'
  PROVE  Token'
<1>1. srvJobs = 0 /\ NoneAsks /\ \A v \in Workers : v # w => ~Holds(v)
  BY Zenon, HolderAlone
<1>2. NoneAsks'
  BY Zenon, <1>1 DEF NoneAsks, Asks
<1>3. srvJobs' = 0 /\ ~(srvJobs' > 0)
  BY <1>1
<1>4. \A v \in Workers : Holds(v)' => v = w
  BY Zenon, <1>1
<1> QED
  BY Zenon, <1>2, <1>3, <1>4 DEF Token, NoneAsks

(* A worker that lets the token go, back into the group's queue or not.    *)
LEMMA TokenGone ==
  ASSUME Types, Token, NEW w \in Workers, Holds(w), ~Holds(w)',
         \A v \in Workers : v # w => Holds(v)' = Holds(v),
         UNCHANGED srvInvoke, srvJobs' \in {0, 1},
         srvJobs' = 1 => srvClosed' \/ srvScheduled'
  PROVE  Token'
<1>1. NoneAsks /\ \A v \in Workers : v # w => ~Holds(v)
  BY Zenon, HolderAlone
<1>2. NoneAsks'
  BY Zenon, <1>1 DEF NoneAsks, Asks
<1>3. NoneHolds'
  BY Zenon, <1>1 DEF NoneHolds
<1>4. srvJobs' > 0 => srvJobs' = 1
  OBVIOUS
<1> QED
  BY Zenon, <1>2, <1>3, <1>4 DEF Token, NoneAsks, NoneHolds

(* A step that moves no token.                                             *)
LEMMA TokenStill ==
  ASSUME Token, srvJobs' = srvJobs, \A w \in Workers : Holds(w)' = Holds(w),
         \A c \in Receivers : Asks(c)' <=> Asks(c),
         srvClosed => srvClosed', srvScheduled => srvClosed' \/ srvScheduled'
  PROVE  Token'
<1>1. (NoneAsks' <=> NoneAsks) /\ (NoneHolds' <=> NoneHolds)
  BY Zenon DEF NoneAsks, NoneHolds
<1> QED
  BY Zenon, <1>1 DEF Token

(* The token as Invoke asks for it and notifies.                           *)
LEMMA TokenInvoke ==
  ASSUME Types, Token, NEW c \in Receivers, Srv!InvokeQueue(c) \/ Srv!InvokeStep(c)
  PROVE  Token'
<1> USE DEF Srv!taskVars, Srv!enqueueVars, Srv!queueVars
<1>1. UNCHANGED <<srvWorker, srvClosed>>
  BY Zenon DEF Srv!InvokeQueue, Srv!InvokeStep, Srv!InvokeReserve, Srv!InvokePush,
     Srv!InvokeFailed, Srv!InvokeReady, Srv!InvokeTimeout
<1>2. \A v \in Workers : Holds(v)' = Holds(v)
  BY Zenon, <1>1 DEF Holds
<1>3. \A d \in Receivers : d # c => Asks(d)' = Asks(d)
  BY Zenon DEF Srv!InvokeQueue, Srv!InvokeStep, Srv!InvokeReserve, Srv!InvokePush,
     Srv!InvokeFailed, Srv!InvokeReady, Srv!InvokeTimeout, Srv!Returns, Asks, Types
<1>4. CASE Srv!InvokeQueue(c)
  <2>1. srvJobs' = srvJobs /\ ~srvClosed /\ srvScheduled' /\ ~Asks(c)
    BY Zenon, <1>4 DEF Srv!InvokeQueue, Asks
  <2>2. CASE srvScheduled
    <3>1. ~Asks(c)'
      BY Zenon, <1>4, <2>2 DEF Srv!InvokeQueue, Asks, Types
    <3>2. \A d \in Receivers : Asks(d)' <=> Asks(d)
      BY Zenon, <1>3, <2>1, <3>1
    <3> QED
      BY Zenon, <1>1, <1>2, <2>1, <3>2, TokenStill
  <2>3. CASE ~srvScheduled
    <3>1. srvJobs = 0 /\ NoneAsks /\ NoneHolds
      BY Zenon, <2>1, <2>3 DEF Token
    <3>2. srvJobs' = 0 /\ ~(srvJobs' > 0)
      BY <2>1, <3>1
    <3>3. NoneHolds' /\ \A d \in Receivers : Asks(d)' => d = c
      BY Zenon, <1>2, <1>3, <3>1 DEF NoneHolds, NoneAsks
    <3> QED
      BY Zenon, <2>1, <3>2, <3>3 DEF Token, NoneHolds
  <2> QED
    BY Zenon, <2>2, <2>3
<1>5. CASE Srv!InvokeReady(c) \/ Srv!InvokeTimeout(c)
  <2>1. UNCHANGED <<srvJobs, srvScheduled>> /\ ~Asks(c) /\ ~Asks(c)'
    BY Zenon, <1>5 DEF Srv!InvokeReady, Srv!InvokeTimeout, Srv!Returns, Asks, Types
  <2>2. \A d \in Receivers : Asks(d)' <=> Asks(d)
    BY Zenon, <1>3, <2>1
  <2> QED
    BY Zenon, <1>1, <1>2, <2>1, <2>2, TokenStill
<1>6. ASSUME Asks(c), \/ Srv!InvokeReserve(c)
                      \/ Srv!InvokePush(c)
                      \/ Srv!InvokeFailed(c)
      PROVE  Token'
  <2>1. /\ srvJobs = 0 /\ NoneHolds /\ \A d \in Receivers : d # c => ~Asks(d)
        /\ ~srvClosed => srvScheduled
    BY Zenon, <1>6, AskerAlone
  <2>2. NoneHolds' /\ \A d \in Receivers : Asks(d)' => d = c
    BY Zenon, <1>2, <1>3, <2>1 DEF NoneHolds
  <2>3. CASE Srv!InvokeReserve(c)
    <3>1. UNCHANGED <<srvJobs, srvScheduled>>
      BY Zenon, <2>3 DEF Srv!InvokeReserve, Srv!EnqueueReserve
    <3>2. ~(srvJobs' > 0)
      BY <2>1, <3>1
    <3> QED
      BY Zenon, <1>1, <2>1, <2>2, <3>1, <3>2 DEF Token, NoneHolds
  <2>4. CASE Srv!InvokePush(c)
    <3>1. UNCHANGED srvScheduled /\ srvJobs' \in {0, 1} /\ (srvJobs' = 1 => ~Asks(c)')
      BY <2>1, <2>4 DEF Srv!InvokePush, Srv!EnqueuePush, Asks, Types
    <3>2. srvJobs' > 0 => srvJobs' = 1 /\ NoneAsks'
      BY <2>2, <3>1 DEF NoneAsks
    <3> QED
      BY Zenon, <1>1, <2>1, <2>2, <3>1, <3>2 DEF Token, NoneHolds
  <2>5. CASE Srv!InvokeFailed(c)
    <3>1. UNCHANGED srvJobs /\ ~Asks(c)'
      BY Zenon, <2>5 DEF Srv!InvokeFailed, Srv!Returns, Asks, Types
    <3>2. NoneAsks'
      BY Zenon, <2>2, <3>1 DEF NoneAsks
    <3>3. srvJobs' = 0 /\ ~(srvJobs' > 0)
      BY <2>1, <3>1
    <3> QED
      BY Zenon, <2>2, <3>2, <3>3 DEF Token, NoneHolds, NoneAsks
  <2> QED
    BY Zenon, <1>6, <2>3, <2>4, <2>5
<1>7. Srv!InvokeReserve(c) \/ Srv!InvokePush(c) \/ Srv!InvokeFailed(c) => Asks(c)
  BY Zenon DEF Srv!InvokeReserve, Srv!InvokePush, Srv!InvokeFailed, Asks
<1> QED
  BY Zenon, <1>4, <1>5, <1>6, <1>7 DEF Srv!InvokeStep

(* The token as a worker takes the job, runs ProcessOne and notifies.      *)
LEMMA TokenProcess ==
  ASSUME Types, Token, NEW w \in Workers, Srv!ProcessStep(w)
  PROVE  Token'
<1> USE DEF Srv!enqueueVars, Srv!queueVars, Srv!invokeVars
<1>1. Holds(w)
  BY Zenon DEF Srv!ProcessStep, Srv!ProcessNothing, Srv!ProcessTake, Srv!ProcessHandle,
     Srv!ProcessAnswer, Srv!ProcessReschedule, Srv!ProcessReserve, Srv!ProcessPush, Holds
<1>2. srvJobs = 0 /\ (~srvClosed => srvScheduled)
  BY Zenon, <1>1, HolderAlone
<1>3. UNCHANGED <<srvInvoke, srvClosed>>
  BY Zenon DEF Srv!ProcessStep, Srv!ProcessNothing, Srv!ProcessTake, Srv!ProcessHandle,
     Srv!ProcessAnswer, Srv!ProcessReschedule, Srv!ProcessReserve, Srv!ProcessPush
<1>4. \A v \in Workers : v # w => Holds(v)' = Holds(v)
  BY Zenon, Moves DEF Srv!ProcessStep, Srv!ProcessNothing, Srv!ProcessTake,
     Srv!ProcessHandle, Srv!ProcessAnswer, Srv!ProcessReschedule, Srv!ProcessReserve,
     Srv!ProcessPush
<1>5. CASE Srv!ProcessNothing(w)
  <2>1. ~Holds(w)' /\ srvJobs' = 0
    BY Zenon, <1>2, <1>5, Moves DEF Srv!ProcessNothing
  <2> QED
    BY <1>1, <1>3, <1>4, <2>1, TokenGone
<1>6. CASE Srv!ProcessTake(w) \/ Srv!ProcessHandle(w) \/ Srv!ProcessAnswer(w)
  <2>1. Holds(w)' /\ UNCHANGED <<srvJobs, srvScheduled>>
    BY ZenonT(60), <1>6, Moves DEF Srv!ProcessTake, Srv!ProcessHandle, Srv!ProcessAnswer
  <2> QED
    BY Zenon, <1>1, <1>2, <1>3, <1>4, <2>1, TokenKept
<1>7. CASE Srv!ProcessReschedule(w)
  <2>1. UNCHANGED srvJobs /\ srvScheduled' = (Srv!Backlog /\ srvScheduled)
    BY Zenon, <1>7 DEF Srv!ProcessReschedule
  <2>2. CASE Srv!Backlog
    <3>1. Holds(w)' /\ (~srvClosed => srvScheduled')
      BY Zenon, <1>2, <1>7, <2>1, <2>2, Moves DEF Srv!ProcessReschedule
    <3> QED
      BY Zenon, <1>1, <1>3, <1>4, <2>1, <3>1, TokenKept
  <2>3. CASE ~Srv!Backlog
    <3>1. ~Holds(w)' /\ srvJobs' = 0
      BY Zenon, <1>2, <1>7, <2>1, <2>3, Moves DEF Srv!ProcessReschedule
    <3> QED
      BY <1>1, <1>3, <1>4, <3>1, TokenGone
  <2> QED
    BY Zenon, <2>2, <2>3
<1>8. CASE Srv!ProcessReserve(w)
  <2>1. UNCHANGED <<srvJobs, srvScheduled>>
    BY Zenon, <1>8 DEF Srv!ProcessReserve, Srv!EnqueueReserve
  <2>2. CASE Holds(w)'
    BY Zenon, <1>1, <1>2, <1>3, <1>4, <2>1, <2>2, TokenKept
  <2>3. CASE ~Holds(w)'
    BY Zenon, <1>1, <1>2, <1>3, <1>4, <2>1, <2>3, TokenGone
  <2> QED
    BY Zenon, <2>2, <2>3
<1>9. CASE Srv!ProcessPush(w)
  <2>1. ~Holds(w)'
    BY Zenon, <1>9, Moves DEF Srv!ProcessPush
  <2>2. srvJobs' \in {0, 1} /\ UNCHANGED srvScheduled
    BY <1>2, <1>9 DEF Srv!ProcessPush, Srv!EnqueuePush
  <2> QED
    BY Zenon, <1>1, <1>2, <1>3, <1>4, <2>1, <2>2, TokenGone
<1> QED
  BY Zenon, <1>5, <1>6, <1>7, <1>8, <1>9 DEF Srv!ProcessStep

(* Every step keeps the token single.                                      *)
LEMMA TokenStep ==
  ASSUME Types, Token, Srv!Next
  PROVE  Token'
<1> USE DEF Srv!taskVars, Srv!enqueueVars, Srv!queueVars, Srv!invokeVars
<1>1. ASSUME NEW w \in Workers, Srv!Take(w) PROVE Token'
  <2>1. /\ srvJobs > 0 /\ srvJobs' = srvJobs - 1
        /\ UNCHANGED <<srvInvoke, srvClosed, srvScheduled>>
    BY Zenon, <1>1 DEF Srv!Take, Srv!JobTaken, Srv!RestUnchanged
  <2>2. srvJobs = 1 /\ NoneAsks /\ NoneHolds /\ (srvClosed \/ srvScheduled)
    BY <2>1 DEF Token
  <2>3. Holds(w)' /\ \A v \in Workers : v # w => Holds(v)' = Holds(v)
    BY Zenon, <1>1, Moves DEF Srv!Take, Srv!JobTaken
  <2>4. srvJobs' = 0 /\ ~(srvJobs' > 0)
    BY <2>1, <2>2
  <2>5. NoneAsks'
    BY Zenon, <2>1, <2>2 DEF NoneAsks, Asks
  <2> QED
    BY Zenon, <2>1, <2>2, <2>3, <2>4, <2>5 DEF Token, NoneAsks, NoneHolds
<1>2. ASSUME NEW w \in Workers, Srv!TaskStep(w) PROVE Token'
  <2>1. UNCHANGED <<srvJobs, srvInvoke, srvClosed, srvScheduled>>
    BY Zenon, <1>2 DEF Srv!TaskStep, Srv!JobDispatched, Srv!OtherStep, Srv!OtherTaken,
       Srv!OtherFinished, Srv!RestUnchanged
  <2>2. CASE Srv!JobDispatched(w)
    <3>1. Holds(w)
      BY Zenon, <2>2 DEF Srv!JobDispatched, Holds
    <3>2. \A v \in Workers : v # w => Holds(v)' = Holds(v)
      BY Zenon, <2>2, Moves DEF Srv!JobDispatched
    <3>3. srvJobs = 0 /\ (~srvClosed => srvScheduled)
      BY Zenon, <3>1, HolderAlone
    <3>4. CASE Holds(w)'
      BY Zenon, <2>1, <3>1, <3>2, <3>3, <3>4, TokenKept
    <3>5. CASE ~Holds(w)'
      BY Zenon, <2>1, <3>1, <3>2, <3>3, <3>5, TokenGone
    <3> QED
      BY Zenon, <3>4, <3>5
  <2>3. CASE Srv!OtherStep(w)
    <3>1. \A v \in Workers : Holds(v)' = Holds(v)
      BY Zenon, <2>3 DEF Srv!OtherStep, Srv!OtherTaken, Srv!OtherFinished, Holds, Types
    <3>2. \A c \in Receivers : Asks(c)' <=> Asks(c)
      BY Zenon, <2>1 DEF Asks
    <3> QED
      BY Zenon, <2>1, <3>1, <3>2, TokenStill
  <2> QED
    BY Zenon, <1>2, <2>2, <2>3 DEF Srv!TaskStep
<1>3. CASE \/ \E c \in Receivers : Srv!Expire(c)
           \/ Srv!OtherNotify /\ Srv!RestUnchanged
           \/ Srv!Close \/ Srv!CloseStep
  <2>1. /\ UNCHANGED <<srvJobs, srvWorker, srvInvoke>>
        /\ srvClosed' \/ UNCHANGED <<srvClosed, srvScheduled>>
    BY Zenon, <1>3 DEF Srv!Expire, Srv!OtherNotify, Srv!RestUnchanged, Srv!Close, Srv!CloseStep,
       Srv!CloseAnswer, Srv!CloseCancel
  <2>2. \A v \in Workers : Holds(v)' = Holds(v)
    BY Zenon, <2>1 DEF Holds
  <2>3. \A c \in Receivers : Asks(c)' <=> Asks(c)
    BY Zenon, <2>1 DEF Asks
  <2> QED
    BY <2>1, <2>2, <2>3, TokenStill
<1> QED
  BY Zenon, <1>1, <1>2, <1>3, TokenInvoke, TokenProcess DEF Srv!Next

-----------------------------------------------------------------------------
(* A step that moves no call: the promises and the places stay.            *)
Working(w) == srvWorker[w] \in {"handle", "answer"}
CallsStay ==
  /\ UNCHANGED <<srvQueue, srvClosing, srvWorking, srvMade, srvCompletion, srvSets>>
  /\ \A w \in Workers : Working(w)' <=> Working(w)

(* A step that moves no call leaves every call in its one place.           *)
LEMMA PlacesStill ==
  ASSUME OnePlace, CallsStay
  PROVE  OnePlace'
<1>1. \A k : Held(k)' <=> Held(k)
  BY Zenon DEF Held, CallsStay
<1>2. \A w \in Workers : Working(w)' <=> Working(w)
  BY Zenon DEF CallsStay
<1>3. UNCHANGED <<srvQueue, srvClosing, srvWorking, srvMade, srvSets>>
  BY Zenon DEF CallsStay
<1> QED
  BY Zenon, <1>1, <1>2, <1>3 DEF OnePlace, Working

(* The steps that do.                                                      *)
Moving ==
  \/ \E c \in Receivers : Srv!InvokeQueue(c) \/ Srv!InvokeFailed(c)
  \/ \E w \in Workers : Srv!ProcessTake(w) \/ Srv!ProcessAnswer(w)
  \/ Srv!Close \/ Srv!CloseAnswer

(* Only six actions move a call: those of Invoke that queue it and take it *)
(* back, those of ProcessOne that take and answer it, and Close's.         *)
LEMMA StayOrMove ==
  ASSUME Types, Srv!Next
  PROVE  CallsStay \/ Moving
<1> USE DEF Srv!taskVars, Srv!enqueueVars, Srv!queueVars, Srv!promiseVars,
            Srv!invokeVars, Srv!workVars, Srv!closeVars
<1>1. ASSUME NEW c \in Receivers, \/ Srv!Expire(c) \/ Srv!InvokeReserve(c)
                                  \/ Srv!InvokePush(c) \/ Srv!InvokeReady(c)
                                  \/ Srv!InvokeTimeout(c)
      PROVE  CallsStay
  BY Zenon, <1>1 DEF Srv!Expire, Srv!InvokeReserve, Srv!InvokePush, Srv!InvokeReady,
     Srv!InvokeTimeout, CallsStay, Working
<1>2. ASSUME NEW w \in Workers, NEW p, srvWorker' = [srvWorker EXCEPT ![w] = p],
             p \in {"handle", "answer"} <=> Working(w)
      PROVE  \A v \in Workers : Working(v)' <=> Working(v)
  <2>1. srvWorker'[w] = p /\ \A v \in Workers : v # w => srvWorker'[v] = srvWorker[v]
    BY Zenon, <1>2, Moves
  <2> QED
    BY Zenon, <1>2, <2>1 DEF Working
<1>3. ASSUME NEW w \in Workers, Srv!Take(w) \/ Srv!TaskStep(w) PROVE CallsStay
  <2>1. \E p : /\ srvWorker' = [srvWorker EXCEPT ![w] = p]
               /\ p \in {"handle", "answer"} <=> Working(w)
    BY Zenon, <1>3 DEF Srv!Take, Srv!TaskStep, Srv!JobTaken, Srv!JobDispatched, Srv!OtherStep,
       Srv!OtherTaken, Srv!OtherFinished, Working
  <2>2. \A v \in Workers : Working(v)' <=> Working(v)
    BY Zenon, <1>2, <2>1
  <2> QED
    BY Zenon, <1>3, <2>2 DEF Srv!Take, Srv!TaskStep, Srv!RestUnchanged, CallsStay
<1>4. ASSUME NEW w \in Workers, \/ Srv!ProcessNothing(w) \/ Srv!ProcessHandle(w)
                                \/ Srv!ProcessReschedule(w) \/ Srv!ProcessReserve(w)
                                \/ Srv!ProcessPush(w)
      PROVE  CallsStay
  <2>1. \E p : /\ srvWorker' = [srvWorker EXCEPT ![w] = p]
               /\ p \in {"handle", "answer"} <=> Working(w)
    BY Zenon, <1>4 DEF Srv!ProcessNothing, Srv!ProcessHandle, Srv!ProcessReschedule,
       Srv!ProcessReserve, Srv!ProcessPush, Working
  <2>2. \A v \in Workers : Working(v)' <=> Working(v)
    BY Zenon, <1>2, <2>1
  <2> QED
    BY Zenon, <1>4, <2>2 DEF Srv!ProcessNothing, Srv!ProcessHandle, Srv!ProcessReschedule,
       Srv!ProcessReserve, Srv!ProcessPush, CallsStay
<1>5. CASE (Srv!OtherNotify /\ Srv!RestUnchanged) \/ Srv!CloseCancel
  BY Zenon, <1>5 DEF Srv!OtherNotify, Srv!RestUnchanged, Srv!CloseCancel, CallsStay, Working
<1> QED
  BY Zenon, <1>1, <1>3, <1>4, <1>5
     DEF Srv!Next, Srv!InvokeStep, Srv!ProcessStep, Srv!CloseStep, Moving

(* What each of them does to the places of the calls.                      *)
LEMMA Queues ==
  ASSUME SrvInv, NEW c \in Receivers, Srv!InvokeQueue(c)
  PROVE  /\ srvMade' = srvMade + 1 /\ srvMade + 1 \in Calls /\ srvMade \in Nat
         /\ Distinct(srvQueue')
         /\ \A k : In(srvQueue', k) <=> In(srvQueue, k) \/ k = srvMade + 1
         /\ ~In(srvQueue, srvMade + 1) /\ ~In(srvClosing, srvMade + 1)
         /\ ~Held(srvMade + 1) /\ srvSets[srvMade + 1] = 0
<1>0. Types /\ OnePlace /\ Truth
  BY Zenon DEF SrvInv
<1>1. srvMade' = srvMade + 1 /\ srvMade \in Nat /\ srvMade + 1 > srvMade
  BY <1>0 DEF Srv!InvokeQueue, Types
<1>2. srvMade + 1 \in Calls
  BY <1>0, ServiceAssumption DEF Srv!InvokeQueue, Types, Calls, Srv!Calls
<1>3. ~(srvMade + 1 <= srvMade)
  BY <1>1
<1>4. /\ ~In(srvQueue, srvMade + 1) /\ ~In(srvClosing, srvMade + 1)
      /\ ~Held(srvMade + 1)
  BY Zenon, <1>0, <1>2, <1>3 DEF OnePlace
<1>5. srvSets[srvMade + 1] = 0
  BY Zenon, <1>0, <1>1, <1>2 DEF Truth, CallTruth
<1>6. srvQueue \in Seq(Calls) /\ Distinct(srvQueue)
  BY Zenon, <1>0 DEF Types, OnePlace
<1>7. srvQueue' = Append(srvQueue, srvMade + 1)
  BY Zenon DEF Srv!InvokeQueue
<1>8. /\ Distinct(srvQueue')
      /\ \A k : In(srvQueue', k) <=> In(srvQueue, k) \/ k = srvMade + 1
  BY <1>2, <1>4, <1>6, <1>7, InAppend
<1> QED
  BY Zenon, <1>1, <1>2, <1>4, <1>5, <1>8

(* Invoke, its Notify refused, takes its own call out of the queue and no  *)
(* other.                                                                  *)
LEMMA TakesBack ==
  ASSUME SrvInv, NEW c \in Receivers, Srv!InvokeFailed(c)
  PROVE  /\ Distinct(srvQueue')
         /\ \A k : In(srvQueue', k) <=> In(srvQueue, k) /\ k # srvPending[c]
<1>1. srvQueue' = Srv!Rest(c) /\ Types /\ Distinct(srvQueue)
  BY Zenon DEF Srv!InvokeFailed, Srv!TakenBack, SrvInv, OnePlace
<1> QED
  BY Zenon, <1>1, InRest

(* ProcessOne takes the first call of the queue, which no worker has.      *)
LEMMA Takes ==
  ASSUME SrvInv, NEW w \in Workers, Srv!ProcessTake(w)
  PROVE  /\ Head(srvQueue) \in Calls /\ In(srvQueue, Head(srvQueue))
         /\ Distinct(srvQueue')
         /\ \A k : In(srvQueue', k) <=> In(srvQueue, k) /\ k # Head(srvQueue)
         /\ srvWorking[w] = 0 /\ srvWorking'[w] = Head(srvQueue)
         /\ \A v \in Workers : v # w => srvWorking'[v] = srvWorking[v]
         /\ \A k \in Calls : Held(k)' <=> Held(k) \/ k = Head(srvQueue)
<1>0. Types /\ OnePlace
  BY Zenon DEF SrvInv
<1>1. srvQueue # << >> /\ srvQueue' = Tail(srvQueue)
  BY Zenon DEF Srv!ProcessTake, Srv!Backlog, Srv!Remaining
<1>2. srvQueue \in Seq(Calls) /\ Distinct(srvQueue)
  BY Zenon, <1>0 DEF Types, OnePlace
<1>3. /\ Head(srvQueue) \in Calls /\ In(srvQueue, Head(srvQueue))
      /\ Distinct(srvQueue')
      /\ \A k : In(srvQueue', k) <=> In(srvQueue, k) /\ k # Head(srvQueue)
  BY Zenon, <1>1, <1>2, InTail
<1>4. srvWorking[w] = 0
  BY Zenon, <1>0 DEF OnePlace, Srv!ProcessTake
<1>5. /\ srvWorking'[w] = Head(srvQueue)
      /\ \A v \in Workers : v # w => srvWorking'[v] = srvWorking[v]
  BY Zenon, <1>0 DEF Srv!ProcessTake, Types
<1>6. 0 \notin Calls
  BY DEF Calls, Srv!Calls
<1>7. \A k \in Calls : Held(k)' <=> Held(k) \/ k = Head(srvQueue)
  BY Zenon, <1>4, <1>5, <1>6 DEF Held
<1> QED
  BY Zenon, <1>3, <1>4, <1>5, <1>7

(* What set_value does to the promise of a call that was not answered.     *)
LEMMA Sets ==
  ASSUME Types, NEW k \in Calls, srvSets[k] = 0, NEW status, Srv!SetValue(k, status)
  PROVE  /\ srvSets'[k] = 1 /\ srvCompletion'[k] = status
         /\ \A j \in Calls : j # k => /\ srvSets'[j] = srvSets[j]
                                      /\ srvCompletion'[j] = srvCompletion[j]
  BY DEF Srv!SetValue, Types

(* The worker that answers a call gives it up, and it had no answer        *)
(* before.                                                                 *)
LEMMA Answering ==
  ASSUME SrvInv, NEW w \in Workers, Srv!ProcessAnswer(w)
  PROVE  /\ srvWorking[w] \in Calls /\ Held(srvWorking[w]) /\ srvSets[srvWorking[w]] = 0
         /\ srvWorking'[w] = 0
         /\ \A v \in Workers : v # w => srvWorking'[v] = srvWorking[v]
         /\ \A k \in Calls : Held(k)' <=> Held(k) /\ k # srvWorking[w]
<1>0. Types /\ OnePlace /\ srvWorker[w] = "answer"
  BY Zenon DEF SrvInv, Srv!ProcessAnswer
<1>1. srvWorking[w] # 0 /\ srvWorking[w] \in Calls \cup {0}
  BY Zenon, <1>0 DEF OnePlace, Types
<1>2. srvWorking[w] \in Calls /\ Held(srvWorking[w])
  BY Zenon, <1>1 DEF Held
<1>3. srvSets[srvWorking[w]] = 0
  BY Zenon, <1>0, <1>2 DEF OnePlace
<1>4. /\ srvWorking'[w] = 0
      /\ \A v \in Workers : v # w => srvWorking'[v] = srvWorking[v]
  BY Zenon, <1>0 DEF Srv!ProcessAnswer, Types
<1>5. \A v \in Workers : srvWorking[v] = srvWorking[w] => v = w
  BY Zenon, <1>0, <1>1 DEF OnePlace
<1>6. 0 \notin Calls
  BY DEF Calls, Srv!Calls
<1>7. \A k \in Calls : Held(k)' <=> Held(k) /\ k # srvWorking[w]
  BY Zenon, <1>2, <1>4, <1>5, <1>6 DEF Held
<1> QED
  BY Zenon, <1>2, <1>3, <1>4, <1>7

(* Close answers the calls it swapped out one by one, none of them         *)
(* answered before.                                                        *)
LEMMA Closes ==
  ASSUME SrvInv, Srv!CloseAnswer
  PROVE  /\ Head(srvClosing) \in Calls /\ In(srvClosing, Head(srvClosing))
         /\ srvSets[Head(srvClosing)] = 0 /\ Distinct(srvClosing')
         /\ \A k : In(srvClosing', k) <=> In(srvClosing, k) /\ k # Head(srvClosing)
<1>0. Types /\ OnePlace
  BY Zenon DEF SrvInv
<1>1. srvClosing # << >> /\ srvClosing' = Tail(srvClosing)
  BY Zenon DEF Srv!CloseAnswer
<1>2. srvClosing \in Seq(Calls) /\ Distinct(srvClosing)
  BY Zenon, <1>0 DEF Types, OnePlace
<1>3. /\ Head(srvClosing) \in Calls /\ In(srvClosing, Head(srvClosing))
      /\ Distinct(srvClosing')
      /\ \A k : In(srvClosing', k) <=> In(srvClosing, k) /\ k # Head(srvClosing)
  BY Zenon, <1>1, <1>2, InTail
<1>4. srvSets[Head(srvClosing)] = 0
  BY Zenon, <1>0, <1>3 DEF OnePlace
<1> QED
  BY Zenon, <1>3, <1>4

(* Every step keeps each call in one place.                                *)
LEMMA PlacesStep ==
  ASSUME SrvInv, Srv!Next
  PROVE  OnePlace'
<1> USE DEF Srv!taskVars, Srv!enqueueVars, Srv!queueVars, Srv!promiseVars,
            Srv!invokeVars, Srv!workVars, Srv!closeVars
<1>0. Types /\ OnePlace
  BY Zenon DEF SrvInv
<1>1. CASE CallsStay
  BY Zenon, <1>0, <1>1, PlacesStill
<1>2. ASSUME UNCHANGED <<srvWorker, srvWorking>>
      PROVE  /\ \A k : Held(k)' <=> Held(k)
             /\ \A w \in Workers :
                  /\ srvWorking'[w] # 0 <=> srvWorker'[w] \in {"handle", "answer"}
                  /\ srvWorking'[w] # 0 =>
                       \A v \in Workers : srvWorking'[v] = srvWorking'[w] => v = w
  BY Zenon, <1>0, <1>2 DEF OnePlace, Held
<1>3. ASSUME NEW c \in Receivers, Srv!InvokeQueue(c) PROVE OnePlace'
  <2>1. UNCHANGED <<srvWorker, srvWorking, srvClosing, srvSets>>
    BY Zenon, <1>3 DEF Srv!InvokeQueue
  <2>2. /\ srvMade' = srvMade + 1 /\ srvMade \in Nat /\ Distinct(srvQueue')
        /\ \A k : In(srvQueue', k) <=> In(srvQueue, k) \/ k = srvMade + 1
        /\ ~In(srvClosing, srvMade + 1)
        /\ ~Held(srvMade + 1) /\ srvSets[srvMade + 1] = 0
    BY Zenon, <1>3, Queues
  <2>3. \A k \in Calls : k <= srvMade => k <= srvMade'
    BY <2>2 DEF Calls, Srv!Calls
  <2>4. srvMade + 1 <= srvMade'
    BY <2>2
  <2>5. ASSUME NEW k \in Calls
        PROVE  /\ In(srvQueue', k) => ~In(srvClosing', k) /\ ~Held(k)'
               /\ In(srvClosing', k) => ~Held(k)'
               /\ In(srvQueue', k) \/ In(srvClosing', k) \/ Held(k)' =>
                    k <= srvMade' /\ srvSets'[k] = 0
    BY Zenon, <1>0, <1>2, <2>1, <2>2, <2>3, <2>4 DEF OnePlace
  <2> QED
    BY Zenon, <1>0, <1>2, <2>1, <2>2, <2>5 DEF OnePlace
<1>4. ASSUME NEW c \in Receivers, Srv!InvokeFailed(c) PROVE OnePlace'
  <2>1. UNCHANGED <<srvWorker, srvWorking, srvClosing, srvSets, srvMade>>
    BY Zenon, <1>4 DEF Srv!InvokeFailed
  <2>2. Distinct(srvQueue') /\ \A k : In(srvQueue', k) => In(srvQueue, k)
    BY Zenon, <1>4, TakesBack
  <2> QED
    BY Zenon, <1>0, <1>2, <2>1, <2>2 DEF OnePlace
<1>5. ASSUME NEW w \in Workers, Srv!ProcessTake(w) PROVE OnePlace'
  <2>1. UNCHANGED <<srvClosing, srvSets, srvMade>>
    BY Zenon, <1>5 DEF Srv!ProcessTake
  <2> DEFINE h == Head(srvQueue)
  <2>2. /\ h \in Calls /\ In(srvQueue, h) /\ Distinct(srvQueue')
        /\ \A k : In(srvQueue', k) <=> In(srvQueue, k) /\ k # h
        /\ srvWorking[w] = 0 /\ srvWorking'[w] = h
        /\ \A v \in Workers : v # w => srvWorking'[v] = srvWorking[v]
        /\ \A k \in Calls : Held(k)' <=> Held(k) \/ k = h
    BY Zenon, <1>5, Takes
  <2> HIDE DEF h
  <2>3. ~Held(h) /\ ~In(srvClosing, h)
    BY Zenon, <1>0, <2>2 DEF OnePlace
  <2>4. /\ srvWorker'[w] = "handle"
        /\ \A v \in Workers : v # w => srvWorker'[v] = srvWorker[v]
    BY Zenon, <1>0, <1>5 DEF Srv!ProcessTake, Types
  <2>5. ASSUME NEW k \in Calls
        PROVE  /\ In(srvQueue', k) => ~In(srvClosing', k) /\ ~Held(k)'
               /\ In(srvClosing', k) => ~Held(k)'
               /\ In(srvQueue', k) \/ In(srvClosing', k) \/ Held(k)' =>
                    k <= srvMade' /\ srvSets'[k] = 0
    BY Zenon, <1>0, <2>1, <2>2, <2>3 DEF OnePlace
  <2>6. h # 0
    BY <2>2 DEF Calls, Srv!Calls
  <2>7. ASSUME NEW v \in Workers
        PROVE  srvWorking'[v] # 0 <=> srvWorker'[v] \in {"handle", "answer"}
    BY ZenonT(60), <1>0, <2>2, <2>4, <2>6 DEF OnePlace
  <2>8. ASSUME NEW v \in Workers, srvWorking'[v] # 0,
               NEW u \in Workers, srvWorking'[u] = srvWorking'[v]
        PROVE  u = v
    <3>1. \A x \in Workers : srvWorking[x] # h
      BY Zenon, <2>3 DEF Held
    <3>2. CASE u # w /\ v # w
      <4>1. srvWorking[v] # 0 /\ srvWorking[u] = srvWorking[v]
        BY Zenon, <2>2, <2>8, <3>2
      <4> QED
        BY Zenon, <1>0, <4>1 DEF OnePlace
    <3>3. CASE u = w \/ v = w
      BY Zenon, <2>2, <2>8, <3>1, <3>3
    <3> QED
      BY Zenon, <3>2, <3>3
  <2> QED
    BY Zenon, <1>0, <2>1, <2>2, <2>5, <2>7, <2>8 DEF OnePlace
<1>6. ASSUME NEW w \in Workers, Srv!ProcessAnswer(w) PROVE OnePlace'
  <2>1. UNCHANGED <<srvQueue, srvClosing, srvMade>>
    BY Zenon, <1>6 DEF Srv!ProcessAnswer
  <2> DEFINE h == srvWorking[w]
  <2>2. /\ h \in Calls /\ Held(h) /\ srvSets[h] = 0 /\ srvWorking'[w] = 0
        /\ \A v \in Workers : v # w => srvWorking'[v] = srvWorking[v]
        /\ \A k \in Calls : Held(k)' <=> Held(k) /\ k # h
    BY Zenon, <1>6, Answering
  <2>3. Srv!SetValue(h, srvAnswer[w])
    BY Zenon, <1>6 DEF Srv!ProcessAnswer
  <2> HIDE DEF h
  <2>4. \A k \in Calls : k # h => srvSets'[k] = srvSets[k]
    BY Zenon, <1>0, <2>2, <2>3, Sets
  <2>5. ~In(srvQueue, h) /\ ~In(srvClosing, h)
    BY Zenon, <1>0, <2>2 DEF OnePlace
  <2>6. /\ srvWorker'[w] = "reschedule"
        /\ \A v \in Workers : v # w => srvWorker'[v] = srvWorker[v]
    BY Zenon, <1>0, <1>6 DEF Srv!ProcessAnswer, Types
  <2>7. ASSUME NEW v \in Workers
        PROVE  srvWorking'[v] # 0 <=> srvWorker'[v] \in {"handle", "answer"}
    BY Zenon, <1>0, <2>2, <2>6 DEF OnePlace
  <2>8. ASSUME NEW v \in Workers, srvWorking'[v] # 0,
               NEW u \in Workers, srvWorking'[u] = srvWorking'[v]
        PROVE  u = v
    BY ZenonT(60), <1>0, <2>2, <2>8 DEF OnePlace
  <2>9. ASSUME NEW k \in Calls
        PROVE  /\ In(srvQueue', k) => ~In(srvClosing', k) /\ ~Held(k)'
               /\ In(srvClosing', k) => ~Held(k)'
               /\ In(srvQueue', k) \/ In(srvClosing', k) \/ Held(k)' =>
                    k <= srvMade' /\ srvSets'[k] = 0
    BY Zenon, <1>0, <2>1, <2>2, <2>4, <2>5 DEF OnePlace
  <2> QED
    BY Zenon, <1>0, <2>1, <2>7, <2>8, <2>9 DEF OnePlace
<1>7. CASE Srv!Close
  <2>1. /\ UNCHANGED <<srvWorker, srvWorking, srvSets, srvMade>>
        /\ srvClosing' = srvQueue /\ srvQueue' = << >>
    BY Zenon, <1>7 DEF Srv!Close, Srv!SwappedOut
  <2>2. Distinct(srvQueue') /\ \A k : ~In(srvQueue', k)
    BY <2>1 DEF Distinct, In
  <2> QED
    BY Zenon, <1>0, <1>2, <2>1, <2>2 DEF OnePlace
<1>8. CASE Srv!CloseAnswer
  <2>1. UNCHANGED <<srvQueue, srvWorker, srvWorking, srvMade>>
    BY Zenon, <1>8 DEF Srv!CloseAnswer
  <2> DEFINE h == Head(srvClosing)
  <2>2. /\ h \in Calls /\ In(srvClosing, h) /\ srvSets[h] = 0 /\ Distinct(srvClosing')
        /\ \A k : In(srvClosing', k) <=> In(srvClosing, k) /\ k # h
    BY Zenon, <1>8, Closes
  <2>3. Srv!SetValue(h, "Closed")
    BY Zenon, <1>8 DEF Srv!CloseAnswer
  <2> HIDE DEF h
  <2>4. \A k \in Calls : k # h => srvSets'[k] = srvSets[k]
    BY Zenon, <1>0, <2>2, <2>3, Sets
  <2>5. ~In(srvQueue, h) /\ ~Held(h)
    BY Zenon, <1>0, <2>2 DEF OnePlace
  <2>6. ASSUME NEW k \in Calls
        PROVE  /\ In(srvQueue', k) => ~In(srvClosing', k) /\ ~Held(k)'
               /\ In(srvClosing', k) => ~Held(k)'
               /\ In(srvQueue', k) \/ In(srvClosing', k) \/ Held(k)' =>
                    k <= srvMade' /\ srvSets'[k] = 0
    BY Zenon, <1>0, <1>2, <2>1, <2>2, <2>4, <2>5 DEF OnePlace
  <2> QED
    BY Zenon, <1>0, <1>2, <2>1, <2>2, <2>6 DEF OnePlace
<1> QED
  BY Zenon, <1>0, <1>1, <1>3, <1>4, <1>5, <1>6, <1>7, <1>8, StayOrMove DEF Moving

-----------------------------------------------------------------------------
(* A step that moves no call and tells nobody anything.                    *)
LEMMA TruthStill ==
  ASSUME Truth, CallsStay, UNCHANGED <<srvHandled, srvPending>>,
         \A c \in Receivers : /\ srvInvoke'[c] # "idle" => srvInvoke[c] # "idle"
                              /\ Asks(c)' => Asks(c)
  PROVE  /\ \A c \in Receivers : CallerTruth(c)'
         /\ UNCHANGED srvTold => \A k \in Calls : CallTruth(k)'
         /\ UNCHANGED <<srvAnswer, srvWorking, srvWorker>> =>
              \A w \in Workers : WorkerTruth(w)'
<1>1. \A k : Held(k)' <=> Held(k)
  BY Zenon DEF Held, CallsStay
<1>2. UNCHANGED <<srvQueue, srvClosing, srvWorking, srvMade, srvCompletion, srvSets>>
  BY Zenon DEF CallsStay
<1>3. \A c \in Receivers : CallerTruth(c)'
  BY Zenon, <1>1, <1>2 DEF Truth, CallerTruth
<1>4. ASSUME UNCHANGED srvTold PROVE \A k \in Calls : CallTruth(k)'
  BY Zenon, <1>1, <1>2, <1>4 DEF Truth, CallTruth
<1>5. ASSUME UNCHANGED <<srvAnswer, srvWorking, srvWorker>>
      PROVE  \A w \in Workers : WorkerTruth(w)'
  BY Zenon, <1>5 DEF Truth, WorkerTruth
<1> QED
  BY Zenon, <1>3, <1>4, <1>5

(* Invoke takes its call back only while the handler cannot have had it,   *)
(* and passes on what the promise says.                                    *)
LEMMA TruthReturns ==
  ASSUME SrvInv, NEW c \in Receivers, srvInvoke[c] # "idle", NEW status,
         Srv!Returns(c, status)
  PROVE  /\ srvPending[c] \in Calls /\ CallTruth(srvPending[c])
         /\ srvTold'[srvPending[c]] = status
         /\ \A k \in Calls : k # srvPending[c] => srvTold'[k] = srvTold[k]
         /\ \A d \in Receivers : d # c => /\ srvInvoke'[d] = srvInvoke[d]
                                          /\ srvPending'[d] = srvPending[d]
         /\ srvInvoke'[c] = "idle" /\ ~Asks(c)'
<1>1. Types /\ Truth
  BY Zenon DEF SrvInv
<1>2. srvPending[c] \in Calls
  BY Zenon, <1>1 DEF Truth, CallerTruth
<1>3. CallTruth(srvPending[c])
  BY Zenon, <1>1, <1>2 DEF Truth
<1>4. srvInvoke'[c] = "idle" /\ ~Asks(c)'
  BY Zenon, <1>1 DEF Srv!Returns, Types, Asks
<1>5. \A d \in Receivers : d # c => /\ srvInvoke'[d] = srvInvoke[d]
                                    /\ srvPending'[d] = srvPending[d]
  BY Zenon, <1>1 DEF Srv!Returns, Types
<1>6. /\ srvTold'[srvPending[c]] = status
      /\ \A k \in Calls : k # srvPending[c] => srvTold'[k] = srvTold[k]
  BY Zenon, <1>1, <1>2 DEF Srv!Returns, Types
<1> QED
  BY Zenon, <1>2, <1>3, <1>4, <1>5, <1>6

(* Invoke: a new call is unknown to the handler, and what a caller is told *)
(* as it leaves is true then and stays true.                               *)
LEMMA TruthInvoke ==
  ASSUME SrvInv, NEW c \in Receivers, Srv!InvokeQueue(c) \/ Srv!InvokeStep(c)
  PROVE  Truth'
<1> USE DEF Srv!taskVars, Srv!enqueueVars, Srv!queueVars, Srv!promiseVars,
            Srv!invokeVars, Srv!workVars, Srv!closeVars
<1>0. Types /\ Truth
  BY Zenon DEF SrvInv
<1>1. UNCHANGED <<srvWorker, srvWorking, srvAnswer, srvHandled, srvClosing,
                  srvCompletion, srvSets>>
  BY Zenon DEF Srv!InvokeQueue, Srv!InvokeStep, Srv!InvokeReserve, Srv!InvokePush,
     Srv!InvokeFailed, Srv!InvokeReady, Srv!InvokeTimeout
<1>2. \A k : Held(k)' <=> Held(k)
  BY Zenon, <1>1 DEF Held
<1>3. \A w \in Workers : WorkerTruth(w)'
  BY Zenon, <1>0, <1>1 DEF Truth, WorkerTruth
<1>4. CASE Srv!InvokeQueue(c)
  <2> DEFINE n == srvMade + 1
  <2>1. /\ srvMade' = n /\ n \in Calls /\ srvMade \in Nat
        /\ \A k : In(srvQueue', k) <=> In(srvQueue, k) \/ k = n
        /\ ~Held(n) /\ srvSets[n] = 0
    BY Zenon, <1>4, Queues
  <2>2. \A k \in Calls : /\ k > n => k > srvMade
                         /\ k <= srvMade => k <= n
    BY <2>1 DEF Calls, Srv!Calls
  <2>3. n > srvMade /\ ~(n > n) /\ n <= n
    BY <2>1
  <2> HIDE DEF n
  <2>4. srvTold[n] = "nothing" /\ n \notin srvHandled
    BY Zenon, <1>0, <2>1, <2>3 DEF Truth, CallTruth
  <2>5. UNCHANGED srvTold
    BY Zenon, <1>4 DEF Srv!InvokeQueue
  <2>6. ASSUME NEW k \in Calls PROVE CallTruth(k)'
    <3>1. srvTold[k] = "Refused" => k # n
      BY Zenon, <2>4
    <3>2. CallTruth(k)
      BY Zenon, <1>0 DEF Truth
    <3> QED
      BY Zenon, <1>1, <1>2, <2>1, <2>2, <2>4, <2>5, <3>1, <3>2 DEF CallTruth
  <2>7. ASSUME NEW d \in Receivers PROVE CallerTruth(d)'
    <3>1. CASE d = c
      <4>1. srvPending'[c] = n
        BY Zenon, <1>0, <1>4 DEF Srv!InvokeQueue, Types, n
      <4> QED
        BY Zenon, <1>1, <1>2, <2>1, <2>3, <2>4, <3>1, <4>1 DEF CallerTruth
    <3>2. CASE d # c
      <4>1. srvPending'[d] = srvPending[d] /\ srvInvoke'[d] = srvInvoke[d]
        BY Zenon, <1>0, <1>4, <3>2 DEF Srv!InvokeQueue, Types
      <4>2. Asks(d)' <=> Asks(d)
        BY Zenon, <4>1 DEF Asks
      <4> QED
        BY Zenon, <1>0, <1>1, <1>2, <2>1, <2>2, <4>1, <4>2 DEF Truth, CallerTruth
    <3> QED
      BY Zenon, <3>1, <3>2
  <2> QED
    BY Zenon, <1>3, <2>6, <2>7 DEF Truth
<1>5. CASE Srv!InvokeReserve(c) \/ Srv!InvokePush(c)
  <2>1. CallsStay
    BY Zenon, <1>5 DEF Srv!InvokeReserve, Srv!InvokePush, CallsStay, Working
  <2>2. \A d \in Receivers : /\ srvInvoke'[d] # "idle" => srvInvoke[d] # "idle"
                             /\ Asks(d)' => Asks(d)
    BY Zenon, <1>0, <1>5 DEF Srv!InvokeReserve, Srv!InvokePush, Types, Asks
  <2>3. UNCHANGED <<srvPending, srvTold>>
    BY Zenon, <1>5 DEF Srv!InvokeReserve, Srv!InvokePush
  <2> QED
    BY Zenon, <1>0, <1>1, <1>3, <2>1, <2>2, <2>3, TruthStill DEF Truth
<1>6. ASSUME NEW status, srvInvoke[c] # "idle", Srv!Returns(c, status),
             UNCHANGED srvMade, \A k : In(srvQueue', k) => In(srvQueue, k),
             \/ status = "Timeout"
             \/ status \in Answered /\ status = srvCompletion[srvPending[c]]
             \/ status = "Refused" /\ Asks(c) /\ ~In(srvQueue', srvPending[c])
      PROVE  Truth'
  <2>0. PICK n : n = srvPending[c]
    OBVIOUS
  <2>1. /\ n \in Calls /\ CallTruth(n) /\ srvTold'[n] = status
        /\ \A k \in Calls : k # n => srvTold'[k] = srvTold[k]
        /\ \A d \in Receivers : d # c => /\ srvInvoke'[d] = srvInvoke[d]
                                         /\ srvPending'[d] = srvPending[d]
        /\ srvInvoke'[c] = "idle" /\ ~Asks(c)'
    BY Zenon, <1>6, <2>0, TruthReturns
  <2>2. Asks(c) => n \notin srvHandled /\ ~Held(n)
    BY Zenon, <1>0, <2>0 DEF Truth, CallerTruth
  <2>3. \/ status = "Timeout"
        \/ status \in Answered /\ status = srvCompletion[n]
        \/ status = "Refused" /\ Asks(c) /\ ~In(srvQueue', n)
    BY Zenon, <1>6, <2>0
  <2>4. ASSUME NEW k \in Calls, k # n PROVE CallTruth(k)'
    <3>1. CallTruth(k)
      BY Zenon, <1>0 DEF Truth
    <3> QED
      BY Zenon, <1>1, <1>2, <1>6, <2>1, <2>4, <3>1 DEF CallTruth
  <2>5. CallTruth(n)'
    <3>1. status \in {"Ok", "Internal"} => n \in srvHandled
      BY Zenon, <2>1, <2>3 DEF CallTruth
    <3>2. status = "Closed" => srvCompletion[n] = "Closed"
      BY Zenon, <2>3
    <3>3. status = "Refused" => n \notin srvHandled /\ ~In(srvQueue', n) /\ ~Held(n)
      BY Zenon, <2>2, <2>3 DEF Answered, Answers
    <3>4. n > srvMade => FALSE
      BY <1>0, <1>6, <2>0 DEF Truth, CallerTruth, Types, Calls, Srv!Calls
    <3>5. /\ srvMade' = srvMade /\ srvTold'[n] = status /\ CallTruth(n)
          /\ (In(srvQueue', n) => In(srvQueue, n))
      BY Zenon, <1>6, <2>1
    <3> QED
      BY Zenon, <1>1, <1>2, <3>1, <3>2, <3>3, <3>4, <3>5 DEF CallTruth
  <2>6. ASSUME NEW d \in Receivers PROVE CallerTruth(d)'
    <3>1. CASE d = c
      BY Zenon, <2>1, <3>1 DEF CallerTruth
    <3>2. CASE d # c
      <4>1. Asks(d)' <=> Asks(d)
        BY Zenon, <2>1, <3>2 DEF Asks
      <4> QED
        BY Zenon, <1>0, <1>1, <1>2, <1>6, <2>1, <3>2, <4>1 DEF Truth, CallerTruth
    <3> QED
      BY Zenon, <3>1, <3>2
  <2>7. \A k \in Calls : CallTruth(k)'
    BY Zenon, <2>4, <2>5
  <2> QED
    BY Zenon, <1>3, <2>6, <2>7 DEF Truth
<1>7. CASE Srv!InvokeFailed(c)
  <2>1. \A k : In(srvQueue', k) <=> In(srvQueue, k) /\ k # srvPending[c]
    BY Zenon, <1>7, TakesBack
  <2>2. srvInvoke[c] # "idle" /\ Asks(c) /\ Srv!Returns(c, "Refused") /\ UNCHANGED srvMade
    BY Zenon, <1>7 DEF Srv!InvokeFailed, Asks
  <2> QED
    BY Zenon, <1>6, <2>1, <2>2
<1>8. CASE Srv!InvokeReady(c)
  <2>1. /\ srvInvoke[c] # "idle" /\ Srv!Returns(c, srvCompletion[srvPending[c]])
        /\ UNCHANGED <<srvMade, srvQueue>> /\ srvCompletion[srvPending[c]] # "unset"
    BY Zenon, <1>8 DEF Srv!InvokeReady
  <2>2. srvCompletion[srvPending[c]] \in Answered
    BY Zenon, <1>0, <2>1 DEF Truth, CallerTruth, Types
  <2> QED
    BY Zenon, <1>6, <2>1, <2>2
<1>9. CASE Srv!InvokeTimeout(c)
  <2>1. /\ srvInvoke[c] # "idle" /\ Srv!Returns(c, "Timeout")
        /\ UNCHANGED <<srvMade, srvQueue>>
    BY Zenon, <1>9 DEF Srv!InvokeTimeout
  <2> QED
    BY Zenon, <1>6, <2>1
<1> QED
  BY Zenon, <1>4, <1>5, <1>7, <1>8, <1>9 DEF Srv!InvokeStep

(* While a worker runs ProcessOne no caller is between the queueing of its *)
(* call and the outcome of its Notify.                                     *)
LEMMA TruthCallers ==
  ASSUME SrvInv, NEW w \in Workers, Holds(w),
         UNCHANGED <<srvInvoke, srvPending, srvMade>>
  PROVE  \A c \in Receivers : CallerTruth(c)'
<1>1. NoneAsks
  BY Zenon, HolderAlone DEF SrvInv
<1>2. \A c \in Receivers : ~Asks(c)'
  BY Zenon, <1>1 DEF NoneAsks, Asks
<1> QED
  BY Zenon, <1>2 DEF SrvInv, Truth, CallerTruth

(* ProcessOne: the call it takes has not been handled, the one it handles  *)
(* is nowhere else, and the one it answers has no answer yet.              *)
LEMMA TruthProcess ==
  ASSUME SrvInv, NEW w \in Workers,
         Srv!ProcessTake(w) \/ Srv!ProcessHandle(w) \/ Srv!ProcessAnswer(w)
  PROVE  Truth'
<1> USE DEF Srv!taskVars, Srv!enqueueVars, Srv!queueVars, Srv!promiseVars,
            Srv!invokeVars, Srv!workVars, Srv!closeVars
<1>0. Types /\ OnePlace /\ Truth
  BY Zenon DEF SrvInv
<1>1. UNCHANGED <<srvInvoke, srvPending, srvMade, srvTold, srvClosing>> /\ Holds(w)
  BY Zenon DEF Srv!ProcessTake, Srv!ProcessHandle, Srv!ProcessAnswer, Holds
<1>2. \A c \in Receivers : CallerTruth(c)'
  BY Zenon, <1>1, TruthCallers
<1>3. CASE Srv!ProcessTake(w)
  <2>1. PICK h : h = Head(srvQueue)
    OBVIOUS
  <2>2. /\ h \in Calls /\ In(srvQueue, h)
        /\ \A k : In(srvQueue', k) <=> In(srvQueue, k) /\ k # h
        /\ srvWorking'[w] = h
        /\ \A v \in Workers : v # w => srvWorking'[v] = srvWorking[v]
        /\ \A k \in Calls : Held(k)' <=> Held(k) \/ k = h
    BY Zenon, <1>3, <2>1, Takes
  <2>3. UNCHANGED <<srvCompletion, srvSets, srvAnswer, srvHandled>>
    BY Zenon, <1>3 DEF Srv!ProcessTake
  <2>4. h \notin srvHandled /\ srvTold[h] # "Refused"
    BY Zenon, <1>0, <2>2 DEF Truth, CallTruth
  <2>5. ASSUME NEW k \in Calls PROVE CallTruth(k)'
    <3>1. CallTruth(k) /\ (srvTold[k] = "Refused" => k # h)
      BY Zenon, <1>0, <2>4 DEF Truth
    <3> QED
      BY Zenon, <1>1, <2>2, <2>3, <3>1 DEF CallTruth
  <2>6. ASSUME NEW v \in Workers PROVE WorkerTruth(v)'
    <3>1. srvWorker'[w] = "handle" /\ (v # w => srvWorker'[v] = srvWorker[v])
      BY Zenon, <1>0, <1>3 DEF Srv!ProcessTake, Types
    <3>2. CASE v = w
      <4>1. srvWorker'[w] # "answer"
        BY Zenon, <3>1
      <4> QED
        BY Zenon, <2>2, <2>3, <2>4, <3>2, <4>1 DEF WorkerTruth
    <3>3. CASE v # w
      BY Zenon, <1>0, <2>2, <2>3, <3>1, <3>3 DEF Truth, WorkerTruth
    <3> QED
      BY Zenon, <3>2, <3>3
  <2> QED
    BY Zenon, <1>2, <2>5, <2>6 DEF Truth
<1>4. CASE Srv!ProcessHandle(w)
  <2>1. PICK h : h = srvWorking[w]
    OBVIOUS
  <2>2. /\ UNCHANGED <<srvQueue, srvCompletion, srvSets, srvWorking>>
        /\ srvWorker[w] = "handle"
    BY Zenon, <1>4 DEF Srv!ProcessHandle
  <2>3. h \in Calls /\ h # 0
    BY Zenon, <1>0, <2>1, <2>2 DEF Types, OnePlace
  <2>4. Held(h) /\ \A v \in Workers : srvWorking[v] = h => v = w
    BY Zenon, <1>0, <2>1, <2>3 DEF OnePlace, Held
  <2>5. /\ ~In(srvQueue, h) /\ ~In(srvClosing, h) /\ srvSets[h] = 0 /\ h <= srvMade
    BY Zenon, <1>0, <2>3, <2>4 DEF OnePlace
  <2>6. srvCompletion[h] # "Closed" /\ srvTold[h] \notin {"Refused", "Closed"}
    <3>1. CallTruth(h)
      BY Zenon, <1>0, <2>3 DEF Truth
    <3> QED
      BY Zenon, <2>4, <2>5, <3>1 DEF CallTruth
  <2>7. \/ srvHandled' = srvHandled /\ srvAnswer'[w] = "Timeout"
        \/ srvHandled' = srvHandled \cup {h} /\ srvAnswer'[w] \in {"Ok", "Internal"}
    BY Zenon, <1>0, <1>4, <2>1 DEF Srv!ProcessHandle, Types
  <2>8. \A k : k \in srvHandled' => k \in srvHandled \/ k = h
    BY Zenon, <2>7
  <2>9. \A k : k \in srvHandled => k \in srvHandled'
    BY Zenon, <2>7
  <2>10. \A k : Held(k)' <=> Held(k)
    BY Zenon, <2>2 DEF Held
  <2>11. ASSUME NEW k \in Calls PROVE CallTruth(k)'
    <3>1. CallTruth(k)
      BY Zenon, <1>0 DEF Truth
    <3>2. k > srvMade => k # h
      BY <1>0, <2>5 DEF Types, Calls, Srv!Calls
    <3>3. srvCompletion[k] = "Closed" \/ srvTold[k] = "Refused" => k # h
      BY Zenon, <2>6
    <3> QED
      BY Zenon, <1>1, <2>2, <2>5, <2>8, <2>9, <2>10, <3>1, <3>2, <3>3 DEF CallTruth
  <2>12. ASSUME NEW v \in Workers PROVE WorkerTruth(v)'
    <3>1. CASE v = w
      <4>1. srvWorker'[w] = "answer"
        BY Zenon, <1>0, <1>4 DEF Srv!ProcessHandle, Types
      <4> QED
        BY Zenon, <2>1, <2>2, <2>7, <3>1, <4>1 DEF WorkerTruth, Answers
    <3>2. CASE v # w
      <4>1. srvWorker'[v] = srvWorker[v] /\ srvAnswer'[v] = srvAnswer[v]
        BY Zenon, <1>0, <1>4, <3>2 DEF Srv!ProcessHandle, Types
      <4> QED
        BY Zenon, <1>0, <2>2, <2>4, <2>8, <2>9, <3>2, <4>1 DEF Truth, WorkerTruth
    <3> QED
      BY Zenon, <3>1, <3>2
  <2> QED
    BY Zenon, <1>2, <2>11, <2>12 DEF Truth
<1>5. CASE Srv!ProcessAnswer(w)
  <2>1. PICK h : h = srvWorking[w]
    OBVIOUS
  <2>2. /\ h \in Calls /\ Held(h) /\ srvSets[h] = 0 /\ srvWorking'[w] = 0
        /\ \A v \in Workers : v # w => srvWorking'[v] = srvWorking[v]
        /\ \A k \in Calls : Held(k)' <=> Held(k) /\ k # h
    BY Zenon, <1>5, <2>1, Answering
  <2>3. /\ UNCHANGED <<srvQueue, srvHandled>> /\ srvWorker[w] = "answer"
        /\ Srv!SetValue(h, srvAnswer[w])
    BY Zenon, <1>5, <2>1 DEF Srv!ProcessAnswer
  <2>4. /\ srvSets'[h] = 1 /\ srvCompletion'[h] = srvAnswer[w]
        /\ \A j \in Calls : j # h => /\ srvSets'[j] = srvSets[j]
                                     /\ srvCompletion'[j] = srvCompletion[j]
    BY Zenon, <1>0, <2>2, <2>3, Sets
  <2>5. /\ srvAnswer[w] \in Answers
        /\ srvAnswer[w] \in {"Ok", "Internal"} => h \in srvHandled
    BY Zenon, <1>0, <2>1, <2>3 DEF Truth, WorkerTruth
  <2>6. ASSUME NEW k \in Calls PROVE CallTruth(k)'
    <3>1. CallTruth(k)
      BY Zenon, <1>0 DEF Truth
    <3>2. CASE k = h
      <4>1. h <= srvMade /\ ~(h > srvMade)
        BY <1>0, <2>2 DEF OnePlace, Types, Calls, Srv!Calls
      <4>2. /\ srvSets'[h] <= 1 /\ srvSets'[h] # 0 /\ srvCompletion'[h] # "unset"
            /\ srvCompletion'[h] # "Closed"
        BY <2>4, <2>5 DEF Answers
      <4>3. srvTold[h] # "Closed"
        BY Zenon, <2>2, <3>1, <3>2 DEF CallTruth
      <4> QED
        BY Zenon, <1>1, <2>2, <2>3, <2>4, <2>5, <3>1, <3>2, <4>1, <4>2, <4>3 DEF CallTruth
    <3>3. CASE k # h
      BY Zenon, <1>1, <2>2, <2>3, <2>4, <3>1, <3>3 DEF CallTruth
    <3> QED
      BY Zenon, <3>2, <3>3
  <2>7. ASSUME NEW v \in Workers PROVE WorkerTruth(v)'
    <3>1. CASE v = w
      <4>1. srvWorker'[w] = "reschedule"
        BY Zenon, <1>0, <1>5 DEF Srv!ProcessAnswer, Types
      <4> QED
        BY Zenon, <3>1, <4>1 DEF WorkerTruth
    <3>2. CASE v # w
      <4>1. srvWorker'[v] = srvWorker[v] /\ srvAnswer'[v] = srvAnswer[v]
        BY Zenon, <1>0, <1>5, <3>2 DEF Srv!ProcessAnswer, Types
      <4> QED
        BY Zenon, <1>0, <2>2, <2>3, <3>2, <4>1 DEF Truth, WorkerTruth
    <3> QED
      BY Zenon, <3>1, <3>2
  <2> QED
    BY Zenon, <1>2, <2>6, <2>7 DEF Truth
<1> QED
  BY Zenon, <1>3, <1>4, <1>5

(* Close: a call it swaps out of the queue has not been handled and is     *)
(* with no worker, so that Closed is true of it.                           *)
LEMMA TruthClose ==
  ASSUME SrvInv, Srv!Close \/ Srv!CloseAnswer
  PROVE  Truth'
<1> USE DEF Srv!taskVars, Srv!enqueueVars, Srv!queueVars, Srv!promiseVars,
            Srv!invokeVars, Srv!workVars, Srv!closeVars
<1>0. Types /\ OnePlace /\ Truth
  BY Zenon DEF SrvInv
<1>1. UNCHANGED <<srvInvoke, srvPending, srvMade, srvTold, srvWorker, srvWorking,
                  srvAnswer, srvHandled>>
  BY Zenon DEF Srv!Close, Srv!CloseAnswer
<1>2. /\ \A k : Held(k)' <=> Held(k)
      /\ \A c \in Receivers : Asks(c)' <=> Asks(c)
  BY Zenon, <1>1 DEF Held, Asks
<1>3. \A w \in Workers : WorkerTruth(w)'
  BY Zenon, <1>0, <1>1 DEF Truth, WorkerTruth
<1>4. \A c \in Receivers : CallerTruth(c)'
  BY Zenon, <1>0, <1>1, <1>2 DEF Truth, CallerTruth
<1>5. CASE Srv!Close
  <2>1. UNCHANGED <<srvCompletion, srvSets>> /\ srvQueue' = << >> /\ srvClosing' = srvQueue
    BY Zenon, <1>5 DEF Srv!Close, Srv!SwappedOut
  <2>2. \A k : ~In(srvQueue', k)
    BY <2>1 DEF In
  <2>3. \A k : In(srvClosing', k) <=> In(srvQueue, k)
    BY Zenon, <2>1 DEF In
  <2>4. \A k \in Calls : CallTruth(k)'
    BY Zenon, <1>0, <1>1, <1>2, <2>1, <2>2, <2>3 DEF Truth, CallTruth
  <2> QED
    BY Zenon, <1>3, <1>4, <2>4 DEF Truth
<1>6. CASE Srv!CloseAnswer
  <2>1. PICK h : h = Head(srvClosing)
    OBVIOUS
  <2>2. /\ h \in Calls /\ In(srvClosing, h) /\ srvSets[h] = 0
        /\ \A k : In(srvClosing', k) <=> In(srvClosing, k) /\ k # h
    BY Zenon, <1>6, <2>1, Closes
  <2>3. UNCHANGED srvQueue /\ Srv!SetValue(h, "Closed")
    BY Zenon, <1>6, <2>1 DEF Srv!CloseAnswer
  <2>4. /\ srvSets'[h] = 1 /\ srvCompletion'[h] = "Closed"
        /\ \A j \in Calls : j # h => /\ srvSets'[j] = srvSets[j]
                                     /\ srvCompletion'[j] = srvCompletion[j]
    BY Zenon, <1>0, <2>2, <2>3, Sets
  <2>5. h \notin srvHandled
    BY Zenon, <1>0, <2>2 DEF Truth, CallTruth
  <2>6. ASSUME NEW k \in Calls PROVE CallTruth(k)'
    <3>1. CallTruth(k)
      BY Zenon, <1>0 DEF Truth
    <3>2. CASE k = h
      <4>1. ~(h > srvMade)
        BY <1>0, <2>2 DEF OnePlace, Types, Calls, Srv!Calls
      <4>2. /\ srvSets'[h] <= 1 /\ srvSets'[h] # 0 /\ srvCompletion'[h] # "unset"
            /\ srvCompletion'[h] \notin {"Ok", "Internal"}
        BY <2>4
      <4> QED
        BY Zenon, <1>1, <1>2, <2>2, <2>3, <2>4, <2>5, <3>1, <3>2, <4>1, <4>2 DEF CallTruth
    <3>3. CASE k # h
      BY Zenon, <1>1, <1>2, <2>2, <2>3, <2>4, <3>1, <3>3 DEF CallTruth
    <3> QED
      BY Zenon, <3>2, <3>3
  <2> QED
    BY Zenon, <1>3, <1>4, <2>6 DEF Truth
<1> QED
  BY Zenon, <1>5, <1>6

(* The steps that neither move a call nor answer a caller: those of the    *)
(* task and of its Notify, and the passing of a deadline.                  *)
LEMMA TruthQuiet ==
  ASSUME SrvInv,
         \/ \E c \in Receivers : Srv!Expire(c)
         \/ \E w \in Workers :
              \/ Srv!Take(w) \/ Srv!TaskStep(w) \/ Srv!ProcessNothing(w)
              \/ Srv!ProcessReschedule(w) \/ Srv!ProcessReserve(w) \/ Srv!ProcessPush(w)
         \/ (Srv!OtherNotify /\ Srv!RestUnchanged) \/ Srv!CloseCancel
  PROVE  Truth'
<1> USE DEF Srv!taskVars, Srv!enqueueVars, Srv!queueVars, Srv!promiseVars,
            Srv!invokeVars, Srv!workVars, Srv!closeVars
<1>0. Types /\ Truth
  BY Zenon DEF SrvInv
<1>1. UNCHANGED <<srvQueue, srvClosing, srvWorking, srvMade, srvCompletion, srvSets,
                  srvHandled, srvPending, srvTold, srvInvoke, srvAnswer>>
  BY Zenon DEF Srv!Expire, Srv!Take, Srv!TaskStep, Srv!ProcessNothing, Srv!ProcessReschedule,
     Srv!ProcessReserve, Srv!ProcessPush, Srv!RestUnchanged, Srv!CloseCancel
<1>2. \A w \in Workers :
        Working(w) \/ Working(w)' => srvWorker'[w] = srvWorker[w]
  <2>1. CASE UNCHANGED srvWorker
    BY Zenon, <2>1
  <2>2. ASSUME NEW w \in Workers, NEW p, srvWorker' = [srvWorker EXCEPT ![w] = p],
               p \notin {"handle", "answer"}, ~Working(w)
        PROVE  \A v \in Workers :
                 Working(v) \/ Working(v)' => srvWorker'[v] = srvWorker[v]
    <3>1. srvWorker'[w] = p /\ \A v \in Workers : v # w => srvWorker'[v] = srvWorker[v]
      BY Zenon, <1>0, <2>2, Moves
    <3> QED
      BY Zenon, <2>2, <3>1 DEF Working
  <2>3. ASSUME NEW w \in Workers,
               \/ Srv!Take(w) \/ Srv!TaskStep(w) \/ Srv!ProcessNothing(w)
               \/ Srv!ProcessReschedule(w) \/ Srv!ProcessReserve(w) \/ Srv!ProcessPush(w)
        PROVE  \E p : /\ srvWorker' = [srvWorker EXCEPT ![w] = p]
                      /\ p \notin {"handle", "answer"} /\ ~Working(w)
    BY ZenonT(60), <2>3 DEF Srv!Take, Srv!TaskStep, Srv!JobTaken, Srv!JobDispatched, Srv!OtherStep,
       Srv!OtherTaken, Srv!OtherFinished, Srv!ProcessNothing, Srv!ProcessReschedule,
       Srv!ProcessReserve, Srv!ProcessPush, Working
  <2>4. ASSUME \/ \E c \in Receivers : Srv!Expire(c)
               \/ (Srv!OtherNotify /\ Srv!RestUnchanged) \/ Srv!CloseCancel
        PROVE  UNCHANGED srvWorker
    BY Zenon, <2>4 DEF Srv!Expire, Srv!OtherNotify, Srv!CloseCancel
  <2> QED
    BY Zenon, <2>1, <2>2, <2>3, <2>4
<1>3. CallsStay
  BY Zenon, <1>1, <1>2 DEF CallsStay, Working
<1>4. \A c \in Receivers : Asks(c)' <=> Asks(c)
  BY Zenon, <1>1 DEF Asks
<1>5. /\ \A c \in Receivers : CallerTruth(c)'
      /\ \A k \in Calls : CallTruth(k)'
  BY Zenon, <1>0, <1>1, <1>3, <1>4, TruthStill
<1>6. ASSUME NEW w \in Workers PROVE WorkerTruth(w)'
  <2>1. WorkerTruth(w)
    BY Zenon, <1>0 DEF Truth
  <2>2. srvWorker'[w] \in {"handle", "answer"} => srvWorker'[w] = srvWorker[w]
    BY Zenon, <1>2 DEF Working
  <2> QED
    BY Zenon, <1>1, <2>1, <2>2 DEF WorkerTruth
<1> QED
  BY Zenon, <1>5, <1>6 DEF Truth

(* Every step of a service keeps what callers were told true.              *)
LEMMA TruthStep ==
  ASSUME SrvInv, Srv!Next
  PROVE  Truth'
<1>1. ASSUME NEW c \in Receivers, Srv!InvokeQueue(c) \/ Srv!InvokeStep(c) PROVE Truth'
  BY Zenon, <1>1, TruthInvoke
<1>2. ASSUME NEW w \in Workers,
             Srv!ProcessTake(w) \/ Srv!ProcessHandle(w) \/ Srv!ProcessAnswer(w)
      PROVE  Truth'
  BY Zenon, <1>2, TruthProcess
<1>3. CASE Srv!Close \/ Srv!CloseAnswer
  BY Zenon, <1>3, TruthClose
<1> QED
  BY Zenon, <1>1, <1>2, <1>3, TruthQuiet DEF Srv!Next, Srv!ProcessStep, Srv!CloseStep

-----------------------------------------------------------------------------
(* Every reachable state of a service has its calls in one place each and  *)
(* its token in at most one.                                               *)
THEOREM Invariance == MCSpec => []SrvInv
<1>1. MCInit => SrvInv
  BY Zenon, InitInv DEF MCInit
<1>2. SrvInv /\ [MCNext]_mcVars => SrvInv'
  <2>1. ASSUME SrvInv, UNCHANGED srvVars PROVE SrvInv'
    <3>1. Types'
      BY Zenon, <2>1 DEF srvVars, SrvInv, Types
    <3>2. Token'
      BY Zenon, <2>1 DEF srvVars, SrvInv, Token, NoneAsks, NoneHolds, Asks, Holds
    <3>3. OnePlace'
      BY ZenonT(60), <2>1 DEF srvVars, SrvInv, OnePlace, In, Distinct, Held
    <3>4. Truth'
      BY ZenonT(60), <2>1 DEF srvVars, SrvInv, Truth, CallTruth, WorkerTruth, CallerTruth, In, Held, Asks
    <3> QED
      BY Zenon, <3>1, <3>2, <3>3, <3>4 DEF SrvInv
  <2>2. ASSUME SrvInv, Srv!Next PROVE SrvInv'
    <3>1. Types' /\ OnePlace' /\ Truth'
      BY Zenon, <2>2, TypeStep, PlacesStep, TruthStep
    <3>2. Token'
      BY Zenon, <2>2, TokenStep DEF SrvInv
    <3> QED
      BY Zenon, <3>1, <3>2 DEF SrvInv
  <2> QED
    BY Zenon, <2>1, <2>2 DEF MCNext, mcVars, InSub, InSrv
<1> QED
  BY <1>1, <1>2, PTL DEF MCSpec

(* What Invoke tells its caller is true of what the handler did, and no    *)
(* promise is set twice (node.cpp, Service::Impl), whatever the callers,   *)
(* workers, deadlines and capacities.                                      *)
THEOREM AnswersAreTrueHolds == MCSpec => []AnswersAreTrue
<1>1. SrvInv => AnswersAreTrue
  <2> SUFFICES ASSUME SrvInv PROVE AnswersAreTrue
    OBVIOUS
  <2>1. ASSUME NEW k \in Srv!Calls
        PROVE  /\ srvTold[k] \in {"Ok", "Internal"} => k \in srvHandled
               /\ srvTold[k] \in {"Refused", "Closed"} => k \notin srvHandled
               /\ srvSets[k] <= 1
    <3>1. CallTruth(k)
      BY Zenon DEF SrvInv, Truth, Calls
    <3> QED
      BY Zenon, <3>1 DEF CallTruth
  <2>2. ASSUME NEW k \in Srv!Calls, Srv!Queued(k) PROVE srvSets[k] = 0
    BY Zenon, <2>2 DEF SrvInv, OnePlace, Srv!Queued, In, Calls
  <2>3. ASSUME NEW w \in Workers, srvWorking[w] # 0 PROVE srvSets[srvWorking[w]] = 0
    BY <2>3 DEF SrvInv, OnePlace, Types, Held
  <2> QED
    BY Zenon, <2>1, <2>2, <2>3 DEF AnswersAreTrue, Srv!AnswersAreTrue
<1> QED
  BY <1>1, Invariance, PTL
=============================================================================
