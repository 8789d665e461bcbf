------------------------- MODULE HealthMonitorProofs -------------------------
(***************************************************************************)
(* Proofs about HealthMonitor for any number of threads in Recover, any    *)
(* policy that ValidPolicy accepts and any number of reports.              *)
(*                                                                         *)
(* A reservation pays for at most one start: the processes started so far  *)
(* and the calls that may still start one are together within one more     *)
(* than the attempts.  A call that has started a process still knows its   *)
(* pid, and a probe speaks of a process that was started.                  *)
(***************************************************************************)
EXTENDS HealthMonitor, FiniteSetTheorems, TLAPS

States == Monitored \cup {"Failed", "Recovering"}
Reasons == {"None"} \cup FailureReasons \cup DegradedReasons
Component == [state : States, reason : Reasons,
              generation : Generations, pid : Nat \ {0},
              heartbeat : Nat, progress : Nat,
              seenAge : 0 .. HeartbeatTimeout + 1,
              progAge : 0 .. NoProgressTimeout + 1,
              transAge : 0 .. RecoveryTimeout + 1,
              backlog : BOOLEAN, misses : BOOLEAN,
              attempts : 0 .. MaxRestartAttempts]

Started == DOMAIN procs

(* The calls that have reserved a restart and not yet used it.             *)
Owing == {r \in Recoverers : rpc[r] \in {"cleanup", "backoff", "start"}}

BudgetInv ==
  /\ IsFiniteSet(Started) /\ Started = 1 .. Cardinality(Started)
  /\ Cardinality(Started) + Cardinality(Owing) <= 1 + comp.attempts
  /\ comp.generation <= 1 + comp.attempts
  /\ \A r \in Recoverers :
       rpc[r] # "idle" => old[r] \in Generations /\ old[r] <= comp.attempts

PidInv ==
  /\ comp.pid \in Started /\ procs[comp.pid] = comp.generation
  /\ \A r \in Recoverers :
       rpc[r] \in {"started", "reconnect", "undo", "commit"} =>
         pid[r] \in Started /\ procs[pid[r]] = old[r] + 1

ProbeInv ==
  /\ eval.probed => eval.pid \in Started
  /\ eval.at = "apply" /\ eval.probed /\ ~eval.alive /\ ~eval.threw => eval.pid \notin alive

IInv == TypeOK /\ BudgetInv /\ PidInv /\ EvidenceIsCurrent /\ ProbeInv

-----------------------------------------------------------------------------
(* The identity of a record: what only a restart changes.                   *)
SameProcess(c, d) ==
  c.generation = d.generation /\ c.pid = d.pid /\ c.attempts = d.attempts

SameEvidence(c, d) == c.heartbeat = d.heartbeat /\ c.progress = d.progress

(* The values that resets assign are in range.                             *)
LEMMA Zeros ==
  /\ 0 \in 0 .. HeartbeatTimeout + 1 /\ 0 \in 0 .. NoProgressTimeout + 1
  /\ 0 \in 0 .. RecoveryTimeout + 1 /\ 0 \in Nat
  /\ 1 .. MaxSequence \subseteq Nat
  BY PolicyAssumption, SequenceAssumption

(* TransitionLocked sets state and reason and nothing else that counts.     *)
LEMMA TransitionType ==
  ASSUME NEW c \in Component, NEW state \in States, NEW reason \in Reasons
  PROVE  /\ Transition(c, state, reason) \in Component
         /\ SameProcess(Transition(c, state, reason), c)
         /\ SameEvidence(Transition(c, state, reason), c)
         /\ Transition(c, state, reason).state = state
         /\ Transition(c, state, reason).reason = reason
<1> DEFINE t == Transition(c, state, reason)
<1>1. CASE c.state = state /\ c.reason = reason
  BY Zenon, <1>1 DEF Transition, SameProcess, SameEvidence
<1>2. CASE ~(c.state = state /\ c.reason = reason)
  <2>1. t = [c EXCEPT !.state = state, !.reason = reason, !.transAge = 0]
    BY Zenon, <1>2 DEF Transition
  <2> HIDE DEF t
  <2>2. t \in Component
    BY Zenon, <2>1, Zeros DEF Component
  <2>3. SameProcess(t, c) /\ SameEvidence(t, c) /\ t.state = state /\ t.reason = reason
    BY Zenon, <2>1 DEF Component, SameProcess, SameEvidence
  <2> QED
    BY Zenon, <2>2, <2>3 DEF t
<1> QED
  BY Zenon, <1>1, <1>2

(* The registered component is well typed.                                 *)
LEMMA CompType == TypeOK => comp \in Component
  BY Zenon DEF TypeOK, Component, States, Reasons

(* An age that grows stays within one tick of its timeout.                  *)
LEMMA OlderType ==
  ASSUME NEW timeout \in Nat, NEW age \in 0 .. timeout + 1
  PROVE  Older(age, timeout) \in 0 .. timeout + 1
  BY DEF Older

(* Evaluate changes the record only through TransitionLocked.               *)
LEMMA ApplyTransitions ==
  ASSUME EvaluateApply
  PROVE  \/ comp' = comp
         \/ \E state \in States, reason \in Reasons : comp' = Transition(comp, state, reason)
<1>1. {"Failed", "Degraded", "Running"} \subseteq States
  BY Zenon DEF States, Monitored
<1>2. {"None", "ProcessExited", "RecoveryFailed", "HeartbeatLost", "NoProgress",
       "BacklogExceeded", "DeadlineMissesExceeded"} \subseteq Reasons
  BY Zenon DEF Reasons, FailureReasons, DegradedReasons
<1> QED
  BY Zenon, <1>1, <1>2 DEF EvaluateApply, Judged, Cleared

(* The reports and Evaluate leave the identity of the record alone.         *)
LEMMA ReportEffect ==
  ASSUME TypeOK,
         \/ Tick
         \/ \E g \in Generations, s \in 1 .. MaxSequence : Heartbeat(g, s) \/ Progress(g, s)
         \/ \E g \in Generations, exceeds \in BOOLEAN :
              ReportBacklog(g, exceeds) \/ ReportDeadlineMisses(g, exceeds)
         \/ EvaluateApply
  PROVE  comp' \in Component /\ SameProcess(comp', comp)
<1> USE CompType
<1>1. CASE Tick
  <2>1. /\ Older(comp.seenAge, HeartbeatTimeout) \in 0 .. HeartbeatTimeout + 1
        /\ Older(comp.progAge, NoProgressTimeout) \in 0 .. NoProgressTimeout + 1
        /\ Older(comp.transAge, RecoveryTimeout) \in 0 .. RecoveryTimeout + 1
    BY Zenon, OlderType, PolicyAssumption DEF Component
  <2>2. \/ comp' = [comp EXCEPT !.seenAge = Older(@, HeartbeatTimeout),
                                !.progAge = Older(@, NoProgressTimeout)]
        \/ comp' = [comp EXCEPT !.transAge = Older(@, RecoveryTimeout)]
        \/ comp' = comp
    BY <1>1 DEF Tick
  <2> QED
    BY Zenon, <2>1, <2>2 DEF Component, SameProcess
<1>2. ASSUME NEW g \in Generations, NEW s \in 1 .. MaxSequence, Heartbeat(g, s)
      PROVE  comp' \in Component /\ SameProcess(comp', comp)
  <2> DEFINE seen == [comp EXCEPT !.heartbeat = s, !.seenAge = 0]
  <2>1. seen \in Component /\ SameProcess(seen, comp)
    BY Zenon, Zeros DEF Component, SameProcess
  <2>2. comp' = seen \/ comp' = Transition(seen, "Running", "None")
    BY Zenon, <1>2 DEF Heartbeat
  <2>3. "Running" \in States /\ "None" \in Reasons
    BY Zenon DEF States, Reasons, Monitored
  <2> HIDE DEF seen
  <2> QED
    BY <2>1, <2>2, <2>3, TransitionType DEF SameProcess
<1>3. ASSUME NEW g \in Generations, NEW s \in 1 .. MaxSequence, Progress(g, s)
      PROVE  comp' \in Component /\ SameProcess(comp', comp)
  BY Zenon, <1>3, Zeros DEF Progress, Component, SameProcess
<1>4. ASSUME NEW g \in Generations, NEW exceeds \in BOOLEAN,
             ReportBacklog(g, exceeds) \/ ReportDeadlineMisses(g, exceeds)
      PROVE  comp' \in Component /\ SameProcess(comp', comp)
  BY Zenon, <1>4 DEF ReportBacklog, ReportDeadlineMisses, Component, SameProcess
<1>5. CASE EvaluateApply
  <2>1. \/ comp' = comp
        \/ \E state \in States, reason \in Reasons : comp' = Transition(comp, state, reason)
    BY Zenon, <1>5, ApplyTransitions
  <2> QED
    BY <2>1, TransitionType DEF SameProcess
<1> QED
  BY Zenon, <1>1, <1>2, <1>3, <1>4, <1>5

-----------------------------------------------------------------------------
(* The steps, by what they do to the processes and the calls of Recover.    *)

(* Nothing is started, no call moves.                                       *)
Quiet ==
  /\ comp' \in Component /\ SameProcess(comp', comp)
  /\ alive' \subseteq alive
  /\ UNCHANGED <<procs, rpc, old, pid>>

(* A call moves on, or gives up what it owes; it may end processes.         *)
Moves(r, from, to) ==
  /\ rpc[r] = from /\ rpc' = [rpc EXCEPT ![r] = to]
  /\ alive' \subseteq alive
  /\ UNCHANGED <<comp, procs, beats, eval, old, pid, elapsed>>

MovesOn(r) ==
  \/ Moves(r, "cleanup", "backoff") \/ Moves(r, "cleanup", "fail")
  \/ Moves(r, "backoff", "start") \/ Moves(r, "backoff", "fail")
  \/ Moves(r, "start", "fail")
  \/ Moves(r, "started", "reconnect") \/ Moves(r, "started", "undo")
  \/ Moves(r, "reconnect", "commit") \/ Moves(r, "reconnect", "undo")
  \/ Moves(r, "undo", "fail")

Starts(r) ==
  LET p == Cardinality(Started) + 1
  IN /\ rpc[r] = "start" /\ rpc' = [rpc EXCEPT ![r] = "started"]
     /\ procs' = [q \in Started \cup {p} |-> IF q = p THEN old[r] + 1 ELSE procs[q]]
     /\ alive' = alive \cup {p}
     /\ pid' = [pid EXCEPT ![r] = p]
     /\ UNCHANGED <<comp, beats, eval, old, elapsed>>

Leaves(r) == RecoverFail(r) \/ RecoverStale(r)

(* Every step is of one of these kinds, as far as the budget goes.         *)
LEMMA StepKinds ==
  ASSUME TypeOK, [Next]_vars
  PROVE  \/ Quiet
         \/ \E r \in Recoverers :
              MovesOn(r) \/ Starts(r) \/ RecoverReserve(r) \/ Leaves(r) \/ RecoverCommit(r)
<1>1. CASE UNCHANGED vars
  BY Zenon, <1>1, CompType DEF vars, callVars, Quiet, SameProcess
<1>2. ASSUME \/ Tick
             \/ \E g \in Generations, s \in 1 .. MaxSequence : Heartbeat(g, s) \/ Progress(g, s)
             \/ \E g \in Generations, exceeds \in BOOLEAN :
                  ReportBacklog(g, exceeds) \/ ReportDeadlineMisses(g, exceeds)
             \/ EvaluateApply
      PROVE  Quiet
  <2>1. comp' \in Component /\ SameProcess(comp', comp)
    BY Zenon, <1>2, ReportEffect
  <2>2. UNCHANGED <<procs, alive, rpc, old, pid>>
    BY Zenon, <1>2 DEF Tick, Heartbeat, Progress, ReportBacklog, ReportDeadlineMisses,
                EvaluateApply, callVars
  <2> QED
    BY Zenon, <2>1, <2>2 DEF Quiet
<1>3. ASSUME \/ \E p \in alive : Exit(p)
             \/ \E p \in alive, kind \in {"heartbeat", "progress"} : Report(p, kind)
             \/ EvaluateSnapshot \/ EvaluateProbe
      PROVE  Quiet
  <2>1. UNCHANGED <<comp, procs, rpc, old, pid>> /\ alive' \subseteq alive
    BY Zenon, <1>3 DEF Exit, Report, EvaluateSnapshot, EvaluateProbe, callVars
  <2> QED
    BY Zenon, <2>1, CompType DEF Quiet, SameProcess
<1>4. ASSUME NEW r \in Recoverers,
             \/ CleanupHook(r) \/ Backoff(r) \/ CheckStarted(r) \/ ReconnectHook(r) \/ UndoStart(r)
      PROVE  MovesOn(r)
  BY Zenon, <1>4 DEF CleanupHook, Backoff, CheckStarted, ReconnectHook, UndoStart, Goto, Moves, MovesOn
<1>5. ASSUME NEW r \in Recoverers, StartHook(r)
      PROVE  MovesOn(r) \/ Starts(r)
  <2>1. CASE Goto(r, "start", "fail") /\ UNCHANGED <<procs, alive, pid>>
    BY Zenon, <1>5, <2>1 DEF StartHook, Goto, Moves, MovesOn
  <2>2. CASE ~(Goto(r, "start", "fail") /\ UNCHANGED <<procs, alive, pid>>)
    BY Zenon, <1>5, <2>2 DEF StartHook, Goto, Starts, Started
  <2> QED
    BY Zenon, <2>1, <2>2
<1> QED
  BY Zenon, <1>1, <1>2, <1>3, <1>4, <1>5 DEF Next, Evaluate, RecoverStep, Leaves

Places == {"idle", "cleanup", "backoff", "start", "started", "reconnect", "undo",
           "commit", "fail"}

(* The types that the counting arguments need.                             *)
LEMMA CallTypes ==
  ASSUME TypeOK
  PROVE  /\ rpc \in [Recoverers -> Places]
         /\ old \in [Recoverers -> 0 .. MaxRestartAttempts]
         /\ pid \in [Recoverers -> Nat]
         /\ comp \in Component
         /\ comp.attempts \in 0 .. MaxRestartAttempts /\ comp.generation \in Generations
         /\ comp.generation \in Nat /\ comp.generation >= 1
         /\ MaxRestartAttempts \in Nat
<1>1. comp \in Component
  BY Zenon, CompType
<1>2. comp.attempts \in 0 .. MaxRestartAttempts /\ comp.generation \in Generations
  BY Zenon, <1>1 DEF Component
<1>3. comp.generation \in Nat /\ comp.generation >= 1 /\ MaxRestartAttempts \in Nat
  BY <1>2, PolicyAssumption DEF Generations, MaxGeneration
<1>4. /\ rpc \in [Recoverers -> Places]
      /\ old \in [Recoverers -> 0 .. MaxRestartAttempts]
      /\ pid \in [Recoverers -> Nat]
  BY Zenon DEF TypeOK, Places
<1> QED
  BY Zenon, <1>1, <1>2, <1>3, <1>4

(* A call that leaves changes neither the identity of the record nor what   *)
(* is owed by others.                                                       *)
LEMMA LeavesEffect ==
  ASSUME TypeOK, NEW r \in Recoverers, Leaves(r)
  PROVE  /\ comp' \in Component /\ SameProcess(comp', comp) /\ SameEvidence(comp', comp)
         /\ UNCHANGED <<procs, alive, beats, eval>>
         /\ rpc[r] \in {"fail", "commit"} /\ rpc' = [rpc EXCEPT ![r] = "idle"]
         /\ old' = [old EXCEPT ![r] = 0] /\ pid' = [pid EXCEPT ![r] = 0]
         /\ elapsed' = [elapsed EXCEPT ![r] = 0]
<1>1. comp' = comp \/ comp' = Transition(comp, "Failed", "RecoveryFailed")
  BY Zenon DEF Leaves, RecoverFail, RecoverStale
<1>2. "Failed" \in States /\ "RecoveryFailed" \in Reasons
  BY Zenon DEF States, Reasons, FailureReasons
<1>3. comp' \in Component /\ SameProcess(comp', comp) /\ SameEvidence(comp', comp)
  BY <1>1, <1>2, CompType, TransitionType DEF SameProcess, SameEvidence
<1> QED
  BY Zenon, <1>3 DEF Leaves, RecoverFail, RecoverStale, Return, Goto

(* A reservation takes one attempt and remembers the generation.            *)
LEMMA ReserveEffect ==
  ASSUME TypeOK, NEW r \in Recoverers, RecoverReserve(r)
  PROVE  /\ comp' \in Component /\ SameEvidence(comp', comp)
         /\ comp'.generation = comp.generation /\ comp'.pid = comp.pid
         /\ comp.attempts < MaxRestartAttempts /\ comp'.attempts = comp.attempts + 1
         /\ rpc[r] = "idle" /\ rpc' = [rpc EXCEPT ![r] = "cleanup"]
         /\ old' = [old EXCEPT ![r] = comp.generation]
         /\ elapsed' = [elapsed EXCEPT ![r] = 0]
         /\ UNCHANGED <<procs, alive, beats, eval, pid>>
<1> DEFINE t == Transition(comp, "Recovering", comp.reason)
<1>1. "Recovering" \in States /\ comp.reason \in Reasons
  BY Zenon, CompType DEF States, Component
<1>2. t \in Component /\ SameProcess(t, comp) /\ SameEvidence(t, comp)
  BY Zenon, <1>1, CompType, TransitionType
<1>3. comp' = [t EXCEPT !.attempts = @ + 1] /\ comp.attempts < MaxRestartAttempts
  BY Zenon DEF RecoverReserve, BudgetLeft
<1> HIDE DEF t
<1>4. t.attempts + 1 \in 0 .. MaxRestartAttempts
  BY <1>2, <1>3, CallTypes DEF SameProcess
<1>5. comp' \in Component
  BY Zenon, <1>2, <1>3, <1>4 DEF Component
<1>6. /\ SameEvidence(comp', comp)
      /\ comp'.generation = comp.generation /\ comp'.pid = comp.pid
      /\ comp'.attempts = comp.attempts + 1
  BY Zenon, <1>2, <1>3 DEF Component, SameProcess, SameEvidence
<1> QED
  BY Zenon, <1>3, <1>5, <1>6 DEF RecoverReserve, Goto

(* A commit puts the generation and the pid of the call into the record.    *)
LEMMA CommitEffect ==
  ASSUME TypeOK, BudgetInv, PidInv, NEW r \in Recoverers, RecoverCommit(r)
  PROVE  /\ comp' \in Component
         /\ comp'.generation = old[r] + 1 /\ comp'.pid = pid[r]
         /\ comp'.attempts = comp.attempts
         /\ comp'.heartbeat = 0 /\ comp'.progress = 0
         /\ comp.generation = old[r] /\ old[r] <= comp.attempts
         /\ rpc[r] = "commit" /\ rpc' = [rpc EXCEPT ![r] = "idle"]
         /\ old' = [old EXCEPT ![r] = 0] /\ pid' = [pid EXCEPT ![r] = 0]
         /\ elapsed' = [elapsed EXCEPT ![r] = 0]
         /\ UNCHANGED <<procs, alive, beats, eval>>
<1>1. /\ rpc[r] = "commit" /\ comp.generation = old[r]
      /\ comp' = Restarted(comp, old[r] + 1, pid[r])
  BY Zenon DEF RecoverCommit, MayCommit, Return, Goto
<1>2. old[r] <= comp.attempts /\ pid[r] \in Started
  BY Zenon, <1>1 DEF BudgetInv, PidInv
<1>3. old[r] + 1 \in Generations
  BY <1>1, <1>2, CallTypes DEF Generations, MaxGeneration
<1>4. pid[r] \in Nat \ {0}
  BY <1>2, FS_CardinalityType DEF BudgetInv
<1>5. {"Starting"} \subseteq States /\ "None" \in Reasons
  BY Zenon DEF States, Monitored, Reasons
<1>6. comp' \in Component
  BY Zenon, <1>1, <1>3, <1>4, <1>5, CompType, Zeros DEF Component, Restarted
<1>7. /\ comp'.generation = old[r] + 1 /\ comp'.pid = pid[r] /\ comp'.attempts = comp.attempts
      /\ comp'.heartbeat = 0 /\ comp'.progress = 0
  BY Zenon, <1>1, CompType DEF Component, Restarted
<1> QED
  BY Zenon, <1>1, <1>2, <1>6, <1>7 DEF RecoverCommit, Return, Goto

-----------------------------------------------------------------------------
(* Every step keeps the starts within the attempts.                         *)
LEMMA BudgetStep ==
  ASSUME TypeOK, BudgetInv, PidInv, [Next]_vars
  PROVE  BudgetInv'
<1>1. /\ IsFiniteSet(Owing) /\ IsFiniteSet(Owing')
      /\ Cardinality(Owing) \in Nat /\ Cardinality(Owing') \in Nat
      /\ IsFiniteSet(Started) /\ Cardinality(Started) \in Nat
      /\ comp.attempts \in Nat
  BY RecoverersAssumption, FS_Subset, FS_CardinalityType, CallTypes DEF Owing, BudgetInv
<1>2. CASE Quiet
  <2>1. Started' = Started /\ Owing' = Owing
    BY Zenon, <1>2 DEF Quiet, Started, Owing
  <2> QED
    BY Zenon, <1>2, <2>1 DEF Quiet, SameProcess, BudgetInv
<1>3. ASSUME NEW r \in Recoverers, MovesOn(r) PROVE BudgetInv'
  <2>1. /\ UNCHANGED <<comp, procs, old>> /\ rpc[r] # "idle"
        /\ \A q \in Recoverers : q # r => rpc'[q] = rpc[q]
        /\ rpc'[r] \in {"cleanup", "backoff", "start"} => rpc[r] \in {"cleanup", "backoff", "start"}
    BY Zenon, <1>3, CallTypes DEF MovesOn, Moves
  <2>2. Started' = Started /\ Owing' \subseteq Owing
    BY Zenon, <2>1 DEF Started, Owing
  <2>3. Cardinality(Owing') <= Cardinality(Owing)
    BY Zenon, <1>1, <2>2, FS_Subset
  <2>4. \A q \in Recoverers : rpc'[q] # "idle" => rpc[q] # "idle"
    BY Zenon, <2>1
  <2> QED
    BY <1>1, <2>1, <2>2, <2>3, <2>4 DEF BudgetInv
<1>4. ASSUME NEW r \in Recoverers, Starts(r) PROVE BudgetInv'
  <2> DEFINE p == Cardinality(Started) + 1
  <2>1. Started' = Started \cup {p} /\ p \notin Started
    <3>1. Started' = Started \cup {p}
      BY Zenon, <1>4 DEF Starts, Started
    <3>2. p \notin 1 .. Cardinality(Started)
      BY <1>1
    <3> QED
      BY Zenon, <3>1, <3>2 DEF BudgetInv
  <2>2. IsFiniteSet(Started') /\ Cardinality(Started') = Cardinality(Started) + 1
    BY Zenon, <1>1, <2>1, FS_AddElement
  <2>3. Started' = 1 .. Cardinality(Started')
    <3>1. Started' = (1 .. Cardinality(Started)) \cup {p}
      BY Zenon, <2>1 DEF BudgetInv
    <3>2. (1 .. Cardinality(Started)) \cup {p} = 1 .. Cardinality(Started) + 1
      BY <1>1
    <3> QED
      BY Zenon, <2>2, <3>1, <3>2
  <2>4. r \in Owing /\ Owing' = Owing \ {r}
    BY Zenon, <1>4, CallTypes DEF Starts, Owing
  <2>5. Cardinality(Owing') = Cardinality(Owing) - 1
    BY Zenon, <1>1, <2>4, FS_RemoveElement
  <2>6. /\ UNCHANGED <<comp, old>>
        /\ \A q \in Recoverers : rpc'[q] # "idle" => rpc[q] # "idle"
    BY Zenon, <1>4, CallTypes DEF Starts
  <2> QED
    BY <1>1, <2>2, <2>3, <2>5, <2>6 DEF BudgetInv
<1>5. ASSUME NEW r \in Recoverers, RecoverReserve(r) PROVE BudgetInv'
  <2>1. /\ comp'.generation = comp.generation /\ comp'.attempts = comp.attempts + 1
        /\ rpc[r] = "idle" /\ rpc' = [rpc EXCEPT ![r] = "cleanup"]
        /\ old' = [old EXCEPT ![r] = comp.generation] /\ procs' = procs
    BY Zenon, <1>5, ReserveEffect
  <2>2. Started' = Started /\ r \notin Owing /\ Owing' = Owing \cup {r}
    BY Zenon, <2>1, CallTypes DEF Started, Owing
  <2>3. Cardinality(Owing') = Cardinality(Owing) + 1
    BY Zenon, <1>1, <2>2, FS_AddElement
  <2>4. ASSUME NEW q \in Recoverers, rpc'[q] # "idle"
        PROVE  old'[q] \in Generations /\ old'[q] <= comp'.attempts
    <3>1. CASE q = r
      BY <2>1, <3>1, CallTypes DEF BudgetInv
    <3>2. CASE q # r
      <4>1. rpc'[q] = rpc[q] /\ old'[q] = old[q]
        BY Zenon, <2>1, <3>2, CallTypes
      <4>2. old[q] \in Generations /\ old[q] <= comp.attempts /\ old[q] \in Nat
        BY <2>4, <4>1, CallTypes DEF BudgetInv
      <4> QED
        BY <1>1, <2>1, <4>1, <4>2
    <3> QED
      BY Zenon, <3>1, <3>2
  <2>5. comp'.generation <= 1 + comp'.attempts
    BY <1>1, <2>1, CallTypes DEF BudgetInv
  <2> QED
    BY <1>1, <2>1, <2>2, <2>3, <2>4, <2>5 DEF BudgetInv
<1>6. ASSUME NEW r \in Recoverers, Leaves(r) \/ RecoverCommit(r) PROVE BudgetInv'
  <2>1. /\ procs' = procs /\ comp'.attempts = comp.attempts
        /\ comp'.generation <= 1 + comp'.attempts
        /\ rpc[r] \in {"fail", "commit"} /\ rpc' = [rpc EXCEPT ![r] = "idle"]
        /\ old' = [old EXCEPT ![r] = 0]
    <3>1. CASE Leaves(r)
      BY Zenon, <3>1, LeavesEffect DEF SameProcess, BudgetInv
    <3>2. CASE RecoverCommit(r)
      BY <1>1, <3>2, CommitEffect, CallTypes
    <3> QED
      BY Zenon, <1>6, <3>1, <3>2
  <2>2. Started' = Started /\ Owing' = Owing
    BY Zenon, <2>1, CallTypes DEF Started, Owing
  <2>3. \A q \in Recoverers : rpc'[q] # "idle" => rpc[q] # "idle" /\ old'[q] = old[q]
    BY Zenon, <2>1, CallTypes
  <2> QED
    BY Zenon, <2>1, <2>2, <2>3 DEF BudgetInv
<1> QED
  BY Zenon, <1>2, <1>3, <1>4, <1>5, <1>6, StepKinds

(* The registered process, and the one a call has started, keep the         *)
(* generation they were started for.                                        *)
LEMMA PidStep ==
  ASSUME TypeOK, BudgetInv, PidInv, [Next]_vars
  PROVE  PidInv'
<1> DEFINE Has == {"started", "reconnect", "undo", "commit"}
<1>1. CASE Quiet
  BY Zenon, <1>1 DEF Quiet, SameProcess, PidInv, Started
<1>2. ASSUME NEW r \in Recoverers, MovesOn(r) PROVE PidInv'
  <2>1. /\ UNCHANGED <<comp, procs, old, pid>>
        /\ \A q \in Recoverers : q # r => rpc'[q] = rpc[q]
        /\ rpc'[r] \in Has => rpc[r] \in Has
    BY Zenon, <1>2, CallTypes DEF MovesOn, Moves
  <2>2. \A q \in Recoverers : rpc'[q] \in Has => rpc[q] \in Has
    BY Zenon, <2>1
  <2> QED
    BY Zenon, <2>1, <2>2 DEF PidInv, Started
<1>3. ASSUME NEW r \in Recoverers, Starts(r) PROVE PidInv'
  <2> DEFINE p == Cardinality(Started) + 1
  <2>1. /\ procs' = [q \in Started \cup {p} |-> IF q = p THEN old[r] + 1 ELSE procs[q]]
        /\ pid' = [pid EXCEPT ![r] = p] /\ rpc' = [rpc EXCEPT ![r] = "started"]
        /\ UNCHANGED <<comp, old>>
    BY Zenon, <1>3 DEF Starts
  <2>2. p \notin Started
    <3>1. p \notin 1 .. Cardinality(Started)
      BY FS_CardinalityType DEF BudgetInv
    <3> QED
      BY Zenon, <3>1 DEF BudgetInv
  <2>3. /\ Started' = Started \cup {p} /\ procs'[p] = old[r] + 1
        /\ \A q \in Started : procs'[q] = procs[q]
    BY Zenon, <2>1, <2>2 DEF Started
  <2> HIDE DEF p
  <2>4. ASSUME NEW q \in Recoverers, rpc'[q] \in Has
        PROVE  pid'[q] \in Started' /\ procs'[pid'[q]] = old'[q] + 1
    <3>1. CASE q = r
      BY Zenon, <2>1, <2>3, <3>1, CallTypes
    <3>2. CASE q # r
      <4>1. rpc'[q] = rpc[q] /\ pid'[q] = pid[q] /\ old'[q] = old[q]
        BY Zenon, <2>1, <3>2, CallTypes
      <4> QED
        BY Zenon, <2>3, <2>4, <4>1 DEF PidInv
    <3> QED
      BY Zenon, <3>1, <3>2
  <2> QED
    BY Zenon, <2>1, <2>3, <2>4 DEF PidInv
<1>4. ASSUME NEW r \in Recoverers, RecoverReserve(r) PROVE PidInv'
  <2>1. /\ comp'.generation = comp.generation /\ comp'.pid = comp.pid
        /\ rpc' = [rpc EXCEPT ![r] = "cleanup"]
        /\ old' = [old EXCEPT ![r] = comp.generation] /\ UNCHANGED <<procs, pid>>
    BY Zenon, <1>4, ReserveEffect
  <2>2. \A q \in Recoverers : rpc'[q] \in Has => rpc[q] \in Has /\ old'[q] = old[q]
    BY Zenon, <2>1, CallTypes
  <2> QED
    BY Zenon, <2>1, <2>2 DEF PidInv, Started
<1>5. ASSUME NEW r \in Recoverers, Leaves(r) \/ RecoverCommit(r) PROVE PidInv'
  <2>1. /\ procs' = procs /\ rpc' = [rpc EXCEPT ![r] = "idle"]
        /\ old' = [old EXCEPT ![r] = 0] /\ pid' = [pid EXCEPT ![r] = 0]
        /\ comp'.pid \in Started /\ procs[comp'.pid] = comp'.generation
    <3>1. CASE Leaves(r)
      BY Zenon, <3>1, LeavesEffect DEF SameProcess, PidInv
    <3>2. CASE RecoverCommit(r)
      BY Zenon, <3>2, CommitEffect DEF PidInv
    <3> QED
      BY Zenon, <1>5, <3>1, <3>2
  <2>2. \A q \in Recoverers :
          rpc'[q] \in Has => rpc[q] \in Has /\ old'[q] = old[q] /\ pid'[q] = pid[q]
    BY Zenon, <2>1, CallTypes
  <2> QED
    BY Zenon, <2>1, <2>2 DEF PidInv, Started
<1> QED
  BY Zenon, <1>1, <1>2, <1>3, <1>4, <1>5, StepKinds

-----------------------------------------------------------------------------
(* The rest of the types.                                                   *)
ReportsOK == beats \in [Generations -> [heartbeat : Nat, progress : Nat]]

EvalOK == eval \in [at : {"idle", "probe", "apply"}, probed : BOOLEAN, pid : Nat,
                    generation : 0 .. MaxGeneration, alive : BOOLEAN, threw : BOOLEAN]

(* Reports are well typed, and their sequences never go back.              *)
LEMMA ReportsType ==
  ASSUME TypeOK, [Next]_vars
  PROVE  /\ ReportsOK /\ ReportsOK'
         /\ \A g \in Generations : /\ beats[g].heartbeat <= beats'[g].heartbeat
                                   /\ beats[g].progress <= beats'[g].progress
<1>1. ReportsOK
  BY Zenon DEF TypeOK, ReportsOK
<1>2. CASE UNCHANGED beats
  BY <1>1, <1>2 DEF ReportsOK
<1>3. ASSUME NEW p \in alive, NEW kind \in {"heartbeat", "progress"}, Report(p, kind)
      PROVE  /\ ReportsOK'
             /\ \A g \in Generations : /\ beats[g].heartbeat <= beats'[g].heartbeat
                                       /\ beats[g].progress <= beats'[g].progress
  <2>1. procs[p] \in Generations
    BY Zenon DEF TypeOK
  <2>2. beats' = [beats EXCEPT ![procs[p]][kind] = @ + 1]
    BY Zenon, <1>3 DEF Report
  <2> QED
    BY <1>1, <1>3, <2>1, <2>2 DEF ReportsOK
<1>4. ~(\E p \in alive, kind \in {"heartbeat", "progress"} : Report(p, kind)) => UNCHANGED beats
  BY Zenon DEF Next, vars, callVars, Tick, Exit, Heartbeat, Progress, ReportBacklog,
         ReportDeadlineMisses, Evaluate, EvaluateSnapshot, EvaluateProbe, EvaluateApply,
         RecoverReserve, RecoverStep, CleanupHook, Backoff, StartHook, CheckStarted,
         ReconnectHook, UndoStart, RecoverFail, RecoverCommit, RecoverStale
<1> QED
  BY Zenon, <1>1, <1>2, <1>3, <1>4

(* Only Evaluate writes its locals.                                         *)
LEMMA EvalFrame ==
  ASSUME [Next]_vars
  PROVE  EvaluateSnapshot \/ EvaluateProbe \/ EvaluateApply \/ UNCHANGED eval
  BY Zenon DEF Next, vars, callVars, Tick, Exit, Report, Heartbeat, Progress, ReportBacklog,
         ReportDeadlineMisses, Evaluate,
         RecoverReserve, RecoverStep, CleanupHook, Backoff, StartHook, CheckStarted,
         ReconnectHook, UndoStart, RecoverFail, RecoverCommit, RecoverStale

(* What Evaluate remembers between its two sections is well typed.         *)
LEMMA EvalType ==
  ASSUME TypeOK, [Next]_vars
  PROVE  EvalOK'
<1>1. EvalOK
  BY Zenon DEF TypeOK, EvalOK
<1>2. comp.pid \in Nat /\ comp.generation \in 0 .. MaxGeneration
  BY CompType, CallTypes DEF Component, Generations, MaxGeneration
<1>3. CASE EvaluateSnapshot
  <2>1. NoEval.probed = FALSE /\ 0 \in Nat /\ 0 \in 0 .. MaxGeneration
    BY PolicyAssumption DEF NoEval, MaxGeneration
  <2> QED
    BY Zenon, <1>2, <1>3, <2>1 DEF EvaluateSnapshot, EvalOK, NoEval
<1>4. CASE EvaluateProbe
  <2>1. PICK throws \in BOOLEAN :
          eval' = [eval EXCEPT !.at = "apply", !.threw = throws,
                               !.alive = ~throws /\ eval.pid \in alive]
    BY Zenon, <1>4 DEF EvaluateProbe
  <2>2. (~throws /\ eval.pid \in alive) \in BOOLEAN
    OBVIOUS
  <2> QED
    BY Zenon, <1>1, <2>1, <2>2 DEF EvalOK
<1>5. CASE EvaluateApply
  <2>1. 0 \in Nat /\ 0 \in 0 .. MaxGeneration
    BY PolicyAssumption DEF MaxGeneration
  <2> QED
    BY Zenon, <1>5, <2>1 DEF EvaluateApply, EvalOK, NoEval
<1>6. CASE UNCHANGED eval
  BY Zenon, <1>1, <1>6 DEF EvalOK
<1> QED
  BY Zenon, <1>3, <1>4, <1>5, <1>6, EvalFrame

(* The time a recovery has taken stays within one tick of its timeout.     *)
LEMMA ElapsedType ==
  ASSUME TypeOK, [Next]_vars
  PROVE  elapsed' \in [Recoverers -> 0 .. RecoveryTimeout + 1]
<1>1. elapsed \in [Recoverers -> 0 .. RecoveryTimeout + 1]
  BY Zenon DEF TypeOK
<1>2. CASE Tick
  <2>1. \A r \in Recoverers : Older(elapsed[r], RecoveryTimeout) \in 0 .. RecoveryTimeout + 1
    BY Zenon, <1>1, OlderType, PolicyAssumption
  <2> QED
    BY Zenon, <1>2, <2>1, Zeros DEF Tick
<1>3. CASE ~Tick
  <2>1. elapsed' = elapsed \/ \E r \in Recoverers : elapsed' = [elapsed EXCEPT ![r] = 0]
    BY Zenon, <1>3 DEF Next, vars, callVars, Exit, Report, Heartbeat, Progress, ReportBacklog,
         ReportDeadlineMisses, Evaluate, EvaluateSnapshot, EvaluateProbe, EvaluateApply,
         RecoverReserve, RecoverStep, CleanupHook, Backoff, StartHook, CheckStarted,
         ReconnectHook, UndoStart, RecoverFail, RecoverCommit, RecoverStale, Return
  <2> QED
    BY Zenon, <1>1, <2>1, Zeros
<1> QED
  BY Zenon, <1>2, <1>3

(* Every step preserves the types.                                          *)
LEMMA TypeStep ==
  ASSUME TypeOK, BudgetInv, PidInv, [Next]_vars
  PROVE  TypeOK'
<1> DEFINE Procs == /\ alive \subseteq Started
                    /\ \A p \in Started : procs[p] \in Generations
           Calls == /\ rpc \in [Recoverers -> Places]
                    /\ old \in [Recoverers -> 0 .. MaxRestartAttempts]
                    /\ pid \in [Recoverers -> Nat]
<1>1. Procs /\ Calls
  BY Zenon, CallTypes DEF TypeOK, Started
<1>2. comp' \in Component /\ Procs' /\ Calls'
  <2>1. CASE Quiet
    BY Zenon, <1>1, <2>1 DEF Quiet, Started
  <2>2. ASSUME NEW r \in Recoverers, MovesOn(r)
        PROVE  comp' \in Component /\ Procs' /\ Calls'
    <3>1. /\ UNCHANGED <<comp, procs, old, pid>> /\ alive' \subseteq alive
          /\ rpc' \in [Recoverers -> Places]
      BY Zenon, <1>1, <2>2 DEF MovesOn, Moves, Places
    <3> QED
      BY Zenon, <1>1, <3>1, CompType DEF Started
  <2>3. ASSUME NEW r \in Recoverers, Starts(r)
        PROVE  comp' \in Component /\ Procs' /\ Calls'
    <3> DEFINE p == Cardinality(Started) + 1
    <3>1. /\ procs' = [q \in Started \cup {p} |-> IF q = p THEN old[r] + 1 ELSE procs[q]]
          /\ pid' = [pid EXCEPT ![r] = p] /\ rpc' = [rpc EXCEPT ![r] = "started"]
          /\ alive' = alive \cup {p} /\ UNCHANGED <<comp, old>> /\ rpc[r] = "start"
      BY Zenon, <2>3 DEF Starts
    <3>2. p \in Nat
      BY FS_CardinalityType DEF BudgetInv
    <3> HIDE DEF p
    <3>3. old[r] + 1 \in Generations
      <4>1. old[r] \in Nat /\ old[r] <= comp.attempts
        BY <3>1, CallTypes DEF BudgetInv
      <4> QED
        BY <4>1, CallTypes DEF Generations, MaxGeneration
    <3>4. Procs'
      BY Zenon, <1>1, <3>1, <3>3 DEF Started
    <3>5. Calls'
      BY Zenon, <1>1, <3>1, <3>2 DEF Places
    <3> QED
      BY Zenon, <3>1, <3>4, <3>5, CompType
  <2>4. ASSUME NEW r \in Recoverers, RecoverReserve(r)
        PROVE  comp' \in Component /\ Procs' /\ Calls'
    <3>1. /\ comp' \in Component /\ comp.attempts < MaxRestartAttempts
          /\ rpc' = [rpc EXCEPT ![r] = "cleanup"]
          /\ old' = [old EXCEPT ![r] = comp.generation] /\ UNCHANGED <<procs, alive, pid>>
      BY Zenon, <2>4, ReserveEffect
    <3>2. comp.generation \in 0 .. MaxRestartAttempts
      BY <3>1, CallTypes DEF BudgetInv
    <3> QED
      BY Zenon, <1>1, <3>1, <3>2 DEF Started, Places
  <2>5. ASSUME NEW r \in Recoverers, Leaves(r) \/ RecoverCommit(r)
        PROVE  comp' \in Component /\ Procs' /\ Calls'
    <3>1. /\ comp' \in Component /\ rpc' = [rpc EXCEPT ![r] = "idle"]
          /\ old' = [old EXCEPT ![r] = 0] /\ pid' = [pid EXCEPT ![r] = 0]
          /\ UNCHANGED <<procs, alive>>
      BY Zenon, <2>5, LeavesEffect, CommitEffect
    <3>2. 0 \in 0 .. MaxRestartAttempts
      BY PolicyAssumption
    <3> QED
      BY Zenon, <1>1, <3>1, <3>2 DEF Started, Places
  <2> QED
    BY Zenon, <2>1, <2>2, <2>3, <2>4, <2>5, StepKinds
<1>3. ReportsOK' /\ EvalOK' /\ elapsed' \in [Recoverers -> 0 .. RecoveryTimeout + 1]
  BY Zenon, ReportsType, EvalType, ElapsedType
<1> QED
  BY Zenon, <1>2, <1>3 DEF TypeOK, Component, States, Reasons, Started, Places, ReportsOK, EvalOK

-----------------------------------------------------------------------------
(* The sequence numbers in the record stay those of its generation.         *)
LEMMA EvidenceStep ==
  ASSUME TypeOK, BudgetInv, PidInv, EvidenceIsCurrent, TypeOK', [Next]_vars
  PROVE  EvidenceIsCurrent'
<1>1. /\ comp \in Component /\ comp' \in Component
      /\ comp.generation \in Generations /\ comp'.generation \in Generations
      /\ comp.heartbeat \in Nat /\ comp.progress \in Nat
  BY Zenon, CompType, CallTypes DEF Component, TypeOK, States, Reasons
<1>2. /\ ReportsOK /\ ReportsOK'
      /\ \A g \in Generations : /\ beats[g].heartbeat <= beats'[g].heartbeat
                                /\ beats[g].progress <= beats'[g].progress
  BY Zenon, ReportsType
<1>3. ASSUME comp'.generation = comp.generation, SameEvidence(comp', comp)
      PROVE  EvidenceIsCurrent'
  BY <1>1, <1>2, <1>3 DEF EvidenceIsCurrent, SameEvidence, ReportsOK
<1>4. ASSUME NEW r \in Recoverers, RecoverCommit(r) PROVE EvidenceIsCurrent'
  <2>1. comp'.heartbeat = 0 /\ comp'.progress = 0
    BY Zenon, <1>4, CommitEffect
  <2> QED
    BY <1>1, <1>2, <2>1 DEF EvidenceIsCurrent, ReportsOK
<1>5. ASSUME NEW g \in Generations, NEW s \in 1 .. MaxSequence, Heartbeat(g, s)
      PROVE  EvidenceIsCurrent'
  <2> DEFINE seen == [comp EXCEPT !.heartbeat = s, !.seenAge = 0]
  <2>1. seen \in Component /\ seen.heartbeat = s /\ seen.progress = comp.progress
        /\ seen.generation = comp.generation
    BY Zenon, <1>1, Zeros DEF Component
  <2>2. comp' = seen \/ comp' = Transition(seen, "Running", "None")
    BY Zenon, <1>5 DEF Heartbeat
  <2>3. "Running" \in States /\ "None" \in Reasons
    BY Zenon DEF States, Reasons, Monitored
  <2> HIDE DEF seen
  <2>4. comp'.heartbeat = s /\ comp'.progress = comp.progress /\ comp'.generation = comp.generation
    BY <2>1, <2>2, <2>3, TransitionType DEF SameProcess, SameEvidence
  <2>5. g = comp.generation /\ s \in 1 .. beats[g].heartbeat /\ UNCHANGED beats
    BY Zenon, <1>5 DEF Heartbeat, CheckGeneration
  <2> QED
    BY <1>1, <1>2, <2>4, <2>5 DEF EvidenceIsCurrent, ReportsOK
<1>6. ASSUME NEW g \in Generations, NEW s \in 1 .. MaxSequence, Progress(g, s)
      PROVE  EvidenceIsCurrent'
  <2>1. /\ comp'.progress = s /\ comp'.heartbeat = comp.heartbeat
        /\ comp'.generation = comp.generation
    BY Zenon, <1>1, <1>6 DEF Progress, Component
  <2>2. g = comp.generation /\ s \in 1 .. beats[g].progress /\ UNCHANGED beats
    BY Zenon, <1>6 DEF Progress, CheckGeneration
  <2> QED
    BY <1>1, <1>2, <2>1, <2>2 DEF EvidenceIsCurrent, ReportsOK
<1>7. ASSUME \/ Tick
             \/ \E g \in Generations, exceeds \in BOOLEAN :
                  ReportBacklog(g, exceeds) \/ ReportDeadlineMisses(g, exceeds)
      PROVE  comp'.generation = comp.generation /\ SameEvidence(comp', comp)
  BY Zenon, <1>1, <1>7 DEF Tick, ReportBacklog, ReportDeadlineMisses, Component, SameEvidence
<1>8. ASSUME EvaluateApply
      PROVE  comp'.generation = comp.generation /\ SameEvidence(comp', comp)
  <2>1. \/ comp' = comp
        \/ \E state \in States, reason \in Reasons : comp' = Transition(comp, state, reason)
    BY Zenon, <1>8, ApplyTransitions
  <2> QED
    BY <1>1, <2>1, TransitionType DEF SameProcess, SameEvidence
<1>9. ASSUME NEW r \in Recoverers, RecoverReserve(r) \/ Leaves(r)
      PROVE  comp'.generation = comp.generation /\ SameEvidence(comp', comp)
  BY Zenon, <1>9, ReserveEffect, LeavesEffect DEF SameProcess
<1>10. ASSUME \/ UNCHANGED vars
              \/ \E p \in alive : Exit(p)
              \/ \E p \in alive, kind \in {"heartbeat", "progress"} : Report(p, kind)
              \/ EvaluateSnapshot \/ EvaluateProbe
              \/ \E r \in Recoverers :
                   \/ CleanupHook(r) \/ Backoff(r) \/ StartHook(r) \/ CheckStarted(r)
                   \/ ReconnectHook(r) \/ UndoStart(r)
       PROVE  comp'.generation = comp.generation /\ SameEvidence(comp', comp)
  BY Zenon, <1>10 DEF vars, Exit, Report, EvaluateSnapshot, EvaluateProbe, CleanupHook, Backoff,
               StartHook, CheckStarted, ReconnectHook, UndoStart, SameEvidence
<1> QED
  BY Zenon, <1>3, <1>4, <1>5, <1>6, <1>7, <1>8, <1>9, <1>10
     DEF Next, Evaluate, RecoverStep, Leaves

(* A process that a probe found gone never comes back: every start gets a   *)
(* new pid.                                                                 *)
LEMMA ProbeStep ==
  ASSUME TypeOK, BudgetInv, PidInv, ProbeInv, [Next]_vars
  PROVE  ProbeInv'
<1>1. Started \subseteq Started' /\ alive' \cap Started \subseteq alive
  <2>1. CASE Quiet
    BY Zenon, <2>1 DEF Quiet, Started
  <2>2. ASSUME NEW r \in Recoverers, MovesOn(r) PROVE procs' = procs /\ alive' \subseteq alive
    BY Zenon, <2>2 DEF MovesOn, Moves
  <2>3. ASSUME NEW r \in Recoverers, Starts(r)
        PROVE  Started \subseteq Started' /\ alive' \cap Started \subseteq alive
    <3> DEFINE p == Cardinality(Started) + 1
    <3>1. Started' = Started \cup {p} /\ alive' = alive \cup {p}
      BY Zenon, <2>3 DEF Starts, Started
    <3>2. p \notin 1 .. Cardinality(Started)
      BY FS_CardinalityType DEF BudgetInv
    <3>3. p \notin Started
      BY Zenon, <3>2 DEF BudgetInv
    <3> HIDE DEF p
    <3> QED
      BY Zenon, <3>1, <3>3
  <2>4. ASSUME NEW r \in Recoverers, RecoverReserve(r) \/ Leaves(r) \/ RecoverCommit(r)
        PROVE  procs' = procs /\ alive' \subseteq alive
    BY Zenon, <2>4 DEF RecoverReserve, Leaves, RecoverFail, RecoverStale, RecoverCommit
  <2> QED
    BY Zenon, <2>1, <2>2, <2>3, <2>4, StepKinds DEF Started
<1>2. CASE UNCHANGED eval
  BY Zenon, <1>1, <1>2 DEF ProbeInv
<1>3. CASE EvaluateSnapshot
  BY Zenon, <1>1, <1>3 DEF EvaluateSnapshot, NoEval, ProbeInv, PidInv
<1>4. CASE EvaluateProbe
  <2>1. PICK throws \in BOOLEAN :
          eval' = [eval EXCEPT !.at = "apply", !.threw = throws,
                               !.alive = ~throws /\ eval.pid \in alive]
    BY Zenon, <1>4 DEF EvaluateProbe
  <2>2. eval'.probed = eval.probed /\ eval'.pid = eval.pid
        /\ eval'.threw = throws /\ eval'.alive = (~throws /\ eval.pid \in alive)
    BY Zenon, <2>1 DEF TypeOK
  <2>3. alive' = alive
    BY Zenon, <1>4 DEF EvaluateProbe
  <2> QED
    BY Zenon, <1>1, <2>2, <2>3 DEF ProbeInv
<1>5. CASE EvaluateApply
  BY Zenon, <1>5 DEF EvaluateApply, NoEval, ProbeInv
<1> QED
  BY Zenon, <1>2, <1>3, <1>4, <1>5, EvalFrame

(* A component that was just registered satisfies the invariant.           *)
LEMMA InitInv == Init => IInv
<1> SUFFICES ASSUME Init PROVE IInv
  OBVIOUS
<1>1. 1 \in Generations /\ MaxRestartAttempts \in Nat /\ 0 \in 0 .. MaxRestartAttempts
      /\ 0 \in 0 .. MaxGeneration
  BY PolicyAssumption DEF Generations, MaxGeneration
<1>2. "Starting" \in States /\ "None" \in Reasons
  BY Zenon DEF States, Reasons, Monitored
<1>3. comp \in Component
  BY <1>1, <1>2, Zeros DEF Init, Component
<1>4. Started = {1} /\ procs[1] = 1 /\ alive = {1}
  BY Zenon DEF Init, Started
<1>5. ReportsOK /\ EvalOK
  BY Zenon, <1>1 DEF Init, ReportsOK, EvalOK, NoEval
<1>6. /\ rpc \in [Recoverers -> Places] /\ old \in [Recoverers -> 0 .. MaxRestartAttempts]
      /\ pid \in [Recoverers -> Nat] /\ elapsed \in [Recoverers -> 0 .. RecoveryTimeout + 1]
  BY Zenon, <1>1, Zeros DEF Init, Places
<1>7. TypeOK
  BY Zenon, <1>1, <1>3, <1>4, <1>5, <1>6
     DEF TypeOK, Component, States, Reasons, Started, Places, ReportsOK, EvalOK
<1>8. BudgetInv
  <2>1. IsFiniteSet(Started) /\ Cardinality(Started) = 1
    BY Zenon, <1>4, FS_Singleton
  <2>2. Owing = {} /\ Cardinality(Owing) = 0
    <3>1. Owing = {}
      BY Zenon DEF Init, Owing
    <3> QED
      BY Zenon, <3>1, FS_EmptySet
  <2>3. Started = 1 .. 1
    BY <1>4
  <2> QED
    BY <2>1, <2>2, <2>3 DEF Init, BudgetInv
<1>9. PidInv /\ ProbeInv
  BY Zenon, <1>4 DEF Init, PidInv, ProbeInv, NoEval
<1>10. EvidenceIsCurrent
  BY <1>1 DEF Init, EvidenceIsCurrent
<1> QED
  BY Zenon, <1>7, <1>8, <1>9, <1>10 DEF IInv

(* Every step keeps the invariant.                                         *)
LEMMA StepInv == IInv /\ [Next]_vars => IInv'
  BY Zenon, TypeStep, BudgetStep, PidStep, EvidenceStep, ProbeStep DEF IInv

(* However many Recover calls overlap, fail or finish late, the registered  *)
(* process was started for the registered generation, and no more than      *)
(* max_restart_attempts processes are started after the first (Recover's    *)
(* reservation and its commit check).                                       *)
THEOREM RestartsAccountedHolds == Spec => []RestartsAccounted
<1>1. IInv => RestartsAccounted
  <2> SUFFICES ASSUME IInv PROVE RestartsAccounted
    OBVIOUS
  <2>1. Cardinality(Started) \in Nat /\ Cardinality(Owing) \in Nat
    BY Zenon, RecoverersAssumption, FS_Subset, FS_CardinalityType DEF IInv, BudgetInv, Owing
  <2>2. comp.attempts \in 0 .. MaxRestartAttempts /\ MaxRestartAttempts \in Nat
    BY Zenon, CallTypes DEF IInv
  <2>3. Cardinality(Started) <= 1 + MaxRestartAttempts
    BY <2>1, <2>2 DEF IInv, BudgetInv
  <2> QED
    BY Zenon, <2>3 DEF IInv, PidInv, RestartsAccounted, Started
<1> QED
  BY <1>1, InitInv, StepInv, PTL DEF Spec

(* No late or repeated report of an older incarnation counts for the        *)
(* current one (CheckGeneration, and the fields a commit resets).           *)
THEOREM EvidenceIsCurrentHolds == Spec => []EvidenceIsCurrent
<1>1. IInv => EvidenceIsCurrent
  BY Zenon DEF IInv
<1> QED
  BY <1>1, InitInv, StepInv, PTL DEF Spec

(* Evaluate declares an exit only of a process that has ended, although it  *)
(* probes without the lock and a restart may come in between, unless the    *)
(* probe threw.                                                             *)
THEOREM ExitVerdictIsTrueHolds == Spec => ExitVerdictIsTrue
<1> DEFINE Act ==
      (comp.state # "Failed" /\ comp'.state = "Failed" /\ comp'.reason = "ProcessExited")
      => comp.pid \notin alive \/ eval.threw
<1>1. IInv /\ [Next]_vars => [Act]_vars
  <2> SUFFICES ASSUME IInv, [Next]_vars,
                      comp.state # "Failed", comp'.state = "Failed",
                      comp'.reason = "ProcessExited"
               PROVE  comp.pid \notin alive \/ eval.threw
    OBVIOUS
  <2>1. CASE EvaluateApply
    <3>1. ProbeSaysExited /\ eval.at = "apply"
      <4>1. comp \in Component
        BY Zenon, CompType DEF IInv
      <4>2. \A state \in States, reason \in Reasons :
              /\ Transition(comp, state, reason).state = state
              /\ Transition(comp, state, reason).reason = reason
        BY <4>1, TransitionType
      <4>3. {"Failed", "Degraded", "Running"} \subseteq States
        BY Zenon DEF States, Monitored
      <4>4. {"None", "ProcessExited", "RecoveryFailed", "HeartbeatLost", "NoProgress",
             "BacklogExceeded", "DeadlineMissesExceeded"} \subseteq Reasons
        BY Zenon DEF Reasons, FailureReasons, DegradedReasons
      <4> QED
        BY <2>1, <4>2, <4>3, <4>4 DEF EvaluateApply, Judged, Cleared
    <3> QED
      BY Zenon, <3>1 DEF ProbeSaysExited, ProbeMatches, IInv, ProbeInv
  <2>2. CASE ~EvaluateApply
    <3>1. comp \in Component
      BY Zenon, CompType DEF IInv
    <3>2. comp'.state # comp.state /\ comp'.state # "Running" /\ comp' # comp
      OBVIOUS
    <3>3. ASSUME NEW g \in Generations, NEW s \in 1 .. MaxSequence, Heartbeat(g, s) PROVE FALSE
      <4> DEFINE seen == [comp EXCEPT !.heartbeat = s, !.seenAge = 0]
      <4>1. seen \in Component /\ seen.state = comp.state
        BY Zenon, <3>1, Zeros DEF Component
      <4>2. comp' = seen \/ comp' = Transition(seen, "Running", "None")
        BY Zenon, <3>3 DEF Heartbeat
      <4>3. "Running" \in States /\ "None" \in Reasons
        BY Zenon DEF States, Reasons, Monitored
      <4> HIDE DEF seen
      <4> QED
        BY <3>2, <4>1, <4>2, <4>3, TransitionType
    <3>4. ASSUME \/ Tick
                 \/ \E g \in Generations, s \in 1 .. MaxSequence : Progress(g, s)
                 \/ \E g \in Generations, exceeds \in BOOLEAN :
                      ReportBacklog(g, exceeds) \/ ReportDeadlineMisses(g, exceeds)
          PROVE  FALSE
      BY Zenon, <3>1, <3>2, <3>4 DEF Tick, Progress, ReportBacklog, ReportDeadlineMisses, Component
    <3>5. ASSUME NEW r \in Recoverers, RecoverFail(r) PROVE FALSE
      <4>1. "Failed" \in States /\ "RecoveryFailed" \in Reasons
        BY Zenon DEF States, Reasons, FailureReasons
      <4>2. comp' = Transition(comp, "Failed", "RecoveryFailed")
        BY Zenon, <3>2, <3>5 DEF RecoverFail
      <4> QED
        BY <3>1, <4>1, <4>2, TransitionType
    <3>6. ASSUME NEW r \in Recoverers, RecoverReserve(r) PROVE FALSE
      <4>1. "Recovering" \in States /\ comp.reason \in Reasons
        BY Zenon, <3>1 DEF States, Component
      <4>2. /\ Transition(comp, "Recovering", comp.reason) \in Component
            /\ Transition(comp, "Recovering", comp.reason).state = "Recovering"
        BY <3>1, <4>1, TransitionType
      <4>3. comp'.state = "Recovering"
        BY Zenon, <3>6, <4>2 DEF RecoverReserve, Component
      <4> QED
        BY Zenon, <4>3
    <3>7. ASSUME NEW r \in Recoverers, RecoverCommit(r) PROVE FALSE
      <4>1. comp'.state = "Starting"
        BY Zenon, <3>1, <3>7 DEF RecoverCommit, Restarted, Component
      <4> QED
        BY Zenon, <4>1
    <3>8. ASSUME \/ UNCHANGED vars
                 \/ \E p \in alive : Exit(p)
                 \/ \E p \in alive, kind \in {"heartbeat", "progress"} : Report(p, kind)
                 \/ EvaluateSnapshot \/ EvaluateProbe
                 \/ \E r \in Recoverers :
                      \/ CleanupHook(r) \/ Backoff(r) \/ StartHook(r) \/ CheckStarted(r)
                      \/ ReconnectHook(r) \/ UndoStart(r) \/ RecoverStale(r)
          PROVE  FALSE
      BY Zenon, <3>2, <3>8 DEF vars, Exit, Report, EvaluateSnapshot, EvaluateProbe, CleanupHook,
                        Backoff, StartHook, CheckStarted, ReconnectHook, UndoStart, RecoverStale
    <3> QED
      BY Zenon, <2>2, <3>3, <3>4, <3>5, <3>6, <3>7, <3>8 DEF Next, Evaluate, RecoverStep
  <2> QED
    BY Zenon, <2>1, <2>2
<1> QED
  BY <1>1, InitInv, StepInv, PTL DEF Spec, ExitVerdictIsTrue
=============================================================================
