---------------------------- MODULE HealthMonitor ----------------------------
(***************************************************************************)
(* health/src/health_monitor.cpp: the health record of one component, the  *)
(* reports about it, the periodic Evaluate and concurrent Recover calls.   *)
(* The monitor keeps one record per component name and no operation        *)
(* relates two of them, so one record is enough.                           *)
(*                                                                         *)
(* An action is one critical section of impl_->mutex, or one probe or hook *)
(* call made between two of them.  Only differences of time points are     *)
(* compared: the record carries ages that saturate just above the timeout  *)
(* they are compared with.  The hooks and the processes they manage belong *)
(* to the application: start creates a process, cleanup ends those of one  *)
(* generation, and any of them may fail.                                   *)
(***************************************************************************)
EXTENDS Integers, FiniteSets

CONSTANTS
  Recoverers,          \* threads that call Recover
  HeartbeatTimeout, NoProgressTimeout, RecoveryTimeout,   \* HealthPolicy
  MaxRestartAttempts,
  MaxSequence          \* bound: reports of one generation

ASSUME PolicyAssumption ==      \* ValidPolicy
  /\ HeartbeatTimeout \in Nat \ {0}
  /\ NoProgressTimeout \in Nat \ {0}
  /\ RecoveryTimeout \in Nat \ {0}
  /\ MaxRestartAttempts \in Nat \ {0}
ASSUME SequenceAssumption == MaxSequence \in Nat
ASSUME RecoverersAssumption == IsFiniteSet(Recoverers)

VARIABLES
  comp,       \* the ComponentHealth
  procs,      \* processes ever started: pid -> generation, pids from 1
  alive,      \* the pids that still run
  beats,      \* heartbeats and progress reports issued, per generation
  eval,       \* the thread in Evaluate: where it is and its ProbeResult
  rpc,        \* where each Recover call is
  old,        \* its old_generation
  pid,        \* the pid its start hook returned
  elapsed     \* time since its recovery_started

callVars == <<rpc, old, pid, elapsed>>
vars == <<comp, procs, alive, beats, eval, callVars>>

MaxGeneration == MaxRestartAttempts + 1
Generations == 1 .. MaxGeneration

Monitored == {"Starting", "Running", "Degraded"}
FailureReasons == {"HeartbeatLost", "ProcessExited", "NoProgress", "RecoveryFailed"}
DegradedReasons == {"BacklogExceeded", "DeadlineMissesExceeded"}

Older(age, timeout) == IF age <= timeout THEN age + 1 ELSE age

-----------------------------------------------------------------------------
(* Faulty variants of the definitions below.  No action uses them: each is *)
(* a plausible slip in the code that breaks one of the properties.         *)
GenerationUnchecked(g) == TRUE
ProbeMatchesUnchecked == TRUE
CommitKeepsPid(c, g, p) ==
  [c EXCEPT !.state = "Starting", !.reason = "None", !.generation = g,
            !.heartbeat = 0, !.progress = 0,
            !.seenAge = 0, !.progAge = 0, !.transAge = 0,
            !.backlog = FALSE, !.misses = FALSE]
ProgressRepeats(s) == s >= comp.progress

-----------------------------------------------------------------------------
(* TransitionLocked; detail strings follow from state and reason.          *)
Transition(c, state, reason) ==
  IF c.state = state /\ c.reason = reason THEN c
  ELSE [c EXCEPT !.state = state, !.reason = reason, !.transAge = 0]

CheckGeneration(g) == g = comp.generation

(* HealthPolicy comparisons, TimedOut.                                     *)
HeartbeatTimedOut == comp.seenAge > HeartbeatTimeout
ProgressTimedOut == comp.progAge > NoProgressTimeout
RecoveryTimedOut == comp.transAge > RecoveryTimeout

BudgetLeft == comp.attempts < MaxRestartAttempts
ProgressAdvances(s) == s > comp.progress

(* The answer of the probe concerns the process registered now, and says   *)
(* that it is gone.                                                        *)
ProbeMatches == eval.pid = comp.pid /\ eval.generation = comp.generation
ProbeSaysExited == eval.probed /\ ProbeMatches /\ ~eval.alive

(* "degradation signals cleared"                                           *)
Cleared(c) == Transition(c, "Running", "None")

(* What Evaluate makes of a record that is neither failed nor recovering.  *)
Judged(c) ==
  IF HeartbeatTimedOut THEN Transition(c, "Failed", "HeartbeatLost")
  ELSE IF ProgressTimedOut THEN Transition(c, "Failed", "NoProgress")
  ELSE IF c.backlog THEN Transition(c, "Degraded", "BacklogExceeded")
  ELSE IF c.misses THEN Transition(c, "Degraded", "DeadlineMissesExceeded")
  ELSE IF c.state = "Degraded" THEN Cleared(c)
  ELSE c

(* The record a successful recovery leaves.                                *)
Restarted(c, g, p) ==
  [c EXCEPT !.state = "Starting", !.reason = "None", !.generation = g, !.pid = p,
            !.heartbeat = 0, !.progress = 0,
            !.seenAge = 0, !.progAge = 0, !.transAge = 0,
            !.backlog = FALSE, !.misses = FALSE]

MayCommit(r) == comp.generation = old[r] /\ comp.state = "Recovering"

ProcessesOf(g) == {p \in DOMAIN procs : procs[p] = g}

-----------------------------------------------------------------------------
NoEval == [at |-> "idle", probed |-> FALSE, pid |-> 0, generation |-> 0,
           alive |-> TRUE, threw |-> FALSE]

(* The record that Register stores for a process of generation 1.          *)
Init ==
  /\ comp = [state |-> "Starting", reason |-> "None", generation |-> 1, pid |-> 1,
             heartbeat |-> 0, progress |-> 0, seenAge |-> 0, progAge |-> 0,
             transAge |-> 0, backlog |-> FALSE, misses |-> FALSE, attempts |-> 0]
  /\ procs = [p \in {1} |-> 1]
  /\ alive = {1}
  /\ beats = [g \in Generations |-> [heartbeat |-> 0, progress |-> 0]]
  /\ eval = NoEval
  /\ rpc = [r \in Recoverers |-> "idle"]
  /\ old = [r \in Recoverers |-> 0]
  /\ pid = [r \in Recoverers |-> 0]
  /\ elapsed = [r \in Recoverers |-> 0]

(* Ages advance in the states in which something compares them.            *)
Tick ==
  /\ comp' = CASE comp.state \in Monitored ->
                    [comp EXCEPT !.seenAge = Older(@, HeartbeatTimeout),
                                 !.progAge = Older(@, NoProgressTimeout)]
              [] comp.state = "Recovering" ->
                    [comp EXCEPT !.transAge = Older(@, RecoveryTimeout)]
              [] OTHER -> comp
  /\ elapsed' = [r \in Recoverers |->
                   IF rpc[r] = "idle" THEN 0 ELSE Older(elapsed[r], RecoveryTimeout)]
  /\ UNCHANGED <<procs, alive, beats, eval, rpc, old, pid>>

Exit(p) ==
  /\ p \in alive
  /\ alive' = alive \ {p}
  /\ UNCHANGED <<comp, procs, beats, eval, callVars>>

(* A running process issues its next heartbeat or progress report; when    *)
(* and how often the report reaches the monitor is left open.              *)
Report(p, kind) ==
  /\ p \in alive
  /\ beats[procs[p]][kind] < MaxSequence
  /\ beats' = [beats EXCEPT ![procs[p]][kind] = @ + 1]
  /\ UNCHANGED <<comp, procs, alive, eval, callVars>>

-----------------------------------------------------------------------------
(* Reports                                                                 *)

Heartbeat(g, s) ==
  /\ s \in 1 .. beats[g].heartbeat
  /\ CheckGeneration(g)
  /\ s >= comp.heartbeat
  /\ LET seen == [comp EXCEPT !.heartbeat = s, !.seenAge = 0]
     IN comp' = IF comp.state = "Starting" THEN Transition(seen, "Running", "None") ELSE seen
  /\ UNCHANGED <<procs, alive, beats, eval, callVars>>

Progress(g, s) ==
  /\ s \in 1 .. beats[g].progress
  /\ CheckGeneration(g)
  /\ ProgressAdvances(s)
  /\ comp' = [comp EXCEPT !.progress = s, !.progAge = 0]
  /\ UNCHANGED <<procs, alive, beats, eval, callVars>>

(* ReportBacklog and ReportDeadlineMisses; only the comparison with the    *)
(* policy bound is kept of the number.                                     *)
ReportBacklog(g, exceeds) ==
  /\ CheckGeneration(g)
  /\ comp' = [comp EXCEPT !.backlog = exceeds]
  /\ UNCHANGED <<procs, alive, beats, eval, callVars>>

ReportDeadlineMisses(g, exceeds) ==
  /\ CheckGeneration(g)
  /\ comp' = [comp EXCEPT !.misses = exceeds]
  /\ UNCHANGED <<procs, alive, beats, eval, callVars>>

-----------------------------------------------------------------------------
(* Evaluate                                                                *)

EvaluateSnapshot ==
  /\ eval.at = "idle"
  /\ eval' = IF comp.pid > 0 /\ comp.state # "Failed"
               THEN [at |-> "probe", probed |-> TRUE, pid |-> comp.pid,
                     generation |-> comp.generation, alive |-> TRUE, threw |-> FALSE]
               ELSE [NoEval EXCEPT !.at = "apply"]
  /\ UNCHANGED <<comp, procs, alive, beats, callVars>>

(* The probe runs without the lock; one that throws counts as "exited".    *)
EvaluateProbe ==
  /\ eval.at = "probe"
  /\ \E throws \in BOOLEAN :
       eval' = [eval EXCEPT !.at = "apply", !.threw = throws,
                            !.alive = ~throws /\ eval.pid \in alive]
  /\ UNCHANGED <<comp, procs, alive, beats, callVars>>

EvaluateApply ==
  /\ eval.at = "apply"
  /\ eval' = NoEval
  /\ comp' = IF comp.state = "Failed" THEN comp
             ELSE IF ProbeSaysExited THEN Transition(comp, "Failed", "ProcessExited")
             ELSE IF comp.state = "Recovering"
               THEN IF RecoveryTimedOut THEN Transition(comp, "Failed", "RecoveryFailed") ELSE comp
             ELSE Judged(comp)
  /\ UNCHANGED <<procs, alive, beats, callVars>>

-----------------------------------------------------------------------------
(* Recover                                                                 *)

Goto(r, from, to) == rpc[r] = from /\ rpc' = [rpc EXCEPT ![r] = to]

(* The call returns and its local variables are gone.                      *)
Return(r, from) ==
  /\ Goto(r, from, "idle")
  /\ old' = [old EXCEPT ![r] = 0]
  /\ pid' = [pid EXCEPT ![r] = 0]
  /\ elapsed' = [elapsed EXCEPT ![r] = 0]

RecoverReserve(r) ==
  /\ Goto(r, "idle", "cleanup")
  /\ comp.state = "Failed"
  /\ BudgetLeft
  /\ comp' = [Transition(comp, "Recovering", comp.reason) EXCEPT !.attempts = @ + 1]
  /\ old' = [old EXCEPT ![r] = comp.generation]
  /\ elapsed' = [elapsed EXCEPT ![r] = 0]
  /\ UNCHANGED <<procs, alive, beats, eval, pid>>

CleanupHook(r) ==
  /\ \/ Goto(r, "cleanup", "backoff") /\ alive' = alive \ ProcessesOf(old[r])
     \/ Goto(r, "cleanup", "fail") /\ UNCHANGED alive
  /\ UNCHANGED <<comp, procs, beats, eval, old, pid, elapsed>>

(* The two deadline checks around the backoff: the caller's deadline may   *)
(* have any value, recovery_timeout must not have passed.                  *)
Backoff(r) ==
  /\ \/ Goto(r, "backoff", "start") /\ elapsed[r] <= RecoveryTimeout
     \/ Goto(r, "backoff", "fail")
  /\ UNCHANGED <<comp, procs, alive, beats, eval, old, pid, elapsed>>

StartHook(r) ==
  /\ LET p == Cardinality(DOMAIN procs) + 1
     IN \/ /\ Goto(r, "start", "started")
           /\ procs' = [q \in DOMAIN procs \cup {p} |-> IF q = p THEN old[r] + 1 ELSE procs[q]]
           /\ alive' = alive \cup {p}
           /\ pid' = [pid EXCEPT ![r] = p]
        \/ Goto(r, "start", "fail") /\ UNCHANGED <<procs, alive, pid>>
  /\ UNCHANGED <<comp, beats, eval, old, elapsed>>

(* The deadline checks after start; too late means cleanup of the new      *)
(* generation and failure.                                                 *)
CheckStarted(r) ==
  /\ \/ Goto(r, "started", "reconnect") /\ elapsed[r] <= RecoveryTimeout
     \/ Goto(r, "started", "undo")
  /\ UNCHANGED <<comp, procs, alive, beats, eval, old, pid, elapsed>>

ReconnectHook(r) ==
  /\ Goto(r, "reconnect", "commit") \/ Goto(r, "reconnect", "undo")
  /\ UNCHANGED <<comp, procs, alive, beats, eval, old, pid, elapsed>>

(* cleanup(name, new_generation), whose result is ignored.                 *)
UndoStart(r) ==
  /\ Goto(r, "undo", "fail")
  /\ alive' \in {alive, alive \ ProcessesOf(old[r] + 1)}
  /\ UNCHANGED <<comp, procs, beats, eval, old, pid, elapsed>>

(* The fail lambda: it asks only for the generation.                       *)
RecoverFail(r) ==
  /\ Return(r, "fail")
  /\ comp' = IF comp.generation = old[r] THEN Transition(comp, "Failed", "RecoveryFailed")
             ELSE comp
  /\ UNCHANGED <<procs, alive, beats, eval>>

RecoverCommit(r) ==
  /\ Return(r, "commit")
  /\ MayCommit(r)
  /\ comp' = Restarted(comp, old[r] + 1, pid[r])
  /\ UNCHANGED <<procs, alive, beats, eval>>

(* StaleGeneration, "component changed during recovery".                   *)
RecoverStale(r) ==
  /\ Return(r, "commit")
  /\ ~MayCommit(r)
  /\ UNCHANGED <<comp, procs, alive, beats, eval>>

-----------------------------------------------------------------------------
Evaluate == EvaluateSnapshot \/ EvaluateProbe \/ EvaluateApply

RecoverStep(r) ==
  \/ CleanupHook(r) \/ Backoff(r) \/ StartHook(r) \/ CheckStarted(r)
  \/ ReconnectHook(r) \/ UndoStart(r) \/ RecoverFail(r) \/ RecoverCommit(r)
  \/ RecoverStale(r)

Next ==
  \/ Tick
  \/ \E p \in alive : Exit(p)
  \/ \E p \in alive, kind \in {"heartbeat", "progress"} : Report(p, kind)
  \/ \E g \in Generations, s \in 1 .. MaxSequence : Heartbeat(g, s) \/ Progress(g, s)
  \/ \E g \in Generations, exceeds \in BOOLEAN :
       ReportBacklog(g, exceeds) \/ ReportDeadlineMisses(g, exceeds)
  \/ Evaluate
  \/ \E r \in Recoverers : RecoverReserve(r) \/ RecoverStep(r)

Spec == Init /\ [][Next]_vars

(* Time passes and the monitoring thread keeps calling Evaluate.  Nothing  *)
(* is assumed of the hooks: a Recover call may hang in any of them.        *)
FairSpec == Spec /\ WF_vars(Tick) /\ WF_vars(Evaluate)

-----------------------------------------------------------------------------
(* Types; the attempts counter and every age stay within their policy.     *)
TypeOK ==
  /\ comp \in [state : Monitored \cup {"Failed", "Recovering"},
               reason : {"None"} \cup FailureReasons \cup DegradedReasons,
               generation : Generations, pid : Nat \ {0},
               heartbeat : Nat, progress : Nat,
               seenAge : 0 .. HeartbeatTimeout + 1,
               progAge : 0 .. NoProgressTimeout + 1,
               transAge : 0 .. RecoveryTimeout + 1,
               backlog : BOOLEAN, misses : BOOLEAN,
               attempts : 0 .. MaxRestartAttempts]
  /\ alive \subseteq DOMAIN procs
  /\ \A p \in DOMAIN procs : procs[p] \in Generations
  /\ beats \in [Generations -> [heartbeat : Nat, progress : Nat]]
  /\ eval \in [at : {"idle", "probe", "apply"}, probed : BOOLEAN, pid : Nat,
               generation : 0 .. MaxGeneration, alive : BOOLEAN, threw : BOOLEAN]
  /\ rpc \in [Recoverers -> {"idle", "cleanup", "backoff", "start", "started",
                             "reconnect", "undo", "commit", "fail"}]
  /\ old \in [Recoverers -> 0 .. MaxRestartAttempts]
  /\ pid \in [Recoverers -> Nat]
  /\ elapsed \in [Recoverers -> 0 .. RecoveryTimeout + 1]

(* The sequence numbers in the record were issued by the current           *)
(* generation: no late report of an older incarnation counts for it, and   *)
(* none is carried over a restart.                                         *)
EvidenceIsCurrent ==
  /\ comp.heartbeat <= beats[comp.generation].heartbeat
  /\ comp.progress <= beats[comp.generation].progress

(* The types, and, however recoveries overlap, fail and finish late: the   *)
(* registered process is one that was started for the registered           *)
(* generation, and the component is started at most max_restart_attempts   *)
(* times.                                                                  *)
RestartsAccounted ==
  /\ TypeOK
  /\ comp.pid \in DOMAIN procs /\ procs[comp.pid] = comp.generation
  /\ Cardinality(DOMAIN procs) <= 1 + MaxRestartAttempts

(* A component that is up fails only for its own sake: ProcessExited is    *)
(* never the verdict while the registered process runs, although the probe *)
(* was made without the lock and a restart may have come in between.  Only *)
(* a probe that throws is taken for an exit without being one.             *)
ExitVerdictIsTrue ==
  [][ (comp.state # "Failed" /\ comp'.state = "Failed" /\ comp'.reason = "ProcessExited")
      => comp.pid \notin alive \/ eval.threw ]_vars

-----------------------------------------------------------------------------
(* What the documentation says, and the code does not do.                  *)

(* A recovery whose hooks all succeed within recovery_timeout, and that    *)
(* nobody else interferes with, still finds the component Recovering.      *)
HooksSucceedMeansCommit ==
  \A r \in Recoverers :
    rpc[r] = "commit" /\ elapsed[r] <= RecoveryTimeout => comp.state = "Recovering"
=============================================================================
