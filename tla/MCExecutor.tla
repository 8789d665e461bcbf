----------------------------- MODULE MCExecutor -----------------------------
(* Instances of Executor for TLC: which tasks there are and how they are   *)
(* configured.                                                             *)
EXTENDS Executor, TLC

CONSTANTS e, a, p

KindOf == [t \in Tasks |-> CASE t = e -> "Event" [] t = a -> "Async"
                             [] t = p -> "Periodic"]
PriorityOf == [t \in Tasks |-> IF t = a THEN 1 ELSE 0]
PeriodOf == [t \in Tasks |-> IF t = p THEN 1 ELSE 0]
DeadlineOf == [t \in Tasks |-> 1]

(* Threads of a kind are interchangeable; used where no liveness is checked. *)
ThreadSymmetry == Permutations(Callers) \cup Permutations(Workers)
=============================================================================
