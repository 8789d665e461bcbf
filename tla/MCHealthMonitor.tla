--------------------------- MODULE MCHealthMonitor ---------------------------
(***************************************************************************)
(* Instances of HealthMonitor for TLC.  A behaviour has either late and    *)
(* repeated reports with one Recover call at a time and one restart, or    *)
(* two overlapping Recover calls and no heartbeat or progress report.      *)
(***************************************************************************)
EXTENDS HealthMonitor

CONSTANT r2      \* the recoverer that has no part in the first kind

VARIABLE stress  \* what this behaviour has: "reports" or "recoveries"

MCInit == Init /\ stress \in {"reports", "recoveries"}

MCNext ==
  /\ Next /\ UNCHANGED stress
  /\ stress = "reports" => rpc'[r2] = rpc[r2] /\ comp'.attempts <= 1
  /\ stress = "recoveries" => UNCHANGED beats

MCSpec ==
  /\ MCInit /\ [][MCNext]_<<vars, stress>>
  /\ WF_vars(Tick) /\ WF_vars(Evaluate)

(* No stall and no recovery goes unnoticed by Evaluate.  With reports, a    *)
(* component that stops advancing its progress leaves the healthy states,   *)
(* although its process runs and its last reports are repeated for ever;    *)
(* with recoveries, none lasts for ever, even when a hook never returns.    *)
EvaluateNotices ==
  []<>(comp.state \notin (IF stress = "reports" THEN Monitored ELSE {"Recovering"}))
=============================================================================
