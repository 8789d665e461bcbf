\* Evaluate probes the dead process while its recovery is under way.
SPECIFICATION Spec
CONSTANTS
  r1 = r1
  Recoverers = {r1}
  HeartbeatTimeout = 1
  NoProgressTimeout = 1
  RecoveryTimeout = 1
  MaxRestartAttempts = 1
  MaxSequence = 1
INVARIANT HooksSucceedMeansCommit
