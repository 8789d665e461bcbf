\* One Recover caller at a time with late and repeated reports, or two
\* overlapping ones with none.
SPECIFICATION MCSpec
CONSTANTS
  r2 = r2
  Recoverers = {r1, r2}
  HeartbeatTimeout = 1
  NoProgressTimeout = 1
  RecoveryTimeout = 1
  MaxRestartAttempts = 2
  MaxSequence = 1
INVARIANTS RestartsAccounted EvidenceIsCurrent
PROPERTIES ExitVerdictIsTrue EvaluateNotices
