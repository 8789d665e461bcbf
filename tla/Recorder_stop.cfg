\* Either policy, two producers over a queue of one, a timed and an untimed Stop.
SPECIFICATION FairSpec
CONSTANTS
  p1 = p1
  p2 = p2
  s1 = s1
  s2 = s2
  NoThread = NoThread
  Producers = {p1, p2}
  Stoppers = {s1, s2}
  FiniteStoppers = {s1}
  QueueCapacity = 1
  OverflowPolicies = {"Block", "DropNewest"}
  MaxRecords = 3
  MaxTime = 1
INVARIANTS Conservation FileReplayable StopOkMeansDurable
PROPERTIES CallsReturn ImplementsTraceLog
CHECK_DEADLOCK FALSE
