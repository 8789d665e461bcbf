CONSTANTS
  Workers = {w1,w2}
  Receivers = {r1}
  GroupCapacity = 1
  MaxOthers = 1
  QueueCapacity = 2
  OverflowPolicies = {"DropNewest"}
  MaxMessages = 4
SPECIFICATION Spec
CHECK_DEADLOCK FALSE
INVARIANT
  BacklogIsRescheduled
