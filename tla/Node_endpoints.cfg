\* A group queue of one place, which another task may fill.
SPECIFICATION MCSpec
CONSTANTS
  Workers = {w1, w2}
  GroupCapacity = 1
  MaxOthers = 1
  QueueCapacity = 2
  OverflowPolicies = {"DropNewest", "DropOldest"}
  MaxMessages = 4
  Receivers = {c1, c2}
  FiniteCallers = {c1}
  CallCapacity = 2
  MaxCalls = 3
INVARIANTS
  SerialInOrder
  MessagesAccounted
  AnswersAreTrue
PROPERTIES
  BacklogIsServed
  InvokeReturns
CHECK_DEADLOCK FALSE
