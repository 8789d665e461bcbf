\* One asynchronous callback is set and the subscriber cancelled.
SPECIFICATION FairSpec
CONSTANTS
  Sessions = {s1}
  Publishers = 1
  MaxReconnections = 0
  Threads = {t1}
  MaxFrames = 1
  MaxCalls = 2
PROPERTY CancelReturns
CHECK_DEADLOCK FALSE
