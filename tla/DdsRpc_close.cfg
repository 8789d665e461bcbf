\* Three callers on two participants, one of which is closed.
CONSTANTS
  c1 = c1
  c2 = c2
  p1 = p1
  p2 = p2
  Participants = {p1, p2}
  Callers = {c1, c2, c3}
  Home <- HomeOf
  FiniteCallers = {c1}
  Closing = {p1}
  MaxRequests <- RequestBound
SPECIFICATION FairSpec
CHECK_DEADLOCK FALSE
INVARIANTS
  PendingIsLive
  OwnResponse
  NoWriteAfterDelete
PROPERTIES
  CloseReleasesCallers
