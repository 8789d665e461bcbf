\* Two subscriptions and two callers of each transport (FastIPC: one endpoint
\* of one slot and two publishers), a file of two records and two readers.
SPECIFICATION MCSpec
CONSTANTS
  c1 = c1
  r1 = r1
  Subs = {s1, s2}
  Callers = {c1, c2}
  NoCaller = NoCaller
  MaxPublished = 2
  Services = {v1, v2}
  Names = {n1}
  MaxRequests = 1
  Endpoints = {s1}
  Publishers = {p1, p2}
  Slots = 1
  MaxCalls = 2
  MaxErrors = 1
  MaxMessages = 3
  Readers = {r1, r2}
  MaxRecords = 2
  MaxResets = 1
INVARIANTS
  
  DamageIsFatal
  PublishedIsRecorded
PROPERTIES
  TransportsDeliver
  CallsReturn
CHECK_DEADLOCK FALSE
