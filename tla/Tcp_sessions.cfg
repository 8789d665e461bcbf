\* Two connections of a publisher; one session of a subscriber with two
\* publishers in its list; two clients of an RPC server.
SPECIFICATION MCSpec
CONSTANTS
  s1 = s1
  c1 = c1
  Connections = {s1, s2}
  NoSession = NoSession
  Cancellers = {k1}
  MaxSends = 1
  Sessions = {s1}
  Publishers = 2
  MaxReconnections = 1
  Threads = {t1, t2}
  MaxFrames = 2
  MaxCalls = 3
  Clients = {c1, c2}
  NoClient = NoClient
  ListenBacklog = 2
  MaxStarts = 2
  MaxErrors = 1
INVARIANTS
  SessionsSound
  ServerBooks
  StoredWakesThread
PROPERTIES
  
  CanceledIsRemoved
  
  QueuedIsAccepted
CHECK_DEADLOCK FALSE
