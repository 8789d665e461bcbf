\* Three nodes; the member table and the fence table are smaller than that.
SPECIFICATION FairSpec
CONSTANTS
  n1 = n1
  n2 = n2
  n3 = n3
  Nodes = {n1, n2, n3}
  LeaseTimeout = 1
  FenceTimeout = 2
  MaxMembers = 2
  MaxGenerationFences = 1
  Restarting = {n1}
  MaxGeneration = 2
  MaxAnnouncements = 3
INVARIANT TablesConsistent
PROPERTIES NoEarlyResurrection ImplementsLease SilentNodeExpires
