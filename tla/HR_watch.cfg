SPECIFICATION FairHSpec
CONSTANTS
  Nodes = {n1, n2}
  n1 = n1
  n2 = n2
  Fds = {1, 2, 3}
  None = None
  Other = Other
  Rescan = 10
  RemoveTimeout = 12
  Backoff = 4
  MaxRenumbers = 2
  MaxFailures = 1
INVARIANTS
  SoundReaders
PROPERTIES
  NeverRemovedInUse
  ReportsController
