SPECIFICATION Spec
SYMMETRY ClientsAlike
CHECK_DEADLOCK FALSE
CONSTANTS
  good = good
  card = card
  odd = odd
  wrong = wrong
  broken = broken
  fresh = fresh
  Records <- AllRecords
  Kind <- KindOf
  Fresh = fresh
  Clients = {c1, c2}
  MaxRequests = 3
  MaxFaults = 1
  QueueSize = 1
  Contents <- Payloads
  Handed = TRUE
  MaxJobs = 2
  None = None
INVARIANT ReplaysSound
INVARIANT JobsAccounted
INVARIANT QueuedIsPublished
INVARIANT NobodyForgets
