SPECIFICATION Spec
CONSTANTS
  good = good
  card = card
  odd = odd
  wrong = wrong
  broken = broken
  fresh = fresh
  Records <- AllRecords
  Kind <- KindOf
  Fresh = fresh
  Clients = {c1}
  MaxRequests = 2
  MaxFaults = 0
  QueueSize = 1
  Contents <- Payloads
  MaxJobs = 1
  Handed = FALSE
  None = None
INVARIANT JobsAreWorkedOff
CHECK_DEADLOCK FALSE
