SPECIFICATION Spec
CONSTANTS
  Workers = {w1, w2}
  Systems = {"sysA"}
  Ids = {"e1", "e2"}
  Topics <- TxnTopics
  Inputs <- WithGarbage
  MaxInputs = 2
  Budget <- AllFaults
  None = None
INVARIANT HandledOnce
PROPERTY ImplementsLedger
INVARIANT NothingLost
INVARIANT FewLost
PROPERTY ImplementsDelivery
