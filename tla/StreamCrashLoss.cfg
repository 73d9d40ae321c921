SPECIFICATION Spec
CONSTANTS
  Workers = {w1}
  Systems = {"sysA"}
  Ids = {"e1", "e2"}
  Topics <- TxnTopics
  Inputs <- TxnInputs
  MaxInputs = 2
  Budget <- CrashFaults
  None = None
INVARIANT CommitSafe
