SPECIFICATION Spec
SYMMETRY Alike
CHECK_DEADLOCK FALSE
CONSTANTS
  Types = {"ANOMALY", "STRUCTURING", "NETWORK"}
  Callers = {c1, c2}
  Replicas = {r1}
  Threads = {t1}
  Settings <- Environments
  Imports <- ByHand
  Measured = {"missing"}
  MaxModels = 3
  MaxCalls = 3
  None = None
INVARIANT RegistrySound
PROPERTY LifecycleSteps
INVARIANT CacheCurrent
