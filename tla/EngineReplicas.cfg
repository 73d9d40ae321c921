SPECIFICATION Spec
CONSTANTS
  Engines = {e1, e2}
  Players = {"ana", "bia"}
  Stream <- Shared
  QueueSize = 1
  HighBand = 2
  LowBand = 1
  MaxScore = 2
  Budget <- CrashOrWrite
  None = None
INVARIANT EngineSound
INVARIANT RiskCoversAlerts
PROPERTY ImplementsHandover
