SPECIFICATION FairSpec
CONSTANTS
  Engines = {e1}
  Players = {"ana", "bia"}
  Stream <- WithCompound
  QueueSize = 1
  HighBand = 2
  LowBand = 1
  MaxScore = 2
  Budget <- NoFaults
  None = None
PROPERTY EveryAlertPersisted
