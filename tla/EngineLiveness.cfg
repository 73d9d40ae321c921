SPECIFICATION FairSpec
CONSTANTS
  Engines = {e1}
  Players = {"ana", "bia"}
  Stream <- Busy
  QueueSize = 1
  HighBand = 2
  LowBand = 1
  MaxScore = 2
  Budget <- PublishOrRebalance
  None = None
INVARIANT OneActiveCase
PROPERTY EveryAlertPersisted
