\* Two commands to two devices, fair scheduling, one connection loss.
SPECIFICATION FairSpec
CONSTANTS
  MaxCommands = 2
  Targets = {1, 2}
  TargetOf <- OwnTarget
  NetCap = 1
  FbCap = 1
  MaxTroubles = 1
  PlcMayCrash = FALSE
  QueueCap = 1
  MaxRetries = 1
  AckTimeout = 1
  RetryDelay = 0
  MaxLatency = 0
  DbFails = FALSE
INVARIANT AckMeansExecuted
PROPERTY EveryCommandFinishes
