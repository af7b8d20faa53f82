\* Two commands to one device, no connection loss.
SPECIFICATION Spec
CONSTANTS
  MaxCommands = 2
  Targets = {1}
  TargetOf <- OneTarget
  NetCap = 2
  FbCap = 2
  MaxTroubles = 0
  PlcMayCrash = FALSE
  QueueCap = 1
  MaxRetries = 1
  AckTimeout = 1
  RetryDelay = 1
  MaxLatency = 0
  DbFails = TRUE
INVARIANT AckMeansExecutedUntilShutdown
