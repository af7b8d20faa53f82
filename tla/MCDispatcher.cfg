\* Two commands to one device, slow statements and publications, and either a lost
\* connection or a death of the PLC.
SPECIFICATION Spec
CONSTANTS
  MaxCommands = 2
  Targets = {1}
  TargetOf <- OneTarget
  NetCap = 2
  FbCap = 1
  MaxTroubles = 1
  PlcMayCrash = TRUE
  QueueCap = 1
  MaxRetries = 1
  AckTimeout = 1
  RetryDelay = 1
  MaxLatency = 1
  DbFails = FALSE
INVARIANTS PendingIsCurrent AckFromTarget RetryBudget AwaitTracked
PROPERTIES ImplementsLedger AckIsFinal SettingInOrder
