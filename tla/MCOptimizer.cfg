\* Two requests, three commands for a channel of two.
CONSTANTS
  MaxRequests = 2
  OptimizeCap = 1
  CommandCap = 2
  NumCommands = 3
  Fitnesses <- ThreePlans
  PopulationSize = 3
  EliteCount = 1
  MaxGenerations = 4
  StagnationLimit = 2
  DbFails = TRUE
SPECIFICATION FairSpec
INVARIANTS BestIsBest RecordedIsDispatched
PROPERTY RunEnds
