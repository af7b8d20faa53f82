\* Two plans of which one is kept, two generations after the first.
CONSTANTS
  Layouts <- OneOrTwoStations
  Score <- MeanConcentration
  Scores <- MeanConcentrations
  NaN = NaN
  PumpMin = 1
  PumpMax = 2
  ValveMin = 0
  ValveMax = 1
  Steps <- UpAndDown
  PopulationSize = 2
  EliteCount = 1
  MaxGenerations = 3
  StagnationLimit = 2
SPECIFICATION Spec
INVARIANTS TypeOK ScoreIsCurrent CommandedAsScored
PROPERTY ImplementsOptimizer
\* A search ends.
CHECK_DEADLOCK FALSE
