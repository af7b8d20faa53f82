\* A window of one hour; readings come in up to one hour late, or untimed.
CONSTANTS
  NumBoreholes = 2
  NumStations = 2
  Day = 1
  MaxTime = 2
  MaxRows = 2
  MaxDelay = 1
  Untimed = TRUE
  ZeroTime <- LongAgo
SPECIFICATION Spec
INVARIANTS TypeOK TrendReachesLatest BatchSeenWhole StationShowsItsOwn
PROPERTY NeverBackwards
