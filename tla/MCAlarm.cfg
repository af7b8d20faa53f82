\* A statement that fails, or a server that dies.
CONSTANTS
  Boreholes <- SameId
  Stations <- SameId
  Pressures = {10, 20}
  LowWindow = 2
  PresWindow = 3
  MaxDelay = 1
  MaxReports = 3
  MaxTime = 3
  MaxTroubles = 1
SPECIFICATION FairSpec
INVARIANTS TypeOK AlertsApart AnnouncedIsStored
PROPERTIES AlertIsFounded CauseIsAlerted
