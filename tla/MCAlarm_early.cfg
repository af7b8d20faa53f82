\* Nothing fails: a first low reading is enough.
CONSTANTS
  Boreholes <- SameId
  Stations <- SameId
  Pressures = {10, 20}
  LowWindow = 2
  PresWindow = 3
  MaxDelay = 1
  MaxReports = 3
  MaxTime = 3
  MaxTroubles = 0
SPECIFICATION Spec
PROPERTIES AlertMeansLasting
