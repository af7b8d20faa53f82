\* Writes fail at any point and the server dies once.
CONSTANTS
  Posts <- AllPosts
  NoPost = NoPost
  Kind <- Kinds
  Rows <- Contents
  Body <- Bodies
  DataCap = 1
  MaxCrashes = 1
SPECIFICATION FairSpec
INVARIANTS AcceptedIsStored AllOrNothing RefusedLeavesNoTrace
PROPERTY EveryEventProcessed
