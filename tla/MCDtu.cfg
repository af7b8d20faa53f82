\* Two rounds of one reading, in a batch and alone; writes fail at any point and the
\* server dies once.
CONSTANTS
  MaxRounds = 2
  NumChunks = 1
  ChunkSize = 1
  UseBatch = TRUE
  Posts <- OnlyDtu
  NoPost = NoPost
  Kind <- Kinds
  Rows <- Contents
  Body <- Bodies
  DataCap = 1
  MaxCrashes = 1
SPECIFICATION DtuSpec
INVARIANT NoNeedlessDuplicate
