\* The limits are those of the code, in seconds.
CONSTANTS
  Singles <- OneSingle
  Batches <- OneBatch
  DataCap = 1
SPECIFICATION FairSpec
INVARIANTS TypeOK CutOnlyLate
PROPERTY Exits
\* The server has ended.
CHECK_DEADLOCK FALSE
