\* Two clients; three broadcasts, of which the second cannot be marshalled.
SPECIFICATION FairSpec
CONSTANTS
  Clients = {c1, c2}
  MaxMessages = 3
  Unmarshalable <- SecondMessage
  BroadcastCap = 1
  SendCap = 1
INVARIANT NoPanic
INVARIANT NoGaps
INVARIANT CutOffIsPrefix
PROPERTY ClientsCleanedUp
PROPERTY EvictedIsCutOff
PROPERTY EveryBroadcastTaken
