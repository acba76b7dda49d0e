CONSTANTS
  NumClients = 2
  RangeLen = 2
  MaxTip = 4
  MaxMisses = 1
  MaxLine = 3
SPECIFICATION FairSpec
INVARIANTS SyncInv FollowsPeers UpToDate StoppedIsOff
PROPERTIES SyncCompletes
CHECK_DEADLOCK FALSE
