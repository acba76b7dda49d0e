CONSTANTS
  MaxConns = 3
  MaxCalls = 3
SPECIFICATION FairSpec
INVARIANTS ConnInv NoSocketLost PendingIsLive OpenWasAccepted
PROPERTIES StopIsDone Reconnects EveryCallEnds
CHECK_DEADLOCK FALSE
