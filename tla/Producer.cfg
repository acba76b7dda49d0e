SPECIFICATION FairSpec
CONSTANTS
  NumBonds = 2
  Self = 0
  ProdTime = 2
  MaxTime = 6
  MaxQueue = 3
  MaxStorm = 2
  MaxAhead = 1
  NoTimer = NoTimer
INVARIANTS
  ProducerInv
  NeverStalls
  StoppedIsQuiet
PROPERTIES
  BlocksAreSpaced
  StopIsServed
CHECK_DEADLOCK FALSE
