CONSTANT Procs = {p1, p2, p3, p4}
SPECIFICATION FairSpec
INVARIANTS
  LockInv
  MutualExclusion
PROPERTIES
  NoBarging
  EveryCallerRuns
  ImplementsFifoMutex
