SPECIFICATION Spec
CONSTANTS
  Payloads = {g, x, y}
  Founding = {g}
  Bonding = {g, x}
  Env = {"crash", "sync", "reindex"}
  BondFee = 5
  FlushOps = 2
  MaxHeight = 2
  MaxLog = 5
  MaxFaults = 2
INVARIANTS
  LedgerInv
  IndexMatchesReplay
PROPERTIES
  ReindexRepairs
CHECK_DEADLOCK FALSE
