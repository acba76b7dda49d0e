SPECIFICATION Spec
CONSTANTS
  Payloads = {g, x, y}
  Founding = {g}
  Bonding = {g, x}
  Env = {"crash", "sync"}
  BondFee = 5
  FlushOps = 2
  MaxHeight = 2
  MaxLog = 5
  MaxFaults = 2
INVARIANTS
  IndexIsChain
  AnnouncedSurvives
  BalancesCoverChain
  SupplyWithinChain
PROPERTIES
  ImplementsLedger
CHECK_DEADLOCK FALSE
