SPECIFICATION Spec
CONSTANTS
  Payloads = {g, x, y}
  Founding = {g}
  Bonding = {g, x}
  Env = {"crash"}
  BondFee = 5
  FlushOps = 2
  MaxHeight = 2
  MaxLog = 4
  MaxFaults = 1
INVARIANTS
  GenesisCanBeCreated
CHECK_DEADLOCK FALSE
