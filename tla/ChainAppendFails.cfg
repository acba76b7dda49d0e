SPECIFICATION Spec
CONSTANTS
  Payloads = {g, x, y}
  Founding = {g}
  Bonding = {g, x}
  Env = {"crash", "ioerror", "emptysync"}
  BondFee = 5
  FlushOps = 2
  MaxHeight = 2
  MaxLog = 4
  MaxFaults = 2
INVARIANTS
  AnnouncedInLog
  NoReplay
CHECK_DEADLOCK FALSE
