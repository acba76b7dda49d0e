CONSTANTS
  Names = {n1, n2}
  Passwords = {right, wrong}
  None = None
  MaxKeys = 3
  MaxTasks = 3
SPECIFICATION Spec
INVARIANTS WalletInv AccountsReadable NoKeyLost CanUnlock
CHECK_DEADLOCK FALSE
