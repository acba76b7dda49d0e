CONSTANTS
  alice = alice
  bob = bob
  nobody = nobody
  Txs <- GenerousBond
  Accounts <- MCAccounts
  Nobody = nobody
  Deposit <- MCDeposit
  NetworkFee = 0
  TxExpiry = 2
  HeadSlack = 1
  MaxTime = 3
  MaxLine = 1
  MaxBlock = 2
  MaxChain = 2
SPECIFICATION Spec
INVARIANTS NoOverdraft
CHECK_DEADLOCK FALSE
