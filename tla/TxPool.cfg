CONSTANTS
  alice = alice
  bob = bob
  nobody = nobody
  Txs <- MCTxs
  Accounts <- MCAccounts
  Nobody = nobody
  Deposit <- MCDeposit
  NetworkFee = 0
  TxExpiry = 2
  HeadSlack = 1
  MaxTime = 3
  MaxLine = 1
  MaxBlock = 2
  MaxChain = 2
SPECIFICATION Spec
INVARIANTS  NoReplay NoOverdraft PoolIsFresh
CHECK_DEADLOCK FALSE
