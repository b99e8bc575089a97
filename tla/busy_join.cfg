SPECIFICATION Spec
CONSTANTS
  exchange = exchange
  genesis = genesis
  other = other
  third = third
  n1 = n1
  n2 = n2
  n3 = n3
  Address <- Wallets
  Account <- Accounts
  Exchange = exchange
  Genesis = genesis
  NoKey = nokey
  KeyOrder <- MapOrder
  Draw = {0}
  FeeDivisor = 200
  Token = 40000
  LotLimit = 2
  Node = {n1, n2}
  Master = n1
  walletOf <- WalletOf
  Requests <- Buying
  PoolLimit = 2
  ClogLimit = 100
  DeadLimit = 500
  Patient = FALSE
  Budget <- TwoCallsTwoStarts
INVARIANTS
  NoBlockTwice
CHECK_DEADLOCK FALSE
