SPECIFICATION FairSpec
CONSTANTS
  exchange = exchange
  genesis = genesis
  other = other
  third = third
  n1 = n1
  n2 = n2
  n3 = n3
  Address <- Wallets
  Account <- Accounts
  Exchange = exchange
  Genesis = genesis
  NoKey = nokey
  KeyOrder <- MapOrder
  Draw = {1}
  FeeDivisor = 200
  Token = 40000
  LotLimit = 2
  Node = {n1, n2, n3}
  Master = n1
  walletOf <- WalletOf
  Requests <- Trading
  PoolLimit = 2
  ClogLimit = 100
  DeadLimit = 500
  Patient = TRUE
  Budget <- ThreeCallsThreeStarts
INVARIANTS
  TypeOK
  LedgersAgree
  RestAgrees
PROPERTIES
  ReplicatedSpec
  ComesToRest
CHECK_DEADLOCK FALSE
