\* One thread alone, a staker that never forges, and small pool limits.
SPECIFICATION Spec
CONSTANTS
  exchange = exchange
  genesis = genesis
  alice = alice
  other = other
  Address <- Wallets
  Account <- Wallets
  Exchange = exchange
  Genesis = genesis
  NoKey = nokey
  KeyOrder <- MapOrder
  Draw = {0}
  FeeDivisor = 200
  Token = 40000
  LotLimit = 2
  Api = {h1}
  P2P = p2p
  Poller = {}
  Nobody = nobody
  Me = genesis
  Peer = {other}
  Requests <- BuyStakeSpend
  RemoteTx <- Quiet
  Budget <- FiveCalls
  Answers = 1
  Agree = FALSE
  TailLimit = 1
  ForkLimit = 1
  PoolLimit = 20
  ClogLimit = 1
  DeadLimit = 2
INVARIANTS
  Conservation
CHECK_DEADLOCK FALSE
