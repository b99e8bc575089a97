\* One forging thread and honest peers that run the same lottery; no downloads.
SPECIFICATION Spec
CONSTANTS
  exchange = exchange
  genesis = genesis
  alice = alice
  other = other
  Address <- Wallets
  Account <- Wallets
  Exchange = exchange
  Genesis = genesis
  NoKey = nokey
  KeyOrder <- MapOrder
  Draw = {0, 1}
  FeeDivisor = 200
  Token = 40000
  LotLimit = 2
  Api = {h1}
  P2P = p2p
  Poller = {}
  Nobody = nobody
  Me = genesis
  Peer = {other}
  Requests <- PeerStakes
  RemoteTx <- Quiet
  Budget <- FourCallsTwoBlocks
  Answers = 0
  Agree = TRUE
  TailLimit = 1
  ForkLimit = 1
  PoolLimit = 20
  ClogLimit = 100
  DeadLimit = 500
INVARIANTS
  LinkedChain
CHECK_DEADLOCK FALSE
