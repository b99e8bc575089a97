\* One HTTP worker forges while the P2P thread adds peers' blocks and downloads.
SPECIFICATION Spec
CONSTANTS
  exchange = exchange
  genesis = genesis
  alice = alice
  other = other
  Address <- Wallets
  Account <- Wallets
  Exchange = exchange
  Genesis = genesis
  NoKey = nokey
  KeyOrder <- MapOrder
  Draw = {0, 1}
  FeeDivisor = 200
  Token = 40000
  LotLimit = 2
  Api = {h1}
  P2P = p2p
  Poller = {}
  Nobody = nobody
  Me = genesis
  Peer = {other}
  Requests <- PeerStakes
  RemoteTx <- TwoRemote
  Budget <- ThreeCallsOneBlock
  Answers = 2
  Agree = FALSE
  TailLimit = 2
  ForkLimit = 1
  PoolLimit = 20
  ClogLimit = 100
  DeadLimit = 500
PROPERTIES
  AppendOnly
  AtomicSpec
CHECK_DEADLOCK FALSE
