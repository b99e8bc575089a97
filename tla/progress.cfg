\* The genesis node with its poller; every thread is scheduled.
SPECIFICATION FairSpec
CONSTANTS
  exchange = exchange
  genesis = genesis
  alice = alice
  other = other
  Address <- Wallets
  Account <- Wallets
  Exchange = exchange
  Genesis = genesis
  NoKey = nokey
  KeyOrder <- MapOrder
  Draw = {0}
  FeeDivisor = 200
  Token = 40000
  LotLimit = 2
  Api = {h1}
  P2P = p2p
  Poller = {poller}
  Nobody = nobody
  Me = genesis
  Peer = {other}
  Requests <- Buy
  RemoteTx <- OneRemote
  Budget <- OneCallOneTx
  Answers = 1
  Agree = FALSE
  TailLimit = 1
  ForkLimit = 1
  PoolLimit = 20
  ClogLimit = 100
  DeadLimit = 500
PROPERTIES
  EventuallyOnChain
  CallsReturn
CHECK_DEADLOCK FALSE
