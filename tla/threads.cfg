\* Two HTTP workers and the P2P thread, to which peers send one transaction twice.
SPECIFICATION Spec
CONSTANTS
  exchange = exchange
  genesis = genesis
  alice = alice
  other = other
  Address <- Wallets
  Account <- Wallets
  Exchange = exchange
  Genesis = genesis
  NoKey = nokey
  KeyOrder <- MapOrder
  Draw = {0}
  FeeDivisor = 200
  Token = 40000
  LotLimit = 2
  Api = {h1, h2}
  P2P = p2p
  Poller = {}
  Nobody = nobody
  Me = genesis
  Peer = {other}
  Requests <- Buy
  RemoteTx <- OneRemote
  Budget <- TwoCallsTwoTxs
  Answers = 1
  Agree = FALSE
  TailLimit = 1
  ForkLimit = 1
  PoolLimit = 20
  ClogLimit = 100
  DeadLimit = 500
INVARIANTS
  TypeOK
  OwnBlocksLinked
  LedgerMatchesChain
  PoolNoDup
  NoReadmission
  NothingLost
PROPERTIES
  AtomicSpec
CHECK_DEADLOCK FALSE
