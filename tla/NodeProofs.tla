----------------------------- MODULE NodeProofs -----------------------------
(***************************************************************************)
(* Theorems about the threads of a node, for any number of HTTP workers,   *)
(* any limits and any traffic.                                             *)
(***************************************************************************)
EXTENDS NodeProperties, LedgerProofs

LEMMA DrawType == NoBlock \in Block /\ NoTx \in Tx
<1>1. (CHOOSE d \in Draw : TRUE) \in Draw
  BY LedgerAssumption
<1>2. <<>> \in Seq(Tx)
  OBVIOUS
<1>3. NoBlock \in Block
  BY <1>1, <1>2, LedgerAssumption DEF NoBlock, GenesisBlock, Block, Hash
<1> QED BY <1>3, LedgerAssumption DEF NoTx, Tx, TxType, Key

\* A block a peer makes on a chain is a block, and is the peer's.
LEMMA PeerBlockType ==
    ASSUME NEW p \in Peer, NEW x \in Tx, NEW id \in Nat, NEW last \in Block, NEW d \in Draw
    PROVE  peerBlock(p, x, id, last, d) \in Block /\ peerBlock(p, x, id, last, d).forger = p
<1> DEFINE txs == <<charge(x), rewardTx(id, p, fee(x))>>
           b == [count |-> last.count + 1, lastHash |-> last.hash, forger |-> p,
                 hash |-> [id |-> id, draw |-> d], txs |-> txs]
<1>1. p \in Address
  BY ThreadAssumption
<1>2. charge(x) \in Tx /\ rewardTx(id, p, fee(x)) \in Tx
  BY <1>1, ChargeType, RewardType
<1>3. txs \in Seq(Tx)
  BY <1>2
<1>4. b \in Block
  BY <1>1, <1>3 DEF Block, Hash
<1>5. [i \in DOMAIN b.txs |-> keyed(b.txs[i])] \in Seq(Tx)
  <2>1. DOMAIN b.txs = 1..2 /\ \A i \in 1..2 : b.txs[i] \in Tx
    BY <1>2
  <2>2. \A i \in 1..2 : keyed(b.txs[i]) \in Tx
    BY <2>1, KeyedType
  <2> HIDE DEF b
  <2>3. [i \in 1..2 |-> keyed(b.txs[i])] \in Seq(Tx)
    BY <2>2
  <2> QED BY <2>1, <2>3
<1>6. keyedBlock(b) \in Block /\ keyedBlock(b).forger = p
  <2> HIDE DEF txs
  <2> QED BY <1>4, <1>5 DEF keyedBlock, Block
<1>7. peerBlock(p, x, id, last, d) = keyedBlock(b)
  BY DEF peerBlock
<1> QED BY <1>6, <1>7

\* Chains that grow by a peer's block are chains, and the rest is unchanged.
LEMMA LongerType ==
    ASSUME sent \cup RemoteTx \subseteq Tx,
           NEW chain \in Seq(Block), chain # <<>>, NEW id \in Nat,
           NEW c \in Longer(chain, id)
    PROVE  /\ c \in Seq(Block) /\ c # <<>> /\ Len(c) = Len(chain) + 1
           /\ Last(c).forger \in Peer /\ c[Len(c)] = Last(c)
           /\ \A i \in 1..Len(chain) : c[i] = chain[i]
<1>1. PICK p \in Winners(chain), d \in Draw,
           x \in {x \in sent \cup RemoteTx : x.id \notin ChainIds(chain)} :
           c = Append(chain, peerBlock(p, x, id, Last(chain), d))
  BY DEF Longer
<1>2. p \in Peer
  BY <1>1 DEF Winners
<1>3. Last(chain) \in Block
  BY LastType
<1>4. /\ peerBlock(p, x, id, Last(chain), d) \in Block
      /\ peerBlock(p, x, id, Last(chain), d).forger = p
  BY <1>2, <1>3, PeerBlockType
<1> QED BY <1>1, <1>2, <1>4, AppendType, LastType

\* The chain of a peer is one or two blocks longer than what it shares with
\* ours; those blocks, and so all the blocks we do not have, are the peers'.
LEMMA PeerChainType ==
    ASSUME TypeOK, NEW c \in PeerChains
    PROVE  /\ c \in Seq(Block) /\ c # <<>> /\ Last(c) \in Block
           /\ Last(c).forger \in Peer
           /\ \A i \in DOMAIN c : i > Len(blocks) => c[i].forger \in Peer
<1> DEFINE one(n) == Longer(SubSeq(blocks, 1, n), uuid)
<1>1. PICK n \in DOMAIN blocks :
           c \in one(n) \/ \E a \in one(n) : c \in Longer(a, uuid + 1)
  BY DEF PeerChains
<1>2. sent \cup RemoteTx \subseteq Tx /\ uuid \in Nat /\ uuid + 1 \in Nat
  BY ThreadAssumption DEF TypeOK
<1>3. n \in 1..Len(blocks) /\ blocks \in Seq(Block)
  BY <1>1 DEF TypeOK
<1>4. /\ SubSeq(blocks, 1, n) \in Seq(Block) /\ SubSeq(blocks, 1, n) # <<>>
      /\ Len(SubSeq(blocks, 1, n)) = n
  BY <1>3
<1>5. ASSUME NEW a \in one(n)
      PROVE  /\ a \in Seq(Block) /\ a # <<>> /\ Len(a) = n + 1
             /\ Last(a).forger \in Peer /\ a[n + 1] = Last(a)
  <2> DEFINE base == SubSeq(blocks, 1, n)
  <2>1. a \in Longer(base, uuid)
    BY <1>5
  <2>2. base \in Seq(Block) /\ base # <<>> /\ Len(base) = n
    BY <1>4
  <2> HIDE DEF base
  <2> QED BY <1>2, <2>1, <2>2, LongerType
<1>6. CASE c \in one(n)
  <2>1. /\ c \in Seq(Block) /\ c # <<>> /\ Len(c) = n + 1
        /\ Last(c).forger \in Peer /\ c[n + 1] = Last(c)
    BY <1>5, <1>6
  <2>2. \A i \in DOMAIN c : i > Len(blocks) => i = n + 1
    BY <1>3, <2>1
  <2> QED BY <2>1, <2>2, LastType
<1>7. CASE \E a \in one(n) : c \in Longer(a, uuid + 1)
  <2>1. PICK a \in one(n) : c \in Longer(a, uuid + 1)
    BY <1>7
  <2>2. /\ a \in Seq(Block) /\ a # <<>> /\ Len(a) = n + 1
        /\ Last(a).forger \in Peer /\ a[n + 1] = Last(a)
    BY <1>5
  <2>3. /\ c \in Seq(Block) /\ c # <<>> /\ Len(c) = Len(a) + 1
        /\ Last(c).forger \in Peer /\ c[Len(c)] = Last(c)
        /\ \A i \in 1..Len(a) : c[i] = a[i]
    <3> HIDE DEF one
    <3> QED BY <1>2, <2>1, <2>2, LongerType
  <2>4. Len(c) = n + 2 /\ c[n + 2] = Last(c) /\ c[n + 1] = Last(a)
    BY <1>3, <2>2, <2>3
  <2>5. \A i \in DOMAIN c : i > Len(blocks) => i = n + 1 \/ i = n + 2
    BY <1>3, <2>3, <2>4
  <2> QED BY <2>2, <2>3, <2>4, <2>5, LastType
<1> QED BY <1>1, <1>6, <1>7

-----------------------------------------------------------------------------
(***************************************************************************)
(* Types and locks: the first inductive invariant.                         *)
(***************************************************************************)
\* The threads that hold blockchainMutex are those in a lock scope of several
\* steps; what a thread has in hand there is fit for the step to come.
LockInv ==
    /\ \A t \in Thread : pc[t] \in Critical <=> mutex = t
    /\ \A t \in Thread : pc[t] = "create" => batch[t] # <<>>
    /\ \A t \in Thread : pc[t] \in {"replay", "assign"} =>
          /\ Len(copy) >= Len(blocks)
          /\ \A i \in 1..Len(blocks) : copy[i] = blocks[i]

\* What a thread has in hand, but for the rest of the pool it walks.
LocalTypes ==
    /\ pc \in [Thread -> Point] /\ tx \in [Thread -> Tx]
    /\ forger \in [Thread -> Key] /\ batch \in [Thread -> Seq(Tx)]
    /\ reward \in [Thread -> Int] /\ block \in [Thread -> Block]

LEMMA ReturnType ==
    ASSUME LocalTypes, NEW t \in Thread, Return(t)
    PROVE  /\ LocalTypes' /\ pc' = [pc EXCEPT ![t] = "idle"] /\ UNCHANGED todo
           /\ \A u \in Thread : batch[u] # batch'[u] => u = t
<1>1. NoBlock \in Block /\ NoTx \in Tx /\ NoKey \in Key /\ <<>> \in Seq(Tx)
  BY DrawType DEF Key
<1> QED BY <1>1 DEF LocalTypes, Return, Goto, Point

LEMMA CheckType ==
    ASSUME LocalTypes, NEW t \in Thread, NEW ok, NEW l \in Point, Check(t, ok, l)
    PROVE  /\ LocalTypes' /\ UNCHANGED todo
           /\ pc' = [pc EXCEPT ![t] = "idle"] \/ pc' = [pc EXCEPT ![t] = l]
           /\ \A u \in Thread : batch[u] # batch'[u] => u = t
<1>1. CASE ok
  BY <1>1 DEF LocalTypes, Check, Goto, forging
<1>2. CASE ~ok
  BY <1>2, ReturnType DEF Check
<1> QED BY <1>1, <1>2

\* A pool without some of its entries is a pool.
LEMMA RestrictType ==
    ASSUME NEW p, IsPool(p), NEW S, S \subseteq DOMAIN p
    PROVE  IsPool(Restrict(p, S))
BY DEF IsPool, Restrict

\* The bound on the calls goes down to zero.
LEMMA BudgetType ==
    ASSUME NEW b \in [api : Nat, tx : Nat, block : Nat]
    PROVE  /\ b.api > 0 => [b EXCEPT !.api = b.api - 1] \in [api : Nat, tx : Nat, block : Nat]
           /\ b.tx > 0 => [b EXCEPT !.tx = b.tx - 1] \in [api : Nat, tx : Nat, block : Nat]
           /\ b.block > 0 => [b EXCEPT !.block = b.block - 1] \in [api : Nat, tx : Nat, block : Nat]
OBVIOUS

LEMMA TypeInit == Init => TypeOK /\ LockInv
<1> SUFFICES ASSUME Init PROVE TypeOK /\ LockInv
  OBVIOUS
<1>1. PICK last \in Draw, own \in Draw : blocks = <<GenesisBlock(last, own)>>
  BY DEF Init, GenesisBlocks
<1>2. GenesisBlock(last, own) \in Block
  <2>1. <<>> \in Seq(Tx)
    OBVIOUS
  <2> QED BY <2>1, LedgerAssumption DEF GenesisBlock, Block, Hash
<1>3. blocks \in Seq(Block) /\ blocks # <<>>
  BY <1>1, <1>2
<1>4. IsPool(NoTxs)
  BY DEF IsPool, NoTxs, Init
<1>5. TypeOK
  BY <1>3, <1>4, DrawType, ThreadAssumption DEF Init, TypeOK, Point, Key, IsPool
<1>6. LockInv
  BY ThreadAssumption DEF Init, LockInv, Critical
<1> QED BY <1>5, <1>6

\* The steps of handleTransaction.
LEMMA TypeHandle ==
    ASSUME TypeOK, LockInv, NEW t \in Thread, Handle(t) \/ Submit(t) \/ ReceiveTx(t) \/ Poll(t)
    PROVE  TypeOK' /\ LockInv'
<1>1. LocalTypes
  BY DEF TypeOK, LocalTypes
<1> USE DEF shared, messages, counters, forging
<1>2. CASE Submit(t)
  <2>1. PICK r \in Requests : tx' = [tx EXCEPT ![t] =
               [id |-> uuid, type |-> r.type, sender |-> r.sender,
                receiver |-> r.receiver, amount |-> r.amount,
                key |-> publicKey(r.sender)]]
    BY <1>2 DEF Submit
  <2>2. publicKey(r.sender) \in Key
    BY ThreadAssumption DEF publicKey, Key
  <2>3. tx' \in [Thread -> Tx]
    BY <2>1, <2>2, ThreadAssumption DEF TypeOK, Tx
  <2>6. budget' \in [api : Nat, tx : Nat, block : Nat]
    BY <1>2, BudgetType DEF Submit, TypeOK
  <2>7. uuid' \in Nat
    BY <1>2 DEF Submit, TypeOK
  <2>4. TypeOK'
    BY <1>2, <2>3, <2>6, <2>7 DEF Submit, Goto, TypeOK, Point, IsPool
  <2>5. LockInv'
    BY <1>2 DEF Submit, Goto, TypeOK, LockInv, Critical, Point
  <2> QED BY <2>4, <2>5
<1>3. CASE ReceiveTx(t)
  <2>3. budget' \in [api : Nat, tx : Nat, block : Nat]
    BY <1>3, BudgetType DEF ReceiveTx, TypeOK
  <2>4. tx' \in [Thread -> Tx]
    BY <1>3, ThreadAssumption DEF ReceiveTx, TypeOK
  <2>1. TypeOK'
    BY <1>3, <2>3, <2>4 DEF ReceiveTx, Goto, TypeOK, Point, IsPool
  <2>2. LockInv'
    BY <1>3 DEF ReceiveTx, Goto, TypeOK, LockInv, Critical, Point
  <2> QED BY <2>1, <2>2
<1>4. CASE Poll(t)
  <2>1. TypeOK'
    BY <1>4 DEF Poll, Goto, TypeOK, Point, IsPool
  <2>2. LockInv'
    BY <1>4 DEF Poll, Goto, TypeOK, LockInv, Critical, Point
  <2> QED BY <2>1, <2>2
<1>5. ASSUME NEW ok, NEW l \in {"chainCheck", "cover", "add", "next"}, Check(t, ok, l),
             pc[t] \notin Critical, UNCHANGED <<shared, messages, counters>>
      PROVE  TypeOK' /\ LockInv'
  <2>1. l \in Point /\ l \notin Critical /\ "idle" \notin Critical /\ l # "create"
    BY DEF Point, Critical
  <2>2. /\ LocalTypes' /\ UNCHANGED todo
        /\ pc' = [pc EXCEPT ![t] = "idle"] \/ pc' = [pc EXCEPT ![t] = l]
        /\ \A u \in Thread : batch[u] # batch'[u] => u = t
    BY <1>1, <1>5, <2>1, CheckType
  <2>3. TypeOK'
    BY <1>5, <2>2 DEF TypeOK, LocalTypes, IsPool
  <2>4. LockInv'
    BY <1>5, <2>1, <2>2 DEF LockInv, TypeOK, Critical
  <2> QED BY <2>3, <2>4
<1>6. CASE PoolCheck(t)
  BY <1>5, <1>6 DEF PoolCheck, Critical
<1>7. CASE ChainCheck(t)
  BY <1>5, <1>7 DEF ChainCheck, Critical
<1>8. CASE Cover(t)
  BY <1>5, <1>8 DEF Cover, Critical
<1>9. CASE Required(t)
  BY <1>5, <1>9 DEF Required, Critical
<1>10. CASE Add(t)
  <2>1. stamp \in Nat /\ tx[t] \in Tx /\ IsPool(pool)
    BY DEF TypeOK
  <2>2. IsPool(pool)'
    <3>1. pool' = pushed(pool, tx[t]) /\ stamp' = stamp + 1
      BY <1>10 DEF Add
    <3>2. /\ DOMAIN pool' = DOMAIN pool \cup {stamp}
          /\ \A s \in DOMAIN pool' : pool'[s] \in Tx
          /\ pool' = [s \in DOMAIN pool' |-> pool'[s]]
      BY <2>1, <3>1 DEF IsPool, pushed
    <3> QED BY <2>1, <3>1, <3>2 DEF IsPool
  <2>3. \A u \in Thread : IsPool(todo[u])'
    BY <1>10 DEF Add, IsPool, TypeOK
  <2>4. sent' \subseteq Tx
    BY <1>10 DEF Add, TypeOK
  <2>5. TypeOK'
    BY <1>10, <2>2, <2>3, <2>4 DEF Add, Goto, TypeOK, Point
  <2>6. LockInv'
    BY <1>10 DEF Add, Goto, TypeOK, LockInv, Critical, Point
  <2> QED BY <2>5, <2>6
<1> QED BY <1>2, <1>3, <1>4, <1>6, <1>7, <1>8, <1>9, <1>10 DEF Handle

\* A step that takes or leaves no lock, when the chain and its copy stay as they are.
LEMMA LockKept ==
    ASSUME TypeOK, LockInv, NEW t \in Thread, NEW l \in Point \ {"create"},
           pc[t] \in Critical <=> l \in Critical,
           l \in {"replay", "assign"} => pc[t] \in {"replay", "assign"},
           pc' = [pc EXCEPT ![t] = l], UNCHANGED <<blocks, mutex, copy>>,
           \A u \in Thread : batch[u] # batch'[u] => u = t
    PROVE  LockInv'
BY DEF TypeOK, LockInv

\* The steps of forge() up to the block.
LEMMA TypeForge ==
    ASSUME TypeOK, LockInv, NEW t \in Thread, Forge(t)
    PROVE  TypeOK' /\ LockInv'
<1>1. LocalTypes
  BY DEF TypeOK, LocalTypes
<1> USE DEF shared, messages, counters, forging
<1>2. ASSUME NEW l \in {"clog", "decide"}, pc[t] \in {"next", "renext"}, Elect(t, l)
      PROVE  TypeOK' /\ LockInv'
  <2>1. l \in Point \ {"create"} /\ l \notin Critical /\ pc[t] \notin Critical
    BY <1>2 DEF Point, Critical
  <2>2. forger' \in [Thread -> Key]
    BY <1>2 DEF Elect, TypeOK
  <2>3. TypeOK'
    BY <1>2, <2>1, <2>2 DEF Elect, Goto, TypeOK, IsPool
  <2>4. LockInv'
    BY <1>2, <2>1, LockKept DEF Elect, Goto, Critical
  <2> QED BY <2>3, <2>4
<1>3. CASE NextForger(t)
  BY <1>2, <1>3 DEF NextForger
<1>4. CASE NextForgerAgain(t)
  BY <1>2, <1>4 DEF NextForgerAgain
<1>5. CASE Refund(t)
  <2>1. PICK l \in {"erase", "decide"} : pc' = [pc EXCEPT ![t] = l]
    BY <1>5 DEF Refund, Goto
  <2>2. l \in Point \ {"create"} /\ l \notin Critical /\ pc[t] \notin Critical
    BY <1>5 DEF Refund, Point, Critical
  <2>3. TypeOK'
    BY <1>5, <2>1, <2>2 DEF Refund, TypeOK, IsPool
  <2>4. LockInv'
    BY <1>5, <2>1, <2>2, LockKept DEF Refund, Critical
  <2> QED BY <2>3, <2>4
<1>6. CASE Erase(t)
  <2>1. TypeOK'
    BY <1>6 DEF Erase, Goto, TypeOK, IsPool, Point
  <2>2. LockInv'
    BY <1>6 DEF Erase, Goto, TypeOK, LockInv, Critical, Point
  <2> QED BY <2>1, <2>2
<1>7. CASE ClearPool(t)
  <2>1. IsPool(pool)'
    <3>1. CASE pool' = NoTxs
      BY <3>1 DEF IsPool, NoTxs
    <3>2. CASE UNCHANGED pool
      BY <1>7, <3>2 DEF ClearPool, IsPool, TypeOK
    <3> QED BY <1>7, <3>1, <3>2 DEF ClearPool
  <2>2. PoolIds \subseteq Int
    BY DEF PoolIds, TypeOK, IsPool, Tx
  <2>3. TypeOK'
    BY <1>7, <2>1, <2>2 DEF ClearPool, Goto, TypeOK, IsPool, Point
  <2>4. LockInv'
    BY <1>7 DEF ClearPool, Goto, TypeOK, LockInv, Critical, Point
  <2> QED BY <2>3, <2>4
<1>8. CASE Decide(t)
  <2>1. CASE forger[t] = Me
    <3>1. TypeOK'
      BY <1>8, <2>1 DEF Decide, Goto, TypeOK, IsPool, Point
    <3>2. /\ pc[t] = "decide" /\ pc' = [pc EXCEPT ![t] = "reward"]
          /\ UNCHANGED <<blocks, mutex, copy, batch>>
      BY <1>8, <2>1 DEF Decide, Goto
    <3>3. LockInv'
      BY <3>2 DEF TypeOK, LockInv, Critical
    <3> QED BY <3>1, <3>3
  <2>2. CASE forger[t] # Me
    <3>1. Return(t) /\ UNCHANGED <<blocks, pool, mutex, messages, counters>> /\ pc[t] = "decide"
      BY <1>8, <2>2 DEF Decide
    <3>2. /\ LocalTypes' /\ pc' = [pc EXCEPT ![t] = "idle"] /\ UNCHANGED todo
          /\ \A u \in Thread : batch[u] # batch'[u] => u = t
      BY <1>1, <3>1, ReturnType
    <3>3. TypeOK'
      BY <3>1, <3>2 DEF TypeOK, LocalTypes, IsPool
    <3>4. LockInv'
      BY <3>1, <3>2 DEF LockInv, TypeOK, Critical
    <3> QED BY <3>3, <3>4
  <2> QED BY <2>1, <2>2
<1>9. CASE StartReward(t)
  <2>1. TypeOK'
    BY <1>9 DEF StartReward, Goto, TypeOK, IsPool, Point
  <2>2. LockInv'
    BY <1>9, ThreadAssumption DEF StartReward, Goto, Free, TypeOK, LockInv, Critical, Point
  <2> QED BY <2>1, <2>2
<1>10. CASE Charge(t)
  <2>1. PICK s \in DOMAIN todo[t] :
        /\ IF s \in DOMAIN pool
           THEN /\ batch' = [batch EXCEPT ![t] = Append(batch[t], charge(pool[s]))]
                /\ reward' = [reward EXCEPT ![t] = reward[t] + fee(pool[s])]
                /\ pool' = [pool EXCEPT ![s] = charge(pool[s])]
           ELSE /\ UNCHANGED pool
                /\ \/ /\ batch' = [batch EXCEPT ![t] = Append(batch[t], charge(todo[t][s]))]
                      /\ reward' = [reward EXCEPT ![t] = reward[t] + fee(todo[t][s])]
                   \/ UNCHANGED <<batch, reward>>
        /\ todo' = [todo EXCEPT ![t] = Restrict(todo[t], DOMAIN todo[t] \ {s})]
    BY <1>10 DEF Charge
  <2>2. /\ s \in DOMAIN pool => fee(pool[s]) \in Int /\ charge(pool[s]) \in Tx
        /\ fee(todo[t][s]) \in Int /\ charge(todo[t][s]) \in Tx
    BY ChargeType DEF TypeOK, IsPool
  <2>3. IsPool(pool)'
    <3>1. IsPool(pool) /\ stamp' = stamp
      BY <1>10 DEF Charge, TypeOK
    <3>2. CASE s \in DOMAIN pool
      BY <2>1, <2>2, <3>1, <3>2 DEF IsPool
    <3>3. CASE s \notin DOMAIN pool
      BY <2>1, <3>1, <3>3 DEF IsPool
    <3> QED BY <3>2, <3>3
  <2>4. batch' \in [Thread -> Seq(Tx)] /\ reward' \in [Thread -> Int]
    <3>1. batch[t] \in Seq(Tx) /\ reward[t] \in Int
      BY DEF TypeOK
    <3>2. \A x \in Tx : Append(batch[t], x) \in Seq(Tx)
      BY <3>1, AppendType
    <3>3. PICK x \in Tx, f \in Int :
             \/ /\ batch' = [batch EXCEPT ![t] = Append(batch[t], x)]
                /\ reward' = [reward EXCEPT ![t] = reward[t] + f]
             \/ UNCHANGED <<batch, reward>>
      <4>1. CASE s \in DOMAIN pool
        BY <2>1, <2>2, <4>1
      <4>2. CASE s \notin DOMAIN pool
        BY <2>1, <2>2, <4>2
      <4> QED BY <4>1, <4>2
    <3>4. Append(batch[t], x) \in Seq(Tx) /\ reward[t] + f \in Int
      BY <3>1, <3>2
    <3>5. batch \in [Thread -> Seq(Tx)] /\ reward \in [Thread -> Int]
      BY DEF TypeOK
    <3> QED BY <3>3, <3>4, <3>5
  <2>5. DOMAIN todo' = Thread /\ \A u \in Thread : IsPool(todo'[u])
    <3>1. IsPool(Restrict(todo[t], DOMAIN todo[t] \ {s}))
      BY RestrictType DEF TypeOK
    <3> QED BY <2>1, <3>1 DEF TypeOK
  <2>6. TypeOK'
    BY <1>10, <2>3, <2>4, <2>5 DEF Charge, TypeOK, IsPool
  <2>7. \A u \in Thread : batch[u] # batch'[u] => u = t
    BY <2>1 DEF TypeOK
  <2>8. LockInv'
    BY <1>10, <2>7 DEF Charge, TypeOK, LockInv
  <2> QED BY <2>6, <2>8
<1>11. CASE PayReward(t)
  <2>1. rewardTx(uuid, Me, reward[t]) \in Tx
    BY RewardType, LedgerAssumption, ThreadAssumption DEF TypeOK
  <2>2. /\ Append(batch[t], rewardTx(uuid, Me, reward[t])) \in Seq(Tx)
        /\ Append(batch[t], rewardTx(uuid, Me, reward[t])) # <<>>
    <3> batch[t] \in Seq(Tx)
      BY DEF TypeOK
    <3> QED BY <2>1, AppendType
  <2>3. uuid' \in Nat
    BY <1>11 DEF PayReward, TypeOK
  <2>4. TypeOK'
    BY <1>11, <2>2, <2>3 DEF PayReward, Goto, TypeOK, IsPool, Point
  <2>5. LockInv'
    BY <1>11, <2>2, ThreadAssumption DEF PayReward, Goto, TypeOK, LockInv, Critical, Point
  <2> QED BY <2>4, <2>5
<1>12. CASE CreateBlock(t)
  <2>1. PICK d \in Draw : block' = [block EXCEPT ![t] = newBlock(batch[t], d)]
    BY <1>12 DEF CreateBlock
  <2>2. newBlock(batch[t], d) \in Block
    <3>1. batch[t] \in Seq(Tx) /\ batch[t] # <<>> /\ Last(batch[t]) \in Tx
      BY <1>12, LastType DEF CreateBlock, TypeOK, LockInv
    <3>2. tip \in Block /\ Len(blocks) \in Nat
      BY LastType DEF tip, TypeOK
    <3> QED BY <3>1, <3>2, LedgerAssumption, ThreadAssumption DEF newBlock, Block, Hash, Tx
  <2>3. TypeOK'
    BY <1>12, <2>1, <2>2 DEF CreateBlock, Goto, TypeOK, IsPool, Point
  <2>4. LockInv'
    BY <1>12, ThreadAssumption DEF CreateBlock, Goto, Free, TypeOK, LockInv, Critical, Point
  <2> QED BY <2>3, <2>4
<1> QED BY <1>3, <1>4, <1>5, <1>6, <1>7, <1>8, <1>9, <1>10, <1>11, <1>12 DEF Forge

\* The steps that execute a block and put it on the chain.
LEMMA TypeCommit ==
    ASSUME TypeOK, LockInv, NEW t \in Thread, Commit(t)
    PROVE  TypeOK' /\ LockInv'
<1>1. LocalTypes
  BY DEF TypeOK, LocalTypes
<1> USE DEF shared, messages, counters, forging
<1>2. CASE Execute(t)
  <2>1. TypeOK'
    BY <1>2 DEF Execute, Goto, TypeOK, IsPool, Point
  <2>2. LockInv'
    BY <1>2 DEF Execute, Goto, TypeOK, LockInv, Critical, Point
  <2> QED BY <2>1, <2>2
<1>3. CASE Push(t)
  <2>1. blocks' \in Seq(Block) /\ blocks' # <<>>
    <3>1. blocks \in Seq(Block) /\ block[t] \in Block
      BY DEF TypeOK
    <3> QED BY <1>3, <3>1, AppendType DEF Push
  <2>2. TypeOK'
    BY <1>3, <2>1 DEF Push, Goto, TypeOK, IsPool, Point
  <2>3. \A u \in Thread : pc[u] \in Critical => u = t
    BY <1>3 DEF Push, LockInv, Critical
  <2>4. LockInv'
    BY <1>3, <2>3, ThreadAssumption DEF Push, Goto, TypeOK, LockInv, Critical, Point
  <2> QED BY <2>2, <2>4
<1>4. CASE RemoveFromPool(t)
  <2>1. Return(t) /\ UNCHANGED <<blocks, ledger, mutex, messages, counters>> /\ pc[t] = "remove"
    BY <1>4 DEF RemoveFromPool
  <2>2. /\ LocalTypes' /\ pc' = [pc EXCEPT ![t] = "idle"] /\ UNCHANGED todo
        /\ \A u \in Thread : batch[u] # batch'[u] => u = t
    BY <1>1, <2>1, ReturnType
  <2>3. IsPool(pool')
    BY <1>4, RestrictType DEF RemoveFromPool, Without, TypeOK
  <2>4. TypeOK'
    BY <2>1, <2>2, <2>3 DEF TypeOK, LocalTypes, IsPool
  <2>5. LockInv'
    BY <2>1, <2>2 DEF LockInv, TypeOK, Critical
  <2> QED BY <2>4, <2>5
<1> QED BY <1>2, <1>3, <1>4 DEF Commit

\* The answers that are left when one has arrived.
LEMMA TakenType ==
    ASSUME TypeOK, NEW a \in answers, NEW b \in taken(a)
    PROVE  /\ b.blocks \in Seq(Block) /\ b.left \in Nat
           /\ b \in answers \/ b.blocks = a.blocks
<1>1. CASE b \in answers
  BY <1>1 DEF TypeOK
<1>2. CASE b \notin answers
  <2>1. a.left > 1 /\ b = [a EXCEPT !.left = a.left - 1]
    BY <1>2 DEF taken
  <2>2. a.blocks \in Seq(Block) /\ a.left \in Nat
    BY DEF TypeOK
  <2>3. b.blocks = a.blocks /\ b.left \in Nat
    BY <2>1, <2>2 DEF TypeOK
  <2> QED BY <2>2, <2>3
<1> QED BY <1>1, <1>2

\* The steps of handleBlock.
LEMMA TypeAdopt ==
    ASSUME TypeOK, LockInv, NEW t \in Thread, ReceiveBlock(t) \/ Adopt(t)
    PROVE  TypeOK' /\ LockInv'
<1>1. LocalTypes
  BY DEF TypeOK, LocalTypes
<1> USE DEF shared, messages, counters, forging
<1>2. CASE ReceiveBlock(t)
  <2>1. theirs' \in Seq(Block) /\ Last(theirs') \in Block
    BY <1>2, PeerChainType DEF ReceiveBlock
  <2>2. budget' \in [api : Nat, tx : Nat, block : Nat]
    BY <1>2, BudgetType DEF ReceiveBlock, TypeOK
  <2>3. uuid' \in Nat
    BY <1>2 DEF ReceiveBlock, TypeOK
  <2>4. TypeOK'
    BY <1>2, <2>1, <2>2, <2>3 DEF ReceiveBlock, Goto, TypeOK, IsPool, Point
  <2>5. LockInv'
    BY <1>2 DEF ReceiveBlock, Goto, TypeOK, LockInv, Critical, Point
  <2> QED BY <2>4, <2>5
<1>3. CASE CheckCount(t)
  <2>1. theirs' \in Seq(Block)
    BY <1>3 DEF CheckCount, TypeOK
  <2>2. PICK l \in {"link", "request"} : pc' = [pc EXCEPT ![t] = l]
    BY <1>3 DEF CheckCount, Goto
  <2>3. TypeOK'
    BY <1>3, <2>1, <2>2 DEF CheckCount, TypeOK, IsPool, Point
  <2>4. LockInv'
    BY <1>3, <2>2 DEF CheckCount, TypeOK, LockInv, Critical, Point
  <2> QED BY <2>3, <2>4
<1>4. CASE requestChain(t)
  <2>1. /\ LocalTypes' /\ pc' = [pc EXCEPT ![t] = "idle"] /\ UNCHANGED todo
        /\ \A u \in Thread : batch[u] # batch'[u] => u = t
    BY <1>1, <1>4, ReturnType DEF requestChain
  <2>2. \A a \in answers' : a.blocks \in Seq(Block) /\ a.left \in Nat
    <3> DEFINE missing == SubSeq(theirs, Len(blocks) + 1, Len(theirs))
    <3>1. missing \in Seq(Block)
      BY SubSeqType DEF TypeOK
    <3>2. \/ answers' = answers
          \/ answers' = answers \cup {[blocks |-> missing, left |-> Answers]}
      BY <1>4 DEF requestChain
    <3> HIDE DEF missing
    <3> QED BY <3>1, <3>2, ThreadAssumption DEF TypeOK
  <2>3. theirs' \in Seq(Block)
    BY <1>4 DEF requestChain
  <2>4. TypeOK'
    BY <1>4, <2>1, <2>2, <2>3 DEF requestChain, TypeOK, LocalTypes, IsPool
  <2>5. LockInv'
    BY <1>4, <2>1 DEF requestChain, LockInv, TypeOK, Critical
  <2> QED BY <2>4, <2>5
<1>5. ASSUME NEW ok, NEW l \in {"forger", "adopt"}, Check(t, ok, l),
             pc[t] \notin Critical, UNCHANGED <<shared, messages, counters>>
      PROVE  TypeOK' /\ LockInv'
  <2>1. l \in Point /\ l \notin Critical /\ "idle" \notin Critical /\ l # "create"
    BY DEF Point, Critical
  <2>2. /\ LocalTypes' /\ UNCHANGED todo
        /\ pc' = [pc EXCEPT ![t] = "idle"] \/ pc' = [pc EXCEPT ![t] = l]
        /\ \A u \in Thread : batch[u] # batch'[u] => u = t
    BY <1>1, <1>5, <2>1, CheckType
  <2>3. TypeOK'
    BY <1>5, <2>2 DEF TypeOK, LocalTypes, IsPool
  <2>4. LockInv'
    BY <1>5, <2>1, <2>2 DEF LockInv, TypeOK, Critical
  <2> QED BY <2>3, <2>4
<1>6. CASE CheckLink(t)
  BY <1>5, <1>6 DEF CheckLink, Critical
<1>7. CASE CheckForger(t)
  BY <1>5, <1>7 DEF CheckForger, Critical
<1>8. CASE AddBlock(t)
  <2>1. TypeOK'
    BY <1>8 DEF AddBlock, Goto, TypeOK, IsPool, Point
  <2>2. LockInv'
    BY <1>8, ThreadAssumption DEF AddBlock, Goto, Free, TypeOK, LockInv, Critical, Point
  <2> QED BY <2>1, <2>2
<1> QED BY <1>2, <1>3, <1>4, <1>6, <1>7, <1>8 DEF Adopt

\* The steps of handleBlockchain.
LEMMA TypeDownload ==
    ASSUME TypeOK, LockInv, NEW t \in Thread, Download(t)
    PROVE  TypeOK' /\ LockInv'
<1> USE DEF shared, messages, counters, forging
<1>1. CASE ReceiveChain(t)
  <2>1. PICK a \in answers :
        /\ answers' = taken(a)
        /\ IF Len(a.blocks) # tip.count
           THEN /\ copy' = blocks \o a.blocks
                /\ mutex' = t
                /\ Goto(t, "replay")
           ELSE UNCHANGED <<copy, mutex, pc>>
    BY <1>1 DEF ReceiveChain
  <2>2. \A b \in answers' : b.blocks \in Seq(Block) /\ b.left \in Nat
    BY <2>1, TakenType
  <2>3. a.blocks \in Seq(Block) /\ blocks \in Seq(Block)
    BY DEF TypeOK
  <2>4. /\ blocks \o a.blocks \in Seq(Block)
        /\ Len(blocks \o a.blocks) >= Len(blocks)
        /\ \A i \in 1..Len(blocks) : (blocks \o a.blocks)[i] = blocks[i]
    BY <2>3
  <2>5. copy' \in Seq(Block)
    BY <2>1, <2>4 DEF TypeOK
  <2>6. TypeOK'
    BY <1>1, <2>1, <2>2, <2>5 DEF ReceiveChain, Goto, TypeOK, IsPool, Point
  <2>7. LockInv'
    <3>1. /\ \A u \in Thread : pc[u] \notin Critical
          /\ pc \in [Thread -> Point] /\ UNCHANGED <<blocks, batch>>
      BY <1>1, ThreadAssumption DEF ReceiveChain, Free, TypeOK, LockInv
    <3>2. CASE Len(a.blocks) # tip.count
      <4>1. /\ pc' = [pc EXCEPT ![t] = "replay"] /\ mutex' = t
            /\ copy' = blocks \o a.blocks
        BY <2>1, <3>2 DEF Goto
      <4>2. \A u \in Thread : pc'[u] \in Critical <=> mutex' = u
        BY <3>1, <4>1 DEF Critical
      <4>3. \A u \in Thread : pc'[u] = "create" => batch'[u] # <<>>
        BY <3>1, <4>1 DEF LockInv
      <4>4. Len(copy') >= Len(blocks') /\ \A i \in 1..Len(blocks') : copy'[i] = blocks'[i]
        BY <2>4, <3>1, <4>1
      <4> QED BY <4>2, <4>3, <4>4 DEF LockInv
    <3>3. CASE Len(a.blocks) = tip.count
      <4>1. UNCHANGED <<copy, mutex, pc>>
        BY <2>1, <3>3
      <4> QED BY <3>1, <4>1 DEF LockInv
    <3> QED BY <3>2, <3>3
  <2> QED BY <2>6, <2>7
<1>2. CASE Replay(t)
  <2>1. TypeOK'
    BY <1>2 DEF Replay, Goto, TypeOK, IsPool, Point
  <2>2. LockInv'
    BY <1>2 DEF Replay, Goto, TypeOK, LockInv, Critical, Point
  <2> QED BY <2>1, <2>2
<1>3. CASE Assign(t)
  <2>1. blocks' \in Seq(Block) /\ blocks' # <<>> /\ copy' \in Seq(Block)
    <3>1. Len(copy) >= Len(blocks) /\ Len(blocks) > 0
      BY <1>3 DEF Assign, LockInv, TypeOK
    <3> QED BY <1>3, <3>1 DEF Assign, TypeOK
  <2>2. TypeOK'
    BY <1>3, <2>1 DEF Assign, Goto, TypeOK, IsPool, Point
  <2>3. \A u \in Thread : pc[u] \in Critical => u = t
    BY <1>3 DEF Assign, LockInv, Critical
  <2>4. LockInv'
    BY <1>3, <2>3, ThreadAssumption DEF Assign, Goto, TypeOK, LockInv, Critical, Point
  <2> QED BY <2>2, <2>4
<1> QED BY <1>1, <1>2, <1>3 DEF Download

LEMMA TypeNext == TypeOK /\ LockInv /\ [Next]_vars => TypeOK' /\ LockInv'
<1> SUFFICES ASSUME TypeOK, LockInv, [Next]_vars PROVE TypeOK' /\ LockInv'
  OBVIOUS
<1>1. ASSUME NEW t \in Thread, Call(t) \/ Step(t)
      PROVE  TypeOK' /\ LockInv'
  BY <1>1, TypeHandle, TypeForge, TypeCommit, TypeAdopt, TypeDownload DEF Call, Step
<1>2. CASE UNCHANGED vars
  BY <1>2 DEF vars, shared, messages, counters, forging, TypeOK, LockInv, IsPool
<1> QED BY <1>1, <1>2 DEF Next

\* Every variable always holds a value of its kind, whatever the threads do.
THEOREM TypeCorrect == Spec => []TypeOK
<1>1. Spec => [](TypeOK /\ LockInv)
  BY TypeInit, TypeNext, PTL DEF Spec
<1> QED BY <1>1, PTL

\* blockchainMutex is held by exactly the thread in one of its lock scopes.
THEOREM LockCorrect == Spec => []LockInv
<1>1. Spec => [](TypeOK /\ LockInv)
  BY TypeInit, TypeNext, PTL DEF Spec
<1> QED BY <1>1, PTL

-----------------------------------------------------------------------------
(***************************************************************************)
(* The chain.                                                              *)
(***************************************************************************)
\* Two steps write the chain: the push of a block and the assignment of a copy.
LEMMA ChainWriters ==
    ASSUME NEW t \in Thread, Call(t) \/ Step(t)
    PROVE  UNCHANGED blocks \/ Push(t) \/ Assign(t)
BY DEF Call, Step, Handle, Forge, Commit, Adopt, Download, Submit, ReceiveTx, ReceiveBlock,
       PoolCheck, ChainCheck, Cover, Add, Required, Poll, NextForger, NextForgerAgain,
       Elect, Refund, Erase, ClearPool, Decide, StartReward, Charge, PayReward,
       CreateBlock, Execute, RemoveFromPool, CheckCount, requestChain, CheckLink,
       CheckForger, AddBlock, ReceiveChain, Replay, shared

\* No step, of whatever thread, takes a block off the chain or replaces one:
\* the copy that handleBlockchain assigns still begins with the whole chain.
THEOREM ChainAppendOnly == Spec => AppendOnly
<1>1. TypeOK /\ LockInv /\ [Next]_vars => [IsPrefix(blocks, blocks')]_blocks
  <2> SUFFICES ASSUME TypeOK, LockInv, [Next]_vars, blocks' # blocks
               PROVE  IsPrefix(blocks, blocks')
    OBVIOUS
  <2>1. PICK t \in Thread : Push(t) \/ Assign(t)
    BY ChainWriters DEF Next, vars, shared
  <2>2. blocks \in Seq(Block) /\ block[t] \in Block /\ copy \in Seq(Block)
    BY DEF TypeOK
  <2>3. CASE Push(t)
    BY <2>2, <2>3, AppendType DEF Push, IsPrefix
  <2>4. CASE Assign(t)
    BY <2>2, <2>4 DEF Assign, LockInv, IsPrefix
  <2> QED BY <2>1, <2>3, <2>4
<1>2. Spec => [](TypeOK /\ LockInv)
  BY TypeInit, TypeNext, PTL DEF Spec
<1> QED BY <1>1, <1>2, PTL DEF Spec, AppendOnly
-----------------------------------------------------------------------------
(***************************************************************************)
(* Where transactions come from: those a node holds, in its pool, in its   *)
(* blocks, in what its threads work on and in what is on its way, are the  *)
(* ones that entered it, with a fee taken off or another key.              *)
(***************************************************************************)
InPool(S, p) == \A s \in DOMAIN p : p[s] \in S

InTxs(S, txs) == \A i \in DOMAIN txs : txs[i] \in S

InBlocks(S, bs) == \A i \in DOMAIN bs : InTxs(S, bs[i].txs)

HeldIn(S, t) == InPool(S, todo[t]) /\ InTxs(S, batch[t]) /\ InTxs(S, block[t].txs)

SharedIn(S) ==
    /\ InPool(S, pool) /\ sent \subseteq S
    /\ InBlocks(S, blocks) /\ InBlocks(S, theirs) /\ InBlocks(S, copy)
    /\ \A a \in answers : InBlocks(S, a.blocks)

\* The transaction a thread is still checking is not counted.
AllIn(S) == SharedIn(S) /\ \A t \in Thread : HeldIn(S, t)

\* What is in S stays in S, and so do the transactions peers send.
Closed(S) ==
    /\ S \subseteq Tx /\ RemoteTx \subseteq S
    /\ \A x \in S : charge(x) \in S /\ keyed(x) \in S

LEMMA InAppend ==
    ASSUME NEW S, S \subseteq Tx, NEW txs \in Seq(Tx), InTxs(S, txs), NEW x \in S
    PROVE  InTxs(S, Append(txs, x))
BY DEF InTxs

LEMMA InNothing == ASSUME NEW S PROVE InTxs(S, <<>>) /\ InTxs(S, NoBlock.txs)
BY DEF InTxs, NoBlock, GenesisBlock

LEMMA AllInWider ==
    ASSUME NEW S, NEW T, S \subseteq T, AllIn(S)
    PROVE  AllIn(T)
BY DEF AllIn, SharedIn, HeldIn, InPool, InTxs, InBlocks

LEMMA AllInInit == ASSUME NEW S, Init PROVE AllIn(S)
<1>1. InBlocks(S, blocks)
  BY DEF Init, GenesisBlocks, GenesisBlock, InBlocks, InTxs
<1> QED BY <1>1, InNothing DEF Init, AllIn, SharedIn, HeldIn, InPool, InBlocks, NoTxs

LEMMA LongerIn ==
    ASSUME NEW S, Closed(S), sent \subseteq S,
           NEW chain \in Seq(Block), chain # <<>>, InBlocks(S, chain), NEW id \in Nat,
           \A p \in Address, r \in Int : rewardTx(id, p, r) \in S,
           NEW c \in Longer(chain, id)
    PROVE  InBlocks(S, c)
<1>1. PICK p \in Winners(chain), d \in Draw,
           x \in {x \in sent \cup RemoteTx : x.id \notin ChainIds(chain)} :
           c = Append(chain, peerBlock(p, x, id, Last(chain), d))
  BY DEF Longer
<1> DEFINE txs == <<charge(x), rewardTx(id, p, fee(x))>>
           b == peerBlock(p, x, id, Last(chain), d)
<1>2. p \in Address /\ x \in S /\ x \in Tx
  BY <1>1, ThreadAssumption DEF Winners, Closed
<1>3. charge(x) \in S /\ rewardTx(id, p, fee(x)) \in S
  BY <1>2, ChargeType DEF Closed
<1>4. DOMAIN txs = 1..2 /\ \A i \in 1..2 : txs[i] \in S
  BY <1>3
<1>5. b.txs = [i \in DOMAIN txs |-> keyed(txs[i])]
  BY DEF peerBlock, keyedBlock
<1> HIDE DEF txs
<1>6. InTxs(S, b.txs)
  BY <1>4, <1>5 DEF InTxs, Closed
<1> HIDE DEF b
<1>7. DOMAIN c = 1..(Len(chain) + 1) /\ c[Len(chain) + 1] = b /\ \A i \in 1..Len(chain) : c[i] = chain[i]
  BY <1>1 DEF b
<1> QED BY <1>6, <1>7 DEF InBlocks

LEMMA PeerChainIn ==
    ASSUME TypeOK, NEW S, Closed(S), SharedIn(S), NEW c \in PeerChains,
           \A id \in {uuid, uuid + 1}, p \in Address, r \in Int : rewardTx(id, p, r) \in S
    PROVE  InBlocks(S, c)
<1> DEFINE base(n) == SubSeq(blocks, 1, n)
           one(n) == Longer(base(n), uuid)
           next == uuid + 1
<1>1. PICK n \in DOMAIN blocks :
           c \in one(n) \/ \E a \in one(n) : c \in Longer(a, next)
  BY DEF PeerChains
<1>2. /\ sent \cup RemoteTx \subseteq Tx /\ uuid \in Nat /\ next \in Nat /\ sent \subseteq S
      /\ \A p \in Address, r \in Int : rewardTx(uuid, p, r) \in S /\ rewardTx(next, p, r) \in S
  BY ThreadAssumption DEF TypeOK, SharedIn
<1>4. base(n) \in Seq(Block) /\ base(n) # <<>> /\ InBlocks(S, base(n))
  <2>1. n \in 1..Len(blocks) /\ blocks \in Seq(Block) /\ InBlocks(S, blocks)
    BY <1>1 DEF TypeOK, SharedIn
  <2> QED BY <2>1 DEF InBlocks
<1> HIDE DEF base, next
<1>5. ASSUME NEW a \in one(n) PROVE a \in Seq(Block) /\ a # <<>> /\ InBlocks(S, a)
  BY <1>2, <1>4, LongerType, LongerIn
<1>6. ASSUME NEW a \in one(n), c \in Longer(a, next) PROVE InBlocks(S, c)
  <2>1. a \in Seq(Block) /\ a # <<>> /\ InBlocks(S, a)
    BY <1>5
  <2> QED BY <1>2, <1>6, <2>1, LongerIn
<1> QED BY <1>1, <1>5, <1>6

\* What the other threads hold stays as it is.
LEMMA OthersHold ==
    ASSUME TypeOK, NEW t \in Thread, Call(t) \/ Step(t), NEW u \in Thread \ {t}
    PROVE  todo'[u] = todo[u] /\ batch'[u] = batch[u] /\ block'[u] = block[u]
BY DEF TypeOK, Call, Step, Handle, Forge, Commit, Adopt, Download, Submit, ReceiveTx, ReceiveBlock,
       PoolCheck, ChainCheck, Cover, Add, Required, Poll, NextForger, NextForgerAgain,
       Elect, Refund, Erase, ClearPool, Decide, StartReward, Charge, PayReward,
       CreateBlock, Execute, Push, RemoveFromPool, CheckCount, requestChain, CheckLink,
       CheckForger, AddBlock, ReceiveChain, Replay, Assign, Check, Return, forging

\* A thread takes what it holds from the pool or from a peer, and adds its reward.
LEMMA HeldNext ==
    ASSUME TypeOK, NEW S, S \subseteq Tx, \A x \in S : charge(x) \in S, InPool(S, pool),
           NEW t \in Thread, Call(t) \/ Step(t), HeldIn(S, t),
           ReceiveBlock(t) => InTxs(S, block'[t].txs),
           PayReward(t) => rewardTx(uuid, Me, reward[t]) \in S
    PROVE  HeldIn(S, t)'
<1> USE DEF forging
<1>1. UNCHANGED <<todo, batch, block>> => HeldIn(S, t)'
  BY DEF HeldIn
<1>2. ASSUME Return(t) \/ \E ok, l : Check(t, ok, l)
      PROVE  HeldIn(S, t)'
  <2>1. /\ UNCHANGED todo
        /\ UNCHANGED batch \/ batch' = [batch EXCEPT ![t] = <<>>]
        /\ UNCHANGED block \/ block' = [block EXCEPT ![t] = NoBlock]
    BY <1>2 DEF Check, Return
  <2>2. todo'[t] = todo[t] /\ batch'[t] \in {batch[t], <<>>} /\ block'[t] \in {block[t], NoBlock}
    BY <2>1 DEF TypeOK
  <2> QED BY <2>2, InNothing DEF HeldIn
<1>3. CASE Handle(t) \/ CheckLink(t) \/ CheckForger(t)
  BY <1>1, <1>2, <1>3
  DEF Handle, PoolCheck, ChainCheck, Cover, Required, Add, CheckLink, CheckForger
<1>4. CASE Decide(t) \/ requestChain(t) \/ RemoveFromPool(t)
  BY <1>1, <1>2, <1>4 DEF Decide, requestChain, RemoveFromPool
<1>5. CASE \/ Submit(t) \/ ReceiveTx(t) \/ Poll(t) \/ NextForger(t) \/ NextForgerAgain(t)
           \/ Refund(t) \/ Erase(t) \/ ClearPool(t) \/ Execute(t) \/ Push(t)
           \/ CheckCount(t) \/ AddBlock(t) \/ Download(t)
  BY <1>1, <1>5 DEF Submit, ReceiveTx, Poll, NextForger, NextForgerAgain, Elect, Refund,
                    Erase, ClearPool, Execute, Push, CheckCount, AddBlock,
                    Download, ReceiveChain, Replay, Assign
<1>6. CASE StartReward(t)
  BY <1>6 DEF StartReward, HeldIn, TypeOK
<1>7. CASE Charge(t)
  <2>1. PICK s \in DOMAIN todo[t] :
        /\ \/ UNCHANGED batch
           \/ s \in DOMAIN pool /\ batch' = [batch EXCEPT ![t] = Append(batch[t], charge(pool[s]))]
           \/ batch' = [batch EXCEPT ![t] = Append(batch[t], charge(todo[t][s]))]
        /\ todo' = [todo EXCEPT ![t] = Restrict(todo[t], DOMAIN todo[t] \ {s})]
        /\ UNCHANGED block
    BY <1>7 DEF Charge
  <2>2. charge(todo[t][s]) \in S /\ (s \in DOMAIN pool => charge(pool[s]) \in S)
    BY DEF HeldIn, InPool
  <2>3. InTxs(S, batch'[t])
    <3>1. batch[t] \in Seq(Tx) /\ InTxs(S, batch[t])
      BY DEF TypeOK, HeldIn
    <3>2. /\ InTxs(S, Append(batch[t], charge(todo[t][s])))
          /\ s \in DOMAIN pool => InTxs(S, Append(batch[t], charge(pool[s])))
      BY <2>2, <3>1, InAppend
    <3> QED BY <2>1, <3>1, <3>2 DEF TypeOK
  <2>4. InPool(S, todo'[t])
    BY <2>1 DEF HeldIn, InPool, Restrict, TypeOK
  <2> QED BY <2>1, <2>3, <2>4 DEF HeldIn
<1>8. CASE PayReward(t)
  <2> DEFINE x == rewardTx(uuid, Me, reward[t])
  <2>1. UNCHANGED <<todo, block>> /\ batch' = [batch EXCEPT ![t] = Append(batch[t], x)] /\ x \in S
    BY <1>8 DEF PayReward
  <2>2. batch[t] \in Seq(Tx) /\ InTxs(S, batch[t])
    BY DEF TypeOK, HeldIn
  <2> HIDE DEF x
  <2>3. InTxs(S, Append(batch[t], x))
    BY <2>1, <2>2, InAppend
  <2> QED BY <2>1, <2>3 DEF HeldIn, TypeOK
<1>9. CASE CreateBlock(t)
  <2>1. PICK d \in Draw : block' = [block EXCEPT ![t] = newBlock(batch[t], d)]
    BY <1>9 DEF CreateBlock
  <2>2. UNCHANGED <<todo, batch>> /\ newBlock(batch[t], d).txs = batch[t]
    BY <1>9 DEF CreateBlock, newBlock
  <2> QED BY <2>1, <2>2 DEF HeldIn, TypeOK
<1>10. CASE ReceiveBlock(t)
  BY <1>10 DEF ReceiveBlock, HeldIn
<1> QED
  BY <1>3, <1>4, <1>5, <1>6, <1>7, <1>8, <1>9, <1>10 DEF Call, Step, Forge, Commit, Adopt

\* What everybody sees comes from the threads, the pool and the peers.
LEMMA SharedNext ==
    ASSUME TypeOK, NEW S, Closed(S), AllIn(S), NEW t \in Thread, Call(t) \/ Step(t),
           Add(t) => tx[t] \in S, ReceiveBlock(t) => InBlocks(S, theirs')
    PROVE  SharedIn(S)'
<1> USE DEF shared, messages, counters
<1>1. UNCHANGED <<pool, blocks, messages>> => SharedIn(S)'
  BY DEF AllIn, SharedIn
<1>2. CASE \/ Submit(t) \/ ReceiveTx(t) \/ PoolCheck(t) \/ ChainCheck(t) \/ Cover(t) \/ Required(t)
           \/ CheckLink(t) \/ CheckForger(t) \/ AddBlock(t) \/ Poll(t) \/ Execute(t) \/ Replay(t)
  BY <1>1, <1>2 DEF Submit, ReceiveTx, PoolCheck, ChainCheck, Cover, Required, CheckLink,
                    CheckForger, AddBlock, Poll, Execute, Replay
<1>3. CASE \/ NextForger(t) \/ NextForgerAgain(t) \/ Refund(t) \/ Erase(t) \/ Decide(t)
           \/ StartReward(t) \/ PayReward(t) \/ CreateBlock(t)
  BY <1>1, <1>3 DEF NextForger, NextForgerAgain, Elect, Refund, Erase, Decide, StartReward,
                    PayReward, CreateBlock
<1>4. CASE Add(t)
  <2>1. /\ pool' = pushed(pool, tx[t]) /\ sent' \in {sent, sent \cup {tx[t]}}
        /\ UNCHANGED <<blocks, theirs, copy, answers>> /\ tx[t] \in S
    BY <1>4 DEF Add
  <2>2. InPool(S, pool')
    BY <2>1 DEF AllIn, SharedIn, InPool, pushed
  <2> QED BY <2>1, <2>2 DEF AllIn, SharedIn
<1>5. CASE ClearPool(t)
  <2>1. UNCHANGED <<blocks, messages>> /\ pool' \in {pool, NoTxs}
    BY <1>5 DEF ClearPool
  <2>2. InPool(S, NoTxs)
    BY DEF InPool, NoTxs
  <2> QED BY <2>1, <2>2 DEF AllIn, SharedIn
<1>6. CASE Charge(t)
  <2>1. PICK s \in DOMAIN todo[t] :
           \/ UNCHANGED pool
           \/ s \in DOMAIN pool /\ pool' = [pool EXCEPT ![s] = charge(pool[s])]
    BY <1>6 DEF Charge
  <2>2. InPool(S, pool')
    BY <2>1 DEF AllIn, SharedIn, InPool, Closed
  <2> QED BY <1>6, <2>2 DEF Charge, AllIn, SharedIn
<1>7. CASE Push(t)
  <2>1. blocks' = Append(blocks, block[t]) /\ UNCHANGED <<pool, messages>>
    BY <1>7 DEF Push
  <2>2. blocks \in Seq(Block) /\ block[t] \in Block /\ InTxs(S, block[t].txs)
    BY DEF TypeOK, AllIn, HeldIn
  <2>3. InBlocks(S, blocks')
    BY <2>1, <2>2 DEF AllIn, SharedIn, InBlocks
  <2> QED BY <2>1, <2>3 DEF AllIn, SharedIn
<1>8. CASE RemoveFromPool(t)
  <2>1. UNCHANGED <<blocks, messages>> /\ pool' = Without(pool, Ids(block[t].txs))
    BY <1>8 DEF RemoveFromPool
  <2> QED BY <2>1 DEF AllIn, SharedIn, InPool, Without, Restrict
<1>9. CASE ReceiveBlock(t)
  BY <1>9 DEF ReceiveBlock, AllIn, SharedIn
<1>10. CASE CheckCount(t)
  <2>1. theirs' \in {theirs, <<>>} /\ UNCHANGED <<pool, blocks, copy, answers, sent>>
    BY <1>10 DEF CheckCount
  <2> QED BY <2>1 DEF AllIn, SharedIn, InBlocks
<1>11. CASE requestChain(t)
  <2> DEFINE missing == SubSeq(theirs, Len(blocks) + 1, Len(theirs))
  <2>1. /\ theirs' = <<>> /\ UNCHANGED <<pool, blocks, copy, sent>>
        /\ \/ answers' = answers
           \/ answers' = answers \cup {[blocks |-> missing, left |-> Answers]}
    BY <1>11 DEF requestChain
  <2>2. InBlocks(S, missing)
    BY DEF AllIn, SharedIn, InBlocks, TypeOK
  <2> HIDE DEF missing
  <2> QED BY <2>1, <2>2 DEF AllIn, SharedIn, InBlocks
<1>12. CASE ReceiveChain(t)
  <2>1. PICK a \in answers : answers' = taken(a) /\ copy' \in {copy, blocks \o a.blocks}
    BY <1>12 DEF ReceiveChain
  <2>2. UNCHANGED <<pool, blocks, theirs, sent>>
    BY <1>12 DEF ReceiveChain
  <2>3. a.blocks \in Seq(Block) /\ blocks \in Seq(Block)
    BY DEF TypeOK
  <2>4. InBlocks(S, blocks \o a.blocks)
    BY <2>3 DEF AllIn, SharedIn, InBlocks
  <2>5. \A b \in answers' : InBlocks(S, b.blocks)
    BY <2>1, TakenType DEF AllIn, SharedIn
  <2> QED BY <2>1, <2>2, <2>4, <2>5 DEF AllIn, SharedIn
<1>13. CASE Assign(t)
  <2>1. blocks' = copy /\ copy' = <<>> /\ UNCHANGED <<pool, theirs, answers, sent>>
    BY <1>13 DEF Assign
  <2> QED BY <2>1 DEF AllIn, SharedIn, InBlocks
<1> QED
  BY <1>2, <1>3, <1>4, <1>5, <1>6, <1>7, <1>8, <1>9, <1>10, <1>11, <1>12, <1>13
  DEF Call, Step, Handle, Forge, Commit, Adopt, Download

\* A step brings in what it adds to the pool, rewards, and what peers make of both.
LEMMA AllInNext ==
    ASSUME TypeOK, NEW S, Closed(S), AllIn(S), NEW t \in Thread, Call(t) \/ Step(t),
           Add(t) => tx[t] \in S,
           \A id \in Nat, a \in Address, r \in Int :
               uuid <= id /\ id < uuid' => rewardTx(id, a, r) \in S
    PROVE  AllIn(S)'
<1>1. uuid \in Nat
  BY DEF TypeOK
<1>2. ASSUME ReceiveBlock(t)
      PROVE  InBlocks(S, theirs') /\ InTxs(S, block'[t].txs)
  <2>1. theirs' \in PeerChains /\ block' = [block EXCEPT ![t] = Last(theirs')] /\ uuid' = uuid + 2
    BY <1>2 DEF ReceiveBlock
  <2>2. \A id \in {uuid, uuid + 1}, p \in Address, r \in Int : rewardTx(id, p, r) \in S
    BY <1>1, <2>1
  <2>3. InBlocks(S, theirs') /\ theirs' \in Seq(Block) /\ theirs' # <<>>
    BY <2>1, <2>2, PeerChainIn, PeerChainType DEF AllIn
  <2>4. InTxs(S, Last(theirs').txs)
    BY <2>3 DEF InBlocks, Last
  <2> QED BY <2>1, <2>3, <2>4 DEF TypeOK
<1>3. ASSUME PayReward(t) PROVE rewardTx(uuid, Me, reward[t]) \in S
  <2>1. uuid' = uuid + 1 /\ Me \in Address /\ reward[t] \in Int
    BY <1>3, LedgerAssumption, ThreadAssumption DEF PayReward, TypeOK
  <2> QED BY <1>1, <2>1
<1>4. SharedIn(S)'
  BY <1>2, SharedNext
<1>5. HeldIn(S, t)'
  BY <1>2, <1>3, HeldNext DEF AllIn, SharedIn, Closed
<1>6. ASSUME NEW u \in Thread \ {t} PROVE HeldIn(S, u)'
  BY OthersHold DEF AllIn, HeldIn
<1> QED BY <1>4, <1>5, <1>6 DEF AllIn

LEMMA AllInStutter == ASSUME NEW S, AllIn(S), UNCHANGED vars PROVE AllIn(S)'
BY DEF AllIn, SharedIn, HeldIn, vars, shared, messages, forging

\* Past the first check the transaction a thread handles stays what it is.
LEMMA TxWriters ==
    ASSUME NEW t \in Thread, Call(t) \/ Step(t), ~Submit(t), ~ReceiveTx(t)
    PROVE  UNCHANGED tx \/ tx' = [tx EXCEPT ![t] = NoTx]
BY DEF Call, Step, Handle, Forge, Commit, Adopt, Download, ReceiveBlock,
       PoolCheck, ChainCheck, Cover, Add, Required, Poll, NextForger, NextForgerAgain,
       Elect, Refund, Erase, ClearPool, Decide, StartReward, Charge, PayReward,
       CreateBlock, Execute, Push, RemoveFromPool, CheckCount, requestChain, CheckLink,
       CheckForger, AddBlock, ReceiveChain, Replay, Assign, Check, Return
\* Where the other threads are stays as it is.
LEMMA OthersStay ==
    ASSUME TypeOK, NEW t \in Thread, Call(t) \/ Step(t), NEW u \in Thread \ {t}
    PROVE  pc'[u] = pc[u] /\ tx'[u] = tx[u]
BY DEF TypeOK, Call, Step, Handle, Forge, Commit, Adopt, Download, Submit, ReceiveTx, ReceiveBlock,
       PoolCheck, ChainCheck, Cover, Add, Required, Poll, NextForger, NextForgerAgain,
       Elect, Refund, Erase, ClearPool, Decide, StartReward, Charge, PayReward,
       CreateBlock, Execute, Push, RemoveFromPool, CheckCount, requestChain, CheckLink,
       CheckForger, AddBlock, ReceiveChain, Replay, Assign, Check, Return, Goto, forging

\* What is broadcast is what has just been added.
LEMMA SentWriters ==
    ASSUME NEW t \in Thread, Call(t) \/ Step(t), ~Add(t)
    PROVE  UNCHANGED sent
BY DEF Call, Step, Handle, Forge, Commit, Adopt, Download, Submit, ReceiveTx, ReceiveBlock,
       PoolCheck, ChainCheck, Cover, Required, Poll, NextForger, NextForgerAgain,
       Elect, Refund, Erase, ClearPool, Decide, StartReward, Charge, PayReward,
       CreateBlock, Execute, Push, RemoveFromPool, CheckCount, requestChain, CheckLink,
       CheckForger, AddBlock, ReceiveChain, Replay, Assign, messages

\* A thread cleans the pool after a push and never otherwise.
LEMMA OnlyPushed ==
    ASSUME TypeOK, NEW t \in Thread, Call(t) \/ Step(t), ~Push(t)
    PROVE  pc'[t] # "remove"
BY DEF TypeOK, Call, Step, Handle, Forge, Commit, Adopt, Download, Submit, ReceiveTx, ReceiveBlock,
       PoolCheck, ChainCheck, Cover, Add, Required, Poll, NextForger, NextForgerAgain,
       Elect, Refund, Erase, ClearPool, Decide, StartReward, Charge, PayReward,
       CreateBlock, Execute, RemoveFromPool, CheckCount, requestChain, CheckLink,
       CheckForger, AddBlock, ReceiveChain, Replay, Assign, Check, Return, Goto
\* Numbers are given out one after the other.
LEMMA CounterGrows ==
    ASSUME TypeOK, NEW t \in Thread, Call(t) \/ Step(t)
    PROVE  uuid' >= uuid
<1>1. uuid \in Nat
  BY DEF TypeOK
<1>2. uuid' \in {uuid, uuid + 1, uuid + 2}
  BY DEF Call, Step, Handle, Forge, Commit, Adopt, Download, Submit, ReceiveTx, ReceiveBlock,
       PoolCheck, ChainCheck, Cover, Add, Required, Poll, NextForger, NextForgerAgain,
       Elect, Refund, Erase, ClearPool, Decide, StartReward, Charge, PayReward,
       CreateBlock, Execute, Push, RemoveFromPool, CheckCount, requestChain, CheckLink,
       CheckForger, AddBlock, ReceiveChain, Replay, Assign, counters
<1> QED BY <1>1, <1>2
\* What was thrown away is not forgotten.
LEMMA DropsStay ==
    ASSUME NEW t \in Thread, Call(t) \/ Step(t)
    PROVE  dropped \subseteq dropped'
BY DEF Call, Step, Handle, Forge, Commit, Adopt, Download, Submit, ReceiveTx, ReceiveBlock,
       PoolCheck, ChainCheck, Cover, Add, Required, Poll, NextForger, NextForgerAgain,
       Elect, Refund, Erase, ClearPool, Decide, StartReward, Charge, PayReward,
       CreateBlock, Execute, Push, RemoveFromPool, CheckCount, requestChain, CheckLink,
       CheckForger, AddBlock, ReceiveChain, Replay, Assign, counters
=============================================================================
