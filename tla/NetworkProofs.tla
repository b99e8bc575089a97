---------------------------- MODULE NetworkProofs ----------------------------
(***************************************************************************)
(* Theorems about any number of nodes and what they send each other: what  *)
(* the variables hold; that nodes with one chain have one ledger; and,     *)
(* where only the master forges, that the network has one chain and at     *)
(* rest every node all of it.                                              *)
(***************************************************************************)
EXTENDS NetworkProperties, LedgerProofs

-----------------------------------------------------------------------------
(***************************************************************************)
(* One invariant serves twice.  S is a set of transactions that users may  *)
(* ask for and that handling, charging and rewarding do not leave: all of  *)
(* them, or those that stake for their own sender.  Every pool, block and  *)
(* message then holds members of S.                                        *)
(***************************************************************************)
request(r, id) ==
    [id |-> id, type |-> r.type, sender |-> r.sender, receiver |-> r.receiver,
     amount |-> r.amount, key |-> publicKey(r.sender)]

Closed(S) ==
    /\ S \subseteq Tx
    /\ \A x \in S : charge(x) \in S /\ keyed(x) \in S
    /\ \A n \in Node, id \in Nat, r \in Int : rewardTx(id, walletOf[n], r) \in S
    /\ \A n \in Node : \A r \in Requests[n], id \in Nat : request(r, id) \in S

BlockOf(S) ==
    [count : Nat, hash : Hash, lastHash : Hash, forger : Address, txs : Seq(S)]

\* What m sends: a request for the chain names the one that asks.
MessageFrom(S, m) ==
    [kind : {"TRANSACTION"}, tx : S] \cup [kind : {"BLOCK"}, block : BlockOf(S)]
    \cup [kind : {"BLOCKCHAIN"}, blocks : Seq(BlockOf(S))]
    \cup [kind : {"BLOCKCHAINREQUEST"}, from : {m}, size : Nat]

IsNode(S, s) ==
    /\ DOMAIN s = {"blocks", "ledger", "pool"}
    /\ s.blocks \in Seq(BlockOf(S)) /\ s.blocks # <<>>
    /\ s.pool \in Seq(S)

IsOutcome(S, n, o) ==
    /\ DOMAIN o = {"node", "sent"}
    /\ IsNode(S, o.node) /\ o.sent \in Seq(MessageFrom(S, n))

\* Only nodes in u are written to or write.
IsWire(S, u, w) ==
    /\ w = [m \in Node |-> [n \in Node |-> w[m][n]]]
    /\ \A m, n \in Node : /\ w[m][n] \in Seq(MessageFrom(S, m))
                          /\ w[m][n] # <<>> => m \in u /\ n \in u /\ m # n

\* Only nodes in u know or are known.
IsPeers(u, ps) ==
    /\ ps = [n \in Node |-> ps[n]]
    /\ \A n \in Node : ps[n] \subseteq u \ {n} /\ (ps[n] # {} => n \in u)

Typed(S) ==
    /\ up \subseteq Node /\ Master \in up
    /\ node = [n \in Node |-> node[n]] /\ \A n \in Node : IsNode(S, node[n])
    /\ IsPeers(up, peers)
    /\ IsWire(S, up, wire)
    /\ uuid \in Nat
    /\ budget \in [submit : Nat, start : Nat]

LEMMA ClosedTx == Closed(Tx)
<1>1. \A x \in Tx : charge(x) \in Tx /\ keyed(x) \in Tx
  BY ChargeType, KeyedType
<1>2. ASSUME NEW n \in Node, NEW id \in Nat, NEW r \in Int
      PROVE  rewardTx(id, walletOf[n], r) \in Tx
  BY RewardType, NetworkAssumption
<1>3. ASSUME NEW n \in Node, NEW r \in Requests[n], NEW id \in Nat
      PROVE  request(r, id) \in Tx
  BY NetworkAssumption, LedgerAssumption DEF request, Tx, publicKey, Key
<1> QED BY <1>1, <1>2, <1>3 DEF Closed

\* Every STAKE that is asked for is for its own sender.
StakesForOneself == \A n \in Node : \A r \in Requests[n] : SelfStake(r)

LEMMA ClosedSelf == ASSUME StakesForOneself PROVE Closed(SelfTx)
<1>1. \A x \in SelfTx : charge(x) \in SelfTx /\ keyed(x) \in SelfTx
  BY ClosedTx, SelfKept DEF Closed, SelfTx
<1>2. \A n \in Node, id \in Nat, r \in Int : rewardTx(id, walletOf[n], r) \in SelfTx
  BY ClosedTx, SelfReward DEF Closed, SelfTx
<1>3. ASSUME NEW n \in Node, NEW r \in Requests[n], NEW id \in Nat
      PROVE  request(r, id) \in SelfTx
  BY ClosedTx DEF Closed, SelfTx, StakesForOneself, SelfStake, request
<1> QED BY <1>1, <1>2, <1>3 DEF Closed, SelfTx

-----------------------------------------------------------------------------
(***************************************************************************)
(* What the handlers make of a node.                                       *)
(***************************************************************************)
LEMMA RemoveFold ==
    ASSUME NEW S, NEW s \in Seq(S), NEW p
    PROVE  removeFromPool(s, p) = fold("keep", p, <<>>, s)
<1> DEFINE n == Len(s)
           F == CHOOSE f : f = [i \in 0..n |->
                      IF i = 0 THEN <<>>
                      ELSE IF s[i].id \in p THEN f[i - 1] ELSE Append(f[i - 1], s[i])]
<1>1. n \in Nat /\ removeFromPool(s, p) = F[n]
  BY DEF removeFromPool
<1> HIDE DEF n, F
<1>2. \A f, i : Op("keep", p, f[i - 1], s[i]) = spared(p, f[i - 1], s[i])
  BY Steps
<1>3. PICK g : Folds("keep", p, <<>>, s, n, g)
  BY <1>1, FoldExists
<1>4. g = [i \in 0..n |-> IF i = 0 THEN <<>> ELSE spared(p, g[i - 1], s[i])]
  BY <1>2, <1>3 DEF Folds
<1>5. F = [i \in 0..n |-> IF i = 0 THEN <<>> ELSE spared(p, F[i - 1], s[i])]
  BY <1>4 DEF F, spared
<1>6. Folds("keep", p, <<>>, s, n, F)
  BY <1>2, <1>5 DEF Folds
<1> QED BY <1>1, <1>6, FoldValue DEF n

\* What is left of a pool was in it.
LEMMA RemoveType ==
    ASSUME NEW S, NEW s \in Seq(S), NEW p
    PROVE  removeFromPool(s, p) \in Seq(S)
<1> DEFINE n == Len(s)
<1>1. n \in Nat /\ \A i \in 1..n : s[i] \in S
  OBVIOUS
<1> HIDE DEF n
<1>2. PICK f : Folds("keep", p, <<>>, s, n, f)
  BY <1>1, FoldExists
<1> DEFINE I == {i \in Nat : f[i] \in Seq(S)}
<1>3. 0 \in I
  <2>1. 0 \in 0..n
    BY <1>1
  <2>2. f[0] = <<>>
    BY <1>2, <2>1 DEF Folds
  <2>3. f[0] \in Seq(S)
    BY <2>2
  <2> QED BY <2>3
<1>4. ASSUME NEW i \in 0..(n - 1), i \in I PROVE i + 1 \in I
  <2>1. i + 1 \in 0..n /\ i + 1 \in 1..n /\ i + 1 # 0 /\ (i + 1) - 1 = i
    BY <1>1
  <2>2. f[i + 1] = Op("keep", p, f[i], s[i + 1])
    BY <1>2, <2>1 DEF Folds
  <2>3. f[i + 1] = spared(p, f[i], s[i + 1])
    BY <2>2, Steps
  <2>4. f[i] \in Seq(S) /\ s[i + 1] \in S
    BY <1>1, <1>4, <2>1
  <2>5. \A l \in Seq(S), x \in S : spared(p, l, x) \in Seq(S)
    BY DEF spared
  <2>6. f[i + 1] \in Seq(S)
    BY <2>3, <2>4, <2>5
  <2> QED BY <2>1, <2>6
<1> HIDE DEF I
<1>5. 0..n \subseteq I
  BY <1>1, <1>3, <1>4, Induction
<1>6. f[n] \in Seq(S)
  BY <1>1, <1>5 DEF I
<1>7. removeFromPool(s, p) = f[n]
  BY <1>2, RemoveFold, FoldValue DEF n
<1> QED BY <1>6, <1>7

\* Fees are whole numbers.
LEMMA FeesType ==
    ASSUME NEW s \in Seq(Tx)
    PROVE  fees(s) \in Int
<1> DEFINE n == Len(s)
<1>1. n \in Nat /\ \A i \in 1..n : s[i] \in Tx
  OBVIOUS
<1> HIDE DEF n
<1>2. PICK f : Folds("fee", {}, 0, s, n, f)
  BY <1>1, FoldExists
<1> DEFINE I == {i \in Nat : f[i] \in Int}
<1>3. 0 \in I
  <2>1. 0 \in 0..n
    BY <1>1
  <2>2. f[0] = 0
    BY <1>2, <2>1 DEF Folds
  <2> QED BY <2>2
<1>4. ASSUME NEW i \in 0..(n - 1), i \in I PROVE i + 1 \in I
  <2>1. i + 1 \in 0..n /\ i + 1 \in 1..n /\ i + 1 # 0 /\ (i + 1) - 1 = i
    BY <1>1
  <2>2. f[i + 1] = Op("fee", {}, f[i], s[i + 1])
    BY <1>2, <2>1 DEF Folds
  <2>3. f[i + 1] = f[i] + fee(s[i + 1])
    BY <2>2, Steps
  <2>4. f[i] \in Int /\ fee(s[i + 1]) \in Int
    BY <1>1, <1>4, <2>1, ChargeType
  <2> QED BY <2>1, <2>3, <2>4
<1> HIDE DEF I
<1>5. 0..n \subseteq I
  BY <1>1, <1>3, <1>4, Induction
<1>6. f[n] \in Int
  BY <1>1, <1>5 DEF I
<1>7. fees(s) = f[n]
  BY <1>2, FeeFold, FoldValue DEF n
<1> QED BY <1>6, <1>7
\* A block from the wire.
LEMMA KeyedBlockType ==
    ASSUME NEW S, Closed(S), NEW b \in BlockOf(S)
    PROVE  keyedBlock(b) \in BlockOf(S)
<1> DEFINE txs == [i \in DOMAIN b.txs |-> keyed(b.txs[i])]
<1>1. b.txs \in Seq(S) /\ \A x \in S : keyed(x) \in S
  BY DEF BlockOf, Closed
<1>2. txs \in Seq(S)
  <2>1. DOMAIN b.txs = 1..Len(b.txs) /\ Len(b.txs) \in Nat
        /\ \A i \in 1..Len(b.txs) : keyed(b.txs[i]) \in S
    BY <1>1
  <2> QED BY <2>1
<1>3. keyedBlock(b) = [b EXCEPT !.txs = txs]
  BY DEF keyedBlock
<1> HIDE DEF txs
<1> QED BY <1>2, <1>3 DEF BlockOf

LEMMA KeyedChainType ==
    ASSUME NEW S, Closed(S), NEW bs \in Seq(BlockOf(S))
    PROVE  [i \in DOMAIN bs |-> keyedBlock(bs[i])] \in Seq(BlockOf(S))
<1>1. DOMAIN bs = 1..Len(bs) /\ Len(bs) \in Nat /\ \A i \in 1..Len(bs) : bs[i] \in BlockOf(S)
  OBVIOUS
<1>2. \A i \in 1..Len(bs) : keyedBlock(bs[i]) \in BlockOf(S)
  BY <1>1, KeyedBlockType
<1> QED BY <1>1, <1>2

LEMMA AddBlockType ==
    ASSUME NEW S, NEW s, IsNode(S, s), NEW b \in BlockOf(S)
    PROVE  IsNode(S, addBlock(s, b))
<1>1. Append(s.blocks, b) \in Seq(BlockOf(S)) /\ Append(s.blocks, b) # <<>>
  BY AppendType DEF IsNode
<1>2. removeFromPool(s.pool, Ids(b.txs)) \in Seq(S)
  BY RemoveType DEF IsNode
<1> QED BY <1>1, <1>2 DEF IsNode, addBlock

LEMMA UncloggedType ==
    ASSUME NEW S, NEW s, IsNode(S, s)
    PROVE  IsNode(S, unclogged(s))
<1> DEFINE dead == forgerOf(s.ledger, tip(s).lastHash)
           l == eraseStaker(refundStake(s.ledger, dead), dead)
           p == IF Len(s.pool) > DeadLimit THEN <<>> ELSE s.pool
<1>1. unclogged(s) = s \/ unclogged(s) = [s EXCEPT !.ledger = l, !.pool = p]
  BY DEF unclogged
<1>2. p \in Seq(S)
  BY DEF IsNode
<1> HIDE DEF l, p
<1> QED BY <1>1, <1>2 DEF IsNode

LEMMA RewardedType ==
    ASSUME NEW S, Closed(S), NEW n \in Node, NEW s, IsNode(S, s), NEW id \in Nat
    PROVE  rewarded(n, s, id) \in Seq(S)
<1> DEFINE txs == [i \in DOMAIN s.pool |-> charge(s.pool[i])]
<1>1. s.pool \in Seq(S) /\ s.pool \in Seq(Tx)
  BY DEF IsNode, Closed
<1>2. txs \in Seq(S)
  <2>1. DOMAIN s.pool = 1..Len(s.pool) /\ Len(s.pool) \in Nat
        /\ \A i \in 1..Len(s.pool) : s.pool[i] \in S
    BY <1>1
  <2>2. \A i \in 1..Len(s.pool) : charge(s.pool[i]) \in S
    BY <2>1 DEF Closed
  <2> QED BY <2>1, <2>2
<1>3. rewardTx(id, walletOf[n], fees(s.pool)) \in S
  BY <1>1, FeesType DEF Closed
<1>4. rewarded(n, s, id) = Append(txs, rewardTx(id, walletOf[n], fees(s.pool)))
  BY DEF rewarded
<1> HIDE DEF txs
<1> QED BY <1>2, <1>3, <1>4

LEMMA NewBlockType ==
    ASSUME NEW S, Closed(S), NEW n \in Node, NEW s, IsNode(S, s), NEW id \in Nat, NEW d \in Draw
    PROVE  newBlock(n, s, id, d) \in BlockOf(S)
<1>1. tip(s) \in BlockOf(S)
  BY LastType DEF IsNode, tip
<1>2. tip(s).hash \in Hash /\ Len(s.blocks) \in Nat
  BY <1>1 DEF BlockOf, IsNode
<1>3. [id |-> id, draw |-> d] \in Hash /\ walletOf[n] \in Address
  BY NetworkAssumption DEF Hash
<1>4. rewarded(n, s, id) \in Seq(S)
  BY RewardedType
<1> QED BY <1>2, <1>3, <1>4 DEF newBlock, BlockOf

LEMMA OutcomeType ==
    ASSUME NEW S, NEW n, NEW s, IsNode(S, s), NEW ms, ms = <<>> \/ ms \in Seq(MessageFrom(S, n))
    PROVE  IsOutcome(S, n, outcome(s, ms))
<1>1. <<>> \in Seq(MessageFrom(S, n))
  OBVIOUS
<1> QED BY <1>1 DEF outcome, IsOutcome

\* What forge may do with a node.
LEMMA ForgeType ==
    ASSUME NEW S, Closed(S), NEW n \in Node, NEW s, IsNode(S, s), NEW id \in Nat,
           NEW o \in forge(n, s, id)
    PROVE  IsOutcome(S, n, o)
<1> DEFINE u == unclogged(s)
<1>1. IsNode(S, u)
  BY UncloggedType
<1>2. \/ o = outcome(u, <<>>)
      \/ \E d \in Draw : o = outcome(addBlock(u, newBlock(n, u, id, d)),
                                     <<[kind |-> "BLOCK", block |-> newBlock(n, u, id, d)]>>)
  BY DEF forge
<1> HIDE DEF u
<1>3. CASE o = outcome(u, <<>>)
  BY <1>1, <1>3 DEF outcome, IsOutcome
<1>4. CASE \E d \in Draw : o = outcome(addBlock(u, newBlock(n, u, id, d)),
                                     <<[kind |-> "BLOCK", block |-> newBlock(n, u, id, d)]>>)
  <2>1. PICK d \in Draw : o = outcome(addBlock(u, newBlock(n, u, id, d)),
                                     <<[kind |-> "BLOCK", block |-> newBlock(n, u, id, d)]>>)
    BY <1>4
  <2> DEFINE b == newBlock(n, u, id, d)
  <2>2. b \in BlockOf(S)
    BY <1>1, NewBlockType
  <2>3. IsNode(S, addBlock(u, b))
    BY <1>1, <2>2, AddBlockType
  <2> HIDE DEF b
  <2>4. [kind |-> "BLOCK", block |-> b] \in MessageFrom(S, n)
    BY <2>2 DEF MessageFrom
  <2> QED BY <2>1, <2>3, <2>4 DEF b, outcome, IsOutcome
<1> QED BY <1>2, <1>3, <1>4

LEMMA HandleTransactionType ==
    ASSUME NEW S, Closed(S), NEW n \in Node, NEW s, IsNode(S, s), NEW x \in S,
           NEW broadcast, NEW id \in Nat, NEW o \in handleTransaction(n, s, x, broadcast, id)
    PROVE  IsOutcome(S, n, o)
<1> DEFINE added == [s EXCEPT !.pool = Append(@, x)]
           word == IF broadcast THEN <<[kind |-> "TRANSACTION", tx |-> x]>> ELSE <<>>
<1>1. IsNode(S, added)
  <2>1. Append(s.pool, x) \in Seq(S)
    BY DEF IsNode
  <2> QED BY <2>1 DEF IsNode
<1>2. word \in Seq(MessageFrom(S, n))
  <2>1. [kind |-> "TRANSACTION", tx |-> x] \in MessageFrom(S, n)
    BY DEF MessageFrom
  <2> QED BY <2>1
<1>3. \/ o = outcome(s, <<>>)
      \/ o = outcome(added, word)
      \/ \E p \in forge(n, added, id) : o = [p EXCEPT !.sent = word \o @]
  BY DEF handleTransaction
<1> HIDE DEF added, word
<1>4. CASE o = outcome(s, <<>>) \/ o = outcome(added, word)
  BY <1>1, <1>2, <1>4, OutcomeType
<1>5. ASSUME NEW p \in forge(n, added, id), o = [p EXCEPT !.sent = word \o @]
      PROVE  IsOutcome(S, n, o)
  <2>1. IsOutcome(S, n, p)
    BY <1>1, ForgeType
  <2>2. word \o p.sent \in Seq(MessageFrom(S, n))
    BY <1>2, <2>1 DEF IsOutcome
  <2> QED BY <1>5, <2>1, <2>2 DEF IsOutcome
<1> QED BY <1>3, <1>4, <1>5

LEMMA RequestChainType ==
    ASSUME NEW S, NEW n \in Node, NEW s, IsNode(S, s)
    PROVE  requestChain(n, s) \in Seq(MessageFrom(S, n))
<1>1. [kind |-> "BLOCKCHAINREQUEST", from |-> n, size |-> Len(s.blocks)] \in MessageFrom(S, n)
  BY DEF MessageFrom, IsNode
<1> QED BY <1>1 DEF requestChain

LEMMA HandleBlockType ==
    ASSUME NEW S, NEW n \in Node, NEW s, IsNode(S, s), NEW b \in BlockOf(S)
    PROVE  IsOutcome(S, n, handleBlock(n, s, b))
<1>1. \/ handleBlock(n, s, b) = outcome(s, requestChain(n, s))
      \/ handleBlock(n, s, b) = outcome(addBlock(s, b), <<>>)
      \/ handleBlock(n, s, b) = outcome(s, <<>>)
  BY DEF handleBlock
<1>2. requestChain(n, s) \in Seq(MessageFrom(S, n)) /\ IsNode(S, addBlock(s, b))
  BY RequestChainType, AddBlockType
<1> QED BY <1>1, <1>2, OutcomeType

LEMMA HandleBlockchainType ==
    ASSUME NEW S, NEW s, IsNode(S, s), NEW bs \in Seq(BlockOf(S))
    PROVE  IsNode(S, handleBlockchain(s, bs))
<1>1. \/ handleBlockchain(s, bs) = s
      \/ handleBlockchain(s, bs) = [s EXCEPT !.blocks = @ \o bs, !.ledger = importBlocks(@, bs)]
  BY DEF handleBlockchain
<1>2. s.blocks \o bs \in Seq(BlockOf(S)) /\ s.blocks \o bs # <<>>
  BY DEF IsNode
<1> QED BY <1>1, <1>2 DEF IsNode

LEMMA AnswerType ==
    ASSUME NEW S, NEW n \in Node, NEW s, IsNode(S, s), NEW size \in Nat
    PROVE  answer(s, size) \in Seq(MessageFrom(S, n))
<1>1. missing(s, size) \in Seq(BlockOf(S))
  BY SubSeqType DEF IsNode, missing
<1>2. [kind |-> "BLOCKCHAIN", blocks |-> missing(s, size)] \in MessageFrom(S, n)
  BY <1>1 DEF MessageFrom
<1> QED BY <1>2 DEF answer

-----------------------------------------------------------------------------
(***************************************************************************)
(* The wire.                                                               *)
(***************************************************************************)
LEMMA SentType ==
    ASSUME NEW S, NEW u, u \subseteq Node, NEW w, IsWire(S, u, w), NEW n \in Node,
           NEW to, to \subseteq u \ {n}, to # {} => n \in u, NEW ms \in Seq(MessageFrom(S, n))
    PROVE  IsWire(S, u, sentTo(w, n, to, ms))
<1> DEFINE row == [m \in Node |-> IF m \in to THEN w[n][m] \o ms ELSE w[n][m]]
<1>1. sentTo(w, n, to, ms) = [w EXCEPT ![n] = row]
  BY DEF sentTo
<1>2. \A m \in Node : /\ row[m] \in Seq(MessageFrom(S, n))
                      /\ row[m] # <<>> => n \in u /\ m \in u /\ n # m
  BY DEF IsWire
<1>3. row = [m \in Node |-> row[m]]
  OBVIOUS
<1> HIDE DEF row
<1>4. \A m \in Node : [w EXCEPT ![n] = row][m] = IF m = n THEN row ELSE w[m]
  BY DEF IsWire
<1>5. [w EXCEPT ![n] = row] = [m \in Node |-> IF m = n THEN row ELSE w[m]]
  BY <1>4 DEF IsWire
<1> DEFINE v == [m \in Node |-> IF m = n THEN row ELSE w[m]]
<1>6. \A m \in Node : v[m] = IF m = n THEN row ELSE w[m]
  OBVIOUS
<1>7. v = [m \in Node |-> [k \in Node |-> v[m][k]]]
  <2>1. \A m \in Node : v[m] = [k \in Node |-> v[m][k]]
    BY <1>3, <1>6 DEF IsWire
  <2>2. v = [m \in Node |-> v[m]]
    BY <1>6
  <2> HIDE DEF v
  <2> QED BY <2>1, <2>2
<1> HIDE DEF v
<1>8. IsWire(S, u, v)
  BY <1>2, <1>6, <1>7 DEF IsWire
<1> QED BY <1>1, <1>5, <1>8 DEF v

LEMMA ReceivedType ==
    ASSUME NEW S, NEW u, IsWire(S, u, wire), NEW m \in Node, NEW n \in Node, wire[m][n] # <<>>
    PROVE  /\ IsWire(S, u, received(m, n))
           /\ Head(wire[m][n]) \in MessageFrom(S, m)
           /\ m \in u /\ n \in u /\ m # n
<1>1. wire[m][n] \in Seq(MessageFrom(S, m))
  BY DEF IsWire
<1>2. Tail(wire[m][n]) \in Seq(MessageFrom(S, m)) /\ Head(wire[m][n]) \in MessageFrom(S, m)
  BY <1>1
<1>3. received(m, n) = [wire EXCEPT ![m] = [wire[m] EXCEPT ![n] = Tail(wire[m][n])]]
  BY DEF received
<1> DEFINE row == [wire[m] EXCEPT ![n] = Tail(wire[m][n])]
<1>4. /\ row = [k \in Node |-> row[k]]
      /\ \A k \in Node : /\ row[k] \in Seq(MessageFrom(S, m))
                         /\ row[k] # <<>> => m \in u /\ k \in u /\ m # k
  BY <1>2 DEF IsWire
<1>5. received(m, n) = [wire EXCEPT ![m] = row]
  BY <1>3
<1> HIDE DEF row
<1>6. [wire EXCEPT ![m] = row] = [k \in Node |-> IF k = m THEN row ELSE wire[k]]
  BY DEF IsWire
<1> DEFINE v == [k \in Node |-> IF k = m THEN row ELSE wire[k]]
<1>7. \A k \in Node : v[k] = IF k = m THEN row ELSE wire[k]
  OBVIOUS
<1>8. \A k \in Node : v[k] = [h \in Node |-> v[k][h]]
  BY <1>4, <1>7 DEF IsWire
<1>9. v = [k \in Node |-> [h \in Node |-> v[k][h]]]
  <2>1. v = [k \in Node |-> v[k]]
    BY <1>7
  <2> HIDE DEF v
  <2> QED BY <1>8, <2>1
<1> HIDE DEF v
<1>10. IsWire(S, u, v)
  BY <1>4, <1>7, <1>9 DEF IsWire
<1>11. IsWire(S, u, received(m, n))
  BY <1>5, <1>6, <1>10 DEF v
<1> QED BY <1>2, <1>11 DEF IsWire

-----------------------------------------------------------------------------
(***************************************************************************)
(* The steps.                                                              *)
(***************************************************************************)
\* A handler's outcome becomes the node, and its words go to the peers.
LEMMA BecomeType ==
    ASSUME NEW S, Typed(S), NEW n \in Node, NEW outcomes, NEW w,
           \A o \in outcomes : IsOutcome(S, n, o), IsWire(S, up, w),
           Become(n, outcomes, w)
    PROVE  /\ node' = [m \in Node |-> node'[m]]
           /\ \A m \in Node : IsNode(S, node'[m])
           /\ IsWire(S, up, wire')
<1>1. PICK o \in outcomes :
         node' = [node EXCEPT ![n] = o.node] /\ wire' = sentTo(w, n, peers[n], o.sent)
  BY DEF Become
<1>2. IsNode(S, o.node) /\ o.sent \in Seq(MessageFrom(S, n))
  BY DEF IsOutcome
<1>3. up \subseteq Node /\ peers[n] \subseteq up \ {n} /\ (peers[n] # {} => n \in up)
  BY DEF Typed, IsPeers
<1>4. IsWire(S, up, wire')
  BY <1>1, <1>2, <1>3, SentType
<1>5. node' = [m \in Node |-> IF m = n THEN o.node ELSE node[m]]
  BY <1>1 DEF Typed
<1> QED BY <1>2, <1>4, <1>5 DEF Typed

LEMMA ForgedType == ASSUME NEW n PROVE forged(n) \in Nat
BY DEF forged

LEMMA CallsLeft ==
    ASSUME NEW S, Typed(S)
    PROVE  /\ budget.submit > 0 => [budget EXCEPT !.submit = @ - 1] \in [submit : Nat, start : Nat]
           /\ budget.start > 0 => [budget EXCEPT !.start = @ - 1] \in [submit : Nat, start : Nat]
<1>1. budget \in [submit : Nat, start : Nat]
  BY DEF Typed
<1>2. /\ budget.submit > 0 => budget.submit - 1 \in Nat
      /\ budget.start > 0 => budget.start - 1 \in Nat
  BY <1>1
<1> QED BY <1>1, <1>2

\* Who greets whom, and who asks whom for the chain.
LEMMA GreetedType ==
    ASSUME NEW u, NEW ps, IsPeers(u, ps), NEW n \in u, n \in Node, NEW m \in u \ {n},
           NEW list, list \subseteq u
    PROVE  IsPeers(u, greeted(ps, n, m, list))
<1> DEFINE mine == (ps[n] \cup {m} \cup list) \ {n}
<1>1. mine \subseteq u \ {n}
  BY DEF IsPeers
<1>2. greeted(ps, n, m, list) = [k \in Node |-> IF k = n THEN mine ELSE ps[k]]
  BY DEF greeted, IsPeers
<1> HIDE DEF mine
<1> QED BY <1>1, <1>2 DEF IsPeers

LEMMA AskedType ==
    ASSUME NEW S, Typed(S), NEW u, up \subseteq u, u \subseteq Node, NEW w, IsWire(S, u, w),
           NEW n \in u, NEW m \in u \ {n}
    PROVE  IsWire(S, u, asked(w, n, m))
<1>1. requestChain(n, node[n]) \in Seq(MessageFrom(S, n))
  BY RequestChainType DEF Typed
<1>2. peers[n] \cup {m} \subseteq u \ {n}
  BY DEF Typed, IsPeers
<1>3. asked(w, n, m) = w \/ asked(w, n, m) = sentTo(w, n, peers[n] \cup {m}, requestChain(n, node[n]))
  BY DEF asked
<1> QED BY <1>1, <1>2, <1>3, SentType

LEMMA TypedInit == ASSUME NEW S, Init PROVE Typed(S)
<1>1. PICK first \in GenesisBlocks : node = [n \in Node |-> started(first)]
  BY DEF Init
<1>2. first \in BlockOf(S)
  <2>1. <<>> \in Seq(S)
    OBVIOUS
  <2>2. PICK last \in Draw, own \in Draw : first = GenesisBlock(last, own)
    BY DEF GenesisBlocks
  <2>3. [id |-> 0, draw |-> last] \in Hash /\ [id |-> 1, draw |-> own] \in Hash /\ Genesis \in Address
    BY LedgerAssumption DEF Hash
  <2> QED BY <2>1, <2>2, <2>3 DEF GenesisBlock, BlockOf
<1>3. IsNode(S, started(first))
  <2>1. <<first>> \in Seq(BlockOf(S)) /\ <<first>> # <<>> /\ <<>> \in Seq(S)
    BY <1>2
  <2> QED BY <2>1 DEF started, IsNode
<1>4. \A m \in Node : <<>> \in Seq(MessageFrom(S, m))
  OBVIOUS
<1>5. IsWire(S, up, wire)
  BY <1>4 DEF Init, IsWire
<1> QED BY <1>1, <1>3, <1>5, NetworkAssumption DEF Init, Typed, IsPeers

LEMMA TypedNext == ASSUME NEW S, Closed(S), Typed(S), Next PROVE Typed(S)'
<1>1. uuid \in Nat /\ uuid + 1 \in Nat /\ IsWire(S, up, wire) /\ up \subseteq Node
      /\ \A n \in Node : IsNode(S, node[n])
  BY DEF Typed
<1>2. ASSUME NEW n \in Node, Submit(n) PROVE Typed(S)'
  <2>1. PICK r \in Requests[n] :
           Become(n, handleTransaction(n, node[n], request(r, uuid), TRUE, uuid + 1), wire)
    BY <1>2 DEF Submit, request
  <2>2. request(r, uuid) \in S
    BY <1>1 DEF Closed
  <2>3. \A o \in handleTransaction(n, node[n], request(r, uuid), TRUE, uuid + 1) : IsOutcome(S, n, o)
    BY <1>1, <2>2, HandleTransactionType
  <2>4. uuid' \in Nat
    BY <1>1, <1>2, ForgedType DEF Submit
  <2> QED BY <1>1, <1>2, <2>1, <2>3, <2>4, BecomeType, CallsLeft DEF Submit, Typed
<1>3. ASSUME NEW n \in Node, Poll(n) PROVE Typed(S)'
  <2>1. \A o \in forge(n, node[n], uuid) : IsOutcome(S, n, o)
    BY <1>1, ForgeType
  <2>2. uuid' \in Nat
    BY <1>1, <1>3, ForgedType DEF Poll
  <2> QED BY <1>1, <1>3, <2>1, <2>2, BecomeType DEF Poll, Typed
<1>4. ASSUME NEW m \in Node, NEW n \in Node, wire[m][n] # <<>>
      PROVE  /\ IsWire(S, up, received(m, n)) /\ Head(wire[m][n]) \in MessageFrom(S, m)
             /\ m \in up /\ n \in up /\ m # n
  BY <1>1, <1>4, ReceivedType
<1>5. ASSUME NEW m \in Node, NEW n \in Node, ReceiveTransaction(m, n) PROVE Typed(S)'
  <2>1. Head(wire[m][n]).tx \in S
    BY <1>4, <1>5 DEF ReceiveTransaction, Waiting, MessageFrom
  <2>2. \A o \in handleTransaction(n, node[n], Head(wire[m][n]).tx, FALSE, uuid) : IsOutcome(S, n, o)
    BY <1>1, <2>1, HandleTransactionType
  <2>3. uuid' \in Nat
    BY <1>1, <1>5, ForgedType DEF ReceiveTransaction
  <2> QED BY <1>1, <1>4, <1>5, <2>2, <2>3, BecomeType DEF ReceiveTransaction, Waiting, Typed
<1>6. ASSUME NEW m \in Node, NEW n \in Node, ReceiveBlock(m, n) PROVE Typed(S)'
  <2> DEFINE b == keyedBlock(Head(wire[m][n]).block)
  <2>1. Head(wire[m][n]).block \in BlockOf(S)
    BY <1>4, <1>6 DEF ReceiveBlock, Waiting, MessageFrom
  <2>2. b \in BlockOf(S)
    BY <2>1, KeyedBlockType
  <2> HIDE DEF b
  <2>3. IsOutcome(S, n, handleBlock(n, node[n], b))
    BY <1>1, <2>2, HandleBlockType
  <2>4. Become(n, {handleBlock(n, node[n], b)}, received(m, n))
    BY <1>6 DEF ReceiveBlock, b
  <2> QED BY <1>1, <1>4, <1>6, <2>3, <2>4, BecomeType DEF ReceiveBlock, Waiting, Typed
<1>7. ASSUME NEW m \in Node, NEW n \in Node, ReceiveRequest(m, n) PROVE Typed(S)'
  <2> DEFINE r == Head(wire[m][n])
  <2>1. r.from = m /\ r.size \in Nat
    BY <1>4, <1>7 DEF ReceiveRequest, Waiting, MessageFrom
  <2>2. m \in up /\ n \in up /\ m # n /\ IsWire(S, up, received(m, n))
    BY <1>4, <1>7 DEF ReceiveRequest, Waiting
  <2>3. answer(node[n], r.size) \in Seq(MessageFrom(S, n))
    BY <1>1, <2>1, AnswerType
  <2>4. wire' = sentTo(received(m, n), n, {r.from}, answer(node[n], r.size))
    BY <1>7 DEF ReceiveRequest
  <2> HIDE DEF r
  <2>5. IsWire(S, up, wire')
    BY <1>1, <2>1, <2>2, <2>3, <2>4, SentType
  <2> QED BY <1>7, <2>5 DEF ReceiveRequest, Typed
<1>8. ASSUME NEW m \in Node, NEW n \in Node, ReceiveChain(m, n) PROVE Typed(S)'
  <2> DEFINE bs == Head(wire[m][n]).blocks
             keys == [i \in DOMAIN bs |-> keyedBlock(bs[i])]
  <2>1. bs \in Seq(BlockOf(S))
    BY <1>4, <1>8 DEF ReceiveChain, Waiting, MessageFrom
  <2>2. Become(n, {outcome(handleBlockchain(node[n], keys), <<>>)}, received(m, n))
    BY <1>8 DEF ReceiveChain
  <2> HIDE DEF bs
  <2>3. keys \in Seq(BlockOf(S))
    BY <2>1, KeyedChainType
  <2> HIDE DEF keys
  <2>4. IsOutcome(S, n, outcome(handleBlockchain(node[n], keys), <<>>))
    BY <1>1, <2>3, HandleBlockchainType, OutcomeType
  <2> QED BY <1>1, <1>4, <1>8, <2>2, <2>4, BecomeType DEF ReceiveChain, Waiting, Typed
<1>9. ASSUME NEW m \in Node, NEW n \in Node, Greet(m, n) PROVE Typed(S)'
  <2>1. n \in peers[m] /\ peers' = greeted(peers, n, m, peers[m]) /\ wire' = asked(wire, n, m)
    BY <1>9 DEF Greet
  <2>2. m \in up /\ n \in up /\ m # n /\ peers[m] \subseteq up /\ IsPeers(up, peers)
    BY <2>1 DEF Typed, IsPeers
  <2>3. IsPeers(up, peers')
    BY <2>1, <2>2, GreetedType
  <2>4. IsWire(S, up, wire')
    BY <1>1, <2>1, <2>2, AskedType
  <2> QED BY <1>9, <2>3, <2>4 DEF Greet, Typed
<1>10. ASSUME NEW n \in Node, Start(n) PROVE Typed(S)'
  <2> DEFINE cleared == [peers EXCEPT ![n] = {}]
             lost == [m \in Node |-> [wire[m] EXCEPT ![n] = <<>>]]
  <2>1. /\ up' = up \cup {n} /\ node' = [node EXCEPT ![n] = started(Head(@.blocks))]
        /\ IF n = Master THEN peers' = cleared /\ wire' = lost
           ELSE peers' = greeted(cleared, Master, n, {}) /\ wire' = asked(lost, Master, n)
        /\ UNCHANGED uuid /\ budget' \in [submit : Nat, start : Nat]
    BY <1>10, CallsLeft DEF Start
  <2>2. IsNode(S, started(Head(node[n].blocks)))
    <3>1. Head(node[n].blocks) \in BlockOf(S)
      BY <1>1 DEF IsNode
    <3>2. /\ <<Head(node[n].blocks)>> \in Seq(BlockOf(S)) /\ <<Head(node[n].blocks)>> # <<>>
          /\ <<>> \in Seq(S)
      BY <3>1
    <3> QED BY <3>2 DEF started, IsNode
  <2>3. node' = [m \in Node |-> node'[m]] /\ \A m \in Node : IsNode(S, node'[m])
    <3>1. node' = [m \in Node |-> IF m = n THEN started(Head(node[n].blocks)) ELSE node[m]]
      BY <2>1 DEF Typed
    <3> QED BY <1>1, <2>2, <3>1
  <2>4. up' \subseteq Node /\ Master \in up' /\ n \in up' /\ up \subseteq up' /\ Master \in Node
    BY <2>1, NetworkAssumption DEF Typed
  <2>5. IsPeers(up', cleared)
    <3>1. cleared = [m \in Node |-> IF m = n THEN {} ELSE peers[m]]
      BY DEF Typed, IsPeers
    <3> HIDE DEF cleared
    <3> QED BY <2>4, <3>1 DEF Typed, IsPeers
  <2>6. IsWire(S, up', lost)
    <3>1. <<>> \in Seq(MessageFrom(S, n)) /\ \A m \in Node : <<>> \in Seq(MessageFrom(S, m))
      OBVIOUS
    <3>2. \A m, k \in Node : lost[m][k] = IF k = n THEN <<>> ELSE wire[m][k]
      BY <1>1 DEF IsWire
    <3>3. \A m \in Node : [wire[m] EXCEPT ![n] = <<>>] = [k \in Node |-> IF k = n THEN <<>> ELSE wire[m][k]]
      BY <1>1 DEF IsWire
    <3>4. lost = [m \in Node |-> [k \in Node |-> lost[m][k]]]
      BY <3>2, <3>3
    <3> HIDE DEF lost
    <3> QED BY <1>1, <2>4, <3>1, <3>2, <3>4 DEF IsWire
  <2> HIDE DEF cleared, lost
  <2>7. IsPeers(up', peers') /\ IsWire(S, up', wire')
    BY <2>1, <2>4, <2>5, <2>6, GreetedType, AskedType
  <2> QED BY <2>1, <2>3, <2>4, <2>7 DEF Typed
<1> QED
  BY <1>2, <1>3, <1>5, <1>6, <1>7, <1>8, <1>9, <1>10
  DEF Next, System, Serve, Receive, Discover

\* What every variable holds, whatever the nodes are asked for.
THEOREM NetworkTypeCorrect == Spec => []TypeOK
<1>1. Init => Typed(Tx)
  BY TypedInit
<1>2. Typed(Tx) /\ [Next]_vars => Typed(Tx)'
  <2> SUFFICES ASSUME Typed(Tx), [Next]_vars PROVE Typed(Tx)'
    OBVIOUS
  <2>1. CASE Next
    BY <2>1, ClosedTx, TypedNext
  <2>2. CASE UNCHANGED vars
    BY <2>2 DEF vars, Typed
  <2> QED BY <2>1, <2>2
<1>3. Typed(Tx) => TypeOK
  <2> SUFFICES ASSUME Typed(Tx) PROVE TypeOK
    OBVIOUS
  <2>1. BlockOf(Tx) = Block
    BY DEF BlockOf, Block
  <2>2. \A m \in Node : MessageFrom(Tx, m) \subseteq Message
    BY <2>1 DEF MessageFrom, Message
  <2>3. \A m, n \in Node : wire[m][n] \in Seq(Message)
    <3> SUFFICES ASSUME NEW m \in Node, NEW n \in Node PROVE wire[m][n] \in Seq(Message)
      OBVIOUS
    <3>1. wire[m][n] \in Seq(MessageFrom(Tx, m))
      BY DEF Typed, IsWire
    <3> QED BY <2>2, <3>1
  <2> QED BY <2>1, <2>3 DEF Typed, TypeOK, IsNode, IsPeers, IsWire
<1> QED BY <1>1, <1>2, <1>3, PTL DEF Spec

-----------------------------------------------------------------------------
(***************************************************************************)
(* LedgersAgree, made inductive: the ledger of a node is what its chain    *)
(* makes of the genesis ledger, so that it depends on nothing else.        *)
(***************************************************************************)
\* No pool is so full that one transaction more gets a forger evicted: the
\* others would keep it and know nothing of the refund.
Uncrowded == \A n \in Node : Len(node[n].pool) < ClogLimit

Replays(s) == s.ledger = replayed(s.blocks) /\ Head(s.blocks).txs = <<>>

Accounted == \A n \in Node : Replays(node[n])

LEMMA AddBlockReplays ==
    ASSUME NEW s, IsNode(SelfTx, s), Replays(s), NEW b \in BlockOf(SelfTx)
    PROVE  Replays(addBlock(s, b))
<1>1. s.blocks \in Seq(BlockOf(SelfTx)) /\ s.blocks # <<>>
  BY DEF IsNode
<1>2. replayed(Append(s.blocks, b)) = executeTransactions(replayed(s.blocks), b.txs)
  BY <1>1, ReplayAppend
<1>3. Head(Append(s.blocks, b)) = Head(s.blocks)
  BY <1>1
<1> QED BY <1>2, <1>3 DEF Replays, addBlock

LEMMA ForgeReplays ==
    ASSUME Closed(SelfTx), NEW n \in Node, NEW s, IsNode(SelfTx, s), Replays(s),
           Len(s.pool) <= ClogLimit, NEW id \in Nat, NEW o \in forge(n, s, id)
    PROVE  Replays(o.node)
<1>1. unclogged(s) = s
  BY DEF unclogged
<1>2. \/ o = outcome(s, <<>>)
      \/ \E d \in Draw : o = outcome(addBlock(s, newBlock(n, s, id, d)),
                                     <<[kind |-> "BLOCK", block |-> newBlock(n, s, id, d)]>>)
  BY <1>1 DEF forge
<1>3. \A d \in Draw : Replays(addBlock(s, newBlock(n, s, id, d)))
  BY AddBlockReplays, NewBlockType
<1> QED BY <1>2, <1>3 DEF outcome

LEMMA HandleTransactionReplays ==
    ASSUME Closed(SelfTx), NEW n \in Node, NEW s, IsNode(SelfTx, s), Replays(s),
           Len(s.pool) < ClogLimit, NEW x \in SelfTx, NEW broadcast, NEW id \in Nat,
           NEW o \in handleTransaction(n, s, x, broadcast, id)
    PROVE  Replays(o.node)
<1> DEFINE added == [s EXCEPT !.pool = Append(@, x)]
           word == IF broadcast THEN <<[kind |-> "TRANSACTION", tx |-> x]>> ELSE <<>>
<1>1. Append(s.pool, x) \in Seq(SelfTx) /\ Len(Append(s.pool, x)) <= ClogLimit
  BY NetworkAssumption DEF IsNode
<1>2. IsNode(SelfTx, added) /\ Len(added.pool) <= ClogLimit /\ Replays(added)
  BY <1>1 DEF IsNode, Replays
<1>3. \/ o = outcome(s, <<>>)
      \/ o = outcome(added, word)
      \/ \E p \in forge(n, added, id) : o = [p EXCEPT !.sent = word \o @]
  BY DEF handleTransaction
<1> HIDE DEF added, word
<1>4. ASSUME NEW p \in forge(n, added, id), o = [p EXCEPT !.sent = word \o @]
      PROVE  Replays(o.node)
  <2>1. IsOutcome(SelfTx, n, p) /\ Replays(p.node)
    BY <1>2, ForgeType, ForgeReplays
  <2> QED BY <1>4, <2>1 DEF IsOutcome
<1> QED BY <1>2, <1>3, <1>4 DEF outcome

LEMMA HandleBlockReplays ==
    ASSUME NEW n \in Node, NEW s, IsNode(SelfTx, s), Replays(s), NEW b \in BlockOf(SelfTx)
    PROVE  Replays(handleBlock(n, s, b).node)
<1>1. \/ handleBlock(n, s, b) = outcome(s, requestChain(n, s))
      \/ handleBlock(n, s, b) = outcome(addBlock(s, b), <<>>)
      \/ handleBlock(n, s, b) = outcome(s, <<>>)
  BY DEF handleBlock
<1> QED BY <1>1, AddBlockReplays DEF outcome

LEMMA HandleBlockchainReplays ==
    ASSUME NEW s, IsNode(SelfTx, s), Replays(s), NEW bs \in Seq(BlockOf(SelfTx))
    PROVE  Replays(handleBlockchain(s, bs))
<1>1. CASE handleBlockchain(s, bs) = s
  BY <1>1
<1>2. CASE handleBlockchain(s, bs) = [s EXCEPT !.blocks = @ \o bs, !.ledger = importBlocks(@, bs)]
  <2>1. s.blocks \in Seq(BlockOf(SelfTx)) /\ s.blocks # <<>> /\ DOMAIN s = {"blocks", "ledger", "pool"}
    BY DEF IsNode
  <2>2. BlockOf(SelfTx) \subseteq Block
    <3>1. Seq(SelfTx) \subseteq Seq(Tx)
      BY DEF SelfTx
    <3> QED BY <3>1 DEF BlockOf, Block
  <2>3. s.blocks \in Seq(Block) /\ bs \in Seq(Block)
    BY <2>1, <2>2
  <2>4. SelfBlocks(bs)
    <3>1. \A b \in BlockOf(SelfTx) : b.txs \in Seq(SelfTx)
      BY DEF BlockOf
    <3>2. \A t \in Seq(SelfTx) : SelfStakes(t)
      BY DEF SelfTx, SelfStakes
    <3>3. \A i \in DOMAIN bs : bs[i] \in BlockOf(SelfTx)
      OBVIOUS
    <3> QED BY <3>1, <3>2, <3>3 DEF SelfBlocks
  <2>5. replayed(s.blocks \o bs) = importBlocks(replayed(s.blocks), bs)
    BY <2>3, <2>4, ReplayConcat
  <2>6. Head(s.blocks \o bs) = Head(s.blocks)
    BY <2>1
  <2> QED BY <1>2, <2>1, <2>5, <2>6 DEF Replays
<1> QED BY <1>1, <1>2 DEF handleBlockchain

\* Every outcome of a handler keeps ledger and chain together.
LEMMA BecomeReplays ==
    ASSUME Typed(SelfTx), Accounted, NEW n \in Node, NEW outcomes, NEW w,
           \A o \in outcomes : Replays(o.node), Become(n, outcomes, w)
    PROVE  Accounted'
<1>1. PICK o \in outcomes : node' = [node EXCEPT ![n] = o.node]
  BY DEF Become
<1>2. node' = [m \in Node |-> IF m = n THEN o.node ELSE node[m]]
  BY <1>1 DEF Typed
<1> QED BY <1>2 DEF Accounted

LEMMA AccountedNext ==
    ASSUME StakesForOneself, Typed(SelfTx), Accounted, Uncrowded, Next
    PROVE  Accounted'
<1>1. Closed(SelfTx) /\ uuid \in Nat /\ uuid + 1 \in Nat
      /\ \A n \in Node : IsNode(SelfTx, node[n]) /\ Replays(node[n])
  BY ClosedSelf DEF Typed, Accounted
<1>2. \A n \in Node : Len(node[n].pool) < ClogLimit /\ Len(node[n].pool) <= ClogLimit
  <2>1. \A n \in Node : Len(node[n].pool) \in Nat
    BY <1>1 DEF IsNode
  <2> QED BY <2>1, NetworkAssumption DEF Uncrowded
<1>3. ASSUME NEW m \in Node, NEW n \in Node, wire[m][n] # <<>>
      PROVE  Head(wire[m][n]) \in MessageFrom(SelfTx, m)
  BY <1>3, ReceivedType DEF Typed
<1>4. ASSUME NEW n \in Node, Submit(n) PROVE Accounted'
  <2>1. PICK r \in Requests[n] :
           Become(n, handleTransaction(n, node[n], request(r, uuid), TRUE, uuid + 1), wire)
    BY <1>4 DEF Submit, request
  <2>2. request(r, uuid) \in SelfTx
    BY <1>1 DEF Closed
  <2>3. \A o \in handleTransaction(n, node[n], request(r, uuid), TRUE, uuid + 1) : Replays(o.node)
    BY <1>1, <1>2, <2>2, HandleTransactionReplays
  <2> QED BY <2>1, <2>3, BecomeReplays
<1>5. ASSUME NEW n \in Node, Poll(n) PROVE Accounted'
  <2>1. \A o \in forge(n, node[n], uuid) : Replays(o.node)
    BY <1>1, <1>2, ForgeReplays
  <2> QED BY <1>5, <2>1, BecomeReplays DEF Poll
<1>6. ASSUME NEW m \in Node, NEW n \in Node, ReceiveTransaction(m, n) PROVE Accounted'
  <2>1. Head(wire[m][n]).tx \in SelfTx
    BY <1>3, <1>6 DEF ReceiveTransaction, Waiting, MessageFrom
  <2>2. \A o \in handleTransaction(n, node[n], Head(wire[m][n]).tx, FALSE, uuid) : Replays(o.node)
    BY <1>1, <1>2, <2>1, HandleTransactionReplays
  <2> QED BY <1>6, <2>2, BecomeReplays DEF ReceiveTransaction
<1>7. ASSUME NEW m \in Node, NEW n \in Node, ReceiveBlock(m, n) PROVE Accounted'
  <2> DEFINE b == keyedBlock(Head(wire[m][n]).block)
  <2>1. Head(wire[m][n]).block \in BlockOf(SelfTx)
    BY <1>3, <1>7 DEF ReceiveBlock, Waiting, MessageFrom
  <2>2. b \in BlockOf(SelfTx)
    BY <1>1, <2>1, KeyedBlockType
  <2>3. Become(n, {handleBlock(n, node[n], b)}, received(m, n))
    BY <1>7 DEF ReceiveBlock
  <2> HIDE DEF b
  <2>4. Replays(handleBlock(n, node[n], b).node)
    BY <1>1, <2>2, HandleBlockReplays
  <2> QED BY <2>3, <2>4, BecomeReplays
<1>8. ASSUME NEW m \in Node, NEW n \in Node, ReceiveChain(m, n) PROVE Accounted'
  <2> DEFINE bs == Head(wire[m][n]).blocks
             keys == [i \in DOMAIN bs |-> keyedBlock(bs[i])]
  <2>1. bs \in Seq(BlockOf(SelfTx))
    BY <1>3, <1>8 DEF ReceiveChain, Waiting, MessageFrom
  <2>2. Become(n, {outcome(handleBlockchain(node[n], keys), <<>>)}, received(m, n))
    BY <1>8 DEF ReceiveChain
  <2> HIDE DEF bs
  <2>3. keys \in Seq(BlockOf(SelfTx))
    BY <1>1, <2>1, KeyedChainType
  <2> HIDE DEF keys
  <2>4. Replays(outcome(handleBlockchain(node[n], keys), <<>>).node)
    BY <1>1, <2>3, HandleBlockchainReplays DEF outcome
  <2> QED BY <2>2, <2>4, BecomeReplays
<1>9. ASSUME UNCHANGED node PROVE Accounted'
  BY <1>9 DEF Accounted
<1>10. ASSUME NEW n \in Node, Start(n) PROVE Accounted'
  <2> DEFINE first == Head(node[n].blocks)
  <2>1. node' = [m \in Node |-> IF m = n THEN started(first) ELSE node[m]]
    BY <1>10 DEF Start, Typed
  <2>2. first.txs = <<>>
    BY <1>1 DEF Replays
  <2> HIDE DEF first
  <2>3. Replays(started(first))
    BY <2>2, ReplayGenesis DEF Replays, started
  <2> QED BY <1>1, <2>1, <2>3 DEF Accounted
<1> QED
  BY <1>4, <1>5, <1>6, <1>7, <1>8, <1>9, <1>10
  DEF Next, System, Serve, Receive, Discover, ReceiveRequest, Greet

LEMMA AccountedInit == Init => Accounted
<1> SUFFICES ASSUME Init PROVE Accounted
  OBVIOUS
<1>1. PICK first \in GenesisBlocks : node = [n \in Node |-> started(first)]
  BY DEF Init
<1>2. first.txs = <<>>
  BY DEF GenesisBlocks, GenesisBlock
<1> QED BY <1>1, <1>2, ReplayGenesis DEF Accounted, Replays, started

\* Nodes with the same chain have the same balances and stakers, whichever of
\* them forged, adopted or downloaded its blocks, as long as every STAKE is for
\* its own sender (Node.cpp:352 and Blockchain.cpp:175 treat others differently)
\* and no pool gets so full that a forger is evicted (Node.cpp:396).
THEOREM LedgersCorrect ==
    ASSUME StakesForOneself
    PROVE  Spec /\ []Uncrowded => []LedgersAgree
<1>1. Init => Typed(SelfTx) /\ Accounted
  BY TypedInit, AccountedInit
<1>2. Typed(SelfTx) /\ Accounted /\ Uncrowded /\ [Next]_vars => (Typed(SelfTx) /\ Accounted)'
  <2> SUFFICES ASSUME Typed(SelfTx), Accounted, Uncrowded, [Next]_vars
               PROVE  (Typed(SelfTx) /\ Accounted)'
    OBVIOUS
  <2>1. CASE Next
    BY <2>1, ClosedSelf, TypedNext, AccountedNext
  <2>2. CASE UNCHANGED vars
    BY <2>2 DEF vars, Typed, Accounted
  <2> QED BY <2>1, <2>2
<1>3. Typed(SelfTx) /\ Accounted => LedgersAgree
  BY DEF Accounted, Replays, LedgersAgree, balancesOf
<1> QED BY <1>1, <1>2, <1>3, PTL DEF Spec

-----------------------------------------------------------------------------
(***************************************************************************)
(* RestAgrees and the replicated chain, where only the master forges: a    *)
(* chain grows in one place, and the proof follows its blocks to whom they *)
(* are under way.                                                          *)
(***************************************************************************)
\* Genesis wins every lottery, whatever has been staked.
GenesisWins == \A n \in Node : forgerOf(node[n].ledger, tip(node[n]).lastHash) = Genesis

\* Nobody but the master forges with the genesis wallet.
GenesisIsMaster == \A n \in Node : walletOf[n] = Genesis => n = Master

\* Transactions with the key that every node knows for their sender.
KnownTx == {x \in Tx : x.key = publicKey(x.sender)}

KnownBlocks == BlockOf(KnownTx)

LEMMA ClosedKnown == Closed(KnownTx)
<1>1. \A x \in KnownTx : charge(x) \in KnownTx /\ keyed(x) \in KnownTx
  <2> SUFFICES ASSUME NEW x \in KnownTx PROVE charge(x) \in KnownTx /\ keyed(x) \in KnownTx
    OBVIOUS
  <2>1. x \in Tx /\ x.key = publicKey(x.sender) /\ charge(x) \in Tx /\ keyed(x) \in Tx
    BY ClosedTx DEF KnownTx, Closed
  <2>2. charge(x).sender = x.sender /\ charge(x).key = x.key
    BY <2>1 DEF charge, Tx
  <2>3. keyed(x).sender = x.sender /\ keyed(x).key = publicKey(x.sender)
    BY <2>1 DEF keyed, Tx
  <2> QED BY <2>1, <2>2, <2>3 DEF KnownTx
<1>2. \A n \in Node, id \in Nat, r \in Int : rewardTx(id, walletOf[n], r) \in KnownTx
  BY ClosedTx DEF Closed, KnownTx, rewardTx
<1>3. ASSUME NEW n \in Node, NEW r \in Requests[n], NEW id \in Nat
      PROVE  request(r, id) \in KnownTx
  BY ClosedTx DEF Closed, KnownTx, request
<1> QED BY <1>1, <1>2, <1>3 DEF Closed, KnownTx

\* The wire changes nothing in them.
LEMMA KnownSame ==
    /\ \A b \in KnownBlocks : keyedBlock(b) = b
    /\ \A bs \in Seq(KnownBlocks) : [i \in DOMAIN bs |-> keyedBlock(bs[i])] = bs
<1>1. \A x \in KnownTx : keyed(x) = x
  BY DEF KnownTx, keyed, Tx
<1>2. ASSUME NEW b \in KnownBlocks PROVE keyedBlock(b) = b
  <2> DEFINE txs == [i \in DOMAIN b.txs |-> keyed(b.txs[i])]
  <2>1. b.txs \in Seq(KnownTx)
    BY DEF KnownBlocks, BlockOf
  <2>2. \A i \in DOMAIN b.txs : keyed(b.txs[i]) = b.txs[i]
    BY <1>1, <2>1
  <2>3. txs = b.txs
    BY <2>1, <2>2
  <2>4. keyedBlock(b) = [b EXCEPT !.txs = txs]
    BY DEF keyedBlock
  <2> HIDE DEF txs
  <2> QED BY <2>3, <2>4 DEF KnownBlocks, BlockOf
<1>3. ASSUME NEW bs \in Seq(KnownBlocks) PROVE [i \in DOMAIN bs |-> keyedBlock(bs[i])] = bs
  <2>1. \A i \in DOMAIN bs : keyedBlock(bs[i]) = bs[i]
    BY <1>2
  <2> QED BY <2>1
<1> QED BY <1>2, <1>3

-----------------------------------------------------------------------------
(***************************************************************************)
(* The chain C, what each node has of it, and what is under way.           *)
(***************************************************************************)
\* Block b goes at the end of C.
Follows(C, b) ==
    /\ b.count = Len(C) /\ b.lastHash = C[Len(C)].hash
    /\ b.forger = Genesis /\ b.txs # <<>>

IsChain(C) ==
    /\ C \in Seq(KnownBlocks) /\ C # <<>> /\ C[1].count = 0
    /\ \A i \in 2..Len(C) : /\ C[i].count = i - 1 /\ C[i].lastHash = C[i - 1].hash
                            /\ C[i].forger = Genesis /\ C[i].txs # <<>>

Begins(C, b) == Len(b) \in 1..Len(C) /\ \A i \in 1..Len(b) : b[i] = C[i]

\* The messages q bring a node that has b the blocks it lacks, in their order.
Brings(C, b, q) ==
    /\ \A i \in 1..Len(q) : q[i].kind = "BLOCK" =>
           /\ q[i].block.count \in Len(b)..(Len(C) - 1)
           /\ q[i].block = C[q[i].block.count + 1]
           /\ \A j \in 1..(i - 1) : q[j].kind = "BLOCK" => q[j].block.count < q[i].block.count
    /\ \A k \in Len(b)..(Len(C) - 1) :
           \E i \in 1..Len(q) : q[i].kind = "BLOCK" /\ q[i].block.count = k

LEMMA ChainGrows ==
    ASSUME NEW C, IsChain(C), NEW b \in KnownBlocks, Follows(C, b)
    PROVE  /\ IsChain(Append(C, b)) /\ Begins(Append(C, b), Append(C, b))
           /\ \A p : Begins(C, p) => Begins(Append(C, b), p)
           /\ Append(C, b)[1] = C[1] /\ Len(Append(C, b)) = Len(C) + 1
<1> DEFINE D == Append(C, b)
<1>1. /\ Len(C) \in Nat /\ Len(C) # 0 /\ D \in Seq(KnownBlocks) /\ D # <<>> /\ Len(D) = Len(C) + 1
      /\ \A i \in 1..Len(C) : D[i] = C[i]
      /\ D[Len(C) + 1] = b
  BY DEF IsChain
<1> HIDE DEF D
<1>2. ASSUME NEW i \in 2..Len(D)
      PROVE  /\ D[i].count = i - 1 /\ D[i].lastHash = D[i - 1].hash
             /\ D[i].forger = Genesis /\ D[i].txs # <<>>
  <2>1. i \in 2..Len(C) \/ i = Len(C) + 1
    BY <1>1
  <2>2. CASE i \in 2..Len(C)
    <3>1. i \in 1..Len(C) /\ i - 1 \in 1..Len(C)
      BY <1>1, <2>2
    <3> QED BY <1>1, <2>2, <3>1 DEF IsChain
  <2>3. CASE i = Len(C) + 1
    <3>1. i - 1 = Len(C) /\ i - 1 \in 1..Len(C)
      BY <1>1, <2>3
    <3>2. D[i] = b /\ D[i - 1] = C[Len(C)]
      BY <1>1, <2>3, <3>1
    <3> QED BY <3>1, <3>2 DEF Follows
  <2> QED BY <2>1, <2>2, <2>3
<1>3. IsChain(D)
  BY <1>1, <1>2 DEF IsChain
<1>4. Begins(D, D) /\ \A p : Begins(C, p) => Begins(D, p)
  BY <1>1 DEF Begins
<1> QED BY <1>1, <1>3, <1>4 DEF D

\* A block announced to all is brought to those who do not have it.
LEMMA BringsBlock ==
    ASSUME NEW C, IsChain(C), NEW c \in KnownBlocks, Follows(C, c), NEW b, Begins(C, b),
           NEW T, NEW q \in Seq(T), Brings(C, b, q),
           NEW v \in T, v.kind = "BLOCK", v.block = c
    PROVE  Brings(Append(C, c), b, Append(q, v))
<1> DEFINE D == Append(C, c)
           r == Append(q, v)
<1>1. /\ Len(C) \in Nat /\ Len(D) = Len(C) + 1 /\ D[Len(C) + 1] = c
      /\ \A i \in 1..Len(C) : D[i] = C[i]
  BY DEF IsChain
<1>2. /\ Len(q) \in Nat /\ Len(r) = Len(q) + 1 /\ r[Len(q) + 1] = v
      /\ \A i \in 1..Len(q) : r[i] = q[i]
  OBVIOUS
<1>3. Len(b) \in 1..Len(C) /\ c.count = Len(C)
  BY DEF Begins, Follows
<1> HIDE DEF D, r
<1>4. ASSUME NEW i \in 1..Len(r), r[i].kind = "BLOCK"
      PROVE  /\ r[i].block.count \in Len(b)..(Len(D) - 1)
             /\ r[i].block = D[r[i].block.count + 1]
             /\ \A j \in 1..(i - 1) : r[j].kind = "BLOCK" => r[j].block.count < r[i].block.count
  <2>1. CASE i \in 1..Len(q)
    <3> DEFINE k == q[i].block.count
    <3>1. k \in Len(b)..(Len(C) - 1) /\ q[i].block = C[k + 1]
          /\ \A j \in 1..(i - 1) : q[j].kind = "BLOCK" => q[j].block.count < k
      BY <1>2, <1>4, <2>1 DEF Brings
    <3>2. r[i] = q[i] /\ \A j \in 1..(i - 1) : r[j] = q[j]
      BY <1>2, <2>1
    <3> HIDE DEF k
    <3>3. k + 1 \in 1..Len(C) /\ k \in Len(b)..(Len(D) - 1)
      BY <1>1, <1>3, <3>1
    <3> QED BY <1>1, <3>1, <3>2, <3>3 DEF k
  <2>2. CASE i = Len(q) + 1
    <3>1. \A j \in 1..(i - 1) : j \in 1..Len(q) /\ r[j] = q[j]
      BY <1>2, <2>2
    <3>2. ASSUME NEW j \in 1..Len(q), q[j].kind = "BLOCK" PROVE q[j].block.count < Len(C)
      <4>1. q[j].block.count \in Len(b)..(Len(C) - 1)
        BY <3>2 DEF Brings
      <4> QED BY <1>1, <1>3, <4>1
    <3>3. r[i].block = c /\ r[i].block.count = Len(C)
      BY <1>2, <1>3, <2>2
    <3> QED BY <1>1, <1>3, <3>1, <3>2, <3>3
  <2> QED BY <1>2, <2>1, <2>2
<1>5. ASSUME NEW k \in Len(b)..(Len(D) - 1)
      PROVE  \E i \in 1..Len(r) : r[i].kind = "BLOCK" /\ r[i].block.count = k
  <2>1. CASE k = Len(C)
    <3>1. Len(q) + 1 \in 1..Len(r) /\ r[Len(q) + 1].kind = "BLOCK"
          /\ r[Len(q) + 1].block.count = k
      BY <1>2, <1>3, <2>1
    <3> QED BY <3>1
  <2>2. CASE k # Len(C)
    <3>1. k \in Len(b)..(Len(C) - 1)
      BY <1>1, <1>3, <2>2
    <3>2. PICK i \in 1..Len(q) : q[i].kind = "BLOCK" /\ q[i].block.count = k
      BY <3>1 DEF Brings
    <3>3. i \in 1..Len(r) /\ r[i] = q[i]
      BY <1>2
    <3> QED BY <3>2, <3>3
  <2> QED BY <2>1, <2>2
<1>6. Brings(D, b, r)
  BY <1>4, <1>5 DEF Brings
<1> QED BY <1>6 DEF D, r

\* Other messages do not matter, whether they come ...
LEMMA BringsMore ==
    ASSUME NEW C, NEW b, NEW T, NEW q \in Seq(T), Brings(C, b, q), NEW v \in T, v.kind # "BLOCK"
    PROVE  Brings(C, b, Append(q, v))
<1> DEFINE r == Append(q, v)
<1>1. /\ Len(q) \in Nat /\ Len(r) = Len(q) + 1 /\ r[Len(q) + 1] = v
      /\ \A i \in 1..Len(q) : r[i] = q[i]
  OBVIOUS
<1> HIDE DEF r
<1>2. \A i \in 1..Len(r) : r[i].kind = "BLOCK" => i \in 1..Len(q)
  BY <1>1
<1>3. ASSUME NEW i \in 1..Len(r), r[i].kind = "BLOCK"
      PROVE  /\ r[i].block.count \in Len(b)..(Len(C) - 1)
             /\ r[i].block = C[r[i].block.count + 1]
             /\ \A j \in 1..(i - 1) : r[j].kind = "BLOCK" => r[j].block.count < r[i].block.count
  <2>1. i \in 1..Len(q) /\ r[i] = q[i] /\ \A j \in 1..(i - 1) : r[j] = q[j]
    BY <1>1, <1>2, <1>3
  <2> QED BY <1>3, <2>1 DEF Brings
<1>4. ASSUME NEW k \in Len(b)..(Len(C) - 1)
      PROVE  \E i \in 1..Len(r) : r[i].kind = "BLOCK" /\ r[i].block.count = k
  <2>1. PICK i \in 1..Len(q) : q[i].kind = "BLOCK" /\ q[i].block.count = k
    BY DEF Brings
  <2>2. i \in 1..Len(r) /\ r[i] = q[i]
    BY <1>1
  <2> QED BY <2>1, <2>2
<1>5. Brings(C, b, r)
  BY <1>3, <1>4 DEF Brings
<1> QED BY <1>5 DEF r

\* ... or go.
LEMMA BringsTail ==
    ASSUME NEW C, NEW b, NEW T, NEW q \in Seq(T), q # <<>>, Brings(C, b, q)
    PROVE  Head(q).kind # "BLOCK" => Brings(C, b, Tail(q))
<1> SUFFICES ASSUME Head(q).kind # "BLOCK" PROVE Brings(C, b, Tail(q))
  OBVIOUS
<1> DEFINE r == Tail(q)
<1>1. /\ Len(q) \in Nat /\ Len(r) = Len(q) - 1 /\ q[1].kind # "BLOCK"
      /\ \A i \in 1..Len(r) : r[i] = q[i + 1]
  OBVIOUS
<1> HIDE DEF r
<1>2. ASSUME NEW i \in 1..Len(r), r[i].kind = "BLOCK"
      PROVE  /\ r[i].block.count \in Len(b)..(Len(C) - 1)
             /\ r[i].block = C[r[i].block.count + 1]
             /\ \A j \in 1..(i - 1) : r[j].kind = "BLOCK" => r[j].block.count < r[i].block.count
  <2> DEFINE h == i + 1
  <2>1. h \in 1..Len(q) /\ r[i] = q[h]
        /\ \A j \in 1..(i - 1) : r[j] = q[j + 1] /\ j + 1 \in 1..(h - 1)
    BY <1>1
  <2> HIDE DEF h
  <2>2. /\ q[h].block.count \in Len(b)..(Len(C) - 1)
        /\ q[h].block = C[q[h].block.count + 1]
        /\ \A j \in 1..(h - 1) : q[j].kind = "BLOCK" => q[j].block.count < q[h].block.count
    BY <1>2, <2>1 DEF Brings
  <2> QED BY <2>1, <2>2
<1>3. ASSUME NEW k \in Len(b)..(Len(C) - 1)
      PROVE  \E i \in 1..Len(r) : r[i].kind = "BLOCK" /\ r[i].block.count = k
  <2>1. PICK i \in 1..Len(q) : q[i].kind = "BLOCK" /\ q[i].block.count = k
    BY DEF Brings
  <2> DEFINE h == i - 1
  <2>2. h \in 1..Len(r) /\ r[h] = q[i]
    BY <1>1, <2>1
  <2> HIDE DEF h
  <2> QED BY <2>1, <2>2
<1>4. Brings(C, b, r)
  BY <1>2, <1>3 DEF Brings
<1> QED BY <1>4 DEF r

\* The first block to arrive is the next one.
LEMMA BringsNext ==
    ASSUME NEW C, IsChain(C), NEW b, b \in Seq(KnownBlocks), Begins(C, b),
           NEW T, NEW q \in Seq(T), q # <<>>, Brings(C, b, q), Head(q).kind = "BLOCK"
    PROVE  /\ Follows(b, Head(q).block) /\ Head(q).block \in KnownBlocks
           /\ Len(b) < Len(C)
           /\ Begins(C, Append(b, Head(q).block))
           /\ Brings(C, Append(b, Head(q).block), Tail(q))
<1> DEFINE r == Tail(q)
           c == Head(q).block
           k == c.count
           p == Append(b, c)
           l == Len(b)
<1>1. /\ Len(q) \in Nat /\ Len(r) = Len(q) - 1 /\ q[1] = Head(q) /\ 1 \in 1..Len(q)
      /\ \A i \in 1..Len(r) : r[i] = q[i + 1]
  OBVIOUS
<1>2. /\ k \in Len(b)..(Len(C) - 1) /\ c = C[k + 1]
  BY <1>1 DEF Brings
<1>3. Len(b) \in 1..Len(C) /\ Len(C) \in Nat /\ \A i \in 1..Len(b) : b[i] = C[i]
  BY DEF Begins, IsChain
<1>4. k = Len(b)
  <2>1. PICK i \in 1..Len(q) : q[i].kind = "BLOCK" /\ q[i].block.count = Len(b)
    <3>1. Len(b) \in Len(b)..(Len(C) - 1)
      BY <1>2, <1>3
    <3> QED BY <3>1 DEF Brings
  <2>2. i = 1 \/ k < Len(b)
    <3>1. i = 1 \/ 1 \in 1..(i - 1)
      BY <1>1
    <3> QED BY <1>1, <2>1, <3>1 DEF Brings
  <2> QED BY <1>1, <1>2, <1>3, <2>1, <2>2
<1>5. /\ Len(p) = Len(b) + 1 /\ \A i \in 1..Len(b) : p[i] = b[i]
      /\ p[Len(b) + 1] = c
  <2>1. c \in KnownBlocks
    BY <1>2, <1>3 DEF IsChain
  <2> QED BY <2>1
<1>6. Begins(C, p)
  <2>1. Len(p) \in 1..Len(C)
    BY <1>2, <1>3, <1>4, <1>5
  <2>2. ASSUME NEW i \in 1..Len(p) PROVE p[i] = C[i]
    <3>1. i \in 1..Len(b) \/ i = Len(b) + 1
      BY <1>3, <1>5
    <3> QED BY <1>2, <1>3, <1>4, <1>5, <3>1
  <2> QED BY <2>1, <2>2 DEF Begins
<1>7. Follows(b, c) /\ c \in KnownBlocks /\ Len(b) < Len(C)
  <2> DEFINE n == k + 1
  <2>1. n \in 2..Len(C) /\ n - 1 = Len(b) /\ n - 1 = k /\ c = C[n]
    BY <1>2, <1>3, <1>4
  <2> HIDE DEF n
  <2>2. c.lastHash = C[Len(b)].hash /\ c.forger = Genesis /\ c.txs # <<>> /\ c \in KnownBlocks
    BY <2>1 DEF IsChain
  <2>3. C[Len(b)] = b[Len(b)]
    BY <1>3
  <2> QED BY <1>2, <1>3, <1>4, <2>2, <2>3 DEF Follows
<1> HIDE DEF r, c, k, p
<1>8. ASSUME NEW i \in 1..Len(r), r[i].kind = "BLOCK"
      PROVE  /\ r[i].block.count \in Len(p)..(Len(C) - 1)
             /\ r[i].block = C[r[i].block.count + 1]
             /\ \A j \in 1..(i - 1) : r[j].kind = "BLOCK" => r[j].block.count < r[i].block.count
  <2> DEFINE h == i + 1
             m == q[h].block.count
  <2>1. h \in 1..Len(q) /\ r[i] = q[h] /\ 1 \in 1..(h - 1)
        /\ \A j \in 1..(i - 1) : r[j] = q[j + 1] /\ j + 1 \in 1..(h - 1)
    BY <1>1
  <2> HIDE DEF h
  <2>2. /\ m \in Len(b)..(Len(C) - 1) /\ q[h].block = C[m + 1]
        /\ \A j \in 1..(h - 1) : q[j].kind = "BLOCK" => q[j].block.count < m
    BY <1>8, <2>1 DEF Brings
  <2>3. k < m
    BY <1>1, <2>1, <2>2 DEF k, c
  <2> HIDE DEF m
  <2>4. m \in Len(p)..(Len(C) - 1)
    BY <1>2, <1>3, <1>4, <1>5, <2>2, <2>3
  <2> QED BY <2>1, <2>2, <2>4 DEF m
<1>9. ASSUME NEW e \in Len(p)..(Len(C) - 1)
      PROVE  \E i \in 1..Len(r) : r[i].kind = "BLOCK" /\ r[i].block.count = e
  <2>1. e \in Len(b)..(Len(C) - 1) /\ e # k
    BY <1>3, <1>4, <1>5
  <2>2. PICK i \in 1..Len(q) : q[i].kind = "BLOCK" /\ q[i].block.count = e
    BY <2>1 DEF Brings
  <2>3. i # 1
    BY <1>1, <2>1, <2>2 DEF k, c
  <2> DEFINE h == i - 1
  <2>4. h \in 1..Len(r) /\ r[h] = q[i]
    BY <1>1, <2>3
  <2> HIDE DEF h
  <2> QED BY <2>2, <2>4
<1>10. Brings(C, p, r)
  BY <1>8, <1>9 DEF Brings
<1> QED BY <1>6, <1>7, <1>10 DEF r, c, p
-----------------------------------------------------------------------------
(***************************************************************************)
(* The wire again, and what the handlers do where genesis wins.            *)
(***************************************************************************)
LEMMA SentAt ==
    ASSUME NEW S, NEW u, NEW w, IsWire(S, u, w), NEW n \in Node, NEW to, NEW ms,
           NEW a \in Node, NEW b \in Node
    PROVE  sentTo(w, n, to, ms)[a][b] =
               IF a = n /\ b \in to THEN w[a][b] \o ms ELSE w[a][b]
<1> DEFINE row == [m \in Node |-> IF m \in to THEN w[n][m] \o ms ELSE w[n][m]]
<1>1. sentTo(w, n, to, ms) = [w EXCEPT ![n] = row]
  BY DEF sentTo
<1>2. row[b] = IF b \in to THEN w[n][b] \o ms ELSE w[n][b]
  OBVIOUS
<1> HIDE DEF row
<1>3. [w EXCEPT ![n] = row][a] = IF a = n THEN row ELSE w[a]
  BY DEF IsWire
<1> QED BY <1>1, <1>2, <1>3

LEMMA ReceivedAt ==
    ASSUME NEW S, NEW u, IsWire(S, u, wire), NEW m \in Node, NEW n \in Node,
           NEW a \in Node, NEW b \in Node
    PROVE  received(m, n)[a][b] = IF a = m /\ b = n THEN Tail(wire[a][b]) ELSE wire[a][b]
<1> DEFINE row == [wire[m] EXCEPT ![n] = Tail(wire[m][n])]
<1>1. received(m, n) = [wire EXCEPT ![m] = row]
  BY DEF received
<1>2. row[b] = IF b = n THEN Tail(wire[m][n]) ELSE wire[m][b]
  BY DEF IsWire
<1> HIDE DEF row
<1>3. [wire EXCEPT ![m] = row][a] = IF a = m THEN row ELSE wire[a]
  BY DEF IsWire
<1> QED BY <1>1, <1>2, <1>3

Wins(s) == forgerOf(s.ledger, tip(s).lastHash) = Genesis

word(x) == [kind |-> "TRANSACTION", tx |-> x]

news(b) == [kind |-> "BLOCK", block |-> b]

\* A handler leaves the chain alone, and at most passes a transaction on ...
Keeps(s, o) ==
    /\ o.node.blocks = s.blocks
    /\ o.sent = <<>> \/ \E x \in KnownTx : o.sent = <<word(x)>>

\* ... or adds b to it, and announces it.
Forges(s, o, b) ==
    /\ o.node.blocks = Append(s.blocks, b)
    /\ o.sent = <<news(b)>> \/ \E x \in KnownTx : o.sent = <<word(x)>> \o <<news(b)>>

KeepsOrForges(n, s, o) ==
    \/ Keeps(s, o)
    \/ n = Master /\ \E b \in KnownBlocks : Follows(s.blocks, b) /\ Forges(s, o, b)

LEMMA TipIs ==
    ASSUME NEW s, IsNode(KnownTx, s)
    PROVE  tip(s) = s.blocks[Len(s.blocks)] /\ Len(s.blocks) \in Nat \ {0}
BY DEF IsNode, tip, Last

LEMMA ForgeWon ==
    ASSUME GenesisIsMaster, NEW n \in Node, NEW s, IsNode(KnownTx, s), Wins(s),
           NEW id \in Nat, NEW o \in forge(n, s, id)
    PROVE  \/ o = outcome(s, <<>>)
           \/ n = Master /\ \E b \in KnownBlocks :
                  Follows(s.blocks, b) /\ o = outcome(addBlock(s, b), <<news(b)>>)
<1>1. unclogged(s) = s
  BY DEF unclogged, Wins
<1>2. \/ o = outcome(s, <<>>)
      \/ /\ walletOf[n] = Genesis
         /\ \E d \in Draw : o = outcome(addBlock(s, newBlock(n, s, id, d)), <<news(newBlock(n, s, id, d))>>)
  BY <1>1 DEF forge, Wins, news
<1>3. ASSUME walletOf[n] = Genesis, NEW d \in Draw
      PROVE  newBlock(n, s, id, d) \in KnownBlocks /\ Follows(s.blocks, newBlock(n, s, id, d))
  <2>1. newBlock(n, s, id, d) \in KnownBlocks
    BY ClosedKnown, NewBlockType DEF KnownBlocks
  <2>2. rewarded(n, s, id) # <<>>
    <3>1. rewarded(n, s, id) \in Seq(KnownTx)
      BY ClosedKnown, RewardedType
    <3> DEFINE txs == [i \in DOMAIN s.pool |-> charge(s.pool[i])]
    <3>2. txs \in Seq(KnownTx)
      <4>1. s.pool \in Seq(KnownTx)
        BY DEF IsNode
      <4>2. \A i \in DOMAIN s.pool : charge(s.pool[i]) \in KnownTx
        BY <4>1, ClosedKnown DEF Closed
      <4> QED BY <4>1, <4>2
    <3>3. rewarded(n, s, id) = Append(txs, rewardTx(id, walletOf[n], fees(s.pool)))
      BY DEF rewarded
    <3> HIDE DEF txs
    <3> QED BY <3>2, <3>3
  <2> QED BY <1>3, <2>1, <2>2, TipIs DEF newBlock, Follows
<1> QED BY <1>2, <1>3 DEF GenesisIsMaster

LEMMA HandleTransactionWon ==
    ASSUME GenesisIsMaster, NEW n \in Node, NEW s, IsNode(KnownTx, s), Wins(s), NEW x \in KnownTx,
           NEW broadcast, NEW id \in Nat, NEW o \in handleTransaction(n, s, x, broadcast, id)
    PROVE  KeepsOrForges(n, s, o)
<1> DEFINE added == [s EXCEPT !.pool = Append(@, x)]
           first == IF broadcast THEN <<word(x)>> ELSE <<>>
<1>1. IsNode(KnownTx, added) /\ Wins(added) /\ added.blocks = s.blocks
  <2>1. Append(s.pool, x) \in Seq(KnownTx)
    BY DEF IsNode
  <2> QED BY <2>1 DEF IsNode, Wins, tip
<1>2. \/ o = outcome(s, <<>>)
      \/ o = outcome(added, first)
      \/ \E p \in forge(n, added, id) : o = [p EXCEPT !.sent = first \o @]
  BY DEF handleTransaction, word
<1>3. first = <<>> \/ first = <<word(x)>>
  OBVIOUS
<1> HIDE DEF added, first
<1>4. CASE o = outcome(s, <<>>) \/ o = outcome(added, first)
  BY <1>1, <1>3, <1>4 DEF outcome, Keeps, KeepsOrForges
<1>5. ASSUME NEW p \in forge(n, added, id), o = [p EXCEPT !.sent = first \o @]
      PROVE  KeepsOrForges(n, s, o)
  <2>1. \/ p = outcome(added, <<>>)
        \/ n = Master /\ \E b \in KnownBlocks :
               Follows(added.blocks, b) /\ p = outcome(addBlock(added, b), <<news(b)>>)
    BY <1>1, ForgeWon
  <2>2. CASE p = outcome(added, <<>>)
    <3>1. o.node = added /\ o.sent = first \o <<>>
      BY <1>5, <2>2 DEF outcome
    <3>2. first \o <<>> = first
      BY <1>3
    <3> QED BY <1>1, <1>3, <3>1, <3>2 DEF Keeps, KeepsOrForges
  <2>3. ASSUME n = Master, NEW b \in KnownBlocks, Follows(added.blocks, b),
               p = outcome(addBlock(added, b), <<news(b)>>)
        PROVE  KeepsOrForges(n, s, o)
    <3>1. o.node = addBlock(added, b) /\ o.sent = first \o <<news(b)>>
      BY <1>5, <2>3 DEF outcome
    <3>2. o.node.blocks = Append(s.blocks, b)
      BY <1>1, <3>1 DEF addBlock
    <3>3. o.sent = <<news(b)>> \/ o.sent = <<word(x)>> \o <<news(b)>>
      <4>1. <<>> \o <<news(b)>> = <<news(b)>>
        OBVIOUS
      <4> QED BY <1>3, <3>1, <4>1
    <3> QED BY <1>1, <2>3, <3>2, <3>3 DEF Forges, KeepsOrForges
  <2> QED BY <2>1, <2>2, <2>3
<1> QED BY <1>2, <1>4, <1>5

\* A block that follows, from genesis, is adopted.
LEMMA HandleBlockWon ==
    ASSUME NEW n \in Node, NEW s, IsNode(KnownTx, s), Wins(s), NEW b \in KnownBlocks,
           Follows(s.blocks, b), tip(s).count = Len(s.blocks) - 1
    PROVE  handleBlock(n, s, b) = outcome(addBlock(s, b), <<>>)
<1>1. tip(s).count = b.count - 1 /\ tip(s).hash = b.lastHash /\ b.txs # <<>>
  BY TipIs DEF Follows
<1>2. forgerValid(s, b)
  BY LedgerAssumption DEF forgerValid, publicKey, Wins, Follows
<1> QED BY <1>1, <1>2 DEF handleBlock
-----------------------------------------------------------------------------
(***************************************************************************)
(* While all nodes know each other the master has the chain, and what the  *)
(* others lack of it is on its way to them.                                *)
(***************************************************************************)
TradeOnly(m, q) ==
    \A i \in 1..Len(q) : q[i].kind = "TRANSACTION" \/ (q[i].kind = "BLOCK" /\ m = Master)

Trading(C, u, ps, nd, w) ==
    /\ \A n \in u : ps[n] = u \ {n}
    /\ nd[Master].blocks = C
    /\ \A n \in Node \ u : nd[n].blocks = <<C[1]>> /\ nd[n].pool = <<>>
    /\ \A n \in u : Begins(C, nd[n].blocks) /\ Brings(C, nd[n].blocks, w[Master][n])
    /\ \A m, n \in Node : TradeOnly(m, w[m][n])

LEMMA TradeOnlyKept ==
    ASSUME NEW m, NEW T, NEW q \in Seq(T), TradeOnly(m, q)
    PROVE  /\ q # <<>> => TradeOnly(m, Tail(q))
           /\ \A v \in T : v.kind = "TRANSACTION" \/ (v.kind = "BLOCK" /\ m = Master)
                              => TradeOnly(m, Append(q, v))
<1>1. ASSUME q # <<>> PROVE TradeOnly(m, Tail(q))
  <2> DEFINE r == Tail(q)
  <2>1. Len(q) \in Nat /\ Len(r) = Len(q) - 1 /\ \A i \in 1..Len(r) : r[i] = q[i + 1]
    BY <1>1
  <2> HIDE DEF r
  <2>2. \A i \in 1..Len(r) : i + 1 \in 1..Len(q)
    BY <2>1
  <2>3. TradeOnly(m, r)
    BY <2>1, <2>2 DEF TradeOnly
  <2> QED BY <2>3 DEF r
<1>2. ASSUME NEW v \in T, v.kind = "TRANSACTION" \/ (v.kind = "BLOCK" /\ m = Master)
      PROVE  TradeOnly(m, Append(q, v))
  <2> DEFINE r == Append(q, v)
  <2>1. /\ Len(q) \in Nat /\ Len(r) = Len(q) + 1 /\ r[Len(q) + 1] = v
        /\ \A i \in 1..Len(q) : r[i] = q[i]
    OBVIOUS
  <2> HIDE DEF r
  <2>2. \A i \in 1..Len(r) : i \in 1..Len(q) \/ i = Len(q) + 1
    BY <2>1
  <2>3. TradeOnly(m, r)
    BY <1>2, <2>1, <2>2 DEF TradeOnly
  <2> QED BY <2>3 DEF r
<1> QED BY <1>1, <1>2

LEMMA Concatenated ==
    ASSUME NEW T, NEW q \in Seq(T), NEW p \in Seq(T)
    PROVE  /\ q \o p \in Seq(T) /\ Len(q \o p) = Len(q) + Len(p)
           /\ \A i \in 1..(Len(q) + Len(p)) : (q \o p)[i] = IF i <= Len(q) THEN q[i] ELSE p[i - Len(q)]
OBVIOUS

LEMMA Appended ==
    ASSUME NEW T, NEW q \in Seq(T), NEW x \in T, NEW y \in T
    PROVE  /\ q \o <<>> = q /\ q \o <<x>> = Append(q, x)
           /\ q \o (<<x>> \o <<y>>) = Append(Append(q, x), y)
<1> DEFINE p == <<x>> \o <<y>>
           r == q \o p
           t == Append(Append(q, x), y)
<1>1. q \o <<>> = q /\ q \o <<x>> = Append(q, x)
  OBVIOUS
<1>2. p \in Seq(T) /\ Len(p) = 2 /\ p[1] = x /\ p[2] = y
  <2>1. <<x>> \in Seq(T) /\ <<y>> \in Seq(T) /\ Len(<<x>>) = 1 /\ Len(<<y>>) = 1
        /\ <<x>>[1] = x /\ <<y>>[1] = y
    OBVIOUS
  <2> QED BY <2>1
<1> HIDE DEF p
<1> DEFINE l == Len(q)
<1>8. l \in Nat /\ l + 1 \in 1..(l + 2) /\ l + 2 \in 1..(l + 2) /\ 1..l \subseteq 1..(l + 2)
  OBVIOUS
<1>9. r \in Seq(T) /\ Len(r) = l + 2 /\ \A i \in 1..(l + 2) : r[i] = IF i <= l THEN q[i] ELSE p[i - l]
  <2>1. p \in Seq(T)
    BY <1>2
  <2>2. Len(q \o p) = Len(q) + Len(p)
    BY <2>1, Concatenated
  <2>3. /\ q \o p \in Seq(T)
        /\ \A i \in 1..(Len(q) + Len(p)) : (q \o p)[i] = IF i <= Len(q) THEN q[i] ELSE p[i - Len(q)]
    BY <2>1, Concatenated
  <2> QED BY <1>2, <2>2, <2>3
<1>3. /\ r \in Seq(T) /\ Len(r) = Len(q) + 2 /\ Len(q) \in Nat
      /\ \A i \in 1..Len(q) : r[i] = q[i]
      /\ r[Len(q) + 1] = x /\ r[Len(q) + 2] = y
  <2>1. ~(l + 1 <= l) /\ ~(l + 2 <= l) /\ (l + 1) - l = 1 /\ (l + 2) - l = 2
    BY <1>8
  <2>2. \A i \in 1..l : i <= l
    BY <1>8
  <2> HIDE DEF r
  <2> QED BY <1>8, <1>2, <1>9, <2>1, <2>2
<1>4. /\ t \in Seq(T) /\ Len(t) = Len(q) + 2
      /\ \A i \in 1..Len(q) : t[i] = q[i]
      /\ t[Len(q) + 1] = x /\ t[Len(q) + 2] = y
  <2> DEFINE z == Append(q, x)
  <2>1. z \in Seq(T) /\ Len(z) = Len(q) + 1 /\ z[Len(q) + 1] = x /\ \A i \in 1..Len(q) : z[i] = q[i]
    OBVIOUS
  <2> HIDE DEF z
  <2>2. Append(z, y) \in Seq(T) /\ Len(Append(z, y)) = Len(z) + 1 /\ Append(z, y)[Len(z) + 1] = y
        /\ \A i \in 1..Len(z) : Append(z, y)[i] = z[i]
    BY <2>1
  <2> QED BY <2>1, <2>2 DEF z
<1> HIDE DEF r, t
<1>5. \A i \in 1..(Len(q) + 2) : i \in 1..Len(q) \/ i = Len(q) + 1 \/ i = Len(q) + 2
  BY <1>3
<1>6. \A i \in 1..Len(r) : r[i] = t[i]
  BY <1>3, <1>4, <1>5
<1>7. r = t
  BY <1>3, <1>4, <1>6
<1> QED BY <1>1, <1>7 DEF r, t, p

LEMMA WordIs ==
    ASSUME NEW m \in Node, NEW x \in KnownTx
    PROVE  word(x) \in MessageFrom(KnownTx, m) /\ word(x).kind = "TRANSACTION"
BY DEF word, MessageFrom

LEMMA NewsIs ==
    ASSUME NEW m \in Node, NEW b \in KnownBlocks
    PROVE  news(b) \in MessageFrom(KnownTx, m) /\ news(b).kind = "BLOCK" /\ news(b).block = b
BY DEF news, MessageFrom, KnownBlocks

LEMMA TradingKeeps ==
    ASSUME Typed(KnownTx), NEW C, IsChain(C), NEW w, IsWire(KnownTx, up, w),
           Trading(C, up, peers, node, w), NEW n \in up, NEW o, Keeps(node[n], o)
    PROVE  Trading(C, up, peers, [node EXCEPT ![n] = o.node], sentTo(w, n, peers[n], o.sent))
<1> DEFINE nd == [node EXCEPT ![n] = o.node]
           v == sentTo(w, n, peers[n], o.sent)
<1>1. n \in Node /\ Master \in Node /\ up \subseteq Node
  BY NetworkAssumption DEF Typed
<1>2. \A k \in Node : nd[k].blocks = node[k].blocks /\ (k # n => nd[k] = node[k])
  BY DEF Keeps, Typed
<1>3. ASSUME NEW a \in Node, NEW k \in Node
      PROVE  v[a][k] = w[a][k] \/ \E x \in KnownTx : v[a][k] = Append(w[a][k], word(x))
  <2>1. v[a][k] = IF a = n /\ k \in peers[n] THEN w[a][k] \o o.sent ELSE w[a][k]
    BY <1>1, SentAt
  <2>2. w[a][k] \in Seq(MessageFrom(KnownTx, a))
    BY DEF IsWire
  <2>3. CASE o.sent = <<>>
    <3>1. w[a][k] \o o.sent = w[a][k]
      BY <2>2, <2>3
    <3> QED BY <2>1, <3>1
  <2>4. ASSUME NEW x \in KnownTx, o.sent = <<word(x)>>
        PROVE  v[a][k] = w[a][k] \/ v[a][k] = Append(w[a][k], word(x))
    <3>1. word(x) \in MessageFrom(KnownTx, a)
      BY DEF word, MessageFrom
    <3>2. w[a][k] \o o.sent = Append(w[a][k], word(x))
      BY <2>2, <2>4, <3>1, Appended
    <3> QED BY <2>1, <3>2
  <2> QED BY <2>3, <2>4 DEF Keeps
<1> HIDE DEF nd, v
<1>4. ASSUME NEW a \in Node, NEW k \in Node
      PROVE  TradeOnly(a, v[a][k]) /\ (Brings(C, node[k].blocks, w[a][k]) => Brings(C, node[k].blocks, v[a][k]))
  <2>1. w[a][k] \in Seq(MessageFrom(KnownTx, a)) /\ TradeOnly(a, w[a][k])
    BY DEF IsWire, Trading
  <2>2. CASE v[a][k] = w[a][k]
    BY <2>1, <2>2
  <2>3. ASSUME NEW x \in KnownTx, v[a][k] = Append(w[a][k], word(x))
        PROVE  TradeOnly(a, v[a][k]) /\ (Brings(C, node[k].blocks, w[a][k]) => Brings(C, node[k].blocks, v[a][k]))
    <3>1. word(x) \in MessageFrom(KnownTx, a) /\ word(x).kind = "TRANSACTION" /\ word(x).kind # "BLOCK"
      BY DEF word, MessageFrom
    <3>2. TradeOnly(a, Append(w[a][k], word(x)))
      BY <2>1, <3>1, TradeOnlyKept
    <3>3. Brings(C, node[k].blocks, w[a][k]) => Brings(C, node[k].blocks, Append(w[a][k], word(x)))
      BY <2>1, <3>1, BringsMore
    <3> QED BY <2>3, <3>2, <3>3
  <2> QED BY <1>3, <2>2, <2>3
<1>5. Trading(C, up, peers, nd, v)
  BY <1>1, <1>2, <1>4 DEF Trading
<1> QED BY <1>5 DEF nd, v

LEMMA TradingForges ==
    ASSUME Typed(KnownTx), NEW C, IsChain(C), NEW w, IsWire(KnownTx, up, w),
           Trading(C, up, peers, node, w), NEW o, NEW b \in KnownBlocks, Follows(C, b),
           Forges(node[Master], o, b)
    PROVE  Trading(Append(C, b), up, peers, [node EXCEPT ![Master] = o.node],
                   sentTo(w, Master, peers[Master], o.sent))
<1> DEFINE nd == [node EXCEPT ![Master] = o.node]
           v == sentTo(w, Master, peers[Master], o.sent)
           D == Append(C, b)
<1>1. Master \in Node /\ up \subseteq Node /\ Master \in up /\ peers[Master] = up \ {Master}
  BY NetworkAssumption DEF Typed, Trading
<1>2. nd[Master].blocks = D /\ \A k \in Node : k # Master => nd[k] = node[k]
  BY <1>1 DEF Forges, Typed, Trading
<1>3. /\ IsChain(D) /\ Begins(D, D) /\ \A p : Begins(C, p) => Begins(D, p)
      /\ D[1] = C[1] /\ Len(D) \in Nat
  <2>1. Len(C) \in Nat
    BY DEF IsChain
  <2> QED BY <2>1, ChainGrows
<1>4. ASSUME NEW a \in Node, NEW k \in Node
      PROVE  \/ v[a][k] = w[a][k] /\ (a # Master \/ k \notin up \ {Master})
             \/ a = Master /\ k \in up \ {Master} /\ v[a][k] = Append(w[a][k], news(b))
             \/ a = Master /\ k \in up \ {Master} /\ \E x \in KnownTx : v[a][k] = Append(Append(w[a][k], word(x)), news(b))
  <2>1. w[a][k] \in Seq(MessageFrom(KnownTx, a)) /\ news(b) \in MessageFrom(KnownTx, a)
    BY DEF IsWire, news, MessageFrom, KnownBlocks
  <2>2. v[a][k] = IF a = Master /\ k \in peers[Master] THEN w[a][k] \o o.sent ELSE w[a][k]
    BY <1>1, SentAt
  <2>3. CASE o.sent = <<news(b)>>
    <3>1. w[a][k] \o <<news(b)>> = Append(w[a][k], news(b))
      BY <2>1, Appended
    <3> QED BY <1>1, <2>2, <2>3, <3>1
  <2>4. ASSUME NEW x \in KnownTx, o.sent = <<word(x)>> \o <<news(b)>>
        PROVE  \/ v[a][k] = w[a][k] /\ (a # Master \/ k \notin up \ {Master})
               \/ a = Master /\ k \in up \ {Master} /\ v[a][k] = Append(Append(w[a][k], word(x)), news(b))
    <3>1. word(x) \in MessageFrom(KnownTx, a)
      BY DEF word, MessageFrom
    <3> DEFINE M == MessageFrom(KnownTx, a)
               q == w[a][k]
               y == word(x)
               z == news(b)
    <3>2. w[a][k] \o (<<word(x)>> \o <<news(b)>>) = Append(Append(w[a][k], word(x)), news(b))
      <4>1. q \in Seq(M) /\ y \in M /\ z \in M
        BY <2>1, <3>1
      <4> HIDE DEF M, q, y, z
      <4>2. q \o (<<y>> \o <<z>>) = Append(Append(q, y), z)
        BY <4>1, Appended
      <4> QED BY <4>2 DEF q, y, z
    <3> QED BY <1>1, <2>2, <2>4, <3>2
  <2> QED BY <2>3, <2>4 DEF Forges
<1> HIDE DEF nd, v
<1>5. ASSUME NEW a \in Node, NEW k \in Node PROVE TradeOnly(a, v[a][k])
  <2>1. w[a][k] \in Seq(MessageFrom(KnownTx, a)) /\ TradeOnly(a, w[a][k])
    BY DEF IsWire, Trading
  <2>2. CASE v[a][k] = w[a][k]
    BY <2>1, <2>2
  <2> DEFINE M == MessageFrom(KnownTx, a)
             z == news(b)
  <2>3. a = Master => /\ z \in M
                      /\ z.kind = "TRANSACTION" \/ (z.kind = "BLOCK" /\ a = Master)
    BY NewsIs
  <2>4. CASE a = Master /\ v[a][k] = Append(w[a][k], z)
    <3> HIDE DEF M, z
    <3>1. w[a][k] \in Seq(M)
      BY <2>1 DEF M
    <3> QED BY <2>1, <2>3, <2>4, <3>1, TradeOnlyKept
  <2>5. ASSUME a = Master, NEW x \in KnownTx, v[a][k] = Append(Append(w[a][k], word(x)), z)
        PROVE  TradeOnly(a, v[a][k])
    <3> DEFINE y == word(x)
               r == Append(w[a][k], y)
    <3>1. y \in M /\ y.kind = "TRANSACTION"
      BY WordIs
    <3> HIDE DEF M, y, z
    <3>2. w[a][k] \in Seq(M) /\ r \in Seq(M)
      BY <2>1, <3>1 DEF M
    <3>3. TradeOnly(a, r)
      BY <2>1, <3>1, <3>2, TradeOnlyKept
    <3>4. v[a][k] = Append(r, z)
      BY <2>5 DEF y
    <3> HIDE DEF r
    <3> QED BY <2>3, <2>5, <3>2, <3>3, <3>4, TradeOnlyKept
  <2> QED BY <1>4, <2>2, <2>4, <2>5
<1>6. ASSUME NEW k \in up, k # Master PROVE Brings(D, node[k].blocks, v[Master][k])
  <2> DEFINE q == w[Master][k]
             p == node[k].blocks
             M == MessageFrom(KnownTx, Master)
             z == news(b)
  <2>1. q \in Seq(M) /\ Begins(C, p) /\ Brings(C, p, q)
    BY <1>1 DEF IsWire, Trading
  <2>2. \/ v[Master][k] = Append(q, z)
        \/ \E x \in KnownTx : v[Master][k] = Append(Append(q, word(x)), z)
    BY <1>1, <1>4, <1>6
  <2>3. z \in M /\ z.kind = "BLOCK" /\ z.block = b
    BY <1>1, NewsIs
  <2> HIDE DEF q, p, M, z
  <2>4. ASSUME v[Master][k] = Append(q, z) PROVE Brings(D, p, v[Master][k])
    <3>1. Brings(Append(C, b), p, Append(q, z))
      BY <2>1, <2>3, BringsBlock
    <3> QED BY <2>4, <3>1
  <2>5. ASSUME NEW x \in KnownTx, v[Master][k] = Append(Append(q, word(x)), z)
        PROVE  Brings(D, p, v[Master][k])
    <3> DEFINE y == word(x)
               r == Append(q, y)
    <3>1. y \in M /\ y.kind # "BLOCK"
      BY <1>1, WordIs DEF M
    <3> HIDE DEF y
    <3>2. r \in Seq(M) /\ Brings(C, p, r)
      BY <2>1, <3>1, BringsMore
    <3>3. v[Master][k] = Append(r, z)
      BY <2>5 DEF y
    <3> HIDE DEF r
    <3>4. Brings(Append(C, b), p, Append(r, z))
      BY <2>1, <2>3, <3>2, BringsBlock
    <3> QED BY <3>3, <3>4
  <2>6. Brings(D, p, v[Master][k])
    BY <2>2, <2>4, <2>5
  <2> QED BY <2>6 DEF p
<1>7. Brings(D, D, v[Master][Master])
  <2>1. w[Master][Master] = <<>>
    BY <1>1 DEF IsWire
  <2>2. v[Master][Master] = <<>>
    BY <1>1, <2>1, <1>4
  <2> QED BY <1>3, <2>2 DEF Brings
<1> HIDE DEF D
<1>8. ASSUME NEW k \in up PROVE Begins(D, nd[k].blocks) /\ Brings(D, nd[k].blocks, v[Master][k])
  <2>1. CASE k = Master
    BY <1>2, <1>3, <1>7, <2>1
  <2>2. CASE k # Master
    <3>1. Begins(C, node[k].blocks)
      BY DEF Trading
    <3> QED BY <1>1, <1>2, <1>3, <1>6, <2>2, <3>1
  <2> QED BY <2>1, <2>2
<1>9. \A k \in Node \ up : nd[k].blocks = <<D[1]>> /\ nd[k].pool = <<>>
  BY <1>1, <1>2, <1>3 DEF Trading
<1>10. Trading(D, up, peers, nd, v)
  BY <1>1, <1>2, <1>5, <1>8, <1>9 DEF Trading
<1> QED BY <1>10 DEF nd, v, D

\* A transaction is taken from the wire.
LEMMA TradingHears ==
    ASSUME Typed(KnownTx), NEW C, Trading(C, up, peers, node, wire),
           NEW m \in Node, NEW n \in Node, wire[m][n] # <<>>, Head(wire[m][n]).kind # "BLOCK"
    PROVE  Trading(C, up, peers, node, received(m, n))
<1>1. IsWire(KnownTx, up, wire) /\ Master \in Node /\ up \subseteq Node
  BY NetworkAssumption DEF Typed
<1>2. ASSUME NEW a \in Node, NEW k \in Node
      PROVE  /\ TradeOnly(a, received(m, n)[a][k])
             /\ Brings(C, node[k].blocks, wire[a][k]) => Brings(C, node[k].blocks, received(m, n)[a][k])
  <2>1. wire[a][k] \in Seq(MessageFrom(KnownTx, a)) /\ TradeOnly(a, wire[a][k])
    BY <1>1 DEF IsWire, Trading
  <2>2. received(m, n)[a][k] = IF a = m /\ k = n THEN Tail(wire[a][k]) ELSE wire[a][k]
    BY <1>1, ReceivedAt
  <2>3. CASE a = m /\ k = n
    <3>1. wire[a][k] # <<>> /\ Head(wire[a][k]).kind # "BLOCK"
      BY <2>3
    <3> QED BY <2>1, <2>2, <2>3, <3>1, TradeOnlyKept, BringsTail
  <2>4. CASE ~(a = m /\ k = n)
    BY <2>1, <2>2, <2>4
  <2> QED BY <2>3, <2>4
<1> QED BY <1>1, <1>2 DEF Trading

\* The next block is taken from the wire, and adopted.
LEMMA TradingAdopts ==
    ASSUME Typed(KnownTx), GenesisWins, NEW C, IsChain(C), Trading(C, up, peers, node, wire),
           NEW m \in Node, NEW n \in Node, ReceiveBlock(m, n)
    PROVE  /\ Trading(C, up, peers, node', wire')
           /\ \E s : /\ node' = [node EXCEPT ![n] = s]
                     /\ Begins(C, s.blocks) /\ Len(s.blocks) = Len(node[n].blocks) + 1
<1> DEFINE q == wire[Master][n]
           b == Head(q).block
           s == node[n]
           t == addBlock(s, b)
           v == sentTo(received(Master, n), n, peers[n], <<>>)
<1>1. IsWire(KnownTx, up, wire) /\ Master \in Node /\ up \subseteq Node /\ IsNode(KnownTx, s)
      /\ node = [k \in Node |-> node[k]]
  BY NetworkAssumption DEF Typed
<1>2. wire[m][n] # <<>> /\ Head(wire[m][n]).kind = "BLOCK"
      /\ Become(n, {handleBlock(n, s, keyedBlock(Head(wire[m][n]).block))}, received(m, n))
  BY DEF ReceiveBlock, Waiting
<1>3. m = Master /\ n \in up /\ n # Master
  <2>1. wire[m][n] \in Seq(MessageFrom(KnownTx, m)) /\ TradeOnly(m, wire[m][n]) /\ n \in up /\ m # n
    BY <1>1, <1>2 DEF IsWire, Trading
  <2>2. 1 \in 1..Len(wire[m][n]) /\ wire[m][n][1] = Head(wire[m][n])
    BY <1>2, <2>1
  <2> QED BY <1>2, <2>1, <2>2 DEF TradeOnly
<1>4. /\ Follows(s.blocks, b) /\ b \in KnownBlocks /\ Len(s.blocks) < Len(C)
      /\ Begins(C, Append(s.blocks, b)) /\ Brings(C, Append(s.blocks, b), Tail(q))
  <2>1. q \in Seq(MessageFrom(KnownTx, Master)) /\ q # <<>> /\ Head(q).kind = "BLOCK"
    BY <1>1, <1>2, <1>3 DEF IsWire
  <2>2. Begins(C, s.blocks) /\ Brings(C, s.blocks, q) /\ s.blocks \in Seq(KnownBlocks)
    BY <1>1, <1>3 DEF Trading, IsNode, KnownBlocks
  <2> HIDE DEF q, s
  <2> QED BY <2>1, <2>2, BringsNext
<1>5. tip(s).count = Len(s.blocks) - 1
  <2> DEFINE l == Len(s.blocks)
  <2>1. Begins(C, s.blocks) /\ tip(s) = s.blocks[l] /\ l \in Nat \ {0}
    BY <1>1, <1>3, TipIs DEF Trading
  <2>2. l \in 1..Len(C) /\ tip(s) = C[l]
    BY <2>1 DEF Begins
  <2> HIDE DEF l
  <2>3. l = 1 \/ l \in 2..Len(C)
    BY <2>1, <2>2
  <2>4. tip(s).count = l - 1
    BY <2>2, <2>3 DEF IsChain
  <2> QED BY <2>4 DEF l
<1>6. handleBlock(n, s, b) = outcome(t, <<>>)
  BY <1>1, <1>4, <1>5, HandleBlockWon DEF Wins, GenesisWins
<1>7. keyedBlock(b) = b
  BY <1>4, KnownSame
<1>8. node' = [node EXCEPT ![n] = t] /\ wire' = v
  <2>1. Become(n, {outcome(t, <<>>)}, received(Master, n))
    BY <1>2, <1>3, <1>6, <1>7
  <2> HIDE DEF t
  <2>2. PICK o \in {outcome(t, <<>>)} :
           node' = [node EXCEPT ![n] = o.node] /\ wire' = sentTo(received(Master, n), n, peers[n], o.sent)
    BY <2>1 DEF Become
  <2>3. o.node = t /\ o.sent = <<>>
    BY DEF outcome
  <2> QED BY <2>2, <2>3
<1>9. t.blocks = Append(s.blocks, b)
  BY DEF addBlock
<1>10. Len(t.blocks) = Len(s.blocks) + 1 /\ Begins(C, t.blocks)
  <2>1. s.blocks \in Seq(KnownBlocks) /\ b \in KnownBlocks
    BY <1>1, <1>4 DEF IsNode, KnownBlocks
  <2> HIDE DEF s, b, t
  <2>2. Len(Append(s.blocks, b)) = Len(s.blocks) + 1
    BY <2>1
  <2> QED BY <1>4, <1>9, <2>2
<1>11. ASSUME NEW a \in Node, NEW k \in Node
       PROVE  v[a][k] = IF a = Master /\ k = n THEN Tail(wire[a][k]) ELSE wire[a][k]
  <2>1. received(Master, n)[a][k] = IF a = Master /\ k = n THEN Tail(wire[a][k]) ELSE wire[a][k]
    BY <1>1, ReceivedAt
  <2>2. IsWire(KnownTx, up, received(Master, n))
    BY <1>1, <1>2, <1>3, ReceivedType
  <2> DEFINE r == received(Master, n)
  <2>3. r[a][k] \o <<>> = r[a][k]
    BY <2>2 DEF IsWire
  <2> HIDE DEF r
  <2>4. IsWire(KnownTx, up, r) /\ n \in Node
    BY <2>2 DEF r
  <2> DEFINE to == peers[n]
             ms == <<>>
  <2>5. sentTo(r, n, to, ms)[a][k] = IF a = n /\ k \in to THEN r[a][k] \o ms ELSE r[a][k]
    <3> HIDE DEF to, ms
    <3> QED BY <2>4, SentAt
  <2> QED BY <2>1, <2>3, <2>5 DEF r
<1> HIDE DEF v, t
<1>12. \A k \in Node : node'[k] = IF k = n THEN t ELSE node[k]
  BY <1>1, <1>8
<1>13. ASSUME NEW a \in Node, NEW k \in Node PROVE TradeOnly(a, v[a][k])
  <2>1. wire[a][k] \in Seq(MessageFrom(KnownTx, a)) /\ TradeOnly(a, wire[a][k])
    BY <1>1 DEF IsWire, Trading
  <2> QED BY <1>2, <1>3, <1>11, <2>1, TradeOnlyKept
<1>14. ASSUME NEW k \in up PROVE Begins(C, node'[k].blocks) /\ Brings(C, node'[k].blocks, v[Master][k])
  <2>1. CASE k = n
    BY <1>1, <1>3, <1>4, <1>9, <1>10, <1>11, <1>12, <2>1
  <2>2. CASE k # n
    <3>1. k \in Node /\ node'[k] = node[k] /\ v[Master][k] = wire[Master][k]
      BY <1>1, <1>11, <1>12, <2>2
    <3> QED BY <3>1 DEF Trading
  <2> QED BY <2>1, <2>2
<1>15. node'[Master].blocks = C /\ \A k \in Node \ up : node'[k].blocks = <<C[1]>> /\ node'[k].pool = <<>>
  BY <1>1, <1>3, <1>12 DEF Trading
<1>16. Trading(C, up, peers, node', v)
  BY <1>13, <1>14, <1>15 DEF Trading
<1> QED BY <1>8, <1>10, <1>16
-----------------------------------------------------------------------------
(***************************************************************************)
(* While a node x joins nobody forges, all others have the chain, and      *)
(* those who ask are sent nothing, or all but the genesis block.           *)
(***************************************************************************)
beyond(C) == SubSeq(C, 2, Len(C))

JoinOnly(C, q) ==
    \A i \in 1..Len(q) :
        \/ q[i].kind = "BLOCKCHAINREQUEST" /\ q[i].size \in {1, Len(C)}
        \/ q[i].kind = "BLOCKCHAIN" /\ q[i].blocks \in {<<>>, beyond(C)}

Asks(v) == v.kind = "BLOCKCHAINREQUEST" /\ v.size = 1

Answers(C, v) == v.kind = "BLOCKCHAIN" /\ v.blocks = beyond(C)

\* What x lacks has been asked for, or is on its way.
Awaits(C, x, u, w) ==
    \E m \in u \ {x} : \/ \E i \in 1..Len(w[x][m]) : Asks(w[x][m][i])
                       \/ \E i \in 1..Len(w[m][x]) : Answers(C, w[m][x][i])

Joining(C, x, u, ps, nd, w) ==
    /\ x \in u /\ u # {x}
    /\ \A n \in Node : nd[n].pool = <<>>
    /\ \A n \in Node \ u : nd[n].blocks = <<C[1]>>
    /\ \A n \in u : nd[n].blocks = C \/ (n = x /\ nd[n].blocks = <<C[1]>>)
    /\ \A m, n \in Node : JoinOnly(C, w[m][n])
    /\ nd[x].blocks # C => ps[x] = {} \/ Awaits(C, x, u, w)

LEMMA JoinOnlyKept ==
    ASSUME NEW C, NEW T, NEW q \in Seq(T), JoinOnly(C, q)
    PROVE  /\ q # <<>> => JoinOnly(C, Tail(q))
           /\ \A v \in T : (\/ v.kind = "BLOCKCHAINREQUEST" /\ v.size \in {1, Len(C)}
                            \/ v.kind = "BLOCKCHAIN" /\ v.blocks \in {<<>>, beyond(C)})
                              => JoinOnly(C, Append(q, v))
<1>1. ASSUME q # <<>> PROVE JoinOnly(C, Tail(q))
  <2> DEFINE r == Tail(q)
  <2>1. Len(q) \in Nat /\ Len(r) = Len(q) - 1 /\ \A i \in 1..Len(r) : r[i] = q[i + 1]
    BY <1>1
  <2> HIDE DEF r
  <2>2. \A i \in 1..Len(r) : i + 1 \in 1..Len(q)
    BY <2>1
  <2>3. JoinOnly(C, r)
    BY <2>1, <2>2 DEF JoinOnly
  <2> QED BY <2>3 DEF r
<1>2. ASSUME NEW v \in T,
             \/ v.kind = "BLOCKCHAINREQUEST" /\ v.size \in {1, Len(C)}
             \/ v.kind = "BLOCKCHAIN" /\ v.blocks \in {<<>>, beyond(C)}
      PROVE  JoinOnly(C, Append(q, v))
  <2> DEFINE r == Append(q, v)
  <2>1. /\ Len(q) \in Nat /\ Len(r) = Len(q) + 1 /\ r[Len(q) + 1] = v
        /\ \A i \in 1..Len(q) : r[i] = q[i]
    OBVIOUS
  <2> HIDE DEF r
  <2>2. \A i \in 1..Len(r) : i \in 1..Len(q) \/ i = Len(q) + 1
    BY <2>1
  <2>3. JoinOnly(C, r)
    BY <1>2, <2>1, <2>2 DEF JoinOnly
  <2> QED BY <2>3 DEF r
<1> QED BY <1>1, <1>2

\* A message stays under way when others come after it, or leave before it.
LEMMA AskKept ==
    ASSUME NEW T, NEW q \in Seq(T), NEW i \in 1..Len(q), Asks(q[i])
    PROVE  /\ \A v \in T : \E j \in 1..Len(Append(q, v)) : Asks(Append(q, v)[j])
           /\ ~Asks(Head(q)) => \E j \in 1..Len(Tail(q)) : Asks(Tail(q)[j])
<1>1. ASSUME NEW v \in T PROVE i \in 1..Len(Append(q, v)) /\ Append(q, v)[i] = q[i]
  OBVIOUS
<1>2. ASSUME ~Asks(Head(q)) PROVE \E j \in 1..Len(Tail(q)) : Asks(Tail(q)[j])
  <2> DEFINE j == i - 1
             r == Tail(q)
  <2>1. Head(q) = q[1] /\ Len(q) \in Nat /\ q # <<>>
    OBVIOUS
  <2>2. i # 1
    BY <1>2, <2>1
  <2>3. j \in 1..Len(r) /\ r[j] = q[i]
    BY <2>1, <2>2
  <2> HIDE DEF j, r
  <2>4. \E k \in 1..Len(r) : Asks(r[k])
    BY <2>3
  <2> QED BY <2>4 DEF r
<1> QED BY <1>1, <1>2

LEMMA AnswerKept ==
    ASSUME NEW C, NEW T, NEW q \in Seq(T), NEW i \in 1..Len(q), Answers(C, q[i])
    PROVE  /\ \A v \in T : \E j \in 1..Len(Append(q, v)) : Answers(C, Append(q, v)[j])
           /\ ~Answers(C, Head(q)) => \E j \in 1..Len(Tail(q)) : Answers(C, Tail(q)[j])
<1>1. ASSUME NEW v \in T PROVE i \in 1..Len(Append(q, v)) /\ Append(q, v)[i] = q[i]
  OBVIOUS
<1>2. ASSUME ~Answers(C, Head(q)) PROVE \E j \in 1..Len(Tail(q)) : Answers(C, Tail(q)[j])
  <2> DEFINE j == i - 1
             r == Tail(q)
  <2>1. Head(q) = q[1] /\ Len(q) \in Nat /\ q # <<>>
    OBVIOUS
  <2>2. i # 1
    BY <1>2, <2>1
  <2>3. j \in 1..Len(r) /\ r[j] = q[i]
    BY <2>1, <2>2
  <2> HIDE DEF j, r
  <2>4. \E k \in 1..Len(r) : Answers(C, r[k])
    BY <2>3
  <2> QED BY <2>4 DEF r
<1> QED BY <1>1, <1>2

\* What is sent last is under way.
LEMMA LastSent ==
    ASSUME NEW T, NEW q \in Seq(T), NEW v \in T
    PROVE  \E j \in 1..Len(Append(q, v)) : Append(q, v)[j] = v
<1> DEFINE j == Len(q) + 1
<1>1. j \in 1..Len(Append(q, v)) /\ Append(q, v)[j] = v
  OBVIOUS
<1> QED BY <1>1

LEMMA BeyondIs ==
    ASSUME NEW C, IsChain(C)
    PROVE  /\ Len(C) \in Nat \ {0} /\ <<C[1]>> \in Seq(KnownBlocks) /\ Len(<<C[1]>>) = 1
           /\ beyond(C) \in Seq(KnownBlocks) /\ Len(beyond(C)) = Len(C) - 1
           /\ <<C[1]>> \o beyond(C) = C
           /\ Len(C) = 1 => C = <<C[1]>> /\ beyond(C) = <<>>
           /\ SubSeq(C, Len(C) + 1, Len(C)) = <<>>
<1>1. C \in Seq(KnownBlocks) /\ Len(C) \in Nat \ {0} /\ C[1] \in KnownBlocks
  BY DEF IsChain
<1> DEFINE h == <<C[1]>>
           b == beyond(C)
<1>2. h \in Seq(KnownBlocks) /\ Len(h) = 1 /\ h[1] = C[1]
  BY <1>1
<1>3. b \in Seq(KnownBlocks)
  BY <1>1, SubSeqType DEF beyond
<1>4. Len(b) = Len(C) - 1 /\ \A i \in 1..Len(b) : b[i] = C[i + 1]
  <2> DEFINE l == Len(C) - 1
  <2>1. l \in Nat
    BY <1>1
  <2>2. SubSeq(C, 2, Len(C)) = [i \in 1..(1 + Len(C) - 2) |-> C[i + 2 - 1]]
    BY <1>1
  <2>3. 1 + Len(C) - 2 = l /\ \A i \in 1..l : i + 2 - 1 = i + 1
    BY <1>1
  <2>4. b = [i \in 1..l |-> C[i + 1]]
    BY <2>2, <2>3 DEF beyond
  <2> HIDE DEF l
  <2>5. Len(b) = l /\ \A i \in 1..l : b[i] = C[i + 1]
    BY <1>3, <2>1, <2>4
  <2> QED BY <2>5 DEF l
<1> HIDE DEF h, b
<1>5. h \o b = C
  <2> DEFINE c == h \o b
  <2>1. c \in Seq(KnownBlocks) /\ Len(c) = Len(h) + Len(b)
        /\ \A i \in 1..(Len(h) + Len(b)) : c[i] = IF i <= Len(h) THEN h[i] ELSE b[i - Len(h)]
    BY <1>2, <1>3, Concatenated
  <2> HIDE DEF c
  <2>2. ASSUME NEW i \in 1..Len(C) PROVE c[i] = C[i]
    <3>1. CASE i = 1
      BY <1>1, <1>2, <1>4, <2>1, <3>1
    <3>2. CASE i # 1
      <4> DEFINE k == i - 1
      <4>1. k \in 1..Len(b) /\ k + 1 = i /\ ~(i <= 1) /\ i \in 1..(Len(h) + Len(b))
        BY <1>1, <1>2, <1>4, <3>2
      <4>2. c[i] = b[k]
        BY <1>2, <2>1, <4>1
      <4> QED BY <1>4, <4>1, <4>2
    <3> QED BY <3>1, <3>2
  <2>3. Len(c) = Len(C)
    BY <1>1, <1>2, <1>4, <2>1
  <2>4. c = C
    BY <1>1, <2>1, <2>2, <2>3
  <2> QED BY <2>4 DEF c
<1>6. Len(C) = 1 => C = h /\ b = <<>>
  BY <1>1, <1>2, <1>3, <1>4
<1>7. SubSeq(C, Len(C) + 1, Len(C)) = <<>>
  BY <1>1
<1> QED BY <1>1, <1>2, <1>3, <1>4, <1>5, <1>6, <1>7 DEF h, b

\* The count of the last block says how many there are.
LEMMA TipCount ==
    ASSUME NEW C, IsChain(C), NEW s, s.blocks = C \/ s.blocks = <<C[1]>>
    PROVE  tip(s).count = Len(s.blocks) - 1
<1>1. Len(C) \in Nat \ {0} /\ Len(<<C[1]>>) = 1 /\ <<C[1]>>[1] = C[1] /\ C[1].count = 0
  BY BeyondIs DEF IsChain
<1>2. tip(s) = s.blocks[Len(s.blocks)]
  BY DEF tip, Last
<1>3. CASE s.blocks = <<C[1]>>
  <2>1. tip(s) = C[1]
    BY <1>1, <1>2, <1>3
  <2> QED BY <1>1, <1>3, <2>1
<1>4. CASE s.blocks = C
  <2> DEFINE l == Len(C)
  <2>1. l \in Nat \ {0} /\ tip(s) = C[l]
    BY <1>1, <1>2, <1>4
  <2>2. C[1].count = 0 /\ \A i \in 2..l : C[i].count = i - 1
    BY DEF IsChain
  <2> HIDE DEF l
  <2>3. tip(s).count = l - 1
    <3>1. l = 1 \/ l \in 2..l
      BY <2>1
    <3> QED BY <2>1, <2>2, <3>1
  <2> QED BY <1>4, <2>3 DEF l
<1> QED BY <1>3, <1>4

\* What a download makes of a node that has the genesis block, or all.
LEMMA HandleChain ==
    ASSUME NEW C, IsChain(C), NEW s, IsNode(KnownTx, s), s.blocks = C \/ s.blocks = <<C[1]>>,
           NEW bs, bs = <<>> \/ bs = beyond(C)
    PROVE  /\ handleBlockchain(s, bs).blocks = s.blocks \/ handleBlockchain(s, bs).blocks = C
           /\ bs = beyond(C) => handleBlockchain(s, bs).blocks = C
           /\ handleBlockchain(s, bs).pool = s.pool
<1> DEFINE h == handleBlockchain(s, bs)
<1>1. /\ Len(C) \in Nat \ {0} /\ Len(beyond(C)) = Len(C) - 1 /\ <<C[1]>> \o beyond(C) = C
      /\ Len(<<C[1]>>) = 1 /\ Len(<<>>) = 0
      /\ Len(C) = 1 => C = <<C[1]>> /\ beyond(C) = <<>>
  BY BeyondIs
<1>2. /\ Len(bs) = tip(s).count => h = s
      /\ Len(bs) # tip(s).count => h.blocks = s.blocks \o bs /\ h.pool = s.pool
  BY DEF handleBlockchain, IsNode
<1>3. tip(s).count = Len(s.blocks) - 1
  BY TipCount
<1> HIDE DEF h
<1>4. h.pool = s.pool
  BY <1>2
<1>5. s.blocks \o <<>> = s.blocks
  BY DEF IsNode
<1>6. CASE s.blocks = C
  <2>1. CASE bs = <<>>
    <3>1. h.blocks = C
      BY <1>2, <1>5, <1>6, <2>1
    <3> QED BY <1>4, <1>6, <3>1 DEF h
  <2>2. CASE bs = beyond(C)
    <3>1. h = s
      BY <1>1, <1>2, <1>3, <1>6, <2>2
    <3> QED BY <1>6, <3>1 DEF h
  <2> QED BY <2>1, <2>2
<1>7. CASE s.blocks = <<C[1]>>
  <2>1. CASE Len(C) = 1
    BY <1>1, <1>6, <1>7, <2>1
  <2>2. CASE Len(C) # 1
    <3>1. CASE bs = <<>>
      <4>1. h = s /\ bs # beyond(C)
        BY <1>1, <1>2, <1>3, <1>7, <2>2, <3>1
      <4> QED BY <4>1 DEF h
    <3>2. CASE bs = beyond(C)
      <4>1. Len(C) \in Nat \ {0} /\ Len(bs) = Len(C) - 1 /\ tip(s).count = 0
        BY <1>1, <1>3, <1>7, <3>2
      <4>2. Len(bs) # tip(s).count
        BY <2>2, <4>1
      <4>3. h.blocks = C
        BY <1>1, <1>2, <1>7, <3>2, <4>2
      <4> QED BY <1>4, <4>3 DEF h
    <3> QED BY <3>1, <3>2
  <2> QED BY <2>1, <2>2
<1> QED BY <1>6, <1>7

\* What a node that has the genesis block, or all, answers.
LEMMA AnswerIs ==
    ASSUME NEW C, IsChain(C), NEW s, s.blocks = C \/ s.blocks = <<C[1]>>,
           NEW size, size = 1 \/ size = Len(C)
    PROVE  /\ \/ answer(s, size) = <<>>
              \/ \E bs \in {<<>>, beyond(C)} :
                     answer(s, size) = <<[kind |-> "BLOCKCHAIN", blocks |-> bs]>>
           /\ s.blocks = C /\ Len(C) # 1 /\ size = 1 =>
                  answer(s, size) = <<[kind |-> "BLOCKCHAIN", blocks |-> beyond(C)]>>
<1>1. /\ Len(C) \in Nat \ {0} /\ Len(<<C[1]>>) = 1 /\ SubSeq(C, Len(C) + 1, Len(C)) = <<>>
  BY BeyondIs
<1>2. CASE s.blocks = <<C[1]>> /\ s.blocks # C
  BY <1>1, <1>2 DEF answer
<1>3. CASE s.blocks = C
  <2>1. Len(C) # 1 => answer(s, size) = <<[kind |-> "BLOCKCHAIN", blocks |-> SubSeq(C, size + 1, Len(C))]>>
    <3>1. ~(size > Len(s.blocks))
      BY <1>1, <1>3
    <3>2. missing(s, size) = SubSeq(C, size + 1, Len(C))
      BY <1>3 DEF missing
    <3> QED BY <1>3, <3>1, <3>2 DEF answer
  <2>2. Len(C) = 1 => answer(s, size) = <<>>
    BY <1>3 DEF answer
  <2>3. size = 1 => SubSeq(C, size + 1, Len(C)) = beyond(C)
    BY DEF beyond
  <2>4. size = Len(C) => SubSeq(C, size + 1, Len(C)) = <<>>
    BY <1>1
  <2> QED BY <2>1, <2>2, <2>3, <2>4
<1> QED BY <1>2, <1>3
LEMMA AwaitsKept ==
    ASSUME NEW C, NEW x \in Node, NEW w, IsWire(KnownTx, up, w), up \subseteq Node, NEW v,
           \A a, b \in Node :
               \/ v[a][b] = w[a][b]
               \/ \E y \in MessageFrom(KnownTx, a) : v[a][b] = Append(w[a][b], y)
               \/ /\ w[a][b] # <<>> /\ v[a][b] = Tail(w[a][b])
                  /\ a = x /\ Asks(Head(w[a][b])) => Awaits(C, x, up, v)
                  /\ b = x /\ Answers(C, Head(w[a][b])) => Awaits(C, x, up, v),
           Awaits(C, x, up, w)
    PROVE  Awaits(C, x, up, v)
<1>1. PICK m \in up \ {x} : \/ \E i \in 1..Len(w[x][m]) : Asks(w[x][m][i])
                            \/ \E i \in 1..Len(w[m][x]) : Answers(C, w[m][x][i])
  BY DEF Awaits
<1>2. m \in Node /\ w[x][m] \in Seq(MessageFrom(KnownTx, x)) /\ w[m][x] \in Seq(MessageFrom(KnownTx, m))
  BY <1>1 DEF IsWire
<1>3. ASSUME NEW i \in 1..Len(w[x][m]), Asks(w[x][m][i]) PROVE Awaits(C, x, up, v)
  <2> DEFINE q == w[x][m]
             p == v[x][m]
             M == MessageFrom(KnownTx, x)
  <2>1. \/ p = q
        \/ \E y \in M : p = Append(q, y)
        \/ q # <<>> /\ p = Tail(q) /\ (Asks(Head(q)) => Awaits(C, x, up, v))
    BY <1>2
  <2>2. q \in Seq(M) /\ i \in 1..Len(q) /\ Asks(q[i])
    BY <1>2, <1>3
  <2>3. (\E j \in 1..Len(p) : Asks(p[j])) => Awaits(C, x, up, v)
    BY DEF Awaits
  <2> HIDE DEF q, p, M
  <2>4. ASSUME NEW y \in M, p = Append(q, y) PROVE \E j \in 1..Len(p) : Asks(p[j])
    BY <2>2, <2>4, AskKept
  <2>5. ASSUME p = Tail(q), ~Asks(Head(q)) PROVE \E j \in 1..Len(p) : Asks(p[j])
    BY <2>2, <2>5, AskKept
  <2> QED BY <2>1, <2>2, <2>3, <2>4, <2>5
<1>4. ASSUME NEW i \in 1..Len(w[m][x]), Answers(C, w[m][x][i]) PROVE Awaits(C, x, up, v)
  <2> DEFINE q == w[m][x]
             p == v[m][x]
             M == MessageFrom(KnownTx, m)
  <2>1. \/ p = q
        \/ \E y \in M : p = Append(q, y)
        \/ q # <<>> /\ p = Tail(q) /\ (Answers(C, Head(q)) => Awaits(C, x, up, v))
    BY <1>2
  <2>2. q \in Seq(M) /\ i \in 1..Len(q) /\ Answers(C, q[i])
    BY <1>2, <1>4
  <2>3. (\E j \in 1..Len(p) : Answers(C, p[j])) => Awaits(C, x, up, v)
    BY DEF Awaits
  <2> HIDE DEF q, p, M
  <2>4. ASSUME NEW y \in M, p = Append(q, y) PROVE \E j \in 1..Len(p) : Answers(C, p[j])
    BY <2>2, <2>4, AnswerKept
  <2>5. ASSUME p = Tail(q), ~Answers(C, Head(q)) PROVE \E j \in 1..Len(p) : Answers(C, p[j])
    BY <2>2, <2>5, AnswerKept
  <2> QED BY <2>1, <2>2, <2>3, <2>4, <2>5
<1> QED BY <1>1, <1>3, <1>4

\* The message at the head of the wire, while somebody joins.
LEMMA JoiningHead ==
    ASSUME Typed(KnownTx), NEW C, NEW x, Joining(C, x, up, peers, node, wire),
           NEW m \in Node, NEW n \in Node, wire[m][n] # <<>>
    PROVE  /\ m \in up /\ n \in up /\ m # n /\ wire[m][n] \in Seq(MessageFrom(KnownTx, m))
           /\ \/ /\ Head(wire[m][n]).kind = "BLOCKCHAINREQUEST"
                 /\ Head(wire[m][n]).from = m /\ Head(wire[m][n]).size \in {1, Len(C)}
              \/ /\ Head(wire[m][n]).kind = "BLOCKCHAIN"
                 /\ Head(wire[m][n]).blocks \in {<<>>, beyond(C)}
<1> DEFINE q == wire[m][n]
<1>1. m \in up /\ n \in up /\ m # n /\ q \in Seq(MessageFrom(KnownTx, m)) /\ JoinOnly(C, q) /\ q # <<>>
  BY DEF Typed, IsWire, Joining
<1> HIDE DEF q
<1>2. 1 \in 1..Len(q) /\ q[1] = Head(q) /\ Head(q) \in MessageFrom(KnownTx, m)
  BY <1>1
<1>3. Head(q).kind = "BLOCKCHAINREQUEST" => Head(q).from = m
  BY <1>2 DEF MessageFrom
<1> QED BY <1>1, <1>2, <1>3 DEF JoinOnly, q

LEMMA JoiningRequest ==
    ASSUME Typed(KnownTx), NEW C, IsChain(C), NEW x \in Node, Joining(C, x, up, peers, node, wire),
           NEW m \in Node, NEW n \in Node, ReceiveRequest(m, n)
    PROVE  Joining(C, x, up, peers, node, wire')
<1> DEFINE r == Head(wire[m][n])
           ans == answer(node[n], r.size)
           R == received(m, n)
<1>1. wire[m][n] # <<>> /\ r.kind = "BLOCKCHAINREQUEST" /\ wire' = sentTo(R, n, {r.from}, ans)
  BY DEF ReceiveRequest, Waiting
<1>2. m \in up /\ n \in up /\ m # n /\ r.from = m /\ (r.size = 1 \/ r.size = Len(C))
      /\ wire[m][n] \in Seq(MessageFrom(KnownTx, m))
  BY <1>1, JoiningHead
<1>3. IsWire(KnownTx, up, wire) /\ up \subseteq Node /\ IsWire(KnownTx, up, R)
  BY <1>1, ReceivedType DEF Typed
<1>4. ASSUME NEW a \in Node, NEW b \in Node
      PROVE  /\ R[a][b] = IF a = m /\ b = n THEN Tail(wire[a][b]) ELSE wire[a][b]
             /\ wire'[a][b] = IF a = n /\ b \in {m} THEN R[a][b] \o ans ELSE R[a][b]
  <2>1. R[a][b] = IF a = m /\ b = n THEN Tail(wire[a][b]) ELSE wire[a][b]
    BY <1>3, ReceivedAt
  <2> DEFINE w == R
             ms == ans
  <2>2. IsWire(KnownTx, up, w) /\ wire' = sentTo(w, n, {m}, ms)
    BY <1>1, <1>2, <1>3
  <2>3. wire'[a][b] = IF a = n /\ b \in {m} THEN w[a][b] \o ms ELSE w[a][b]
    <3> HIDE DEF w, ms
    <3> QED BY <2>2, SentAt
  <2> QED BY <2>1, <2>3
<1>5. node[n].blocks = C \/ node[n].blocks = <<C[1]>>
  BY <1>2 DEF Joining
<1>6. /\ ans = <<>> \/ \E bs \in {<<>>, beyond(C)} : ans = <<[kind |-> "BLOCKCHAIN", blocks |-> bs]>>
      /\ node[n].blocks = C /\ Len(C) # 1 /\ r.size = 1 =>
             ans = <<[kind |-> "BLOCKCHAIN", blocks |-> beyond(C)]>>
  BY <1>2, <1>5, AnswerIs
<1>7. \A bs \in {<<>>, beyond(C)} : [kind |-> "BLOCKCHAIN", blocks |-> bs] \in MessageFrom(KnownTx, n)
  <2>1. beyond(C) \in Seq(KnownBlocks)
    BY BeyondIs
  <2>2. <<>> \in Seq(KnownBlocks)
    OBVIOUS
  <2> QED BY <2>1, <2>2 DEF MessageFrom, KnownBlocks
<1>8. wire[n][m] \in Seq(MessageFrom(KnownTx, n))
  BY <1>3 DEF IsWire
<1>9. /\ \/ wire'[n][m] = wire[n][m]
         \/ \E bs \in {<<>>, beyond(C)} :
                wire'[n][m] = Append(wire[n][m], [kind |-> "BLOCKCHAIN", blocks |-> bs])
      /\ node[n].blocks = C /\ Len(C) # 1 /\ r.size = 1 =>
             wire'[n][m] = Append(wire[n][m], [kind |-> "BLOCKCHAIN", blocks |-> beyond(C)])
  <2> DEFINE q == wire[n][m]
             M == MessageFrom(KnownTx, n)
  <2>1. wire'[n][m] = q \o ans
    BY <1>2, <1>4
  <2>2. q \in Seq(M)
    BY <1>8
  <2> HIDE DEF q, M, ans
  <2>3. q \o <<>> = q
    BY <2>2
  <2>4. ASSUME NEW bs \in {<<>>, beyond(C)}
        PROVE  q \o <<[kind |-> "BLOCKCHAIN", blocks |-> bs]>> = Append(q, [kind |-> "BLOCKCHAIN", blocks |-> bs])
    <3> DEFINE y == [kind |-> "BLOCKCHAIN", blocks |-> bs]
    <3>1. y \in M
      BY <1>7 DEF M
    <3> HIDE DEF y
    <3>2. q \o <<y>> = Append(q, y)
      BY <2>2, <3>1
    <3> QED BY <3>2 DEF y
  <2>5. CASE ans = <<>>
    <3>1. ~(node[n].blocks = C /\ Len(C) # 1 /\ r.size = 1)
      <4>1. ans # <<[kind |-> "BLOCKCHAIN", blocks |-> beyond(C)]>>
        BY <2>5
      <4> QED BY <1>6, <4>1
    <3> QED BY <2>1, <2>3, <2>5, <3>1 DEF q
  <2>6. ASSUME NEW bs \in {<<>>, beyond(C)}, ans = <<[kind |-> "BLOCKCHAIN", blocks |-> bs]>>
        PROVE  wire'[n][m] = Append(q, [kind |-> "BLOCKCHAIN", blocks |-> bs])
    BY <2>1, <2>4, <2>6
  <2>7. node[n].blocks = C /\ Len(C) # 1 /\ r.size = 1 =>
             wire'[n][m] = Append(q, [kind |-> "BLOCKCHAIN", blocks |-> beyond(C)])
    BY <1>6, <2>1, <2>4
  <2>8. \/ wire'[n][m] = q
        \/ \E bs \in {<<>>, beyond(C)} : wire'[n][m] = Append(q, [kind |-> "BLOCKCHAIN", blocks |-> bs])
    BY <1>6, <2>1, <2>3, <2>6
  <2> QED BY <2>7, <2>8 DEF q
<1>10. /\ wire'[m][n] = Tail(wire[m][n])
       /\ \A a, b \in Node : ~(a = m /\ b = n) /\ ~(a = n /\ b = m) => wire'[a][b] = wire[a][b]
  BY <1>2, <1>4
<1> HIDE DEF ans, R
<1>11. ASSUME NEW a \in Node, NEW b \in Node PROVE JoinOnly(C, wire'[a][b])
  <2>1. wire[a][b] \in Seq(MessageFrom(KnownTx, a)) /\ JoinOnly(C, wire[a][b])
    BY <1>3 DEF IsWire, Joining
  <2>2. CASE a = m /\ b = n
    BY <1>1, <1>10, <2>1, <2>2, JoinOnlyKept
  <2>3. ASSUME a = n, b = m, NEW bs \in {<<>>, beyond(C)},
               wire'[n][m] = Append(wire[n][m], [kind |-> "BLOCKCHAIN", blocks |-> bs])
        PROVE  JoinOnly(C, wire'[n][m])
    <3> DEFINE y == [kind |-> "BLOCKCHAIN", blocks |-> bs]
               q == wire[n][m]
               M == MessageFrom(KnownTx, n)
    <3>1. y \in M /\ y.kind = "BLOCKCHAIN" /\ y.blocks \in {<<>>, beyond(C)} /\ q \in Seq(M) /\ JoinOnly(C, q)
      BY <1>7, <2>1, <2>3
    <3>2. wire'[n][m] = Append(q, y)
      BY <2>3
    <3> HIDE DEF y, q, M
    <3>3. JoinOnly(C, Append(q, y))
      BY <3>1, JoinOnlyKept
    <3> QED BY <3>2, <3>3
  <2> QED BY <1>9, <1>10, <2>1, <2>2, <2>3
<1>12. ASSUME node[x].blocks # C, Awaits(C, x, up, wire) PROVE Awaits(C, x, up, wire')
  <2>1. ASSUME m = x, Asks(r) PROVE Awaits(C, x, up, wire')
    <3>1. node[n].blocks = C /\ node[x].blocks = <<C[1]>> /\ x \in up /\ n \in up \ {x}
      BY <1>2, <2>1, <1>12 DEF Joining
    <3>2. Len(C) # 1 /\ r.size = 1
      BY <1>12, <2>1, <3>1, BeyondIs DEF Asks
    <3> DEFINE y == [kind |-> "BLOCKCHAIN", blocks |-> beyond(C)]
               q == wire[n][m]
               M == MessageFrom(KnownTx, n)
    <3>3. wire'[n][m] = Append(q, y) /\ y \in M /\ q \in Seq(M) /\ Answers(C, y)
      BY <1>7, <1>8, <1>9, <3>1, <3>2 DEF Answers
    <3> HIDE DEF y, q, M
    <3>4. \E j \in 1..Len(Append(q, y)) : Append(q, y)[j] = y
      BY <3>3, LastSent
    <3>5. \E j \in 1..Len(wire'[n][x]) : Answers(C, wire'[n][x][j])
      BY <2>1, <3>3, <3>4
    <3> QED BY <3>1, <3>5 DEF Awaits
  <2>2. ~Answers(C, r)
    BY <1>1 DEF Answers
  <2>3. \A a, b \in Node :
            \/ wire'[a][b] = wire[a][b]
            \/ \E y \in MessageFrom(KnownTx, a) : wire'[a][b] = Append(wire[a][b], y)
            \/ /\ wire[a][b] # <<>> /\ wire'[a][b] = Tail(wire[a][b])
               /\ a = x /\ Asks(Head(wire[a][b])) => Awaits(C, x, up, wire')
               /\ b = x /\ Answers(C, Head(wire[a][b])) => Awaits(C, x, up, wire')
    <3> SUFFICES ASSUME NEW a \in Node, NEW b \in Node
        PROVE  \/ wire'[a][b] = wire[a][b]
               \/ \E y \in MessageFrom(KnownTx, a) : wire'[a][b] = Append(wire[a][b], y)
               \/ /\ wire[a][b] # <<>> /\ wire'[a][b] = Tail(wire[a][b])
                  /\ a = x /\ Asks(Head(wire[a][b])) => Awaits(C, x, up, wire')
                  /\ b = x /\ Answers(C, Head(wire[a][b])) => Awaits(C, x, up, wire')
      OBVIOUS
    <3>1. CASE a = m /\ b = n
      BY <1>1, <1>10, <2>1, <2>2, <3>1
    <3>2. CASE a = n /\ b = m
      BY <1>7, <1>9, <3>2
    <3> QED BY <1>10, <3>1, <3>2
  <2> QED BY <1>3, <1>12, <2>3, AwaitsKept
<1> QED BY <1>11, <1>12 DEF Joining
LEMMA JoiningChain ==
    ASSUME Typed(KnownTx), NEW C, IsChain(C), NEW x \in Node, Joining(C, x, up, peers, node, wire),
           NEW m \in Node, NEW n \in Node, ReceiveChain(m, n)
    PROVE  /\ Joining(C, x, up, peers, node', wire')
           /\ \E s : /\ node' = [node EXCEPT ![n] = s]
                     /\ s.blocks = node[n].blocks \/ (node[n].blocks = <<C[1]>> /\ s.blocks = C)
<1> DEFINE r == Head(wire[m][n])
           bs == r.blocks
           s == handleBlockchain(node[n], bs)
           R == received(m, n)
<1>1. wire[m][n] # <<>> /\ r.kind = "BLOCKCHAIN"
      /\ Become(n, {outcome(handleBlockchain(node[n], [i \in DOMAIN bs |-> keyedBlock(bs[i])]), <<>>)}, R)
  BY DEF ReceiveChain, Waiting
<1>2. m \in up /\ n \in up /\ m # n /\ (bs = <<>> \/ bs = beyond(C))
      /\ wire[m][n] \in Seq(MessageFrom(KnownTx, m))
  BY <1>1, JoiningHead
<1>3. IsWire(KnownTx, up, wire) /\ up \subseteq Node /\ IsWire(KnownTx, up, R)
      /\ node = [k \in Node |-> node[k]] /\ IsNode(KnownTx, node[n])
  BY <1>1, ReceivedType DEF Typed
<1>4. [i \in DOMAIN bs |-> keyedBlock(bs[i])] = bs
  <2>1. beyond(C) \in Seq(KnownBlocks)
    BY BeyondIs
  <2>2. <<>> \in Seq(KnownBlocks)
    OBVIOUS
  <2> HIDE DEF bs
  <2>3. bs \in Seq(KnownBlocks)
    BY <1>2, <2>1, <2>2
  <2> QED BY <2>3, KnownSame
<1>5. node' = [node EXCEPT ![n] = s] /\ wire' = sentTo(R, n, peers[n], <<>>)
  <2>1. Become(n, {outcome(s, <<>>)}, R)
    BY <1>1, <1>4
  <2> HIDE DEF s, R
  <2>2. PICK o \in {outcome(s, <<>>)} :
           node' = [node EXCEPT ![n] = o.node] /\ wire' = sentTo(R, n, peers[n], o.sent)
    BY <2>1 DEF Become
  <2>3. o.node = s /\ o.sent = <<>>
    BY DEF outcome
  <2> QED BY <2>2, <2>3
<1>6. ASSUME NEW a \in Node, NEW b \in Node
      PROVE  wire'[a][b] = IF a = m /\ b = n THEN Tail(wire[a][b]) ELSE wire[a][b]
  <2>1. R[a][b] = IF a = m /\ b = n THEN Tail(wire[a][b]) ELSE wire[a][b]
    BY <1>3, ReceivedAt
  <2>2. R[a][b] \o <<>> = R[a][b]
    BY <1>3 DEF IsWire
  <2> DEFINE to == peers[n]
             ms == <<>>
  <2> HIDE DEF R
  <2>3. wire' = sentTo(R, n, to, ms)
    BY <1>5
  <2>4. wire'[a][b] = IF a = n /\ b \in to THEN R[a][b] \o ms ELSE R[a][b]
    <3> HIDE DEF to, ms
    <3> QED BY <1>3, <2>3, SentAt
  <2> QED BY <2>1, <2>2, <2>4
<1>7. node[n].blocks = C \/ (n = x /\ node[n].blocks = <<C[1]>>)
  BY <1>2 DEF Joining
<1> HIDE DEF bs
<1>8. /\ s.blocks = node[n].blocks \/ s.blocks = C
      /\ bs = beyond(C) => s.blocks = C
      /\ s.pool = node[n].pool
  BY <1>2, <1>3, <1>7, HandleChain
<1> HIDE DEF s, R
<1>9. \A k \in Node : node'[k] = IF k = n THEN s ELSE node[k]
  BY <1>3, <1>5
<1>10. ASSUME NEW a \in Node, NEW b \in Node PROVE JoinOnly(C, wire'[a][b])
  <2>1. wire[a][b] \in Seq(MessageFrom(KnownTx, a)) /\ JoinOnly(C, wire[a][b])
    BY <1>3 DEF IsWire, Joining
  <2> QED BY <1>1, <1>6, <2>1, JoinOnlyKept
<1>11. ASSUME node'[x].blocks # C, Awaits(C, x, up, wire) PROVE Awaits(C, x, up, wire')
  <2>1. ~Asks(r)
    BY <1>1 DEF Asks
  <2>2. n = x => ~Answers(C, r)
    BY <1>8, <1>9, <1>11 DEF Answers, bs
  <2>3. \A a, b \in Node :
            \/ wire'[a][b] = wire[a][b]
            \/ \E y \in MessageFrom(KnownTx, a) : wire'[a][b] = Append(wire[a][b], y)
            \/ /\ wire[a][b] # <<>> /\ wire'[a][b] = Tail(wire[a][b])
               /\ a = x /\ Asks(Head(wire[a][b])) => Awaits(C, x, up, wire')
               /\ b = x /\ Answers(C, Head(wire[a][b])) => Awaits(C, x, up, wire')
    BY <1>1, <1>6, <2>1, <2>2
  <2> QED BY <1>3, <1>11, <2>3, AwaitsKept
<1>12. x \in Node /\ (node'[x].blocks # C => node[x].blocks # C)
  BY <1>8, <1>9
<1>13. Joining(C, x, up, peers, node', wire')
  <2>1. \A k \in Node : node'[k].pool = <<>>
    BY <1>8, <1>9 DEF Joining
  <2>2. \A k \in Node \ up : node'[k].blocks = <<C[1]>>
    BY <1>2, <1>9 DEF Joining
  <2>3. \A k \in up : node'[k].blocks = C \/ (k = x /\ node'[k].blocks = <<C[1]>>)
    BY <1>3, <1>7, <1>8, <1>9 DEF Joining
  <2> QED BY <1>10, <1>11, <1>12, <2>1, <2>2, <2>3 DEF Joining
<1>14. s.blocks = node[n].blocks \/ (node[n].blocks = <<C[1]>> /\ s.blocks = C)
  BY <1>7, <1>8
<1> QED BY <1>5, <1>13, <1>14

LEMMA JoiningGreet ==
    ASSUME Typed(KnownTx), NEW C, IsChain(C), NEW x \in Node, Joining(C, x, up, peers, node, wire),
           NEW m \in Node, NEW n \in Node, Greet(m, n)
    PROVE  Joining(C, x, up, peers', node, wire')
<1> DEFINE y == [kind |-> "BLOCKCHAINREQUEST", from |-> n, size |-> Len(node[n].blocks)]
           to == peers[n] \cup {m}
<1>1. n \in peers[m] /\ peers' = greeted(peers, n, m, peers[m]) /\ wire' = asked(wire, n, m)
  BY DEF Greet
<1>2. m \in up /\ n \in up /\ m # n /\ up \subseteq Node /\ IsWire(KnownTx, up, wire)
      /\ peers = [k \in Node |-> peers[k]]
  BY <1>1 DEF Typed, IsPeers
<1>3. \A k \in Node : k # n => peers'[k] = peers[k]
  BY <1>1, <1>2 DEF greeted
<1>4. y \in MessageFrom(KnownTx, n) /\ y.kind = "BLOCKCHAINREQUEST" /\ y.size \in {1, Len(C)}
      /\ (node[n].blocks = <<C[1]>> => y.size = 1)
  <2>1. Len(node[n].blocks) \in Nat
    BY DEF Typed, IsNode
  <2>2. Len(<<C[1]>>) = 1
    OBVIOUS
  <2>3. node[n].blocks = C \/ node[n].blocks = <<C[1]>>
    BY <1>2 DEF Joining
  <2> QED BY <2>1, <2>2, <2>3 DEF MessageFrom
<1>5. IF m \in peers[n] THEN wire' = wire ELSE wire' = sentTo(wire, n, to, <<y>>)
  BY <1>1 DEF asked, requestChain
<1> HIDE DEF y
<1>6. ASSUME NEW a \in Node, NEW b \in Node
      PROVE  /\ \/ wire'[a][b] = wire[a][b]
                \/ a = n /\ wire'[a][b] = Append(wire[a][b], y)
             /\ m \notin peers[n] /\ a = n /\ b = m => wire'[a][b] = Append(wire[a][b], y)
  <2>1. CASE m \in peers[n]
    BY <1>5, <2>1
  <2>2. CASE m \notin peers[n]
    <3> DEFINE ms == <<y>>
    <3>1. wire' = sentTo(wire, n, to, ms) /\ m \in to
      BY <1>5, <2>2
    <3>2. wire'[a][b] = IF a = n /\ b \in to THEN wire[a][b] \o ms ELSE wire[a][b]
      <4> HIDE DEF to, ms
      <4> QED BY <1>2, <3>1, SentAt
    <3>3. wire[a][b] \in Seq(MessageFrom(KnownTx, a))
      BY <1>2 DEF IsWire
    <3>4. a = n => wire[a][b] \o <<y>> = Append(wire[a][b], y)
      BY <1>4, <3>3, Appended
    <3> QED BY <3>1, <3>2, <3>4
  <2> QED BY <2>1, <2>2
<1>7. ASSUME NEW a \in Node, NEW b \in Node PROVE JoinOnly(C, wire'[a][b])
  <2> DEFINE q == wire[a][b]
             M == MessageFrom(KnownTx, a)
  <2>1. q \in Seq(M) /\ JoinOnly(C, q)
    BY <1>2 DEF IsWire, Joining
  <2>2. a = n => y \in M
    BY <1>4
  <2>3. wire'[a][b] = q \/ (a = n /\ wire'[a][b] = Append(q, y))
    BY <1>6
  <2> HIDE DEF q, M
  <2>4. ASSUME a = n PROVE JoinOnly(C, Append(q, y))
    <3>1. y \in M /\ y.kind = "BLOCKCHAINREQUEST" /\ y.size \in {1, Len(C)}
      BY <1>4, <2>2, <2>4
    <3> QED BY <2>1, <3>1, JoinOnlyKept
  <2> QED BY <2>1, <2>3, <2>4
<1>8. ASSUME node[x].blocks # C PROVE peers'[x] = {} \/ Awaits(C, x, up, wire')
  <2>1. CASE peers[x] = {} /\ n # x
    BY <1>3, <2>1
  <2>2. CASE peers[x] = {} /\ n = x
    <3> DEFINE q == wire[x][m]
               M == MessageFrom(KnownTx, x)
    <3>1. wire'[x][m] = Append(q, y) /\ q \in Seq(M) /\ y \in M /\ m \in up \ {x}
      BY <1>2, <1>4, <1>6, <2>2 DEF IsWire
    <3>2. node[x].blocks = <<C[1]>>
      BY <1>8 DEF Joining
    <3>3. Asks(y)
      BY <1>4, <2>2, <3>2 DEF Asks
    <3> HIDE DEF q, M
    <3>4. \E j \in 1..Len(Append(q, y)) : Append(q, y)[j] = y
      BY <3>1, LastSent
    <3>5. \E j \in 1..Len(wire'[x][m]) : Asks(wire'[x][m][j])
      BY <3>1, <3>3, <3>4
    <3> QED BY <3>1, <3>5 DEF Awaits
  <2>3. CASE Awaits(C, x, up, wire)
    <3>1. \A a, b \in Node :
              \/ wire'[a][b] = wire[a][b]
              \/ \E z \in MessageFrom(KnownTx, a) : wire'[a][b] = Append(wire[a][b], z)
              \/ /\ wire[a][b] # <<>> /\ wire'[a][b] = Tail(wire[a][b])
                 /\ a = x /\ Asks(Head(wire[a][b])) => Awaits(C, x, up, wire')
                 /\ b = x /\ Answers(C, Head(wire[a][b])) => Awaits(C, x, up, wire')
      BY <1>4, <1>6
    <3> QED BY <1>2, <2>3, <3>1, AwaitsKept
  <2> QED BY <1>8, <2>1, <2>2, <2>3 DEF Joining
<1> QED BY <1>7, <1>8 DEF Joining

-----------------------------------------------------------------------------
(***************************************************************************)
(* From joining to trading and back.                                       *)
(***************************************************************************)
LEMMA NothingUnderWay ==
    ASSUME NEW S, IsWire(S, up, wire), UnderWay = {}, NEW m \in Node, NEW n \in Node
    PROVE  wire[m][n] = <<>>
<1> DEFINE q == wire[m][n]
<1>1. q \in Seq(MessageFrom(S, m)) /\ Range(q) \subseteq UnderWay
  BY DEF IsWire, UnderWay
<1> HIDE DEF q
<1>2. ASSUME q # <<>> PROVE FALSE
  <2>1. 1 \in DOMAIN q
    BY <1>1, <1>2
  <2>2. q[1] \in Range(q)
    BY <2>1 DEF Range
  <2> QED BY <1>1, <2>2
<1> QED BY <1>2 DEF q

\* When all know each other and nobody is downloading, who joins has the chain.
LEMMA JoinedTrades ==
    ASSUME Typed(KnownTx), NEW C, IsChain(C), NEW x \in Node, Joining(C, x, up, peers, node, wire),
           Settled
    PROVE  Trading(C, up, peers, node, wire)
<1>1. IsWire(KnownTx, up, wire) /\ up \subseteq Node /\ Master \in up
  BY DEF Typed
<1>2. ASSUME NEW m \in Node, NEW n \in Node PROVE wire[m][n] = <<>>
  <2> SUFFICES ASSUME wire[m][n] # <<>> PROVE FALSE
    OBVIOUS
  <2> DEFINE q == wire[m][n]
  <2>1. q \in Seq(MessageFrom(KnownTx, m)) /\ JoinOnly(C, q) /\ q # <<>>
        /\ \A v \in Range(q) : v.kind \in {"TRANSACTION", "BLOCK"}
    BY <1>1 DEF IsWire, Joining, Settled, UnderWay
  <2> HIDE DEF q
  <2>2. 1 \in DOMAIN q /\ 1 \in 1..Len(q)
    BY <2>1
  <2>3. q[1] \in Range(q)
    BY <2>2 DEF Range
  <2> QED BY <2>1, <2>2, <2>3 DEF JoinOnly
<1>3. \A n \in up : peers[n] = up \ {n}
  BY DEF Settled, Acquainted
<1>4. node[x].blocks = C
  <2>1. peers[x] # {}
    BY <1>3 DEF Joining
  <2>2. ~Awaits(C, x, up, wire)
    <3>1. \A m \in up : Len(wire[x][m]) = 0 /\ Len(wire[m][x]) = 0
      BY <1>1, <1>2
    <3> QED BY <3>1 DEF Awaits
  <2> QED BY <2>1, <2>2 DEF Joining
<1>5. Begins(C, C) /\ Brings(C, C, <<>>) /\ \A m : TradeOnly(m, <<>>)
  <2>1. Len(C) \in Nat \ {0}
    BY BeyondIs
  <2> QED BY <2>1 DEF Begins, Brings, TradeOnly
<1>6. \A n \in up : node[n].blocks = C
  BY <1>4 DEF Joining
<1> QED BY <1>1, <1>2, <1>3, <1>5, <1>6, NetworkAssumption DEF Trading, Joining

\* When nothing is under way all have the chain.
LEMMA TradedAgrees ==
    ASSUME Typed(KnownTx), NEW C, IsChain(C), Trading(C, up, peers, node, wire), UnderWay = {}
    PROVE  \A n \in up : node[n].blocks = C
<1> SUFFICES ASSUME NEW n \in up PROVE node[n].blocks = C
  OBVIOUS
<1> DEFINE b == node[n].blocks
<1>1. n \in Node /\ Master \in Node /\ wire[Master][n] = <<>> /\ b \in Seq(KnownBlocks)
  BY NothingUnderWay, NetworkAssumption DEF Typed, IsNode, KnownBlocks
<1>2. Begins(C, b) /\ Brings(C, b, <<>>)
  BY <1>1 DEF Trading
<1> HIDE DEF b
<1>3. Len(C) \in Nat /\ C \in Seq(KnownBlocks) /\ Len(b) \in Nat
  BY <1>1 DEF IsChain
<1>4. Len(b) = Len(C)
  <2>1. Len(<<>>) = 0
    OBVIOUS
  <2>2. ~(Len(b) \in Len(b)..(Len(C) - 1))
    BY <1>2, <2>1 DEF Brings
  <2> QED BY <1>2, <1>3, <2>2 DEF Begins
<1>5. \A i \in 1..Len(b) : b[i] = C[i]
  BY <1>2 DEF Begins
<1>6. b = C
  BY <1>1, <1>3, <1>4, <1>5
<1> QED BY <1>6 DEF b

\* A node that starts is the next to join.
LEMMA StartJoins ==
    ASSUME Typed(KnownTx), NEW C, IsChain(C), Trading(C, up, peers, node, wire), Rest,
           NEW n \in Node, up # {n}, Start(n)
    PROVE  /\ Joining(C, n, up', peers', node', wire')
           /\ node' = [node EXCEPT ![n] = started(C[1])]
<1> DEFINE cleared == [peers EXCEPT ![n] = {}]
           lost == [m \in Node |-> [wire[m] EXCEPT ![n] = <<>>]]
<1>1. /\ up' = up \cup {n} /\ node' = [node EXCEPT ![n] = started(Head(@.blocks))]
      /\ IF n = Master THEN peers' = cleared /\ wire' = lost
         ELSE peers' = greeted(cleared, Master, n, {}) /\ wire' = asked(lost, Master, n)
  BY DEF Start
<1>2. /\ IsWire(KnownTx, up, wire) /\ up \subseteq Node /\ Master \in up /\ Master \in Node
      /\ node = [k \in Node |-> node[k]] /\ peers = [k \in Node |-> peers[k]]
  BY NetworkAssumption DEF Typed, IsPeers
<1>3. UnderWay = {} /\ \A k \in up : node[k].pool = <<>>
  BY DEF Rest
<1>4. \A k \in up : node[k].blocks = C
  BY <1>3, TradedAgrees
<1>5. \A k \in Node \ up : node[k].blocks = <<C[1]>> /\ node[k].pool = <<>>
  BY DEF Trading
<1>6. node' = [node EXCEPT ![n] = started(C[1])]
  <2>1. C \in Seq(KnownBlocks) /\ C # <<>> /\ Head(C) = C[1] /\ Head(<<C[1]>>) = C[1]
    BY DEF IsChain
  <2>2. Head(node[n].blocks) = C[1]
    BY <1>4, <1>5, <2>1
  <2> QED BY <1>1, <2>2
<1>7. \A k \in Node : node'[k] = IF k = n THEN started(C[1]) ELSE node[k]
  BY <1>2, <1>6
<1>8. started(C[1]).blocks = <<C[1]>> /\ started(C[1]).pool = <<>>
  BY DEF started
<1>9. peers'[n] = {}
  <2>1. cleared[n] = {} /\ cleared = [k \in Node |-> cleared[k]]
    BY <1>2
  <2> HIDE DEF cleared
  <2> QED BY <1>1, <2>1 DEF greeted
<1>10. lost = [a \in Node |-> [b \in Node |-> <<>>]]
  <2>1. ASSUME NEW a \in Node PROVE [wire[a] EXCEPT ![n] = <<>>] = [b \in Node |-> <<>>]
    <3>1. wire[a] = [b \in Node |-> wire[a][b]] /\ \A b \in Node : wire[a][b] = <<>>
      BY <1>2, <1>3, NothingUnderWay DEF IsWire
    <3> QED BY <3>1
  <2> QED BY <2>1
<1> DEFINE y == [kind |-> "BLOCKCHAINREQUEST", from |-> Master, size |-> Len(node[Master].blocks)]
           to == peers[Master] \cup {n}
           ms == <<y>>
<1>11. wire' = lost \/ wire' = sentTo(lost, Master, to, ms)
  BY <1>1 DEF asked, requestChain
<1>12. y.kind = "BLOCKCHAINREQUEST" /\ y.size \in {1, Len(C)}
  BY <1>2, <1>4
<1>13. IsWire(KnownTx, up, lost)
  <2>1. \A a \in Node : <<>> \in Seq(MessageFrom(KnownTx, a))
    OBVIOUS
  <2>2. \A a, b \in Node : lost[a][b] = <<>>
    BY <1>10
  <2> HIDE DEF lost
  <2> QED BY <1>10, <2>1, <2>2 DEF IsWire
<1>14. ASSUME NEW a \in Node, NEW b \in Node PROVE JoinOnly(C, wire'[a][b])
  <2>1. lost[a][b] = <<>>
    BY <1>10
  <2>2. JoinOnly(C, <<>>)
    BY DEF JoinOnly
  <2>3. JoinOnly(C, <<y>>)
    <3> HIDE DEF y
    <3>1. Len(<<y>>) = 1 /\ <<y>>[1] = y
      OBVIOUS
    <3> QED BY <1>12, <3>1 DEF JoinOnly
  <2>4. CASE wire' = lost
    BY <2>1, <2>2, <2>4
  <2>5. CASE wire' = sentTo(lost, Master, to, ms)
    <3>1. wire'[a][b] = IF a = Master /\ b \in to THEN lost[a][b] \o ms ELSE lost[a][b]
      <4> HIDE DEF lost, to, ms
      <4> QED BY <1>2, <1>13, <2>5, SentAt
    <3>2. <<>> \o <<y>> = <<y>>
      OBVIOUS
    <3> QED BY <2>1, <2>2, <2>3, <3>1, <3>2
  <2> QED BY <1>11, <2>4, <2>5
<1>15. Joining(C, n, up', peers', node', wire')
  <2>1. n \in up' /\ up' # {n}
    BY <1>1, <1>2
  <2>2. \A k \in Node : node'[k].pool = <<>>
    BY <1>3, <1>5, <1>7, <1>8
  <2>3. \A k \in Node \ up' : node'[k].blocks = <<C[1]>>
    BY <1>1, <1>5, <1>7
  <2>4. \A k \in up' : node'[k].blocks = C \/ (k = n /\ node'[k].blocks = <<C[1]>>)
    BY <1>1, <1>2, <1>4, <1>7, <1>8
  <2> QED BY <1>9, <1>14, <2>1, <2>2, <2>3, <2>4 DEF Joining
<1> QED BY <1>6, <1>15
-----------------------------------------------------------------------------
(***************************************************************************)
(* Every step: the chain and what each node has of it.                     *)
(***************************************************************************)
One(C) ==
    /\ IsChain(C)
    /\ \/ Trading(C, up, peers, node, wire)
       \/ \E x \in Node : Joining(C, x, up, peers, node, wire)

copies == [n \in Node |-> node[n].blocks]

\* From the chain C to the chain D: nothing, a block more, which a node that
\* has C adds; a node that catches up; or one that starts again.
Moves(C, D) ==
    \/ D = C /\ copies' = copies
    \/ \E n \in Node, b \in KnownBlocks :
           copies[n] = C /\ Follows(C, b) /\ D = Append(C, b) /\ copies' = [copies EXCEPT ![n] = D]
    \/ \E n \in Node : \E p \in Seq(KnownBlocks) :
           /\ D = C /\ Begins(C, copies[n]) /\ Begins(C, p) /\ Len(copies[n]) < Len(p)
           /\ copies' = [copies EXCEPT ![n] = p]
    \/ \E n \in Node : D = C /\ copies' = [copies EXCEPT ![n] = <<C[1]>>]

LEMMA CopyChanged ==
    ASSUME NEW n \in Node, NEW s, node = [k \in Node |-> node[k]], node' = [node EXCEPT ![n] = s]
    PROVE  /\ copies' = [copies EXCEPT ![n] = s.blocks]
           /\ s.blocks = node[n].blocks => copies' = copies
<1>1. \A k \in Node : node'[k] = IF k = n THEN s ELSE node[k]
  OBVIOUS
<1> QED BY <1>1 DEF copies

LEMMA TradingBecomes ==
    ASSUME Typed(KnownTx), NEW C, IsChain(C), NEW w, IsWire(KnownTx, up, w),
           Trading(C, up, peers, node, w), NEW n \in up, NEW outcomes, Become(n, outcomes, w),
           \A o \in outcomes : KeepsOrForges(n, node[n], o), UNCHANGED <<up, peers>>
    PROVE  \E D : One(D)' /\ Moves(C, D)
<1>1. PICK o \in outcomes : node' = [node EXCEPT ![n] = o.node] /\ wire' = sentTo(w, n, peers[n], o.sent)
  BY DEF Become
<1>2. n \in Node /\ node = [k \in Node |-> node[k]] /\ up' = up /\ peers' = peers
  BY DEF Typed
<1>3. CASE Keeps(node[n], o)
  <2>1. Trading(C, up, peers, node', wire')
    BY <1>1, <1>3, TradingKeeps
  <2>2. copies' = copies
    BY <1>1, <1>2, <1>3, CopyChanged DEF Keeps
  <2> QED BY <1>2, <2>1, <2>2 DEF One, Moves
<1>4. ASSUME n = Master, NEW b \in KnownBlocks, Follows(node[n].blocks, b), Forges(node[n], o, b)
      PROVE  \E D : One(D)' /\ Moves(C, D)
  <2> DEFINE D == Append(C, b)
  <2>1. node[Master].blocks = C
    BY DEF Trading
  <2>2. Follows(C, b) /\ Forges(node[Master], o, b) /\ o.node.blocks = D
    BY <1>4, <2>1 DEF Forges
  <2>3. Trading(D, up, peers, node', wire')
    BY <1>1, <1>4, <2>2, TradingForges
  <2>4. IsChain(D)
    BY <2>2, ChainGrows
  <2>5. copies' = [copies EXCEPT ![n] = D] /\ copies[n] = C
    BY <1>1, <1>2, <1>4, <2>1, <2>2, CopyChanged DEF copies
  <2>6. Moves(C, D)
    BY <1>2, <2>2, <2>5 DEF Moves
  <2> HIDE DEF D
  <2>7. One(D)'
    BY <1>2, <2>3, <2>4 DEF One
  <2> QED BY <2>6, <2>7
<1> QED BY <1>3, <1>4 DEF KeepsOrForges

LEMMA TradingStep ==
    ASSUME Patient, GenesisIsMaster, Typed(KnownTx), GenesisWins, NEW C, IsChain(C),
           Trading(C, up, peers, node, wire), Next
    PROVE  \E D : One(D)' /\ Moves(C, D)
<1>1. /\ uuid \in Nat /\ uuid + 1 \in Nat /\ IsWire(KnownTx, up, wire) /\ up \subseteq Node
      /\ node = [k \in Node |-> node[k]] /\ IsPeers(up, peers)
      /\ \A n \in Node : IsNode(KnownTx, node[n]) /\ Wins(node[n])
  BY DEF Typed, GenesisWins, Wins
<1>2. ASSUME NEW m \in Node, NEW n \in Node, wire[m][n] # <<>>
      PROVE  /\ IsWire(KnownTx, up, received(m, n)) /\ Head(wire[m][n]) \in MessageFrom(KnownTx, m)
             /\ m \in up /\ n \in up /\ m # n
             /\ Head(wire[m][n]).kind \in {"TRANSACTION", "BLOCK"}
  <2>1. /\ IsWire(KnownTx, up, received(m, n)) /\ Head(wire[m][n]) \in MessageFrom(KnownTx, m)
        /\ m \in up /\ n \in up /\ m # n
    BY <1>1, <1>2, ReceivedType
  <2> DEFINE q == wire[m][n]
  <2>2. q \in Seq(MessageFrom(KnownTx, m)) /\ TradeOnly(m, q) /\ q # <<>>
    BY <1>1, <1>2 DEF IsWire, Trading
  <2> HIDE DEF q
  <2>3. 1 \in 1..Len(q) /\ q[1] = Head(q)
    BY <2>2
  <2>4. Head(q).kind \in {"TRANSACTION", "BLOCK"}
    BY <2>2, <2>3 DEF TradeOnly
  <2> QED BY <2>1, <2>4 DEF q
<1>3. ASSUME NEW n \in Node, Submit(n) PROVE \E D : One(D)' /\ Moves(C, D)
  <2>1. PICK r \in Requests[n] :
           Become(n, handleTransaction(n, node[n], request(r, uuid), TRUE, uuid + 1), wire)
    BY <1>3 DEF Submit, request
  <2>2. request(r, uuid) \in KnownTx
    BY <1>1, ClosedKnown DEF Closed
  <2>3. \A o \in handleTransaction(n, node[n], request(r, uuid), TRUE, uuid + 1) :
            KeepsOrForges(n, node[n], o)
    BY <1>1, <2>2, HandleTransactionWon
  <2>4. n \in up /\ UNCHANGED <<up, peers>>
    BY <1>3 DEF Submit
  <2> QED BY <1>1, <2>1, <2>3, <2>4, TradingBecomes
<1>4. ASSUME NEW n \in Node, Poll(n) PROVE \E D : One(D)' /\ Moves(C, D)
  <2>1. n \in up /\ Become(n, forge(n, node[n], uuid), wire) /\ UNCHANGED <<up, peers>>
    BY <1>4 DEF Poll, Trading
  <2>2. ASSUME NEW o \in forge(n, node[n], uuid) PROVE KeepsOrForges(n, node[n], o)
    <3>1. CASE o = outcome(node[n], <<>>)
      BY <3>1 DEF outcome, Keeps, KeepsOrForges
    <3>2. ASSUME n = Master, NEW b \in KnownBlocks, Follows(node[n].blocks, b),
                 o = outcome(addBlock(node[n], b), <<news(b)>>)
          PROVE  KeepsOrForges(n, node[n], o)
      <4>1. Forges(node[n], o, b)
        BY <3>2 DEF outcome, addBlock, Forges
      <4> QED BY <3>2, <4>1 DEF KeepsOrForges
    <3> QED BY <1>1, <3>1, <3>2, ForgeWon
  <2> QED BY <1>1, <2>1, <2>2, TradingBecomes
<1>5. ASSUME NEW m \in Node, NEW n \in Node, ReceiveTransaction(m, n)
      PROVE  \E D : One(D)' /\ Moves(C, D)
  <2>1. /\ wire[m][n] # <<>> /\ Head(wire[m][n]).kind = "TRANSACTION"
        /\ Become(n, handleTransaction(n, node[n], Head(wire[m][n]).tx, FALSE, uuid), received(m, n))
        /\ UNCHANGED <<up, peers>>
    BY <1>5 DEF ReceiveTransaction, Waiting
  <2>2. n \in up /\ Head(wire[m][n]).tx \in KnownTx /\ IsWire(KnownTx, up, received(m, n))
    BY <1>2, <2>1 DEF MessageFrom
  <2>3. \A o \in handleTransaction(n, node[n], Head(wire[m][n]).tx, FALSE, uuid) :
            KeepsOrForges(n, node[n], o)
    BY <1>1, <2>2, HandleTransactionWon
  <2>4. Trading(C, up, peers, node, received(m, n))
    BY <2>1, TradingHears
  <2> QED BY <2>1, <2>2, <2>3, <2>4, TradingBecomes
<1>6. ASSUME NEW m \in Node, NEW n \in Node, ReceiveBlock(m, n) PROVE \E D : One(D)' /\ Moves(C, D)
  <2>1. Trading(C, up, peers, node', wire') /\ UNCHANGED <<up, peers>>
    BY <1>6, TradingAdopts DEF ReceiveBlock
  <2>2. PICK s : /\ node' = [node EXCEPT ![n] = s]
                 /\ Begins(C, s.blocks) /\ Len(s.blocks) = Len(node[n].blocks) + 1
    BY <1>6, TradingAdopts
  <2>3. n \in up
    BY <1>2, <1>6 DEF ReceiveBlock, Waiting
  <2>4. Begins(C, node[n].blocks) /\ copies[n] = node[n].blocks
    BY <2>3 DEF Trading, copies
  <2>5. s.blocks \in Seq(KnownBlocks)
    <3>1. Typed(KnownTx)'
      BY ClosedKnown, TypedNext
    <3>2. node'[n] = s
      BY <1>1, <2>2
    <3> QED BY <3>1, <3>2 DEF Typed, IsNode, KnownBlocks
  <2>6. copies' = [copies EXCEPT ![n] = s.blocks]
    BY <1>1, <2>2, CopyChanged
  <2>7. Len(copies[n]) < Len(s.blocks)
    <3>1. Len(node[n].blocks) \in Nat
      BY <1>1 DEF IsNode
    <3> QED BY <2>2, <2>4, <3>1
  <2>8. Moves(C, C)
    BY <2>2, <2>4, <2>5, <2>6, <2>7 DEF Moves
  <2>9. One(C)'
    BY <2>1 DEF One
  <2> QED BY <2>8, <2>9
<1>7. ASSUME NEW m \in Node, NEW n \in Node, ReceiveRequest(m, n) \/ ReceiveChain(m, n) PROVE FALSE
  BY <1>2, <1>7 DEF ReceiveRequest, ReceiveChain, Waiting
<1>8. ASSUME NEW m \in Node, NEW n \in Node, Greet(m, n) PROVE FALSE
  <2>1. n \in peers[m] /\ peers # greeted(peers, n, m, peers[m])
    BY <1>8 DEF Greet
  <2>2. m \in up /\ n \in up /\ m # n /\ peers = [k \in Node |-> peers[k]]
    BY <1>1, <2>1 DEF IsPeers
  <2>3. peers[m] = up \ {m} /\ peers[n] = up \ {n}
    BY <2>2 DEF Trading
  <2>4. (peers[n] \cup {m} \cup peers[m]) \ {n} = peers[n]
    BY <2>2, <2>3
  <2>5. greeted(peers, n, m, peers[m]) = peers
    BY <2>2, <2>4 DEF greeted
  <2> QED BY <2>1, <2>5
<1>9. ASSUME NEW n \in Node, Start(n) PROVE \E D : One(D)' /\ Moves(C, D)
  <2>1. Rest /\ up # {n}
    BY <1>9 DEF Start, MayStart
  <2>2. Joining(C, n, up', peers', node', wire') /\ node' = [node EXCEPT ![n] = started(C[1])]
    BY <1>9, <2>1, StartJoins
  <2>3. copies' = [copies EXCEPT ![n] = <<C[1]>>]
    BY <1>1, <2>2, CopyChanged DEF started
  <2> QED BY <2>2, <2>3 DEF One, Moves
<1> QED
  BY <1>3, <1>4, <1>5, <1>6, <1>7, <1>8, <1>9
  DEF Next, System, Serve, Receive, Discover

LEMMA OneStep ==
    ASSUME Patient, GenesisIsMaster, Typed(KnownTx), GenesisWins, NEW C, One(C), Next
    PROVE  \E D : One(D)' /\ Moves(C, D)
<1>1. IsChain(C)
  BY DEF One
<1>2. CASE Trading(C, up, peers, node, wire)
  BY <1>1, <1>2, TradingStep
<1>3. ASSUME NEW x \in Node, Joining(C, x, up, peers, node, wire) PROVE \E D : One(D)' /\ Moves(C, D)
  <2>1. CASE Settled
    BY <1>1, <1>3, <2>1, JoinedTrades, TradingStep
  <2>2. CASE ~Settled
    <3>1. ASSUME NEW n \in Node, Submit(n) \/ Start(n) PROVE FALSE
      BY <2>2, <3>1 DEF Submit, Start, MaySubmit, MayStart, Rest
    <3>2. ASSUME NEW n \in Node, Poll(n) PROVE FALSE
      BY <1>3, <3>2 DEF Poll, Joining
    <3>3. ASSUME NEW m \in Node, NEW n \in Node, ReceiveTransaction(m, n) \/ ReceiveBlock(m, n) PROVE FALSE
      BY <1>3, <3>3, JoiningHead DEF ReceiveTransaction, ReceiveBlock, Waiting
    <3>4. ASSUME NEW m \in Node, NEW n \in Node, ReceiveRequest(m, n) PROVE \E D : One(D)' /\ Moves(C, D)
      <4>1. Joining(C, x, up, peers, node, wire') /\ UNCHANGED <<up, peers, node>>
        BY <1>1, <1>3, <3>4, JoiningRequest DEF ReceiveRequest
      <4> QED BY <1>1, <4>1 DEF One, Moves, copies
    <3>5. ASSUME NEW m \in Node, NEW n \in Node, ReceiveChain(m, n) PROVE \E D : One(D)' /\ Moves(C, D)
      <4>1. Joining(C, x, up, peers, node', wire') /\ UNCHANGED <<up, peers>>
        BY <1>1, <1>3, <3>5, JoiningChain DEF ReceiveChain
      <4>2. PICK s : /\ node' = [node EXCEPT ![n] = s]
                     /\ s.blocks = node[n].blocks \/ (node[n].blocks = <<C[1]>> /\ s.blocks = C)
        BY <1>1, <1>3, <3>5, JoiningChain
      <4>3. copies' = [copies EXCEPT ![n] = s.blocks] /\ (s.blocks = node[n].blocks => copies' = copies)
            /\ copies[n] = node[n].blocks
        BY <4>2, CopyChanged DEF Typed, copies
      <4>4. One(C)'
        BY <1>1, <4>1 DEF One
      <4>5. CASE s.blocks = node[n].blocks
        BY <4>3, <4>4, <4>5 DEF Moves
      <4>6. CASE s.blocks # node[n].blocks
        <5> DEFINE h == <<C[1]>>
        <5>1. node[n].blocks = h /\ s.blocks = C /\ h # C
          BY <4>2, <4>6
        <5>2. Len(h) = 1 /\ h[1] = C[1] /\ Len(C) \in Nat \ {0} /\ (Len(C) = 1 => C = h)
          BY <1>1, BeyondIs
        <5>3. Begins(C, h) /\ Begins(C, C)
          <6>1. \A i \in 1..1 : i = 1
            OBVIOUS
          <6> HIDE DEF h
          <6> QED BY <5>2, <6>1 DEF Begins
        <5>4. C \in Seq(KnownBlocks)
          BY <1>1 DEF IsChain
        <5> HIDE DEF h
        <5>5. Len(h) < Len(C)
          <6> DEFINE l == Len(C)
          <6>1. l \in Nat \ {0} /\ l # 1
            BY <5>1, <5>2
          <6> HIDE DEF l
          <6>2. 1 < l
            BY <6>1
          <6> QED BY <5>2, <6>2 DEF l
        <5>6. Moves(C, C)
          BY <4>3, <5>1, <5>3, <5>4, <5>5 DEF Moves
        <5> QED BY <4>4, <5>6
      <4> QED BY <4>5, <4>6
    <3>6. ASSUME NEW m \in Node, NEW n \in Node, Greet(m, n) PROVE \E D : One(D)' /\ Moves(C, D)
      <4>1. Joining(C, x, up, peers', node, wire') /\ UNCHANGED <<up, node>>
        BY <1>1, <1>3, <3>6, JoiningGreet DEF Greet
      <4> QED BY <1>1, <4>1 DEF One, Moves, copies
    <3> QED
      BY <3>1, <3>2, <3>3, <3>4, <3>5, <3>6
      DEF Next, System, Serve, Receive, Discover
  <2> QED BY <2>1, <2>2
<1> QED BY <1>2, <1>3 DEF One

LEMMA OneInit ==
    ASSUME Init
    PROVE  \E first \in GenesisBlocks : One(<<first>>) /\ copies = [n \in Node |-> <<first>>]
<1>1. PICK first \in GenesisBlocks : node = [n \in Node |-> started(first)]
  BY DEF Init
<1> DEFINE C == <<first>>
<1>2. first \in KnownBlocks /\ first.count = 0
  <2>1. PICK last \in Draw, own \in Draw : first = GenesisBlock(last, own)
    BY DEF GenesisBlocks
  <2>2. first.count = 0
    BY <2>1 DEF GenesisBlock
  <2>3. node[Master].blocks \in Seq(KnownBlocks) /\ node[Master].blocks = <<first>>
    BY <1>1, TypedInit, NetworkAssumption DEF Typed, IsNode, KnownBlocks, started
  <2>4. first \in KnownBlocks
    BY <2>3
  <2> QED BY <2>2, <2>4
<1>3. C \in Seq(KnownBlocks) /\ C # <<>> /\ Len(C) = 1 /\ C[1] = first
  BY <1>2
<1>4. \A n \in Node : node[n].blocks = C /\ node[n].pool = <<>>
  BY <1>1 DEF started
<1> HIDE DEF C
<1>5. IsChain(C)
  BY <1>2, <1>3 DEF IsChain
<1>6. Begins(C, C) /\ Brings(C, C, <<>>) /\ \A m : TradeOnly(m, <<>>)
  BY <1>3 DEF Begins, Brings, TradeOnly
<1>7. <<C[1]>> = C
  BY <1>3 DEF C
<1>8. Trading(C, up, peers, node, wire)
  BY <1>4, <1>6, <1>7, NetworkAssumption DEF Trading, Init
<1>9. copies = [n \in Node |-> C]
  BY <1>4 DEF copies
<1> QED BY <1>5, <1>8, <1>9 DEF One, C
-----------------------------------------------------------------------------
(***************************************************************************)
(* The mapping: the chain of the node that is ahead is the chain C.        *)
(***************************************************************************)
aheadIn(nd) == CHOOSE m \in Node : \A n \in Node : Len(nd[n].blocks) <= Len(nd[m].blocks)

LEMMA AheadIs ==
    ASSUME NEW C, IsChain(C), NEW nd,
           \A n \in Node : nd[n].blocks \in Seq(KnownBlocks) /\ Begins(C, nd[n].blocks),
           NEW k \in Node, nd[k].blocks = C
    PROVE  nd[aheadIn(nd)].blocks = C
<1> DEFINE m == aheadIn(nd)
           b == nd[m].blocks
<1>1. Len(C) \in Nat /\ C \in Seq(KnownBlocks)
  BY DEF IsChain
<1>2. \A n \in Node : Len(nd[n].blocks) \in Nat /\ Len(nd[n].blocks) <= Len(nd[k].blocks)
  BY <1>1 DEF Begins
<1>3. m \in Node /\ \A n \in Node : Len(nd[n].blocks) <= Len(b)
  BY <1>2 DEF aheadIn
<1> HIDE DEF m
<1>4. b \in Seq(KnownBlocks) /\ Len(b) \in Nat /\ Len(C) <= Len(b) /\ Begins(C, b)
  BY <1>2, <1>3
<1> HIDE DEF b
<1>5. Len(b) = Len(C) /\ \A i \in 1..Len(b) : b[i] = C[i]
  BY <1>1, <1>4 DEF Begins
<1>6. b = C
  BY <1>1, <1>4, <1>5
<1> QED BY <1>6 DEF b, m

\* A node has all of the chain or a beginning of it.
LEMMA TradingHas ==
    ASSUME NEW C, IsChain(C), NEW u, u \subseteq Node, Master \in u, NEW ps, NEW nd, NEW w,
           Trading(C, u, ps, nd, w)
    PROVE  (\A n \in Node : Begins(C, nd[n].blocks)) /\ nd[Master].blocks = C
<1> DEFINE h == <<C[1]>>
<1>1. Len(C) \in Nat \ {0} /\ Len(h) = 1 /\ h[1] = C[1]
  BY BeyondIs
<1> HIDE DEF h
<1>2. Begins(C, h)
  <2>1. \A i \in 1..1 : i = 1
    OBVIOUS
  <2> QED BY <1>1, <2>1 DEF Begins
<1> QED BY <1>2 DEF Trading, h

LEMMA JoiningHas ==
    ASSUME NEW C, IsChain(C), NEW u, u \subseteq Node, NEW ps, NEW nd, NEW w, NEW x \in Node,
           Joining(C, x, u, ps, nd, w)
    PROVE  (\A n \in Node : Begins(C, nd[n].blocks)) /\ \E k \in Node : nd[k].blocks = C
<1> DEFINE h == <<C[1]>>
<1>1. Len(C) \in Nat \ {0} /\ Len(h) = 1 /\ h[1] = C[1]
  BY BeyondIs
<1>2. \A n \in Node : nd[n].blocks = C \/ nd[n].blocks = h
  BY DEF Joining
<1> HIDE DEF h
<1>3. Begins(C, C) /\ Begins(C, h)
  <2>1. \A i \in 1..1 : i = 1
    OBVIOUS
  <2> QED BY <1>1, <2>1 DEF Begins
<1>4. PICK k \in u : k # x
  BY DEF Joining
<1>5. nd[k].blocks = C
  BY <1>4 DEF Joining
<1> QED BY <1>2, <1>3, <1>5

LEMMA ChainIs ==
    ASSUME Typed(KnownTx), NEW C, One(C)
    PROVE  node[ahead].blocks = C /\ \A n \in Node : Begins(C, copies[n]) /\ copies[n] \in Seq(KnownBlocks)
<1>1. up \subseteq Node /\ Master \in up /\ \A n \in Node : node[n].blocks \in Seq(KnownBlocks)
  BY DEF Typed, IsNode, KnownBlocks
<1>2. (\A n \in Node : Begins(C, node[n].blocks)) /\ \E k \in Node : node[k].blocks = C
  <2>1. IsChain(C)
    BY DEF One
  <2>2. CASE Trading(C, up, peers, node, wire)
    BY <1>1, <2>1, <2>2, TradingHas
  <2>3. ASSUME NEW x \in Node, Joining(C, x, up, peers, node, wire)
        PROVE  (\A n \in Node : Begins(C, node[n].blocks)) /\ \E k \in Node : node[k].blocks = C
    BY <1>1, <2>1, <2>3, JoiningHas
  <2> QED BY <2>2, <2>3 DEF One
<1>3. node[aheadIn(node)].blocks = C
  BY <1>1, <1>2, AheadIs DEF One
<1> QED BY <1>1, <1>2, <1>3 DEF ahead, aheadIn, copies

LEMMA ChainBecomes ==
    ASSUME Typed(KnownTx)', NEW C, One(C)'
    PROVE  node'[ahead'].blocks = C
<1>1. up' \subseteq Node /\ Master \in up' /\ \A n \in Node : node'[n].blocks \in Seq(KnownBlocks)
  BY DEF Typed, IsNode, KnownBlocks
<1>2. (\A n \in Node : Begins(C, node'[n].blocks)) /\ \E k \in Node : node'[k].blocks = C
  <2>1. IsChain(C)
    BY DEF One
  <2>2. CASE Trading(C, up', peers', node', wire')
    BY <1>1, <2>1, <2>2, TradingHas
  <2>3. ASSUME NEW x \in Node, Joining(C, x, up', peers', node', wire')
        PROVE  (\A n \in Node : Begins(C, node'[n].blocks)) /\ \E k \in Node : node'[k].blocks = C
    BY <1>1, <2>1, <2>3, JoiningHas
  <2> QED BY <2>2, <2>3 DEF One
<1>3. node'[aheadIn(node')].blocks = C
  BY <1>1, <1>2, AheadIs DEF One
<1> QED BY <1>3 DEF ahead, aheadIn

\* One beginning of the chain is a prefix of a longer one, and of the chain.
LEMMA PrefixIs ==
    ASSUME NEW C, IsChain(C), NEW b \in Seq(KnownBlocks), NEW p \in Seq(KnownBlocks),
           Begins(C, b), Begins(C, p), Len(b) < Len(p)
    PROVE  Replicated!IsStrictPrefix(b, p) /\ Replicated!IsPrefix(p, C)
<1>1. Len(b) \in Nat /\ Len(p) \in Nat /\ Len(C) \in Nat /\ C \in Seq(KnownBlocks)
  BY DEF IsChain
<1>2. ASSUME NEW s \in Seq(KnownBlocks), NEW t \in Seq(KnownBlocks), Len(s) <= Len(t),
             \A i \in 1..Len(s) : s[i] = t[i]
      PROVE  SubSeq(s, 1, Len(s)) = SubSeq(t, 1, Len(s))
  BY <1>2
<1>3. Len(b) <= Len(p) /\ Len(p) <= Len(C) /\ b # p
  BY <1>1 DEF Begins
<1>4. (\A i \in 1..Len(b) : b[i] = p[i]) /\ \A i \in 1..Len(p) : p[i] = C[i]
  BY <1>1 DEF Begins
<1> QED BY <1>1, <1>2, <1>3, <1>4 DEF Replicated!IsStrictPrefix, Replicated!IsPrefix

LEMMA ReplicatedStep ==
    ASSUME Typed(KnownTx), Typed(KnownTx)', NEW C, One(C), NEW D, One(D)', Moves(C, D)
    PROVE  [Replicated!Next]_<<node[ahead].blocks, [n \in Node |-> node[n].blocks]>>
<1>1. node[ahead].blocks = C /\ node'[ahead'].blocks = D /\ IsChain(C)
  BY ChainIs, ChainBecomes DEF One
<1>2. /\ copies = [n \in Node |-> node[n].blocks] /\ copies' = [n \in Node |-> node'[n].blocks]
      /\ \A n \in Node : copies[n] \in Seq(KnownBlocks)
  BY ChainIs DEF copies
<1>3. CASE D = C /\ copies' = copies
  BY <1>1, <1>2, <1>3
<1>4. ASSUME NEW n \in Node, NEW b \in KnownBlocks,
             copies[n] = C, Follows(C, b), D = Append(C, b), copies' = [copies EXCEPT ![n] = D]
      PROVE  Replicated!Extend(n)
  <2>1. C \in Seq(KnownBlocks) /\ Len(C) \in Nat \ {0}
    BY <1>1 DEF IsChain
  <2>2. Len(D) = Len(C) + 1 /\ D[Len(D)] = b
    BY <1>4, <2>1
  <2>3. b.count = Len(C) /\ b.lastHash = C[Len(C)].hash
    BY <1>4 DEF Follows
  <2> QED BY <1>1, <1>2, <1>4, <2>2, <2>3
          DEF Replicated!Extend, Replicated!Continues, Replicated!Last
<1>5. ASSUME NEW n \in Node, NEW p \in Seq(KnownBlocks), D = C, Begins(C, copies[n]), Begins(C, p),
             Len(copies[n]) < Len(p), copies' = [copies EXCEPT ![n] = p]
      PROVE  Replicated!CatchUp(n)
  <2>1. copies'[n] = p
    BY <1>2, <1>5
  <2>2. Replicated!IsStrictPrefix(copies[n], p) /\ Replicated!IsPrefix(p, C)
    BY <1>1, <1>2, <1>5, PrefixIs
  <2> QED BY <1>1, <1>2, <1>5, <2>1, <2>2 DEF Replicated!CatchUp
<1>6. ASSUME NEW n \in Node, D = C, copies' = [copies EXCEPT ![n] = <<C[1]>>]
      PROVE  Replicated!Restart(n)
  <2>1. Head(C) = C[1]
    BY <1>1 DEF IsChain
  <2> QED BY <1>1, <1>2, <1>6, <2>1 DEF Replicated!Restart
<1> QED BY <1>3, <1>4, <1>5, <1>6 DEF Moves, Replicated!Next

\* The invariant of both theorems.
OneChain == Typed(KnownTx) /\ \E C : One(C)

LEMMA OneChainInit ==
    ASSUME Init
    PROVE  OneChain /\ Replicated!Init
<1>1. PICK first \in GenesisBlocks : One(<<first>>) /\ copies = [n \in Node |-> <<first>>]
  BY OneInit
<1>2. Typed(KnownTx)
  BY TypedInit
<1>3. node[ahead].blocks = <<first>>
  BY <1>1, <1>2, ChainIs
<1> QED BY <1>1, <1>2, <1>3 DEF OneChain, Replicated!Init, copies

LEMMA OneChainNext ==
    ASSUME Patient, GenesisIsMaster, OneChain, GenesisWins, [Next]_vars
    PROVE  OneChain' /\ [Replicated!Next]_<<node[ahead].blocks, [n \in Node |-> node[n].blocks]>>
<1>1. PICK C : One(C)
  BY DEF OneChain
<1>2. CASE Next
  <2>1. Typed(KnownTx) /\ Typed(KnownTx)'
    BY <1>2, ClosedKnown, TypedNext DEF OneChain
  <2>2. PICK D : One(D)' /\ Moves(C, D)
    BY <1>1, <1>2, <2>1, OneStep
  <2> QED BY <1>1, <2>1, <2>2, ReplicatedStep DEF OneChain
<1>3. CASE UNCHANGED vars
  <2>1. UNCHANGED <<node, up, peers, wire, uuid, budget>>
    BY <1>3 DEF vars
  <2>2. Typed(KnownTx)'
    BY <2>1 DEF OneChain, Typed
  <2>3. One(C)'
    BY <1>1, <2>1 DEF One
  <2>4. ahead' = ahead
    BY <2>1 DEF ahead
  <2> QED BY <2>1, <2>2, <2>3, <2>4 DEF OneChain
<1> QED BY <1>2, <1>3

LEMMA OneChainRests == ASSUME OneChain PROVE RestAgrees
<1> SUFFICES ASSUME Rest PROVE \A m, n \in up : node[m].blocks = node[n].blocks
  BY DEF RestAgrees
<1>1. PICK C : IsChain(C) /\ One(C)
  BY DEF OneChain, One
<1>2. Trading(C, up, peers, node, wire)
  BY <1>1, JoinedTrades DEF OneChain, One, Rest
<1>3. \A n \in up : node[n].blocks = C
  BY <1>1, <1>2, TradedAgrees DEF OneChain, Rest
<1> QED BY <1>3

\* When nothing is under way and no pool holds anything, all nodes have the same
\* chain: who was away or came late got the rest of it from the peers it asked
\* when they greeted it (SocketCommunication.cpp:295).  This is so as long as
\* one node forges, and nobody calls or starts a node while another joins.
THEOREM RestAgreesCorrect ==
    ASSUME Patient, GenesisIsMaster
    PROVE  Spec /\ []GenesisWins => []RestAgrees
<1>1. Init => OneChain
  BY OneChainInit
<1>2. OneChain /\ GenesisWins /\ [Next]_vars => OneChain'
  BY OneChainNext
<1>3. OneChain => RestAgrees
  BY OneChainRests
<1> QED BY <1>1, <1>2, <1>3, PTL DEF Spec

\* Under the same hypotheses the network implements one replicated chain: what
\* the master forges extends it (Node.cpp:444), a node that adopts a block
\* (Node.cpp:225) or imports an answer (Node.cpp:363) catches up, one that starts
\* begins again at the genesis block, and nothing else changes any chain.
THEOREM NetworkImplementsReplicatedChain ==
    ASSUME Patient, GenesisIsMaster
    PROVE  Spec /\ []GenesisWins => ReplicatedSpec
<1>1. Init => OneChain /\ Replicated!Init
  BY OneChainInit
<1>2. OneChain /\ GenesisWins /\ [Next]_vars =>
        OneChain' /\ [Replicated!Next]_<<node[ahead].blocks, [n \in Node |-> node[n].blocks]>>
  BY OneChainNext
<1> QED BY <1>1, <1>2, PTL DEF Spec, ReplicatedSpec, Replicated!Spec
=============================================================================
