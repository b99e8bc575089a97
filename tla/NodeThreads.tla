---------------------------- MODULE NodeThreads ----------------------------
(***************************************************************************)
(* One node and its threads: the HTTP workers that run /transact           *)
(* (NodeApi.cpp), the P2P thread that handles one incoming message at a    *)
(* time (SocketCommunication.cpp), and the forger thread that polls the    *)
(* pool.  A step is what a thread does between two points where another    *)
(* one can get in: it takes or leaves a lock, or touches shared data       *)
(* without one.  The peers are the environment: what they send is chosen   *)
(* when it arrives.                                                        *)
(*                                                                         *)
(* blockchainMutex is the variable mutex.  tpoolMutex, acMutex and         *)
(* posMutex never cover more than one call on one object, so each such     *)
(* call is simply one step.  A lock_guard that protects one read is a step *)
(* that waits until mutex is free and leaves it free.                      *)
(***************************************************************************)
EXTENDS Ledger

CONSTANTS
    Api,         \* the HTTP worker threads
    P2P,         \* the P2P server thread
    Poller,      \* the set of forger threads: one, or none to leave it out
    Nobody,      \* the holder of a free mutex
    Me,          \* the node's own wallet
    Peer,        \* the wallets other nodes forge with
    Requests,    \* what /transact is asked to do
    RemoteTx,    \* the transactions peers broadcast
    Answers,     \* how many peers answer a request for the chain
    TailLimit,   \* bound: the blocks a peer may be ahead of what we share
    Agree,       \* do the peers execute the chain as we do and evict nobody?
    ForkLimit,   \* bound: how many of our last blocks a peer may lack
    PoolLimit,   \* pool size that makes a transaction forge at once (20)
    ClogLimit,   \* pool size above which the forger is evicted (100)
    DeadLimit,   \* pool size above which the pool is emptied (500)
    Budget       \* bound: calls from outside, by kind (api, tx, block)

Thread == Api \cup {P2P} \cup Poller

ASSUME ThreadAssumption ==
    /\ P2P \notin Api /\ Poller \cap (Api \cup {P2P}) = {}
    /\ Nobody \notin Thread
    /\ Me \in Account /\ Peer \subseteq Address \ {Me}
    /\ RemoteTx \subseteq Tx
    /\ \A m \in RemoteTx : m.id < 0
    /\ \A r \in Requests : /\ r.type \in TxType /\ r.sender \in Address
                           /\ r.receiver \in Address /\ r.amount \in Int
    /\ Agree \in BOOLEAN
    /\ Answers \in Nat /\ TailLimit \in {1, 2} /\ ForkLimit \in Nat
    /\ PoolLimit \in Nat /\ ClogLimit \in Nat /\ DeadLimit \in Nat
    /\ Budget \in [api : Nat, tx : Nat, block : Nat]

VARIABLES
    blocks,      \* Blockchain::blocks
    ledger,      \* the account model's balances and the stakers
    pool,        \* TransactionPool::transactions: arrival stamp -> transaction
    mutex,       \* the thread that holds blockchainMutex, or Nobody
    pc,          \* where each thread is
    tx,          \* the transaction a thread is handling
    forger,      \* the lottery winner a thread in forge() works with
    todo,        \* the pool entries calculateForgerReward has still to visit
    batch,       \* its resultTransactions
    reward,      \* its reward
    block,       \* the block a thread is adding to the chain
    theirs,      \* the chain of the peer that sent the block being checked
    copy,        \* handleBlockchain's localBlockchainCopy
    answers,     \* BLOCKCHAIN messages on their way to us
    sent,        \* TRANSACTION messages broadcast to the peers
    stamp,       \* the next arrival stamp
    uuid,        \* the next number for a transaction or a block
    dropped,     \* history: transactions forge() threw away
    budget       \* bound: calls from outside still to come

shared == <<blocks, ledger, pool, mutex>>
forging == <<forger, todo, batch, reward>>
messages == <<theirs, copy, answers, sent>>
counters == <<stamp, uuid, dropped, budget>>
vars == <<shared, pc, tx, forging, block, messages, counters>>

PoolIds == {pool[s].id : s \in DOMAIN pool}

NoTx == [id |-> 0, type |-> "REWARD", sender |-> Exchange, receiver |-> Exchange,
         amount |-> 0, key |-> NoKey]

NoTxs == [s \in {} |-> NoTx]

NoBlock == GenesisBlock(CHOOSE d \in Draw : TRUE, CHOOSE d \in Draw : TRUE)

Free == mutex = Nobody

tip == Last(blocks)

Goto(t, l) == pc' = [pc EXCEPT ![t] = l]

\* The call returns and its locals are gone.
Return(t) ==
    /\ Goto(t, "idle")
    /\ tx' = [tx EXCEPT ![t] = NoTx]
    /\ forger' = [forger EXCEPT ![t] = NoKey]
    /\ batch' = [batch EXCEPT ![t] = <<>>]
    /\ reward' = [reward EXCEPT ![t] = 0]
    /\ block' = [block EXCEPT ![t] = NoBlock]
    /\ UNCHANGED todo

Check(t, ok, next) ==
    IF ok THEN Goto(t, next) /\ UNCHANGED <<tx, forging, block>> ELSE Return(t)

-----------------------------------------------------------------------------
(***************************************************************************)
(* handleTransaction: four checks, each under its own lock or under none,  *)
(* then the pool.                                                          *)
(***************************************************************************)
\* POST /transact: nothing happens unless the sender's account exists.
Submit(t) ==
    /\ pc[t] = "idle" /\ t \in Api /\ budget.api > 0
    /\ \E r \in Requests :
        /\ r.sender \in DOMAIN ledger.balances
        /\ tx' = [tx EXCEPT ![t] =
               [id |-> uuid, type |-> r.type, sender |-> r.sender,
                receiver |-> r.receiver, amount |-> r.amount,
                key |-> publicKey(r.sender)]]
    /\ uuid' = uuid + 1
    /\ budget' = [budget EXCEPT !.api = @ - 1]
    /\ Goto(t, "poolCheck")
    /\ UNCHANGED <<shared, forging, block, messages, stamp, dropped>>

ReceiveTx(t) ==
    /\ pc[t] = "idle" /\ t = P2P /\ budget.tx > 0
    /\ \E m \in RemoteTx : tx' = [tx EXCEPT ![t] = m]
    /\ budget' = [budget EXCEPT !.tx = @ - 1]
    /\ Goto(t, "poolCheck")
    /\ UNCHANGED <<shared, forging, block, messages, stamp, uuid, dropped>>

\* Mutant of PoolCheck: only the chain is searched.
PoolUnchecked(t) ==
    /\ pc[t] = "poolCheck"
    /\ Goto(t, "chainCheck")
    /\ UNCHANGED <<shared, tx, forging, block, messages, counters>>

PoolCheck(t) ==
    /\ pc[t] = "poolCheck"
    /\ Check(t, tx[t].id \notin PoolIds, "chainCheck")
    /\ UNCHANGED <<shared, messages, counters>>

ChainCheck(t) ==
    /\ pc[t] = "chainCheck" /\ Free
    /\ Check(t, tx[t].id \notin ChainIds(blocks), "cover")
    /\ UNCHANGED <<shared, messages, counters>>

\* getBalance takes acMutex only: it may read a balance in the middle of
\* the block, or of the download, that another thread is executing.
fresh == SubSeq(copy, Len(blocks) + 1, Len(copy))

VisibleLedgers ==
    {ledger}
    \cup UNION {{executeTransactions(ledger, p) : p \in Prefixes(block[u].txs)} :
                u \in {u \in Thread : pc[u] = "execute"}}
    \cup UNION {{importTransactions(ledger, p) :
                 p \in Prefixes(allTxs(fresh))} :
                u \in {u \in Thread : pc[u] = "replay"}}

Cover(t) ==
    /\ pc[t] = "cover"
    /\ \E l \in VisibleLedgers : Check(t, transactionCovered(l, tx[t]), "add")
    /\ UNCHANGED <<shared, messages, counters>>

pushed(p, x) == [s \in DOMAIN p \cup {stamp} |-> IF s = stamp THEN x ELSE p[s]]

\* Only a transaction of our own is broadcast.
Add(t) ==
    /\ pc[t] = "add"
    /\ pool' = pushed(pool, tx[t])
    /\ stamp' = stamp + 1
    /\ sent' = IF t \in Api THEN sent \cup {tx[t]} ELSE sent
    /\ Goto(t, "required")
    /\ UNCHANGED <<blocks, ledger, mutex, tx, forging, block, theirs, copy, answers,
                   uuid, dropped, budget>>

forgerRequired ==
    \/ \E s \in DOMAIN pool : pool[s].type \in {"EXCHANGE", "STAKE"}
    \/ Cardinality(DOMAIN pool) >= PoolLimit

Required(t) ==
    /\ pc[t] = "required"
    /\ Check(t, forgerRequired, "next")
    /\ UNCHANGED <<shared, messages, counters>>

\* Mutant of Poll: it too waits for a full pool.
PollFull(t) ==
    /\ pc[t] = "idle" /\ t \in Poller
    /\ Cardinality(DOMAIN pool) >= PoolLimit
    /\ Goto(t, "next")
    /\ UNCHANGED <<shared, tx, forging, block, messages, counters>>

\* blockForger wakes up and finds the pool not empty.
Poll(t) ==
    /\ pc[t] = "idle" /\ t \in Poller
    /\ DOMAIN pool # {}
    /\ Goto(t, "next")
    /\ UNCHANGED <<shared, tx, forging, block, messages, counters>>

-----------------------------------------------------------------------------
(***************************************************************************)
(* forge: the lottery, the eviction of a forger that seems dead, and, for  *)
(* the winner, calculateForgerReward and createBlock.                      *)
(***************************************************************************)
\* Mutant of Elect: the seed is the hash of the last block, which handleBlock
\* does not take.
ElectByHash(t, next) ==
    /\ Free
    /\ \E k \in Key : k = forgerOf(ledger, tip.hash)
                      /\ forger' = [forger EXCEPT ![t] = k]
    /\ Goto(t, next)
    /\ UNCHANGED <<shared, tx, todo, batch, reward, block, messages, counters>>

Elect(t, next) ==
    /\ Free
    /\ \E k \in Key : k = forgerOf(ledger, tip.lastHash)
                      /\ forger' = [forger EXCEPT ![t] = k]
    /\ Goto(t, next)
    /\ UNCHANGED <<shared, tx, todo, batch, reward, block, messages, counters>>

NextForger(t) == pc[t] = "next" /\ Elect(t, "clog")

\* Mutant of Refund: the address lacks its "pv1".
RefundBare(t) ==
    /\ pc[t] = "clog"
    /\ IF Cardinality(DOMAIN pool) > ClogLimit /\ forger[t] # Genesis
       THEN /\ ledger' = updateStake(updateBalance(ledger, Bare(forger[t]),
                              getStake(ledger, forger[t])), forger[t], 0)
            /\ Goto(t, "erase")
       ELSE Goto(t, "decide") /\ UNCHANGED ledger
    /\ UNCHANGED <<blocks, pool, mutex, tx, forging, block, messages, counters>>

\* The stake goes back to the forger's wallet ...
Refund(t) ==
    /\ pc[t] = "clog"
    /\ IF Cardinality(DOMAIN pool) > ClogLimit /\ forger[t] # Genesis
       THEN /\ ledger' = refundStake(ledger, forger[t])
            /\ Goto(t, "erase")
       ELSE Goto(t, "decide") /\ UNCHANGED ledger
    /\ UNCHANGED <<blocks, pool, mutex, tx, forging, block, messages, counters>>

\* ... and only then leaves the stakers.
Erase(t) ==
    /\ pc[t] = "erase"
    /\ ledger' = eraseStaker(ledger, forger[t])
    /\ Goto(t, "clear")
    /\ UNCHANGED <<blocks, pool, mutex, tx, forging, block, messages, counters>>

ClearPool(t) ==
    /\ pc[t] = "clear"
    /\ IF Cardinality(DOMAIN pool) > DeadLimit /\ forger[t] \notin DOMAIN ledger.stakers
       THEN pool' = NoTxs /\ dropped' = dropped \cup PoolIds
       ELSE UNCHANGED <<pool, dropped>>
    /\ Goto(t, "renext")
    /\ UNCHANGED <<blocks, ledger, mutex, tx, forging, block, messages,
                   stamp, uuid, budget>>

\* The second lottery; its winner is not looked at again.
NextForgerAgain(t) == pc[t] = "renext" /\ Elect(t, "decide")

\* A loser registers the winner, under an address without its "pv1".
Decide(t) ==
    /\ pc[t] = "decide"
    /\ IF forger[t] = Me
       THEN /\ Goto(t, "reward")
            /\ UNCHANGED <<ledger, tx, forging, block>>
       ELSE ledger' = addAccount(ledger, Bare(forger[t])) /\ Return(t)
    /\ UNCHANGED <<blocks, pool, mutex, messages, counters>>

\* Mutant of StartReward: the walk takes the transactions out of the pool.
StartRewardTaking(t) ==
    /\ pc[t] = "reward" /\ Free
    /\ mutex' = t
    /\ todo' = [todo EXCEPT ![t] = pool]
    /\ pool' = NoTxs
    /\ Goto(t, "charge")
    /\ UNCHANGED <<blocks, ledger, tx, forger, batch, reward, block,
                   messages, counters>>

\* calculateForgerReward holds blockchainMutex, which no other user of the
\* pool takes, and walks the pool as it was when the walk began.
StartReward(t) ==
    /\ pc[t] = "reward" /\ Free
    /\ mutex' = t
    /\ todo' = [todo EXCEPT ![t] = pool]
    /\ Goto(t, "charge")
    /\ UNCHANGED <<blocks, ledger, pool, tx, forger, batch, reward, block,
                   messages, counters>>

\* The fee is taken off the transaction in the pool itself.
Charge(t) ==
    /\ pc[t] = "charge"
    /\ \E s \in DOMAIN todo[t] :
        /\ \A u \in DOMAIN todo[t] : s <= u
        /\ IF s \in DOMAIN pool
           THEN /\ batch' = [batch EXCEPT ![t] = Append(@, charge(pool[s]))]
                /\ reward' = [reward EXCEPT ![t] = @ + fee(pool[s])]
                /\ pool' = [pool EXCEPT ![s] = charge(@)]
           ELSE \* another thread has taken it out: seen as it was, or missed
                /\ UNCHANGED pool
                /\ \/ /\ batch' = [batch EXCEPT ![t] = Append(@, charge(todo[t][s]))]
                      /\ reward' = [reward EXCEPT ![t] = @ + fee(todo[t][s])]
                   \/ UNCHANGED <<batch, reward>>
        /\ todo' = [todo EXCEPT ![t] = Restrict(@, DOMAIN @ \ {s})]
    /\ UNCHANGED <<blocks, ledger, mutex, pc, tx, forger, block, messages, counters>>

\* Mutant of PayReward: the reward is booked here and executed later.
PayRewardTwice(t) ==
    /\ pc[t] = "charge" /\ DOMAIN todo[t] = {}
    /\ batch' = [batch EXCEPT ![t] = Append(@, rewardTx(uuid, Me, reward[t]))]
    /\ ledger' = move(ledger, rewardTx(uuid, Me, reward[t]))
    /\ uuid' = uuid + 1
    /\ mutex' = Nobody
    /\ Goto(t, "create")
    /\ UNCHANGED <<blocks, pool, tx, forger, todo, reward, block,
                   messages, stamp, dropped, budget>>

\* Mutant of PayReward: the lock is kept for createBlock, which takes it again.
PayRewardLocked(t) ==
    /\ pc[t] = "charge" /\ DOMAIN todo[t] = {}
    /\ batch' = [batch EXCEPT ![t] = Append(@, rewardTx(uuid, Me, reward[t]))]
    /\ uuid' = uuid + 1
    /\ Goto(t, "create")
    /\ UNCHANGED <<shared, tx, forger, todo, reward, block,
                   messages, stamp, dropped, budget>>

\* The reward is paid by the exchange, whoever paid the fees.
PayReward(t) ==
    /\ pc[t] = "charge" /\ DOMAIN todo[t] = {}
    /\ batch' = [batch EXCEPT ![t] = Append(@, rewardTx(uuid, Me, reward[t]))]
    /\ uuid' = uuid + 1
    /\ mutex' = Nobody
    /\ Goto(t, "create")
    /\ UNCHANGED <<blocks, ledger, pool, tx, forger, todo, reward, block,
                   messages, stamp, dropped, budget>>

\* Mutant of newBlock: the hash nextForger and forgerValid take for the last.
newBlockOld(txs, draw) ==
    [count |-> Len(blocks), lastHash |-> tip.lastHash, forger |-> Me, txs |-> txs,
     hash |-> [id |-> Last(txs).id, draw |-> draw]]

\* createBlock: the block, its execution and the push are one lock scope.
newBlock(txs, draw) ==
    [count |-> Len(blocks), lastHash |-> tip.hash, forger |-> Me, txs |-> txs,
     hash |-> [id |-> Last(txs).id, draw |-> draw]]

\* Mutant of CreateBlock: no lock.
CreateBlockUnlocked(t) ==
    /\ pc[t] = "create"
    /\ \E d \in Draw : block' = [block EXCEPT ![t] = newBlock(batch[t], d)]
    /\ Goto(t, "execute")
    /\ UNCHANGED <<shared, tx, forging, messages, counters>>

CreateBlock(t) ==
    /\ pc[t] = "create" /\ Free
    /\ mutex' = t
    /\ \E d \in Draw : block' = [block EXCEPT ![t] = newBlock(batch[t], d)]
    /\ Goto(t, "execute")
    /\ UNCHANGED <<blocks, ledger, pool, tx, forging, messages, counters>>

Execute(t) ==
    /\ pc[t] = "execute"
    /\ ledger' = executeTransactions(ledger, block[t].txs)
    /\ Goto(t, "push")
    /\ UNCHANGED <<blocks, pool, mutex, tx, forging, block, messages, counters>>

Push(t) ==
    /\ pc[t] = "push"
    /\ blocks' = Append(blocks, block[t])
    /\ mutex' = Nobody
    /\ Goto(t, "remove")
    /\ UNCHANGED <<ledger, pool, tx, forging, block, messages, counters>>

Without(p, ids) == Restrict(p, {s \in DOMAIN p : p[s].id \notin ids})

\* Mutant of RemoveFromPool: the pool is emptied, as after an eviction.
RemoveFromPoolAll(t) ==
    /\ pc[t] = "remove"
    /\ pool' = NoTxs
    /\ Return(t)
    /\ UNCHANGED <<blocks, ledger, mutex, messages, counters>>

\* The last step of forge, before the broadcast, and of handleBlock.
RemoveFromPool(t) ==
    /\ pc[t] = "remove"
    /\ pool' = Without(pool, Ids(block[t].txs))
    /\ Return(t)
    /\ UNCHANGED <<blocks, ledger, mutex, messages, counters>>

-----------------------------------------------------------------------------
(***************************************************************************)
(* handleBlock: a block a peer forged.  The peer's chain shares ours up to *)
(* some block, and the block it announces is the last of its chain.        *)
(***************************************************************************)
\* A peer forges when its own lottery says so.  It is ours if we agree; a
\* peer that has lost a staker, or kept one, may find anyone the winner.
Winners(chain) ==
    IF Agree
    THEN Peer \cap {forgerOf(replayed(chain),
                             Last(chain).lastHash)}
    ELSE Peer

peerBlock(p, x, id, last, d) ==
    keyedBlock([count |-> last.count + 1, lastHash |-> last.hash, forger |-> p,
                hash |-> [id |-> id, draw |-> d],
                txs |-> <<charge(x), rewardTx(id, p, fee(x))>>])

\* The chains a peer may have made of another by forging one more block.
Longer(chain, id) ==
    {Append(chain, peerBlock(p, x, id, Last(chain), d)) :
        p \in Winners(chain), d \in Draw,
        x \in {x \in sent \cup RemoteTx : x.id \notin ChainIds(chain)}}

\* The chains of one and of two blocks more than what a peer shares with us.
PeerChains ==
    UNION {LET one == Longer(SubSeq(blocks, 1, n), uuid)
           IN  IF TailLimit = 1 THEN one
               ELSE one \cup UNION {Longer(c, uuid + 1) : c \in one} :
           n \in {n \in DOMAIN blocks : Len(blocks) - n <= ForkLimit}}

ReceiveBlock(t) ==
    /\ pc[t] = "idle" /\ t = P2P /\ budget.block > 0
    /\ theirs' \in PeerChains
    /\ block' = [block EXCEPT ![t] = Last(theirs')]
    /\ uuid' = uuid + 2
    /\ budget' = [budget EXCEPT !.block = @ - 1]
    /\ Goto(t, "count")
    /\ UNCHANGED <<shared, tx, forging, copy, answers, sent, stamp, dropped>>

CheckCount(t) ==
    /\ pc[t] = "count" /\ Free
    /\ Goto(t, IF tip.count = block[t].count - 1 THEN "link" ELSE "request")
    /\ theirs' = IF tip.count = block[t].count - 1 THEN <<>> ELSE theirs
    /\ UNCHANGED <<shared, tx, forging, block, copy, answers, sent, counters>>

\* requestChain reads our size without the lock and broadcasts it; each peer
\* sends what it has beyond that (handleBlockchainRequest).  The answers are
\* the same as long as the peers agree.
requestChain(t) ==
    /\ pc[t] = "request"
    /\ LET missing == SubSeq(theirs, Len(blocks) + 1, Len(theirs))
       IN  answers' = IF missing = <<>> \/ Answers = 0 THEN answers
                      ELSE answers \cup {[blocks |-> missing, left |-> Answers]}
    /\ theirs' = <<>>
    /\ Return(t)
    /\ UNCHANGED <<shared, copy, sent, counters>>

CheckLink(t) ==
    /\ pc[t] = "link" /\ Free
    /\ Check(t, tip.hash = block[t].lastHash, "forger")
    /\ UNCHANGED <<shared, messages, counters>>

CheckForger(t) ==
    /\ pc[t] = "forger" /\ Free
    /\ Check(t, /\ publicKey(block[t].forger) = forgerOf(ledger, tip.lastHash)
                /\ block[t].txs # <<>>, "adopt")
    /\ UNCHANGED <<shared, messages, counters>>

\* Mutant of AddBlock: no lock.
AddBlockUnlocked(t) ==
    /\ pc[t] = "adopt"
    /\ Goto(t, "execute")
    /\ UNCHANGED <<shared, tx, forging, block, messages, counters>>

\* addBlock: a new lock scope, in which nothing is checked again.
AddBlock(t) ==
    /\ pc[t] = "adopt" /\ Free
    /\ mutex' = t
    /\ Goto(t, "execute")
    /\ UNCHANGED <<blocks, ledger, pool, tx, forging, block, messages, counters>>

-----------------------------------------------------------------------------
(***************************************************************************)
(* handleBlockchain: blocks a peer sent because we asked for them, all in  *)
(* one lock scope.  They are taken as they are, unless there are as many   *)
(* of them as the count of our last block.                                 *)
(***************************************************************************)
taken(a) ==
    (answers \ {a}) \cup (IF a.left > 1 THEN {[a EXCEPT !.left = @ - 1]} ELSE {})

\* Mutant of ReceiveChain: no lock.
ReceiveChainUnlocked(t) ==
    /\ pc[t] = "idle" /\ t = P2P
    /\ \E a \in answers :
        /\ answers' = taken(a)
        /\ IF Len(a.blocks) # tip.count
           THEN copy' = blocks \o a.blocks /\ Goto(t, "replay")
           ELSE UNCHANGED <<copy, pc>>
    /\ UNCHANGED <<shared, tx, forging, block, theirs, sent, counters>>

ReceiveChain(t) ==
    /\ pc[t] = "idle" /\ t = P2P /\ Free
    /\ \E a \in answers :
        /\ answers' = taken(a)
        /\ IF Len(a.blocks) # tip.count
           THEN /\ copy' = blocks \o a.blocks
                /\ mutex' = t
                /\ Goto(t, "replay")
           ELSE UNCHANGED <<copy, mutex, pc>>
    /\ UNCHANGED <<blocks, ledger, pool, tx, forging, block, theirs, sent, counters>>

Replay(t) ==
    /\ pc[t] = "replay"
    /\ ledger' = importBlocks(ledger, fresh)
    /\ Goto(t, "assign")
    /\ UNCHANGED <<blocks, pool, mutex, tx, forging, block, messages, counters>>

Assign(t) ==
    /\ pc[t] = "assign"
    /\ blocks' = copy
    /\ copy' = <<>>
    /\ mutex' = Nobody
    /\ Goto(t, "idle")
    /\ UNCHANGED <<ledger, pool, tx, forging, block, theirs, answers, sent, counters>>

-----------------------------------------------------------------------------
Init ==
    /\ \E first \in GenesisBlocks : blocks = <<first>>
    /\ ledger = GenesisLedger
    /\ pool = NoTxs
    /\ mutex = Nobody
    /\ pc = [t \in Thread |-> "idle"]
    /\ tx = [t \in Thread |-> NoTx]
    /\ forger = [t \in Thread |-> NoKey]
    /\ todo = [t \in Thread |-> NoTxs]
    /\ batch = [t \in Thread |-> <<>>]
    /\ reward = [t \in Thread |-> 0]
    /\ block = [t \in Thread |-> NoBlock]
    /\ theirs = <<>> /\ copy = <<>> /\ answers = {} /\ sent = {}
    /\ stamp = 0 /\ uuid = 2 /\ dropped = {}
    /\ budget = Budget

\* What the outside makes a thread begin, and what the thread then does.
Call(t) == Submit(t) \/ ReceiveTx(t) \/ ReceiveBlock(t)

Handle(t) ==
    PoolCheck(t) \/ ChainCheck(t) \/ Cover(t) \/ Add(t) \/ Required(t)

Forge(t) ==
    \/ NextForger(t) \/ Refund(t) \/ Erase(t) \/ ClearPool(t) \/ NextForgerAgain(t)
    \/ Decide(t) \/ StartReward(t) \/ Charge(t) \/ PayReward(t) \/ CreateBlock(t)

Commit(t) == Execute(t) \/ Push(t) \/ RemoveFromPool(t)

Adopt(t) ==
    CheckCount(t) \/ requestChain(t) \/ CheckLink(t) \/ CheckForger(t) \/ AddBlock(t)

Download(t) == ReceiveChain(t) \/ Replay(t) \/ Assign(t)

Step(t) == Handle(t) \/ Poll(t) \/ Forge(t) \/ Commit(t) \/ Adopt(t) \/ Download(t)

Next == \E t \in Thread : Call(t) \/ Step(t)

Spec == Init /\ [][Next]_vars

\* A thread the scheduler runs: each goes on with what it has begun, the
\* poller wakes up again and again, and an answer under way arrives.
FairSpec == Spec /\ \A t \in Thread : WF_vars(Step(t))
=============================================================================
