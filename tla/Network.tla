------------------------------- MODULE Network -------------------------------
(***************************************************************************)
(* Several nodes and what they send each other.  A node is its chain, its  *)
(* ledger and its pool; a handler of Node.cpp is one step, with everything *)
(* it changes and sends (NodeThreads takes a node apart into its threads). *)
(*                                                                         *)
(* Messages from one node to another arrive in the order they were sent;   *)
(* those of different senders in any order.  A message reaches its node    *)
(* unless the node restarts before: then its memory and what waits to be   *)
(* accepted are gone.  The others keep its address meanwhile, and so it is *)
(* down for no time here.  A DISCOVERY message is handled in the step that *)
(* sends it; PeerDiscovery has those messages under way.                   *)
(***************************************************************************)
EXTENDS Ledger

CONSTANTS
    Node,        \* the nodes that may start
    Master,      \* the one all others greet, running from the beginning
    walletOf,    \* the wallet a node forges with
    Requests,    \* what /transact of each node is asked to do
    PoolLimit,   \* pool size that makes a transaction forge at once (20)
    ClogLimit,   \* pool size above which the forger is evicted (100)
    DeadLimit,   \* pool size above which the pool is emptied (500)
    Patient,     \* does the outside wait where the network needs it to?
    Budget       \* bound: calls from outside, by kind (submit, start)

ASSUME NetworkAssumption ==
    /\ Master \in Node
    /\ walletOf \in [Node -> Address] /\ walletOf[Master] = Genesis
    /\ DOMAIN Requests = Node
    /\ \A n \in Node : \A r \in Requests[n] :
           r.type \in TxType /\ r.sender \in Account /\ r.receiver \in Address /\ r.amount \in Nat
    /\ PoolLimit \in Nat /\ ClogLimit \in Nat /\ DeadLimit \in Nat
    /\ Patient \in BOOLEAN
    /\ Budget \in [submit : Nat, start : Nat]

VARIABLES
    up,          \* the nodes that have been started
    node,        \* each node's blocks, ledger and pool
    peers,       \* each node's peers
    wire,        \* wire[m][n]: messages from m to n, oldest first
    uuid,        \* the next number for a transaction or a block
    budget       \* bound: calls from outside still to come

vars == <<up, node, peers, wire, uuid, budget>>

tip(s) == Last(s.blocks)

-----------------------------------------------------------------------------
(***************************************************************************)
(* Handlers: from what a node is to what it may become and broadcast.      *)
(***************************************************************************)
started(first) == [blocks |-> <<first>>, ledger |-> GenesisLedger, pool |-> <<>>]

outcome(s, sent) == [node |-> s, sent |-> sent]

removeFromPool(pool, ids) ==
    LET left[i \in 0..Len(pool)] ==
            IF i = 0 THEN <<>>
            ELSE IF pool[i].id \in ids THEN left[i - 1] ELSE Append(left[i - 1], pool[i])
    IN  left[Len(pool)]

\* forge of Node.cpp up to its second lottery: who is given up as dead.
unclogged(s) ==
    LET dead == forgerOf(s.ledger, tip(s).lastHash)
    IN  IF Len(s.pool) <= ClogLimit \/ dead = Genesis THEN s
        ELSE [s EXCEPT !.ledger = eraseStaker(refundStake(@, dead), dead),
                       !.pool = IF Len(@) > DeadLimit THEN <<>> ELSE @]

rewarded(n, s, id) ==
    Append([i \in DOMAIN s.pool |-> charge(s.pool[i])],
           rewardTx(id, walletOf[n], fees(s.pool)))

newBlock(n, s, id, draw) ==
    [count |-> Len(s.blocks), lastHash |-> tip(s).hash, forger |-> walletOf[n],
     txs |-> rewarded(n, s, id), hash |-> [id |-> id, draw |-> draw]]

addBlock(s, b) ==
    [blocks |-> Append(s.blocks, b),
     ledger |-> executeTransactions(s.ledger, b.txs),
     pool |-> removeFromPool(s.pool, Ids(b.txs))]

\* The account a loser opens for the winner is left out: no transaction
\* uses its address, which lacks the "pv1" (NodeThreads!Decide).
forge(n, before, id) ==
    LET s == unclogged(before)
        winner == forgerOf(s.ledger, tip(s).lastHash)
        blocksOf == {newBlock(n, s, id, d) : d \in Draw}
    IN  IF winner = walletOf[n]
        THEN {outcome(addBlock(s, b), <<[kind |-> "BLOCK", block |-> b]>>) : b \in blocksOf}
        ELSE {outcome(s, <<>>)}

forgerRequired(pool) ==
    \/ \E i \in DOMAIN pool : pool[i].type \in {"EXCHANGE", "STAKE"}
    \/ Len(pool) >= PoolLimit

handleTransaction(n, s, tx, broadcast, id) ==
    LET added == [s EXCEPT !.pool = Append(@, tx)]
        word == IF broadcast THEN <<[kind |-> "TRANSACTION", tx |-> tx]>> ELSE <<>>
    IN  IF tx.id \in Ids(s.pool) \cup ChainIds(s.blocks) \/ ~transactionCovered(s.ledger, tx)
        THEN {outcome(s, <<>>)}
        ELSE IF forgerRequired(added.pool)
        THEN {[o EXCEPT !.sent = word \o @] : o \in forge(n, added, id)}
        ELSE {outcome(added, word)}

requestChain(n, s) == <<[kind |-> "BLOCKCHAINREQUEST", from |-> n, size |-> Len(s.blocks)]>>

forgerValid(s, b) == publicKey(b.forger) = forgerOf(s.ledger, tip(s).lastHash)

handleBlock(n, s, b) ==
    IF tip(s).count # b.count - 1 THEN outcome(s, requestChain(n, s))
    ELSE IF tip(s).hash = b.lastHash /\ forgerValid(s, b) /\ b.txs # <<>>
    THEN outcome(addBlock(s, b), <<>>)
    ELSE outcome(s, <<>>)

\* Mutant of missing: the last block the asking node has is sent as well.
missingOne(s, size) == SubSeq(s.blocks, size, Len(s.blocks))

\* handleBlockchainRequest: a node that has only the genesis block, or fewer
\* blocks than the one that asks, does not answer.
missing(s, size) == SubSeq(s.blocks, size + 1, Len(s.blocks))

answer(s, size) ==
    IF Len(s.blocks) = 1 \/ size > Len(s.blocks) THEN <<>>
    ELSE <<[kind |-> "BLOCKCHAIN", blocks |-> missing(s, size)]>>

\* Taken as they are, unless they are as many as the last block's count.
handleBlockchain(s, received) ==
    IF Len(received) = tip(s).count THEN s
    ELSE [s EXCEPT !.blocks = @ \o received, !.ledger = importBlocks(@, received)]

-----------------------------------------------------------------------------
(***************************************************************************)
(* The wire.                                                               *)
(***************************************************************************)
sentTo(w, n, to, ms) ==
    [w EXCEPT ![n] = [m \in Node |-> IF m \in to THEN @[m] \o ms ELSE @[m]]]

received(m, n) == [wire EXCEPT ![m][n] = Tail(@)]

Waiting(m, n, kind) == wire[m][n] # <<>> /\ Head(wire[m][n]).kind = kind

Become(n, outcomes, w) ==
    \E o \in outcomes :
        /\ node' = [node EXCEPT ![n] = o.node]
        /\ wire' = sentTo(w, n, peers[n], o.sent)

UnderWay == UNION {Range(wire[m][n]) : m, n \in Node}

-----------------------------------------------------------------------------
(***************************************************************************)
(* When a patient outside acts.  The nodes know each other and nobody is   *)
(* downloading: then users may ask for what nobody has to afford, as fast  *)
(* as they like.  Nothing is under way and every pool is empty: then they  *)
(* may also spend, and a node may start.                                   *)
(* A third node makes two forgers' blocks cross on their way to it, so     *)
(* there is either a third node or a second staker; and who stakes runs.   *)
(***************************************************************************)
Acquainted == \A n \in up : peers[n] = up \ {n}

Settled ==
    /\ Acquainted
    /\ \A m \in UnderWay : m.kind \in {"TRANSACTION", "BLOCK"}

Rest == Settled /\ UnderWay = {} /\ \A n \in up : node[n].pool = <<>>

OneStaker == \A n \in up : DOMAIN node[n].ledger.stakers = {Genesis}

walletsUp == Restrict(walletOf, up)

MaySubmit(r) ==
    Patient => /\ Settled
               /\ r.type # "EXCHANGE" /\ r.amount > 0 => Rest
               /\ r.type = "STAKE" => Cardinality(up) <= 2 /\ r.sender \in Range(walletsUp)

MayStart(n) ==
    Patient => /\ Rest /\ up # {n}
               /\ Cardinality(up \cup {n}) <= 2 \/ OneStaker

-----------------------------------------------------------------------------
(***************************************************************************)
(* Steps.                                                                  *)
(***************************************************************************)
\* A block takes a number for its reward and its hash.
forged(n) == IF node'[n].blocks = node[n].blocks THEN 0 ELSE 1

Submit(n) ==
    /\ n \in up /\ budget.submit > 0
    /\ \E r \in Requests[n] :
        /\ MaySubmit(r)
        /\ Become(n, handleTransaction(n, node[n],
               [id |-> uuid, type |-> r.type, sender |-> r.sender, receiver |-> r.receiver,
                amount |-> r.amount, key |-> publicKey(r.sender)], TRUE, uuid + 1), wire)
    /\ uuid' = uuid + 1 + forged(n)
    /\ budget' = [budget EXCEPT !.submit = @ - 1]
    /\ UNCHANGED <<up, peers>>

ReceiveTransaction(m, n) ==
    /\ Waiting(m, n, "TRANSACTION")
    /\ Become(n, handleTransaction(n, node[n], Head(wire[m][n]).tx, FALSE, uuid),
              received(m, n))
    /\ uuid' = uuid + forged(n)
    /\ UNCHANGED <<up, peers, budget>>

\* Mutant of Poll: the poller too waits for a full pool.
PollFull(n) ==
    /\ forgerRequired(node[n].pool)
    /\ Become(n, forge(n, node[n], uuid), wire)
    /\ uuid' = uuid + forged(n)
    /\ UNCHANGED <<up, peers, budget>>

Poll(n) ==
    /\ node[n].pool # <<>>
    /\ Become(n, forge(n, node[n], uuid), wire)
    /\ uuid' = uuid + forged(n)
    /\ UNCHANGED <<up, peers, budget>>

ReceiveBlock(m, n) ==
    /\ Waiting(m, n, "BLOCK")
    /\ Become(n, {handleBlock(n, node[n], keyedBlock(Head(wire[m][n]).block))},
              received(m, n))
    /\ UNCHANGED <<up, peers, uuid, budget>>

ReceiveRequest(m, n) ==
    /\ Waiting(m, n, "BLOCKCHAINREQUEST")
    /\ LET r == Head(wire[m][n])
       IN  wire' = sentTo(received(m, n), n, {r.from}, answer(node[n], r.size))
    /\ UNCHANGED <<up, node, peers, uuid, budget>>

ReceiveChain(m, n) ==
    /\ Waiting(m, n, "BLOCKCHAIN")
    /\ LET bs == Head(wire[m][n]).blocks
       IN  Become(n, {outcome(handleBlockchain(node[n],
                         [i \in DOMAIN bs |-> keyedBlock(bs[i])]), <<>>)}, received(m, n))
    /\ UNCHANGED <<up, peers, uuid, budget>>

\* peerDiscoveryHandleMessage of n, greeted by m who has a list: n asks for
\* the chain when m is new, before it looks at the list.
greeted(ps, n, m, list) == [ps EXCEPT ![n] = (@ \cup {m} \cup list) \ {n}]

asked(w, n, m) ==
    IF m \in peers[n] THEN w
    ELSE sentTo(w, n, peers[n] \cup {m}, requestChain(n, node[n]))

\* The discovery thread repeats a greeting every ten seconds; one that
\* changes nothing is no step.  Mutant of Greet: a new peer is not asked for its chain.
GreetQuiet(m, n) ==
    /\ n \in peers[m] /\ peers # greeted(peers, n, m, peers[m])
    /\ peers' = greeted(peers, n, m, peers[m])
    /\ UNCHANGED <<up, node, wire, uuid, budget>>

Greet(m, n) ==
    /\ n \in peers[m] /\ peers # greeted(peers, n, m, peers[m])
    /\ peers' = greeted(peers, n, m, peers[m])
    /\ wire' = asked(wire, n, m)
    /\ UNCHANGED <<up, node, uuid, budget>>

\* A node starts, again or for the first time, and greets the master.
Start(n) ==
    /\ budget.start > 0 /\ MayStart(n)
    /\ up' = up \cup {n}
    /\ node' = [node EXCEPT ![n] = started(Head(@.blocks))]
    /\ LET fresh == [peers EXCEPT ![n] = {}]
           lost == [m \in Node |-> [wire[m] EXCEPT ![n] = <<>>]]
       IN  IF n = Master THEN peers' = fresh /\ wire' = lost
           ELSE peers' = greeted(fresh, Master, n, {}) /\ wire' = asked(lost, Master, n)
    /\ budget' = [budget EXCEPT !.start = @ - 1]
    /\ UNCHANGED uuid

Receive(m, n) ==
    \/ ReceiveTransaction(m, n) \/ ReceiveBlock(m, n)
    \/ ReceiveRequest(m, n) \/ ReceiveChain(m, n)

\* The P2P thread of n, the discovery thread of m.
Serve(n) == \E m \in Node : Receive(m, n)

Discover(m) == \E n \in Node : Greet(m, n)

Init ==
    /\ up = {Master}
    /\ \E first \in GenesisBlocks : node = [n \in Node |-> started(first)]
    /\ peers = [n \in Node |-> {}]
    /\ wire = [m \in Node |-> [n \in Node |-> <<>>]]
    /\ uuid = 2
    /\ budget = Budget

System == \E n \in Node : Poll(n) \/ Serve(n) \/ Discover(n)

Next == System \/ \E n \in Node : Submit(n) \/ Start(n)

Spec == Init /\ [][Next]_vars

\* The threads of some node go on as long as one can: the P2P thread handles
\* what arrives, the poller and the discovery thread wake up again and again.
FairSpec == Spec /\ WF_vars(System)
=============================================================================
