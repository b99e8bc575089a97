# Prawnstar blockchain: TLA+ models, checks and proofs

Prawnstar is a proof-of-stake blockchain node in C++. This directory holds TLA+ models of one node with
its threads and of several nodes together, TLC configurations that check them, and TLAPS proofs about
them. Every definition is translated from the code under `src/`; `PROJECT.json` says which lines.

## 1. The system

### Components

| component | state | operations | modelled in |
|---|---|---|---|
| transaction handling (`Node.cpp`, `Transaction.cpp`) | none of its own | `handleTransaction` | `NodeThreads`, `Network` |
| transaction pool (`TransactionPool.cpp`) | `transactions` | add, search, remove, `forgerRequired` | `NodeThreads`, `Network` |
| forging (`Node.cpp`, `Blockchain.cpp`, `Wallet.cpp`) | none of its own | `forge`, `nextForger`, `calculateForgerReward`, `createBlock` | `NodeThreads`, `Network` |
| block adoption (`Node.cpp`, `Blockchain.cpp`) | none of its own | `handleBlock`, the checks, `addBlock`, `requestChain` | `NodeThreads`, `Network` |
| chain download (`Node.cpp`) | none of its own | `handleBlockchain`, `handleBlockchainRequest` | `NodeThreads`, `Network`, `P2PTransport` |
| chain and ledger (`Blockchain.cpp`, `AccountModel.cpp`) | `blocks`, balances | execute, push, look up | `Ledger`, `NodeThreads`, `AtomicLedger`, `ReplicatedChain` |
| proof of stake (`ProofOfStake.cpp`) | `stakers` | stake, tickets, winner | `Ledger` (the hash functions are not) |
| HTTP API (`NodeApi.cpp`) | none | `/transact`; reads | `Submit` in `NodeThreads` and `Network` |
| wallets (`Wallet.cpp`) | key tables of the account model | look up, create transaction and block | `Ledger` |
| peer discovery (`SocketCommunication.cpp`) | `peers`, `inactivePeers` | join, greet, drop, learn | `PeerDiscovery`, `Network` |
| transport (`P2PServer.cpp`, `SocketCommunication.cpp`) | sockets | serial accept, blocking send and receive | `P2PTransport` |
| messages, utilities, dashboard, scripts, tests, vendored libraries | | formatting, I/O, third-party | not modelled |

### How they interact

A node runs, as threads of one process: the HTTP workers of `NodeApi` (multithreaded), the P2P server,
which joins the thread of each connection and so handles one message at a time, the forger thread, which
polls the pool, and two threads of peer discovery. They share the pool, the chain, the account model and
the stakers. Each of those has a mutex, and each public function takes the mutex of its own object for the
length of the call, so nothing holds between two calls. `forge()` is called at the end of
`handleTransaction`, by a worker or by the P2P thread, and by the poller; it changes the stakers and
empties the pool with no lock, and `calculateForgerReward` walks the pool under the mutex of the chain.

Nodes exchange TRANSACTION, BLOCK, BLOCKCHAINREQUEST, BLOCKCHAIN and DISCOVERY messages, each over a
connection of its own. Only the node a user talks to broadcasts a transaction, and only the forger a block.

### What is hard, and what makes it correct

`hazards` in `PROJECT.json` lists each at its line. In short:

- checks and effects in different lock scopes: the pool search, the chain search, the balance and the
  insertion; the checks of a block and its addition; the walk over the pool, the block, the removal;
- two threads that forge at once, or forge while a peer's block or a download arrives;
- the lottery as a mutual exclusion: what a node accepts while it forges must lose the lottery it won;
- eviction: a refund and a removal of a stake with no lock, decided by the local pool;
- downloads that every peer answers, appended unchecked; a request that races with a new block;
- restarts: nothing is stored, and chain, balances and stakers come back by one download or not at all;
- who asks whom: a node asks for the chain only when a stranger greets it, or when a block is ahead of it;
- peer lists that two threads change without a lock, one of them while the other goes through them, and in
  which the dead are learned again from others;
- peers that run but are too busy to let a connect through, and are dropped for it;
- messages handled one at a time, and answers sent over blocking sockets with `blockchainMutex` held;
- progress: nothing but the poller forges a few transfers, and no mutex is recursive.

| component | what makes it correct |
|---|---|
| pool | no duplicates; nothing that is on the chain is admitted; everything in it gets on the chain |
| chain | it only grows; each block continues the one before; no block or transaction twice |
| ledger | it is the execution of the chain; tokens are conserved; nobody owes anything |
| lottery | all nodes that share a chain and stakers find one winner |
| download | a node that misses blocks gets them, once |
| discovery | live peers find each other and stay; dead ones go; nobody is sent everything twice |
| transport | no two nodes wait for each other for ever; a lock is held for an answer that somebody will read |

## 2. Modules

| module | what it is |
|---|---|
| `Ledger` | data and pure operations: transactions, blocks, execution, fees and rewards, stakes, the lottery |
| `NodeThreads` | the state machine of one node: its threads, its locks, the peers as environment |
| `AtomicLedger` | abstract specification of a node: chain and ledger change together |
| `NodeProperties` | what should be true of a node, and the refinement mapping to `AtomicLedger` |
| `MCNode` | wallets, requests, messages and bounds for TLC |
| `NatInduction` | induction and iteration on the natural numbers, stated on sets |
| `LedgerProofs` | what the operators of `Ledger` do, for ledgers, batches and chains of any length |
| `NodeProofs` | theorems: types, locks, the chain only grows |
| `ChainProofs` | theorems: own blocks are linked; the node implements `AtomicLedger`; the ledger is the replay of the chain; the chain is linked; tokens are conserved |
| `PoolProofs` | theorems: no duplicates in the pool, nothing admitted twice, nothing lost |
| `Network` | several nodes: a handler is one step, messages are under way between them, nodes restart |
| `ReplicatedChain` | abstract specification of the network: one chain, of which each node holds a beginning |
| `NetworkProperties`, `MCNetwork` | what should be true of the nodes together; values and bounds for TLC |
| `NetworkProofs` | theorems: types; nodes with one chain have one ledger; one chain, and all of it at rest |
| `PeerDiscovery`, `MCDiscovery` | peer lists and inactive lists, thread by thread, with kills and restarts |
| `DiscoveryProofs` | theorems: types; a peer is listed twice only if one is erased under a walk; the master is kept |
| `P2PTransport` | queues of connections, connects that fail, sends that wait for the reader, the lock they hold |
| `TransportProofs` | theorems: types; where the answer is that a lock is held for |

The node is taken apart in three directions, since one model of all of it is out of TLC's reach.
`NodeThreads` has every interleaving inside one node, and peers that may do anything peers do. `Network`
has several nodes, each handler atomic, which is what `NodeThreads` and its theorems are the argument for
wherever threads forge one after the other; both use the same `Ledger`. `PeerDiscovery` and `P2PTransport` refine the two
things `Network` takes as given: that nodes get to know each other, and that a message sent is handled.

### State and actions of NodeThreads

`blocks`, `ledger` (balances and stakers), `pool` and `mutex` are what the threads share. The pool is a
function from arrival stamps to transactions, so that a walk over the vector can meet an entry another
thread has removed. `pc` is where each thread is; `tx`, `forger`, `todo`, `batch`, `reward`, `block` are
its locals, reset when the call returns. `theirs` is the chain of the peer that sent the block under
check, `answers` the BLOCKCHAIN messages under way, `sent` what was broadcast.

| code | actions |
|---|---|
| `/transact`, TRANSACTION message | `Submit`, `ReceiveTx` |
| `handleTransaction` | `PoolCheck`, `ChainCheck`, `Cover`, `Add`, `Required` |
| `blockForger` | `Poll` |
| `forge` | `NextForger`, `Refund`, `Erase`, `ClearPool`, `NextForgerAgain`, `Decide` |
| `calculateForgerReward` | `StartReward`, `Charge` (once per pool entry), `PayReward` |
| `createBlock`, `addBlock` | `CreateBlock` or `AddBlock`, then `Execute`, `Push` |
| end of `forge`, of `handleBlock` | `RemoveFromPool` |
| `handleBlock` | `ReceiveBlock`, `CheckCount`, `CheckLink`, `CheckForger`, `requestChain` |
| `handleBlockchain` | `ReceiveChain`, `Replay`, `Assign` |

A step is what a thread does between two points where another can get in. `tpoolMutex`, `acMutex` and
`posMutex` cover one call each, so each such call is one step. Functions that hold `blockchainMutex` while
they touch something guarded otherwise (the pool, the balances) are several steps with `mutex` taken.

The peers are chosen when they act: the chain a peer announces shares ours up to one of the last
`ForkLimit` blocks and goes on for one or two blocks, forged by peers from what was broadcast. With `Agree`
a peer forges only if the code's own lottery, run on the ledger its chain yields, makes it the winner;
without, it may have evicted someone we kept, and anyone may be the winner.

### State and actions of Network

A node is a record of `blocks`, `ledger` and `pool`, with its `peers`; `wire[m][n]` holds what m has sent n,
oldest first, so that messages of one sender stay in order and those of several do not.

| code | actions and operators |
|---|---|
| `/transact`; TRANSACTION message | `Submit`; `ReceiveTransaction`: `handleTransaction`, with `forge` if it is required |
| `blockForger` | `Poll`: `forge` |
| `forge` | `unclogged` (the eviction), `newBlock`, `addBlock` |
| `handleBlock` | `ReceiveBlock`, which asks all peers for the chain when the count does not fit |
| `handleBlockchainRequest`, `handleBlockchain` | `ReceiveRequest` (`answer`, `missing`), `ReceiveChain` |
| `peerDiscovery`, `peerDiscoveryHandleMessage` | `Greet` (`greeted`, `asked`) |
| `Node::Node`, `startP2PServer` | `Start`, first or again: genesis block, no peers, what waited for it is lost |

A DISCOVERY message is handled in the step that sends it. A node that restarts is down for no time, so that
its peers still have its address. The account that the loser of a lottery opens for the winner is left out:
no transaction uses it.

`Patient` is about the outside. The code does not keep a user from spending while a block is on its
way, or a node from starting while another forges, and goes wrong if they do (`busy_join`; see section 3).
With `Patient` the outside waits where the network needs it to: a user spends, and a node starts, when
nothing is under way and all pools are empty; there is either a third node or a second staker, since two
forgers' blocks may cross on their way to a third node; and the wallets that stake belong to nodes that
run. What holds then is what the network can be relied on for, and each of these conditions is one
a user of it should know.

### State and actions of PeerDiscovery

| code | actions |
|---|---|
| `startP2PServer`, the handshake with the master | `Start`, `Join` |
| the process ends | `Kill` |
| `peerDiscoveryHandleMessage`, the sender | `Accept`; then `Know` (it is found) or `AddSender` |
| `peerDiscoveryHandleMessage`, each listed peer | `Know`, or `SearchInactive`, `AddListed` and `Forgive` |
| `peerDiscovery`, `broadcastPeerDiscovery` | `StartRound`; for each peer `Reach`, or `Miss`, `Erase`, `Retire` |

`peers` and `inactive` are the two vectors, which have no lock; a step is one access of one thread to them,
and between two steps of the P2P thread the discovery thread of the same node may take any number. `hearing`
is where the P2P thread is in its greeting: the names it has still to look for, the sender's first, and the
`place` in `peers` from which it has still to look. A walk over `peers` lasts from its first place to its last.
Only an erasing can get in its way, and only then does it matter how far it had come: `Erase` chooses
the place `k`, among those before which the name was not met. Whoever stands behind the erased peer moves
up, and the walk may step over the name it looks for, does not find it, and adds it a second time. `shifted` is a
history variable, the nodes in which an erasing fell into a walk; no step reads it.

Between `AddSender` and the list the code sends a request to all peers (`requestChain`), which takes long:
others take steps meanwhile, and what the request does is in `P2PTransport` and `Network`. `queue` holds
connections that the kernel has accepted and the P2P thread has not: at most `Backlog`, beyond which connect
waits. A greeting carries the list as it is once the connection is made.

### State and actions of P2PTransport

| code | actions |
|---|---|
| `broadcast`, `send`: connect, write | `Send`, `GiveUp` (connect fails, this receiver gets nothing and stays a peer) |
| `handleBlockchainRequest` under `blockchainMutex` | `HandleRequest`, then `Answer` or `AnswerNobody` |
| `P2PServer` accept, read, join | `HandleDiscovery`, then `HearList`; `HandleBlock`, `HandleRequest`, `HandleChain` |
| a worker that forges and broadcasts | `Forge`, `Send`, `GiveUp` |
| discovery thread | `Greet`; `Miss` (connect fails, the peer is erased and called inactive) |

`answering` and `unread` are the two points at which a P2P thread holds the lock and waits: for a
connection, and for the receiver to read what is longer than the buffers of the sockets (`Fits` blocks).
`listed` is the list that a P2P thread hears after its request to all peers has been sent. A peer that the
discovery thread has dropped because its queue was full is a stranger when it greets, and is asked for
its chain again; from another's list it is taken only after someone new has made the node forgive the inactive.
A chain is the counts of its blocks, which is all that requests and answers depend on. Only the master
forges. With `Patient` it does so when the nodes know each other, nobody is downloading, and nobody is as
far behind as an answer that does not fit; without, at any time.

### What is abstracted

- An address stands for its public key; an unknown address has the key `NoKey`, the empty string. The
  missing prefix of an address (`Node.cpp:458`) is kept, as `Bare`.
- Amounts are whole units, 40000 to a token, so that two successive fees of one 200th are exact; the
  rounding of doubles is not modelled.
- A hash is a unique number together with the number the lottery makes of it, any member of `Draw`.
- Signatures always verify, since nodes sign what they send. UUIDs are unique.
- The execution of a block is one step for everyone who takes `blockchainMutex`; `getBalance`, which does
  not, may see every prefix of it (`VisibleLedgers`). That the refund of a stake falls in the middle of
  an execution is left out.
- The data race on the pool's vector has the outcomes of an interleaving: an entry is seen as it was, as
  it is, or missed.
- In `PeerDiscovery` a connect to a node that runs succeeds or waits; `P2PTransport` has the one that fails. There
  a node's peers are a set, as it does not matter in which order or how often they are sent something, a
  greeting that tells nothing new is left out, and the erasing and the retiring of a peer are one step.
- In `NodeThreads` the node does not meet new peers, answer requests or restart; `Network` has
  all three, and `PeerDiscovery` kills.

## 3. Runs

The runs of `MCNode` have the wallets exchange, genesis, alice and other; this node forges with genesis,
peers with other. `CHECK_DEADLOCK FALSE` is set everywhere but in `discovery`: a node with nothing to do
stops, and the bounds on calls make every behaviour end there. The discovery thread never ends.

| run | instance | result |
|---|---|---|
| `threads` (`MCNode`) | two workers, the P2P thread; two requests, one remote transaction that arrives twice | `TypeOK`, `OwnBlocksLinked`, `LedgerMatchesChain`, `PoolNoDup`, `NoReadmission`, `NothingLost`, `AtomicSpec` hold (431 000 states) |
| `download` (`MCNode`) | one worker, the P2P thread; a peer that stakes, forks of one block, two blocks ahead, two answers, two lottery numbers | `AppendOnly`, `AtomicSpec` hold (3.9 million states) |
| `lottery` (`MCNode`) | one worker, peers that agree, no downloads, two lottery numbers | `LinkedChain` holds |
| `eviction` (`MCNode`) | one worker, a staker that never forges; limits 1 and 2 for 100 and 500 | `Conservation` holds |
| `progress` (`MCNode`) | one worker, the P2P thread, the poller, fair | `EventuallyOnChain`, `CallsReturn` hold |
| `network` (`MCNetwork`) | three nodes, three calls, three starts, patient, fair | `TypeOK`, `LedgersAgree`, `RestAgrees`, `ReplicatedSpec`, `ComesToRest` hold (128 000 states) |
| `discovery` (`MCDiscovery`) | three nodes that know each other, one of them killed and started again, queues of one, fair | `TypeOK`, `DoubledByErasing`, `MasterKept`, `Acquaintance`, `DeadDropped` hold (220 000 states) |
| `transport` (`P2PTransport`) | a node joins a master and another of four blocks; two more are forged; queues of one, answers of two blocks fit, live peers are dropped twice; patient, fair | `TypeOK`, `AnswersAwaited`, `NoMutualSend`, `LockReleased` hold (927 000 states) |
| `double_forging` (`MCNode`) | two workers | `OnChainOnce` fails |
| `overdraft` (`MCNode`) | one worker, two transfers in the pool | `NoOverdraft` fails |
| `busy_join` (`MCNetwork`) | two nodes, not patient | `NoBlockTwice` fails |
| `missed_master` (`P2PTransport`) | two nodes join, nothing is forged | `GrabsMissing` fails |

What the passing runs show. *Inside a node* the locks do what they are for: chain and ledger always agree,
own blocks are always linked, the pool has no duplicates, admits nothing that is on the chain and loses
nothing that was broadcast. `lottery` shows a fact the code does not mention: handleBlock's checks are not
atomic with the addition of the block, but as long as no two threads forge at once and nothing is downloaded, a peer's
block that is valid means that this node is not the winner for the same last block, and so cannot forge in
between. *Between nodes*, `network` shows that a patient outside sees one chain: nodes with one chain have
one ledger, though one executed a block in `createBlock`, another in `addBlock` and a third in
`handleBlockchain`, by a rule of its own; a network at rest has one chain, also after restarts; and it comes
to rest again and again. `discovery` shows that peers find each other however often they are taken for dead
and whatever one thread does to the list the other is walking through; that a peer may then stand in the list
twice, and only then. Such a peer is sent every broadcast twice until it is dropped, which erases both.
The dead go again from every list. `transport` shows that full queues, refused connections and
live peers dropped for them stop nobody for ever.

The failing runs are disagreements between the code and what its comments or tests say, each quoted in
`findings`. `double_forging` needs nothing but two HTTP requests at the same time, `overdraft` two transfers
in one pool. In `busy_join` a node with one block behind the genesis block is greeted by the master, of which it
has not heard before, and asks for what follows. Before the request is served the master forges the next
block, and broadcasts it; then it answers with the same block. The node adopts the broadcast one, and
`handleBlockchain` appends the other, as the number of received blocks (1) is not the count of the last block (2). In
`missed_master` two nodes join: the first hears of the master before the second greets, and
lists it; the second takes the master from the list, for which it asks nobody, and then the master's own
greeting is no news. It stays at the genesis block until somebody forges.

Other things that the models have and that no run states:

- With the poller as a second forging thread, `LinkedChain` fails in the instance of `lottery`.
- The exchange pays the forger's reward (`Blockchain.cpp:92`): what `calculateForgerReward` takes off the
  amounts, the senders keep, though `Blockchain.cpp:58` says "Forgers get paid by the senders".
- Two threads that evict refund one stake twice, and `Conservation` fails (`Node.cpp:407`).
- The pool is emptied above 500 with the transaction just being handled in it (`Node.cpp:415-420`).
- A STAKE addressed to somebody else raises a stake in a node that downloads the block and not in one that
  adds it: `LedgersAgree` fails (`Node.cpp:352`, `Blockchain.cpp:175-180`).
- Where somebody is further behind than the buffers take, two nodes can wait for each other for ever, each
  sending an answer under `blockchainMutex` that the other would have to read: `NoMutualSend` fails when
  `transport` is not patient and ten blocks are forged (`ForgeLimit`).
- A peer can stand in the list twice: `IsInjective(peers[n])` without the exception of `shifted` fails in the
  instance of `discovery`.
- A listed peer can be added that is among the inactive by then: it is erased and not yet called inactive when
  the P2P thread searches both vectors (`SocketCommunication.cpp:177-178`, `304-326`).

### Bounds, and why they are enough

`Budget` bounds the calls from outside by kind, and with them blocks, transactions and ids. Two workers
and the P2P thread are the smallest number at which two threads forge while a third handles a message; two
calls make two batches, and a third block is the first that can be linked wrongly to an own one. The pool
limits 20, 100 and 500 are constants, small in the runs that are about them and unreached in the others. `TailLimit` and
`ForkLimit` bound how far a peer is ahead and how many of our blocks it lacks: one block of fork and two
ahead are enough for a suffix that does not link, one that overlaps and one that is skipped for its
length. Two lottery numbers reach every choice between two stakers with one or two tickets.

`network` has three nodes because that is the least at which an answer comes from a node that is not
the one who forged, and at which a request goes to two. Three starts let both others join and one of them,
or the master, restart; three calls are a purchase that gives the second node tokens, its stake, and a
transfer that it or the master then forges. An instance with four calls and two starts (1.9 million states)
holds too. Two lottery numbers would only double the blocks: `Draw` holds the one number that makes the
second staker win when it stakes. Its pools never reach 100; what evictions do to one node is in `eviction`.

`discovery` has a master and two others that all know each other, so that each may learn of the other
from the master and spread a dead one back. One of them, the master too, dies and comes back, or dies for good; a queue of
one makes connects wait as soon as two greetings meet. A list of two peers is the shortest in which one moves up
when another is erased. `Traffic` bounds how many nodes are busy with greetings when the discovery
thread of another sends one: with 1 the greetings of different nodes come one after the other, while the two threads
of each node stay free. What is lost is many greetings under way at once: with 3,
TLC found none of the safety properties violated in the first 11 million states, and was stopped there. `transport` joins one node with
an answer (three blocks) longer than what fits (two); six blocks are enough for a block to be lost
while a queue is full, for the peer to fall behind by one, and to be asked for; `Misses` lets two live peers
be dropped, or one twice. `missed_master` needs a queue with room for both joiners and no forging
beyond the first blocks, and drops nobody.

### Fairness

`NodeThreads!FairSpec` adds weak fairness of `Step(t)` for each thread: a thread that can go on does, since
all are plain threads of one process; a mutex is only waited for by steps that are enabled when it is free;
the poller wakes up for ever (`for(;;) sleep`); and an answer under way is delivered. Calls from outside
are not fair. Weak fairness is enough because in this run the poller and the genesis wallet are the only
lottery winner: where the winner is a peer that never answers the code promises nothing.

`Network!FairSpec` has one weak fairness condition for all that nodes do by themselves: some thread goes on
as long as one can. Submissions and starts are not fair. This is weaker than fairness of each thread, and
enough, because every message and every pooled transaction can only be handled so many times.

`PeerDiscovery!FairSpec` has weak fairness for both threads of each node, and strong fairness for the two
steps that connect: `Reach` of each node, and `Join` of one node or another, for each joins but once when it
starts. A connect that waits for room in a full queue is let in when there is room often enough. The code justifies it by time: rounds are ten seconds apart, and handling a greeting
comes to its end, the requests it sends included, for each connect is let in or fails, so that queues run empty in
between. Starts and kills are not fair.

`P2PTransport!FairSpec` has weak fairness for each thread, and none for connects that wait: they are let
in or fail (`GiveUp`, `AnswerNobody`, `Miss`), and the properties do not depend on which. Forging is not fair.

## 4. Proofs

Proved by TLAPS for every value of the constants: any number of workers, nodes and wallets, any limits, any
requests and any peers. The assumptions on the constants are those the modules state; of `Ledger`'s, the one
a reader may miss is that there are finitely many wallets, which the sum of all balances needs; of
`P2PTransport`'s, that there are finitely many nodes.

| theorem | statement |
|---|---|
| `NodeProofs!TypeCorrect` | `Spec => []TypeOK` |
| `NodeProofs!LockCorrect` | `Spec => []LockInv` |
| `NodeProofs!ChainAppendOnly` | `Spec => AppendOnly` |
| `ChainProofs!OwnBlocksCorrect` | `Spec => []OwnBlocksLinked` |
| `ChainProofs!NodeImplementsAtomicLedger` | `Spec => AtomicSpec` |
| `PoolProofs!PoolNoDupCorrect` | `Spec => []PoolNoDup` |
| `PoolProofs!NothingLostCorrect` | `Spec => []NothingLost` |
| `PoolProofs!NoReadmissionCorrect` | `Spec => [](dropped = {} => NoReadmission)` |
| `ChainProofs!LedgerCorrect` | `Spec /\ []NobodyEvicted => []LedgerMatchesChain`, if `StakesForOneself` |
| `ChainProofs!LinkedChainCorrect` | `Spec /\ []NobodyEvicted /\ []OneAtATime => []LinkedChain`, if `Agree` |
| `ChainProofs!ConservationCorrect` | `Spec /\ []Undisturbed => []Conservation`, if `Account = Address` and `KeysOfSenders` |
| `NetworkProofs!NetworkTypeCorrect` | `Spec => []TypeOK` |
| `NetworkProofs!LedgersCorrect` | `Spec /\ []Uncrowded => []LedgersAgree`, if `StakesForOneself` |
| `NetworkProofs!RestAgreesCorrect` | `Spec /\ []GenesisWins => []RestAgrees`, if `Patient` and `GenesisIsMaster` |
| `NetworkProofs!NetworkImplementsReplicatedChain` | `Spec /\ []GenesisWins => ReplicatedSpec`, under the same |
| `DiscoveryProofs!DiscoveryTypeCorrect` | `Spec => []TypeOK` |
| `DiscoveryProofs!DoubledByErasingCorrect` | `Spec => []DoubledByErasing` |
| `DiscoveryProofs!MasterKeptCorrect` | `Spec => MasterKept` |
| `TransportProofs!TransportTypeCorrect` | `Spec => []TypeOK` |
| `TransportProofs!AnswersAwaitedCorrect` | `Spec => []AnswersAwaited` |

### The hypotheses, and what goes wrong without them

Each is a condition that the code does not enforce, and each but `GenesisWins` is needed:

- `StakesForOneself`: every STAKE asked for, here or by a peer, is for its own sender. One for somebody else
  counts when a chain is downloaded (`Node.cpp:352`) and not when a block is executed
  (`Blockchain.cpp:175`), so a node that downloads and one that adopts have different ledgers.
- `NobodyEvicted`, `Uncrowded`: no pool grows beyond the 100 at which `forge` evicts a forger
  (`Node.cpp:396`). An eviction is in no block, so no chain says who was evicted, and each node evicts for
  itself.
- `dropped = {}`: no pool was thrown away whole (`Node.cpp:418`). When one is, another thread may hold in its
  block what a peer then sends again: it is in no pool and on no chain when it is searched for, and on the
  chain when it is added.
- `OneAtATime`: of the workers, the poller and the P2P thread, no two have at one time won a lottery or made a block
  that is not yet pushed, and no downloaded chain is being appended, since what is appended is not checked. Any
  number of them forge, peers' transactions and blocks arrive at any time and are checked and added as the code does,
  without a lock from the first check to the push. No lock of the code provides it: the poller always runs
  (`SocketCommunication.cpp:61`) and crow is multithreaded. Without it TLC finds a chain that is not linked,
  two threads having won one lottery. What the theorem shows is what is missing: a mutex from the lottery of `forge` to
  the push of its block, and a check of downloads. `handleBlock` needs none.
- `Agree`: the peers run the lottery that we run, on their own chain.
- `Account = Address`, `KeysOfSenders`: the node knows every wallet, and a STAKE from a peer carries the key
  of its sender. `updateBalance` drops what goes to an unknown wallet (`AccountModel.cpp:75-79`).
- `Undisturbed`: while a thread is between the refund of a stake and its removal (`Node.cpp:407-408`), which
  no lock covers, no other evicts or executes a block. Two threads that evict refund one stake twice; a STAKE
  executed in between is removed without a refund.
- `Patient`: the outside submits only when all started nodes know each other and no download is under way,
  and starts a node only when the network is at rest and more than that node has been started. `busy_join`
  and `missed_master` show what a node that joins otherwise may end with, and a restart of
  the only node that runs loses the chain.
- `GenesisIsMaster`: no other node has the genesis wallet. Two nodes with one wallet win the same lottery and
  each forge a block of the same number, which the other refuses (`Blockchain.cpp:110`): their chains differ
  from then on.
- `GenesisWins`: the genesis wallet wins every lottery, as it does when nobody stakes, since it then has all the
  tickets (`ProofOfStake.cpp:32`). With the one before, this says that the master alone forges. It is
  a limit of the proof: in `network` another node stakes and forges too (with two nodes up, as `Patient` then
  asks), and TLC finds both properties to hold. The proof relies on blocks coming to a node in order because
  they come from one sender.

### The arguments

*Types and locks.* `TypeOK` is not inductive alone. A created block takes its number from the last
transaction of the batch, so the batch must not be empty; the assigned copy becomes the chain, so it must
not be empty either, which holds because it still begins with the chain, and that holds because
nobody else writes the chain meanwhile. `LockInv` says this: the threads in a lock scope of several steps
are exactly the holder of `mutex`, and a copy being replayed extends the chain. `AppendOnly` follows from
the two actions that write `blocks`.

*Own blocks.* `OwnInv` adds that a block of our own in hand (`execute`, `push`) continues the chain as it
is, and that everything that comes from outside is forged by peers: the block under check, the answers
under way, and whatever lies beyond our length in a peer's chain or a copy. It is inductive because at
`execute` and `push` the thread holds the mutex.

*Refinement.* `committed` is the chain with the block that has been executed and waits for its push, or the
copy that has been replayed and waits for its assignment. `Execute` and `Replay` are the abstract steps
`Extend` and `Download`; `Push` and `Assign` stutter; `Refund`, `Erase` and `Decide` are the abstract
evictions and registrations, by whatever thread and while whoever holds the mutex. `AtomicLedger` takes
what a block does to the ledger as a parameter, so the proof does not depend on it.

*Pool.* No two threads handle one transaction: a worker's own has a fresh number, a peer's has none of
ours, and only the P2P thread takes those up. So what a thread has not found in the pool nobody else puts there
(`PoolInv`).

*Loss.* Two things keep a transaction that was broadcast from disappearing. What a thread is about to take
out of the pool is on the chain (`Recorded`): it comes from `Push`, which has put the whole block there, and
the chain never loses an id (from `LockInv`). And every step keeps the union of the ids in the pool, on
the chain and in `dropped`, which only an emptied pool enlarges.

*Readmission.* A worker's own transaction has a number nobody else holds until it is in the pool (`Fresh`). A
peer's comes in through the P2P thread alone, and what the other threads hold of the peers' transactions
they have from the pool: it is still there, on the chain, or dropped (`ForgesSeen`, `Seen`). So what the two
searches have not found, no other thread can bring onto the chain behind the handler's back (`Unseen`).

*Induction over data.* The library's theorems about induction take an operator, which no installed prover
can instantiate. A set they can: `NatInduction` derives from the well-foundedness of the natural numbers
(`WFMin`) that every non-empty set of them has a least member, and from this induction on a set, and that
a function defined by recursion on `0..n` has the values its definition says. `LedgerProofs` uses it for
everything that walks a sequence: the execution of a batch or a chain, `fees`, the sum of all balances.

*Ledger and chain.* `Same` compares two ledgers by their stakers and the balances of the known wallets; an
open account that no transaction uses is no difference. Executing one transaction keeps `Same`, thus so does
a batch, thus a chain; and the two rules of execution give the same where no STAKE is for somebody else.
The invariant (`Accounted`) is that the ledger is the same as the replay of `committed`, which the proof of
refinement has shown to be the chain that counts. That no STAKE is for somebody else is an invariant of its
own over all that holds transactions (`Holds(S)`): pool, walk, batch, blocks, answers, the peer's chain.
`Network` needs the same two, without `committed`, since a handler there is one step.

*Links.* `LinkInv` says who can be where: only the P2P thread is in `handleBlock` (`Roles`). `Linked` is
the property, and that no two blocks have one hash. `Ours(t)` says of every thread that from the
moment `t` has won the lottery on the last block until it executes its own, the winner on the ledger as it is
is this node, and that the number of its block is on no chain. `Theirs` says that a peer's block was forged by the
winner of the lottery on the block it names (`MadeFor`), and that once `CheckForger` has passed, it continues the chain
and this node is not the winner. The two speak of one last block and one ledger, so they exclude each other:
no thread can come between the checks of a block and its addition, nor can that addition come between the
lottery of a thread and its push. `OneAtATime` does the same among our own threads (`NobodyElse`): without it two
of them win one lottery, each rightly. `LinkOurs` and `LinkTheirs` have the steps of our threads and those
with a peer's block in hand. That the ledger the peer ran its lottery on is ours is
`Accounted`. TLC checked `LinkInv` first, with two workers, the poller and a remote transaction (5.2 million states).

*Tokens.* `total` is a sum over the wallets in a fixed order. `TotalMoved` says what a sum does when one of
its terms changes, and from it each ledger operation is shown to keep the total; `Conserved` adds what holds
between `Refund` and `Erase`, when the stake of the forger counts twice. `KeyedTx` (every STAKE has the key
of its sender) goes through the node as `Holds` does.

*Discovery.* `TypeOK` says that no node is its own peer and nothing waits for a dead one. It needs that a
greeting is never from its receiver (`GreetingTo`) and that the discovery thread is at the peer
it fails to reach or has erased (`AtPeer`). What `Without` leaves of a list of any length is shown by iteration (`Erasing`). `DoubledByErasing`
rests on `Undoubled`: while no erasing has fallen into a walk, a node's peers are different from each other, and a
name that is about to be added is not among them. It is kept because the P2P thread alone adds: what its walk
has not found and is erased meanwhile is not there either.

*Transport.* The types need that no message is from its receiver (`From(Others(n))`), without which a node
would answer itself, and that a set of receivers is finite. `Waits` says of the long answers of a node that
there is at most one (`OneAnswer`), in one place of one queue (`OnePlace`), and that whoever has it is who the node waits
for; so to take it from that queue is to take the last one, and a node with an answer under way makes no other.

*One chain.* The invariant (`OneChain`) names a chain `C` and knows two situations. In `Trading` all
started nodes know each other: the master has `C`, every node has a beginning of it, and the blocks under way
from the master to a node are, in their order, what it lacks (`Brings`: each goes at the end of the ones before, and
the last is the last of `C`); there are no downloads, and nobody but the master sends blocks. In
`Joining` a node has been started and the others have all of `C`; nobody forges, and every request is for what
follows the genesis block or for nothing, so an answer brings the whole of `C` or nothing; and as
long as the newcomer has but the genesis block and knows a peer, a request of its own or an answer
is under way (`Awaits`). `Patient` makes the two alternate: a node starts in `Rest`, where `Trading`
leaves everybody with `C` (`StartJoins`, `TradedAgrees`), and nobody submits before `Settled`, where
`Joining` is over (`JoinedTrades`). `Moves` says what each step does to the nodes' chains, and the mapping takes it from
there: the node that is ahead has `C`, forging is `Extend`, adopting a block or an answer is `CatchUp`,
a start is `Restart`, and all others stutter. TLC checked `OneChain` on an instance of three nodes first.

### What is only model-checked

- Liveness, which needs fairness and `ENABLED`: `EventuallyOnChain`, `CallsReturn`, `ComesToRest`,
  `Acquaintance`, `DeadDropped`, `LockReleased`.
- `RestAgrees` and `ReplicatedSpec` of `Network` where a staker other than the master forges.
- `NoMutualSend`, which depends on who is how far behind whom. `AnswersAwaited`, which says whom a node waits
  for, is proved without any condition; that the waits form no cycle is checked where the outside is patient.

## 5. Not modelled

- *Hashing.* A block's digest, FNV-1a and the generator of the lottery work on words of 32 and 64 bits, and
  TLC's integers are signed words of 32; the model has a unique number for the digest and any member of
  `Draw` for the lottery's. That `utils.cpp:19` writes digest bytes without a leading zero is therefore left
  out. The order of an `unordered_map` (`ProofOfStake.cpp:80`) is one fixed `KeyOrder`.
- *Key tables.* Which nodes know a wallet is fixed; the wallet a node on an unknown port makes for itself
  (`Node.cpp:19`) is known to nobody else.
- *Descriptors* that stay open after a failed connect (`P2PServer.cpp:99-103`) or an answered request.
- *Messages.* Formatting and parsing of JSON; malformed messages; the buffer of the length that is not
  terminated (`P2PServer.cpp:119`).
- *Undefined behaviour* of a vector whose memory two threads change at once, beyond the outcomes of an
  interleaving; the shared state of `strtok` and of the UUID generator in `utils.cpp`.
- *Utilities, dashboard, scripts, tests and vendored libraries.* The code in `src/include/nlohmann` and
  `src/include/crow` is third-party and nine tenths of the lines of the repository. The node itself has some
  3 400 lines, declarations, JSON and printing included.

## 6. Plan

Done: all modules, runs and theorems above. To come:

1. `Network`: the same two theorems with more than one node that forges. The invariant then has to say
   which of two blocks of different senders comes first.
2. Wallets that only some nodes know; descriptors.
