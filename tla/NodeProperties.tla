--------------------------- MODULE NodeProperties ---------------------------
(***************************************************************************)
(* What should be true of a node whatever its threads do (NodeThreads).    *)
(***************************************************************************)
EXTENDS NodeThreads

Point == {"idle", "poolCheck", "chainCheck", "cover", "add", "required",
          "next", "clog", "erase", "clear", "renext", "decide", "reward",
          "charge", "create", "execute", "push", "remove",
          "count", "request", "link", "forger", "adopt", "replay", "assign"}

\* Where a thread holds blockchainMutex between two steps.
Critical == {"charge", "execute", "push", "replay", "assign"}

IsPool(p) == DOMAIN p \subseteq 0..(stamp - 1) /\ p \in [DOMAIN p -> Tx]

\* Every variable holds a value of its kind: what the vectors, maps and
\* strings of the node may contain.  The ledger's numbers are not in it:
\* LedgerMatchesChain and the refinement say what they are.
TypeOK ==
    /\ blocks \in Seq(Block) /\ blocks # <<>>
    /\ mutex \in Thread \cup {Nobody}
    /\ pc \in [Thread -> Point]
    /\ tx \in [Thread -> Tx]
    /\ forger \in [Thread -> Key]
    /\ block \in [Thread -> Block]
    /\ batch \in [Thread -> Seq(Tx)]
    /\ reward \in [Thread -> Int]
    /\ IsPool(pool)
    /\ DOMAIN todo = Thread /\ \A t \in Thread : IsPool(todo[t])
    /\ theirs \in Seq(Block) /\ copy \in Seq(Block)
    /\ \A a \in answers : a.blocks \in Seq(Block) /\ a.left \in Nat
    /\ sent \subseteq Tx
    /\ stamp \in Nat /\ uuid \in Nat /\ dropped \subseteq Int
    /\ budget \in [api : Nat, tx : Nat, block : Nat]

-----------------------------------------------------------------------------
(***************************************************************************)
(* The chain.                                                              *)
(***************************************************************************)
\* Blocks are only ever added at the end: no thread, whatever copy of the
\* chain it works on, overwrites a block another thread has pushed
\* (handleBlockchain assigns a whole vector to Blockchain::blocks).
AppendOnly == [][IsPrefix(blocks, blocks')]_blocks

\* A block this node forged continues the block it was put after: createBlock
\* reads the last hash in the lock scope that pushes the block.
OwnBlocksLinked ==
    \A i \in DOMAIN blocks : i > 1 /\ blocks[i].forger = Me =>
        blocks[i].count = i - 1 /\ blocks[i].lastHash = blocks[i - 1].hash

\* Every block continues the one before it.  handleBlock's two checks and the
\* push are three lock scopes; what keeps the node from forging in between is
\* that both sides of the race run the same lottery on the same last block.
LinkedChain ==
    \A i \in DOMAIN blocks : i > 1 =>
        blocks[i].count = i - 1 /\ blocks[i].lastHash = blocks[i - 1].hash

(***************************************************************************)
(* The ledger.                                                             *)
(***************************************************************************)
\* Whoever takes blockchainMutex finds the ledger that results from executing
\* the chain, every transaction once and in order (until a forger is evicted).
LedgerMatchesChain ==
    Free => /\ ledger.stakers = replayed(blocks).stakers
            /\ \A a \in Account : getBalance(ledger, a) = getBalance(replayed(blocks), a)

\* The detailed node implements AtomicLedger: the executed block that waits
\* for its push, and the replayed copy that waits for its assignment, count
\* as on the chain already.
committed ==
    CASE mutex = Nobody -> blocks
      [] mutex # Nobody /\ pc[mutex] = "push" -> Append(blocks, block[mutex])
      [] mutex # Nobody /\ pc[mutex] = "assign" -> copy
      [] OTHER -> blocks

Atomic == INSTANCE AtomicLedger WITH chain <- committed

AtomicSpec == Atomic!Spec

\* Tokens are neither made nor lost: the balances of the wallets and the stakes
\* add up to the genesis stake, through rewards, stakes and the eviction of forgers,
\* except between the refund of a stake and its removal.
Conservation ==
    (\A t \in Thread : pc[t] # "erase") => total(ledger) = Token

(***************************************************************************)
(* The pool.                                                               *)
(***************************************************************************)
\* The pool never holds two transactions with one id, although the check
\* and the insertion are two lock scopes: a transaction reaches a node by
\* one thread only.
PoolNoDup ==
    \A s, u \in DOMAIN pool : pool[s].id = pool[u].id => s = u

\* A transaction that passed handleTransaction's checks is neither in the
\* pool nor on the chain when it is about to be added, though a block with
\* it may have been forged and removed from the pool between the checks.
NoReadmission ==
    \A t \in Thread : pc[t] \in {"cover", "add"} =>
        tx[t].id \notin PoolIds \cup ChainIds(blocks)

\* A transaction the node has broadcast waits in its pool or is on its chain,
\* whoever forged it there, unless it was thrown away with the whole pool:
\* no thread takes out of the pool what another has put in since the block
\* was made.
NothingLost ==
    \A m \in sent : m.id \in PoolIds \cup ChainIds(blocks) \cup dropped

-----------------------------------------------------------------------------
(***************************************************************************)
(* What the code's own documentation says of it, and the node does not do. *)
(***************************************************************************)
\* handleTransaction refuses a transaction that is in the pool or on the
\* chain, so that none is executed twice.  Two threads that forge at the
\* same time, and a download that leaves the pool alone, break it.
OnChainOnce ==
    LET txs == allTxs(blocks)
    IN  \A i, j \in DOMAIN txs : txs[i].id = txs[j].id => i = j

\* "Make sure the sender has enough funds": no account but the exchange, which
\* is exempt, ever owes anything.  transactionCovered looks at one transaction
\* and forgets those that wait in the pool.
NoOverdraft ==
    \A a \in DOMAIN ledger.balances \ {Exchange} : ledger.balances[a] >= 0

-----------------------------------------------------------------------------
(***************************************************************************)
(* Liveness, under FairSpec.                                               *)
(***************************************************************************)
\* A transaction in the pool gets on the chain, at the latest when the poller
\* wakes up, as long as the lottery has nobody else to choose.
EventuallyOnChain ==
    \A m \in RemoteTx : m.id \in PoolIds ~> m.id \in ChainIds(blocks)

\* Every call comes to an end: no thread waits forever for blockchainMutex,
\* one it holds itself included.
CallsReturn == \A t \in Thread : pc[t] # "idle" ~> pc[t] = "idle"
=============================================================================
