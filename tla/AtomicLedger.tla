---------------------------- MODULE AtomicLedger ----------------------------
(***************************************************************************)
(* What blockchainMutex is there for: to everyone who takes it, the chain  *)
(* and the ledger change together.  A block is executed exactly once, in   *)
(* the step that puts it at the end of the chain, and a downloaded suffix  *)
(* is replayed in the step that appends it; nothing is ever taken off the  *)
(* chain.  A block the node forges continues the chain it is put on.       *)
(* Outside a block only the eviction of a forger and the registration of   *)
(* an account touch the ledger.                                            *)
(*                                                                         *)
(* What a block does to the ledger is no concern of this specification:    *)
(* the operators are its parameters.                                       *)
(***************************************************************************)
EXTENDS Integers, Sequences

CONSTANTS
    Me, Genesis, Key, Bare(_),
    GenesisBlocks, GenesisLedger,
    executeTransactions(_, _), importBlocks(_, _),
    refundStake(_, _), eraseStaker(_, _), addAccount(_, _)

VARIABLES chain, ledger

Init ==
    /\ \E first \in GenesisBlocks : chain = <<first>>
    /\ ledger = GenesisLedger

Continues(b) == b.count = Len(chain) /\ b.lastHash = chain[Len(chain)].hash

\* Nothing is promised of where a block of a peer is put.
Extend ==
    LET b == chain'[Len(chain')] IN
    /\ chain' = Append(chain, b)
    /\ b.forger = Me => Continues(b)
    /\ ledger' = executeTransactions(ledger, b.txs)

Download ==
    LET added == SubSeq(chain', Len(chain) + 1, Len(chain')) IN
    /\ chain' = chain \o added
    /\ ledger' = importBlocks(ledger, added)

Refund(k) == ledger' = refundStake(ledger, k) /\ UNCHANGED chain

Evict(k) == ledger' = eraseStaker(ledger, k) /\ UNCHANGED chain

Register(k) == ledger' = addAccount(ledger, Bare(k)) /\ UNCHANGED chain

Next ==
    \/ Extend
    \/ Download
    \/ \E k \in Key \ {Genesis} : Refund(k) \/ Evict(k)
    \/ \E k \in Key \ {Me} : Register(k)

Spec == Init /\ [][Next]_<<chain, ledger>>
=============================================================================
