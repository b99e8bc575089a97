-------------------------- MODULE NetworkProperties --------------------------
(***************************************************************************)
(* What should be true of the nodes together (Network).                    *)
(***************************************************************************)
EXTENDS Network

Message ==
    [kind : {"TRANSACTION"}, tx : Tx] \cup [kind : {"BLOCK"}, block : Block]
    \cup [kind : {"BLOCKCHAIN"}, blocks : Seq(Block)]
    \cup [kind : {"BLOCKCHAINREQUEST"}, from : Node, size : Nat]

\* Every variable holds a value of its kind, and nothing but started nodes
\* knows, is known or is written to.
TypeOK ==
    /\ up \subseteq Node /\ Master \in up
    /\ \A n \in Node : /\ node[n].blocks \in Seq(Block) /\ node[n].blocks # <<>>
                       /\ node[n].pool \in Seq(Tx)
                       /\ peers[n] \subseteq up \ {n}
    /\ \A m, n \in Node : /\ wire[m][n] \in Seq(Message)
                          /\ wire[m][n] # <<>> => {m, n} \subseteq up /\ m # n
    /\ uuid \in Nat
    /\ budget \in [submit : Nat, start : Nat]

balancesOf(n) == [a \in Account |-> getBalance(node[n].ledger, a)]

\* Nodes with the same chain have the same balances and stakers, whichever of
\* them forged, adopted or downloaded its blocks: two ways to execute a block
\* (Blockchain.cpp and Node::handleBlockchain) that must not differ.
LedgersAgree ==
    \A m, n \in Node : node[m].blocks = node[n].blocks =>
        /\ balancesOf(m) = balancesOf(n)
        /\ node[m].ledger.stakers = node[n].ledger.stakers

\* When nothing is under way and no pool holds anything, all nodes have the
\* same chain: what a node missed, the requests have brought.
RestAgrees == Rest => \A m, n \in up : node[m].blocks = node[n].blocks

\* The network implements one replicated chain.
ahead == CHOOSE m \in Node : \A n \in Node : Len(node[n].blocks) <= Len(node[m].blocks)

Replicated == INSTANCE ReplicatedChain
    WITH chain <- node[ahead].blocks, copy <- [n \in Node |-> node[n].blocks]

ReplicatedSpec == Replicated!Spec

\* The network comes to rest again and again: nodes that start are found by
\* all, downloads end, and every pooled transaction gets on a chain.
ComesToRest == []<>Rest

\* A node asks for the blocks it is missing: none is put on a chain twice.
NoBlockTwice ==
    \A n \in Node : \A i, j \in DOMAIN node[n].blocks :
        node[n].blocks[i].hash = node[n].blocks[j].hash => i = j
=============================================================================
