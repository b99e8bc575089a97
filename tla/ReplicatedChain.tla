--------------------------- MODULE ReplicatedChain ---------------------------
(***************************************************************************)
(* What a network of nodes promises its users: one chain, which only ever  *)
(* grows at its end, and of which every node holds a beginning.  A node    *)
(* adds a block only to the whole chain.  A node that starts holds the     *)
(* genesis block alone, whatever it held before; the chain survives it.    *)
(***************************************************************************)
EXTENDS Naturals, Sequences, SequencesExt

CONSTANTS Node, GenesisBlocks

VARIABLES chain, copy

Init ==
    \E first \in GenesisBlocks :
        chain = <<first>> /\ copy = [n \in Node |-> <<first>>]

Continues(b) == b.count = Len(chain) /\ b.lastHash = Last(chain).hash

Extend(n) ==
    /\ copy[n] = chain
    /\ Len(chain') = Len(chain) + 1 /\ chain' = Append(chain, Last(chain'))
    /\ Continues(Last(chain'))
    /\ copy' = [copy EXCEPT ![n] = chain']

CatchUp(n) ==
    /\ IsStrictPrefix(copy[n], copy'[n]) /\ IsPrefix(copy'[n], chain)
    /\ copy' = [copy EXCEPT ![n] = copy'[n]]
    /\ UNCHANGED chain

Restart(n) ==
    /\ copy' = [copy EXCEPT ![n] = <<Head(chain)>>]
    /\ UNCHANGED chain

Next == \E n \in Node : Extend(n) \/ CatchUp(n) \/ Restart(n)

Spec == Init /\ [][Next]_<<chain, copy>>
=============================================================================
