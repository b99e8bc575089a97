------------------------------- MODULE MCNode -------------------------------
(***************************************************************************)
(* Values for model checking NodeThreads: the wallets of a test network,   *)
(* what its users ask for and its peers broadcast, and how much of it.     *)
(***************************************************************************)
EXTENDS NodeProperties

CONSTANTS exchange, genesis, alice, other

Wallets == {exchange, genesis, alice, other}
MapOrder == <<alice, genesis, other>>

ask(type, from, to, tokens) ==
    [type |-> type, sender |-> from, receiver |-> to, amount |-> tokens * Token]

Buy == {ask("EXCHANGE", exchange, alice, 2)}
BuyAndSpend == {ask("EXCHANGE", exchange, alice, 3), ask("TRANSFER", alice, other, 2)}
BuyStakeSpend == {ask("EXCHANGE", exchange, alice, 4), ask("STAKE", alice, alice, 1),
                  ask("TRANSFER", alice, other, 1)}
PeerStakes == {ask("EXCHANGE", exchange, other, 2), ask("STAKE", other, other, 1)}

remote(n, type, from, to, tokens) ==
    [id |-> -n, type |-> type, sender |-> from, receiver |-> to,
     amount |-> tokens * Token, key |-> from]

Quiet == {}
OneRemote == {remote(1, "TRANSFER", alice, other, 0)}
TwoRemote == OneRemote \cup {remote(2, "EXCHANGE", exchange, alice, 1)}

bound(api, t, b) == [api |-> api, tx |-> t, block |-> b]

TwoCalls == bound(2, 0, 0)
ThreeCalls == bound(3, 0, 0)
FiveCalls == bound(5, 0, 0)
OneCallOneTx == bound(1, 1, 0)
TwoCallsTwoTxs == bound(2, 2, 0)
FourCallsTwoBlocks == bound(4, 0, 2)
ThreeCallsOneBlock == bound(3, 0, 1)
=============================================================================
