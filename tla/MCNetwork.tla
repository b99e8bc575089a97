------------------------------ MODULE MCNetwork ------------------------------
(***************************************************************************)
(* Values for model checking Network: a master that forges with genesis, a *)
(* second node with a wallet that may stake, and a third with a wallet     *)
(* that never does.                                                        *)
(***************************************************************************)
EXTENDS NetworkProperties

CONSTANTS exchange, genesis, other, third, n1, n2, n3

Wallets == {exchange, genesis, other, third}
Accounts == Wallets \ {third}
MapOrder == <<genesis, other>>
WalletOf == [n \in Node |-> CASE n = n1 -> genesis [] n = n2 -> other [] OTHER -> third]

ask(type, from, to, tokens) ==
    [type |-> type, sender |-> from, receiver |-> to, amount |-> tokens * Token]

Buy == ask("EXCHANGE", exchange, other, 2)
Stake == ask("STAKE", other, other, 1)
Send == ask("TRANSFER", genesis, other, 0)

at(one, two, three) ==
    [n \in Node |-> CASE n = n1 -> one [] n = n2 -> two [] OTHER -> three]

Buying == at({Buy}, {Buy}, {})
Trading == at({Buy}, {Stake, Send}, {Send})

bound(submit, start) == [submit |-> submit, start |-> start]

TwoCallsTwoStarts == bound(2, 2)
ThreeCallsThreeStarts == bound(3, 3)
=============================================================================
