------------------------------- MODULE Ledger -------------------------------
(***************************************************************************)
(* The data of one Prawnstar node and the pure operations on it: the       *)
(* transactions and blocks, the account model (AccountModel.cpp), the      *)
(* stakers and the forger lottery (ProofOfStake.cpp), and what executing a *)
(* transaction does to them (Blockchain.cpp).  No state machine here: the  *)
(* modules that have threads or nodes apply these operators.               *)
(*                                                                         *)
(* Abstractions                                                            *)
(*   - An address stands for its wallet: the public key an address is      *)
(*     derived from is written as the address itself (the derivation is    *)
(*     injective), and NoKey is the empty string that the lookup of an     *)
(*     unknown address yields.                                             *)
(*   - The string "pv1" put before a generated address is kept only where  *)
(*     the code leaves it out: Bare(k) is the address without it.          *)
(*   - An amount is a whole number of units, Token units to one token.     *)
(*     With Token = FeeDivisor^2 two successive fees are exact.            *)
(*   - A hash is a number nobody else has (SHA-256 does not collide) and   *)
(*     the number FNV-1a and the generator make of it for the lottery,     *)
(*     which may be any member of Draw.                                    *)
(*   - Signatures and timestamps are left out: nodes sign what they send.  *)
(***************************************************************************)
EXTENDS Integers, FiniteSets, SequencesExt

CONSTANTS
    Address,     \* the wallets that exist anywhere in the network
    Account,     \* the wallets this node has opened: its account model
    Exchange,    \* the wallet of exchange.pem, which pays every reward
    Genesis,     \* the wallet of genesisNode.pem, the first staker
    NoKey,       \* the key of an address the node does not know
    KeyOrder,    \* every key once, in the order unordered_map walks them
    Draw,        \* the lottery numbers that hashes stand for
    FeeDivisor,  \* a fee is amount / FeeDivisor: 200 for the factor 0.005
    Token,       \* units in one token
    LotLimit     \* the most lottery tickets one staker gets (500)

ASSUME LedgerAssumption ==
    /\ IsFiniteSet(Address) /\ Account \subseteq Address
    /\ {Exchange, Genesis} \subseteq Account
    /\ NoKey \notin Address
    /\ Draw # {} /\ Draw \subseteq Nat
    /\ FeeDivisor \in Nat \ {0}
    /\ Token \in Nat \ {0}
    /\ LotLimit \in Nat \ {0}

Key == Address \cup {NoKey}

Bare(k) == <<"bare", k>>

TxType == {"EXCHANGE", "TRANSFER", "STAKE", "REWARD"}

\* Transactions are compared by id alone (Transaction.cpp, operator ==).
Tx == [id : Int, type : TxType, sender : Address, receiver : Address,
       amount : Int, key : Key]

Hash == [id : Int, draw : Draw]

Block == [count : Nat, hash : Hash, lastHash : Hash, forger : Address,
          txs : Seq(Tx)]

Ids(txs) == {txs[i].id : i \in DOMAIN txs}

ChainIds(blocks) == UNION {Ids(blocks[i].txs) : i \in DOMAIN blocks}

allTxs(blocks) == FlattenSeq([i \in DOMAIN blocks |-> blocks[i].txs])

\* The block every node starts from; the two numbers its constant strings
\* hash to are the same everywhere.
GenesisBlock(last, own) ==
    [count |-> 0, forger |-> Genesis, txs |-> <<>>,
     lastHash |-> [id |-> 0, draw |-> last], hash |-> [id |-> 1, draw |-> own]]

GenesisBlocks == {GenesisBlock(last, own) : last \in Draw, own \in Draw}

-----------------------------------------------------------------------------
(***************************************************************************)
(* A ledger: the balances of the accounts and the stakes of the stakers.   *)
(***************************************************************************)
GenesisLedger ==
    [balances |-> [a \in Account |-> 0], stakers |-> [k \in {Genesis} |-> Token]]

publicKey(a) == IF a \in Account THEN a ELSE NoKey

getBalance(ledger, a) ==
    IF a \in DOMAIN ledger.balances THEN ledger.balances[a] ELSE 0

\* A map with one more entry, or with another value for one it has.
entered(map, k, value) ==
    [x \in DOMAIN map \cup {k} |-> IF x = k THEN value ELSE map[x]]

\* An account that is open already keeps its balance.
addAccount(ledger, a) ==
    [ledger EXCEPT !.balances = entered(@, a, getBalance(ledger, a))]

updateBalance(ledger, a, amount) ==
    IF a \in DOMAIN ledger.balances
    THEN [ledger EXCEPT !.balances[a] = @ + amount]
    ELSE ledger

getStake(ledger, k) ==
    IF k \in DOMAIN ledger.stakers THEN ledger.stakers[k] ELSE 0

updateStake(ledger, k, stake) ==
    [ledger EXCEPT !.stakers = entered(@, k, getStake(ledger, k) + stake)]

refundStake(ledger, k) ==
    updateStake(updateBalance(ledger, k, getStake(ledger, k)), k, 0)

eraseStaker(ledger, k) ==
    [ledger EXCEPT !.stakers = Restrict(@, DOMAIN @ \ {k})]

debit(ledger, tx) == updateBalance(ledger, tx.sender, -tx.amount)

move(ledger, tx) == updateBalance(debit(ledger, tx), tx.receiver, tx.amount)

stake(ledger, tx) == debit(updateStake(ledger, tx.key, tx.amount), tx)

\* Blockchain::executeTransaction: a STAKE counts only when it is addressed
\* to its own sender.
executeTransaction(ledger, tx) ==
    IF tx.type # "STAKE" THEN move(ledger, tx)
    ELSE IF tx.sender = tx.receiver THEN stake(ledger, tx) ELSE ledger

executeTransactions(ledger, txs) ==
    LET after[i \in 0..Len(txs)] ==
            IF i = 0 THEN ledger ELSE executeTransaction(after[i - 1], txs[i])
    IN  after[Len(txs)]

\* Mutant of importTransaction: the download knows no STAKE.
importMove(ledger, tx) == move(ledger, tx)

\* The chain download replays blocks by a rule of its own: whoever a STAKE
\* is addressed to, it counts.
importTransaction(ledger, tx) ==
    IF tx.type # "STAKE" THEN move(ledger, tx) ELSE stake(ledger, tx)

importTransactions(ledger, txs) ==
    LET after[i \in 0..Len(txs)] ==
            IF i = 0 THEN ledger ELSE importTransaction(after[i - 1], txs[i])
    IN  after[Len(txs)]

importBlocks(ledger, bs) ==
    LET after[i \in 0..Len(bs)] ==
            IF i = 0 THEN ledger ELSE importTransactions(after[i - 1], bs[i].txs)
    IN  after[Len(bs)]

\* The ledger of a node that has executed a chain, block by block, from the start.
replayed(bs) ==
    LET after[i \in 0..Len(bs)] ==
            IF i = 0 THEN GenesisLedger ELSE executeTransactions(after[i - 1], bs[i].txs)
    IN  after[Len(bs)]

\* All wallets, each once; what one of them owns, staked or not; and what they
\* own together.
wallets == SetToSeq(Address)

worth(ledger, a) == getBalance(ledger, a) + getStake(ledger, a)

total(ledger) ==
    LET upTo[i \in 0..Len(wallets)] ==
            IF i = 0 THEN 0 ELSE upTo[i - 1] + worth(ledger, wallets[i])
    IN  upTo[Len(wallets)]

-----------------------------------------------------------------------------
(***************************************************************************)
(* Fees and rewards.                                                       *)
(***************************************************************************)
fee(tx) == IF tx.type = "STAKE" THEN 0 ELSE tx.amount \div FeeDivisor

charge(tx) == [tx EXCEPT !.amount = @ - fee(tx)]

fees(txs) ==
    LET upTo[i \in 0..Len(txs)] == IF i = 0 THEN 0 ELSE upTo[i - 1] + fee(txs[i])
    IN  upTo[Len(txs)]

\* Mutant of rewardTx: the receiver's address lacks its "pv1".
rewardTxBare(id, node, reward) ==
    [id |-> id, type |-> "REWARD", sender |-> Exchange, receiver |-> Bare(node),
     amount |-> reward, key |-> publicKey(Exchange)]

rewardTx(id, node, reward) ==
    [id |-> id, type |-> "REWARD", sender |-> Exchange, receiver |-> node,
     amount |-> reward, key |-> publicKey(Exchange)]

\* A transaction read from a block another node sent has the key that the
\* local account model knows for its sender.
keyed(tx) == [tx EXCEPT !.key = publicKey(tx.sender)]

keyedBlock(b) == [b EXCEPT !.txs = [i \in DOMAIN b.txs |-> keyed(b.txs[i])]]

transactionCovered(ledger, tx) ==
    \/ tx.type \in {"EXCHANGE", "REWARD"}
    \/ getBalance(ledger, tx.sender) >= tx.amount

-----------------------------------------------------------------------------
(***************************************************************************)
(* The forger lottery: a ticket for every whole token staked, at most      *)
(* LotLimit of them, in the order of the map.  The seed is a hash.         *)
(***************************************************************************)
tickets(ledger, k) ==
    [n \in 1..Min({getStake(ledger, k) \div Token, LotLimit}) |-> k]

validatorLots(ledger) ==
    FlattenSeq([i \in DOMAIN KeyOrder |-> tickets(ledger, KeyOrder[i])])

winnerLot(lots, seed) == lots[1 + (seed.draw % Len(lots))]

forgerOf(ledger, seed) == winnerLot(validatorLots(ledger), seed)
=============================================================================
