---------------------------- MODULE LedgerProofs ----------------------------
(***************************************************************************)
(* What executing transactions does to a ledger, for chains of any length: *)
(* the lemmas about Ledger that the proofs about threads and nodes cite.   *)
(***************************************************************************)
EXTENDS Ledger, NatInduction, FiniteSetTheorems, TLAPS

-----------------------------------------------------------------------------
(***************************************************************************)
(* What transactions, blocks and chains are made of.                       *)
(***************************************************************************)
\* A fee is an amount, and a charged transaction is a transaction.
LEMMA ChargeType ==
    ASSUME NEW x \in Tx
    PROVE  fee(x) \in Int /\ charge(x) \in Tx
<1>1. fee(x) \in Int
  <2>1. FeeDivisor \in Int /\ FeeDivisor > 0
    BY LedgerAssumption
  <2>2. x.amount \in Int
    BY DEF Tx
  <2>3. x.amount \div FeeDivisor \in Int
    BY <2>1, <2>2
  <2> QED BY <2>3 DEF fee
<1>2. charge(x) \in Tx
  BY <1>1 DEF charge, Tx
<1> QED BY <1>1, <1>2

LEMMA RewardType ==
    ASSUME NEW id \in Int, NEW a \in Address, NEW r \in Int
    PROVE  rewardTx(id, a, r) \in Tx
BY LedgerAssumption DEF rewardTx, Tx, TxType, publicKey, Key

LEMMA KeyedType ==
    ASSUME NEW x \in Tx
    PROVE  keyed(x) \in Tx
BY LedgerAssumption DEF keyed, Tx, publicKey, Key

\* The last block of a chain is a block.
LEMMA LastType ==
    ASSUME NEW S, NEW s \in Seq(S), s # <<>>
    PROVE  Last(s) \in S /\ s[Len(s)] \in S
BY DEF Last

LEMMA AppendType ==
    ASSUME NEW S, NEW s \in Seq(S), NEW x \in S
    PROVE  /\ Append(s, x) \in Seq(S) /\ Append(s, x) # <<>>
           /\ Len(Append(s, x)) = Len(s) + 1
           /\ Last(Append(s, x)) = x
           /\ \A i \in 1..Len(s) : Append(s, x)[i] = s[i]
BY DEF Last

\* A part of a chain is a sequence of blocks.
LEMMA SubSeqType ==
    ASSUME NEW S, NEW s \in Seq(S), NEW m \in Nat \ {0}
    PROVE  SubSeq(s, m, Len(s)) \in Seq(S)
<1>1. \A i \in m..Len(s) : s[i] \in S
  OBVIOUS
<1> QED BY <1>1

-----------------------------------------------------------------------------
(***************************************************************************)
(* The recursive functions of the model: each goes through a sequence and  *)
(* applies one operator to what it has so far and the next element.        *)
(***************************************************************************)
\* The transactions l and one more, unless its number is in p.
spared(p, l, x) == IF x.id \in p THEN l ELSE Append(l, x)

\* One step of each of them.
Op(kind, p, l, x) ==
    CASE kind = "execute" -> executeTransaction(l, x)
      [] kind = "import" -> importTransaction(l, x)
      [] kind = "importBlock" -> importTransactions(l, x.txs)
      [] kind = "replay" -> executeTransactions(l, x.txs)
      [] kind = "fee" -> l + fee(x)
      [] kind = "keep" -> spared(p, l, x)
      [] kind = "worth" -> l + worth(p, x)

\* f goes through n elements of s.
Folds(kind, p, base, s, n, f) ==
    f = [i \in 0..n |-> IF i = 0 THEN base ELSE Op(kind, p, f[i - 1], s[i])]

LEMMA FoldExists ==
    ASSUME NEW kind, NEW p, NEW base, NEW s, NEW n \in Nat
    PROVE  \E f : Folds(kind, p, base, s, n, f)
<1> DEFINE S == {m \in Nat : \E f : Folds(kind, p, base, s, m, f)}
<1>1. 0 \in S
  <2> DEFINE f == [i \in 0..0 |-> base]
  <2>1. f = [i \in 0..0 |-> IF i = 0 THEN base ELSE Op(kind, p, f[i - 1], s[i])]
    OBVIOUS
  <2> HIDE DEF f
  <2>2. Folds(kind, p, base, s, 0, f)
    BY <2>1 DEF Folds
  <2> QED BY <2>2
<1>2. ASSUME NEW m \in 0..(n - 1), m \in S PROVE m + 1 \in S
  <2>1. PICK f : Folds(kind, p, base, s, m, f)
    BY <1>2
  <2> DEFINE g == [i \in 0..(m + 1) |->
                      IF i = m + 1 THEN Op(kind, p, f[m], s[m + 1]) ELSE f[i]]
  <2>2. \A i \in 0..m : f[i] = IF i = 0 THEN base ELSE Op(kind, p, f[i - 1], s[i])
    BY <2>1 DEF Folds
  <2>3. \A i \in 0..(m + 1) : g[i] = IF i = 0 THEN base ELSE Op(kind, p, g[i - 1], s[i])
    <3> SUFFICES ASSUME NEW i \in 0..(m + 1)
                 PROVE  g[i] = IF i = 0 THEN base ELSE Op(kind, p, g[i - 1], s[i])
      OBVIOUS
    <3>1. CASE i = m + 1
      <4>1. i # 0 /\ i - 1 = m /\ g[i - 1] = f[m]
        BY <3>1
      <4> QED BY <3>1, <4>1
    <3>2. CASE i # m + 1
      <4>1. i \in 0..m /\ (i # 0 => i - 1 \in 0..m /\ i - 1 # m + 1)
        BY <3>2
      <4>2. g[i] = f[i] /\ (i # 0 => g[i - 1] = f[i - 1])
        BY <4>1
      <4> QED BY <2>2, <4>1, <4>2
    <3> QED BY <3>1, <3>2
  <2>4. g = [i \in 0..(m + 1) |-> g[i]]
    OBVIOUS
  <2> HIDE DEF g
  <2>5. g = [i \in 0..(m + 1) |-> IF i = 0 THEN base ELSE Op(kind, p, g[i - 1], s[i])]
    BY <2>3, <2>4
  <2>6. Folds(kind, p, base, s, m + 1, g)
    BY <2>5 DEF Folds
  <2> QED BY <2>6
<1> HIDE DEF S
<1>3. 0..n \subseteq S
  BY <1>1, <1>2, Induction
<1>4. n \in S
  BY <1>3
<1> QED BY <1>4 DEF S

\* Two of them that go through the same elements agree there.
LEMMA FoldAgree ==
    ASSUME NEW kind, NEW p, NEW base, NEW s, NEW t, NEW m \in Nat, NEW n \in Nat, m <= n,
           NEW f, Folds(kind, p, base, s, m, f),
           NEW g, Folds(kind, p, base, t, n, g),
           \A i \in 1..m : s[i] = t[i]
    PROVE  \A i \in 0..m : f[i] = g[i]
<1> DEFINE S == {i \in Nat : f[i] = g[i]}
<1>1. /\ \A i \in 0..m : f[i] = IF i = 0 THEN base ELSE Op(kind, p, f[i - 1], s[i])
      /\ \A i \in 0..n : g[i] = IF i = 0 THEN base ELSE Op(kind, p, g[i - 1], t[i])
  BY DEF Folds
<1>2. 0 \in S
  BY <1>1
<1>3. ASSUME NEW i \in 0..(m - 1), i \in S PROVE i + 1 \in S
  <2>1. i + 1 \in 0..m /\ i + 1 \in 0..n /\ i + 1 \in 1..m /\ i + 1 # 0 /\ (i + 1) - 1 = i
    OBVIOUS
  <2>2. f[i + 1] = Op(kind, p, f[i], s[i + 1]) /\ g[i + 1] = Op(kind, p, g[i], t[i + 1])
    BY <1>1, <2>1
  <2>3. f[i] = g[i] /\ s[i + 1] = t[i + 1]
    BY <1>3, <2>1
  <2> QED BY <2>1, <2>2, <2>3
<1> HIDE DEF S
<1>4. 0..m \subseteq S
  BY <1>2, <1>3, Induction
<1> QED BY <1>4 DEF S

\* What the recursion through s ends with.
fold(kind, p, base, s) ==
    (CHOOSE f : Folds(kind, p, base, s, Len(s), f))[Len(s)]

LEMMA FoldValue ==
    ASSUME NEW kind, NEW p, NEW base, NEW S, NEW s \in Seq(S),
           NEW f, Folds(kind, p, base, s, Len(s), f)
    PROVE  f[Len(s)] = fold(kind, p, base, s)
<1> DEFINE g == CHOOSE h : Folds(kind, p, base, s, Len(s), h)
<1>1. Folds(kind, p, base, s, Len(s), g)
  OBVIOUS
<1> HIDE DEF g
<1>2. f[Len(s)] = g[Len(s)]
  BY <1>1, FoldAgree
<1> QED BY <1>2 DEF fold, g

\* It begins with base, and each element is one step.
LEMMA FoldEmpty ==
    ASSUME NEW kind, NEW p, NEW base
    PROVE  fold(kind, p, base, <<>>) = base
<1>1. PICK f : Folds(kind, p, base, <<>>, 0, f)
  BY FoldExists
<1>2. f[0] = base
  BY <1>1 DEF Folds
<1>3. Len(<<>>) = 0 /\ <<>> \in Seq({})
  OBVIOUS
<1>4. f[Len(<<>>)] = fold(kind, p, base, <<>>)
  BY <1>1, <1>3, FoldValue
<1> QED BY <1>2, <1>3, <1>4

LEMMA FoldAppend ==
    ASSUME NEW kind, NEW p, NEW base, NEW S, NEW s \in Seq(S), NEW x \in S
    PROVE  fold(kind, p, base, Append(s, x)) = Op(kind, p, fold(kind, p, base, s), x)
<1> DEFINE t == Append(s, x)
           m == Len(s)
           n == Len(t)
<1>1. m \in Nat /\ n \in Nat /\ n = m + 1 /\ t \in Seq(S) /\ t[n] = x
  OBVIOUS
<1>2. \A i \in 1..m : s[i] = t[i]
  OBVIOUS
<1> HIDE DEF t, m, n
<1>3. m <= n /\ m \in 0..m /\ n \in 0..n /\ n # 0 /\ n - 1 = m
  BY <1>1
<1>4. PICK f : Folds(kind, p, base, s, m, f)
  BY <1>1, FoldExists
<1>5. PICK g : Folds(kind, p, base, t, n, g)
  BY <1>1, FoldExists
<1>6. \A i \in 0..m : f[i] = g[i]
  BY <1>1, <1>2, <1>3, <1>4, <1>5, FoldAgree
<1>7. g[n] = Op(kind, p, g[m], x)
  BY <1>1, <1>3, <1>5 DEF Folds
<1>8. f[m] = fold(kind, p, base, s)
  BY <1>4, FoldValue DEF m
<1>9. g[n] = fold(kind, p, base, t)
  BY <1>1, <1>5, FoldValue DEF n
<1> QED BY <1>3, <1>6, <1>7, <1>8, <1>9 DEF t

\* A recursion through s and then t is one through t that starts from the end of s.
LEMMA FoldConcat ==
    ASSUME NEW kind, NEW p, NEW base, NEW S, NEW s \in Seq(S), NEW t \in Seq(S)
    PROVE  fold(kind, p, base, s \o t) = fold(kind, p, fold(kind, p, base, s), t)
<1> DEFINE u == s \o t
           m == Len(s)
           k == Len(t)
           n == Len(u)
           middle == fold(kind, p, base, s)
<1>1. m \in Nat /\ k \in Nat /\ n \in Nat /\ n = m + k /\ u \in Seq(S)
  OBVIOUS
<1>2. \A i \in 1..m : s[i] = u[i]
  OBVIOUS
<1>3. \A i \in 1..k : u[m + i] = t[i]
  OBVIOUS
<1> HIDE DEF u, m, k, n
<1>4. m <= n /\ m \in 0..m /\ m \in 0..n
  BY <1>1
<1>5. PICK f : Folds(kind, p, base, s, m, f)
  BY <1>1, FoldExists
<1>6. PICK g : Folds(kind, p, base, u, n, g)
  BY <1>1, FoldExists
<1>7. f[m] = middle
  BY <1>5, FoldValue DEF m
<1> HIDE DEF middle
<1>8. \A i \in 0..m : f[i] = g[i]
  BY <1>1, <1>2, <1>4, <1>5, <1>6, FoldAgree
<1>9. PICK h : Folds(kind, p, middle, t, k, h)
  BY <1>1, FoldExists
<1> DEFINE I == {i \in Nat : g[m + i] = h[i]}
<1>10. /\ \A i \in 0..n : g[i] = IF i = 0 THEN base ELSE Op(kind, p, g[i - 1], u[i])
       /\ \A i \in 0..k : h[i] = IF i = 0 THEN middle ELSE Op(kind, p, h[i - 1], t[i])
  BY <1>6, <1>9 DEF Folds
<1>11. 0 \in I
  <2>1. g[m] = middle
    BY <1>4, <1>7, <1>8
  <2>2. 0 \in 0..k /\ m + 0 = m
    BY <1>1
  <2>3. h[0] = middle
    BY <1>10, <2>2
  <2> QED BY <2>1, <2>2, <2>3
<1>12. ASSUME NEW i \in 0..(k - 1), i \in I PROVE i + 1 \in I
  <2>1. /\ i + 1 \in 0..k /\ i + 1 # 0 /\ (i + 1) - 1 = i /\ i + 1 \in 1..k
        /\ m + (i + 1) \in 0..n /\ m + (i + 1) # 0 /\ (m + (i + 1)) - 1 = m + i
    BY <1>1
  <2>2. g[m + (i + 1)] = Op(kind, p, g[m + i], u[m + (i + 1)])
    BY <1>10, <2>1
  <2>3. h[i + 1] = Op(kind, p, h[i], t[i + 1])
    BY <1>10, <2>1
  <2>4. g[m + i] = h[i] /\ u[m + (i + 1)] = t[i + 1]
    BY <1>3, <1>12, <2>1
  <2> QED BY <2>1, <2>2, <2>3, <2>4
<1> HIDE DEF I
<1>13. 0..k \subseteq I
  BY <1>1, <1>11, <1>12, Induction
<1>14. g[n] = h[k]
  BY <1>1, <1>13 DEF I
<1>15. g[n] = fold(kind, p, base, u)
  BY <1>1, <1>6, FoldValue DEF n
<1>16. h[k] = fold(kind, p, middle, t)
  BY <1>9, FoldValue DEF k
<1> QED BY <1>14, <1>15, <1>16 DEF u, middle

\* The model's functions are such recursions.
LEMMA Steps ==
    ASSUME NEW p, NEW l, NEW x
    PROVE  /\ Op("execute", p, l, x) = executeTransaction(l, x)
           /\ Op("import", p, l, x) = importTransaction(l, x)
           /\ Op("importBlock", p, l, x) = importTransactions(l, x.txs)
           /\ Op("replay", p, l, x) = executeTransactions(l, x.txs)
           /\ Op("fee", p, l, x) = l + fee(x)
           /\ Op("keep", p, l, x) = spared(p, l, x)
           /\ Op("worth", p, l, x) = l + worth(p, x)
BY DEF Op

\* executeTransactions, importTransactions, importBlocks, replayed and fees are such recursions.
LEMMA ExecuteFold ==
    ASSUME NEW S, NEW s \in Seq(S), NEW l, NEW p
    PROVE  executeTransactions(l, s) = fold("execute", p, l, s)
<1> DEFINE n == Len(s)
           F == CHOOSE f : f = [i \in 0..n |->
                      IF i = 0 THEN l ELSE executeTransaction(f[i - 1], s[i])]
<1>1. n \in Nat /\ executeTransactions(l, s) = F[n]
  BY DEF executeTransactions
<1> HIDE DEF n, F
<1>2. \A f, i : Op("execute", p, f[i - 1], s[i]) = executeTransaction(f[i - 1], s[i])
  BY Steps
<1>3. PICK g : Folds("execute", p, l, s, n, g)
  BY <1>1, FoldExists
<1>4. g = [i \in 0..n |-> IF i = 0 THEN l ELSE executeTransaction(g[i - 1], s[i])]
  BY <1>2, <1>3 DEF Folds
<1>5. F = [i \in 0..n |-> IF i = 0 THEN l ELSE executeTransaction(F[i - 1], s[i])]
  BY <1>4 DEF F
<1>6. Folds("execute", p, l, s, n, F)
  BY <1>2, <1>5 DEF Folds
<1> QED BY <1>1, <1>6, FoldValue DEF n

LEMMA ImportFold ==
    ASSUME NEW S, NEW s \in Seq(S), NEW l, NEW p
    PROVE  importTransactions(l, s) = fold("import", p, l, s)
<1> DEFINE n == Len(s)
           F == CHOOSE f : f = [i \in 0..n |->
                      IF i = 0 THEN l ELSE importTransaction(f[i - 1], s[i])]
<1>1. n \in Nat /\ importTransactions(l, s) = F[n]
  BY DEF importTransactions
<1> HIDE DEF n, F
<1>2. \A f, i : Op("import", p, f[i - 1], s[i]) = importTransaction(f[i - 1], s[i])
  BY Steps
<1>3. PICK g : Folds("import", p, l, s, n, g)
  BY <1>1, FoldExists
<1>4. g = [i \in 0..n |-> IF i = 0 THEN l ELSE importTransaction(g[i - 1], s[i])]
  BY <1>2, <1>3 DEF Folds
<1>5. F = [i \in 0..n |-> IF i = 0 THEN l ELSE importTransaction(F[i - 1], s[i])]
  BY <1>4 DEF F
<1>6. Folds("import", p, l, s, n, F)
  BY <1>2, <1>5 DEF Folds
<1> QED BY <1>1, <1>6, FoldValue DEF n

LEMMA DownloadFold ==
    ASSUME NEW S, NEW s \in Seq(S), NEW l, NEW p
    PROVE  importBlocks(l, s) = fold("importBlock", p, l, s)
<1> DEFINE n == Len(s)
           F == CHOOSE f : f = [i \in 0..n |->
                      IF i = 0 THEN l ELSE importTransactions(f[i - 1], s[i].txs)]
<1>1. n \in Nat /\ importBlocks(l, s) = F[n]
  BY DEF importBlocks
<1> HIDE DEF n, F
<1>2. \A f, i : Op("importBlock", p, f[i - 1], s[i]) = importTransactions(f[i - 1], s[i].txs)
  BY Steps
<1>3. PICK g : Folds("importBlock", p, l, s, n, g)
  BY <1>1, FoldExists
<1>4. g = [i \in 0..n |-> IF i = 0 THEN l ELSE importTransactions(g[i - 1], s[i].txs)]
  BY <1>2, <1>3 DEF Folds
<1>5. F = [i \in 0..n |-> IF i = 0 THEN l ELSE importTransactions(F[i - 1], s[i].txs)]
  BY <1>4 DEF F
<1>6. Folds("importBlock", p, l, s, n, F)
  BY <1>2, <1>5 DEF Folds
<1> QED BY <1>1, <1>6, FoldValue DEF n

LEMMA ReplayFold ==
    ASSUME NEW S, NEW s \in Seq(S), NEW p
    PROVE  replayed(s) = fold("replay", p, GenesisLedger, s)
<1> DEFINE n == Len(s)
           F == CHOOSE f : f = [i \in 0..n |->
                      IF i = 0 THEN GenesisLedger ELSE executeTransactions(f[i - 1], s[i].txs)]
<1>1. n \in Nat /\ replayed(s) = F[n]
  BY DEF replayed
<1> HIDE DEF n, F
<1>2. \A f, i : Op("replay", p, f[i - 1], s[i]) = executeTransactions(f[i - 1], s[i].txs)
  BY Steps
<1>3. PICK g : Folds("replay", p, GenesisLedger, s, n, g)
  BY <1>1, FoldExists
<1>4. g = [i \in 0..n |-> IF i = 0 THEN GenesisLedger ELSE executeTransactions(g[i - 1], s[i].txs)]
  BY <1>2, <1>3 DEF Folds
<1>5. F = [i \in 0..n |-> IF i = 0 THEN GenesisLedger ELSE executeTransactions(F[i - 1], s[i].txs)]
  BY <1>4 DEF F
<1>6. Folds("replay", p, GenesisLedger, s, n, F)
  BY <1>2, <1>5 DEF Folds
<1> QED BY <1>1, <1>6, FoldValue DEF n

LEMMA FeeFold ==
    ASSUME NEW S, NEW s \in Seq(S), NEW p
    PROVE  fees(s) = fold("fee", p, 0, s)
<1> DEFINE n == Len(s)
           F == CHOOSE f : f = [i \in 0..n |->
                      IF i = 0 THEN 0 ELSE f[i - 1] + fee(s[i])]
<1>1. n \in Nat /\ fees(s) = F[n]
  BY DEF fees
<1> HIDE DEF n, F
<1>2. \A f, i : Op("fee", p, f[i - 1], s[i]) = f[i - 1] + fee(s[i])
  BY Steps
<1>3. PICK g : Folds("fee", p, 0, s, n, g)
  BY <1>1, FoldExists
<1>4. g = [i \in 0..n |-> IF i = 0 THEN 0 ELSE g[i - 1] + fee(s[i])]
  BY <1>2, <1>3 DEF Folds
<1>5. F = [i \in 0..n |-> IF i = 0 THEN 0 ELSE F[i - 1] + fee(s[i])]
  BY <1>4 DEF F
<1>6. Folds("fee", p, 0, s, n, F)
  BY <1>2, <1>5 DEF Folds
<1> QED BY <1>1, <1>6, FoldValue DEF n

-----------------------------------------------------------------------------
(***************************************************************************)
(* Replaying a chain.                                                      *)
(***************************************************************************)
\* A block more is a block more to execute.
LEMMA ReplayAppend ==
    ASSUME NEW S, NEW bs \in Seq(S), NEW b \in S
    PROVE  replayed(Append(bs, b)) = executeTransactions(replayed(bs), b.txs)
<1>1. Append(bs, b) \in Seq(S)
  OBVIOUS
<1>2. replayed(bs) = fold("replay", {}, GenesisLedger, bs)
  BY ReplayFold
<1>3. replayed(Append(bs, b)) = fold("replay", {}, GenesisLedger, Append(bs, b))
  BY <1>1, ReplayFold
<1> QED BY <1>2, <1>3, FoldAppend, Steps

\* A chain of the genesis block alone, which has no transactions.
LEMMA ReplayGenesis ==
    ASSUME NEW b, b.txs = <<>>
    PROVE  replayed(<<b>>) = GenesisLedger
<1>1. <<>> \in Seq({b}) /\ <<b>> = Append(<<>>, b)
  OBVIOUS
<1>2. replayed(<<>>) = GenesisLedger
  BY <1>1, ReplayFold, FoldEmpty
<1>3. executeTransactions(GenesisLedger, <<>>) = GenesisLedger
  BY <1>1, ExecuteFold, FoldEmpty
<1>4. replayed(<<b>>) = executeTransactions(replayed(<<>>), b.txs)
  BY <1>1, ReplayAppend
<1> QED BY <1>2, <1>3, <1>4

\* Whoever stakes, stakes for itself.
SelfStake(x) == x.type = "STAKE" => x.sender = x.receiver

SelfStakes(txs) == \A i \in DOMAIN txs : SelfStake(txs[i])

SelfTx == {x \in Tx : SelfStake(x)}

\* A chain in which all do.
SelfBlocks(bs) == \A i \in DOMAIN bs : SelfStakes(bs[i].txs)

\* Nothing the node does to a transaction changes whom it is from and for.
LEMMA SelfKept ==
    ASSUME NEW x \in Tx
    PROVE  /\ SelfStake(charge(x)) <=> SelfStake(x)
           /\ SelfStake(keyed(x)) <=> SelfStake(x)
BY DEF SelfStake, charge, keyed, Tx

LEMMA SelfReward ==
    ASSUME NEW id, NEW a, NEW r
    PROVE  SelfStake(rewardTx(id, a, r))
BY DEF SelfStake, rewardTx

LEMMA SelfAppend ==
    ASSUME NEW s \in Seq(Tx), SelfStakes(s), NEW x \in Tx, SelfStake(x)
    PROVE  SelfStakes(Append(s, x))
BY DEF SelfStakes

\* Then the two rules by which a block is executed are one.
LEMMA ImportExecutes ==
    ASSUME NEW l, NEW S, NEW txs \in Seq(S), SelfStakes(txs)
    PROVE  importTransactions(l, txs) = executeTransactions(l, txs)
<1> DEFINE n == Len(txs)
<1>1. n \in Nat /\ \A i \in 1..n : SelfStake(txs[i])
  BY DEF SelfStakes
<1>2. executeTransactions(l, txs) = fold("execute", {}, l, txs)
  BY ExecuteFold
<1>3. importTransactions(l, txs) = fold("import", {}, l, txs)
  BY ImportFold
<1>4. \A k, x : SelfStake(x) => Op("import", {}, k, x) = Op("execute", {}, k, x)
  BY Steps DEF SelfStake, importTransaction, executeTransaction
<1> HIDE DEF n
<1>5. PICK f : Folds("execute", {}, l, txs, n, f)
  BY <1>1, FoldExists
<1>6. \A i \in 0..n : i = 0 \/ SelfStake(txs[i])
  BY <1>1
<1>7. Folds("import", {}, l, txs, n, f)
  BY <1>4, <1>5, <1>6 DEF Folds
<1> QED BY <1>2, <1>3, <1>5, <1>7, FoldValue DEF n

\* A chain and a downloaded suffix of it: importing the suffix is replaying on.
LEMMA ReplayConcat ==
    ASSUME NEW bs \in Seq(Block), NEW added \in Seq(Block),
           SelfBlocks(added)
    PROVE  replayed(bs \o added) = importBlocks(replayed(bs), added)
<1> DEFINE n == Len(added)
           l == replayed(bs)
<1>1. n \in Nat /\ \A i \in 1..n : added[i].txs \in Seq(Tx) /\ SelfStakes(added[i].txs)
  <2>1. n \in Nat /\ DOMAIN added = 1..n /\ \A i \in 1..n : added[i] \in Block
    OBVIOUS
  <2>2. \A b \in Block : b.txs \in Seq(Tx)
    BY DEF Block
  <2> QED BY <2>1, <2>2 DEF SelfBlocks
<1>2. bs \o added \in Seq(Block)
  OBVIOUS
<1>3. replayed(bs \o added) = fold("replay", {}, l, added)
  <2>1. replayed(bs \o added) = fold("replay", {}, GenesisLedger, bs \o added)
    BY <1>2, ReplayFold
  <2>2. l = fold("replay", {}, GenesisLedger, bs)
    BY ReplayFold
  <2> QED BY <2>1, <2>2, FoldConcat
<1>4. importBlocks(l, added) = fold("importBlock", {}, l, added)
  BY DownloadFold
<1> HIDE DEF n, l
<1>5. \A k, i : i \in 1..n =>
        Op("importBlock", {}, k, added[i]) = Op("replay", {}, k, added[i])
  BY <1>1, Steps, ImportExecutes
<1>6. PICK f : Folds("replay", {}, l, added, n, f)
  BY <1>1, FoldExists
<1>7. \A i \in 0..n : i = 0 \/ i \in 1..n
  BY <1>1
<1>8. Folds("importBlock", {}, l, added, n, f)
  BY <1>5, <1>6, <1>7 DEF Folds
<1> QED BY <1>3, <1>4, <1>6, <1>8, FoldValue DEF n, l

-----------------------------------------------------------------------------
(***************************************************************************)
(* Ledgers that differ only in accounts nobody uses.  A loser of the       *)
(* lottery opens such accounts (NodeThreads!Decide).                       *)
(***************************************************************************)
\* The names that accounts and stakers may have.
Owner == Address \cup Key \cup {Bare(k) : k \in Key}

Numbers == UNION {[D -> Int] : D \in SUBSET Owner}

Ledgers == [balances : Numbers, stakers : Numbers]

\* The balances of the wallets opened here and the stakers are the same.
Same(l, m) ==
    /\ l \in Ledgers /\ m \in Ledgers
    /\ Account \subseteq DOMAIN l.balances /\ Account \subseteq DOMAIN m.balances
    /\ \A a \in Account : l.balances[a] = m.balances[a]
    /\ l.stakers = m.stakers

LEMMA NumbersType ==
    ASSUME NEW f
    PROVE  f \in Numbers <=> DOMAIN f \subseteq Owner /\ f \in [DOMAIN f -> Int]
BY DEF Numbers

LEMMA EnteredType ==
    ASSUME NEW f \in Numbers, NEW k \in Owner, NEW v \in Int
    PROVE  /\ entered(f, k, v) \in Numbers
           /\ DOMAIN entered(f, k, v) = DOMAIN f \cup {k}
           /\ \A x \in DOMAIN f : x # k => entered(f, k, v)[x] = f[x]
           /\ entered(f, k, v)[k] = v
BY NumbersType DEF entered

\* One change of one balance.
LEMMA UpdateBalanceSame ==
    ASSUME NEW l, NEW m, Same(l, m), NEW a, NEW x \in Int
    PROVE  Same(updateBalance(l, a, x), updateBalance(m, a, x))
<1>1. ASSUME NEW k \in Ledgers, a \in DOMAIN k.balances
      PROVE  /\ updateBalance(k, a, x) \in Ledgers
             /\ updateBalance(k, a, x).stakers = k.stakers
             /\ DOMAIN updateBalance(k, a, x).balances = DOMAIN k.balances
             /\ updateBalance(k, a, x).balances[a] = k.balances[a] + x
             /\ \A b \in DOMAIN k.balances : b # a => updateBalance(k, a, x).balances[b] = k.balances[b]
  <2> DEFINE f == [k.balances EXCEPT ![a] = k.balances[a] + x]
  <2>1. k.balances \in Numbers /\ k.stakers \in Numbers
    BY DEF Ledgers
  <2>2. updateBalance(k, a, x) = [k EXCEPT !.balances = f]
    BY <1>1 DEF updateBalance
  <2>3. /\ f \in Numbers /\ DOMAIN f = DOMAIN k.balances /\ f[a] = k.balances[a] + x
        /\ \A b \in DOMAIN k.balances : b # a => f[b] = k.balances[b]
    BY <1>1, <2>1, NumbersType
  <2> HIDE DEF f
  <2> QED BY <2>1, <2>2, <2>3 DEF Ledgers
<1>2. ASSUME NEW k, a \notin DOMAIN k.balances PROVE updateBalance(k, a, x) = k
  BY <1>2 DEF updateBalance
<1>3. CASE a \in Account
  BY <1>1, <1>3 DEF Same
<1>4. CASE a \notin Account
  BY <1>1, <1>2, <1>4 DEF Same
<1> QED BY <1>3, <1>4

LEMMA UpdateStakeSame ==
    ASSUME NEW l, NEW m, Same(l, m), NEW k \in Owner, NEW x \in Int
    PROVE  Same(updateStake(l, k, x), updateStake(m, k, x))
<1>1. l.stakers = m.stakers /\ l.stakers \in Numbers
  BY DEF Same, Ledgers
<1>2. getStake(l, k) = getStake(m, k) /\ getStake(l, k) + x \in Int
  BY <1>1, NumbersType DEF getStake
<1>3. entered(l.stakers, k, getStake(l, k) + x) \in Numbers
  BY <1>1, <1>2, EnteredType
<1> QED BY <1>1, <1>2, <1>3 DEF Same, Ledgers, updateStake

LEMMA ExecuteSame ==
    ASSUME NEW l, NEW m, Same(l, m), NEW x \in Tx
    PROVE  Same(executeTransaction(l, x), executeTransaction(m, x))
<1>1. x.amount \in Int /\ -x.amount \in Int /\ x.key \in Owner
  BY DEF Tx, Owner
<1>2. ASSUME NEW k, NEW n, Same(k, n) PROVE Same(debit(k, x), debit(n, x))
  BY <1>1, <1>2, UpdateBalanceSame DEF debit
<1>3. Same(move(l, x), move(m, x))
  BY <1>1, <1>2, UpdateBalanceSame DEF move
<1>4. Same(stake(l, x), stake(m, x))
  BY <1>1, <1>2, UpdateStakeSame DEF stake
<1> QED BY <1>3, <1>4 DEF executeTransaction

\* An account more for an address without its "pv1" makes no difference.
LEMMA AddAccountSame ==
    ASSUME NEW l, NEW m, Same(l, m), NEW k \in Key
    PROVE  Same(addAccount(l, Bare(k)), m)
<1>1. l.balances \in Numbers /\ Bare(k) \in Owner
  BY DEF Same, Ledgers, Owner
<1>2. getBalance(l, Bare(k)) \in Int
  BY <1>1, NumbersType DEF getBalance
<1> DEFINE f == entered(l.balances, Bare(k), getBalance(l, Bare(k)))
<1>3. /\ f \in Numbers /\ DOMAIN l.balances \subseteq DOMAIN f
      /\ \A a \in DOMAIN l.balances : f[a] = l.balances[a]
  <2>1. f \in Numbers
    BY <1>1, <1>2, EnteredType
  <2> QED BY <2>1 DEF entered, getBalance
<1>4. addAccount(l, Bare(k)) = [l EXCEPT !.balances = f]
  BY DEF addAccount
<1> HIDE DEF f
<1> QED BY <1>3, <1>4 DEF Same, Ledgers

\* What keeps two such ledgers alike with every element keeps them alike.
LEMMA FoldSame ==
    ASSUME NEW kind, NEW l, NEW m, Same(l, m), NEW S, NEW s \in Seq(S),
           \A i \in 1..Len(s) : \A j, k : Same(j, k) =>
               Same(Op(kind, {}, j, s[i]), Op(kind, {}, k, s[i]))
    PROVE  Same(fold(kind, {}, l, s), fold(kind, {}, m, s))
<1> DEFINE n == Len(s)
<1>1. /\ n \in Nat
      /\ \A i \in 1..n : \A j, k : Same(j, k) =>
            Same(Op(kind, {}, j, s[i]), Op(kind, {}, k, s[i]))
  OBVIOUS
<1> HIDE DEF n
<1>3. PICK f : Folds(kind, {}, l, s, n, f)
  BY <1>1, FoldExists
<1>4. PICK g : Folds(kind, {}, m, s, n, g)
  BY <1>1, FoldExists
<1> DEFINE I == {i \in Nat : Same(f[i], g[i])}
<1>5. 0 \in I
  <2>1. 0 \in 0..n
    BY <1>1
  <2>2. f[0] = l /\ g[0] = m
    BY <1>3, <1>4, <2>1 DEF Folds
  <2> QED BY <2>2
<1>6. ASSUME NEW i \in 0..(n - 1), i \in I PROVE i + 1 \in I
  <2>1. i + 1 \in 0..n /\ i + 1 \in 1..n /\ i + 1 # 0 /\ (i + 1) - 1 = i
    BY <1>1
  <2>2. f[i + 1] = Op(kind, {}, f[i], s[i + 1])
    BY <1>3, <2>1 DEF Folds
  <2>3. g[i + 1] = Op(kind, {}, g[i], s[i + 1])
    BY <1>4, <2>1 DEF Folds
  <2>4. Same(f[i], g[i])
    BY <1>6
  <2>5. Same(f[i + 1], g[i + 1])
    BY <1>1, <2>1, <2>2, <2>3, <2>4
  <2> QED BY <2>1, <2>5
<1> HIDE DEF I
<1>7. 0..n \subseteq I
  BY <1>1, <1>5, <1>6, Induction
<1>8. Same(f[n], g[n])
  BY <1>1, <1>7 DEF I
<1>9. f[n] = fold(kind, {}, l, s) /\ g[n] = fold(kind, {}, m, s)
  BY <1>3, <1>4, FoldValue DEF n
<1> QED BY <1>8, <1>9

\* So two such ledgers stay alike through any number of transactions ...
LEMMA ExecutionSame ==
    ASSUME NEW l, NEW m, Same(l, m), NEW txs \in Seq(Tx)
    PROVE  Same(executeTransactions(l, txs), executeTransactions(m, txs))
<1>1. /\ executeTransactions(l, txs) = fold("execute", {}, l, txs)
      /\ executeTransactions(m, txs) = fold("execute", {}, m, txs)
  BY ExecuteFold
<1>2. ASSUME NEW i \in 1..Len(txs), NEW j, NEW k, Same(j, k)
      PROVE  Same(Op("execute", {}, j, txs[i]), Op("execute", {}, k, txs[i]))
  <2>1. txs[i] \in Tx
    OBVIOUS
  <2>2. Same(executeTransaction(j, txs[i]), executeTransaction(k, txs[i]))
    BY <1>2, <2>1, ExecuteSame
  <2> QED BY <2>2, Steps
<1>3. Same(fold("execute", {}, l, txs), fold("execute", {}, m, txs))
  BY <1>2, FoldSame
<1> QED BY <1>1, <1>3

\* ... and through a download.
LEMMA DownloadSame ==
    ASSUME NEW l, NEW m, Same(l, m), NEW bs \in Seq(Block),
           SelfBlocks(bs)
    PROVE  Same(importBlocks(l, bs), importBlocks(m, bs))
<1>1. /\ importBlocks(l, bs) = fold("importBlock", {}, l, bs)
      /\ importBlocks(m, bs) = fold("importBlock", {}, m, bs)
  BY DownloadFold
<1>2. ASSUME NEW i \in 1..Len(bs), NEW j, NEW k, Same(j, k)
      PROVE  Same(Op("importBlock", {}, j, bs[i]), Op("importBlock", {}, k, bs[i]))
  <2>1. i \in DOMAIN bs /\ bs[i] \in Block
    OBVIOUS
  <2>2. bs[i].txs \in Seq(Tx) /\ SelfStakes(bs[i].txs)
    BY <2>1 DEF Block, SelfBlocks
  <2>3. /\ importTransactions(j, bs[i].txs) = executeTransactions(j, bs[i].txs)
        /\ importTransactions(k, bs[i].txs) = executeTransactions(k, bs[i].txs)
    BY <2>2, ImportExecutes
  <2>4. Same(executeTransactions(j, bs[i].txs), executeTransactions(k, bs[i].txs))
    BY <1>2, <2>2, ExecutionSame
  <2> QED BY <2>3, <2>4, Steps
<1>3. Same(fold("importBlock", {}, l, bs), fold("importBlock", {}, m, bs))
  BY <1>2, FoldSame
<1> QED BY <1>1, <1>3

LEMMA GenesisSame == Same(GenesisLedger, GenesisLedger)
<1>1. GenesisLedger.balances \in Numbers
  <2>1. Account \subseteq Owner /\ [a \in Account |-> 0] \in [Account -> Int]
    BY LedgerAssumption DEF Owner
  <2> QED BY <2>1 DEF GenesisLedger, Numbers
<1>2. GenesisLedger.stakers \in Numbers
  <2>1. {Genesis} \subseteq Owner /\ [k \in {Genesis} |-> Token] \in [{Genesis} -> Int]
    BY LedgerAssumption DEF Owner
  <2> QED BY <2>1 DEF GenesisLedger, Numbers
<1> QED BY <1>1, <1>2 DEF Same, Ledgers, GenesisLedger

-----------------------------------------------------------------------------
(***************************************************************************)
(* What the wallets own together.  Where a node knows every wallet, no     *)
(* transaction, fee or reward makes or loses a token.                      *)
(***************************************************************************)
\* Every wallet is counted, and counted once.
LEMMA WalletsType ==
    /\ wallets \in Seq(Address)
    /\ \A a \in Address : \E i \in 1..Len(wallets) : wallets[i] = a
    /\ \A i, j \in 1..Len(wallets) : wallets[i] = wallets[j] => i = j
<1> DEFINE n == Cardinality(Address)
<1>1. n \in Nat /\ ExistsBijection(1..n, Address)
  BY LedgerAssumption, FS_CardinalityType
<1>2. IsFiniteSet(1..n) /\ Cardinality(1..n) = n
  BY <1>1, FS_Interval
<1>3. \E f \in [1..n -> Address] : IsInjective(f)
  BY <1>1 DEF ExistsBijection, Bijection, Injection
<1>4. wallets \in [1..n -> Address] /\ IsInjective(wallets)
  BY <1>3 DEF wallets, SetToSeq
<1>5. wallets \in Injection(1..n, Address)
  BY <1>4 DEF Injection
<1> HIDE DEF n
<1>6. Cardinality(Address) = n
  BY DEF n
<1>7. wallets \in Surjection(1..n, Address)
  BY <1>2, <1>5, <1>6, LedgerAssumption, FS_Injection
<1>8. wallets \in Seq(Address) /\ Len(wallets) = n
  BY <1>1, <1>4
<1> QED BY <1>4, <1>7, <1>8 DEF Surjection, IsInjective

LEMMA TotalFold ==
    ASSUME NEW l
    PROVE  total(l) = fold("worth", l, 0, wallets)
<1> DEFINE n == Len(wallets)
           F == CHOOSE f : f = [i \in 0..n |->
                      IF i = 0 THEN 0 ELSE f[i - 1] + worth(l, wallets[i])]
<1>1. n \in Nat /\ total(l) = F[n]
  BY WalletsType DEF total
<1> HIDE DEF n, F
<1>2. \A f, i : Op("worth", l, f[i - 1], wallets[i]) = f[i - 1] + worth(l, wallets[i])
  BY Steps
<1>3. PICK g : Folds("worth", l, 0, wallets, n, g)
  BY <1>1, FoldExists
<1>4. g = [i \in 0..n |-> IF i = 0 THEN 0 ELSE g[i - 1] + worth(l, wallets[i])]
  BY <1>2, <1>3 DEF Folds
<1>5. F = [i \in 0..n |-> IF i = 0 THEN 0 ELSE F[i - 1] + worth(l, wallets[i])]
  BY <1>4 DEF F
<1>6. Folds("worth", l, 0, wallets, n, F)
  BY <1>2, <1>5 DEF Folds
<1> QED BY <1>1, <1>6, WalletsType, FoldValue DEF n

\* A ledger with numbers in it, and an account for every wallet opened here.
Sound(l) == l \in Ledgers /\ Account \subseteq DOMAIN l.balances

LEMMA SoundSame == ASSUME NEW l PROVE Sound(l) <=> Same(l, l)
BY DEF Sound, Same

LEMMA WorthType ==
    ASSUME NEW l, Sound(l), NEW a
    PROVE  getBalance(l, a) \in Int /\ getStake(l, a) \in Int /\ worth(l, a) \in Int
<1>1. l.balances \in Numbers /\ l.stakers \in Numbers
  BY DEF Sound, Ledgers
<1>2. getBalance(l, a) \in Int /\ getStake(l, a) \in Int
  BY <1>1, NumbersType DEF getBalance, getStake
<1> QED BY <1>2 DEF worth

\* If one wallet owns d more, so do all of them.
LEMMA TotalMoved ==
    ASSUME NEW l, Sound(l), NEW m, Sound(m), NEW a \in Address, NEW d \in Int,
           worth(m, a) = worth(l, a) + d,
           \A b \in Address : b # a => worth(m, b) = worth(l, b)
    PROVE  total(l) \in Int /\ total(m) = total(l) + d
<1> DEFINE n == Len(wallets)
<1>1. n \in Nat /\ \A i \in 1..n : wallets[i] \in Address
  BY WalletsType
<1>2. PICK p \in 1..n : wallets[p] = a
  BY WalletsType
<1>3. \A i \in 1..n : i # p => wallets[i] # a
  BY <1>2, WalletsType
<1>4. total(l) = fold("worth", l, 0, wallets) /\ total(m) = fold("worth", m, 0, wallets)
  BY TotalFold
<1>5. PICK f : Folds("worth", l, 0, wallets, n, f)
  BY <1>1, FoldExists
<1>6. PICK g : Folds("worth", m, 0, wallets, n, g)
  BY <1>1, FoldExists
<1>7. f[n] = total(l) /\ g[n] = total(m)
  BY <1>4, <1>5, <1>6, WalletsType, FoldValue
<1> HIDE DEF n
<1> DEFINE gain(i) == IF i < p THEN 0 ELSE d
           I == {i \in Nat : f[i] \in Int /\ g[i] = f[i] + gain(i)}
<1>8. 0 \in I
  <2>1. f[0] = 0 /\ g[0] = 0
    BY <1>1, <1>5, <1>6 DEF Folds
  <2> QED BY <2>1
<1>9. ASSUME NEW i \in 0..(n - 1), i \in I PROVE i + 1 \in I
  <2> DEFINE j == i + 1
             w == wallets[j]
  <2>1. j \in 0..n /\ j \in 1..n /\ j # 0 /\ j - 1 = i /\ i \in Nat /\ j \in Nat
    BY <1>1
  <2> HIDE DEF j
  <2>2. f[j] = Op("worth", l, f[i], w) /\ g[j] = Op("worth", m, g[i], w)
    BY <1>5, <1>6, <2>1 DEF Folds
  <2>3. f[j] = f[i] + worth(l, w) /\ g[j] = g[i] + worth(m, w)
    BY <2>2, Steps
  <2>4. w \in Address /\ worth(l, w) \in Int /\ worth(m, w) \in Int
    BY <1>1, <2>1, WorthType
  <2> HIDE DEF w
  <2>5. f[i] \in Int /\ g[i] = f[i] + gain(i)
    BY <1>9
  <2>6. CASE j = p
    <3>1. gain(i) = 0 /\ gain(j) = d /\ worth(m, w) = worth(l, w) + d
      BY <1>2, <2>1, <2>6 DEF w, j
    <3> QED BY <2>1, <2>3, <2>4, <2>5, <3>1 DEF j
  <2>7. CASE j # p
    <3>1. worth(m, w) = worth(l, w)
      BY <1>3, <2>1, <2>4, <2>7 DEF w
    <3>2. gain(j) = gain(i) /\ gain(i) \in Int
      BY <2>1, <2>7
    <3> HIDE DEF gain
    <3> QED BY <2>1, <2>3, <2>4, <2>5, <3>1, <3>2 DEF j
  <2> QED BY <2>6, <2>7
<1> HIDE DEF I
<1>10. 0..n \subseteq I
  BY <1>1, <1>8, <1>9, Induction
<1>11. n \in I
  BY <1>1, <1>10
<1> QED BY <1>2, <1>7, <1>11 DEF I

LEMMA TotalSame ==
    ASSUME NEW l, Sound(l), NEW m, Sound(m), \A b \in Address : worth(m, b) = worth(l, b)
    PROVE  total(l) \in Int /\ total(m) = total(l)
<1>1. Genesis \in Address /\ worth(l, Genesis) \in Int
  BY LedgerAssumption, WorthType
<1>2. worth(m, Genesis) = worth(l, Genesis) + 0 /\ 0 \in Int
  BY <1>1
<1>3. total(l) \in Int /\ total(m) = total(l) + 0
  BY <1>1, <1>2, TotalMoved
<1> QED BY <1>3

\* Coins that come or go ...
LEMMA BalanceTotal ==
    ASSUME NEW l, Sound(l), NEW a \in Account, NEW x \in Int
    PROVE  Sound(updateBalance(l, a, x)) /\ total(updateBalance(l, a, x)) = total(l) + x
<1> DEFINE m == updateBalance(l, a, x)
<1>1. Sound(m)
  BY SoundSame, UpdateBalanceSame
<1>2. a \in DOMAIN l.balances /\ a \in Address /\ l.balances \in Numbers
  BY LedgerAssumption DEF Sound, Ledgers
<1>3. m = [l EXCEPT !.balances[a] = l.balances[a] + x]
  BY <1>2 DEF updateBalance
<1>4. /\ m.stakers = l.stakers /\ DOMAIN m.balances = DOMAIN l.balances
      /\ m.balances[a] = l.balances[a] + x
      /\ \A b \in DOMAIN l.balances : b # a => m.balances[b] = l.balances[b]
  BY <1>2, <1>3, NumbersType DEF Sound, Ledgers
<1> HIDE DEF m
<1>5. getBalance(m, a) = getBalance(l, a) + x /\ getStake(m, a) = getStake(l, a)
  BY <1>2, <1>4 DEF getBalance, getStake
<1>6. worth(m, a) = worth(l, a) + x
  BY <1>5, WorthType DEF worth
<1>7. \A b \in Address : b # a => worth(m, b) = worth(l, b)
  BY <1>4 DEF worth, getBalance, getStake
<1> QED BY <1>1, <1>2, <1>6, <1>7, TotalMoved DEF m

\* ... and stakes that do.
LEMMA StakeTotal ==
    ASSUME NEW l, Sound(l), NEW k \in Address, NEW x \in Int
    PROVE  Sound(updateStake(l, k, x)) /\ total(updateStake(l, k, x)) = total(l) + x
<1> DEFINE m == updateStake(l, k, x)
           s == entered(l.stakers, k, getStake(l, k) + x)
<1>1. k \in Owner /\ l.stakers \in Numbers /\ getStake(l, k) \in Int
  BY WorthType DEF Owner, Sound, Ledgers
<1>2. Sound(m)
  BY <1>1, SoundSame, UpdateStakeSame
<1>3. /\ DOMAIN s = DOMAIN l.stakers \cup {k} /\ s[k] = getStake(l, k) + x
      /\ \A b \in DOMAIN l.stakers : b # k => s[b] = l.stakers[b]
  BY DEF entered
<1>4. m = [l EXCEPT !.stakers = s]
  BY DEF updateStake
<1> HIDE DEF s
<1>5. m.balances = l.balances /\ m.stakers = s
  BY <1>4 DEF Sound, Ledgers
<1> HIDE DEF m
<1>6. getBalance(m, k) = getBalance(l, k) /\ getStake(m, k) = getStake(l, k) + x
  BY <1>3, <1>5 DEF getBalance, getStake
<1>7. worth(m, k) = worth(l, k) + x
  BY <1>6, WorthType DEF worth
<1>8. \A b \in Address : b # k => worth(m, b) = worth(l, b)
  BY <1>3, <1>5 DEF worth, getBalance, getStake
<1> QED BY <1>2, <1>7, <1>8, TotalMoved DEF m

\* Only the key of a STAKE is ever looked at; the stake belongs to its sender.
KeyedStake(x) == x.type = "STAKE" => x.key = x.sender

KeyedTx == {x \in Tx : KeyedStake(x)}

LEMMA StakeKeyKept ==
    ASSUME Account = Address, NEW x \in KeyedTx
    PROVE  charge(x) \in KeyedTx /\ keyed(x) \in KeyedTx
<1>1. x \in Tx /\ KeyedStake(x) /\ charge(x) \in Tx /\ keyed(x) \in Tx
  BY ChargeType, KeyedType DEF KeyedTx
<1>2. KeyedStake(charge(x)) /\ KeyedStake(keyed(x))
  BY <1>1 DEF KeyedStake, charge, keyed, publicKey, Tx
<1> QED BY <1>1, <1>2 DEF KeyedTx

\* The rewards come from somebody, the stakes from their owner.
LEMMA MoveTotal ==
    ASSUME Account = Address, NEW l, Sound(l), NEW x \in Tx
    PROVE  /\ Sound(move(l, x)) /\ total(move(l, x)) = total(l)
           /\ KeyedStake(x) /\ x.type = "STAKE" =>
                 Sound(stake(l, x)) /\ total(stake(l, x)) = total(l)
<1>1. x.amount \in Int /\ -x.amount \in Int /\ x.sender \in Account /\ x.receiver \in Account
  BY DEF Tx
<1>2. ASSUME NEW m, Sound(m)
      PROVE  Sound(debit(m, x)) /\ total(debit(m, x)) = total(m) + (-x.amount)
  BY <1>1, <1>2, BalanceTotal DEF debit
<1>3. total(l) \in Int
  BY TotalSame
<1>4. Sound(move(l, x)) /\ total(move(l, x)) = total(debit(l, x)) + x.amount
  BY <1>1, <1>2, BalanceTotal DEF move
<1>5. total(move(l, x)) = total(l)
  BY <1>1, <1>2, <1>3, <1>4
<1>6. ASSUME KeyedStake(x), x.type = "STAKE"
      PROVE  Sound(stake(l, x)) /\ total(stake(l, x)) = total(l)
  <2> DEFINE m == updateStake(l, x.key, x.amount)
  <2>1. x.key \in Address
    BY <1>1, <1>6 DEF KeyedStake
  <2>2. Sound(m) /\ total(m) = total(l) + x.amount
    BY <1>1, <2>1, StakeTotal
  <2> HIDE DEF m
  <2>3. Sound(debit(m, x)) /\ total(debit(m, x)) = total(m) + (-x.amount)
    BY <1>2, <2>2
  <2>4. stake(l, x) = debit(m, x)
    BY DEF stake, m
  <2> QED BY <1>1, <1>3, <2>2, <2>3, <2>4
<1> QED BY <1>4, <1>5, <1>6

\* What keeps the total with every element keeps it.
LEMMA FoldTotal ==
    ASSUME NEW kind, NEW l, Sound(l), NEW S, NEW s \in Seq(S),
           \A i \in 1..Len(s) : \A j : Sound(j) =>
               Sound(Op(kind, {}, j, s[i])) /\ total(Op(kind, {}, j, s[i])) = total(j)
    PROVE  Sound(fold(kind, {}, l, s)) /\ total(fold(kind, {}, l, s)) = total(l)
<1> DEFINE n == Len(s)
<1>1. /\ n \in Nat
      /\ \A i \in 1..n : \A j : Sound(j) =>
            Sound(Op(kind, {}, j, s[i])) /\ total(Op(kind, {}, j, s[i])) = total(j)
  OBVIOUS
<1> HIDE DEF n
<1>2. PICK f : Folds(kind, {}, l, s, n, f)
  BY <1>1, FoldExists
<1> DEFINE I == {i \in Nat : Sound(f[i]) /\ total(f[i]) = total(l)}
<1>3. 0 \in I
  <2>1. 0 \in 0..n
    BY <1>1
  <2>2. f[0] = l
    BY <1>2, <2>1 DEF Folds
  <2> QED BY <2>2
<1>4. ASSUME NEW i \in 0..(n - 1), i \in I PROVE i + 1 \in I
  <2>1. i + 1 \in 0..n /\ i + 1 \in 1..n /\ i + 1 # 0 /\ (i + 1) - 1 = i /\ i + 1 \in Nat
    BY <1>1
  <2>2. f[i + 1] = Op(kind, {}, f[i], s[i + 1])
    BY <1>2, <2>1 DEF Folds
  <2>3. Sound(f[i]) /\ total(f[i]) = total(l)
    BY <1>4
  <2>4. Sound(f[i + 1]) /\ total(f[i + 1]) = total(f[i])
    BY <1>1, <2>1, <2>2, <2>3
  <2> QED BY <2>1, <2>3, <2>4
<1> HIDE DEF I
<1>5. 0..n \subseteq I
  BY <1>1, <1>3, <1>4, Induction
<1>6. Sound(f[n]) /\ total(f[n]) = total(l)
  BY <1>1, <1>5 DEF I
<1>7. f[n] = fold(kind, {}, l, s)
  BY <1>2, FoldValue DEF n
<1> QED BY <1>6, <1>7

\* So blocks neither make nor lose a token, by either rule.
LEMMA ExecutionTotal ==
    ASSUME Account = Address, NEW l, Sound(l), NEW txs \in Seq(Tx),
           \A i \in DOMAIN txs : txs[i] \in KeyedTx
    PROVE  /\ Sound(executeTransactions(l, txs)) /\ total(executeTransactions(l, txs)) = total(l)
           /\ Sound(importTransactions(l, txs)) /\ total(importTransactions(l, txs)) = total(l)
<1>1. /\ executeTransactions(l, txs) = fold("execute", {}, l, txs)
      /\ importTransactions(l, txs) = fold("import", {}, l, txs)
  BY ExecuteFold, ImportFold
<1>2. ASSUME NEW j, Sound(j), NEW i \in 1..Len(txs)
      PROVE  /\ Sound(Op("execute", {}, j, txs[i])) /\ total(Op("execute", {}, j, txs[i])) = total(j)
             /\ Sound(Op("import", {}, j, txs[i])) /\ total(Op("import", {}, j, txs[i])) = total(j)
  <2> DEFINE x == txs[i]
  <2>1. x \in Tx /\ KeyedStake(x)
    BY DEF KeyedTx
  <2> HIDE DEF x
  <2>2. /\ Sound(move(j, x)) /\ total(move(j, x)) = total(j)
        /\ x.type = "STAKE" => Sound(stake(j, x)) /\ total(stake(j, x)) = total(j)
    BY <1>2, <2>1, MoveTotal
  <2>3. /\ Sound(executeTransaction(j, x)) /\ total(executeTransaction(j, x)) = total(j)
        /\ Sound(importTransaction(j, x)) /\ total(importTransaction(j, x)) = total(j)
    BY <1>2, <2>2 DEF executeTransaction, importTransaction
  <2> QED BY <2>3, Steps DEF x
<1>3. Sound(fold("execute", {}, l, txs)) /\ total(fold("execute", {}, l, txs)) = total(l)
  BY <1>2, FoldTotal
<1>4. Sound(fold("import", {}, l, txs)) /\ total(fold("import", {}, l, txs)) = total(l)
  BY <1>2, FoldTotal
<1> QED BY <1>1, <1>3, <1>4

LEMMA DownloadTotal ==
    ASSUME Account = Address, NEW l, Sound(l), NEW bs \in Seq(Block),
           \A i \in DOMAIN bs : \A j \in DOMAIN bs[i].txs : bs[i].txs[j] \in KeyedTx
    PROVE  Sound(importBlocks(l, bs)) /\ total(importBlocks(l, bs)) = total(l)
<1>1. importBlocks(l, bs) = fold("importBlock", {}, l, bs)
  BY DownloadFold
<1>2. ASSUME NEW j, Sound(j), NEW i \in 1..Len(bs)
      PROVE  /\ Sound(Op("importBlock", {}, j, bs[i]))
             /\ total(Op("importBlock", {}, j, bs[i])) = total(j)
  <2>1. i \in DOMAIN bs /\ bs[i] \in Block
    OBVIOUS
  <2>2. bs[i].txs \in Seq(Tx) /\ \A k \in DOMAIN bs[i].txs : bs[i].txs[k] \in KeyedTx
    BY <2>1 DEF Block
  <2>3. /\ Sound(importTransactions(j, bs[i].txs))
        /\ total(importTransactions(j, bs[i].txs)) = total(j)
    BY <1>2, <2>2, ExecutionTotal
  <2> QED BY <2>3, Steps
<1>3. Sound(fold("importBlock", {}, l, bs)) /\ total(fold("importBlock", {}, l, bs)) = total(l)
  BY <1>2, FoldTotal
<1> QED BY <1>1, <1>3

\* The stake of a wallet, if it is one.
held(l, k) == IF k \in Address THEN getStake(l, k) ELSE 0

\* A refund counts a stake twice until the staker is erased.
LEMMA RefundTotal ==
    ASSUME Account = Address, NEW l, Sound(l), NEW k \in Key
    PROVE  /\ Sound(refundStake(l, k)) /\ held(refundStake(l, k), k) = held(l, k)
           /\ total(refundStake(l, k)) = total(l) + held(l, k)
<1> DEFINE x == getStake(l, k)
           m == updateBalance(l, k, x)
           r == updateStake(m, k, 0)
<1>1. r = refundStake(l, k) /\ x \in Int /\ 0 \in Int /\ k \in Owner
  BY WorthType DEF refundStake, Owner
<1>2. Sound(m)
  BY <1>1, SoundSame, UpdateBalanceSame
<1>3. m.stakers = l.stakers
  BY DEF updateBalance, Sound, Ledgers
<1>4. getStake(m, k) = x
  BY <1>3 DEF getStake
<1> HIDE DEF m, x
<1>5. Sound(r)
  BY <1>1, <1>2, SoundSame, UpdateStakeSame
<1>6. r = [m EXCEPT !.stakers = entered(m.stakers, k, x + 0)]
  BY <1>4 DEF updateStake
<1>7. m.stakers \in Numbers /\ x + 0 = x
  BY <1>1, <1>2 DEF Sound, Ledgers
<1>8. r.stakers = entered(m.stakers, k, x) /\ r.balances = m.balances
  BY <1>2, <1>6, <1>7 DEF Sound, Ledgers
<1> HIDE DEF r
<1>9. getStake(r, k) = x
  <2>1. k \in DOMAIN entered(m.stakers, k, x) /\ entered(m.stakers, k, x)[k] = x
    BY DEF entered
  <2> QED BY <1>8, <2>1 DEF getStake
<1>10. CASE k \in Address
  <2>1. total(m) = total(l) + x
    BY <1>1, <1>10, BalanceTotal DEF m
  <2>2. total(r) = total(m) + 0 /\ total(m) \in Int
    BY <1>2, <1>10, StakeTotal, TotalSame DEF r
  <2> QED BY <1>1, <1>5, <1>9, <1>10, <2>1, <2>2 DEF held, x
<1>11. CASE k \notin Address
  <2>1. \A b \in Address : getBalance(m, b) = getBalance(l, b)
    BY <1>11 DEF m, updateBalance, getBalance, Sound, Ledgers
  <2>2. \A b \in Address : getStake(r, b) = getStake(l, b)
    BY <1>3, <1>7, <1>8, <1>11 DEF entered, getStake
  <2>3. \A b \in Address : worth(r, b) = worth(l, b)
    BY <1>8, <2>1, <2>2 DEF worth, getBalance
  <2>4. total(r) = total(l) /\ total(l) \in Int
    BY <1>5, <2>3, TotalSame
  <2> QED BY <1>1, <1>5, <1>11, <2>4 DEF held
<1> QED BY <1>10, <1>11

LEMMA EraseTotal ==
    ASSUME NEW l, Sound(l), NEW k \in Key
    PROVE  Sound(eraseStaker(l, k)) /\ total(eraseStaker(l, k)) = total(l) - held(l, k)
<1> DEFINE D == DOMAIN l.stakers \ {k}
           s == [a \in D |-> l.stakers[a]]
           m == eraseStaker(l, k)
<1>1. m = [l EXCEPT !.stakers = s]
  BY DEF eraseStaker, Restrict
<1>2. l.stakers \in Numbers /\ m.balances = l.balances /\ m.stakers = s
  BY <1>1 DEF Sound, Ledgers
<1>3. s \in Numbers
  BY <1>2, NumbersType
<1>4. Sound(m)
  BY <1>1, <1>2, <1>3 DEF Sound, Ledgers
<1>5. \A b : b # k => worth(m, b) = worth(l, b)
  BY <1>2 DEF worth, getBalance, getStake
<1>6. getStake(m, k) = 0 /\ getBalance(m, k) = getBalance(l, k)
  BY <1>2 DEF getStake, getBalance
<1> HIDE DEF m, s
<1>7. CASE k \in Address
  <2>1. getBalance(l, k) \in Int /\ getStake(l, k) \in Int /\ -getStake(l, k) \in Int
    BY WorthType
  <2>2. worth(m, k) = worth(l, k) + (-getStake(l, k))
    BY <1>6, <2>1 DEF worth
  <2>3. total(l) \in Int /\ total(m) = total(l) + (-getStake(l, k))
    BY <1>4, <1>5, <1>7, <2>1, <2>2, TotalMoved
  <2> QED BY <1>4, <1>7, <2>1, <2>3 DEF held, m
<1>8. CASE k \notin Address
  <2>1. total(l) \in Int /\ total(m) = total(l)
    BY <1>4, <1>5, <1>8, TotalSame
  <2> QED BY <1>4, <1>8, <2>1 DEF held, m
<1> QED BY <1>7, <1>8

\* An account for an address without its "pv1" is empty.
LEMMA AccountTotal ==
    ASSUME NEW l, Sound(l), NEW k \in Key
    PROVE  LET m == addAccount(l, Bare(k))
           IN  /\ Sound(m) /\ total(m) = total(l)
               /\ \A j : held(m, j) = held(l, j)
<1> DEFINE m == addAccount(l, Bare(k))
           f == entered(l.balances, Bare(k), getBalance(l, Bare(k)))
<1>1. Sound(m)
  BY SoundSame, AddAccountSame DEF Same, Sound
<1>2. m = [l EXCEPT !.balances = f]
  BY DEF addAccount
<1>3. m.balances = f /\ m.stakers = l.stakers
  BY <1>2 DEF Sound, Ledgers
<1>4. \A b : getBalance(m, b) = getBalance(l, b)
  BY <1>3 DEF getBalance, entered
<1>5. \A b : getStake(m, b) = getStake(l, b)
  BY <1>3 DEF getStake
<1> HIDE DEF m
<1>6. \A b : worth(m, b) = worth(l, b)
  BY <1>4, <1>5 DEF worth
<1>7. total(m) = total(l)
  BY <1>1, <1>6, TotalSame
<1> QED BY <1>1, <1>5, <1>7 DEF m, held

\* At the start there is nothing but the genesis stake.
LEMMA GenesisTotal == Sound(GenesisLedger) /\ total(GenesisLedger) = Token
<1> DEFINE l == eraseStaker(GenesisLedger, Genesis)
           n == Len(wallets)
<1>1. Sound(GenesisLedger) /\ Genesis \in Key /\ Genesis \in Address
  BY GenesisSame, SoundSame, LedgerAssumption DEF Key
<1>2. Sound(l) /\ total(l) = total(GenesisLedger) - held(GenesisLedger, Genesis)
  BY <1>1, EraseTotal
<1>3. held(GenesisLedger, Genesis) = Token
  BY <1>1 DEF held, getStake, GenesisLedger
<1>4. \A a : worth(l, a) = 0
  BY DEF worth, getBalance, getStake, eraseStaker, Restrict, GenesisLedger
<1> HIDE DEF l
<1>5. total(l) = 0
  <2>1. n \in Nat
    BY WalletsType
  <2>2. total(l) = fold("worth", l, 0, wallets)
    BY TotalFold
  <2> HIDE DEF n
  <2>3. PICK f : Folds("worth", l, 0, wallets, n, f)
    BY <2>1, FoldExists
  <2> DEFINE I == {i \in Nat : f[i] = 0}
  <2>4. 0 \in I
    <3>1. 0 \in 0..n
      BY <2>1
    <3> QED BY <2>3, <3>1 DEF Folds
  <2>5. ASSUME NEW i \in 0..(n - 1), i \in I PROVE i + 1 \in I
    <3>1. i + 1 \in 0..n /\ i + 1 # 0 /\ (i + 1) - 1 = i /\ i + 1 \in Nat
      BY <2>1
    <3>2. f[i + 1] = Op("worth", l, f[i], wallets[i + 1])
      BY <2>3, <3>1 DEF Folds
    <3>3. f[i + 1] = f[i] + worth(l, wallets[i + 1])
      BY <3>2, Steps
    <3> QED BY <1>4, <2>5, <3>1, <3>3
  <2> HIDE DEF I
  <2>6. 0..n \subseteq I
    BY <2>1, <2>4, <2>5, Induction
  <2>7. f[n] = 0
    BY <2>1, <2>6 DEF I
  <2> QED BY <2>2, <2>3, <2>7, WalletsType, FoldValue DEF n
<1>6. total(GenesisLedger) \in Int
  BY <1>1, TotalSame
<1> QED BY <1>1, <1>2, <1>3, <1>5, <1>6, LedgerAssumption
=============================================================================
