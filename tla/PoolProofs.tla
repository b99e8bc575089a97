----------------------------- MODULE PoolProofs -----------------------------
(***************************************************************************)
(* The pool never holds a transaction twice, for any number of workers and *)
(* any traffic.  The types and locks are those of NodeProofs.              *)
(***************************************************************************)
EXTENDS NodeProofs

Handling == {"poolCheck", "chainCheck", "cover", "add"}

\* The pool's ids are distinct and were all given out already.
PoolKnown ==
    /\ PoolNoDup
    /\ \A s \in DOMAIN pool : pool[s].id < uuid

\* Only workers and the P2P thread handle transactions; a worker's own have
\* numbers of this node, a peer's have not.
HandledBy(t) ==
    pc[t] \in Handling =>
        /\ tx[t].id < uuid
        /\ \/ t \in Api /\ tx[t].id >= 0
           \/ t = P2P /\ tx[t].id < 0

\* From the first check to the insertion, the transaction is not in the pool.
Absent(t) ==
    pc[t] \in Handling \ {"poolCheck"} => \A s \in DOMAIN pool : pool[s].id # tx[t].id

\* PoolNoDup, made inductive: no two threads handle one transaction, so what
\* a thread has not found in the pool nobody else can put there.
PoolInv ==
    /\ PoolKnown
    /\ \A t \in Thread : HandledBy(t) /\ Absent(t)
    /\ \A t, u \in Thread : pc[t] \in Handling /\ pc[u] \in Handling /\ t # u =>
                               tx[t].id # tx[u].id

\* The steps that add no transaction to the pool and take up none: the pool
\* keeps some of its entries, each with its id.
PoolShrinks ==
    /\ DOMAIN pool' \subseteq DOMAIN pool
    /\ \A s \in DOMAIN pool' : pool'[s].id = pool[s].id

LEMMA PoolInit == Init => PoolInv
BY DEF Init, PoolInv, PoolKnown, PoolNoDup, HandledBy, Absent, Handling, NoTxs

LEMMA PoolKept ==
    ASSUME TypeOK, PoolInv, TypeOK', NEW t \in Thread, PoolShrinks, uuid' >= uuid,
           \A u \in Thread : u # t => pc'[u] = pc[u] /\ tx'[u] = tx[u],
           \/ pc'[t] \notin Handling
           \/ /\ pc[t] \in Handling /\ tx'[t] = tx[t]
              /\ pc[t] = "poolCheck" =>
                    pc'[t] = "poolCheck" \/ \A s \in DOMAIN pool : pool[s].id # tx[t].id
    PROVE  PoolInv'
<1>1. uuid \in Nat /\ uuid' \in Nat /\ \A s \in DOMAIN pool : pool[s].id \in Int
  BY DEF TypeOK, IsPool, Tx
<1>2. \A u \in Thread : tx[u].id \in Int
  BY DEF TypeOK, Tx
<1>3. \A u \in Thread : pc'[u] \in Handling => pc[u] \in Handling /\ tx'[u] = tx[u]
  OBVIOUS
<1>4. PoolKnown'
  BY <1>1 DEF PoolInv, PoolKnown, PoolNoDup, PoolShrinks
<1>5. ASSUME NEW u \in Thread PROVE HandledBy(u)'
  BY <1>1, <1>2, <1>3 DEF PoolInv, HandledBy
<1>6. ASSUME NEW u \in Thread PROVE Absent(u)'
  BY <1>3 DEF PoolInv, Absent, PoolShrinks
<1>7. (\A u, v \in Thread : pc[u] \in Handling /\ pc[v] \in Handling /\ u # v =>
                               tx[u].id # tx[v].id)'
  BY <1>3 DEF PoolInv
<1> QED BY <1>4, <1>5, <1>6, <1>7 DEF PoolInv

\* A transaction that is taken up: one of our own, or one of a peer.
LEMMA PoolTakenUp ==
    ASSUME TypeOK, PoolInv, NEW t \in Thread, Submit(t) \/ ReceiveTx(t)
    PROVE  PoolInv'
<1> USE DEF shared, counters
<1>1. uuid \in Nat /\ \A s \in DOMAIN pool : pool[s].id \in Int
  BY DEF TypeOK, IsPool, Tx
<1>2. \A u \in Thread : tx[u].id \in Int
  BY DEF TypeOK, Tx
<1>3. \/ t \in Api /\ tx'[t].id = uuid /\ uuid' = uuid + 1
      \/ t = P2P /\ tx'[t].id < 0 /\ tx'[t].id \in Int /\ uuid' = uuid
  <2>1. CASE Submit(t)
    <3>1. PICK r \in Requests : tx' = [tx EXCEPT ![t] =
               [id |-> uuid, type |-> r.type, sender |-> r.sender,
                receiver |-> r.receiver, amount |-> r.amount,
                key |-> publicKey(r.sender)]]
      BY <2>1 DEF Submit
    <3>2. tx'[t].id = uuid
      BY <3>1 DEF TypeOK
    <3>3. t \in Api /\ uuid' = uuid + 1
      BY <2>1 DEF Submit
    <3> QED BY <3>2, <3>3
  <2>2. CASE ReceiveTx(t)
    <3>1. PICK m \in RemoteTx : tx' = [tx EXCEPT ![t] = m]
      BY <2>2 DEF ReceiveTx
    <3>2. m.id < 0 /\ m.id \in Int
      BY ThreadAssumption DEF Tx
    <3>3. t = P2P /\ uuid' = uuid
      BY <2>2 DEF ReceiveTx
    <3> QED BY <3>1, <3>2, <3>3 DEF TypeOK
  <2> QED BY <2>1, <2>2
<1>4. pc' = [pc EXCEPT ![t] = "poolCheck"] /\ UNCHANGED pool
  BY DEF Submit, ReceiveTx, Goto
<1>5. pc'[t] = "poolCheck" /\ \A u \in Thread : u # t => pc'[u] = pc[u] /\ tx'[u] = tx[u]
  BY <1>4 DEF Submit, ReceiveTx, TypeOK
<1>6. PoolKnown'
  BY <1>1, <1>3, <1>4 DEF PoolInv, PoolKnown, PoolNoDup
<1>7. ASSUME NEW u \in Thread PROVE HandledBy(u)' /\ Absent(u)'
  <2>1. CASE u = t
    BY <1>1, <1>3, <1>5, <2>1 DEF HandledBy, Absent, Handling
  <2>2. CASE u # t
    BY <1>1, <1>2, <1>3, <1>4, <1>5, <2>2 DEF PoolInv, HandledBy, Absent
  <2> QED BY <2>1, <2>2
<1>8. ASSUME NEW u \in Thread, u # t, pc[u] \in Handling PROVE tx[u].id # tx'[t].id
  BY <1>1, <1>2, <1>3, <1>8, ThreadAssumption DEF PoolInv, HandledBy
<1>9. (\A u, v \in Thread : pc[u] \in Handling /\ pc[v] \in Handling /\ u # v =>
                               tx[u].id # tx[v].id)'
  BY <1>5, <1>8 DEF PoolInv
<1> QED BY <1>6, <1>7, <1>9 DEF PoolInv

\* The transaction that is put in the pool was not there, and nobody else has it.
LEMMA PoolAdded ==
    ASSUME TypeOK, PoolInv, NEW t \in Thread, Add(t)
    PROVE  PoolInv'
<1>1. /\ pool' = pushed(pool, tx[t]) /\ pc[t] = "add" /\ pc' = [pc EXCEPT ![t] = "required"]
      /\ UNCHANGED <<tx, uuid>>
  BY DEF Add, Goto
<1>2. stamp \in Nat /\ DOMAIN pool \subseteq 0..(stamp - 1)
  BY DEF TypeOK, IsPool
<1>3. stamp \notin DOMAIN pool
  BY <1>2
<1>4. /\ DOMAIN pool' = DOMAIN pool \cup {stamp} /\ pool'[stamp] = tx[t]
      /\ \A s \in DOMAIN pool : pool'[s] = pool[s]
  BY <1>1, <1>3 DEF pushed
<1>5. tx[t].id < uuid /\ \A s \in DOMAIN pool : pool[s].id # tx[t].id
  BY <1>1 DEF PoolInv, HandledBy, Absent, Handling
<1>6. PoolKnown'
  BY <1>1, <1>4, <1>5 DEF PoolInv, PoolKnown, PoolNoDup
<1>7. \A u \in Thread : pc'[u] \in Handling => u # t /\ pc'[u] = pc[u]
  BY <1>1 DEF TypeOK, Handling
<1>8. ASSUME NEW u \in Thread, pc'[u] \in Handling PROVE tx[u].id # tx[t].id
  BY <1>1, <1>7, <1>8 DEF PoolInv, Handling
<1>9. ASSUME NEW u \in Thread PROVE HandledBy(u)' /\ Absent(u)'
  BY <1>1, <1>4, <1>7, <1>8 DEF PoolInv, HandledBy, Absent
<1>10. (\A u, v \in Thread : pc[u] \in Handling /\ pc[v] \in Handling /\ u # v =>
                               tx[u].id # tx[v].id)'
  BY <1>1, <1>7 DEF PoolInv
<1> QED BY <1>6, <1>9, <1>10 DEF PoolInv

LEMMA PoolNext ==
    ASSUME TypeOK, TypeOK', PoolInv, NEW t \in Thread, Call(t) \/ Step(t)
    PROVE  PoolInv'
<1> USE DEF shared, messages, counters, forging
<1>1. UNCHANGED pool => PoolShrinks
  BY DEF PoolShrinks
<1>2. uuid \in Nat
  BY DEF TypeOK
<1>3. ASSUME NEW l, l \notin Handling, PoolShrinks, UNCHANGED uuid \/ uuid' \in {uuid + 1, uuid + 2},
             pc' = [pc EXCEPT ![t] = l],
             UNCHANGED tx \/ tx' = [tx EXCEPT ![t] = NoTx]
      PROVE  PoolInv'
  <2>1. pc'[t] = l /\ \A u \in Thread : u # t => pc'[u] = pc[u] /\ tx'[u] = tx[u]
    BY <1>3 DEF TypeOK
  <2>2. uuid' >= uuid
    BY <1>2, <1>3
  <2> QED BY <1>3, <2>1, <2>2, PoolKept
<1>4. ASSUME NEW ok, NEW l \in Point, Check(t, ok, l), UNCHANGED <<pool, uuid>>,
             l \in Handling => pc[t] \in Handling /\
                 (pc[t] = "poolCheck" => (ok => \A s \in DOMAIN pool : pool[s].id # tx[t].id))
      PROVE  PoolInv'
  <2>1. CASE ok
    <3>1. pc' = [pc EXCEPT ![t] = l] /\ UNCHANGED tx
      BY <1>4, <2>1 DEF Check, Goto
    <3>2. pc'[t] = l /\ \A u \in Thread : u # t => pc'[u] = pc[u] /\ tx'[u] = tx[u]
      BY <3>1 DEF TypeOK
    <3>3. uuid' >= uuid /\ PoolShrinks /\ tx'[t] = tx[t]
      BY <1>1, <1>2, <1>4, <3>1
    <3> QED BY <1>4, <2>1, <3>2, <3>3, PoolKept
  <2>2. CASE ~ok
    BY <1>1, <1>3, <1>4, <2>2 DEF Check, Return, Goto, Handling
  <2> QED BY <2>1, <2>2
<1>5. CASE PoolCheck(t)
  <2>1. tx[t].id \notin PoolIds => \A s \in DOMAIN pool : pool[s].id # tx[t].id
    BY DEF PoolIds
  <2> QED BY <1>4, <1>5, <2>1 DEF PoolCheck, Handling, Point
<1>6. CASE ChainCheck(t)
  BY <1>4, <1>6 DEF ChainCheck, Handling, Point
<1>7. CASE Cover(t)
  BY <1>4, <1>7 DEF Cover, Handling, Point
<1>8. CASE Required(t)
  BY <1>4, <1>8 DEF Required, Handling, Point
<1>9. CASE CheckLink(t)
  BY <1>4, <1>9 DEF CheckLink, Handling, Point
<1>10. CASE CheckForger(t)
  BY <1>4, <1>10 DEF CheckForger, Handling, Point
<1>11. CASE Poll(t) \/ NextForger(t) \/ NextForgerAgain(t)
  BY <1>1, <1>3, <1>11 DEF Poll, NextForger, NextForgerAgain, Elect, Goto, Handling
<1>12. CASE Refund(t)
  BY <1>1, <1>3, <1>12 DEF Refund, Goto, Handling
<1>13. CASE Erase(t) \/ StartReward(t) \/ PayReward(t) \/ CreateBlock(t)
  BY <1>1, <1>3, <1>13 DEF Erase, StartReward, PayReward, CreateBlock, Goto, Handling
<1>14. CASE ClearPool(t)
  <2>1. PoolShrinks
    BY <1>1, <1>14 DEF ClearPool, PoolShrinks, NoTxs
  <2> QED BY <1>3, <1>14, <2>1 DEF ClearPool, Goto, Handling
<1>15. CASE Decide(t)
  BY <1>1, <1>3, <1>15 DEF Decide, Return, Goto, Handling
<1>16. CASE Charge(t)
  <2>1. PICK s \in DOMAIN todo[t] :
           \/ s \in DOMAIN pool /\ pool' = [pool EXCEPT ![s] = charge(pool[s])]
           \/ UNCHANGED pool
    BY <1>16 DEF Charge
  <2>2. \A x \in Tx : charge(x).id = x.id
    BY DEF charge, Tx
  <2>3. PoolShrinks
    BY <2>1, <2>2 DEF PoolShrinks, TypeOK, IsPool
  <2>4. pc[t] \notin Handling /\ UNCHANGED <<pc, tx, uuid>>
    BY <1>16 DEF Charge, Handling
  <2> QED BY <1>2, <2>3, <2>4, PoolKept
<1>17. CASE Execute(t) \/ Push(t) \/ Replay(t) \/ Assign(t)
  BY <1>1, <1>3, <1>17 DEF Execute, Push, Replay, Assign, Goto, Handling
<1>18. CASE RemoveFromPool(t)
  <2>1. PoolShrinks
    BY <1>18 DEF RemoveFromPool, Without, Restrict, PoolShrinks
  <2> QED BY <1>3, <1>18, <2>1 DEF RemoveFromPool, Return, Goto, Handling
<1>19. CASE ReceiveBlock(t) \/ AddBlock(t)
  BY <1>1, <1>3, <1>19 DEF ReceiveBlock, AddBlock, Goto, Handling
<1>20. CASE CheckCount(t)
  BY <1>1, <1>3, <1>20 DEF CheckCount, Goto, Handling
<1>21. CASE requestChain(t)
  BY <1>1, <1>3, <1>21 DEF requestChain, Return, Goto, Handling
<1>22. CASE ReceiveChain(t)
  <2>1. pc[t] = "idle" /\ UNCHANGED <<pool, tx, uuid>>
    BY <1>22 DEF ReceiveChain
  <2>2. pc' = [pc EXCEPT ![t] = "replay"] \/ UNCHANGED pc
    BY <1>22 DEF ReceiveChain, Goto
  <2>3. pc'[t] \notin Handling /\ \A u \in Thread : u # t => pc'[u] = pc[u] /\ tx'[u] = tx[u]
    BY <2>1, <2>2 DEF TypeOK, Handling
  <2>4. uuid' >= uuid /\ PoolShrinks
    BY <1>1, <1>2, <2>1
  <2> QED BY <2>3, <2>4, PoolKept
<1> QED
  BY PoolTakenUp, PoolAdded, <1>5, <1>6, <1>7, <1>8, <1>9, <1>10, <1>11, <1>12, <1>13,
     <1>14, <1>15, <1>16, <1>17, <1>18, <1>19, <1>20, <1>21, <1>22
  DEF Call, Step, Handle, Forge, Commit, Adopt, Download

\* The pool never holds two transactions with one id.
THEOREM PoolNoDupCorrect == Spec => []PoolNoDup
<1>1. Init => TypeOK /\ LockInv /\ PoolInv
  BY TypeInit, PoolInit
<1>2. TypeOK /\ LockInv /\ PoolInv /\ [Next]_vars => (TypeOK /\ LockInv /\ PoolInv)'
  <2> SUFFICES ASSUME TypeOK, LockInv, PoolInv, [Next]_vars
               PROVE  (TypeOK /\ LockInv /\ PoolInv)'
    OBVIOUS
  <2>1. TypeOK' /\ LockInv'
    BY TypeNext
  <2>2. CASE Next
    BY <2>1, <2>2, PoolNext DEF Next
  <2>3. CASE UNCHANGED vars
    BY <2>1, <2>3 DEF vars, shared, counters, PoolInv, PoolKnown, PoolNoDup, HandledBy, Absent
  <2> QED BY <2>1, <2>2, <2>3
<1>3. PoolInv => PoolNoDup
  BY DEF PoolInv, PoolKnown
<1> QED BY <1>1, <1>2, <1>3, PTL DEF Spec

-----------------------------------------------------------------------------
(***************************************************************************)
(* No transaction the node has broadcast disappears from it, unless an     *)
(* eviction emptied the pool.                                              *)
(***************************************************************************)
\* What a thread is about to take out of the pool is on the chain.
Recorded(t) == pc[t] = "remove" => Ids(block[t].txs) \subseteq ChainIds(blocks)

\* NothingLost, made inductive.
LossInv == NothingLost /\ \A t \in Thread : Recorded(t)

\* The ids that are accounted for somewhere never become fewer.
Keeps ==
    PoolIds \cup ChainIds(blocks) \cup dropped
        \subseteq PoolIds' \cup ChainIds(blocks') \cup dropped'

LEMMA LossInit == Init => LossInv
BY DEF Init, LossInv, NothingLost, Recorded

\* The chain only gets longer, and no id leaves it.
LEMMA ChainGrows ==
    ASSUME TypeOK, LockInv, NEW t \in Thread, Call(t) \/ Step(t)
    PROVE  /\ ChainIds(blocks) \subseteq ChainIds(blocks')
           /\ Push(t) => Ids(block[t].txs) \subseteq ChainIds(blocks')
<1>1. blocks \in Seq(Block) /\ block[t] \in Block /\ copy \in Seq(Block)
  BY DEF TypeOK
<1>2. CASE UNCHANGED blocks /\ ~Push(t)
  BY <1>2
<1>3. CASE Push(t)
  <2>1. blocks' = Append(blocks, block[t])
    BY <1>3 DEF Push
  <2>2. /\ \A i \in DOMAIN blocks : i \in DOMAIN blocks' /\ blocks'[i] = blocks[i]
        /\ Len(blocks) + 1 \in DOMAIN blocks' /\ blocks'[Len(blocks) + 1] = block[t]
    BY <1>1, <2>1
  <2> QED BY <1>3, <2>2 DEF ChainIds
<1>4. CASE Assign(t)
  <2>1. blocks' = copy /\ Len(copy) >= Len(blocks)
        /\ \A i \in 1..Len(blocks) : copy[i] = blocks[i]
    BY <1>4 DEF Assign, LockInv
  <2>2. \A i \in DOMAIN blocks : i \in DOMAIN blocks' /\ blocks'[i] = blocks[i]
    BY <1>1, <2>1
  <2>3. ~Push(t)
    BY <1>4 DEF Assign, Push
  <2> QED BY <2>2, <2>3 DEF ChainIds
<1> QED BY <1>2, <1>3, <1>4, ChainWriters

LEMMA KeepsNext ==
    ASSUME TypeOK, LockInv, LossInv, NEW t \in Thread, Call(t) \/ Step(t)
    PROVE  Keeps
<1> USE DEF shared, messages, counters
<1>1. ChainIds(blocks) \subseteq ChainIds(blocks')
  BY ChainGrows
<1>2. UNCHANGED <<pool, dropped>> => Keeps
  BY <1>1 DEF Keeps, PoolIds
<1>3. CASE \/ Submit(t) \/ ReceiveTx(t) \/ PoolCheck(t) \/ ChainCheck(t) \/ Cover(t) \/ Required(t)
           \/ Poll(t) \/ ReceiveBlock(t) \/ Adopt(t) \/ Download(t)
  BY <1>2, <1>3 DEF Submit, ReceiveTx, PoolCheck, ChainCheck, Cover, Required, Poll, ReceiveBlock,
                    Adopt, CheckCount, requestChain, CheckLink, CheckForger, AddBlock,
                    Download, ReceiveChain, Replay, Assign
<1>4. CASE \/ NextForger(t) \/ NextForgerAgain(t) \/ Refund(t) \/ Erase(t) \/ Decide(t)
           \/ StartReward(t) \/ PayReward(t) \/ CreateBlock(t) \/ Execute(t) \/ Push(t)
  BY <1>2, <1>4 DEF NextForger, NextForgerAgain, Elect, Refund, Erase, Decide, StartReward,
                    PayReward, CreateBlock, Execute, Push
<1>5. CASE Add(t)
  <2>1. stamp \notin DOMAIN pool
    BY DEF TypeOK, IsPool
  <2>2. \A s \in DOMAIN pool : s \in DOMAIN pool' /\ pool'[s] = pool[s]
    BY <1>5, <2>1 DEF Add, pushed
  <2> QED BY <1>1, <1>5, <2>2 DEF Add, Keeps, PoolIds
<1>6. CASE ClearPool(t)
  BY <1>1, <1>2, <1>6 DEF ClearPool, Keeps
<1>7. CASE Charge(t)
  <2>1. PICK s \in DOMAIN todo[t] :
           \/ s \in DOMAIN pool /\ pool' = [pool EXCEPT ![s] = charge(pool[s])]
           \/ UNCHANGED pool
    BY <1>7 DEF Charge
  <2>2. \A x \in Tx : charge(x).id = x.id
    BY DEF charge, Tx
  <2>3. \A u \in DOMAIN pool : u \in DOMAIN pool' /\ pool'[u].id = pool[u].id
    BY <2>1, <2>2 DEF TypeOK, IsPool
  <2>4. PoolIds \subseteq PoolIds'
    BY <2>3 DEF PoolIds
  <2> QED BY <1>1, <1>7, <2>4 DEF Charge, Keeps
<1>8. CASE RemoveFromPool(t)
  <2>1. \A s \in DOMAIN pool : pool[s].id \in Ids(block[t].txs) \/
            (s \in DOMAIN pool' /\ pool'[s] = pool[s])
    BY <1>8 DEF RemoveFromPool, Without, Restrict
  <2>2. PoolIds \subseteq PoolIds' \cup Ids(block[t].txs)
    BY <2>1 DEF PoolIds
  <2>3. Ids(block[t].txs) \subseteq ChainIds(blocks)
    BY <1>8 DEF RemoveFromPool, LossInv, Recorded
  <2> QED BY <1>1, <1>8, <2>2, <2>3 DEF RemoveFromPool, Keeps
<1> QED
  BY <1>3, <1>4, <1>5, <1>6, <1>7, <1>8 DEF Call, Step, Handle, Forge, Commit

\* Only a thread that has just pushed its block is about to clean the pool.
LEMMA RecordedNext ==
    ASSUME TypeOK, LockInv, LossInv, NEW t \in Thread, Call(t) \/ Step(t), NEW u \in Thread
    PROVE  Recorded(u)'
<1>1. ChainIds(blocks) \subseteq ChainIds(blocks')
  BY ChainGrows
<1>2. CASE u # t
  <2>1. pc'[u] = pc[u] /\ block'[u] = block[u]
    BY <1>2, OthersHold, OthersStay
  <2> QED BY <1>1, <2>1 DEF LossInv, Recorded
<1>3. CASE u = t /\ Push(t)
  <2>1. block'[t] = block[t]
    BY <1>3 DEF Push
  <2> QED BY <1>3, <2>1, ChainGrows DEF Recorded
<1>4. CASE u = t /\ ~Push(t)
  BY <1>4, OnlyPushed DEF Recorded
<1> QED BY <1>2, <1>3, <1>4

LEMMA LossNext ==
    ASSUME TypeOK, LockInv, LossInv, NEW t \in Thread, Call(t) \/ Step(t)
    PROVE  LossInv'
<1>1. Keeps
  BY KeepsNext
<1>2. CASE Add(t)
  <2>1. sent' \subseteq sent \cup {tx[t]} /\ pool' = pushed(pool, tx[t])
    BY <1>2 DEF Add
  <2>2. stamp \in DOMAIN pool' /\ pool'[stamp] = tx[t]
    BY <2>1 DEF pushed
  <2>3. tx[t].id \in PoolIds'
    BY <2>2 DEF PoolIds
  <2>4. NothingLost'
    BY <1>1, <2>1, <2>3 DEF LossInv, NothingLost, Keeps
  <2> QED BY <2>4, RecordedNext DEF LossInv
<1>3. CASE ~Add(t)
  <2>1. UNCHANGED sent
    BY <1>3, SentWriters
  <2>2. NothingLost'
    BY <1>1, <2>1 DEF LossInv, NothingLost, Keeps
  <2> QED BY <2>2, RecordedNext DEF LossInv
<1> QED BY <1>2, <1>3

\* A transaction the node has broadcast is in its pool, on its chain, or was
\* thrown away with a pool that was far too long: the purge after a block
\* (forge, handleBlock) takes out only what the chain holds already.
THEOREM NothingLostCorrect == Spec => []NothingLost
<1>1. Init => TypeOK /\ LockInv /\ LossInv
  BY TypeInit, LossInit
<1>2. TypeOK /\ LockInv /\ LossInv /\ [Next]_vars => (TypeOK /\ LockInv /\ LossInv)'
  <2> SUFFICES ASSUME TypeOK, LockInv, LossInv, [Next]_vars
               PROVE  (TypeOK /\ LockInv /\ LossInv)'
    OBVIOUS
  <2>1. TypeOK' /\ LockInv'
    BY TypeNext
  <2>2. CASE Next
    BY <2>1, <2>2, LossNext DEF Next
  <2>3. CASE UNCHANGED vars
    BY <2>1, <2>3 DEF vars, shared, messages, counters, LossInv, NothingLost, Recorded, PoolIds
  <2> QED BY <2>1, <2>2, <2>3
<1>3. LossInv => NothingLost
  BY DEF LossInv
<1> QED BY <1>1, <1>2, <1>3, PTL DEF Spec

-----------------------------------------------------------------------------
(***************************************************************************)
(* No transaction is taken in twice.  A worker's own is new until it is in *)
(* the pool.  A peer's reaches the node through the P2P thread alone, and  *)
(* what the other threads forge of the peers' transactions they have from  *)
(* the pool: what they still hold is in the pool, on the chain or dropped. *)
(***************************************************************************)
WithIds(N) == {x \in Tx : x.id \in N}

Numbered == AllIn(WithIds({n \in Int : n < uuid}))

Fresh(t) == t \in Api /\ pc[t] \in Handling => AllIn(WithIds(Int \ {tx[t].id}))

\* A forging thread holds numbers of ours, and of peers' transactions these.
Seen == {n \in Int : n < 0 => n \in PoolIds \cup ChainIds(blocks) \cup dropped}

Unseen(t) ==
    t = P2P /\ pc[t] \in {"cover", "add"} =>
        tx[t].id \notin ChainIds(blocks) \/ tx[t].id \in dropped

OnlyP2P(t) == pc[t] \in {"replay", "assign"} => t = P2P

ForgesSeen(t) == t # P2P => HeldIn(WithIds(Seen), t)

ReadInv ==
    /\ Numbered
    /\ \A t \in Thread : Fresh(t) /\ Unseen(t) /\ OnlyP2P(t) /\ ForgesSeen(t)

LEMMA ReadInit == Init => ReadInv
BY AllInInit DEF Init, ReadInv, Numbered, OnlyP2P, Fresh, Handling, Unseen, ForgesSeen, HeldIn,
                 InPool, InTxs, NoTxs, NoBlock, GenesisBlock

\* A fee or another key changes no number.
LEMMA WithIdsKept ==
    ASSUME NEW N
    PROVE  /\ WithIds(N) \subseteq Tx
           /\ \A x \in WithIds(N) : charge(x) \in WithIds(N) /\ keyed(x) \in WithIds(N)
<1>1. \A x \in Tx : charge(x) \in Tx /\ keyed(x) \in Tx /\ charge(x).id = x.id /\ keyed(x).id = x.id
  BY ChargeType, KeyedType DEF charge, keyed, Tx
<1> QED BY <1>1 DEF WithIds

LEMMA WithIdsClosed ==
    ASSUME NEW N, \A n \in Int : n < 0 => n \in N
    PROVE  Closed(WithIds(N))
<1>1. \A m \in RemoteTx : m \in Tx /\ m.id \in Int /\ m.id < 0
  BY ThreadAssumption DEF Tx
<1> QED BY <1>1, WithIdsKept DEF Closed, WithIds

LEMMA RewardId ==
    ASSUME NEW N, NEW n \in Int, n \in N, NEW a \in Address, NEW r \in Int
    PROVE  rewardTx(n, a, r) \in WithIds(N)
BY RewardType DEF rewardTx, WithIds

\* The counter is ahead of every number.
LEMMA NumberedNext ==
    ASSUME TypeOK, TypeOK', PoolInv, Numbered, NEW t \in Thread, Call(t) \/ Step(t)
    PROVE  Numbered'
<1> DEFINE Below(m) == WithIds({n \in Int : n < m})
<1>1. uuid \in Nat /\ uuid' \in Nat /\ uuid' >= uuid
  BY CounterGrows DEF TypeOK
<1>2. PICK S : S = Below(uuid')
  OBVIOUS
<1>3. AllIn(S)
  <2>1. Below(uuid) \subseteq S
    BY <1>1, <1>2 DEF WithIds
  <2> QED BY <2>1, AllInWider DEF Numbered
<1>4. Closed(S)
  <2> DEFINE N == {n \in Int : n < uuid'}
  <2>1. S = WithIds(N) /\ \A n \in Int : n < 0 => n \in N
    BY <1>1, <1>2
  <2> HIDE DEF N
  <2> QED BY <2>1, WithIdsClosed
<1>5. Add(t) => tx[t] \in S
  <2>1. tx[t] \in Tx /\ tx[t].id \in Int
    BY DEF TypeOK, Tx
  <2>2. Add(t) => tx[t].id < uuid
    BY DEF Add, PoolInv, HandledBy, Handling
  <2> QED BY <1>1, <1>2, <2>1, <2>2 DEF WithIds
<1>6. \A n \in Nat, a \in Address, r \in Int : uuid <= n /\ n < uuid' => rewardTx(n, a, r) \in S
  <2> DEFINE N == {n \in Int : n < uuid'}
  <2>1. S = WithIds(N) /\ \A n \in Nat : n < uuid' => n \in N
    BY <1>2
  <2> HIDE DEF N
  <2> QED BY <2>1, RewardId
<1>7. AllIn(S)'
  BY <1>3, <1>4, <1>5, <1>6, AllInNext
<1> QED BY <1>2, <1>7 DEF Numbered

\* A transaction a thread handles was taken up by it.
LEMMA HandlingStarts ==
    ASSUME TypeOK, NEW t \in Thread, Call(t) \/ Step(t), pc'[t] \in Handling
    PROVE  \/ Submit(t) \/ ReceiveTx(t)
           \/ pc[t] \in Handling /\ tx'[t] = tx[t] /\ ~Add(t)
BY DEF TypeOK, Handling, Call, Step, Handle, Forge, Commit, Adopt, Download, ReceiveBlock,
       PoolCheck, ChainCheck, Cover, Add, Required, Poll, NextForger, NextForgerAgain,
       Elect, Refund, Erase, ClearPool, Decide, StartReward, Charge, PayReward,
       CreateBlock, Execute, Push, RemoveFromPool, CheckCount, requestChain, CheckLink,
       CheckForger, AddBlock, ReceiveChain, Replay, Assign, Check, Return, Goto

\* What a worker is checking nobody else has.
LEMMA FreshNext ==
    ASSUME TypeOK, TypeOK', PoolInv, ReadInv, NEW t \in Thread, Call(t) \/ Step(t),
           NEW u \in Thread
    PROVE  Fresh(u)'
<1> SUFFICES ASSUME u \in Api, pc'[u] \in Handling PROVE AllIn(WithIds(Int \ {tx[u].id}))'
  BY DEF Fresh
<1>1. uuid \in Nat
  BY DEF TypeOK
<1>2. CASE u = t /\ Submit(t)
  <2>1. PICK S : S = WithIds({n \in Int : n < uuid})
    OBVIOUS
  <2>2. tx'[t].id = uuid
    BY <1>2 DEF Submit, TypeOK
  <2>3. AllIn(S)
    BY <2>1 DEF ReadInv, Numbered
  <2>4. AllIn(S)'
    BY <1>2, <2>3 DEF Submit, shared, forging, messages, AllIn, SharedIn, HeldIn
  <2>5. PICK T : T = WithIds(Int \ {uuid})
    OBVIOUS
  <2>6. S \subseteq T
    BY <1>1, <2>1, <2>5 DEF WithIds
  <2>7. AllIn(T)'
    BY <2>4, <2>6 DEF AllIn, SharedIn, HeldIn, InPool, InTxs, InBlocks
  <2> QED BY <1>2, <2>2, <2>5, <2>7
<1>3. CASE ~(u = t /\ Submit(t))
  <2>1. pc[u] \in Handling /\ tx'[u] = tx[u] /\ ~(u = t /\ Add(t))
    <3>1. ~(u = t /\ ReceiveTx(t))
      BY ThreadAssumption DEF ReceiveTx
    <3> QED BY <1>3, <3>1, HandlingStarts, OthersStay
  <2>2. PICK S : S = WithIds(Int \ {tx[u].id})
    OBVIOUS
  <2>3. tx[u].id \in Int /\ tx[u].id >= 0 /\ tx[u].id < uuid
    BY <2>1, ThreadAssumption DEF PoolInv, HandledBy, TypeOK, Tx
  <2>4. AllIn(S)
    BY <2>1, <2>2 DEF ReadInv, Fresh
  <2>5. Closed(S)
    <3>1. \A n \in Int : n < 0 => n \in Int \ {tx[u].id}
      BY <2>3
    <3> QED BY <2>2, <3>1, WithIdsClosed
  <2>6. Add(t) => tx[t] \in S
    <3>1. Add(t) => pc[t] \in Handling /\ t # u
      BY <2>1 DEF Add, Handling
    <3>2. Add(t) => tx[t].id # tx[u].id
      BY <2>1, <3>1 DEF PoolInv
    <3> QED BY <2>2, <3>2 DEF TypeOK, Tx, WithIds
  <2>7. \A n \in Nat, a \in Address, r \in Int : uuid <= n /\ n < uuid' => rewardTx(n, a, r) \in S
    <3>1. \A n \in Nat : uuid <= n => n \in Int \ {tx[u].id}
      BY <1>1, <2>3
    <3> QED BY <2>2, <3>1, RewardId
  <2>8. AllIn(S)'
    BY <2>4, <2>5, <2>6, <2>7, AllInNext
  <2> QED BY <2>1, <2>2, <2>8
<1> QED BY <1>2, <1>3

\* A forging thread takes nothing of a peer's but from the pool.
LEMMA ForgesSeenNext ==
    ASSUME TypeOK, LockInv, LossInv, ReadInv, NEW t \in Thread, Call(t) \/ Step(t),
           NEW u \in Thread
    PROVE  ForgesSeen(u)'
<1> SUFFICES ASSUME u # P2P PROVE HeldIn(WithIds(Seen), u)'
  BY DEF ForgesSeen
<1>1. PICK S : S = WithIds(Seen)
  OBVIOUS
<1>2. PICK T : T = WithIds(Seen')
  OBVIOUS
<1>3. S \subseteq T
  BY <1>1, <1>2, KeepsNext DEF Keeps, Seen, WithIds
<1>4. HeldIn(S, u)
  BY <1>1 DEF ReadInv, ForgesSeen
<1>5. CASE u # t
  <2>1. HeldIn(S, u)'
    BY <1>4, <1>5, OthersHold DEF HeldIn
  <2> QED BY <1>2, <1>3, <2>1 DEF HeldIn, InPool, InTxs
<1>6. CASE u = t
  <2>1. InPool(S, pool)
    BY <1>1 DEF TypeOK, IsPool, InPool, WithIds, Seen, PoolIds, Tx
  <2>2. ~ReceiveBlock(t)
    BY <1>6 DEF ReceiveBlock
  <2>3. PayReward(t) => rewardTx(uuid, Me, reward[t]) \in S
    <3>1. uuid \in Int /\ uuid \in Seen /\ Me \in Address /\ reward[t] \in Int
      BY LedgerAssumption, ThreadAssumption DEF TypeOK, Seen
    <3> QED BY <1>1, <3>1, RewardId
  <2>4. HeldIn(S, t)'
    BY <1>1, <1>4, <1>6, <2>1, <2>2, <2>3, WithIdsKept, HeldNext
  <2> QED BY <1>2, <1>3, <1>6, <2>4 DEF HeldIn, InPool, InTxs
<1> QED BY <1>5, <1>6

LEMMA OnlyP2PNext ==
    ASSUME TypeOK, ReadInv, NEW t \in Thread, Call(t) \/ Step(t), NEW u \in Thread
    PROVE  OnlyP2P(u)'
<1>1. CASE u # t
  BY <1>1, OthersStay DEF ReadInv, OnlyP2P
<1>2. CASE u = t /\ ReceiveChain(t)
  BY <1>2 DEF ReceiveChain, OnlyP2P
<1>3. CASE u = t /\ ~ReceiveChain(t)
  <2>1. pc'[t] \in {"replay", "assign"} => pc[t] = "replay"
    BY <1>3 DEF TypeOK, Call, Step, Handle, Forge, Commit, Adopt, Download, Submit, ReceiveTx,
       ReceiveBlock, PoolCheck, ChainCheck, Cover, Add, Required, Poll, NextForger,
       NextForgerAgain, Elect, Refund, Erase, ClearPool, Decide, StartReward, Charge, PayReward,
       CreateBlock, Execute, Push, RemoveFromPool, CheckCount, requestChain, CheckLink,
       CheckForger, AddBlock, Replay, Assign, Check, Return, Goto
  <2> QED BY <1>3, <2>1 DEF ReadInv, OnlyP2P
<1> QED BY <1>1, <1>2, <1>3

\* The block that another thread pushes while the P2P thread is past its checks
\* has no number that is neither in the pool nor on the chain.
LEMMA UnseenNext ==
    ASSUME TypeOK, LockInv, PoolInv, ReadInv, NEW t \in Thread, Call(t) \/ Step(t), NEW u \in Thread
    PROVE  Unseen(u)'
<1> SUFFICES ASSUME u = P2P, pc'[u] \in {"cover", "add"}
             PROVE  tx'[u].id \notin ChainIds(blocks') \/ tx'[u].id \in dropped'
  BY DEF Unseen
<1>1. dropped \subseteq dropped'
  BY DropsStay
<1>2. CASE u = t
  <2>1. ~Submit(t) /\ ~ReceiveTx(t) /\ ~Push(t) /\ ~Assign(t)
    BY <1>2 DEF Submit, ReceiveTx, Push, Assign, Goto, TypeOK
  <2>2. UNCHANGED blocks
    BY <2>1, ChainWriters
  <2>3. tx'[t] = tx[t]
    BY <1>2, <2>1, HandlingStarts DEF Handling
  <2>4. pc[t] = "cover" \/ ChainCheck(t)
    BY <1>2 DEF TypeOK, Call, Step, Handle, Forge, Commit, Adopt, Download, Submit, ReceiveTx,
       ReceiveBlock, PoolCheck, Cover, Add, Required, Poll, NextForger, NextForgerAgain,
       Elect, Refund, Erase, ClearPool, Decide, StartReward, Charge, PayReward,
       CreateBlock, Execute, Push, RemoveFromPool, CheckCount, requestChain, CheckLink,
       CheckForger, AddBlock, ReceiveChain, Replay, Assign, Check, Return, Goto
  <2>5. CASE pc[t] = "cover"
    BY <1>1, <1>2, <2>2, <2>3, <2>5 DEF ReadInv, Unseen
  <2>6. CASE ChainCheck(t)
    BY <1>2, <2>2, <2>3, <2>6 DEF ChainCheck, Check, Return, Goto, TypeOK
  <2> QED BY <2>4, <2>5, <2>6
<1>3. CASE u # t
  <2>1. pc[u] = pc'[u] /\ tx'[u] = tx[u]
    BY <1>3, OthersStay
  <2>2. tx[u].id \notin ChainIds(blocks) \/ tx[u].id \in dropped
    BY <2>1 DEF ReadInv, Unseen
  <2>3. ~Assign(t)
    BY <1>3 DEF Assign, ReadInv, OnlyP2P
  <2>4. CASE UNCHANGED blocks
    BY <1>1, <2>1, <2>2, <2>4
  <2>5. CASE Push(t)
    <3>1. blocks' = Append(blocks, block[t]) /\ blocks \in Seq(Block) /\ block[t] \in Block
      BY <2>5 DEF Push, TypeOK
    <3>2. ChainIds(blocks') \subseteq ChainIds(blocks) \cup Ids(block[t].txs)
      <4>1. \A i \in DOMAIN blocks' : \/ i \in DOMAIN blocks /\ blocks'[i] = blocks[i]
                                     \/ blocks'[i] = block[t]
        BY <3>1
      <4> QED BY <4>1 DEF ChainIds
    <3>3. Ids(block[t].txs) \subseteq Seen
      BY <1>3 DEF ReadInv, ForgesSeen, HeldIn, InTxs, WithIds, Ids
    <3>4. tx[u].id < 0 /\ tx[u].id \notin PoolIds
      BY <2>1, ThreadAssumption DEF PoolInv, HandledBy, Absent, Handling, PoolIds
    <3> QED BY <1>1, <2>1, <2>2, <3>2, <3>3, <3>4 DEF Seen
  <2> QED BY <2>3, <2>4, <2>5, ChainWriters
<1> QED BY <1>2, <1>3

LEMMA ReadStutter ==
    ASSUME ReadInv, UNCHANGED vars
    PROVE  ReadInv'
<1> USE DEF vars, shared, forging, messages, counters
<1>1. Numbered'
  <2>1. PICK S : S = WithIds({n \in Int : n < uuid})
    OBVIOUS
  <2>2. AllIn(S)'
    BY <2>1, AllInStutter DEF ReadInv, Numbered
  <2> QED BY <2>1, <2>2 DEF Numbered
<1>2. ASSUME NEW t \in Thread PROVE Fresh(t)'
  <2>1. PICK S : S = WithIds(Int \ {tx[t].id})
    OBVIOUS
  <2>2. AllIn(S) => AllIn(S)'
    BY AllInStutter
  <2> QED BY <2>1, <2>2 DEF ReadInv, Fresh
<1>3. ASSUME NEW t \in Thread PROVE (Unseen(t) /\ OnlyP2P(t))'
  BY DEF ReadInv, Unseen, OnlyP2P
<1>4. ASSUME NEW t \in Thread PROVE ForgesSeen(t)'
  <2>1. Seen' = Seen
    BY DEF Seen, PoolIds
  <2>2. PICK S : S = WithIds(Seen)
    OBVIOUS
  <2>3. HeldIn(S, t) => HeldIn(S, t)'
    BY DEF HeldIn
  <2> QED BY <2>1, <2>2, <2>3 DEF ReadInv, ForgesSeen
<1> QED BY <1>1, <1>2, <1>3, <1>4 DEF ReadInv

\* A transaction that has passed the checks is neither in the pool nor on the
\* chain, unless forge() threw a pool away: another thread may then still hold
\* in its block what a peer sends again.
THEOREM NoReadmissionCorrect == Spec => [](dropped = {} => NoReadmission)
<1> DEFINE Inv == TypeOK /\ LockInv /\ PoolInv /\ LossInv /\ ReadInv
<1>1. Init => Inv
  BY TypeInit, PoolInit, LossInit, ReadInit
<1>2. Inv /\ [Next]_vars => Inv'
  <2> SUFFICES ASSUME Inv, [Next]_vars PROVE Inv'
    OBVIOUS
  <2>1. TypeOK' /\ LockInv'
    BY TypeNext
  <2>2. CASE Next
    <3>1. PICK t \in Thread : Call(t) \/ Step(t)
      BY <2>2 DEF Next
    <3>2. PoolInv' /\ LossInv'
      BY <2>1, <3>1, PoolNext, LossNext
    <3>3. ReadInv'
      BY <2>1, <3>1, NumberedNext, FreshNext, ForgesSeenNext, OnlyP2PNext, UnseenNext DEF ReadInv
    <3> QED BY <2>1, <3>2, <3>3
  <2>3. CASE UNCHANGED vars
    <3>1. PoolInv'
      BY <2>3 DEF vars, shared, counters, PoolInv, PoolKnown, PoolNoDup, HandledBy, Absent
    <3>2. LossInv'
      BY <2>3 DEF vars, shared, messages, counters, LossInv, NothingLost, Recorded, PoolIds
    <3>3. ReadInv'
      BY <2>3, ReadStutter
    <3> QED BY <2>1, <3>1, <3>2, <3>3
  <2> QED BY <2>2, <2>3
<1>3. Inv => (dropped = {} => NoReadmission)
  <2> SUFFICES ASSUME Inv, dropped = {}, NEW t \in Thread, pc[t] \in {"cover", "add"}
               PROVE  tx[t].id \notin PoolIds \cup ChainIds(blocks)
    BY DEF NoReadmission
  <2>1. tx[t].id \notin PoolIds
    BY DEF PoolInv, Absent, Handling, PoolIds
  <2>2. CASE t \in Api
    <3>1. InBlocks(WithIds(Int \ {tx[t].id}), blocks)
      BY <2>2 DEF ReadInv, Fresh, Handling, AllIn, SharedIn
    <3> QED BY <2>1, <3>1 DEF InBlocks, InTxs, WithIds, ChainIds, Ids
  <2>3. CASE t = P2P
    BY <2>1, <2>3 DEF ReadInv, Unseen
  <2> QED BY <2>2, <2>3 DEF PoolInv, HandledBy, Handling
<1> QED BY <1>1, <1>2, <1>3, PTL DEF Spec
=============================================================================
