---------------------------- MODULE ChainProofs ----------------------------
(***************************************************************************)
(* Theorems about what the threads of a node put on its chain and what     *)
(* this makes of its ledger.  The blocks the node forges itself continue   *)
(* the chain; the node with its locks implements AtomicLedger; its ledger  *)
(* is what its chain makes of the genesis ledger, however the blocks got   *)
(* there; where its threads forge one after the other, all of them are     *)
(* linked; and the tokens stay what they were.  Types and locks are those  *)
(* of NodeProofs.                                                          *)
(***************************************************************************)
EXTENDS NodeProofs, SequenceTheorems

Continues(b) == b.count = Len(blocks) /\ b.lastHash = tip.hash

\* The blocks of a chain that we do not have are the peers'.
PeersBeyond(c) == \A i \in DOMAIN c : i > Len(blocks) => c[i].forger \in Peer

\* What a thread is about to put on the chain: a block of our own that
\* continues it, or blocks of peers.
InHand(t) ==
    /\ pc[t] \in {"execute", "push"} /\ block[t].forger = Me => Continues(block[t])
    /\ pc[t] \in {"count", "link", "forger", "adopt"} => block[t].forger \in Peer
    /\ pc[t] \in {"replay", "assign"} => PeersBeyond(copy)

\* OwnBlocksLinked, made inductive.  Nobody else holds the mutex between the
\* reading of the last hash and the push, so the block still continues the
\* chain; and what comes from outside is never forged by us.
OwnInv ==
    /\ OwnBlocksLinked
    /\ \A t \in Thread : InHand(t)
    /\ PeersBeyond(theirs)
    /\ \A a \in answers : \A i \in DOMAIN a.blocks : a.blocks[i].forger \in Peer

LEMMA OwnInit == Init => OwnInv
<1> SUFFICES ASSUME Init PROVE OwnInv
  OBVIOUS
<1>1. Len(blocks) = 1
  BY DEF Init
<1> QED BY <1>1 DEF Init, OwnInv, OwnBlocksLinked, InHand, PeersBeyond

\* A step that leaves the chain, and the chains of the peers, as they are.
LEMMA OwnKept ==
    ASSUME OwnInv, NEW t \in Thread, UNCHANGED <<blocks, theirs, copy, answers>>,
           \A u \in Thread : u # t => pc'[u] = pc[u] /\ block'[u] = block[u],
           InHand(t)'
    PROVE  OwnInv'
<1>1. OwnBlocksLinked' /\ PeersBeyond(theirs)'
  BY DEF OwnInv, OwnBlocksLinked, PeersBeyond
<1>2. ASSUME NEW u \in Thread, u # t PROVE InHand(u)'
  BY <1>2 DEF OwnInv, InHand, Continues, tip, PeersBeyond
<1>3. (\A a \in answers : \A i \in DOMAIN a.blocks : a.blocks[i].forger \in Peer)'
  BY DEF OwnInv
<1> QED BY <1>1, <1>2, <1>3 DEF OwnInv

\* Where a thread has nothing in hand.
Empty == Point \ {"execute", "push", "count", "link", "forger", "adopt", "replay", "assign"}

\* A call that ends, or goes on.
LEMMA OwnCheck ==
    ASSUME TypeOK, OwnInv, NEW t \in Thread, NEW ok,
           NEW l \in Point, Check(t, ok, l),
           l \in Empty \cup {"forger", "adopt"}, l \notin Empty => block[t].forger \in Peer,
           UNCHANGED <<blocks, theirs, copy, answers>>
    PROVE  OwnInv'
<1>1. CASE ok
  <2>1. pc' = [pc EXCEPT ![t] = l] /\ UNCHANGED block
    BY <1>1 DEF Check, Goto
  <2>2. InHand(t)'
    BY <2>1 DEF TypeOK, InHand, Empty
  <2> QED BY <2>1, <2>2, OwnKept DEF TypeOK
<1>2. CASE ~ok
  <2>1. pc' = [pc EXCEPT ![t] = "idle"] /\ block' = [block EXCEPT ![t] = NoBlock]
    BY <1>2 DEF Check, Return, Goto
  <2>2. InHand(t)'
    BY <2>1 DEF TypeOK, InHand
  <2> QED BY <2>1, <2>2, OwnKept DEF TypeOK
<1> QED BY <1>1, <1>2

LEMMA OwnNext ==
    ASSUME TypeOK, LockInv, OwnInv, NEW t \in Thread, Call(t) \/ Step(t)
    PROVE  OwnInv'
<1> USE DEF shared, messages, counters, forging
<1> DEFINE kept == UNCHANGED <<blocks, theirs, copy, answers>>
<1>1. ASSUME NEW l \in Empty, pc' = [pc EXCEPT ![t] = l], kept,
             UNCHANGED block \/ block' = [block EXCEPT ![t] = NoBlock]
      PROVE  OwnInv'
  <2>1. InHand(t)'
    BY <1>1 DEF TypeOK, InHand, Empty
  <2> QED BY <1>1, <2>1, OwnKept DEF TypeOK
<1>2. \A l \in {"idle", "poolCheck", "chainCheck", "cover", "add", "required", "next",
                "clog", "erase", "clear", "renext", "decide", "reward", "charge",
                "create", "remove", "request"} : l \in Empty /\ l \in Point
  BY DEF Empty, Point
<1>3. CASE Submit(t) \/ ReceiveTx(t) \/ Poll(t) \/ Add(t)
  BY <1>1, <1>2, <1>3 DEF Submit, ReceiveTx, Poll, Add, Goto
<1>4. CASE PoolCheck(t) \/ ChainCheck(t) \/ Cover(t) \/ Required(t)
  <2>1. ASSUME NEW ok, NEW l \in {"chainCheck", "cover", "add", "next"}, Check(t, ok, l), kept
        PROVE  OwnInv'
    <3>1. l \in Empty /\ l \in Point
      BY <1>2
    <3>2. UNCHANGED <<blocks, theirs, copy, answers>>
      BY <2>1
    <3> QED BY <2>1, <3>1, <3>2, OwnCheck
  <2>2. CASE PoolCheck(t)
    BY <2>1, <2>2 DEF PoolCheck
  <2>3. CASE ChainCheck(t)
    BY <2>1, <2>3 DEF ChainCheck
  <2>4. CASE Cover(t)
    BY <2>1, <2>4 DEF Cover
  <2>5. CASE Required(t)
    BY <2>1, <2>5 DEF Required
  <2> QED BY <1>4, <2>2, <2>3, <2>4, <2>5
<1>5. CASE NextForger(t) \/ NextForgerAgain(t)
  BY <1>1, <1>2, <1>5 DEF NextForger, NextForgerAgain, Elect, Goto
<1>6. CASE Refund(t)
  BY <1>1, <1>2, <1>6 DEF Refund, Goto
<1>7. CASE Erase(t) \/ ClearPool(t)
  BY <1>1, <1>2, <1>7 DEF Erase, ClearPool, Goto
<1>8. CASE Decide(t)
  BY <1>1, <1>2, <1>8 DEF Decide, Goto, Return
<1>9. CASE StartReward(t) \/ PayReward(t)
  BY <1>1, <1>2, <1>9 DEF StartReward, PayReward, Goto
<1>10. CASE Charge(t)
  <2>1. InHand(t)'
    BY <1>10 DEF Charge, InHand
  <2> QED BY <1>10, <2>1, OwnKept DEF Charge
<1>11. CASE CreateBlock(t)
  <2>1. PICK d \in Draw : block' = [block EXCEPT ![t] = newBlock(batch[t], d)]
    BY <1>11 DEF CreateBlock
  <2>2. pc' = [pc EXCEPT ![t] = "execute"] /\ kept
    BY <1>11 DEF CreateBlock, Goto
  <2>3. InHand(t)'
    BY <2>1, <2>2 DEF InHand, TypeOK, newBlock, Continues, tip
  <2> QED BY <2>1, <2>2, <2>3, OwnKept DEF TypeOK
<1>12. CASE Execute(t)
  <2>1. pc' = [pc EXCEPT ![t] = "push"] /\ kept /\ UNCHANGED block /\ pc[t] = "execute"
    BY <1>12 DEF Execute, Goto
  <2>2. InHand(t)'
    BY <2>1 DEF InHand, TypeOK, OwnInv, Continues, tip
  <2> QED BY <2>1, <2>2, OwnKept DEF TypeOK
<1>13. CASE Push(t)
  <2>1. /\ blocks' = Append(blocks, block[t]) /\ pc' = [pc EXCEPT ![t] = "remove"]
        /\ UNCHANGED <<block, theirs, copy, answers>> /\ pc[t] = "push"
    BY <1>13 DEF Push, Goto
  <2>2. blocks \in Seq(Block) /\ blocks # <<>> /\ block[t] \in Block
    BY DEF TypeOK
  <2>3. Len(blocks') = Len(blocks) + 1 /\ \A i \in 1..Len(blocks) : blocks'[i] = blocks[i]
    BY <2>1, <2>2
  <2>4. blocks'[Len(blocks) + 1] = block[t] /\ DOMAIN blocks' = 1..(Len(blocks) + 1)
    BY <2>1, <2>2
  <2>5. OwnBlocksLinked'
    <3> SUFFICES ASSUME NEW i \in 1..(Len(blocks) + 1), i > 1, blocks'[i].forger = Me
                 PROVE  blocks'[i].count = i - 1 /\ blocks'[i].lastHash = blocks'[i - 1].hash
      BY <2>4 DEF OwnBlocksLinked
    <3>1. CASE i \in 1..Len(blocks)
      BY <2>2, <2>3, <3>1 DEF OwnInv, OwnBlocksLinked
    <3>2. CASE i = Len(blocks) + 1
      <4>1. Continues(block[t])
        BY <2>1, <2>4, <3>2 DEF OwnInv, InHand
      <4> QED BY <2>2, <2>3, <2>4, <3>2, <4>1 DEF Continues, tip, Last
    <3> QED BY <2>2, <3>1, <3>2
  <2>6. \A u \in Thread : pc[u] \in Critical => u = t
    BY <2>1 DEF LockInv, Critical
  <2>7. \A u \in Thread : InHand(u)'
    BY <2>1, <2>6 DEF InHand, TypeOK, OwnInv, Critical
  <2>8. PeersBeyond(theirs)'
    BY <2>1, <2>2, <2>3 DEF PeersBeyond, OwnInv, TypeOK
  <2> QED BY <2>1, <2>5, <2>7, <2>8 DEF OwnInv
<1>14. CASE RemoveFromPool(t)
  BY <1>1, <1>2, <1>14 DEF RemoveFromPool, Return, Goto
<1>15. CASE ReceiveBlock(t)
  <2>1. /\ theirs' \in PeerChains /\ block' = [block EXCEPT ![t] = Last(theirs')]
        /\ pc' = [pc EXCEPT ![t] = "count"] /\ UNCHANGED <<blocks, copy, answers>>
    BY <1>15 DEF ReceiveBlock, Goto
  <2>2. Last(theirs').forger \in Peer /\ PeersBeyond(theirs)'
    BY <2>1, PeerChainType DEF PeersBeyond
  <2>3. OwnBlocksLinked'
    BY <2>1 DEF OwnInv, OwnBlocksLinked
  <2>4. InHand(t)'
    BY <2>1, <2>2 DEF InHand, TypeOK
  <2>5. ASSUME NEW u \in Thread, u # t PROVE InHand(u)'
    BY <2>1, <2>5 DEF InHand, OwnInv, TypeOK, Continues, tip, PeersBeyond
  <2> QED BY <2>1, <2>2, <2>3, <2>4, <2>5 DEF OwnInv
<1>16. CASE CheckCount(t)
  <2>1. PICK l \in {"link", "request"} : pc' = [pc EXCEPT ![t] = l]
    BY <1>16 DEF CheckCount, Goto
  <2>2. /\ theirs' = <<>> \/ theirs' = theirs
        /\ UNCHANGED <<blocks, block, copy, answers>> /\ pc[t] = "count"
    BY <1>16 DEF CheckCount
  <2>3. OwnBlocksLinked' /\ PeersBeyond(theirs)'
    BY <2>2 DEF OwnInv, OwnBlocksLinked, PeersBeyond
  <2>4. \A u \in Thread : InHand(u)'
    BY <2>1, <2>2 DEF InHand, OwnInv, TypeOK, Continues, tip, PeersBeyond
  <2> QED BY <2>2, <2>3, <2>4 DEF OwnInv
<1>17. CASE requestChain(t)
  <2> DEFINE missing == SubSeq(theirs, Len(blocks) + 1, Len(theirs))
  <2>1. /\ theirs' = <<>> /\ pc' = [pc EXCEPT ![t] = "idle"]
        /\ block' = [block EXCEPT ![t] = NoBlock] /\ UNCHANGED <<blocks, copy>>
    BY <1>17 DEF requestChain, Return, Goto
  <2>2. \/ answers' = answers
        \/ answers' = answers \cup {[blocks |-> missing, left |-> Answers]}
    BY <1>17 DEF requestChain
  <2>3. \A i \in DOMAIN missing : missing[i].forger \in Peer
    BY DEF TypeOK, OwnInv, PeersBeyond
  <2>4. (\A a \in answers : \A i \in DOMAIN a.blocks : a.blocks[i].forger \in Peer)'
    <3> HIDE DEF missing
    <3> QED BY <2>2, <2>3 DEF OwnInv
  <2>5. OwnBlocksLinked' /\ PeersBeyond(theirs)'
    BY <2>1 DEF OwnInv, OwnBlocksLinked, PeersBeyond
  <2>6. \A u \in Thread : InHand(u)'
    BY <2>1 DEF InHand, OwnInv, TypeOK, Continues, tip, PeersBeyond
  <2> QED BY <2>4, <2>5, <2>6 DEF OwnInv
<1>18. CASE CheckLink(t)
  BY <1>18, OwnCheck DEF CheckLink, OwnInv, InHand, Point
<1>19. CASE CheckForger(t)
  BY <1>19, OwnCheck DEF CheckForger, OwnInv, InHand, Point
<1>20. CASE AddBlock(t)
  <2>1. pc' = [pc EXCEPT ![t] = "execute"] /\ kept /\ UNCHANGED block /\ pc[t] = "adopt"
    BY <1>20 DEF AddBlock, Goto
  <2>2. block[t].forger # Me
    BY <2>1, ThreadAssumption DEF OwnInv, InHand
  <2>3. InHand(t)'
    BY <2>1, <2>2 DEF InHand, TypeOK
  <2> QED BY <2>1, <2>3, OwnKept DEF TypeOK
<1>21. CASE ReceiveChain(t)
  <2>1. PICK a \in answers :
        /\ answers' = taken(a)
        /\ \/ copy' = blocks \o a.blocks /\ pc' = [pc EXCEPT ![t] = "replay"]
           \/ UNCHANGED <<copy, pc>>
    BY <1>21 DEF ReceiveChain, Goto
  <2>2. UNCHANGED <<blocks, block, theirs>> /\ \A u \in Thread : pc[u] \notin Critical
    BY <1>21, ThreadAssumption DEF ReceiveChain, LockInv, Free
  <2>3. a.blocks \in Seq(Block) /\ blocks \in Seq(Block)
    BY DEF TypeOK
  <2>4. \A i \in DOMAIN a.blocks : a.blocks[i].forger \in Peer
    BY DEF OwnInv
  <2>5. PeersBeyond(blocks \o a.blocks)
    BY <2>3, <2>4 DEF PeersBeyond
  <2>6. OwnBlocksLinked' /\ PeersBeyond(theirs)'
    BY <2>2 DEF OwnInv, OwnBlocksLinked, PeersBeyond
  <2>7. InHand(t)'
    BY <1>21, <2>1, <2>2, <2>5 DEF InHand, TypeOK, PeersBeyond, ReceiveChain
  <2>8. ASSUME NEW u \in Thread, u # t PROVE InHand(u)'
    <3>1. pc'[u] = pc[u] /\ pc[u] \notin {"execute", "push", "replay", "assign"}
      BY <2>1, <2>2, <2>8 DEF TypeOK, Critical
    <3> QED BY <2>2, <3>1 DEF InHand, OwnInv
  <2>9. (\A b \in answers : \A i \in DOMAIN b.blocks : b.blocks[i].forger \in Peer)'
    <3>1. \A b \in taken(a) : b \in answers \/ b.blocks = a.blocks
      BY TakenType
    <3> QED BY <2>1, <3>1 DEF OwnInv
  <2> QED BY <2>6, <2>7, <2>8, <2>9 DEF OwnInv
<1>22. CASE Replay(t)
  <2>1. pc' = [pc EXCEPT ![t] = "assign"] /\ kept /\ UNCHANGED block /\ pc[t] = "replay"
    BY <1>22 DEF Replay, Goto
  <2>2. InHand(t)'
    BY <2>1 DEF InHand, TypeOK, OwnInv, PeersBeyond
  <2> QED BY <2>1, <2>2, OwnKept DEF TypeOK
<1>23. CASE Assign(t)
  <2>1. /\ blocks' = copy /\ copy' = <<>> /\ pc' = [pc EXCEPT ![t] = "idle"]
        /\ UNCHANGED <<block, theirs, answers>> /\ pc[t] = "assign"
    BY <1>23 DEF Assign, Goto
  <2>2. blocks \in Seq(Block) /\ copy \in Seq(Block) /\ Len(copy) >= Len(blocks)
        /\ \A i \in 1..Len(blocks) : copy[i] = blocks[i]
    BY <2>1 DEF TypeOK, LockInv
  <2>3. PeersBeyond(copy)
    BY <2>1 DEF OwnInv, InHand
  <2>4. OwnBlocksLinked'
    <3> SUFFICES ASSUME NEW i \in 1..Len(copy), i > 1, copy[i].forger = Me
                 PROVE  copy[i].count = i - 1 /\ copy[i].lastHash = copy[i - 1].hash
      BY <2>1, <2>2 DEF OwnBlocksLinked
    <3>1. i <= Len(blocks)
      BY <2>2, <2>3, ThreadAssumption DEF PeersBeyond
    <3>2. i \in 1..Len(blocks) /\ i - 1 \in 1..Len(blocks)
      BY <2>2, <3>1
    <3> QED BY <2>2, <3>2 DEF OwnInv, OwnBlocksLinked
  <2>5. \A u \in Thread : pc[u] \in Critical => u = t
    BY <2>1 DEF LockInv, Critical
  <2>6. \A u \in Thread : InHand(u)'
    BY <2>1, <2>5 DEF InHand, TypeOK, OwnInv, Critical
  <2>7. PeersBeyond(theirs)'
    BY <2>1, <2>2 DEF PeersBeyond, OwnInv, TypeOK
  <2> QED BY <2>1, <2>4, <2>6, <2>7 DEF OwnInv
<1> QED
  BY <1>3, <1>4, <1>5, <1>6, <1>7, <1>8, <1>9, <1>10, <1>11, <1>12, <1>13, <1>14,
     <1>15, <1>16, <1>17, <1>18, <1>19, <1>20, <1>21, <1>22, <1>23
  DEF Call, Step, Handle, Forge, Commit, Adopt, Download

ChainInv == TypeOK /\ LockInv /\ OwnInv

LEMMA ChainInvariant == Spec => []ChainInv
<1>1. Init => ChainInv
  BY TypeInit, OwnInit DEF ChainInv
<1>2. ChainInv /\ [Next]_vars => ChainInv'
  <2> SUFFICES ASSUME ChainInv, [Next]_vars PROVE ChainInv'
    OBVIOUS
  <2>1. TypeOK' /\ LockInv'
    BY TypeNext DEF ChainInv
  <2>2. CASE Next
    BY <2>1, <2>2, OwnNext DEF ChainInv, Next
  <2>3. CASE UNCHANGED vars
    BY <2>1, <2>3 DEF ChainInv, vars, shared, messages, OwnInv, OwnBlocksLinked,
       InHand, Continues, tip, PeersBeyond
  <2> QED BY <2>2, <2>3
<1> QED BY <1>1, <1>2, PTL DEF Spec

\* A block this node forged always continues the block it was put after.
THEOREM OwnBlocksCorrect == Spec => []OwnBlocksLinked
<1>1. ChainInv => OwnBlocksLinked
  BY DEF ChainInv, OwnInv
<1> QED BY <1>1, ChainInvariant, PTL

-----------------------------------------------------------------------------
(***************************************************************************)
(* The node implements AtomicLedger.  The step that executes a block, or   *)
(* replays a copy, is the abstract step; the push and the assignment are   *)
(* stuttering steps, for what they add is committed already.               *)
(***************************************************************************)
\* The forger between the refund of its stake and its removal.
EvictInv == \A t \in Thread : pc[t] = "erase" => forger[t] # Genesis

LEMMA EvictInit == Init => EvictInv
BY DEF Init, EvictInv

LEMMA EvictNext ==
    ASSUME TypeOK, EvictInv, NEW t \in Thread, Call(t) \/ Step(t)
    PROVE  EvictInv'
<1> USE DEF shared, messages, counters, forging
<1>1. CASE Refund(t)
  BY <1>1 DEF Refund, Goto, EvictInv, TypeOK
<1>2. CASE NextForger(t) \/ NextForgerAgain(t)
  <2>1. PICK k \in Key, l \in {"clog", "decide"} :
           forger' = [forger EXCEPT ![t] = k] /\ pc' = [pc EXCEPT ![t] = l]
    BY <1>2 DEF NextForger, NextForgerAgain, Elect, Goto
  <2> QED BY <2>1 DEF EvictInv, TypeOK
<1>3. ASSUME pc' = [pc EXCEPT ![t] = "idle"], forger' = [forger EXCEPT ![t] = NoKey]
      PROVE  EvictInv'
  BY <1>3 DEF EvictInv, TypeOK
<1>4. ASSUME NEW l \in Point \ {"erase"}, pc' = [pc EXCEPT ![t] = l], UNCHANGED forger
      PROVE  EvictInv'
  BY <1>4 DEF EvictInv, TypeOK
<1>5. CASE UNCHANGED <<pc, forger>>
  BY <1>5 DEF EvictInv
<1>6. Point \ {"erase"} =
         {"idle", "poolCheck", "chainCheck", "cover", "add", "required",
          "next", "clog", "clear", "renext", "decide", "reward",
          "charge", "create", "execute", "push", "remove",
          "count", "request", "link", "forger", "adopt", "replay", "assign"}
  BY DEF Point
<1>7. CASE Submit(t) \/ ReceiveTx(t) \/ ReceiveBlock(t) \/ Poll(t) \/ Add(t)
  BY <1>4, <1>6, <1>7 DEF Submit, ReceiveTx, ReceiveBlock, Poll, Add, Goto
<1>8. ASSUME NEW ok, NEW l \in Point \ {"erase"}, Check(t, ok, l)
      PROVE  EvictInv'
  BY <1>3, <1>4, <1>8 DEF Check, Return, Goto
<1>9. CASE PoolCheck(t)
  BY <1>6, <1>8, <1>9 DEF PoolCheck
<1>10. CASE ChainCheck(t)
  BY <1>6, <1>8, <1>10 DEF ChainCheck
<1>11. CASE Cover(t)
  BY <1>6, <1>8, <1>11 DEF Cover
<1>12. CASE Required(t)
  BY <1>6, <1>8, <1>12 DEF Required
<1>13. CASE Erase(t) \/ ClearPool(t) \/ StartReward(t) \/ PayReward(t) \/ CreateBlock(t)
  BY <1>4, <1>6, <1>13 DEF Erase, ClearPool, StartReward, PayReward, CreateBlock, Goto
<1>14. CASE Decide(t)
  BY <1>3, <1>4, <1>6, <1>14 DEF Decide, Return, Goto
<1>15. CASE Charge(t)
  BY <1>5, <1>15 DEF Charge
<1>16. CASE Execute(t) \/ Push(t) \/ Replay(t) \/ Assign(t)
  BY <1>4, <1>6, <1>16 DEF Execute, Push, Replay, Assign, Goto
<1>17. CASE RemoveFromPool(t) \/ requestChain(t)
  BY <1>3, <1>17 DEF RemoveFromPool, requestChain, Return, Goto
<1>18. CASE CheckCount(t) \/ AddBlock(t)
  BY <1>4, <1>6, <1>18 DEF CheckCount, AddBlock, Goto
<1>19. CASE CheckLink(t)
  BY <1>6, <1>8, <1>19 DEF CheckLink
<1>20. CASE CheckForger(t)
  BY <1>6, <1>8, <1>20 DEF CheckForger
<1>21. CASE ReceiveChain(t)
  BY <1>4, <1>5, <1>6, <1>21 DEF ReceiveChain, Goto
<1> QED
  BY <1>1, <1>2, <1>7, <1>9, <1>10, <1>11, <1>12, <1>13, <1>14, <1>15, <1>16, <1>17,
     <1>18, <1>19, <1>20, <1>21
  DEF Call, Step, Handle, Forge, Commit, Adopt, Download

\* What is committed, and that a step outside the lock scopes does not change it.
LEMMA Committed ==
    ASSUME TypeOK, LockInv, NEW t \in Thread
    PROVE  /\ pc[t] = "push" => committed = Append(blocks, block[t])
           /\ pc[t] = "assign" => committed = copy
           /\ pc[t] \in Critical \ {"push", "assign"} => committed = blocks
           /\ Free => committed = blocks
BY ThreadAssumption DEF committed, LockInv, Critical, Free

LEMMA CommittedNext ==
    ASSUME TypeOK', LockInv', NEW t \in Thread
    PROVE  /\ pc'[t] = "push" => committed' = Append(blocks', block'[t])
           /\ pc'[t] = "assign" => committed' = copy'
           /\ pc'[t] \in Critical \ {"push", "assign"} => committed' = blocks'
           /\ mutex' = Nobody => committed' = blocks'
BY ThreadAssumption DEF committed, LockInv, Critical

LEMMA CommittedKept ==
    ASSUME TypeOK, LockInv, NEW t \in Thread, pc[t] \notin Critical,
           UNCHANGED <<blocks, copy, mutex>>,
           \A u \in Thread : u # t => pc'[u] = pc[u] /\ block'[u] = block[u]
    PROVE  UNCHANGED committed
BY ThreadAssumption DEF committed, LockInv, Critical, TypeOK

\* A copy that begins with the chain is the chain and the rest of the copy.
LEMMA CopyType ==
    ASSUME NEW S, NEW s \in Seq(S), NEW c \in Seq(S), Len(c) >= Len(s),
           \A i \in 1..Len(s) : c[i] = s[i]
    PROVE  c = s \o SubSeq(c, Len(s) + 1, Len(c))
<1> DEFINE rest == SubSeq(c, Len(s) + 1, Len(c))
<1>1. rest \in Seq(S) /\ Len(rest) = Len(c) - Len(s)
  BY SubSeqType
<1>2. \A i \in 1..Len(rest) : rest[i] = c[Len(s) + i]
  OBVIOUS
<1>3. s \o rest \in Seq(S) /\ Len(s \o rest) = Len(c)
  <2> HIDE DEF rest
  <2> QED BY <1>1
<1>4. \A i \in 1..Len(c) : (s \o rest)[i] = c[i]
  <2> HIDE DEF rest
  <2> QED BY <1>1, <1>2
<1> QED
  <2> HIDE DEF rest
  <2>1. c = s \o rest
    BY <1>3, <1>4, SeqEqual
  <2> QED BY <2>1 DEF rest

LEMMA AtomicInit == Init => Atomic!Init
BY DEF Init, Atomic!Init, committed

\* Two steps commit blocks: the execution of a block and the replay of a copy.
LEMMA CommittedSteps ==
    ASSUME TypeOK, LockInv, TypeOK', LockInv', NEW t \in Thread, Call(t) \/ Step(t)
    PROVE  /\ Execute(t) => committed = blocks /\ committed' = Append(blocks, block[t])
           /\ Replay(t) => committed = blocks /\ committed' = copy
           /\ Execute(t) \/ Replay(t) \/ UNCHANGED committed
<1> USE DEF shared, messages, counters, forging
<1>1. /\ pc[t] = "push" => committed = Append(blocks, block[t])
      /\ pc[t] = "assign" => committed = copy
      /\ pc[t] \in Critical \ {"push", "assign"} => committed = blocks
      /\ Free => committed = blocks
  BY Committed
<1>2. /\ pc'[t] = "push" => committed' = Append(blocks', block'[t])
      /\ pc'[t] = "assign" => committed' = copy'
      /\ pc'[t] \in Critical \ {"push", "assign"} => committed' = blocks'
      /\ mutex' = Nobody => committed' = blocks'
  BY CommittedNext
<1> DEFINE aside == pc[t] \notin Critical /\ UNCHANGED <<blocks, copy, mutex>>
<1>3. ASSUME NEW ok, NEW l \in Point, Check(t, ok, l), aside
      PROVE  UNCHANGED committed
  <2>1. /\ pc' = [pc EXCEPT ![t] = "idle"] \/ pc' = [pc EXCEPT ![t] = l]
        /\ block' = [block EXCEPT ![t] = NoBlock] \/ block' = block
    BY <1>3 DEF Check, Return, Goto
  <2>2. \A u \in Thread : u # t => pc'[u] = pc[u] /\ block'[u] = block[u]
    BY <2>1 DEF TypeOK
  <2> QED BY <1>3, <2>2, CommittedKept
<1>4. ASSUME aside, NEW l, pc' = [pc EXCEPT ![t] = l],
             NEW b, UNCHANGED block \/ block' = [block EXCEPT ![t] = b]
      PROVE  UNCHANGED committed
  <2>1. \A u \in Thread : u # t => pc'[u] = pc[u] /\ block'[u] = block[u]
    BY <1>4 DEF TypeOK
  <2> QED BY <1>4, <2>1, CommittedKept
<1>5. ASSUME Submit(t) \/ ReceiveTx(t) \/ Poll(t) \/ Add(t) PROVE UNCHANGED committed
  BY <1>4, <1>5 DEF Submit, ReceiveTx, Poll, Add, Goto, Critical
<1>6. ASSUME ReceiveBlock(t) \/ CheckCount(t) PROVE UNCHANGED committed
  BY <1>4, <1>6 DEF ReceiveBlock, CheckCount, Goto, Critical
<1>7. ASSUME PoolCheck(t) PROVE UNCHANGED committed
  BY <1>3, <1>7 DEF PoolCheck, Critical, Point
<1>8. ASSUME ChainCheck(t) PROVE UNCHANGED committed
  BY <1>3, <1>8 DEF ChainCheck, Critical, Point
<1>9. ASSUME Cover(t) PROVE UNCHANGED committed
  BY <1>3, <1>9 DEF Cover, Critical, Point
<1>10. ASSUME Required(t) PROVE UNCHANGED committed
  BY <1>3, <1>10 DEF Required, Critical, Point
<1>11. ASSUME CheckLink(t) PROVE UNCHANGED committed
  BY <1>3, <1>11 DEF CheckLink, Critical, Point
<1>12. ASSUME CheckForger(t) PROVE UNCHANGED committed
  BY <1>3, <1>12 DEF CheckForger, Critical, Point
<1>13. ASSUME requestChain(t) \/ RemoveFromPool(t) PROVE UNCHANGED committed
  BY <1>4, <1>13 DEF requestChain, RemoveFromPool, Return, Goto, Critical
<1>14. ASSUME NextForger(t) \/ NextForgerAgain(t) \/ ClearPool(t) \/ Erase(t) PROVE UNCHANGED committed
  BY <1>4, <1>14 DEF NextForger, NextForgerAgain, Elect, ClearPool, Erase, Goto, Critical
<1>15. ASSUME Refund(t) PROVE UNCHANGED committed
  BY <1>4, <1>15 DEF Refund, Goto, Critical
<1>16. ASSUME Decide(t) PROVE UNCHANGED committed
  BY <1>4, <1>16 DEF Decide, Return, Goto, Critical
<1>17. ASSUME StartReward(t) \/ CreateBlock(t) \/ AddBlock(t) PROVE UNCHANGED committed
  <2>1. Free /\ UNCHANGED blocks
    BY <1>17 DEF StartReward, CreateBlock, AddBlock
  <2>2. pc'[t] \in {"charge", "execute"}
    BY <1>17 DEF StartReward, CreateBlock, AddBlock, Goto, TypeOK
  <2> QED BY <1>1, <1>2, <2>1, <2>2 DEF Critical
<1>18. ASSUME Charge(t) PROVE UNCHANGED committed
  BY <1>1, <1>2, <1>18 DEF Charge, Critical
<1>19. ASSUME PayReward(t) PROVE UNCHANGED committed
  BY <1>1, <1>2, <1>19 DEF PayReward, Critical
<1>20. Execute(t) => committed = blocks /\ committed' = Append(blocks, block[t])
  BY <1>1, <1>2 DEF Execute, Goto, Critical, TypeOK
<1>21. ASSUME Push(t) PROVE UNCHANGED committed
  BY <1>1, <1>2, <1>21 DEF Push
<1>22. ASSUME ReceiveChain(t) PROVE UNCHANGED committed
  <2>1. Free /\ UNCHANGED blocks /\ committed = blocks
    BY <1>1, <1>22 DEF ReceiveChain
  <2>2. mutex' = Nobody \/ pc'[t] = "replay"
    BY <1>22 DEF ReceiveChain, Free, Goto, TypeOK
  <2> QED BY <1>2, <2>1, <2>2 DEF Critical
<1>23. Replay(t) => committed = blocks /\ committed' = copy
  BY <1>1, <1>2 DEF Replay, Goto, Critical, TypeOK
<1>24. ASSUME Assign(t) PROVE UNCHANGED committed
  BY <1>1, <1>2, <1>24 DEF Assign
<1> QED
  BY <1>5, <1>6, <1>7, <1>8, <1>9, <1>10, <1>11, <1>12, <1>13, <1>14, <1>15, <1>16, <1>17,
     <1>18, <1>19, <1>20, <1>21, <1>22, <1>23, <1>24
  DEF Call, Step, Handle, Forge, Commit, Adopt, Download

\* Five steps write the ledger.
LEMMA LedgerWriters ==
    ASSUME NEW t \in Thread, Call(t) \/ Step(t)
    PROVE  \/ UNCHANGED ledger
           \/ Execute(t) \/ Replay(t) \/ Decide(t) \/ Refund(t) \/ Erase(t)
BY DEF Call, Step, Handle, Forge, Commit, Adopt, Download, Submit, ReceiveTx, ReceiveBlock,
       PoolCheck, ChainCheck, Cover, Add, Required, Poll, NextForger, NextForgerAgain,
       Elect, ClearPool, StartReward, Charge, PayReward, CreateBlock, Push,
       RemoveFromPool, CheckCount, requestChain, CheckLink, CheckForger, AddBlock,
       ReceiveChain, Assign, shared

LEMMA AtomicNext ==
    ASSUME TypeOK, LockInv, OwnInv, EvictInv, TypeOK', LockInv',
           NEW t \in Thread, Call(t) \/ Step(t)
    PROVE  Atomic!Next \/ UNCHANGED <<committed, ledger>>
<1> USE DEF shared, messages, counters, forging
<1>1. CASE Execute(t)
  <2>1. /\ committed = blocks /\ committed' = Append(blocks, block[t])
        /\ ledger' = executeTransactions(ledger, block[t].txs)
    BY <1>1, CommittedSteps DEF Execute
  <2>2. blocks \in Seq(Block) /\ blocks # <<>> /\ block[t] \in Block
    BY DEF TypeOK
  <2>3. committed'[Len(committed')] = block[t]
    BY <2>1, <2>2
  <2>4. block[t].forger = Me => block[t].count = Len(blocks)
                                /\ block[t].lastHash = blocks[Len(blocks)].hash
    BY <1>1 DEF Execute, OwnInv, InHand, Continues, tip, Last
  <2>5. Atomic!Extend
    BY <2>1, <2>3, <2>4 DEF Atomic!Extend, Atomic!Continues
  <2> QED BY <2>5 DEF Atomic!Next
<1>2. CASE Replay(t)
  <2>1. /\ committed = blocks /\ committed' = copy
        /\ ledger' = importBlocks(ledger, SubSeq(copy, Len(blocks) + 1, Len(copy)))
    BY <1>2, CommittedSteps DEF Replay, fresh
  <2>2. copy = blocks \o SubSeq(copy, Len(blocks) + 1, Len(copy))
    BY <1>2, CopyType DEF Replay, TypeOK, LockInv
  <2>3. Atomic!Download
    BY <2>1, <2>2 DEF Atomic!Download
  <2> QED BY <2>3 DEF Atomic!Next
<1>3. ASSUME ~Execute(t), ~Replay(t)
      PROVE  UNCHANGED committed
  BY <1>3, CommittedSteps
<1>4. CASE Refund(t)
  <2>1. \/ UNCHANGED ledger
        \/ forger[t] \in Key \ {Genesis} /\ ledger' = refundStake(ledger, forger[t])
    BY <1>4 DEF Refund, TypeOK
  <2> QED BY <1>1, <1>2, <1>3, <2>1 DEF Atomic!Next, Atomic!Refund
<1>5. CASE Erase(t)
  <2>1. forger[t] \in Key \ {Genesis} /\ ledger' = eraseStaker(ledger, forger[t])
    BY <1>5 DEF Erase, TypeOK, EvictInv
  <2> QED BY <1>1, <1>2, <1>3, <2>1 DEF Atomic!Next, Atomic!Evict
<1>6. CASE Decide(t)
  <2>1. \/ UNCHANGED ledger
        \/ forger[t] \in Key \ {Me} /\ ledger' = addAccount(ledger, Bare(forger[t]))
    BY <1>6 DEF Decide, TypeOK
  <2> QED BY <1>1, <1>2, <1>3, <2>1 DEF Atomic!Next, Atomic!Register
<1> QED BY <1>1, <1>2, <1>3, <1>4, <1>5, <1>6, LedgerWriters

\* To every thread that takes blockchainMutex, the chain and the ledger change
\* together, whatever the threads do between their steps.
THEOREM NodeImplementsAtomicLedger == Spec => AtomicSpec
<1>1. Init => TypeOK /\ LockInv /\ OwnInv /\ EvictInv /\ Atomic!Init
  BY TypeInit, OwnInit, EvictInit, AtomicInit
<1>2. TypeOK /\ LockInv /\ OwnInv /\ EvictInv /\ [Next]_vars =>
        (TypeOK /\ LockInv /\ OwnInv /\ EvictInv)' /\ [Atomic!Next]_<<committed, ledger>>
  <2> SUFFICES ASSUME TypeOK, LockInv, OwnInv, EvictInv, [Next]_vars
               PROVE  /\ (TypeOK /\ LockInv /\ OwnInv /\ EvictInv)'
                      /\ [Atomic!Next]_<<committed, ledger>>
    OBVIOUS
  <2>1. TypeOK' /\ LockInv'
    BY TypeNext
  <2>2. CASE Next
    <3>1. PICK t \in Thread : Call(t) \/ Step(t)
      BY <2>2 DEF Next
    <3> QED BY <2>1, <3>1, OwnNext, EvictNext, AtomicNext
  <2>3. CASE UNCHANGED vars
    <3>1. OwnInv' /\ EvictInv'
      BY <2>3 DEF vars, shared, messages, forging, OwnInv, OwnBlocksLinked,
         InHand, Continues, tip, PeersBeyond, EvictInv
    <3>2. UNCHANGED <<committed, ledger>>
      BY <2>3 DEF vars, shared, messages, committed
    <3> QED BY <2>1, <3>1, <3>2
  <2> QED BY <2>2, <2>3
<1> QED BY <1>1, <1>2, PTL DEF Spec, AtomicSpec, Atomic!Spec

-----------------------------------------------------------------------------
(***************************************************************************)
(* Transactions come from the users, from the peers and from the rewards.  *)
(* What all of these are, all transactions in the node are.                *)
(***************************************************************************)
\* The transaction that /transact makes of a request.
asked(n, r) ==
    [id |-> n, type |-> r.type, sender |-> r.sender, receiver |-> r.receiver,
     amount |-> r.amount, key |-> publicKey(r.sender)]

Sourced(S) ==
    /\ Closed(S) /\ NoTx \in S
    /\ \A n \in Nat, r \in Requests : asked(n, r) \in S
    /\ \A n \in Nat, a \in Address, v \in Int : rewardTx(n, a, v) \in S

\* Whatever the node holds or handles.
Holds(S) == AllIn(S) /\ \A t \in Thread : tx[t] \in S

LEMMA HoldsInit == ASSUME NEW S, Sourced(S), Init PROVE Holds(S)
BY AllInInit DEF Init, Holds, Sourced

LEMMA HoldsNext ==
    ASSUME TypeOK, NEW S, Sourced(S), Holds(S), NEW t \in Thread, Call(t) \/ Step(t)
    PROVE  Holds(S)'
<1>1. AllIn(S)'
  BY AllInNext DEF Holds, Sourced
<1>2. CASE Submit(t)
  <2>1. PICK r \in Requests : tx' = [tx EXCEPT ![t] = asked(uuid, r)]
    BY <1>2 DEF Submit, asked
  <2>2. asked(uuid, r) \in S
    BY DEF Sourced, TypeOK
  <2> QED BY <1>1, <2>1, <2>2 DEF Holds, TypeOK
<1>3. CASE ReceiveTx(t)
  <2>1. PICK m \in RemoteTx : tx' = [tx EXCEPT ![t] = m]
    BY <1>3 DEF ReceiveTx
  <2>2. m \in S
    BY DEF Sourced, Closed
  <2> QED BY <1>1, <2>1, <2>2 DEF Holds, TypeOK
<1>4. CASE ~Submit(t) /\ ~ReceiveTx(t)
  <2>1. UNCHANGED tx \/ tx' = [tx EXCEPT ![t] = NoTx]
    BY <1>4, TxWriters
  <2> QED BY <1>1, <2>1 DEF Holds, Sourced, TypeOK
<1> QED BY <1>2, <1>3, <1>4

LEMMA HoldsStutter == ASSUME NEW S, Holds(S), UNCHANGED vars PROVE Holds(S)'
BY AllInStutter DEF Holds, vars

(***************************************************************************)
(* The two rules by which blocks are executed differ only for a STAKE that *)
(* is addressed to somebody else.  Where none is asked for, none is ever   *)
(* in a pool, in a block or on its way.                                    *)
(***************************************************************************)
StakesForOneself ==
    /\ \A r \in Requests : SelfStake(r)
    /\ \A m \in RemoteTx : SelfStake(m)

SelfInv == Holds(SelfTx)

LEMMA AskedType ==
    ASSUME NEW n \in Nat, NEW r \in Requests
    PROVE  asked(n, r) \in Tx
BY ThreadAssumption, LedgerAssumption DEF asked, Tx, Key, publicKey

LEMMA SourcedSelf == ASSUME StakesForOneself PROVE Sourced(SelfTx)
<1>1. \A x \in SelfTx : charge(x) \in SelfTx /\ keyed(x) \in SelfTx
  BY SelfKept, ChargeType, KeyedType DEF SelfTx
<1>2. RemoteTx \subseteq SelfTx
  BY ThreadAssumption DEF StakesForOneself, SelfTx
<1>3. NoTx \in SelfTx
  BY DrawType DEF NoTx, SelfTx, SelfStake
<1>4. \A n \in Nat, r \in Requests : asked(n, r) \in SelfTx
  BY AskedType DEF StakesForOneself, asked, SelfTx, SelfStake
<1>5. \A n \in Nat, a \in Address, v \in Int : rewardTx(n, a, v) \in SelfTx
  BY RewardType, SelfReward DEF SelfTx
<1>6. SelfTx \subseteq Tx
  BY DEF SelfTx
<1> QED BY <1>1, <1>2, <1>3, <1>4, <1>5, <1>6 DEF Closed, Sourced

-----------------------------------------------------------------------------
(***************************************************************************)
(* LedgerMatchesChain, made inductive: between the execution of a block    *)
(* and its push the chain that counts is the committed one.                *)
(***************************************************************************)
\* No forger is on its way out: one that is keeps its refund and has lost its
\* stake, which no transaction on the chain says.
NobodyEvicted == \A t \in Thread : pc[t] # "erase"

Accounted == Same(ledger, replayed(committed))

LEMMA AccountedInit == Init => Accounted
<1> SUFFICES ASSUME Init PROVE Accounted
  OBVIOUS
<1>1. PICK first \in GenesisBlocks : blocks = <<first>>
  BY DEF Init
<1>2. first.txs = <<>>
  BY DEF GenesisBlocks, GenesisBlock
<1>3. committed = <<first>> /\ ledger = GenesisLedger
  BY <1>1 DEF Init, committed
<1> QED BY <1>2, <1>3, ReplayGenesis, GenesisSame DEF Accounted

LEMMA AccountedNext ==
    ASSUME TypeOK, LockInv, Accounted, TypeOK', LockInv', NobodyEvicted, NobodyEvicted',
           NEW t \in Thread, Call(t) \/ Step(t), Replay(t) => SelfInv
    PROVE  Accounted'
<1>1. CASE Execute(t)
  <2>1. /\ committed = blocks /\ committed' = Append(blocks, block[t])
        /\ ledger' = executeTransactions(ledger, block[t].txs)
    BY <1>1, CommittedSteps DEF Execute
  <2>2. blocks \in Seq(Block) /\ block[t] \in Block /\ block[t].txs \in Seq(Tx)
    BY DEF TypeOK, Block
  <2>3. replayed(committed') = executeTransactions(replayed(blocks), block[t].txs)
    BY <2>1, <2>2, ReplayAppend
  <2> QED BY <2>1, <2>2, <2>3, ExecutionSame DEF Accounted
<1>2. CASE Replay(t)
  <2>1. /\ committed = blocks /\ committed' = copy
        /\ pc[t] = "replay" /\ ledger' = importBlocks(ledger, fresh)
    BY <1>2, CommittedSteps DEF Replay
  <2>2. blocks \in Seq(Block) /\ copy \in Seq(Block) /\ fresh \in Seq(Block)
    <3>1. blocks \in Seq(Block) /\ copy \in Seq(Block)
      BY DEF TypeOK
    <3>2. Len(blocks) + 1 \in Nat \ {0}
      BY <3>1
    <3>3. SubSeq(copy, Len(blocks) + 1, Len(copy)) \in Seq(Block)
      BY <3>1, <3>2, SubSeqType
    <3> QED BY <3>1, <3>3 DEF fresh
  <2>3. copy = blocks \o fresh
    BY <2>1, <2>2, CopyType DEF LockInv, fresh
  <2>4. SelfBlocks(fresh)
    BY <1>2, <2>2 DEF SelfInv, Holds, AllIn, SharedIn, InBlocks, InTxs, SelfTx, SelfBlocks,
       SelfStakes, fresh
  <2> HIDE DEF fresh
  <2>5. replayed(copy) = importBlocks(replayed(blocks), fresh)
    BY <2>2, <2>3, <2>4, ReplayConcat DEF SelfBlocks
  <2>6. Same(importBlocks(ledger, fresh), importBlocks(replayed(blocks), fresh))
    BY <2>1, <2>2, <2>4, DownloadSame DEF Accounted, SelfBlocks
  <2> QED BY <2>1, <2>5, <2>6 DEF Accounted
<1>3. ASSUME ~Execute(t), ~Replay(t)
      PROVE  Accounted'
  <2>1. UNCHANGED committed
    BY <1>3, CommittedSteps
  <2>2. CASE Decide(t)
    <3>1. UNCHANGED ledger \/ ledger' = addAccount(ledger, Bare(forger[t]))
      BY <2>2 DEF Decide
    <3> QED BY <2>1, <3>1, AddAccountSame DEF Accounted, TypeOK
  <2>3. CASE Refund(t) \/ Erase(t)
    <3>1. UNCHANGED ledger
      BY <2>3 DEF Refund, Erase, Goto, TypeOK, NobodyEvicted
    <3> QED BY <2>1, <3>1 DEF Accounted
  <2> QED BY <1>3, <2>1, <2>2, <2>3, LedgerWriters DEF Accounted
<1> QED BY <1>1, <1>2, <1>3

ReplayInv == TypeOK /\ LockInv /\ SelfInv /\ Accounted

LEMMA AccountedCorrect == ReplayInv => LedgerMatchesChain
<1> SUFFICES ASSUME ReplayInv, Free PROVE LedgerMatchesChain
  BY DEF LedgerMatchesChain
<1>1. committed = blocks
  BY DEF committed, Free
<1> QED BY <1>1 DEF ReplayInv, Accounted, Same, LedgerMatchesChain, getBalance

\* Whoever takes blockchainMutex finds the ledger that the chain makes, as long
\* as nobody is evicted and every STAKE is for its own sender (Node.cpp:352 would
\* credit any other when a chain is downloaded, Blockchain.cpp:175 when it is
\* executed would not).
THEOREM LedgerCorrect ==
    ASSUME StakesForOneself
    PROVE  Spec /\ []NobodyEvicted => []LedgerMatchesChain
<1>1. Init => ReplayInv
  BY TypeInit, SourcedSelf, HoldsInit, AccountedInit DEF ReplayInv, SelfInv
<1>2. ReplayInv /\ NobodyEvicted /\ NobodyEvicted' /\ [Next]_vars => ReplayInv'
  <2> SUFFICES ASSUME ReplayInv, NobodyEvicted, NobodyEvicted', [Next]_vars PROVE ReplayInv'
    OBVIOUS
  <2>1. TypeOK' /\ LockInv'
    BY TypeNext DEF ReplayInv
  <2>2. CASE Next
    <3>1. PICK t \in Thread : Call(t) \/ Step(t)
      BY <2>2 DEF Next
    <3>2. SelfInv'
      BY <3>1, SourcedSelf, HoldsNext DEF ReplayInv, SelfInv
    <3>3. Accounted'
      BY <2>1, <3>1, AccountedNext DEF ReplayInv
    <3> QED BY <2>1, <3>2, <3>3 DEF ReplayInv
  <2>3. CASE UNCHANGED vars
    <3>1. SelfInv'
      BY <2>3, HoldsStutter DEF ReplayInv, SelfInv
    <3>2. UNCHANGED <<committed, ledger>>
      BY <2>3 DEF vars, shared, messages, committed
    <3> QED BY <2>1, <3>1, <3>2 DEF ReplayInv, Accounted
  <2> QED BY <2>2, <2>3
<1> QED BY <1>1, <1>2, AccountedCorrect, PTL DEF Spec

-----------------------------------------------------------------------------
(***************************************************************************)
(* LinkedChain.  handleBlock checks that a block fits, then lets go of the *)
(* lock, and adds the block without looking again; forge looks up who wins *)
(* and makes the block in two lock scopes.  While threads forge one after  *)
(* the other, nothing gets in between: whoever is to add a block to the    *)
(* last one is the winner of one lottery, which all nodes run on one       *)
(* ledger.                                                                 *)
(***************************************************************************)
\* The thread has won the lottery and has not yet made its block.
Won(t) == pc[t] \in {"clog", "decide", "reward", "charge", "create"} /\ forger[t] = Me

\* The thread has made a block and has not yet added it.
Made(t) == pc[t] \in {"execute", "push"} /\ block[t].forger = Me

\* What no lock of the code sees to: of the workers, the poller and the P2P
\* thread no two forge at once, and no answer to a request is appended.
OneAtATime ==
    /\ \A t, u \in Thread : (Won(t) \/ Made(t)) /\ (Won(u) \/ Made(u)) => t = u
    /\ \A t \in Thread : pc[t] \notin {"replay", "assign"}

\* The steps of handleBlock at which the block is not yet being added.
Checking == {"count", "link", "forger", "adopt"}

\* The P2P thread has a peer's block in hand.
Adopts ==
    \/ pc[P2P] \in Checking
    \/ pc[P2P] \in {"execute", "push"} /\ block[P2P].forger # Me

\* The other threads adopt nothing, and download nothing.
Roles ==
    \A t \in Thread \ {P2P} :
        /\ pc[t] \notin Checking \cup {"request"}
        /\ pc[t] \in {"execute", "push"} => block[t].forger = Me

Linked ==
    /\ LinkedChain /\ blocks[1].count = 0
    /\ \A i \in DOMAIN blocks : blocks[i].hash.id < uuid
    /\ \A i, j \in DOMAIN blocks : blocks[i].hash.id = blocks[j].hash.id => i = j

Unused(id) == \A i \in DOMAIN blocks : blocks[i].hash.id # id

\* The number by which the block of a forging thread will be known.
hashId(t) == IF pc[t] = "create" THEN Last(batch[t]).id ELSE block[t].hash.id

\* What forges here forges on the last block, and under a new number.
Ours(t) ==
    /\ pc[t] \in {"reward", "charge", "create"} => forger[t] = Me
    /\ Won(t) => forgerOf(ledger, tip.lastHash) = Me
    /\ Made(t) => pc[P2P] \notin {"forger", "adopt"}
    /\ pc[t] = "create" \/ Made(t) =>
          /\ hashId(t) < uuid /\ Unused(hashId(t))
          /\ Adopts => hashId(t) # block[P2P].hash.id /\ hashId(t) # block[P2P].lastHash.id

\* Where a peer has put its block, the lottery was the peer's.
MadeFor(b) ==
    \A i \in DOMAIN blocks : blocks[i].hash.id = b.lastHash.id =>
        /\ b.count = blocks[i].count + 1 /\ b.lastHash = blocks[i].hash
        /\ b.forger = forgerOf(replayed(SubSeq(blocks, 1, i)), blocks[i].lastHash)

\* The block of a peer that passed the checks still fits, and we are not the
\* ones to add a block here.
Theirs ==
    /\ Adopts =>
          /\ block[P2P].forger \in Peer /\ Unused(block[P2P].hash.id)
          /\ block[P2P].hash.id < uuid /\ block[P2P].lastHash.id < uuid
    /\ pc[P2P] \in {"count", "link"} => MadeFor(block[P2P])
    /\ Adopts /\ pc[P2P] \notin {"count", "link"} => Continues(block[P2P])
    /\ pc[P2P] \in {"forger", "adopt"} => forgerOf(ledger, tip.lastHash) # Me
    /\ Adopts /\ pc[P2P] \in {"execute", "push"} => \A t \in Thread : ~Won(t)

LinkInv == Roles /\ Linked /\ Theirs /\ \A t \in Thread : Ours(t)

LEMMA LinkInit == Init => LinkInv
<1> SUFFICES ASSUME Init PROVE LinkInv
  OBVIOUS
<1>1. PICK first \in GenesisBlocks : blocks = <<first>>
  BY DEF Init
<1>2. first.count = 0 /\ first.hash.id = 1
  BY DEF GenesisBlocks, GenesisBlock
<1>3. DOMAIN blocks = {1} /\ blocks[1] = first /\ uuid = 2
  BY <1>1 DEF Init
<1>4. Linked
  BY <1>2, <1>3 DEF Linked, LinkedChain
<1>5. \A t \in Thread : pc[t] = "idle"
  BY DEF Init
<1>6. P2P \in Thread
  BY DEF Thread
<1> QED BY <1>4, <1>5, <1>6 DEF LinkInv, Roles, Ours, Theirs, Won, Made, Adopts, Checking

\* The lottery looks at the stakes only.
LEMMA LotterySame ==
    ASSUME NEW l, NEW m, l.stakers = m.stakers, NEW seed
    PROVE  forgerOf(l, seed) = forgerOf(m, seed)
<1>1. ASSUME NEW k PROVE tickets(l, k) = tickets(m, k)
  <2>1. getStake(l, k) = getStake(m, k)
    BY DEF getStake
  <2> QED BY <2>1 DEF tickets
<1>2. validatorLots(l) = validatorLots(m)
  BY <1>1 DEF validatorLots
<1> QED BY <1>2 DEF forgerOf

\* A block that continues the chain may be added to it.
LEMMA LinkedAppend ==
    ASSUME TypeOK, Linked, NEW b \in Block, Continues(b), Unused(b.hash.id), b.hash.id < uuid,
           blocks' = Append(blocks, b), UNCHANGED uuid
    PROVE  /\ Linked'
           /\ \A id : Unused(id) /\ id # b.hash.id => Unused(id)'
           /\ \A c : MadeFor(c) /\ c.lastHash.id # b.hash.id => MadeFor(c)'
<1> DEFINE n == Len(blocks)
           m == n + 1
<1>1. blocks \in Seq(Block) /\ n \in Nat \ {0} /\ uuid \in Nat
  BY DEF TypeOK
<1>2. /\ DOMAIN blocks = 1..n /\ DOMAIN blocks' = 1..m /\ blocks'[m] = b
      /\ \A i \in 1..n : blocks'[i] = blocks[i]
  BY <1>1
<1>3. b.count = n /\ b.lastHash = blocks[n].hash
  BY <1>1 DEF Continues, tip, Last
<1>4. \A i \in 1..m : i \in 1..n \/ i = m
  BY <1>1
<1>5. LinkedChain' /\ (blocks[1].count = 0)'
  <2> SUFFICES ASSUME NEW i \in 1..m, i > 1
               PROVE  blocks'[i].count = i - 1 /\ blocks'[i].lastHash = blocks'[i - 1].hash
    BY <1>1, <1>2 DEF LinkedChain, Linked
  <2>1. CASE i \in 1..n
    <3>1. i - 1 \in 1..n
      BY <1>1, <2>1
    <3> QED BY <1>2, <2>1, <3>1 DEF Linked, LinkedChain
  <2>2. CASE i = m
    <3>1. i - 1 = n /\ n \in 1..n
      BY <1>1, <2>2
    <3> QED BY <1>2, <1>3, <2>2, <3>1
  <2> QED BY <1>4, <2>1, <2>2
<1>6. (\A i \in DOMAIN blocks : blocks[i].hash.id < uuid)'
  BY <1>2, <1>4 DEF Linked
<1>7. \A i \in 1..n : blocks[i].hash.id # b.hash.id
  BY <1>2 DEF Unused
<1>8. (\A i, j \in DOMAIN blocks : blocks[i].hash.id = blocks[j].hash.id => i = j)'
  <2> SUFFICES ASSUME NEW i \in 1..m, NEW j \in 1..m, blocks'[i].hash.id = blocks'[j].hash.id
               PROVE  i = j
    BY <1>2
  <2>1. CASE i = m \/ j = m
    BY <1>2, <1>4, <1>7, <2>1
  <2>2. CASE i \in 1..n /\ j \in 1..n
    BY <1>2, <2>2 DEF Linked
  <2> QED BY <1>4, <2>1, <2>2
<1>9. \A id : Unused(id) /\ id # b.hash.id => Unused(id)'
  BY <1>2, <1>4 DEF Unused
<1>10. ASSUME NEW c, MadeFor(c), c.lastHash.id # b.hash.id
       PROVE  MadeFor(c)'
  <2> SUFFICES ASSUME NEW i \in 1..m, blocks'[i].hash.id = c.lastHash.id
               PROVE  /\ c.count = blocks'[i].count + 1 /\ c.lastHash = blocks'[i].hash
                      /\ c.forger = forgerOf(replayed(SubSeq(blocks', 1, i)), blocks'[i].lastHash)
    BY <1>2 DEF MadeFor
  <2>1. i \in 1..n
    BY <1>2, <1>4, <1>10
  <2>2. SubSeq(blocks', 1, i) = SubSeq(blocks, 1, i)
    <3>1. SubSeq(blocks', 1, i) = [j \in 1..i |-> blocks'[j]]
      BY <1>1, <1>2, <2>1
    <3>2. SubSeq(blocks, 1, i) = [j \in 1..i |-> blocks[j]]
      BY <1>1, <2>1
    <3>3. \A j \in 1..i : j \in 1..n
      BY <1>1, <2>1
    <3> QED BY <1>2, <3>1, <3>2, <3>3
  <2> QED BY <1>2, <1>10, <2>1, <2>2 DEF MadeFor
<1> QED BY <1>5, <1>6, <1>8, <1>9, <1>10 DEF Linked

\* The block a peer announces was made where the peer's lottery said so.
LEMMA LongerTail ==
    ASSUME Agree, NEW chain, NEW id, NEW c \in Longer(chain, id)
    PROVE  \E b : /\ c = Append(chain, b) /\ b.hash.id = id /\ b.forger \in Peer
                  /\ b.count = Last(chain).count + 1 /\ b.lastHash = Last(chain).hash
                  /\ b.forger = forgerOf(replayed(chain), Last(chain).lastHash)
<1>1. PICK p \in Winners(chain), d \in Draw,
           x \in {x \in sent \cup RemoteTx : x.id \notin ChainIds(chain)} :
           c = Append(chain, peerBlock(p, x, id, Last(chain), d))
  BY DEF Longer
<1>2. p \in Peer /\ p = forgerOf(replayed(chain), Last(chain).lastHash)
  BY <1>1 DEF Winners
<1> DEFINE txs == <<charge(x), rewardTx(id, p, fee(x))>>
           raw == [count |-> Last(chain).count + 1, lastHash |-> Last(chain).hash,
                   forger |-> p, hash |-> [id |-> id, draw |-> d], txs |-> txs]
           b == peerBlock(p, x, id, Last(chain), d)
<1>3. b = keyedBlock(raw)
  BY DEF peerBlock
<1>4. /\ b.hash = [id |-> id, draw |-> d] /\ b.forger = p
      /\ b.count = Last(chain).count + 1 /\ b.lastHash = Last(chain).hash
  <2> HIDE DEF txs
  <2> QED BY <1>3 DEF keyedBlock
<1> HIDE DEF b
<1> QED BY <1>1, <1>2, <1>4 DEF b

LEMMA PeerTail ==
    ASSUME TypeOK, Agree, Linked, NEW c \in PeerChains, NEW b, b = Last(c)
    PROVE  /\ b.forger \in Peer /\ b.hash.id \in {uuid, uuid + 1}
           /\ b.lastHash.id = uuid \/ \E n \in DOMAIN blocks : b.lastHash = blocks[n].hash
           /\ MadeFor(b)
<1> DEFINE prefix(n) == SubSeq(blocks, 1, n)
           next == uuid + 1
<1>1. PICK n \in DOMAIN blocks :
           \/ c \in Longer(prefix(n), uuid)
           \/ \E a \in Longer(prefix(n), uuid) : c \in Longer(a, next)
  BY DEF PeerChains
<1>2. blocks \in Seq(Block) /\ uuid \in Nat /\ n \in 1..Len(blocks) /\ blocks[n] \in Block
  BY DEF TypeOK
<1>3. /\ Len(prefix(n)) = n /\ prefix(n) \in Seq(Block) /\ Last(prefix(n)) = blocks[n]
      /\ prefix(n) # <<>>
  BY <1>2 DEF Last
<1> HIDE DEF prefix, next
<1>4. ASSUME NEW a \in Longer(prefix(n), uuid)
      PROVE  /\ a \in Seq(Block) /\ a # <<>>
             /\ Last(a).hash.id = uuid /\ Last(a).forger \in Peer
             /\ Last(a).count = blocks[n].count + 1 /\ Last(a).lastHash = blocks[n].hash
             /\ Last(a).forger = forgerOf(replayed(prefix(n)), blocks[n].lastHash)
  <2>1. PICK e : /\ a = Append(prefix(n), e) /\ e.hash.id = uuid /\ e.forger \in Peer
                 /\ e.count = blocks[n].count + 1 /\ e.lastHash = blocks[n].hash
                 /\ e.forger = forgerOf(replayed(prefix(n)), blocks[n].lastHash)
    BY <1>3, LongerTail
  <2>2. sent \cup RemoteTx \subseteq Tx
    BY ThreadAssumption DEF TypeOK
  <2>3. a \in Seq(Block) /\ a # <<>> /\ a[Len(a)] = Last(a) /\ Len(a) = Len(prefix(n)) + 1
    BY <1>2, <1>3, <2>2, LongerType
  <2>4. Last(a) = e
    BY <1>3, <2>1, <2>3
  <2> QED BY <2>1, <2>3, <2>4
<1>5. \A i \in DOMAIN blocks : blocks[i].hash.id < uuid
  BY DEF Linked
<1>6. blocks[n].hash.id \in Int
  BY <1>2 DEF Block, Hash
<1>7. CASE c \in Longer(prefix(n), uuid)
  <2>1. /\ b.hash.id = uuid /\ b.forger \in Peer
        /\ b.count = blocks[n].count + 1 /\ b.lastHash = blocks[n].hash
        /\ b.forger = forgerOf(replayed(prefix(n)), blocks[n].lastHash)
    BY <1>4, <1>7
  <2>2. \A i \in DOMAIN blocks : blocks[i].hash.id = b.lastHash.id => i = n
    BY <2>1 DEF Linked
  <2>3. MadeFor(b)
    BY <2>1, <2>2 DEF MadeFor, prefix
  <2> QED BY <2>1, <2>3
<1>8. CASE \E a \in Longer(prefix(n), uuid) : c \in Longer(a, next)
  <2>1. PICK a \in Longer(prefix(n), uuid) : c \in Longer(a, next)
    BY <1>8
  <2>2. a \in Seq(Block) /\ a # <<>> /\ Last(a).hash.id = uuid
    BY <1>4
  <2>3. PICK e : /\ c = Append(a, e) /\ e.hash.id = next /\ e.forger \in Peer
                 /\ e.lastHash = Last(a).hash
    BY <2>1, LongerTail
  <2>4. sent \cup RemoteTx \subseteq Tx /\ next \in Nat
    BY <1>2, ThreadAssumption DEF TypeOK, next
  <2>5. c[Len(c)] = Last(c) /\ Len(c) = Len(a) + 1
    BY <2>1, <2>2, <2>4, LongerType
  <2>6. b = e
    BY <2>2, <2>3, <2>5
  <2>7. b.lastHash.id = uuid
    BY <2>2, <2>3, <2>6
  <2>8. MadeFor(b)
    <3>1. \A i \in DOMAIN blocks : blocks[i].hash.id # uuid
      <4> SUFFICES ASSUME NEW i \in DOMAIN blocks PROVE blocks[i].hash.id # uuid
        OBVIOUS
      <4>1. blocks[i] \in Block
        BY <1>2
      <4> QED BY <1>2, <1>5, <4>1 DEF Block, Hash
    <3> QED BY <2>7, <3>1 DEF MadeFor
  <2> QED BY <1>2, <2>3, <2>6, <2>7, <2>8 DEF next
<1> QED BY <1>1, <1>7, <1>8

\* What each thread can be at.
LEMMA RolesNext ==
    ASSUME TypeOK, Roles, OneAtATime, OneAtATime', NEW t \in Thread, Call(t) \/ Step(t)
    PROVE  /\ Roles'
           /\ \/ Submit(t) \/ ReceiveTx(t) \/ Handle(t) \/ Poll(t) \/ Forge(t) \/ Commit(t)
              \/ t = P2P /\ (ReceiveBlock(t) \/ Adopt(t))
              \/ t = P2P /\ ReceiveChain(t) /\ pc' = pc
<1>1. \A u \in Thread \ {t} : pc'[u] = pc[u] /\ block'[u] = block[u]
  BY OthersStay, OthersHold
<1>2. \/ Submit(t) \/ ReceiveTx(t) \/ Handle(t) \/ Poll(t) \/ Forge(t) \/ Commit(t)
      \/ t = P2P /\ (ReceiveBlock(t) \/ Adopt(t))
      \/ t = P2P /\ ReceiveChain(t) /\ pc' = pc
  <2>1. t # P2P => ~ReceiveBlock(t) /\ ~Adopt(t) /\ ~ReceiveChain(t)
    BY DEF Roles, Checking, ReceiveBlock, Adopt, CheckCount, requestChain, CheckLink, CheckForger,
       AddBlock, ReceiveChain
  <2>2. ~Replay(t) /\ ~Assign(t)
    BY DEF OneAtATime, Replay, Assign
  <2>3. ReceiveChain(t) => pc' = pc
    BY DEF OneAtATime, ReceiveChain, Goto, TypeOK
  <2> QED BY <2>1, <2>2, <2>3 DEF Call, Step, Download
<1>3. ASSUME t # P2P
      PROVE  /\ pc'[t] \notin Checking \cup {"request"}
             /\ pc'[t] \in {"execute", "push"} => block'[t].forger = Me
  <2> USE DEF Goto, Return, Check, Checking, TypeOK
  <2>1. CASE Submit(t) \/ ReceiveTx(t) \/ Handle(t) \/ Poll(t)
    BY <2>1 DEF Submit, ReceiveTx, Handle, Poll, PoolCheck, ChainCheck, Cover, Add, Required
  <2>2. CASE CreateBlock(t)
    <3>1. PICK d \in Draw : block' = [block EXCEPT ![t] = newBlock(batch[t], d)]
      BY <2>2 DEF CreateBlock
    <3>2. block'[t].forger = Me
      BY <3>1 DEF newBlock
    <3> QED BY <2>2, <3>2 DEF CreateBlock
  <2>3. CASE Forge(t) /\ ~CreateBlock(t)
    BY <2>3 DEF Forge, NextForger, NextForgerAgain, Elect, Refund, Erase, ClearPool, Decide,
       StartReward, Charge, PayReward
  <2>4. CASE Commit(t)
    BY <2>4, <1>3 DEF Roles, Commit, Execute, Push, RemoveFromPool
  <2> QED BY <1>2, <1>3, <2>1, <2>2, <2>3, <2>4
<1>4. Roles'
  BY <1>1, <1>3 DEF Roles
<1> QED BY <1>2, <1>4

LEMMA HashIdType ==
    ASSUME TypeOK, LockInv, NEW t \in Thread
    PROVE  hashId(t) \in Int
<1>1. CASE pc[t] = "create"
  <2>1. Last(batch[t]) \in Tx
    BY <1>1, LastType DEF LockInv, TypeOK
  <2> QED BY <1>1, <2>1 DEF hashId, Tx
<1>2. CASE pc[t] # "create"
  BY <1>2 DEF hashId, Block, Hash, TypeOK
<1> QED BY <1>1, <1>2

LEMMA OthersElect ==
    ASSUME TypeOK, NEW t \in Thread, Call(t) \/ Step(t), NEW u \in Thread \ {t}
    PROVE  forger'[u] = forger[u]
BY DEF TypeOK, Call, Step, Handle, Forge, Commit, Adopt, Download, Submit, ReceiveTx, ReceiveBlock,
       PoolCheck, ChainCheck, Cover, Add, Required, Poll, NextForger, NextForgerAgain,
       Elect, Refund, Erase, ClearPool, Decide, StartReward, Charge, PayReward,
       CreateBlock, Execute, Push, RemoveFromPool, CheckCount, requestChain, CheckLink,
       CheckForger, AddBlock, ReceiveChain, Replay, Assign, Check, Return, forging

\* A step that leaves the chain and the stakes alone changes nothing for the
\* threads that do not take it.
LEMMA LinkKept ==
    ASSUME NEW h \in Thread, TypeOK, TypeOK', LockInv, LinkInv, Roles', Theirs', Ours(h)',
           UNCHANGED blocks, ledger'.stakers = ledger.stakers, uuid' >= uuid,
           \A t \in Thread \ {h} :
               /\ pc'[t] = pc[t] /\ block'[t] = block[t]
               /\ batch'[t] = batch[t] /\ forger'[t] = forger[t]
               /\ Made(t) => pc'[P2P] \notin {"forger", "adopt"}
               /\ (pc[t] = "create" \/ Made(t)) /\ Adopts' =>
                     /\ hashId(t) # block'[P2P].hash.id
                     /\ hashId(t) # block'[P2P].lastHash.id
    PROVE  LinkInv'
<1>1. uuid \in Nat /\ uuid' \in Nat
  BY DEF TypeOK
<1>2. \A i \in DOMAIN blocks : blocks[i] \in Block
  BY DEF TypeOK
<1>3. Linked'
  BY <1>1, <1>2 DEF LinkInv, Linked, LinkedChain, Block, Hash
<1>4. forgerOf(ledger', tip'.lastHash) = forgerOf(ledger, tip.lastHash)
  BY LotterySame DEF tip
<1>5. ASSUME NEW t \in Thread \ {h} PROVE Ours(t)'
  <2>1. hashId(t)' = hashId(t) /\ Won(t)' = Won(t) /\ Made(t)' = Made(t)
    BY DEF hashId, Won, Made
  <2>2. Unused(hashId(t)) => Unused(hashId(t))'
    BY <2>1 DEF Unused
  <2>3. hashId(t) \in Int
    BY HashIdType
  <2>4. hashId(t) < uuid => hashId(t) < uuid'
    BY <1>1, <2>3
  <2>5. Ours(t)
    BY DEF LinkInv
  <2> QED BY <1>4, <2>1, <2>2, <2>4, <2>5 DEF Ours
<1> QED BY <1>3, <1>5 DEF LinkInv

\* Likewise for the block of a peer that is in hand, when another thread, or
\* the P2P thread with nothing in hand, takes the step.
LEMMA TheirsKept ==
    ASSUME NEW h \in Thread, TypeOK, TypeOK', LinkInv,
           UNCHANGED blocks, ledger'.stakers = ledger.stakers, uuid' >= uuid,
           \A t \in Thread \ {h} : pc'[t] = pc[t] /\ block'[t] = block[t] /\ forger'[t] = forger[t],
           h = P2P => ~Adopts',
           Adopts /\ pc[P2P] \in {"execute", "push"} => ~Won(h)'
    PROVE  Theirs'
<1>1. uuid \in Nat /\ uuid' \in Nat /\ block[P2P] \in Block /\ P2P \in Thread
  BY DEF TypeOK, Thread
<1>2. CASE h = P2P
  BY <1>2 DEF Theirs, Adopts, Checking
<1>3. CASE h # P2P
  <2>1. pc'[P2P] = pc[P2P] /\ block'[P2P] = block[P2P] /\ Adopts' = Adopts
    BY <1>1, <1>3 DEF Adopts
  <2>2. forgerOf(ledger', tip'.lastHash) = forgerOf(ledger, tip.lastHash)
    BY LotterySame DEF tip
  <2>3. /\ MadeFor(block[P2P]) => MadeFor(block[P2P])'
        /\ Unused(block[P2P].hash.id) => Unused(block[P2P].hash.id)'
        /\ Continues(block[P2P]) => Continues(block[P2P])'
    BY <2>1 DEF MadeFor, Unused, Continues, tip
  <2>4. \A t \in Thread \ {h} : Won(t)' = Won(t)
    BY DEF Won
  <2>5. block[P2P].hash.id \in Int /\ block[P2P].lastHash.id \in Int
    BY <1>1 DEF Block, Hash
  <2>6. Theirs
    BY DEF LinkInv
  <2>7. (Adopts =>
          /\ block[P2P].forger \in Peer /\ Unused(block[P2P].hash.id)
          /\ block[P2P].hash.id < uuid /\ block[P2P].lastHash.id < uuid)'
    BY <1>1, <2>1, <2>3, <2>5, <2>6 DEF Theirs
  <2>8. (Adopts /\ pc[P2P] \in {"execute", "push"} => \A t \in Thread : ~Won(t))'
    BY <2>1, <2>4, <2>6 DEF Theirs
  <2> QED BY <2>1, <2>2, <2>3, <2>6, <2>7, <2>8 DEF Theirs
<1> QED BY <1>2, <1>3

\* A step of a thread that handles a transaction or forges.
LEMMA OursKept ==
    ASSUME NEW h \in Thread, TypeOK, TypeOK', LockInv, LinkInv, Roles', Ours(h)',
           UNCHANGED blocks, ledger'.stakers = ledger.stakers,
           Call(h) \/ Step(h), h = P2P => ~Adopts',
           Adopts /\ pc[P2P] \in {"execute", "push"} => ~Won(h)'
    PROVE  LinkInv'
<1>1. /\ uuid' >= uuid /\ P2P \in Thread
      /\ \A t \in Thread \ {h} : /\ pc'[t] = pc[t] /\ block'[t] = block[t]
                                 /\ batch'[t] = batch[t] /\ forger'[t] = forger[t]
  BY OthersStay, OthersHold, OthersElect, CounterGrows DEF Thread
<1>2. Theirs'
  BY <1>1, TheirsKept
<1>3. ASSUME NEW t \in Thread \ {h}
      PROVE  /\ Made(t) => pc'[P2P] \notin {"forger", "adopt"}
             /\ (pc[t] = "create" \/ Made(t)) /\ Adopts' =>
                   hashId(t) # block'[P2P].hash.id /\ hashId(t) # block'[P2P].lastHash.id
  <2>1. CASE h = P2P
    BY <2>1 DEF Adopts, Checking
  <2>2. CASE h # P2P
    <3>1. pc'[P2P] = pc[P2P] /\ block'[P2P] = block[P2P] /\ Adopts' = Adopts
      BY <1>1, <2>2 DEF Adopts
    <3>2. Ours(t)
      BY DEF LinkInv
    <3> QED BY <3>1, <3>2 DEF Ours
  <2> QED BY <2>1, <2>2
<1> QED BY <1>1, <1>2, <1>3, LinkKept

\* The thread is not about to forge after the step.
LEMMA OursQuiet ==
    ASSUME NEW h \in Thread, TypeOK, TypeOK', LockInv, LinkInv, Roles',
           pc'[h] \notin {"clog", "decide", "reward", "charge", "create", "execute", "push"},
           UNCHANGED blocks, ledger'.stakers = ledger.stakers,
           Call(h) \/ Step(h), h = P2P => ~Adopts'
    PROVE  LinkInv'
<1>1. Ours(h)' /\ ~Won(h)'
  BY DEF Ours, Won, Made
<1> QED BY <1>1, OursKept

\* While one thread has won, or made, a block, no other has.
LEMMA NobodyElse ==
    ASSUME LinkInv, OneAtATime, NEW h \in Thread, Won(h) \/ Made(h), NEW t \in Thread \ {h}
    PROVE  ~Won(t) /\ ~Made(t) /\ pc[t] \notin {"reward", "charge", "create"}
<1>1. ~Won(t) /\ ~Made(t)
  BY DEF OneAtATime
<1>2. Ours(t)
  BY DEF LinkInv
<1> QED BY <1>1, <1>2 DEF Ours, Won

LEMMA LinkOurs ==
    ASSUME NEW h \in Thread, TypeOK, TypeOK', LockInv, OwnInv, LinkInv, Roles',
           NobodyEvicted, NobodyEvicted', OneAtATime, OneAtATime', h = P2P => ~Adopts,
           Submit(h) \/ ReceiveTx(h) \/ Handle(h) \/ Poll(h) \/ Forge(h) \/ Commit(h)
    PROVE  LinkInv'
<1> USE DEF shared, messages, counters, forging
<1> DEFINE racing == {"clog", "decide", "reward", "charge", "create", "execute", "push"}
<1>1. /\ Call(h) \/ Step(h)
      /\ uuid' >= uuid /\ P2P \in Thread /\ uuid \in Nat
      /\ \A t \in Thread \ {h} : pc'[t] = pc[t] /\ block'[t] = block[t] /\ forger'[t] = forger[t]
  <2>1. Call(h) \/ Step(h)
    BY DEF Call, Step
  <2> QED BY <2>1, OthersStay, OthersHold, OthersElect, CounterGrows DEF TypeOK, Thread
<1>2. ASSUME pc'[h] \notin racing \cup Checking, UNCHANGED blocks, ledger'.stakers = ledger.stakers
      PROVE  LinkInv'
  <2>1. h = P2P => ~Adopts'
    BY <1>2 DEF Adopts
  <2> QED BY <1>1, <1>2, <2>1, OursQuiet
<1>3. CASE Submit(h) \/ ReceiveTx(h) \/ Handle(h) \/ Poll(h)
  BY <1>2, <1>3 DEF TypeOK, Submit, ReceiveTx, Handle, Poll, PoolCheck, ChainCheck, Cover, Add,
     Required, Check, Return, Goto, Checking
<1>4. CASE RemoveFromPool(h)
  BY <1>2, <1>4 DEF TypeOK, RemoveFromPool, Return, Goto, Checking
<1>5. CASE Erase(h) \/ ClearPool(h)
  <2>1. CASE Erase(h)
    BY <2>1 DEF Erase, NobodyEvicted
  <2>2. CASE ClearPool(h)
    BY <1>2, <2>2 DEF TypeOK, ClearPool, Goto, Checking
  <2> QED BY <1>5, <2>1, <2>2
\* A step from one place of forge to another before the block is made.
<1>6. ASSUME UNCHANGED <<blocks, ledger>>, Ours(h)',
             pc'[h] \in {"clog", "decide", "reward", "charge", "create"},
             Adopts /\ pc[P2P] \in {"execute", "push"} => ~Won(h)'
      PROVE  LinkInv'
  <2>1. h = P2P => ~Adopts'
    BY <1>6 DEF Adopts, Checking
  <2> QED BY <1>1, <1>6, <2>1, OursKept
<1>7. ASSUME Won(h), Adopts PROVE pc[P2P] \notin {"execute", "push", "forger", "adopt"}
  BY <1>7 DEF LinkInv, Theirs, Ours
<1>8. CASE NextForger(h) \/ NextForgerAgain(h)
  <2>1. PICK k \in Key, l \in {"clog", "decide"} :
           /\ k = forgerOf(ledger, tip.lastHash) /\ forger' = [forger EXCEPT ![h] = k]
           /\ pc' = [pc EXCEPT ![h] = l] /\ UNCHANGED <<blocks, ledger>> /\ Free
    BY <1>8 DEF NextForger, NextForgerAgain, Elect, Goto
  <2>2. pc'[h] = l /\ forger'[h] = k
    BY <2>1 DEF TypeOK
  <2>3. Ours(h)'
    BY <2>1, <2>2 DEF Ours, Won, Made, tip
  <2>4. pc[P2P] \notin {"execute", "push"}
    BY <1>1, <2>1, ThreadAssumption DEF LockInv, Critical, Free
  <2> QED BY <1>6, <2>1, <2>2, <2>3, <2>4
<1>9. CASE Refund(h)
  <2>1. pc' = [pc EXCEPT ![h] = "decide"] /\ UNCHANGED <<blocks, ledger, forger>> /\ pc[h] = "clog"
    BY <1>9 DEF Refund, Goto, TypeOK, NobodyEvicted
  <2>2. Won(h)' => Won(h)
    BY <2>1 DEF Won
  <2>3. Ours(h)'
    BY <2>1, <2>2 DEF Ours, Made, TypeOK, tip, LinkInv
  <2>4. pc'[h] = "decide"
    BY <2>1 DEF TypeOK
  <2> QED BY <1>6, <1>7, <2>1, <2>2, <2>3, <2>4
<1>10. CASE Decide(h)
  <2>1. CASE forger[h] = Me
    <3>1. pc' = [pc EXCEPT ![h] = "reward"] /\ UNCHANGED <<blocks, ledger, forger>> /\ pc[h] = "decide"
      BY <1>10, <2>1 DEF Decide, Goto
    <3>2. Won(h)' => Won(h)
      BY <3>1 DEF Won
    <3>3. Ours(h)'
      BY <2>1, <3>1, <3>2 DEF Ours, Made, TypeOK, tip, LinkInv
    <3>4. pc'[h] = "reward"
      BY <3>1 DEF TypeOK
    <3> QED BY <1>6, <1>7, <3>1, <3>2, <3>3, <3>4
  <2>2. CASE forger[h] # Me
    <3>1. /\ pc' = [pc EXCEPT ![h] = "idle"] /\ UNCHANGED blocks
          /\ ledger' = addAccount(ledger, Bare(forger[h]))
      BY <1>10, <2>2 DEF Decide, Goto, Return
    <3>2. ledger'.stakers = ledger.stakers
      BY <3>1 DEF addAccount
    <3> QED BY <1>2, <3>1, <3>2 DEF TypeOK, Checking
  <2> QED BY <2>1, <2>2
<1>11. CASE StartReward(h) \/ Charge(h)
  <2>1. /\ pc[h] \in {"reward", "charge"} /\ pc'[h] = "charge"
        /\ UNCHANGED <<blocks, ledger, forger>>
    BY <1>11 DEF StartReward, Charge, Goto, TypeOK
  <2>2. Won(h)' => Won(h)
    BY <2>1 DEF Won
  <2>3. Ours(h)'
    BY <2>1, <2>2 DEF Ours, Made, tip, LinkInv
  <2> QED BY <1>6, <1>7, <2>1, <2>2, <2>3
<1>12. CASE PayReward(h)
  <2>1. /\ pc[h] = "charge" /\ pc' = [pc EXCEPT ![h] = "create"]
        /\ batch' = [batch EXCEPT ![h] = Append(@, rewardTx(uuid, Me, reward[h]))]
        /\ uuid' = uuid + 1 /\ UNCHANGED <<blocks, ledger, forger, block>>
    BY <1>12 DEF PayReward, Goto
  <2>2. Won(h)' => Won(h)
    BY <2>1 DEF Won, TypeOK
  <2>3. pc'[h] = "create" /\ hashId(h)' = uuid
    <3>1. batch[h] \in Seq(Tx) /\ rewardTx(uuid, Me, reward[h]) \in Tx
      BY <1>1, RewardType, ThreadAssumption, LedgerAssumption DEF TypeOK
    <3>2. batch'[h] = Append(batch[h], rewardTx(uuid, Me, reward[h]))
      BY <2>1 DEF TypeOK
    <3>3. Last(batch'[h]).id = uuid
      BY <3>1, <3>2, AppendType DEF rewardTx
    <3> QED BY <2>1, <3>3 DEF hashId, TypeOK
  <2>4. Unused(hashId(h))'
    <3> SUFFICES ASSUME NEW i \in DOMAIN blocks PROVE blocks[i].hash.id # uuid
      BY <2>1, <2>3 DEF Unused
    <3>1. blocks[i].hash.id < uuid /\ blocks[i] \in Block
      BY DEF LinkInv, Linked, TypeOK
    <3> QED BY <1>1, <3>1 DEF Block, Hash
  <2>5. Adopts' => Adopts /\ block'[P2P] = block[P2P]
    BY <1>1, <2>1, <2>3 DEF Adopts, Checking
  <2>6. Adopts => uuid # block[P2P].hash.id /\ uuid # block[P2P].lastHash.id
    <3>1. block[P2P] \in Block
      BY <1>1 DEF TypeOK
    <3> QED BY <1>1, <3>1 DEF LinkInv, Theirs, Block, Hash
  <2>7. forger[h] = Me
    BY <2>1 DEF LinkInv, Ours
  <2>8. Won(h)' => forgerOf(ledger', tip'.lastHash) = Me
    BY <2>1, <2>2 DEF LinkInv, Ours, tip
  <2>9. Ours(h)'
    BY <1>1, <2>1, <2>3, <2>4, <2>5, <2>6, <2>7, <2>8 DEF Ours, Made
  <2> QED BY <1>6, <1>7, <2>1, <2>2, <2>3, <2>9
<1>13. CASE CreateBlock(h)
  <2>1. PICK d \in Draw : block' = [block EXCEPT ![h] = newBlock(batch[h], d)]
    BY <1>13 DEF CreateBlock
  <2>2. /\ pc[h] = "create" /\ pc'[h] = "execute"
        /\ UNCHANGED <<blocks, ledger, uuid>>
    BY <1>13 DEF CreateBlock, Goto, TypeOK
  <2>3. block'[h].forger = Me /\ block'[h].hash.id = Last(batch[h]).id
    BY <2>1 DEF newBlock, TypeOK
  <2>4. hashId(h)' = hashId(h) /\ ~Won(h)' /\ Made(h)'
    BY <2>2, <2>3 DEF hashId, Won, Made
  <2>5. Unused(hashId(h))'
    BY <2>2, <2>4 DEF LinkInv, Ours, Unused
  <2>6. h = P2P => ~Adopts'
    BY <2>2, <2>3 DEF Adopts, Checking
  <2>7. h # P2P => pc'[P2P] = pc[P2P] /\ block'[P2P] = block[P2P] /\ Adopts' = Adopts
    BY <1>1 DEF Adopts
  <2>8. pc'[P2P] \notin {"forger", "adopt"}
    BY <2>2, <2>7 DEF LinkInv, Ours, Theirs, Won
  <2>9. Ours(h)'
    BY <2>2, <2>4, <2>5, <2>6, <2>7, <2>8 DEF LinkInv, Ours
  <2> QED BY <1>1, <2>2, <2>4, <2>6, <2>9, OursKept
<1>14. ASSUME pc[h] \in {"execute", "push"}
       PROVE  /\ Made(h) /\ ~Won(h)
              /\ h # P2P => ~Adopts \/ pc[P2P] \in {"count", "link"}
  <2>1. Made(h)
    BY <1>14 DEF LinkInv, Roles, Made, Adopts
  <2>2. h # P2P => pc[P2P] \notin {"forger", "adopt", "execute", "push"}
    BY <1>1, <1>14, <2>1 DEF LinkInv, Ours, LockInv, Critical
  <2> QED BY <1>14, <2>1, <2>2 DEF Won, Adopts, Checking
<1>15. CASE Execute(h)
  <2>1. /\ pc[h] = "execute" /\ pc'[h] = "push" /\ UNCHANGED <<blocks, block, uuid, batch, forger>>
    BY <1>15 DEF Execute, Goto, TypeOK
  <2>2. Made(h)' /\ ~Won(h)' /\ hashId(h)' = hashId(h)
    BY <1>14, <2>1 DEF Made, Won, hashId
  <2>3. pc'[P2P] \in Checking => pc'[P2P] \in {"count", "link"} /\ pc[P2P] = pc'[P2P] /\ h # P2P
    BY <1>1, <1>14, <2>1 DEF Adopts, Checking
  <2>4. Adopts' => Adopts /\ pc'[P2P] \in {"count", "link"}
    BY <1>1, <1>14, <2>1, <2>2, <2>3 DEF Adopts, Checking, Made
  <2>5. Ours(h)'
    BY <1>14, <2>1, <2>2, <2>3, <2>4 DEF LinkInv, Ours, Unused, Checking
  <2>6. ASSUME NEW t \in Thread \ {h} PROVE Ours(t)'
    BY <1>1, <1>14, <2>1, <2>6, NobodyElse DEF Ours, Won, Made
  <2>7. Linked'
    BY <2>1 DEF LinkInv, Linked, LinkedChain
  <2>8. Theirs'
    BY <1>1, <2>1, <2>3, <2>4 DEF LinkInv, Theirs, MadeFor, Unused, Checking
  <2> QED BY <2>5, <2>6, <2>7, <2>8 DEF LinkInv
<1>16. CASE Push(h)
  <2>1. /\ pc[h] = "push" /\ pc'[h] = "remove" /\ UNCHANGED <<ledger, block, uuid, forger>>
        /\ blocks' = Append(blocks, block[h])
    BY <1>16 DEF Push, Goto, TypeOK
  <2>2. /\ Continues(block[h]) /\ Unused(block[h].hash.id) /\ block[h].hash.id < uuid
        /\ block[h] \in Block
    BY <1>14, <2>1 DEF LinkInv, Ours, Made, OwnInv, InHand, hashId, TypeOK
  <2>3. /\ Linked'
        /\ \A id : Unused(id) /\ id # block[h].hash.id => Unused(id)'
        /\ \A c : MadeFor(c) /\ c.lastHash.id # block[h].hash.id => MadeFor(c)'
    BY <2>1, <2>2, LinkedAppend DEF LinkInv
  <2>4. Ours(h)'
    BY <2>1 DEF Ours, Won, Made
  <2>5. ASSUME NEW t \in Thread \ {h} PROVE Ours(t)'
    BY <1>1, <1>14, <2>1, <2>5, NobodyElse DEF Ours, Won, Made
  <2>6. Adopts' => Adopts /\ pc[P2P] \in {"count", "link"} /\ pc'[P2P] = pc[P2P]
    BY <1>1, <1>14, <2>1 DEF Adopts, Checking
  <2>7. Adopts =>
          block[h].hash.id # block[P2P].hash.id /\ block[h].hash.id # block[P2P].lastHash.id
    BY <1>14, <2>1 DEF LinkInv, Ours, hashId
  <2>8. Adopts' => Unused(block[P2P].hash.id)'
    BY <2>1, <2>3, <2>6, <2>7 DEF LinkInv, Theirs, Unused
  <2>9. Adopts' => MadeFor(block[P2P])'
    BY <2>1, <2>3, <2>6, <2>7 DEF LinkInv, Theirs, MadeFor
  <2>10. pc'[P2P] \in Checking => Adopts'
    BY DEF Adopts
  <2>11. Theirs'
    BY <2>1, <2>6, <2>8, <2>9, <2>10 DEF LinkInv, Theirs, MadeFor, Unused, Checking
  <2> QED BY <2>3, <2>4, <2>5, <2>11 DEF LinkInv
<1> QED
  BY <1>3, <1>4, <1>5, <1>8, <1>9, <1>10, <1>11, <1>12, <1>13, <1>15, <1>16 DEF Forge, Commit

LEMMA LinkTheirs ==
    ASSUME Agree, TypeOK, TypeOK', LockInv, OwnInv, Accounted, LinkInv, Roles', OneAtATime,
           ReceiveBlock(P2P) \/ Adopt(P2P) \/ (Commit(P2P) /\ Adopts)
    PROVE  LinkInv'
<1> USE DEF shared, messages, counters, forging
<1>1. /\ P2P \in Thread
      /\ Call(P2P) \/ Step(P2P)
  BY DEF Thread, Call, Step
<1>2. /\ uuid' >= uuid /\ uuid \in Nat
      /\ \A t \in Thread \ {P2P} : /\ pc'[t] = pc[t] /\ block'[t] = block[t]
                                   /\ batch'[t] = batch[t] /\ forger'[t] = forger[t]
  BY <1>1, OthersStay, OthersHold, OthersElect, CounterGrows DEF TypeOK
\* The block stays the P2P thread's.
<1>3. ASSUME UNCHANGED <<blocks, ledger>>, Theirs', Adopts', Adopts, block'[P2P] = block[P2P],
             pc'[P2P] \notin {"clog", "decide", "reward", "charge", "create"}, ~Made(P2P)',
             \A t \in Thread \ {P2P} : Made(t) => pc'[P2P] \notin {"forger", "adopt"}
      PROVE  LinkInv'
  <2>1. Ours(P2P)'
    BY <1>3 DEF Ours, Won
  <2>2. ASSUME NEW t \in Thread \ {P2P}, pc[t] = "create" \/ Made(t)
        PROVE  hashId(t) # block'[P2P].hash.id /\ hashId(t) # block'[P2P].lastHash.id
    <3>1. Ours(t)
      BY DEF LinkInv
    <3> QED BY <1>3, <2>2, <3>1 DEF Ours
  <2> QED BY <1>1, <1>2, <1>3, <2>1, <2>2, LinkKept
\* It is done with it.
<1>4. ASSUME UNCHANGED <<blocks, ledger>>, pc'[P2P] \in {"idle", "request"}
      PROVE  LinkInv'
  <2>1. ~Adopts'
    BY <1>4 DEF Adopts, Checking
  <2> QED BY <1>1, <1>4, <2>1, OursQuiet
\* What is known of the block and of the chain does not change.
<1>5. ASSUME UNCHANGED <<blocks, ledger, block>>
      PROVE  /\ MadeFor(block[P2P]) => MadeFor(block[P2P])'
             /\ Unused(block[P2P].hash.id) => Unused(block[P2P].hash.id)'
             /\ Continues(block[P2P]) => Continues(block[P2P])'
             /\ forgerOf(ledger', tip'.lastHash) = forgerOf(ledger, tip.lastHash)
  BY <1>5 DEF MadeFor, Unused, Continues, tip
<1>6. CASE ReceiveBlock(P2P)
  <2>1. /\ pc'[P2P] = "count" /\ theirs' \in PeerChains /\ block'[P2P] = Last(theirs')
        /\ uuid' = uuid + 2 /\ UNCHANGED <<blocks, ledger>>
    BY <1>1, <1>6 DEF ReceiveBlock, Goto, TypeOK
  <2> DEFINE b == block'[P2P]
  <2>2. /\ b.forger \in Peer /\ b.hash.id \in {uuid, uuid + 1} /\ MadeFor(b)
        /\ \/ b.lastHash.id = uuid
           \/ \E n \in DOMAIN blocks : b.lastHash = blocks[n].hash
    BY <2>1, PeerTail DEF LinkInv
  <2>3. \A i \in DOMAIN blocks : blocks[i].hash.id \in Int /\ blocks[i].hash.id < uuid
    <3> SUFFICES ASSUME NEW i \in DOMAIN blocks
                 PROVE  blocks[i].hash.id \in Int /\ blocks[i].hash.id < uuid
      OBVIOUS
    <3>1. blocks[i] \in Block
      BY DEF TypeOK
    <3> QED BY <3>1 DEF LinkInv, Linked, Block, Hash
  <2>4. b.hash.id < uuid' /\ b.lastHash.id < uuid'
    BY <1>2, <2>1, <2>2, <2>3
  <2>5. \A i \in DOMAIN blocks : blocks[i].hash.id # b.hash.id
    BY <1>2, <2>2, <2>3
  <2>6. Unused(block[P2P].hash.id)' /\ MadeFor(block[P2P])'
    BY <2>1, <2>2, <2>5 DEF Unused, MadeFor
  <2>7. Theirs'
    BY <2>1, <2>2, <2>4, <2>6 DEF Theirs
  <2>8. ASSUME NEW t \in Thread \ {P2P}, pc[t] = "create" \/ Made(t)
        PROVE  hashId(t) # b.hash.id /\ hashId(t) # b.lastHash.id
    <3>1. hashId(t) < uuid /\ Unused(hashId(t))
      BY <2>8 DEF LinkInv, Ours
    <3>2. hashId(t) \in Int
      BY HashIdType
    <3> QED BY <1>2, <2>2, <3>1, <3>2 DEF Unused
  <2> HIDE DEF b
  <2>9. Ours(P2P)'
    BY <2>1 DEF Ours, Won, Made
  <2> QED BY <1>1, <1>2, <2>1, <2>7, <2>8, <2>9, LinkKept DEF b
<1>7. CASE CheckCount(P2P)
  <2>1. /\ pc[P2P] = "count" /\ pc'[P2P] \in {"link", "request"}
        /\ UNCHANGED <<blocks, ledger, block, uuid>>
    BY <1>1, <1>7 DEF CheckCount, Goto, TypeOK
  <2>2. CASE pc'[P2P] = "link"
    <3>1. Theirs' /\ Adopts /\ Adopts' /\ ~Made(P2P)'
      BY <1>5, <2>1, <2>2 DEF LinkInv, Theirs, Adopts, Checking, Made
    <3> QED BY <1>3, <2>1, <2>2, <3>1
  <2> QED BY <1>4, <2>1, <2>2
<1>8. CASE requestChain(P2P)
  BY <1>1, <1>4, <1>8 DEF requestChain, Return, Goto, TypeOK
<1>9. CASE CheckLink(P2P)
  <2>1. CASE tip.hash = block[P2P].lastHash
    <3>1. /\ pc[P2P] = "link" /\ pc'[P2P] = "forger" /\ Free
          /\ UNCHANGED <<blocks, ledger, block, uuid>>
      BY <1>1, <1>9, <2>1 DEF CheckLink, Check, Goto, TypeOK
    <3> DEFINE n == Len(blocks)
    <3>2. n \in DOMAIN blocks /\ tip = blocks[n] /\ SubSeq(blocks, 1, n) = blocks
      BY DEF TypeOK, tip, Last
    <3>3. /\ block[P2P].count = tip.count + 1 /\ block[P2P].lastHash = tip.hash
          /\ block[P2P].forger = forgerOf(replayed(blocks), tip.lastHash)
      BY <2>1, <3>1, <3>2 DEF LinkInv, Theirs, MadeFor
    <3>4. tip.count = n - 1
      <4>1. n \in Nat /\ n >= 1
        <5>1. blocks \in Seq(Block) /\ blocks # <<>>
          BY DEF TypeOK
        <5>2. Len(blocks) \in Nat /\ Len(blocks) # 0
          BY <5>1
        <5> QED BY <5>2
      <4>2. CASE n = 1
        BY <3>2, <4>2 DEF LinkInv, Linked
      <4>3. CASE n > 1
        BY <3>2, <4>3 DEF LinkInv, Linked, LinkedChain
      <4> HIDE DEF n
      <4> QED BY <4>1, <4>2, <4>3
    <3>5. Continues(block[P2P])
      BY <3>2, <3>3, <3>4 DEF Continues
    <3>6. committed = blocks
      BY <3>1 DEF committed, Free
    <3>7. forgerOf(ledger, tip.lastHash) = forgerOf(replayed(blocks), tip.lastHash)
      BY <3>6, LotterySame DEF Accounted, Same
    <3>8. block[P2P].forger # Me
      BY <3>1, ThreadAssumption DEF LinkInv, Theirs, Adopts, Checking
    <3>9. Theirs' /\ Adopts /\ Adopts' /\ ~Made(P2P)'
      BY <1>5, <3>1, <3>3, <3>5, <3>7, <3>8 DEF LinkInv, Theirs, Adopts, Checking, Made
    <3>10. \A t \in Thread : ~Made(t)
      BY <3>1, ThreadAssumption DEF LockInv, Critical, Free, Made
    <3> QED BY <1>3, <3>1, <3>9, <3>10
  <2>2. CASE tip.hash # block[P2P].lastHash
    BY <1>1, <1>4, <1>9, <2>2 DEF CheckLink, Check, Return, Goto, TypeOK
  <2> QED BY <2>1, <2>2
<1>10. CASE CheckForger(P2P)
  <2>1. CASE pc'[P2P] = "idle"
    BY <1>4, <1>10, <2>1 DEF CheckForger
  <2>2. CASE pc'[P2P] # "idle"
    <3>1. /\ pc[P2P] = "forger" /\ pc'[P2P] = "adopt"
          /\ UNCHANGED <<blocks, ledger, block, uuid>>
      BY <1>1, <1>10, <2>2 DEF CheckForger, Check, Return, Goto, TypeOK
    <3>2. Theirs' /\ Adopts /\ Adopts' /\ ~Made(P2P)'
      BY <1>5, <3>1 DEF LinkInv, Theirs, Adopts, Checking, Made
    <3>3. \A t \in Thread : ~Made(t)
      BY <3>1 DEF LinkInv, Ours
    <3> QED BY <1>3, <3>1, <3>2, <3>3
  <2> QED BY <2>1, <2>2
<1>11. CASE AddBlock(P2P)
  <2>1. /\ pc[P2P] = "adopt" /\ pc'[P2P] = "execute"
        /\ UNCHANGED <<blocks, ledger, block, uuid, forger>>
    BY <1>1, <1>11 DEF AddBlock, Goto, TypeOK, forging
  <2>2. \A t \in Thread : ~Won(t)
    BY <2>1 DEF LinkInv, Ours, Theirs
  <2>3. \A t \in Thread : ~Won(t)'
    BY <1>2, <2>1, <2>2 DEF Won
  <2>4. block[P2P].forger \in Peer /\ block[P2P].forger # Me
    BY <2>1, ThreadAssumption DEF LinkInv, Theirs, Adopts, Checking
  <2>5. Adopts /\ Adopts' /\ ~Made(P2P)'
    BY <2>1, <2>4 DEF Adopts, Checking, Made
  <2>6. Theirs'
    BY <1>5, <2>1, <2>3, <2>5 DEF LinkInv, Theirs
  <2> QED BY <1>3, <2>1, <2>5, <2>6
<1>12. ASSUME Adopts, pc[P2P] \in {"execute", "push"}, NEW t \in Thread
       PROVE  /\ ~Won(t) /\ ~Made(t)
              /\ t # P2P => pc[t] \notin {"reward", "charge", "create"}
  <2>1. ~Won(t)
    BY <1>12 DEF LinkInv, Theirs
  <2>2. ~Made(t)
    <3>1. CASE t = P2P
      BY <1>12, <3>1 DEF Adopts, Checking, Made
    <3>2. CASE t # P2P
      BY <1>1, <1>12, <3>2 DEF LockInv, Critical, Made
    <3> QED BY <3>1, <3>2
  <2> QED BY <2>1, <2>2 DEF LinkInv, Ours, Won
<1>13. CASE Execute(P2P) /\ Adopts
  <2>1. /\ pc[P2P] = "execute" /\ pc'[P2P] = "push"
        /\ UNCHANGED <<blocks, block, uuid, forger>>
    BY <1>1, <1>13 DEF Execute, Goto, TypeOK, forging
  <2>2. \A t \in Thread : Ours(t)' /\ ~Won(t)'
    BY <1>2, <1>12, <1>13, <2>1 DEF Ours, Won, Made
  <2>3. Linked'
    BY <2>1 DEF LinkInv, Linked, LinkedChain
  <2>4. Theirs'
    BY <1>13, <2>1, <2>2 DEF LinkInv, Theirs, Continues, Unused, tip, Adopts, Checking
  <2> QED BY <2>2, <2>3, <2>4 DEF LinkInv
<1>14. CASE Push(P2P) /\ Adopts
  <2>1. /\ pc[P2P] = "push" /\ pc'[P2P] = "remove" /\ UNCHANGED <<ledger, block, uuid, forger>>
        /\ blocks' = Append(blocks, block[P2P])
    BY <1>1, <1>14 DEF Push, Goto, TypeOK, forging
  <2>2. \A t \in Thread : Ours(t)'
    BY <1>2, <1>12, <1>14, <2>1 DEF Ours, Won, Made
  <2>3. /\ Continues(block[P2P]) /\ Unused(block[P2P].hash.id) /\ block[P2P].hash.id < uuid
        /\ block[P2P] \in Block
    BY <1>1, <1>14, <2>1 DEF LinkInv, Theirs, TypeOK
  <2>4. Linked'
    BY <2>1, <2>3, LinkedAppend DEF LinkInv
  <2>5. Theirs'
    BY <2>1 DEF Theirs, Adopts, Checking
  <2> QED BY <2>2, <2>4, <2>5 DEF LinkInv
<1>15. CASE RemoveFromPool(P2P)
  BY <1>1, <1>4, <1>15 DEF RemoveFromPool, Return, Goto, TypeOK
<1> QED
  BY <1>6, <1>7, <1>8, <1>9, <1>10, <1>11, <1>13, <1>14, <1>15 DEF Commit, Adopt

FullLink == TypeOK /\ LockInv /\ OwnInv /\ Accounted /\ LinkInv

\* Every block continues the one before it, with any number of workers, the
\* poller and the P2P thread at work and blocks and transactions coming from
\* peers, as long as no two of the threads forge at once, no downloaded chain
\* is appended and nobody is evicted.  So it does no harm that handleBlock
\* checks a block in lock scopes of their own (Node.cpp:207-221) and adds it in
\* yet another (Node.cpp:225), nor that forge looks up the winner in one and
\* makes the block in the next (Node.cpp:411-457): a lock around forge, and
\* none around handleBlock, is what would keep the chain linked.
THEOREM LinkedChainCorrect ==
    ASSUME Agree
    PROVE  Spec /\ []NobodyEvicted /\ []OneAtATime => []LinkedChain
<1>1. Init => FullLink
  BY TypeInit, OwnInit, AccountedInit, LinkInit DEF FullLink
<1>2. FullLink /\ NobodyEvicted /\ NobodyEvicted' /\ OneAtATime /\ OneAtATime' /\ [Next]_vars
          => FullLink'
  <2> SUFFICES ASSUME FullLink, NobodyEvicted, NobodyEvicted', OneAtATime, OneAtATime',
                      [Next]_vars
               PROVE  FullLink'
    OBVIOUS
  <2>1. TypeOK' /\ LockInv'
    BY TypeNext DEF FullLink
  <2>2. CASE Next
    <3>1. PICK t \in Thread : Call(t) \/ Step(t)
      BY <2>2 DEF Next
    <3>2. OwnInv'
      BY <3>1, OwnNext DEF FullLink
    <3>3. /\ Roles'
          /\ \/ Submit(t) \/ ReceiveTx(t) \/ Handle(t) \/ Poll(t) \/ Forge(t) \/ Commit(t)
             \/ t = P2P /\ (ReceiveBlock(t) \/ Adopt(t))
             \/ t = P2P /\ ReceiveChain(t) /\ pc' = pc
      BY <3>1, RolesNext DEF FullLink, LinkInv
    <3>4. ~Replay(t)
      BY DEF OneAtATime, Replay
    <3>5. Accounted'
      BY <2>1, <3>1, <3>4, AccountedNext DEF FullLink
    <3>6. LinkInv'
      <4>1. CASE /\ Submit(t) \/ ReceiveTx(t) \/ Handle(t) \/ Poll(t) \/ Forge(t) \/ Commit(t)
                 /\ t = P2P => ~Adopts
        BY <2>1, <3>3, <4>1, LinkOurs DEF FullLink
      <4>2. CASE t = P2P /\ (ReceiveBlock(t) \/ Adopt(t) \/ (Commit(t) /\ Adopts))
        BY <2>1, <3>3, <4>2, LinkTheirs DEF FullLink
      <4>3. CASE ReceiveChain(t) /\ pc' = pc
        <5>1. UNCHANGED <<blocks, ledger, uuid, block, forger, batch>>
          BY <4>3 DEF ReceiveChain, counters, forging
        <5> QED BY <3>3, <4>3, <5>1 DEF FullLink, LinkInv, Roles, Linked, LinkedChain, Ours, Theirs, Won,
                Made, Adopts, hashId, Unused, MadeFor, Continues, tip
      <4>4. CASE /\ Submit(t) \/ ReceiveTx(t) \/ Handle(t) \/ Poll(t) \/ Forge(t)
                 /\ t = P2P /\ Adopts
        BY <4>4 DEF Adopts, Checking, Submit, ReceiveTx, Handle, Poll, Forge, PoolCheck,
           ChainCheck, Cover, Add, Required, NextForger, NextForgerAgain, Refund, Erase,
           ClearPool, Decide, StartReward, Charge, PayReward, CreateBlock
      <4> QED BY <3>3, <4>1, <4>2, <4>3, <4>4
    <3> QED BY <2>1, <3>2, <3>5, <3>6 DEF FullLink
  <2>3. CASE UNCHANGED vars
    <3> USE DEF vars, shared, messages, forging, counters
    <3>1. OwnInv'
      BY <2>3 DEF FullLink, OwnInv, OwnBlocksLinked, InHand, Continues, tip, PeersBeyond
    <3>2. Accounted'
      BY <2>3 DEF FullLink, Accounted, committed
    <3>3. LinkInv'
      BY <2>3 DEF FullLink, LinkInv, Roles, Linked, LinkedChain, Ours, Theirs, Won, Made, Adopts,
         hashId, Unused, MadeFor, Continues, tip
    <3> QED BY <2>1, <3>1, <3>2, <3>3 DEF FullLink
  <2> QED BY <2>2, <2>3
<1>3. FullLink => LinkedChain
  BY DEF FullLink, LinkInv, Linked
<1> QED BY <1>1, <1>2, <1>3, PTL DEF Spec


-----------------------------------------------------------------------------
(***************************************************************************)
(* Conservation, where the node knows every wallet.  A forger is evicted   *)
(* in two steps, and in between its stake counts twice; what the other     *)
(* threads may not do meanwhile is evict too, or change the stake.         *)
(***************************************************************************)
\* A STAKE that a peer sends has the key of its sender.
KeysOfSenders == \A m \in RemoteTx : KeyedStake(m)

\* While one thread evicts a forger, no other one evicts or executes a block.
Undisturbed ==
    \A t, u \in Thread : pc[t] = "erase" /\ u # t =>
        pc[u] \notin {"erase", "execute", "replay"}

Conserved ==
    /\ Sound(ledger)
    /\ (\A t \in Thread : pc[t] # "erase") => total(ledger) = Token
    /\ \A t \in Thread : pc[t] = "erase" => total(ledger) = Token + held(ledger, forger[t])

LEMMA SourcedKeyed == ASSUME Account = Address, KeysOfSenders PROVE Sourced(KeyedTx)
<1>1. \A x \in KeyedTx : charge(x) \in KeyedTx /\ keyed(x) \in KeyedTx
  BY StakeKeyKept
<1>2. RemoteTx \subseteq KeyedTx
  BY ThreadAssumption DEF KeysOfSenders, KeyedTx
<1>3. NoTx \in KeyedTx
  BY DrawType DEF NoTx, KeyedTx, KeyedStake
<1>4. \A n \in Nat, r \in Requests : asked(n, r) \in KeyedTx
  BY AskedType, ThreadAssumption DEF asked, KeyedTx, KeyedStake, publicKey
<1>5. \A n \in Nat, a \in Address, v \in Int : rewardTx(n, a, v) \in KeyedTx
  <2>1. \A n \in Nat, a \in Address, v \in Int : KeyedStake(rewardTx(n, a, v))
    BY DEF KeyedStake, rewardTx
  <2> QED BY <2>1, RewardType DEF KeyedTx
<1>6. KeyedTx \subseteq Tx
  BY DEF KeyedTx
<1> QED BY <1>1, <1>2, <1>3, <1>4, <1>5, <1>6 DEF Closed, Sourced

\* Only an eviction comes to the step between its two, and from there goes on.
LEMMA EraseSteps ==
    ASSUME TypeOK, NEW t \in Thread, Call(t) \/ Step(t)
    PROVE  /\ pc[t] = "erase" => Erase(t)
           /\ pc'[t] = "erase" => Refund(t)
           /\ \A u \in Thread \ {t} : forger'[u] = forger[u]
<1> USE DEF shared, messages, counters, forging
<1>1. pc[t] = "erase" => Erase(t)
  BY DEF Call, Step, Handle, Forge, Commit, Adopt, Download, Submit, ReceiveTx, ReceiveBlock,
       PoolCheck, ChainCheck, Cover, Add, Required, Poll, NextForger, NextForgerAgain,
       Refund, ClearPool, Decide, StartReward, Charge, PayReward,
       CreateBlock, Execute, Push, RemoveFromPool, CheckCount, requestChain, CheckLink,
       CheckForger, AddBlock, ReceiveChain, Replay, Assign
<1>2. pc'[t] = "erase" => Refund(t)
  BY <1>1 DEF TypeOK, Call, Step, Handle, Forge, Commit, Adopt, Download, Submit, ReceiveTx,
       ReceiveBlock, PoolCheck, ChainCheck, Cover, Add, Required, Poll, NextForger,
       NextForgerAgain, Elect, Erase, ClearPool, Decide, StartReward, Charge, PayReward,
       CreateBlock, Execute, Push, RemoveFromPool, CheckCount, requestChain, CheckLink,
       CheckForger, AddBlock, ReceiveChain, Replay, Assign, Check, Return, Goto
<1>3. \A u \in Thread \ {t} : forger'[u] = forger[u]
  BY DEF TypeOK, Call, Step, Handle, Forge, Commit, Adopt, Download, Submit, ReceiveTx,
       ReceiveBlock, PoolCheck, ChainCheck, Cover, Add, Required, Poll, NextForger,
       NextForgerAgain, Elect, Refund, Erase, ClearPool, Decide, StartReward, Charge, PayReward,
       CreateBlock, Execute, Push, RemoveFromPool, CheckCount, requestChain, CheckLink,
       CheckForger, AddBlock, ReceiveChain, Replay, Assign, Check, Return
<1> QED BY <1>1, <1>2, <1>3

LEMMA ConservedNext ==
    ASSUME Account = Address, TypeOK, Holds(KeyedTx), Conserved, Undisturbed, Undisturbed',
           NEW t \in Thread, Call(t) \/ Step(t)
    PROVE  Conserved'
<1>1. \A u \in Thread \ {t} : pc'[u] = pc[u] /\ forger'[u] = forger[u]
  BY OthersStay, EraseSteps
<1>2. ASSUME ~Erase(t), pc'[t] # "erase", Sound(ledger'), total(ledger') = total(ledger),
             \A u \in Thread : pc[u] = "erase" => held(ledger', forger[u]) = held(ledger, forger[u])
      PROVE  Conserved'
  <2>1. pc[t] # "erase"
    BY <1>2, EraseSteps
  <2> QED BY <1>1, <1>2, <2>1 DEF Conserved
<1>3. CASE Execute(t)
  <2>1. /\ pc[t] = "execute" /\ pc'[t] = "push"
        /\ ledger' = executeTransactions(ledger, block[t].txs)
    BY <1>3 DEF Execute, Goto, TypeOK
  <2>2. block[t].txs \in Seq(Tx) /\ \A i \in DOMAIN block[t].txs : block[t].txs[i] \in KeyedTx
    BY DEF TypeOK, Block, Holds, AllIn, HeldIn, InTxs
  <2>3. Sound(ledger') /\ total(ledger') = total(ledger)
    BY <2>1, <2>2, ExecutionTotal DEF Conserved
  <2>4. \A u \in Thread : pc[u] # "erase"
    BY <2>1 DEF Undisturbed
  <2> QED BY <1>2, <2>1, <2>3, <2>4 DEF Erase
<1>4. CASE Replay(t)
  <2>1. /\ pc[t] = "replay" /\ pc'[t] = "assign" /\ ledger' = importBlocks(ledger, fresh)
    BY <1>4 DEF Replay, Goto, TypeOK
  <2>2. /\ fresh \in Seq(Block)
        /\ \A i \in DOMAIN fresh : \A j \in DOMAIN fresh[i].txs : fresh[i].txs[j] \in KeyedTx
    BY SubSeqType DEF TypeOK, Holds, AllIn, SharedIn, InBlocks, InTxs, fresh
  <2> HIDE DEF fresh
  <2>3. Sound(ledger') /\ total(ledger') = total(ledger)
    BY <2>1, <2>2, DownloadTotal DEF Conserved
  <2>4. \A u \in Thread : pc[u] # "erase"
    BY <2>1 DEF Undisturbed
  <2> QED BY <1>2, <2>1, <2>3, <2>4 DEF Erase
<1>5. CASE Decide(t)
  <2>1. pc[t] = "decide" /\ pc'[t] # "erase"
    BY <1>5 DEF Decide, Return, Goto, TypeOK
  <2>2. CASE UNCHANGED ledger
    BY <1>2, <2>1, <2>2 DEF Conserved, Erase
  <2>3. CASE ledger' = addAccount(ledger, Bare(forger[t]))
    <3>1. /\ Sound(ledger') /\ total(ledger') = total(ledger)
          /\ \A j : held(ledger', j) = held(ledger, j)
      BY <2>3, AccountTotal DEF Conserved, TypeOK
    <3> QED BY <1>2, <2>1, <3>1 DEF Erase
  <2> QED BY <1>5, <2>2, <2>3 DEF Decide
<1>6. CASE Refund(t)
  <2>1. pc[t] = "clog" /\ forger' = forger /\ forger[t] \in Key
    BY <1>6 DEF Refund, forging, TypeOK
  <2>2. CASE UNCHANGED ledger /\ pc'[t] = "decide"
    BY <1>2, <2>1, <2>2 DEF Conserved, Erase
  <2>3. CASE ledger' = refundStake(ledger, forger[t]) /\ pc'[t] = "erase"
    <3>1. \A u \in Thread : pc[u] # "erase"
      BY <1>1, <2>1, <2>3 DEF Undisturbed
    <3>2. total(ledger) = Token /\ Sound(ledger)
      BY <3>1 DEF Conserved
    <3>3. Sound(ledger') /\ total(ledger') = Token + held(ledger', forger[t])
      BY <2>1, <2>3, <3>2, RefundTotal
    <3> QED BY <1>1, <2>1, <2>3, <3>1, <3>3 DEF Conserved
  <2> QED BY <1>6, <2>2, <2>3 DEF Refund, Goto, TypeOK
<1>7. CASE Erase(t)
  <2>1. /\ pc[t] = "erase" /\ pc'[t] = "clear" /\ ledger' = eraseStaker(ledger, forger[t])
        /\ forger[t] \in Key
    BY <1>7 DEF Erase, Goto, TypeOK
  <2>2. total(ledger) = Token + held(ledger, forger[t]) /\ Sound(ledger)
    BY <2>1 DEF Conserved
  <2>3. Sound(ledger') /\ total(ledger') = total(ledger) - held(ledger, forger[t])
    BY <2>1, <2>2, EraseTotal
  <2>4. held(ledger, forger[t]) \in Int
    BY <2>2, WorthType DEF held
  <2>5. total(ledger') = Token
    BY <2>2, <2>3, <2>4, LedgerAssumption
  <2>6. \A u \in Thread : pc'[u] # "erase"
    BY <1>1, <2>1 DEF Undisturbed
  <2> QED BY <2>3, <2>5, <2>6 DEF Conserved
<1>8. ASSUME UNCHANGED ledger, ~Refund(t), ~Erase(t) PROVE Conserved'
  <2>1. pc'[t] # "erase"
    BY <1>8, EraseSteps
  <2> QED BY <1>2, <1>8, <2>1 DEF Conserved
<1> QED BY <1>3, <1>4, <1>5, <1>6, <1>7, <1>8, LedgerWriters

ConservInv == TypeOK /\ LockInv /\ Holds(KeyedTx) /\ Conserved

\* No token is made or lost, whatever is sent, staked, rewarded, downloaded or
\* refunded (Conservation of NodeProperties), for a node that knows every wallet:
\* updateBalance drops what goes to another (AccountModel.cpp:75-79).  The other
\* hypothesis is that nobody is at the stakes while a thread evicts a forger: from
\* the refund to the erase (Node.cpp:407-408) it holds no lock.
THEOREM ConservationCorrect ==
    ASSUME Account = Address, KeysOfSenders
    PROVE  Spec /\ []Undisturbed => []Conservation
<1>1. Init => ConservInv
  <2> SUFFICES ASSUME Init PROVE Holds(KeyedTx) /\ Conserved
    BY TypeInit DEF ConservInv
  <2>1. Holds(KeyedTx)
    BY SourcedKeyed, HoldsInit
  <2> QED BY <2>1, GenesisTotal DEF Init, Conserved
<1>2. ConservInv /\ Undisturbed /\ Undisturbed' /\ [Next]_vars => ConservInv'
  <2> SUFFICES ASSUME ConservInv, Undisturbed, Undisturbed', [Next]_vars PROVE ConservInv'
    OBVIOUS
  <2>1. TypeOK' /\ LockInv'
    BY TypeNext DEF ConservInv
  <2>2. CASE Next
    <3>1. PICK t \in Thread : Call(t) \/ Step(t)
      BY <2>2 DEF Next
    <3>2. Holds(KeyedTx)'
      BY <3>1, SourcedKeyed, HoldsNext DEF ConservInv
    <3>3. Conserved'
      BY <3>1, ConservedNext DEF ConservInv
    <3> QED BY <2>1, <3>2, <3>3 DEF ConservInv
  <2>3. CASE UNCHANGED vars
    <3>1. Holds(KeyedTx)'
      BY <2>3, HoldsStutter DEF ConservInv
    <3>2. Conserved'
      BY <2>3 DEF vars, shared, forging, ConservInv, Conserved
    <3> QED BY <2>1, <3>1, <3>2 DEF ConservInv
  <2> QED BY <2>2, <2>3
<1>3. ConservInv => Conservation
  BY DEF ConservInv, Conserved, Conservation
<1> QED BY <1>1, <1>2, <1>3, PTL DEF Spec
=============================================================================
