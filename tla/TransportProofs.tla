--------------------------- MODULE TransportProofs ---------------------------
(***************************************************************************)
(* Theorems about who waits for whom (P2PTransport): what is sent, and     *)
(* where the answer is that a node holds blockchainMutex for.              *)
(***************************************************************************)
EXTENDS P2PTransport, FiniteSetTheorems, TLAPS

\* What a node may send, and what another may get.
From(S) ==
    [kind : {"DISCOVERY"}, from : S, list : SUBSET Node]
    \cup [kind : {"BLOCK"}, count : Nat]
    \cup [kind : {"BLOCKCHAINREQUEST"}, from : S, size : Nat]
    \cup [kind : {"BLOCKCHAIN"}, from : S, blocks : Seq(Nat)]

Others(n) == Node \ {n}

Sends(n) == [to : Others(n), msg : From({n})]

\* Nobody writes to itself: neither do requests, nor the answers to them.
Typed ==
    /\ chain \in [Node -> Seq(Nat) \ {<<>>}]
    /\ DOMAIN peers = Node /\ \A n \in Node : peers[n] \subseteq Others(n)
    /\ DOMAIN inactive = Node /\ \A n \in Node : inactive[n] \subseteq Others(n)
    /\ DOMAIN listed = Node /\ \A n \in Node : listed[n] \subseteq SUBSET Node
    /\ missed \in 0..Misses
    /\ DOMAIN queue = Node
    /\ \A n \in Node : queue[n] \in Seq(From(Others(n))) /\ Len(queue[n]) <= Backlog
    /\ DOMAIN out = Node /\ \A n \in Node : out[n] \in [Thread -> Seq(Sends(n))]
    /\ DOMAIN answering = Node /\ DOMAIN unread = Node
    /\ \A n \in Node : /\ answering[n] \subseteq [to : Others(n), blocks : Seq(Nat)]
                       /\ unread[n] \subseteq Others(n)

LEMMA SeqWider ==
    ASSUME NEW S, NEW T, S \subseteq T, NEW s \in Seq(S)
    PROVE  s \in Seq(T)
OBVIOUS

LEMMA TypedType == Typed => TypeOK
<1> SUFFICES ASSUME Typed PROVE TypeOK
  OBVIOUS
<1>1. \A n \in Node : From(Others(n)) \subseteq Message /\ From({n}) \subseteq Message
  BY DEF From, Message, Others
<1>2. \A n \in Node : Sends(n) \subseteq [to : Node \ {n}, msg : Message]
  BY <1>1 DEF Sends, Others
<1> SUFFICES ASSUME NEW n \in Node
             PROVE  /\ chain[n] \in Seq(Nat) /\ chain[n] # <<>>
                    /\ peers[n] \subseteq Node \ {n} /\ inactive[n] \subseteq Node \ {n}
                    /\ listed[n] \subseteq SUBSET Node
                    /\ queue[n] \in Seq(Message) /\ Len(queue[n]) <= Backlog
                    /\ \A t \in Thread : out[n][t] \in Seq([to : Node \ {n}, msg : Message])
                    /\ answering[n] \subseteq [to : Node \ {n}, blocks : Seq(Nat)]
                    /\ unread[n] \subseteq Node \ {n}
  BY DEF TypeOK, Typed
<1>3. queue[n] \in Seq(Message) /\ Len(queue[n]) <= Backlog
  <2>1. queue[n] \in Seq(From(Others(n))) /\ Len(queue[n]) <= Backlog
    BY DEF Typed
  <2>2. From(Others(n)) \subseteq Message
    BY <1>1
  <2> QED BY <2>1, <2>2, SeqWider
<1>4. \A t \in Thread : out[n][t] \in Seq([to : Node \ {n}, msg : Message])
  <2> SUFFICES ASSUME NEW t \in Thread PROVE out[n][t] \in Seq([to : Node \ {n}, msg : Message])
    OBVIOUS
  <2>1. out[n][t] \in Seq(Sends(n))
    BY DEF Typed
  <2>2. Sends(n) \subseteq [to : Node \ {n}, msg : Message]
    BY <1>2
  <2>3. PICK S : S = [to : Node \ {n}, msg : Message]
    OBVIOUS
  <2>4. Sends(n) \subseteq S
    BY <2>2, <2>3
  <2>5. out[n][t] \in Seq(S)
    BY <2>1, <2>4, SeqWider
  <2> QED BY <2>3, <2>5
<1> QED BY <1>3, <1>4 DEF Typed, Others

\* A sequence of different things taken from a set with finitely many members.
LEMMA ListType ==
    ASSUME NEW S, IsFiniteSet(S)
    PROVE  SetToSeq(S) \in Seq(S)
<1> DEFINE n == Cardinality(S)
<1>1. n \in Nat /\ ExistsBijection(1..n, S)
  BY FS_CardinalityType
<1>2. \E f \in [1..n -> S] : IsInjective(f)
  BY <1>1 DEF ExistsBijection, Bijection, Injection
<1>3. SetToSeq(S) \in [1..n -> S]
  BY <1>2 DEF SetToSeq
<1> QED BY <1>1, <1>3

LEMMA EachType ==
    ASSUME NEW n \in Node, NEW ps, ps \subseteq Others(n), NEW m \in From({n})
    PROVE  toEach(ps, m) \in Seq(Sends(n))
<1> DEFINE S == {[to |-> p, msg |-> m] : p \in ps}
<1>1. IsFiniteSet(ps)
  BY TransportAssumption, FS_Subset DEF Others
<1>2. IsFiniteSet(S)
  <2> DEFINE f == [p \in ps |-> [to |-> p, msg |-> m]]
  <2>1. f \in Surjection(ps, S)
    BY DEF Surjection
  <2> QED BY <1>1, <2>1, FS_Surjection
<1>3. S \subseteq Sends(n)
  BY DEF Sends
<1> HIDE DEF S
<1>4. SetToSeq(S) \in Seq(S)
  BY <1>2, ListType
<1>5. SetToSeq(S) \in Seq(Sends(n))
  BY <1>3, <1>4
<1> QED BY <1>5 DEF toEach, S
-----------------------------------------------------------------------------
(***************************************************************************)
(* Every step keeps the types.                                             *)
(***************************************************************************)
\* What a queue and what a thread has still to send may become.
LEMMA Delivered ==
    ASSUME Typed, NEW n \in Node, NEW p \in Others(n), NEW m \in From({n}), Room(p),
           NEW q \in Node
    PROVE  LET s == [queue EXCEPT ![p] = Append(@, m)][q]
           IN  s \in Seq(From(Others(q))) /\ Len(s) <= Backlog
<1>1. m \in From(Others(p))
  BY DEF From, Others
<1>2. /\ queue[p] \in Seq(From(Others(p))) /\ Len(queue[p]) < Backlog /\ p \in Node
      /\ queue[q] \in Seq(From(Others(q))) /\ Len(queue[q]) <= Backlog
  BY DEF Typed, Others, Room
<1>3. PICK S : S = From(Others(p))
  OBVIOUS
<1>4. Append(queue[p], m) \in Seq(S) /\ Len(Append(queue[p], m)) <= Backlog
  BY <1>1, <1>2, <1>3, TransportAssumption
<1> QED BY <1>2, <1>3, <1>4 DEF Typed

LEMMA Accepted ==
    ASSUME Typed, NEW n \in Node, queue[n] # <<>>, NEW q \in Node
    PROVE  LET s == [queue EXCEPT ![n] = Tail(@)][q]
           IN  s \in Seq(From(Others(q))) /\ Len(s) <= Backlog
<1>1. /\ queue[n] \in Seq(From(Others(n))) /\ Len(queue[n]) <= Backlog
      /\ queue[q] \in Seq(From(Others(q))) /\ Len(queue[q]) <= Backlog
  BY DEF Typed
<1>2. PICK S : S = From(Others(n))
  OBVIOUS
<1>3. Tail(queue[n]) \in Seq(S) /\ Len(Tail(queue[n])) <= Backlog
  BY <1>1, <1>2, TransportAssumption
<1> QED BY <1>1, <1>2, <1>3 DEF Typed

LEMMA Outgoing ==
    ASSUME Typed, NEW n \in Node, NEW t \in Thread, NEW s \in Seq(Sends(n)),
           out' = [out EXCEPT ![n][t] = s]
    PROVE  DOMAIN out' = Node /\ \A q \in Node : out'[q] \in [Thread -> Seq(Sends(q))]
<1>1. out[n] \in [Thread -> Seq(Sends(n))] /\ DOMAIN out = Node
  BY DEF Typed
<1>2. out' = [out EXCEPT ![n] = [out[n] EXCEPT ![t] = s]]
  BY <1>1
<1>3. [out[n] EXCEPT ![t] = s] \in [Thread -> Seq(Sends(n))]
  BY <1>1
<1> QED BY <1>1, <1>2, <1>3 DEF Typed

LEMMA HeadOfQueue ==
    ASSUME Typed, NEW n \in Node, queue[n] # <<>>
    PROVE  Head(queue[n]) \in From(Others(n))
<1>1. queue[n] \in Seq(From(Others(n)))
  BY DEF Typed
<1>2. PICK S : S = From(Others(n))
  OBVIOUS
<1> QED BY <1>1, <1>2

LEMMA HeadOfOut ==
    ASSUME Typed, NEW n \in Node, NEW t \in Thread, out[n][t] # <<>>
    PROVE  /\ connection(n, t).to \in Others(n) /\ connection(n, t).msg \in From({n})
           /\ Tail(out[n][t]) \in Seq(Sends(n))
<1>1. out[n][t] \in Seq(Sends(n))
  BY DEF Typed
<1>2. PICK S : S = Sends(n)
  OBVIOUS
<1>3. Head(out[n][t]) \in S /\ Tail(out[n][t]) \in Seq(S)
  BY <1>1, <1>2
<1> QED BY <1>2, <1>3 DEF connection, Sends

LEMMA RequestType ==
    ASSUME Typed, NEW n \in Node
    PROVE  request(n) \in From({n}) /\ hello(n) \in From({n})
<1>1. chain[n] \in Seq(Nat) /\ peers[n] \subseteq Node
  BY DEF Typed, Others
<1>2. Len(chain[n]) \in Nat
  BY <1>1
<1> QED BY <1>1, <1>2 DEF request, hello, From

LEMMA InitTyped == Init => Typed
<1> SUFFICES ASSUME Init PROVE Typed
  OBVIOUS
<1>1. chain \in [Node -> Seq(Nat) \ {<<>>}]
  <2>1. <<0>> \in Seq(Nat) \ {<<>>}
    OBVIOUS
  <2>2. [i \in 1..First |-> i - 1] \in Seq(Nat) \ {<<>>}
    BY TransportAssumption
  <2> QED BY <2>1, <2>2 DEF Init
<1>2. /\ DOMAIN peers = Node /\ \A n \in Node : peers[n] \subseteq Others(n)
      /\ DOMAIN inactive = Node /\ \A n \in Node : inactive[n] \subseteq Others(n)
      /\ DOMAIN listed = Node /\ \A n \in Node : listed[n] \subseteq SUBSET Node
      /\ missed \in 0..Misses
  BY TransportAssumption DEF Init, Others, Nobody
<1>3. ASSUME NEW n \in Node PROVE queue[n] \in Seq(From(Others(n))) /\ Len(queue[n]) <= Backlog
  BY TransportAssumption DEF Init
<1>4. ASSUME NEW n \in Node PROVE out[n] \in [Thread -> Seq(Sends(n))]
  <2>1. n \in Joining => toEach({Master}, hello(n)) \in Seq(Sends(n))
    <3>1. n \in Joining => {Master} \subseteq Others(n)
      BY TransportAssumption DEF Others
    <3>2. hello(n) \in From({n})
      BY <1>2 DEF hello, From, Others
    <3> QED BY <3>1, <3>2, EachType
  <2>2. <<>> \in Seq(Sends(n))
    OBVIOUS
  <2>3. out[n] = [t \in Thread |-> IF t = "p2p" /\ n \in Joining
                                   THEN toEach({Master}, hello(n)) ELSE <<>>]
    BY DEF Init
  <2> QED BY <2>1, <2>2, <2>3
<1>5. DOMAIN queue = Node /\ DOMAIN out = Node /\ DOMAIN answering = Node /\ DOMAIN unread = Node
  BY DEF Init
<1>6. \A n \in Node : answering[n] = {} /\ unread[n] = {}
  BY DEF Init, Nobody
<1> QED BY <1>1, <1>2, <1>3, <1>4, <1>5, <1>6 DEF Typed
LEMMA SendTyped ==
    ASSUME Typed, NEW n \in Node, NEW t \in Thread, Send(n, t) \/ GiveUp(n, t)
    PROVE  Typed'
<1>1. out[n][t] # <<>> /\ out' = [out EXCEPT ![n][t] = Tail(out[n][t])]
  BY DEF Send, GiveUp
<1>2. DOMAIN out' = Node /\ \A q \in Node : out'[q] \in [Thread -> Seq(Sends(q))]
  BY <1>1, HeadOfOut, Outgoing
<1>3. UNCHANGED <<chain, known, locks>>
  BY DEF Send, GiveUp
<1>4. DOMAIN queue' = Node /\
      \A q \in Node : queue'[q] \in Seq(From(Others(q))) /\ Len(queue'[q]) <= Backlog
  <2>1. CASE Send(n, t)
    <3> DEFINE p == connection(n, t).to
               m == connection(n, t).msg
    <3>1. p \in Others(n) /\ m \in From({n})
      BY <1>1, HeadOfOut
    <3>2. Room(p) /\ queue' = [queue EXCEPT ![p] = Append(@, m)]
      BY <2>1 DEF Send, Deliver
    <3> HIDE DEF p, m
    <3> QED BY <3>1, <3>2, Delivered DEF Typed
  <2>2. CASE UNCHANGED queue
    BY <2>2 DEF Typed
  <2> QED BY <2>1, <2>2 DEF Send, GiveUp
<1> QED BY <1>2, <1>3, <1>4 DEF Typed, known, locks

LEMMA AnswerTyped ==
    ASSUME Typed, NEW n \in Node, Answer(n) \/ AnswerNobody(n)
    PROVE  Typed'
<1>1. PICK a \in answering[n] : answering' = [answering EXCEPT ![n] = Nobody] /\
        \/ /\ Room(a.to)
           /\ Deliver(a.to, [kind |-> "BLOCKCHAIN", from |-> n, blocks |-> a.blocks])
           /\ unread' = [unread EXCEPT ![n] = IF Len(a.blocks) > Fits THEN {a.to} ELSE Nobody]
        \/ UNCHANGED <<queue, unread>>
  BY DEF Answer, AnswerNobody
<1>2. a.to \in Others(n) /\ a.blocks \in Seq(Nat)
  BY DEF Typed
<1>3. UNCHANGED <<chain, known, out>>
  BY DEF Answer, AnswerNobody
<1>4. DOMAIN answering' = Node /\
      \A q \in Node : answering'[q] \subseteq [to : Others(q), blocks : Seq(Nat)]
  BY <1>1 DEF Typed, Nobody
<1>5. DOMAIN unread' = Node /\ \A q \in Node : unread'[q] \subseteq Others(q)
  <2>1. PICK u : u = IF Len(a.blocks) > Fits THEN {a.to} ELSE Nobody
    OBVIOUS
  <2>2. u \subseteq Others(n)
    BY <1>2, <2>1 DEF Nobody
  <2>3. unread' = [unread EXCEPT ![n] = u] \/ UNCHANGED unread
    BY <1>1, <2>1
  <2> QED BY <2>2, <2>3 DEF Typed
<1>6. DOMAIN queue' = Node /\
      \A q \in Node : queue'[q] \in Seq(From(Others(q))) /\ Len(queue'[q]) <= Backlog
  <2>1. CASE UNCHANGED queue
    BY <2>1 DEF Typed
  <2>2. PICK m : m = [kind |-> "BLOCKCHAIN", from |-> n, blocks |-> a.blocks]
    OBVIOUS
  <2>3. m \in From({n})
    BY <1>2, <2>2 DEF From
  <2>4. CASE Room(a.to) /\ Deliver(a.to, m)
    <3>1. DOMAIN queue = Node /\ queue' = [queue EXCEPT ![a.to] = Append(@, m)]
      BY <2>4 DEF Deliver, Typed
    <3>2. DOMAIN queue' = Node
      BY <3>1
    <3>3. ASSUME NEW q \in Node
          PROVE  queue'[q] \in Seq(From(Others(q))) /\ Len(queue'[q]) <= Backlog
      <4>1. PICK p : p = a.to
        OBVIOUS
      <4> QED BY <1>2, <2>3, <2>4, <3>1, <4>1, Delivered
    <3> QED BY <3>2, <3>3
  <2> QED BY <1>1, <2>1, <2>2, <2>4
<1> QED BY <1>3, <1>4, <1>5, <1>6 DEF Typed, known

LEMMA DiscoveryTyped ==
    ASSUME Typed, NEW n \in Node, HandleDiscovery(n)
    PROVE  Typed'
<1> DEFINE g == Head(queue[n])
<1>1. /\ queue[n] # <<>> /\ g.kind = "DISCOVERY" /\ queue' = [queue EXCEPT ![n] = Tail(@)]
      /\ peers' = [peers EXCEPT ![n] = @ \cup {g.from}]
      /\ listed' = [listed EXCEPT ![n] = {g.list}]
      /\ out' = [out EXCEPT ![n]["p2p"] = IF g.from \in peers[n] THEN <<>>
                     ELSE toEach(peers[n] \cup {g.from}, request(n))]
      /\ UNCHANGED <<chain, inactive, locks, missed>>
  BY DEF HandleDiscovery, Handle, Begin
<1>2. g.from \in Others(n) /\ g.list \subseteq Node
  <2>1. g \in From(Others(n))
    BY <1>1, HeadOfQueue
  <2> HIDE DEF g
  <2> QED BY <1>1, <2>1 DEF From
<1> HIDE DEF g
<1>3. DOMAIN out' = Node /\ \A q \in Node : out'[q] \in [Thread -> Seq(Sends(q))]
  <2>1. peers[n] \cup {g.from} \subseteq Others(n)
    BY <1>2 DEF Typed, Others
  <2>2. toEach(peers[n] \cup {g.from}, request(n)) \in Seq(Sends(n))
    BY <2>1, EachType, RequestType
  <2>3. <<>> \in Seq(Sends(n)) /\ "p2p" \in Thread
    BY DEF Thread
  <2> QED BY <1>1, <2>2, <2>3, Outgoing
<1>4. /\ DOMAIN peers' = Node /\ \A q \in Node : peers'[q] \subseteq Others(q)
      /\ DOMAIN listed' = Node /\ \A q \in Node : listed'[q] \subseteq SUBSET Node
  BY <1>1, <1>2 DEF Typed
<1>5. DOMAIN queue' = Node /\
      \A q \in Node : queue'[q] \in Seq(From(Others(q))) /\ Len(queue'[q]) <= Backlog
  BY <1>1, Accepted DEF Typed
<1> QED BY <1>1, <1>3, <1>4, <1>5 DEF Typed, locks

LEMMA ListTyped ==
    ASSUME Typed, NEW n \in Node, HearList(n)
    PROVE  Typed'
<1>1. /\ listed' = [listed EXCEPT ![n] = Nobody]
      /\ UNCHANGED <<chain, queue, out, locks, missed>>
  BY DEF HearList
<1>2. CASE UNCHANGED <<peers, inactive>>
  BY <1>1, <1>2 DEF Typed, locks, Nobody
<1>3. CASE \E list \in listed[n] :
            /\ inactive' = [inactive EXCEPT ![n] = {}]
            /\ \E later \in SUBSET (list \cap inactive[n]) :
                   peers' = [peers EXCEPT ![n] = @ \cup fresh(n, list) \cup later]
  <2>1. PICK list \in listed[n] :
            /\ inactive' = [inactive EXCEPT ![n] = {}]
            /\ \E later \in SUBSET (list \cap inactive[n]) :
                   peers' = [peers EXCEPT ![n] = @ \cup fresh(n, list) \cup later]
    BY <1>3
  <2>2. PICK later \in SUBSET (list \cap inactive[n]) :
            peers' = [peers EXCEPT ![n] = @ \cup fresh(n, list) \cup later]
    BY <2>1
  <2>3. fresh(n, list) \subseteq Others(n) /\ later \subseteq Others(n)
    BY DEF fresh, Others, Typed
  <2>4. DOMAIN peers' = Node /\ \A q \in Node : peers'[q] \subseteq Others(q)
    BY <2>2, <2>3 DEF Typed
  <2>5. DOMAIN inactive' = Node /\ \A q \in Node : inactive'[q] \subseteq Others(q)
    BY <2>1 DEF Typed
  <2> QED BY <1>1, <2>4, <2>5 DEF Typed, locks, Nobody
<1> QED BY <1>2, <1>3 DEF HearList

LEMMA BlockTyped ==
    ASSUME Typed, NEW n \in Node, HandleBlock(n)
    PROVE  Typed'
<1> DEFINE c == Head(queue[n]).count
<1>1. /\ queue[n] # <<>> /\ Head(queue[n]).kind = "BLOCK"
      /\ queue' = [queue EXCEPT ![n] = Tail(@)] /\ UNCHANGED <<known, locks>>
      /\ \/ chain' = [chain EXCEPT ![n] = Append(@, c)] /\ UNCHANGED out
         \/ /\ out' = [out EXCEPT ![n]["p2p"] = toEach(peers[n], request(n))]
            /\ UNCHANGED chain
  BY DEF HandleBlock, Handle, Begin
<1>2. c \in Nat
  <2>1. Head(queue[n]) \in From(Others(n))
    BY <1>1, HeadOfQueue
  <2> QED BY <1>1, <2>1 DEF From
<1> HIDE DEF c
<1>3. chain' \in [Node -> Seq(Nat) \ {<<>>}]
  <2>1. chain[n] \in Seq(Nat)
    BY DEF Typed
  <2>2. Append(chain[n], c) \in Seq(Nat) \ {<<>>}
    BY <1>2, <2>1
  <2> QED BY <1>1, <2>2 DEF Typed
<1>4. DOMAIN out' = Node /\ \A q \in Node : out'[q] \in [Thread -> Seq(Sends(q))]
  <2>1. peers[n] \subseteq Others(n)
    BY DEF Typed
  <2>2. toEach(peers[n], request(n)) \in Seq(Sends(n)) /\ "p2p" \in Thread
    BY <2>1, EachType, RequestType DEF Thread
  <2>3. CASE UNCHANGED out
    BY <2>3 DEF Typed
  <2> QED BY <1>1, <2>2, <2>3, Outgoing
<1>5. DOMAIN queue' = Node /\
      \A q \in Node : queue'[q] \in Seq(From(Others(q))) /\ Len(queue'[q]) <= Backlog
  BY <1>1, Accepted DEF Typed
<1> QED BY <1>1, <1>3, <1>4, <1>5 DEF Typed, known, locks
\* What is missing is taken from the chain after the part that is there.
LEMMA MissingType ==
    ASSUME Typed, NEW n \in Node, NEW size \in Nat, size <= Len(chain[n])
    PROVE  /\ missing(n, size) \in Seq(Nat)
           /\ Len(missing(n, size)) = Len(chain[n]) - size
<1>1. chain[n] \in Seq(Nat)
  BY DEF Typed
<1> QED BY <1>1 DEF missing

LEMMA RequestTyped ==
    ASSUME Typed, NEW n \in Node, HandleRequest(n)
    PROVE  Typed'
<1> DEFINE r == Head(queue[n])
<1>1. /\ queue[n] # <<>> /\ r.kind = "BLOCKCHAINREQUEST"
      /\ queue' = [queue EXCEPT ![n] = Tail(@)] /\ UNCHANGED <<chain, known, out, unread>>
      /\ answering' = [answering EXCEPT ![n] =
             IF Len(chain[n]) = 1 \/ r.size > Len(chain[n]) THEN Nobody
             ELSE {[to |-> r.from, blocks |-> missing(n, r.size)]}]
  BY DEF HandleRequest, Handle
<1>2. r.from \in Others(n) /\ r.size \in Nat
  <2>1. r \in From(Others(n))
    BY <1>1, HeadOfQueue
  <2> HIDE DEF r
  <2> QED BY <1>1, <2>1 DEF From
<1> HIDE DEF r
<1>3. DOMAIN answering' = Node /\
      \A q \in Node : answering'[q] \subseteq [to : Others(q), blocks : Seq(Nat)]
  <2>1. CASE answering' = [answering EXCEPT ![n] = {}]
    BY <2>1 DEF Typed
  <2>2. CASE /\ r.size <= Len(chain[n])
             /\ answering' = [answering EXCEPT ![n] =
                    {[to |-> r.from, blocks |-> missing(n, r.size)]}]
    <3>1. missing(n, r.size) \in Seq(Nat)
      BY <1>2, <2>2, MissingType
    <3> QED BY <1>2, <2>2, <3>1 DEF Typed
  <2>3. Len(chain[n]) \in Nat
    <3>1. chain[n] \in Seq(Nat)
      BY DEF Typed
    <3> QED BY <3>1
  <2>4. CASE Len(chain[n]) = 1 \/ r.size > Len(chain[n])
    BY <1>1, <2>1, <2>4 DEF Nobody
  <2>5. CASE ~(Len(chain[n]) = 1 \/ r.size > Len(chain[n]))
    BY <1>1, <1>2, <2>2, <2>3, <2>5
  <2> QED BY <2>4, <2>5
<1>4. DOMAIN queue' = Node /\
      \A q \in Node : queue'[q] \in Seq(From(Others(q))) /\ Len(queue'[q]) <= Backlog
  BY <1>1, Accepted DEF Typed
<1> QED BY <1>1, <1>3, <1>4 DEF Typed, known

LEMMA ChainTyped ==
    ASSUME Typed, NEW n \in Node, HandleChain(n)
    PROVE  Typed'
<1> DEFINE m == Head(queue[n])
<1>1. /\ queue[n] # <<>> /\ m.kind = "BLOCKCHAIN"
      /\ queue' = [queue EXCEPT ![n] = Tail(@)] /\ UNCHANGED <<known, out, answering>>
      /\ chain' = [chain EXCEPT ![n] = IF Len(m.blocks) = tip(n) THEN @ ELSE @ \o m.blocks]
      /\ unread' = IF Len(m.blocks) > Fits THEN [unread EXCEPT ![m.from] = Nobody] ELSE unread
  BY DEF HandleChain, Handle
<1>2. m.from \in Others(n) /\ m.blocks \in Seq(Nat)
  <2>1. m \in From(Others(n))
    BY <1>1, HeadOfQueue
  <2> HIDE DEF m
  <2> QED BY <1>1, <2>1 DEF From
<1> HIDE DEF m
<1>3. chain' \in [Node -> Seq(Nat) \ {<<>>}]
  <2>1. chain[n] \in Seq(Nat) /\ chain[n] # <<>>
    BY DEF Typed
  <2>2. chain[n] \o m.blocks \in Seq(Nat) /\ chain[n] \o m.blocks # <<>>
    BY <1>2, <2>1
  <2>3. PICK c : c = IF Len(m.blocks) = tip(n) THEN chain[n] ELSE chain[n] \o m.blocks
    OBVIOUS
  <2>4. c \in Seq(Nat) \ {<<>>} /\ chain' = [chain EXCEPT ![n] = c]
    BY <1>1, <2>1, <2>2, <2>3
  <2> QED BY <2>4 DEF Typed
<1>4. DOMAIN unread' = Node /\ \A q \in Node : unread'[q] \subseteq Others(q)
  BY <1>1 DEF Typed, Nobody
<1>5. DOMAIN queue' = Node /\
      \A q \in Node : queue'[q] \in Seq(From(Others(q))) /\ Len(queue'[q]) <= Backlog
  BY <1>1, Accepted DEF Typed
<1> QED BY <1>1, <1>3, <1>4, <1>5 DEF Typed, known

LEMMA ForgeTyped ==
    ASSUME Typed, NEW n \in Node, Forge(n)
    PROVE  Typed'
<1> DEFINE c == Len(chain[n])
           b == [kind |-> "BLOCK", count |-> c]
<1>1. /\ chain' = [chain EXCEPT ![n] = Append(@, c)] /\ UNCHANGED <<known, queue, locks>>
      /\ out' = [out EXCEPT ![n]["worker"] = toEach(peers[n], b)]
  BY DEF Forge, Begin
<1>2. chain[n] \in Seq(Nat) /\ c \in Nat
  BY DEF Typed
<1>3. chain' \in [Node -> Seq(Nat) \ {<<>>}]
  <2>1. Append(chain[n], c) \in Seq(Nat) \ {<<>>}
    BY <1>2
  <2> QED BY <1>1, <2>1 DEF Typed
<1>4. b \in From({n}) /\ peers[n] \subseteq Others(n)
  BY <1>2 DEF From, Typed, Others
<1> HIDE DEF c, b
<1>5. toEach(peers[n], b) \in Seq(Sends(n)) /\ "worker" \in Thread
  BY <1>4, EachType DEF Thread
<1>6. DOMAIN out' = Node /\ \A q \in Node : out'[q] \in [Thread -> Seq(Sends(q))]
  BY <1>1, <1>5, Outgoing
<1> QED BY <1>1, <1>3, <1>6 DEF Typed, known, locks

LEMMA DiscoverTyped ==
    ASSUME Typed, NEW n \in Node, Discover(n)
    PROVE  Typed'
<1>1. CASE Greet(n)
  <2>1. PICK p \in peers[n] : Room(p) /\ queue' = [queue EXCEPT ![p] = Append(@, hello(n))]
    BY <1>1 DEF Greet, Deliver
  <2>2. p \in Others(n) /\ hello(n) \in From({n})
    BY RequestType DEF Typed
  <2>3. DOMAIN queue' = Node /\
        \A q \in Node : queue'[q] \in Seq(From(Others(q))) /\ Len(queue'[q]) <= Backlog
    <3>1. PICK m : m = hello(n)
      OBVIOUS
    <3> QED BY <2>1, <2>2, <3>1, Delivered DEF Typed
  <2> QED BY <1>1, <2>3 DEF Greet, Typed, known, locks
<1>2. CASE Miss(n)
  <2>1. PICK p \in peers[n] \ {Master} :
            /\ peers' = [peers EXCEPT ![n] = @ \ {p}]
            /\ inactive' = [inactive EXCEPT ![n] = @ \cup {p}]
    BY <1>2 DEF Miss
  <2>2. p \in Others(n)
    BY DEF Typed
  <2>3. missed' \in 0..Misses
    BY <1>2, TransportAssumption DEF Miss, Typed
  <2>4. /\ DOMAIN peers' = Node /\ \A q \in Node : peers'[q] \subseteq Others(q)
        /\ DOMAIN inactive' = Node /\ \A q \in Node : inactive'[q] \subseteq Others(q)
    BY <2>1, <2>2 DEF Typed
  <2> QED BY <1>2, <2>3, <2>4 DEF Miss, Typed, locks
<1> QED BY <1>1, <1>2 DEF Discover

LEMMA NextTyped == Typed /\ [Next]_vars => Typed'
<1> SUFFICES ASSUME Typed, [Next]_vars PROVE Typed'
  OBVIOUS
<1>1. CASE UNCHANGED vars
  BY <1>1 DEF vars, Typed
<1>2. CASE Next
  <2>1. PICK n \in Node : P2PThread(n) \/ Forge(n) \/ Worker(n) \/ Discover(n)
    BY <1>2 DEF Next
  <2>2. CASE P2PThread(n)
    <3>1. "p2p" \in Thread
      BY DEF Thread
    <3> QED BY <2>2, <3>1, SendTyped, AnswerTyped, DiscoveryTyped, ListTyped, BlockTyped,
               RequestTyped, ChainTyped DEF P2PThread
  <2>3. CASE Worker(n)
    <3>1. "worker" \in Thread
      BY DEF Thread
    <3> QED BY <2>3, <3>1, SendTyped DEF Worker
  <2> QED BY <2>1, <2>2, <2>3, ForgeTyped, DiscoverTyped
<1> QED BY <1>1, <1>2

\* Every variable of P2PTransport has its type, no queue is longer than the
\* kernel lets it be (P2PServer.cpp:57-61), and nobody writes to itself.
THEOREM TransportTypeCorrect == Spec => []TypeOK
<1>1. Spec => []Typed
  BY InitTyped, NextTyped, PTL DEF Spec
<1> QED BY <1>1, TypedType, PTL

-----------------------------------------------------------------------------
(***************************************************************************)
(* Where the answer is that a node holds blockchainMutex for: in one place *)
(* of one queue, as it handles no other request before it is read.         *)
(***************************************************************************)
\* A message of n that its receiver has to read before n can go on.
Holds(msg, n) == msg.kind = "BLOCKCHAIN" /\ msg.from = n /\ Len(msg.blocks) > Fits

\* Where such messages are in a queue.
Places(q, n) == {i \in DOMAIN q : Holds(q[i], n)}

OnePlace ==
    \A n, p, q \in Node : \A i \in Places(queue[p], n) : \A j \in Places(queue[q], n) :
        p = q /\ i = j

\* A node that answers holds the lock for no earlier answer.
OneAnswer == \A n \in Node : answering[n] # Nobody => unread[n] = Nobody

Waits == AnswersAwaited /\ OneAnswer /\ OnePlace

LEMMA AwaitedPlaces == \A n \in Node : Awaited(n) = {p \in Node : Places(queue[p], n) # {}}
BY DEF Awaited, Places, Holds

LEMMA PlacesAppended ==
    ASSUME NEW S, NEW q \in Seq(S), NEW m \in S, NEW n
    PROVE  Places(Append(q, m), n) =
               Places(q, n) \cup (IF Holds(m, n) THEN {Len(q) + 1} ELSE {})
<1>1. /\ DOMAIN Append(q, m) = DOMAIN q \cup {Len(q) + 1} /\ Len(q) + 1 \notin DOMAIN q
      /\ Append(q, m)[Len(q) + 1] = m /\ \A i \in DOMAIN q : Append(q, m)[i] = q[i]
  OBVIOUS
<1>2. PICK k : k = Len(q) + 1
  OBVIOUS
<1> QED BY <1>1, <1>2 DEF Places

\* What is first in a queue is taken out, and the others move up.
LEMMA PlacesTaken ==
    ASSUME NEW S, NEW q \in Seq(S), q # <<>>, NEW n
    PROVE  /\ \A i \in Places(Tail(q), n) : i \in Nat /\ i + 1 \in Places(q, n)
           /\ \A j \in Places(q, n) : j # 1 => j - 1 \in Places(Tail(q), n)
           /\ 1 \in Places(q, n) <=> Holds(Head(q), n)
<1>1. /\ DOMAIN q = 1..Len(q) /\ Len(q) \in Nat \ {0} /\ Head(q) = q[1]
      /\ DOMAIN Tail(q) = 1..(Len(q) - 1) /\ \A i \in DOMAIN Tail(q) : Tail(q)[i] = q[i + 1]
  OBVIOUS
<1>2. ASSUME NEW i \in Places(Tail(q), n) PROVE i \in Nat /\ i + 1 \in Places(q, n)
  <2>1. i \in 1..(Len(q) - 1) /\ Holds(Tail(q)[i], n)
    BY <1>1 DEF Places
  <2>2. PICK k : k = i + 1
    OBVIOUS
  <2>3. k \in DOMAIN q /\ Tail(q)[i] = q[k]
    BY <1>1, <2>1, <2>2
  <2>4. k \in Places(q, n)
    BY <2>1, <2>3 DEF Places
  <2> QED BY <2>1, <2>2, <2>4
<1>3. ASSUME NEW j \in Places(q, n), j # 1 PROVE j - 1 \in Places(Tail(q), n)
  <2>1. j \in 1..Len(q) /\ Holds(q[j], n)
    BY <1>1 DEF Places
  <2>2. PICK k : k = j - 1
    OBVIOUS
  <2>3. k \in DOMAIN Tail(q) /\ Tail(q)[k] = q[j]
    BY <1>1, <1>3, <2>1, <2>2
  <2>4. k \in Places(Tail(q), n)
    BY <2>1, <2>3 DEF Places
  <2> QED BY <2>2, <2>4
<1>4. 1 \in Places(q, n) <=> Holds(Head(q), n)
  BY <1>1 DEF Places
<1> QED BY <1>2, <1>3, <1>4

\* A message that holds nobody up changes no answer's being there.
LEMMA DeliveredWaits ==
    ASSUME Typed, Waits, NEW n \in Node, NEW p \in Node, NEW m \in From({n}), m.kind # "BLOCKCHAIN",
           queue' = [queue EXCEPT ![p] = Append(@, m)], UNCHANGED locks
    PROVE  Waits'
<1>1. \A q \in Node : queue[q] \in Seq(From(Others(q)))
  BY DEF Typed
<1>2. PICK S : S = From(Others(p)) \cup {m}
  OBVIOUS
<1>3. queue[p] \in Seq(S) /\ m \in S
  BY <1>1, <1>2
<1>4. ASSUME NEW r \in Node, NEW q \in Node PROVE Places(queue'[q], r) = Places(queue[q], r)
  <2>1. ~Holds(m, r)
    BY DEF Holds
  <2>2. CASE q = p
    <3>1. Places(Append(queue[p], m), r) =
              Places(queue[p], r) \cup (IF Holds(m, r) THEN {Len(queue[p]) + 1} ELSE {})
      <4>1. PICK u : u = queue[p]
        OBVIOUS
      <4>2. u \in Seq(S) /\ m \in S
        BY <1>3, <4>1
      <4> QED BY <4>1, <4>2, PlacesAppended
    <3> QED BY <2>1, <2>2, <3>1 DEF Typed
  <2>3. CASE q # p
    BY <2>3 DEF Typed
  <2> QED BY <2>2, <2>3
<1>5. OnePlace'
  <2>1. OnePlace
    BY DEF Waits
  <2> SUFFICES ASSUME NEW r \in Node, NEW q \in Node, NEW s \in Node,
                      NEW i \in Places(queue'[q], r), NEW j \in Places(queue'[s], r)
               PROVE  q = s /\ i = j
    BY DEF OnePlace, Places, Holds
  <2>2. i \in Places(queue[q], r) /\ j \in Places(queue[s], r)
    BY <1>4
  <2> QED BY <2>1, <2>2, Zenon DEF OnePlace
<1>6. AnswersAwaited'
  <2>1. \A r \in Node : unread'[r] = {q \in Node : Places(queue'[q], r) # {}}
    BY <1>4, AwaitedPlaces DEF Waits, AnswersAwaited, locks
  <2>2. \A r \in Node : Awaited(r)' = {q \in Node : Places(queue'[q], r) # {}}
    BY DEF Awaited, Places, Holds
  <2> QED BY <2>1, <2>2 DEF AnswersAwaited
<1> QED BY <1>5, <1>6 DEF Waits, OneAnswer, locks

\* What is taken out of a queue lets its sender go on if it held it up.
LEMMA TakenWaits ==
    ASSUME Typed, Waits, NEW n \in Node, queue[n] # <<>>,
           queue' = [queue EXCEPT ![n] = Tail(@)],
           \A r \in Node : unread'[r] = IF Holds(Head(queue[n]), r) THEN {} ELSE unread[r],
           \A r \in Node : answering'[r] # Nobody =>
                answering[r] # Nobody \/ unread[r] = Nobody
    PROVE  Waits'
<1>1. \A q \in Node : queue[q] \in Seq(From(Others(q)))
  BY DEF Typed
<1>2. PICK S : S = From(Others(n))
  OBVIOUS
<1>3. ASSUME NEW r \in Node
      PROVE  /\ \A i \in Places(Tail(queue[n]), r) : i \in Nat /\ i + 1 \in Places(queue[n], r)
             /\ \A j \in Places(queue[n], r) : j # 1 => j - 1 \in Places(Tail(queue[n]), r)
             /\ 1 \in Places(queue[n], r) <=> Holds(Head(queue[n]), r)
  BY <1>1, <1>2, PlacesTaken
<1>4. queue'[n] = Tail(queue[n]) /\ \A q \in Node \ {n} : queue'[q] = queue[q]
  BY DEF Typed
<1>5. OnePlace'
  <2> SUFFICES ASSUME NEW r \in Node, NEW p \in Node, NEW q \in Node,
                      NEW i \in Places(queue'[p], r), NEW j \in Places(queue'[q], r)
               PROVE  p = q /\ i = j
    BY DEF OnePlace, Places, Holds
  <2>1. PICK i0 \in Places(queue[p], r) : IF p = n THEN i \in Nat /\ i0 = i + 1 ELSE i0 = i
    BY <1>3, <1>4
  <2>2. PICK j0 \in Places(queue[q], r) : IF q = n THEN j \in Nat /\ j0 = j + 1 ELSE j0 = j
    BY <1>3, <1>4
  <2>3. p = q /\ i0 = j0
    <3>1. OnePlace
      BY DEF Waits
    <3>2. \A k \in Places(queue[p], r) : \A l \in Places(queue[q], r) : p = q /\ k = l
      BY <3>1 DEF OnePlace
    <3> QED BY <3>2
  <2> QED BY <2>1, <2>2, <2>3
<1>6. AnswersAwaited'
  <2>1. \A r \in Node : Awaited(r)' = {q \in Node : Places(queue'[q], r) # {}}
    BY DEF Awaited, Places, Holds
  <2> SUFFICES ASSUME NEW r \in Node
               PROVE  unread'[r] = {q \in Node : Places(queue'[q], r) # {}}
    BY <2>1 DEF AnswersAwaited
  <2>2. unread[r] = {q \in Node : Places(queue[q], r) # {}}
    BY AwaitedPlaces DEF Waits, AnswersAwaited
  <2>3. CASE Holds(Head(queue[n]), r)
    <3>1. 1 \in Places(queue[n], r)
      BY <1>3, <2>3
    <3>2. \A q \in Node : \A i \in Places(queue[q], r) : q = n /\ i = 1
      BY <3>1 DEF Waits, OnePlace
    <3>3. \A q \in Node \ {n} : Places(queue'[q], r) = {}
      BY <1>4, <3>2
    <3>4. \A i \in Places(Tail(queue[n]), r) : i \in Nat /\ i + 1 = 1
      BY <1>3, <3>2
    <3>5. \A i \in Places(Tail(queue[n]), r) : i \in 1..(Len(queue[n]) - 1)
      BY <1>1, <1>2 DEF Places
    <3>6. Places(queue'[n], r) = {}
      BY <1>4, <3>4, <3>5
    <3>7. unread'[r] = {}
      BY <2>3
    <3> QED BY <3>3, <3>6, <3>7
  <2>4. CASE ~Holds(Head(queue[n]), r)
    <3>1. 1 \notin Places(queue[n], r)
      BY <1>3, <2>4
    <3>2. Places(Tail(queue[n]), r) # {} <=> Places(queue[n], r) # {}
      BY <1>3, <3>1
    <3>3. \A q \in Node : Places(queue'[q], r) # {} <=> Places(queue[q], r) # {}
      BY <1>4, <3>2
    <3> QED BY <2>2, <2>4, <3>3
  <2> QED BY <2>3, <2>4
<1>7. OneAnswer'
  BY DEF Waits, OneAnswer, Nobody
<1> QED BY <1>5, <1>6, <1>7 DEF Waits

LEMMA InitWaits == Init => Waits
<1> SUFFICES ASSUME Init PROVE Waits
  OBVIOUS
<1>1. \A n, p \in Node : Places(queue[p], n) = {}
  BY DEF Init, Places
<1>2. \A n \in Node : Awaited(n) = {} /\ unread[n] = {} /\ answering[n] = Nobody
  BY <1>1, AwaitedPlaces DEF Init, Nobody
<1> QED BY <1>1, <1>2 DEF Waits, AnswersAwaited, OneAnswer, OnePlace

\* Nothing but requests, greetings and blocks is sent where no answer is.
Plain == \A n \in Node : \A t \in Thread : \A i \in DOMAIN out[n][t] :
    out[n][t][i].msg.kind # "BLOCKCHAIN"

LEMMA EachPlain ==
    ASSUME NEW n \in Node, NEW ps, ps \subseteq Others(n), NEW m \in From({n}), m.kind # "BLOCKCHAIN"
    PROVE  \A i \in DOMAIN toEach(ps, m) : toEach(ps, m)[i].msg.kind # "BLOCKCHAIN"
<1> DEFINE S == {[to |-> p, msg |-> m] : p \in ps}
<1>1. IsFiniteSet(ps)
  BY TransportAssumption, FS_Subset DEF Others
<1>2. IsFiniteSet(S)
  <2> DEFINE f == [p \in ps |-> [to |-> p, msg |-> m]]
  <2>1. f \in Surjection(ps, S)
    BY DEF Surjection
  <2> QED BY <1>1, <2>1, FS_Surjection
<1>3. \A e \in S : e.msg.kind # "BLOCKCHAIN"
  OBVIOUS
<1> HIDE DEF S
<1>4. SetToSeq(S) \in Seq(S)
  BY <1>2, ListType
<1>5. \A i \in DOMAIN SetToSeq(S) : SetToSeq(S)[i].msg.kind # "BLOCKCHAIN"
  BY <1>3, <1>4
<1> QED BY <1>5 DEF toEach, S

LEMMA OutPlain ==
    ASSUME Typed, Plain, NEW n \in Node, NEW t \in Thread, NEW s \in Seq(Sends(n)),
           \A i \in DOMAIN s : s[i].msg.kind # "BLOCKCHAIN", out' = [out EXCEPT ![n][t] = s]
    PROVE  Plain'
<1>1. out[n] \in [Thread -> Seq(Sends(n))] /\ DOMAIN out = Node
  BY DEF Typed
<1>2. out' = [out EXCEPT ![n] = [out[n] EXCEPT ![t] = s]]
  BY <1>1
<1>3. \A q \in Node : \A u \in Thread : out'[q][u] = IF q = n /\ u = t THEN s ELSE out[q][u]
  BY <1>1, <1>2
<1> QED BY <1>3 DEF Plain

LEMMA InitPlain == Init => Plain
<1> SUFFICES ASSUME Init, NEW n \in Node, NEW t \in Thread,
                    NEW i \in DOMAIN out[n][t]
             PROVE  out[n][t][i].msg.kind # "BLOCKCHAIN"
  BY DEF Plain
<1>1. Typed
  BY InitTyped
<1>2. CASE t = "p2p" /\ n \in Joining
  <2>1. {Master} \subseteq Others(n) /\ hello(n) \in From({n}) /\ hello(n).kind # "BLOCKCHAIN"
    BY <1>1, <1>2, RequestType, TransportAssumption DEF Others, hello
  <2>2. out[n][t] = toEach({Master}, hello(n))
    BY <1>2 DEF Init
  <2>3. PICK m : m = hello(n)
    OBVIOUS
  <2> QED BY <2>1, <2>2, <2>3, EachPlain
<1>3. CASE ~(t = "p2p" /\ n \in Joining)
  <2>1. out[n][t] = <<>>
    BY <1>3 DEF Init
  <2> QED BY <2>1
<1> QED BY <1>2, <1>3

LEMMA NextPlain == Typed /\ Plain /\ [Next]_vars => Plain'
<1> SUFFICES ASSUME Typed, Plain, [Next]_vars PROVE Plain'
  OBVIOUS
<1>1. CASE UNCHANGED out
  BY <1>1 DEF Plain
<1>2. ASSUME NEW n \in Node, NEW t \in Thread, Send(n, t) \/ GiveUp(n, t) PROVE Plain'
  <2>1. out[n][t] # <<>> /\ out' = [out EXCEPT ![n][t] = Tail(out[n][t])]
    BY <1>2 DEF Send, GiveUp
  <2>2. out[n][t] \in Seq(Sends(n))
    BY DEF Typed
  <2>3. PICK S : S = Sends(n)
    OBVIOUS
  <2>4. /\ Tail(out[n][t]) \in Seq(S)
        /\ \A i \in DOMAIN Tail(out[n][t]) : i + 1 \in DOMAIN out[n][t]
                                             /\ Tail(out[n][t])[i] = out[n][t][i + 1]
    BY <2>1, <2>2, <2>3
  <2>5. \A i \in DOMAIN Tail(out[n][t]) : Tail(out[n][t])[i].msg.kind # "BLOCKCHAIN"
    <3>1. ASSUME NEW i \in DOMAIN Tail(out[n][t])
          PROVE  Tail(out[n][t])[i].msg.kind # "BLOCKCHAIN"
      <4>1. PICK k : k = i + 1
        OBVIOUS
      <4>2. k \in DOMAIN out[n][t] /\ Tail(out[n][t])[i] = out[n][t][k]
        BY <2>4, <4>1
      <4> QED BY <4>2 DEF Plain
    <3> QED BY <3>1
  <2>6. PICK s : s = Tail(out[n][t])
    OBVIOUS
  <2> QED BY <2>1, <2>3, <2>4, <2>5, <2>6, OutPlain
<1>3. ASSUME NEW n \in Node, HandleDiscovery(n) PROVE Plain'
  <2> DEFINE g == Head(queue[n])
  <2>1. /\ queue[n] # <<>> /\ g.kind = "DISCOVERY"
        /\ out' = [out EXCEPT ![n]["p2p"] = IF g.from \in peers[n] THEN <<>>
                       ELSE toEach(peers[n] \cup {g.from}, request(n))]
    BY <1>3 DEF HandleDiscovery, Handle, Begin
  <2>2. g.from \in Others(n)
    <3>1. g \in From(Others(n))
      BY <2>1, HeadOfQueue
    <3> HIDE DEF g
    <3> QED BY <2>1, <3>1 DEF From
  <2> HIDE DEF g
  <2>3. PICK ps : ps = peers[n] \cup {g.from}
    OBVIOUS
  <2>4. ps \subseteq Others(n)
    BY <2>2, <2>3 DEF Typed, Others
  <2>5. PICK r : r = request(n)
    OBVIOUS
  <2>6. r \in From({n}) /\ r.kind # "BLOCKCHAIN"
    BY <2>5, RequestType DEF request
  <2>7. PICK s : s = IF g.from \in peers[n] THEN <<>> ELSE toEach(ps, r)
    OBVIOUS
  <2>8. toEach(ps, r) \in Seq(Sends(n)) /\ <<>> \in Seq(Sends(n)) /\ "p2p" \in Thread
    BY <2>4, <2>6, EachType DEF Thread
  <2>9. \A i \in DOMAIN s : s[i].msg.kind # "BLOCKCHAIN"
    BY <2>4, <2>6, <2>7, EachPlain
  <2>10. s \in Seq(Sends(n)) /\ out' = [out EXCEPT ![n]["p2p"] = s]
    BY <2>1, <2>3, <2>5, <2>7, <2>8
  <2> QED BY <2>8, <2>9, <2>10, OutPlain
<1>4. ASSUME NEW n \in Node, HandleBlock(n) PROVE Plain'
  <2>1. UNCHANGED out \/ out' = [out EXCEPT ![n]["p2p"] = toEach(peers[n], request(n))]
    BY <1>4 DEF HandleBlock, Begin
  <2>2. peers[n] \subseteq Others(n) /\ "p2p" \in Thread
    BY DEF Typed, Thread
  <2>3. PICK r : r = request(n)
    OBVIOUS
  <2>4. r \in From({n}) /\ r.kind # "BLOCKCHAIN"
    BY <2>3, RequestType DEF request
  <2>5. PICK s : s = toEach(peers[n], r)
    OBVIOUS
  <2>6. s \in Seq(Sends(n)) /\ \A i \in DOMAIN s : s[i].msg.kind # "BLOCKCHAIN"
    BY <2>2, <2>4, <2>5, EachType, EachPlain
  <2>7. UNCHANGED out \/ out' = [out EXCEPT ![n]["p2p"] = s]
    BY <2>1, <2>3, <2>5
  <2> QED BY <1>1, <2>2, <2>6, <2>7, OutPlain
<1>5. ASSUME NEW n \in Node, Forge(n) PROVE Plain'
  <2> DEFINE b == [kind |-> "BLOCK", count |-> Len(chain[n])]
  <2>1. out' = [out EXCEPT ![n]["worker"] = toEach(peers[n], b)]
    BY <1>5 DEF Forge, Begin
  <2>2. peers[n] \subseteq Others(n) /\ "worker" \in Thread
    BY DEF Typed, Thread
  <2>3. b \in From({n}) /\ b.kind # "BLOCKCHAIN"
    <3>1. chain[n] \in Seq(Nat)
      BY DEF Typed
    <3>2. Len(chain[n]) \in Nat
      BY <3>1
    <3> QED BY <3>2 DEF From
  <2> HIDE DEF b
  <2>4. PICK s : s = toEach(peers[n], b)
    OBVIOUS
  <2>5. s \in Seq(Sends(n)) /\ \A i \in DOMAIN s : s[i].msg.kind # "BLOCKCHAIN"
    BY <2>2, <2>3, <2>4, EachType, EachPlain
  <2> QED BY <2>1, <2>2, <2>4, <2>5, OutPlain
<1>6. "p2p" \in Thread /\ "worker" \in Thread
  BY DEF Thread
<1> QED
  BY <1>1, <1>2, <1>3, <1>4, <1>5, <1>6
  DEF Next, vars, P2PThread, Worker, HearList, HandleRequest, HandleChain, Answer, AnswerNobody,
      Discover, Greet, Miss

LEMMA AnswerWaits ==
    ASSUME Typed, Waits, NEW n \in Node, Answer(n)
    PROVE  Waits'
<1>1. PICK a \in answering[n] :
        /\ Deliver(a.to, [kind |-> "BLOCKCHAIN", from |-> n, blocks |-> a.blocks])
        /\ answering' = [answering EXCEPT ![n] = Nobody]
        /\ unread' = [unread EXCEPT ![n] = IF Len(a.blocks) > Fits THEN {a.to} ELSE Nobody]
  BY DEF Answer
<1>2. a.to \in Others(n) /\ a.blocks \in Seq(Nat)
  BY DEF Typed
<1>3. PICK p : p = a.to
  OBVIOUS
<1>4. PICK m : m = [kind |-> "BLOCKCHAIN", from |-> n, blocks |-> a.blocks]
  OBVIOUS
<1>5. p \in Node /\ m \in From({n})
  BY <1>2, <1>3, <1>4 DEF Others, From
<1>6. \A q \in Node : queue[q] \in Seq(From(Others(q)))
  BY DEF Typed
<1>7. PICK S : S = From(Others(p)) \cup {m}
  OBVIOUS
<1>8. queue[p] \in Seq(S) /\ m \in S
  BY <1>5, <1>6, <1>7
<1>9. queue'[p] = Append(queue[p], m) /\ \A q \in Node \ {p} : queue'[q] = queue[q]
  BY <1>1, <1>3, <1>4, <1>5 DEF Deliver, Typed
<1>10. \A r \in Node : Holds(m, r) <=> r = n /\ Len(a.blocks) > Fits
  BY <1>4 DEF Holds
<1>11. ASSUME NEW r \in Node, NEW q \in Node
       PROVE  Places(queue'[q], r) =
                  Places(queue[q], r) \cup (IF q = p /\ Holds(m, r) THEN {Len(queue[p]) + 1} ELSE {})
  <2>1. Places(Append(queue[p], m), r) =
            Places(queue[p], r) \cup (IF Holds(m, r) THEN {Len(queue[p]) + 1} ELSE {})
    <3>1. PICK u : u = queue[p]
      OBVIOUS
    <3>2. u \in Seq(S) /\ m \in S
      BY <1>8, <3>1
    <3> QED BY <3>1, <3>2, PlacesAppended
  <2>2. CASE q = p
    BY <1>9, <2>1, <2>2
  <2>3. CASE q # p
    BY <1>9, <2>3
  <2> QED BY <2>2, <2>3
<1>12. unread[n] = {} /\ \A q \in Node : Places(queue[q], n) = {}
  <2>1. unread[n] = {}
    BY <1>1 DEF Waits, OneAnswer, Nobody
  <2> QED BY <2>1, AwaitedPlaces DEF Waits, AnswersAwaited
<1>13. OnePlace'
  <2> SUFFICES ASSUME NEW r \in Node, NEW q \in Node, NEW s \in Node,
                      NEW i \in Places(queue'[q], r), NEW j \in Places(queue'[s], r)
               PROVE  q = s /\ i = j
    BY DEF OnePlace, Places, Holds
  <2>1. CASE r = n
    <3>1. Places(queue[q], r) = {} /\ Places(queue[s], r) = {}
      BY <1>12, <2>1
    <3>2. i \in (IF q = p /\ Holds(m, r) THEN {Len(queue[p]) + 1} ELSE {})
          /\ j \in (IF s = p /\ Holds(m, r) THEN {Len(queue[p]) + 1} ELSE {})
      BY <1>11, <3>1
    <3> QED BY <3>2
  <2>2. CASE r # n
    <3>1. OnePlace
      BY DEF Waits
    <3>2. i \in Places(queue[q], r) /\ j \in Places(queue[s], r)
      BY <1>10, <1>11, <2>2
    <3> QED BY <3>1, <3>2, Zenon DEF OnePlace
  <2> QED BY <2>1, <2>2
<1>14. AnswersAwaited'
  <2>1. \A r \in Node : Awaited(r)' = {q \in Node : Places(queue'[q], r) # {}}
    BY DEF Awaited, Places, Holds
  <2> SUFFICES ASSUME NEW r \in Node
               PROVE  unread'[r] = {q \in Node : Places(queue'[q], r) # {}}
    BY <2>1 DEF AnswersAwaited
  <2>2. CASE r = n
    <3>1. CASE Len(a.blocks) > Fits
      <4>1. unread'[n] = {p}
        BY <1>1, <1>3, <3>1 DEF Typed
      <4>2. \A q \in Node : Places(queue'[q], n) # {} <=> q = p
        BY <1>10, <1>11, <1>12, <3>1
      <4> QED BY <1>5, <2>2, <4>1, <4>2
    <3>2. CASE ~(Len(a.blocks) > Fits)
      <4>1. unread'[n] = {}
        BY <1>1, <3>2 DEF Typed, Nobody
      <4>2. \A q \in Node : Places(queue'[q], n) = {}
        BY <1>10, <1>11, <1>12, <3>2
      <4> QED BY <2>2, <4>1, <4>2
    <3> QED BY <3>1, <3>2
  <2>3. CASE r # n
    <3>1. unread'[r] = unread[r]
      BY <1>1, <2>3 DEF Typed
    <3>2. \A q \in Node : Places(queue'[q], r) = Places(queue[q], r)
      BY <1>10, <1>11, <2>3
    <3> QED BY <3>1, <3>2, AwaitedPlaces DEF Waits, AnswersAwaited
  <2> QED BY <2>2, <2>3
<1>15. OneAnswer'
  BY <1>1 DEF Waits, OneAnswer, Typed, Nobody
<1> QED BY <1>13, <1>14, <1>15 DEF Waits

LEMMA HandleWaits ==
    ASSUME Typed, Waits, NEW n \in Node,
           HandleDiscovery(n) \/ HandleBlock(n) \/ HandleRequest(n) \/ HandleChain(n)
    PROVE  Waits'
<1> DEFINE m == Head(queue[n])
<1>1. /\ queue[n] # <<>> /\ Accepting(n) /\ queue' = [queue EXCEPT ![n] = Tail(@)]
      /\ \/ m.kind # "BLOCKCHAIN" /\ UNCHANGED unread
         \/ /\ m.kind = "BLOCKCHAIN"
            /\ unread' = IF Len(m.blocks) > Fits THEN [unread EXCEPT ![m.from] = Nobody]
                         ELSE unread
      /\ \A r \in Node \ {n} : answering'[r] = answering[r]
  BY DEF HandleDiscovery, HandleBlock, HandleRequest, HandleChain, Handle, locks, Typed
<1>2. m \in From(Others(n))
  BY <1>1, HeadOfQueue
<1> HIDE DEF m
<1>3. \A r \in Node : unread'[r] = IF Holds(m, r) THEN {} ELSE unread[r]
  <2>1. m.kind = "BLOCKCHAIN" => m.from \in Node
    BY <1>2 DEF From, Others
  <2>2. DOMAIN unread = Node
    BY DEF Typed
  <2> QED BY <1>1, <2>1, <2>2 DEF Holds, Nobody
<1>4. \A r \in Node : answering'[r] # Nobody => answering[r] # Nobody \/ unread[r] = Nobody
  BY <1>1 DEF Accepting, Locked
<1> QED BY <1>1, <1>3, <1>4, TakenWaits DEF m

LEMMA NextWaits == Typed /\ Plain /\ Waits /\ [Next]_vars => Waits'
<1> SUFFICES ASSUME Typed, Plain, Waits, [Next]_vars PROVE Waits'
  OBVIOUS
<1>1. CASE UNCHANGED <<queue, locks>>
  <2>1. \A n \in Node : Awaited(n)' = Awaited(n)
    BY <1>1 DEF Awaited
  <2>2. OnePlace'
    BY <1>1 DEF Waits, OnePlace
  <2> QED BY <1>1, <2>1, <2>2 DEF Waits, AnswersAwaited, OneAnswer, locks
<1>2. ASSUME NEW n \in Node, NEW t \in Thread, Send(n, t) PROVE Waits'
  <2> DEFINE p == connection(n, t).to
             m == connection(n, t).msg
  <2>1. /\ out[n][t] # <<>> /\ queue' = [queue EXCEPT ![p] = Append(@, m)] /\ UNCHANGED locks
    BY <1>2 DEF Send, Deliver
  <2>2. p \in Node /\ m \in From({n})
    BY <2>1, HeadOfOut DEF Others
  <2>3. m.kind # "BLOCKCHAIN"
    <3>1. out[n][t] \in Seq(Sends(n))
      BY DEF Typed
    <3>2. 1 \in DOMAIN out[n][t] /\ Head(out[n][t]) = out[n][t][1]
      BY <2>1, <3>1
    <3> QED BY <3>2 DEF Plain, connection
  <2> HIDE DEF p, m
  <2> QED BY <2>1, <2>2, <2>3, DeliveredWaits
<1>3. ASSUME NEW n \in Node, AnswerNobody(n) PROVE Waits'
  <2>1. UNCHANGED <<queue, unread>> /\ answering' = [answering EXCEPT ![n] = Nobody]
    BY <1>3 DEF AnswerNobody
  <2>2. \A r \in Node : Awaited(r)' = Awaited(r)
    BY <2>1 DEF Awaited
  <2>3. OnePlace'
    BY <2>1 DEF Waits, OnePlace
  <2> QED BY <2>1, <2>2, <2>3 DEF Waits, AnswersAwaited, OneAnswer, Typed
<1>4. ASSUME NEW n \in Node, Greet(n) PROVE Waits'
  <2>1. PICK p \in peers[n] : queue' = [queue EXCEPT ![p] = Append(@, hello(n))]
    BY <1>4 DEF Greet, Deliver
  <2>2. PICK m : m = hello(n)
    OBVIOUS
  <2>3. p \in Node /\ m \in From({n}) /\ m.kind # "BLOCKCHAIN"
    BY <2>2, RequestType DEF Typed, Others, hello
  <2>4. queue' = [queue EXCEPT ![p] = Append(@, m)] /\ UNCHANGED locks
    BY <1>4, <2>1, <2>2 DEF Greet
  <2> QED BY <2>3, <2>4, DeliveredWaits
<1>5. ASSUME NEW n \in Node,
             GiveUp(n, "p2p") \/ GiveUp(n, "worker") \/ HearList(n) \/ Forge(n) \/ Miss(n)
      PROVE  Waits'
  BY <1>1, <1>5 DEF GiveUp, HearList, Forge, Miss
<1>6. "p2p" \in Thread /\ "worker" \in Thread
  BY DEF Thread
<1>7. CASE UNCHANGED vars
  BY <1>1, <1>7 DEF vars, locks
<1>8. CASE Next
  BY <1>2, <1>3, <1>4, <1>5, <1>6, <1>8, AnswerWaits, HandleWaits
  DEF Next, P2PThread, Worker, Discover
<1> QED BY <1>7, <1>8

\* A node that holds blockchainMutex for an answer (Node.cpp:264-298) is waited for
\* by nobody but the node in whose queue the answer is: the lock is held as long
\* as the answer is to be read, and no longer.
THEOREM AnswersAwaitedCorrect == Spec => []AnswersAwaited
<1>1. Init => Typed /\ Plain /\ Waits
  BY InitTyped, InitPlain, InitWaits
<1>2. Typed /\ Plain /\ Waits /\ [Next]_vars => (Typed /\ Plain /\ Waits)'
  BY NextTyped, NextPlain, NextWaits
<1>3. Waits => AnswersAwaited
  BY DEF Waits
<1> QED BY <1>1, <1>2, <1>3, PTL DEF Spec
=============================================================================
