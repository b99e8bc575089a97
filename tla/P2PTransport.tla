----------------------------- MODULE P2PTransport -----------------------------
(***************************************************************************)
(* Where the threads of several nodes wait for each other (P2PServer.cpp,  *)
(* SocketCommunication.cpp).  A node accepts one connection after the      *)
(* other, each is handled to its end before the next, and while the P2P    *)
(* thread answers a request for the chain it holds blockchainMutex.        *)
(*                                                                         *)
(* A connection is made if fewer than Backlog wait at the receiver;        *)
(* otherwise connect waits, and fails if it waits for minutes.  A message  *)
(* that fits in the buffers of the sockets is sent at once; send waits,    *)
(* without limit, until the receiver reads the rest of a longer one: the   *)
(* only messages that grow are chains, and Fits blocks of one fit.         *)
(*                                                                         *)
(* A chain is the counts of its blocks.  Only the master forges, with its  *)
(* HTTP worker.  A greeting that would tell its receiver nothing new is    *)
(* left out.  A node's peers are a set: their order is left open, and so   *)
(* is that two threads use the vector at once, the matter of PeerDiscovery.*)
(***************************************************************************)
EXTENDS Integers, FiniteSets, SequencesExt

CONSTANTS
    Node,        \* the nodes
    Master,      \* the one that forges, and is greeted by who starts
    Joining,     \* the nodes that are just starting
    Backlog,     \* connections that wait to be accepted (3)
    Fits,        \* blocks of an answer that are sent at once
    First,       \* the blocks the others have at the beginning
    Patient,     \* does the master forge only when nobody is joining?
    ForgeLimit,  \* bound: the length up to which the master's worker forges
    Misses       \* bound: times a discovery thread cannot connect to a peer

ASSUME TransportAssumption ==
    /\ IsFiniteSet(Node) /\ Master \in Node /\ Joining \subseteq Node \ {Master}
    /\ Backlog \in Nat \ {0} /\ Fits \in Nat
    /\ First \in Nat \ {0} /\ Patient \in BOOLEAN
    /\ ForgeLimit \in Nat /\ Misses \in Nat

Thread == {"p2p", "worker"}

Nobody == {}

VARIABLES
    chain,       \* the counts of each node's blocks
    peers,       \* each node's peers
    inactive,    \* those it could not connect to
    queue,       \* connections that wait to be accepted, with their messages
    listed,      \* the list of a greeting, if the P2P thread has still to hear it
    out,         \* what a thread of a node has still to send, and to whom
    answering,   \* the node a P2P thread is to connect to with an answer, if any
    unread,      \* the node that has not read its answer, if any
    missed       \* bound: how often a discovery thread could not connect

vars == <<chain, peers, inactive, queue, listed, out, answering, unread, missed>>

known == <<peers, inactive, listed, missed>>

locks == <<answering, unread>>

tip(n) == Last(chain[n])

Room(p) == Len(queue[p]) < Backlog

\* handleBlockchainRequest holds blockchainMutex until its answer is sent.
Locked(n) == answering[n] # Nobody \/ unread[n] # Nobody

\* The P2P thread accepts when it has nothing left to do for a message.
Accepting(n) == out[n]["p2p"] = <<>> /\ listed[n] = Nobody /\ ~Locked(n)

toEach(ps, msg) == SetToSeq({[to |-> p, msg |-> msg] : p \in ps})

hello(n) == [kind |-> "DISCOVERY", from |-> n, list |-> peers[n]]

request(n) == [kind |-> "BLOCKCHAINREQUEST", from |-> n, size |-> Len(chain[n])]

-----------------------------------------------------------------------------
(***************************************************************************)
(* Sending: a thread goes through its receivers, one connection each.      *)
(***************************************************************************)
\* The receiver the thread is at, and what it has for it.
connection(n, t) == Head(out[n][t])

Deliver(p, msg) == queue' = [queue EXCEPT ![p] = Append(@, msg)]

Send(n, t) ==
    /\ out[n][t] # <<>> /\ Room(connection(n, t).to)
    /\ Deliver(connection(n, t).to, connection(n, t).msg)
    /\ out' = [out EXCEPT ![n][t] = Tail(@)]
    /\ UNCHANGED <<chain, known, locks>>

\* connect fails: this receiver gets nothing, and stays a peer.
GiveUp(n, t) ==
    /\ out[n][t] # <<>> /\ ~Room(connection(n, t).to)
    /\ out' = [out EXCEPT ![n][t] = Tail(@)]
    /\ UNCHANGED <<chain, known, queue, locks>>

-----------------------------------------------------------------------------
(***************************************************************************)
(* Answering: the message is made, and sent, under blockchainMutex.        *)
(***************************************************************************)
\* Mutant of missing: the whole chain is sent whatever was asked for.
missingAll(n, size) == chain[n]

missing(n, size) == SubSeq(chain[n], size + 1, Len(chain[n]))

Answer(n) ==
    \E a \in answering[n] :
        /\ Room(a.to)
        /\ Deliver(a.to, [kind |-> "BLOCKCHAIN", from |-> n, blocks |-> a.blocks])
        /\ answering' = [answering EXCEPT ![n] = Nobody]
        /\ unread' = [unread EXCEPT ![n] = IF Len(a.blocks) > Fits THEN {a.to} ELSE Nobody]
        /\ UNCHANGED <<chain, known, out>>

AnswerNobody(n) ==
    \E a \in answering[n] :
        /\ ~Room(a.to)
        /\ answering' = [answering EXCEPT ![n] = Nobody]
        /\ UNCHANGED <<chain, known, queue, out, unread>>

-----------------------------------------------------------------------------
(***************************************************************************)
(* The P2P thread accepts, reads and handles a message.                    *)
(***************************************************************************)
Handle(n, kind) ==
    /\ queue[n] # <<>> /\ Head(queue[n]).kind = kind /\ Accepting(n)
    /\ queue' = [queue EXCEPT ![n] = Tail(@)]

Begin(n, t, sends) == out' = [out EXCEPT ![n][t] = sends]

\* A new peer makes the node ask all its peers, the new one too, for the chain,
\* before it hears whom the greeting lists.
HandleDiscovery(n) ==
    /\ Handle(n, "DISCOVERY")
    /\ LET g == Head(queue[n])
       IN  /\ peers' = [peers EXCEPT ![n] = @ \cup {g.from}]
           /\ listed' = [listed EXCEPT ![n] = {g.list}]
           /\ Begin(n, "p2p", IF g.from \in peers[n] THEN <<>>
                              ELSE toEach(peers[n] \cup {g.from}, request(n)))
    /\ UNCHANGED <<chain, inactive, locks, missed>>

\* Mutant of fresh: a node takes its own address from another's list.
freshOrSelf(n, list) == list \ (peers[n] \cup inactive[n])

\* Those on a list who are added whatever their order.
fresh(n, list) == list \ (peers[n] \cup inactive[n] \cup {n})

\* Once one of them is added the inactive are forgiven: those added too who
\* come later on the list.
HearList(n) ==
    /\ out[n]["p2p"] = <<>>
    /\ \E list \in listed[n] :
        IF fresh(n, list) = {} THEN UNCHANGED <<peers, inactive>>
        ELSE /\ inactive' = [inactive EXCEPT ![n] = {}]
             /\ \E later \in SUBSET (list \cap inactive[n]) :
                    peers' = [peers EXCEPT ![n] = @ \cup fresh(n, list) \cup later]
    /\ listed' = [listed EXCEPT ![n] = Nobody]
    /\ UNCHANGED <<chain, queue, out, locks, missed>>

HandleBlock(n) ==
    /\ Handle(n, "BLOCK")
    /\ LET c == Head(queue[n]).count
       IN  IF tip(n) = c - 1
           THEN chain' = [chain EXCEPT ![n] = Append(@, c)] /\ UNCHANGED out
           ELSE Begin(n, "p2p", toEach(peers[n], request(n))) /\ UNCHANGED chain
    /\ UNCHANGED <<known, locks>>

HandleRequest(n) ==
    /\ Handle(n, "BLOCKCHAINREQUEST")
    /\ LET r == Head(queue[n])
       IN  answering' = [answering EXCEPT ![n] =
               IF Len(chain[n]) = 1 \/ r.size > Len(chain[n]) THEN Nobody
               ELSE {[to |-> r.from, blocks |-> missing(n, r.size)]}]
    /\ UNCHANGED <<chain, known, out, unread>>

\* Mutant of HandleChain: the sender goes on only if its blocks are appended.
HandleChainIfNew(n) ==
    /\ Handle(n, "BLOCKCHAIN")
    /\ LET m == Head(queue[n])
       IN  IF Len(m.blocks) = tip(n) THEN UNCHANGED <<chain, unread>>
           ELSE /\ chain' = [chain EXCEPT ![n] = @ \o m.blocks]
                /\ unread' = [unread EXCEPT ![m.from] = Nobody]
    /\ UNCHANGED <<known, out, answering>>

\* What is read is sent: the sender goes on.
HandleChain(n) ==
    /\ Handle(n, "BLOCKCHAIN")
    /\ LET m == Head(queue[n])
       IN  /\ chain' = [chain EXCEPT ![n] =
                  IF Len(m.blocks) = tip(n) THEN @ ELSE @ \o m.blocks]
           /\ unread' = IF Len(m.blocks) > Fits THEN [unread EXCEPT ![m.from] = Nobody]
                        ELSE unread
    /\ UNCHANGED <<known, out, answering>>

-----------------------------------------------------------------------------
(***************************************************************************)
(* The other threads.                                                      *)
(***************************************************************************)
InQueue(kinds) == \E n \in Node : \E i \in DOMAIN queue[n] : queue[n][i].kind \in kinds

Settled ==
    /\ \A n \in Node : peers[n] = Node \ {n} /\ out[n]["p2p"] = <<>> /\ ~Locked(n)
    /\ ~InQueue({"BLOCKCHAINREQUEST", "BLOCKCHAIN"})
    /\ \A n \in Node : tip(Master) - tip(n) < Fits

\* The worker of the master forges under the lock and broadcasts without it.
Forge(n) ==
    /\ n = Master /\ ~Locked(n) /\ out[n]["worker"] = <<>>
    /\ Len(chain[n]) < ForgeLimit /\ (Patient => Settled)
    /\ chain' = [chain EXCEPT ![n] = Append(@, Len(@))]
    /\ Begin(n, "worker", toEach(peers[n], [kind |-> "BLOCK", count |-> Len(chain[n])]))
    /\ UNCHANGED <<known, queue, locks>>

\* What a greeting from n to m would change.
News(n, m) ==
    /\ n \notin peers[m] \/ fresh(m, peers[n]) # {}
    /\ hello(n) \notin Range(queue[m])

\* The discovery thread connects, and then looks up what it has to tell.
Greet(n) ==
    /\ \E m \in peers[n] : Room(m) /\ News(n, m) /\ Deliver(m, hello(n))
    /\ UNCHANGED <<chain, known, out, locks>>

\* connect fails: unless it is the master, the peer is taken for gone.
Miss(n) ==
    /\ missed < Misses /\ missed' = missed + 1
    /\ \E m \in peers[n] \ {Master} :
        /\ ~Room(m)
        /\ peers' = [peers EXCEPT ![n] = @ \ {m}]
        /\ inactive' = [inactive EXCEPT ![n] = @ \cup {m}]
    /\ UNCHANGED <<chain, queue, listed, out, locks>>

Discover(n) == Greet(n) \/ Miss(n)

-----------------------------------------------------------------------------
\* A node that starts has the genesis block and greets the master; the others
\* have one chain and know each other.
Init ==
    /\ chain = [n \in Node |-> IF n \in Joining THEN <<0>> ELSE [i \in 1..First |-> i - 1]]
    /\ peers = [n \in Node |-> IF n \in Joining THEN {} ELSE Node \ (Joining \cup {n})]
    /\ inactive = [n \in Node |-> {}]
    /\ queue = [n \in Node |-> <<>>]
    /\ listed = [n \in Node |-> Nobody]
    /\ out = [n \in Node |-> [t \in Thread |->
                 IF t = "p2p" /\ n \in Joining THEN toEach({Master}, hello(n)) ELSE <<>>]]
    /\ answering = [n \in Node |-> Nobody]
    /\ unread = [n \in Node |-> Nobody]
    /\ missed = 0

P2PThread(n) ==
    \/ HandleDiscovery(n) \/ HearList(n) \/ HandleBlock(n) \/ HandleRequest(n) \/ HandleChain(n)
    \/ Answer(n) \/ AnswerNobody(n) \/ Send(n, "p2p") \/ GiveUp(n, "p2p")

Worker(n) == Send(n, "worker") \/ GiveUp(n, "worker")

Next == \E n \in Node :
    P2PThread(n) \/ Forge(n) \/ Worker(n) \/ Discover(n)

Spec == Init /\ [][Next]_vars

\* Every thread goes on when it can: a connect that waits is let in or fails.
FairSpec ==
    /\ Spec
    /\ \A n \in Node : WF_vars(P2PThread(n)) /\ WF_vars(Worker(n)) /\ WF_vars(Discover(n))

-----------------------------------------------------------------------------
(***************************************************************************)
(* What should be true.                                                    *)
(***************************************************************************)
Message ==
    [kind : {"DISCOVERY"}, from : Node, list : SUBSET Node]
    \cup [kind : {"BLOCK"}, count : Nat]
    \cup [kind : {"BLOCKCHAINREQUEST"}, from : Node, size : Nat]
    \cup [kind : {"BLOCKCHAIN"}, from : Node, blocks : Seq(Nat)]

\* Every variable holds a value of its kind; a queue never exceeds the backlog.
TypeOK ==
    /\ missed \in 0..Misses
    /\ \A n \in Node :
        /\ chain[n] \in Seq(Nat) /\ chain[n] # <<>>
        /\ peers[n] \subseteq Node \ {n} /\ inactive[n] \subseteq Node \ {n}
        /\ listed[n] \subseteq SUBSET Node
        /\ queue[n] \in Seq(Message) /\ Len(queue[n]) <= Backlog
        /\ \A t \in Thread : out[n][t] \in Seq([to : Node \ {n}, msg : Message])
        /\ answering[n] \subseteq [to : Node \ {n}, blocks : Seq(Nat)]
        /\ unread[n] \subseteq Node \ {n}

\* Whoever holds blockchainMutex for an answer that is not read is waited for by
\* nobody but the one in whose queue the answer is: it is there as long as the
\* lock is held, and no longer.
Awaited(n) == {m \in Node : \E i \in DOMAIN queue[m] :
    queue[m][i].kind = "BLOCKCHAIN" /\ queue[m][i].from = n /\ Len(queue[m][i].blocks) > Fits}

AnswersAwaited == \A n \in Node : unread[n] = Awaited(n)

\* No two nodes wait for each other to read an answer, each with the only
\* thread that could read held up, and with blockchainMutex taken.
NoMutualSend == \A m, n \in Node : ~(n \in unread[m] /\ m \in unread[n])

\* Every answer is read in the end and the lock it was sent under is released,
\* so that workers can go on.
LockReleased == \A n \in Node : []<>~Locked(n)

\* A node that starts gets the blocks it is missing, those included that
\* are forged while it asks.
GrabsMissing == \A n \in Joining : <>[](Len(chain[n]) >= Len(chain[Master]))
=============================================================================
