---------------------------- MODULE PeerDiscovery ----------------------------
(***************************************************************************)
(* How nodes learn of each other and forget who is gone                    *)
(* (SocketCommunication.cpp).  In each node the discovery thread greets    *)
(* all peers, round after round, and drops those it cannot connect to; the *)
(* P2P thread handles one greeting at a time, in the order in which the    *)
(* connections were made.  The vectors peers and inactivePeers have no     *)
(* lock, and a step is one access of one thread to them.  To go through    *)
(* peers for a name is the longest: others get in between its first place  *)
(* and its last, and how far it had come is said when one of them erases.  *)
(*                                                                         *)
(* A node is started and killed from outside, as often as the budget lets  *)
(* it.  A connection to a node that runs is accepted by its kernel until   *)
(* Backlog of them wait; then connect waits.  That it fails after minutes  *)
(* of waiting is left out here (P2PTransport has it), and so is what a     *)
(* vector does whose memory two threads change at once: to copy it, to     *)
(* look through the inactive ones, to erase from it and to append to       *)
(* it are one access each.  Chains are the matter of Network.              *)
(***************************************************************************)
EXTENDS Integers, FiniteSets, SequencesExt

CONSTANTS
    Node,        \* the nodes, each with an address of its own
    Master,      \* the one whose address is in config.json
    Running,     \* the nodes that run, and know each other, at the beginning
    Backlog,     \* connections that wait to be accepted (3)
    Traffic,     \* bound: nodes that are busy with greetings when one more is sent
    Budget       \* bound: times nodes are started and killed (start, kill)

ASSUME DiscoveryAssumption ==
    /\ Master \in Running /\ Running \subseteq Node /\ IsFiniteSet(Running)
    /\ Backlog \in Nat \ {0} /\ Traffic \in Nat \ {0}
    /\ Budget \in [start : Nat, kill : Nat]

VARIABLES
    up,          \* the nodes that run
    peers,       \* SocketCommunication::peers of each node
    inactive,    \* SocketCommunication::inactivePeers
    queue,       \* greetings whose connections wait to be accepted
    joining,     \* nodes whose P2P thread has still to greet the master
    hearing,     \* what the P2P thread is doing with a greeting
    todo,        \* the peers the discovery thread has still to greet this round
    failed,      \* the peer it could not connect to and has still to erase
    erased,      \* the peer it has erased and not yet put among the inactive
    shifted,     \* history: nodes that erased while they went through peers
    budget       \* bound: starts and kills still to come

vars == <<up, peers, inactive, queue, joining, hearing, todo, failed, erased, shifted, budget>>

p2pVars == <<queue, joining, hearing>>

discoveryVars == <<todo, failed, erased, shifted>>

\* What std::remove leaves of a vector.
Without(s, x) ==
    LET left[i \in 0..Len(s)] ==
            IF i = 0 THEN <<>> ELSE IF s[i] = x THEN left[i - 1] ELSE Append(left[i - 1], s[i])
    IN  left[Len(s)]

greeting(n) == [from |-> n, list |-> peers[n]]

\* Connecting and sending succeed at once, or wait until there is room.
Room(p) == p \in up /\ Len(queue[p]) < Backlog

Greet(n, p) == queue' = [queue EXCEPT ![p] = Append(@, greeting(n))]

-----------------------------------------------------------------------------
(***************************************************************************)
(* startP2PServer.                                                         *)
(***************************************************************************)
\* The P2P thread waits for a connection.
Idle == [step |-> "accept", names |-> <<>>, place |-> 1]

\* Nothing is remembered from before.
Start(n) ==
    /\ n \notin up /\ budget.start > 0
    /\ up' = up \cup {n}
    /\ peers' = [peers EXCEPT ![n] = <<>>]
    /\ inactive' = [inactive EXCEPT ![n] = {}]
    /\ joining' = joining \cup ({n} \ {Master})
    /\ shifted' = shifted \ {n}
    /\ budget' = [budget EXCEPT !.start = @ - 1]
    /\ UNCHANGED <<queue, hearing, todo, failed, erased>>

Kill(n) ==
    /\ n \in up /\ budget.kill > 0
    /\ up' = up \ {n}
    /\ queue' = [queue EXCEPT ![n] = <<>>]
    /\ hearing' = [hearing EXCEPT ![n] = Idle]
    /\ todo' = [todo EXCEPT ![n] = <<>>]
    /\ failed' = [failed EXCEPT ![n] = {}]
    /\ erased' = [erased EXCEPT ![n] = {}]
    /\ joining' = joining \ {n}
    /\ budget' = [budget EXCEPT !.kill = @ - 1]
    /\ UNCHANGED <<peers, inactive, shifted>>

\* A client greets the master once, before it accepts anything.  If the master
\* does not run, that was it.
Join(n) ==
    /\ n \in joining
    /\ joining' = joining \ {n}
    /\ IF Master \in up THEN Room(Master) /\ Greet(n, Master) ELSE UNCHANGED queue
    /\ UNCHANGED <<up, peers, inactive, hearing, discoveryVars, budget>>

-----------------------------------------------------------------------------
(***************************************************************************)
(* peerDiscoveryHandleMessage: one name after the other is looked for in   *)
(* peers, the sender's first, and added if it is not found.  The sender is *)
(* a peer from now on whoever it is; who is listed only if it is not among *)
(* the inactive, who are all forgiven when somebody new is listed.         *)
(***************************************************************************)
\* The name that is looked for, and the place up to which it was not found when
\* something was last erased.
name(n) == Head(hearing[n].names)

place(n) == hearing[n].place

Walking(n) == hearing[n].step \in {"sender", "listed"}

\* The walk has gone through the places before k.
gone(n, k) == {peers[n][i] : i \in place(n)..(k - 1)}

\* Mutant of Found: the last place is not looked at.
FoundButLast(n) == name(n) \in gone(n, Len(peers[n]))

\* The walk goes to where the end was when it began, but what is behind an end
\* that has since moved is nothing, or the name that was erased.
Found(n) == name(n) \in gone(n, Len(peers[n]) + 1)

\* The next name, if there is one.
afterName(n) ==
    LET left == Tail(hearing[n].names)
    IN  IF left = <<>> THEN Idle ELSE [step |-> "listed", names |-> left, place |-> 1]

\* Mutant of others: a node takes its own name from another's list.
all(n, list) == list

\* The node's own name is looked for too, but nothing is done with what is found.
others(n, list) == Without(list, n)

\* The P2P thread goes on with its greeting.
Hearing(n, h) == hearing' = [hearing EXCEPT ![n] = h] /\ UNCHANGED <<up, joining, discoveryVars, budget>>

Accept(n) ==
    /\ queue[n] # <<>> /\ n \notin joining /\ hearing[n].step = "accept"
    /\ LET g == Head(queue[n])
       IN  Hearing(n, [step |-> "sender", names |-> <<g.from>> \o others(n, g.list), place |-> 1])
    /\ queue' = [queue EXCEPT ![n] = Tail(@)]
    /\ UNCHANGED <<peers, inactive>>

Know(n) ==
    /\ Walking(n) /\ Found(n)
    /\ Hearing(n, afterName(n))
    /\ UNCHANGED <<peers, inactive, queue>>

AddPeer(n) == peers' = [peers EXCEPT ![n] = Append(@, name(n))]

\* Mutant of AddSender: an inactive peer is not added though it greets.
AddSenderActive(n) ==
    /\ hearing[n].step = "sender" /\ ~Found(n)
    /\ IF name(n) \in inactive[n] THEN UNCHANGED peers ELSE AddPeer(n)
    /\ Hearing(n, afterName(n))
    /\ UNCHANGED <<inactive, queue>>

\* requestChain follows: the P2P thread is busy for a while, and others go on.
AddSender(n) ==
    /\ hearing[n].step = "sender" /\ ~Found(n)
    /\ AddPeer(n)
    /\ Hearing(n, afterName(n))
    /\ UNCHANGED <<inactive, queue>>

SearchInactive(n) ==
    /\ hearing[n].step = "listed" /\ ~Found(n)
    /\ Hearing(n, IF name(n) \in inactive[n] THEN afterName(n)
                  ELSE [hearing[n] EXCEPT !.step = "add"])
    /\ UNCHANGED <<peers, inactive, queue>>

AddListed(n) ==
    /\ hearing[n].step = "add"
    /\ AddPeer(n)
    /\ Hearing(n, [hearing[n] EXCEPT !.step = "forgive"])
    /\ UNCHANGED <<inactive, queue>>

Forgive(n) ==
    /\ hearing[n].step = "forgive"
    /\ inactive' = [inactive EXCEPT ![n] = {}]
    /\ Hearing(n, afterName(n))
    /\ UNCHANGED <<peers, queue>>

-----------------------------------------------------------------------------
(***************************************************************************)
(* peerDiscovery and broadcastPeerDiscovery: a round goes through the      *)
(* peers there were when it began; what is sent is the list as it is then. *)
(***************************************************************************)
StartRound(n) ==
    /\ n \in up /\ todo[n] = <<>>
    /\ todo' = [todo EXCEPT ![n] = peers[n]]
    /\ UNCHANGED <<up, peers, inactive, p2pVars, failed, erased, shifted, budget>>

\* The discovery thread is to connect to the next peer of its round.
Connecting(n) == todo[n] # <<>> /\ failed[n] = {} /\ erased[n] = {}

Busy == {m \in Node : queue[m] # <<>> \/ hearing[m].step # "accept"}

Reach(n) ==
    /\ Connecting(n) /\ Room(Head(todo[n])) /\ Cardinality(Busy) < Traffic
    /\ Greet(n, Head(todo[n]))
    /\ todo' = [todo EXCEPT ![n] = Tail(@)]
    /\ UNCHANGED <<up, peers, inactive, joining, hearing, failed, erased, shifted, budget>>

\* Mutant of Miss: the master is dropped like any other.
MissAny(n) ==
    /\ Connecting(n) /\ Head(todo[n]) \notin up
    /\ failed' = [failed EXCEPT ![n] = {Head(todo[n])}]
    /\ UNCHANGED <<up, peers, inactive, p2pVars, todo, erased, shifted, budget>>

\* Nobody answers: unless it is the master ...
Miss(n) ==
    /\ Connecting(n) /\ Head(todo[n]) \notin up
    /\ IF Head(todo[n]) = Master
       THEN todo' = [todo EXCEPT ![n] = Tail(@)] /\ UNCHANGED failed
       ELSE failed' = [failed EXCEPT ![n] = {Head(todo[n])}] /\ UNCHANGED todo
    /\ UNCHANGED <<up, peers, inactive, p2pVars, erased, shifted, budget>>

\* Mutant of Erase: the peer is only called inactive.
EraseNothing(n) ==
    /\ failed[n] # {}
    /\ erased' = [erased EXCEPT ![n] = failed[n]]
    /\ failed' = [failed EXCEPT ![n] = {}]
    /\ UNCHANGED <<up, peers, inactive, p2pVars, todo, shifted, budget>>

\* ... the peer is erased, whatever it may have done since; who stands behind
\* it in peers moves up, also under a P2P thread that goes through them.
Erase(n) ==
    /\ \E p \in failed[n] : peers' = [peers EXCEPT ![n] = Without(@, p)]
    /\ IF Walking(n)
       THEN \E k \in {place(n)} \cup (place(n)..(Len(peers[n]) + 1)) :
               /\ name(n) \notin gone(n, k)
               /\ hearing' = [hearing EXCEPT ![n].place = k]
               /\ shifted' = IF k = 1 THEN shifted ELSE shifted \cup {n}
       ELSE UNCHANGED <<hearing, shifted>>
    /\ erased' = [erased EXCEPT ![n] = failed[n]]
    /\ failed' = [failed EXCEPT ![n] = {}]
    /\ UNCHANGED <<up, inactive, queue, joining, todo, budget>>

\* ... and in the next statement called inactive.
Retire(n) ==
    /\ erased[n] # {}
    /\ inactive' = [inactive EXCEPT ![n] = @ \cup erased[n]]
    /\ erased' = [erased EXCEPT ![n] = {}]
    /\ todo' = [todo EXCEPT ![n] = Tail(@)]
    /\ UNCHANGED <<up, peers, p2pVars, failed, shifted, budget>>

-----------------------------------------------------------------------------
\* The nodes that run know each other.
Init ==
    /\ up = Running
    /\ peers = [n \in Node |-> IF n \in Running THEN SetToSeq(Running \ {n}) ELSE <<>>]
    /\ inactive = [n \in Node |-> {}]
    /\ queue = [n \in Node |-> <<>>]
    /\ joining = {}
    /\ hearing = [n \in Node |-> Idle]
    /\ todo = [n \in Node |-> <<>>]
    /\ failed = [n \in Node |-> {}]
    /\ erased = [n \in Node |-> {}]
    /\ shifted = {}
    /\ budget = Budget

HandleGreeting(n) ==
    \/ Accept(n) \/ Know(n) \/ AddSender(n)
    \/ SearchInactive(n) \/ AddListed(n) \/ Forgive(n)

P2PThread(n) == Join(n) \/ HandleGreeting(n)

DiscoveryThread(n) == StartRound(n) \/ Reach(n) \/ Miss(n) \/ Erase(n) \/ Retire(n)

Next == \E n \in Node : Start(n) \/ Kill(n) \/ P2PThread(n) \/ DiscoveryThread(n)

Spec == Init /\ [][Next]_vars

\* Both threads of a node that runs go on for ever.  Connects that wait get their
\* turn, of those that join at least one after the other: rounds are ten seconds
\* apart, and the queues run empty.
FairSpec ==
    /\ Spec
    /\ SF_vars(\E n \in Node : Join(n))
    /\ \A n \in Node : WF_vars(P2PThread(n)) /\ WF_vars(DiscoveryThread(n)) /\ SF_vars(Reach(n))

-----------------------------------------------------------------------------
(***************************************************************************)
(* What should be true.                                                    *)
(***************************************************************************)
GreetingTo(n) == [from : Node \ {n}, list : Seq(Node)]

HearingStep == {"accept", "sender", "listed", "add", "forgive"}

\* Every variable holds a value of its kind, no node is its own peer, and
\* nothing waits for a node that does not run.
TypeOK ==
    /\ up \subseteq Node /\ joining \subseteq up \ {Master} /\ shifted \subseteq Node
    /\ \A n \in Node :
        /\ peers[n] \in Seq(Node \ {n}) /\ todo[n] \in Seq(Node \ {n})
        /\ inactive[n] \subseteq Node /\ failed[n] \subseteq Node /\ erased[n] \subseteq Node
        /\ queue[n] \in Seq(GreetingTo(n)) /\ Len(queue[n]) <= Backlog
        /\ hearing[n] \in [step : HearingStep, names : Seq(Node \ {n}), place : Nat \ {0}]
        /\ (hearing[n].step = "accept") = (hearing[n].names = <<>>)
        /\ n \notin up => /\ queue[n] = <<>> /\ hearing[n] = Idle
                        /\ todo[n] = <<>> /\ failed[n] = {} /\ erased[n] = {}
    /\ budget \in [start : Nat, kill : Nat]

\* A peer comes to be in the list twice, and is sent every broadcast twice, only
\* if another one was erased while the P2P thread went through the list: then
\* it may step over the very name it looks for.
DoubledByErasing == \A n \in Node \ shifted : IsInjective(peers[n])

\* A node that knows the master keeps it as long as it runs, even while the
\* master is down: through it the node gets back to the others.
MasterKept ==
    [][\A n \in up : Master \in Range(peers[n]) => Master \in Range(peers'[n])]_vars

\* If in the end the master runs and each node knows it or is known to it,
\* then in the end all nodes that run know each other for good, however often
\* they were killed and started and taken for dead.
Reachable ==
    /\ Master \in up
    /\ \A n \in up \ {Master} : Master \in Range(peers[n]) \/ n \in Range(peers[Master])

Acquainted == \A n \in up : up \ {n} \subseteq Range(peers[n])

Acquaintance == <>[]Reachable => <>[]Acquainted

\* Every node that runs drops a dead one again and again, from whomever it may
\* have learned of it.
DeadDropped ==
    \A n \in Node : \A d \in Node \ {Master, n} :
        []<>({n, d} \subseteq up \/ n \notin up \/ d \notin Range(peers[n]))
=============================================================================
