--------------------------- MODULE DiscoveryProofs ---------------------------
(***************************************************************************)
(* Theorems about PeerDiscovery, for any number of nodes that are started  *)
(* and killed any number of times: no node is its own peer, a peer is in a *)
(* list twice only where one was erased under a walk through it, and the   *)
(* master, once known, is never erased.                                    *)
(***************************************************************************)
EXTENDS PeerDiscovery, NatInduction, FiniteSetTheorems

-----------------------------------------------------------------------------
(***************************************************************************)
(* What erasing from a list leaves, whatever its length.                   *)
(***************************************************************************)
\* What is appended to a list joins its members, and stands in it once if it
\* was not there.
LEMMA Appended ==
    ASSUME NEW S, NEW s \in Seq(S), NEW x \in S
    PROVE  /\ Append(s, x) \in Seq(S)
           /\ Range(Append(s, x)) = Range(s) \cup {x}
           /\ IsInjective(s) /\ x \notin Range(s) => IsInjective(Append(s, x))
<1> DEFINE t == Append(s, x)
           k == Len(s)
<1>1. /\ k \in Nat /\ t \in Seq(S) /\ DOMAIN s = 1..k /\ DOMAIN t = 1..(k + 1)
      /\ t[k + 1] = x /\ \A i \in 1..k : t[i] = s[i]
  OBVIOUS
<1> HIDE DEF t, k
<1>2. Range(t) = Range(s) \cup {x}
  <2>1. \A i \in 1..(k + 1) : i \in 1..k \/ i = k + 1
    BY <1>1
  <2>2. k + 1 \in 1..(k + 1) /\ 1..k \subseteq 1..(k + 1)
    BY <1>1
  <2> QED BY <1>1, <2>1, <2>2 DEF Range
<1>3. ASSUME IsInjective(s), x \notin Range(s) PROVE IsInjective(t)
  <2> SUFFICES ASSUME NEW i \in 1..(k + 1), NEW j \in 1..(k + 1), t[i] = t[j]
               PROVE  i = j
    BY <1>1 DEF IsInjective
  <2>1. \A h \in 1..k : t[h] = s[h] /\ s[h] # x
    BY <1>1, <1>3 DEF Range
  <2>2. (i \in 1..k \/ i = k + 1) /\ (j \in 1..k \/ j = k + 1)
    BY <1>1
  <2> QED BY <1>1, <1>3, <2>1, <2>2 DEF IsInjective
<1> QED BY <1>1, <1>2, <1>3 DEF t

\* f goes through the list s and leaves out x.
Erasing(f, s, x) ==
    /\ f[0] = <<>>
    /\ \A i \in 1..Len(s) : f[i] = IF s[i] = x THEN f[i - 1] ELSE Append(f[i - 1], s[i])

\* Without is what that ends with.
LEMMA WithoutSteps ==
    ASSUME NEW S, NEW s \in Seq(S), NEW x
    PROVE  \E f \in [0..Len(s) -> Seq(S)] : Erasing(f, s, x) /\ Without(s, x) = f[Len(s)]
<1> DEFINE step == [z \in Seq(S) \X S |-> IF z[2] = x THEN z[1] ELSE Append(z[1], z[2])]
           k == Len(s)
           Left(f) == f = [i \in 0..k |->
                              IF i = 0 THEN <<>>
                              ELSE IF s[i] = x THEN f[i - 1] ELSE Append(f[i - 1], s[i])]
           left == CHOOSE f : Left(f)
<1>1. step \in [Seq(S) \X S -> Seq(S)] /\ <<>> \in Seq(S) /\ k \in Nat
  OBVIOUS
<1>2. \A a \in Seq(S), b \in S : step[<<a, b>>] = IF b = x THEN a ELSE Append(a, b)
  OBVIOUS
<1> HIDE DEF step
<1>3. PICK f \in [0..k -> Seq(S)] : Iterates(step, <<>>, s, k, f)
  BY <1>1, Iteration
<1>4. \A i \in 1..k : f[i] = IF s[i] = x THEN f[i - 1] ELSE Append(f[i - 1], s[i])
  <2> TAKE i \in 1..k
  <2>1. i - 1 \in 0..k /\ f[i - 1] \in Seq(S) /\ s[i] \in S
    OBVIOUS
  <2> QED BY <1>2, <1>3, <2>1 DEF Iterates
<1>5. Without(s, x) = left[k]
  BY DEF Without
<1>6. Left(f)
  <2>1. \A i \in 0..k : i = 0 \/ i \in 1..k
    BY <1>1
  <2> QED BY <1>1, <1>3, <1>4, <2>1 DEF Iterates
<1> HIDE DEF k
<1>7. Left(left)
  BY <1>6
<1> HIDE DEF left
<1>8. Erasing(left, s, x) /\ left = [i \in 0..k |-> left[i]]
  <2>1. 0 \in 0..k /\ \A i \in 1..k : i \in 0..k /\ i # 0
    BY <1>1
  <2> QED BY <1>7, <2>1 DEF Erasing, k
<1>9. left \in [0..k -> Seq(S)]
  <2> DEFINE T == {i \in 0..k : left[i] \in Seq(S)}
  <2>1. 0 \in T
    <3>1. 0 \in 0..k /\ left[0] \in Seq(S)
      BY <1>1, <1>8 DEF Erasing
    <3> QED BY <3>1
  <2>2. ASSUME NEW i \in 0..(k - 1), i \in T PROVE i + 1 \in T
    <3> DEFINE j == i + 1
    <3>1. j \in 0..k /\ j \in 1..k /\ j - 1 = i /\ s[j] \in S
      BY <1>1 DEF k
    <3> HIDE DEF j
    <3>2. left[j] = IF s[j] = x THEN left[i] ELSE Append(left[i], s[j])
      BY <1>8, <3>1 DEF Erasing, k
    <3>3. left[j] \in Seq(S)
      BY <2>2, <3>1, <3>2
    <3> QED BY <3>1, <3>3 DEF j
  <2> HIDE DEF T
  <2>3. 0..k \subseteq T
    BY <1>1, <2>1, <2>2, Induction
  <2> QED BY <1>8, <2>3 DEF T
<1> QED BY <1>5, <1>8, <1>9 DEF k

\* What is erased is gone, the others stay, and none of them is doubled.
LEMMA WithoutErases ==
    ASSUME NEW S, NEW s \in Seq(S), NEW x
    PROVE  /\ Without(s, x) \in Seq(S)
           /\ Range(Without(s, x)) = Range(s) \ {x}
           /\ IsInjective(s) => IsInjective(Without(s, x))
<1> DEFINE k == Len(s)
           before(i) == {s[j] : j \in 1..i}
<1>1. PICK f \in [0..k -> Seq(S)] : Erasing(f, s, x) /\ Without(s, x) = f[k]
  BY WithoutSteps
<1>2. k \in Nat /\ DOMAIN s = 1..k /\ k \in 0..k
  OBVIOUS
<1> DEFINE T == {i \in 0..k : /\ Range(f[i]) = before(i) \ {x}
                              /\ IsInjective(s) => IsInjective(f[i])}
<1>3. 0 \in T
  <2>1. DOMAIN f[0] = {} /\ before(0) = {} /\ 0 \in 0..k
    BY <1>1, <1>2 DEF Erasing
  <2>2. Range(f[0]) = {} /\ IsInjective(f[0])
    BY <2>1 DEF Range, IsInjective
  <2> QED BY <2>1, <2>2
<1>4. ASSUME NEW i \in 0..(k - 1), i \in T PROVE i + 1 \in T
  <2> DEFINE j == i + 1
  <2>1. /\ j \in 0..k /\ j \in 1..k /\ j - 1 = i /\ i \in 0..k
        /\ s[j] \in S /\ f[i] \in Seq(S)
    BY <1>1, <1>2
  <2>2. before(j) = before(i) \cup {s[j]}
    <3>1. \A h \in 1..j : h \in 1..i \/ h = j
      BY <2>1
    <3>2. j \in 1..j /\ 1..i \subseteq 1..j
      BY <2>1
    <3> QED BY <3>1, <3>2
  <2>3. IsInjective(s) => s[j] \notin before(i)
    <3>1. \A h \in 1..i : h \in 1..k /\ h # j
      BY <2>1
    <3> QED BY <1>2, <2>1, <3>1 DEF IsInjective
  <2> HIDE DEF j, before
  <2>4. f[j] = IF s[j] = x THEN f[i] ELSE Append(f[i], s[j])
    BY <1>1, <2>1 DEF Erasing
  <2>5. Range(f[i]) = before(i) \ {x} /\ (IsInjective(s) => IsInjective(f[i]))
    BY <1>4
  <2>6. Range(f[j]) = before(j) \ {x} /\ (IsInjective(s) => IsInjective(f[j]))
    <3>1. CASE s[j] = x
      BY <2>2, <2>4, <2>5, <3>1
    <3>2. CASE s[j] # x
      <4>1. /\ Range(Append(f[i], s[j])) = Range(f[i]) \cup {s[j]}
            /\ IsInjective(f[i]) /\ s[j] \notin Range(f[i]) => IsInjective(Append(f[i], s[j]))
        BY <2>1, Appended
      <4> QED BY <2>2, <2>3, <2>4, <2>5, <3>2, <4>1
    <3> QED BY <3>1, <3>2
  <2> QED BY <2>1, <2>6 DEF j
<1> HIDE DEF T
<1>5. 0..k \subseteq T
  BY <1>2, <1>3, <1>4, Induction
<1>6. k \in T /\ before(k) = Range(s)
  BY <1>2, <1>5 DEF Range
<1> HIDE DEF k, before
<1>7. Range(f[k]) = Range(s) \ {x} /\ (IsInjective(s) => IsInjective(f[k]))
  BY <1>6 DEF T
<1> QED BY <1>1, <1>2, <1>7

-----------------------------------------------------------------------------
(***************************************************************************)
(* Types.  That no node is its own peer rests on every greeting coming     *)
(* from another: nobody greets itself, as nobody is its own peer.          *)
(***************************************************************************)
Shape ==
    /\ peers = [n \in Node |-> peers[n]] /\ inactive = [n \in Node |-> inactive[n]]
    /\ queue = [n \in Node |-> queue[n]] /\ hearing = [n \in Node |-> hearing[n]]
    /\ todo = [n \in Node |-> todo[n]]
    /\ failed = [n \in Node |-> failed[n]] /\ erased = [n \in Node |-> erased[n]]

\* Whoever is being dropped is still the peer the round is at, and not the master.
AtPeer == \A n \in Node : /\ failed[n] \cup erased[n] # {} => todo[n] # <<>>
                          /\ failed[n] = {} \/ erased[n] = {}
                          /\ Master \notin failed[n]

DiscInv == TypeOK /\ Shape /\ AtPeer

\* The members of a finite set can be listed.
LEMMA Listed ==
    ASSUME NEW S, IsFiniteSet(S)
    PROVE  SetToSeq(S) \in Seq(S) /\ IsInjective(SetToSeq(S))
<1> DEFINE k == Cardinality(S)
           f == SetToSeq(S)
<1>1. k \in Nat /\ ExistsBijection(1..k, S)
  BY FS_CardinalityType
<1>2. \E g \in [1..k -> S] : IsInjective(g)
  BY <1>1 DEF ExistsBijection, Bijection, Injection, IsInjective
<1>3. f \in [1..k -> S] /\ IsInjective(f)
  BY <1>2 DEF SetToSeq
<1> QED BY <1>1, <1>3

LEMMA InitDisc ==
    ASSUME Init
    PROVE  DiscInv
<1>1. Shape /\ AtPeer
  BY DEF Init, Shape, AtPeer
<1>2. \A n \in Node : peers[n] \in Seq(Node \ {n})
  <2> SUFFICES ASSUME NEW n \in Node PROVE peers[n] \in Seq(Node \ {n})
    OBVIOUS
  <2> DEFINE S == Running \ {n}
             f == SetToSeq(S)
  <2>1. S \subseteq Node \ {n} /\ IsFiniteSet(S)
    BY FS_Subset, DiscoveryAssumption
  <2> HIDE DEF S
  <2>2. f \in Seq(S)
    BY <2>1, Listed
  <2> HIDE DEF f
  <2>3. f \in Seq(Node \ {n}) /\ <<>> \in Seq(Node \ {n})
    BY <2>1, <2>2
  <2> QED BY <2>3 DEF Init, f, S
<1>3. \A n \in Node : /\ <<>> \in Seq(Node \ {n}) /\ <<>> \in Seq(GreetingTo(n))
                      /\ Len(<<>>) = 0 /\ 0 <= Backlog
  BY DiscoveryAssumption
<1>4. \A n \in Node : Idle \in [step : HearingStep, names : Seq(Node \ {n}), place : Nat \ {0}]
  BY <1>3 DEF Idle, HearingStep
<1>5. Idle.step = "accept" /\ Idle.names = <<>>
  BY DEF Idle
<1>6. /\ up = Running /\ joining = {} /\ shifted = {} /\ budget = Budget
      /\ \A n \in Node : /\ inactive[n] = {} /\ queue[n] = <<>> /\ hearing[n] = Idle
                         /\ todo[n] = <<>> /\ failed[n] = {} /\ erased[n] = {}
  BY DEF Init
<1>7. TypeOK
  BY <1>2, <1>3, <1>4, <1>5, <1>6, DiscoveryAssumption DEF TypeOK
<1> QED BY <1>1, <1>7 DEF DiscInv

\* A greeting to another node joins its queue.
LEMMA GreetDisc ==
    ASSUME DiscInv, NEW n \in Node, NEW p \in Node \ {n}, Room(p), Greet(n, p)
    PROVE  /\ queue' = [m \in Node |-> queue'[m]]
           /\ \A m \in Node : /\ queue'[m] \in Seq(GreetingTo(m)) /\ Len(queue'[m]) <= Backlog
                              /\ m \notin up => queue'[m] = <<>>
<1> DEFINE g == greeting(n)
<1>1. g \in GreetingTo(p)
  <2>1. peers[n] \in Seq(Node \ {n})
    BY DEF DiscInv, TypeOK
  <2>2. peers[n] \in Seq(Node)
    BY <2>1
  <2> QED BY <2>2 DEF greeting, GreetingTo
<1>2. queue' = [m \in Node |-> IF m = p THEN Append(queue[p], g) ELSE queue[m]]
  BY DEF Greet, DiscInv, Shape
<1>3. queue[p] \in Seq(GreetingTo(p)) /\ Len(queue[p]) < Backlog /\ p \in up
  BY DEF Room, DiscInv, TypeOK
<1> HIDE DEF g
<1>4. Append(queue[p], g) \in Seq(GreetingTo(p)) /\ Len(Append(queue[p], g)) <= Backlog
  <2>1. Append(queue[p], g) \in Seq(GreetingTo(p)) /\ Len(Append(queue[p], g)) = Len(queue[p]) + 1
    BY <1>1, <1>3
  <2>2. Backlog \in Nat /\ Len(queue[p]) \in Nat
    BY <1>3, DiscoveryAssumption
  <2> QED BY <1>3, <2>1, <2>2
<1> QED BY <1>2, <1>3, <1>4 DEF DiscInv, TypeOK

LEMMA StartDisc ==
    ASSUME DiscInv, NEW n \in Node, Start(n)
    PROVE  DiscInv'
<1>1. /\ peers' = [m \in Node |-> IF m = n THEN <<>> ELSE peers[m]]
      /\ inactive' = [m \in Node |-> IF m = n THEN {} ELSE inactive[m]]
      /\ UNCHANGED <<queue, hearing, todo, failed, erased>> /\ up' = up \cup {n}
      /\ joining' = joining \cup ({n} \ {Master}) /\ shifted' = shifted \ {n}
  BY DEF Start, DiscInv, Shape
<1>2. budget' \in [start : Nat, kill : Nat]
  BY DEF Start, DiscInv, TypeOK
<1>3. \A m \in Node : <<>> \in Seq(Node \ {m})
  OBVIOUS
<1>4. TypeOK'
  BY <1>1, <1>2, <1>3 DEF DiscInv, TypeOK
<1>5. Shape' /\ AtPeer'
  BY <1>1 DEF DiscInv, Shape, AtPeer
<1> QED BY <1>4, <1>5 DEF DiscInv

LEMMA KillDisc ==
    ASSUME DiscInv, NEW n \in Node, Kill(n)
    PROVE  DiscInv'
<1>1. /\ queue' = [m \in Node |-> IF m = n THEN <<>> ELSE queue[m]]
      /\ hearing' = [m \in Node |-> IF m = n THEN Idle ELSE hearing[m]]
      /\ todo' = [m \in Node |-> IF m = n THEN <<>> ELSE todo[m]]
      /\ failed' = [m \in Node |-> IF m = n THEN {} ELSE failed[m]]
      /\ erased' = [m \in Node |-> IF m = n THEN {} ELSE erased[m]]
      /\ UNCHANGED <<peers, inactive, shifted>> /\ up' = up \ {n} /\ joining' = joining \ {n}
  BY DEF Kill, DiscInv, Shape
<1>2. budget' \in [start : Nat, kill : Nat]
  BY DEF Kill, DiscInv, TypeOK
<1>3. /\ Len(<<>>) = 0 /\ 0 <= Backlog
      /\ \A m \in Node : <<>> \in Seq(Node \ {m}) /\ <<>> \in Seq(GreetingTo(m))
  BY DiscoveryAssumption
<1>4. \A m \in Node : Idle \in [step : HearingStep, names : Seq(Node \ {m}), place : Nat \ {0}]
  BY <1>3 DEF Idle, HearingStep
<1>5. Idle.step = "accept" /\ Idle.names = <<>>
  BY DEF Idle
<1>6. TypeOK'
  BY <1>1, <1>2, <1>3, <1>4, <1>5 DEF DiscInv, TypeOK
<1>7. Shape' /\ AtPeer'
  BY <1>1 DEF DiscInv, Shape, AtPeer
<1> QED BY <1>6, <1>7 DEF DiscInv

LEMMA JoinDisc ==
    ASSUME DiscInv, NEW n \in Node, Join(n)
    PROVE  DiscInv'
<1>1. /\ n # Master /\ joining' = joining \ {n}
      /\ UNCHANGED <<up, peers, inactive, hearing, todo, failed, erased, shifted, budget>>
  BY DEF Join, discoveryVars, DiscInv, TypeOK
<1>2. /\ queue' = [m \in Node |-> queue'[m]]
      /\ \A m \in Node : /\ queue'[m] \in Seq(GreetingTo(m)) /\ Len(queue'[m]) <= Backlog
                         /\ m \notin up => queue'[m] = <<>>
  <2>1. CASE Master \in up
    <3>1. Master \in Node \ {n} /\ Room(Master) /\ Greet(n, Master)
      BY <1>1, <2>1, DiscoveryAssumption DEF Join
    <3> QED BY <3>1, GreetDisc
  <2>2. CASE Master \notin up
    BY <2>2 DEF Join, DiscInv, TypeOK, Shape
  <2> QED BY <2>1, <2>2
<1>3. TypeOK'
  BY <1>1, <1>2 DEF DiscInv, TypeOK
<1>4. Shape' /\ AtPeer'
  BY <1>1, <1>2 DEF DiscInv, Shape, AtPeer
<1> QED BY <1>3, <1>4 DEF DiscInv

-----------------------------------------------------------------------------
(***************************************************************************)
(* The P2P thread with a greeting.                                         *)
(***************************************************************************)
\* What it may be doing: it has names to look for unless it waits.
HearingOf(n) ==
    {h \in [step : HearingStep, names : Seq(Node \ {n}), place : Nat \ {0}] :
        (h.step = "accept") = (h.names = <<>>)}

\* It touches nothing but its node's lists and queue.
LEMMA HearingDisc ==
    ASSUME DiscInv, NEW n \in up, NEW h \in HearingOf(n), Hearing(n, h),
           peers' = [m \in Node |-> IF m = n THEN peers'[n] ELSE peers[m]],
           peers'[n] \in Seq(Node \ {n}),
           inactive' = [m \in Node |-> IF m = n THEN inactive'[n] ELSE inactive[m]],
           inactive'[n] \subseteq Node,
           queue' = [m \in Node |-> IF m = n THEN queue'[n] ELSE queue[m]],
           queue'[n] \in Seq(GreetingTo(n)), Len(queue'[n]) <= Backlog
    PROVE  DiscInv'
<1>1. /\ hearing' = [m \in Node |-> IF m = n THEN h ELSE hearing[m]]
      /\ UNCHANGED <<up, joining, todo, failed, erased, shifted, budget>>
  BY DEF Hearing, discoveryVars, DiscInv, Shape
<1>2. /\ h \in [step : HearingStep, names : Seq(Node \ {n}), place : Nat \ {0}]
      /\ (h.step = "accept") = (h.names = <<>>)
  BY DEF HearingOf
<1>3. \A m \in Node : /\ peers'[m] \in Seq(Node \ {m}) /\ inactive'[m] \subseteq Node
                      /\ queue'[m] \in Seq(GreetingTo(m)) /\ Len(queue'[m]) <= Backlog
                      /\ m \notin up => queue'[m] = <<>>
  BY DEF DiscInv, TypeOK
<1>4. \A m \in Node : /\ hearing'[m] \in [step : HearingStep, names : Seq(Node \ {m}), place : Nat \ {0}]
                      /\ (hearing'[m].step = "accept") = (hearing'[m].names = <<>>)
                      /\ m \notin up => hearing'[m] = Idle
  BY <1>1, <1>2 DEF DiscInv, TypeOK
<1>5. TypeOK'
  BY <1>1, <1>3, <1>4 DEF DiscInv, TypeOK
<1>6. Shape' /\ AtPeer'
  BY <1>1 DEF DiscInv, Shape, AtPeer
<1> QED BY <1>5, <1>6 DEF DiscInv

\* The name it is at is another node's, and it has a way to go on.
LEMMA AtName ==
    ASSUME DiscInv, NEW n \in Node, hearing[n].step # "accept"
    PROVE  /\ n \in up /\ name(n) \in Node \ {n} /\ afterName(n) \in HearingOf(n)
           /\ \A s \in HearingStep \ {"accept"} : [hearing[n] EXCEPT !.step = s] \in HearingOf(n)
<1> DEFINE h == hearing[n]
           left == Tail(h.names)
<1>1. /\ h \in [step : HearingStep, names : Seq(Node \ {n}), place : Nat \ {0}]
      /\ h.names # <<>> /\ (n \notin up => h = Idle)
  BY DEF DiscInv, TypeOK
<1>2. n \in up
  <2>1. Idle.step = "accept"
    BY DEF Idle
  <2> QED BY <1>1, <2>1
<1>3. name(n) \in Node \ {n} /\ left \in Seq(Node \ {n})
  BY <1>1 DEF name
<1>4. \A s \in HearingStep \ {"accept"} : [h EXCEPT !.step = s] \in HearingOf(n)
  BY <1>1 DEF HearingOf
<1>5. afterName(n) = IF left = <<>> THEN Idle ELSE [step |-> "listed", names |-> left, place |-> 1]
  BY DEF afterName
<1> HIDE DEF left
<1>6. CASE left = <<>>
  <2>1. Idle \in HearingOf(n)
    BY DEF Idle, HearingOf, HearingStep
  <2> QED BY <1>2, <1>3, <1>4, <1>5, <1>6, <2>1
<1>7. CASE left # <<>>
  <2>1. [step |-> "listed", names |-> left, place |-> 1] \in HearingOf(n)
    BY <1>3, <1>7 DEF HearingOf, HearingStep
  <2> QED BY <1>2, <1>3, <1>4, <1>5, <1>7, <2>1
<1> QED BY <1>6, <1>7

\* What the lists and the queue of a node are when they are left alone.
LEMMA LeftAlone ==
    ASSUME DiscInv, NEW n \in Node
    PROVE  /\ UNCHANGED peers => /\ peers' = [m \in Node |-> IF m = n THEN peers'[n] ELSE peers[m]]
                                 /\ peers'[n] \in Seq(Node \ {n})
           /\ UNCHANGED inactive =>
                 /\ inactive' = [m \in Node |-> IF m = n THEN inactive'[n] ELSE inactive[m]]
                 /\ inactive'[n] \subseteq Node
           /\ UNCHANGED queue => /\ queue' = [m \in Node |-> IF m = n THEN queue'[n] ELSE queue[m]]
                                 /\ queue'[n] \in Seq(GreetingTo(n)) /\ Len(queue'[n]) <= Backlog
  BY DEF DiscInv, TypeOK, Shape

\* A name that is added is another node's.
LEMMA AddDisc ==
    ASSUME DiscInv, NEW n \in Node, hearing[n].step # "accept", AddPeer(n)
    PROVE  /\ peers' = [m \in Node |-> IF m = n THEN peers'[n] ELSE peers[m]]
           /\ peers'[n] = Append(peers[n], name(n)) /\ peers'[n] \in Seq(Node \ {n})
<1>1. peers[n] \in Seq(Node \ {n}) /\ name(n) \in Node \ {n}
  BY AtName DEF DiscInv, TypeOK
<1>2. Append(peers[n], name(n)) \in Seq(Node \ {n})
  BY <1>1
<1>3. /\ peers' = [m \in Node |-> IF m = n THEN Append(peers[n], name(n)) ELSE peers[m]]
      /\ peers'[n] = Append(peers[n], name(n))
  BY DEF AddPeer, DiscInv, Shape
<1> QED BY <1>2, <1>3

LEMMA AcceptDisc ==
    ASSUME DiscInv, NEW n \in Node, Accept(n)
    PROVE  DiscInv'
<1> DEFINE g == Head(queue[n])
           h == [step |-> "sender", names |-> <<g.from>> \o others(n, g.list), place |-> 1]
<1>1. /\ queue[n] \in Seq(GreetingTo(n)) /\ Len(queue[n]) <= Backlog /\ queue[n] # <<>> /\ n \in up
      /\ queue' = [m \in Node |-> IF m = n THEN Tail(queue[n]) ELSE queue[m]]
      /\ UNCHANGED <<peers, inactive>> /\ Hearing(n, h)
  BY DEF Accept, DiscInv, TypeOK, Shape
<1>2. g \in GreetingTo(n) /\ Tail(queue[n]) \in Seq(GreetingTo(n)) /\ Len(Tail(queue[n])) <= Backlog
  <2>1. Len(Tail(queue[n])) = Len(queue[n]) - 1 /\ Len(queue[n]) \in Nat /\ Backlog \in Nat
    BY <1>1, DiscoveryAssumption
  <2> QED BY <1>1, <2>1
<1>3. h \in HearingOf(n)
  <2> DEFINE w == Without(g.list, n)
  <2>1. g.from \in Node \ {n} /\ g.list \in Seq(Node)
    BY <1>2 DEF GreetingTo
  <2>2. w \in Seq(Node) /\ Range(w) = Range(g.list) \ {n}
    BY <2>1, WithoutErases
  <2>3. others(n, g.list) = w
    BY DEF others
  <2> HIDE DEF g, w
  <2>4. w \in Seq(Node \ {n})
    <3>1. \A i \in 1..Len(w) : w[i] # n /\ w[i] \in Node
      BY <2>2 DEF Range
    <3> QED BY <2>2, <3>1
  <2>5. <<g.from>> \o w \in Seq(Node \ {n}) /\ <<g.from>> \o w # <<>>
    BY <2>1, <2>4
  <2> QED BY <2>3, <2>5 DEF HearingOf, HearingStep
<1> HIDE DEF g, h
<1>4. /\ queue' = [m \in Node |-> IF m = n THEN queue'[n] ELSE queue[m]]
      /\ queue'[n] \in Seq(GreetingTo(n)) /\ Len(queue'[n]) <= Backlog
  BY <1>1, <1>2 DEF DiscInv, TypeOK
<1> QED BY <1>1, <1>3, <1>4, HearingDisc, LeftAlone

LEMMA HandleDisc ==
    ASSUME DiscInv, NEW n \in Node, HandleGreeting(n)
    PROVE  DiscInv'
<1> DEFINE h == afterName(n)
           k == [hearing[n] EXCEPT !.step = "add"]
           k2 == [hearing[n] EXCEPT !.step = "forgive"]
<1>1. ASSUME hearing[n].step # "accept"
      PROVE  n \in up /\ h \in HearingOf(n) /\ k \in HearingOf(n) /\ k2 \in HearingOf(n)
  BY <1>1, AtName DEF HearingStep
<1> HIDE DEF h, k, k2
<1>2. CASE Accept(n)
  BY <1>2, AcceptDisc
<1>3. CASE Know(n)
  <2>1. hearing[n].step # "accept" /\ Hearing(n, h) /\ UNCHANGED <<peers, inactive, queue>>
    BY <1>3 DEF Know, Walking, h
  <2> QED BY <1>1, <2>1, HearingDisc, LeftAlone
<1>4. CASE AddSender(n)
  <2>1. hearing[n].step # "accept" /\ Hearing(n, h) /\ AddPeer(n) /\ UNCHANGED <<inactive, queue>>
    BY <1>4 DEF AddSender, h
  <2> QED BY <1>1, <2>1, HearingDisc, LeftAlone, AddDisc
<1>5. CASE SearchInactive(n)
  <2>1. hearing[n].step # "accept" /\ (Hearing(n, h) \/ Hearing(n, k)) /\ UNCHANGED <<peers, inactive, queue>>
    BY <1>5 DEF SearchInactive, h, k
  <2> QED BY <1>1, <2>1, HearingDisc, LeftAlone
<1>6. CASE AddListed(n)
  <2>1. hearing[n].step # "accept" /\ Hearing(n, k2) /\ AddPeer(n) /\ UNCHANGED <<inactive, queue>>
    BY <1>6 DEF AddListed, k2
  <2> QED BY <1>1, <2>1, HearingDisc, LeftAlone, AddDisc
<1>7. CASE Forgive(n)
  <2>1. hearing[n].step # "accept" /\ Hearing(n, h) /\ UNCHANGED <<peers, queue>>
    BY <1>7 DEF Forgive, h
  <2>2. /\ inactive' = [m \in Node |-> IF m = n THEN inactive'[n] ELSE inactive[m]]
        /\ inactive'[n] \subseteq Node
    BY <1>7 DEF Forgive, DiscInv, Shape
  <2> QED BY <1>1, <2>1, <2>2, HearingDisc, LeftAlone
<1> QED BY <1>2, <1>3, <1>4, <1>5, <1>6, <1>7 DEF HandleGreeting

-----------------------------------------------------------------------------
(***************************************************************************)
(* The discovery thread.                                                   *)
(***************************************************************************)
LEMMA StartRoundDisc ==
    ASSUME DiscInv, NEW n \in Node, StartRound(n)
    PROVE  DiscInv'
<1>1. /\ todo' = [m \in Node |-> IF m = n THEN peers[n] ELSE todo[m]]
      /\ n \in up /\ todo[n] = <<>>
      /\ UNCHANGED <<up, peers, inactive, queue, joining, hearing, failed, erased, shifted, budget>>
  BY DEF StartRound, p2pVars, DiscInv, Shape
<1>2. TypeOK'
  BY <1>1 DEF DiscInv, TypeOK
<1>3. Shape' /\ AtPeer'
  BY <1>1 DEF DiscInv, Shape, AtPeer
<1> QED BY <1>2, <1>3 DEF DiscInv

\* The peer the discovery thread is at is another node.
LEMMA HeadTodo ==
    ASSUME DiscInv, NEW n \in Node, todo[n] # <<>>
    PROVE  Head(todo[n]) \in Node \ {n} /\ Tail(todo[n]) \in Seq(Node \ {n}) /\ n \in up
<1>1. todo[n] \in Seq(Node \ {n}) /\ n \in up
  BY DEF DiscInv, TypeOK
<1> QED BY <1>1

LEMMA ReachDisc ==
    ASSUME DiscInv, NEW n \in Node, Reach(n)
    PROVE  DiscInv'
<1>1. /\ todo' = [m \in Node |-> IF m = n THEN Tail(todo[n]) ELSE todo[m]]
      /\ todo[n] # <<>> /\ failed[n] = {} /\ erased[n] = {}
      /\ Room(Head(todo[n])) /\ Greet(n, Head(todo[n]))
      /\ UNCHANGED <<up, peers, inactive, joining, hearing, failed, erased, shifted, budget>>
  BY DEF Reach, Connecting, DiscInv, Shape
<1>2. Head(todo[n]) \in Node \ {n} /\ Tail(todo[n]) \in Seq(Node \ {n}) /\ n \in up
  BY <1>1, HeadTodo
<1>3. /\ queue' = [m \in Node |-> queue'[m]]
      /\ \A m \in Node : /\ queue'[m] \in Seq(GreetingTo(m)) /\ Len(queue'[m]) <= Backlog
                         /\ m \notin up => queue'[m] = <<>>
  BY <1>1, <1>2, GreetDisc
<1>4. TypeOK'
  BY <1>1, <1>2, <1>3 DEF DiscInv, TypeOK
<1>5. Shape' /\ AtPeer'
  BY <1>1, <1>3 DEF DiscInv, Shape, AtPeer
<1> QED BY <1>4, <1>5 DEF DiscInv

LEMMA MissDisc ==
    ASSUME DiscInv, NEW n \in Node, Miss(n)
    PROVE  DiscInv'
<1> DEFINE p == Head(todo[n])
<1>1. /\ todo[n] # <<>> /\ failed[n] = {} /\ erased[n] = {}
      /\ UNCHANGED <<up, peers, inactive, queue, joining, hearing, erased, shifted, budget>>
  BY DEF Miss, Connecting, p2pVars
<1>2. p \in Node \ {n} /\ Tail(todo[n]) \in Seq(Node \ {n}) /\ n \in up
  BY <1>1, HeadTodo
<1>3. CASE p = Master
  <2>1. todo' = [m \in Node |-> IF m = n THEN Tail(todo[n]) ELSE todo[m]] /\ UNCHANGED failed
    BY <1>3 DEF Miss, DiscInv, Shape
  <2>2. TypeOK'
    BY <1>1, <1>2, <2>1 DEF DiscInv, TypeOK
  <2>3. Shape' /\ AtPeer'
    BY <1>1, <2>1 DEF DiscInv, Shape, AtPeer
  <2> QED BY <2>2, <2>3 DEF DiscInv
<1>4. CASE p # Master
  <2>1. failed' = [m \in Node |-> IF m = n THEN {p} ELSE failed[m]] /\ UNCHANGED todo
    BY <1>4 DEF Miss, DiscInv, Shape
  <2> HIDE DEF p
  <2>2. TypeOK'
    BY <1>1, <1>2, <2>1 DEF DiscInv, TypeOK
  <2>3. Shape' /\ AtPeer'
    BY <1>1, <1>4, <2>1 DEF DiscInv, Shape, AtPeer
  <2> QED BY <2>2, <2>3 DEF DiscInv
<1> QED BY <1>3, <1>4

\* Erasing a peer leaves the others, and doubles none.
LEMMA PeersLeft ==
    ASSUME DiscInv, NEW n \in Node, NEW p
    PROVE  /\ Without(peers[n], p) \in Seq(Node \ {n})
           /\ Range(Without(peers[n], p)) = Range(peers[n]) \ {p}
           /\ IsInjective(peers[n]) => IsInjective(Without(peers[n], p))
<1>1. PICK S : S = Node \ {n}
  OBVIOUS
<1>2. peers[n] \in Seq(S)
  BY <1>1 DEF DiscInv, TypeOK
<1> QED BY <1>1, <1>2, WithoutErases

\* A walk it disturbs is as far as it was, or further.
LEMMA EraseWalk ==
    ASSUME DiscInv, NEW n \in Node, Erase(n)
    PROVE  \E k \in Nat \ {0} :
              /\ hearing' = [m \in Node |-> IF m = n THEN [hearing[n] EXCEPT !.place = k] ELSE hearing[m]]
              /\ \/ k = hearing[n].place /\ shifted' = shifted
                 \/ shifted' = shifted \cup {n}
              /\ Walking(n) /\ k # 1 => shifted' = shifted \cup {n}
<1>1. /\ hearing[n] \in [step : HearingStep, names : Seq(Node \ {n}), place : Nat \ {0}]
      /\ peers[n] \in Seq(Node \ {n})
  BY DEF DiscInv, TypeOK
<1>2. CASE Walking(n)
  <2>1. PICK k \in {place(n)} \cup (place(n)..(Len(peers[n]) + 1)) :
            /\ hearing' = [hearing EXCEPT ![n].place = k]
            /\ shifted' = IF k = 1 THEN shifted ELSE shifted \cup {n}
    BY <1>2 DEF Erase
  <2>2. k \in Nat \ {0} /\ (k = 1 => k = hearing[n].place)
    BY <1>1, <2>1 DEF place
  <2>3. hearing' = [m \in Node |-> IF m = n THEN [hearing[n] EXCEPT !.place = k] ELSE hearing[m]]
    BY <2>1 DEF DiscInv, Shape
  <2> QED BY <2>1, <2>2, <2>3
<1>3. CASE ~Walking(n)
  <2>1. hearing' = hearing /\ shifted' = shifted
    BY <1>3 DEF Erase
  <2>2. hearing[n] = [hearing[n] EXCEPT !.place = hearing[n].place]
    BY <1>1
  <2> QED BY <1>1, <1>3, <2>1, <2>2 DEF DiscInv, Shape
<1> QED BY <1>2, <1>3

LEMMA EraseDisc ==
    ASSUME DiscInv, NEW n \in Node, Erase(n)
    PROVE  DiscInv'
<1>1. PICK p \in failed[n] : peers' = [peers EXCEPT ![n] = Without(@, p)]
  BY DEF Erase
<1> DEFINE left == Without(peers[n], p)
<1>2. /\ peers' = [m \in Node |-> IF m = n THEN left ELSE peers[m]]
      /\ erased' = [m \in Node |-> IF m = n THEN failed[n] ELSE erased[m]]
      /\ failed' = [m \in Node |-> IF m = n THEN {} ELSE failed[m]]
      /\ UNCHANGED <<up, inactive, queue, joining, todo, budget>>
  BY <1>1 DEF Erase, DiscInv, Shape
<1>3. left \in Seq(Node \ {n})
  BY PeersLeft
<1> HIDE DEF left
<1>4. n \in up /\ failed[n] \subseteq Node
  BY <1>1 DEF DiscInv, TypeOK
<1>5. PICK k \in Nat \ {0} :
          /\ hearing' = [m \in Node |-> IF m = n THEN [hearing[n] EXCEPT !.place = k] ELSE hearing[m]]
          /\ shifted' = shifted \/ shifted' = shifted \cup {n}
  BY EraseWalk
<1>6. \A m \in Node :
          /\ hearing'[m] \in [step : HearingStep, names : Seq(Node \ {m}), place : Nat \ {0}]
          /\ (hearing'[m].step = "accept") = (hearing'[m].names = <<>>)
          /\ m \notin up => hearing'[m] = Idle
  BY <1>4, <1>5 DEF DiscInv, TypeOK
<1>7. shifted' \subseteq Node
  BY <1>5 DEF DiscInv, TypeOK
<1>8. TypeOK'
  BY <1>2, <1>3, <1>4, <1>6, <1>7 DEF DiscInv, TypeOK
<1>9. Shape' /\ AtPeer'
  BY <1>1, <1>2, <1>5 DEF DiscInv, Shape, AtPeer
<1> QED BY <1>8, <1>9 DEF DiscInv

LEMMA RetireDisc ==
    ASSUME DiscInv, NEW n \in Node, Retire(n)
    PROVE  DiscInv'
<1>1. /\ inactive' = [m \in Node |-> IF m = n THEN inactive[n] \cup erased[n] ELSE inactive[m]]
      /\ erased' = [m \in Node |-> IF m = n THEN {} ELSE erased[m]]
      /\ todo' = [m \in Node |-> IF m = n THEN Tail(todo[n]) ELSE todo[m]]
      /\ n \in up /\ UNCHANGED <<up, peers, queue, joining, hearing, failed, shifted, budget>>
  BY DEF Retire, p2pVars, DiscInv, Shape, TypeOK
<1>2. Tail(todo[n]) \in Seq(Node \ {n})
  BY HeadTodo DEF Retire, DiscInv, AtPeer
<1>3. TypeOK'
  BY <1>1, <1>2 DEF DiscInv, TypeOK
<1>4. failed[n] = {}
  BY DEF Retire, DiscInv, AtPeer
<1>5. Shape' /\ AtPeer'
  BY <1>1, <1>4 DEF DiscInv, Shape, AtPeer
<1> QED BY <1>3, <1>5 DEF DiscInv

LEMMA NextDisc ==
    ASSUME DiscInv, [Next]_vars
    PROVE  DiscInv'
<1>1. CASE UNCHANGED vars
  BY <1>1 DEF vars, DiscInv, TypeOK, Shape, AtPeer
<1>2. CASE Next
  <2>1. PICK n \in Node : Start(n) \/ Kill(n) \/ P2PThread(n) \/ DiscoveryThread(n)
    BY <1>2 DEF Next
  <2> QED BY <2>1, StartDisc, KillDisc, JoinDisc, HandleDisc, StartRoundDisc, ReachDisc,
             MissDisc, EraseDisc, RetireDisc DEF P2PThread, DiscoveryThread
<1> QED BY <1>1, <1>2

\* Every variable of PeerDiscovery has its type, and no node is its own peer,
\* whatever the lists in the greetings say (SocketCommunication.cpp:272-331).
THEOREM DiscoveryTypeCorrect == Spec => []TypeOK
<1>1. Init => DiscInv
  BY InitDisc
<1>2. DiscInv /\ [Next]_vars => DiscInv'
  BY NextDisc
<1>3. DiscInv => TypeOK
  BY DEF DiscInv
<1> QED BY <1>1, <1>2, <1>3, PTL DEF Spec

-----------------------------------------------------------------------------
(***************************************************************************)
(* Twice in a list.  As long as nothing is erased under a walk, it has     *)
(* seen all peers when it is through, and what it is about to add is not   *)
(* there.                                                                  *)
(***************************************************************************)
Undoubled(n) ==
    /\ IsInjective(peers[n])
    /\ Walking(n) => place(n) = 1
    /\ hearing[n].step = "add" => name(n) \notin Range(peers[n])

UndoubledInv == \A n \in Node \ shifted : Undoubled(n)

LEMMA IdleUndoubled ==
    ASSUME NEW n \in Node, IsInjective(peers[n]), hearing[n] = Idle
    PROVE  Undoubled(n)
  BY DEF Idle, Walking, place, Undoubled

\* What a walk does not find is not in the list.
LEMMA NotFound ==
    ASSUME DiscInv, NEW n \in Node, Undoubled(n), Walking(n), ~Found(n)
    PROVE  name(n) \notin Range(peers[n])
<1>1. peers[n] \in Seq(Node \ {n})
  BY DEF DiscInv, TypeOK
<1>2. DOMAIN peers[n] = place(n)..((Len(peers[n]) + 1) - 1)
  BY <1>1 DEF Undoubled
<1> QED BY <1>2 DEF Found, gone, Range

LEMMA AddUndoubled ==
    ASSUME DiscInv, NEW n \in Node, hearing[n].step # "accept", AddPeer(n),
           IsInjective(peers[n]), name(n) \notin Range(peers[n])
    PROVE  IsInjective(peers'[n])
<1>1. PICK S : S = Node \ {n}
  OBVIOUS
<1>2. peers[n] \in Seq(S) /\ name(n) \in S
  BY <1>1, AtName DEF DiscInv, TypeOK
<1>3. peers'[n] = Append(peers[n], name(n))
  BY AddDisc
<1> QED BY <1>2, <1>3, Appended

\* A node whose lists and walk are left alone stays as it is.
LEMMA AloneUndoubled ==
    ASSUME NEW n \in Node, Undoubled(n), peers'[n] = peers[n], hearing'[n] = hearing[n]
    PROVE  Undoubled(n)'
  BY DEF Undoubled, Walking, place, name

\* The next name is looked for from the first place.
LEMMA NextUndoubled ==
    ASSUME NEW n \in Node, IsInjective(peers'[n]), hearing'[n] = afterName(n)
    PROVE  Undoubled(n)'
<1>1. \/ hearing'[n] = Idle
      \/ hearing'[n].step = "listed" /\ hearing'[n].place = 1
  BY DEF afterName
<1> QED BY <1>1 DEF Idle, Undoubled, Walking, place

\* The P2P thread doubles nobody, and keeps the peers there are.
LEMMA HandleUndoubled ==
    ASSUME DiscInv, NEW n \in Node, HandleGreeting(n)
    PROVE  /\ Range(peers[n]) \subseteq Range(peers'[n])
           /\ Undoubled(n) => Undoubled(n)'
           /\ shifted' = shifted
           /\ \A m \in Node \ {n} : peers'[m] = peers[m] /\ hearing'[m] = hearing[m]
<1> DEFINE h == hearing[n]
           Goal == /\ Range(peers[n]) \subseteq Range(peers'[n])
                   /\ Undoubled(n) => Undoubled(n)'
                   /\ shifted' = shifted
                   /\ \A m \in Node \ {n} : peers'[m] = peers[m] /\ hearing'[m] = hearing[m]
<1>1. h \in [step : HearingStep, names : Seq(Node \ {n}), place : Nat \ {0}]
  BY DEF DiscInv, TypeOK
<1>2. ASSUME NEW r, Hearing(n, r)
      PROVE  /\ hearing'[n] = r /\ shifted' = shifted
             /\ \A m \in Node \ {n} : hearing'[m] = hearing[m]
  BY <1>2 DEF Hearing, discoveryVars, DiscInv, Shape
<1>3. ASSUME h.step # "accept", AddPeer(n)
      PROVE  /\ Range(peers'[n]) = Range(peers[n]) \cup {name(n)}
             /\ \A m \in Node \ {n} : peers'[m] = peers[m]
  <2>1. PICK S : S = Node \ {n}
    OBVIOUS
  <2>2. peers[n] \in Seq(S) /\ name(n) \in S
    BY <1>3, <2>1, AtName DEF DiscInv, TypeOK
  <2>3. peers'[n] = Append(peers[n], name(n))
    BY <1>3, AddDisc
  <2>4. \A m \in Node \ {n} : peers'[m] = peers[m]
    BY <1>3 DEF AddPeer, DiscInv, Shape
  <2> QED BY <2>2, <2>3, <2>4, Appended
<1>4. CASE Accept(n)
  <2>1. /\ hearing'[n].step = "sender" /\ hearing'[n].place = 1 /\ UNCHANGED peers
        /\ shifted' = shifted /\ \A m \in Node \ {n} : hearing'[m] = hearing[m]
    BY <1>2, <1>4 DEF Accept
  <2> QED BY <2>1 DEF Undoubled, Walking, place
<1>5. CASE Know(n)
  <2>1. Hearing(n, afterName(n)) /\ UNCHANGED peers
    BY <1>5 DEF Know
  <2>2. /\ hearing'[n] = afterName(n) /\ shifted' = shifted
        /\ \A m \in Node \ {n} : hearing'[m] = hearing[m]
    BY <1>2, <2>1
  <2>3. Undoubled(n) => IsInjective(peers'[n])
    BY <2>1 DEF Undoubled
  <2> QED BY <2>1, <2>2, <2>3, NextUndoubled
<1>6. CASE AddSender(n)
  <2>1. /\ Walking(n) /\ ~Found(n) /\ AddPeer(n) /\ Hearing(n, afterName(n))
        /\ h.step # "accept"
    BY <1>6 DEF AddSender, Walking
  <2>2. /\ hearing'[n] = afterName(n) /\ shifted' = shifted
        /\ \A m \in Node \ {n} : hearing'[m] = hearing[m]
    BY <1>2, <2>1
  <2>3. Undoubled(n) => IsInjective(peers'[n])
    <3>1. Undoubled(n) => name(n) \notin Range(peers[n]) /\ IsInjective(peers[n])
      BY <2>1, NotFound DEF Undoubled
    <3> QED BY <2>1, <3>1, AddUndoubled
  <2> QED BY <1>3, <2>1, <2>2, <2>3, NextUndoubled
<1>7. CASE SearchInactive(n)
  <2>1. Walking(n) /\ ~Found(n) /\ UNCHANGED peers
    BY <1>7 DEF SearchInactive, Walking
  <2>2. CASE Hearing(n, afterName(n))
    <3>1. /\ hearing'[n] = afterName(n) /\ shifted' = shifted
          /\ \A m \in Node \ {n} : hearing'[m] = hearing[m]
      BY <1>2, <2>2
    <3>2. Undoubled(n) => IsInjective(peers'[n])
      BY <2>1 DEF Undoubled
    <3> QED BY <2>1, <3>1, <3>2, NextUndoubled
  <2>3. CASE Hearing(n, [h EXCEPT !.step = "add"])
    <3>1. /\ hearing'[n] = [h EXCEPT !.step = "add"] /\ shifted' = shifted
          /\ \A m \in Node \ {n} : hearing'[m] = hearing[m]
      BY <1>2, <2>3
    <3>2. hearing'[n].step = "add" /\ hearing'[n].names = h.names
      BY <1>1, <3>1
    <3>3. Undoubled(n) => name(n) \notin Range(peers[n]) /\ IsInjective(peers[n])
      BY <2>1, NotFound DEF Undoubled
    <3> QED BY <2>1, <3>1, <3>2, <3>3 DEF Undoubled, Walking, name
  <2> QED BY <1>7, <2>2, <2>3 DEF SearchInactive
<1>8. CASE AddListed(n)
  <2>1. /\ h.step = "add" /\ AddPeer(n) /\ Hearing(n, [h EXCEPT !.step = "forgive"])
        /\ h.step # "accept"
    BY <1>8 DEF AddListed
  <2>2. /\ hearing'[n] = [h EXCEPT !.step = "forgive"] /\ shifted' = shifted
        /\ \A m \in Node \ {n} : hearing'[m] = hearing[m]
    BY <1>2, <2>1
  <2>3. hearing'[n].step = "forgive"
    BY <1>1, <2>2
  <2>4. Undoubled(n) => IsInjective(peers'[n])
    BY <2>1, AddUndoubled DEF Undoubled
  <2>5. Undoubled(n) => Undoubled(n)'
    BY <2>3, <2>4 DEF Undoubled, Walking
  <2> QED BY <1>3, <2>1, <2>2, <2>5
<1>9. CASE Forgive(n)
  <2>1. Hearing(n, afterName(n)) /\ UNCHANGED peers
    BY <1>9 DEF Forgive
  <2>2. /\ hearing'[n] = afterName(n) /\ shifted' = shifted
        /\ \A m \in Node \ {n} : hearing'[m] = hearing[m]
    BY <1>2, <2>1
  <2>3. Undoubled(n) => IsInjective(peers'[n])
    BY <2>1 DEF Undoubled
  <2> QED BY <2>1, <2>2, <2>3, NextUndoubled
<1> QED BY <1>4, <1>5, <1>6, <1>7, <1>8, <1>9 DEF HandleGreeting

\* Erasing leaves the others; under a walk that has not begun it doubles nobody.
LEMMA EraseUndoubled ==
    ASSUME DiscInv, NEW n \in Node, Erase(n)
    PROVE  /\ \E p \in Node \ {Master} : peers'[n] = Without(peers[n], p)
           /\ \A m \in Node \ {n} : peers'[m] = peers[m] /\ hearing'[m] = hearing[m]
           /\ shifted \subseteq shifted'
           /\ n \notin shifted' /\ Undoubled(n) => Undoubled(n)'
<1>1. PICK p \in failed[n] : peers' = [peers EXCEPT ![n] = Without(@, p)]
  BY DEF Erase
<1>2. /\ p \in Node \ {Master} /\ peers'[n] = Without(peers[n], p)
      /\ \A m \in Node \ {n} : peers'[m] = peers[m]
  BY <1>1 DEF DiscInv, TypeOK, AtPeer, Shape
<1>3. PICK k \in Nat \ {0} :
          /\ hearing' = [m \in Node |-> IF m = n THEN [hearing[n] EXCEPT !.place = k] ELSE hearing[m]]
          /\ \/ k = hearing[n].place /\ shifted' = shifted
             \/ shifted' = shifted \cup {n}
          /\ Walking(n) /\ k # 1 => shifted' = shifted \cup {n}
  BY EraseWalk
<1>4. hearing[n] \in [step : HearingStep, names : Seq(Node \ {n}), place : Nat \ {0}]
  BY DEF DiscInv, TypeOK
<1>5. /\ hearing'[n].step = hearing[n].step /\ hearing'[n].names = hearing[n].names
      /\ hearing'[n].place = k
  BY <1>3, <1>4
<1>6. ASSUME n \notin shifted', Undoubled(n) PROVE Undoubled(n)'
  <2>1. Range(peers'[n]) \subseteq Range(peers[n]) /\ IsInjective(peers'[n])
    <3> DEFINE left == Without(peers[n], p)
    <3>1. Range(left) \subseteq Range(peers[n]) /\ (IsInjective(peers[n]) => IsInjective(left))
      BY PeersLeft
    <3> HIDE DEF left
    <3>2. peers'[n] = left
      BY <1>2 DEF left
    <3> QED BY <1>6, <3>1, <3>2 DEF Undoubled
  <2>2. Walking(n) => k = 1
    BY <1>3, <1>6
  <2> QED BY <1>5, <1>6, <2>1, <2>2 DEF Undoubled, Walking, place, name
<1> QED BY <1>2, <1>3, <1>6

\* No other step touches a list, or a walk, except of a node that starts or dies.
LEMMA OtherSteps ==
    ASSUME DiscInv, NEW n \in Node,
           Join(n) \/ StartRound(n) \/ Reach(n) \/ Miss(n) \/ Retire(n)
    PROVE  UNCHANGED <<peers, hearing, shifted>>
  BY DEF Join, StartRound, Reach, Miss, Retire, p2pVars, discoveryVars

LEMMA StartUndoubled ==
    ASSUME DiscInv, NEW n \in Node, Start(n)
    PROVE  /\ Undoubled(n)' /\ n \notin up /\ shifted' = shifted \ {n}
           /\ \A m \in Node \ {n} : peers'[m] = peers[m] /\ hearing'[m] = hearing[m]
<1>1. /\ peers'[n] = <<>> /\ hearing' = hearing /\ n \notin up /\ shifted' = shifted \ {n}
      /\ \A m \in Node \ {n} : peers'[m] = peers[m]
  BY DEF Start, DiscInv, Shape
<1>2. hearing'[n] = Idle
  BY <1>1 DEF DiscInv, TypeOK
<1>3. IsInjective(peers'[n])
  BY <1>1 DEF IsInjective
<1> QED BY <1>1, <1>2, <1>3 DEF Idle, Undoubled, Walking, place

LEMMA KillUndoubled ==
    ASSUME DiscInv, NEW n \in Node, Kill(n)
    PROVE  /\ Undoubled(n) => Undoubled(n)'
           /\ UNCHANGED <<peers, shifted>> /\ \A m \in Node \ {n} : hearing'[m] = hearing[m]
<1>1. /\ hearing'[n] = Idle /\ UNCHANGED <<peers, shifted>>
      /\ \A m \in Node \ {n} : hearing'[m] = hearing[m]
  BY DEF Kill, DiscInv, Shape
<1> QED BY <1>1 DEF Idle, Undoubled, Walking, place

LEMMA NextUndoubledInv ==
    ASSUME DiscInv, UndoubledInv, [Next]_vars
    PROVE  UndoubledInv'
<1>1. CASE UNCHANGED vars
  <2>1. UNCHANGED <<peers, hearing, shifted>>
    BY <1>1 DEF vars
  <2> QED BY <2>1, AloneUndoubled DEF UndoubledInv
<1>2. CASE Next
  <2>1. PICK n \in Node : Start(n) \/ Kill(n) \/ P2PThread(n) \/ DiscoveryThread(n)
    BY <1>2 DEF Next
  <2>2. CASE Start(n)
    BY <2>2, StartUndoubled, AloneUndoubled DEF UndoubledInv
  <2>3. CASE Kill(n)
    BY <2>3, KillUndoubled, AloneUndoubled DEF UndoubledInv
  <2>4. CASE HandleGreeting(n)
    BY <2>4, HandleUndoubled, AloneUndoubled DEF UndoubledInv
  <2>5. CASE Erase(n)
    BY <2>5, EraseUndoubled, AloneUndoubled DEF UndoubledInv
  <2>6. CASE Join(n) \/ StartRound(n) \/ Reach(n) \/ Miss(n) \/ Retire(n)
    <3>1. UNCHANGED <<peers, hearing, shifted>>
      BY <2>6, OtherSteps
    <3> QED BY <3>1, AloneUndoubled DEF UndoubledInv
  <2> QED BY <2>1, <2>2, <2>3, <2>4, <2>5, <2>6 DEF P2PThread, DiscoveryThread
<1> QED BY <1>1, <1>2

LEMMA InitUndoubled ==
    ASSUME Init
    PROVE  UndoubledInv
<1> SUFFICES ASSUME NEW n \in Node PROVE Undoubled(n)
  BY DEF UndoubledInv
<1>1. IsFiniteSet(Running \ {n}) /\ IsInjective(<<>>)
  BY FS_Subset, DiscoveryAssumption DEF IsInjective
<1>2. IsInjective(SetToSeq(Running \ {n}))
  BY <1>1, Listed
<1>3. IsInjective(peers[n]) /\ hearing[n] = Idle
  BY <1>1, <1>2 DEF Init
<1> QED BY <1>3, IdleUndoubled

\* However the two threads of a node are interleaved, and whatever greetings come,
\* a peer stands in the list twice only if the discovery thread erased another
\* one under a walk of the P2P thread (SocketCommunication.cpp:177, 279-328).
THEOREM DoubledByErasingCorrect == Spec => []DoubledByErasing
<1>1. Init => DiscInv /\ UndoubledInv
  BY InitDisc, InitUndoubled
<1>2. DiscInv /\ UndoubledInv /\ [Next]_vars => DiscInv' /\ UndoubledInv'
  BY NextDisc, NextUndoubledInv
<1>3. UndoubledInv => DoubledByErasing
  BY DEF UndoubledInv, Undoubled, DoubledByErasing
<1> QED BY <1>1, <1>2, <1>3, PTL DEF Spec

-----------------------------------------------------------------------------
\* No step of a node that runs takes the master from its peers, while the
\* discovery thread erases and the P2P thread adds (SocketCommunication.cpp:166-182).
THEOREM MasterKeptCorrect == Spec => MasterKept
<1>1. DiscInv /\ [Next]_vars =>
          (\A n \in up : Master \in Range(peers[n]) => Master \in Range(peers'[n]))
  <2> SUFFICES ASSUME DiscInv, [Next]_vars, NEW m \in up, Master \in Range(peers[m])
               PROVE  Master \in Range(peers'[m])
    OBVIOUS
  <2>1. m \in Node
    BY DEF DiscInv, TypeOK
  <2>2. CASE UNCHANGED vars
    BY <2>2 DEF vars
  <2>3. CASE Next
    <3>1. PICK n \in Node : Start(n) \/ Kill(n) \/ P2PThread(n) \/ DiscoveryThread(n)
      BY <2>3 DEF Next
    <3>2. CASE Start(n)
      BY <2>1, <3>2, StartUndoubled
    <3>3. CASE Kill(n)
      BY <3>3, KillUndoubled
    <3>4. CASE HandleGreeting(n)
      BY <2>1, <3>4, HandleUndoubled
    <3>5. CASE Erase(n)
      <4>1. PICK p \in Node \ {Master} : peers'[n] = Without(peers[n], p)
        BY <3>5, EraseUndoubled
      <4>2. Range(Without(peers[n], p)) = Range(peers[n]) \ {p}
        BY PeersLeft
      <4>3. m # n => peers'[m] = peers[m]
        BY <2>1, <3>5, EraseUndoubled
      <4> QED BY <4>1, <4>2, <4>3
    <3>6. CASE Join(n) \/ StartRound(n) \/ Reach(n) \/ Miss(n) \/ Retire(n)
      BY <3>6, OtherSteps
    <3> QED BY <3>1, <3>2, <3>3, <3>4, <3>5, <3>6 DEF P2PThread, DiscoveryThread
  <2> QED BY <2>2, <2>3
<1>2. Init => DiscInv
  BY InitDisc
<1>3. DiscInv /\ [Next]_vars => DiscInv'
  BY NextDisc
<1> QED BY <1>1, <1>2, <1>3, PTL DEF Spec, MasterKept
=============================================================================
