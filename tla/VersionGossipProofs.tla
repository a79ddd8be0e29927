------------------------ MODULE VersionGossipProofs ------------------------
(***************************************************************************)
(* Proofs about VersionGossip, for any nodes, neighbours, versions and     *)
(* faults.                                                                 *)
(*                                                                         *)
(* What a node assumes of a peer is never ahead of it without a reason     *)
(* because a message never says more than its sender has, unless this one  *)
(* restarted and has no session yet (Honest), and because a node that has  *)
(* no session with a peer assumes nothing of it (Blank).                   *)
(***************************************************************************)
EXTENDS VersionGossip, TLAPS

\* The registry is never behind.
Known ==
  /\ \A n \in Node : node[n].version <= registry /\ node[n].cached <= registry
  /\ \A x \in msgs : x.version <= registry

Honest ==
  \A x \in msgs : \/ x.version <= node[x.from].version
                  \/ peer[x.from][x.to].session = "none"

Blank ==
  \A n, m \in Node : peer[n][m].session = "none" => peer[n][m].version = 0

IInv == TypeOK /\ Known /\ Honest /\ Blank /\ AssumedRight

-----------------------------------------------------------------------------
\* The fields of what the state is made of.
LEMMA Fields ==
  ASSUME TypeOK
  PROVE  /\ \A n \in Node : /\ node[n] \in NodeState
                            /\ node[n].version \in Version
                            /\ node[n].cached \in Version
                            /\ node[n].version \in Nat
                            /\ node[n].cached \in Nat
         /\ \A n, m \in Node : /\ peer[n][m] \in PeerState
                               /\ peer[n][m].version \in 0 .. MaxVersion
                               /\ peer[n][m].version \in Nat
         /\ \A x \in msgs : /\ x.from \in Node /\ x.to \in Node
                            /\ x.version \in Version /\ x.version \in Nat
         /\ registry \in Version /\ registry \in Nat
BY Bounds DEF Version, TypeOK, NodeState, PeerState, Message

\* All that AssumedRight says of a pair of nodes, of which either may be told.
Justified(n, m) ==
  \/ \E x \in msgs : /\ x.from = n /\ x.to = m
                     /\ x.version >= peer[n][m].version
  \/ \E x \in msgs : x.from = m /\ x.to = n
  \/ peer[m][n].session = "none"
  \/ {<<n, m>>, <<m, n>>} \cap faults # {}

LEMMA Right ==
  AssumedRight <=>
    \A n, m \in Node : peer[n][m].version > node[m].version => Justified(n, m)
BY DEF AssumedRight, Justified

LEMMA InitInv == Init => IInv
<1> SUFFICES ASSUME Init PROVE IInv
  OBVIOUS
<1>1. TypeOK
  BY Names, Bounds DEF Init, TypeOK, NodeState, PeerState, Started, NewPeer, Version
<1>2. Known /\ Honest /\ Blank
  BY DEF Init, Known, Honest, Blank, Started, NewPeer
<1>3. AssumedRight
  BY DEF Init, AssumedRight, Started, NewPeer
<1> QED
  BY <1>1, <1>2, <1>3 DEF IInv

-----------------------------------------------------------------------------
LEMMA IncreaseInv == IInv /\ Increase => IInv'
<1> SUFFICES ASSUME IInv, Increase PROVE IInv'
  OBVIOUS
<1>1. TypeOK /\ Known /\ Honest /\ Blank /\ AssumedRight
  BY DEF IInv
<1>2. /\ registry' = registry + 1 /\ registry < MaxVersion /\ registry \in Version
      /\ node' = [node EXCEPT ![Root].planned = TRUE]
      /\ UNCHANGED <<peer, hellos, msgs, faults>>
  BY <1>1, Fields DEF Increase
<1>3. \A n \in Node : /\ node'[n] \in NodeState
                      /\ node'[n].version = node[n].version
                      /\ node'[n].cached = node[n].cached
  BY <1>1, <1>2, Fields DEF TypeOK, NodeState
<1>4. TypeOK'
  <2>1. registry' \in Version
    BY <1>2, Bounds DEF Version
  <2>2. node' \in [Node -> NodeState]
    BY <1>1, <1>2, <1>3 DEF TypeOK
  <2> QED
    BY <1>1, <1>2, <2>1, <2>2 DEF TypeOK
<1>5. Known'
  BY <1>1, <1>2, <1>3, Fields, Bounds DEF Known, Version
<1>6. Honest' /\ Blank' /\ AssumedRight'
  BY <1>1, <1>2, <1>3, Fields DEF Honest, Blank, AssumedRight
<1> QED
  BY <1>4, <1>5, <1>6 DEF IInv

LEMMA NewVersionInv ==
  ASSUME NEW n \in Node
  PROVE  IInv /\ NewVersion(n) => IInv'
<1> SUFFICES ASSUME IInv, NewVersion(n) PROVE IInv'
  OBVIOUS
<1> DEFINE T == Told(n, registry)
           Sent == {[from |-> n, to |-> m, version |-> registry] : m \in T}
<1>1. TypeOK /\ Known /\ Honest /\ Blank /\ AssumedRight
  BY DEF IInv
<1>2. T \subseteq Node /\ \A m \in T : peer[n][m].session = "connected"
  BY DEF Told, Behind
<1>3. /\ node' = [node EXCEPT ![n] = Started(registry)]
      /\ peer' = [peer EXCEPT ![n] = [m \in Node |->
           IF m \in T THEN [peer[n][m] EXCEPT !.version = registry]
           ELSE peer[n][m]]]
      /\ UNCHANGED <<registry, faults>>
  BY <1>1 DEF NewVersion, TypeOK
<1>4. msgs' = msgs \cup Sent
  <2>1. {x \in T : peer[n][x].session = "connected"} = T
    BY <1>2
  <2> QED
    BY <2>1 DEF NewVersion
<1>5. hellos' \subseteq Node \X Node
  <2>1. Behind(n, registry) \subseteq Node
    BY DEF Behind
  <2>2. hellos \subseteq Node \X Node
    BY <1>1 DEF TypeOK
  <2> QED
    BY <2>1, <2>2 DEF NewVersion
<1> HIDE DEF T
<1>6. /\ node'[n] = Started(registry) /\ node'[n].version = registry
      /\ node'[n].cached = registry
      /\ \A m \in Node \ {n} : node'[m] = node[m]
      /\ \A m \in Node : /\ node'[m].version >= node[m].version
                         /\ node'[m].version \in Nat
  BY <1>1, <1>3, Fields DEF TypeOK, Started, Known, Version
<1>7. /\ \A m \in T : peer'[n][m] = [peer[n][m] EXCEPT !.version = registry]
      /\ \A m \in Node \ T : peer'[n][m] = peer[n][m]
      /\ \A k \in Node \ {n} : peer'[k] = peer[k]
  BY <1>1, <1>2, <1>3 DEF TypeOK
<1>8. \A k, m \in Node : /\ peer'[k][m] \in PeerState
                         /\ peer'[k][m].session = peer[k][m].session
                         /\ k = n /\ m \in T => peer'[k][m].version = registry
                         /\ ~(k = n /\ m \in T) => peer'[k][m] = peer[k][m]
  <2>1. \A m \in T : /\ peer'[n][m] \in PeerState
                     /\ peer'[n][m].session = peer[n][m].session
                     /\ peer'[n][m].version = registry
    <3> SUFFICES ASSUME NEW m \in T
                 PROVE  /\ peer'[n][m] \in PeerState
                        /\ peer'[n][m].session = peer[n][m].session
                        /\ peer'[n][m].version = registry
      OBVIOUS
    <3>1. m \in Node
      BY <1>2
    <3>2. peer[n][m] \in PeerState /\ registry \in 0 .. MaxVersion
      BY <1>1, <3>1, Fields, Bounds DEF Version
    <3>3. peer'[n][m] = [peer[n][m] EXCEPT !.version = registry]
      BY <1>7
    <3> QED
      BY <3>2, <3>3 DEF PeerState
  <2> SUFFICES ASSUME NEW k \in Node, NEW m \in Node
               PROVE  /\ peer'[k][m] \in PeerState
                      /\ peer'[k][m].session = peer[k][m].session
                      /\ k = n /\ m \in T => peer'[k][m].version = registry
                      /\ ~(k = n /\ m \in T) => peer'[k][m] = peer[k][m]
    OBVIOUS
  <2>2. peer[k][m] \in PeerState
    BY <1>1, Fields
  <2>3. CASE k = n /\ m \in T
    BY <2>1, <2>3
  <2>4. CASE ~(k = n /\ m \in T)
    BY <1>7, <2>2, <2>4
  <2> QED
    BY <2>3, <2>4
<1>9. TypeOK'
  <2>1. node' \in [Node -> NodeState]
    BY <1>1, <1>3, Fields DEF TypeOK, Started, NodeState
  <2>2. peer' \in [Node -> [Node -> PeerState]]
    <3>1. /\ peer' = [k \in Node |-> peer'[k]]
          /\ \A k \in Node : peer'[k] = [m \in Node |-> peer'[k][m]]
      BY <1>1, <1>3 DEF TypeOK
    <3> QED
      BY <1>8, <3>1
  <2>3. Sent \subseteq Message
    BY <1>1, <1>2, Fields DEF Message
  <2> QED
    BY <1>1, <1>3, <1>4, <1>5, <2>1, <2>2, <2>3 DEF TypeOK
<1>10. Known'
  BY <1>1, <1>3, <1>4, <1>6, Fields, Bounds DEF Known, Version
<1>11. Honest'
  <2>1. \A x \in Sent : x.from = n /\ x.version = registry
    OBVIOUS
  <2>2. \A x \in msgs : \/ x.version <= node'[x.from].version
                        \/ peer'[x.from][x.to].session = "none"
    <3> SUFFICES ASSUME NEW x \in msgs
                 PROVE  \/ x.version <= node'[x.from].version
                        \/ peer'[x.from][x.to].session = "none"
      OBVIOUS
    <3>1. /\ x.from \in Node /\ x.to \in Node /\ x.version \in Nat
          /\ node[x.from].version \in Nat
      BY <1>1, Fields
    <3> QED
      BY <1>1, <1>6, <1>8, <3>1 DEF Honest
  <2>3. \A x \in Sent : x.version <= node'[x.from].version
    BY <1>1, <1>6, <2>1, Fields DEF Version
  <2> QED
    BY <1>4, <2>2, <2>3 DEF Honest
<1>12. Blank'
  BY <1>1, <1>2, <1>8 DEF Blank
<1>13. AssumedRight'
  <2> SUFFICES ASSUME NEW k \in Node, NEW m \in Node,
                      peer'[k][m].version > node'[m].version
               PROVE  Justified(k, m)'
    BY DEF AssumedRight, Justified
  <2>1. CASE k = n /\ m \in T
    <3>1. [from |-> n, to |-> m, version |-> registry] \in msgs'
      BY <1>4, <2>1
    <3>2. registry >= peer'[n][m].version
      BY <1>1, <1>8, <2>1, Fields DEF Version
    <3> QED
      BY <2>1, <3>1, <3>2 DEF Justified
  <2>2. CASE ~(k = n /\ m \in T)
    <3>1. peer'[k][m] = peer[k][m]
      BY <1>8, <2>2
    <3>2. peer[k][m].version > node[m].version
      BY <1>1, <1>6, <1>9, <3>1, Fields DEF Version, TypeOK, NodeState
    <3>3. Justified(k, m)
      BY <1>1, <3>2, Right
    <3> QED
      BY <1>3, <1>4, <1>8, <3>1, <3>3 DEF Justified
  <2> QED
    BY <2>1, <2>2
<1> QED
  BY <1>9, <1>10, <1>11, <1>12, <1>13 DEF IInv

\* One session replaces what there was between two nodes.
LEMMA HelloInv ==
  ASSUME NEW n \in Node, NEW m \in Node
  PROVE  IInv /\ Hello(n, m) => IInv'
<1> SUFFICES ASSUME IInv, Hello(n, m) PROVE IInv'
  OBVIOUS
<1>1. TypeOK /\ Known /\ Honest /\ Blank /\ AssumedRight
  BY DEF IInv
<1>2. PICK a \in {n, m} : LET b == IF a = n THEN m ELSE n IN
        /\ peer' = [peer EXCEPT
             ![a][b] = [version |-> node[a].version, session |-> "connected"],
             ![b][a].session = "keyed"]
        /\ msgs' = {x \in msgs : {x.from, x.to} # {n, m}} \cup Opened(a, b)
  BY DEF Hello
<1> DEFINE b == IF a = n THEN m ELSE n
           o == [from |-> a, to |-> b, version |-> node[a].version]
<1>3. /\ a \in Node /\ b \in Node /\ {a, b} = {n, m}
      /\ peer' = [peer EXCEPT
           ![a][b] = [version |-> node[a].version, session |-> "connected"],
           ![b][a].session = "keyed"]
      /\ msgs' = {x \in msgs : {x.from, x.to} # {a, b}} \cup {o}
      /\ hellos' \subseteq hellos /\ UNCHANGED <<registry, node, faults>>
  <2>1. {a, b} = {n, m} /\ a \in Node /\ b \in Node
    OBVIOUS
  <2>2. /\ peer' = [peer EXCEPT
             ![a][b] = [version |-> node[a].version, session |-> "connected"],
             ![b][a].session = "keyed"]
        /\ msgs' = {x \in msgs : {x.from, x.to} # {n, m}} \cup Opened(a, b)
    BY <1>2
  <2>3. Opened(a, b) = {o}
    BY DEF Opened
  <2>4. hellos' \subseteq hellos /\ UNCHANGED <<registry, node, faults>>
    BY DEF Hello
  <2> HIDE DEF b, o
  <2> QED
    BY <2>1, <2>2, <2>3, <2>4
<1> HIDE DEF b, o
<1>4. /\ o \in Message /\ o.from = a /\ o.to = b /\ o.version = node[a].version
      /\ o \in msgs'
      /\ \A x \in msgs' : x \in msgs \/ x = o
      /\ \A x \in msgs : {x.from, x.to} = {a, b} \/ x \in msgs'
      /\ \A x \in msgs' : {x.from, x.to} = {a, b} => x = o
  BY <1>1, <1>3, Fields DEF Message, o
<1>5. \A k, l \in Node : k \notin {a, b} \/ l \notin {a, b} \/ (a # b /\ k = l)
        => peer'[k][l] = peer[k][l]
  BY <1>1, <1>3 DEF TypeOK
<1>6. a # b => /\ peer'[a][b] = [version |-> node[a].version,
                                 session |-> "connected"]
               /\ peer'[b][a] = [peer[b][a] EXCEPT !.session = "keyed"]
  BY <1>1, <1>3 DEF TypeOK
<1>7. a = b => peer'[a][a] = [version |-> node[a].version, session |-> "keyed"]
  BY <1>1, <1>3 DEF TypeOK
<1>8. /\ peer'[a][b] \in PeerState /\ peer'[b][a] \in PeerState
      /\ peer'[a][b].version = node[a].version
      /\ peer'[a][b].session # "none" /\ peer'[b][a].session # "none"
      /\ a # b => peer'[b][a].version = peer[b][a].version
  <2>1. node[a].version \in 0 .. MaxVersion /\ peer[b][a] \in PeerState
    BY <1>1, <1>3, Fields DEF Version
  <2>2. CASE a # b
    BY <1>6, <2>1, <2>2 DEF PeerState
  <2>3. CASE a = b
    BY <1>7, <2>1, <2>3 DEF PeerState
  <2> QED
    BY <2>2, <2>3
<1>9. \A k, l \in Node : \/ k = a /\ l = b
                         \/ k = b /\ l = a
                         \/ peer'[k][l] = peer[k][l] /\ {k, l} # {a, b}
  <2> SUFFICES ASSUME NEW k \in Node, NEW l \in Node,
                      ~(k = a /\ l = b), ~(k = b /\ l = a)
               PROVE  peer'[k][l] = peer[k][l] /\ {k, l} # {a, b}
    OBVIOUS
  <2>1. k \notin {a, b} \/ l \notin {a, b} \/ (a # b /\ k = l)
    OBVIOUS
  <2>2. {k, l} # {a, b}
    <3>1. a \in {a, b} /\ b \in {a, b} /\ k \in {k, l} /\ l \in {k, l}
      OBVIOUS
    <3> QED
      BY <2>1, <3>1
  <2> QED
    BY <1>5, <2>1, <2>2
<1>10. TypeOK'
  <2>1. peer' \in [Node -> [Node -> PeerState]]
    <3>1. /\ peer' = [k \in Node |-> peer'[k]]
          /\ \A k \in Node : peer'[k] = [l \in Node |-> peer'[k][l]]
      BY <1>1, <1>3 DEF TypeOK
    <3>2. \A k, l \in Node : peer'[k][l] \in PeerState
      BY <1>1, <1>8, <1>9, Fields
    <3> QED
      BY <3>1, <3>2
  <2> QED
    BY <1>1, <1>3, <1>4, <2>1 DEF TypeOK
<1>11. Known'
  BY <1>1, <1>3, <1>4 DEF Known
<1>12. Honest'
  <2> SUFFICES ASSUME NEW x \in msgs'
               PROVE  \/ x.version <= node[x.from].version
                      \/ peer'[x.from][x.to].session = "none"
    BY <1>3 DEF Honest
  <2>1. CASE x = o
    BY <1>1, <1>3, <1>4, <2>1, Fields
  <2>2. CASE x # o
    <3>1. x \in msgs /\ {x.from, x.to} # {a, b} /\ x.from \in Node /\ x.to \in Node
      BY <1>1, <1>4, <2>2, Fields
    <3>2. peer'[x.from][x.to] = peer[x.from][x.to]
      BY <1>9, <3>1
    <3> QED
      BY <1>1, <3>1, <3>2 DEF Honest
  <2> QED
    BY <2>1, <2>2
<1>13. Blank'
  BY <1>1, <1>8, <1>9 DEF Blank
<1>14. AssumedRight'
  <2> SUFFICES ASSUME NEW k \in Node, NEW l \in Node,
                      peer'[k][l].version > node[l].version
               PROVE  Justified(k, l)'
    BY <1>3 DEF AssumedRight, Justified
  <2>1. CASE k = a /\ l = b
    <3>1. o.version >= peer'[k][l].version
      BY <1>1, <1>3, <1>4, <1>8, <2>1, Fields
    <3> QED
      BY <1>4, <2>1, <3>1 DEF Justified
  <2>2. CASE k = b /\ l = a
    BY <1>4, <2>2 DEF Justified
  <2>3. CASE peer'[k][l] = peer[k][l] /\ {k, l} # {a, b}
    <3>1. Justified(k, l)
      BY <1>1, <2>3, Right
    <3>2. peer'[l][k] = peer[l][k]
      BY <1>9, <2>3
    <3>3. \A x \in msgs : {x.from, x.to} = {k, l} => x \in msgs'
      BY <1>4, <2>3
    <3> QED
      BY <1>3, <2>3, <3>1, <3>2, <3>3 DEF Justified
  <2> QED
    BY <1>9, <2>1, <2>2, <2>3
<1> QED
  BY <1>10, <1>11, <1>12, <1>13, <1>14 DEF IInv

LEMMA ReceiveInv ==
  ASSUME NEW x \in msgs
  PROVE  IInv /\ Receive(x) => IInv'
<1> SUFFICES ASSUME IInv, Receive(x) PROVE IInv'
  OBVIOUS
<1> DEFINE n == x.to
           k == x.from
           v == node[n].version
<1>1. TypeOK /\ Known /\ Honest /\ Blank /\ AssumedRight
  BY DEF IInv
<1>2. /\ n \in Node /\ k \in Node /\ x.version \in Version /\ x.version \in Nat
      /\ v \in Version /\ v \in Nat
  BY <1>1, Fields
<1>3. UNCHANGED <<registry, hellos, faults>>
  BY DEF Receive
<1>4. CASE peer[n][k].session = "none"
  <2>1. msgs' = msgs \ {x} /\ UNCHANGED <<node, peer>>
    BY <1>4 DEF Receive
  <2>2. TypeOK' /\ Known' /\ Honest' /\ Blank'
    BY <1>1, <1>3, <2>1 DEF TypeOK, Known, Honest, Blank
  <2>3. AssumedRight'
    <3> SUFFICES ASSUME NEW p \in Node, NEW q \in Node,
                        peer[p][q].version > node[q].version
                 PROVE  Justified(p, q)'
      BY <2>1 DEF AssumedRight, Justified
    <3>1. Justified(p, q)
      BY <1>1, Right
    <3>2. ~(p = n /\ q = k)
      <4>1. peer[n][k].version = 0 /\ node[k].version \in Version
        BY <1>1, <1>2, <1>4, Fields DEF Blank
      <4> QED
        BY <4>1 DEF Version
    <3>3. CASE p = k /\ q = n
      BY <1>4, <2>1, <3>3 DEF Justified
    <3>4. CASE ~(p = k /\ q = n)
      BY <1>3, <2>1, <3>1, <3>2, <3>4 DEF Justified
    <3> QED
      BY <3>3, <3>4
  <2> QED
    BY <2>2, <2>3 DEF IInv
<1>5. CASE peer[n][k].session # "none"
  <2> DEFINE w == IF x.version > v THEN x.version ELSE v
             a == [from |-> n, to |-> k, version |-> v]
  <2>1. /\ msgs' = (msgs \ {x}) \cup Answer(x)
        /\ node' = IF x.version > v
                   THEN [node EXCEPT ![n].version = x.version,
                                     ![n].planned = TRUE]
                   ELSE node
        /\ peer' = [peer EXCEPT ![n][k] = [version |-> node'[n].version,
                                           session |-> "connected"]]
    BY <1>5 DEF Receive
  <2>2. Answer(x) = IF x.version < v THEN {a} ELSE {}
    BY DEF Answer
  <2> HIDE DEF a, v, n, k
  <2>3. a \in Message /\ a.from = n /\ a.to = k /\ a.version = v
    BY <1>2 DEF Message, a
  <2>4. w \in Version /\ w \in Nat /\ w >= v /\ w >= x.version
    BY <1>2
  <2>5. /\ node'[n].version = w /\ node'[n] \in NodeState
        /\ node'[n].cached = node[n].cached
        /\ \A q \in Node \ {n} : node'[q] = node[q]
        /\ \A q \in Node : node'[q].version >= node[q].version
    <3>1. node \in [Node -> NodeState] /\ node[n].version = v
      BY <1>1 DEF TypeOK, v, n
    <3>2. \A q \in Node : node[q].version \in Nat
      BY <1>1, Fields
    <3>3. CASE x.version > v
      <4>1. node' = [node EXCEPT ![n].version = x.version, ![n].planned = TRUE]
        BY <2>1, <3>3
      <4>2. w = x.version /\ x.version > v
        BY <3>3
      <4>3. n \in Node /\ node[n] \in NodeState
        BY <1>1, <1>2, Fields DEF n
      <4> HIDE DEF w
      <4>4. /\ node'[n] = [node[n] EXCEPT !.version = x.version,
                                         !.planned = TRUE]
            /\ \A q \in Node \ {n} : node'[q] = node[q]
        BY <3>1, <4>1, <4>3
      <4>5. /\ node'[n] \in NodeState /\ node'[n].version = x.version
            /\ node'[n].cached = node[n].cached
        BY <1>2, <4>3, <4>4 DEF NodeState
      <4>6. \A q \in Node : node'[q].version >= node[q].version
        <5> SUFFICES ASSUME NEW q \in Node
                     PROVE  node'[q].version >= node[q].version
          OBVIOUS
        <5>1. node[q].version \in Nat /\ x.version \in Nat /\ v \in Nat
          BY <1>2, <3>2
        <5>2. CASE q = n
          BY <3>1, <4>2, <4>5, <5>1, <5>2
        <5>3. CASE q # n
          BY <4>4, <5>1, <5>3
        <5> QED
          BY <5>2, <5>3
      <4> QED
        BY <4>2, <4>4, <4>5, <4>6
    <3>4. CASE ~(x.version > v)
      BY <1>2, <2>1, <2>4, <3>1, <3>2, <3>4
    <3> QED
      BY <3>3, <3>4
  <2>6. /\ peer'[n][k] = [version |-> w, session |-> "connected"]
        /\ \A p, q \in Node : ~(p = n /\ q = k) => peer'[p][q] = peer[p][q]
    BY <1>1, <1>2, <2>1, <2>5 DEF TypeOK
  <2>7. /\ peer'[n][k] \in PeerState /\ peer'[n][k].version = w
        /\ peer'[n][k].session = "connected"
    BY <2>4, <2>6 DEF PeerState, Version
  <2> HIDE DEF w
  <2>8. TypeOK'
    <3>1. node' \in [Node -> NodeState]
      BY <1>1, <1>2, <2>1, <2>5 DEF TypeOK
    <3>2. peer' \in [Node -> [Node -> PeerState]]
      <4>1. /\ peer' = [p \in Node |-> peer'[p]]
            /\ \A p \in Node : peer'[p] = [q \in Node |-> peer'[p][q]]
        BY <1>1, <2>1 DEF TypeOK
      <4>2. \A p, q \in Node : peer'[p][q] \in PeerState
        BY <1>1, <2>6, <2>7, Fields
      <4> QED
        BY <4>1, <4>2
    <3> QED
      BY <1>1, <1>3, <2>1, <2>2, <2>3, <3>1, <3>2 DEF TypeOK
  <2>9. Known'
    <3>1. v <= registry /\ x.version <= registry /\ w <= registry
      BY <1>1, <1>2 DEF Known, w, v, n
    <3>2. \A q \in Node : node'[q].version <= registry /\ node'[q].cached <= registry
      BY <1>1, <1>2, <2>5, <3>1 DEF Known
    <3>3. \A y \in msgs' : y.version <= registry
      BY <1>1, <2>1, <2>2, <2>3, <3>1 DEF Known
    <3> QED
      BY <1>3, <3>2, <3>3 DEF Known
  <2>10. Honest'
    <3> SUFFICES ASSUME NEW y \in msgs'
                 PROVE  \/ y.version <= node'[y.from].version
                        \/ peer'[y.from][y.to].session = "none"
      BY DEF Honest
    <3>1. CASE y = a
      BY <2>3, <2>4, <2>5, <3>1
    <3>2. CASE y # a
      <4>1. /\ y \in msgs /\ y.from \in Node /\ y.to \in Node
            /\ y.version \in Nat /\ node[y.from].version \in Nat
        BY <1>1, <2>1, <2>2, <3>2, Fields
      <4>2. node'[y.from].version >= node[y.from].version
            /\ node'[y.from].version \in Nat
        BY <2>4, <2>5, <4>1
      <4>3. CASE y.version <= node[y.from].version
        BY <4>1, <4>2, <4>3
      <4>4. CASE y.version > node[y.from].version
        <5>1. peer[y.from][y.to].session = "none"
          BY <1>1, <4>1, <4>4 DEF Honest
        <5>2. ~(y.from = n /\ y.to = k)
          BY <1>5, <5>1
        <5> QED
          BY <2>6, <4>1, <5>1, <5>2
      <4> QED
        BY <4>1, <4>3, <4>4
    <3> QED
      BY <3>1, <3>2
  <2>11. Blank'
    BY <1>1, <2>6, <2>7 DEF Blank
  <2>12. AssumedRight'
    <3> SUFFICES ASSUME NEW p \in Node, NEW q \in Node,
                        peer'[p][q].version > node'[q].version
                 PROVE  Justified(p, q)'
      BY DEF AssumedRight, Justified
    <3>1. CASE p = n /\ q = k
      <4>1. n # k /\ w > node[k].version
        BY <1>2, <2>4, <2>5, <2>7, <3>1
      <4>2. CASE x.version < v
        <5>1. a \in msgs' /\ a.version >= w
          BY <1>2, <2>1, <2>2, <2>3, <4>2 DEF w
        <5> QED
          BY <2>3, <2>7, <3>1, <5>1 DEF Justified
      <4>3. CASE x.version >= v
        <5>1. w = x.version /\ node[k].version \in Nat
          <6>1. node[k].version \in Nat
            BY <1>1, <1>2, Fields
          <6>2. x.version \in Nat /\ v \in Nat
            BY <1>2
          <6>3. w = x.version
            BY <4>3, <6>2 DEF w
          <6> QED
            BY <6>1, <6>3
        <5>2. peer[k][n].session = "none"
          <6>1. ~(x.version <= node[k].version)
            BY <1>2, <4>1, <5>1
          <6> QED
            BY <1>1, <6>1 DEF Honest, k, n
        <5>3. peer'[k][n] = peer[k][n]
          BY <1>2, <2>6, <4>1
        <5> QED
          BY <3>1, <5>2, <5>3 DEF Justified
      <4> QED
        BY <1>2, <4>2, <4>3
    <3>2. CASE ~(p = n /\ q = k)
      <4>1. /\ peer'[p][q] = peer[p][q]
            /\ peer[p][q].version \in Nat /\ node[q].version \in Nat
            /\ node'[q].version \in Nat
        BY <1>1, <2>4, <2>5, <2>6, <3>2, Fields
      <4>2. peer[p][q].version > node[q].version
        BY <2>5, <4>1
      <4>3. Justified(p, q)
        BY <1>1, <4>2, Right
      <4>4. x.from = k /\ x.to = n /\ \A y \in msgs : y # x => y \in msgs'
        BY <2>1 DEF n, k
      <4>5. peer'[q][p].session = "none" <=> peer[q][p].session = "none"
        BY <1>2, <1>5, <2>6, <2>7
      <4>6. CASE \E y \in msgs : /\ y.from = p /\ y.to = q
                                 /\ y.version >= peer[p][q].version
        <5>1. PICK y \in msgs : /\ y.from = p /\ y.to = q
                               /\ y.version >= peer[p][q].version
          BY <4>6
        <5>2. y # x
          <6>1. y.version \in Nat
            BY <1>1, Fields
          <6>2. CASE q = n
            BY <1>2, <2>4, <2>5, <4>1, <5>1, <6>1, <6>2
          <6>3. CASE q # n
            BY <4>4, <5>1, <6>3
          <6> QED
            BY <6>2, <6>3
        <5> QED
          BY <4>1, <4>4, <5>1, <5>2 DEF Justified
      <4>7. CASE \E y \in msgs : y.from = q /\ y.to = p
        <5>1. PICK y \in msgs : y.from = q /\ y.to = p
          BY <4>7
        <5>2. y # x
          BY <3>2, <4>4, <5>1
        <5> QED
          BY <4>4, <5>1, <5>2 DEF Justified
      <4> QED
        BY <1>3, <4>3, <4>5, <4>6, <4>7 DEF Justified
    <3> QED
      BY <3>1, <3>2
  <2> QED
    BY <2>8, <2>9, <2>10, <2>11, <2>12 DEF IInv
<1> QED
  BY <1>4, <1>5

LEMMA CallRootInv ==
  ASSUME NEW n \in Node
  PROVE  IInv /\ CallRoot(n) => IInv'
<1> SUFFICES ASSUME IInv, CallRoot(n) PROVE IInv'
  OBVIOUS
<1>1. TypeOK /\ Known /\ Honest /\ Blank /\ AssumedRight
  BY DEF IInv
<1>2. UNCHANGED <<registry, node, peer, msgs, faults>>
      /\ hellos' \subseteq Node \X Node
  BY <1>1, Names DEF CallRoot, TypeOK
<1> QED
  BY <1>1, <1>2 DEF IInv, TypeOK, Known, Honest, Blank, AssumedRight

LEMMA UnansweredInv ==
  ASSUME NEW n \in Node, NEW m \in Node
  PROVE  IInv /\ Unanswered(n, m) => IInv'
<1> SUFFICES ASSUME IInv, Unanswered(n, m) PROVE IInv'
  OBVIOUS
<1>1. TypeOK /\ Known /\ Honest /\ Blank /\ AssumedRight
  BY DEF IInv
<1>2. /\ peer[n][m].session = "connected"
      /\ peer' = [peer EXCEPT ![n][m].session = "keyed"]
      /\ UNCHANGED <<registry, node, hellos, msgs, faults>>
  BY DEF Unanswered
<1>3. /\ peer'[n][m] = [peer[n][m] EXCEPT !.session = "keyed"]
      /\ \A k, l \in Node : ~(k = n /\ l = m) => peer'[k][l] = peer[k][l]
  BY <1>1, <1>2 DEF TypeOK
<1>4. /\ peer'[n][m] \in PeerState /\ peer'[n][m].session = "keyed"
      /\ peer'[n][m].version = peer[n][m].version
  <2>1. peer[n][m] \in PeerState
    BY <1>1, Fields
  <2> QED
    BY <1>3, <2>1 DEF PeerState
<1>5. \A k, l \in Node :
        /\ peer'[k][l] \in PeerState
        /\ peer'[k][l].version = peer[k][l].version
        /\ peer'[k][l].session = "none" <=> peer[k][l].session = "none"
  BY <1>1, <1>2, <1>3, <1>4, Fields
<1>6. TypeOK'
  <2>1. /\ peer' = [k \in Node |-> peer'[k]]
        /\ \A k \in Node : peer'[k] = [l \in Node |-> peer'[k][l]]
    BY <1>1, <1>2 DEF TypeOK
  <2>2. peer' \in [Node -> [Node -> PeerState]]
    BY <1>5, <2>1
  <2> QED
    BY <1>1, <1>2, <2>2 DEF TypeOK
<1>7. Known' /\ Blank'
  BY <1>1, <1>2, <1>5 DEF Known, Blank
<1>8. Honest'
  BY <1>1, <1>2, <1>5, Fields DEF Honest
<1>9. AssumedRight'
  BY <1>1, <1>2, <1>5 DEF AssumedRight
<1> QED
  BY <1>6, <1>7, <1>8, <1>9 DEF IInv

\* A node that restarts may be behind what its peers assume, but it has no
\* session with them any more; and it assumes nothing of them.
LEMMA RestartInv ==
  ASSUME NEW n \in Node
  PROVE  IInv /\ Restart(n) => IInv'
<1> SUFFICES ASSUME IInv, Restart(n) PROVE IInv'
  OBVIOUS
<1> DEFINE u == IF n = Root THEN registry ELSE node[n].cached
<1>1. TypeOK /\ Known /\ Honest /\ Blank /\ AssumedRight
  BY DEF IInv
<1>2. /\ node' = [node EXCEPT ![n] = Started(u)]
      /\ peer' = [peer EXCEPT ![n] = [m \in Node |-> NewPeer]]
      /\ faults' = faults \cup {<<n, n>>}
      /\ UNCHANGED <<registry, hellos, msgs>>
  BY DEF Restart
<1>3. u \in Version /\ u <= registry
  BY <1>1, Fields DEF Known
<1> HIDE DEF u
<1>4. /\ node'[n] = Started(u) /\ \A m \in Node \ {n} : node'[m] = node[m]
      /\ \A m \in Node : peer'[n][m] = NewPeer
      /\ \A k \in Node \ {n} : peer'[k] = peer[k]
  BY <1>1, <1>2 DEF TypeOK
<1>5. Started(u) \in NodeState /\ Started(u).version = u /\ Started(u).cached = u
  BY <1>3 DEF Started, NodeState
<1>6. NewPeer \in PeerState /\ NewPeer.version = 0 /\ NewPeer.session = "none"
  BY Bounds DEF NewPeer, PeerState
<1>7. TypeOK'
  <2>1. node' \in [Node -> NodeState]
    BY <1>1, <1>2, <1>5 DEF TypeOK
  <2>2. peer' \in [Node -> [Node -> PeerState]]
    BY <1>1, <1>2, <1>6 DEF TypeOK
  <2> QED
    BY <1>1, <1>2, <2>1, <2>2 DEF TypeOK
<1>8. Known'
  BY <1>1, <1>2, <1>3, <1>4, <1>5 DEF Known
<1>9. Honest'
  BY <1>1, <1>2, <1>4, <1>6, Fields DEF Honest
<1>10. Blank'
  BY <1>1, <1>4, <1>6 DEF Blank
<1>11. AssumedRight'
  <2> SUFFICES ASSUME NEW p \in Node, NEW q \in Node,
                      peer'[p][q].version > node'[q].version
               PROVE  Justified(p, q)'
    BY DEF AssumedRight, Justified
  <2>1. p # n
    <3>1. node'[q].version \in Version
      BY <1>7 DEF TypeOK, NodeState
    <3> QED
      BY <1>4, <1>6, <3>1 DEF Version
  <2>2. CASE q = n
    BY <1>4, <1>6, <2>2 DEF Justified
  <2>3. CASE q # n
    <3>1. Justified(p, q)
      BY <1>1, <1>4, <2>1, <2>3, Right
    <3> QED
      BY <1>2, <1>4, <2>1, <2>3, <3>1 DEF Justified
  <2> QED
    BY <2>2, <2>3
<1> QED
  BY <1>7, <1>8, <1>9, <1>10, <1>11 DEF IInv

LEMMA LoseInv ==
  ASSUME NEW n \in Node, NEW m \in Node
  PROVE  IInv /\ Lose(n, m) => IInv'
<1> SUFFICES ASSUME IInv, Lose(n, m) PROVE IInv'
  OBVIOUS
<1>1. TypeOK /\ Known /\ Honest /\ Blank /\ AssumedRight
  BY DEF IInv
<1>2. /\ msgs' \subseteq msgs /\ hellos' \subseteq hellos
      /\ \A x \in msgs : x \in msgs' \/ (x.from = n /\ x.to = m)
      /\ faults' = faults \cup {<<n, m>>}
      /\ UNCHANGED <<registry, node, peer>>
  BY DEF Lose
<1>3. TypeOK' /\ Known' /\ Honest' /\ Blank'
  BY <1>1, <1>2 DEF TypeOK, Known, Honest, Blank
<1>4. AssumedRight'
  <2> SUFFICES ASSUME NEW p \in Node, NEW q \in Node,
                      peer[p][q].version > node[q].version
               PROVE  Justified(p, q)'
    BY <1>2 DEF AssumedRight, Justified
  <2>1. Justified(p, q)
    BY <1>1, Right
  <2>2. CASE <<p, q>> = <<n, m>> \/ <<q, p>> = <<n, m>>
    BY <1>2, <2>2 DEF Justified
  <2>3. CASE ~(p = n /\ q = m) /\ ~(q = n /\ p = m)
    BY <1>2, <2>1, <2>3 DEF Justified
  <2> QED
    BY <2>2, <2>3
<1> QED
  BY <1>3, <1>4 DEF IInv

-----------------------------------------------------------------------------
LEMMA Inductive == IInv /\ [Next]_vars => IInv'
<1> SUFFICES ASSUME IInv, [Next]_vars PROVE IInv'
  OBVIOUS
<1>1. CASE Increase
  BY <1>1, IncreaseInv
<1>2. ASSUME NEW n \in Node, NewVersion(n) \/ CallRoot(n) \/ Restart(n)
      PROVE  IInv'
  BY <1>2, NewVersionInv, CallRootInv, RestartInv
<1>3. ASSUME NEW n \in Node, NEW m \in Node,
             Hello(n, m) \/ Unanswered(n, m) \/ Lose(n, m)
      PROVE  IInv'
  BY <1>3, HelloInv, UnansweredInv, LoseInv
<1>4. ASSUME NEW x \in msgs, Receive(x)
      PROVE  IInv'
  BY <1>4, ReceiveInv
<1>5. CASE UNCHANGED vars
  BY <1>5 DEF vars, IInv, TypeOK, Known, Honest, Blank, AssumedRight
<1> QED
  BY <1>1, <1>2, <1>3, <1>4, <1>5 DEF Next

\* Whatever nodes there are and whichever restart, a node that assumes that a
\* peer has a version is right, or one of both is about to be told, or the peer
\* has no session with it, or a datagram between them was lost (newVersion and
\* _processPacket, which set peer.version).
THEOREM GossipIsRight == Spec => []SafeGossip
<1>1. Init => IInv
  BY InitInv
<1>2. IInv /\ [Next]_vars => IInv'
  BY Inductive
<1>3. IInv => SafeGossip
  BY DEF IInv, SafeGossip
<1> QED
  BY <1>1, <1>2, <1>3, PTL DEF Spec
=============================================================================
