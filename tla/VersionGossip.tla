--------------------------- MODULE VersionGossip ---------------------------
(***************************************************************************)
(* How a new version of the network parameters comes to every node.        *)
(*                                                                         *)
(* The registry tells its own node (Root).  A node that hears of a version *)
(* gets the parameters from the registry, then tells its neighbours in     *)
(* Babel.  Nodes also compare versions each time they open a session.  A   *)
(* node remembers which version each peer has, to tell it only once, and   *)
(* sets it when the datagram is sent: there is no acknowledgment.          *)
(*                                                                         *)
(* A session is what PeerSession shows it to be: at most one, whose key    *)
(* both ends have.  A datagram of an older session is not understood.      *)
(***************************************************************************)
EXTENDS Naturals, FiniteSets

CONSTANTS
  Node,
  Root,          \* the node of the registry
  Neighbour,     \* symmetric: pairs of nodes that are neighbours in Babel
  MaxVersion,    \* bound: versions of the parameters
  MaxFaults      \* bound: directions that lose datagrams, and nodes that restart

ASSUME Names == Root \in Node /\ Neighbour \subseteq Node \X Node
ASSUME Bounds == MaxVersion \in Nat \ {0} /\ MaxFaults \in Nat

VARIABLES
  registry,  \* the version of the registry
  node,      \* the nodes
  peer,      \* peer[n][m]: the Peer of m in n
  hellos,    \* <<n, m>>: n sent a hello0 to m
  msgs,      \* messages with a version
  faults     \* ghost: <<n, m>> if a datagram from n to m was lost, <<n, n>> if
             \* n restarted

vars == <<registry, node, peer, hellos, msgs, faults>>

Version == 1 .. MaxVersion

\* version: _version.  cached: in cache.  planned: newVersion will be called.
NodeState == [version : Version, cached : Version, planned : BOOLEAN]

\* version: the one that m is assumed to have, 0 for b''.  session: "keyed" if
\* it has the key and did not hear from m yet.
PeerState == [version : 0 .. MaxVersion,
              session : {"none", "keyed", "connected"}]

Message == [from : Node, to : Node, version : Version]

NewPeer == [version |-> 0, session |-> "none"]

Started(v) == [version |-> v, cached |-> v, planned |-> FALSE]

-----------------------------------------------------------------------------
Init ==
  /\ registry = 1
  /\ node = [n \in Node |-> Started(1)]
  /\ peer = [n \in Node |-> [m \in Node |-> NewPeer]]
  /\ hellos = {} /\ msgs = {} /\ faults = {}

\* increaseVersion, and message 0 to Root over the loopback interface.
Increase ==
  /\ registry < MaxVersion
  /\ registry' = registry + 1
  /\ node' = [node EXCEPT ![Root].planned = TRUE]
  /\ UNCHANGED <<peer, hellos, msgs, faults>>

\* _babel_dump_new_version, at n that has the version v: the neighbours that
\* are behind, to tell now or to open a session with.
Behind(n, v) ==
  {m \in Node : <<n, m>> \in Neighbour /\ peer[n][m].version < v}

Told_Assume(n, v) == Behind(n, v)
Told(n, v) == {m \in Behind(n, v) : peer[n][m].session = "connected"}

\* newVersion and updateConfig, which always find a change: nothing is planned
\* for a version that is in cache.  If they fail, they are planned again.
NewVersion(n) ==
  /\ node[n].planned
  /\ node' = [node EXCEPT ![n] = Started(registry)]
  /\ peer' = [peer EXCEPT ![n] = [m \in Node |->
       IF m \in Told(n, registry) THEN [@[m] EXCEPT !.version = registry]
       ELSE @[m]]]
  /\ msgs' = msgs \cup
       {[from |-> n, to |-> m, version |-> registry] :
          m \in {x \in Told(n, registry) : peer[n][x].session = "connected"}}
  /\ hellos' = hellos \cup
       {<<n, m>> : m \in {x \in Behind(n, registry) :
                            peer[n][x].session # "connected"}}
  /\ UNCHANGED <<registry, faults>>

\* A hello0 of n leads to a session: one of them, a, receives the hello of the
\* other and sends its version.
Opened_Silent(a, b) == {}
Opened(a, b) == {[from |-> a, to |-> b, version |-> node[a].version]}

Hello(n, m) ==
  /\ <<n, m>> \in hellos
  /\ hellos' = hellos \ {<<n, m>>}
  /\ \E a \in {n, m} : LET b == IF a = n THEN m ELSE n IN
       /\ peer' = [peer EXCEPT
            ![a][b] = [version |-> node[a].version, session |-> "connected"],
            ![b][a].session = "keyed"]
       /\ msgs' = {x \in msgs : {x.from, x.to} # {n, m}} \cup Opened(a, b)
  /\ UNCHANGED <<registry, node, faults>>

\* _processPacket, message 0.  The sender of an older version is answered.
Answer(x) ==
  IF x.version < node[x.to].version
  THEN {[from |-> x.to, to |-> x.from, version |-> node[x.to].version]} ELSE {}

Receive(x) ==
  LET n == x.to
      newer == x.version > node[n].version
  IN
  /\ IF peer[n][x.from].session = "none"
     THEN msgs' = msgs \ {x} /\ UNCHANGED <<node, peer>>
     ELSE /\ msgs' = (msgs \ {x}) \cup Answer(x)
          /\ node' = IF newer
                     THEN [node EXCEPT ![n].version = x.version,
                                       ![n].planned = TRUE]
                     ELSE node
          /\ peer' = [peer EXCEPT ![n][x.from] =
                        [version |-> node'[n].version,
                         session |-> "connected"]]
  /\ UNCHANGED <<registry, hellos, faults>>

\* After a dump, a node gets ready to receive messages of the registry.  A hello0
\* is not sent again for a minute, and datagrams are faster than that.
CallRoot(n) ==
  /\ n # Root /\ peer[n][Root].session # "connected"
  /\ \A x \in msgs : {x.from, x.to} # {n, Root}
  /\ hellos' = hellos \cup {<<n, Root>>}
  /\ UNCHANGED <<registry, node, peer, msgs, faults>>

\* n sends anything else, as an address request, and m does not understand it:
\* n is not connected any more when there is no answer after a minute.
Unanswered(n, m) ==
  /\ peer[n][m].session = "connected" /\ peer[m][n].session = "none"
  /\ peer' = [peer EXCEPT ![n][m].session = "keyed"]
  /\ UNCHANGED <<registry, node, hellos, msgs, faults>>

\* A node restarts with what is in cache; Root asks the registry first.
Restart(n) ==
  /\ node' = [node EXCEPT ![n] = Started(IF n = Root THEN registry
                                         ELSE node[n].cached)]
  /\ peer' = [peer EXCEPT ![n] = [m \in Node |-> NewPeer]]
  /\ faults' = faults \cup {<<n, n>>}
  /\ Cardinality(faults') <= MaxFaults
  /\ UNCHANGED <<registry, hellos, msgs>>

Lose(n, m) ==
  /\ \/ \E x \in msgs : /\ x.from = n /\ x.to = m
                        /\ msgs' = msgs \ {x} /\ UNCHANGED hellos
     \/ /\ <<n, m>> \in hellos
        /\ hellos' = hellos \ {<<n, m>>} /\ UNCHANGED msgs
  /\ faults' = faults \cup {<<n, m>>}
  /\ Cardinality(faults') <= MaxFaults
  /\ UNCHANGED <<registry, node, peer>>

Next ==
  \/ Increase
  \/ \E n \in Node : NewVersion(n) \/ CallRoot(n) \/ Restart(n)
  \/ \E n, m \in Node : Hello(n, m) \/ Unanswered(n, m) \/ Lose(n, m)
  \/ \E x \in msgs : Receive(x)

Spec == Init /\ [][Next]_vars

\* Timers expire, datagrams that are not lost come, and nodes go on sending
\* other messages to Root.
FairSpec ==
  /\ Spec
  /\ \A n \in Node : /\ WF_vars(NewVersion(n)) /\ WF_vars(CallRoot(n))
                     /\ WF_vars(Unanswered(n, Root))
  /\ \A n, m \in Node :
       /\ WF_vars(Hello(n, m))
       /\ WF_vars(\E x \in msgs : x.from = n /\ x.to = m /\ Receive(x))

-----------------------------------------------------------------------------
TypeOK ==
  /\ registry \in Version
  /\ node \in [Node -> NodeState]
  /\ peer \in [Node -> [Node -> PeerState]]
  /\ hellos \subseteq Node \X Node
  /\ msgs \subseteq Message
  /\ faults \subseteq Node \X Node

\* A peer that is assumed to have a version has it, will have it or will be
\* told again: nothing but a lost datagram makes a node wrong about a peer that
\* it has a session with.
AssumedRight ==
  \A n, m \in Node :
    peer[n][m].version > node[m].version
      => \/ \E x \in msgs : /\ x.from = n /\ x.to = m
                            /\ x.version >= peer[n][m].version
         \/ \E x \in msgs : x.from = m /\ x.to = n
         \/ peer[m][n].session = "none"
         \/ {<<n, m>>, <<m, n>>} \cap faults # {}

\* What nodes assume of their peers is right, in states of the right types.
SafeGossip == TypeOK /\ AssumedRight

\* When no datagram is lost and no node restarts, every node ends with the last
\* version and all is said.  A restart breaks it: the node comes back with the
\* version from its cache, without having told its neighbours.
Converges ==
  [](faults = {})
    => <>[](msgs = {} /\ \A n \in Node : node[n].cached = registry)
=============================================================================
