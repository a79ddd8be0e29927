-------------------------- MODULE RegistryQueries --------------------------
(***************************************************************************)
(* What the registry asks to nodes for getBootstrapPeer, versions and      *)
(* topology: threads that share a socket, on which the answers to a query  *)
(* that timed out come during the next ones.                               *)
(*                                                                         *)
(* A question and its answer are one message here, [node, code], which may *)
(* be lost or late.  A dump gives the nodes that Babel knows.              *)
(***************************************************************************)
EXTENDS Naturals, FiniteSets, SequencesExt

CONSTANTS
  Thread, Nobody,
  Node,
  Root,        \* the node of the registry
  Tunnel,      \* <<n, m>>: n is a client of m
  MaxCall,     \* bound: requests
  MaxNet       \* bound: messages of a kind on their way, others are lost

ASSUME Names ==
  /\ Root \in Node /\ Nobody \notin Thread /\ IsFiniteSet(Node)
  /\ Tunnel \subseteq Node \X Node

ASSUME QueryBounds == MaxCall \in Nat /\ MaxNet \in Nat

VARIABLES
  thread,      \* thread[t]: request, next step, peer asked
  calls,       \* number of requests
  peers,       \* self.peers, without its age
  peers_lock, lock,
  net,         \* net[n][code]: messages on their way
  sock,        \* messages to receive
  work,        \* local variables of the request that holds the lock
  lost,        \* ghost: nodes whose answer was lost since the lock was taken
  result       \* ghost: what the last request found

locks == <<peers_lock, lock>>
queryVars == <<thread, calls, peers, locks, net, sock, work, lost, result>>

Queries == {"getBootstrapPeer", "versions", "topology"}
Code == [getBootstrapPeer |-> 1, versions |-> 4, topology |-> 5]
Codes == {1, 4, 5}
Message == [node : Node, code : Codes]

\* todo: peers to ask.  keys and edges: graph.  done: who answered.
Work == [todo : Seq(Node), keys : SUBSET Node, edges : SUBSET (Node \X Node),
         done : SUBSET Node, none : SUBSET Node]
NoWork == [todo |-> <<>>, keys |-> {}, edges |-> {}, done |-> {}, none |-> {}]

NoThread == [request |-> "versions", step |-> "idle", peer |-> Root]
NoResult == [request |-> "none", work |-> NoWork, lost |-> {}, peer |-> Root,
             from |-> Root]

\* The servers that n is connected to, and the clients it serves.
Servers(n) == {m \in Node : <<n, m>> \in Tunnel}
Served(n) == {m \in Node : <<m, n>> \in Tunnel}

\* Prefixes in a dump.  A route whose destination has no prefix is left out.
Known == Node

Goto(t, s) == thread' = [thread EXCEPT ![t].step = s]

-----------------------------------------------------------------------------
QueryInit ==
  /\ thread = [t \in Thread |-> NoThread] /\ calls = 0
  /\ peers = {} /\ peers_lock = Nobody /\ lock = Nobody
  /\ net = [n \in Node |-> [code \in Codes |-> 0]]
  /\ sock = <<>> /\ work = NoWork /\ lost = {} /\ result = NoResult

Call(t, r) ==
  /\ thread[t].step = "idle" /\ calls < MaxCall
  /\ calls' = calls + 1
  /\ thread' = [thread EXCEPT ![t] = [request |-> r, peer |-> Root,
       step |-> IF r = "topology" THEN "lock" ELSE "peers"]]
  /\ UNCHANGED <<peers, locks, net, sock, work, lost, result>>

LockPeers(t) ==
  /\ thread[t].step = "peers" /\ peers_lock = Nobody
  /\ peers_lock' = t /\ Goto(t, "dump")
  /\ UNCHANGED <<calls, peers, lock, net, sock, work, lost, result>>

\* getBootstrapPeer takes a peer from a list, which it makes again when it is
\* empty or a minute old.
Dump(t) ==
  /\ thread[t].step = "dump"
  /\ IF thread[t].request = "versions"
     THEN Goto(t, "lock") /\ UNCHANGED peers
     ELSE \E list \in ({peers} \ {{}}) \cup {{Root} \cup s : s \in SUBSET Known} :
            \E p \in list :
              /\ peers' = list \ {p}
              /\ thread' = [thread EXCEPT ![t].step = "lock", ![t].peer = p]
  /\ peers_lock' = Nobody
  /\ UNCHANGED <<calls, lock, net, sock, work, lost, result>>

\* sendto.  A message that is one too many is lost.
SendTo(n, code) ==
  IF net[n][code] = MaxNet
  THEN lost' = lost \cup {n} /\ UNCHANGED net
  ELSE net' = [net EXCEPT ![n][code] = @ + 1] /\ UNCHANGED lost

TakeLock_Shared(t) == lock' = t
TakeLock(t) == lock = Nobody /\ lock' = t

Lock(t) ==
  /\ thread[t].step = "lock" /\ TakeLock(t)
  /\ Goto(t, "run")
  /\ LET r == thread[t].request IN
     IF r = "getBootstrapPeer"
     THEN /\ work' = NoWork
          /\ net' = [net EXCEPT ![thread[t].peer][1] =
                       IF @ = MaxNet THEN @ ELSE @ + 1]
     ELSE /\ UNCHANGED net
          /\ IF r = "topology" THEN work' = [NoWork EXCEPT !.todo = <<Root>>]
             ELSE \E s \in SUBSET Known :
                    work' = [NoWork EXCEPT !.todo = SetToSeq(s \cup {Root})]
  /\ lost' = {}
  /\ UNCHANGED <<calls, peers, peers_lock, sock, result>>

\* The end of a request.
Return_KeepLock(t, from) ==
  /\ thread' = [thread EXCEPT ![t] = NoThread]
  /\ UNCHANGED lock
  /\ work' = NoWork
  /\ result' = [request |-> thread[t].request, work |-> work, lost |-> lost,
                peer |-> thread[t].peer, from |-> from]
Return(t, from) ==
  /\ thread' = [thread EXCEPT ![t] = NoThread]
  /\ lock' = Nobody
  /\ work' = NoWork
  /\ result' = [request |-> thread[t].request, work |-> work, lost |-> lost,
                peer |-> thread[t].peer, from |-> from]

Matches_Code(t, m) == m.code = 1
Matches(t, m) == m.code = 1 /\ m.node = thread[t].peer

\* topology: an answer of n names its servers and its clients.
Explore_Servers(n) ==
  [work EXCEPT
     !.todo = @ \o SetToSeq(Servers(n) \ (work.keys \cup {n})),
     !.keys = @ \cup {n} \cup Served(n),
     !.edges = @ \cup {<<n, m>> : m \in Servers(n)}
                 \cup {<<m, n>> : m \in Served(n)},
     !.done = @ \cup {n}]
Explore(n) ==
  [work EXCEPT
     !.todo = @ \o SetToSeq((Servers(n) \cup Served(n)) \ (work.keys \cup {n})),
     !.keys = @ \cup {n} \cup Served(n),
     !.edges = @ \cup {<<n, m>> : m \in Servers(n)}
                 \cup {<<m, n>> : m \in Served(n)},
     !.done = @ \cup {n}]

\* recv ignores the messages that have another code.
Receive(t) ==
  /\ thread[t].step = "run" /\ sock # <<>>
  /\ sock' = Tail(sock)
  /\ LET m == Head(sock)
         r == thread[t].request
     IN
     CASE r = "getBootstrapPeer" /\ Matches(t, m) -> Return(t, m.node)
       [] r = "versions" /\ m.code = 4 ->
            /\ work' = [work EXCEPT !.done = @ \cup {m.node},
                                    !.none = @ \ {m.node}]
            /\ UNCHANGED <<thread, lock, result>>
       [] r = "topology" /\ m.code = 5 ->
            work' = Explore(m.node) /\ UNCHANGED <<thread, lock, result>>
       [] OTHER -> UNCHANGED <<thread, lock, work, result>>
  /\ UNCHANGED <<calls, peers, peers_lock, net, lost>>

Ask(t) ==
  /\ thread[t].step = "run" /\ work.todo # <<>>
  /\ LET n == Head(work.todo)
         r == thread[t].request
     IN
     /\ SendTo(n, Code[r])
     /\ work' = [work EXCEPT !.todo = Tail(@),
                             !.done = IF r = "versions" THEN @ \ {n} ELSE @,
                             !.none = IF r = "versions" THEN @ \cup {n} ELSE @]
  /\ UNCHANGED <<thread, calls, peers, locks, sock, result>>

\* Three seconds without an answer, and nothing left to ask.
Timeout(t) ==
  /\ thread[t].step = "run" /\ sock = <<>> /\ work.todo = <<>>
  /\ Return(t, Nobody)
  /\ UNCHANGED <<calls, peers, peers_lock, net, sock, lost>>

Arrive(n, code) ==
  /\ net[n][code] > 0
  /\ net' = [net EXCEPT ![n][code] = @ - 1]
  /\ sock' = Append(sock, [node |-> n, code |-> code])
  /\ UNCHANGED <<thread, calls, peers, locks, work, lost, result>>

Lose(n, code) ==
  /\ net[n][code] > 0
  /\ net' = [net EXCEPT ![n][code] = @ - 1]
  /\ lost' = lost \cup {n}
  /\ UNCHANGED <<thread, calls, peers, locks, sock, work, result>>

Progress(t) ==
  LockPeers(t) \/ Dump(t) \/ Lock(t) \/ Receive(t) \/ Ask(t) \/ Timeout(t)

QueryNext ==
  \/ \E t \in Thread : Progress(t) \/ \E r \in Queries : Call(t, r)
  \/ \E n \in Node, code \in Codes : Arrive(n, code) \/ Lose(n, code)

QuerySpec == QueryInit /\ [][QueryNext]_queryVars

\* Threads go on; select returns after three seconds at most.
QueryFairSpec == QuerySpec /\ \A t \in Thread : WF_queryVars(Progress(t))

-----------------------------------------------------------------------------
QueryTypeOK ==
  /\ \A t \in Thread :
       /\ thread[t].request \in Queries /\ thread[t].peer \in Node
       /\ thread[t].step \in {"idle", "peers", "dump", "lock", "run"}
  /\ calls \in 0 .. MaxCall /\ peers \subseteq Node
  /\ {peers_lock, lock} \subseteq Thread \cup {Nobody}
  /\ net \in [Node -> [Codes -> 0 .. MaxNet]]
  /\ sock \in Seq(Message) /\ work \in Work
  /\ lost \subseteq Node

\* The address that is sent to a new node is the one of the peer that was asked,
\* though answers to other queries are received meanwhile.
RightAddress ==
  result.request = "getBootstrapPeer" => result.from \in {result.peer, Nobody}

\* An answer is about the peer that was asked, in states of the right types.
SafeQueries == QueryTypeOK /\ RightAddress

\* A node that is alive has no version in the answer only if its own answer was
\* lost or is late.
VersionsComplete ==
  [][result' # result /\ result'.request = "versions"
       => \A n \in result'.work.none :
            n \in result'.lost \/ net[n][4] > 0]_queryVars

\* Every node that is named by another one is in the graph with all its
\* tunnels, unless its answer was lost or is late.
TopologyComplete ==
  [][result' # result /\ result'.request = "topology"
       => LET w == result'.work IN
          \A e \in w.edges : \A n \in {e[1], e[2]} :
            \/ \A f \in Tunnel : n \in {f[1], f[2]} => f \in w.edges
            \/ n \in result'.lost \/ net[n][5] > 0]_queryVars

\* A request ends, even topology, which asks a node again when it is named
\* again before it answered.
CallsEnd == \A t \in Thread : thread[t].step # "idle" ~> thread[t].step = "idle"
=============================================================================
