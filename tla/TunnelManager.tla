--------------------------- MODULE TunnelManager ---------------------------
(***************************************************************************)
(* The tunnels of one re6st node: TunnelManager and Connection.            *)
(*                                                                         *)
(* A node keeps client_count OpenVPN clients to random peers (conn), each  *)
(* on a tap interface of a fixed pool, and is the server of other peers    *)
(* (served).  Every 5 s it removes dead clients and completes them, from   *)
(* what Babel knows of the network or, when there is no route to the       *)
(* registry, from a cache of addresses.  Every tunnel_refresh it destroys  *)
(* one, with a TunnelKiller: the tunnel is cut only once no traffic uses   *)
(* it and its other end agrees.  Of a killer, this module keeps what the   *)
(* tunnels depend on: "new" (state None), "locking" (softLocking or        *)
(* hardLocking), "locked" or "unlocking".                                  *)
(*                                                                         *)
(* The node is single-threaded: an action is a callback of its main loop.  *)
(* Babel, the OpenVPN processes, the peers and the registry do anything    *)
(* they may do between two callbacks.                                      *)
(***************************************************************************)
EXTENDS Naturals, FiniteSets

CONSTANTS
  Peer,          \* the prefixes of the other nodes
  Higher,        \* those that are greater than ours
  Persistent,    \* those of --neighbour
  Registry,      \* the prefix of the registry: a peer, or Self
  Self,
  ClientIface,   \* the taps of our OpenVPN clients: client_count of them
  ServerIface,   \* the taps of our OpenVPN servers
  NoIface,       \* what popping from an empty pool would give
  Alternate,     \* the peers that may have several addresses to try
  MaxAddr,       \* bound: addresses of a peer that can be tried
  MaxEvents      \* bound: notifications in the pipe of OpenVPN scripts

\* (A node without clients does not use this class.)
ASSUME Names == /\ IsFiniteSet(Peer)
                /\ IsFiniteSet(ClientIface) /\ ClientIface # {}
                /\ Higher \subseteq Peer /\ Persistent \subseteq Peer
                /\ Alternate \subseteq Peer
                /\ Registry \in Peer \cup {Self} /\ Self \notin Peer
                /\ NoIface \notin ClientIface
                /\ MaxAddr \in Nat \ {0} /\ MaxEvents \in Nat

ClientCount == Cardinality(ClientIface)

VARIABLES
  tm,        \* the attributes of the TunnelManager (see TMState)
  dumping    \* a dump was requested to babeld: no refresh until it comes

vars == <<tm, dumping>>

\* A Connection: its OpenVPN process, trying the retry-th of naddr addresses;
\* "none" when there is no connection.  up: _retry is None, i.e. the tunnel
\* was established.
ConnState == [iface : ClientIface \cup {NoIface}, naddr : 0 .. MaxAddr,
              retry : 0 .. MaxAddr, up : BOOLEAN,
              proc : {"none", "starting", "routed", "dead"}]

\* A TunnelKiller, or "absent".  client: we started it, else the peer did.
KillerState ==
  [state : {"absent", "new", "locking", "locked", "unlocking"},
   client : BOOLEAN]

\* A route-up notification in the pipe.  stale: it is older than the time of
\* the current connection.
Event == [peer : Peer, addr : 1 .. MaxAddr, stale : BOOLEAN]

TMState ==
  [conn : [Peer -> ConnState],             \* _connection_dict
   free : SUBSET (ClientIface \cup {NoIface}),  \* _free_iface_list, new_iface_list
   served : [Peer -> SUBSET ServerIface],  \* _served
   killing : [Peer -> KillerState],        \* _killing
   connecting : SUBSET Peer,               \* _connecting
   distant : SUBSET Peer,                  \* _distant_peers
   disconnected : {"no", "recent", "old"}, \* _disconnected: 0, future, past
   known : SUBSET Peer,                    \* cache: the peers with an address
   tried : SUBSET Peer,                    \* cache: those with try = 1
   events : SUBSET Event]                  \* _read_sock

NoConn == [iface |-> NoIface, naddr |-> 0, retry |-> 0, up |-> FALSE,
           proc |-> "none"]

NoKiller == [state |-> "absent", client |-> FALSE]

Clients(s) == {p \in Peer : s.conn[p].proc # "none"}
Served(s)  == {p \in Peer : s.served[p] # {}}
Killing(s) == {p \in Peer : s.killing[p].state # "absent"}
Room_Established(s) == ClientCount - Cardinality({p \in Peer : s.conn[p].up})
Room(s)    == ClientCount - Cardinality(Clients(s))
Usable(s)  == s.known \ s.tried

-----------------------------------------------------------------------------
(***************************************************************************)
(* Killers.                                                                *)
(***************************************************************************)

\* TunnelKiller.__init__: it starts at once if the dump shows the peer as a
\* direct neighbour.
NewKiller(neighbour, client) ==
  [state |-> IF neighbour THEN "locking" ELSE "new", client |-> client]

\* _abortTunnelKiller.
Aborted_KeepNew(k) ==
  IF k.state \in {"absent", "new"} THEN k ELSE [k EXCEPT !.state = "unlocking"]
Aborted(k) ==
  IF k.state \in {"absent", "new"} THEN NoKiller
  ELSE [k EXCEPT !.state = "unlocking"]

\* What a dump may make of a killer, that is removed when its time is over.
KillerSteps(k, neighbour) ==
  {NoKiller} \cup
  CASE k.state = "new" -> {NewKiller(neighbour, k.client)}
    [] k.state = "locking" -> {k, [k EXCEPT !.state = "locked"]}
    [] OTHER -> {k}

Killers(s, neigh) ==
  LET Steps(p) == KillerSteps(s.killing[p], p \in neigh) IN
  {k \in [Peer -> UNION {Steps(p) : p \in Peer}] :
     \A p \in Peer : k[p] \in Steps(p)}

(***************************************************************************)
(* Connections.                                                            *)
(***************************************************************************)

\* _kill, for a set of connections.
Kill(s, K) ==
  [s EXCEPT !.conn = [p \in Peer |-> IF p \in K THEN NoConn ELSE s.conn[p]],
            !.free = @ \cup {s.conn[p].iface : p \in K},
            !.killing = [p \in Peer |-> IF p \in K THEN Aborted(s.killing[p])
                                        ELSE s.killing[p]]]

\* Connection.open: what the previous processes reported is out of date.
Outdated_Never(s, O) == s.events
Outdated(s, O) ==
  {[e EXCEPT !.stale = e.stale \/ e.peer \in O] : e \in s.events}

\* _getFreeInterface, for a set of peers: different interfaces, while there
\* are some.
Allotments(M, F) ==
  {f \in [M -> F \cup {NoIface}] :
     /\ \A p, q \in M : p # q /\ f[p] = f[q] => f[p] = NoIface
     /\ (\E p \in M : f[p] = NoIface) => F \subseteq {f[p] : p \in M}}

Eligible_Served(s) == Peer \ Clients(s)
Eligible(s) == Peer \ (Clients(s) \cup Served(s))

\* Connection.__init__: how many addresses there are to try.
Addresses(M) ==
  {n \in [M -> 1 .. MaxAddr] : \A p \in M \ Alternate : n[p] = 1}

\* _makeTunnel, tried for all the peers of S: it succeeds for those of M, the
\* others having no usable address or a tunnel already.
WithTunnels(s, S, M, iface, naddr) ==
  [s EXCEPT !.conn = [p \in Peer |->
                        IF p \in M
                        THEN [iface |-> iface[p], naddr |-> naddr[p],
                              retry |-> 1, up |-> FALSE, proc |-> "starting"]
                        ELSE s.conn[p]],
            !.free = @ \ {iface[p] : p \in M},
            !.tried = @ \cup (S \cap Eligible(s)),
            !.events = Outdated(s, M)]

MakeTunnels(s, S, M) ==
  {WithTunnels(s, S, M, f, n) : f \in Allotments(M, s.free), n \in Addresses(M)}

\* cache.addPeer.
AddPeer(s, p) == [s EXCEPT !.known = @ \cup {p}, !.tried = @ \ {p}]

\* _cleanDeads: kill or, if there is another address, retry.
Dead(s) == {p \in Peer : s.conn[p].proc = "dead"}
DeadUp(s) == {p \in Dead(s) : s.conn[p].up}
Exhausted(s) == {p \in Dead(s) : s.conn[p].retry = s.conn[p].naddr}

CleanDeads(s) ==
  LET R == Dead(s) \ (DeadUp(s) \cup Exhausted(s))
      reopened == [p \in Peer |->
                     IF p \in R
                     THEN [s.conn[p] EXCEPT !.retry = @ + 1,
                                            !.proc = "starting"]
                     ELSE s.conn[p]]
  IN  Kill([s EXCEPT !.conn = reopened, !.events = Outdated(s, R)],
           DeadUp(s) \cup Exhausted(s))

(***************************************************************************)
(* _makeNewTunnels, in its three modes.  Each gives the set of the states  *)
(* it can lead to: peers are taken in random order.                        *)
(***************************************************************************)
AtMostTwo == IF ClientCount < 2 THEN ClientCount ELSE 2

\* Without a server that is reached, only two clients.
Wanted(s) ==
  IF Served(s) # {} THEN Room(s)
  ELSE IF AtMostTwo > Cardinality(Clients(s))
       THEN AtMostTwo - Cardinality(Clients(s)) ELSE 0

\* Normal operation: take distant peers until enough of them are connected or
\* asked for their address; only those with an address in cache can be made.
FromDistant(s) ==
  LET Choices ==
        {x \in [taken : SUBSET s.distant, made : SUBSET Eligible(s),
                asked : SUBSET (s.distant \ Usable(s))] :
           LET count == Cardinality(x.made) + Cardinality(x.asked) IN
           /\ x.made \subseteq x.taken \cap Usable(s)
           /\ x.asked \subseteq x.taken
           /\ count <= Wanted(s)
           /\ x.taken = s.distant \/ count = Wanted(s)
           /\ Wanted(s) = 0 => x.taken = {}}
  IN  UNION {MakeTunnels([s EXCEPT !.distant = @ \ x.taken,
                                   !.connecting = x.asked],
                         x.taken \cap Usable(s), x.made) : x \in Choices}

\* Last chance: an address that already failed.
FromTried(s) ==
  LET Choices ==
        {x \in [taken : SUBSET s.tried, made : SUBSET Eligible(s)] :
           /\ x.made \subseteq x.taken /\ Cardinality(x.made) <= 1
           /\ x.taken = s.tried \/ x.made # {}}
  IN  UNION {MakeTunnels(s, x.taken, x.made) : x \in Choices}

\* cache.getBootstrapPeer answers b.
Bootstrap(s, b) ==
  UNION {MakeTunnels(AddPeer(s, b), {b}, M) :
           M \in SUBSET ({b} \cap Eligible(s))}

\* When no peer of the cache is left, the registry is asked for one.
Bootstrapped(s, none) ==
  IF none /\ Registry # Self
  THEN {s} \cup UNION {Bootstrap(s, b) : b \in Peer} ELSE {s}

OrRetry(s, r) == IF Clients(r) # Clients(s) THEN {r} ELSE FromTried(r)

\* No route to the registry: take peers of the cache (C) that babel does not
\* know.
FromCache(s, peers) ==
  LET C == Usable(s) \ peers
      Choices ==
        {x \in [taken : SUBSET C, made : SUBSET Eligible(s)] :
           /\ x.made \subseteq x.taken /\ Cardinality(x.made) <= Room(s)
           /\ x.taken = C \/ Cardinality(x.made) = Room(s)}
  IN  UNION {IF x.made # {} \/ peers # {} THEN MakeTunnels(s, x.taken, x.made)
             ELSE UNION {UNION {OrRetry(t, r) : r \in Bootstrapped(t, C = {})} :
                           t \in MakeTunnels(s, x.taken, {})} :
               x \in Choices}

\* After a dump that shows the given peers, the others than neigh being far.
MakeNewTunnelsDumped(s, neigh, peers) ==
  LET s1 == [s EXCEPT !.connecting = {}, !.distant = peers \ neigh]
      s2 == [s1 EXCEPT !.disconnected = "recent"] IN
  IF Room(s) = 0 THEN {s}
  ELSE IF Registry = Self
       THEN IF peers \subseteq neigh THEN FromCache(s1, peers)
                                     ELSE FromDistant(s1)
  ELSE IF Registry \in peers \cup Clients(s) \cup Served(s)
       THEN FromDistant([s1 EXCEPT !.disconnected = "no"])
  ELSE IF s.disconnected = "recent" THEN FromDistant(s1)
  ELSE IF peers = {} THEN FromCache(s2, {})
  ELSE FromDistant(s2)        \* the registry gives no peer
       \cup (UNION {FromCache(AddPeer(s2, b), peers) : b \in peers})
       \cup (UNION {IF Room(r) = 0 THEN {r} ELSE FromCache(r, peers) :
                      r \in UNION {Bootstrap(s2, b) : b \in Peer \ peers}})

\* Between dumps.  more: a dump must be requested.
MakeNewTunnelsNoDump(s) ==
  LET s1 == [s EXCEPT !.connecting = {}] IN
  IF Room(s) = 0 THEN {[state |-> s, more |-> FALSE]}
  ELSE IF Cardinality(s.distant) < Room(s) \/ s.disconnected = "old"
       THEN {[state |-> s1, more |-> TRUE]}
  ELSE {[state |-> r, more |-> FALSE] : r \in FromDistant(s1)}

-----------------------------------------------------------------------------
\* A process that starts has the addresses that are on disk.
Started(known) ==
  [conn |-> [p \in Peer |-> NoConn], free |-> ClientIface,
   served |-> [p \in Peer |-> {}], killing |-> [p \in Peer |-> NoKiller],
   connecting |-> {}, distant |-> {}, disconnected |-> "no",
   known |-> known, tried |-> {}, events |-> {}]

Init ==
  /\ \E known \in SUBSET Peer : tm = Started(known)
  /\ dumping = FALSE

\* refresh, every 5 s.  due: _next_tunnel_refresh is over.
Refresh ==
  /\ ~dumping
  /\ LET s == CleanDeads(tm) IN
     \E due \in BOOLEAN :
       IF DeadUp(tm) # {} \/ due \/ Killing(s) # {}
       THEN tm' = s /\ dumping' = TRUE
       ELSE \E r \in MakeNewTunnelsNoDump(s) :
              tm' = r.state /\ dumping' = r.more

\* _removeSomeTunnels: the tunnels that can be destroyed, if there are enough,
\* and the one of the lowest score (a neighbour that is not identified first).
Removable(s) == Clients(s) \ Killing(s)

EnoughTunnels(s) ==
  /\ LET least == IF Served(s) # {} \/ s.disconnected # "no"
                  THEN ClientCount ELSE AtMostTwo
     IN  least <= Cardinality(Removable(s))
  /\ Removable(s) # Persistent

Lowest(s, neigh) ==
  LET hidden == Removable(s) \ neigh IN
  IF hidden # {} THEN hidden
  ELSE IF Removable(s) \subseteq Persistent THEN Removable(s)
  ELSE Removable(s) \ Persistent

\* babel_dump: killers, then _removeSomeTunnels if it is time to and there are
\* enough tunnels (else it does nothing), then
\* _makeNewTunnels.
BabelDump ==
  /\ dumping
  /\ dumping' = FALSE
  /\ \E peers \in SUBSET Peer, remove \in BOOLEAN : \E neigh \in SUBSET peers :
     \E killers \in Killers(tm, neigh) :
       LET s == [tm EXCEPT !.killing = killers] IN
          IF remove
          THEN /\ EnoughTunnels(s)
               /\ \E p \in Lowest(s, neigh) :
                    tm' \in MakeNewTunnelsDumped(
                      [s EXCEPT !.killing[p] = NewKiller(p \in neigh, TRUE)],
                      neigh, peers)
          ELSE tm' \in MakeNewTunnelsDumped(s, neigh, peers)

\* Message 1 with addresses.
AddressReply(p) ==
  /\ LET s == AddPeer(tm, p) IN
     IF p \in tm.connecting
     THEN \E M \in SUBSET ({p} \cap Eligible(s)) :
            tm' \in MakeTunnels([s EXCEPT !.connecting = @ \ {p}], {p}, M)
     ELSE tm' = s
  /\ UNCHANGED dumping

\* Message 2.
KillRequest(p) ==
  /\ tm.killing[p].state = "absent"
  /\ tm.served[p] # {}
  /\ \E neighbour \in BOOLEAN :
       tm' = [tm EXCEPT !.killing[p] = NewKiller(neighbour, FALSE)]
  /\ UNCHANGED dumping

\* Message 3.  It may be late, and find the killer of a tunnel of the peer to us.
\* Without one to the peer, the KeyError of _kill ends the node, that its service
\* starts again.
KillResponse(p) ==
  /\ tm.killing[p].state = "locked"
  /\ IF p \in Clients(tm) THEN tm' = Kill(tm, {p}) /\ UNCHANGED dumping
     ELSE tm' = Started(tm.known) /\ dumping' = FALSE

\* _ovpn_client_connect: of two crossing tunnels, one must go.
ClientConnect(p, i) ==
  /\ i \notin tm.served[p]
  /\ LET s == [tm EXCEPT !.served[p] = @ \cup {i}] IN
     tm' = IF p \in Clients(s) /\ p \in Higher
           THEN [Kill(s, {p}) EXCEPT !.tried = @ \ {p}] ELSE s
  /\ UNCHANGED dumping

\* _ovpn_client_disconnect.  A killer that started is aborted if it is about
\* this interface.
ClientDisconnect(p, i) ==
  /\ i \in tm.served[p]
  /\ \E k \in {tm.killing[p], Aborted(tm.killing[p])} :
       /\ tm.killing[p].state = "new" => k = NoKiller
       /\ tm' = [tm EXCEPT !.served[p] = @ \ {i}, !.killing[p] = k]
  /\ UNCHANGED dumping

\* Connection.connected, maybe with a revoked peer.
Connected(s, p) ==
  {Kill(s, {p}), [s EXCEPT !.conn[p].up = TRUE, !.tried = @ \ {p}]}

\* handleClientEvent
ClientEvent(e) ==
  LET s == [tm EXCEPT !.events = @ \ {e}] IN
  /\ e \in tm.events
  /\ IF e.peer \in Clients(tm) /\ ~e.stale
     THEN tm' \in Connected(s, e.peer)
     ELSE tm' = s
  /\ UNCHANGED dumping

\* broadcastNewVersion, with a CRL that revokes the peers of K.
Revoke(K) ==
  /\ K \subseteq {p \in Clients(tm) : tm.conn[p].up}
  /\ tm' = Kill(tm, K)
  /\ UNCHANGED dumping

\* The OpenVPN client of p establishes its tunnel, or ends.
RouteUp(p) ==
  /\ tm.conn[p].proc = "starting"
  /\ Cardinality(tm.events) < MaxEvents
  /\ tm' = [tm EXCEPT !.conn[p].proc = "routed",
                      !.events = @ \cup {[peer |-> p, addr |-> tm.conn[p].retry,
                                          stale |-> FALSE]}]
  /\ UNCHANGED dumping

ProcessEnds(p) ==
  /\ tm.conn[p].proc \in {"starting", "routed"}
  /\ tm' = [tm EXCEPT !.conn[p].proc = "dead"]
  /\ UNCHANGED dumping

\* Time passes: the next bootstrap is allowed.
BootstrapDelayOver ==
  /\ tm.disconnected = "recent"
  /\ tm' = [tm EXCEPT !.disconnected = "old"]
  /\ UNCHANGED dumping

Next ==
  \/ Refresh
  \/ BabelDump
  \/ BootstrapDelayOver
  \/ \E p \in Peer :
       \/ AddressReply(p) \/ KillRequest(p) \/ KillResponse(p)
       \/ RouteUp(p) \/ ProcessEnds(p)
       \/ \E i \in ServerIface : ClientConnect(p, i) \/ ClientDisconnect(p, i)
  \/ \E e \in tm.events : ClientEvent(e)
  \/ \E K \in SUBSET Peer : Revoke(K)

Spec == Init /\ [][Next]_vars

-----------------------------------------------------------------------------
TypeOK ==
  /\ tm \in TMState
  /\ dumping \in BOOLEAN

\* The taps are a pool of client_count interfaces that is never exhausted
\* ("popleft" on an empty deque would end the node), none being lost nor
\* given to two connections.
PoolPartition ==
  /\ \A p \in Clients(tm) : tm.conn[p].iface \in ClientIface \ tm.free
  /\ \A p, q \in Clients(tm) :
       p # q => tm.conn[p].iface # tm.conn[q].iface
  /\ ClientIface = tm.free \cup {tm.conn[p].iface : p \in Clients(tm)}

\* Tunnels and requests for an address, answered late or not, never exceed
\* client_count.
BoundedTunnels ==
  Cardinality(Clients(tm)) + Cardinality(tm.connecting) <= ClientCount

\* Whatever the order of answers and of ends of tunnels, the pool is whole and
\* its bound is kept, in states of the right types.
SafePool == TypeOK /\ PoolPartition /\ BoundedTunnels

\* Two nodes do not keep a tunnel in each direction: the one whose prefix is
\* lower drops its own.
OneTunnelPerPeer == Clients(tm) \cap Served(tm) \cap Higher = {}

\* A killer that we started, and may still cut a tunnel, always has this tunnel to
\* cut, even if the process ended, the peer was revoked or crossed our tunnel
\* meanwhile ("_kill" of a missing connection would end the node).
KillerHasTunnel ==
  \A p \in Peer :
    LET k == tm.killing[p] IN
    k.client /\ k.state \in {"new", "locking", "locked"}
      => p \in Clients(tm)

\* The address recorded as good for a peer is the one of the process that
\* established the tunnel.
GoodAddress ==
  [][\A p \in Peer :
       tm'.conn[p].up /\ ~tm.conn[p].up
         => \E e \in tm.events : /\ e.peer = p
                                 /\ e.addr = tm.conn[p].retry
                                 /\ e \notin tm'.events]_vars
=============================================================================
