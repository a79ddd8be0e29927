------------------------ MODULE TunnelManagerProofs ------------------------
(***************************************************************************)
(* Proofs about TunnelManager, for any peers, any pool of taps and any     *)
(* number of addresses; and, in a second part, about BabelControl.         *)
(*                                                                         *)
(* Good is what callbacks rely on of the attributes of the TunnelManager,  *)
(* and Fits bounds tunnels and requests for an address.  Each operator of  *)
(* the model keeps them (KillGood, MakeGood, ...): _makeTunnel, because    *)
(* there are as many free taps as room for tunnels (RoomOf).               *)
(***************************************************************************)
EXTENDS TunnelManager, BabelControl, FiniteSetTheorems, FunctionTheorems,
        SequenceTheorems, WellFoundedInduction, TLAPS

\* The interfaces in use.
Taps(s) == {s.conn[p].iface : p \in Clients(s)}

PoolOf(s) ==
  /\ \A p \in Clients(s) : s.conn[p].iface \in ClientIface \ s.free
  /\ \A p, q \in Clients(s) : p # q => s.conn[p].iface # s.conn[q].iface
  /\ ClientIface = s.free \cup Taps(s)

TriesOf(s) ==
  \A p \in Clients(s) : s.conn[p].retry \in 1 .. s.conn[p].naddr

OneWay(s) == Clients(s) \cap Served(s) \cap Higher = {}

KillersOf(s) ==
  \A p \in Peer :
    s.killing[p].client /\ s.killing[p].state \in {"new", "locking", "locked"}
      => p \in Clients(s)

Good(s) == s \in TMState /\ PoolOf(s) /\ TriesOf(s) /\ OneWay(s) /\ KillersOf(s)

Fits(s) == Cardinality(Clients(s)) + Cardinality(s.connecting) <= ClientCount

IInv == Good(tm) /\ Fits(tm) /\ dumping \in BOOLEAN

\* A notification that is not out of date is about the address being tried.
Recent(s) ==
  \A e \in s.events :
    ~e.stale /\ e.peer \in Clients(s) => e.addr = s.conn[e.peer].retry

\* From s to r, no tunnel is established and notifications stay right.
Tracks(s, r) ==
  /\ Recent(s) => Recent(r)
  /\ \A p \in Peer : r.conn[p].up => s.conn[p].up

-----------------------------------------------------------------------------
(***************************************************************************)
(* Sizes.                                                                  *)
(***************************************************************************)
LEMMA PeerSets ==
  ASSUME NEW S \in SUBSET Peer
  PROVE  IsFiniteSet(S) /\ Cardinality(S) \in Nat
BY Names, FS_Subset, FS_CardinalityType

LEMMA Count == ClientCount \in Nat /\ ClientCount >= 1
<1>1. ClientCount \in Nat /\ ClientCount # 0
  BY Names, FS_CardinalityType, FS_EmptySet DEF ClientCount
<1> QED
  BY <1>1

\* There is a free tap for each tunnel that is missing.
LEMMA RoomOf ==
  ASSUME NEW s, PoolOf(s)
  PROVE  /\ IsFiniteSet(s.free)
         /\ Cardinality(s.free) = Room(s)
         /\ Room(s) \in Nat
         /\ Room(s) = ClientCount - Cardinality(Clients(s))
<1> DEFINE f == [p \in Clients(s) |-> s.conn[p].iface]
<1>1. Clients(s) \subseteq Peer
  BY DEF Clients
<1>2. IsFiniteSet(Clients(s)) /\ Cardinality(Clients(s)) \in Nat
  BY <1>1, PeerSets
<1>3. f \in Bijection(Clients(s), Taps(s))
  <2>1. f \in [Clients(s) -> Taps(s)]
    BY DEF Taps
  <2>2. \A p, q \in Clients(s) : f[p] = f[q] => p = q
    BY DEF PoolOf
  <2>3. \A t \in Taps(s) : \E p \in Clients(s) : f[p] = t
    BY DEF Taps
  <2> HIDE DEF f
  <2> QED
    BY <2>1, <2>2, <2>3, Fun_IsBij
<1>4. IsFiniteSet(Taps(s)) /\ Cardinality(Taps(s)) = Cardinality(Clients(s))
  <2> HIDE DEF f
  <2>1. ExistsBijection(Clients(s), Taps(s))
    BY <1>3 DEF ExistsBijection
  <2> QED
    BY <1>2, <2>1, FS_Bijection
<1>5. s.free \subseteq ClientIface /\ s.free \cap Taps(s) = {}
  BY DEF PoolOf, Taps
<1>6. IsFiniteSet(s.free) /\ Cardinality(s.free) \in Nat
  BY <1>5, Names, FS_Subset, FS_CardinalityType
<1>7. Cardinality(ClientIface) = Cardinality(s.free) + Cardinality(Taps(s))
                                   - Cardinality(s.free \cap Taps(s))
  BY <1>4, <1>6, FS_Union DEF PoolOf
<1>8. Cardinality(ClientIface) = Cardinality(s.free) + Cardinality(Clients(s))
  <2>1. Cardinality(s.free \cap Taps(s)) = 0
    BY <1>5, FS_CardinalityType, FS_EmptySet
  <2> QED
    BY <1>2, <1>4, <1>6, <1>7, <2>1
<1> QED
  BY <1>2, <1>6, <1>8, Count DEF Room, ClientCount

\* While there are enough of them, all are given different taps.
LEMMA Allotted ==
  ASSUME NEW M \in SUBSET Peer, NEW F, IsFiniteSet(F), NoIface \notin F,
         Cardinality(M) <= Cardinality(F), NEW f \in Allotments(M, F)
  PROVE  /\ f \in [M -> F]
         /\ \A p, q \in M : p # q => f[p] # f[q]
<1>1. /\ f \in [M -> F \cup {NoIface}]
      /\ \A p, q \in M : p # q /\ f[p] = f[q] => f[p] = NoIface
      /\ (\E p \in M : f[p] = NoIface) => F \subseteq {f[p] : p \in M}
  BY DEF Allotments
<1>2. ASSUME NEW p \in M, f[p] = NoIface
      PROVE  FALSE
  <2>1. IsFiniteSet(M) /\ Cardinality(M) \in Nat /\ IsFiniteSet(M \ {p})
        /\ Cardinality(M \ {p}) = Cardinality(M) - 1
    BY PeerSets, FS_RemoveElement
  <2> DEFINE D == {q \in M : f[q] \in F}
             g == [q \in D |-> f[q]]
  <2>2. D \subseteq M \ {p} /\ D \subseteq Peer
    BY <1>2
  <2>3. IsFiniteSet(D) /\ Cardinality(D) <= Cardinality(M \ {p})
    BY <2>1, <2>2, FS_Subset
  <2>4. g \in [D -> F]
    OBVIOUS
  <2>5. \A t \in F : \E q \in D : g[q] = t
    BY <1>1, <1>2
  <2> HIDE DEF D, g
  <2>6. g \in Surjection(D, F)
    BY <2>4, <2>5, Fun_IsSurj
  <2>7. Cardinality(F) <= Cardinality(D)
    BY <2>3, <2>6, FS_Surjection
  <2> QED
    BY <2>1, <2>3, <2>7, FS_CardinalityType
<1>3. f \in [M -> F]
  BY <1>1, <1>2
<1> QED
  BY <1>1, <1>2, <1>3

-----------------------------------------------------------------------------
(***************************************************************************)
(* What the operators of the model keep.                                   *)
(***************************************************************************)
LEMMA SameTunnels ==
  ASSUME NEW s, Good(s), NEW r \in TMState,
         r.conn = s.conn, r.free = s.free, r.served = s.served,
         r.killing = s.killing
  PROVE  /\ Good(r) /\ Clients(r) = Clients(s) /\ Room(r) = Room(s)
         /\ Served(r) = Served(s) /\ Eligible(r) = Eligible(s)
BY DEF Good, PoolOf, TriesOf, OneWay, KillersOf, Taps, Clients, Served, Room,
       Eligible

LEMMA SameEvents ==
  ASSUME NEW s, NEW r, r.conn = s.conn, r.events = s.events
  PROVE  Tracks(s, r)
BY DEF Tracks, Recent, Clients

LEMMA TracksMore ==
  ASSUME NEW s, NEW t, NEW r, Tracks(s, t), Tracks(t, r)
  PROVE  Tracks(s, r)
BY DEF Tracks

LEMMA NoConnState == NoConn \in ConnState
BY Names DEF NoConn, ConnState

LEMMA AbortedState ==
  ASSUME NEW k \in KillerState
  PROVE  Aborted(k) \in KillerState /\ Aborted(k).state \in {"absent", "unlocking"}
BY DEF Aborted, KillerState, NoKiller

LEMMA KillGood ==
  ASSUME NEW s, Good(s), NEW K \in SUBSET Clients(s), NEW r, r = Kill(s, K)
  PROVE  /\ Good(r)
         /\ Clients(r) = Clients(s) \ K
         /\ Room(s) <= Room(r)
         /\ r.connecting = s.connecting
         /\ Tracks(s, r)
<1> USE DEF Good
<1>0. s \in TMState /\ K \subseteq Peer
  BY DEF Clients
<1>1. /\ r.conn = [p \in Peer |-> IF p \in K THEN NoConn ELSE s.conn[p]]
      /\ r.free = s.free \cup {s.conn[p].iface : p \in K}
      /\ r.killing = [p \in Peer |-> IF p \in K THEN Aborted(s.killing[p])
                                                ELSE s.killing[p]]
      /\ r.served = s.served /\ r.connecting = s.connecting
      /\ r.distant = s.distant /\ r.disconnected = s.disconnected
      /\ r.known = s.known /\ r.tried = s.tried /\ r.events = s.events
      /\ r = [conn |-> r.conn, free |-> r.free, served |-> r.served,
              killing |-> r.killing, connecting |-> r.connecting,
              distant |-> r.distant, disconnected |-> r.disconnected,
              known |-> r.known, tried |-> r.tried, events |-> r.events]
  BY <1>0 DEF Kill, TMState
<1>2. r \in TMState
  <2>1. r.conn \in [Peer -> ConnState]
    BY <1>0, <1>1, NoConnState DEF TMState
  <2>2. r.killing \in [Peer -> KillerState]
    BY <1>0, <1>1, AbortedState DEF TMState
  <2>3. r.free \in SUBSET (ClientIface \cup {NoIface})
    BY <1>0, <1>1 DEF TMState, ConnState
  <2> HIDE DEF Good
  <2> QED
    BY <1>0, <1>1, <2>1, <2>2, <2>3 DEF TMState
<1>3. Clients(r) = Clients(s) \ K
  BY <1>1 DEF Clients, NoConn
<1>4. PoolOf(r)
  <2>1. \A p \in Clients(r) : p \in Clients(s) /\ p \notin K /\ r.conn[p] = s.conn[p]
    BY <1>1, <1>3 DEF Clients
  <2>2. \A p \in Clients(r) : r.conn[p].iface \in ClientIface \ r.free
    BY <1>1, <2>1 DEF PoolOf
  <2>3. ClientIface = r.free \cup Taps(r)
    <3>1. Taps(s) = Taps(r) \cup {s.conn[p].iface : p \in K}
      BY <1>3, <2>1 DEF Taps
    <3> QED
      BY <1>1, <3>1 DEF PoolOf
  <2> QED
    BY <2>1, <2>2, <2>3 DEF PoolOf
<1>5. TriesOf(r) /\ OneWay(r)
  BY <1>1, <1>3 DEF TriesOf, OneWay, Served, Clients
<1>6. KillersOf(r)
  BY <1>0, <1>1, <1>3, AbortedState DEF KillersOf, TMState
<1>7. Room(s) <= Room(r)
  <2>1. /\ Cardinality(Clients(r)) <= Cardinality(Clients(s))
        /\ Cardinality(Clients(r)) \in Nat
        /\ Cardinality(Clients(s)) \in Nat
    BY <1>3, PeerSets, FS_Subset DEF Clients
  <2> QED
    BY <2>1, Count DEF Room
<1>8. Tracks(s, r)
  <2>1. \A p \in Clients(r) : p \in Clients(s) /\ r.conn[p] = s.conn[p]
    BY <1>1, <1>3 DEF Clients
  <2>2. \A p \in Peer : r.conn[p].up => s.conn[p].up
    BY <1>1 DEF NoConn
  <2> QED
    BY <1>1, <2>1, <2>2 DEF Tracks, Recent
<1> QED
  BY <1>1, <1>2, <1>3, <1>4, <1>5, <1>6, <1>7, <1>8

LEMMA OutdatedType ==
  ASSUME NEW s \in TMState, NEW O
  PROVE  Outdated(s, O) \subseteq Event
<1>1. \A e \in s.events :
        /\ e \in Event
        /\ \A b \in BOOLEAN : [e EXCEPT !.stale = b] \in Event
  BY DEF TMState, Event
<1>2. \A e \in s.events : (e.stale \/ e.peer \in O) \in BOOLEAN
  BY <1>1 DEF Event
<1> QED
  BY <1>1, <1>2 DEF Outdated

\* What Connection.open leaves: notifications about other connections.
LEMMA OutdatedRecent ==
  ASSUME NEW s \in TMState, NEW O, NEW r, r.events = Outdated(s, O),
         \A p \in Clients(r) : p \notin O => p \in Clients(s)
                                        /\ r.conn[p].retry = s.conn[p].retry
  PROVE  Recent(s) => Recent(r)
<1> SUFFICES ASSUME Recent(s), NEW e \in r.events, ~e.stale, e.peer \in Clients(r)
             PROVE  e.addr = r.conn[e.peer].retry
  BY DEF Recent
<1>1. PICK d \in s.events : e = [d EXCEPT !.stale = d.stale \/ d.peer \in O]
  BY DEF Outdated
<1>2. d \in Event
  BY DEF TMState
<1>3. e.peer = d.peer /\ e.addr = d.addr /\ ~d.stale /\ d.peer \notin O
  BY <1>1, <1>2 DEF Event
<1> QED
  BY <1>3 DEF Recent

LEMMA MakeGood ==
  ASSUME NEW s, Good(s), NEW S, NEW M \in SUBSET Eligible(s),
         Cardinality(M) <= Room(s), NEW r \in MakeTunnels(s, S, M)
  PROVE  /\ Good(r)
         /\ Clients(r) = Clients(s) \cup M
         /\ Room(r) = Room(s) - Cardinality(M)
         /\ r.connecting = s.connecting
         /\ Tracks(s, r)
<1>0. /\ s \in TMState /\ M \subseteq Peer /\ M \cap Clients(s) = {}
      /\ M \cap Served(s) = {} /\ Clients(s) \subseteq Peer
      /\ PoolOf(s) /\ TriesOf(s) /\ OneWay(s) /\ KillersOf(s)
  <2>1. M \subseteq Peer /\ M \cap Clients(s) = {} /\ M \cap Served(s) = {}
    BY DEF Eligible
  <2> QED
    BY <2>1 DEF Good, Clients
<1>1. PICK f \in Allotments(M, s.free), n \in Addresses(M) :
        r = WithTunnels(s, S, M, f, n)
  BY DEF MakeTunnels
<1> DEFINE C == [p \in Peer |->
                   IF p \in M
                   THEN [iface |-> f[p], naddr |-> n[p], retry |-> 1,
                         up |-> FALSE, proc |-> "starting"]
                   ELSE s.conn[p]]
           F == s.free \ {f[p] : p \in M}
           T == s.tried \cup (S \cap Eligible(s))
           E == Outdated(s, M)
<1>2. /\ r.conn = C /\ r.free = F /\ r.tried = T /\ r.events = E
      /\ r.served = s.served /\ r.connecting = s.connecting
      /\ r.distant = s.distant /\ r.disconnected = s.disconnected
      /\ r.known = s.known /\ r.killing = s.killing
      /\ r = [conn |-> r.conn, free |-> r.free, served |-> r.served,
              killing |-> r.killing, connecting |-> r.connecting,
              distant |-> r.distant, disconnected |-> r.disconnected,
              known |-> r.known, tried |-> r.tried, events |-> r.events]
  <2>1. r = [s EXCEPT !.conn = C, !.free = F, !.tried = T, !.events = E]
    BY <1>1 DEF WithTunnels
  <2> HIDE DEF C, F, T, E
  <2> QED
    BY <1>0, <2>1 DEF TMState
<1>3. /\ IsFiniteSet(s.free) /\ Cardinality(s.free) = Room(s)
      /\ s.free \subseteq ClientIface /\ NoIface \notin s.free
  BY <1>0, RoomOf, Names DEF PoolOf
<1>4. /\ f \in [M -> s.free]
      /\ \A p, q \in M : p # q => f[p] # f[q]
  BY <1>0, <1>3, Allotted
<1>5. n \in [M -> 1 .. MaxAddr]
  BY DEF Addresses
<1>6. \A p \in M : /\ r.conn[p].iface = f[p] /\ r.conn[p].naddr = n[p]
                  /\ r.conn[p].retry = 1 /\ r.conn[p].proc = "starting"
                  /\ r.conn[p] \in ConnState
  BY <1>0, <1>2, <1>3, <1>4, <1>5, Names DEF ConnState
<1>7. \A p \in Peer \ M : r.conn[p] = s.conn[p]
  BY <1>2
<1>8. Clients(r) = Clients(s) \cup M
  BY <1>0, <1>6, <1>7 DEF Clients
<1>9. r \in TMState
  <2>1. r.conn \in [Peer -> ConnState]
    <3>1. s.conn \in [Peer -> ConnState]
      BY <1>0 DEF TMState
    <3>2. \A p \in Peer : r.conn[p] \in ConnState
      BY <1>6, <1>7, <3>1
    <3> QED
      BY <1>2, <3>2
  <2>2. r.tried \in SUBSET Peer /\ r.free \in SUBSET (ClientIface \cup {NoIface})
    BY <1>0, <1>2, <1>3 DEF TMState, Eligible
  <2>3. r.events \in SUBSET Event
    BY <1>0, <1>2, OutdatedType
  <2> QED
    BY <1>0, <1>2, <2>1, <2>2, <2>3 DEF TMState
<1>10. PoolOf(r)
  <2>1. \A p \in Clients(r) : r.conn[p].iface \in ClientIface \ r.free
    BY <1>0, <1>2, <1>3, <1>4, <1>6, <1>7, <1>8 DEF PoolOf
  <2>2. \A p, q \in Clients(r) : p # q => r.conn[p].iface # r.conn[q].iface
    BY <1>0, <1>3, <1>4, <1>6, <1>7, <1>8 DEF PoolOf
  <2>3. Taps(r) = Taps(s) \cup {f[p] : p \in M}
    BY <1>0, <1>6, <1>7, <1>8 DEF Taps
  <2>4. ClientIface = r.free \cup Taps(r)
    BY <1>0, <1>2, <1>3, <1>4, <2>3 DEF PoolOf
  <2> QED
    BY <2>1, <2>2, <2>4 DEF PoolOf
<1>11. TriesOf(r)
  BY <1>0, <1>5, <1>6, <1>7, <1>8 DEF TriesOf
<1>12. OneWay(r) /\ KillersOf(r)
  BY <1>0, <1>2, <1>8 DEF OneWay, KillersOf, Served
<1>13. Room(r) = Room(s) - Cardinality(M)
  <2>1. /\ IsFiniteSet(Clients(s)) /\ IsFiniteSet(M)
        /\ Cardinality(Clients(s)) \in Nat /\ Cardinality(M) \in Nat
    BY <1>0, PeerSets
  <2>2. Cardinality(Clients(r)) = Cardinality(Clients(s)) + Cardinality(M)
    BY <1>0, <1>8, <2>1, FS_Union, FS_EmptySet
  <2> QED
    BY <2>1, <2>2, Count DEF Room
<1>14. Tracks(s, r)
  <2>1. Recent(s) => Recent(r)
    <3>1. \A p \in Clients(r) : p \notin M => p \in Clients(s)
                                           /\ r.conn[p].retry = s.conn[p].retry
      BY <1>7, <1>8 DEF Clients
    <3> QED
      BY <1>0, <1>2, <3>1, OutdatedRecent
  <2>2. \A p \in Peer : r.conn[p].up => s.conn[p].up
    BY <1>2
  <2> QED
    BY <2>1, <2>2 DEF Tracks
<1> QED
  BY <1>2, <1>8, <1>9, <1>10, <1>11, <1>12, <1>13, <1>14 DEF Good

-----------------------------------------------------------------------------
(***************************************************************************)
(* The bound: requests for an address are never more than the free taps.   *)
(***************************************************************************)
Idle(s) == Good(s) /\ s.connecting = {}

LEMMA FitsRoom ==
  ASSUME NEW s, Good(s)
  PROVE  /\ Room(s) \in Nat /\ Cardinality(s.connecting) \in Nat
         /\ Fits(s) <=> Cardinality(s.connecting) <= Room(s)
         /\ Idle(s) => Fits(s)
<1>1. Clients(s) \subseteq Peer /\ s.connecting \subseteq Peer
  BY DEF Good, TMState, Clients
<1>2. Cardinality(Clients(s)) \in Nat /\ Cardinality(s.connecting) \in Nat
  BY <1>1, PeerSets
<1>3. Room(s) \in Nat /\ Room(s) = ClientCount - Cardinality(Clients(s))
  BY RoomOf DEF Good
<1>4. Idle(s) => Cardinality(s.connecting) = 0
  BY FS_EmptySet DEF Idle
<1> QED
  BY <1>2, <1>3, <1>4, Count DEF Fits

LEMMA WantedRoom ==
  ASSUME NEW s, Good(s)
  PROVE  Wanted(s) \in Nat /\ Wanted(s) <= Room(s)
<1>1. Cardinality(Clients(s)) \in Nat
  BY PeerSets DEF Clients
<1>2. Room(s) \in Nat
  BY FitsRoom
<1> QED
  BY <1>1, <1>2, Count DEF Wanted, AtMostTwo, Room

LEMMA AddGood ==
  ASSUME NEW s, Good(s), NEW p \in Peer, NEW r, r = AddPeer(s, p)
  PROVE  /\ Good(r) /\ Clients(r) = Clients(s) /\ Room(r) = Room(s)
         /\ Eligible(r) = Eligible(s) /\ r.connecting = s.connecting
         /\ Tracks(s, r)
<1>1. s \in TMState
  BY DEF Good
<1>2. /\ r \in TMState /\ r.conn = s.conn /\ r.free = s.free
      /\ r.served = s.served /\ r.killing = s.killing
      /\ r.connecting = s.connecting /\ r.events = s.events
  BY <1>1 DEF TMState, AddPeer
<1> QED
  BY <1>2, SameTunnels, SameEvents

LEMMA FromDistantGood ==
  ASSUME NEW s, Good(s), NEW r \in FromDistant(s)
  PROVE  Good(r) /\ Fits(r) /\ Tracks(s, r)
<1>1. PICK taken \in SUBSET s.distant, made \in SUBSET Eligible(s),
           asked \in SUBSET (s.distant \ Usable(s)) :
        /\ Cardinality(made) + Cardinality(asked) <= Wanted(s)
        /\ r \in MakeTunnels([s EXCEPT !.distant = @ \ taken,
                                       !.connecting = asked],
                             taken \cap Usable(s), made)
  <2>1. PICK x \in [taken : SUBSET s.distant, made : SUBSET Eligible(s),
                    asked : SUBSET (s.distant \ Usable(s))] :
          /\ Cardinality(x.made) + Cardinality(x.asked) <= Wanted(s)
          /\ r \in MakeTunnels([s EXCEPT !.distant = @ \ x.taken,
                                         !.connecting = x.asked],
                               x.taken \cap Usable(s), x.made)
    BY Zenon DEF FromDistant
  <2>2. /\ x.taken \in SUBSET s.distant /\ x.made \in SUBSET Eligible(s)
        /\ x.asked \in SUBSET (s.distant \ Usable(s))
    OBVIOUS
  <2> QED
    BY <2>1, <2>2
<1> DEFINE t == [s EXCEPT !.distant = @ \ taken, !.connecting = asked]
<1>2. /\ s \in TMState /\ s.distant \subseteq Peer /\ asked \subseteq Peer
      /\ made \subseteq Peer
  <2>1. s.distant \subseteq Peer
    BY DEF Good, TMState
  <2> QED
    BY <2>1 DEF Good, Eligible
<1>3. /\ t \in TMState /\ t.conn = s.conn /\ t.free = s.free
      /\ t.served = s.served /\ t.killing = s.killing /\ t.connecting = asked
      /\ t.events = s.events
  BY <1>2 DEF TMState
<1>4. /\ Good(t) /\ Room(t) = Room(s) /\ Eligible(t) = Eligible(s)
      /\ Tracks(s, t)
  BY <1>3, SameTunnels, SameEvents
<1>5. r \in MakeTunnels(t, taken \cap Usable(s), made)
  BY <1>1
<1> HIDE DEF t
<1>6. Cardinality(made) \in Nat /\ Cardinality(asked) \in Nat
  BY <1>2, PeerSets
<1>7. Cardinality(made) + Cardinality(asked) <= Room(s) /\ Room(s) \in Nat
  BY <1>1, <1>6, WantedRoom, FitsRoom
<1>8. /\ Good(r) /\ Room(r) = Room(s) - Cardinality(made) /\ r.connecting = asked
      /\ Tracks(t, r)
  BY <1>3, <1>4, <1>5, <1>6, <1>7, MakeGood
<1>9. Tracks(s, r)
  BY <1>4, <1>8, TracksMore
<1> QED
  BY <1>6, <1>7, <1>8, <1>9, FitsRoom

LEMMA FromTriedGood ==
  ASSUME NEW s, Idle(s), 1 <= Room(s), NEW r \in FromTried(s)
  PROVE  Idle(r) /\ Tracks(s, r)
<1>1. PICK taken \in SUBSET s.tried, made \in SUBSET Eligible(s) :
        Cardinality(made) <= 1 /\ r \in MakeTunnels(s, taken, made)
  BY DEF FromTried
<1>2. Cardinality(made) \in Nat /\ Room(s) \in Nat
  BY PeerSets, FitsRoom DEF Eligible, Idle
<1> QED
  BY <1>1, <1>2, MakeGood DEF Idle

LEMMA BootstrapGood ==
  ASSUME NEW s, Good(s), 1 <= Room(s), NEW b \in Peer, NEW r \in Bootstrap(s, b)
  PROVE  Good(r) /\ r.connecting = s.connecting /\ Tracks(s, r)
<1> DEFINE t == AddPeer(s, b)
<1>1. PICK M \in SUBSET ({b} \cap Eligible(s)) : r \in MakeTunnels(t, {b}, M)
  BY DEF Bootstrap
<1> HIDE DEF t
<1>2. /\ Good(t) /\ Room(t) = Room(s) /\ Eligible(t) = Eligible(s)
      /\ t.connecting = s.connecting /\ Tracks(s, t)
  BY AddGood DEF t
<1>3. Cardinality(M) <= Room(s)
  <2>1. IsFiniteSet({b}) /\ Cardinality({b}) = 1
    BY FS_Singleton
  <2>2. M \subseteq {b}
    OBVIOUS
  <2>3. Cardinality(M) <= 1 /\ Cardinality(M) \in Nat
    BY <2>1, <2>2, FS_Subset, FS_CardinalityType
  <2> QED
    BY <2>3, FitsRoom
<1>4. Good(r) /\ r.connecting = t.connecting /\ Tracks(t, r)
  BY <1>1, <1>2, <1>3, MakeGood
<1> QED
  BY <1>2, <1>4, TracksMore

LEMMA FromCacheGood ==
  ASSUME NEW s, Idle(s), 1 <= Room(s), NEW peers \in SUBSET Peer,
         NEW r \in FromCache(s, peers)
  PROVE  Idle(r) /\ Tracks(s, r)
<1> DEFINE C == Usable(s) \ peers
<1>1. PICK taken \in SUBSET Usable(s), made \in SUBSET Eligible(s) :
        /\ Cardinality(made) <= Room(s)
        /\ r \in IF made # {} \/ peers # {} THEN MakeTunnels(s, taken, made)
                 ELSE UNION {UNION {OrRetry(t, q) : q \in Bootstrapped(t, C = {})} :
                               t \in MakeTunnels(s, taken, {})}
  <2>1. PICK x \in [taken : SUBSET C, made : SUBSET Eligible(s)] :
          /\ Cardinality(x.made) <= Room(s)
          /\ r \in IF x.made # {} \/ peers # {}
                   THEN MakeTunnels(s, x.taken, x.made)
                   ELSE UNION {UNION {OrRetry(t, q) : q \in Bootstrapped(t, C = {})} :
                                 t \in MakeTunnels(s, x.taken, {})}
    BY Zenon DEF FromCache
  <2>2. x.made \in SUBSET Eligible(s) /\ x.taken \in SUBSET Usable(s)
    OBVIOUS
  <2> QED
    BY <2>1, <2>2
<1>2. CASE made # {} \/ peers # {}
  BY <1>1, <1>2, MakeGood DEF Idle
<1>3. CASE ~(made # {} \/ peers # {})
  <2>1. PICK t \in MakeTunnels(s, taken, {}) : \E q \in Bootstrapped(t, C = {}) :
          r \in OrRetry(t, q)
    BY <1>1, <1>3
  <2>2. PICK q \in Bootstrapped(t, C = {}) : r \in OrRetry(t, q)
    BY <2>1
  <2>3. Cardinality({}) = 0 /\ {} \in SUBSET Eligible(s) /\ Room(s) \in Nat
    BY FS_EmptySet, FitsRoom DEF Idle
  <2>4. Good(t) /\ Room(t) = Room(s) /\ t.connecting = {} /\ Tracks(s, t)
    BY <2>1, <2>3, MakeGood DEF Idle
  <2>5. Idle(q) /\ Tracks(t, q)
    <3>1. q = t \/ \E b \in Peer : q \in Bootstrap(t, b)
      BY <2>2 DEF Bootstrapped
    <3> QED
      BY <2>4, <3>1, BootstrapGood, SameEvents DEF Idle
  <2>6. r = q \/ (Clients(q) = Clients(t) /\ r \in FromTried(q))
    <3>1. CASE Clients(q) # Clients(t)
      BY <2>2, <3>1 DEF OrRetry
    <3>2. CASE Clients(q) = Clients(t)
      BY <2>2, <3>2 DEF OrRetry
    <3> QED
      BY <3>1, <3>2
  <2>7. Clients(q) = Clients(t) => Room(q) = Room(t)
    BY DEF Room
  <2>8. Idle(r) /\ Tracks(q, r)
    BY <2>4, <2>5, <2>6, <2>7, FromTriedGood, SameEvents
  <2> QED
    BY <2>4, <2>5, <2>8, TracksMore
<1> QED
  BY <1>2, <1>3

LEMMA DeadTypes ==
  ASSUME NEW s
  PROVE  /\ Dead(s) \subseteq Clients(s) /\ DeadUp(s) \subseteq Dead(s)
         /\ Exhausted(s) \subseteq Dead(s)
BY DEF Dead, DeadUp, Exhausted, Clients

LEMMA CleanDeadsGood ==
  ASSUME NEW s, Good(s), Fits(s), NEW r, r = CleanDeads(s)
  PROVE  Good(r) /\ Fits(r) /\ Tracks(s, r)
<1> DEFINE K == DeadUp(s) \cup Exhausted(s)
           R == Dead(s) \ K
           C == [p \in Peer |-> IF p \in R
                                THEN [s.conn[p] EXCEPT !.retry = @ + 1,
                                                       !.proc = "starting"]
                                ELSE s.conn[p]]
           E == Outdated(s, R)
           t == [s EXCEPT !.conn = C, !.events = E]
<1>1. r = Kill(t, K)
  BY DEF CleanDeads
<1>2. s \in TMState /\ K \subseteq Clients(s) /\ R \subseteq Clients(s)
  BY DeadTypes DEF Good
<1>3. \A p \in Peer : /\ C[p].iface = s.conn[p].iface /\ C[p] \in ConnState
                      /\ C[p].proc = "none" <=> s.conn[p].proc = "none"
                      /\ C[p].naddr = s.conn[p].naddr
                      /\ p \in Clients(s) => C[p].retry \in 1 .. C[p].naddr
                      /\ C[p].up = s.conn[p].up
                      /\ p \notin R => C[p].retry = s.conn[p].retry
  <2> SUFFICES ASSUME NEW p \in Peer
               PROVE  /\ C[p].iface = s.conn[p].iface /\ C[p] \in ConnState
                      /\ C[p].proc = "none" <=> s.conn[p].proc = "none"
                      /\ C[p].naddr = s.conn[p].naddr
                      /\ p \in Clients(s) => C[p].retry \in 1 .. C[p].naddr
                      /\ C[p].up = s.conn[p].up
                      /\ p \notin R => C[p].retry = s.conn[p].retry
    OBVIOUS
  <2>1. s.conn[p] \in ConnState
    BY <1>2 DEF TMState
  <2>2. p \in Clients(s) => s.conn[p].retry \in 1 .. s.conn[p].naddr
    BY DEF Good, TriesOf
  <2>3. CASE p \in R
    <3>1. C[p] = [s.conn[p] EXCEPT !.retry = @ + 1, !.proc = "starting"]
      BY <2>3
    <3>2. /\ s.conn[p].proc = "dead" /\ s.conn[p].retry # s.conn[p].naddr
          /\ p \in Clients(s)
      BY <2>3, <1>2 DEF Dead, Exhausted
    <3> HIDE DEF C
    <3> DEFINE c == s.conn[p]
    <3>3. /\ c \in ConnState /\ c.proc = "dead" /\ c.retry \in 1 .. c.naddr
          /\ c.retry # c.naddr /\ c.naddr \in 0 .. MaxAddr
          /\ C[p] = [c EXCEPT !.retry = @ + 1, !.proc = "starting"]
      BY <2>1, <2>2, <3>1, <3>2 DEF ConnState
    <3> HIDE DEF c
    <3>4. c.retry + 1 \in 1 .. c.naddr /\ c.retry + 1 \in 0 .. MaxAddr
      BY <3>3, Names
    <3>5. C[p] = [iface |-> c.iface, naddr |-> c.naddr, retry |-> c.retry + 1,
                  up |-> c.up, proc |-> "starting"]
      BY <3>3 DEF ConnState
    <3>6. C[p] \in ConnState
      BY <3>3, <3>4, <3>5 DEF ConnState
    <3> QED
      BY <2>3, <3>2, <3>3, <3>4, <3>5, <3>6 DEF c
  <2>4. CASE p \notin R
    BY <2>1, <2>2, <2>4
  <2> QED
    BY <2>3, <2>4
<1>4. C \in [Peer -> ConnState]
  <2>1. C = [p \in Peer |-> C[p]]
    OBVIOUS
  <2> HIDE DEF C
  <2> QED
    BY <1>3, <2>1
<1>5. E \in SUBSET Event
  BY <1>2, OutdatedType
<1> HIDE DEF C, E
<1>6. /\ t \in TMState /\ t.conn = C /\ t.free = s.free /\ t.served = s.served
      /\ t.killing = s.killing /\ t.connecting = s.connecting
      /\ t.events = E
  BY <1>2, <1>4, <1>5 DEF TMState
<1> HIDE DEF t, K, R
<1>7. Clients(t) = Clients(s) /\ Room(t) = Room(s)
  BY <1>3, <1>6 DEF Clients, Room
<1>8. Good(t)
  <2>1. \A p \in Clients(t) : t.conn[p].iface = s.conn[p].iface
    BY <1>3, <1>6 DEF Clients
  <2>2. Taps(t) = Taps(s)
    BY <1>7, <2>1 DEF Taps
  <2>3. PoolOf(t)
    BY <1>6, <1>7, <2>1, <2>2 DEF PoolOf, Good
  <2>4. TriesOf(t)
    BY <1>3, <1>6, <1>7 DEF TriesOf, Clients
  <2>5. OneWay(t) /\ KillersOf(t)
    BY <1>6, <1>7 DEF OneWay, KillersOf, Served, Good
  <2> QED
    BY <1>6, <2>3, <2>4, <2>5 DEF Good
<1>9. /\ Good(r) /\ Room(t) <= Room(r) /\ r.connecting = s.connecting
      /\ Tracks(t, r)
  BY <1>1, <1>2, <1>6, <1>7, <1>8, KillGood
<1>10. Fits(r)
  <2>1. /\ Room(s) \in Nat /\ Room(r) \in Nat
        /\ Cardinality(s.connecting) \in Nat
        /\ Cardinality(s.connecting) <= Room(s)
    BY <1>9, FitsRoom
  <2> QED
    BY <1>7, <1>9, <2>1, FitsRoom
<1>11. Tracks(s, t)
  <2>1. Recent(s) => Recent(t)
    BY <1>2, <1>3, <1>6, <1>7, OutdatedRecent DEF E, Clients
  <2> QED
    BY <1>3, <1>6, <2>1 DEF Tracks
<1> QED
  BY <1>9, <1>10, <1>11, TracksMore

LEMMA DumpedGood ==
  ASSUME NEW s, Good(s), Fits(s), NEW peers \in SUBSET Peer,
         NEW neigh \in SUBSET peers,
         NEW r \in MakeNewTunnelsDumped(s, neigh, peers)
  PROVE  Good(r) /\ Fits(r) /\ Tracks(s, r)
<1> DEFINE D == peers \ neigh
           s1 == [s EXCEPT !.connecting = {}, !.distant = D]
           s2 == [s1 EXCEPT !.disconnected = "recent"]
           s3 == [s1 EXCEPT !.disconnected = "no"]
<1>1. s \in TMState /\ D \in SUBSET Peer
  BY DEF Good
<1> HIDE DEF D
<1>2. /\ s1 \in TMState /\ s1.conn = s.conn /\ s1.free = s.free
      /\ s1.served = s.served /\ s1.killing = s.killing /\ s1.connecting = {}
      /\ s1.events = s.events
  BY <1>1 DEF TMState
<1>3. Idle(s1) /\ Room(s1) = Room(s) /\ Tracks(s, s1)
  BY <1>2, SameTunnels, SameEvents DEF Idle
<1>4. /\ Idle(s2) /\ Room(s2) = Room(s) /\ Tracks(s, s2)
      /\ Idle(s3) /\ Room(s3) = Room(s) /\ Tracks(s, s3)
  <2> HIDE DEF s1
  <2>1. /\ s2 \in TMState /\ s2.conn = s1.conn /\ s2.free = s1.free
        /\ s2.served = s1.served /\ s2.killing = s1.killing
        /\ s2.connecting = s1.connecting /\ s2.events = s1.events
    BY <1>2 DEF TMState
  <2>2. /\ s3 \in TMState /\ s3.conn = s1.conn /\ s3.free = s1.free
        /\ s3.served = s1.served /\ s3.killing = s1.killing
        /\ s3.connecting = s1.connecting /\ s3.events = s1.events
    BY <1>2 DEF TMState
  <2> HIDE DEF s2, s3
  <2>3. Tracks(s1, s2) /\ Tracks(s1, s3)
    BY <2>1, <2>2, SameEvents
  <2>4. Tracks(s, s2) /\ Tracks(s, s3)
    BY <1>3, <2>3, TracksMore
  <2> QED
    BY <1>3, <2>1, <2>2, <2>4, SameTunnels DEF Idle
<1>5. CASE Room(s) = 0
  <2>1. r = s
    BY <1>5 DEF MakeNewTunnelsDumped
  <2> QED
    BY <2>1, SameEvents
<1>6. CASE Room(s) # 0
  <2>1. 1 <= Room(s)
    BY <1>6, FitsRoom
  <2>2. \/ r \in FromCache(s1, peers) \cup FromDistant(s1)
        \/ r \in FromDistant(s3) \cup FromDistant(s2) \cup FromCache(s2, {})
        \/ \E b \in peers : r \in FromCache(AddPeer(s2, b), peers)
        \/ \E b \in Peer : \E t \in Bootstrap(s2, b) :
             r \in IF Room(t) = 0 THEN {t} ELSE FromCache(t, peers)
    <3> DEFINE Booted == UNION {Bootstrap(s2, b) : b \in Peer \ peers}
               Added == UNION {FromCache(AddPeer(s2, b), peers) : b \in peers}
               Then(t) == IF Room(t) = 0 THEN {t} ELSE FromCache(t, peers)
    <3>1. \/ r \in FromCache(s1, peers) \cup FromDistant(s1)
          \/ r \in FromDistant(s3) \cup FromDistant(s2) \cup FromCache(s2, {})
          \/ r \in Added
          \/ r \in UNION {Then(t) : t \in Booted}
      <4> HIDE DEF Added, Booted, Then
      <4> USE <1>6 DEF MakeNewTunnelsDumped, D
      <4>1. CASE Registry = Self
        BY <4>1
      <4>2. CASE Registry # Self /\ Registry \in peers \cup Clients(s) \cup Served(s)
        BY <4>2
      <4>3. CASE /\ Registry # Self
                 /\ Registry \notin peers \cup Clients(s) \cup Served(s)
                 /\ s.disconnected = "recent" \/ peers = {}
        BY <4>3
      <4>4. CASE /\ Registry # Self
                 /\ Registry \notin peers \cup Clients(s) \cup Served(s)
                 /\ s.disconnected # "recent" /\ peers # {}
        <5>1. r \in FromDistant(s2) \cup Added \cup (UNION {Then(t) : t \in Booted})
          BY <4>4 DEF Added, Then, Booted
        <5> QED
          BY <5>1
      <4> QED
        BY <4>1, <4>2, <4>3, <4>4
    <3> QED
      BY <3>1
  <2> HIDE DEF s1, s2, s3
  <2>3. CASE r \in FromCache(s1, peers) \cup FromDistant(s1)
    <3>1. Good(r) /\ Fits(r) /\ Tracks(s1, r)
      BY <1>3, <2>1, <2>3, FromCacheGood, FromDistantGood, FitsRoom DEF Idle
    <3> QED
      BY <1>3, <3>1, TracksMore
  <2>4. CASE r \in FromDistant(s3) \cup FromDistant(s2) \cup FromCache(s2, {})
    <3>1. Good(r) /\ Fits(r) /\ (Tracks(s2, r) \/ Tracks(s3, r))
      BY <1>4, <2>1, <2>4, FromCacheGood, FromDistantGood, FitsRoom DEF Idle
    <3> QED
      BY <1>4, <3>1, TracksMore
  <2>5. ASSUME NEW b \in peers, r \in FromCache(AddPeer(s2, b), peers)
        PROVE  Good(r) /\ Fits(r) /\ Tracks(s, r)
    <3>1. /\ Idle(AddPeer(s2, b)) /\ Room(AddPeer(s2, b)) = Room(s)
          /\ Tracks(s2, AddPeer(s2, b))
      BY <1>4, AddGood DEF Idle
    <3>2. Idle(r) /\ Tracks(AddPeer(s2, b), r)
      BY <2>1, <2>5, <3>1, FromCacheGood
    <3>3. Tracks(s, AddPeer(s2, b))
      BY <1>4, <3>1, TracksMore
    <3>4. Tracks(s, r)
      BY <3>2, <3>3, TracksMore
    <3> QED
      BY <3>2, <3>4, FitsRoom DEF Idle
  <2>6. ASSUME NEW b \in Peer, NEW t \in Bootstrap(s2, b),
               r \in IF Room(t) = 0 THEN {t} ELSE FromCache(t, peers)
        PROVE  Good(r) /\ Fits(r) /\ Tracks(s, r)
    <3>1. Idle(t) /\ Tracks(s2, t)
      BY <1>4, <2>1, BootstrapGood DEF Idle
    <3>2. Room(t) \in Nat
      BY <3>1, FitsRoom DEF Idle
    <3>3. Idle(r) /\ Tracks(t, r)
      BY <2>6, <3>1, <3>2, FromCacheGood, SameEvents
    <3>4. Tracks(s, t)
      BY <1>4, <3>1, TracksMore
    <3>5. Tracks(s, r)
      BY <3>3, <3>4, TracksMore
    <3> QED
      BY <3>3, <3>5, FitsRoom DEF Idle
  <2> QED
    BY <2>2, <2>3, <2>4, <2>5, <2>6
<1> QED
  BY <1>5, <1>6

LEMMA NoDumpGood ==
  ASSUME NEW s, Good(s), Fits(s), NEW r \in MakeNewTunnelsNoDump(s)
  PROVE  /\ Good(r.state) /\ Fits(r.state) /\ r.more \in BOOLEAN
         /\ Tracks(s, r.state)
<1> DEFINE s1 == [s EXCEPT !.connecting = {}]
<1>1. s \in TMState
  BY DEF Good
<1>2. /\ s1 \in TMState /\ s1.conn = s.conn /\ s1.free = s.free
      /\ s1.served = s.served /\ s1.killing = s.killing /\ s1.connecting = {}
      /\ s1.events = s.events
  BY <1>1 DEF TMState
<1>3. Good(s1) /\ Idle(s1) /\ Tracks(s, s1)
  BY <1>2, SameTunnels, SameEvents DEF Idle
<1>4. \/ r = [state |-> s, more |-> FALSE]
      \/ r = [state |-> s1, more |-> TRUE]
      \/ \E t \in FromDistant(s1) : r = [state |-> t, more |-> FALSE]
  <2> HIDE DEF Good
  <2>1. MakeNewTunnelsNoDump(s) =
          IF Room(s) = 0 THEN {[state |-> s, more |-> FALSE]}
          ELSE IF Cardinality(s.distant) < Room(s) \/ s.disconnected = "old"
               THEN {[state |-> s1, more |-> TRUE]}
          ELSE {[state |-> t, more |-> FALSE] : t \in FromDistant(s1)}
    BY Zenon DEF MakeNewTunnelsNoDump
  <2> HIDE DEF s1
  <2> QED
    BY <2>1
<1> HIDE DEF s1
<1>5. Good(r.state) /\ Fits(r.state) /\ Tracks(s, r.state)
  <2>1. r.state = s \/ r.state = s1 \/ r.state \in FromDistant(s1)
    BY <1>4
  <2>2. r.state \in FromDistant(s1) => Tracks(s, r.state)
    BY <1>3, FromDistantGood, TracksMore
  <2> QED
    BY <1>3, <2>1, <2>2, FitsRoom, FromDistantGood, SameEvents
<1>6. r.more \in BOOLEAN
  <2>1. \E t : r = [state |-> t, more |-> TRUE] \/ r = [state |-> t, more |-> FALSE]
    BY <1>4
  <2>2. PICK t : r = [state |-> t, more |-> TRUE] \/ r = [state |-> t, more |-> FALSE]
    BY <2>1
  <2>3. CASE r = [state |-> t, more |-> TRUE]
    BY <2>3
  <2>4. CASE r = [state |-> t, more |-> FALSE]
    BY <2>4
  <2> QED
    BY <2>2, <2>3, <2>4
<1> QED
  BY <1>5, <1>6

-----------------------------------------------------------------------------
(***************************************************************************)
(* The other changes of an attribute.                                      *)
(***************************************************************************)

\* The process of a connection, or whether it is established.
LEMMA ProcessGood ==
  ASSUME NEW s, Good(s), Fits(s), NEW p \in Clients(s), NEW c \in ConnState,
         c.iface = s.conn[p].iface, c.naddr = s.conn[p].naddr,
         c.retry = s.conn[p].retry, c.proc # "none",
         NEW r \in TMState, r.conn = [s.conn EXCEPT ![p] = c],
         r.free = s.free, r.served = s.served, r.killing = s.killing,
         r.connecting = s.connecting
  PROVE  Good(r) /\ Fits(r)
<1>1. s \in TMState /\ p \in Peer
  BY DEF Good, Clients
<1>2. s.conn \in [Peer -> ConnState]
  BY <1>1 DEF TMState
<1>3. /\ r.conn[p] = c
      /\ \A q \in Peer \ {p} : r.conn[q] = s.conn[q]
  BY <1>1, <1>2
<1>4. Clients(r) = Clients(s)
  BY <1>1, <1>3 DEF Clients
<1>5. \A q \in Clients(s) : /\ r.conn[q].iface = s.conn[q].iface
                            /\ r.conn[q].naddr = s.conn[q].naddr
                            /\ r.conn[q].retry = s.conn[q].retry
  BY <1>3 DEF Clients
<1>6. Taps(r) = Taps(s)
  BY <1>4, <1>5 DEF Taps
<1>7. PoolOf(r)
  BY <1>4, <1>5, <1>6 DEF PoolOf, Good
<1>8. TriesOf(r)
  BY <1>4, <1>5 DEF TriesOf, Good
<1>9. OneWay(r) /\ KillersOf(r)
  BY <1>4 DEF OneWay, KillersOf, Served, Good
<1> QED
  BY <1>4, <1>7, <1>8, <1>9 DEF Good, Fits

\* Killers, and the tunnels to our servers.
LEMMA KillersGood ==
  ASSUME NEW s, Good(s), Fits(s), NEW r \in TMState,
         r.conn = s.conn, r.free = s.free, r.connecting = s.connecting,
         OneWay(r), KillersOf(r)
  PROVE  Good(r) /\ Fits(r) /\ Clients(r) = Clients(s)
<1>1. Clients(r) = Clients(s)
  BY DEF Clients
<1> QED
  BY <1>1 DEF Good, Fits, PoolOf, TriesOf, Taps

LEMMA KillFits ==
  ASSUME NEW s, Good(s), Fits(s), NEW K \in SUBSET Clients(s)
  PROVE  Good(Kill(s, K)) /\ Fits(Kill(s, K)) /\ Tracks(s, Kill(s, K))
<1> DEFINE r == Kill(s, K)
<1>1. /\ Good(r) /\ Room(s) <= Room(r) /\ r.connecting = s.connecting
      /\ Tracks(s, r)
  BY KillGood
<1> HIDE DEF r
<1>2. /\ Room(s) \in Nat /\ Room(r) \in Nat
      /\ Cardinality(s.connecting) \in Nat
      /\ Cardinality(s.connecting) <= Room(s)
  BY <1>1, FitsRoom
<1>3. Good(r) /\ Fits(r)
  BY <1>1, <1>2, FitsRoom
<1> QED
  BY <1>1, <1>3 DEF r

-----------------------------------------------------------------------------
(***************************************************************************)
(* The actions.                                                            *)
(***************************************************************************)
LEMMA StartedGood ==
  ASSUME NEW known \in SUBSET Peer, NEW s, s = Started(known)
  PROVE  /\ Good(s) /\ Fits(s)
         /\ s.events = {} /\ \A p \in Peer : ~ s.conn[p].up
<1>1. s = [conn |-> [p \in Peer |-> NoConn], free |-> ClientIface,
           served |-> [p \in Peer |-> {}],
           killing |-> [p \in Peer |-> NoKiller],
           connecting |-> {}, distant |-> {}, disconnected |-> "no",
           known |-> known, tried |-> {}, events |-> {}]
  BY DEF Started
<1>2. Clients(s) = {} /\ Served(s) = {}
  BY <1>1 DEF Clients, Served, NoConn
<1>3. s \in TMState
  <2>1. NoConn \in ConnState /\ NoKiller \in KillerState
    BY NoConnState DEF NoKiller, KillerState
  <2>2. /\ [p \in Peer |-> NoConn] \in [Peer -> ConnState]
        /\ [p \in Peer |-> NoKiller] \in [Peer -> KillerState]
        /\ [p \in Peer |-> {}] \in [Peer -> SUBSET ServerIface]
    BY <2>1
  <2> QED
    BY <1>1, <2>2 DEF TMState
<1>4. PoolOf(s) /\ TriesOf(s) /\ OneWay(s) /\ KillersOf(s)
  <2>1. s.free = ClientIface /\ \A p \in Peer : s.killing[p].state = "absent"
    BY <1>1 DEF NoKiller
  <2> QED
    BY <1>2, <2>1 DEF PoolOf, TriesOf, OneWay, KillersOf, Taps
<1>5. Idle(s)
  BY <1>1, <1>3, <1>4 DEF Idle, Good
<1>6. s.events = {} /\ \A p \in Peer : ~ s.conn[p].up
  BY <1>1 DEF NoConn
<1> QED
  BY <1>5, <1>6, FitsRoom DEF Idle

LEMMA InitGood == Init => IInv
<1> SUFFICES ASSUME Init PROVE IInv
  OBVIOUS
<1>1. PICK known \in SUBSET Peer : tm = Started(known)
  BY DEF Init
<1> QED
  BY <1>1, StartedGood DEF IInv, Init

LEMMA Moves ==
  ASSUME NEW s, tm' = s, Good(s), Fits(s), dumping' \in BOOLEAN
  PROVE  IInv'
BY DEF IInv, Good, Fits, PoolOf, TriesOf, OneWay, KillersOf, Taps, Clients, Served

LEMMA RefreshGood == IInv /\ Refresh => IInv' /\ Tracks(tm, tm')
<1> SUFFICES ASSUME IInv, Refresh PROVE IInv' /\ Tracks(tm, tm')
  OBVIOUS
<1> DEFINE s == CleanDeads(tm)
<1>1. Good(s) /\ Fits(s) /\ Tracks(tm, s)
  BY CleanDeadsGood DEF IInv
<1>2. \/ tm' = s /\ dumping' = TRUE
      \/ \E r \in MakeNewTunnelsNoDump(s) : tm' = r.state /\ dumping' = r.more
  BY DEF Refresh
<1> HIDE DEF s
<1>3. CASE tm' = s /\ dumping' = TRUE
  BY <1>1, <1>3, Moves
<1>4. ASSUME NEW r \in MakeNewTunnelsNoDump(s), tm' = r.state, dumping' = r.more
      PROVE  IInv' /\ Tracks(tm, tm')
  <2>1. /\ Good(r.state) /\ Fits(r.state) /\ r.more \in BOOLEAN
        /\ Tracks(s, r.state)
    BY <1>1, NoDumpGood
  <2>2. Tracks(tm, r.state)
    BY <1>1, <2>1, TracksMore
  <2> QED
    BY <1>4, <2>1, <2>2, Moves
<1> QED
  BY <1>2, <1>3, <1>4

LEMMA KillerStepsGood ==
  ASSUME NEW k \in KillerState, NEW b \in BOOLEAN, NEW c \in KillerSteps(k, b)
  PROVE  /\ c \in KillerState
         /\ c.client /\ c.state \in {"new", "locking", "locked"}
              => k.client /\ k.state \in {"new", "locking", "locked"}
<1>1. \/ c = NoKiller
      \/ k.state = "new" /\ c = NewKiller(b, k.client)
      \/ k.state = "locking" /\ c = [k EXCEPT !.state = "locked"]
      \/ c = k
  BY DEF KillerSteps, KillerState
<1>2. CASE c = NoKiller
  BY <1>2 DEF NoKiller, KillerState
<1>3. CASE k.state = "new" /\ c = NewKiller(b, k.client)
  BY <1>3 DEF NewKiller, KillerState
<1>4. CASE k.state = "locking" /\ c = [k EXCEPT !.state = "locked"]
  BY <1>4 DEF KillerState
<1> QED
  BY <1>1, <1>2, <1>3, <1>4

LEMMA BabelDumpGood == IInv /\ BabelDump => IInv' /\ Tracks(tm, tm')
<1> SUFFICES ASSUME IInv, BabelDump PROVE IInv' /\ Tracks(tm, tm')
  OBVIOUS
<1>1. PICK peers \in SUBSET Peer, remove \in BOOLEAN :
        \E neigh \in SUBSET peers : \E killers \in Killers(tm, neigh) :
        LET s == [tm EXCEPT !.killing = killers] IN
          IF remove
          THEN /\ EnoughTunnels(s)
               /\ \E p \in Lowest(s, neigh) :
                    tm' \in MakeNewTunnelsDumped(
                      [s EXCEPT !.killing[p] = NewKiller(p \in neigh, TRUE)],
                      neigh, peers)
          ELSE tm' \in MakeNewTunnelsDumped(s, neigh, peers)
  BY DEF BabelDump
<1>2. PICK neigh \in SUBSET peers : \E killers \in Killers(tm, neigh) :
        LET s == [tm EXCEPT !.killing = killers] IN
          IF remove
          THEN /\ EnoughTunnels(s)
               /\ \E p \in Lowest(s, neigh) :
                    tm' \in MakeNewTunnelsDumped(
                      [s EXCEPT !.killing[p] = NewKiller(p \in neigh, TRUE)],
                      neigh, peers)
          ELSE tm' \in MakeNewTunnelsDumped(s, neigh, peers)
  BY <1>1
<1>3. PICK killers \in Killers(tm, neigh) :
        LET s == [tm EXCEPT !.killing = killers] IN
          IF remove
          THEN /\ EnoughTunnels(s)
               /\ \E p \in Lowest(s, neigh) :
                    tm' \in MakeNewTunnelsDumped(
                      [s EXCEPT !.killing[p] = NewKiller(p \in neigh, TRUE)],
                      neigh, peers)
          ELSE tm' \in MakeNewTunnelsDumped(s, neigh, peers)
  BY <1>2
<1> DEFINE s == [tm EXCEPT !.killing = killers]
           t(p) == [s EXCEPT !.killing[p] = NewKiller(p \in neigh, TRUE)]
<1>4. tm \in TMState /\ Good(tm) /\ Fits(tm) /\ dumping' = FALSE
  BY DEF IInv, Good, BabelDump
<1>5. \/ tm' \in MakeNewTunnelsDumped(s, neigh, peers)
      \/ \E p \in Lowest(s, neigh) :
           tm' \in MakeNewTunnelsDumped(t(p), neigh, peers)
  <2> HIDE DEF t
  <2>1. CASE remove
    BY <1>3, <2>1 DEF t
  <2>2. CASE ~remove
    BY <1>3, <2>2
  <2> QED
    BY <2>1, <2>2
<1>6. /\ killers \in [Peer -> KillerState]
      /\ \A p \in Peer :
           killers[p].client /\ killers[p].state \in {"new", "locking", "locked"}
             => p \in Clients(tm)
  <2>1. \A p \in Peer : tm.killing[p] \in KillerState
    BY <1>4 DEF TMState
  <2>2. \A p \in Peer : killers[p] \in KillerSteps(tm.killing[p], p \in neigh)
    BY DEF Killers
  <2>3. ASSUME NEW p \in Peer
        PROVE  /\ killers[p] \in KillerState
               /\ killers[p].client /\ killers[p].state \in {"new", "locking", "locked"}
                    => /\ tm.killing[p].client
                       /\ tm.killing[p].state \in {"new", "locking", "locked"}
    <3> DEFINE b == p \in neigh
               k == tm.killing[p]
               c == killers[p]
    <3>1. k \in KillerState /\ b \in BOOLEAN /\ c \in KillerSteps(k, b)
      BY <2>1, <2>2
    <3>2. /\ c \in KillerState
          /\ c.client /\ c.state \in {"new", "locking", "locked"}
               => k.client /\ k.state \in {"new", "locking", "locked"}
      <4> HIDE DEF b, k, c
      <4> QED
        BY <3>1, KillerStepsGood
    <3> QED
      BY <3>2
  <2>4. killers = [p \in Peer |-> killers[p]]
    BY DEF Killers
  <2>5. killers \in [Peer -> KillerState]
    BY <2>3, <2>4
  <2> QED
    BY <2>3, <2>5, <1>4 DEF Good, KillersOf
<1>7. /\ s \in TMState /\ s.conn = tm.conn /\ s.free = tm.free
      /\ s.connecting = tm.connecting /\ s.served = tm.served
      /\ s.killing = killers /\ s.events = tm.events
  BY <1>4, <1>6 DEF TMState
<1> HIDE DEF s
<1>8. Good(s) /\ Fits(s) /\ Clients(s) = Clients(tm) /\ Tracks(tm, s)
  <2>1. Clients(s) = Clients(tm) /\ Served(s) = Served(tm)
    BY <1>7 DEF Clients, Served
  <2>2. OneWay(s) /\ KillersOf(s)
    BY <1>4, <1>6, <1>7, <2>1 DEF OneWay, KillersOf, Good
  <2> QED
    BY <1>4, <1>7, <2>2, KillersGood, SameEvents
<1>9. CASE tm' \in MakeNewTunnelsDumped(s, neigh, peers)
  <2>1. Good(tm') /\ Fits(tm') /\ Tracks(s, tm')
    BY <1>8, <1>9, DumpedGood
  <2>2. Tracks(tm, tm')
    BY <1>8, <2>1, TracksMore
  <2> QED
    BY <1>4, <2>1, <2>2, Moves
<1>10. ASSUME NEW p \in Lowest(s, neigh),
              tm' \in MakeNewTunnelsDumped(t(p), neigh, peers)
       PROVE  IInv' /\ Tracks(tm, tm')
  <2>1. p \in Clients(s) /\ p \in Peer
    BY DEF Lowest, Removable, Clients
  <2>2. NewKiller(p \in neigh, TRUE) \in KillerState
    BY DEF NewKiller, KillerState
  <2>3. /\ t(p) \in TMState /\ t(p).conn = s.conn /\ t(p).free = s.free
        /\ t(p).connecting = s.connecting /\ t(p).served = s.served
        /\ t(p).events = s.events
        /\ \A q \in Peer \ {p} : t(p).killing[q] = s.killing[q]
    BY <1>7, <2>1, <2>2 DEF TMState
  <2> HIDE DEF t
  <2>4. Clients(t(p)) = Clients(s) /\ Served(t(p)) = Served(s)
    BY <2>3 DEF Clients, Served
  <2>5. OneWay(t(p)) /\ KillersOf(t(p))
    BY <1>8, <2>1, <2>3, <2>4 DEF OneWay, KillersOf, Good
  <2>6. Good(t(p)) /\ Fits(t(p)) /\ Tracks(s, t(p))
    BY <1>8, <2>3, <2>5, KillersGood, SameEvents
  <2>7. Good(tm') /\ Fits(tm') /\ Tracks(t(p), tm')
    BY <1>10, <2>6, DumpedGood
  <2>8. Tracks(s, tm')
    BY <2>6, <2>7, TracksMore
  <2>9. Tracks(tm, tm')
    BY <1>8, <2>8, TracksMore
  <2> QED
    BY <1>4, <2>7, <2>9, Moves
<1> QED
  BY <1>5, <1>9, <1>10

LEMMA AddressReplyGood ==
  ASSUME NEW p \in Peer
  PROVE  IInv /\ AddressReply(p) => IInv' /\ Tracks(tm, tm')
<1> SUFFICES ASSUME IInv, AddressReply(p) PROVE IInv' /\ Tracks(tm, tm')
  OBVIOUS
<1> DEFINE s == AddPeer(tm, p)
           t == [s EXCEPT !.connecting = @ \ {p}]
<1>1. Good(tm) /\ Fits(tm) /\ dumping' \in BOOLEAN
  BY DEF IInv, AddressReply
<1>2. /\ Good(s) /\ Room(s) = Room(tm) /\ Eligible(s) = Eligible(tm)
      /\ s.connecting = tm.connecting /\ Tracks(tm, s)
  BY <1>1, AddGood
<1>3. \/ p \notin tm.connecting /\ tm' = s
      \/ /\ p \in tm.connecting
         /\ \E M \in SUBSET ({p} \cap Eligible(s)) : tm' \in MakeTunnels(t, {p}, M)
  BY DEF AddressReply
<1> HIDE DEF s
<1>4. /\ Room(s) \in Nat /\ Cardinality(tm.connecting) \in Nat
      /\ Cardinality(tm.connecting) <= Room(s)
  BY <1>1, <1>2, FitsRoom
<1>5. CASE p \notin tm.connecting /\ tm' = s
  BY <1>1, <1>2, <1>4, <1>5, FitsRoom, Moves
<1>6. CASE /\ p \in tm.connecting
           /\ \E M \in SUBSET ({p} \cap Eligible(s)) : tm' \in MakeTunnels(t, {p}, M)
  <2>1. PICK M \in SUBSET ({p} \cap Eligible(s)) : tm' \in MakeTunnels(t, {p}, M)
    BY <1>6
  <2>2. /\ t \in TMState /\ t.conn = s.conn /\ t.free = s.free
        /\ t.served = s.served /\ t.killing = s.killing
        /\ t.connecting = tm.connecting \ {p}
        /\ t.events = s.events
    BY <1>2 DEF Good, TMState
  <2> HIDE DEF t
  <2>3. /\ Good(t) /\ Room(t) = Room(s) /\ Eligible(t) = Eligible(s)
        /\ Tracks(s, t)
    BY <1>2, <2>2, SameTunnels, SameEvents
  <2>4. tm.connecting \subseteq Peer
    BY <1>1 DEF Good, TMState
  <2>5. /\ Cardinality(t.connecting) = Cardinality(tm.connecting) - 1
        /\ Cardinality(t.connecting) \in Nat
    BY <1>6, <2>2, <2>4, PeerSets, FS_RemoveElement
  <2>6. Cardinality(M) <= 1 /\ Cardinality(M) \in Nat
    <3>1. IsFiniteSet({p}) /\ Cardinality({p}) = 1
      BY FS_Singleton
    <3>2. M \subseteq {p}
      OBVIOUS
    <3> QED
      BY <3>1, <3>2, FS_Subset, FS_CardinalityType
  <2>7. /\ Good(tm') /\ Room(tm') = Room(t) - Cardinality(M)
        /\ tm'.connecting = t.connecting /\ Tracks(t, tm')
    BY <1>4, <2>1, <2>3, <2>5, <2>6, MakeGood
  <2>8. Fits(tm')
    BY <1>4, <2>3, <2>5, <2>6, <2>7, FitsRoom
  <2>9. Tracks(s, tm')
    BY <2>3, <2>7, TracksMore
  <2>10. Tracks(tm, tm')
    BY <1>2, <2>9, TracksMore
  <2> QED
    BY <1>1, <2>7, <2>8, <2>10, Moves
<1> QED
  BY <1>3, <1>5, <1>6

LEMMA KillRequestGood ==
  ASSUME NEW p \in Peer
  PROVE  IInv /\ KillRequest(p) => IInv' /\ Tracks(tm, tm')
<1> SUFFICES ASSUME IInv, KillRequest(p) PROVE IInv' /\ Tracks(tm, tm')
  OBVIOUS
<1>1. Good(tm) /\ Fits(tm) /\ tm \in TMState /\ dumping' \in BOOLEAN
  BY DEF IInv, Good, KillRequest
<1>2. PICK neighbour \in BOOLEAN :
        tm' = [tm EXCEPT !.killing[p] = NewKiller(neighbour, FALSE)]
  BY DEF KillRequest
<1>3. /\ NewKiller(neighbour, FALSE) \in KillerState
      /\ NewKiller(neighbour, FALSE).client = FALSE
  BY DEF NewKiller, KillerState
<1>4. /\ tm' \in TMState /\ tm'.conn = tm.conn /\ tm'.free = tm.free
      /\ tm'.connecting = tm.connecting /\ tm'.served = tm.served
      /\ tm'.events = tm.events
      /\ tm'.killing[p].client = FALSE
      /\ \A q \in Peer \ {p} : tm'.killing[q] = tm.killing[q]
  BY <1>1, <1>2, <1>3 DEF TMState
<1>5. Clients(tm') = Clients(tm) /\ Served(tm') = Served(tm)
  BY <1>4 DEF Clients, Served
<1>6. OneWay(tm') /\ KillersOf(tm')
  BY <1>1, <1>4, <1>5 DEF OneWay, KillersOf, Good
<1>7. Good(tm') /\ Fits(tm')
  BY <1>1, <1>4, <1>6, KillersGood
<1> QED
  BY <1>1, <1>4, <1>7, Moves, SameEvents

LEMMA KillResponseGood ==
  ASSUME NEW p \in Peer
  PROVE  IInv /\ KillResponse(p) => IInv' /\ Tracks(tm, tm')
<1> SUFFICES ASSUME IInv, KillResponse(p) PROVE IInv' /\ Tracks(tm, tm')
  OBVIOUS
<1>1. Good(tm) /\ Fits(tm) /\ dumping' \in BOOLEAN
  BY DEF IInv, KillResponse
<1>2. CASE p \in Clients(tm)
  <2>1. {p} \in SUBSET Clients(tm) /\ tm' = Kill(tm, {p})
    BY <1>2 DEF KillResponse
  <2> QED
    BY <1>1, <2>1, KillFits, Moves
<1>3. CASE p \notin Clients(tm)
  <2>1. tm.known \in SUBSET Peer /\ tm' = Started(tm.known)
    BY <1>1, <1>3 DEF KillResponse, Good, TMState
  <2>2. PICK s : s = Started(tm.known)
    OBVIOUS
  <2>3. /\ Good(s) /\ Fits(s) /\ tm' = s
        /\ s.events = {} /\ \A q \in Peer : ~ s.conn[q].up
    BY <2>1, <2>2, StartedGood
  <2>4. Tracks(tm, s)
    BY <2>3 DEF Tracks, Recent
  <2> QED
    BY <1>1, <2>3, <2>4, Moves
<1> QED
  BY <1>2, <1>3

LEMMA ClientConnectGood ==
  ASSUME NEW p \in Peer, NEW i \in ServerIface
  PROVE  IInv /\ ClientConnect(p, i) => IInv' /\ Tracks(tm, tm')
<1> SUFFICES ASSUME IInv, ClientConnect(p, i) PROVE IInv' /\ Tracks(tm, tm')
  OBVIOUS
<1> DEFINE s == [tm EXCEPT !.served[p] = @ \cup {i}]
           k == IF p \in Clients(tm) /\ p \in Higher THEN Kill(tm, {p}) ELSE tm
<1>1. Good(tm) /\ Fits(tm) /\ tm \in TMState /\ dumping' \in BOOLEAN
  BY DEF IInv, Good, ClientConnect
<1>2. Clients(s) = Clients(tm)
  BY <1>1 DEF Clients, TMState
<1>3. /\ Good(k) /\ Fits(k) /\ k \in TMState
      /\ p \in Higher => p \notin Clients(k)
      /\ k.served = tm.served /\ k.connecting = tm.connecting
      /\ Tracks(tm, k)
  <2>1. CASE p \in Clients(tm) /\ p \in Higher
    <3>1. k = Kill(tm, {p}) /\ {p} \in SUBSET Clients(tm)
      BY <2>1
    <3>2. Good(k) /\ Fits(k) /\ Tracks(tm, k)
      BY <1>1, <3>1, KillFits
    <3>3. Clients(k) = Clients(tm) \ {p} /\ k.connecting = tm.connecting
      BY <1>1, <3>1, KillGood
    <3>4. k.served = tm.served
      BY <1>1, <3>1 DEF Kill, TMState
    <3> QED
      BY <3>2, <3>3, <3>4 DEF Good
  <2>2. CASE ~(p \in Clients(tm) /\ p \in Higher)
    BY <1>1, <2>2, SameEvents
  <2> QED
    BY <2>1, <2>2
<1>4. /\ tm' \in TMState /\ tm'.conn = k.conn /\ tm'.free = k.free
      /\ tm'.killing = k.killing /\ tm'.connecting = k.connecting
      /\ tm'.events = k.events
      /\ \A q \in Peer \ {p} : tm'.served[q] = tm.served[q]
  <2>1. s \in TMState /\ tm.served[p] \cup {i} \subseteq ServerIface
    BY <1>1 DEF TMState
  <2>2. CASE p \in Clients(tm) /\ p \in Higher
    <3>1. tm' = [Kill(s, {p}) EXCEPT !.tried = @ \ {p}]
      BY <1>2, <2>2 DEF ClientConnect
    <3> DEFINE w == Kill(s, {p})
    <3>2. k = Kill(tm, {p})
      BY <2>2
    <3>3. /\ s.conn = tm.conn /\ s.free = tm.free /\ s.killing = tm.killing
          /\ s.connecting = tm.connecting
          /\ s.distant = tm.distant /\ s.disconnected = tm.disconnected
          /\ s.known = tm.known /\ s.tried = tm.tried /\ s.events = tm.events
          /\ s.served \in [Peer -> SUBSET ServerIface]
          /\ \A q \in Peer \ {p} : s.served[q] = tm.served[q]
      BY <1>1, <2>1 DEF TMState
    <3> HIDE DEF s, k
    <3>4. w = [k EXCEPT !.served = s.served]
      <4> DEFINE C == [q \in Peer |-> IF q \in {p} THEN NoConn ELSE tm.conn[q]]
                 F == tm.free \cup {tm.conn[q].iface : q \in {p}}
                 A == [q \in Peer |-> IF q \in {p} THEN Aborted(tm.killing[q])
                                      ELSE tm.killing[q]]
      <4>1. k = [tm EXCEPT !.conn = C, !.free = F, !.killing = A]
        BY <3>2 DEF Kill
      <4>2. w = [s EXCEPT !.conn = C, !.free = F, !.killing = A]
        BY <3>3 DEF Kill
      <4> HIDE DEF C, F, A, w
      <4> QED
        BY <1>1, <2>1, <3>3, <4>1, <4>2 DEF TMState
    <3> HIDE DEF w
    <3>5. tm' = [w EXCEPT !.tried = @ \ {p}]
      BY <3>1 DEF w
    <3>6. /\ tm' \in TMState /\ tm'.conn = k.conn /\ tm'.free = k.free
          /\ tm'.killing = k.killing /\ tm'.connecting = k.connecting
          /\ tm'.served = s.served /\ tm'.events = k.events
      BY <1>3, <3>3, <3>4, <3>5 DEF TMState
    <3> QED
      BY <3>3, <3>6
  <2>3. CASE ~(p \in Clients(tm) /\ p \in Higher)
    <3>1. tm' = s
      BY <1>2, <2>3 DEF ClientConnect
    <3> QED
      BY <1>1, <2>1, <2>3, <3>1 DEF TMState
  <2> QED
    BY <2>2, <2>3
<1> HIDE DEF k, s
<1>5. Clients(tm') = Clients(k)
  BY <1>4 DEF Clients
<1>6. OneWay(tm') /\ KillersOf(tm')
  BY <1>3, <1>4, <1>5 DEF OneWay, KillersOf, Good, Served
<1>7. Good(tm') /\ Fits(tm')
  BY <1>3, <1>4, <1>6, KillersGood
<1>8. Tracks(k, tm')
  BY <1>4, SameEvents
<1>9. Tracks(tm, tm')
  BY <1>3, <1>8, TracksMore
<1> QED
  BY <1>1, <1>7, <1>9, Moves

LEMMA ClientDisconnectGood ==
  ASSUME NEW p \in Peer, NEW i \in ServerIface
  PROVE  IInv /\ ClientDisconnect(p, i) => IInv' /\ Tracks(tm, tm')
<1> SUFFICES ASSUME IInv, ClientDisconnect(p, i) PROVE IInv' /\ Tracks(tm, tm')
  OBVIOUS
<1>1. Good(tm) /\ Fits(tm) /\ tm \in TMState /\ dumping' \in BOOLEAN
  BY DEF IInv, Good, ClientDisconnect
<1>2. PICK k \in {tm.killing[p], Aborted(tm.killing[p])} :
        tm' = [tm EXCEPT !.served[p] = @ \ {i}, !.killing[p] = k]
  BY DEF ClientDisconnect
<1>3. /\ tm.killing[p] \in KillerState /\ k \in KillerState
      /\ k = tm.killing[p] \/ k.state \in {"absent", "unlocking"}
  BY <1>1, AbortedState DEF TMState
<1>4. /\ tm' \in TMState /\ tm'.conn = tm.conn /\ tm'.free = tm.free
      /\ tm'.connecting = tm.connecting /\ tm'.events = tm.events
      /\ \A q \in Peer : tm'.served[q] \subseteq tm.served[q]
      /\ \A q \in Peer :
           tm'.killing[q] = tm.killing[q]
             \/ tm'.killing[q].state \in {"absent", "unlocking"}
  <2>1. tm.served[p] \ {i} \in SUBSET ServerIface
    BY <1>1 DEF TMState
  <2> QED
    BY <1>1, <1>2, <1>3, <2>1 DEF TMState
<1>5. Clients(tm') = Clients(tm) /\ Served(tm') \subseteq Served(tm)
  BY <1>4 DEF Clients, Served
<1>6. OneWay(tm') /\ KillersOf(tm')
  BY <1>1, <1>4, <1>5 DEF OneWay, KillersOf, Good
<1>7. Good(tm') /\ Fits(tm')
  BY <1>1, <1>4, <1>6, KillersGood
<1> QED
  BY <1>1, <1>4, <1>7, Moves, SameEvents

\* What only changes attributes that the invariant does not depend on.
LEMMA OthersGood ==
  ASSUME NEW s, Good(s), Fits(s), NEW r \in TMState,
         r.conn = s.conn, r.free = s.free, r.served = s.served,
         r.killing = s.killing, r.connecting = s.connecting
  PROVE  Good(r) /\ Fits(r)
BY SameTunnels DEF Fits

\* A recent notification of the connection that is established was received.
Established(e) ==
  /\ Recent(tm) => Recent(tm')
  /\ e \in tm.events /\ e \notin tm'.events
  /\ e.peer \in Clients(tm) /\ ~e.stale
  /\ \A q \in Peer : tm'.conn[q].up => tm.conn[q].up \/ q = e.peer

LEMMA ClientEventGood ==
  ASSUME NEW e \in tm.events
  PROVE  IInv /\ ClientEvent(e) => IInv' /\ (Tracks(tm, tm') \/ Established(e))
<1> SUFFICES ASSUME IInv, ClientEvent(e) PROVE IInv' /\ (Tracks(tm, tm') \/ Established(e))
  OBVIOUS
<1> DEFINE s == [tm EXCEPT !.events = @ \ {e}]
           p == e.peer
<1>1. Good(tm) /\ Fits(tm) /\ tm \in TMState /\ dumping' \in BOOLEAN
  BY DEF IInv, Good, ClientEvent
<1>2. /\ s \in TMState /\ s.conn = tm.conn /\ s.free = tm.free
      /\ s.served = tm.served /\ s.killing = tm.killing
      /\ s.connecting = tm.connecting /\ s.events = tm.events \ {e}
  BY <1>1 DEF TMState
<1>3. \/ tm' = s
      \/ p \in Clients(tm) /\ ~e.stale /\ tm' \in Connected(s, p)
  BY DEF ClientEvent
<1> HIDE DEF s, p
<1>4. Good(s) /\ Fits(s) /\ Clients(s) = Clients(tm) /\ Tracks(tm, s)
  <2>1. Good(s) /\ Fits(s) /\ Clients(s) = Clients(tm)
    BY <1>1, <1>2, OthersGood, SameTunnels
  <2> QED
    BY <1>2, <2>1 DEF Tracks, Recent
<1>5. CASE tm' = s
  BY <1>1, <1>4, <1>5, Moves
<1>6. CASE p \in Clients(tm) /\ tm' = Kill(s, {p})
  <2>1. {p} \in SUBSET Clients(s)
    BY <1>4, <1>6
  <2>2. Good(tm') /\ Fits(tm') /\ Tracks(s, tm')
    BY <1>4, <1>6, <2>1, KillFits
  <2>3. Tracks(tm, tm')
    BY <1>4, <2>2, TracksMore
  <2> QED
    BY <1>1, <2>2, <2>3, Moves
<1>7. CASE /\ p \in Clients(tm) /\ ~e.stale
           /\ tm' = [s EXCEPT !.conn[p].up = TRUE, !.tried = @ \ {p}]
  <2> DEFINE c == [s.conn[p] EXCEPT !.up = TRUE]
  <2>1. p \in Peer /\ p \in Clients(s) /\ s.conn[p] \in ConnState
        /\ s.conn[p].proc # "none"
    BY <1>2, <1>4, <1>7 DEF Clients, TMState
  <2>2. /\ c \in ConnState /\ c.iface = s.conn[p].iface
        /\ c.naddr = s.conn[p].naddr /\ c.retry = s.conn[p].retry
        /\ c.proc # "none"
    BY <2>1 DEF ConnState
  <2>3. tm' = [s EXCEPT !.conn[p] = c, !.tried = @ \ {p}]
    BY <1>7
  <2> HIDE DEF c
  <2>4. /\ tm' \in TMState /\ tm'.conn = [s.conn EXCEPT ![p] = c]
        /\ tm'.free = s.free /\ tm'.served = s.served
        /\ tm'.killing = s.killing /\ tm'.connecting = s.connecting
        /\ tm'.events = s.events
    BY <1>2, <2>1, <2>2, <2>3 DEF TMState
  <2>5. Good(tm') /\ Fits(tm')
    BY <1>4, <2>1, <2>2, <2>4, ProcessGood
  <2>6. Established(e)
    <3>1. /\ tm'.conn[p] = c
          /\ \A q \in Peer \ {p} : tm'.conn[q] = tm.conn[q]
      BY <1>1, <1>2, <2>1, <2>4 DEF TMState
    <3>2. \A q \in Peer : tm'.conn[q].retry = tm.conn[q].retry
      BY <1>2, <2>2, <3>1
    <3>3. Clients(tm') = Clients(tm)
      BY <1>2, <1>4, <2>1, <2>2, <3>1 DEF Clients
    <3>4. Clients(tm) \subseteq Peer
      BY DEF Clients
    <3>5. Recent(tm) => Recent(tm')
      BY <1>2, <2>4, <3>2, <3>3, <3>4 DEF Recent
    <3> QED
      BY <1>2, <1>7, <2>4, <3>1, <3>5 DEF Established, p
  <2> QED
    BY <1>1, <2>5, <2>6, Moves
<1> QED
  BY <1>3, <1>5, <1>6, <1>7 DEF Connected

LEMMA RevokeGood ==
  ASSUME NEW K \in SUBSET Peer
  PROVE  IInv /\ Revoke(K) => IInv' /\ Tracks(tm, tm')
<1> SUFFICES ASSUME IInv, Revoke(K) PROVE IInv' /\ Tracks(tm, tm')
  OBVIOUS
<1>1. /\ Good(tm) /\ Fits(tm) /\ dumping' \in BOOLEAN /\ tm' = Kill(tm, K)
      /\ K \in SUBSET Clients(tm)
  BY DEF IInv, Revoke
<1> QED
  BY <1>1, KillFits, Moves

LEMMA RouteUpGood ==
  ASSUME NEW p \in Peer
  PROVE  IInv /\ RouteUp(p) => IInv' /\ Tracks(tm, tm')
<1> SUFFICES ASSUME IInv, RouteUp(p) PROVE IInv' /\ Tracks(tm, tm')
  OBVIOUS
<1> DEFINE c == [tm.conn[p] EXCEPT !.proc = "routed"]
           e == [peer |-> p, addr |-> tm.conn[p].retry, stale |-> FALSE]
<1>1. Good(tm) /\ Fits(tm) /\ tm \in TMState /\ dumping' \in BOOLEAN
  BY DEF IInv, Good, RouteUp
<1>2. p \in Clients(tm) /\ tm.conn[p] \in ConnState
  BY <1>1 DEF RouteUp, Clients, TMState
<1>3. /\ c \in ConnState /\ c.iface = tm.conn[p].iface
      /\ c.naddr = tm.conn[p].naddr /\ c.retry = tm.conn[p].retry
      /\ c.proc # "none" /\ c.up = tm.conn[p].up
  BY <1>2 DEF ConnState
<1>4. e \in Event /\ (e.peer = p /\ e.addr = tm.conn[p].retry)
  <2>1. tm.conn[p].retry \in 1 .. tm.conn[p].naddr
    BY <1>1, <1>2 DEF Good, TriesOf
  <2>2. tm.conn[p].naddr \in 0 .. MaxAddr
    BY <1>2 DEF ConnState
  <2>3. tm.conn[p].retry \in 1 .. MaxAddr
    BY <2>1, <2>2, Names
  <2> QED
    BY <2>3 DEF Event
<1>5. tm' = [tm EXCEPT !.conn[p] = c, !.events = @ \cup {e}]
  BY DEF RouteUp
<1> HIDE DEF c, e
<1>6. /\ tm' \in TMState /\ tm'.conn = [tm.conn EXCEPT ![p] = c]
      /\ tm'.free = tm.free /\ tm'.served = tm.served
      /\ tm'.killing = tm.killing /\ tm'.connecting = tm.connecting
      /\ tm'.events = tm.events \cup {e}
  BY <1>1, <1>3, <1>4, <1>5 DEF TMState
<1>7. Good(tm') /\ Fits(tm')
  BY <1>1, <1>2, <1>3, <1>6, ProcessGood
<1>8. Tracks(tm, tm')
  <2>1. /\ tm'.conn[p] = c
        /\ \A q \in Peer \ {p} : tm'.conn[q] = tm.conn[q]
    BY <1>1, <1>6 DEF TMState
  <2>2. \A q \in Peer : tm'.conn[q].retry = tm.conn[q].retry
                         /\ (tm'.conn[q].up => tm.conn[q].up)
    BY <1>3, <2>1
  <2>3. Clients(tm') = Clients(tm)
    BY <1>2, <1>3, <2>1 DEF Clients
  <2>4. Clients(tm) \subseteq Peer
    BY DEF Clients
  <2> QED
    BY <1>4, <1>6, <2>2, <2>3, <2>4 DEF Tracks, Recent
<1> QED
  BY <1>1, <1>7, <1>8, Moves

LEMMA ProcessEndsGood ==
  ASSUME NEW p \in Peer
  PROVE  IInv /\ ProcessEnds(p) => IInv' /\ Tracks(tm, tm')
<1> SUFFICES ASSUME IInv, ProcessEnds(p) PROVE IInv' /\ Tracks(tm, tm')
  OBVIOUS
<1> DEFINE c == [tm.conn[p] EXCEPT !.proc = "dead"]
<1>1. Good(tm) /\ Fits(tm) /\ tm \in TMState /\ dumping' \in BOOLEAN
  BY DEF IInv, Good, ProcessEnds
<1>2. p \in Clients(tm) /\ tm.conn[p] \in ConnState
  BY <1>1 DEF ProcessEnds, Clients, TMState
<1>3. /\ c \in ConnState /\ c.iface = tm.conn[p].iface
      /\ c.naddr = tm.conn[p].naddr /\ c.retry = tm.conn[p].retry
      /\ c.proc # "none" /\ c.up = tm.conn[p].up
  BY <1>2 DEF ConnState
<1>4. tm' = [tm EXCEPT !.conn[p] = c]
  BY DEF ProcessEnds
<1> HIDE DEF c
<1>5. /\ tm' \in TMState /\ tm'.conn = [tm.conn EXCEPT ![p] = c]
      /\ tm'.free = tm.free /\ tm'.served = tm.served
      /\ tm'.killing = tm.killing /\ tm'.connecting = tm.connecting
      /\ tm'.events = tm.events
  BY <1>1, <1>3, <1>4 DEF TMState
<1>6. Good(tm') /\ Fits(tm')
  BY <1>1, <1>2, <1>3, <1>5, ProcessGood
<1>7. Tracks(tm, tm')
  <2>1. /\ tm'.conn[p] = c
        /\ \A q \in Peer \ {p} : tm'.conn[q] = tm.conn[q]
    BY <1>1, <1>5 DEF TMState
  <2>2. \A q \in Peer : tm'.conn[q].retry = tm.conn[q].retry
                         /\ (tm'.conn[q].up => tm.conn[q].up)
    BY <1>3, <2>1
  <2>3. Clients(tm') = Clients(tm)
    BY <1>2, <1>3, <2>1 DEF Clients
  <2>4. Clients(tm) \subseteq Peer
    BY DEF Clients
  <2> QED
    BY <1>5, <2>2, <2>3, <2>4 DEF Tracks, Recent
<1> QED
  BY <1>1, <1>6, <1>7, Moves

LEMMA BootstrapDelayOverGood == IInv /\ BootstrapDelayOver => IInv' /\ Tracks(tm, tm')
<1> SUFFICES ASSUME IInv, BootstrapDelayOver PROVE IInv' /\ Tracks(tm, tm')
  OBVIOUS
<1>1. Good(tm) /\ Fits(tm) /\ tm \in TMState /\ dumping' \in BOOLEAN
  BY DEF IInv, Good, BootstrapDelayOver
<1>2. /\ tm' \in TMState /\ tm'.conn = tm.conn /\ tm'.free = tm.free
      /\ tm'.served = tm.served /\ tm'.killing = tm.killing
      /\ tm'.connecting = tm.connecting /\ tm'.events = tm.events
  BY <1>1 DEF BootstrapDelayOver, TMState
<1> QED
  BY <1>1, <1>2, OthersGood, Moves, SameEvents

-----------------------------------------------------------------------------
LEMMA Inductive ==
  IInv /\ [Next]_vars
    => IInv' /\ (Tracks(tm, tm') \/ \E e \in tm.events : Established(e))
<1> SUFFICES ASSUME IInv, [Next]_vars
             PROVE  /\ IInv'
                    /\ Tracks(tm, tm') \/ \E e \in tm.events : Established(e)
  OBVIOUS
<1>1. CASE UNCHANGED vars
  BY <1>1, Moves, SameEvents DEF vars, IInv
<1>2. CASE Refresh \/ BabelDump \/ BootstrapDelayOver
  BY <1>2, RefreshGood, BabelDumpGood, BootstrapDelayOverGood
<1>3. ASSUME NEW p \in Peer,
             \/ AddressReply(p) \/ KillRequest(p) \/ KillResponse(p)
             \/ RouteUp(p) \/ ProcessEnds(p)
      PROVE  IInv' /\ Tracks(tm, tm')
  BY <1>3, AddressReplyGood, KillRequestGood, KillResponseGood, RouteUpGood,
     ProcessEndsGood
<1>4. ASSUME NEW p \in Peer, NEW i \in ServerIface,
             ClientConnect(p, i) \/ ClientDisconnect(p, i)
      PROVE  IInv' /\ Tracks(tm, tm')
  BY <1>4, ClientConnectGood, ClientDisconnectGood
<1>5. ASSUME NEW e \in tm.events, ClientEvent(e)
      PROVE  IInv' /\ (Tracks(tm, tm') \/ Established(e))
  BY <1>5, ClientEventGood
<1>6. ASSUME NEW K \in SUBSET Peer, Revoke(K)
      PROVE  IInv' /\ Tracks(tm, tm')
  BY <1>6, RevokeGood
<1> QED
  BY <1>1, <1>2, <1>3, <1>4, <1>5, <1>6 DEF Next

THEOREM AlwaysGood == Spec => []IInv
BY InitGood, Inductive, PTL DEF Spec

\* The pool of taps is a partition that is never exhausted nor leaks, and
\* tunnels and pending requests never exceed client_count, for any number of
\* peers and taps, whatever the order of callbacks.
THEOREM PoolIsSafe == Spec => []SafePool
<1>1. IInv => SafePool
  BY DEF IInv, Good, Fits, PoolOf, Taps, SafePool, TypeOK, PoolPartition,
     BoundedTunnels
<1> QED
  BY <1>1, AlwaysGood, PTL

\* Two nodes do not keep a tunnel in each direction, whoever connected first.
THEOREM OneTunnel == Spec => []OneTunnelPerPeer
<1>1. IInv => OneTunnelPerPeer
  BY DEF IInv, Good, OneWay, OneTunnelPerPeer
<1> QED
  BY <1>1, AlwaysGood, PTL

\* A killer always has the tunnel it may cut, whatever ended in the meantime.
THEOREM KillersHaveTunnels == Spec => []KillerHasTunnel
<1>1. IInv => KillerHasTunnel
  BY DEF IInv, Good, KillersOf, KillerHasTunnel
<1> QED
  BY <1>1, AlwaysGood, PTL

\* The address recorded as good for a peer is the one that its tunnel was
\* established with, however late notifications are, and whatever other address
\* was tried or connection made meanwhile (Connection.open and connected).
THEOREM RightAddresses == Spec => GoodAddress
<1> DEFINE Was(p) == \E e \in tm.events : /\ e.peer = p
                                          /\ e.addr = tm.conn[p].retry
                                          /\ e \notin tm'.events
<1>1. Init => Recent(tm)
  <2>1. ASSUME NEW known PROVE Started(known).events = {}
    BY DEF Started
  <2>2. Init => tm.events = {}
    BY <2>1 DEF Init
  <2> QED
    BY <2>2 DEF Recent
<1>2. IInv /\ Recent(tm) /\ [Next]_vars => Recent(tm)'
  BY Inductive DEF Tracks, Established, Recent, Clients
<1>3. IInv /\ Recent(tm) /\ [Next]_vars
        => [\A p \in Peer : tm'.conn[p].up /\ ~tm.conn[p].up => Was(p)]_vars
  <2> SUFFICES ASSUME IInv, Recent(tm), [Next]_vars, NEW p \in Peer,
                      tm'.conn[p].up, ~tm.conn[p].up
               PROVE  Was(p)
    OBVIOUS
  <2>1. PICK e \in tm.events : Established(e)
    BY Inductive DEF Tracks
  <2>2. e.peer = p
    BY <2>1 DEF Established
  <2>3. e.addr = tm.conn[p].retry
    BY <2>1, <2>2 DEF Established, Recent
  <2> QED
    BY <2>1, <2>2, <2>3 DEF Established
<1> QED
  BY <1>1, <1>2, <1>3, AlwaysGood, PTL DEF Spec, GoodAddress

-----------------------------------------------------------------------------
(***************************************************************************)
(* BabelControl, for packets and headers of any size.                      *)
(*                                                                         *)
(* Each direction is one sequence of bytes, from the socket to the buffer: *)
(* whole packets in their order (Stuff, Whole).  The buffer of _read starts*)
(* where a header or a body does (Aligned), which the loop keeps: one turn *)
(* is TurnTaken, the loop LoopOf.  Of the bytes that may still come, only  *)
(* those of the pending dump are asked for (Asked).                        *)
(***************************************************************************)

\* What was received and not decoded, or is to be received; what is to be sent,
\* or was and babeld has not read.
Incoming == Left(read_buffer) \o down
Outgoing == up \o Left(write_buffer)

ByteOK(x) == x \in Byte /\ x.n >= 1 /\ x.i \in 1 .. Header + x.n

\* How many bytes of its packet are after it.
After(x) == Header + x.n - x.i

\* Packets one after another: within one, bytes are numbered; the next one has
\* the next number.
Chained(s) ==
  \A k, l \in 1 .. Len(s) : k <= l =>
    IF l - k <= After(s[k])
    THEN s[l].p = s[k].p /\ s[l].n = s[k].n /\ s[l].i = s[k].i + (l - k)
    ELSE /\ s[l].p > s[k].p
         /\ l - k = After(s[k]) + 1 => s[l].p = s[k].p + 1 /\ s[l].i = 1

Stuff(s) == s \in Seq(Byte) /\ (\A k \in 1 .. Len(s) : ByteOK(s[k])) /\ Chained(s)

Ends(s, p) ==
  s # <<>> => LET x == s[Len(s)] IN x.p = p /\ x.i = Header + x.n

\* The body of a packet is expected next.
Body == decode /\ ~split

Buffers ==
  /\ ControlTypeOK
  /\ read_buffer.buf # <<>> => read_buffer.r < Len(read_buffer.buf)
  /\ write_buffer.buf # <<>> => write_buffer.r < Len(write_buffer.buf)
  /\ Stuff(Incoming)
  /\ socket # "open" => up = <<>>
  /\ socket = "none" => Incoming = <<>> /\ Outgoing = <<>>

Whole ==
  socket = "open" =>
    /\ Stuff(Outgoing)
    /\ \A k \in 1 .. Len(Outgoing) : Outgoing[k].n = 1
    /\ Outgoing # <<>> => Outgoing[1].i = 1
    /\ Ends(Outgoing, packets)
    /\ Ends(Incoming, IF Outgoing = <<>> THEN packets ELSE Outgoing[1].p - 1)

\* What is decoded starts where a header or a body does.
Aligned ==
  /\ garbled => split
  /\ split => decode /\ client = "registry"
  /\ Incoming # <<>> => Incoming[1].i = IF Body THEN Header + 1 ELSE 1
  /\ Body => socket # "none" /\ (socket = "open" => Incoming # <<>>)
  /\ ~Body => read_buffer.w = read_buffer.r + Header
  /\ Body /\ Incoming # <<>> => read_buffer.w = read_buffer.r + Incoming[1].n
  /\ Body => read_buffer.w > read_buffer.r
  /\ garbled <=> Ready(read_buffer)

\* The bytes that may be read one day, of requests or answers.
Live == socket = "open" \/ down # <<>>
Numbers(s) == {s[k].p : k \in 1 .. Len(s)}
Pending == Numbers(Incoming) \cup Numbers(Outgoing)

\* Only the dump of the pending request may be answered, if anything still is.
Asked ==
  /\ \A p \in Pending : p <= packets
  /\ \A p \in Numbers(Incoming), q \in Numbers(Outgoing) : p < q
  /\ client = "registry" => \A p \in 1 .. packets : p \in dumps
  /\ client = "node" => call \in {"idle", "first"}
  /\ call = "again" => socket = "none"
  /\ since <= packets + 1 /\ (call # "idle" => since \in 1 .. packets)
  /\ Live /\ ~garbled =>
       /\ \A p \in Pending \cap dumps : Waits /\ p >= since
       /\ \A p, q \in Pending \cap dumps : p = q

ControlInv == Buffers /\ Whole /\ Aligned /\ Asked

-----------------------------------------------------------------------------
(* Streams. *)

LEMMA Joined ==
  ASSUME NEW s \in Seq(Byte), NEW t \in Seq(Byte), NEW u, u = s \o t
  PROVE  /\ u \in Seq(Byte) /\ Len(u) = Len(s) + Len(t)
         /\ \A k \in 1 .. Len(s) : u[k] = s[k]
         /\ \A k \in 1 .. Len(t) : u[Len(s) + k] = t[k]
         /\ \A k \in Len(s) + 1 .. Len(u) : u[k] = t[k - Len(s)]
         /\ s = <<>> <=> Len(s) = 0
OBVIOUS

LEMMA Cut ==
  ASSUME NEW s \in Seq(Byte), NEW a \in 0 .. Len(s), NEW c \in a .. Len(s),
         NEW u, u = SubSeq(s, a + 1, c)
  PROVE  /\ u \in Seq(Byte) /\ Len(u) = c - a
         /\ \A k \in 1 .. Len(u) : u[k] = s[a + k]
<1>1. Len(s) \in Nat
  OBVIOUS
<1>2. \A k \in a + 1 .. c : s[k] \in Byte
  BY <1>1
<1> QED
  BY <1>1, <1>2, SubSeqProperties

LEMMA SameStream ==
  ASSUME NEW s \in Seq(Byte), NEW t \in Seq(Byte), Len(s) = Len(t),
         \A k \in 1 .. Len(s) : s[k] = t[k]
  PROVE  s = t
BY SeqEqual

\* What is left of a buffer.
LEMMA LeftOf ==
  ASSUME NEW b, BufferOK(b)
  PROVE  /\ Left(b) \in Seq(Byte) /\ Len(Left(b)) = Len(b.buf) - b.r
         /\ \A k \in 1 .. Len(Left(b)) : Left(b)[k] = b.buf[b.r + k]
         /\ Len(b.buf) \in Nat /\ b.r \in 0 .. Len(b.buf)
<1>1. b.buf \in Seq(Byte) /\ Len(b.buf) \in Nat /\ b.r \in 0 .. Len(b.buf)
  BY DEF BufferOK
<1> DEFINE s == b.buf
           a == b.r
           m == Len(s)
           u == Left(b)
<1>2. s \in Seq(Byte) /\ a \in 0 .. Len(s) /\ m \in a .. Len(s)
  BY <1>1
<1>3. u = SubSeq(s, a + 1, m)
  BY DEF Left
<1> HIDE DEF s, a, m, u
<1>4. /\ u \in Seq(Byte) /\ Len(u) = m - a
      /\ \A k \in 1 .. Len(u) : u[k] = s[a + k]
  BY <1>2, <1>3, Cut
<1> QED
  BY <1>1, <1>4 DEF s, a, m, u

LEMMA StuffPart ==
  ASSUME NEW s, Stuff(s), NEW u \in Seq(Byte), NEW a \in Nat,
         Len(u) + a <= Len(s), \A k \in 1 .. Len(u) : u[k] = s[a + k]
  PROVE  Stuff(u)
<1>1. s \in Seq(Byte) /\ Len(s) \in Nat /\ Len(u) \in Nat
  BY DEF Stuff
<1>2. \A k \in 1 .. Len(u) : a + k \in 1 .. Len(s)
  BY <1>1
<1>3. \A k \in 1 .. Len(u) : ByteOK(u[k])
  BY <1>2 DEF Stuff
<1>4. Chained(u)
  <2> SUFFICES ASSUME NEW k \in 1 .. Len(u), NEW l \in 1 .. Len(u), k <= l
               PROVE  IF l - k <= After(u[k])
                      THEN /\ u[l].p = u[k].p /\ u[l].n = u[k].n
                           /\ u[l].i = u[k].i + (l - k)
                      ELSE /\ u[l].p > u[k].p
                           /\ l - k = After(u[k]) + 1
                                => u[l].p = u[k].p + 1 /\ u[l].i = 1
    BY DEF Chained
  <2>1. /\ u[k] = s[a + k] /\ u[l] = s[a + l] /\ a + k <= a + l
        /\ (a + l) - (a + k) = l - k /\ a + k \in 1 .. Len(s) /\ a + l \in 1 .. Len(s)
    BY <1>1, <1>2
  <2>2. Chained(s)
    BY DEF Stuff
  <2>3. IF (a + l) - (a + k) <= After(s[a + k])
        THEN /\ s[a + l].p = s[a + k].p /\ s[a + l].n = s[a + k].n
             /\ s[a + l].i = s[a + k].i + ((a + l) - (a + k))
        ELSE /\ s[a + l].p > s[a + k].p
             /\ (a + l) - (a + k) = After(s[a + k]) + 1
                  => s[a + l].p = s[a + k].p + 1 /\ s[a + l].i = 1
    BY <2>1, <2>2 DEF Chained
  <2> QED
    BY <2>1, <2>3
<1> QED
  BY <1>3, <1>4 DEF Stuff

LEMMA PacketBytes ==
  ASSUME NEW p \in 1 .. MaxPacket, NEW n \in Nat \ {0}
  PROVE  LET t == Bytes(p, n) IN
         /\ t \in Seq(Byte) /\ Len(t) = Header + n
         /\ \A k \in 1 .. Len(t) : /\ ByteOK(t[k])
                                   /\ t[k].p = p /\ t[k].i = k /\ t[k].n = n
<1> DEFINE t == Bytes(p, n)
<1>1. Header + n \in Nat /\ MaxPacket \in Nat
  BY Sizes, Bounds
<1>2. \A k \in 1 .. Header + n : [p |-> p, i |-> k, n |-> n] \in Byte
  BY <1>1 DEF Byte
<1>3. t \in Seq(Byte) /\ Len(t) = Header + n
  BY <1>1, <1>2 DEF Bytes
<1>4. \A k \in 1 .. Header + n : t[k] = [p |-> p, i |-> k, n |-> n]
  BY DEF Bytes
<1> HIDE DEF t
<1>5. \A k \in 1 .. Len(t) : /\ ByteOK(t[k])
                             /\ t[k].p = p /\ t[k].i = k /\ t[k].n = n
  BY <1>1, <1>2, <1>3, <1>4 DEF ByteOK
<1> QED
  BY <1>3, <1>5 DEF t

\* A packet after those of a stream.
LEMMA StuffMore ==
  ASSUME NEW s, Stuff(s), NEW p \in 1 .. MaxPacket, NEW n \in Nat \ {0},
         Ends(s, p - 1), NEW u, u = s \o Bytes(p, n)
  PROVE  Stuff(u) /\ Ends(u, p) /\ u # <<>>
<1> DEFINE t == Bytes(p, n)
           m == Len(s)
<1>0. Header \in Nat \ {0}
  BY Sizes
<1>1. /\ t \in Seq(Byte) /\ Len(t) = Header + n
      /\ \A k \in 1 .. Len(t) : /\ ByteOK(t[k])
                                /\ t[k].p = p /\ t[k].i = k /\ t[k].n = n
  BY PacketBytes
<1> HIDE DEF t
<1>2. s \in Seq(Byte) /\ m \in Nat /\ u = s \o t
      /\ \A k \in 1 .. m : ByteOK(s[k])
  BY DEF Stuff, t
<1>3. /\ u \in Seq(Byte) /\ Len(u) = m + Len(t)
      /\ \A k \in 1 .. m : u[k] = s[k]
      /\ \A k \in m + 1 .. Len(u) : u[k] = t[k - m]
  <2>1. s \in Seq(Byte) /\ t \in Seq(Byte) /\ u = s \o t
    BY <1>1, <1>2
  <2>2. /\ u \in Seq(Byte) /\ Len(u) = Len(s) + Len(t)
        /\ \A k \in 1 .. Len(s) : u[k] = s[k]
        /\ \A k \in Len(s) + 1 .. Len(u) : u[k] = t[k - Len(s)]
    BY <2>1, Joined
  <2> QED
    BY <2>2
<1>a. m # 0 => s # <<>> /\ m = Len(s)
  BY <1>2
<1> HIDE DEF m
<1>4. \A k \in m + 1 .. Len(u) : /\ ByteOK(u[k]) /\ u[k].p = p
                                 /\ u[k].i = k - m /\ u[k].n = n
  <2> SUFFICES ASSUME NEW k \in m + 1 .. Len(u)
               PROVE  /\ ByteOK(u[k]) /\ u[k].p = p
                      /\ u[k].i = k - m /\ u[k].n = n
    OBVIOUS
  <2>1. k - m \in 1 .. Len(t) /\ u[k] = t[k - m]
    BY <1>1, <1>2, <1>3
  <2> QED
    BY <1>1, <2>1
<1>5. ASSUME m # 0 PROVE s[m].p = p - 1 /\ s[m].i = Header + s[m].n /\ m \in 1 .. m
  BY <1>2, <1>a, <1>5 DEF Ends
<1>6. Chained(u)
  <2> SUFFICES ASSUME NEW k \in 1 .. Len(u), NEW l \in 1 .. Len(u), k <= l
               PROVE  IF l - k <= After(u[k])
                      THEN /\ u[l].p = u[k].p /\ u[l].n = u[k].n
                           /\ u[l].i = u[k].i + (l - k)
                      ELSE /\ u[l].p > u[k].p
                           /\ l - k = After(u[k]) + 1
                                => u[l].p = u[k].p + 1 /\ u[l].i = 1
    BY DEF Chained
  <2>1. CASE l <= m
    <3>1. k \in 1 .. m /\ l \in 1 .. m /\ u[k] = s[k] /\ u[l] = s[l]
      BY <1>2, <1>3, <2>1
    <3> QED
      BY <3>1 DEF Stuff, Chained, m
  <2>2. CASE k > m
    <3>1. k \in m + 1 .. Len(u) /\ l \in m + 1 .. Len(u)
      BY <1>2, <1>3, <2>2
    <3>2. /\ u[k].p = p /\ u[l].p = p /\ u[k].n = n /\ u[l].n = n
          /\ u[k].i = k - m /\ u[l].i = l - m
      BY <1>4, <3>1
    <3>3. After(u[k]) = Header + n - (k - m)
      BY <3>2 DEF After
    <3>4. l - k <= After(u[k])
      BY <1>0, <1>1, <1>2, <1>3, <3>1, <3>3
    <3>5. u[l].i = u[k].i + (l - k)
      BY <1>2, <1>3, <3>1, <3>2
    <3> QED
      BY <3>2, <3>4, <3>5
  <2>3. CASE k <= m /\ l > m
    <3>1. k \in 1 .. m /\ m # 0 /\ l \in m + 1 .. Len(u) /\ u[k] = s[k]
      BY <1>2, <1>3, <2>3
    <3>2. s[m].p = p - 1 /\ s[m].i = Header + s[m].n /\ m \in 1 .. m
      BY <1>5, <3>1
    <3>3. u[l].p = p /\ u[l].i = l - m
      BY <1>4, <3>1
    <3>4. IF m - k <= After(s[k])
          THEN s[m].p = s[k].p /\ s[m].n = s[k].n /\ s[m].i = s[k].i + (m - k)
          ELSE s[m].p > s[k].p
      BY <3>1, <3>2, SMTT(30) DEF Stuff, Chained, m
    <3>5. /\ s[k].p \in Nat /\ s[k].i \in Nat /\ s[k].n \in Nat
          /\ s[m].p \in Nat /\ s[m].i \in Nat /\ s[m].n \in Nat
      <4>1. s[k] \in Byte /\ s[m] \in Byte
        BY <1>2, <3>1, <3>2 DEF ByteOK
      <4> QED
        BY <4>1, Bounds, SMTT(30) DEF Byte
    <3>a. After(s[k]) = Header + s[k].n - s[k].i /\ After(s[k]) \in Int
      BY <1>0, <3>5, SMTT(30) DEF After
    <3>6. CASE m - k <= After(s[k])
      <4>1. s[m].p = s[k].p /\ s[m].n = s[k].n /\ s[m].i = s[k].i + (m - k)
        BY <3>4, <3>6
      <4>2. m - k = After(s[k]) /\ s[k].p = p - 1
        <5>1. s[k].i + (m - k) = Header + s[k].n
          BY <3>2, <4>1
        <5>2. m \in Int /\ k \in Int /\ Header \in Int
          BY <1>0, <1>2
        <5>3. s[k].p = p - 1
          BY <3>2, <4>1
        <5>4. m - k = Header + s[k].n - s[k].i
          <6> DEFINE x == s[k].i
                     y == s[k].n
          <6>1. x \in Nat /\ y \in Nat /\ x + (m - k) = Header + y
            BY <3>5, <5>1
          <6> HIDE DEF x, y
          <6>2. m - k = Header + y - x
            BY <5>2, <6>1
          <6> QED
            BY <6>2 DEF x, y
        <5> QED
          BY <3>a, <5>3, <5>4
      <4>3. u[k].p = p - 1 /\ After(u[k]) = m - k
        BY <3>1, <4>2
      <4>4. ~(l - k <= m - k) /\ (l - k = m - k + 1 => l - m = 1)
        BY <1>2, <1>3, <3>1
      <4> QED
        BY <3>3, <4>3, <4>4
    <3>7. CASE ~(m - k <= After(s[k]))
      <4>1. s[k].p < p - 1
        BY <3>2, <3>4, <3>5, <3>7
      <4>2. ~(l - k <= After(s[k])) /\ l - k # After(s[k]) + 1
        BY <1>2, <1>3, <3>1, <3>7, <3>a
      <4>3. u[k].p < p
        BY <3>1, <3>5, <4>1
      <4> QED
        BY <3>1, <3>3, <4>2, <4>3
    <3> QED
      BY <3>6, <3>7
  <2>4. l <= m \/ k > m \/ (k <= m /\ l > m)
    BY <1>2, <1>3
  <2> QED
    BY <2>1, <2>2, <2>3, <2>4
<1>7. Ends(u, p) /\ u # <<>>
  <2>1. Len(u) \in m + 1 .. Len(u) /\ Len(u) - m = Header + n /\ Len(u) # 0
    BY <1>0, <1>1, <1>2, <1>3
  <2>2. u[Len(u)].p = p /\ u[Len(u)].i = Header + u[Len(u)].n
    BY <1>4, <2>1
  <2> QED
    BY <2>1, <2>2, <1>3 DEF Ends
<1>8. \A k \in 1 .. Len(u) : ByteOK(u[k])
  <2> SUFFICES ASSUME NEW k \in 1 .. Len(u) PROVE ByteOK(u[k])
    OBVIOUS
  <2>1. k \in 1 .. m \/ k \in m + 1 .. Len(u)
    BY <1>2, <1>3
  <2> QED
    BY <1>2, <1>3, <1>4, <2>1
<1> QED
  BY <1>3, <1>6, <1>7, <1>8 DEF Stuff

\* Seek keeps what is after the position.
LEMMA SeekLeft ==
  ASSUME NEW b, BufferOK(b), NEW r \in b.r .. Len(b.buf), NEW c, c = Seek(b, r),
         b.buf # <<>> => b.r < Len(b.buf)
  PROVE  /\ BufferOK(c) /\ (c.buf # <<>> => c.r < Len(c.buf))
         /\ c.w - c.r = b.w - r
         /\ Len(Left(c)) = Len(Left(b)) - (r - b.r)
         /\ \A k \in 1 .. Len(Left(c)) : Left(c)[k] = Left(b)[(r - b.r) + k]
<1>1. /\ b.buf \in Seq(Byte) /\ Len(b.buf) \in Nat /\ b.r \in 0 .. Len(b.buf)
      /\ b.w \in Int
  BY DEF BufferOK
<1>2. CASE r < Len(b.buf)
  <2>1. c = [b EXCEPT !.r = r] /\ r \in Nat
    BY <1>1, <1>2 DEF Seek
  <2>a. /\ c \in [buf : Seq(Byte), r : Nat, w : Int]
        /\ c.buf = b.buf /\ c.r = r /\ c.w = b.w
    BY <2>1 DEF BufferOK
  <2>2. BufferOK(c) /\ (c.buf # <<>> => c.r < Len(c.buf))
    BY <1>1, <1>2, <2>1, <2>a DEF BufferOK
  <2>3. /\ Len(Left(b)) = Len(b.buf) - b.r
        /\ \A k \in 1 .. Len(Left(b)) : Left(b)[k] = b.buf[b.r + k]
    BY LeftOf
  <2>4. /\ Len(Left(c)) = Len(b.buf) - r
        /\ \A k \in 1 .. Len(Left(c)) : Left(c)[k] = b.buf[r + k]
    <3>1. BufferOK(c)
      BY <2>2
    <3>2. /\ Len(Left(c)) = Len(c.buf) - c.r
          /\ \A k \in 1 .. Len(Left(c)) : Left(c)[k] = c.buf[c.r + k]
      BY <3>1, LeftOf
    <3> QED
      BY <2>a, <3>2
  <2>5. /\ c.w - c.r = b.w - r /\ Len(Left(c)) = Len(Left(b)) - (r - b.r)
    BY <1>1, <1>2, <2>a, <2>3, <2>4
  <2>6. \A k \in 1 .. Len(Left(c)) : Left(c)[k] = Left(b)[(r - b.r) + k]
    <3> SUFFICES ASSUME NEW k \in 1 .. Len(Left(c))
                 PROVE  Left(c)[k] = Left(b)[(r - b.r) + k]
      OBVIOUS
    <3>1. (r - b.r) + k \in 1 .. Len(Left(b)) /\ b.r + ((r - b.r) + k) = r + k
      BY <1>1, <2>3, <2>4, SMTT(30)
    <3> QED
      BY <2>3, <2>4, <3>1
  <2> QED
    BY <2>2, <2>5, <2>6
<1>3. CASE ~(r < Len(b.buf))
  <2>1. c.buf = <<>> /\ c.r = 0 /\ c.w = b.w - Len(b.buf)
    BY <1>3 DEF Seek
  <2>2. r = Len(b.buf)
    BY <1>1, <1>3
  <2>3. BufferOK(c) /\ Len(c.buf) = 0
    <3>1. c = [buf |-> <<>>, r |-> 0, w |-> b.w - Len(b.buf)]
      BY <1>3 DEF Seek
    <3>2. <<>> \in Seq(Byte) /\ Len(<<>>) = 0 /\ b.w - Len(b.buf) \in Int
      BY <1>1
    <3> QED
      BY <3>1, <3>2 DEF BufferOK
  <2>4. Len(Left(b)) = Len(b.buf) - b.r
    BY LeftOf
  <2>5. Len(Left(c)) = 0
    BY <2>1, <2>3, LeftOf
  <2> QED
    BY <1>1, <2>1, <2>2, <2>3, <2>4, <2>5
<1> QED
  BY <1>2, <1>3

-----------------------------------------------------------------------------
(* The loop of _read. *)

\* c of the m bytes that were received are decoded.
At(s, m, c, x) ==
  /\ x \in [b : {x.b}, decode : BOOLEAN, got : {x.got}, bad : {FALSE}]
  /\ BufferOK(x.b) /\ (x.b.buf # <<>> => x.b.r < Len(x.b.buf))
  /\ Len(Left(x.b)) = m - c
  /\ \A k \in 1 .. m - c : Left(x.b)[k] = s[c + k]
  /\ c < Len(s) => s[c + 1].i = IF x.decode THEN Header + 1 ELSE 1
  /\ c >= 1 /\ x.decode => s[c].i = Header
  /\ IF x.decode
     THEN x.b.w > x.b.r /\ (c < Len(s) => x.b.w = x.b.r + s[c + 1].n)
     ELSE x.b.w = x.b.r + Header
  /\ x.got \subseteq {s[k].p : k \in 1 .. c}
  /\ \A p \in x.got : \A k \in c + 1 .. Len(s) : s[k].p > p

Half(x) == IF x.decode THEN 1 ELSE 0

\* The number of bytes that are decoded next.
Step(s, c, x) == IF x.decode THEN s[c + 1].n ELSE Header

LEMMA Next1 ==
  ASSUME NEW s, Stuff(s), NEW m \in 0 .. Len(s), NEW c \in 0 .. m, NEW x,
         At(s, m, c, x), Ready(x.b)
  PROVE  /\ c + 1 \in 1 .. m /\ c + 1 \in 1 .. Len(s) /\ m - c \in Nat \ {0}
         /\ ByteOK(s[c + 1]) /\ Head1(x.b) = s[c + 1]
         /\ s[c + 1].i = IF x.decode THEN Header + 1 ELSE 1
         /\ Step(s, c, x) \in 1 .. m - c /\ x.b.w = x.b.r + Step(s, c, x)
         /\ x.b.r + Step(s, c, x) \in x.b.r .. Len(x.b.buf)
<1>1. BufferOK(x.b) /\ Len(Left(x.b)) = m - c /\ Len(s) \in Nat /\ x.decode \in BOOLEAN
  BY DEF At, Stuff
<1>2. /\ Len(Left(x.b)) = Len(x.b.buf) - x.b.r
      /\ \A k \in 1 .. Len(Left(x.b)) : Left(x.b)[k] = x.b.buf[x.b.r + k]
      /\ Len(x.b.buf) \in Nat /\ x.b.r \in 0 .. Len(x.b.buf)
  BY <1>1, LeftOf
<1>3. x.b.w \in Int /\ x.b.w <= Len(x.b.buf)
  BY <1>1 DEF BufferOK, Ready
<1>4. x.b.w > x.b.r /\ Header \in Nat \ {0}
  <2>1. Header \in Nat \ {0}
    BY Sizes
  <2> QED
    BY <1>2, <1>3, <2>1 DEF At
<1>5. c + 1 \in 1 .. m /\ c + 1 \in 1 .. Len(s) /\ m - c \in Nat \ {0} /\ c < Len(s)
  BY <1>1, <1>2, <1>3, <1>4
<1>6. ByteOK(s[c + 1])
  BY <1>5 DEF Stuff
<1>7. Head1(x.b) = s[c + 1]
  <2>1. 1 \in 1 .. m - c
    BY <1>5
  <2>2. Left(x.b)[1] = s[c + 1]
    BY <2>1 DEF At
  <2> QED
    BY <1>1, <1>2, <2>1, <2>2 DEF Head1
<1>8. s[c + 1].i = IF x.decode THEN Header + 1 ELSE 1
  BY <1>5 DEF At
<1>9. x.b.w = x.b.r + Step(s, c, x) /\ Step(s, c, x) \in Nat
  <2>1. s[c + 1].n \in Nat
    BY <1>6 DEF ByteOK, Byte
  <2> QED
    BY <1>4, <1>5, <2>1 DEF At, Step
<1>10. Step(s, c, x) \in 1 .. m - c
  BY <1>1, <1>2, <1>3, <1>4, <1>9, SMTT(30)
<1>11. x.b.r + Step(s, c, x) \in x.b.r .. Len(x.b.buf)
  BY <1>2, <1>3, <1>4, <1>9
<1> QED
  BY <1>5, <1>6, <1>7, <1>8, <1>9, <1>10, <1>11

\* What is after a header, or after a body.
LEMMA AfterStep ==
  ASSUME NEW s, Stuff(s), NEW m \in 0 .. Len(s), NEW c \in 0 .. m, NEW x,
         At(s, m, c, x), Ready(x.b), NEW e, e = c + Step(s, c, x)
  PROVE  /\ e \in 1 .. m
         /\ ~x.decode => s[e].i = Header
         /\ x.decode => /\ \A k \in e + 1 .. Len(s) : s[k].p > s[c + 1].p
                        /\ e < Len(s) => s[e + 1].i = 1 /\ s[e + 1].p = s[c + 1].p + 1
         /\ ~x.decode /\ e < Len(s) =>
                           /\ s[e + 1].i = Header + 1
                           /\ s[e + 1].p = s[c + 1].p /\ s[e + 1].n = s[c + 1].n
<1>1. /\ c + 1 \in 1 .. m /\ c + 1 \in 1 .. Len(s) /\ m - c \in Nat \ {0}
      /\ ByteOK(s[c + 1])
      /\ s[c + 1].i = IF x.decode THEN Header + 1 ELSE 1
      /\ Step(s, c, x) \in 1 .. m - c
  BY Next1
<1>2. Len(s) \in Nat /\ Header \in Nat \ {0} /\ Chained(s)
  BY Sizes DEF Stuff
<1>3. s[c + 1].n \in Nat \ {0} /\ s[c + 1].p \in Nat
  BY <1>1, Bounds DEF ByteOK, Byte
<1>4. e \in 1 .. m /\ e \in Nat
  BY <1>1
<1>5. ASSUME NEW k \in e + 1 .. Len(s)
      PROVE  /\ k \in 1 .. Len(s) /\ c + 1 <= k
             /\ IF k - (c + 1) <= After(s[c + 1])
                THEN /\ s[k].p = s[c + 1].p /\ s[k].n = s[c + 1].n
                     /\ s[k].i = s[c + 1].i + (k - (c + 1))
                ELSE /\ s[k].p > s[c + 1].p
                     /\ k - (c + 1) = After(s[c + 1]) + 1
                          => s[k].p = s[c + 1].p + 1 /\ s[k].i = 1
  <2>1. k \in 1 .. Len(s) /\ c + 1 <= k
    BY <1>1, <1>2, <1>4
  <2> QED
    BY <1>1, <1>2, <2>1 DEF Chained
<1>6. ASSUME x.decode
      PROVE  /\ \A k \in e + 1 .. Len(s) : s[k].p > s[c + 1].p
             /\ e < Len(s) => s[e + 1].i = 1 /\ s[e + 1].p = s[c + 1].p + 1
  <2>1. After(s[c + 1]) = s[c + 1].n - 1 /\ e = c + s[c + 1].n
    BY <1>1, <1>2, <1>3, <1>6 DEF After, Step
  <2>2. ASSUME NEW k \in e + 1 .. Len(s)
        PROVE  ~(k - (c + 1) <= After(s[c + 1]))
    BY <1>2, <1>3, <1>4, <2>1
  <2>3. e < Len(s) => e + 1 \in e + 1 .. Len(s) /\ (e + 1) - (c + 1) = After(s[c + 1]) + 1
    <3> DEFINE n == s[c + 1].n
    <3>1. n \in Nat \ {0} /\ After(s[c + 1]) = n - 1 /\ e = c + n
      BY <1>3, <2>1
    <3> HIDE DEF n
    <3>2. (e + 1) - (c + 1) = n /\ n = (n - 1) + 1
      BY <3>1
    <3> QED
      BY <1>2, <1>4, <3>1, <3>2
  <2>4. \A k \in e + 1 .. Len(s) : s[k].p > s[c + 1].p
    BY <1>5, <2>2
  <2>5. e < Len(s) => s[e + 1].i = 1 /\ s[e + 1].p = s[c + 1].p + 1
    BY <1>5, <2>2, <2>3
  <2> QED
    BY <2>4, <2>5
<1>7. ASSUME ~x.decode, e < Len(s)
      PROVE  /\ s[e + 1].i = Header + 1
             /\ s[e + 1].p = s[c + 1].p /\ s[e + 1].n = s[c + 1].n
  <2>1. After(s[c + 1]) = Header + s[c + 1].n - 1 /\ e = c + Header
    BY <1>1, <1>2, <1>3, <1>7 DEF After, Step
  <2>2. /\ e + 1 \in e + 1 .. Len(s) /\ (e + 1) - (c + 1) = Header
        /\ Header <= After(s[c + 1])
    <3> DEFINE g == s[c + 1].n
               h == After(s[c + 1])
               l == Len(s)
    <3>1. /\ g \in Nat \ {0} /\ h = Header + g - 1 /\ e = c + Header
          /\ c \in Int /\ l \in Nat /\ e < l
      BY <1>1, <1>2, <1>3, <1>7, <2>1, SMTT(30)
    <3> HIDE DEF g, h, l
    <3>2. e + 1 \in e + 1 .. l
      BY <1>4, <3>1
    <3>3. (e + 1) - (c + 1) = Header /\ Header <= h
      BY <1>2, <3>1
    <3> QED
      BY <3>2, <3>3 DEF h, l
  <2>3. s[c + 1].i = 1
    BY <1>1, <1>7
  <2> QED
    BY <1>2, <1>5, <2>2, <2>3
<1>8. ASSUME ~x.decode
      PROVE  s[e].i = Header
  <2>1. After(s[c + 1]) = Header + s[c + 1].n - 1 /\ e = c + Header
    BY <1>1, <1>2, <1>3, <1>8 DEF After, Step
  <2>2. /\ e \in 1 .. Len(s) /\ c + 1 <= e /\ e - (c + 1) = Header - 1
        /\ Header - 1 <= After(s[c + 1])
    <3>1. c \in Int /\ m \in Int /\ m <= Len(s) /\ c >= 0
      BY <1>1, <1>2
    <3>2. e - (c + 1) = Header - 1 /\ c + 1 <= e /\ e \in 1 .. Len(s)
      BY <1>2, <1>4, <2>1, <3>1
    <3>3. Header - 1 <= After(s[c + 1])
      BY <1>2, <1>3, <2>1
    <3> QED
      BY <3>2, <3>3
  <2>3. s[c + 1].i = 1
    BY <1>1, <1>8
  <2>4. s[e].i = s[c + 1].i + (e - (c + 1))
    BY <1>1, <1>2, <2>2 DEF Chained
  <2> QED
    BY <1>2, <2>2, <2>3, <2>4
<1> QED
  BY <1>4, <1>6, <1>7, <1>8

LEMMA WantLeft ==
  ASSUME NEW b, BufferOK(b), NEW v \in Int, NEW d, d = Want(b, v)
  PROVE  /\ BufferOK(d) /\ d.buf = b.buf /\ d.r = b.r /\ d.w = d.r + v
         /\ Left(d) = Left(b)
BY SMTT(30) DEF BufferOK, Want, Left

LEMMA TurnTaken ==
  ASSUME NEW s, Stuff(s), NEW m \in 0 .. Len(s), NEW c \in 0 .. m, NEW x,
         At(s, m, c, x), Ready(x.b), NEW e, e = c + Step(s, c, x)
  PROVE  /\ At(s, m, e, Decode(x))
         /\ e < m => 2 * s[e + 1].p + Half(Decode(x)) >= 2 * s[c + 1].p + Half(x) + 1
<1> DEFINE z == Step(s, c, x)
           q == Seek(x.b, x.b.r + z)
           v == IF x.decode THEN Header ELSE s[c + 1].n
           d == Want(q, v)
           y == Decode(x)
<1>1. /\ c + 1 \in 1 .. m /\ c + 1 \in 1 .. Len(s) /\ m - c \in Nat \ {0}
      /\ ByteOK(s[c + 1]) /\ Head1(x.b) = s[c + 1]
      /\ s[c + 1].i = IF x.decode THEN Header + 1 ELSE 1
      /\ z \in 1 .. m - c
      /\ x.b.r + z \in x.b.r .. Len(x.b.buf)
  BY Next1
<1>2. /\ e \in 1 .. m
      /\ ~x.decode => s[e].i = Header
      /\ x.decode => /\ \A k \in e + 1 .. Len(s) : s[k].p > s[c + 1].p
                     /\ e < Len(s) => s[e + 1].i = 1 /\ s[e + 1].p = s[c + 1].p + 1
      /\ ~x.decode /\ e < Len(s) =>
                        /\ s[e + 1].i = Header + 1
                        /\ s[e + 1].p = s[c + 1].p /\ s[e + 1].n = s[c + 1].n
  BY AfterStep
<1>3. /\ Len(s) \in Nat /\ Header \in Nat \ {0} /\ s[c + 1].n \in Nat \ {0}
      /\ s[c + 1].p \in Nat
  <2>1. Len(s) \in Nat /\ Header \in Nat \ {0}
    BY Sizes DEF Stuff
  <2>2. s[c + 1].p \in Nat /\ s[c + 1].n \in Nat
    BY <1>1, Bounds DEF ByteOK, Byte
  <2>3. s[c + 1].n >= 1
    BY <1>1 DEF ByteOK
  <2> QED
    BY <2>1, <2>2, <2>3
<1>4. /\ x.decode \in BOOLEAN /\ x.bad = FALSE
      /\ DOMAIN x = {"b", "decode", "got", "bad"}
      /\ BufferOK(x.b) /\ (x.b.buf # <<>> => x.b.r < Len(x.b.buf))
      /\ Len(Left(x.b)) = m - c
      /\ \A k \in 1 .. m - c : Left(x.b)[k] = s[c + k]
  BY DEF At
<1>5. /\ y = [b |-> d, decode |-> ~x.decode, bad |-> FALSE,
              got |-> IF x.decode THEN x.got \cup {s[c + 1].p} ELSE x.got]
  <2>1. x = [b |-> x.b, decode |-> x.decode, got |-> x.got, bad |-> FALSE]
    BY DEF At
  <2>2. CASE x.decode
    <3>1. y = [x EXCEPT !.b = Want(Seek(@, @.r + Head1(@).n), Header),
                        !.decode = FALSE,
                        !.got = @ \cup {Head1(x.b).p}]
      BY <1>1, <1>4, <2>2 DEF Decode
    <3>2. z = s[c + 1].n /\ v = Header
      BY <2>2 DEF Step
    <3>3. y = [x EXCEPT !.b = d, !.decode = FALSE,
                        !.got = x.got \cup {s[c + 1].p}]
      BY <1>1, <3>1, <3>2
    <3> HIDE DEF y, z, v, d
    <3>a. PICK u, v0, g : x = [b |-> u, decode |-> v0, got |-> g, bad |-> FALSE]
      BY <2>1
    <3>b. x.got = g
      BY <3>a
    <3>4. y = [b |-> d, decode |-> FALSE, bad |-> FALSE,
               got |-> x.got \cup {s[c + 1].p}]
      BY <3>a, <3>b, <3>3
    <3>5. /\ (~x.decode) = FALSE
          /\ (IF x.decode THEN x.got \cup {s[c + 1].p} ELSE x.got)
                = x.got \cup {s[c + 1].p}
      BY <2>2
    <3> QED
      BY <3>4, <3>5
  <2>3. CASE ~x.decode
    <3>1. y = [x EXCEPT !.b = Want(Seek(@, @.r + Header), Head1(@).n),
                        !.decode = TRUE]
      BY <1>1, <1>4, <2>3 DEF Decode
    <3>2. z = Header /\ v = s[c + 1].n
      BY <2>3 DEF Step
    <3>3. y = [x EXCEPT !.b = d, !.decode = TRUE]
      BY <1>1, <3>1, <3>2
    <3> HIDE DEF y, z, v, d
    <3>a. PICK u, v0, g : x = [b |-> u, decode |-> v0, got |-> g, bad |-> FALSE]
      BY <2>1
    <3>b. x.got = g
      BY <3>a
    <3>4. y = [b |-> d, decode |-> TRUE, bad |-> FALSE, got |-> x.got]
      BY <3>a, <3>b, <3>3
    <3>5. /\ (~x.decode) = TRUE
          /\ (IF x.decode THEN x.got \cup {s[c + 1].p} ELSE x.got) = x.got
      BY <2>3
    <3> QED
      BY <3>4, <3>5
  <2> QED
    BY <1>4, <2>2, <2>3
<1> HIDE DEF y
<1>6. /\ BufferOK(q) /\ (q.buf # <<>> => q.r < Len(q.buf))
      /\ Len(Left(q)) = Len(Left(x.b)) - ((x.b.r + z) - x.b.r)
      /\ \A k \in 1 .. Len(Left(q)) : Left(q)[k] = Left(x.b)[((x.b.r + z) - x.b.r) + k]
  <2> DEFINE b == x.b
             r == x.b.r + z
  <2>1. BufferOK(b) /\ r \in b.r .. Len(b.buf) /\ (b.buf # <<>> => b.r < Len(b.buf))
    BY <1>1, <1>4
  <2>2. q = Seek(b, r)
    OBVIOUS
  <2> HIDE DEF q, b, r
  <2>3. /\ BufferOK(q) /\ (q.buf # <<>> => q.r < Len(q.buf))
        /\ Len(Left(q)) = Len(Left(b)) - (r - b.r)
        /\ \A k \in 1 .. Len(Left(q)) : Left(q)[k] = Left(b)[(r - b.r) + k]
    BY <2>1, <2>2, SeekLeft
  <2> QED
    BY <2>3 DEF b, r
<1>7. v \in Int /\ (x.b.r + z) - x.b.r = z
  BY <1>1, <1>3, <1>4, SMTT(30) DEF BufferOK
<1> HIDE DEF q
<1>8. BufferOK(d) /\ d.buf = q.buf /\ d.r = q.r /\ d.w = d.r + v /\ Left(d) = Left(q)
  <2>1. d = Want(q, v)
    OBVIOUS
  <2> HIDE DEF d, v
  <2> QED
    BY <1>6, <1>7, <2>1, WantLeft
<1> HIDE DEF d
<1>9. /\ Len(Left(d)) = m - e
      /\ \A k \in 1 .. m - e : Left(d)[k] = s[e + k]
  <2>1. z \in Nat /\ e = c + z /\ Len(Left(q)) = m - e
    BY <1>1, <1>4, <1>6, <1>7, SMTT(30)
  <2>2. ASSUME NEW k \in 1 .. m - e
        PROVE  Left(q)[k] = s[e + k]
    <3>a. m \in Int /\ c \in Nat /\ z \in Nat
      BY <1>3, <2>1
    <3> HIDE DEF z
    <3>1. /\ z + k \in 1 .. m - c /\ e + k = c + (z + k)
          /\ k \in 1 .. Len(Left(q))
      BY <2>1, <3>a
    <3> QED
      BY <1>4, <1>6, <1>7, <3>1
  <2> QED
    BY <1>8, <2>1, <2>2
<1>10. /\ y.got \subseteq {s[k].p : k \in 1 .. e}
       /\ \A p \in y.got : \A k \in e + 1 .. Len(s) : s[k].p > p
  <2>1. /\ 1 .. c \subseteq 1 .. e /\ c + 1 \in 1 .. e
        /\ \A k \in e + 1 .. Len(s) : k \in c + 1 .. Len(s)
    <3>1. e = c + z /\ z \in Nat \ {0} /\ c \in Nat /\ e \in Nat
      BY <1>1, <1>2
    <3> HIDE DEF z
    <3> QED
      BY <1>3, <3>1
  <2>2. /\ x.got \subseteq {s[k].p : k \in 1 .. c}
        /\ \A p \in x.got : \A k \in c + 1 .. Len(s) : s[k].p > p
    BY DEF At
  <2>3. CASE x.decode
    BY <1>2, <1>5, <2>1, <2>2, <2>3, SMTT(30)
  <2>4. CASE ~x.decode
    BY <1>2, <1>5, <2>1, <2>2, <2>4
  <2> QED
    BY <2>3, <2>4
<1>11. e < Len(s) => s[e + 1].i = IF y.decode THEN Header + 1 ELSE 1
  BY <1>2, <1>4, <1>5
<1>12. IF y.decode
       THEN y.b.w > y.b.r /\ (e < Len(s) => y.b.w = y.b.r + s[e + 1].n)
       ELSE y.b.w = y.b.r + Header
  <2>1. y.b = d /\ y.decode = ~x.decode /\ d.r \in Nat
    BY <1>5, <1>8 DEF BufferOK
  <2>2. CASE x.decode
    BY <1>3, <1>8, <2>1, <2>2
  <2>3. CASE ~x.decode
    <3>1. v = s[c + 1].n /\ y.decode
      BY <1>4, <2>1, <2>3
    <3>2. d.w = d.r + s[c + 1].n /\ d.w > d.r
      BY <1>3, <1>8, <2>1, <3>1
    <3> QED
      BY <1>2, <2>1, <2>3, <3>1, <3>2
  <2> QED
    BY <1>4, <2>2, <2>3
<1>13. At(s, m, e, y)
  <2>1. /\ y.b = d /\ y.bad = FALSE /\ y.decode \in BOOLEAN
        /\ y \in [b : {y.b}, decode : BOOLEAN, got : {y.got}, bad : {FALSE}]
    BY <1>5
  <2>2. d.buf # <<>> => d.r < Len(d.buf)
    BY <1>6, <1>8
  <2>3. e >= 1 /\ y.decode => s[e].i = Header
    BY <1>2, <1>5
  <2> QED
    BY <1>8, <1>9, <1>10, <1>11, <1>12, <2>1, <2>2, <2>3 DEF At
<1>14. e < m => 2 * s[e + 1].p + Half(y) >= 2 * s[c + 1].p + Half(x) + 1
  <2>1. e < m => e < Len(s)
    BY <1>2, <1>3
  <2>2. CASE x.decode
    <3>1. Half(x) = 1 /\ Half(y) = 0
      BY <1>5, <2>2 DEF Half
    <3> QED
      BY <1>2, <1>3, <2>1, <2>2, <3>1, SMTT(30)
  <2>3. CASE ~x.decode
    <3>1. Half(x) = 0 /\ Half(y) = 1
      BY <1>4, <1>5, <2>3 DEF Half
    <3> QED
      BY <1>2, <1>3, <2>1, <2>3, <3>1
  <2> QED
    BY <2>2, <2>3
<1> QED
  BY <1>13, <1>14 DEF y

\* Induction, as a fact about sets.
LEMMA Counting ==
  ASSUME NEW T \in SUBSET Nat, 0 \in T, \A k \in T : k + 1 \in T
  PROVE  T = Nat
<1> DEFINE R == OpToRel(<, Nat)
           U == Nat \ T
<1>1. SUFFICES ASSUME U # {} PROVE FALSE
  OBVIOUS
<1>2. \E x \in U : \A y \in U : ~(<<y, x>> \in R)
  <2>1. IsWellFoundedOn(R, Nat)
    BY NatLessThanWellFounded
  <2> HIDE DEF R
  <2> QED
    BY <1>1, <2>1, WFMin
<1>3. PICK x \in U : \A y \in U : ~(y < x)
  BY <1>2 DEF OpToRel
<1>4. x # 0 /\ x - 1 \in Nat /\ x - 1 < x /\ (x - 1) + 1 = x
  OBVIOUS
<1>5. x - 1 \in T
  BY <1>3, <1>4
<1> QED
  BY <1>4, <1>5

\* The turns of the loop.
LEMMA TurnsOf ==
  ASSUME NEW n
  PROVE  \E f : /\ Loop(n) = f[Turns] /\ f[0] = {Received(n)}
                /\ \A i \in 1 .. Turns : f[i] = {Decode(x) : x \in f[i - 1]}
<1> DEFINE r == Received(n)
           F(g, k) == g = [i \in 0 .. k |-> IF i = 0 THEN {r}
                                            ELSE {Decode(x) : x \in g[i - 1]}]
           T == {k \in Nat : \E g : F(g, k)}
<1>1. Turns \in Nat
  BY Bounds DEF Turns
<1>2. 0 \in T
  <2>1. F([i \in 0 .. 0 |-> {r}], 0)
    <3> HIDE DEF r
    <3> QED
      OBVIOUS
  <2> QED
    BY <2>1
<1>3. ASSUME NEW k \in T
      PROVE  k + 1 \in T
  <2>1. k \in Nat
    OBVIOUS
  <2> HIDE DEF r
  <2>2. PICK g : F(g, k)
    OBVIOUS
  <2> DEFINE h == [i \in 0 .. k + 1 |-> IF i <= k THEN g[i]
                                        ELSE {Decode(x) : x \in g[k]}]
  <2>3. \A i \in 0 .. k + 1 :
          h[i] = IF i = 0 THEN {r} ELSE {Decode(x) : x \in h[i - 1]}
    <3> SUFFICES ASSUME NEW i \in 0 .. k + 1
                 PROVE  h[i] = IF i = 0 THEN {r} ELSE {Decode(x) : x \in h[i - 1]}
      OBVIOUS
    <3>1. CASE i = 0
      BY <2>1, <2>2, <3>1
    <3>2. CASE i # 0 /\ i <= k
      <4>1. i \in 0 .. k /\ i - 1 \in 0 .. k
        BY <2>1, <3>2
      <4>2. g[i] = {Decode(x) : x \in g[i - 1]}
        BY <2>2, <3>2, <4>1
      <4>3. h[i] = g[i] /\ h[i - 1] = g[i - 1]
        BY <2>1, <4>1
      <4> QED
        BY <3>2, <4>2, <4>3
    <3>3. CASE i = k + 1
      <4>1. k \in 0 .. k + 1 /\ i - 1 = k /\ i # 0 /\ ~(i <= k) /\ k <= k
        BY <2>1, <3>3
      <4>2. h[i] = {Decode(x) : x \in g[k]} /\ h[i - 1] = g[k]
        BY <4>1
      <4> QED
        BY <4>1, <4>2
    <3> QED
      BY <2>1, <3>1, <3>2, <3>3
  <2>4. h = [i \in 0 .. k + 1 |-> h[i]]
    OBVIOUS
  <2> HIDE DEF h
  <2>5. F(h, k + 1)
    BY <2>3, <2>4
  <2> QED
    BY <2>1, <2>5
<1>4. Turns \in T
  <2> HIDE DEF F
  <2>1. T \in SUBSET Nat
    OBVIOUS
  <2> HIDE DEF T
  <2> QED
    BY <1>1, <1>2, <1>3, <2>1, Counting
<1> DEFINE turn[i \in 0 .. Turns] ==
             IF i = 0 THEN {r} ELSE {Decode(x) : x \in turn[i - 1]}
<1>5. turn = CHOOSE g : F(g, Turns)
  OBVIOUS
<1>6. F(turn, Turns)
  BY <1>4, <1>5
<1>7. Loop(n) = turn[Turns]
  BY DEF Loop
<1>8. /\ turn[0] = {r}
      /\ \A i \in 1 .. Turns : turn[i] = {Decode(x) : x \in turn[i - 1]}
  <2> HIDE DEF turn, r
  <2>1. turn = [i \in 0 .. Turns |-> IF i = 0 THEN {r}
                                     ELSE {Decode(x) : x \in turn[i - 1]}]
    BY <1>6
  <2>2. 0 \in 0 .. Turns
    BY <1>1
  <2>3. \A i \in 1 .. Turns : i \in 0 .. Turns /\ i # 0
    BY <1>1
  <2> QED
    BY <2>1, <2>2, <2>3
<1> HIDE DEF turn
<1> QED
  BY <1>7, <1>8

\* The loop stops with what it can not decode yet.
LEMMA LoopOf ==
  ASSUME NEW n, NEW s, Stuff(s), NEW m \in 0 .. Len(s), At(s, m, 0, Received(n))
  PROVE  \E x : \E c \in 0 .. m : Loop(n) = {x} /\ At(s, m, c, x) /\ ~Ready(x.b)
<1>1. PICK f : /\ Loop(n) = f[Turns] /\ f[0] = {Received(n)}
               /\ \A i \in 1 .. Turns : f[i] = {Decode(x) : x \in f[i - 1]}
  BY TurnsOf
<1>2. Turns \in Nat /\ Turns = 2 * MaxPacket /\ MaxPacket \in Nat /\ Len(s) \in Nat
  BY Bounds DEF Turns, Stuff
<1> DEFINE Fast(i, c, x) ==
             Ready(x.b) => c < m /\ 2 * s[c + 1].p + Half(x) >= i + 2
           Q(i) == \E x : \E c \in 0 .. m :
                     f[i] = {x} /\ At(s, m, c, x) /\ Fast(i, c, x)
           T == {i \in Nat : i <= Turns => Q(i)}
<1>3. ASSUME NEW c \in 0 .. m, NEW x, At(s, m, c, x), Ready(x.b)
      PROVE  /\ c < m /\ c \in Nat /\ m \in Nat /\ s[c + 1].p \in 1 .. MaxPacket
             /\ Half(x) \in 0 .. 1
  <2>1. c + 1 \in 1 .. m /\ ByteOK(s[c + 1]) /\ m - c \in Nat \ {0}
    BY <1>3, Next1
  <2> QED
    BY <1>2, <2>1 DEF ByteOK, Byte, Half
<1>4. 0 \in T
  <2> DEFINE x == Received(n)
  <2>1. 0 \in 0 .. m /\ f[0] = {x} /\ At(s, m, 0, x)
    BY <1>1, <1>2
  <2>2. Fast(0, 0, x)
    <3> HIDE DEF x
    <3>1. SUFFICES ASSUME Ready(x.b) PROVE 0 < m /\ 2 * s[0 + 1].p + Half(x) >= 2
      OBVIOUS
    <3>2. 0 < m /\ s[0 + 1].p \in 1 .. MaxPacket /\ Half(x) \in 0 .. 1
      BY <1>3, <2>1, <3>1
    <3> QED
      BY <1>2, <3>2
  <2> HIDE DEF x, Fast
  <2> QED
    BY <2>1, <2>2
<1>5. ASSUME NEW i \in T
      PROVE  i + 1 \in T
  <2>1. SUFFICES ASSUME i + 1 <= Turns PROVE Q(i + 1)
    OBVIOUS
  <2>2. i \in Nat /\ i <= Turns /\ i + 1 \in 1 .. Turns /\ (i + 1) - 1 = i
    BY <1>2, <2>1
  <2>3. PICK x : \E c \in 0 .. m : f[i] = {x} /\ At(s, m, c, x) /\ Fast(i, c, x)
    BY <2>2
  <2>4. PICK c \in 0 .. m : f[i] = {x} /\ At(s, m, c, x) /\ Fast(i, c, x)
    BY <2>3
  <2> DEFINE y == Decode(x)
  <2>5. f[i + 1] = {y}
    BY <1>1, <2>2, <2>4
  <2>6. CASE ~Ready(x.b)
    <3>1. y = x
      BY <2>6 DEF Decode
    <3> QED
      BY <2>4, <2>5, <2>6, <3>1
  <2>7. CASE Ready(x.b)
    <3> DEFINE e == c + Step(s, c, x)
    <3>1. /\ c < m /\ c \in Nat /\ m \in Nat /\ s[c + 1].p \in 1 .. MaxPacket
          /\ Half(x) \in 0 .. 1
      BY <1>3, <2>4, <2>7
    <3>2. /\ At(s, m, e, y)
          /\ e < m => 2 * s[e + 1].p + Half(y) >= 2 * s[c + 1].p + Half(x) + 1
      BY <2>4, <2>7, TurnTaken
    <3>3. e \in 0 .. m
      <4>1. Step(s, c, x) \in 1 .. m - c
        BY <2>4, <2>7, Next1
      <4> HIDE DEF y
      <4> QED
        BY <3>1, <4>1
    <3> HIDE DEF y, e
    <3>4. Fast(i + 1, e, y)
      <4>1. SUFFICES ASSUME Ready(y.b)
                     PROVE  e < m /\ 2 * s[e + 1].p + Half(y) >= (i + 1) + 2
        OBVIOUS
      <4>2. e < m /\ s[e + 1].p \in 1 .. MaxPacket /\ Half(y) \in 0 .. 1
        BY <1>3, <3>2, <3>3, <4>1
      <4>3. 2 * s[c + 1].p + Half(x) >= i + 2
        BY <2>4, <2>7
      <4> DEFINE u == s[e + 1].p
                 v == s[c + 1].p
                 g == Half(y)
                 h == Half(x)
                 a == 2 * u + g
                 d == 2 * v + h
      <4>a. u \in Int /\ v \in Int /\ g \in Int /\ h \in Int
        BY <1>2, <3>1, <4>2
      <4>b. a >= d + 1 /\ d >= i + 2
        BY <3>2, <4>2, <4>3
      <4> HIDE DEF u, v, g, h
      <4>4. a \in Int /\ d \in Int /\ a >= d + 1 /\ d >= i + 2
        BY <4>a, <4>b
      <4> HIDE DEF a, d
      <4>5. a >= (i + 1) + 2
        BY <2>2, <4>4
      <4> QED
        BY <4>2, <4>5 DEF a, u, g
    <3> HIDE DEF Fast
    <3> QED
      BY <2>5, <3>2, <3>3, <3>4
  <2> QED
    BY <2>6, <2>7
<1>6. Turns \in T
  <2> HIDE DEF Q
  <2>1. T \in SUBSET Nat
    OBVIOUS
  <2> HIDE DEF T
  <2> QED
    BY <1>2, <1>4, <1>5, <2>1, Counting
<1>7. PICK x : \E c \in 0 .. m : f[Turns] = {x} /\ At(s, m, c, x) /\ Fast(Turns, c, x)
  BY <1>2, <1>6
<1>8. PICK c \in 0 .. m : f[Turns] = {x} /\ At(s, m, c, x) /\ Fast(Turns, c, x)
  BY <1>7
<1>9. ~Ready(x.b)
  <2>1. SUFFICES ASSUME Ready(x.b) PROVE FALSE
    OBVIOUS
  <2>2. /\ s[c + 1].p \in 1 .. MaxPacket /\ Half(x) \in 0 .. 1
        /\ 2 * s[c + 1].p + Half(x) >= Turns + 2
    BY <1>3, <1>8, <2>1
  <2> DEFINE a == s[c + 1].p
             d == Half(x)
  <2>3. a \in 1 .. MaxPacket /\ d \in 0 .. 1 /\ 2 * a + d >= 2 * MaxPacket + 2
    BY <1>2, <2>2
  <2> HIDE DEF a, d
  <2> QED
    BY <1>2, <2>3
<1> HIDE DEF Fast
<1> QED
  BY <1>1, <1>8, <1>9

\* A header is not decoded where a body should be.
LEMMA LoopSplit ==
  ASSUME NEW n, NEW r, r = Received(n), r.decode = TRUE, r.bad = FALSE,
         Ready(r.b) => Head1(r.b).i # Header + 1
  PROVE  Loop(n) = {IF Ready(r.b) THEN [r EXCEPT !.bad = TRUE] ELSE r}
<1>1. PICK f : /\ Loop(n) = f[Turns] /\ f[0] = {Received(n)}
               /\ \A i \in 1 .. Turns : f[i] = {Decode(x) : x \in f[i - 1]}
  BY TurnsOf
<1>2. Turns \in Nat /\ Turns # 0
  BY Bounds DEF Turns
<1> DEFINE y == IF Ready(r.b) THEN [r EXCEPT !.bad = TRUE] ELSE r
           T == {i \in Nat : i + 1 <= Turns => f[i + 1] = {y}}
<1>3. Decode(r) = y
  BY DEF Decode
<1>4. Decode(y) = y
  BY DEF Decode, Received
<1> HIDE DEF y
<1>5. 0 \in T
  <2>1. 0 + 1 <= Turns => 1 \in 1 .. Turns /\ 1 - 1 = 0
    BY <1>2
  <2>2. 0 + 1 <= Turns => f[1] = {Decode(x) : x \in {r}}
    BY <1>1, <2>1
  <2> QED
    BY <1>3, <2>2
<1>6. ASSUME NEW i \in T
      PROVE  i + 1 \in T
  <2>1. SUFFICES ASSUME (i + 1) + 1 <= Turns PROVE f[(i + 1) + 1] = {y}
    OBVIOUS
  <2>2. i + 1 <= Turns /\ (i + 1) + 1 \in 1 .. Turns /\ ((i + 1) + 1) - 1 = i + 1
    BY <1>2, <2>1
  <2>3. f[i + 1] = {y}
    BY <2>2
  <2>4. f[(i + 1) + 1] = {Decode(x) : x \in f[i + 1]}
    BY <1>1, <2>2
  <2> QED
    BY <1>4, <2>3, <2>4
<1>7. T = Nat
  <2>1. T \in SUBSET Nat
    OBVIOUS
  <2> HIDE DEF T
  <2> QED
    BY <1>5, <1>6, <2>1, Counting
<1>8. f[Turns] = {y}
  <2>1. Turns - 1 \in Nat /\ (Turns - 1) + 1 = Turns /\ Turns <= Turns
    BY <1>2
  <2>2. Turns - 1 \in T
    BY <1>7, <2>1
  <2> QED
    BY <2>1, <2>2
<1> QED
  BY <1>1, <1>8 DEF y

-----------------------------------------------------------------------------
(* What the numbers of packets are in a stream. *)

LEMMA NumbersPart ==
  ASSUME NEW s \in Seq(Byte), NEW u \in Seq(Byte), NEW a \in Nat,
         Len(u) + a <= Len(s), \A k \in 1 .. Len(u) : u[k] = s[a + k]
  PROVE  Numbers(u) \subseteq Numbers(s)
<1>1. \A k \in 1 .. Len(u) : a + k \in 1 .. Len(s)
  OBVIOUS
<1> QED
  BY <1>1 DEF Numbers

LEMMA NumbersJoined ==
  ASSUME NEW s \in Seq(Byte), NEW t \in Seq(Byte), NEW u, u = s \o t
  PROVE  Numbers(u) = Numbers(s) \cup Numbers(t)
<1>1. /\ Len(u) = Len(s) + Len(t)
      /\ \A k \in 1 .. Len(s) : u[k] = s[k]
      /\ \A k \in 1 .. Len(t) : u[Len(s) + k] = t[k]
      /\ \A k \in Len(s) + 1 .. Len(u) : u[k] = t[k - Len(s)]
  BY Joined
<1>2. Len(s) \in Nat /\ Len(t) \in Nat
  OBVIOUS
<1>3. ASSUME NEW k \in 1 .. Len(u)
      PROVE  u[k].p \in Numbers(s) \cup Numbers(t)
  <2>1. CASE k <= Len(s)
    BY <1>1, <1>2, <2>1 DEF Numbers
  <2>2. CASE k > Len(s)
    <3>1. k \in Len(s) + 1 .. Len(u) /\ k - Len(s) \in 1 .. Len(t)
      BY <1>1, <1>2, <2>2
    <3> QED
      BY <1>1, <3>1 DEF Numbers
  <2> QED
    BY <1>2, <2>1, <2>2
<1>4. ASSUME NEW k \in 1 .. Len(s)
      PROVE  s[k].p \in Numbers(u)
  <2>1. k \in 1 .. Len(u) /\ u[k] = s[k]
    BY <1>1, <1>2
  <2> QED
    BY <2>1 DEF Numbers
<1>5. ASSUME NEW k \in 1 .. Len(t)
      PROVE  t[k].p \in Numbers(u)
  <2>1. Len(s) + k \in 1 .. Len(u) /\ u[Len(s) + k] = t[k]
    BY <1>1, <1>2
  <2> QED
    BY <2>1 DEF Numbers
<1>6. /\ \A q \in Numbers(u) : \E k \in 1 .. Len(u) : q = u[k].p
      /\ \A q \in Numbers(s) : \E k \in 1 .. Len(s) : q = s[k].p
      /\ \A q \in Numbers(t) : \E k \in 1 .. Len(t) : q = t[k].p
  BY DEF Numbers
<1>7. Numbers(u) \subseteq Numbers(s) \cup Numbers(t)
  BY <1>3, <1>6
<1>8. Numbers(s) \subseteq Numbers(u) /\ Numbers(t) \subseteq Numbers(u)
  BY <1>4, <1>5, <1>6
<1> QED
  BY <1>7, <1>8

LEMMA NumbersOfPacket ==
  ASSUME NEW p \in 1 .. MaxPacket, NEW n \in Nat \ {0}
  PROVE  Numbers(Bytes(p, n)) = {p}
<1> DEFINE t == Bytes(p, n)
<1>1. /\ Len(t) = Header + n
      /\ \A k \in 1 .. Len(t) : t[k].p = p
  BY PacketBytes
<1>2. 1 \in 1 .. Len(t)
  <2>1. Header \in Nat
    BY Sizes
  <2> QED
    BY <1>1, <2>1
<1> HIDE DEF t
<1>3. Numbers(t) = {p}
  BY <1>1, <1>2 DEF Numbers
<1> QED
  BY <1>3 DEF t

LEMMA NumbersNat ==
  ASSUME NEW s \in Seq(Byte)
  PROVE  Numbers(s) \subseteq 1 .. MaxPacket
<1>1. \A k \in 1 .. Len(s) : s[k] \in Byte
  OBVIOUS
<1> QED
  BY <1>1 DEF Numbers, Byte

LEMMA NumbersEmpty == Numbers(<<>>) = {}
BY DEF Numbers

LEMMA Empty ==
  ASSUME NEW b, b = Want(NewBuffer, Header)
  PROVE  /\ Left(NewBuffer) = <<>> /\ Left(b) = <<>> /\ NewBuffer.buf = <<>>
         /\ BufferOK(NewBuffer) /\ BufferOK(b)
         /\ b.buf = <<>> /\ b.r = 0 /\ b.w = Header
         /\ <<>> \o <<>> = <<>> /\ <<>> \in Seq(Byte) /\ Stuff(<<>>)
         /\ \A p : Ends(<<>>, p)
<1>1. Header \in Nat
  BY Sizes
<1>2. b = [buf |-> <<>>, r |-> 0, w |-> Header]
  BY <1>1 DEF Want, NewBuffer
<1>3. Len(<<>>) = 0 /\ <<>> \in Seq(Byte) /\ <<>> \o <<>> = <<>>
  OBVIOUS
<1>4. BufferOK(NewBuffer) /\ BufferOK(b)
  <2>1. b \in [buf : Seq(Byte), r : Nat, w : Int] /\ b.r <= Len(b.buf)
    BY <1>1, <1>2, <1>3
  <2>2. /\ NewBuffer \in [buf : Seq(Byte), r : Nat, w : Int]
        /\ NewBuffer.r <= Len(NewBuffer.buf)
    BY <1>3 DEF NewBuffer
  <2> QED
    BY <2>1, <2>2 DEF BufferOK
<1>5. Stuff(<<>>) /\ \A p : Ends(<<>>, p)
  BY <1>3 DEF Stuff, Chained, Ends
<1>6. Left(NewBuffer) = <<>> /\ Left(b) = <<>>
  BY <1>2, <1>3 DEF Left, NewBuffer
<1> QED
  BY <1>2, <1>3, <1>4, <1>5, <1>6 DEF NewBuffer

\* Bytes that are added to a buffer.
LEMMA Added ==
  ASSUME NEW b, BufferOK(b), NEW t \in Seq(Byte), NEW d, d = Add(b, t)
  PROVE  /\ BufferOK(d) /\ d.r = b.r /\ d.w = b.w
         /\ Left(d) = Left(b) \o t
         /\ Len(d.buf) = Len(b.buf) + Len(t)
         /\ Len(t) >= 1 => d.r < Len(d.buf)
<1> DEFINE s == b.buf
<1>1. s \in Seq(Byte) /\ b.r \in Nat /\ b.r <= Len(s) /\ Len(s) \in Nat /\ Len(t) \in Nat
  BY DEF BufferOK
<1>2. d = [b EXCEPT !.buf = s \o t]
  BY DEF Add
<1>3. d \in [buf : Seq(Byte), r : Nat, w : Int] /\ d.buf = s \o t /\ d.r = b.r /\ d.w = b.w
  <2>1. s \o t \in Seq(Byte) /\ b \in [buf : Seq(Byte), r : Nat, w : Int]
    BY <1>1 DEF BufferOK
  <2> HIDE DEF s
  <2> QED
    BY <1>2, <2>1
<1> DEFINE v == d.buf
           l == Left(b)
           m == Left(d)
           j == l \o t
<1> HIDE DEF s, v, l, m, j
<1>4. /\ v \in Seq(Byte) /\ Len(v) = Len(s) + Len(t)
      /\ \A k \in 1 .. Len(s) : v[k] = s[k]
      /\ \A k \in Len(s) + 1 .. Len(v) : v[k] = t[k - Len(s)]
  <2>1. v = s \o t
    BY <1>3 DEF v
  <2> QED
    BY <1>1, <2>1, Joined
<1>5. BufferOK(d) /\ d.r \in Nat
  BY <1>1, <1>3, <1>4 DEF BufferOK, v
<1>6. /\ l \in Seq(Byte) /\ Len(l) = Len(s) - b.r
      /\ \A k \in 1 .. Len(l) : l[k] = s[b.r + k]
  BY LeftOf DEF l, s
<1>7. /\ m \in Seq(Byte) /\ Len(m) = Len(v) - b.r
      /\ \A k \in 1 .. Len(m) : m[k] = v[b.r + k]
  <2>1. /\ Left(d) \in Seq(Byte) /\ Len(Left(d)) = Len(d.buf) - d.r
        /\ \A k \in 1 .. Len(Left(d)) : Left(d)[k] = d.buf[d.r + k]
    BY <1>5, LeftOf
  <2> QED
    BY <1>3, <2>1 DEF m, v
<1>8. /\ j \in Seq(Byte) /\ Len(j) = Len(l) + Len(t)
      /\ \A k \in 1 .. Len(l) : j[k] = l[k]
      /\ \A k \in Len(l) + 1 .. Len(j) : j[k] = t[k - Len(l)]
  <2>1. j = l \o t
    BY DEF j
  <2>2. l \in Seq(Byte) /\ t \in Seq(Byte)
    BY <1>6
  <2> QED
    BY <2>1, <2>2, Joined
<1>9. Len(m) = Len(j)
  BY <1>1, <1>4, <1>6, <1>7, <1>8
<1>10. ASSUME NEW k \in 1 .. Len(m)
       PROVE  m[k] = j[k]
  <2>a. Len(l) \in Nat /\ Len(m) \in Nat /\ Len(v) \in Nat /\ Len(j) \in Nat
    BY <1>4, <1>6, <1>7, <1>8
  <2>1. CASE k <= Len(l)
    <3>1. k \in 1 .. Len(l) /\ b.r + k \in 1 .. Len(s)
      BY <1>1, <1>6, <2>a, <2>1
    <3> QED
      BY <1>4, <1>6, <1>7, <1>8, <3>1
  <2>2. CASE k > Len(l)
    <3>1. /\ k \in Len(l) + 1 .. Len(j) /\ b.r + k \in Len(s) + 1 .. Len(v)
          /\ (b.r + k) - Len(s) = k - Len(l)
      BY <1>1, <1>4, <1>6, <1>7, <1>9, <2>a, <2>2, SMTT(30)
    <3> QED
      BY <1>4, <1>7, <1>8, <3>1
  <2> QED
    BY <2>a, <2>1, <2>2
<1>11. m = j
  BY <1>7, <1>8, <1>9, <1>10, SameStream
<1> QED
  BY <1>1, <1>3, <1>4, <1>5, <1>11 DEF s, v, l, m, j

-----------------------------------------------------------------------------
(* The connection is closed. *)

Cleared ==
  /\ socket' = "none" /\ up' = <<>> /\ down' = <<>>
  /\ write_buffer' = NewBuffer /\ read_buffer' = Want(NewBuffer, Header)

LEMMA Closed ==
  ASSUME Cleared, split' => decode' /\ client' = "registry", ~Body', garbled' = FALSE
  PROVE  /\ BufferOK(write_buffer') /\ BufferOK(read_buffer')
         /\ up' \in Seq(Byte) /\ down' \in Seq(Byte)
         /\ read_buffer'.buf = <<>> /\ write_buffer'.buf = <<>>
         /\ Incoming' = <<>> /\ Outgoing' = <<>> /\ Stuff(Incoming')
         /\ Numbers(Incoming') = {} /\ Numbers(Outgoing') = {} /\ ~Live'
         /\ Whole' /\ Aligned'
<1> DEFINE b == Want(NewBuffer, Header)
<1>1. /\ Left(NewBuffer) = <<>> /\ Left(b) = <<>> /\ NewBuffer.buf = <<>>
      /\ BufferOK(NewBuffer) /\ BufferOK(b)
      /\ b.buf = <<>> /\ b.r = 0 /\ b.w = Header
      /\ <<>> \o <<>> = <<>> /\ <<>> \in Seq(Byte) /\ Stuff(<<>>)
  BY Empty
<1>2. /\ socket' = "none" /\ up' = <<>> /\ down' = <<>>
      /\ write_buffer' = NewBuffer /\ read_buffer' = b
  BY DEF Cleared
<1> HIDE DEF b
<1>3. Incoming' = <<>> /\ Outgoing' = <<>>
  BY <1>1, <1>2 DEF Incoming, Outgoing
<1>4. Whole' /\ ~Live'
  BY <1>2 DEF Whole, Live
<1>5. ~Ready(read_buffer')
  <2>1. Header \in Nat \ {0} /\ Len(<<>>) = 0
    BY Sizes
  <2> QED
    BY <1>1, <1>2, <2>1 DEF Ready
<1>6. read_buffer'.w = read_buffer'.r + Header
  <2>1. Header \in Nat
    BY Sizes
  <2> QED
    BY <1>1, <1>2, <2>1
<1>7. Aligned'
  BY <1>3, <1>5, <1>6 DEF Aligned
<1> QED
  BY <1>1, <1>2, <1>3, <1>4, <1>7, NumbersEmpty

LEMMA AbortKeeps ==
  ASSUME ControlInv, Abort, client = "registry", Waits
  PROVE  ControlInv'
<1>1. Buffers /\ ControlTypeOK /\ Asked /\ (split => decode)
  BY DEF ControlInv, Buffers, Aligned
<1>2. /\ Cleared /\ split' = (split \/ decode) /\ decode' = decode /\ garbled' = FALSE
      /\ call' = (IF call = "first" THEN "again" ELSE "idle")
      /\ UNCHANGED <<client, packets, dumps, since, neighbours>>
  BY DEF Abort, Reset, Cleared
<1>3. (split' => decode' /\ client' = "registry") /\ ~Body' /\ garbled' = FALSE
  BY <1>1, <1>2 DEF Body, ControlTypeOK
<1>4. /\ BufferOK(write_buffer') /\ BufferOK(read_buffer')
      /\ up' \in Seq(Byte) /\ down' \in Seq(Byte)
      /\ read_buffer'.buf = <<>> /\ write_buffer'.buf = <<>>
      /\ Incoming' = <<>> /\ Outgoing' = <<>> /\ Stuff(Incoming')
      /\ Numbers(Incoming') = {} /\ Numbers(Outgoing') = {} /\ ~Live'
      /\ Whole' /\ Aligned'
  BY <1>2, <1>3, Closed
<1>5. ControlTypeOK'
  <2>1. socket' = "none" /\ split' \in BOOLEAN /\ decode' \in BOOLEAN
    BY <1>1, <1>2 DEF ControlTypeOK, Cleared
  <2> QED
    BY <1>1, <1>2, <1>3, <1>4, <2>1 DEF ControlTypeOK
<1>6. Buffers'
  BY <1>2, <1>4, <1>5 DEF Buffers, Cleared
<1>7. Asked'
  <2>1. Pending' = {}
    BY <1>4 DEF Pending
  <2>2. socket' = "none"
    BY <1>2 DEF Cleared
  <2>3. call' # "idle" => call # "idle"
    BY <1>2
  <2> QED
    BY <1>1, <1>2, <1>4, <2>1, <2>2, <2>3 DEF Asked
<1> QED
  BY <1>4, <1>6, <1>7 DEF ControlInv

LEMMA RestartKeeps ==
  ASSUME ControlInv, Restart
  PROVE  ControlInv'
<1>1. Buffers /\ ControlTypeOK /\ Asked
  BY DEF ControlInv, Buffers
<1>2. /\ Cleared /\ split' = FALSE /\ decode' = FALSE /\ garbled' = FALSE
      /\ call' = "idle" /\ neighbours' = 0
      /\ UNCHANGED <<client, packets, dumps, since>>
  BY DEF Restart, Cleared
<1>3. (split' => decode' /\ client' = "registry") /\ ~Body' /\ garbled' = FALSE
  BY <1>2 DEF Body
<1>4. /\ BufferOK(write_buffer') /\ BufferOK(read_buffer')
      /\ up' \in Seq(Byte) /\ down' \in Seq(Byte)
      /\ read_buffer'.buf = <<>> /\ write_buffer'.buf = <<>>
      /\ Incoming' = <<>> /\ Outgoing' = <<>> /\ Stuff(Incoming')
      /\ Numbers(Incoming') = {} /\ Numbers(Outgoing') = {} /\ ~Live'
      /\ Whole' /\ Aligned'
  BY <1>2, <1>3, Closed
<1>5. ControlTypeOK'
  BY <1>1, <1>2, <1>4 DEF ControlTypeOK, Cleared
<1>6. Buffers'
  BY <1>2, <1>4, <1>5 DEF Buffers, Cleared
<1>7. Asked'
  <2>1. Pending' = {}
    BY <1>4 DEF Pending
  <2>2. socket' = "none"
    BY <1>2 DEF Cleared
  <2> QED
    BY <1>1, <1>2, <1>4, <2>1, <2>2 DEF Asked
<1> QED
  BY <1>4, <1>6, <1>7 DEF ControlInv

LEMMA InitKeeps ==
  ASSUME ControlInit
  PROVE  ControlInv
<1> DEFINE b == Want(NewBuffer, Header)
<1>1. /\ Left(NewBuffer) = <<>> /\ Left(b) = <<>> /\ NewBuffer.buf = <<>>
      /\ BufferOK(NewBuffer) /\ BufferOK(b)
      /\ b.buf = <<>> /\ b.r = 0 /\ b.w = Header
      /\ <<>> \o <<>> = <<>> /\ <<>> \in Seq(Byte) /\ Stuff(<<>>)
  BY Empty
<1>2. /\ socket = "none" /\ up = <<>> /\ down = <<>>
      /\ write_buffer = NewBuffer /\ read_buffer = b
      /\ decode = FALSE /\ split = FALSE /\ garbled = FALSE
      /\ packets = 0 /\ dumps = {} /\ call = "idle" /\ since = 0 /\ neighbours = 0
      /\ client \in {"node", "registry"}
  BY DEF ControlInit
<1> HIDE DEF b
<1>3. Incoming = <<>> /\ Outgoing = <<>> /\ Pending = {}
  <2>1. Incoming = <<>> /\ Outgoing = <<>>
    BY <1>1, <1>2 DEF Incoming, Outgoing
  <2> QED
    BY <2>1, NumbersEmpty DEF Pending
<1>4. MaxPacket \in Nat \ {0} /\ Header \in Nat \ {0} /\ Len(<<>>) = 0
  BY Bounds, Sizes
<1>5. Buffers
  <2>1. ControlTypeOK
    <3>1. packets \in 0 .. MaxPacket /\ since \in 0 .. MaxPacket + 1
      BY <1>2, <1>4
    <3>2. dumps \subseteq 1 .. packets /\ neighbours \in {0} \cup dumps
      BY <1>2
    <3> QED
      BY <1>1, <1>2, <3>1, <3>2 DEF ControlTypeOK
  <2> QED
    BY <1>1, <1>2, <1>3, <2>1 DEF Buffers
<1>6. Whole
  BY <1>2 DEF Whole
<1>7. Aligned
  BY <1>1, <1>2, <1>3, <1>4 DEF Aligned, Body, Ready
<1>8. Asked
  BY <1>2, <1>3, NumbersEmpty DEF Asked, Live
<1> QED
  BY <1>5, <1>6, <1>7, <1>8 DEF ControlInv

-----------------------------------------------------------------------------
(* A packet is sent. *)

LEMMA Parts ==
  ASSUME Buffers
  PROVE  /\ ControlTypeOK /\ BufferOK(read_buffer) /\ BufferOK(write_buffer)
         /\ Left(read_buffer) \in Seq(Byte) /\ Left(write_buffer) \in Seq(Byte)
         /\ up \in Seq(Byte) /\ down \in Seq(Byte)
         /\ Incoming \in Seq(Byte) /\ Outgoing \in Seq(Byte)
         /\ packets \in Nat /\ MaxPacket \in Nat
         /\ Numbers(Incoming) \subseteq Nat /\ Numbers(Outgoing) \subseteq Nat
<1>1. /\ ControlTypeOK /\ BufferOK(read_buffer) /\ BufferOK(write_buffer)
      /\ up \in Seq(Byte) /\ down \in Seq(Byte) /\ packets \in 0 .. MaxPacket
  BY DEF Buffers, ControlTypeOK
<1>2. Left(read_buffer) \in Seq(Byte) /\ Left(write_buffer) \in Seq(Byte)
  BY <1>1, LeftOf
<1>3. Incoming \in Seq(Byte) /\ Outgoing \in Seq(Byte)
  BY <1>1, <1>2 DEF Incoming, Outgoing
<1>4. 1 .. MaxPacket \subseteq Nat /\ packets \in Nat /\ MaxPacket \in Nat
  BY <1>1, Bounds
<1>5. Numbers(Incoming) \subseteq Nat /\ Numbers(Outgoing) \subseteq Nat
  BY <1>3, <1>4, NumbersNat
<1> QED
  BY <1>1, <1>2, <1>3, <1>4, <1>5

Sent ==
  /\ Queue /\ socket' = (IF socket = "none" THEN "open" ELSE socket)
  /\ UNCHANGED <<client, up, down, read_buffer, decode, split, garbled>>

LEMMA SentKeeps ==
  ASSUME ControlInv, Sent
  PROVE  /\ packets' = packets + 1 /\ packets + 1 \in 1 .. MaxPacket
         /\ BufferOK(write_buffer')
         /\ write_buffer'.buf # <<>> => write_buffer'.r < Len(write_buffer'.buf)
         /\ Incoming' = Incoming /\ socket' \in {"open", "closed"}
         /\ socket' # "open" => up' = <<>>
         /\ Numbers(Outgoing') = Numbers(Outgoing) \cup {packets + 1}
         /\ Pending' = Pending \cup {packets + 1}
         /\ Live' => Live \/ Pending = {}
         /\ garbled' = garbled /\ Whole' /\ Aligned'
         /\ \A p \in Pending' : p <= packets'
         /\ \A p \in Numbers(Incoming'), q \in Numbers(Outgoing') : p < q
<1>1. Buffers /\ Whole /\ Aligned /\ ControlTypeOK
  BY DEF ControlInv, Buffers
<1>2. /\ BufferOK(write_buffer) /\ Left(read_buffer) \in Seq(Byte)
      /\ Left(write_buffer) \in Seq(Byte) /\ up \in Seq(Byte) /\ down \in Seq(Byte)
      /\ Incoming \in Seq(Byte) /\ Outgoing \in Seq(Byte) /\ packets \in Nat
      /\ MaxPacket \in Nat
  BY <1>1, Parts
<1> DEFINE p == packets + 1
           t == Bytes(p, 1)
           s == Outgoing
           u == s \o t
<1>3. packets' = p /\ p \in 1 .. MaxPacket /\ write_buffer' = Add(write_buffer, t)
  BY <1>2 DEF Sent, Queue
<1>4. /\ t \in Seq(Byte) /\ Len(t) = Header + 1 /\ Len(t) >= 1
      /\ \A k \in 1 .. Len(t) : t[k].p = p /\ t[k].i = k /\ t[k].n = 1
  <2>1. 1 \in Nat \ {0} /\ Header \in Nat \ {0}
    BY Sizes
  <2>2. /\ t \in Seq(Byte) /\ Len(t) = Header + 1
        /\ \A k \in 1 .. Len(t) : t[k].p = p /\ t[k].i = k /\ t[k].n = 1
    BY <1>3, <2>1, PacketBytes
  <2> QED
    BY <2>1, <2>2
<1>5. /\ BufferOK(write_buffer') /\ Left(write_buffer') = Left(write_buffer) \o t
      /\ write_buffer'.r < Len(write_buffer'.buf)
  <2> HIDE DEF t
  <2> QED
    BY <1>2, <1>3, <1>4, Added
<1>6. UNCHANGED <<client, up, down, read_buffer, decode, split, garbled>>
  BY DEF Sent
<1>7. Incoming' = Incoming
  BY <1>6 DEF Incoming
<1>8. Outgoing' = u
  <2>1. Outgoing' = up \o (Left(write_buffer) \o t)
    BY <1>5, <1>6 DEF Outgoing
  <2> DEFINE l == Left(write_buffer)
  <2>2. up \in Seq(Byte) /\ l \in Seq(Byte) /\ t \in Seq(Byte)
    BY <1>2, <1>4
  <2> HIDE DEF t, l
  <2>3. (up \o l) \o t = up \o (l \o t)
    BY <2>2, ConcatAssociative
  <2> QED
    BY <2>1, <2>3 DEF Outgoing, l
<1>9. socket' = (IF socket = "none" THEN "open" ELSE socket) /\ socket \in {"none", "open", "closed"}
  BY <1>1 DEF Sent, ControlTypeOK
<1>10. /\ Numbers(Outgoing') = Numbers(Outgoing) \cup {p}
       /\ Pending' = Pending \cup {p}
  <2>1. Numbers(t) = {p}
    BY <1>3, NumbersOfPacket
  <2>a. s \in Seq(Byte) /\ t \in Seq(Byte) /\ u = s \o t
    BY <1>2, <1>4
  <2> HIDE DEF t, s, u
  <2>b. Numbers(u) = Numbers(s) \cup Numbers(t)
    BY <2>a, NumbersJoined
  <2>2. Numbers(u) = Numbers(s) \cup {p}
    BY <2>1, <2>b
  <2> QED
    BY <1>7, <1>8, <2>2 DEF Pending, s
<1>11. socket = "none" => Incoming = <<>> /\ Outgoing = <<>>
  BY <1>1 DEF Buffers
<1>12. Live' => Live \/ Pending = {}
  <2>1. socket = "none" => Pending = {}
    BY <1>11, NumbersEmpty DEF Pending
  <2> QED
    BY <1>6, <1>9, <2>1 DEF Live
<1>13. Whole'
  <2>1. SUFFICES ASSUME socket' = "open" PROVE Whole'
    BY DEF Whole
  <2>2. socket \in {"none", "open"}
    BY <1>9, <2>1
  <2>a. Len(<<>>) = 0 /\ Stuff(<<>>) /\ \A q : Ends(<<>>, q)
    BY Empty
  <2>3. /\ Stuff(s) /\ Ends(s, packets)
        /\ \A k \in 1 .. Len(s) : s[k].n = 1
        /\ s # <<>> => s[1].i = 1
        /\ Ends(Incoming, IF s = <<>> THEN packets ELSE s[1].p - 1)
    BY <1>1, <1>11, <2>2, <2>a DEF Whole
  <2>4. Stuff(u) /\ Ends(u, p) /\ u # <<>>
    <3>1. p - 1 = packets /\ 1 \in Nat \ {0}
      BY <1>2
    <3> HIDE DEF p
    <3> QED
      BY <1>3, <2>3, <3>1, StuffMore
  <2> HIDE DEF t, s
  <2>5. /\ Len(u) = Len(s) + Len(t)
        /\ \A k \in 1 .. Len(s) : u[k] = s[k]
        /\ \A k \in 1 .. Len(t) : u[Len(s) + k] = t[k]
        /\ \A k \in Len(s) + 1 .. Len(u) : u[k] = t[k - Len(s)]
        /\ s = <<>> <=> Len(s) = 0
        /\ Len(s) \in Nat
    <3>1. s \in Seq(Byte)
      BY <1>2 DEF s
    <3> QED
      BY <1>4, <3>1, Joined
  <2>6. \A k \in 1 .. Len(u) : u[k].n = 1
    <3> SUFFICES ASSUME NEW k \in 1 .. Len(u) PROVE u[k].n = 1
      OBVIOUS
    <3>1. CASE k \in 1 .. Len(s)
      BY <2>3, <2>5, <3>1
    <3>2. CASE k \notin 1 .. Len(s)
      <4>1. k \in Len(s) + 1 .. Len(u) /\ k - Len(s) \in 1 .. Len(t)
        BY <1>4, <2>5, <3>2
      <4> QED
        BY <1>4, <2>5, <4>1
    <3> QED
      BY <3>1, <3>2
  <2>7. u[1] = IF s = <<>> THEN t[1] ELSE s[1]
    <3>1. 1 \in 1 .. Len(t) /\ (Len(s) # 0 => 1 \in 1 .. Len(s))
      BY <1>4, <2>5
    <3>2. Len(s) = 0 => Len(s) + 1 = 1
      OBVIOUS
    <3> QED
      BY <2>5, <3>1, <3>2
  <2>8. u[1].i = 1
    BY <1>4, <2>3, <2>7
  <2>9. Ends(Incoming, u[1].p - 1)
    <3>1. CASE s = <<>>
      <4>1. u[1].p - 1 = packets
        BY <1>2, <1>4, <2>7, <3>1, SMTT(30)
      <4> QED
        BY <2>3, <3>1, <4>1
    <3>2. CASE s # <<>>
      BY <2>3, <2>7, <3>2
    <3> QED
      BY <3>1, <3>2
  <2> HIDE DEF u
  <2> QED
    BY <1>3, <1>7, <1>8, <2>4, <2>6, <2>8, <2>9 DEF Whole
<1>14. Aligned'
  <2>1. socket' # "none" /\ (socket' = "open" /\ Body => socket = "open")
    BY <1>1, <1>9 DEF Aligned
  <2>2. Body' = Body
    BY <1>6 DEF Body
  <2> QED
    BY <1>1, <1>6, <1>7, <2>1, <2>2 DEF Aligned, Ready
<1>15. socket' # "open" => up' = <<>>
  BY <1>1, <1>6, <1>9 DEF Buffers
<1>16. /\ \A q \in Pending' : q <= packets'
       /\ \A r \in Numbers(Incoming'), q \in Numbers(Outgoing') : r < q
  <2>1. /\ \A q \in Pending : q <= packets /\ q \in Nat
        /\ \A r \in Numbers(Incoming), q \in Numbers(Outgoing) : r < q
        /\ Numbers(Incoming) \subseteq Pending
    BY <1>1, Parts DEF ControlInv, Asked, Pending
  <2> HIDE DEF p
  <2>2. \A q \in Pending : q <= p /\ q < p
    BY <1>2, <2>1 DEF p
  <2>3. p <= p
    BY <1>3
  <2> QED
    BY <1>3, <1>7, <1>10, <2>1, <2>2, <2>3
<1> QED
  BY <1>3, <1>5, <1>6, <1>7, <1>9, <1>10, <1>12, <1>13, <1>14, <1>15, <1>16

LEMMA CallKeeps ==
  ASSUME ControlInv, Call
  PROVE  ControlInv'
<1>1. Buffers /\ ControlTypeOK /\ Whole /\ Aligned /\ Asked
  BY DEF ControlInv, Buffers
<1>2. packets \in Nat /\ MaxPacket \in Nat /\ packets <= MaxPacket /\ dumps \subseteq 1 .. packets
  BY <1>1, Bounds DEF ControlTypeOK
<1>3. /\ call = "idle" /\ since' = packets + 1
      /\ UNCHANGED <<client, split, garbled>>
  BY DEF Call
<1>4. CASE /\ socket = "none" /\ call' = "idle" /\ neighbours' = 0
           /\ UNCHANGED <<conn, packets, dumps>>
  <2>1. UNCHANGED <<socket, up, down, write_buffer, read_buffer, decode>>
    BY <1>4 DEF conn
  <2>2. /\ Incoming' = Incoming /\ Outgoing' = Outgoing /\ Pending' = Pending
        /\ Live' = Live
    BY <2>1 DEF Incoming, Outgoing, Pending, Live
  <2>3. ControlTypeOK'
    BY <1>1, <1>2, <1>3, <1>4, <2>1 DEF ControlTypeOK
  <2>4. Buffers'
    BY <1>1, <2>1, <2>2, <2>3 DEF Buffers
  <2>5. Whole'
    BY <1>1, <1>4, <2>1, <2>2 DEF Whole
  <2>6. Aligned'
    BY <1>1, <1>3, <2>1, <2>2 DEF Aligned, Body, Ready
  <2>7. Asked'
    BY <1>1, <1>2, <1>3, <1>4, <2>1, <2>2 DEF Asked, Waits
  <2> QED
    BY <2>4, <2>5, <2>6, <2>7 DEF ControlInv
<1>5. CASE /\ Queue /\ dumps' = dumps \cup {packets + 1} /\ call' = "first"
           /\ socket' = (IF socket = "none" THEN "open" ELSE socket)
           /\ UNCHANGED <<up, down, read_buffer, decode, neighbours>>
  <2>1. /\ packets' = packets + 1 /\ packets + 1 \in 1 .. MaxPacket
        /\ BufferOK(write_buffer')
        /\ write_buffer'.buf # <<>> => write_buffer'.r < Len(write_buffer'.buf)
        /\ Incoming' = Incoming /\ socket' \in {"open", "closed"}
        /\ socket' # "open" => up' = <<>>
        /\ Numbers(Outgoing') = Numbers(Outgoing) \cup {packets + 1}
        /\ Pending' = Pending \cup {packets + 1}
        /\ Live' => Live \/ Pending = {}
        /\ garbled' = garbled /\ Whole' /\ Aligned'
        /\ \A p \in Pending' : p <= packets'
        /\ \A p \in Numbers(Incoming'), q \in Numbers(Outgoing') : p < q
    BY <1>3, <1>5, SentKeeps DEF Sent
  <2>2. ControlTypeOK'
    BY <1>1, <1>2, <1>3, <1>5, <2>1 DEF ControlTypeOK
  <2>3. Buffers'
    BY <1>1, <1>5, <2>1, <2>2 DEF Buffers
  <2>4. Asked'
    <3>3. client' = "registry" => \A p \in 1 .. packets' : p \in dumps'
      BY <1>1, <1>2, <1>3, <1>5, <2>1 DEF Asked
    <3>4. Live' /\ ~garbled' => Pending' \cap dumps' \subseteq {packets + 1}
      <4>1. Live /\ ~garbled => Pending \cap dumps = {}
        BY <1>1, <1>3 DEF Asked, Waits
      <4>2. Live' /\ ~garbled' => Pending \cap dumps = {}
        BY <2>1, <4>1
      <4> QED
        BY <1>5, <2>1, <4>2
    <3>5. Waits' /\ since' = packets + 1 /\ call' = "first"
      BY <1>3, <1>5 DEF Waits
    <3> QED
      BY <1>2, <1>3, <1>5, <2>1, <3>3, <3>4, <3>5 DEF Asked
  <2> QED
    BY <2>1, <2>3, <2>4 DEF ControlInv
<1> QED
  BY <1>4, <1>5 DEF Call, RequestDump

LEMMA AgainKeeps ==
  ASSUME ControlInv, Again
  PROVE  ControlInv'
<1>1. Buffers /\ ControlTypeOK /\ Whole /\ Aligned /\ Asked
  BY DEF ControlInv, Buffers
<1>2. packets \in Nat /\ MaxPacket \in Nat /\ packets <= MaxPacket /\ dumps \subseteq 1 .. packets
  BY <1>1, Bounds DEF ControlTypeOK
<1>3. /\ call = "again" /\ UNCHANGED <<client, since, split, garbled>>
      /\ since \in 1 .. packets
  BY <1>1 DEF Again, Asked
<1>a. socket = "none" /\ client # "node" /\ Pending = {}
  <2>1. socket = "none" /\ client # "node"
    BY <1>1, <1>3 DEF Asked
  <2>2. Incoming = <<>> /\ Outgoing = <<>>
    BY <1>1, <2>1 DEF Buffers
  <2> QED
    BY <2>1, <2>2, NumbersEmpty DEF Pending
<1>4. CASE /\ socket = "none" /\ call' = "idle" /\ neighbours' = 0
           /\ UNCHANGED <<conn, packets, dumps>>
  <2>1. UNCHANGED <<socket, up, down, write_buffer, read_buffer, decode>>
    BY <1>4 DEF conn
  <2>2. /\ Incoming' = Incoming /\ Outgoing' = Outgoing /\ Pending' = Pending
        /\ Live' = Live
    BY <2>1 DEF Incoming, Outgoing, Pending, Live
  <2>3. ControlTypeOK'
    BY <1>1, <1>2, <1>3, <1>4, <2>1 DEF ControlTypeOK
  <2>4. Buffers'
    BY <1>1, <2>1, <2>2, <2>3 DEF Buffers
  <2>5. Whole'
    BY <1>1, <1>4, <2>1, <2>2 DEF Whole
  <2>6. Aligned'
    BY <1>1, <1>3, <2>1, <2>2 DEF Aligned, Body, Ready
  <2>7. Asked'
    BY <1>1, <1>2, <1>3, <1>a, <1>4, <2>1, <2>2 DEF Asked, Waits
  <2> QED
    BY <2>4, <2>5, <2>6, <2>7 DEF ControlInv
<1>5. CASE /\ Queue /\ dumps' = dumps \cup {packets + 1} /\ call' = "second"
           /\ socket' = (IF socket = "none" THEN "open" ELSE socket)
           /\ UNCHANGED <<up, down, read_buffer, decode, neighbours>>
  <2>1. /\ packets' = packets + 1 /\ packets + 1 \in 1 .. MaxPacket
        /\ BufferOK(write_buffer')
        /\ write_buffer'.buf # <<>> => write_buffer'.r < Len(write_buffer'.buf)
        /\ Incoming' = Incoming /\ socket' \in {"open", "closed"}
        /\ socket' # "open" => up' = <<>>
        /\ Numbers(Outgoing') = Numbers(Outgoing) \cup {packets + 1}
        /\ Pending' = Pending \cup {packets + 1}
        /\ Live' => Live \/ Pending = {}
        /\ garbled' = garbled /\ Whole' /\ Aligned'
        /\ \A p \in Pending' : p <= packets'
        /\ \A p \in Numbers(Incoming'), q \in Numbers(Outgoing') : p < q
    BY <1>3, <1>5, SentKeeps DEF Sent
  <2>2. ControlTypeOK'
    BY <1>1, <1>2, <1>3, <1>5, <2>1 DEF ControlTypeOK
  <2>3. Buffers'
    BY <1>1, <1>5, <2>1, <2>2 DEF Buffers
  <2>4. Asked'
    <3>3. client' = "registry" => \A p \in 1 .. packets' : p \in dumps'
      BY <1>1, <1>2, <1>3, <1>5, <2>1 DEF Asked
    <3>4. Pending' = {packets + 1} /\ packets + 1 >= since
      BY <1>2, <1>3, <1>a, <2>1
    <3>5. Waits' /\ since' = since /\ call' = "second" /\ client' = client
      BY <1>3, <1>5 DEF Waits
    <3> QED
      BY <1>2, <1>3, <1>a, <2>1, <3>3, <3>4, <3>5 DEF Asked
  <2> QED
    BY <2>1, <2>3, <2>4 DEF ControlInv
<1> QED
  BY <1>4, <1>5 DEF Again, RequestDump

LEMMA SetCostKeeps ==
  ASSUME ControlInv, SetCost
  PROVE  ControlInv'
<1>1. Buffers /\ ControlTypeOK /\ Asked
  BY DEF ControlInv, Buffers
<1>2. packets \in Nat /\ MaxPacket \in Nat /\ packets <= MaxPacket /\ dumps \subseteq 1 .. packets
  BY <1>1, Bounds DEF ControlTypeOK
<1>3. /\ client = "node" /\ socket # "none" /\ Queue
      /\ UNCHANGED <<client, socket, up, down, read_buffer, decode, dumps, call,
                     since, neighbours, split, garbled>>
  BY DEF SetCost
<1>4. /\ packets' = packets + 1 /\ packets + 1 \in 1 .. MaxPacket
      /\ BufferOK(write_buffer')
      /\ write_buffer'.buf # <<>> => write_buffer'.r < Len(write_buffer'.buf)
      /\ Incoming' = Incoming /\ socket' \in {"open", "closed"}
      /\ socket' # "open" => up' = <<>>
      /\ Numbers(Outgoing') = Numbers(Outgoing) \cup {packets + 1}
      /\ Pending' = Pending \cup {packets + 1}
      /\ Whole' /\ Aligned'
      /\ \A p \in Pending' : p <= packets'
      /\ \A p \in Numbers(Incoming'), q \in Numbers(Outgoing') : p < q
  BY <1>3, SentKeeps DEF Sent
<1>5. ControlTypeOK'
  BY <1>1, <1>2, <1>3, <1>4 DEF ControlTypeOK
<1>6. Buffers'
  BY <1>1, <1>3, <1>4, <1>5 DEF Buffers
<1>7. Asked'
  <2>3. Live' = Live /\ Waits' = Waits
    BY <1>3 DEF Live, Waits
  <2>4. Pending' \cap dumps' = Pending \cap dumps
    BY <1>2, <1>3, <1>4
  <2>5. since' <= packets' + 1 /\ (call' # "idle" => since' \in 1 .. packets')
    <3>1. since \in Nat /\ since <= packets + 1 /\ (call # "idle" => since \in 1 .. packets)
      BY <1>1, <1>2 DEF ControlTypeOK, Asked
    <3> QED
      BY <1>2, <1>3, <1>4, <3>1
  <2> QED
    BY <1>1, <1>3, <1>4, <2>3, <2>4, <2>5 DEF Asked
<1> QED
  BY <1>4, <1>6, <1>7 DEF ControlInv

-----------------------------------------------------------------------------
(* Bytes move. *)

\* Nothing new is pending.
LEMMA AskedLess ==
  ASSUME Asked, Pending' \subseteq Pending,
         \A p \in Numbers(Incoming'), q \in Numbers(Outgoing') : p < q,
         Live' /\ ~garbled' => (Live /\ ~garbled) \/ Pending' = {},
         UNCHANGED <<client, packets, dumps, since, call>>,
         call = "again" => socket' = "none"
  PROVE  Asked'
<1>1. Waits' = Waits
  BY DEF Waits
<1>2. Pending' \cap dumps' \subseteq Pending \cap dumps
  OBVIOUS
<1> QED
  BY <1>1, <1>2 DEF Asked

LEMMA ConnectKeeps ==
  ASSUME ControlInv, Connect
  PROVE  ControlInv'
<1>1. Buffers /\ ControlTypeOK /\ Whole /\ Aligned /\ Asked
  BY DEF ControlInv, Buffers
<1>2. /\ socket = "none" /\ socket' = "open" /\ client = "node"
      /\ UNCHANGED <<client, up, down, write_buffer, read_buffer, decode, packets,
                     dumps, call, since, neighbours, split, garbled>>
  BY DEF Connect
<1>3. /\ Incoming' = Incoming /\ Outgoing' = Outgoing /\ Pending' = Pending
      /\ Incoming = <<>> /\ Outgoing = <<>> /\ Pending = {}
  <2>1. Incoming' = Incoming /\ Outgoing' = Outgoing
    BY <1>2 DEF Incoming, Outgoing
  <2>2. Incoming = <<>> /\ Outgoing = <<>>
    BY <1>1, <1>2 DEF Buffers
  <2> QED
    BY <2>1, <2>2, NumbersEmpty DEF Pending
<1>4. ControlTypeOK'
  BY <1>1, <1>2 DEF ControlTypeOK
<1>5. Buffers'
  BY <1>1, <1>2, <1>3, <1>4 DEF Buffers
<1>6. Whole'
  BY <1>3, Empty DEF Whole
<1>7. Aligned'
  BY <1>1, <1>2, <1>3 DEF Aligned, Body, Ready
<1>8. Asked'
  <2>1. call # "again"
    BY <1>1, <1>2 DEF Asked
  <2> QED
    BY <1>1, <1>2, <1>3, <2>1, NumbersEmpty, AskedLess
<1> QED
  BY <1>5, <1>6, <1>7, <1>8 DEF ControlInv

LEMMA WriteKeeps ==
  ASSUME ControlInv, NEW n \in Nat, Write(n)
  PROVE  ControlInv'
<1>1. Buffers /\ ControlTypeOK /\ Whole /\ Aligned /\ Asked
  BY DEF ControlInv, Buffers
<1>2. /\ BufferOK(write_buffer) /\ Left(write_buffer) \in Seq(Byte) /\ up \in Seq(Byte)
      /\ Outgoing \in Seq(Byte)
  BY <1>1, Parts
<1> DEFINE l == Left(write_buffer)
           b == write_buffer
           a == SubSeq(l, 1, n)
           z == SubSeq(l, n + 1, Len(l))
           q == Seek(b, b.r + n)
<1>3. /\ Selects /\ socket = "open" /\ b.buf # <<>> /\ n \in 1 .. Len(l)
      /\ up' = up \o a /\ write_buffer' = q
      /\ UNCHANGED <<client, socket, down, read_buffer, decode, packets, dumps, call,
                     since, neighbours, split, garbled>>
  BY DEF Write
<1>4. /\ BufferOK(q) /\ (q.buf # <<>> => q.r < Len(q.buf))
      /\ Len(Left(q)) = Len(l) - n
      /\ \A k \in 1 .. Len(Left(q)) : Left(q)[k] = l[n + k]
      /\ Left(q) \in Seq(Byte)
  <2>1. /\ Len(l) = Len(b.buf) - b.r /\ Len(b.buf) \in Nat /\ b.r \in 0 .. Len(b.buf)
    BY <1>2, LeftOf
  <2>2. b.r + n \in b.r .. Len(b.buf) /\ (b.r + n) - b.r = n
    BY <1>3, <2>1
  <2>3. b.buf # <<>> => b.r < Len(b.buf)
    BY <1>1 DEF Buffers
  <2>4. BufferOK(b)
    BY <1>2
  <2> DEFINE r == b.r + n
  <2>a. q = Seek(b, r) /\ r \in b.r .. Len(b.buf)
    BY <2>2
  <2> HIDE DEF b, q, r
  <2>5. /\ BufferOK(q) /\ (q.buf # <<>> => q.r < Len(q.buf))
        /\ Len(Left(q)) = Len(Left(b)) - (r - b.r)
        /\ \A k \in 1 .. Len(Left(q)) : Left(q)[k] = Left(b)[(r - b.r) + k]
    BY <2>3, <2>4, <2>a, SeekLeft
  <2>6. Left(q) \in Seq(Byte)
    BY <2>5, LeftOf
  <2> QED
    BY <2>2, <2>5, <2>6 DEF b, r
<1> HIDE DEF q
<1>5. Outgoing' = Outgoing
  <2>1. l \in Seq(Byte) /\ n \in 1 .. Len(l) /\ Len(l) \in Nat
    BY <1>2, <1>3
  <2> HIDE DEF l
  <2>2. a \in Seq(Byte) /\ z \in Seq(Byte) /\ a \o z = l
    <3>1. /\ 1 \in 1 .. Len(l) + 1 /\ n \in 1 - 1 .. Len(l)
          /\ Len(l) \in n .. Len(l)
      BY <2>1
    <3>2. a \o z = SubSeq(l, 1, Len(l))
      BY <2>1, <3>1, ConcatAdjacentSubSeq
    <3>3. SubSeq(l, 1, Len(l)) = l
      BY <2>1, SubSeqFull
    <3>4. 0 \in 0 .. Len(l) /\ n \in 0 .. Len(l) /\ 0 + 1 = 1
      BY <2>1
    <3>5. a \in Seq(Byte)
      BY <2>1, <3>4, Cut
    <3>6. z \in Seq(Byte)
      BY <2>1, <3>1, <3>4, Cut
    <3> QED
      BY <3>2, <3>3, <3>5, <3>6
  <2>3. Left(q) = z
    <3>1. /\ 0 \in 0 .. Len(l) /\ n \in 0 .. Len(l) /\ Len(l) \in n .. Len(l)
      BY <2>1
    <3>2. /\ Len(z) = Len(l) - n
          /\ \A k \in 1 .. Len(z) : z[k] = l[n + k]
      BY <2>1, <3>1, Cut
    <3> HIDE DEF z
    <3> QED
      BY <1>4, <2>2, <3>2, SameStream
  <2> HIDE DEF a, z
  <2>4. (up \o a) \o z = up \o (a \o z)
    <3>1. up \in Seq(Byte) /\ a \in Seq(Byte) /\ z \in Seq(Byte)
      BY <1>2, <2>2
    <3> QED
      BY <3>1, ConcatAssociative
  <2> QED
    BY <1>3, <2>2, <2>3, <2>4 DEF Outgoing, l
<1>6. up' \in Seq(Byte)
  <2>1. l \in Seq(Byte) /\ n \in 0 .. Len(l) /\ 0 \in 0 .. Len(l) /\ 0 + 1 = 1
    BY <1>2, <1>3
  <2> HIDE DEF l
  <2>2. a \in Seq(Byte)
    BY <2>1, Cut
  <2> HIDE DEF a
  <2> QED
    BY <1>2, <1>3, <2>2
<1>7. Incoming' = Incoming /\ Pending' = Pending /\ Live' = Live
  BY <1>3, <1>5 DEF Incoming, Pending, Live
<1>8. ControlTypeOK'
  BY <1>1, <1>3, <1>4, <1>6 DEF ControlTypeOK
<1>9. Buffers'
  BY <1>1, <1>3, <1>4, <1>5, <1>7, <1>8 DEF Buffers
<1>10. Whole'
  BY <1>1, <1>3, <1>5, <1>7 DEF Whole
<1>11. Aligned'
  BY <1>1, <1>3, <1>7 DEF Aligned, Body, Ready
<1>12. Asked'
  <2>1. call # "again"
    BY <1>1, <1>3 DEF Asked
  <2>2. \A p \in Numbers(Incoming'), r \in Numbers(Outgoing') : p < r
    BY <1>1, <1>5, <1>7 DEF Asked
  <2> QED
    BY <1>1, <1>3, <1>7, <2>1, <2>2, AskedLess
<1> QED
  BY <1>9, <1>10, <1>11, <1>12 DEF ControlInv

LEMMA RaiseKeeps ==
  ASSUME ControlInv, Raise
  PROVE  ControlInv'
<1>1. Buffers /\ ControlTypeOK /\ Whole /\ Aligned /\ Asked
  BY DEF ControlInv, Buffers
<1>2. CASE client # "registry"
  BY <1>2, RestartKeeps DEF Raise
<1>3. CASE client = "registry"
  <2>1. /\ socket = "closed" /\ (down = <<>> \/ write_buffer.buf # <<>>) /\ call' = "idle"
        /\ UNCHANGED <<client, conn, packets, dumps, since, neighbours, split, garbled>>
    BY <1>3 DEF Raise
  <2>2. UNCHANGED <<socket, up, down, write_buffer, read_buffer, decode>>
    BY <2>1 DEF conn
  <2>3. /\ Incoming' = Incoming /\ Outgoing' = Outgoing /\ Pending' = Pending
        /\ Live' = Live
    BY <2>2 DEF Incoming, Outgoing, Pending, Live
  <2>4. ControlTypeOK'
    BY <1>1, <2>1, <2>2 DEF ControlTypeOK
  <2>5. Buffers'
    BY <1>1, <2>2, <2>3, <2>4 DEF Buffers
  <2>6. Whole'
    BY <1>1, <2>1, <2>2, <2>3 DEF Whole
  <2>7. Aligned'
    BY <1>1, <2>1, <2>2, <2>3 DEF Aligned, Body, Ready
  <2>8. ~Live \/ garbled
    <3>1. SUFFICES ASSUME down # <<>>, ~garbled PROVE FALSE
      BY <2>1 DEF Live
    <3>2. write_buffer.buf # <<>>
      BY <2>1, <3>1
    <3>3. Len(Left(write_buffer)) # 0 /\ Left(write_buffer) \in Seq(Byte) /\ up = <<>>
          /\ down \in Seq(Byte) /\ Left(read_buffer) \in Seq(Byte)
      <4>1. /\ BufferOK(write_buffer) /\ write_buffer.r < Len(write_buffer.buf)
            /\ up = <<>> /\ down \in Seq(Byte) /\ Left(read_buffer) \in Seq(Byte)
        BY <1>1, <2>1, <3>2, Parts DEF Buffers
      <4>2. /\ Left(write_buffer) \in Seq(Byte)
            /\ Len(Left(write_buffer)) = Len(write_buffer.buf) - write_buffer.r
            /\ Len(write_buffer.buf) \in Nat
            /\ write_buffer.r \in 0 .. Len(write_buffer.buf)
        BY <4>1, LeftOf
      <4> QED
        BY <4>1, <4>2
    <3>4. Numbers(down) \subseteq Numbers(Incoming)
      <4> DEFINE l == Left(read_buffer)
      <4>1. l \in Seq(Byte)
        BY <3>3
      <4> HIDE DEF l
      <4>2. Numbers(l \o down) = Numbers(l) \cup Numbers(down)
        BY <3>3, <4>1, NumbersJoined
      <4> QED
        BY <4>2 DEF Incoming, l
    <3>5. Numbers(Outgoing) = Numbers(Left(write_buffer))
      <4> DEFINE l == Left(write_buffer)
      <4>1. l \in Seq(Byte)
        BY <3>3
      <4> HIDE DEF l
      <4>2. <<>> \o l = l
        BY <4>1, ConcatEmptySeq
      <4> QED
        BY <3>3, <4>2 DEF Outgoing, l
    <3>6. PICK p : p \in Numbers(down)
      <4>1. 1 \in 1 .. Len(down)
        BY <3>1, <3>3
      <4> QED
        BY <4>1 DEF Numbers
    <3>7. PICK q : q \in Numbers(Left(write_buffer))
      <4>1. 1 \in 1 .. Len(Left(write_buffer))
        BY <3>3
      <4> QED
        BY <4>1 DEF Numbers
    <3>8. p < q /\ p \in Nat /\ q \in Nat /\ {p, q} \subseteq Pending
      <4>1. p \in Numbers(Incoming) /\ q \in Numbers(Outgoing)
        BY <3>4, <3>5, <3>6, <3>7
      <4>2. Numbers(Incoming) \subseteq Nat /\ Numbers(Outgoing) \subseteq Nat
        BY <1>1, Parts
      <4> QED
        BY <1>1, <4>1, <4>2 DEF Asked, Pending
    <3>9. {p, q} \subseteq dumps
      <4>1. p \in 1 .. packets /\ q \in 1 .. packets
        <5>1. p <= packets /\ q <= packets /\ packets \in Nat
          BY <1>1, <3>8, Parts DEF Asked
        <5>2. p >= 1 /\ q >= 1
          <6>1. Incoming \in Seq(Byte) /\ Outgoing \in Seq(Byte)
            BY <1>1, Parts
          <6>2. p \in 1 .. MaxPacket /\ q \in 1 .. MaxPacket
            BY <3>4, <3>5, <3>6, <3>7, <6>1, NumbersNat
          <6> QED
            BY <6>2
        <5> QED
          BY <3>8, <5>1, <5>2
      <4> QED
        BY <1>1, <1>3, <4>1 DEF Asked
    <3>10. p = q
      BY <1>1, <3>1, <3>8, <3>9 DEF Asked, Live
    <3> QED
      BY <3>8, <3>10
  <2>9. Asked'
    BY <1>1, <1>3, <2>1, <2>2, <2>3, <2>8 DEF Asked
  <2> QED
    BY <2>5, <2>6, <2>7, <2>9 DEF ControlInv
<1> QED
  BY <1>2, <1>3

-----------------------------------------------------------------------------
(* babeld answers, and ends. *)

\* The first request that was sent.
LEMMA FirstPacket ==
  ASSUME NEW s, Stuff(s), Len(s) >= Header + 1, s[1].i = 1, s[1].n = 1
  PROVE  /\ s[Header + 1].p = s[1].p /\ s[1].p \in 1 .. MaxPacket
         /\ \A k \in Header + 2 .. Len(s) : s[k].p > s[1].p
         /\ Len(s) >= Header + 2 => s[Header + 2].p = s[1].p + 1 /\ s[Header + 2].i = 1
<1>1. Len(s) \in Nat /\ Header \in Nat \ {0} /\ Chained(s)
  BY Sizes DEF Stuff
<1>2. 1 \in 1 .. Len(s) /\ After(s[1]) = Header
  BY <1>1 DEF After
<1>3. ASSUME NEW k \in 1 .. Len(s)
      PROVE  IF k - 1 <= Header
             THEN s[k].p = s[1].p
             ELSE /\ s[k].p > s[1].p
                  /\ k - 1 = Header + 1 => s[k].p = s[1].p + 1 /\ s[k].i = 1
  <2>1. 1 <= k
    BY <1>1
  <2> QED
    BY <1>1, <1>2, <2>1 DEF Chained
<1>4. s[1].p \in 1 .. MaxPacket
  <2>1. ByteOK(s[1])
    BY <1>2 DEF Stuff
  <2> QED
    BY <2>1 DEF ByteOK, Byte
<1>5. s[Header + 1].p = s[1].p
  <2>1. Header + 1 \in 1 .. Len(s) /\ (Header + 1) - 1 = Header /\ Header <= Header
    BY <1>1
  <2> QED
    BY <1>3, <2>1
<1>6. ASSUME NEW k \in Header + 2 .. Len(s)
      PROVE  s[k].p > s[1].p
  <2>1. k \in 1 .. Len(s) /\ ~(k - 1 <= Header)
    BY <1>1
  <2> QED
    BY <1>3, <2>1
<1>7. ASSUME Len(s) >= Header + 2
      PROVE  s[Header + 2].p = s[1].p + 1 /\ s[Header + 2].i = 1
  <2>1. /\ Header + 2 \in 1 .. Len(s) /\ (Header + 2) - 1 = Header + 1
        /\ ~(Header + 1 <= Header)
    BY <1>1, <1>7
  <2> QED
    BY <1>3, <2>1
<1> QED
  BY <1>4, <1>5, <1>6, <1>7

\* What remains when the first bytes of a stream are gone.
LEMMA Dropped ==
  ASSUME NEW x \in Seq(Byte), NEW y \in Seq(Byte), NEW a \in 0 .. Len(x)
  PROVE  LET s == x \o y
             z == SubSeq(x, a + 1, Len(x))
             u == z \o y
         IN  /\ z \in Seq(Byte) /\ u \in Seq(Byte) /\ s \in Seq(Byte)
             /\ Len(u) = Len(s) - a /\ a <= Len(s)
             /\ \A k \in 1 .. Len(u) : u[k] = s[a + k]
<1> DEFINE s == x \o y
           z == SubSeq(x, a + 1, Len(x))
           u == z \o y
<1>0. s = x \o y /\ z = SubSeq(x, a + 1, Len(x)) /\ u = z \o y
  OBVIOUS
<1> HIDE DEF s, z, u
<1>1. /\ Len(x) \in Nat /\ Len(y) \in Nat /\ Len(x) \in a .. Len(x)
      /\ a \in Nat /\ a <= Len(x)
  OBVIOUS
<1>2. /\ z \in Seq(Byte) /\ Len(z) = Len(x) - a
      /\ \A k \in 1 .. Len(z) : z[k] = x[a + k]
  BY <1>0, <1>1, Cut
<1>3. /\ s \in Seq(Byte) /\ Len(s) = Len(x) + Len(y)
      /\ \A k \in 1 .. Len(x) : s[k] = x[k]
      /\ \A k \in Len(x) + 1 .. Len(s) : s[k] = y[k - Len(x)]
  BY <1>0, Joined
<1>4. /\ u \in Seq(Byte) /\ Len(u) = Len(z) + Len(y)
      /\ \A k \in 1 .. Len(z) : u[k] = z[k]
      /\ \A k \in Len(z) + 1 .. Len(u) : u[k] = y[k - Len(z)]
  <2>1. z \in Seq(Byte)
    BY <1>2
  <2> QED
    BY <1>0, <2>1, Joined
<1>a. /\ Len(z) = Len(x) - a /\ Len(u) = (Len(x) - a) + Len(y)
      /\ Len(s) = Len(x) + Len(y)
  BY <1>2, <1>3, <1>4
<1>5. ASSUME NEW k \in 1 .. Len(u)
      PROVE  u[k] = s[a + k]
  <2>1. CASE k <= Len(x) - a
    <3>1. k \in 1 .. Len(z) /\ a + k \in 1 .. Len(x)
      BY <1>1, <1>2, <1>4, <2>1
    <3> QED
      BY <1>2, <1>3, <1>4, <3>1
  <2>2. CASE k > Len(x) - a
    <3>1. /\ k \in Len(z) + 1 .. Len(u) /\ a + k \in Len(x) + 1 .. Len(s)
          /\ (a + k) - Len(x) = k - Len(z)
      <4>1. k \in Nat /\ k <= Len(u) /\ k > Len(z)
        BY <1>1, <1>a, <2>2
      <4>2. k \in Len(z) + 1 .. Len(u)
        BY <1>1, <1>a, <4>1
      <4>3. a + k \in Len(x) + 1 .. Len(s)
        BY <1>1, <1>a, <4>1
      <4>4. (a + k) - Len(x) = k - Len(z)
        <5> DEFINE f == Len(x)
                   g == Len(z)
        <5>1. f \in Nat /\ g \in Int /\ g = f - a /\ k \in Nat /\ a \in Nat
          BY <1>1, <1>a, <4>1
        <5> HIDE DEF f, g
        <5>2. (a + k) - f = k - g
          BY <5>1
        <5> QED
          BY <5>2 DEF f, g
      <4> QED
        BY <4>2, <4>3, <4>4
    <3> QED
      BY <1>3, <1>4, <3>1
  <2> QED
    BY <1>1, <1>2, <1>4, <2>1, <2>2
<1>6. Len(u) = Len(s) - a /\ a <= Len(s)
  BY <1>1, <1>a
<1> QED
  BY <1>2, <1>3, <1>4, <1>5, <1>6 DEF s, z, u

\* The end of a stream is still its end.
LEMMA EndsLeft ==
  ASSUME NEW s \in Seq(Byte), NEW p, Ends(s, p), NEW u \in Seq(Byte), NEW a \in Nat,
         Len(u) = Len(s) - a, \A k \in 1 .. Len(u) : u[k] = s[a + k]
  PROVE  Ends(u, p)
<1>1. SUFFICES ASSUME u # <<>>
               PROVE  u[Len(u)].p = p /\ u[Len(u)].i = Header + u[Len(u)].n
  BY DEF Ends
<1>2. Len(u) \in 1 .. Len(u) /\ a + Len(u) = Len(s) /\ Len(s) # 0
  BY <1>1
<1>3. u[Len(u)] = s[Len(s)] /\ s # <<>>
  BY <1>2
<1> QED
  BY <1>3 DEF Ends

LEMMA AnswerKeeps ==
  ASSUME ControlInv, NEW n \in BodySize, BabelAnswer(n)
  PROVE  ControlInv'
<1>1. Buffers /\ ControlTypeOK /\ Whole /\ Aligned /\ Asked
  BY DEF ControlInv, Buffers
<1>2. /\ Left(write_buffer) \in Seq(Byte) /\ Left(read_buffer) \in Seq(Byte)
      /\ up \in Seq(Byte) /\ down \in Seq(Byte)
      /\ Incoming \in Seq(Byte) /\ Outgoing \in Seq(Byte)
      /\ Numbers(Incoming) \subseteq Nat /\ Numbers(Outgoing) \subseteq Nat
  BY <1>1, Parts
<1> DEFINE l == Left(write_buffer)
           r == Left(read_buffer)
           s == Outgoing
           u == Outgoing'
           p == up[1].p
           t == Bytes(p, n)
           a == Header + 1
<1>3. /\ socket = "open" /\ Len(up) > Header
      /\ up' = SubSeq(up, Header + 2, Len(up)) /\ down' = down \o t
      /\ UNCHANGED <<client, socket, write_buffer, read_buffer, decode, packets, dumps,
                     call, since, neighbours, split, garbled>>
  <2>1. Head(up) = up[1]
    BY <1>2
  <2> QED
    BY <2>1 DEF BabelAnswer
<1>4. Header \in Nat \ {0} /\ n \in Nat \ {0} /\ Len(up) \in Nat
  BY <1>2, Sizes
<1>5. /\ Stuff(s) /\ Ends(s, packets)
      /\ \A k \in 1 .. Len(s) : s[k].n = 1
      /\ s # <<>> => s[1].i = 1
      /\ Ends(Incoming, IF s = <<>> THEN packets ELSE s[1].p - 1)
  BY <1>1, <1>3 DEF Whole
<1>6. /\ up' \in Seq(Byte) /\ u \in Seq(Byte)
      /\ Len(u) = Len(s) - a /\ a <= Len(s)
      /\ \A k \in 1 .. Len(u) : u[k] = s[a + k]
  <2>1. a \in 0 .. Len(up) /\ a + 1 = Header + 2
    BY <1>3, <1>4
  <2>2. s = up \o l /\ up' = SubSeq(up, a + 1, Len(up)) /\ u = up' \o l
    BY <1>3, <2>1 DEF Outgoing
  <2>3. l \in Seq(Byte) /\ up \in Seq(Byte)
    BY <1>2
  <2> DEFINE x == up
             z == up'
  <2>4. /\ x \in Seq(Byte) /\ l \in Seq(Byte) /\ a \in 0 .. Len(x)
    BY <2>1, <2>3
  <2>6. s = x \o l /\ z = SubSeq(x, a + 1, Len(x)) /\ u = z \o l
    BY <2>2
  <2> HIDE DEF l, a, s, u, x, z
  <2>5. /\ z \in Seq(Byte) /\ u \in Seq(Byte)
        /\ Len(u) = Len(s) - a /\ a <= Len(s)
        /\ \A k \in 1 .. Len(u) : u[k] = s[a + k]
    BY <2>4, <2>6, Dropped
  <2> QED
    BY <2>5 DEF z
<1>7. s[1] = up[1] /\ s # <<>> /\ 1 \in 1 .. Len(s) /\ Len(s) \in Nat
  <2>1. s = up \o l /\ l \in Seq(Byte) /\ up \in Seq(Byte)
    BY <1>2 DEF Outgoing
  <2> HIDE DEF l, s
  <2>2. \A k \in 1 .. Len(up) : s[k] = up[k]
    BY <2>1, Joined
  <2>3. 1 \in 1 .. Len(up) /\ Len(s) = Len(up) + Len(l) /\ Len(l) \in Nat
    BY <1>3, <1>4, <2>1
  <2> QED
    BY <1>4, <2>1, <2>2, <2>3
<1>8. /\ s[a].p = p /\ p \in 1 .. MaxPacket
      /\ \A k \in a + 1 .. Len(s) : s[k].p > p
      /\ Len(s) >= a + 1 => s[a + 1].p = p + 1 /\ s[a + 1].i = 1
  <2>1. s[1].i = 1 /\ s[1].n = 1
    BY <1>5, <1>7
  <2>2. Len(s) >= Header + 1 /\ Header + 2 = a + 1
    BY <1>4, <1>6
  <2> HIDE DEF s
  <2>3. /\ s[Header + 1].p = s[1].p /\ s[1].p \in 1 .. MaxPacket
        /\ \A k \in Header + 2 .. Len(s) : s[k].p > s[1].p
        /\ Len(s) >= Header + 2 => s[Header + 2].p = s[1].p + 1 /\ s[Header + 2].i = 1
    BY <1>5, <2>1, <2>2, FirstPacket
  <2> QED
    BY <1>7, <2>2, <2>3
<1>9. Incoming' = Incoming \o t /\ t \in Seq(Byte) /\ down' \in Seq(Byte) /\ t # <<>>
  <2>1. t \in Seq(Byte) /\ Len(t) = Header + n
    <3>1. p \in 1 .. MaxPacket /\ n \in Nat \ {0}
      BY <1>4, <1>8
    <3> HIDE DEF p
    <3> QED
      BY <3>1, PacketBytes
  <2>2. Incoming' = r \o (down \o t)
    BY <1>3 DEF Incoming
  <2>3. r \in Seq(Byte) /\ down \in Seq(Byte)
    BY <1>2
  <2>4. Len(t) # 0
    BY <1>4, <2>1
  <2> HIDE DEF t, r
  <2>5. (r \o down) \o t = r \o (down \o t)
    BY <2>1, <2>3, ConcatAssociative, SMTT(30)
  <2> QED
    BY <1>3, <2>1, <2>2, <2>3, <2>4, <2>5 DEF Incoming, r
<1>10. Stuff(Incoming') /\ Ends(Incoming', p) /\ Incoming' # <<>>
  <2>1. Stuff(Incoming)
    BY <1>1 DEF Buffers
  <2>2. Ends(Incoming, p - 1)
    BY <1>5, <1>7
  <2> DEFINE i == Incoming
             j == Incoming'
  <2>3. Stuff(i) /\ Ends(i, p - 1) /\ j = i \o Bytes(p, n)
    BY <1>9, <2>1, <2>2
  <2> HIDE DEF i, j, p
  <2>4. Stuff(j) /\ Ends(j, p) /\ j # <<>>
    BY <1>4, <1>8, <2>3, StuffMore
  <2> QED
    BY <2>4 DEF i, j
<1>11. Incoming'[1] = IF Incoming = <<>> THEN t[1] ELSE Incoming[1]
  <2> DEFINE i == Incoming
             j == Incoming'
  <2>1. i \in Seq(Byte) /\ t \in Seq(Byte) /\ j = i \o t /\ t # <<>>
    BY <1>2, <1>9
  <2> HIDE DEF i, j, t
  <2>2. /\ \A k \in 1 .. Len(i) : j[k] = i[k]
        /\ \A k \in 1 .. Len(t) : j[Len(i) + k] = t[k]
    BY <2>1, Joined
  <2>3. /\ Len(i) \in Nat /\ Len(t) \in Nat /\ Len(t) # 0
        /\ (i = <<>> => Len(i) + 1 = 1)
        /\ (i # <<>> => 1 \in 1 .. Len(i)) /\ 1 \in 1 .. Len(t)
    BY <2>1
  <2>4. j[1] = IF i = <<>> THEN t[1] ELSE i[1]
    BY <2>2, <2>3
  <2> QED
    BY <2>4 DEF i, j
<1>12. t[1].i = 1
  <2>1. /\ Len(t) = Header + n
        /\ \A k \in 1 .. Len(t) : t[k].i = k
    <3> HIDE DEF p
    <3>1. p \in 1 .. MaxPacket /\ n \in Nat \ {0}
      BY <1>4, <1>8
    <3> QED
      BY <3>1, PacketBytes
  <2>2. 1 \in 1 .. Len(t)
    BY <1>4, <2>1
  <2> HIDE DEF t
  <2> QED
    BY <2>1, <2>2
<1>13. ControlTypeOK'
  BY <1>1, <1>3, <1>6, <1>9 DEF ControlTypeOK
<1>14. Buffers'
  BY <1>1, <1>3, <1>10, <1>13 DEF Buffers
<1>15. Stuff(u) /\ Ends(u, packets) /\ \A k \in 1 .. Len(u) : u[k].n = 1
  <2> HIDE DEF u, s
  <2>1. a \in Nat /\ Len(u) + a <= Len(s) /\ Len(u) = Len(s) - a /\ Len(u) \in Nat
    BY <1>4, <1>6, <1>7
  <2>2. Stuff(u)
    BY <1>5, <1>6, <2>1, StuffPart
  <2>3. Ends(u, packets)
    <3>1. s \in Seq(Byte)
      BY <1>5 DEF Stuff
    <3> QED
      BY <1>5, <1>6, <2>1, <3>1, EndsLeft
  <2>4. \A k \in 1 .. Len(u) : a + k \in 1 .. Len(s)
    BY <1>7, <2>1
  <2> QED
    BY <1>5, <1>6, <2>2, <2>3, <2>4
<1>16. /\ u # <<>> => u[1].i = 1
       /\ p = IF u = <<>> THEN packets ELSE u[1].p - 1
  <2>1. Len(u) = Len(s) - a /\ a \in Nat /\ Len(s) \in Nat /\ u \in Seq(Byte) /\ p \in Nat
    BY <1>4, <1>6, <1>7, <1>8, Bounds
  <2>2. CASE u = <<>>
    <3>1. Len(u) = 0
      BY <2>2
    <3>2. Len(s) = a
      BY <2>1, <3>1
    <3>3. s[a].p = packets
      BY <1>5, <1>7, <3>2 DEF Ends
    <3> QED
      BY <1>8, <2>2, <3>3
  <2>3. CASE u # <<>>
    <3>1. Len(u) # 0 /\ Len(u) \in Nat
      BY <2>1, <2>3
    <3>2. 1 \in 1 .. Len(u) /\ Len(s) >= a + 1
      BY <2>1, <3>1
    <3>3. u[1] = s[a + 1]
      BY <1>6, <3>2
    <3>4. u[1].i = 1 /\ u[1].p = p + 1
      BY <1>8, <3>2, <3>3
    <3> QED
      BY <2>1, <2>3, <3>4
  <2> QED
    BY <2>2, <2>3
<1>17. Whole'
  <2>1. Ends(Incoming', IF u = <<>> THEN packets ELSE u[1].p - 1)
    BY <1>10, <1>16
  <2> QED
    BY <1>3, <1>15, <1>16, <2>1 DEF Whole
<1>18. Aligned'
  <2>1. Body' = Body /\ (Body => Incoming # <<>>)
    BY <1>1, <1>3 DEF Body, Aligned
  <2>2. Incoming'[1].i = IF Body THEN Header + 1 ELSE 1
    <3>1. CASE Incoming = <<>>
      BY <1>11, <1>12, <2>1, <3>1
    <3>2. CASE Incoming # <<>>
      BY <1>1, <1>11, <3>2 DEF Aligned
    <3> QED
      BY <3>1, <3>2
  <2>3. Body => Incoming'[1] = Incoming[1]
    BY <1>11, <2>1
  <2> QED
    BY <1>1, <1>3, <1>10, <2>1, <2>2, <2>3 DEF Aligned, Ready
<1>19. /\ Numbers(Incoming') = Numbers(Incoming) \cup {p}
       /\ Numbers(u) \subseteq Numbers(s) /\ p \in Numbers(s)
       /\ \A q \in Numbers(u) : p < q
  <2>1. Numbers(Incoming') = Numbers(Incoming) \cup {p}
    <3>1. Numbers(t) = {p}
      BY <1>4, <1>8, NumbersOfPacket
    <3> DEFINE i == Incoming
               j == Incoming'
    <3>2. i \in Seq(Byte) /\ t \in Seq(Byte) /\ j = i \o t
      BY <1>2, <1>9
    <3> HIDE DEF i, j, t
    <3>3. Numbers(j) = Numbers(i) \cup Numbers(t)
      BY <3>2, NumbersJoined
    <3> QED
      BY <3>1, <3>3 DEF i, j
  <2>2. p \in Numbers(s)
    BY <1>7 DEF Numbers
  <2>3. s \in Seq(Byte) /\ u \in Seq(Byte) /\ a \in Nat /\ Len(u) + a <= Len(s)
        /\ Len(u) = Len(s) - a
    BY <1>2, <1>4, <1>6, <1>7
  <2> HIDE DEF u, s, a, p
  <2>4. Numbers(u) \subseteq Numbers(s)
    BY <1>6, <2>3, NumbersPart
  <2>5. ASSUME NEW k \in 1 .. Len(u)
        PROVE  p < u[k].p
    <3>1. a + k \in a + 1 .. Len(s)
      BY <2>3
    <3>2. u[k] = s[a + k]
      BY <1>6
    <3>3. s[a + k].p > p
      BY <1>8, <3>1
    <3> QED
      BY <3>2, <3>3
  <2> QED
    BY <2>1, <2>2, <2>4, <2>5 DEF Numbers
<1>20. Asked'
  <2>1. Pending' \subseteq Pending /\ Live' = Live
    BY <1>3, <1>19 DEF Pending, Live
  <2>2. \A v \in Numbers(Incoming'), q \in Numbers(Outgoing') : v < q
    BY <1>1, <1>19 DEF Asked
  <2>3. call # "again"
    BY <1>1, <1>3 DEF Asked
  <2> QED
    BY <1>1, <1>3, <2>1, <2>2, <2>3, AskedLess
<1> QED
  BY <1>14, <1>17, <1>18, <1>20 DEF ControlInv

-----------------------------------------------------------------------------
(* Bytes are received. *)

\* c bytes of what comes in are decoded, and x is what the loop made of them.
Eaten(x, c) ==
  /\ read_buffer' = x.b /\ decode' = x.decode /\ garbled' = x.bad
  /\ call' = (IF x.got \cap dumps # {} \/ x.bad THEN "idle" ELSE call)
  /\ neighbours' = (IF x.got \cap dumps # {} THEN Max(x.got \cap dumps)
                    ELSE neighbours)
  /\ x.bad \in BOOLEAN /\ x.decode \in BOOLEAN
  /\ garbled => x.bad
  /\ x.bad => x.got = {}
  /\ BufferOK(x.b) /\ (x.b.buf # <<>> => x.b.r < Len(x.b.buf))
  /\ Incoming' \in Seq(Byte) /\ Len(Incoming') = Len(Incoming) - c
  /\ \A k \in 1 .. Len(Incoming') : Incoming'[k] = Incoming[c + k]
  /\ x.got \subseteq Numbers(Incoming)
  /\ \A p \in x.got : \A q \in Numbers(Incoming') : p < q
  /\ Aligned'

LEMMA ReceivedBytes ==
  ASSUME Buffers, NEW n \in 1 .. Len(down)
  PROVE  LET r == Received(n)
             f == Left(r.b)
             e == SubSeq(down, n + 1, Len(down))
         IN  /\ BufferOK(r.b) /\ r.b.r = read_buffer.r /\ r.b.w = read_buffer.w
             /\ r.b.r < Len(r.b.buf) /\ (Ready(read_buffer) => Ready(r.b))
             /\ f \in Seq(Byte) /\ e \in Seq(Byte) /\ Incoming = f \o e
             /\ Len(f) \in 0 .. Len(Incoming) /\ Len(Incoming) # 0
             /\ \A k \in 1 .. Len(f) : f[k] = Incoming[k]
<1> DEFINE r == Received(n)
           f == Left(r.b)
           e == SubSeq(down, n + 1, Len(down))
           d == SubSeq(down, 1, n)
           l == Left(read_buffer)
           s == Incoming
<1>1. /\ BufferOK(read_buffer) /\ l \in Seq(Byte) /\ down \in Seq(Byte)
      /\ s \in Seq(Byte)
  BY Parts
<1>2. /\ d \in Seq(Byte) /\ e \in Seq(Byte) /\ Len(d) = n /\ d \o e = down
  <2>1. /\ Len(down) \in Nat /\ 1 \in 1 .. Len(down) + 1 /\ n \in 1 - 1 .. Len(down)
        /\ Len(down) \in n .. Len(down) /\ 0 \in 0 .. Len(down) /\ n \in 0 .. Len(down)
        /\ 0 + 1 = 1 /\ n - 0 = n
    BY <1>1
  <2>2. d \o e = SubSeq(down, 1, Len(down))
    BY <1>1, <2>1, ConcatAdjacentSubSeq
  <2>3. SubSeq(down, 1, Len(down)) = down
    BY <1>1, SubSeqFull
  <2>4. d \in Seq(Byte) /\ Len(d) = n
    BY <1>1, <2>1, Cut
  <2>5. e \in Seq(Byte)
    BY <1>1, <2>1, Cut
  <2> QED
    BY <2>2, <2>3, <2>4, <2>5
<1>3. r.b = Add(read_buffer, d)
  BY DEF Received
<1> HIDE DEF r, d, e, l
<1>4. /\ BufferOK(r.b) /\ r.b.r = read_buffer.r /\ r.b.w = read_buffer.w
      /\ f = Left(read_buffer) \o d
      /\ Len(r.b.buf) = Len(read_buffer.buf) + Len(d)
      /\ Len(d) >= 1 => r.b.r < Len(r.b.buf)
  BY <1>1, <1>2, <1>3, Added
<1>5. r.b.r < Len(r.b.buf) /\ (Ready(read_buffer) => Ready(r.b))
  <2>1. r.b.r < Len(r.b.buf)
    BY <1>2, <1>4
  <2>2. /\ read_buffer.w \in Int /\ Len(read_buffer.buf) \in Nat /\ Len(d) \in Nat
        /\ Len(r.b.buf) = Len(read_buffer.buf) + Len(d) /\ r.b.w = read_buffer.w
    BY <1>1, <1>2, <1>4 DEF BufferOK
  <2>3. read_buffer.w <= Len(read_buffer.buf) => r.b.w <= Len(r.b.buf)
    BY <2>2
  <2> QED
    BY <2>1, <2>3 DEF Ready
<1>6. f = l \o d /\ f \in Seq(Byte)
  BY <1>1, <1>2, <1>4 DEF l
<1>7. s = f \o e
  <2>a. l \in Seq(Byte) /\ d \in Seq(Byte) /\ e \in Seq(Byte)
    BY <1>1, <1>2
  <2>1. (l \o d) \o e = l \o (d \o e)
    BY <2>a, ConcatAssociative
  <2>2. s = l \o down
    BY DEF Incoming, l
  <2> HIDE DEF s, f
  <2> QED
    BY <1>2, <1>6, <2>1, <2>2
<1> HIDE DEF f, s
<1>8. /\ Len(s) = Len(f) + Len(e) /\ Len(f) = Len(l) + Len(d)
      /\ \A k \in 1 .. Len(f) : s[k] = f[k]
  <2>1. /\ Len(s) = Len(f) + Len(e)
        /\ \A k \in 1 .. Len(f) : s[k] = f[k]
    <3>1. e \in Seq(Byte) /\ f \in Seq(Byte)
      BY <1>2, <1>6
    <3> QED
      BY <1>7, <3>1, Joined
  <2>2. Len(f) = Len(l) + Len(d)
    <3>1. l \in Seq(Byte) /\ d \in Seq(Byte) /\ f = l \o d
      BY <1>1, <1>2, <1>6
    <3> QED
      BY <3>1, Joined
  <2> QED
    BY <2>1, <2>2
<1>9. Len(f) \in 0 .. Len(s) /\ Len(s) # 0
  <2>1. Len(f) \in Nat /\ Len(e) \in Nat /\ Len(l) \in Nat /\ Len(d) \in Nat \ {0}
    BY <1>1, <1>2, <1>6
  <2> QED
    BY <1>8, <2>1
<1> QED
  BY <1>2, <1>4, <1>5, <1>6, <1>7, <1>8, <1>9 DEF f, s, r, e

LEMMA ReadWhole ==
  ASSUME ControlInv, NEW n, Read(n), ~split
  PROVE  \E x : \E c \in 0 .. Len(Incoming) : Eaten(x, c)
<1>1. Buffers /\ ControlTypeOK /\ Whole /\ Aligned
  BY DEF ControlInv, Buffers
<1>2. /\ n \in 1 .. Len(down) /\ down' = SubSeq(down, n + 1, Len(down))
      /\ UNCHANGED <<client, socket, up, write_buffer, packets, dumps, since, split>>
  BY DEF Read
<1> DEFINE r == Received(n)
           f == Left(r.b)
           e == SubSeq(down, n + 1, Len(down))
           s == Incoming
           m == Len(f)
<1>3. /\ BufferOK(r.b) /\ r.b.r = read_buffer.r /\ r.b.w = read_buffer.w
      /\ r.b.r < Len(r.b.buf)
      /\ f \in Seq(Byte) /\ e \in Seq(Byte) /\ s = f \o e
      /\ m \in 0 .. Len(s) /\ Len(s) # 0
      /\ \A k \in 1 .. m : f[k] = s[k]
  BY <1>1, <1>2, ReceivedBytes
<1>4. Stuff(s) /\ s \in Seq(Byte) /\ Len(s) \in Nat /\ s # <<>>
  <2>1. Stuff(s)
    BY <1>1 DEF Buffers
  <2>2. s \in Seq(Byte)
    BY <2>1 DEF Stuff
  <2>3. Len(s) # 0
    BY <1>3
  <2> HIDE DEF s
  <2> QED
    BY <2>1, <2>2, <2>3
<1>5. /\ r = [b |-> r.b, decode |-> decode, got |-> {}, bad |-> FALSE]
  BY DEF Received
<1>6. At(s, m, 0, r)
  <2>1. /\ s[1].i = IF decode THEN Header + 1 ELSE 1
        /\ ~decode => read_buffer.w = read_buffer.r + Header
        /\ decode => read_buffer.w = read_buffer.r + s[1].n /\ read_buffer.w > read_buffer.r
    BY <1>1, <1>4 DEF Aligned, Body
  <2>2. decode \in BOOLEAN
    BY <1>1 DEF ControlTypeOK
  <2>a. r.decode = decode /\ r.got = {} /\ r.bad = FALSE
    BY <1>5
  <2> HIDE DEF s, r, m
  <2>3. r \in [b : {r.b}, decode : BOOLEAN, got : {r.got}, bad : {FALSE}]
    BY <1>5, <2>2, <2>a
  <2>4. m - 0 = m /\ 0 + 1 = 1 /\ ~(0 >= 1)
    BY <1>3, <1>4
  <2>5. /\ Len(Left(r.b)) = m
        /\ \A k \in 1 .. m : Left(r.b)[k] = s[k]
    BY <1>3 DEF m
  <2>6. \A k \in 1 .. m : 0 + k = k
    BY <1>3, <1>4
  <2> QED
    BY <1>3, <2>1, <2>3, <2>4, <2>5, <2>6, <2>a DEF At
<1>7. PICK x : \E c \in 0 .. m : Loop(n) = {x} /\ At(s, m, c, x) /\ ~Ready(x.b)
  <2> HIDE DEF s, m
  <2> QED
    BY <1>3, <1>4, <1>6, LoopOf
<1>8. PICK c \in 0 .. m : Loop(n) = {x} /\ At(s, m, c, x) /\ ~Ready(x.b)
  BY <1>7
<1>9. /\ read_buffer' = x.b /\ decode' = x.decode /\ garbled' = x.bad
      /\ call' = (IF x.got \cap dumps # {} \/ x.bad THEN "idle" ELSE call)
      /\ neighbours' = (IF x.got \cap dumps # {} THEN Max(x.got \cap dumps)
                        ELSE neighbours)
  BY <1>8 DEF Read
<1> HIDE DEF r
<1>10. /\ BufferOK(x.b) /\ (x.b.buf # <<>> => x.b.r < Len(x.b.buf))
       /\ Len(Left(x.b)) = m - c
       /\ \A k \in 1 .. m - c : Left(x.b)[k] = s[c + k]
       /\ x.decode \in BOOLEAN /\ x.bad = FALSE
       /\ c < Len(s) => s[c + 1].i = IF x.decode THEN Header + 1 ELSE 1
       /\ c >= 1 /\ x.decode => s[c].i = Header
       /\ IF x.decode
          THEN x.b.w > x.b.r /\ (c < Len(s) => x.b.w = x.b.r + s[c + 1].n)
          ELSE x.b.w = x.b.r + Header
       /\ x.got \subseteq {s[k].p : k \in 1 .. c}
       /\ \A p \in x.got : \A k \in c + 1 .. Len(s) : s[k].p > p
  BY <1>8 DEF At
<1> DEFINE z == SubSeq(f, c + 1, m)
           u == z \o e
<1>11. /\ z \in Seq(Byte) /\ u \in Seq(Byte)
       /\ Len(u) = Len(s) - c /\ c <= Len(s)
       /\ \A k \in 1 .. Len(u) : u[k] = s[c + k]
  <2>1. f \in Seq(Byte) /\ e \in Seq(Byte) /\ c \in 0 .. Len(f)
    BY <1>3
  <2>2. s = f \o e
    BY <1>3
  <2> HIDE DEF e, f
  <2>3. LET t == f \o e IN
        /\ z \in Seq(Byte) /\ u \in Seq(Byte)
        /\ Len(u) = Len(t) - c /\ c <= Len(t)
        /\ \A k \in 1 .. Len(u) : u[k] = t[c + k]
    BY <2>1, Dropped
  <2> HIDE DEF u, z, s
  <2> QED
    BY <2>2, <2>3
<1>12. Left(x.b) = z
  <2>1. f \in Seq(Byte) /\ c \in 0 .. Len(f) /\ Len(f) \in c .. Len(f) /\ Len(f) \in Nat
    BY <1>3
  <2>2. Len(z) = m - c /\ \A k \in 1 .. Len(z) : z[k] = f[c + k]
    <3> HIDE DEF f
    <3> QED
      BY <2>1, Cut
  <2>3. Left(x.b) \in Seq(Byte)
    BY <1>10, LeftOf
  <2>4. \A k \in 1 .. m - c : c + k \in 1 .. m
    BY <2>1
  <2> HIDE DEF z, f, s
  <2>5. \A k \in 1 .. m - c : Left(x.b)[k] = z[k]
    BY <1>3, <1>10, <2>2, <2>4
  <2> HIDE DEF m
  <2> QED
    BY <1>10, <1>11, <2>2, <2>3, <2>5, SameStream
<1>13. Incoming' = u
  BY <1>2, <1>9, <1>12 DEF Incoming
<1> HIDE DEF u, z, e, m, f
<1>14. c \in Nat /\ c <= Len(s) /\ Len(u) \in Nat
  BY <1>3, <1>4, <1>11
<1>15. x.got \subseteq Numbers(s)
  <2>1. \A k \in 1 .. c : k \in 1 .. Len(s)
    BY <1>4, <1>14
  <2> HIDE DEF s
  <2> QED
    BY <1>10, <2>1 DEF Numbers
<1>16. \A p \in x.got : \A q \in Numbers(u) : p < q
  <2>1. ASSUME NEW p \in x.got, NEW k \in 1 .. Len(u)
        PROVE  p < u[k].p
    <3>1. c + k \in c + 1 .. Len(s)
      BY <1>4, <1>11, <1>14
    <3>2. s[c + k].p > p
      BY <1>10, <3>1
    <3> QED
      BY <1>11, <3>2
  <2> QED
    BY <2>1 DEF Numbers
<1>17. Aligned'
  <2>1. Body' = x.decode /\ split' = FALSE /\ garbled' = FALSE /\ read_buffer' = x.b
    <3>1. split = FALSE
      BY <1>1 DEF ControlTypeOK
    <3> QED
      BY <1>2, <1>9, <1>10, <3>1 DEF Body
  <2>2. ASSUME u # <<>>
        PROVE  u[1] = s[c + 1] /\ c < Len(s)
    <3>1. Len(u) # 0
      BY <1>11, <2>2
    <3>2. 1 \in 1 .. Len(u) /\ c < Len(s)
      BY <1>4, <1>11, <1>14, <3>1
    <3> QED
      BY <1>11, <3>2
  <2>3. u # <<>> => u[1].i = IF Body' THEN Header + 1 ELSE 1
    BY <1>10, <2>1, <2>2
  <2>4. socket' # "none"
    BY <1>2 DEF Read
  <2>5. ASSUME x.decode, socket' = "open", u = <<>>
        PROVE  FALSE
    <3>1. Len(u) = 0
      BY <2>5
    <3>2. c = Len(s)
      BY <1>4, <1>11, <1>14, <3>1
    <3>3. c >= 1 /\ c \in 1 .. Len(s)
      BY <1>3, <1>4, <3>2
    <3>4. s[c].i = Header
      BY <1>10, <2>5, <3>3
    <3>5. s[c].i = Header + s[c].n
      <4>1. \E p : Ends(s, p)
        BY <1>1, <1>2, <2>5 DEF Whole
      <4> QED
        BY <1>4, <3>2, <4>1 DEF Ends
    <3>6. s[c].n \in Nat /\ s[c].n >= 1 /\ Header \in Nat
      <4>1. ByteOK(s[c])
        BY <1>4, <3>3 DEF Stuff
      <4> QED
        BY <4>1, Sizes DEF ByteOK, Byte
    <3> QED
      BY <3>4, <3>5, <3>6
  <2>6. ~Body' => x.b.w = x.b.r + Header
    BY <1>10, <2>1
  <2>7. Body' => x.b.w > x.b.r /\ (u # <<>> => x.b.w = x.b.r + u[1].n)
    BY <1>10, <2>1, <2>2
  <2>8. ~Ready(x.b) /\ ~split'
    BY <1>8, <2>1
  <2> QED
    BY <1>13, <2>1, <2>3, <2>4, <2>5, <2>6, <2>7, <2>8 DEF Aligned, Ready
<1>18. c \in 0 .. Len(s)
  BY <1>4, <1>14
<1>a. ~garbled
  BY <1>1 DEF Aligned
<1>19. Eaten(x, c)
  BY <1>9, <1>10, <1>11, <1>13, <1>15, <1>16, <1>17, <1>a DEF Eaten
<1> QED
  BY <1>18, <1>19

LEMMA ReadSplit ==
  ASSUME ControlInv, NEW n, Read(n), split
  PROVE  \E x : \E c \in 0 .. Len(Incoming) : Eaten(x, c)
<1>1. Buffers /\ ControlTypeOK /\ Whole /\ Aligned
  BY DEF ControlInv, Buffers
<1>2. /\ n \in 1 .. Len(down) /\ down' = SubSeq(down, n + 1, Len(down))
      /\ UNCHANGED <<client, socket, up, write_buffer, packets, dumps, since, split>>
      /\ socket # "none"
  BY DEF Read
<1> DEFINE r == Received(n)
           f == Left(r.b)
           e == SubSeq(down, n + 1, Len(down))
           s == Incoming
           x == IF Ready(r.b) THEN [r EXCEPT !.bad = TRUE] ELSE r
<1>3. /\ BufferOK(r.b) /\ r.b.r = read_buffer.r /\ r.b.w = read_buffer.w
      /\ r.b.r < Len(r.b.buf) /\ (Ready(read_buffer) => Ready(r.b))
      /\ f \in Seq(Byte) /\ e \in Seq(Byte) /\ s = f \o e
      /\ Len(f) \in 0 .. Len(s) /\ Len(s) # 0
      /\ \A k \in 1 .. Len(f) : f[k] = s[k]
  BY <1>1, <1>2, ReceivedBytes
<1>4. Stuff(s) /\ s \in Seq(Byte) /\ Len(s) \in Nat /\ s # <<>>
  <2>1. Stuff(s)
    BY <1>1 DEF Buffers
  <2>2. s \in Seq(Byte)
    BY <2>1 DEF Stuff
  <2>3. Len(s) # 0
    BY <1>3
  <2> HIDE DEF s
  <2> QED
    BY <2>1, <2>2, <2>3
<1>5. decode = TRUE /\ split = TRUE /\ ~Body
  BY <1>1 DEF Aligned, ControlTypeOK, Body
<1>6. /\ r = [b |-> r.b, decode |-> TRUE, got |-> {}, bad |-> FALSE]
  BY <1>5 DEF Received
<1>7. Ready(r.b) => Head1(r.b).i # Header + 1
  <2>1. s[1].i = 1 /\ read_buffer.w = read_buffer.r + Header
    BY <1>1, <1>4, <1>5 DEF Aligned
  <2>2. SUFFICES ASSUME Ready(r.b) PROVE Head1(r.b) = s[1]
    <3>1. Header + 1 # 1
      BY Sizes
    <3> QED
      BY <2>1, <3>1
  <2>3. /\ Len(f) = Len(r.b.buf) - r.b.r
        /\ \A k \in 1 .. Len(f) : f[k] = r.b.buf[r.b.r + k]
        /\ Len(r.b.buf) \in Nat /\ r.b.r \in 0 .. Len(r.b.buf)
    BY <1>3, LeftOf
  <2>4. 1 \in 1 .. Len(f)
    BY <1>3, <2>3
  <2> QED
    BY <1>3, <2>3, <2>4 DEF Head1
<1>8. Loop(n) = {x}
  <2>1. r = Received(n) /\ r.decode = TRUE /\ r.bad = FALSE
    BY <1>6
  <2> HIDE DEF r
  <2> QED
    BY <1>7, <2>1, LoopSplit
<1> HIDE DEF r
<1>9. /\ x.b = r.b /\ x.decode = TRUE /\ x.got = {} /\ x.bad = Ready(r.b)
      /\ x.bad \in BOOLEAN
  <2>1. PICK b : r = [b |-> b, decode |-> TRUE, got |-> {}, bad |-> FALSE]
    BY <1>6
  <2>2. r.b = b
    BY <2>1
  <2>3. CASE Ready(r.b)
    <3>1. x = [b |-> b, decode |-> TRUE, got |-> {}, bad |-> TRUE]
      BY <2>1, <2>3
    <3> HIDE DEF x
    <3> QED
      BY <2>2, <2>3, <3>1
  <2>4. CASE ~Ready(r.b)
    <3>1. x = r /\ Ready(r.b) = FALSE
      <4>1. x = r
        BY <2>4
      <4>2. Ready(r.b) \in BOOLEAN
        BY DEF Ready
      <4> QED
        BY <2>4, <4>1, <4>2
    <3> HIDE DEF x
    <3> QED
      BY <2>1, <3>1
  <2> QED
    BY <2>3, <2>4
<1> HIDE DEF x
<1>10. /\ read_buffer' = x.b /\ decode' = x.decode /\ garbled' = x.bad
       /\ call' = (IF x.got \cap dumps # {} \/ x.bad THEN "idle" ELSE call)
       /\ neighbours' = (IF x.got \cap dumps # {} THEN Max(x.got \cap dumps)
                         ELSE neighbours)
  BY <1>8 DEF Read
<1>11. Incoming' = s
  BY <1>2, <1>3, <1>9, <1>10 DEF Incoming
<1>12. Aligned'
  <2>1. split' = TRUE /\ decode' = TRUE /\ ~Body' /\ read_buffer' = r.b
    BY <1>2, <1>5, <1>9, <1>10 DEF Body
  <2>2. s[1].i = 1 /\ read_buffer.w = read_buffer.r + Header
    BY <1>1, <1>4, <1>5 DEF Aligned
  <2>3. (garbled' <=> Ready(read_buffer')) /\ client' = "registry"
    BY <1>1, <1>2, <1>5, <1>9, <1>10 DEF Aligned
  <2>4. read_buffer'.w = read_buffer'.r + Header
    BY <1>3, <2>1, <2>2
  <2> QED
    BY <1>11, <2>1, <2>2, <2>3, <2>4 DEF Aligned
<1>13. /\ Incoming' \in Seq(Byte) /\ Len(Incoming') = Len(Incoming) - 0
       /\ \A k \in 1 .. Len(Incoming') : Incoming'[k] = Incoming[0 + k]
       /\ 0 \in 0 .. Len(Incoming)
  BY <1>4, <1>11
<1>a. garbled => x.bad
  BY <1>1, <1>3, <1>9 DEF Aligned
<1>14. Eaten(x, 0)
  BY <1>3, <1>9, <1>10, <1>12, <1>13, <1>a DEF Eaten
<1> QED
  BY <1>13, <1>14

LEMMA ReadEats ==
  ASSUME ControlInv, NEW n, Read(n)
  PROVE  \E x : \E c \in 0 .. Len(Incoming) : Eaten(x, c)
<1>1. split \in BOOLEAN
  BY DEF ControlInv, Buffers, ControlTypeOK
<1> QED
  BY <1>1, ReadWhole, ReadSplit

LEMMA EatenLess ==
  ASSUME Buffers, NEW x, NEW c \in 0 .. Len(Incoming), Eaten(x, c)
  PROVE  Stuff(Incoming') /\ Numbers(Incoming') \subseteq Numbers(Incoming)
<1> DEFINE s == Incoming
           u == Incoming'
<1>1. Stuff(s) /\ s \in Seq(Byte)
  BY DEF Buffers, Stuff
<1>2. /\ u \in Seq(Byte) /\ Len(u) = Len(s) - c
      /\ \A k \in 1 .. Len(u) : u[k] = s[c + k]
  BY DEF Eaten
<1>3. c \in Nat /\ Len(u) + c <= Len(s)
  BY <1>1, <1>2
<1> HIDE DEF s, u
<1>4. Stuff(u)
  BY <1>1, <1>2, <1>3, StuffPart
<1>5. Numbers(u) \subseteq Numbers(s)
  BY <1>1, <1>2, <1>3, NumbersPart
<1> QED
  BY <1>4, <1>5 DEF s, u

\* The packets that were decoded and asked for a dump are that of the request.
LEMMA Answers ==
  ASSUME ControlInv, NEW n, Read(n), NEW x, NEW c \in 0 .. Len(Incoming), Eaten(x, c),
         NEW p \in x.got \cap dumps
  PROVE  /\ Waits /\ p \in since .. packets /\ x.got \cap dumps = {p}
         /\ Max(x.got \cap dumps) = p
         /\ \A q \in (Numbers(Incoming') \cup Numbers(Outgoing)) \cap dumps : FALSE
<1>1. Buffers /\ ControlTypeOK /\ Asked
  BY DEF ControlInv, Buffers
<1>2. Live /\ ~garbled
  <2>1. n \in 1 .. Len(down) /\ down \in Seq(Byte)
    BY <1>1 DEF Read, ControlTypeOK
  <2>2. down # <<>>
    BY <2>1
  <2>3. ~garbled
    BY DEF Eaten
  <2> QED
    BY <2>2, <2>3 DEF Live
<1>3. /\ x.got \subseteq Numbers(Incoming)
      /\ \A g \in x.got : \A q \in Numbers(Incoming') : g < q
      /\ Incoming' \in Seq(Byte) /\ Len(Incoming') = Len(Incoming) - c
      /\ \A k \in 1 .. Len(Incoming') : Incoming'[k] = Incoming[c + k]
  BY DEF Eaten
<1>4. \A q \in Pending \cap dumps : q = p
  BY <1>1, <1>2, <1>3 DEF Asked, Pending
<1>5. x.got \cap dumps = {p}
  BY <1>3, <1>4 DEF Pending
<1>6. p \in Nat /\ p >= since /\ p <= packets /\ Waits
  <2>1. p \in 1 .. packets /\ p \in Pending
    BY <1>1, <1>3 DEF ControlTypeOK, Pending
  <2> QED
    BY <1>1, <1>2, <2>1 DEF Asked
<1>7. Max({p}) = p
  BY <1>6 DEF Max
<1>8. ASSUME NEW q \in Numbers(Incoming') \cup Numbers(Outgoing), q \in dumps
      PROVE  FALSE
  <2>1. p < q
    BY <1>1, <1>3, <1>8 DEF Asked
  <2>2. q \in Nat
    BY <1>1, <1>8 DEF ControlTypeOK
  <2>3. CASE q \in Numbers(Outgoing)
    BY <1>4, <1>6, <1>8, <2>1, <2>3 DEF Pending
  <2>4. CASE q \in Numbers(Incoming')
    <3>1. q \in Numbers(Incoming)
      BY <1>1, <2>4, EatenLess
    <3> QED
      BY <1>4, <1>6, <1>8, <2>1, <3>1 DEF Pending
  <2> QED
    BY <1>8, <2>3, <2>4
<1>9. since \in Nat /\ packets \in Nat
  BY <1>1 DEF ControlTypeOK
<1>10. p \in since .. packets
  BY <1>6, <1>9
<1>11. \A q \in (Numbers(Incoming') \cup Numbers(Outgoing)) \cap dumps : FALSE
  BY <1>8
<1>12. Max(x.got \cap dumps) = p
  BY <1>5, <1>7
<1> QED
  BY <1>5, <1>6, <1>10, <1>11, <1>12

LEMMA ReadKeeps ==
  ASSUME ControlInv, NEW n, Read(n)
  PROVE  ControlInv'
<1>1. Buffers /\ ControlTypeOK /\ Whole /\ Aligned /\ Asked
  BY DEF ControlInv, Buffers
<1>2. /\ n \in 1 .. Len(down) /\ down' = SubSeq(down, n + 1, Len(down))
      /\ Selects /\ socket # "none"
      /\ UNCHANGED <<client, socket, up, write_buffer, packets, dumps, since, split>>
  BY DEF Read
<1>3. PICK x : \E c \in 0 .. Len(Incoming) : Eaten(x, c)
  BY ReadEats
<1>4. PICK c \in 0 .. Len(Incoming) : Eaten(x, c)
  BY <1>3
<1>5. /\ read_buffer' = x.b /\ decode' = x.decode /\ garbled' = x.bad
      /\ call' = (IF x.got \cap dumps # {} \/ x.bad THEN "idle" ELSE call)
      /\ neighbours' = (IF x.got \cap dumps # {} THEN Max(x.got \cap dumps)
                        ELSE neighbours)
      /\ x.bad \in BOOLEAN /\ x.decode \in BOOLEAN
      /\ garbled => x.bad
      /\ x.bad => x.got = {}
      /\ BufferOK(x.b) /\ (x.b.buf # <<>> => x.b.r < Len(x.b.buf))
      /\ Incoming' \in Seq(Byte) /\ Len(Incoming') = Len(Incoming) - c
      /\ \A k \in 1 .. Len(Incoming') : Incoming'[k] = Incoming[c + k]
      /\ Aligned'
  BY <1>4 DEF Eaten
<1>6. Stuff(Incoming') /\ Numbers(Incoming') \subseteq Numbers(Incoming)
  BY <1>1, <1>4, EatenLess
<1>7. Outgoing' = Outgoing /\ (Live' => Live)
  <2>1. Outgoing' = Outgoing
    BY <1>2 DEF Outgoing
  <2>2. n \in 1 .. Len(down) /\ down \in Seq(Byte)
    BY <1>1, <1>2 DEF ControlTypeOK
  <2>3. down # <<>>
    BY <2>2
  <2> QED
    BY <2>1, <2>3 DEF Live
<1>8. down' \in Seq(Byte)
  <2>1. down \in Seq(Byte)
    BY <1>1 DEF ControlTypeOK
  <2>2. n \in 0 .. Len(down) /\ Len(down) \in n .. Len(down)
    BY <1>2, <2>1
  <2>3. SubSeq(down, n + 1, Len(down)) \in Seq(Byte)
    BY <2>1, <2>2, Cut
  <2> QED
    BY <1>2, <2>3
<1>9. ControlTypeOK' /\ Asked'
  <2>1. \A v \in Numbers(Incoming'), q \in Numbers(Outgoing') : v < q
    BY <1>1, <1>6, <1>7 DEF Asked
  <2>2. Pending' \subseteq Pending
    BY <1>6, <1>7 DEF Pending
  <2>3. CASE x.got \cap dumps # {}
    <3>1. PICK p : p \in x.got \cap dumps
      BY <2>3
    <3>2. /\ Waits /\ p \in since .. packets /\ x.got \cap dumps = {p}
          /\ Max(x.got \cap dumps) = p
          /\ \A q \in (Numbers(Incoming') \cup Numbers(Outgoing)) \cap dumps : FALSE
      BY <1>4, <3>1, Answers
    <3>3. call' = "idle" /\ neighbours' = p /\ p \in dumps
      BY <1>5, <2>3, <3>1, <3>2
    <3>4. ControlTypeOK'
      BY <1>1, <1>2, <1>5, <1>8, <3>3 DEF ControlTypeOK
    <3>5. Pending' \cap dumps' = {}
      BY <1>2, <1>7, <3>2 DEF Pending
    <3>6. Asked'
      BY <1>1, <1>2, <2>1, <2>2, <3>3, <3>5 DEF Asked
    <3> QED
      BY <3>4, <3>6
  <2>4. CASE x.got \cap dumps = {} /\ ~x.bad
    <3>1. call' = call /\ neighbours' = neighbours
      BY <1>5, <2>4
    <3>2. ControlTypeOK'
      BY <1>1, <1>2, <1>5, <1>8, <3>1 DEF ControlTypeOK
    <3>3. call # "again"
      BY <1>1, <1>2 DEF Asked
    <3>4. Asked'
      <4>1. Live' /\ ~garbled' => Live /\ ~garbled
        BY <1>5, <1>7
      <4> QED
        BY <1>1, <1>2, <2>1, <2>2, <3>1, <3>3, <4>1, AskedLess
    <3> QED
      BY <3>2, <3>4
  <2>5. CASE x.got \cap dumps = {} /\ x.bad
    <3>1. call' = "idle" /\ neighbours' = neighbours /\ garbled'
      BY <1>5, <2>5
    <3>2. ControlTypeOK'
      BY <1>1, <1>2, <1>5, <1>8, <3>1 DEF ControlTypeOK
    <3>3. Asked'
      BY <1>1, <1>2, <2>1, <2>2, <3>1 DEF Asked
    <3> QED
      BY <3>2, <3>3
  <2> QED
    BY <1>5, <2>3, <2>4, <2>5
<1>10. Buffers'
  BY <1>1, <1>2, <1>5, <1>6, <1>7, <1>9 DEF Buffers
<1>11. Whole'
  <2>1. SUFFICES ASSUME socket = "open" PROVE Whole'
    BY <1>2 DEF Whole
  <2> DEFINE s == Incoming
             u == Incoming'
             g == IF Outgoing = <<>> THEN packets ELSE Outgoing[1].p - 1
  <2>2. Ends(s, g)
    BY <1>1, <2>1 DEF Whole
  <2>3. s \in Seq(Byte) /\ u \in Seq(Byte) /\ c \in Nat
        /\ Len(u) = Len(s) - c /\ \A k \in 1 .. Len(u) : u[k] = s[c + k]
    BY <1>1, <1>5, Parts
  <2> HIDE DEF s, u, g
  <2>4. Ends(u, g)
    BY <2>2, <2>3, EndsLeft
  <2> QED
    BY <1>1, <1>2, <1>7, <2>1, <2>4 DEF Whole, u, g
<1> QED
  BY <1>5, <1>9, <1>10, <1>11 DEF ControlInv

LEMMA EndKeeps ==
  ASSUME ControlInv, BabelEnd
  PROVE  ControlInv'
<1>1. Buffers /\ ControlTypeOK /\ Whole /\ Aligned /\ Asked
  BY DEF ControlInv, Buffers
<1>2. /\ socket = "open" /\ socket' = "closed" /\ up' = <<>>
      /\ \E n \in 0 .. Len(down) : down' = SubSeq(down, 1, n)
      /\ UNCHANGED <<client, write_buffer, read_buffer, decode, packets, dumps, call,
                     since, neighbours, split, garbled>>
  BY DEF BabelEnd
<1>3. PICK n \in 0 .. Len(down) : down' = SubSeq(down, 1, n)
  BY <1>2
<1>4. /\ Left(write_buffer) \in Seq(Byte) /\ Left(read_buffer) \in Seq(Byte)
      /\ up \in Seq(Byte) /\ down \in Seq(Byte)
      /\ Incoming \in Seq(Byte) /\ Outgoing \in Seq(Byte)
  BY <1>1, Parts
<1> DEFINE l == Left(read_buffer)
           w == Left(write_buffer)
           s == Incoming
           u == Incoming'
           d == down'
<1>5. /\ d \in Seq(Byte) /\ Len(d) = n /\ \A k \in 1 .. Len(d) : d[k] = down[k]
  <2>1. /\ 0 \in 0 .. Len(down) /\ n \in 0 .. Len(down) /\ 0 + 1 = 1 /\ n - 0 = n
        /\ \A k \in 1 .. n : 0 + k = k
    BY <1>4
  <2>2. d = SubSeq(down, 0 + 1, n)
    BY <1>3, <2>1
  <2> HIDE DEF d
  <2>3. /\ d \in Seq(Byte) /\ Len(d) = n - 0
        /\ \A k \in 1 .. Len(d) : d[k] = down[0 + k]
    BY <1>4, <2>1, <2>2, Cut
  <2> QED
    BY <2>1, <2>3
<1>6. u = l \o d /\ s = l \o down
  BY <1>2 DEF Incoming
<1> HIDE DEF d, l, u, s
<1>7. l \in Seq(Byte) /\ s \in Seq(Byte) /\ Len(l) \in Nat /\ Len(d) \in Nat
      /\ Len(down) \in Nat /\ n \in Nat /\ n <= Len(down)
  BY <1>4, <1>5 DEF l, s
<1>8. /\ u \in Seq(Byte) /\ Len(u) = Len(l) + Len(d)
      /\ \A k \in 1 .. Len(l) : u[k] = l[k]
      /\ \A k \in Len(l) + 1 .. Len(u) : u[k] = d[k - Len(l)]
  <2>1. l \in Seq(Byte) /\ d \in Seq(Byte) /\ u = l \o d
    BY <1>5, <1>6, <1>7
  <2> QED
    BY <2>1, Joined
<1>9. /\ Len(s) = Len(l) + Len(down)
      /\ \A k \in 1 .. Len(l) : s[k] = l[k]
      /\ \A k \in Len(l) + 1 .. Len(s) : s[k] = down[k - Len(l)]
  BY <1>4, <1>6, <1>7, Joined
<1>10. Len(u) <= Len(s) /\ Len(u) \in Nat /\ Len(s) \in Nat
  BY <1>5, <1>7, <1>8, <1>9
<1>11. ASSUME NEW k \in 1 .. Len(u)
       PROVE  u[k] = s[k]
  <2>1. CASE k <= Len(l)
    <3>1. k \in 1 .. Len(l)
      BY <1>10, <2>1
    <3> QED
      BY <1>8, <1>9, <3>1
  <2>2. CASE k > Len(l)
    <3>1. /\ k \in Len(l) + 1 .. Len(u) /\ k \in Len(l) + 1 .. Len(s)
      BY <1>7, <1>10, <2>2
    <3>2. k - Len(l) \in 1 .. Len(d)
      BY <1>7, <1>8, <3>1
    <3> QED
      BY <1>5, <1>8, <1>9, <3>1, <3>2
  <2> QED
    BY <1>7, <1>10, <2>1, <2>2
<1>12. Stuff(u) /\ Numbers(u) \subseteq Numbers(s)
  <2>1. /\ 0 \in Nat /\ Len(u) + 0 <= Len(s)
        /\ \A k \in 1 .. Len(u) : u[k] = s[0 + k]
    BY <1>10, <1>11
  <2>2. Stuff(s)
    BY <1>1 DEF Buffers, s
  <2>3. Stuff(u)
    BY <1>8, <2>1, <2>2, StuffPart
  <2>4. Numbers(u) \subseteq Numbers(s)
    BY <1>7, <1>8, <2>1, NumbersPart
  <2> QED
    BY <2>3, <2>4
<1>13. u # <<>> => s # <<>> /\ u[1] = s[1]
  <2>1. SUFFICES ASSUME u # <<>> PROVE s # <<>> /\ u[1] = s[1]
    OBVIOUS
  <2>2. Len(u) # 0
    BY <1>8, <2>1
  <2>3. 1 \in 1 .. Len(u) /\ Len(s) # 0
    BY <1>10, <2>2
  <2> QED
    BY <1>7, <1>11, <2>3
<1>14. Numbers(Outgoing') \subseteq Numbers(Outgoing)
  <2>1. w \in Seq(Byte) /\ up \in Seq(Byte)
    BY <1>4
  <2>2. Outgoing' = <<>> \o w /\ Outgoing = up \o w
    BY <1>2 DEF Outgoing
  <2> HIDE DEF w
  <2>3. <<>> \o w = w
    BY <2>1, ConcatEmptySeq
  <2>4. Numbers(up \o w) = Numbers(up) \cup Numbers(w)
    BY <2>1, NumbersJoined
  <2> QED
    BY <2>2, <2>3, <2>4
<1>15. ControlTypeOK'
  BY <1>1, <1>2, <1>5 DEF ControlTypeOK, d
<1>16. Buffers'
  BY <1>1, <1>2, <1>12, <1>15 DEF Buffers, u
<1>17. Whole'
  BY <1>2 DEF Whole
<1>18. Aligned'
  <2>1. Body' = Body
    BY <1>2 DEF Body
  <2> QED
    BY <1>1, <1>2, <1>13, <2>1 DEF Aligned, Ready, s, u
<1>19. Asked'
  <2>1. Pending' \subseteq Pending /\ Live
    BY <1>2, <1>12, <1>14 DEF Pending, Live, s, u
  <2>2. \A v \in Numbers(Incoming'), q \in Numbers(Outgoing') : v < q
    BY <1>1, <1>12, <1>14 DEF Asked, s, u
  <2>3. call # "again"
    BY <1>1, <1>2 DEF Asked
  <2> QED
    BY <1>1, <1>2, <2>1, <2>2, <2>3, AskedLess
<1> QED
  BY <1>16, <1>17, <1>18, <1>19 DEF ControlInv

-----------------------------------------------------------------------------
(* The invariant, and what it says. *)

LEMMA NextKeeps ==
  ASSUME ControlInv, [ControlNext]_controlVars
  PROVE  ControlInv'
<1>1. Asked /\ (client = "node" \/ client = "registry")
  BY DEF ControlInv, Buffers, ControlTypeOK
<1>2. CASE Call
  BY <1>2, CallKeeps
<1>3. CASE Again
  BY <1>3, AgainKeeps
<1>4. CASE Connect
  BY <1>4, ConnectKeeps
<1>5. CASE SetCost
  BY <1>5, SetCostKeeps
<1>6. CASE WriteSome
  <2>1. PICK n \in 1 .. MaxPacket * (Header + 1) : Write(n)
    BY <1>6 DEF WriteSome
  <2>2. n \in Nat
    BY <2>1
  <2> QED
    BY <2>1, <2>2, WriteKeeps
<1>7. CASE ReadSome
  <2>1. PICK n \in 1 .. Len(down) : Read(n)
    BY <1>7 DEF ReadSome
  <2> QED
    BY <2>1, ReadKeeps
<1>8. CASE ConnectionClosed
  <2>1. Selects /\ IF client = "registry" THEN Abort ELSE Restart
    BY <1>8 DEF ConnectionClosed
  <2>2. CASE client = "registry"
    BY <2>1, <2>2, AbortKeeps DEF Selects
  <2>3. CASE client # "registry"
    BY <2>1, <2>3, RestartKeeps
  <2> QED
    BY <2>2, <2>3
<1>9. CASE Timeout
  BY <1>9, AbortKeeps DEF Timeout
<1>10. CASE Raise
  BY <1>10, RaiseKeeps
<1>11. CASE AnswerSome
  BY <1>11, AnswerKeeps DEF AnswerSome
<1>12. CASE BabelEnd
  BY <1>12, EndKeeps
<1>13. CASE UNCHANGED controlVars
  <2>1. /\ UNCHANGED <<client, socket, up, down, write_buffer, read_buffer, decode>>
        /\ UNCHANGED <<packets, dumps, call, since, neighbours, split, garbled>>
    BY <1>13 DEF controlVars, conn
  <2>2. Incoming' = Incoming /\ Outgoing' = Outgoing
    BY <2>1 DEF Incoming, Outgoing
  <2>3. Pending' = Pending /\ Live' = Live /\ Waits' = Waits /\ Body' = Body
    BY <2>1, <2>2 DEF Pending, Live, Waits, Body
  <2>4. ControlTypeOK' = ControlTypeOK
    BY <2>1 DEF ControlTypeOK
  <2>5. Buffers' = Buffers
    BY <2>1, <2>2, <2>4 DEF Buffers
  <2>6. Whole' = Whole
    BY <2>1, <2>2 DEF Whole
  <2>7. Aligned' = Aligned
    BY <2>1, <2>2, <2>3 DEF Aligned, Ready
  <2>8. Asked' = Asked
    BY <2>1, <2>2, <2>3 DEF Asked
  <2> QED
    BY <2>5, <2>6, <2>7, <2>8 DEF ControlInv
<1> QED
  BY <1>2, <1>3, <1>4, <1>5, <1>6, <1>7, <1>8, <1>9, <1>10, <1>11, <1>12, <1>13
     DEF ControlNext

\* In every reachable state both directions of the socket hold whole packets, the
\* reader stands where a header or a body starts, and only the dump of the pending
\* request can be answered.
THEOREM ControlInvariant == ControlSpec => []ControlInv
<1>1. ControlInit => ControlInv
  BY InitKeeps
<1>2. ControlInv /\ [ControlNext]_controlVars => ControlInv'
  BY NextKeeps
<1> QED
  BY <1>1, <1>2, PTL DEF ControlSpec

LEMMA StuffStream ==
  ASSUME NEW s, Stuff(s)
  PROVE  Stream(s)
<1> SUFFICES ASSUME NEW k \in 1 .. Len(s) - 1
             PROVE  Follows(s[k], s[k + 1])
  BY DEF Stream
<1>1. s \in Seq(Byte) /\ Len(s) \in Nat
  BY DEF Stuff
<1>2. /\ k \in 1 .. Len(s) /\ k + 1 \in 1 .. Len(s) /\ k <= k + 1
      /\ (k + 1) - k = 1 /\ k \in Nat
  BY <1>1
<1>3. Chained(s) /\ ByteOK(s[k])
  BY <1>2 DEF Stuff
<1>4. IF (k + 1) - k <= After(s[k])
      THEN /\ s[k + 1].p = s[k].p /\ s[k + 1].n = s[k].n
           /\ s[k + 1].i = s[k].i + ((k + 1) - k)
      ELSE /\ s[k + 1].p > s[k].p
           /\ (k + 1) - k = After(s[k]) + 1
                => s[k + 1].p = s[k].p + 1 /\ s[k + 1].i = 1
  BY <1>2, <1>3 DEF Chained
<1> DEFINE x == s[k]
           y == s[k + 1]
           a == After(x)
<1>5. x \in Byte /\ x.i \in 1 .. Header + x.n /\ a = Header + x.n - x.i
  BY <1>3 DEF ByteOK, After
<1>6. /\ 1 <= a => y.p = x.p /\ y.n = x.n /\ y.i = x.i + 1
      /\ ~(1 <= a) /\ 1 = a + 1 => y.p = x.p + 1 /\ y.i = 1
  BY <1>2, <1>4
<1> HIDE DEF x, y, a
<1>7. Header \in Nat /\ x.n \in Nat /\ x.i \in Nat
  BY <1>5, Sizes DEF Byte
<1>8. CASE 1 <= a
  BY <1>6, <1>8 DEF Follows, x, y
<1>9. CASE ~(1 <= a)
  <2>1. a = 0 /\ x.i = Header + x.n
    BY <1>5, <1>7, <1>9
  <2> QED
    BY <1>6, <1>9, <2>1 DEF Follows, x, y
<1> QED
  BY <1>8, <1>9

\* However send and recv cut them, the bytes of the connection to babeld are whole
\* packets in their order, and Buffer keeps its position inside of its data.
THEOREM StreamsAreKept == ControlSpec => []SafeStreams
<1>1. ControlInv => SafeStreams
  <2>1. SUFFICES ASSUME ControlInv PROVE SafeStreams
    OBVIOUS
  <2>2. ControlTypeOK /\ Stuff(Incoming) /\ (socket = "open" => Stuff(Outgoing))
    BY <2>1 DEF ControlInv, Buffers, Whole
  <2>3. Stream(Incoming) /\ (socket = "open" => Stream(Outgoing))
    BY <2>2, StuffStream
  <2> QED
    BY <2>2, <2>3 DEF SafeStreams, StreamsKept, Incoming, Outgoing
<1> QED
  BY <1>1, ControlInvariant, PTL

\* What _read decodes is a packet of babeld, unless reset left _decode set, which
\* happens to nobody but the registry.
THEOREM DecodesPackets == ControlSpec => []Understood
<1>1. ControlInv => Understood
  BY DEF ControlInv, Aligned, Understood
<1> QED
  BY <1>1, ControlInvariant, PTL

\* No packet waits in the buffer of _read once its last byte is there.
THEOREM NothingWaits == ControlSpec => []HandledAtOnce
<1>1. ControlInv => HandledAtOnce
  <2> DEFINE s == Left(read_buffer)
  <2>1. SUFFICES ASSUME ControlInv, s # <<>>, ~split
                 PROVE  Len(s) < IF decode THEN s[1].n ELSE Header
    BY DEF HandledAtOnce
  <2>2. Buffers /\ Aligned /\ ControlTypeOK
    BY <2>1 DEF ControlInv, Buffers
  <2>3. BufferOK(read_buffer) /\ s \in Seq(Byte) /\ down \in Seq(Byte)
    BY <2>2, Parts
  <2>4. /\ Len(s) = Len(read_buffer.buf) - read_buffer.r
        /\ Len(read_buffer.buf) \in Nat /\ read_buffer.r \in Nat
    BY <2>3, LeftOf
  <2>5. read_buffer.w \in Int /\ ~(read_buffer.w <= Len(read_buffer.buf))
    BY <2>1, <2>2, <2>3 DEF Aligned, Ready, BufferOK
  <2>6. Incoming = s \o down
    BY DEF Incoming
  <2> HIDE DEF s
  <2>7. Len(s) # 0 /\ 1 \in 1 .. Len(s)
    BY <2>1, <2>3
  <2>8. s \o down # <<>> /\ (s \o down)[1] = s[1] /\ s[1] \in Byte
    BY <2>3, <2>7
  <2>9. CASE decode
    <3>1. read_buffer.w = read_buffer.r + s[1].n
      BY <2>1, <2>2, <2>6, <2>8, <2>9 DEF Aligned, Body
    <3>2. s[1].n \in Nat
      BY <2>8 DEF Byte
    <3> DEFINE g == s[1].n
               m == Len(read_buffer.buf)
               r == read_buffer.r
               v == read_buffer.w
    <3>3. /\ v = r + g /\ g \in Nat /\ m \in Nat /\ r \in Nat /\ ~(v <= m)
          /\ Len(s) = m - r
      BY <2>4, <2>5, <3>1, <3>2
    <3> HIDE DEF g, m, r, v
    <3>4. Len(s) < g
      BY <3>3
    <3> QED
      BY <2>9, <3>4 DEF g
  <2>10. CASE ~decode
    <3>1. read_buffer.w = read_buffer.r + Header /\ Header \in Nat
      BY <2>2, <2>10, Sizes DEF Aligned, Body
    <3> DEFINE m == Len(read_buffer.buf)
               r == read_buffer.r
               v == read_buffer.w
    <3>2. /\ v = r + Header /\ m \in Nat /\ r \in Nat /\ ~(v <= m)
          /\ Len(s) = m - r
      BY <2>4, <2>5, <3>1
    <3> HIDE DEF m, r, v
    <3>3. Len(s) < Header
      BY <3>1, <3>2
    <3> QED
      BY <2>10, <3>3
  <2> QED
    BY <2>9, <2>10
<1> QED
  BY <1>1, ControlInvariant, PTL

\* An aborted try, or one without an answer.
LEMMA AbortMaps ==
  ASSUME Abort, Waits
  PROVE  [Requests!Next]_(Requests!vars)
<1>1. /\ call' = (IF call = "first" THEN "again" ELSE "idle")
      /\ UNCHANGED <<packets, since, neighbours>>
  BY DEF Abort
<1>2. CASE call = "first"
  BY <1>1, <1>2 DEF Requests!vars
<1>3. CASE call = "second"
  BY <1>1, <1>3 DEF Requests!Next, Requests!GiveUp
<1> QED
  BY <1>2, <1>3 DEF Waits

LEMMA RestartMaps ==
  ASSUME Restart
  PROVE  Requests!Next
BY DEF Restart, Requests!Next, Requests!Forget

LEMMA ReadMaps ==
  ASSUME ControlInv, NEW n, Read(n)
  PROVE  [Requests!Next]_(Requests!vars)
<1>1. PICK x : \E c \in 0 .. Len(Incoming) : Eaten(x, c)
  BY ReadEats
<1>2. PICK c \in 0 .. Len(Incoming) : Eaten(x, c)
  BY <1>1
<1>3. /\ call' = (IF x.got \cap dumps # {} \/ x.bad THEN "idle" ELSE call)
      /\ neighbours' = (IF x.got \cap dumps # {} THEN Max(x.got \cap dumps)
                        ELSE neighbours)
      /\ garbled' = x.bad /\ Aligned'
  BY <1>2 DEF Eaten
<1>4. UNCHANGED <<client, packets, since, split>> /\ Selects
  BY DEF Read
<1>5. CASE x.got \cap dumps # {}
  <2>1. PICK p : p \in x.got \cap dumps
    BY <1>5
  <2>2. Waits /\ p \in since .. packets /\ Max(x.got \cap dumps) = p
    BY <1>2, <2>1, Answers
  <2>3. call # "idle" /\ call' = "idle" /\ neighbours' = p
    BY <1>3, <1>5, <2>2 DEF Waits
  <2>4. Requests!Answer
    BY <1>4, <2>2, <2>3 DEF Requests!Answer
  <2> QED
    BY <2>4 DEF Requests!Next
<1>6. CASE x.got \cap dumps = {} /\ x.bad
  <2>1. client = "registry"
    BY <1>3, <1>4, <1>6 DEF Aligned
  <2>2. call # "idle" /\ call' = "idle" /\ neighbours' = neighbours
    BY <1>3, <1>4, <1>6, <2>1 DEF Selects, Waits
  <2> QED
    BY <1>4, <2>2 DEF Requests!Next, Requests!GiveUp
<1>7. CASE x.got \cap dumps = {} /\ ~x.bad
  BY <1>3, <1>4, <1>7 DEF Requests!vars
<1> QED
  BY <1>5, <1>6, <1>7

LEMMA NextMaps ==
  ASSUME ControlInv, [ControlNext]_controlVars
  PROVE  [Requests!Next]_(Requests!vars)
<1>1. CASE Call
  <2>1. call = "idle" /\ since' = packets + 1
    BY <1>1 DEF Call
  <2>2. CASE call' = "idle" /\ neighbours' = 0 /\ UNCHANGED <<conn, packets, dumps>>
    BY <2>1, <2>2 DEF Requests!Next, Requests!Unreachable
  <2>3. CASE Queue /\ call' = "first" /\ UNCHANGED neighbours
    BY <2>1, <2>3 DEF Requests!Next, Requests!Ask, Queue
  <2> QED
    BY <1>1, <2>2, <2>3 DEF Call, RequestDump
<1>2. CASE Again
  <2>1. call = "again" /\ since' = since
    BY <1>2 DEF Again
  <2>2. CASE call' = "idle" /\ neighbours' = 0 /\ UNCHANGED <<conn, packets, dumps>>
    BY <2>1, <2>2 DEF Requests!Next, Requests!Answer
  <2>3. CASE Queue /\ call' = "second" /\ UNCHANGED neighbours
    BY <2>1, <2>3 DEF Requests!Next, Requests!Pass, Queue
  <2> QED
    BY <1>2, <2>2, <2>3 DEF Again, RequestDump
<1>3. CASE Connect
  BY <1>3 DEF Connect, Requests!vars
<1>4. CASE SetCost
  BY <1>4 DEF SetCost, Queue, Requests!Next, Requests!Pass
<1>5. CASE WriteSome
  BY <1>5 DEF WriteSome, Write, Requests!vars
<1>6. CASE ReadSome
  <2>1. PICK n \in 1 .. Len(down) : Read(n)
    BY <1>6 DEF ReadSome
  <2> QED
    BY <2>1, ReadMaps
<1>7. CASE ConnectionClosed
  <2>1. Selects /\ IF client = "registry" THEN Abort ELSE Restart
    BY <1>7 DEF ConnectionClosed
  <2>2. CASE client = "registry"
    BY <2>1, <2>2, AbortMaps DEF Selects
  <2>3. CASE client # "registry"
    BY <2>1, <2>3, RestartMaps
  <2> QED
    BY <2>2, <2>3
<1>8. CASE Timeout
  BY <1>8, AbortMaps DEF Timeout
<1>9. CASE Raise
  <2>1. Selects
    BY <1>9 DEF Raise
  <2>2. CASE client = "registry"
    <3>1. call # "idle" /\ call' = "idle" /\ UNCHANGED <<packets, since, neighbours>>
      BY <1>9, <2>1, <2>2 DEF Raise, Selects, Waits
    <3> QED
      BY <3>1 DEF Requests!Next, Requests!GiveUp
  <2>3. CASE client # "registry"
    BY <1>9, <2>3, RestartMaps DEF Raise
  <2> QED
    BY <2>2, <2>3
<1>10. CASE AnswerSome
  BY <1>10 DEF AnswerSome, BabelAnswer, Requests!vars
<1>11. CASE BabelEnd
  BY <1>11 DEF BabelEnd, Requests!vars
<1>12. CASE UNCHANGED controlVars
  BY <1>12 DEF controlVars, Requests!vars
<1> QED
  BY <1>1, <1>2, <1>3, <1>4, <1>5, <1>6, <1>7, <1>8, <1>9, <1>10, <1>11, <1>12
     DEF ControlNext

\* request_dump never keeps the state that babeld had before it was called: an answer
\* to an earlier try dies with its connection.
THEOREM DumpsAreFresh == ControlSpec => Fresh
<1>1. ControlInit => Requests!Init
  BY DEF ControlInit, Requests!Init
<1>2. ControlInv /\ [ControlNext]_controlVars => [Requests!Next]_(Requests!vars)
  BY NextMaps
<1> QED
  BY <1>1, <1>2, ControlInvariant, PTL DEF ControlSpec, Fresh, Requests!Spec
=============================================================================
