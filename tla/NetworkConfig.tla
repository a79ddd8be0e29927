--------------------------- MODULE NetworkConfig ---------------------------
(***************************************************************************)
(* The rotation of the keys of Babel: updateHMAC and getNetworkConfig on   *)
(* the registry; newVersion, updateConfig and the hourly check of the      *)
(* configuration on nodes.                                                 *)
(*                                                                         *)
(* The configuration has a version.  A node that hears of a newer one asks *)
(* the registry, over the Internet, for the configuration, and restarts to *)
(* use keys that changed.  Babel discards what is signed with a key it     *)
(* does not have, so two neighbours with keys that do not match have no    *)
(* route via each other: they do not hear of new versions that way.        *)
(*                                                                         *)
(* Datagrams that carry versions may all be lost: a node hears of one or   *)
(* never does (sessions between nodes are in PeerSession).  updateHMAC is  *)
(* atomic here, and a version only changes the keys (see Certificates for  *)
(* updateNetworkConfig, and for what an interruption of it does).          *)
(***************************************************************************)
EXTENDS Naturals

CONSTANTS
  Node,
  Root,          \* the node of the registry
  Tunnel,        \* pairs of nodes that Babel may make neighbours
  NoKey,         \* no value
  EmptyKey,      \* b''
  MaxVersion     \* bound: versions of the configuration

ASSUME Names == Root \in Node /\ NoKey \notin Nat /\ EmptyKey \notin Nat
                /\ NoKey # EmptyKey
ASSUME Bound == MaxVersion \in Nat

VARIABLES
  hmac,       \* BABEL_HMAC: the three keys of the registry
  drawn,      \* how many keys were drawn: they are numbered
  version,    \* of the configuration
  limited,    \* valid_until is set
  node        \* the nodes

registry == <<hmac, drawn, version, limited>>
vars == <<registry, node>>

Slot == 0 .. 2
Version == 0 .. MaxVersion
Key == 1 .. MaxVersion + 1

\* The cache of a node, on disk.
Config == [version : Version, sign : Key \cup {NoKey},
           accept : Key \cup {NoKey}, limited : BOOLEAN]

\* conf: what is in cache.  running: what babeld was started with.  heard: the
\* call of newVersion is planned.  maybeOld: _maybe_old_version.
NodeState == [conf : Config, running : Config, heard : BOOLEAN,
              maybeOld : BOOLEAN]

-----------------------------------------------------------------------------
(***************************************************************************)
(* The registry.                                                           *)
(***************************************************************************)
IsKey(v) == v # NoKey /\ v # EmptyKey

\* updateHMAC: the keys that follow those of h, k being a new one.
Rotate_Forget(h, k) ==
  CASE IsKey(h[0]) /\ IsKey(h[1]) -> [h EXCEPT ![0] = NoKey]
    [] IsKey(h[0]) /\ ~ IsKey(h[1]) -> [h EXCEPT ![1] = k]
    [] ~ IsKey(h[0]) /\ IsKey(h[1]) ->
         [i \in Slot |-> IF i = 0 THEN h[1] ELSE NoKey]
    [] OTHER -> [h EXCEPT ![1] = k, ![2] = EmptyKey]
Rotate(h, k) ==
  CASE IsKey(h[0]) /\ IsKey(h[1]) -> [h EXCEPT ![2] = h[0], ![0] = NoKey]
    [] IsKey(h[0]) /\ ~ IsKey(h[1]) -> [h EXCEPT ![1] = k]
    [] ~ IsKey(h[0]) /\ IsKey(h[1]) ->
         [i \in Slot |-> IF i = 0 THEN h[1] ELSE NoKey]
    [] OTHER -> [h EXCEPT ![1] = k, ![2] = EmptyKey]

\* It draws a key, unless it only moves those it has.
Draws(h) == ~ IsKey(h[1])

\* Nodes are given two keys to sign with: this shall not last.
Limits(h) == IsKey(h[0]) /\ ~ IsKey(h[1])

\* getNetworkConfig: of the values that are set, the first is to sign and the
\* second is also accepted.  An empty value is not encoded, and json.dumps
\* fails.
Present(h) == {i \in Slot : h[i] # NoKey}
Nth(h, S) == IF S = {} THEN NoKey
             ELSE h[CHOOSE i \in S : \A j \in S : i <= j]
Sign(h) == Nth(h, Present(h))
Accept(h) ==
  Nth(h, {i \in Present(h) : \E j \in Present(h) : j < i})
Answers == Present(hmac) # Slot /\ \A i \in Slot : hmac[i] # EmptyKey

Served == [version |-> version, sign |-> Sign(hmac), accept |-> Accept(hmac),
           limited |-> limited]

-----------------------------------------------------------------------------
(***************************************************************************)
(* The nodes.                                                              *)
(***************************************************************************)
\* babeld started with c takes a packet that is signed with the key s.  (The
\* empty value, that means any signature, never comes to a node: see Answers.)
Takes(c, s) == c.sign = NoKey \/ s \in {c.sign, c.accept} \ {NoKey}

Link(n, m) ==
  /\ <<n, m>> \in Tunnel
  /\ Takes(node[n].running, node[m].running.sign)
  /\ Takes(node[m].running, node[n].running.sign)

\* The registry is among the destinations of the routes of n.
Routed(n) ==
  \A S \in SUBSET Node :
    n \in S /\ (\A a \in S, b \in Node : Link(a, b) => b \in S) => Root \in S

\* _loadConfig skips the names that are attributes of the class Cache, and
\* valid_until is one: it is None whatever the configuration is.
LoadedLimit(c) == FALSE

\* maybe_old_version.  (A limit that is loaded would also have to be over.)
MaybeOld_NoTunnel(n, c) ==
  LoadedLimit(c) \/ \A m \in Node : <<n, m>> \notin Tunnel
MaybeOld(n, c) == LoadedLimit(c) \/ ~ Routed(n)

\* A node that starts with the configuration c.
Started(c) ==
  [conf |-> c, running |-> c, heard |-> FALSE, maybeOld |-> LoadedLimit(c)]

RestartNeeded(n) ==
  \/ node[n].running.sign # node[n].conf.sign
  \/ node[n].running.accept # node[n].conf.accept

-----------------------------------------------------------------------------
\* A network that has no keys yet, or one.
Init ==
  /\ hmac \in {[i \in Slot |-> NoKey],
               [i \in Slot |-> IF i = 0 THEN 1 ELSE NoKey]}
  /\ drawn = IF hmac[0] = NoKey THEN 0 ELSE 1
  /\ version = 0 /\ limited = FALSE
  /\ node = [n \in Node |-> Started(Served)]

\* updateHMAC, called by the administrator.  The node of the registry is told,
\* over the loopback interface.
UpdateHMAC ==
  /\ version < MaxVersion
  /\ hmac' = Rotate(hmac, drawn + 1)
  /\ drawn' = IF Draws(hmac) THEN drawn + 1 ELSE drawn
  /\ limited' = Limits(hmac)
  /\ version' = version + 1
  /\ node' = [node EXCEPT ![Root].heard = TRUE]

\* _processPacket: a neighbour knows a version that is newer than ours.
Hear(n) ==
  /\ \E m \in Node :
       /\ Link(n, m)
       /\ node[m].heard \/ node[m].conf.version > node[n].conf.version
  /\ node[n].conf.version < version
  /\ node' = [node EXCEPT ![n].heard = TRUE]
  /\ UNCHANGED registry

\* newVersion and updateConfig.  If it fails, it is planned again.
NewVersion(n) ==
  /\ node[n].heard
  /\ Answers
  /\ node' = [node EXCEPT ![n].heard = FALSE, ![n].conf = Served]
  /\ UNCHANGED registry

\* _babel_dump_check_netconf, every hour but for the node of the registry: two
\* checks in a row must have a doubt before the registry is asked.  If it does
\* not answer, nothing changes.
CheckNetconf(n) ==
  /\ n # Root
  /\ IF MaybeOld(n, node[n].conf) /\ node[n].maybeOld
     THEN /\ Answers
          /\ node' = [node EXCEPT ![n].heard = FALSE, ![n].conf = Served,
                                  ![n].maybeOld = MaybeOld(n, Served)]
     ELSE node' = [node EXCEPT ![n].maybeOld = MaybeOld(n, node[n].conf)]
  /\ UNCHANGED registry

\* The node of the registry asks it again when it starts, once.
Start(n) ==
  /\ node' = [node EXCEPT ![n] =
                Started(IF n = Root /\ Answers THEN Served ELSE node[n].conf)]
  /\ UNCHANGED registry

\* _restart, planned by newVersion.
Restart(n) == RestartNeeded(n) /\ Start(n)

\* For any other reason.
Reboot(n) == ~ RestartNeeded(n) /\ Start(n)

Next ==
  \/ UpdateHMAC
  \/ \E n \in Node : \/ Hear(n) \/ NewVersion(n) \/ CheckNetconf(n)
                     \/ Restart(n) \/ Reboot(n)

Spec == Init /\ [][Next]_vars

\* Timers expire, and requests to the registry do not fail for ever.  Nothing
\* is assumed of Hear, nor of UpdateHMAC.
FairSpec ==
  /\ Spec
  /\ \A n \in Node :
       /\ WF_vars(NewVersion(n))
       /\ WF_vars(Restart(n))
       /\ SF_vars(CheckNetconf(n))

-----------------------------------------------------------------------------
TypeOK ==
  /\ hmac \in [Slot -> Key \cup {NoKey, EmptyKey}]
  /\ drawn \in 0 .. MaxVersion + 1
  /\ version \in Version
  /\ limited \in BOOLEAN
  /\ node \in [Node -> NodeState]

\* During a rotation, nodes that use the configurations of two successive
\* versions accept the packets of each other, in both directions.
Seamless ==
  \A n, m \in Node :
    LET c == node[n].running
        d == node[m].running
    IN  d.version \in {c.version, c.version + 1}
          => Takes(c, d.sign) /\ Takes(d, c.sign)

\* A rotation cuts no one, whichever move it is at, in states of the right types.
SafeRotation == TypeOK /\ Seamless

\* However keys are rotated, with all notifications lost, no node remains cut
\* from the network, provided that nodes do not reboot again and again.
Reconnected ==
  (\A n \in Node : <>[][~ Reboot(n)]_vars)
    => <>[](\A n \in Node : Routed(n))

\* A node does not keep for ever a configuration that is limited in time and
\* that the registry replaced, whether it was notified or not.
LimitEnds ==
  \A n \in Node :
    node[n].conf.limited ~> (node[n].conf.limited => limited)

\* "Initialization of HMAC on the network", and each later rotation: a version
\* is at least adopted by the node of the registry.
Deployed ==
  \A v \in Version : version = v ~> node[Root].conf.version >= v
=============================================================================
