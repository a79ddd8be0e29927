# Verification of re6stnet

TLA+ models of re6stnet, model-checked with TLC and, for the core, proved with
TLAPS.  re6stnet builds an IPv6 mesh: each node keeps a few OpenVPN tunnels to
random other nodes, babeld routes over them, and a central registry allocates
prefixes, signs certificates and publishes the parameters of the network.

Paths are relative to the repository.  A prefix is a node's identity; its
certificate carries it.

## 1. The system

| Component | State it keeps | Operations | Talks to |
| --- | --- | --- | --- |
| Peer session (`x509.Peer`, `BaseTunnelManager.sendto`, `handlePeerEvent`) | per peer: secret, sent and received sequence numbers, `_last`, certificate | hello0, hello, encode/decode, invalidatePeers | UDP messages between nodes |
| Tunnel manager (`tunnel.TunnelManager`, `Connection`) | `_connection_dict`, pool of taps, `_served`, `_connecting`, `_distant_peers`, `_disconnected` | refresh, babel_dump, client events, address replies, revocations | OpenVPN processes and their scripts (pipes), babeld, cache, peers |
| Tunnel killer (`tunnel.TunnelKiller`) | state, cost multiplier, timeout; `_killing` | soft lock, hard lock, lock, unlock, abort; messages 2 and 3 | babeld (cost of a link), the killer of the other end |
| Version gossip (`_processPacket`, `newVersion`, `broadcastNewVersion`) | `_version`, version of each `Peer`, `_maybe_old_version` | receive, fetch the configuration, tell others | registry, peers, cache |
| Cache (`cache.Cache`) | SQLite: peers with their addresses, parameters | updateConfig, addPeer, getBootstrapPeer, connecting | registry client, tunnel manager |
| Babel control (`routing.Babel`, `Buffer`) | neighbours, `locked`, bytes to parse | request_dump, select, handle_* | babeld |
| Gateway (`MultiGatewayManager`) | per destination: gateway, count | add, remove | kernel routes |
| Registry, prefixes (`newPrefix`, `mergePrefixes`) | rows of table `cert` | allocate, split, reserve, merge | certificates |
| Registry, certificates and CRL (`requestCertificate`, `renewCertificate`, `revoke`, `onTimeout`) | tables `token`, `cert`, `crl`; `serial`, `prefix` | request, renew, revoke, expire | nodes (HTTP), prefixes, network configuration |
| Registry, network configuration (`updateNetworkConfig`, `updateHMAC`) | `version`, `last_config`, HMAC keys | increase the version, announce it to the registry's node, rotate the keys | version gossip |
| Registry session (`handle_request`, `hello`, `RegistryClient`) | one or two keys per client; one key in the client | hello, call, ratchet | HTTP, threads of the server |
| Registry queries (`request_dump`, `_queryAddress`, `versions`, `topology`) | socket shared by queries | ask babeld or nodes, time out | the registry's node |
| Port forwarding (`upnpigd.Forwarder`) | rules, external ports, `next_refresh` | refresh, clear | UPnP gateway |
| Utilities (`utils.exit`, `packInteger`) | lock of the exit status | acquire, release, signals | every blocking call |
| Process of a node (`cli/node.py`) | list of cleanups, processes, select loop | start, loop, cleanup, restart | everything above |

A node is single-threaded: one `select` loop (`cli/node.py`) calls the
callbacks of the tunnel manager, of babel and of the forwarder.  What is hard
there is the order of the callbacks with respect to messages, processes and
dumps that were started earlier.  The registry is multi-threaded, with one
lock for the database and another for babeld; what is hard is that the
database is in autocommit mode (`isolation_level=None`), so a request that is
interrupted leaves its first statements behind.

What makes each of them correct:

* session: messages are processed once and in order, both ends agree on the
  secret, secrets never go back, over any loss, duplication, reordering, restart;
* tunnels: the pool of taps is never exhausted nor leaks, not more than
  `client_count` tunnels or requests for one, not two tunnels between two
  nodes, a killer always has a tunnel to cut, the good address is remembered;
* killers: a link is never cut while traffic uses it, a lock is always released;
* gossip: every node ends with the last version, and keeps telling it;
* babel: a dump that is asked for is a recent one and comes whole, whatever the socket cuts
  and however often the request is tried again;
* process: whatever ends the main loop, nothing that was started is left; routes
  through gateways are exactly those that are used;
* queries: an answer is never taken for the one of another query, and one that came
  in time is not missed;
* prefixes: the rows of the table partition the address space, whatever the
  sequence of allocations, merges and interruptions;
* certificates: serials are unique, a revoked certificate is in the CRL until it
  expires, a token is worth one certificate;
* registry session: a lost response does not lock a client out;
* keys: nodes that have one of two successive configurations accept each other.

The hazards, each at its line and with the properties that cover it, are
listed in `PROJECT.json`.

## 2. What is modelled

### PeerSession

One action per message kind that a node sends or receives, per delay that
expires, and `Restart`.  `peer[n]` is the `Peer` object node `n` has for the
other end: `key` is `_key`, `last` abstracts `_last` (never heard, heard, waiting
for an answer for less than a minute, silent for more), `i`/`j` are `_i`/`_j`
(only their relation to the numbers already used matters), `mayHello` says
that `_hello` is in the past, `cert` is the certificate it knows of the peer.
`msgs` only grows: a datagram may be received never, once or several times, in
any order.  `newHmacSecret` packs the time in microseconds with random bits,
so a secret is a number, a node draws them in increasing order, and
`Synchronised` says whether the clocks of both nodes order them all.

Left out: the two other attributes of `Peer` (`version`, `protocol`), the
dismissal of peers (`invalidatePeers`), the forwarding by `::1`.

### TunnelManager

One action per callback of the main loop: `BabelDump` (the whole of `babel_dump`:
dead clients, killers, removal of some tunnels, new tunnels), `Refresh`,
`AddressReply`, `KillRequest`, `KillResponse`, `ClientConnect`,
`ClientDisconnect`, `ClientEvent`, `Revoke`; and what the outside does between
two callbacks: `RouteUp` (the client's script writes to the pipe), `ProcessEnds`,
`BootstrapDelayOver`.  `tm` is the record of the attributes of the
`TunnelManager`.  An action is a composition of functions on this record, one
per method of the code, in the order of the calls.  Random choices and weights
are nondeterministic.  Of a `TunnelKiller`, it keeps the state that tunnels
depend on; what babeld does for a killer is any change of this state that the
code allows.  `KillResponse` looks at the killer as the code does, which is not always that of
our tunnel: see `KillerHasTunnel` below.

### PrefixPool and PrefixTree

`PrefixTree` is `newPrefix` and `mergePrefixes`, one action per SQL statement
that writes, because each is committed at once; only `onTimeout` opens a
transaction, hence the two copies of the table (`rows` for the process, `disk`
for what is committed).  `step` is the statement to execute next, `at` and `level` are the
local variables of the loops, `req` the request.  The rest of the registry is
there for what it does to the rows: `Use` (a certificate is recorded), `Revoke`,
`Timeout` (expiration, then merge).  `Crash` is a process that ends, or a
statement that fails, between two statements.  A prefix is a sequence of bits,
as in the table.  `lost` only remembers the past: the halves of prefixes that an
interrupted split left in no row.

`PrefixPool` is the abstract specification: a set of prefixes that nodes have,
`Grant` of one that overlaps none, `Withdraw` of some.  `PrefixTree` is shown to
implement it (`PoolSpec`), with the prefixes that have a certificate on disk.

### Certificates

One action per SQL statement that writes, as in `PrefixTree`, for everything
else the registry does to its tables: `token`, `cert`, `crl`, and the entries
`serial`, `prefix`, `version`, `last_config` of `config`.  `self.lock`
serialises the requests, so there is one `call`: the statement to execute next (`step`), where
`updateNetworkConfig` returns to (`then`), and local variables.  `reg` is the
`RegistryServer` object.  `onTimeout` is one transaction, hence one action.
`Crash` is an interruption before the step, whichever it is; it leaves the tables
as they are and `Start` reads them again, as
`__init__` does.  Time is the age of each certificate with the four cases that the
code tells apart: less or more than `RENEW_PERIOD` before the end, less or more
than the grace period after it.  A certificate that left the table does not grow older: the code looks at it no
more, and a property that holds for one that is not expired holds for one that is.  `signed`, `published` and `announced` only
remember the past; `forgotten` and `missed` remember the two interruptions that
lose something.

A prefix is allocated in one step, any that is free: how is the subject of
`PrefixTree`.  Left out: mails, the column `email`, read-only queries,
the keys of babel.

### RegistrySession

`handle_request` and `RegistryClient`, both ends of an authenticated call.
`node` is the client, one action per blocking point of `rpc`: `StartCall`,
`SendHello`, `SendCall`, `ReceiveHello`, `ReceiveResult`, `GiveUp`.  In the registry, `Authenticate`
is what `handle_request` does with the lock, and `AnswerCall` what the method does
later in the thread; `Hello`, `Reject`, `Revoke`, `RestartRegistry` are the rest of
what changes `sessions`.  A key is a secret and how many calls hashed it.  `sent`
only grows: a request may be handled never, once or several times, in any order,
also after the node stopped waiting for it; `OtherHello` is a hello for the node by someone
else.  `accepted`, and the fields `disturbed` and `kept` of the client, only
remember the past.

A call is one of two, that differ in what they need afterwards: nothing, or a
certificate and a session with one key.

### NetworkConfig

How the keys of babel are rotated in a network that is up.  `hmac` is the three entries
of `config` in the registry, `limited` whether `valid_until` is set.  `UpdateHMAC` is the
whole of `updateHMAC`, `Served` what `getNetworkConfig` then returns.  A node has the
configuration in its cache (`conf`), the one babeld was started with (`running`), a call of
`newVersion` that is planned (`heard`) and `_maybe_old_version`.  `Hear`,
`NewVersion`, `CheckNetconf` and `Restart` are `_processPacket` for a version,
`newVersion` with `updateConfig`, `_babel_dump_check_netconf` and
`_restart`; `Reboot` is any other restart, that forgets what is not in the cache.  babeld is
external: two nodes that have a tunnel are neighbours if each accepts the signatures of
the other, and routes follow.  The registry itself is queried over the Internet,
whatever the routes.

Two things are modelled as the code does them rather than as it seems to mean them: `Answers` is
false when a key is the empty value, and `LoadedLimit` is always false (see the
findings).  Left out: `updateHMAC` interrupted between its statements, the other
parameters, and who knows which version of whom: a node may hear of a newer
version from any neighbour, or never.

### TunnelKill

How a tunnel is destroyed, at its two ends.  `killer` is the entry of `_killing` at each end,
`babeld` what each babeld knows of the link (its cost multiplier, whether routes use it), `sent` what
was sent to babeld that it did not read, `msgs` the datagrams.  An action per callback:
`BabelDump` (babeld answers, then killers are called or removed, and the client may
choose to destroy the tunnel), `KillRequest`, `KillResponse`, `Fail` (`_kill` or
`_ovpn_client_disconnect` for any other reason); then what happens outside, `Connect`,
`Reroute`, `Forget`, `Tick`, `Lose`.  Each method of `TunnelKiller` is a function that gives the new
killer, the cost it sends and the messages.

Time is counted in ticks, because the safety of the lock rests on it: the client cuts the
tunnel when message 3 comes, and the server keeps its lock for `2 * timeout` after it sent it.  The
assumptions are that a datagram does not take longer than that (`MaxAge < LockTime`), that a killer
whose time is over sees a dump before the next tick, and that OpenVPN takes longer
to connect again than a datagram to come.

### VersionGossip

How a version spreads: `Increase` (registry), `NewVersion` (`newVersion` and
`_babel_dump_new_version`), `Hello` (a hello0 and the session that it leads to), `Receive` (message
0), `CallRoot` (`sendto(registry, None)` after a dump), `Unanswered` (a peer that did not answer
for a minute), `Restart`, `Lose`.  `peer[n][m]` is the `Peer` of `m` in `n`: the
version it is assumed to have, and its session, which is what `PeerSession` shows it to be: at most
one, that both ends have or that one of them is about to lose.  A request of the
configuration succeeds at the end; those that fail only delay `NewVersion`.

### Dump and BabelControl

`BabelControl` is `routing.py` below the meaning of packets: `Buffer` with its two
positions, `Babel` with its sockets, `_decode` and the loop of `_read`, and
`request_dump` of the registry with its two tries.  A node uses the same connection without a timeout, also
to send costs.  The socket takes and gives any number of bytes.  An exception ends a node (`Restart`), but for the
registry it ends the request only, and leaves the connection and `_decode` as they are; it is a timeout, or the
end of babeld, that makes it reset the connection (`Abort`).  `Dump` is the abstract
specification: a request that ends gives the state of babeld at a moment after the
request, or nothing if babeld is not there, or gives up.  `BabelControl` implements it (`Fresh`).

### NodeProcess

`main` of `cli/node.py` as far as it can be interrupted: services are started under
the exit lock, tunnels are made and killed, `finally` cleans up.  `pc` is
what the main thread does, with a step wherever a signal or an exception leaves something
behind; `held`, `status` and `raised` are `utils.exit`; `connection`, `processes`, `gateway`
and `routes` are the tunnels with the `MultiGatewayManager`.  `fault` only remembers what was
being done when the main loop ended.

### RegistryQueries

`getBootstrapPeer`, `versions` and `topology` of the registry in several threads: the lock of
`peers`, the one of the registry that a query holds for its whole loop, and one socket on which
answers to earlier queries still come.  `work` has the local variables of the loops.  A question and
its answer are one message, as the node answers at once.  A dump gives any set of nodes.
`TopologyComplete` compares the graph with the tunnels that exist.

## 3. What is checked

| Run | Bounds | Shows |
| --- | --- | --- |
| `peer_session` | 2 nodes, 4 secrets, `#` up to 4, 2 certificates, clocks that agree | `NumbersInOrder`: numbers are signed once and processed once, in order; `SessionsAgree`; `SecretsIncrease` |
| `tunnels` | 2 peers (one greater than us and with 2 addresses, one `--neighbour`), 1 tap, 1 server, 1 notification in the pipe | `SafePool`: taps are a partition and tunnels with requests are bounded; `OneTunnelPerPeer`; `KillerHasTunnel`; `GoodAddress`: the address kept as good is the one that worked |
| `tunnel_kill` | both ends of a tunnel, a lock of 2 ticks, a datagram of 1 | `NoTrafficCut`: a tunnel is not cut while either end routes through it; `SafeCosts`: the cost is given back; `Unlocked`: a lock ends |
| `prefix_tree` | 3 bits, communities `0` and `1`, requests of 1 or 2 more bits, interruptions anywhere | `Partition`: no overlap, no address lost but by the interruption of a split; `MergeComplete`; `Terminates`: `newPrefix` ends; `PoolSpec`: refinement of `PrefixPool` |
| `certificates` | 2 prefixes, 1 token, 3 certificates, 2 versions, interruptions anywhere | `Unique` serials and subjects; `VersionsServed`: a version names one configuration, and what is served is what is recorded; `TokenOnce`; `RevokedListed`: no certificate is forgotten but by a revocation by name that was interrupted; `Announced`: nor a version but by the interruption of its announcement |
| `registry_session` | 5 requests, 3 secrets | `OnlyOnce`: requests are signed once and executed once; `SessionKept`: a session survives any hello; `CallAnswered`, if nothing disturbs it; `CallEnds` |
| `network_config` | the registry's node and 2 others, in line; 4 rotations | `SafeRotation`: nodes one version apart accept each other; `Reconnected`: no node remains cut |
| `network_limit` | the same, 2 rotations | `LimitEnds`: a configuration limited in time is kept for ever (finding) |
| `version_gossip` | 3 nodes in line, 1 new version, 2 faults | `SafeGossip`: nothing but losses makes a node wrong about a peer; `Converges`: without faults all nodes end with the last version |
| `babel_control` | 4 packets, headers of 2 bytes, bodies of 1 or 2 | `SafeStreams`: streams of whole packets; `Understood`: decoded as such; `HandledAtOnce`; `Fresh`: refinement of `Dump`, a dump is recent; `CallEnds` |
| `node_process` | 2 services, 2 peers, 2 addresses, 1 client behind one of them | `SafeRoutes`: routes and references match their uses; `NothingLeft` at the end; a signal ends the process (`SignalEnds`), once (`SignalOnce`) |
| `registry_queries` | 2 threads, 2 requests, 3 nodes in a circle, 2 messages of a kind | `SafeQueries`: answers are of the right peer; `VersionsComplete` and `TopologyComplete`: the results miss only what was lost or late; `CallsEnd` |

The properties whose name begins with `Safe`, `NumbersInOrder`, `Partition`, `Unique` and `OnlyOnce`
are conjunctions of named parts, the type invariant of the module being one of them.

Why these bounds: four secrets are two restarts or hellos beyond the initial
ones of each end, enough for a simultaneous hello followed by a late one, and two data messages are
enough for reordering and duplication.  Two peers are enough for a peer to be
replaced by another on the single tap while a killer of the first one lives, and
one more than taps; two addresses of one of them are a retry, one notification in the
pipe is one that a retry makes stale.  A lock of two ticks is longer than a datagram by one, which is what
the code relies on; a longer one only gives more of the same.  Three nodes in line have one that hears of
a version from a node that is not the first, and two faults are a loss in each direction
or a loss and a restart.  Four packets are a request aborted and tried again, and another
request or cost with them; two sizes and headers of two bytes let the socket cut
inside a header, inside a body, at their limit, or not at all.  Two tunnels and a client share an
address and one tunnel has another one.  Two requests are one whose answers are late and the next
one; in a circle of tunnels each node is named by two others, before and after it answered.  Three bits and two lengths give all the
shapes of the tree that the code distinguishes: a row longer than, equal to and
shorter than a community, siblings that merge twice, and reserved addresses.
Three certificates for two prefixes are one renewal, or one prefix used again
after a revocation, beside another node; two versions are one that is
interrupted, announced or not, and the next one.
Four rotations are a whole cycle and one move of the next one, from either initial state; a
line has a node that depends on another one for its routes.
Five requests are a hello and a call, then a call whose key the registry
does not have any more, the hello and the call that repair it; the third secret is for a hello by someone else.

Deadlock is checked on the prefixes (a request is always possible between two others) and
on the killers (time goes on).  The other runs disable it: their counters are bounded
(secrets, sequence numbers, notifications, versions, packets, requests), so
behaviours stop at the bounds; a node that ended stays so in `node_process`; in
`certificates`, a registry whose own certificate is too old also refuses to start.

Fairness.  For `Terminates`, `FairSpec` is weakly fair on `Proceed`,
the next statement of the request in progress: the thread that handles a request
is not suspended for ever, and nothing but its end can disable it.  Requests, expirations
and interruptions are not fair.  For `CallEnds`, `FairSpec` of `RegistrySession` is
weakly fair on `Act`, the steps of a call in progress: the client never blocks for
ever, because its socket has a timeout of 60 seconds.  Nothing is assumed of the
registry, which may never answer.  For `Reconnected` and the two findings on the
configuration, `FairSpec` of `NetworkConfig` is weakly fair on `NewVersion` and `Restart`, that
timers of the main loop repeat until they succeed, and strongly fair on
`CheckNetconf`, that a timer repeats every hour while routes come and go; this assumes that a
node's requests do not fail for ever.  Nothing is assumed of `Hear`: all notifications
may be lost.  `Reconnected` has the premise that nodes do not reboot again and
again, because a reboot makes a node forget its first doubt.
`Unlocked` needs dumps, which a node requests every 5 seconds while it has killers, and time;
`Tick` is strongly fair because it waits for killers whose time is over.  `Converges`
needs timers (`NewVersion`, `CallRoot`), datagrams (`Hello`, `Receive`: one that is not lost comes), and that
nodes go on sending to the registry's node (`Unanswered`): nothing is assumed of other pairs.  `CallEnds` of
`BabelControl` needs a loop that serves the socket and a babeld that answers what it received; the
timeout of a request is not fair, so that it may race with any answer.  `SignalEnds` needs the
main thread to go on, `CallsEnd` each thread of the registry; what they wait for has a timeout.

### Findings

`LimitEnds` (run `network_limit`): when the registry gives two keys to sign with, it limits this
configuration in time (`valid_until`), so that nodes that no notification reaches ask again.  But
`Cache._loadConfig` skips the names that are class attributes, and `valid_until` is one: the
limit is never seen.  The node keeps the old key until it is cut from the
others, which the hourly check repairs (`Reconnected`).

Other properties are stated in the modules and do not hold.  To see the counterexample, put the property
alone in a copy of the `.cfg` of the module:

* `Deployed` (`NetworkConfig`): `updateHMAC` in a network without keys stores an empty value, to mean that
  any signature is accepted; `getNetworkConfig` does not encode it and
  `json.dumps` fails, for every node, until the next rotation.  That one gives a key that other nodes
  do not have: the first deployment cuts nodes that restart from those that
  did not.
* `FirstIsRegistry` (`Certificates`): `with self.db` opens no transaction in autocommit mode, so the
  prefix of the registry is
  committed before the first certificate.  If the registry ends in between, it
  keeps a prefix that no node has, and the first registered node is not the one that
  everything else relies on.
* `HelloBreaksNothing` (`RegistrySession`): `getPeerProtocol` looks at the session again, after the lock was
  released, and expects a single key.  A hello in between adds one and the
  call fails with an internal error.  The client then starts a new session, so nothing else is lost.
* `ThroughGateway` (`NodeProcess`): `--remote-gateway` is to "force each tunnel to be created through one
  the given gateways" (`cli/node.py:110-112`).  The route is only added with the first reference on
  an address, so a tunnel to an address that a served client came from has none; and the
  route of a tunnel that ended stays as long as such a client.

What the models show besides, in terms of their ghost variables:

* `restored` (`TunnelKill`): a killer that starts in the same dump that ended the previous one (or on a request
  that comes before the next dump) reads 4096 as the cost to give back, and leaves it for ever.
  `CostRestored` says that it is the only case.
* `faults` (`VersionGossip`): a node that restarts between the moment it stored a
  version and the moment it told its neighbours never tells them; a version that was lost is not
  sent again either.  They learn it when a session is opened for another reason, or by the hourly check if they are cut.
* `split` (`BabelControl`): `Babel.reset` keeps `_decode`.  If the connection is reset when a header was
  read and not its body, the next header is decoded as a dump.  `garbled` is what follows: the registry
  answers 500 to this request (`registry.py:340`) and, as nothing resets `_decode`, to the
  following ones.  `Understood` says that there is no other way to be `garbled`, and that it never happens to a
  node, which is started again when its connection is closed.  The model takes it that what is no dump fails
  to decode; it might also be decoded as nonsense.
* `KillerHasTunnel` (`TunnelManager`) is about the killers of our tunnels.  A message 3 that is so late that the killer
  found is the one of a tunnel from the same peer, when we have none to it, ends the node with a KeyError
  (`tunnel.py:530-532`, `tunnel.py:854`).  The model starts it again with the peers of
  its cache, as its service does (`src/daemon/re6stnet.service:9`).
* `fault` (`NodeProcess`): a signal between the look at the status and the release of the lock is only
  noticed at the next release ("missed"); one that is deferred while a connection is
  recorded is raised before its addresses have references, so that `killAll` stops at this
  connection with a KeyError and leaves the other tunnels ("adding"); one that comes first thing in
  `finally` skips the cleanup, as a comment says ("skipped").
* Not in a model: a node without clients whose hourly check finds a new version ends with a RuntimeError,
  because `BaseTunnelManager.babel_dump` iterates over the set that
  `broadcastNewVersion` adds to (`tunnel.py:316`); `getIPv4Information` of the registry fails
  after its query, since it decodes what `_queryAddress` already decoded.

Three more interruptions are known to lose something, as statements are committed one by one.
They are in the models, each with a ghost variable that has exactly what was lost:

* `lost` (`PrefixTree`): a split that is interrupted
  between its `UPDATE` and its `INSERT` leaves a half in no row, for ever.  `Complete` says
  that nothing else is missing.
* `forgotten` (`Certificates`): `revoke`, by name, removes the certificate (`registry.py:700`) before it
  inserts the serial in the CRL (`registry.py:710`).  If it is interrupted in between,
  the certificate is valid for the nodes and nothing can revoke it any more: `RevokedListed` says
  that too, and that it is the only case.  A revocation by serial can be asked again.
* `missed` (`Certificates`): `updateNetworkConfig` records the configuration (`registry.py:202`) before it sends
  the version to the registry's node.  If it is interrupted in between, the next start finds the
  same configuration and announces nothing.  `Announced` says exactly when: not if
  it is interrupted before the configuration is recorded, since the next start then makes another version.

A certificate that is renewed in its last period is neither in the table nor in the CRL until it
expires: revoking its successor leaves it valid.  `RevokedListed` accepts it (`Renewed`), but
not for a certificate that was renewed earlier, which must be in the CRL.

## 4. What is proved

`tlapm` checks every theorem, for any value of the constants that satisfies
the named assumptions.  Three modules of proofs have a second part, about another component; the two
share nothing but the module, and the names of the smaller one (`ControlSpec`, `NodeInit`,
`QueryTypeOK`...) avoid those of the other.  A loop is a
recursive function; the induction about it is done as a fact about sets of numbers (`Counting`: one that has 0
and is closed by successor is `Nat`).

* `PeerSessionProofs`: `TypeCorrect`, and, if the clocks agree, `InOrder`,
  `UsedOnce`, `Agreement`, `Increase`.  The invariant `SessionInv` adds to the
  properties: no message that was signed has a newer secret than its signer
  (`MsgsBehind`), an end in session is not ahead of the other
  (`ConfirmedBehind`), and what was processed is behind the current position
  (`LogBehind`).  Agreement is not inductive without the first two: two ends that are confirmed are
  each not newer than the other.  Every action is first
  reduced to one of three effects on a `Peer` object (keep the session, open one, adopt
  one), so that the invariants are proved three times, not eight.
* `PrefixTreeProofs`: `TypeCorrect`, `NeverOverlap`, `NeverLost`, `AllMerged` and
  `ImplementsPool`, whatever is interrupted.  The invariant `TreeInv`
  says what `newPrefix` knows at each statement: the row being split is free,
  and between the two statements no row overlaps the half to be inserted
  (`Apart`).  `CoverInv` says that every address is covered, maybe by that half or by one that
  was lost.
  What each statement does to a table is a lemma of its own (`SplitTable`,
  `InsertTable`, `MergeTable`), on any table that satisfies what it needs.
* `CertificatesProofs`: the properties of its run and what they conjoin, whatever is
  interrupted: `AlwaysUnique`, `VersionsAlwaysServed`, `OneCertificatePerToken`, `NeverForgotten`,
  `AlwaysAnnounced`.  `CallInv` says what a request knows at each
  statement (which prefix, whether the registry has one, that `reg` and the
  tables agree); each property then has a strengthening of its own: a reserved
  serial is above all those used (`SerialInv`), the subject about to be recorded is free
  (`SubjectInv`), a version is not published before it is recorded
  (`VersionInv`), a token is in one place (`TokenInv`), a certificate only leaves
  the table for a reason (`RevocationInv`), which for a renewal is that the request found it in its
  last period or in the CRL (`ReplaceInv`), what is forgotten is in no table or request
  (`ForgottenInv`), a version that was not announced
  comes with a configuration that differs from the tables, unless it is in `missed` (`AnnouncedInv`).  A
  lemma per property (`SerialFrame`...) first discards the actions that cannot matter.
* `RegistrySessionProofs`: `TypeCorrect`, `ExecutesOnce`, `SignsOnce`,
  `KeepsSession` and `AlwaysAnswered`.  None of the last four is inductive.  `IInv` adds that
  a secret that was received was never used (`Fresh`), that the key of the
  client is ahead of all those it used (`ClientForward`), that the keys of the
  registry are ahead of all those it accepted (`RegistryForward`), and what
  is known from the moment a call is executed, before its answer comes (`InStep`): the first key of
  the registry is the client's and any other one has a newer secret.  For `AlwaysAnswered`, `Steady` says
  what an undisturbed call can rely on at each step: its last try uses a key that was just received, and
  the registry has no other one when it looks at the session again.

  The second part is about `RegistryQueries`, for any threads, nodes and tunnels: `RightPeer`, `AllVersions`
  and `WholeTopology`.  `QueryInv` says that the thread that runs has the lock (`Exclusive`) and
  finds only its own variables (`OwnWork`); that a node that did not give its version may still do, or its
  message was lost (`NoneDue`); and that a node of the graph has all its tunnels there, is to be asked, or was and
  its answer is due (`GraphDue`).
* `TunnelManagerProofs`: `PoolIsSafe`, `OneTunnel`, `KillersHaveTunnels` and `RightAddresses`, for any number of peers, of taps
  and of addresses.  `Good` is what every callback finds and leaves: the partition of the taps
  (`PoolOf`), an address being tried (`TriesOf`), no crossing tunnels (`OneWay`), no killer without a
  tunnel (`KillersOf`).  `Fits` bounds tunnels and requests.  The lemma that carries the
  others is `RoomOf`: the interfaces in use are in bijection with the tunnels, so that there are
  as many free taps as tunnels to make, and `popleft` never fails (`Allotted`).  Then each function of the
  model keeps `Good` (`KillGood`, `MakeGood`, `FromCacheGood`...), and an action is
  a composition of them.  For `RightAddresses`, a notification that is not out of date is about the address
  being tried (`Recent`), and no function establishes a tunnel or breaks this (`Tracks`).

  The second part is about `BabelControl`, for packets and headers of any size: `StreamsAreKept`,
  `DecodesPackets`, `NothingWaits` and the refinement `DumpsAreFresh`.  `ControlInv` describes both directions
  as one sequence of bytes each, from the socket to the buffer (`Incoming`, `Outgoing`): whole packets in
  order (`Stuff`), up to the last one that was asked or answered (`Whole`); what is decoded first is where a header
  or a body starts, and the buffer waits for exactly this (`Aligned`); and as long as bytes may come, only one
  dump may be answered, that of the pending try (`Asked`), which is why an aborted try must close its
  connection.  Each operation on a buffer has a lemma about what is left in it (`SeekLeft`...), one turn of the
  loop of `_read` another one (`TurnTaken`); the loop is then an induction (`LoopOf`), which
  also shows that `Turns` are enough: a turn
  consumes a header or a body, and packets have increasing numbers up to `MaxPacket`.
  If the connection was once reset between a header and its body, the first turn fails (`LoopSplit`).
* `TunnelKillProofs`: `NeverCutsTraffic` and `CostsRestored`, for locks and datagrams of any age, if
  a datagram does not outlive the lock (`Times`).  The invariant relates the two ends: a locked end has no route via the
  link and nothing to tell babeld (`LockInv`); while an answer may arrive, the killer that sent it
  holds its lock, or has lost the tunnel (`MsgInv`); a killer only locks a tunnel that its end has, and recorded
  the cost of a link without a lock (`EndInv`).
* `NetworkConfigProofs`: `RotationIsSafe`, for any nodes, tunnels and number of rotations.  The keys of the registry are
  in one of five positions (`KeysInv`); the configurations that nodes have are compared with the one that is
  served (`CurrentInv`, `PreviousInv`), which is what makes any two successive ones go together,
  including old ones that late nodes still have (`ChainInv`).

  The second part is about `NodeProcess`, for any peers, clients and addresses: `RoutesAreCounted`, `LeavesNothing`
  and `SignalsAreOnce`.  `ProcessInv` relates each entry of the `MultiGatewayManager` to the tunnels and clients that
  have its address (`Counted`), including the tunnel of which addresses are being added and the one being
  killed; says what may be half done, for the peer of the step that was interrupted only (`Current`, `Full`, `Running`);
  and what a cleanup that went to its end leaves (`Stopped`).
* `VersionGossipProofs`: `GossipIsRight`, for any nodes, neighbours, versions and faults.  What is assumed of
  a peer comes from what was sent to it or heard from it, so the invariant adds to `AssumedRight` that a message never
  says more than its sender has, unless this one restarted and has no session yet (`Honest`), that nothing is assumed
  of a peer without a session (`Blank`), and that nobody is ahead of the registry (`Known`).

Only model-checked: what is eventually true, `Terminates`, both `CallEnds`, `CallsEnd`, `Reconnected`,
`Unlocked`, `Converges` and `SignalEnds`, because liveness under fairness is out of the prover's reach.
All other properties that hold in the runs are stated by a theorem.  Those of `BabelControl` and
of the other modules with fairness are proved of the specification without it.

## 5. What is left

Worth doing next, in this order:

1. Abstract specifications of the `MultiGatewayManager` (a bag of references) and of the registry's session
   (a channel that delivers at most once), with proofs that `NodeProcess` and `RegistrySession` implement them.
2. `updateHMAC` interrupted between two statements.
3. `VersionGossip` with losses that end, against `NetworkConfig`.
4. `handle_dump` as a function of routes; `packInteger` with its inverse; `Forwarder`.

Not modelled: `plib` and the OpenVPN scripts (command lines; what they notify is
an input of `TunnelManager`), option parsing, `conf.py` and `cli/registry.py` (sequential scripts),
`Forwarder` (its state is in the UPnP gateway, of which the code says little), `maybeRenew`,
`multicast`, `debug`, and the offline simulation in C++.
