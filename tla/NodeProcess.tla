---------------------------- MODULE NodeProcess ----------------------------
(***************************************************************************)
(* The process of a node: what it starts, the routes it adds through the   *)
(* remote gateways, and the signals that end it.                           *)
(*                                                                         *)
(* A signal handler runs between any two instructions of the main thread.  *)
(* It raises SystemExit unless the lock of utils.exit is held, in which    *)
(* case the status is looked at when the lock is released.  Whatever ends  *)
(* the main loop, the clause `finally' of main stops what was started.     *)
(***************************************************************************)
EXTENDS Naturals, FiniteSets

CONSTANTS
  Service,       \* processes started before the main loop
  Babeld,        \* the last of them
  Peer,          \* peers a tunnel is made to
  NoPeer,
  Client,        \* peers that are served
  Ip,            \* public addresses
  Remote,        \* Remote[p]: addresses that are tried for the peer p
  Trusted        \* Trusted[c]: address that the client c comes from

ASSUME Addresses ==
  /\ Babeld \in Service /\ NoPeer \notin Peer
  /\ Remote \in [Peer -> SUBSET Ip] /\ Trusted \in [Client -> Ip]

VARIABLES
  pc,            \* what the main thread does
  then,          \* what it does next
  peer,          \* the peer it makes or kills a tunnel with
  todo,          \* addresses it has still to add
  held,          \* the lock of exit is held
  status,        \* exit.status is set
  raised,        \* release was replaced: SystemExit was raised
  services,      \* processes of the services
  connection,    \* _connection_dict: peers, and the addresses that were added
  processes,     \* OpenVPN clients that run
  served,        \* clients connected to our server
  gateway,       \* MultiGatewayManager: address -> [gw, count]
  routes,        \* routes of the kernel through a gateway
  fault          \* ghost: what was going on when the main loop ended

lock == <<held, status, raised>>
tunnels == <<connection, processes, gateway, routes>>
nodeVars == <<pc, then, peer, todo, lock, services, tunnels, served, fault>>

Entry == [gw : BOOLEAN, count : Nat]

-----------------------------------------------------------------------------
(* class MultiGatewayManager.  A manager m is [dict, routes]. *)
Manager == [dict |-> gateway, routes |-> routes]

AddRef(m, dest, route) ==
  IF dest \in DOMAIN m.dict
  THEN [m EXCEPT !.dict[dest].count = @ + 1]
  ELSE [dict |-> [i \in DOMAIN m.dict \cup {dest} |->
                    IF i = dest THEN [gw |-> route, count |-> 0]
                    ELSE m.dict[i]],
        routes |-> IF route THEN m.routes \cup {dest} ELSE m.routes]

RemoveRef_KeepRoute(m, dest) ==
  IF m.dict[dest].count > 0
  THEN [m EXCEPT !.dict[dest].count = @ - 1]
  ELSE [m EXCEPT !.dict = [i \in DOMAIN @ \ {dest} |-> @[i]]]
RemoveRef(m, dest) ==
  IF m.dict[dest].count > 0
  THEN [m EXCEPT !.dict[dest].count = @ - 1]
  ELSE [dict |-> [i \in DOMAIN m.dict \ {dest} |-> m.dict[i]],
        routes |-> m.routes \ {dest}]

RemoveAll_Nothing(m, dests) == m

\* remove, for addresses that are all there.
RemoveAll(m, dests) ==
  LET last == {i \in dests : m.dict[i].count = 0} IN
  [dict |-> [i \in DOMAIN m.dict \ last |->
               IF i \in dests THEN RemoveRef(m, i).dict[i] ELSE m.dict[i]],
   routes |-> m.routes \ UNION {m.routes \ RemoveRef(m, i).routes : i \in last}]

SetManager(m) == gateway' = m.dict /\ routes' = m.routes

-----------------------------------------------------------------------------
NodeInit ==
  /\ pc = "start" /\ then = "loop" /\ peer = NoPeer /\ todo = {}
  /\ held = TRUE /\ status = FALSE /\ raised = FALSE
  /\ services = {} /\ connection = [p \in {} |-> {}] /\ processes = {}
  /\ served = {} /\ gateway = [i \in {} |-> 0] /\ routes = {}
  /\ fault = "none"

\* exit.release looks at the status, then frees the lock.
Check(next) ==
  IF status /\ ~raised
  THEN /\ pc' = "finally" /\ held' = FALSE /\ raised' = TRUE
       /\ UNCHANGED <<then, status>>
  ELSE pc' = "free" /\ then' = next /\ UNCHANGED lock

Free ==
  /\ pc = "free"
  /\ pc' = then /\ held' = FALSE
  /\ fault' = IF status /\ ~raised THEN "missed" ELSE fault
  /\ UNCHANGED <<then, peer, todo, status, raised, services, tunnels, served>>

StartService(s) ==
  /\ pc = "start" /\ s \notin services
  /\ s = Babeld => services = Service \ {Babeld}
  /\ services' = services \cup {s}
  /\ UNCHANGED <<pc, then, peer, todo, lock, tunnels, served, fault>>

\* The command of the option --up, with the lock free, may be run once.
Up ==
  /\ pc = "start" /\ services = Service
  /\ Check("up")
  /\ UNCHANGED <<peer, todo, services, tunnels, served, fault>>

UpDone ==
  /\ pc = "up"
  /\ pc' = "start2" /\ held' = TRUE
  /\ UNCHANGED <<then, peer, todo, status, raised, services, tunnels, served,
                 fault>>

EnterLoop ==
  /\ pc = "start2" \/ (pc = "start" /\ services = Service)
  /\ Check("loop")
  /\ UNCHANGED <<peer, todo, services, tunnels, served, fault>>

\* _makeTunnel: the connection is recorded under the lock, then its addresses
\* are added, then the process is started.
MakeTunnel(p) ==
  /\ pc = "loop" /\ p \notin DOMAIN connection
  /\ pc' = "make" /\ peer' = p /\ held' = TRUE
  /\ UNCHANGED <<then, todo, status, raised, services, tunnels, served, fault>>

Made ==
  /\ pc = "make"
  /\ connection' = [p \in DOMAIN connection \cup {peer} |->
                      IF p = peer THEN {} ELSE connection[p]]
  /\ todo' = Remote[peer]
  /\ Check("add")
  /\ fault' = IF pc' = "finally" /\ Remote[peer] # {} THEN "adding" ELSE fault
  /\ UNCHANGED <<peer, services, processes, gateway, routes, served>>

AddGateway ==
  /\ pc = "add"
  /\ IF todo = {}
     THEN pc' = "open" /\ UNCHANGED <<todo, tunnels>>
     ELSE \E i \in todo :
            /\ todo' = todo \ {i}
            /\ connection' = [connection EXCEPT ![peer] = @ \cup {i}]
            /\ SetManager(AddRef(Manager, i, TRUE))
            /\ UNCHANGED <<pc, processes>>
  /\ UNCHANGED <<then, peer, lock, services, served, fault>>

Open ==
  /\ pc = "open"
  /\ pc' = "loop"
  /\ processes' = processes \cup {peer}
  /\ UNCHANGED <<then, peer, todo, lock, services, connection, gateway, routes,
                 served, fault>>

\* An OpenVPN process ends by itself, and is started again with another address.
ProcessEnd(p) ==
  /\ p \in processes /\ processes' = processes \ {p}
  /\ UNCHANGED <<pc, then, peer, todo, lock, services, connection, gateway,
                 routes, served, fault>>

Reopen(p) ==
  /\ pc = "loop" /\ p \in DOMAIN connection \ processes
  /\ pc' = "open" /\ peer' = p
  /\ UNCHANGED <<then, todo, lock, services, tunnels, served, fault>>

\* _kill.
Kill(p) ==
  /\ pc = "loop" /\ p \in DOMAIN connection
  /\ pc' = "close" /\ peer' = p /\ todo' = connection[p]
  /\ connection' = [x \in DOMAIN connection \ {p} |-> connection[x]]
  /\ UNCHANGED <<then, lock, services, processes, gateway, routes, served, fault>>

Close ==
  /\ pc = "close"
  /\ pc' = "remove" /\ processes' = processes \ {peer}
  /\ UNCHANGED <<then, peer, todo, lock, services, connection, gateway, routes,
                 served, fault>>

RemoveGateway ==
  /\ pc = "remove"
  /\ IF todo = {}
     THEN pc' = "loop" /\ UNCHANGED <<todo, tunnels>>
     ELSE \E i \in todo :
            /\ todo' = todo \ {i}
            /\ SetManager(RemoveRef(Manager, i))
            /\ UNCHANGED <<pc, connection, processes>>
  /\ UNCHANGED <<then, peer, lock, services, served, fault>>

\* _ovpn_client_connect and _ovpn_client_disconnect.
Serve(c) ==
  /\ pc = "loop" /\ c \notin served
  /\ served' = served \cup {c}
  /\ SetManager(AddRef(Manager, Trusted[c], FALSE))
  /\ UNCHANGED <<pc, then, peer, todo, lock, services, connection, processes,
                 fault>>

Unserve(c) ==
  /\ pc = "loop" /\ c \in served
  /\ served' = served \ {c}
  /\ SetManager(RemoveRef(Manager, Trusted[c]))
  /\ UNCHANGED <<pc, then, peer, todo, lock, services, connection, processes,
                 fault>>

-----------------------------------------------------------------------------
Body == {"up", "loop", "add", "open", "close", "remove"}

\* An exception, or SystemExit by a signal, ends what is being done.  A process
\* may have been started before the connection knows of it.
Interrupt ==
  /\ pc' = "finally"
  /\ processes' \in IF pc = "open" THEN {processes, processes \cup {peer}}
                    ELSE {processes}
  /\ fault' = CASE pc = "add" /\ todo # {} -> "adding"
                [] pc = "open" /\ processes' # processes -> "opening"
                [] pc \in {"close", "remove"} -> "killing"
                [] OTHER -> fault
  /\ UNCHANGED <<then, peer, todo, services, connection, gateway, routes, served>>

Raise ==
  /\ pc \in Body \cup {"start", "start2", "make"}
  /\ held' = (held /\ pc # "make")
  /\ raised' = (raised \/ (pc = "make" /\ status))
  /\ Interrupt
  /\ UNCHANGED status

\* exit.signal.  SystemExit in `finally' itself ends the process at once.
Handler_Always ==
  /\ status' = TRUE
  /\ IF held THEN UNCHANGED <<pc, then, peer, todo, held, raised, services,
                              tunnels, served, fault>>
     ELSE /\ raised' = TRUE /\ UNCHANGED held
          /\ IF pc \in Body THEN Interrupt
             ELSE /\ pc' = "ended" /\ fault' = "skipped"
                  /\ UNCHANGED <<then, peer, todo, services, tunnels, served>>
Handler_Poll ==
  /\ status' = TRUE
  /\ UNCHANGED <<pc, then, peer, todo, held, raised, services, tunnels, served,
                 fault>>
Handler ==
  /\ status' = TRUE
  /\ IF held \/ raised
     THEN UNCHANGED <<pc, then, peer, todo, held, raised, services, tunnels,
                      served, fault>>
     ELSE /\ raised' = TRUE /\ UNCHANGED held
          /\ IF pc \in Body THEN Interrupt
             ELSE /\ pc' = "ended" /\ fault' = "skipped"
                  /\ UNCHANGED <<then, peer, todo, services, tunnels, served>>

Signal == pc # "ended" /\ Handler

\* exit.acquire(0), then the functions of the list from its end: babeld is
\* stopped, then the tunnels, then the other services.
Finally ==
  /\ pc = "finally" /\ pc' = "cleanup" /\ held' = TRUE
  /\ UNCHANGED <<then, peer, todo, status, raised, services, tunnels, served,
                 fault>>

\* killAll.  A connection whose addresses were not all added ends it: the other
\* ones are not killed.
KillAll(p) ==
  /\ pc = "cleanup" /\ Babeld \notin services /\ p \in DOMAIN connection
  /\ processes' = IF fault = "opening" /\ p = peer THEN processes
                  ELSE processes \ {p}
  /\ IF connection[p] = Remote[p]
     THEN /\ connection' = [x \in DOMAIN connection \ {p} |-> connection[x]]
          /\ SetManager(RemoveAll(Manager, Remote[p]))
          /\ UNCHANGED pc
     ELSE /\ \E s \in SUBSET connection[p] : SetManager(RemoveAll(Manager, s))
          /\ pc' = "stop" /\ UNCHANGED connection
  /\ UNCHANGED <<then, peer, todo, lock, services, served, fault>>

KilledAll ==
  /\ pc = "cleanup" /\ Babeld \notin services /\ DOMAIN connection = {}
  /\ pc' = "stop"
  /\ UNCHANGED <<then, peer, todo, lock, services, tunnels, served, fault>>

Stop(s) ==
  /\ s \in services
  /\ pc = "stop" \/ (pc = "cleanup" /\ s = Babeld)
  /\ services' = services \ {s}
  /\ UNCHANGED <<pc, then, peer, todo, lock, tunnels, served, fault>>

End ==
  /\ pc = "stop" /\ services = {}
  /\ pc' = "ended" /\ held' = FALSE
  /\ UNCHANGED <<then, peer, todo, status, raised, services, tunnels, served,
                 fault>>

-----------------------------------------------------------------------------
Step ==
  \/ \E s \in Service : StartService(s) \/ Stop(s)
  \/ Up \/ UpDone \/ EnterLoop \/ Free
  \/ Made \/ AddGateway \/ Open \/ Close \/ RemoveGateway
  \/ Finally \/ KilledAll \/ End
  \/ \E p \in Peer : KillAll(p)

Events ==
  \/ \E p \in Peer : MakeTunnel(p) \/ Reopen(p) \/ Kill(p) \/ ProcessEnd(p)
  \/ \E c \in Client : Serve(c) \/ Unserve(c)
  \/ Raise \/ Signal

NodeNext == Step \/ Events

NodeSpec == NodeInit /\ [][NodeNext]_nodeVars

\* The main thread goes on, and what it waits for ends.
NodeFairSpec == NodeSpec /\ WF_nodeVars(Step)

-----------------------------------------------------------------------------
NodeTypeOK ==
  /\ pc \in Body \cup {"start", "start2", "free", "make", "finally", "cleanup",
                       "stop", "ended"}
  /\ then \in {"up", "loop", "add"} /\ peer \in Peer \cup {NoPeer}
  /\ todo \subseteq Ip
  /\ held \in BOOLEAN /\ status \in BOOLEAN /\ raised \in BOOLEAN
  /\ services \subseteq Service /\ processes \subseteq Peer
  /\ served \subseteq Client /\ routes \subseteq Ip
  /\ DOMAIN connection \subseteq Peer
  /\ \A p \in DOMAIN connection : connection[p] \subseteq Remote[p]
  /\ DOMAIN gateway \subseteq Ip
  /\ \A i \in DOMAIN gateway : gateway[i] \in Entry
  /\ fault \in {"none", "missed", "adding", "opening", "killing", "skipped"}

\* What uses an address while no tunnel is being killed: tunnels that were made
\* to it, and clients that come from it.
MadeTo(i) == {p \in DOMAIN connection : i \in connection[p]}
ServedFrom(i) == {c \in served : Trusted[c] = i}
References(i) == Cardinality(MadeTo(i)) + Cardinality(ServedFrom(i))

\* An address has an entry as long as something uses it, and the kernel has the
\* routes that the entries say.
RoutesCounted ==
  pc \in {"loop", "add", "open", "cleanup"} /\ fault \in {"none", "missed"} =>
    /\ \A i \in Ip : References(i) = IF i \in DOMAIN gateway
                                     THEN gateway[i].count + 1 ELSE 0
    /\ routes = {i \in DOMAIN gateway : gateway[i].gw}

\* References and routes match, in states of the right types.
SafeRoutes == NodeTypeOK /\ RoutesCounted

\* When the process ends, nothing that it started is left, neither process nor
\* route, but for the tunnel that was being made or killed.
NothingLeft ==
  pc = "ended" =>
    \/ fault \in {"skipped", "adding"}
    \/ /\ services = {}
       /\ processes \subseteq IF fault \in {"opening", "killing"} THEN {peer}
                              ELSE {}
       /\ fault # "killing" =>
            routes \subseteq {i \in DOMAIN gateway : gateway[i].gw
                                /\ \E c \in served : Trusted[c] = i}

\* When a signal ended the main loop, other ones do not prevent the cleanup.
SignalOnce == [][pc = "finally" /\ raised => pc' # "ended"]_nodeVars

\* A signal ends the process, unless it comes while the lock is released.
SignalEnds == [](fault # "missed") => (status ~> pc = "ended")

\* A tunnel is created through a gateway.
ThroughGateway == \A p \in processes : Remote[p] \subseteq routes
=============================================================================
