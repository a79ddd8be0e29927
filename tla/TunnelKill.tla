----------------------------- MODULE TunnelKill -----------------------------
(***************************************************************************)
(* How a tunnel is destroyed: the TunnelKiller of each of its two ends,    *)
(* and the babeld of each end.                                             *)
(*                                                                         *)
(* The node that is the client of the tunnel decides to destroy it.  Its   *)
(* killer raises the cost of the link in babeld so that traffic leaves it  *)
(* (softLocking), then forbids babeld to use it (hardLocking), and sends   *)
(* message 2 once babeld reports it (locked).  The node that is the server *)
(* then does the same, and answers with message 3: the client may cut the  *)
(* tunnel.  Each killer has a timeout, and gives back the cost of the link *)
(* when it is over.                                                        *)
(*                                                                         *)
(* Time is counted in ticks that both ends share.  It is assumed that a    *)
(* datagram comes within MaxAge ticks or never, and that a killer whose    *)
(* timeout is over sees a dump before the next tick: a dump is requested   *)
(* every 5 s, and a lock is held for twice the time after which a silent   *)
(* tunnel is closed (2 minutes by default).                                *)
(***************************************************************************)
EXTENDS Naturals

CONSTANTS
  LockTime,     \* 2 * timeout, in ticks
  MaxAge        \* for how many ticks a datagram may be delayed

ASSUME Times == LockTime \in Nat /\ MaxAge \in Nat /\ MaxAge < LockTime

VARIABLES
  up,        \* the tunnel, at each end: _connection_dict, _served
  killer,    \* _killing, at each end
  sent,      \* the last cost that was sent to babeld, that did not read it
  babeld,    \* what babeld knows of the link, at each end
  seen,      \* the last dump that the server read
  msgs,      \* datagrams on their way
  restored   \* ghost: see Ghost

vars == <<up, killer, sent, babeld, seen, msgs, restored>>

End == {"client", "server"}

\* Cost multipliers: the default one, 4096 and 0.
Cost == {"normal", "soft", "hard"}

\* direct: routes via the link are installed, with the direct one to the other
\* end that identifies it as a neighbour.
Link == [cost : Cost, direct : BOOLEAN]

NoKiller == [state |-> "absent", time |-> 0, cost |-> "normal"]

KillerState ==
  [state : {"absent", "new", "softLocking", "hardLocking", "locked",
            "unlocking"},
   time : 0 .. LockTime, cost : Cost]

\* Message 2 is sent by the client, 3 by the server.
Message == [from : End, age : 0 .. MaxAge]

\* A cost was given back ("unlocked") since the last dump was read, and a
\* killer started from this dump ("hasty"): it recorded a cost that was about
\* to change.
Ghost == {"no", "unlocked", "hasty"}

-----------------------------------------------------------------------------
(***************************************************************************)
(* A killer k of the end e, called when the last dump is s: its new value, *)
(* the cost it sends to babeld (or "no") and the messages it sends.        *)
(* others: neighbours that are not identified have routes.                 *)
(***************************************************************************)
Waits(k) == [killer |-> k, cost |-> "no", msgs |-> {}]

\* handle_dump: (address, ifindex) is in locked.
Locked(s) == ~s.direct /\ s.cost = "hard"

Init_Killer(k, s) ==
  IF s.direct
  THEN [killer |-> [k EXCEPT !.state = "softLocking", !.cost = s.cost],
        cost |-> "soft", msgs |-> {}]
  ELSE Waits(k)

SoftLocking_Record(k, s, others) ==
  IF s.direct \/ others THEN Waits(k)
  ELSE [killer |-> [k EXCEPT !.state = "hardLocking", !.cost = s.cost],
        cost |-> "hard", msgs |-> {}]
SoftLocking(k, s, others) ==
  IF s.direct \/ others THEN Waits(k)
  ELSE [killer |-> [k EXCEPT !.state = "hardLocking"],
        cost |-> "hard", msgs |-> {}]

HardLocking_NoRenewal(e, k, s) ==
  IF Locked(s)
  THEN [killer |-> [k EXCEPT !.state = "locked"],
        cost |-> "no", msgs |-> {[from |-> e, age |-> 0]}]
  ELSE Waits([k EXCEPT !.time = 0])
HardLocking(e, k, s) ==
  IF Locked(s)
  THEN [killer |-> [k EXCEPT !.state = "locked", !.time = LockTime],
        cost |-> "no", msgs |-> {[from |-> e, age |-> 0]}]
  ELSE Waits([k EXCEPT !.time = 0])

Call(e, k, s, others) ==
  CASE k.state = "new" -> Init_Killer(k, s)
    [] k.state = "softLocking" -> SoftLocking(k, s, others)
    [] k.state = "hardLocking" -> HardLocking(e, k, s)
    [] OTHER -> Waits(k)

\* TunnelKiller.__init__
NewKiller(s) ==
  Init_Killer([state |-> "new", time |-> LockTime, cost |-> "normal"], s)

Unlock(k) == IF k.state \in {"absent", "new"} THEN "no" ELSE k.cost

\* _abortTunnelKiller
Abort_Again(k) ==
  IF k.state \in {"absent", "new"} THEN NoKiller
  ELSE [k EXCEPT !.state = "unlocking", !.time = LockTime]
Abort(k) ==
  CASE k.state \in {"absent", "new"} -> NoKiller
    [] k.state = "unlocking" -> k
    [] OTHER -> [k EXCEPT !.state = "unlocking", !.time = LockTime]

Over(k) == k.state # "absent" /\ k.time = 0

\* babel_dump: remove a killer whose time is over, or call it.
Step(e, k, s, others) ==
  IF Over(k) THEN [killer |-> NoKiller, cost |-> Unlock(k), msgs |-> {}]
             ELSE Call(e, k, s, others)

\* Effects of what r describes, at the end e, that read all it was sent.
Effects(e, r) ==
  /\ killer' = [killer EXCEPT ![e] = r.killer]
  /\ sent' = [sent EXCEPT ![e] = r.cost]
  /\ msgs' = msgs \cup r.msgs

-----------------------------------------------------------------------------
Fresh == [cost |-> "normal", direct |-> FALSE]

Init ==
  /\ up = [e \in End |-> FALSE]
  /\ killer = [e \in End |-> NoKiller]
  /\ sent = [e \in End |-> "no"]
  /\ babeld = [e \in End |-> Fresh]
  /\ seen = Fresh
  /\ msgs = {}
  /\ restored = [e \in End |-> "no"]

\* babeld reads what it was sent.  It has no route via a link of multiplier 0.
AfterRead(e) ==
  IF sent[e] = "no" THEN babeld[e]
  ELSE [cost |-> sent[e], direct |-> babeld[e].direct /\ sent[e] # "hard"]

\* request_dump and babel_dump: babeld answers with what it has after it read
\* what was sent before.  At the client, _removeSomeTunnels may then choose
\* this tunnel.
BabelDump(e) ==
  /\ \E others \in BOOLEAN :
       LET s == AfterRead(e)
           r == Step(e, killer[e], s, others)
           n == NewKiller(s)
           ended == Over(killer[e]) /\ r.cost # "no"
           read == IF restored[e] = "hasty" THEN "hasty"
                   ELSE IF ended THEN "unlocked" ELSE "no"
       IN  /\ babeld' = [babeld EXCEPT ![e] = s]
           /\ seen' = IF e = "server" THEN s ELSE seen
           /\ \/ /\ Effects(e, r)
                 /\ restored' = [restored EXCEPT ![e] = read]
              \/ /\ e = "client" /\ up[e] /\ r.killer.state = "absent"
                 /\ Effects(e, IF n.cost = "no" THEN [n EXCEPT !.cost = r.cost]
                               ELSE n)
                 /\ restored' = [restored EXCEPT ![e] =
                      IF read = "unlocked" /\ n.cost # "no" THEN "hasty"
                      ELSE read]
  /\ UNCHANGED up

\* Message 2.
KillRequest(m) ==
  /\ m.from = "client"
  /\ IF killer["server"].state = "absent" /\ up["server"]
     THEN LET r == NewKiller(seen) IN
          /\ killer' = [killer EXCEPT !["server"] = r.killer]
          /\ sent' = [sent EXCEPT !["server"] = IF r.cost = "no" THEN @
                                                ELSE r.cost]
          /\ restored' = IF r.cost = "no" THEN restored ELSE [restored EXCEPT !["server"] =
                                    IF @ = "no" THEN "no" ELSE "hasty"]
     ELSE UNCHANGED <<killer, sent, restored>>
  /\ msgs' = msgs \ {m}
  /\ UNCHANGED <<up, babeld, seen>>

\* The tunnel ends, at the end e: _kill or _ovpn_client_disconnect.
Close(e) ==
  /\ up[e]
  /\ up' = [up EXCEPT ![e] = FALSE]
  /\ killer' = [killer EXCEPT ![e] = Abort(@)]

\* Message 3.
KillResponse(m) ==
  /\ m.from = "server"
  /\ IF killer["client"].state = "locked" THEN Close("client")
                                          ELSE UNCHANGED <<up, killer>>
  /\ msgs' = msgs \ {m}
  /\ UNCHANGED <<sent, babeld, seen, restored>>

\* For any other reason: a process that ends, a timeout of the tunnel.
Fail(e) == Close(e) /\ UNCHANGED <<sent, babeld, seen, msgs, restored>>

\* The peers connect again.  It takes longer than a datagram.
Connect ==
  /\ \A e \in End : ~up[e]
  /\ up' = [e \in End |-> TRUE]
  /\ msgs' = {}
  /\ UNCHANGED <<killer, sent, babeld, seen, restored>>

-----------------------------------------------------------------------------
(***************************************************************************)
(* External: babeld, the network and time.                                 *)
(***************************************************************************)
\* babeld chooses other routes.
Reroute(e) ==
  /\ babeld[e].direct \/ (babeld[e].cost # "hard" /\ \A f \in End : up[f])
  /\ babeld' = [babeld EXCEPT ![e].direct = ~ @]
  /\ UNCHANGED <<up, killer, sent, seen, msgs, restored>>

\* It forgets the link, with its cost, some time after the tunnel ended.
Forget(e) ==
  /\ \E f \in End : ~up[f]
  /\ babeld' = [babeld EXCEPT ![e] = Fresh]
  /\ UNCHANGED <<up, killer, sent, seen, msgs, restored>>

Tick ==
  /\ \A e \in End : ~Over(killer[e])
  /\ killer' = [e \in End |-> [killer[e] EXCEPT !.time = IF @ = 0 THEN 0
                                                         ELSE @ - 1]]
  /\ msgs' = {[m EXCEPT !.age = @ + 1] : m \in {x \in msgs : x.age < MaxAge}}
  /\ UNCHANGED <<up, sent, babeld, seen, restored>>

Lose(m) ==
  /\ msgs' = msgs \ {m}
  /\ UNCHANGED <<up, killer, sent, babeld, seen, restored>>

Next ==
  \/ Connect \/ Tick
  \/ \E e \in End : BabelDump(e) \/ Fail(e) \/ Reroute(e) \/ Forget(e)
  \/ \E m \in msgs : KillRequest(m) \/ KillResponse(m) \/ Lose(m)

Spec == Init /\ [][Next]_vars

\* A dump is requested every 5 seconds while there is a killer, and babeld
\* answers; time does not stop.
FairSpec ==
  /\ Spec
  /\ \A e \in End : WF_vars(BabelDump(e))
  /\ SF_vars(Tick)

-----------------------------------------------------------------------------
TypeOK ==
  /\ up \in [End -> BOOLEAN]
  /\ killer \in [End -> KillerState]
  /\ sent \in [End -> Cost \cup {"no"}]
  /\ babeld \in [End -> Link]
  /\ seen \in Link
  /\ msgs \subseteq Message
  /\ restored \in [End -> Ghost]

\* A killer never cuts a tunnel that one of its ends routes traffic through,
\* whatever became of the killer of the other end since it answered.
NoTrafficCut ==
  [][\A m \in msgs :
       KillResponse(m) /\ up["client"] /\ ~up'["client"]
         => \A e \in End : ~babeld[e].direct /\ sent[e] = "no"]_vars

\* A link is never left unusable: babeld is not given back a multiplier 0.
LinkUsable ==
  \A e \in End :
    killer[e].state \in {"absent", "new"} /\ sent[e] = "no"
      => babeld[e].cost # "hard"

\* It is given back its cost, whichever step the killer reached and however it
\* ended, unless it was started from a dump that is older than the end of the
\* previous killer: this one leaves 4096.
CostRestored ==
  \A e \in End :
    killer[e].state \in {"absent", "new"} /\ restored[e] # "hasty"
      => (IF sent[e] = "no" THEN babeld[e].cost ELSE sent[e]) = "normal"

\* What babeld is told about a link is undone at the end of a killer, in states of
\* the right types.
SafeCosts == TypeOK /\ LinkUsable /\ CostRestored

\* A link does not remain locked, even if the tunnel fails and is established
\* again any number of times, and all messages are lost.
Unlocked ==
  \A e \in End :
    killer[e].state \in {"hardLocking", "locked", "unlocking"}
      ~> killer[e].state \in {"absent", "new", "softLocking"}
=============================================================================
