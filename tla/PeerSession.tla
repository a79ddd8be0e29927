---------------------------- MODULE PeerSession ----------------------------
(***************************************************************************)
(* The authenticated UDP session two re6st nodes keep with each other:     *)
(* x509.Peer, and the part of BaseTunnelManager (sendto, _sendto,          *)
(* handlePeerEvent) that drives it.                                        *)
(*                                                                         *)
(* Each end keeps one Peer object for the other.  A session is a secret:   *)
(*   hello0  0, A  or  1, fingerprint(B), A     A's certificate, and the   *)
(*                                              one A knows of B           *)
(*   hello   2, encrypt(B, secret), signature   opens a session            *)
(*   data    #, payload, HMAC(secret)           # > 2, rejected if # is    *)
(*                                              not above the last one     *)
(*                                                                         *)
(* Datagrams are kept for ever in msgs: one that is never received is      *)
(* lost, one received twice is duplicated, and any order of reception is   *)
(* allowed.  Wall-clock limits (60 s between two hello0, 60 s to answer)   *)
(* are flags that expire at any time.                                      *)
(***************************************************************************)
EXTENDS Naturals, Sequences

CONSTANTS
  Node,          \* the two ends
  MaxSecret,     \* bound: secrets drawn, by all nodes, in a behaviour
  MaxSeq,        \* bound: highest '#' of a session
  MaxCert,       \* bound: certificates a node gets, by renewal
  Synchronised   \* TRUE: the clocks of the nodes order all the secrets

ASSUME TwoNodes == \E a, b \in Node : a # b /\ Node = {a, b}
ASSUME Bounds == /\ MaxSecret \in Nat
                 /\ MaxSeq \in Nat
                 /\ MaxCert \in Nat \ {0}
                 /\ Synchronised \in BOOLEAN

VARIABLES
  cert,    \* cert[n]: number of the certificate n runs with
  peer,    \* peer[n]: the Peer object n has for the other end
  own,     \* own[n]: the last secret n drew (its clock never goes back)
  drawn,   \* all the secrets drawn so far
  msgs,    \* every datagram sent so far
  log      \* log[n]: <<secret, #>> of the data n accepted, oldest first

vars == <<cert, peer, own, drawn, msgs, log>>

Other(n) == CHOOSE m \in Node : m # n

Secret == 1 .. MaxSecret
Seqno  == 2 .. MaxSeq
Cert   == 1 .. MaxCert

\* _last: 0 ("never"), None ("heard"), a date less than 60 s ago ("waiting"),
\* an older date ("silent").
Last == {"never", "heard", "waiting", "silent"}

PeerState == [key : Secret, last : Last, i : Seqno \cup {0, 2},
              j : Seqno \cup {0, 2}, mayHello : BOOLEAN, cert : Cert \cup {0}]

Hello0Msg == [type : {"hello0"}, to : Node, cert : Cert, fp : Cert \cup {0}]
HelloMsg  == [type : {"hello"}, to : Node, key : Secret]
DataMsg   == [type : {"data"}, to : Node, key : Secret, seq : 3 .. MaxSeq,
              full : BOOLEAN]

\* The messages of a kind that n may receive now (or again).
Inbox(n, type) == {m \in msgs : m.type = type /\ m.to = n}

(***************************************************************************)
(* Secrets.  newHmacSecret packs the time in microseconds and random bits: *)
(* all secrets differ, and a node draws them in increasing order.  Secrets *)
(* of different nodes are ordered like their clocks.                       *)
(***************************************************************************)
FreshSecrets(n) ==
  {s \in Secret \ drawn : /\ s > own[n]
                          /\ Synchronised => drawn = 1 .. (s - 1)}

Draw(n, s) == /\ own' = [own EXCEPT ![n] = s]
              /\ drawn' = drawn \cup {s}

\* A Peer object as __init__ leaves it.  _key is an attribute of the class,
\* drawn once when the process starts.
NewPeer(classKey) ==
  [key |-> classKey, last |-> "never", i |-> 0, j |-> 0,
   mayHello |-> TRUE, cert |-> 0]

Connected(p) == p.last \in {"heard", "waiting"}

\* hello: take a new secret; the session is not usable until we hear of it.
Open_KeepLast(p, s) == [p EXCEPT !.key = s, !.i = 2, !.j = 2]
Open(p, s) == [p EXCEPT !.key = s, !.i = 2, !.j = 2, !.last = "never"]

\* newSession: only a secret newer than ours is adopted.
Newer_OrSame(s, p) == s >= p.key
Newer_Any(s, p) == TRUE
Newer(s, p) == s > p.key

Adopt(p, s) == [p EXCEPT !.key = s, !.i = 2, !.j = 2, !.last = "heard"]

\* decode, for data: the HMAC must match and '#' be above the last one.
Accepts(p, m) == m.key = p.key /\ p.i < m.seq

\* encode, and sent() if the socket took a non-empty message.
Encoded(p, full, ok) ==
  [p EXCEPT !.j = @ + 1,
            !.last = IF ok /\ full /\ @ \in {"never", "heard"}
                     THEN "waiting" ELSE @]

DataTo(n, p, full) ==
  [type |-> "data", to |-> Other(n), key |-> p.key, seq |-> p.j + 1,
   full |-> full]

\* _sendto with a peer: the '#' is consumed even if the socket fails (ok).
SendData(n, p, full, ok) ==
  /\ p.j < MaxSeq
  /\ peer' = [peer EXCEPT ![n] = Encoded(p, full, ok)]
  /\ msgs' = IF ok THEN msgs \cup {DataTo(n, p, full)} ELSE msgs

\* hello0, _sendto and hello0Sent: not more than once a minute.
SendHello0(n, p, ok) ==
  IF p.mayHello /\ ok
  THEN /\ msgs' = msgs \cup {[type |-> "hello0", to |-> Other(n),
                              cert |-> cert[n], fp |-> p.cert]}
       /\ peer' = [peer EXCEPT ![n] = [p EXCEPT !.mayHello = FALSE]]
  ELSE /\ msgs' = msgs
       /\ peer' = [peer EXCEPT ![n] = p]

-----------------------------------------------------------------------------
Init ==
  /\ cert = [n \in Node |-> 1]
  /\ own \in [Node -> Secret]
  /\ \A m, n \in Node : m # n => own[m] # own[n]
  /\ drawn = {own[n] : n \in Node}
  /\ Synchronised => drawn = 1 .. 2
  /\ peer = [n \in Node |-> NewPeer(own[n])]
  /\ msgs = {}
  /\ log = [n \in Node |-> <<>>]

\* sendto(prefix, msg), called by the tunnel manager; msg may be None.
SendTo(n) ==
  /\ \E ok \in BOOLEAN :
       \/ /\ Connected(peer[n])
          /\ SendData(n, peer[n], TRUE, ok)
       \/ /\ ~Connected(peer[n])
          /\ SendHello0(n, peer[n], ok)
  /\ UNCHANGED <<cert, own, drawn, log>>

\* handlePeerEvent, hello 0 or 1, when the sender knows our certificate:
\* open a session with a new secret.
RecvHello0Known(n) ==
  /\ \E m \in Inbox(n, "hello0"), s \in FreshSecrets(n), ok \in BOOLEAN :
       /\ m.fp = cert[n]
       /\ Draw(n, s)
       /\ peer' = [peer EXCEPT ![n] = Open([@ EXCEPT !.cert = m.cert], s)]
       /\ msgs' = IF ok
                  THEN msgs \cup {[type |-> "hello", to |-> Other(n), key |-> s]}
                  ELSE msgs
  /\ UNCHANGED <<cert, log>>

\* The same when it does not (hello 0, or an old fingerprint): send it ours.
RecvHello0Unknown(n) ==
  /\ \E m \in Inbox(n, "hello0"), ok \in BOOLEAN :
       /\ m.fp # cert[n]
       /\ SendHello0(n, [peer[n] EXCEPT !.cert = m.cert], ok)
  /\ UNCHANGED <<cert, own, drawn, log>>

\* handlePeerEvent, hello 2: adopt the session and send our network version.
RecvHello(n) ==
  /\ \E m \in Inbox(n, "hello"), ok \in BOOLEAN :
       /\ peer[n].cert # 0
       /\ Newer(m.key, peer[n])
       /\ SendData(n, Adopt(peer[n], m.key), TRUE, ok)
  /\ UNCHANGED <<cert, own, drawn, log>>

\* handlePeerEvent, data: a non-empty message is processed and answered, the
\* answer being empty if _processPacket has nothing to say.
RecvData(n) ==
  /\ \E m \in Inbox(n, "data") :
       LET p == [peer[n] EXCEPT !.last = "heard", !.i = m.seq] IN
       /\ Accepts(peer[n], m)
       /\ log' = [log EXCEPT ![n] = Append(@, <<m.key, m.seq>>)]
       /\ \/ /\ m.full
             /\ \E answer, ok \in BOOLEAN : SendData(n, p, answer, ok)
          \/ /\ ~m.full
             /\ peer' = [peer EXCEPT ![n] = p]
             /\ UNCHANGED msgs
  /\ UNCHANGED <<cert, own, drawn>>

\* A minute passed since the last hello0.
HelloDelayOver(n) ==
  /\ ~peer[n].mayHello
  /\ peer' = [peer EXCEPT ![n].mayHello = TRUE]
  /\ UNCHANGED <<cert, own, drawn, msgs, log>>

\* A minute passed since the first message that got no answer.
AnswerDelayOver(n) ==
  /\ peer[n].last = "waiting"
  /\ peer' = [peer EXCEPT ![n].last = "silent"]
  /\ UNCHANGED <<cert, own, drawn, msgs, log>>

\* The process ends and starts again, maybe with a renewed certificate: all
\* Peer objects are lost and the class draws another secret.
Restart(n) ==
  /\ \E s \in FreshSecrets(n), c \in Cert \cap {cert[n], cert[n] + 1} :
       /\ Draw(n, s)
       /\ cert' = [cert EXCEPT ![n] = c]
       /\ peer' = [peer EXCEPT ![n] = NewPeer(s)]
  /\ UNCHANGED <<msgs, log>>

Next ==
  \E n \in Node : \/ SendTo(n)
                  \/ RecvHello0Known(n)
                  \/ RecvHello0Unknown(n)
                  \/ RecvHello(n)
                  \/ RecvData(n)
                  \/ HelloDelayOver(n)
                  \/ AnswerDelayOver(n)
                  \/ Restart(n)

Spec == Init /\ [][Next]_vars

-----------------------------------------------------------------------------
TypeOK ==
  /\ cert \in [Node -> Cert]
  /\ peer \in [Node -> PeerState]
  /\ own \in [Node -> Secret]
  /\ drawn \in SUBSET Secret
  /\ msgs \in SUBSET (Hello0Msg \cup HelloMsg \cup DataMsg)
  /\ log \in [Node -> Seq(Secret \X Seqno)]

Before(x, y) == x[1] < y[1] \/ (x[1] = y[1] /\ x[2] < y[2])

\* A node never processes a datagram twice nor an older one after a newer one,
\* whatever is lost, duplicated or reordered, and even if it or its peer
\* restarts in between ("Reject messages with # smaller or equal than
\* previously processed", extended to successive secrets).
ProcessedInOrder ==
  \A n \in Node : \A x, y \in DOMAIN log[n] :
    x < y => Before(log[n][x], log[n][y])

\* A node never signs two messages with the same secret and the same '#' (the
\* second would be rejected as old by the peer, or mistaken for the first):
\* each '#' it may still use with its current secret is above all those it
\* used with that secret, before or after any hello, duplicate or restart.
SeqnoUsedOnce ==
  \A n \in Node : \A m \in msgs :
    m.type = "data" /\ m.to = Other(n) /\ m.key = peer[n].key
      => m.seq <= peer[n].j

\* Sequence numbers do what they are for, in messages of the right types: none is
\* signed twice and none is processed twice or out of order.
NumbersInOrder == TypeOK /\ ProcessedInOrder /\ SeqnoUsedOnce

Confirmed(p) == p.last # "never"

\* When both ends consider that they have a session, it is the same one:
\* simultaneous hellos, late hellos and restarts leave no pair of ends that
\* discard each other's messages while both believe to be connected.
SessionsAgree ==
  \A m, n \in Node :
    Confirmed(peer[m]) /\ Confirmed(peer[n]) => peer[m].key = peer[n].key

\* "new secret > old secret": an end never goes back to an older secret.
SecretsIncrease ==
  [][\A n \in Node : peer'[n].key >= peer[n].key]_vars
=============================================================================
