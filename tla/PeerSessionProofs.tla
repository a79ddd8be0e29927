------------------------- MODULE PeerSessionProofs -------------------------
(* Proofs about PeerSession, for any bounds, when the clocks agree. *)
EXTENDS PeerSession, TLAPS

(***************************************************************************)
(* The two ends.                                                           *)
(***************************************************************************)

\* Other is an involution without fixed point, and there is no third node.
LEMMA OtherNode ==
  ASSUME NEW n \in Node
  PROVE  /\ Other(n) \in Node
         /\ Other(n) # n
         /\ Other(Other(n)) = n
         /\ \A m \in Node : m = n \/ m = Other(n)
<1>1. PICK x, y \in Node : x # y /\ Node = {x, y}
  BY TwoNodes
<1>2. \E m \in Node : m # n
  BY <1>1
<1>3. Other(n) \in Node /\ Other(n) # n
  BY <1>2 DEF Other
<1>4. \A m \in Node : m = n \/ m = Other(n)
  BY <1>1, <1>3
<1>5. Other(Other(n)) \in Node /\ Other(Other(n)) # Other(n)
  BY <1>3 DEF Other
<1> QED
  BY <1>3, <1>4, <1>5

(***************************************************************************)
(* A step, seen from the Peer object it changes: the session goes on, a    *)
(* new one is opened (hello, restart), or the one of the other end is      *)
(* adopted.                                                                *)
(***************************************************************************)
Signed == {m \in msgs : m.type # "hello0"}

Keeps(n) ==
  /\ peer'[n].key = peer[n].key
  /\ peer'[n].i >= peer[n].i
  /\ peer'[n].j >= peer[n].j
  /\ peer[n].j = 0 => peer'[n].j = 0 /\ peer'[n].last = "never"
  /\ peer[n].j # 0 => peer'[n].j # 0
  /\ \/ ~Confirmed(peer'[n])
     \/ Confirmed(peer[n])
     \/ \E m \in Signed : m.to = n /\ m.key = peer[n].key
  /\ drawn' = drawn

Opens(n) ==
  /\ peer'[n].key \in FreshSecrets(n)
  /\ peer'[n].last = "never"
  /\ drawn' = drawn \cup {peer'[n].key}

Adopts(n) ==
  /\ peer'[n].key > peer[n].key
  /\ peer'[n].j # 0
  /\ \E m \in Signed : m.to = n /\ m.key = peer'[n].key
  /\ drawn' = drawn

\* Only the last '#' used is sent, and only with the current secret.
Sends(n) ==
  /\ msgs \in SUBSET msgs'
  /\ \A m \in msgs' \ msgs :
       m.type # "hello0" => /\ m.to = Other(n)
                            /\ m.key = peer'[n].key
                            /\ m.type = "data" => m.seq = peer'[n].j
                            /\ peer'[n].j # 0

Logs(n) ==
  \/ log' = log
  \/ \E m \in msgs : /\ m.type = "data" /\ m.to = n
                     /\ m.key = peer[n].key /\ m.seq > peer[n].i
                     /\ peer'[n].key = m.key /\ peer'[n].i = m.seq
                     /\ log' = [log EXCEPT ![n] = Append(@, <<m.key, m.seq>>)]

Effect(n) ==
  /\ peer' \in [Node -> PeerState]
  /\ peer'[Other(n)] = peer[Other(n)]
  /\ msgs' \in SUBSET (Hello0Msg \cup HelloMsg \cup DataMsg)
  /\ Keeps(n) \/ Opens(n) \/ Adopts(n)
  /\ Sends(n)
  /\ Logs(n)

(***************************************************************************)
(* What keeps the types: a secret that is drawn when a process starts is   *)
(* never sent, so that an end without a session (j = 0) never accepts nor  *)
(* sends a data message.                                                   *)
(***************************************************************************)
KeysDrawn == /\ \A n \in Node : peer[n].key \in drawn
             /\ \A m \in Signed : m.key \in drawn

ClassKeyUnused ==
  \A n \in Node :
    peer[n].j = 0 => /\ peer[n].last = "never"
                     /\ peer[Other(n)].key # peer[n].key
                     /\ \A m \in Signed : m.key # peer[n].key

TypeInv == TypeOK /\ KeysDrawn /\ ClassKeyUnused

\* The fields of a Peer object that are compared are numbers.
LEMMA PeerFields ==
  ASSUME TypeOK, NEW n \in Node
  PROVE  /\ peer[n] \in PeerState
         /\ peer[n].key \in Nat /\ peer[n].i \in Nat /\ peer[n].j \in Nat
  BY Bounds DEF TypeOK, PeerState, Seqno, Secret

(***************************************************************************)
(* The two ways of sending.                                                *)
(***************************************************************************)

\* Sending a data message consumes one '#', never 0, 1 or 2.
LEMMA SendDataEffect ==
  ASSUME TypeOK, NEW n \in Node, NEW p \in PeerState, p.j # 0,
         NEW full \in BOOLEAN, NEW ok \in BOOLEAN, SendData(n, p, full, ok)
  PROVE  /\ peer' \in [Node -> PeerState]
         /\ peer'[Other(n)] = peer[Other(n)]
         /\ msgs' \in SUBSET (Hello0Msg \cup HelloMsg \cup DataMsg)
         /\ peer'[n].key = p.key /\ peer'[n].i = p.i
         /\ peer'[n].j = p.j + 1
         /\ Sends(n)
<1>1. /\ p.key \in Secret /\ p.last \in Last /\ p.j \in 2 .. MaxSeq
      /\ p.j < MaxSeq
  BY Bounds DEF PeerState, Seqno, SendData
<1>2. Encoded(p, full, ok) \in PeerState
  <2>1. p.j + 1 \in Seqno
    BY <1>1, Bounds DEF Seqno
  <2>2. (IF ok /\ full /\ p.last \in {"never", "heard"}
         THEN "waiting" ELSE p.last) \in Last
    BY <1>1 DEF Last
  <2> QED
    BY <2>1, <2>2 DEF PeerState, Encoded
<1>3. DataTo(n, p, full) \in DataMsg
  BY <1>1, OtherNode, Bounds DEF DataTo, DataMsg
<1>4. /\ peer' \in [Node -> PeerState]
      /\ peer'[Other(n)] = peer[Other(n)]
      /\ peer'[n] = Encoded(p, full, ok)
      /\ msgs' = msgs \/ msgs' = msgs \cup {DataTo(n, p, full)}
  BY <1>2, OtherNode DEF TypeOK, SendData
<1>5. msgs' \in SUBSET (Hello0Msg \cup HelloMsg \cup DataMsg)
  BY <1>3, <1>4 DEF TypeOK
<1>6. /\ peer'[n].key = p.key /\ peer'[n].i = p.i
      /\ peer'[n].j = p.j + 1
  BY <1>4 DEF Encoded, PeerState
<1>7. peer'[n].j # 0
  BY <1>1, <1>6, Bounds
<1>8. Sends(n)
  BY <1>4, <1>6, <1>7 DEF Sends, DataTo
<1> QED
  BY <1>4, <1>5, <1>6, <1>8

\* Sending or not sending a hello0 leaves the session alone.
LEMMA SendHello0Effect ==
  ASSUME TypeOK, NEW n \in Node, NEW p \in PeerState, NEW ok \in BOOLEAN,
         SendHello0(n, p, ok)
  PROVE  /\ peer' \in [Node -> PeerState]
         /\ peer'[Other(n)] = peer[Other(n)]
         /\ msgs' \in SUBSET (Hello0Msg \cup HelloMsg \cup DataMsg)
         /\ peer'[n].key = p.key /\ peer'[n].i = p.i /\ peer'[n].j = p.j
         /\ peer'[n].last = p.last
         /\ Sends(n)
<1> DEFINE h == [type |-> "hello0", to |-> Other(n), cert |-> cert[n],
                 fp |-> p.cert]
<1>1. h \in Hello0Msg /\ h.type = "hello0"
  BY OtherNode DEF Hello0Msg, TypeOK, PeerState
<1>2. /\ peer'[n] = p \/ peer'[n] = [p EXCEPT !.mayHello = FALSE]
      /\ peer' = [peer EXCEPT ![n] = peer'[n]]
      /\ msgs' = msgs \/ msgs' = msgs \cup {h}
  BY DEF SendHello0, TypeOK
<1>3. peer'[n] \in PeerState
  BY <1>2 DEF PeerState
<1>4. /\ peer'[n].key = p.key /\ peer'[n].i = p.i /\ peer'[n].j = p.j
      /\ peer'[n].last = p.last
  BY <1>2 DEF PeerState
<1>5. peer' \in [Node -> PeerState] /\ peer'[Other(n)] = peer[Other(n)]
  BY <1>2, <1>3, OtherNode DEF TypeOK
<1>6. msgs' \in SUBSET (Hello0Msg \cup HelloMsg \cup DataMsg)
  BY <1>1, <1>2 DEF TypeOK
<1>7. Sends(n)
  BY <1>1, <1>2 DEF Sends
<1> QED
  BY <1>4, <1>5, <1>6, <1>7

(***************************************************************************)
(* One lemma per action.                                                   *)
(***************************************************************************)
\* sendto either sends a data message in the session or a hello0.
LEMMA SendToEffect ==
  ASSUME TypeInv, NEW n \in Node, SendTo(n)
  PROVE  Effect(n)
<1>1. peer[n] \in PeerState /\ peer[n].i \in Nat /\ peer[n].j \in Nat
  BY PeerFields DEF TypeInv
<1>2. log' = log /\ drawn' = drawn
  BY DEF SendTo
<1>3. ASSUME Connected(peer[n]), NEW ok \in BOOLEAN,
             SendData(n, peer[n], TRUE, ok)
      PROVE  Effect(n)
  <2>1. peer[n].j # 0 /\ Confirmed(peer[n])
    BY <1>3 DEF TypeInv, ClassKeyUnused, Connected, Confirmed
  <2>2. /\ peer' \in [Node -> PeerState]
        /\ peer'[Other(n)] = peer[Other(n)]
        /\ msgs' \in SUBSET (Hello0Msg \cup HelloMsg \cup DataMsg)
        /\ peer'[n].key = peer[n].key /\ peer'[n].i = peer[n].i
        /\ peer'[n].j = peer[n].j + 1
        /\ Sends(n)
    BY <1>1, <1>3, <2>1, SendDataEffect DEF TypeInv
  <2>3. Keeps(n)
    BY <1>1, <1>2, <2>1, <2>2 DEF Keeps
  <2> QED
    BY <1>2, <2>2, <2>3 DEF Effect, Logs
<1>4. ASSUME NEW ok \in BOOLEAN, SendHello0(n, peer[n], ok)
      PROVE  Effect(n)
  <2>1. /\ peer' \in [Node -> PeerState]
        /\ peer'[Other(n)] = peer[Other(n)]
        /\ msgs' \in SUBSET (Hello0Msg \cup HelloMsg \cup DataMsg)
        /\ peer'[n].key = peer[n].key /\ peer'[n].i = peer[n].i
        /\ peer'[n].j = peer[n].j /\ peer'[n].last = peer[n].last
        /\ Sends(n)
    BY <1>1, <1>4, SendHello0Effect DEF TypeInv
  <2>2. Keeps(n)
    BY <1>1, <1>2, <2>1 DEF Keeps, Confirmed, TypeInv, ClassKeyUnused
  <2> QED
    BY <1>2, <2>1, <2>2 DEF Effect, Logs
<1> QED
  BY <1>3, <1>4 DEF SendTo

\* A hello0 from a known peer makes the node open a session, at most.
LEMMA RecvHello0KnownEffect ==
  ASSUME TypeInv, NEW n \in Node, RecvHello0Known(n)
  PROVE  Effect(n)
<1>1. PICK m \in Inbox(n, "hello0"), s \in FreshSecrets(n), ok \in BOOLEAN :
        /\ Draw(n, s)
        /\ peer' = [peer EXCEPT ![n] = Open([@ EXCEPT !.cert = m.cert], s)]
        /\ msgs' = IF ok
                   THEN msgs \cup {[type |-> "hello", to |-> Other(n), key |-> s]}
                   ELSE msgs
  BY DEF RecvHello0Known
<1> DEFINE h == [type |-> "hello", to |-> Other(n), key |-> s]
           p == [peer[n] EXCEPT !.cert = m.cert]
<1>2. h \in HelloMsg /\ s \in Secret /\ h.type = "hello" /\ h.key = s /\ h.to = Other(n)
  BY OtherNode DEF HelloMsg, FreshSecrets
<1>3. p \in PeerState
  <2>1. m \in Hello0Msg
    BY DEF Inbox, TypeInv, TypeOK, HelloMsg, DataMsg
  <2>2. m.cert \in Cert
    BY <2>1 DEF Hello0Msg
  <2> QED
    BY <2>2, PeerFields DEF TypeInv, PeerState
<1>4. /\ Open(p, s) \in PeerState
      /\ Open(p, s).key = s /\ Open(p, s).j = 2 /\ Open(p, s).last = "never"
  BY <1>2, <1>3 DEF Open, PeerState, Last
<1> HIDE DEF p, h
<1>5. peer' = [peer EXCEPT ![n] = Open(p, s)]
  BY <1>1 DEF TypeInv, TypeOK, p
<1>6. /\ peer' \in [Node -> PeerState]
      /\ peer'[Other(n)] = peer[Other(n)]
      /\ peer'[n] = Open(p, s)
  BY <1>4, <1>5, OtherNode DEF TypeInv, TypeOK
<1>7. msgs' = msgs \/ msgs' = msgs \cup {h}
  BY <1>1 DEF h
<1>8. Opens(n)
  BY <1>1, <1>4, <1>6 DEF Opens, Draw
<1>9. Sends(n)
  BY <1>2, <1>4, <1>6, <1>7 DEF Sends
<1>10. msgs' \in SUBSET (Hello0Msg \cup HelloMsg \cup DataMsg)
  BY <1>2, <1>7 DEF TypeInv, TypeOK
<1>11. Logs(n)
  BY DEF Logs, RecvHello0Known
<1> QED
  BY <1>6, <1>8, <1>9, <1>10, <1>11 DEF Effect

\* A hello0 from an unknown peer creates the Peer object.
LEMMA RecvHello0UnknownEffect ==
  ASSUME TypeInv, NEW n \in Node, RecvHello0Unknown(n)
  PROVE  Effect(n)
<1>1. PICK m \in Inbox(n, "hello0"), ok \in BOOLEAN :
        SendHello0(n, [peer[n] EXCEPT !.cert = m.cert], ok)
  BY DEF RecvHello0Unknown
<1> DEFINE p == [peer[n] EXCEPT !.cert = m.cert]
<1>2. m.cert \in Cert
  <2>1. m \in Hello0Msg
    BY DEF Inbox, TypeInv, TypeOK, HelloMsg, DataMsg
  <2> QED
    BY <2>1 DEF Hello0Msg
<1>3. peer[n] \in PeerState /\ peer[n].i \in Nat /\ peer[n].j \in Nat
  BY PeerFields DEF TypeInv
<1>4. /\ p \in PeerState /\ p.key = peer[n].key /\ p.i = peer[n].i
      /\ p.j = peer[n].j /\ p.last = peer[n].last
  BY <1>2, <1>3 DEF PeerState
<1> HIDE DEF p
<1>5. /\ peer' \in [Node -> PeerState]
      /\ peer'[Other(n)] = peer[Other(n)]
      /\ msgs' \in SUBSET (Hello0Msg \cup HelloMsg \cup DataMsg)
      /\ peer'[n].key = p.key /\ peer'[n].i = p.i
      /\ peer'[n].j = p.j /\ peer'[n].last = p.last
      /\ Sends(n)
  <2>1. SendHello0(n, p, ok)
    BY <1>1 DEF p
  <2> QED
    BY <1>4, <2>1, SendHello0Effect DEF TypeInv
<1>6. Keeps(n)
  BY <1>3, <1>4, <1>5
     DEF Keeps, Confirmed, TypeInv, ClassKeyUnused, RecvHello0Unknown
<1> QED
  BY <1>5, <1>6 DEF Effect, Logs, RecvHello0Unknown

\* A hello is adopted only if it is newer.
LEMMA RecvHelloEffect ==
  ASSUME TypeInv, NEW n \in Node, RecvHello(n)
  PROVE  Effect(n)
<1>1. PICK m \in Inbox(n, "hello"), ok \in BOOLEAN :
        /\ Newer(m.key, peer[n])
        /\ SendData(n, Adopt(peer[n], m.key), TRUE, ok)
  BY DEF RecvHello
<1>2. m \in msgs /\ m.to = n /\ m.type # "hello0" /\ m.key \in Secret
  BY DEF Inbox, TypeInv, TypeOK, HelloMsg, DataMsg, Hello0Msg
<1> DEFINE p == Adopt(peer[n], m.key)
<1>3. p \in PeerState /\ p.key = m.key /\ p.j = 2
  <2>1. /\ peer[n] \in PeerState /\ m.key \in Secret /\ "heard" \in Last
    BY <1>2, PeerFields DEF TypeInv, Last
  <2> QED
    BY <2>1 DEF Adopt, PeerState
<1> HIDE DEF p
<1>4. /\ peer' \in [Node -> PeerState]
      /\ peer'[Other(n)] = peer[Other(n)]
      /\ msgs' \in SUBSET (Hello0Msg \cup HelloMsg \cup DataMsg)
      /\ peer'[n].key = p.key
      /\ peer'[n].j = p.j + 1
      /\ Sends(n)
  <2>1. SendData(n, p, TRUE, ok)
    BY <1>1 DEF p
  <2> QED
    BY <1>3, <2>1, SendDataEffect, 2 # 0 DEF TypeInv
<1>5. Adopts(n)
  BY <1>1, <1>2, <1>3, <1>4 DEF Adopts, Newer, Signed, RecvHello
<1> QED
  BY <1>4, <1>5 DEF Effect, Logs, RecvHello

\* A data message only moves the last '#' that was received.
LEMMA RecvDataEffect ==
  ASSUME TypeInv, NEW n \in Node, RecvData(n)
  PROVE  Effect(n)
<1> DEFINE P(m) == [peer[n] EXCEPT !.last = "heard", !.i = m.seq]
<1>1. PICK m \in Inbox(n, "data") :
        /\ Accepts(peer[n], m)
        /\ log' = [log EXCEPT ![n] = Append(@, <<m.key, m.seq>>)]
        /\ \/ \E answer, ok \in BOOLEAN : SendData(n, P(m), answer, ok)
           \/ peer' = [peer EXCEPT ![n] = P(m)] /\ UNCHANGED msgs
  BY DEF RecvData
<1>2. /\ m \in msgs /\ m.to = n /\ m.type = "data" /\ m.type # "hello0"
      /\ m.seq \in 3 .. MaxSeq /\ m.key = peer[n].key /\ m.seq > peer[n].i
  <2>1. m \in DataMsg
    BY DEF Inbox, TypeInv, TypeOK, HelloMsg, Hello0Msg
  <2>2. m.seq \in 3 .. MaxSeq
    BY <2>1 DEF DataMsg
  <2>3. peer[n].i < m.seq /\ m.key = peer[n].key /\ m \in msgs /\ m.to = n
        /\ m.type = "data"
    BY <1>1 DEF Accepts, Inbox
  <2>4. peer[n].i \in Nat /\ m.seq \in Nat
    BY <2>2, Bounds, PeerFields DEF TypeInv
  <2> QED
    BY <2>2, <2>3, <2>4
<1>3. /\ P(m) \in PeerState /\ P(m).key = peer[n].key /\ P(m).i = m.seq
      /\ P(m).j = peer[n].j
  <2>1. m.seq \in Seqno \cup {0, 2}
    BY <1>2, Bounds DEF Seqno
  <2> QED
    BY <1>2, <2>1, PeerFields DEF TypeInv, PeerState, Last
<1>4. peer[n].j # 0
  BY <1>2 DEF TypeInv, ClassKeyUnused, Signed
<1>5. peer[n].i \in Nat /\ peer[n].j \in Nat
  BY PeerFields DEF TypeInv
<1> HIDE DEF P
<1>6. /\ peer' \in [Node -> PeerState]
      /\ peer'[Other(n)] = peer[Other(n)]
      /\ msgs' \in SUBSET (Hello0Msg \cup HelloMsg \cup DataMsg)
      /\ peer'[n].key = peer[n].key /\ peer'[n].i = m.seq
      /\ peer'[n].j = peer[n].j \/ peer'[n].j = peer[n].j + 1
      /\ Sends(n)
  <2>1. CASE \E answer, ok \in BOOLEAN : SendData(n, P(m), answer, ok)
    BY <1>3, <1>4, <2>1, SendDataEffect DEF TypeInv
  <2>2. CASE peer' = [peer EXCEPT ![n] = P(m)] /\ UNCHANGED msgs
    BY <1>3, <2>2, OtherNode DEF TypeInv, TypeOK, Sends
  <2> QED
    BY <1>1, <2>1, <2>2
<1>7. Keeps(n)
  BY <1>2, <1>4, <1>5, <1>6, Bounds DEF Keeps, Signed, RecvData
<1>8. Logs(n)
  BY <1>1, <1>2, <1>6 DEF Logs
<1> QED
  BY <1>6, <1>7, <1>8 DEF Effect

\* The delay before another hello0 is not part of the session.
LEMMA HelloDelayOverEffect ==
  ASSUME TypeInv, NEW n \in Node, HelloDelayOver(n)
  PROVE  Effect(n)
<1>1. peer[n] \in PeerState /\ peer[n].i \in Nat /\ peer[n].j \in Nat
  BY PeerFields DEF TypeInv
<1>2. /\ peer' \in [Node -> PeerState]
      /\ peer'[Other(n)] = peer[Other(n)]
      /\ peer'[n].key = peer[n].key /\ peer'[n].i = peer[n].i
      /\ peer'[n].j = peer[n].j /\ peer'[n].last = peer[n].last
  BY <1>1, OtherNode DEF HelloDelayOver, TypeInv, TypeOK, PeerState
<1>3. Keeps(n)
  BY <1>1, <1>2
     DEF Keeps, Confirmed, TypeInv, ClassKeyUnused, HelloDelayOver
<1> QED
  BY <1>2, <1>3
     DEF Effect, Sends, Logs, HelloDelayOver, TypeInv, TypeOK

\* Nor is the delay before another answer.
LEMMA AnswerDelayOverEffect ==
  ASSUME TypeInv, NEW n \in Node, AnswerDelayOver(n)
  PROVE  Effect(n)
<1>1. peer[n] \in PeerState /\ peer[n].i \in Nat /\ peer[n].j \in Nat
  BY PeerFields DEF TypeInv
<1>2. /\ peer' \in [Node -> PeerState]
      /\ peer'[Other(n)] = peer[Other(n)]
      /\ peer'[n].key = peer[n].key /\ peer'[n].i = peer[n].i
      /\ peer'[n].j = peer[n].j
  BY <1>1, OtherNode DEF AnswerDelayOver, TypeInv, TypeOK, PeerState, Last
<1>3. Keeps(n)
  BY <1>1, <1>2
     DEF Keeps, Confirmed, TypeInv, ClassKeyUnused, AnswerDelayOver
<1> QED
  BY <1>2, <1>3
     DEF Effect, Sends, Logs, AnswerDelayOver, TypeInv, TypeOK

\* A restart replaces the Peer object by a new one.
LEMMA RestartEffect ==
  ASSUME TypeInv, NEW n \in Node, Restart(n)
  PROVE  Effect(n)
<1>1. PICK s \in FreshSecrets(n) :
        Draw(n, s) /\ peer' = [peer EXCEPT ![n] = NewPeer(s)]
  BY DEF Restart
<1>2. NewPeer(s) \in PeerState
  BY DEF NewPeer, PeerState, FreshSecrets, Last
<1>3. /\ peer' \in [Node -> PeerState]
      /\ peer'[Other(n)] = peer[Other(n)]
      /\ peer'[n] = NewPeer(s)
  BY <1>1, <1>2, OtherNode DEF TypeInv, TypeOK
<1>4. Opens(n)
  BY <1>1, <1>3 DEF Opens, Draw, NewPeer
<1> QED
  BY <1>3, <1>4 DEF Effect, Sends, Logs, Restart, TypeInv, TypeOK

\* Every step changes one Peer object, in one of the three ways.
LEMMA NextEffect ==
  ASSUME TypeInv, Next
  PROVE  \E n \in Node : Effect(n)
BY SendToEffect, RecvHello0KnownEffect, RecvHello0UnknownEffect,
   RecvHelloEffect, RecvDataEffect, HelloDelayOverEffect,
   AnswerDelayOverEffect, RestartEffect DEF Next

(***************************************************************************)
(* Type correctness, whatever the clocks.                                  *)
(***************************************************************************)
\* The types hold at the beginning.
LEMMA TypeInit == Init => TypeInv
<1> SUFFICES ASSUME Init
             PROVE  TypeInv
  OBVIOUS
<1>1. TypeOK
  <2>1. peer \in [Node -> PeerState]
    BY DEF Init, NewPeer, PeerState, Last
  <2>2. cert \in [Node -> Cert]
    BY Bounds DEF Init, Cert
  <2>3. drawn \in SUBSET Secret
    BY DEF Init
  <2>4. log \in [Node -> Seq(Secret \X Seqno)]
    BY DEF Init
  <2> QED
    BY <2>1, <2>2, <2>3, <2>4 DEF Init, TypeOK
<1>2. Signed = {}
  BY DEF Init, Signed
<1>3. KeysDrawn
  BY <1>2 DEF KeysDrawn, Init, NewPeer
<1>4. ClassKeyUnused
  BY <1>2, OtherNode DEF ClassKeyUnused, Init, NewPeer
<1> QED
  BY <1>1, <1>3, <1>4 DEF TypeInv

\* The types are preserved by any step.
LEMMA TypeStep ==
  ASSUME TypeInv, [Next]_vars
  PROVE  TypeInv'
<1>1. CASE UNCHANGED vars
  BY <1>1 DEF vars, TypeInv, TypeOK, KeysDrawn, ClassKeyUnused, Signed
<1>2. CASE Next
  <2>1. PICK n \in Node : Effect(n)
    BY <1>2, NextEffect
  <2>2. cert' \in [Node -> Cert] /\ own' \in [Node -> Secret]
    <3>1. ASSUME NEW k \in Node, NEW s \in FreshSecrets(k), Draw(k, s)
          PROVE  own' \in [Node -> Secret]
      BY <3>1 DEF Draw, FreshSecrets, TypeInv, TypeOK
    <3>2. ASSUME NEW k \in Node, Restart(k)
          PROVE  cert' \in [Node -> Cert] /\ own' \in [Node -> Secret]
      BY <3>1, <3>2 DEF Restart, TypeInv, TypeOK
    <3>3. ASSUME NEW k \in Node, RecvHello0Known(k)
          PROVE  cert' \in [Node -> Cert] /\ own' \in [Node -> Secret]
      BY <3>1, <3>3 DEF RecvHello0Known, TypeInv, TypeOK
    <3>4. ASSUME NEW k \in Node,
                 \/ SendTo(k) \/ RecvHello0Unknown(k) \/ RecvHello(k)
                 \/ RecvData(k) \/ HelloDelayOver(k) \/ AnswerDelayOver(k)
          PROVE  cert' = cert /\ own' = own
      BY <3>4 DEF SendTo, RecvHello0Unknown, RecvHello, RecvData,
                  HelloDelayOver, AnswerDelayOver
    <3> QED
      BY <1>2, <3>2, <3>3, <3>4 DEF Next, TypeInv, TypeOK
  <2>3. drawn' \in SUBSET Secret
    BY <2>1 DEF Effect, Keeps, Opens, Adopts, FreshSecrets, TypeInv, TypeOK
  <2>4. log' \in [Node -> Seq(Secret \X Seqno)]
    <3>1. ASSUME NEW m \in msgs, m.type = "data",
                 log' = [log EXCEPT ![n] = Append(@, <<m.key, m.seq>>)]
          PROVE  log' \in [Node -> Seq(Secret \X Seqno)]
      <4>1. m \in DataMsg
        BY <3>1 DEF TypeInv, TypeOK, HelloMsg, Hello0Msg
      <4>2. m.key \in Secret /\ m.seq \in Seqno
        BY <4>1, Bounds DEF DataMsg, Seqno
      <4> QED
        BY <3>1, <4>2 DEF TypeInv, TypeOK
    <3> QED
      BY <2>1, <3>1 DEF Effect, Logs, TypeInv, TypeOK
  <2>5. TypeOK'
    BY <2>1, <2>2, <2>3, <2>4 DEF Effect, TypeOK
  <2>6. KeysDrawn'
    BY <2>1, OtherNode
       DEF Effect, Keeps, Opens, Adopts, Sends, Signed, TypeInv, KeysDrawn
  <2>7. ClassKeyUnused'
    <3>1. /\ peer[n].key \in drawn /\ peer[Other(n)].key \in drawn
          /\ \A m \in Signed : m.key \in drawn
          /\ peer'[Other(n)] = peer[Other(n)]
          /\ \A m \in Signed' : m \in Signed \/ /\ m.key = peer'[n].key
                                                /\ peer'[n].j # 0
      BY <2>1, OtherNode DEF Effect, Sends, Signed, TypeInv, KeysDrawn
    <3>2. CASE Keeps(n)
      BY <3>1, <3>2, OtherNode DEF Keeps, TypeInv, ClassKeyUnused
    <3>3. CASE Opens(n)
      BY <3>1, <3>3, OtherNode DEF Opens, FreshSecrets, TypeInv, ClassKeyUnused
    <3>4. CASE Adopts(n)
      BY <3>1, <3>4, OtherNode DEF Adopts, TypeInv, ClassKeyUnused
    <3> QED
      BY <2>1, <3>2, <3>3, <3>4 DEF Effect
  <2> QED
    BY <2>5, <2>6, <2>7 DEF TypeInv
<1> QED
  BY <1>1, <1>2

\* Every reachable state is well typed: in particular no data message has a
\* '#' reserved for the hellos.
THEOREM TypeCorrect == Spec => []TypeOK
<1>1. TypeInv => TypeOK
  BY DEF TypeInv
<1> QED
  BY <1>1, TypeInit, TypeStep, PTL DEF Spec

(***************************************************************************)
(* The session, when the clocks agree.  The secret of an end is never      *)
(* behind what it signed (MsgsBehind), so an end that heard of the other   *)
(* cannot be ahead of it (ConfirmedBehind), and what an end accepted is    *)
(* never ahead of its current secret and '#' (LogBehind).                  *)
(***************************************************************************)
MsgsBehind == \A m \in Signed : m.key <= peer[Other(m.to)].key

ConfirmedBehind ==
  \A n \in Node : Confirmed(peer[n]) => peer[n].key <= peer[Other(n)].key

LogBehind ==
  \A n \in Node : \A x \in DOMAIN log[n] :
    \/ log[n][x][1] < peer[n].key
    \/ log[n][x][1] = peer[n].key /\ log[n][x][2] <= peer[n].i

SessionInv == /\ TypeInv
              /\ MsgsBehind
              /\ ConfirmedBehind
              /\ SeqnoUsedOnce
              /\ LogBehind
              /\ ProcessedInOrder

\* The fields of a message that are compared are numbers.
LEMMA SignedFields ==
  ASSUME TypeOK, NEW m \in Signed
  PROVE  m.to \in Node /\ m.key \in Nat /\ (m.type = "data" => m.seq \in Nat)
<1>1. m \in HelloMsg \/ m \in DataMsg
  BY DEF TypeOK, Signed, Hello0Msg
<1>2. CASE m \in HelloMsg
  BY <1>2 DEF HelloMsg, Secret
<1>3. CASE m \in DataMsg
  BY <1>3, Bounds DEF DataMsg, Secret
<1> QED
  BY <1>1, <1>2, <1>3

\* A secret drawn now is above all the secrets drawn before.
LEMMA FreshAbove ==
  ASSUME TypeOK, Synchronised, NEW n \in Node, NEW s \in FreshSecrets(n),
         NEW t \in drawn
  PROVE  t < s
BY DEF FreshSecrets, TypeOK, Secret

\* With clocks that agree, the secret of an end never goes down.
LEMMA KeyGrows ==
  ASSUME TypeInv, Synchronised, NEW n \in Node, Effect(n)
  PROVE  \A k \in Node : peer[k].key <= peer'[k].key
<1>1. peer[n].key <= peer'[n].key
  <2>1. CASE Keeps(n)
    BY <2>1, PeerFields DEF Keeps, TypeInv
  <2>2. CASE Opens(n)
    BY <2>2, PeerFields, FreshAbove DEF Opens, TypeInv, KeysDrawn, FreshSecrets, Secret
  <2>3. CASE Adopts(n)
    <3>1. peer'[n].key \in Nat
      BY <2>3, SignedFields DEF Adopts, TypeInv
    <3> QED
      BY <2>3, <3>1, PeerFields DEF Adopts, TypeInv
  <2> QED
    BY <2>1, <2>2, <2>3 DEF Effect
<1> QED
  BY <1>1, OtherNode, PeerFields DEF Effect, TypeInv

\* No message that was signed has a newer secret than the end that signed it.
LEMMA MsgsBehindStep ==
  ASSUME TypeInv, Synchronised, MsgsBehind, NEW n \in Node, Effect(n)
  PROVE  MsgsBehind'
<1> SUFFICES ASSUME NEW m \in Signed'
             PROVE  m.key <= peer'[Other(m.to)].key
  BY DEF MsgsBehind
<1>1. \A k \in Node : peer[k].key <= peer'[k].key /\ peer'[k].key \in Nat
  BY KeyGrows, PeerFields DEF Effect, PeerState, Secret
<1>2. CASE m \in Signed
  <2>1. m.to \in Node /\ m.key \in Nat /\ m.key <= peer[Other(m.to)].key
    BY <1>2, SignedFields DEF TypeInv, MsgsBehind
  <2> QED
    BY <1>1, <2>1, OtherNode, PeerFields DEF TypeInv
<1>3. CASE m \notin Signed
  <2>1. m.to = Other(n) /\ m.key = peer'[n].key
    BY <1>3 DEF Effect, Sends, Signed
  <2> QED
    BY <1>1, <2>1, OtherNode
<1> QED
  BY <1>2, <1>3

\* An end that is in session has a secret that is not newer than the one of
\* the other end.
LEMMA ConfirmedBehindStep ==
  ASSUME TypeInv, Synchronised, MsgsBehind, ConfirmedBehind,
         NEW n \in Node, Effect(n)
  PROVE  ConfirmedBehind'
<1>1. \A k \in Node : /\ peer[k].key <= peer'[k].key
                      /\ peer[k].key \in Nat /\ peer'[k].key \in Nat
  BY KeyGrows, PeerFields DEF Effect, PeerState, Secret, TypeInv
<1>2. Other(n) \in Node /\ Other(Other(n)) = n
      /\ peer'[Other(n)] = peer[Other(n)]
  BY OtherNode DEF Effect
<1>3. ASSUME Confirmed(peer'[n])
      PROVE  peer'[n].key <= peer'[Other(n)].key
  <2>1. ASSUME NEW m \in Signed, m.to = n, m.key = peer'[n].key
        PROVE  peer'[n].key <= peer'[Other(n)].key
    BY <1>2, <2>1 DEF MsgsBehind
  <2>2. CASE Keeps(n)
    BY <1>2, <1>3, <2>1, <2>2 DEF Keeps, ConfirmedBehind
  <2>3. CASE Opens(n)
    BY <1>3, <2>3 DEF Opens, Confirmed
  <2>4. CASE Adopts(n)
    BY <2>1, <2>4 DEF Adopts
  <2> QED
    BY <2>2, <2>3, <2>4 DEF Effect
<1>4. ASSUME Confirmed(peer'[Other(n)])
      PROVE  peer'[Other(n)].key <= peer'[n].key
  BY <1>1, <1>2, <1>4 DEF ConfirmedBehind
<1> QED
  BY <1>2, <1>3, <1>4, OtherNode DEF ConfirmedBehind

\* What an end signed with its secret has a '#' it already passed.
LEMMA SeqnoUsedOnceStep ==
  ASSUME TypeInv, Synchronised, MsgsBehind, SeqnoUsedOnce,
         NEW n \in Node, Effect(n)
  PROVE  SeqnoUsedOnce'
<1> SUFFICES ASSUME NEW k \in Node, NEW m \in msgs', m.type = "data",
                    m.to = Other(k), m.key = peer'[k].key
             PROVE  m.seq <= peer'[k].j
  BY DEF SeqnoUsedOnce
<1>1. /\ Other(n) \in Node /\ Other(Other(n)) = n /\ Other(n) # n
      /\ peer'[Other(n)] = peer[Other(n)] /\ k \in {n, Other(n)}
      /\ Other(k) \in Node /\ Other(Other(k)) = k
  BY OtherNode DEF Effect
<1>2. peer'[k].j \in Nat /\ peer[k].j \in Nat
      /\ peer'[k].key \in Nat /\ peer[k].key \in Nat
  BY PeerFields, Bounds DEF TypeInv, Effect, PeerState, Seqno, Secret
<1>3. CASE m \notin msgs
  BY <1>1, <1>2, <1>3 DEF Effect, Sends
<1>4. CASE m \in msgs
  <2>1. m \in Signed /\ m.seq \in Nat /\ m.key <= peer[k].key
    BY <1>1, <1>4, SignedFields DEF Signed, MsgsBehind, TypeInv
  <2>2. peer'[k].key = peer[k].key
    BY <1>2, <2>1, KeyGrows
  <2>3. m.seq <= peer[k].j
    BY <1>4, <2>2 DEF SeqnoUsedOnce
  <2>4. CASE k = n
    <3>1. ~Opens(n)
      BY <1>2, <2>2, <2>4, FreshAbove DEF Opens, TypeInv, KeysDrawn
    <3>2. Keeps(n)
      BY <1>2, <2>2, <2>4, <3>1 DEF Effect, Adopts
    <3> QED
      BY <1>2, <2>1, <2>3, <2>4, <3>2 DEF Keeps
  <2> QED
    BY <1>1, <2>3, <2>4
<1> QED
  BY <1>3, <1>4

\* The order in which data is accepted is transitive.
LEMMA LexTrans ==
  ASSUME NEW a \in Nat, NEW b \in Nat, NEW c \in Nat, NEW d \in Nat,
         NEW e \in Nat, NEW f \in Nat,
         a < c \/ (a = c /\ b <= d), c < e \/ (c = e /\ d <= f)
  PROVE  a < e \/ (a = e /\ b <= f)
OBVIOUS

\* What is processed is after everything that was processed before.
LEMMA LogStep ==
  ASSUME TypeInv, TypeOK', Synchronised, LogBehind, ProcessedInOrder,
         NEW n \in Node, Effect(n)
  PROVE  LogBehind' /\ ProcessedInOrder'
<1>1. \A k \in Node : /\ peer[k].key <= peer'[k].key
                      /\ peer[k].key \in Nat /\ peer'[k].key \in Nat
                      /\ peer[k].i \in Nat /\ peer'[k].i \in Nat
  BY KeyGrows, PeerFields, Bounds
     DEF Effect, PeerState, Seqno, Secret, TypeInv
<1>2. \A k \in Node : /\ log[k] \in Seq(Nat \X Nat)
                      /\ \A x \in DOMAIN log[k] : /\ log[k][x][1] \in Nat
                                                  /\ log[k][x][2] \in Nat
  <2>1. Secret \X Seqno \subseteq Nat \X Nat
    BY Bounds DEF Secret, Seqno
  <2>2. \A k \in Node : log[k] \in Seq(Secret \X Seqno)
    BY DEF TypeInv, TypeOK
  <2>3. ASSUME NEW k \in Node, NEW x \in DOMAIN log[k]
        PROVE  log[k][x] \in Nat \X Nat
    BY <2>1, <2>2
  <2>4. ASSUME NEW k \in Node
        PROVE  log[k] \in Seq(Nat \X Nat)
    BY <2>1, <2>2
  <2> QED
    BY <2>3, <2>4
\* What was logged stays behind the Peer object.
<1>3. ASSUME NEW k \in Node, NEW x \in DOMAIN log[k]
      PROVE  \/ log[k][x][1] < peer'[k].key
             \/ log[k][x][1] = peer'[k].key /\ log[k][x][2] <= peer'[k].i
  <2>1. \/ log[k][x][1] < peer[k].key
        \/ log[k][x][1] = peer[k].key /\ log[k][x][2] <= peer[k].i
    BY DEF LogBehind
  <2>2. \/ peer[k].key < peer'[k].key
        \/ peer[k].key = peer'[k].key /\ peer[k].i <= peer'[k].i
    <3>1. CASE k # n
      BY <1>1, <3>1, OtherNode DEF Effect
    <3>2. CASE k = n /\ Keeps(n)
      BY <3>2 DEF Keeps
    <3>3. CASE k = n /\ Opens(n)
      BY <1>1, <3>3, FreshAbove DEF Opens, TypeInv, KeysDrawn
    <3>4. CASE k = n /\ Adopts(n)
      BY <1>1, <3>4 DEF Adopts
    <3> QED
      BY <3>1, <3>2, <3>3, <3>4 DEF Effect
  <2>3. log[k][x][1] \in Nat /\ log[k][x][2] \in Nat
    BY <1>2
  <2> QED
    BY ONLY <1>1, <2>1, <2>2, <2>3, LexTrans, k \in Node
<1>4. CASE log' = log
  BY <1>3, <1>4 DEF LogBehind, ProcessedInOrder
<1>5. ASSUME NEW m \in msgs,
             m.key = peer[n].key, m.seq > peer[n].i,
             peer'[n].key = m.key, peer'[n].i = m.seq,
             log' = [log EXCEPT ![n] = Append(@, <<m.key, m.seq>>)]
      PROVE  LogBehind' /\ ProcessedInOrder'
  <2> DEFINE last == Len(log[n]) + 1
  <2>1. /\ \A k \in Node \ {n} : log'[k] = log[k]
        /\ log'[n] = Append(log[n], <<m.key, m.seq>>)
    BY <1>5 DEF TypeInv, TypeOK
  <2>2. /\ Len(log[n]) \in Nat
        /\ DOMAIN log[n] = 1 .. Len(log[n])
        /\ DOMAIN log'[n] = 1 .. last
        /\ \A x \in DOMAIN log[n] : log'[n][x] = log[n][x]
        /\ log'[n][last] = <<m.key, m.seq>>
    BY SMTT(30), <1>1, <1>2, <1>5, <2>1
  <2>3. LogBehind'
    <3> SUFFICES ASSUME NEW k \in Node, NEW x \in DOMAIN log'[k]
                 PROVE  \/ log'[k][x][1] < peer'[k].key
                        \/ log'[k][x][1] = peer'[k].key
                           /\ log'[k][x][2] <= peer'[k].i
      BY DEF LogBehind
    <3>1. CASE k # n
      BY <1>3, <2>1, <3>1
    <3>2. CASE k = n /\ x \in DOMAIN log[n]
      BY <1>3, <2>2, <3>2
    <3>3. CASE k = n /\ x = last
      BY <1>1, <1>5, <2>2, <3>3
    <3> QED
      BY <2>2, <3>1, <3>2, <3>3
  <2>4. ProcessedInOrder'
    <3> SUFFICES ASSUME NEW k \in Node, NEW x \in DOMAIN log'[k],
                        NEW y \in DOMAIN log'[k], x < y
                 PROVE  Before(log'[k][x], log'[k][y])
      BY DEF ProcessedInOrder
    <3>1. CASE k # n
      BY <2>1, <3>1 DEF ProcessedInOrder
    <3>2. CASE k = n /\ y \in DOMAIN log[n]
      BY SMTT(30), <2>2, <3>2 DEF ProcessedInOrder
    <3>3. CASE k = n /\ y = last
      <4>1. x \in DOMAIN log[n]
        BY <2>2, <3>3
      <4>2. \/ log[n][x][1] < m.key
            \/ log[n][x][1] = m.key /\ log[n][x][2] < m.seq
        <5>1. \/ log[n][x][1] < peer[n].key
              \/ log[n][x][1] = peer[n].key /\ log[n][x][2] <= peer[n].i
          BY <4>1 DEF LogBehind
        <5>2. log[n][x][1] \in Nat /\ log[n][x][2] \in Nat
          BY <1>2, <4>1
        <5> QED
          BY <1>1, <1>5, <5>1, <5>2
      <4> QED
        BY <2>2, <3>3, <4>1, <4>2 DEF Before
    <3> QED
      BY <2>2, <3>1, <3>2, <3>3
  <2> QED
    BY <2>3, <2>4
<1> QED
  BY <1>4, <1>5 DEF Effect, Logs

\* The invariant holds at the beginning.
LEMMA SessionInit == Init => SessionInv
<1> SUFFICES ASSUME Init
             PROVE  SessionInv
  OBVIOUS
<1>1. msgs = {} /\ Signed = {} /\ \A n \in Node : log[n] = <<>>
  BY DEF Init, Signed
<1>2. \A n \in Node : ~Confirmed(peer[n])
  BY DEF Init, NewPeer, Confirmed
<1> QED
  BY <1>1, <1>2, TypeInit
     DEF SessionInv, MsgsBehind, ConfirmedBehind, SeqnoUsedOnce, LogBehind,
         ProcessedInOrder

\* The invariant is preserved by any step if the clocks agree.
LEMMA SessionStep ==
  ASSUME SessionInv, Synchronised, [Next]_vars
  PROVE  SessionInv'
<1>1. TypeInv'
  BY TypeStep DEF SessionInv
<1>2. CASE UNCHANGED vars
  BY <1>1, <1>2
     DEF vars, SessionInv, MsgsBehind, ConfirmedBehind, SeqnoUsedOnce,
         LogBehind, ProcessedInOrder, Signed
<1>3. CASE Next
  <2>1. PICK n \in Node : Effect(n)
    BY <1>3, NextEffect DEF SessionInv
  <2>2. MsgsBehind' /\ ConfirmedBehind' /\ SeqnoUsedOnce'
    BY <2>1, MsgsBehindStep, ConfirmedBehindStep, SeqnoUsedOnceStep
       DEF SessionInv
  <2>3. LogBehind' /\ ProcessedInOrder'
    BY <1>1, <2>1, LogStep DEF SessionInv, TypeInv
  <2> QED
    BY <1>1, <2>2, <2>3 DEF SessionInv
<1> QED
  BY <1>2, <1>3

\* The invariant holds if the clocks agree.
LEMMA SessionCorrect ==
  ASSUME Synchronised
  PROVE  Spec => []SessionInv
<1>1. SessionInv /\ [Next]_vars => SessionInv'
  BY SessionStep
<1>2. Init => SessionInv
  BY SessionInit
<1> QED
  BY <1>1, <1>2, PTL DEF Spec

\* With clocks that agree, no datagram is processed twice or after a newer
\* one, across losses, duplicates, new sessions and restarts.
THEOREM InOrder ==
  ASSUME Synchronised
  PROVE  Spec => []ProcessedInOrder
<1>1. SessionInv => ProcessedInOrder
  BY DEF SessionInv
<1> QED
  BY <1>1, SessionCorrect, PTL

\* With clocks that agree, no '#' is used twice with the same secret.
THEOREM UsedOnce ==
  ASSUME Synchronised
  PROVE  Spec => []SeqnoUsedOnce
<1>1. SessionInv => SeqnoUsedOnce
  BY DEF SessionInv
<1> QED
  BY <1>1, SessionCorrect, PTL

\* With clocks that agree, sequence numbers do what they are for.
THEOREM NumbersKeptInOrder ==
  ASSUME Synchronised
  PROVE  Spec => []NumbersInOrder
<1>1. TypeOK /\ ProcessedInOrder /\ SeqnoUsedOnce => NumbersInOrder
  BY DEF NumbersInOrder
<1> QED
  BY <1>1, TypeCorrect, InOrder, UsedOnce, PTL

\* With clocks that agree, two ends that both heard of each other have the
\* same secret.
THEOREM Agreement ==
  ASSUME Synchronised
  PROVE  Spec => []SessionsAgree
<1>1. ASSUME SessionInv
      PROVE  SessionsAgree
  <2> SUFFICES ASSUME NEW m \in Node, NEW n \in Node,
                      Confirmed(peer[m]), Confirmed(peer[n])
               PROVE  peer[m].key = peer[n].key
    BY DEF SessionsAgree
  <2>1. peer[m].key \in Nat /\ peer[n].key \in Nat
    BY <1>1, PeerFields DEF SessionInv, TypeInv
  <2>2. m = n \/ (m = Other(n) /\ n = Other(m))
    BY OtherNode
  <2> QED
    BY <1>1, <2>1, <2>2 DEF SessionInv, ConfirmedBehind
<1> QED
  BY <1>1, SessionCorrect, PTL

\* With clocks that agree, no step takes an end back to an older secret.
THEOREM Increase ==
  ASSUME Synchronised
  PROVE  Spec => SecretsIncrease
<1>1. ASSUME SessionInv, Next
      PROVE  \A n \in Node : peer'[n].key >= peer[n].key
  <2>1. PICK k \in Node : Effect(k)
    BY <1>1, NextEffect DEF SessionInv
  <2> QED
    BY <1>1, <2>1, KeyGrows, PeerFields
       DEF SessionInv, Effect, PeerState, Secret, TypeInv
<1>2. SessionInv /\ [Next]_vars
        => [\A n \in Node : peer'[n].key >= peer[n].key]_vars
  BY <1>1
<1> QED
  BY <1>2, SessionCorrect, PTL DEF Spec, SecretsIncrease
=============================================================================
