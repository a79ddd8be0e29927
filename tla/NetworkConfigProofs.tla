------------------------ MODULE NetworkConfigProofs ------------------------
(***************************************************************************)
(* Proofs about NetworkConfig, for any nodes, any tunnels and any number   *)
(* of rotations; and, in a second part, about NodeProcess.                 *)
(*                                                                         *)
(* The three keys of the registry are in one of five positions (KeysInv).  *)
(* A configuration that a node has with the current version is the one     *)
(* that is served (CurrentInv), and one of the previous version goes with  *)
(* the one that is served (PreviousInv): hence configurations of two       *)
(* successive versions, however old, go together (ChainInv).               *)
(***************************************************************************)
EXTENDS NetworkConfig, NodeProcess, FiniteSetTheorems, TLAPS

\* Nodes that use c and d accept the packets of each other.
Together(c, d) == Takes(c, d.sign) /\ Takes(d, c.sign)

\* What nodes use or will use after they start again.
Used == {node[n].conf : n \in Node} \cup {node[n].running : n \in Node}

\* The positions of the keys in a rotation, in their order but for the first
\* two that a network without keys goes through.
NoKeys == \A i \in Slot : hmac[i] = NoKey
First  == hmac[0] = NoKey /\ hmac[1] \in Key /\ hmac[2] = EmptyKey
Single == hmac[0] \in Key /\ hmac[1] = NoKey /\ hmac[2] = NoKey
Added  == hmac[0] \in Key /\ hmac[1] \in Key /\ hmac[2] = NoKey
Moved  == hmac[0] = NoKey /\ hmac[1] \in Key /\ hmac[2] \in Key

KeysInv ==
  /\ NoKeys \/ First \/ Single \/ Added \/ Moved
  /\ drawn <= version + 1

CurrentInv ==
  \A c \in Used : /\ c.version <= version
                  /\ c.version = version => Answers /\ c = Served

PreviousInv ==
  \A c \in Used : c.version + 1 = version /\ Answers => Together(c, Served)

ChainInv ==
  \A c, d \in Used : /\ c.version = d.version => c = d
                     /\ d.version = c.version + 1 => Together(c, d)

IInv == TypeOK /\ KeysInv /\ CurrentInv /\ PreviousInv /\ ChainInv

-----------------------------------------------------------------------------
LEMMA Slots == Slot = {0, 1, 2}
BY DEF Slot

\* The values of the constants are not mixed up.
LEMMA KeyNames ==
  /\ NoKey \notin Key /\ EmptyKey \notin Key /\ NoKey # EmptyKey
  /\ Key \subseteq Nat
  /\ \A k \in Key : IsKey(k)
  /\ ~IsKey(NoKey) /\ ~IsKey(EmptyKey)
BY Names, Bound DEF Key, IsKey

LEMMA FirstOf ==
  ASSUME NEW h, NEW S \in SUBSET Slot, NEW i \in S, \A j \in S : i <= j
  PROVE  Nth(h, S) = h[i]
<1> DEFINE m == CHOOSE x \in S : \A j \in S : x <= j
<1>1. m \in S /\ \A j \in S : m <= j
  OBVIOUS
<1> HIDE DEF m
<1>2. m \in Nat /\ i \in Nat
  BY <1>1 DEF Slot
<1>3. m = i
  BY <1>1, <1>2
<1> QED
  BY <1>3 DEF Nth, m

\* What is served in each position.
LEMMA ServedKeys ==
  ASSUME TypeOK
  PROVE  /\ NoKeys => Answers /\ Sign(hmac) = NoKey /\ Accept(hmac) = NoKey
         /\ First => ~Answers
         /\ Single => Answers /\ Sign(hmac) = hmac[0] /\ Accept(hmac) = NoKey
         /\ Added => Answers /\ Sign(hmac) = hmac[0] /\ Accept(hmac) = hmac[1]
         /\ Moved => Answers /\ Sign(hmac) = hmac[1] /\ Accept(hmac) = hmac[2]
<1> DEFINE P == Present(hmac)
           Q == {i \in P : \E j \in P : j < i}
<1>0. P \subseteq Slot /\ Q \subseteq Slot
  BY DEF Present
<1>1. ASSUME NoKeys
      PROVE  Answers /\ Sign(hmac) = NoKey /\ Accept(hmac) = NoKey
  <2>1. P = {} /\ Q = {}
    BY <1>1 DEF NoKeys, Present
  <2> QED
    BY <1>1, <2>1, Slots, KeyNames DEF Sign, Accept, Nth, Answers, NoKeys
<1>2. ASSUME First PROVE ~Answers
  BY <1>2, Slots DEF First, Answers
<1>3. ASSUME Single
      PROVE  Answers /\ Sign(hmac) = hmac[0] /\ Accept(hmac) = NoKey
  <2>1. P = {0}
    BY <1>3, Slots, KeyNames DEF Single, Present
  <2>2. Q = {}
    BY <2>1
  <2>3. Answers
    BY <1>3, <2>1, Slots, KeyNames DEF Single, Answers
  <2>4. Sign(hmac) = hmac[0]
    BY <1>0, <2>1, FirstOf DEF Sign
  <2> QED
    BY <2>2, <2>3, <2>4 DEF Accept, Nth
<1>4. ASSUME Added
      PROVE  Answers /\ Sign(hmac) = hmac[0] /\ Accept(hmac) = hmac[1]
  <2>1. P = {0, 1}
    BY <1>4, Slots, KeyNames DEF Added, Present
  <2>2. Q = {1}
    BY <2>1
  <2>3. Answers
    BY <1>4, <2>1, Slots, KeyNames DEF Added, Answers
  <2>4. Sign(hmac) = hmac[0]
    BY <1>0, <2>1, FirstOf DEF Sign
  <2>5. Nth(hmac, Q) = hmac[1]
    BY <1>0, <2>2, FirstOf
  <2> QED
    BY <2>3, <2>4, <2>5 DEF Accept
<1>5. ASSUME Moved
      PROVE  Answers /\ Sign(hmac) = hmac[1] /\ Accept(hmac) = hmac[2]
  <2>1. P = {1, 2}
    BY <1>5, Slots, KeyNames DEF Moved, Present
  <2>2. Q = {2}
    BY <2>1
  <2>3. Answers
    BY <1>5, <2>1, Slots, KeyNames DEF Moved, Answers
  <2>4. Sign(hmac) = hmac[1]
    BY <1>0, <2>1, FirstOf DEF Sign
  <2>5. Nth(hmac, Q) = hmac[2]
    BY <1>0, <2>2, FirstOf
  <2> QED
    BY <2>3, <2>4, <2>5 DEF Accept
<1> QED
  BY <1>1, <1>2, <1>3, <1>4, <1>5

KeysServed ==
  /\ NoKeys => Answers /\ Sign(hmac) = NoKey /\ Accept(hmac) = NoKey
  /\ First => ~Answers
  /\ Single => Answers /\ Sign(hmac) = hmac[0] /\ Accept(hmac) = NoKey
  /\ Added => Answers /\ Sign(hmac) = hmac[0] /\ Accept(hmac) = hmac[1]
  /\ Moved => Answers /\ Sign(hmac) = hmac[1] /\ Accept(hmac) = hmac[2]

LEMMA ServedKeysPrime == TypeOK' => KeysServed'
<1>1. TypeOK => KeysServed
  BY ServedKeys DEF KeysServed
<1> QED
  BY <1>1, PTL

\* Whoever asks the registry gets a configuration of the right type.
LEMMA ServedType == IInv /\ Answers => Served \in Config
<1> SUFFICES ASSUME IInv, Answers PROVE Served \in Config
  OBVIOUS
<1>1. TypeOK /\ version \in Version /\ limited \in BOOLEAN
  BY DEF IInv, TypeOK
<1>2. ~First
  BY <1>1, ServedKeys
<1>3. Sign(hmac) \in Key \cup {NoKey} /\ Accept(hmac) \in Key \cup {NoKey}
  BY <1>1, <1>2, ServedKeys DEF IInv, KeysInv, Single, Added, Moved
<1> QED
  BY <1>1, <1>3 DEF Served, Config

LEMMA UsedType ==
  ASSUME TypeOK
  PROVE  Used \subseteq Config
BY DEF TypeOK, NodeState, Used

\* Two nodes with the same configuration accept each other.
LEMMA SameTogether ==
  ASSUME NEW c
  PROVE  Together(c, c)
BY DEF Together, Takes

-----------------------------------------------------------------------------
\* A rotation: the keys that are served before and after it go together.
LEMMA RotateInv ==
  ASSUME IInv, UpdateHMAC
  PROVE  IInv'
<1>1. /\ TypeOK /\ version \in Nat /\ drawn \in Nat /\ drawn <= version + 1
      /\ version < MaxVersion /\ MaxVersion \in Nat
      /\ hmac \in [Slot -> Key \cup {NoKey, EmptyKey}]
      /\ node \in [Node -> NodeState]
  BY Bound DEF IInv, KeysInv, TypeOK, Version, UpdateHMAC
<1>2. /\ hmac' = Rotate(hmac, drawn + 1) /\ version' = version + 1
      /\ drawn' = IF Draws(hmac) THEN drawn + 1 ELSE drawn
      /\ limited' \in BOOLEAN
      /\ node' = [node EXCEPT ![Root].heard = TRUE]
  BY DEF UpdateHMAC, Limits
<1>3. drawn + 1 \in Key
  BY <1>1 DEF Key
<1>4. /\ NoKeys => First'
      /\ First => Single'
      /\ Single => Added' /\ hmac'[0] = hmac[0]
      /\ Added => Moved' /\ hmac'[1] = hmac[1] /\ hmac'[2] = hmac[0]
      /\ Moved => Single' /\ hmac'[0] = hmac[1]
  <2> USE Slots, KeyNames, <1>1, <1>2, <1>3
  <2>1. NoKeys => First'
    BY DEF NoKeys, First, Rotate
  <2>2. First => Single'
    BY DEF First, Single, Rotate
  <2>3. Single => Added' /\ hmac'[0] = hmac[0]
    BY DEF Single, Added, Rotate
  <2>4. Added => Moved' /\ hmac'[1] = hmac[1] /\ hmac'[2] = hmac[0]
    BY DEF Added, Moved, Rotate
  <2>5. Moved => Single' /\ hmac'[0] = hmac[1]
    BY DEF Moved, Single, Rotate
  <2> QED
    BY <2>1, <2>2, <2>3, <2>4, <2>5
<1>5. NoKeys \/ First \/ Single \/ Added \/ Moved
  BY DEF IInv, KeysInv
<1>6. TypeOK'
  <2>1. hmac' \in [Slot -> Key \cup {NoKey, EmptyKey}]
    <3>1. /\ hmac[0] \in Key \cup {NoKey, EmptyKey}
          /\ hmac[1] \in Key \cup {NoKey, EmptyKey}
      BY <1>1, Slots
    <3> QED
      BY <1>1, <1>2, <1>3, <3>1 DEF Rotate
  <2>2. drawn' \in 0 .. MaxVersion + 1 /\ version' \in Version
    BY <1>1, <1>2 DEF Version
  <2>3. node' \in [Node -> NodeState]
    BY <1>1, <1>2 DEF NodeState
  <2> QED
    BY <1>2, <2>1, <2>2, <2>3 DEF TypeOK
<1>7. KeysInv'
  BY <1>1, <1>2, <1>4, <1>5 DEF KeysInv, Draws
<1>8. ASSUME NEW n \in Node
      PROVE  node'[n].conf = node[n].conf /\ node'[n].running = node[n].running
  BY <1>1, <1>2 DEF NodeState
<1>9. Used' = Used
  BY <1>8 DEF Used
<1>10. ASSUME NEW c \in Used
       PROVE  c.version \in Nat /\ c.version <= version
              /\ (c.version = version => Answers /\ c = Served)
  BY <1>1, UsedType DEF IInv, CurrentInv, Config, Version
<1>11. CurrentInv'
  BY <1>1, <1>2, <1>9, <1>10 DEF CurrentInv
<1>12. ASSUME NEW c \in Used, c.version = version, Answers'
       PROVE  Together(c, Served')
  <2>1. /\ Answers /\ c = Served /\ c.sign = Sign(hmac)
        /\ c.accept = Accept(hmac)
    BY <1>10, <1>12 DEF Served
  <2>2. Served'.sign = Sign(hmac)' /\ Served'.accept = Accept(hmac)'
    BY DEF Served
  <2>3. ~First /\ ~First'
    BY <1>1, <1>6, <1>12, <2>1, ServedKeys, ServedKeysPrime
       DEF KeysServed
  <2>4. CASE Single
    BY <1>1, <1>4, <1>6, <2>1, <2>2, <2>4, ServedKeys, ServedKeysPrime, KeyNames
       DEF KeysServed, Together, Takes, Single
  <2>5. CASE Added
    BY <1>1, <1>4, <1>6, <2>1, <2>2, <2>5, ServedKeys, ServedKeysPrime, KeyNames
       DEF KeysServed, Together, Takes, Added
  <2>6. CASE Moved
    BY <1>1, <1>4, <1>6, <2>1, <2>2, <2>6, ServedKeys, ServedKeysPrime, KeyNames
       DEF KeysServed, Together, Takes, Moved
  <2> QED
    BY <1>4, <1>5, <2>3, <2>4, <2>5, <2>6
<1>13. PreviousInv'
  <2> SUFFICES ASSUME NEW c \in Used, c.version + 1 = version + 1, Answers'
               PROVE  Together(c, Served')
    BY <1>2, <1>9 DEF PreviousInv, Together, Takes
  <2>1. c.version = version
    BY <1>1, <1>10
  <2> QED
    BY <1>12, <2>1
<1>14. ChainInv'
  BY <1>9 DEF IInv, ChainInv, Together, Takes
<1> QED
  BY <1>6, <1>7, <1>11, <1>13, <1>14 DEF IInv

-----------------------------------------------------------------------------
\* A step of nodes: what they use then is what they used or what is served.
LEMMA NodesInv ==
  ASSUME IInv, UNCHANGED registry, node' \in [Node -> NodeState],
         Used' \subseteq Used \/ (Answers /\ Used' \subseteq Used \cup {Served})
  PROVE  IInv'
<1>1. /\ hmac' = hmac /\ drawn' = drawn /\ version' = version
      /\ limited' = limited
  BY DEF registry
<1>2. TypeOK' /\ KeysInv'
  BY <1>1 DEF IInv, TypeOK, KeysInv, NoKeys, First, Single, Added, Moved
<1>3. (Answers' <=> Answers) /\ Served' = Served
  BY <1>1 DEF Answers, Served, Present, Sign, Accept, Nth
<1>4. version \in Nat /\ Served.version = version
  BY Bound DEF IInv, TypeOK, Version, Served
<1>5. \A c, d : Together(c, d) => Together(d, c)
  BY DEF Together
<1>6. ASSUME NEW c \in Used'
      PROVE  /\ c.version <= version
             /\ c.version = version => Answers /\ c = Served
             /\ c.version + 1 = version /\ Answers => Together(c, Served)
  <2>1. CASE c \in Used
    BY <2>1 DEF IInv, CurrentInv, PreviousInv
  <2>2. CASE c = Served /\ Answers
    BY <1>4, <2>2
  <2> QED
    BY <1>6, <2>1, <2>2
<1>7. ASSUME NEW c \in Used', NEW d \in Used'
      PROVE  /\ c.version = d.version => c = d
             /\ d.version = c.version + 1 => Together(c, d)
  <2>1. CASE c \in Used /\ d \in Used
    BY <2>1 DEF IInv, ChainInv
  <2>2. CASE c = Served /\ Answers
    <3>1. d.version <= version
      BY <1>6
    <3> QED
      BY <1>4, <1>6, <2>2, <3>1
  <2>3. CASE d = Served /\ Answers
    BY <1>4, <1>6, <2>3
  <2> QED
    BY <2>1, <2>2, <2>3
<1>8. CurrentInv' /\ PreviousInv' /\ ChainInv'
  BY <1>1, <1>3, <1>6, <1>7 DEF CurrentInv, PreviousInv, ChainInv, Together, Takes
<1> QED
  BY <1>2, <1>8 DEF IInv

\* The new state of one node.
LEMMA OneNode ==
  ASSUME IInv, UNCHANGED registry, NEW n \in Node, NEW s \in NodeState,
         node' = [node EXCEPT ![n] = s],
         \A c \in {s.conf, s.running} :
           c \in {node[n].conf, node[n].running} \/ (Answers /\ c = Served)
  PROVE  IInv'
<1>1. node \in [Node -> NodeState]
  BY DEF IInv, TypeOK
<1>2. node' \in [Node -> NodeState]
  BY <1>1
<1>3. ASSUME NEW c \in Used'
      PROVE  c \in Used \/ (Answers /\ c = Served)
  <2>1. PICK m \in Node : c = node'[m].conf \/ c = node'[m].running
    BY <1>3 DEF Used
  <2>2. CASE m # n
    BY <1>1, <2>1, <2>2 DEF Used
  <2>3. CASE m = n
    BY <1>1, <2>1, <2>3 DEF Used
  <2> QED
    BY <2>2, <2>3
<1>4. Used' \subseteq Used \/ (Answers /\ Used' \subseteq Used \cup {Served})
  BY <1>3
<1> QED
  BY <1>2, <1>4, NodesInv

LEMMA NodeStep ==
  ASSUME IInv, NEW n \in Node,
         Hear(n) \/ NewVersion(n) \/ CheckNetconf(n) \/ Start(n)
  PROVE  IInv'
<1>1. /\ node \in [Node -> NodeState] /\ node[n] \in NodeState
      /\ node[n].conf \in Config /\ node[n].running \in Config
      /\ UNCHANGED registry
  BY DEF IInv, TypeOK, NodeState, Hear, NewVersion, CheckNetconf, Start
<1>2. CASE Hear(n)
  <2> DEFINE s == [node[n] EXCEPT !.heard = TRUE]
  <2>1. /\ s \in NodeState /\ s.conf = node[n].conf
        /\ s.running = node[n].running
    BY <1>1 DEF NodeState
  <2>2. node' = [node EXCEPT ![n] = s]
    BY <1>2 DEF Hear
  <2> QED
    BY <1>1, <2>1, <2>2, OneNode
<1>3. CASE NewVersion(n)
  <2> DEFINE s == [node[n] EXCEPT !.heard = FALSE, !.conf = Served]
  <2>1. Answers /\ Served \in Config
    BY <1>3, ServedType DEF NewVersion
  <2>2. s \in NodeState /\ s.conf = Served /\ s.running = node[n].running
    BY <1>1, <2>1 DEF NodeState
  <2>3. node' = [node EXCEPT ![n] = s]
    BY <1>3 DEF NewVersion
  <2> QED
    BY <1>1, <2>1, <2>2, <2>3, OneNode
<1>4. CASE CheckNetconf(n)
  <2>1. CASE MaybeOld(n, node[n].conf) /\ node[n].maybeOld
    <3> DEFINE s == [node[n] EXCEPT !.heard = FALSE, !.conf = Served,
                                    !.maybeOld = MaybeOld(n, Served)]
    <3>1. Answers /\ Served \in Config
      BY <1>4, <2>1, ServedType DEF CheckNetconf
    <3>2. MaybeOld(n, Served) \in BOOLEAN
      BY DEF MaybeOld, LoadedLimit
    <3>3. s \in NodeState /\ s.conf = Served /\ s.running = node[n].running
      BY <1>1, <3>1, <3>2 DEF NodeState
    <3>4. node' = [node EXCEPT ![n] = s]
      BY <1>4, <2>1 DEF CheckNetconf
    <3> QED
      BY <1>1, <3>1, <3>3, <3>4, OneNode
  <2>2. CASE ~(MaybeOld(n, node[n].conf) /\ node[n].maybeOld)
    <3> DEFINE s == [node[n] EXCEPT !.maybeOld = MaybeOld(n, node[n].conf)]
    <3>1. MaybeOld(n, node[n].conf) \in BOOLEAN
      BY DEF MaybeOld, LoadedLimit
    <3>2. /\ s \in NodeState /\ s.conf = node[n].conf
          /\ s.running = node[n].running
      BY <1>1, <3>1 DEF NodeState
    <3>3. node' = [node EXCEPT ![n] = s]
      BY <1>4, <2>2 DEF CheckNetconf
    <3> QED
      BY <1>1, <3>2, <3>3, OneNode
  <2> QED
    BY <2>1, <2>2
<1>5. CASE Start(n)
  <2> DEFINE c == IF n = Root /\ Answers THEN Served ELSE node[n].conf
             s == Started(c)
  <2>1. c \in Config /\ (c = node[n].conf \/ (Answers /\ c = Served))
    BY <1>1, ServedType
  <2>2. s \in NodeState /\ s.conf = c /\ s.running = c
    BY <2>1 DEF Started, NodeState, LoadedLimit
  <2>3. node' = [node EXCEPT ![n] = s]
    BY <1>5 DEF Start
  <2> HIDE DEF c, s
  <2> QED
    BY <1>1, <2>1, <2>2, <2>3, OneNode
<1> QED
  BY <1>2, <1>3, <1>4, <1>5

LEMMA InvInit == Init => IInv
<1> SUFFICES ASSUME Init PROVE IInv
  OBVIOUS
<1>1. NoKeys \/ Single
  BY Slots, KeyNames, Bound DEF Init, NoKeys, Single, Key
<1>2. /\ hmac \in [Slot -> Key \cup {NoKey, EmptyKey}]
      /\ drawn \in 0 .. 1 /\ version = 0 /\ limited = FALSE
      /\ node = [n \in Node |-> Started(Served)]
  BY Slots, Bound DEF Init, Key
<1>3. /\ Answers /\ Sign(hmac) \in Key \cup {NoKey}
      /\ Accept(hmac) \in Key \cup {NoKey}
  <2>1. CASE NoKeys
    <3>1. Present(hmac) = {}
      BY <2>1 DEF NoKeys, Present
    <3> QED
      BY <2>1, <3>1, Slots, KeyNames DEF NoKeys, Sign, Accept, Nth, Answers
  <2>2. CASE Single
    <3>1. Present(hmac) = {0}
      BY <2>2, Slots, KeyNames DEF Single, Present
    <3>2. {i \in Present(hmac) : \E j \in Present(hmac) : j < i} = {}
      BY <3>1
    <3>3. Sign(hmac) = hmac[0]
      BY <3>1, Slots, FirstOf DEF Sign
    <3> QED
      BY <2>2, <3>1, <3>2, <3>3, Slots, KeyNames
         DEF Single, Accept, Nth, Answers
  <2> QED
    BY <1>1, <2>1, <2>2
<1>4. version \in Version /\ drawn \in 0 .. MaxVersion + 1
  BY <1>2, Bound DEF Version
<1>5. limited \in BOOLEAN
  BY <1>2
<1>6. Served \in Config /\ Served.version = 0
  BY <1>2, <1>3, <1>4, <1>5 DEF Served, Config
<1>7. /\ Started(Served) \in NodeState
      /\ Started(Served).conf = Served /\ Started(Served).running = Served
  BY <1>6 DEF Started, NodeState, LoadedLimit
<1>8. TypeOK
  BY <1>2, <1>7, <1>4, <1>5 DEF TypeOK
<1>9. \A c \in Used : c = Served
  <2>1. \A n \in Node : node[n] = Started(Served)
    BY <1>2
  <2> QED
    BY <1>7, <2>1 DEF Used
<1>10. KeysInv
  BY <1>1, <1>2 DEF KeysInv
<1> QED
  BY <1>2, <1>3, <1>6, <1>8, <1>9, <1>10, SameTogether
     DEF IInv, CurrentInv, PreviousInv, ChainInv

LEMMA InvStep == IInv /\ [Next]_vars => IInv'
<1> SUFFICES ASSUME IInv, [Next]_vars PROVE IInv'
  OBVIOUS
<1>1. CASE UNCHANGED vars
  <2>1. UNCHANGED registry /\ node' = node /\ Used' = Used
    BY <1>1 DEF vars, Used
  <2>2. node' \in [Node -> NodeState]
    BY <2>1 DEF IInv, TypeOK
  <2> QED
    BY <2>1, <2>2, NodesInv
<1> QED
  BY <1>1, RotateInv, NodeStep DEF Next, Restart, Reboot

-----------------------------------------------------------------------------
\* A rotation never cuts two nodes that are at most one version apart, however
\* many nodes there are, whichever versions they have and however they restart.
THEOREM RotationIsSafe == Spec => []SafeRotation
<1>1. ASSUME IInv
      PROVE  Seamless
  <2> SUFFICES ASSUME NEW n \in Node, NEW m \in Node,
                      node[m].running.version
                        \in {node[n].running.version,
                             node[n].running.version + 1}
               PROVE  Together(node[n].running, node[m].running)
    BY DEF Seamless, Together
  <2>1. node[n].running \in Used /\ node[m].running \in Used
    BY DEF Used
  <2> QED
    BY <1>1, <2>1, SameTogether DEF IInv, ChainInv
<1>2. IInv => SafeRotation
  BY <1>1 DEF IInv, SafeRotation
<1> QED
  BY <1>2, InvInit, InvStep, PTL DEF Spec

-----------------------------------------------------------------------------
(***************************************************************************)
(* Proofs about NodeProcess, for any number of services, peers, clients    *)
(* and addresses.                                                          *)
(*                                                                         *)
(* The invariant counts, for an address, the tunnels made to it, the       *)
(* clients that come from it and the tunnel that is being killed (Refs),   *)
(* and says what is left to do at each statement; an exception or a signal *)
(* only moves the main thread, and is remembered by the ghost `fault'.     *)
(***************************************************************************)
\* Until the main loop ends.
Begun == {"start", "start2", "free", "make"} \cup Body

\* The address i has still to be removed from the tunnel that is killed.
Pending(i) ==
  IF (pc \in {"close", "remove"} \/ fault = "killing") /\ i \in todo
  THEN 1 ELSE 0

\* What an address is used for, tunnels that are being killed included.
Refs == [i \in Ip |-> References(i) + Pending(i)]

\* A manager that has the references refs.
Counts(refs, dict, added) ==
  /\ DOMAIN dict \subseteq Ip
  /\ \A i \in DOMAIN dict : dict[i] \in Entry
  /\ \A i \in Ip :
       refs[i] = IF i \in DOMAIN dict THEN dict[i].count + 1 ELSE 0
  /\ added = {i \in DOMAIN dict : dict[i].gw}

\* The addresses of the peer are being added.
Adding == pc = "add" \/ (pc = "free" /\ then = "add")

\* killAll failed, or was not called.
Incomplete == pc \in {"stop", "ended"} /\ fault \in {"adding", "skipped"}

Types == NodeTypeOK /\ IsFiniteSet(DOMAIN connection) /\ IsFiniteSet(served)

\* Nothing is wrong before the main loop ends, but for a missed signal.
Faults ==
  /\ pc \in Begun => fault \in {"none", "missed"}
  /\ fault = "skipped" => pc = "ended"

\* What is done is done for a peer that is out of the dictionary, or just in it.
Current ==
  /\ pc \in {"make", "close", "remove"} \/ fault = "killing" =>
       peer \in Peer \ DOMAIN connection
  /\ Adding => /\ peer \in DOMAIN connection
               /\ connection[peer] \cup todo = Remote[peer]
               /\ connection[peer] \cap todo = {}
  /\ pc = "open" => peer \in DOMAIN connection

\* Until killAll ends, all addresses of a connection were added, except for the
\* connection that was being made.
Full ==
  pc \notin {"stop", "ended"} =>
    \A p \in DOMAIN connection :
      \/ connection[p] = Remote[p]
      \/ p = peer /\ (Adding \/ fault = "adding")

\* A process belongs to a connection, or to the one that was being made or
\* killed.
Running ==
  ~ Incomplete =>
    \A p \in processes :
      \/ p \in DOMAIN connection
      \/ p = peer /\ (pc = "close" \/ fault \in {"opening", "killing"})

\* A cleanup that went to its end leaves nothing.
Stopped ==
  ~ Incomplete =>
    /\ pc \in {"stop", "ended"} => DOMAIN connection = {}
    /\ pc = "ended" => services = {}

\* Counts and routes match the references, unless killAll failed.
Counted == ~ Incomplete => Counts(Refs, gateway, routes)

ProcessInv == Types /\ Faults /\ Current /\ Full /\ Running /\ Stopped /\ Counted

-----------------------------------------------------------------------------
\* add and remove, on a manager that counts the references refs.
LEMMA AddRefCounts ==
  ASSUME NEW refs \in [Ip -> Nat], Counts(refs, gateway, routes),
         NEW d \in Ip, NEW gw \in BOOLEAN
  PROVE  Counts([refs EXCEPT ![d] = @ + 1], AddRef(Manager, d, gw).dict,
                AddRef(Manager, d, gw).routes)
<1> DEFINE new == [refs EXCEPT ![d] = @ + 1]
           m == AddRef(Manager, d, gw)
<1>1. /\ DOMAIN gateway \subseteq Ip
      /\ \A i \in DOMAIN gateway : gateway[i] \in Entry
      /\ \A i \in Ip :
           refs[i] = IF i \in DOMAIN gateway THEN gateway[i].count + 1 ELSE 0
      /\ routes = {i \in DOMAIN gateway : gateway[i].gw}
  BY DEF Counts
<1>2. /\ new[d] = refs[d] + 1 /\ \A i \in Ip \ {d} : new[i] = refs[i]
  OBVIOUS
<1>3. CASE d \in DOMAIN gateway
  <2>1. m = [Manager EXCEPT !.dict[d].count = @ + 1]
    BY <1>3 DEF AddRef, Manager
  <2>2. /\ m.dict = [gateway EXCEPT ![d].count = @ + 1] /\ m.routes = routes
    BY <2>1 DEF Manager
  <2>3. /\ DOMAIN m.dict = DOMAIN gateway
        /\ m.dict[d] = [gateway[d] EXCEPT !.count = @ + 1]
        /\ \A i \in DOMAIN gateway \ {d} : m.dict[i] = gateway[i]
    BY <1>3, <2>2
  <2>4. /\ m.dict[d] \in Entry /\ m.dict[d].gw = gateway[d].gw
        /\ m.dict[d].count = gateway[d].count + 1
    BY <1>1, <1>3, <2>3 DEF Entry
  <2> HIDE DEF m, new
  <2>5. \A i \in Ip : new[i] = IF i \in DOMAIN m.dict THEN m.dict[i].count + 1 ELSE 0
    BY <1>1, <1>2, <1>3, <2>3, <2>4
  <2>6. m.routes = {i \in DOMAIN m.dict : m.dict[i].gw}
    BY <1>1, <2>2, <2>3, <2>4
  <2> QED
    BY <1>1, <2>3, <2>4, <2>5, <2>6 DEF Counts, m, new
<1>4. CASE d \notin DOMAIN gateway
  <2>1. m = [dict |-> [i \in DOMAIN gateway \cup {d} |->
                         IF i = d THEN [gw |-> gw, count |-> 0] ELSE gateway[i]],
             routes |-> IF gw THEN routes \cup {d} ELSE routes]
    BY <1>4 DEF AddRef, Manager
  <2>2. /\ DOMAIN m.dict = DOMAIN gateway \cup {d}
        /\ m.dict[d] = [gw |-> gw, count |-> 0]
        /\ \A i \in DOMAIN gateway : m.dict[i] = gateway[i]
        /\ m.routes = IF gw THEN routes \cup {d} ELSE routes
    BY <1>4, <2>1
  <2>3. m.dict[d] \in Entry /\ m.dict[d].gw = gw /\ m.dict[d].count = 0
    BY <2>2 DEF Entry
  <2> HIDE DEF m, new
  <2>5. \A i \in Ip : new[i] = IF i \in DOMAIN m.dict THEN m.dict[i].count + 1 ELSE 0
    BY <1>1, <1>2, <1>4, <2>2, <2>3
  <2>6. m.routes = {i \in DOMAIN m.dict : m.dict[i].gw}
    BY <1>1, <1>4, <2>2, <2>3
  <2> QED
    BY <1>1, <2>2, <2>3, <2>5, <2>6 DEF Counts, m, new
<1> QED
  BY <1>3, <1>4

LEMMA RemoveRefCounts ==
  ASSUME NEW refs \in [Ip -> Nat], Counts(refs, gateway, routes),
         NEW d \in Ip, refs[d] > 0
  PROVE  Counts([refs EXCEPT ![d] = @ - 1], RemoveRef(Manager, d).dict,
                RemoveRef(Manager, d).routes)
<1> DEFINE new == [refs EXCEPT ![d] = @ - 1]
           m == RemoveRef(Manager, d)
<1>1. /\ DOMAIN gateway \subseteq Ip
      /\ \A i \in DOMAIN gateway : gateway[i] \in Entry
      /\ \A i \in Ip :
           refs[i] = IF i \in DOMAIN gateway THEN gateway[i].count + 1 ELSE 0
      /\ routes = {i \in DOMAIN gateway : gateway[i].gw}
  BY DEF Counts
<1>2. /\ new[d] = refs[d] - 1 /\ \A i \in Ip \ {d} : new[i] = refs[i]
      /\ d \in DOMAIN gateway
  BY <1>1
<1>3. CASE gateway[d].count > 0
  <2>1. m = [Manager EXCEPT !.dict[d].count = @ - 1]
    BY <1>3 DEF RemoveRef, Manager
  <2>2. /\ m.dict = [gateway EXCEPT ![d].count = @ - 1] /\ m.routes = routes
    BY <2>1 DEF Manager
  <2>3. /\ DOMAIN m.dict = DOMAIN gateway
        /\ m.dict[d] = [gateway[d] EXCEPT !.count = @ - 1]
        /\ \A i \in DOMAIN gateway \ {d} : m.dict[i] = gateway[i]
    BY <1>2, <2>2
  <2>4. /\ m.dict[d] \in Entry /\ m.dict[d].gw = gateway[d].gw
        /\ m.dict[d].count = gateway[d].count - 1
    BY <1>1, <1>2, <1>3, <2>3 DEF Entry
  <2> HIDE DEF m, new
  <2>5. \A i \in Ip : new[i] = IF i \in DOMAIN m.dict THEN m.dict[i].count + 1 ELSE 0
    BY <1>1, <1>2, <2>3, <2>4 DEF Entry
  <2>6. m.routes = {i \in DOMAIN m.dict : m.dict[i].gw}
    BY <1>1, <2>2, <2>3, <2>4
  <2> QED
    BY <1>1, <2>3, <2>4, <2>5, <2>6 DEF Counts, m, new
<1>4. CASE ~ gateway[d].count > 0
  <2>1. /\ m.dict = [i \in DOMAIN gateway \ {d} |-> gateway[i]]
        /\ m.routes = routes \ {d}
    BY <1>4 DEF RemoveRef, Manager
  <2>2. gateway[d].count = 0
    BY <1>1, <1>2, <1>4 DEF Entry
  <2> HIDE DEF m, new
  <2>5. \A i \in Ip : new[i] = IF i \in DOMAIN m.dict THEN m.dict[i].count + 1 ELSE 0
    BY <1>1, <1>2, <2>1, <2>2
  <2>6. m.routes = {i \in DOMAIN m.dict : m.dict[i].gw}
    BY <1>1, <2>1
  <2> QED
    BY <1>1, <2>1, <2>5, <2>6 DEF Counts, m, new
<1> QED
  BY <1>3, <1>4

LEMMA RemoveAllCounts ==
  ASSUME NEW refs \in [Ip -> Nat], Counts(refs, gateway, routes),
         NEW D \in SUBSET Ip, \A d \in D : refs[d] > 0
  PROVE  Counts([i \in Ip |-> IF i \in D THEN refs[i] - 1 ELSE refs[i]],
                RemoveAll(Manager, D).dict, RemoveAll(Manager, D).routes)
<1> DEFINE new == [i \in Ip |-> IF i \in D THEN refs[i] - 1 ELSE refs[i]]
           m == RemoveAll(Manager, D)
           last == {i \in D : gateway[i].count = 0}
<1>1. /\ DOMAIN gateway \subseteq Ip
      /\ \A i \in DOMAIN gateway : gateway[i] \in Entry
      /\ \A i \in Ip :
           refs[i] = IF i \in DOMAIN gateway THEN gateway[i].count + 1 ELSE 0
      /\ routes = {i \in DOMAIN gateway : gateway[i].gw}
  BY DEF Counts
<1>2. D \subseteq DOMAIN gateway
  BY <1>1
<1>3. Manager.dict = gateway /\ Manager.routes = routes
  BY DEF Manager
<1>4. /\ m.dict = [i \in DOMAIN gateway \ last |->
                     IF i \in D THEN RemoveRef(Manager, i).dict[i] ELSE gateway[i]]
      /\ m.routes = routes \ UNION {routes \ RemoveRef(Manager, i).routes : i \in last}
  BY <1>3 DEF RemoveAll
<1>5. ASSUME NEW i \in D \ last
      PROVE  /\ RemoveRef(Manager, i).dict[i] \in Entry
             /\ RemoveRef(Manager, i).dict[i].gw = gateway[i].gw
             /\ RemoveRef(Manager, i).dict[i].count = gateway[i].count - 1
  <2>1. gateway[i] \in Entry /\ gateway[i].count > 0 /\ i \in DOMAIN gateway
    BY <1>1, <1>2 DEF Entry
  <2>2. RemoveRef(Manager, i).dict = [gateway EXCEPT ![i].count = @ - 1]
    BY <2>1 DEF RemoveRef, Manager
  <2>3. RemoveRef(Manager, i).dict[i] = [gateway[i] EXCEPT !.count = @ - 1]
    BY <2>1, <2>2
  <2> QED
    BY <2>1, <2>3 DEF Entry
<1>6. m.routes = routes \ last
  <2>1. \A i \in last : RemoveRef(Manager, i).routes = routes \ {i}
    BY <1>3 DEF RemoveRef
  <2> QED
    BY <1>4, <2>1
<1> HIDE DEF m
<1>7. /\ DOMAIN m.dict = DOMAIN gateway \ last
      /\ \A i \in DOMAIN m.dict \ D : m.dict[i] = gateway[i]
      /\ \A i \in DOMAIN m.dict \cap D :
           m.dict[i] \in Entry /\ m.dict[i].gw = gateway[i].gw
           /\ m.dict[i].count = gateway[i].count - 1
  BY <1>4, <1>5
<1>8. \A i \in Ip : new[i] = IF i \in DOMAIN m.dict THEN m.dict[i].count + 1 ELSE 0
  <2> SUFFICES ASSUME NEW i \in Ip
               PROVE  new[i] = IF i \in DOMAIN m.dict THEN m.dict[i].count + 1 ELSE 0
    OBVIOUS
  <2>1. CASE i \in last
    <3>1. i \in DOMAIN gateway /\ gateway[i].count = 0 /\ i \notin DOMAIN m.dict
      BY <1>2, <1>7, <2>1
    <3> QED
      BY <1>1, <2>1, <3>1
  <2>2. CASE i \in D \ last
    <3>1. i \in DOMAIN gateway /\ i \in DOMAIN m.dict /\ gateway[i].count \in Nat
      BY <1>1, <1>2, <1>7, <2>2 DEF Entry
    <3> QED
      BY <1>1, <1>7, <2>2, <3>1
  <2>3. CASE i \notin D
    BY <1>1, <1>7, <2>3
  <2> QED
    BY <2>1, <2>2, <2>3
<1>9. m.routes = {i \in DOMAIN m.dict : m.dict[i].gw}
  BY <1>1, <1>2, <1>6, <1>7
<1> QED
  BY <1>1, <1>7, <1>8, <1>9 DEF Counts, m

-----------------------------------------------------------------------------
\* References are finite numbers.
LEMMA RefsFacts ==
  ASSUME Types
  PROVE  /\ Refs \in [Ip -> Nat]
         /\ \A i \in Ip : /\ IsFiniteSet(MadeTo(i)) /\ IsFiniteSet(ServedFrom(i))
                          /\ Cardinality(MadeTo(i)) \in Nat
                          /\ Cardinality(ServedFrom(i)) \in Nat
                          /\ Pending(i) \in {0, 1}
                          /\ Refs[i] = Cardinality(MadeTo(i))
                                         + Cardinality(ServedFrom(i)) + Pending(i)
<1>1. ASSUME NEW i \in Ip
      PROVE  /\ IsFiniteSet(MadeTo(i)) /\ IsFiniteSet(ServedFrom(i))
             /\ Cardinality(MadeTo(i)) \in Nat
             /\ Cardinality(ServedFrom(i)) \in Nat
             /\ Pending(i) \in {0, 1}
  <2>1. MadeTo(i) \subseteq DOMAIN connection /\ ServedFrom(i) \subseteq served
    BY DEF MadeTo, ServedFrom
  <2>2. IsFiniteSet(MadeTo(i)) /\ IsFiniteSet(ServedFrom(i))
    BY <2>1, FS_Subset DEF Types
  <2> QED
    BY <2>2, FS_CardinalityType DEF Pending
<1>2. \A i \in Ip : References(i) = Cardinality(MadeTo(i)) + Cardinality(ServedFrom(i))
  BY DEF References
<1> QED
  BY <1>1, <1>2 DEF Refs

\* An address of a tunnel, of a client or to be removed has a reference.
LEMMA Referenced ==
  ASSUME Types, NEW i \in Ip,
         \/ \E p \in DOMAIN connection : i \in connection[p]
         \/ \E c \in served : Trusted[c] = i
         \/ Pending(i) = 1
  PROVE  Refs[i] > 0
<1>1. CASE \E p \in DOMAIN connection : i \in connection[p]
  <2>1. MadeTo(i) # {}
    BY <1>1 DEF MadeTo
  <2>2. Cardinality(MadeTo(i)) # 0
    BY <2>1, RefsFacts, FS_EmptySet
  <2> QED
    BY <2>2, RefsFacts
<1>2. CASE \E c \in served : Trusted[c] = i
  <2>1. ServedFrom(i) # {}
    BY <1>2 DEF ServedFrom
  <2>2. Cardinality(ServedFrom(i)) # 0
    BY <2>1, RefsFacts, FS_EmptySet
  <2> QED
    BY <2>2, RefsFacts
<1>3. CASE Pending(i) = 1
  BY <1>3, RefsFacts
<1> QED
  BY <1>1, <1>2, <1>3

\* What does not change a reference.
LEMMA SameRefs ==
  ASSUME Counted, UNCHANGED <<gateway, routes>>, Incomplete => Incomplete',
         ~ Incomplete' => \A i \in Ip : Refs[i] = Refs'[i]
  PROVE  Counted'
<1>1. CASE Incomplete'
  BY <1>1 DEF Counted
<1>2. CASE ~ Incomplete'
  BY <1>2 DEF Counted, Counts
<1> QED
  BY <1>1, <1>2

LEMMA Unreferenced ==
  ASSUME UNCHANGED <<served, connection>>,
         \A i \in Ip : Pending(i)' = Pending(i)
  PROVE  \A i \in Ip : Refs[i] = Refs'[i]
<1>1. \A i \in Ip : MadeTo(i)' = MadeTo(i) /\ ServedFrom(i)' = ServedFrom(i)
  BY DEF MadeTo, ServedFrom
<1>2. \A i \in Ip : References(i)' = References(i)
  BY <1>1 DEF References
<1> QED
  BY <1>2 DEF Refs

LEMMA ProcessInit == NodeInit => ProcessInv
<1> SUFFICES ASSUME NodeInit PROVE ProcessInv
  OBVIOUS
<1>1. /\ DOMAIN connection = {} /\ DOMAIN gateway = {} /\ served = {} /\ todo = {}
      /\ pc = "start" /\ fault = "none" /\ routes = {} /\ processes = {}
      /\ then = "loop"
  BY DEF NodeInit
<1>2. Types
  BY <1>1, FS_EmptySet DEF NodeInit, Types, NodeTypeOK, Body
<1>3. Faults /\ Current /\ Full /\ Running /\ Stopped
  BY <1>1 DEF Faults, Begun, Current, Full, Running, Stopped, Adding
<1>4. \A i \in Ip : Refs[i] = 0
  <2>1. \A i \in Ip : MadeTo(i) = {} /\ ServedFrom(i) = {} /\ Pending(i) = 0
    BY <1>1 DEF MadeTo, ServedFrom, Pending
  <2> QED
    BY <1>2, <2>1, FS_EmptySet, RefsFacts
<1>5. Counted
  BY <1>1, <1>4 DEF Counted, Counts
<1> QED
  BY <1>2, <1>3, <1>5 DEF ProcessInv

\* What starts before the main loop, and what the main loop does.
Starting == (\E s \in Service : StartService(s)) \/ Up \/ UpDone \/ EnterLoop

LEMMA StartingInv == ProcessInv /\ Starting => ProcessInv'
<1> SUFFICES ASSUME ProcessInv, Starting PROVE ProcessInv'
  OBVIOUS
<1>1. Types /\ Faults /\ Current /\ Full /\ Running /\ Stopped /\ Counted
  BY DEF ProcessInv
<1> DEFINE Begins ==
          /\ UNCHANGED <<peer, todo, connection, processes, gateway, routes, served,
                         fault>>
          /\ pc \in {"start", "up", "start2"}
          /\ pc' \in {"start", "free", "start2", "finally"}
          /\ pc' = "free" => then' # "add"
          /\ then' \in {then, "up", "loop"} /\ held' \in BOOLEAN /\ status' = status
          /\ raised' \in BOOLEAN /\ services' \subseteq Service
<1>2. Begins
  <2> USE <1>1 DEF Types, NodeTypeOK
  <2>1. ASSUME NEW s \in Service, StartService(s) PROVE Begins
    BY <2>1 DEF StartService, lock, tunnels
  <2>2. CASE Up
    BY <2>2 DEF Up, Check, lock, tunnels
  <2>3. CASE UpDone
    BY <2>3 DEF UpDone, tunnels
  <2>4. CASE EnterLoop
    BY <2>4 DEF EnterLoop, Check, lock, tunnels
  <2> QED
    BY <2>1, <2>2, <2>3, <2>4 DEF Starting
<1>3. fault \in {"none", "missed"} /\ ~ Adding /\ ~ Adding'
  BY <1>1, <1>2 DEF Faults, Begun, Body, Adding
<1>4. Types'
  BY <1>1, <1>2 DEF Types, NodeTypeOK
<1>5. Faults' /\ Stopped' /\ Current'
  BY <1>2, <1>3 DEF Faults, Stopped, Current
<1>6. Full' /\ Running'
  BY <1>1, <1>2, <1>3 DEF Full, Running, Incomplete
<1>7. Counted'
  BY <1>1, <1>2, <1>3, Unreferenced, SameRefs DEF Incomplete, Pending
<1> QED
  BY <1>4, <1>5, <1>6, <1>7 DEF ProcessInv

LEMMA FreeInv == ProcessInv /\ Free => ProcessInv'
<1> SUFFICES ASSUME ProcessInv, Free PROVE ProcessInv'
  OBVIOUS
<1>1. Types /\ Faults /\ Current /\ Full /\ Running /\ Stopped /\ Counted
  BY DEF ProcessInv
<1>2. /\ UNCHANGED <<then, peer, todo, connection, processes, gateway, routes,
                     served, services, status, raised>>
      /\ pc = "free" /\ pc' = then /\ then \in {"up", "loop", "add"}
      /\ fault' \in {fault, "missed"} /\ held' = FALSE
  BY <1>1 DEF Free, tunnels, Types, NodeTypeOK
<1>3. /\ fault \in {"none", "missed"} /\ fault' \in {"none", "missed"}
      /\ (Adding <=> Adding')
  BY <1>1, <1>2 DEF Faults, Begun, Adding
<1>4. Types'
  BY <1>1, <1>2, <1>3 DEF Types, NodeTypeOK, Body
<1>5. Faults' /\ Stopped' /\ Current'
  BY <1>1, <1>2, <1>3 DEF Faults, Stopped, Current
<1>6. Full' /\ Running'
  BY <1>1, <1>2, <1>3 DEF Full, Running, Incomplete
<1>7. Counted'
  BY <1>1, <1>2, <1>3, Unreferenced, SameRefs DEF Incomplete, Pending
<1> QED
  BY <1>4, <1>5, <1>6, <1>7 DEF ProcessInv

Ending == Finally \/ KilledAll \/ (\E s \in Service : Stop(s)) \/ End

LEMMA EndingInv == ProcessInv /\ Ending => ProcessInv'
<1> SUFFICES ASSUME ProcessInv, Ending PROVE ProcessInv'
  OBVIOUS
<1>1. Types /\ Faults /\ Current /\ Full /\ Running /\ Stopped /\ Counted
  BY DEF ProcessInv
<1> DEFINE Finishes ==
      /\ UNCHANGED <<then, peer, todo, connection, processes, gateway, routes,
                     served, status, raised, fault>>
      /\ \/ pc = "finally" /\ pc' = "cleanup"
         \/ pc = "cleanup" /\ pc' = "cleanup"
         \/ pc = "cleanup" /\ pc' = "stop" /\ DOMAIN connection = {}
         \/ pc = "stop" /\ pc' = "stop"
         \/ pc = "stop" /\ pc' = "ended" /\ services' = {}
      /\ services' \subseteq services /\ held' \in BOOLEAN
<1>2. Finishes
  <2> USE <1>1 DEF Types, NodeTypeOK
  <2>1. ASSUME NEW s \in Service, Stop(s) PROVE Finishes
    BY <2>1 DEF Stop, lock, tunnels
  <2>2. CASE Finally
    BY <2>2 DEF Finally, tunnels
  <2>3. CASE KilledAll
    BY <2>3 DEF KilledAll, lock, tunnels
  <2>4. CASE End
    BY <2>4 DEF End, tunnels
  <2> QED
    BY <2>1, <2>2, <2>3, <2>4 DEF Ending
<1>3. ~ Adding /\ ~ Adding' /\ (Incomplete => Incomplete')
  BY <1>1, <1>2 DEF Incomplete, Adding
<1>4. Types'
  BY <1>1, <1>2 DEF Types, NodeTypeOK
<1>5. Faults' /\ Current'
  BY <1>1, <1>2, <1>3 DEF Faults, Begun, Body, Current
<1>6. Full' /\ Running' /\ Stopped'
  BY <1>1, <1>2, <1>3 DEF Full, Running, Stopped, Incomplete
<1>7. Counted'
  BY <1>1, <1>2, <1>3, Unreferenced, SameRefs DEF Pending
<1> QED
  BY <1>4, <1>5, <1>6, <1>7 DEF ProcessInv

\* Steps about one tunnel, or one process, that leave connections alone.
Moving ==
  \/ \E p \in Peer : MakeTunnel(p) \/ Reopen(p) \/ ProcessEnd(p)
  \/ Open \/ Close

LEMMA MovingInv == ProcessInv /\ Moving => ProcessInv'
<1> SUFFICES ASSUME ProcessInv, Moving PROVE ProcessInv'
  OBVIOUS
<1>1. Types /\ Faults /\ Current /\ Full /\ Running /\ Stopped /\ Counted
  BY DEF ProcessInv
<1> DEFINE Moves ==
      /\ UNCHANGED <<then, todo, connection, gateway, routes, served, services,
                     status, raised, fault>>
      /\ held' \in BOOLEAN
      /\ \/ /\ pc = "loop" /\ pc' = "make" /\ peer' \in Peer \ DOMAIN connection
            /\ processes' = processes
         \/ /\ pc = "loop" /\ pc' = "open" /\ peer' \in DOMAIN connection
            /\ processes' = processes
         \/ pc' = pc /\ peer' = peer /\ processes' \subseteq processes
         \/ /\ pc = "open" /\ pc' = "loop" /\ peer' = peer
            /\ processes' = processes \cup {peer}
         \/ /\ pc = "close" /\ pc' = "remove" /\ peer' = peer
            /\ processes' = processes \ {peer}
<1>2. Moves
  <2> USE <1>1 DEF Types, NodeTypeOK
  <2>1. ASSUME NEW p \in Peer, MakeTunnel(p) PROVE Moves
    BY <2>1 DEF MakeTunnel, tunnels
  <2>2. ASSUME NEW p \in Peer, Reopen(p) PROVE Moves
    BY <2>2 DEF Reopen, lock, tunnels
  <2>3. ASSUME NEW p \in Peer, ProcessEnd(p) PROVE Moves
    BY <2>3 DEF ProcessEnd, lock
  <2>4. CASE Open
    BY <2>4 DEF Open, lock
  <2>5. CASE Close
    BY <2>5 DEF Close, lock
  <2> QED
    BY <2>1, <2>2, <2>3, <2>4, <2>5 DEF Moving
<1>3. CASE pc' = pc
  <2>1. UNCHANGED <<pc, then, todo, connection, gateway, routes, served, services,
                    status, raised, fault, peer>>
        /\ processes' \subseteq processes /\ held' \in BOOLEAN
    BY <1>2, <1>3
  <2>2. (Adding <=> Adding') /\ (Incomplete <=> Incomplete')
    BY <2>1 DEF Adding, Incomplete
  <2>3. Types'
    BY <1>1, <2>1 DEF Types, NodeTypeOK
  <2>4. Faults' /\ Stopped' /\ Current' /\ Full'
    BY <1>1, <2>1, <2>2 DEF Faults, Stopped, Current, Full
  <2>5. Running'
    BY <1>1, <2>1, <2>2 DEF Running
  <2>6. Counted'
    BY <1>1, <2>1, <2>2, Unreferenced, SameRefs DEF Pending
  <2> QED
    BY <2>3, <2>4, <2>5, <2>6 DEF ProcessInv
<1>4. CASE pc' # pc
  <2>1. /\ UNCHANGED <<then, todo, connection, gateway, routes, served, services,
                       status, raised, fault>>
        /\ held' \in BOOLEAN
        /\ pc \in {"loop", "open", "close"}
        /\ pc' \in {"make", "open", "loop", "remove"}
        /\ pc = "close" <=> pc' = "remove"
        /\ pc' \in {"make", "remove"} => peer' \in Peer \ DOMAIN connection
        /\ pc' = "open" => peer' \in DOMAIN connection
        /\ peer' \in Peer
        /\ processes' \subseteq Peer
        /\ \A p \in processes' : \/ p \in processes /\ ~ (p = peer /\ pc = "close")
                                 \/ p \in DOMAIN connection
    BY <1>1, <1>2, <1>4 DEF Current, Types, NodeTypeOK
  <2>2. /\ fault \in {"none", "missed"} /\ ~ Adding /\ ~ Adding'
        /\ ~ Incomplete /\ ~ Incomplete'
    BY <1>1, <2>1 DEF Faults, Begun, Body, Adding, Incomplete
  <2>3. Types'
    BY <1>1, <2>1 DEF Types, NodeTypeOK, Body
  <2>4. Faults' /\ Stopped' /\ Current'
    BY <1>1, <2>1, <2>2 DEF Faults, Stopped, Current
  <2>5. Full'
    BY <1>1, <2>1, <2>2 DEF Full
  <2>6. Running'
    BY <1>1, <2>1, <2>2 DEF Running
  <2>7. Counted'
    BY <1>1, <2>1, <2>2, Unreferenced, SameRefs DEF Pending
  <2> QED
    BY <2>3, <2>4, <2>5, <2>6, <2>7 DEF ProcessInv
<1> QED
  BY <1>3, <1>4

\* The connection is recorded without any address.
LEMMA MadeInv == ProcessInv /\ Made => ProcessInv'
<1> SUFFICES ASSUME ProcessInv, Made PROVE ProcessInv'
  OBVIOUS
<1>1. Types /\ Faults /\ Current /\ Full /\ Running /\ Stopped /\ Counted
  BY DEF ProcessInv
<1>2. /\ UNCHANGED <<peer, processes, gateway, routes, served, services, status>>
      /\ pc = "make" /\ todo' = Remote[peer]
      /\ connection' = [p \in DOMAIN connection \cup {peer} |->
                          IF p = peer THEN {} ELSE connection[p]]
      /\ \/ pc' = "free" /\ then' = "add" /\ fault' = fault
         \/ /\ pc' = "finally" /\ then' = then
            /\ fault' = IF Remote[peer] # {} THEN "adding" ELSE fault
      /\ held' \in BOOLEAN /\ raised' \in BOOLEAN
  BY <1>1 DEF Made, Check, lock, Types, NodeTypeOK
<1>3. /\ fault \in {"none", "missed"} /\ ~ Adding /\ ~ Incomplete /\ ~ Incomplete'
      /\ peer \in Peer \ DOMAIN connection
      /\ Remote[peer] \subseteq Ip
      /\ (Adding' <=> pc' = "free")
  BY <1>1, <1>2, Addresses DEF Faults, Begun, Adding, Current, Incomplete
<1>4. /\ DOMAIN connection' = DOMAIN connection \cup {peer}
      /\ connection'[peer] = {}
      /\ \A p \in DOMAIN connection : connection'[p] = connection[p]
  BY <1>2, <1>3
<1>5. Types'
  <2>1. IsFiniteSet(DOMAIN connection')
    BY <1>1, <1>4, FS_AddElement DEF Types
  <2> QED
    BY <1>1, <1>2, <1>3, <1>4, <2>1 DEF Types, NodeTypeOK
<1>6. Faults' /\ Stopped'
  BY <1>2, <1>3 DEF Faults, Begun, Body, Stopped
<1>7. Current'
  BY <1>2, <1>3, <1>4 DEF Current
<1>8. Full'
  BY <1>1, <1>2, <1>3, <1>4 DEF Full
<1>9. Running'
  BY <1>1, <1>2, <1>3, <1>4 DEF Running
<1>10. Counted'
  <2>1. ASSUME NEW i \in Ip PROVE Refs'[i] = Refs[i]
    <3>1. MadeTo(i)' = MadeTo(i) /\ ServedFrom(i)' = ServedFrom(i)
      BY <1>2, <1>4 DEF MadeTo, ServedFrom
    <3>2. Pending(i)' = Pending(i)
      BY <1>2, <1>3 DEF Pending
    <3> QED
      BY <3>1, <3>2 DEF Refs, References
  <2> QED
    BY <1>1, <1>2, <1>3, <2>1, SameRefs
<1> QED
  BY <1>5, <1>6, <1>7, <1>8, <1>9, <1>10 DEF ProcessInv

\* References and routes change together.
LEMMA Recounted ==
  ASSUME NEW refs, NEW dict, NEW added, Counts(refs, dict, added),
         gateway' = dict, routes' = added,
         \A i \in Ip : Refs'[i] = refs[i]
  PROVE  Counted'
BY DEF Counted, Counts

\* A manager that counts has the right types.
ManagerOK(dict, added) ==
  /\ DOMAIN dict \subseteq Ip /\ added \subseteq Ip
  /\ \A i \in DOMAIN dict : dict[i] \in Entry

LEMMA CountsTypes ==
  ASSUME NEW refs, NEW dict, NEW added, Counts(refs, dict, added)
  PROVE  ManagerOK(dict, added)
BY DEF Counts, ManagerOK

LEMMA AddGatewayInv == ProcessInv /\ AddGateway => ProcessInv'
<1> SUFFICES ASSUME ProcessInv, AddGateway PROVE ProcessInv'
  OBVIOUS
<1>1. Types /\ Faults /\ Current /\ Full /\ Running /\ Stopped /\ Counted
  BY DEF ProcessInv
<1>2. pc = "add" /\ UNCHANGED <<then, peer, held, status, raised, services, served,
                                fault>>
  BY DEF AddGateway, lock
<1>3. /\ Adding /\ fault \in {"none", "missed"} /\ ~ Incomplete
      /\ peer \in DOMAIN connection /\ peer \in Peer
      /\ connection[peer] \cup todo = Remote[peer]
      /\ connection[peer] \cap todo = {}
  BY <1>1, <1>2
    DEF Adding, Faults, Begun, Body, Incomplete, Current, Types, NodeTypeOK
<1>4. CASE todo = {}
  <2>1. pc' = "open" /\ UNCHANGED <<todo, connection, processes, gateway, routes>>
    BY <1>4 DEF AddGateway, tunnels
  <2>2. ~ Adding' /\ ~ Incomplete'
    BY <2>1 DEF Adding, Incomplete
  <2>3. Types'
    BY <1>1, <1>2, <2>1 DEF Types, NodeTypeOK, Body
  <2>4. Faults' /\ Stopped' /\ Current' /\ Running'
    BY <1>1, <1>2, <1>3, <2>1, <2>2 DEF Faults, Stopped, Current, Running
  <2>5. Full'
    BY <1>1, <1>2, <1>3, <1>4, <2>1, <2>2 DEF Full
  <2>6. Counted'
    BY <1>1, <1>2, <1>3, <2>1, <2>2, Unreferenced, SameRefs DEF Pending
  <2> QED
    BY <2>3, <2>4, <2>5, <2>6 DEF ProcessInv
<1>5. CASE todo # {}
  <2>1. PICK d \in todo :
          /\ todo' = todo \ {d}
          /\ connection' = [connection EXCEPT ![peer] = @ \cup {d}]
          /\ SetManager(AddRef(Manager, d, TRUE))
          /\ UNCHANGED <<pc, processes>>
    BY <1>5 DEF AddGateway
  <2>2. /\ d \in Ip /\ d \in Remote[peer] /\ d \notin connection[peer]
        /\ DOMAIN connection' = DOMAIN connection
        /\ connection'[peer] = connection[peer] \cup {d}
        /\ \A p \in DOMAIN connection \ {peer} : connection'[p] = connection[p]
    BY <1>1, <1>3, <2>1 DEF Types, NodeTypeOK
  <2> DEFINE m == AddRef(Manager, d, TRUE)
             new == [Refs EXCEPT ![d] = @ + 1]
  <2>3. Counts(new, m.dict, m.routes)
    BY <1>1, <1>3, <2>2, RefsFacts, AddRefCounts DEF Counted
  <2>4. gateway' = m.dict /\ routes' = m.routes
    BY <2>1 DEF SetManager
  <2> HIDE DEF m
  <2>5. Types'
    BY <1>1, <1>2, <2>1, <2>2, <2>3, <2>4, CountsTypes
      DEF Types, NodeTypeOK, ManagerOK
  <2>6. Adding' /\ ~ Incomplete'
    BY <1>2, <2>1 DEF Adding, Incomplete
  <2>7. Faults' /\ Stopped' /\ Running'
    BY <1>1, <1>2, <1>3, <2>1, <2>2, <2>6 DEF Faults, Stopped, Running
  <2>8. Current'
    BY <1>1, <1>2, <1>3, <2>1, <2>2, <2>6 DEF Current
  <2>9. Full'
    BY <1>1, <1>2, <1>3, <2>1, <2>2, <2>6 DEF Full
  <2>10. ASSUME NEW i \in Ip PROVE Refs'[i] = new[i]
    <3>1. ServedFrom(i)' = ServedFrom(i) /\ Pending(i)' = Pending(i)
      BY <1>2, <1>3, <2>1 DEF ServedFrom, Pending
    <3>2. CASE i = d
      <4>1. MadeTo(i)' = MadeTo(i) \cup {peer} /\ peer \notin MadeTo(i)
        BY <1>3, <2>2, <3>2 DEF MadeTo
      <4>2. Cardinality(MadeTo(i)') = Cardinality(MadeTo(i)) + 1
        BY <1>1, <4>1, RefsFacts, FS_AddElement
      <4>3. Refs'[i] = Refs[i] + 1
        BY <1>1, <3>1, <4>2, RefsFacts DEF Refs, References
      <4> QED
        BY <1>1, <3>2, <4>3, RefsFacts
    <3>3. CASE i # d
      <4>1. MadeTo(i)' = MadeTo(i)
        BY <1>3, <2>2, <3>3 DEF MadeTo
      <4>2. Refs'[i] = Refs[i]
        BY <3>1, <4>1 DEF Refs, References
      <4> QED
        BY <1>1, <3>3, <4>2, RefsFacts
    <3> QED
      BY <3>2, <3>3
  <2> HIDE DEF new
  <2>11. Counted'
    BY <2>3, <2>4, <2>5, <2>10, Recounted
  <2> QED
    BY <2>5, <2>7, <2>8, <2>9, <2>11 DEF ProcessInv
<1> QED
  BY <1>4, <1>5

\* The addresses of the tunnel that is killed are now to be removed.
LEMMA KillInv ==
  ASSUME NEW p \in Peer
  PROVE  ProcessInv /\ Kill(p) => ProcessInv'
<1> SUFFICES ASSUME ProcessInv, Kill(p) PROVE ProcessInv'
  OBVIOUS
<1>1. Types /\ Faults /\ Current /\ Full /\ Running /\ Stopped /\ Counted
  BY DEF ProcessInv
<1>2. /\ pc = "loop" /\ p \in DOMAIN connection
      /\ pc' = "close" /\ peer' = p /\ todo' = connection[p]
      /\ connection' = [x \in DOMAIN connection \ {p} |-> connection[x]]
      /\ UNCHANGED <<then, held, status, raised, services, processes, gateway,
                     routes, served, fault>>
  BY DEF Kill, lock
<1>3. /\ fault \in {"none", "missed"} /\ ~ Adding /\ ~ Adding'
      /\ ~ Incomplete /\ ~ Incomplete'
  BY <1>1, <1>2 DEF Faults, Begun, Body, Adding, Incomplete
<1>4. /\ DOMAIN connection' = DOMAIN connection \ {p}
      /\ \A x \in DOMAIN connection' : connection'[x] = connection[x]
      /\ connection[p] \subseteq Ip
  BY <1>1, <1>2, Addresses DEF Types, NodeTypeOK
<1>5. Types'
  <2>1. IsFiniteSet(DOMAIN connection')
    BY <1>1, <1>4, FS_Subset DEF Types
  <2> QED
    BY <1>1, <1>2, <1>4, <2>1 DEF Types, NodeTypeOK, Body
<1>6. Faults' /\ Stopped' /\ Current'
  BY <1>2, <1>3, <1>4 DEF Faults, Stopped, Current
<1>7. Full' /\ Running'
  BY <1>1, <1>2, <1>3, <1>4 DEF Full, Running
<1>8. ASSUME NEW i \in Ip PROVE Refs'[i] = Refs[i]
  <2>1. ServedFrom(i)' = ServedFrom(i) /\ Pending(i) = 0
    BY <1>2, <1>3 DEF ServedFrom, Pending
  <2>2. CASE i \in connection[p]
    <3>1. MadeTo(i)' = MadeTo(i) \ {p} /\ p \in MadeTo(i) /\ Pending(i)' = 1
      BY <1>2, <1>4, <2>2 DEF MadeTo, Pending
    <3>2. Cardinality(MadeTo(i)') = Cardinality(MadeTo(i)) - 1
      BY <1>1, <3>1, RefsFacts, FS_RemoveElement
    <3>3. Cardinality(MadeTo(i)) \in Nat /\ Cardinality(ServedFrom(i)) \in Nat
      BY <1>1, RefsFacts, FS_CardinalityType
    <3>4. Cardinality(ServedFrom(i)') = Cardinality(ServedFrom(i))
      BY <2>1
    <3>5. References(i)' = References(i) - 1 /\ References(i) \in Nat
      BY <3>2, <3>3, <3>4 DEF References
    <3> QED
      BY <2>1, <3>1, <3>5 DEF Refs
  <2>3. CASE i \notin connection[p]
    <3>1. MadeTo(i)' = MadeTo(i) /\ Pending(i)' = 0
      BY <1>2, <1>4, <2>3 DEF MadeTo, Pending
    <3> QED
      BY <2>1, <3>1 DEF Refs, References
  <2> QED
    BY <2>2, <2>3
<1>9. Counted'
  BY <1>1, <1>2, <1>3, <1>8, SameRefs
<1> QED
  BY <1>5, <1>6, <1>7, <1>9 DEF ProcessInv

LEMMA RemoveGatewayInv == ProcessInv /\ RemoveGateway => ProcessInv'
<1> SUFFICES ASSUME ProcessInv, RemoveGateway PROVE ProcessInv'
  OBVIOUS
<1>1. Types /\ Faults /\ Current /\ Full /\ Running /\ Stopped /\ Counted
  BY DEF ProcessInv
<1>2. pc = "remove" /\ UNCHANGED <<then, peer, held, status, raised, services,
                                   served, fault>>
  BY DEF RemoveGateway, lock
<1>3. /\ fault \in {"none", "missed"} /\ ~ Adding /\ ~ Incomplete
      /\ peer \in Peer \ DOMAIN connection
  BY <1>1, <1>2 DEF Adding, Faults, Begun, Body, Incomplete, Current
<1>4. CASE todo = {}
  <2>1. pc' = "loop" /\ UNCHANGED <<todo, connection, processes, gateway, routes>>
    BY <1>4 DEF RemoveGateway, tunnels
  <2>2. ~ Adding' /\ ~ Incomplete'
    BY <2>1 DEF Adding, Incomplete
  <2>3. Types'
    BY <1>1, <1>2, <2>1 DEF Types, NodeTypeOK, Body
  <2>4. Faults' /\ Stopped' /\ Current' /\ Running'
    BY <1>1, <1>2, <1>3, <2>1, <2>2 DEF Faults, Stopped, Current, Running
  <2>5. Full'
    BY <1>1, <1>2, <1>3, <2>1, <2>2 DEF Full
  <2>6. Counted'
    BY <1>1, <1>2, <1>3, <1>4, <2>1, <2>2, Unreferenced, SameRefs DEF Pending
  <2> QED
    BY <2>3, <2>4, <2>5, <2>6 DEF ProcessInv
<1>5. CASE todo # {}
  <2>1. PICK d \in todo :
          /\ todo' = todo \ {d}
          /\ SetManager(RemoveRef(Manager, d))
          /\ UNCHANGED <<pc, connection, processes>>
    BY <1>5 DEF RemoveGateway
  <2>2. d \in Ip /\ Pending(d) = 1
    BY <1>1, <1>2, <2>1 DEF Types, NodeTypeOK, Pending
  <2> DEFINE m == RemoveRef(Manager, d)
             new == [Refs EXCEPT ![d] = @ - 1]
  <2>3. Counts(new, m.dict, m.routes)
    BY <1>1, <1>3, <2>2, RefsFacts, Referenced, RemoveRefCounts DEF Counted
  <2>4. gateway' = m.dict /\ routes' = m.routes
    BY <2>1 DEF SetManager
  <2> HIDE DEF m
  <2>5. Types'
    BY <1>1, <1>2, <2>1, <2>2, <2>3, <2>4, CountsTypes
      DEF Types, NodeTypeOK, ManagerOK
  <2>6. ~ Adding' /\ ~ Incomplete'
    BY <1>2, <2>1 DEF Adding, Incomplete
  <2>7. Faults' /\ Stopped' /\ Running' /\ Current'
    BY <1>1, <1>2, <1>3, <2>1, <2>6 DEF Faults, Stopped, Running, Current
  <2>8. Full'
    BY <1>1, <1>2, <1>3, <2>1, <2>6 DEF Full
  <2>9. ASSUME NEW i \in Ip PROVE Refs'[i] = new[i]
    <3>1. ServedFrom(i)' = ServedFrom(i) /\ MadeTo(i)' = MadeTo(i)
      BY <1>2, <2>1 DEF ServedFrom, MadeTo
    <3>2. Pending(i)' = IF i = d THEN 0 ELSE Pending(i)
      BY <1>2, <2>1, <1>3 DEF Pending
    <3>3. Refs'[i] = IF i = d THEN Refs[i] - 1 ELSE Refs[i]
      BY <1>1, <2>2, <3>1, <3>2, RefsFacts DEF Refs, References
    <3> QED
      BY <1>1, <3>3, RefsFacts
  <2> HIDE DEF new
  <2>10. Counted'
    BY <2>3, <2>4, <2>9, Recounted
  <2> QED
    BY <2>5, <2>7, <2>8, <2>10 DEF ProcessInv
<1> QED
  BY <1>4, <1>5

\* Clients come and go.
LEMMA ServingInv ==
  ASSUME NEW c \in Client
  PROVE  ProcessInv /\ (Serve(c) \/ Unserve(c)) => ProcessInv'
<1> SUFFICES ASSUME ProcessInv, Serve(c) \/ Unserve(c) PROVE ProcessInv'
  OBVIOUS
<1> DEFINE d == Trusted[c]
           k == IF Serve(c) THEN Refs[d] + 1 ELSE Refs[d] - 1
           m == IF Serve(c) THEN AddRef(Manager, d, FALSE) ELSE RemoveRef(Manager, d)
           new == [Refs EXCEPT ![d] = k]
<1>1. Types /\ Faults /\ Current /\ Full /\ Running /\ Stopped /\ Counted
  BY DEF ProcessInv
<1>2. /\ pc = "loop" /\ UNCHANGED <<pc, then, peer, todo, held, status, raised,
                                    services, connection, processes, fault>>
      /\ gateway' = m.dict /\ routes' = m.routes
      /\ Serve(c) => c \notin served /\ served' = served \cup {c}
      /\ ~ Serve(c) => c \in served /\ served' = served \ {c}
  BY DEF Serve, Unserve, lock, SetManager
<1>3. /\ ~ Incomplete /\ ~ Incomplete' /\ fault \in {"none", "missed"}
      /\ (Adding <=> Adding') /\ d \in Ip
  BY <1>1, <1>2, Addresses DEF Incomplete, Adding, Faults, Begun, Body
<1>4. Refs \in [Ip -> Nat] /\ Counts(Refs, gateway, routes)
  BY <1>1, <1>3, RefsFacts DEF Counted
<1>5. Counts(new, m.dict, m.routes)
  <2>1. CASE Serve(c)
    BY <1>3, <1>4, <2>1, AddRefCounts
  <2>2. CASE ~ Serve(c)
    <3>1. Refs[d] > 0
      BY <1>1, <1>2, <1>3, <2>2, Referenced
    <3> QED
      BY <1>3, <1>4, <2>2, <3>1, RemoveRefCounts
  <2> QED
    BY <2>1, <2>2
<1>6. served' \subseteq Client /\ IsFiniteSet(served')
  BY <1>1, <1>2, FS_AddElement, FS_RemoveElement DEF Types, NodeTypeOK
<1>7. ASSUME NEW i \in Ip PROVE Refs'[i] = new[i]
  <2>1. MadeTo(i)' = MadeTo(i) /\ Pending(i)' = Pending(i)
    BY <1>2 DEF MadeTo, Pending
  <2>2. CASE i # d
    <3>1. ServedFrom(i)' = ServedFrom(i)
      BY <1>2, <2>2 DEF ServedFrom
    <3> QED
      BY <1>4, <2>1, <2>2, <3>1 DEF Refs, References
  <2>3. CASE i = d /\ Serve(c)
    <3>1. ServedFrom(i)' = ServedFrom(i) \cup {c} /\ c \notin ServedFrom(i)
      BY <1>2, <2>3 DEF ServedFrom
    <3>2. Cardinality(ServedFrom(i)') = Cardinality(ServedFrom(i)) + 1
      BY <1>1, <3>1, RefsFacts, FS_AddElement
    <3>3. Refs'[i] = Refs[i] + 1
      BY <1>1, <2>1, <3>2, RefsFacts DEF Refs, References
    <3> QED
      BY <1>4, <2>3, <3>3
  <2>4. CASE i = d /\ ~ Serve(c)
    <3>1. ServedFrom(i)' = ServedFrom(i) \ {c} /\ c \in ServedFrom(i)
      BY <1>2, <2>4 DEF ServedFrom
    <3>2. Cardinality(ServedFrom(i)') = Cardinality(ServedFrom(i)) - 1
      BY <1>1, <3>1, RefsFacts, FS_RemoveElement
    <3>3. Refs'[i] = Refs[i] - 1
      BY <1>1, <2>1, <3>2, RefsFacts DEF Refs, References
    <3> QED
      BY <1>4, <2>4, <3>3
  <2> QED
    BY <2>2, <2>3, <2>4
<1> HIDE DEF m, new
<1>8. Types'
  BY <1>1, <1>2, <1>5, <1>6, CountsTypes DEF Types, NodeTypeOK, ManagerOK
<1>9. Faults' /\ Current' /\ Full'
  BY <1>1, <1>2, <1>3 DEF Faults, Current, Full
<1>10. Running' /\ Stopped'
  BY <1>1, <1>2, <1>3 DEF Running, Stopped
<1>11. Counted'
  BY <1>2, <1>5, <1>7, Recounted
<1> QED
  BY <1>8, <1>9, <1>10, <1>11 DEF ProcessInv

-----------------------------------------------------------------------------
\* The end of the main loop, wherever it is.
LEMMA InterruptInv ==
  ASSUME ProcessInv, Interrupt, pc \in Body \cup {"start", "start2", "make"},
         held' \in BOOLEAN, raised' \in BOOLEAN, status' \in BOOLEAN
  PROVE  ProcessInv'
<1>1. Types /\ Faults /\ Current /\ Full /\ Running /\ Stopped /\ Counted
  BY DEF ProcessInv
<1>2. /\ pc' = "finally"
      /\ UNCHANGED <<then, peer, todo, services, connection, gateway, routes,
                     served>>
      /\ \A p \in processes' : p \in processes \/ (p = peer /\ pc = "open")
      /\ fault' = CASE pc = "add" /\ todo # {} -> "adding"
                    [] pc = "open" /\ processes' # processes -> "opening"
                    [] pc \in {"close", "remove"} -> "killing"
                    [] OTHER -> fault
  BY DEF Interrupt
<1>3. /\ pc \in Begun /\ fault \in {"none", "missed"} /\ ~ Adding'
      /\ (Adding <=> pc = "add") /\ ~ Incomplete /\ ~ Incomplete'
  BY <1>1, <1>2 DEF Begun, Body, Faults, Adding, Incomplete
<1>4. /\ fault' \in {"none", "missed", "adding", "opening", "killing"}
      /\ (fault' = "adding" <=> pc = "add" /\ todo # {})
      /\ (fault' = "killing" <=> pc \in {"close", "remove"})
      /\ pc = "open" /\ processes' # processes => fault' = "opening"
  BY <1>2, <1>3
<1>5. Types'
  BY <1>1, <1>2, <1>3, <1>4 DEF Types, NodeTypeOK, Current
<1>6. Faults' /\ Stopped' /\ Current'
  BY <1>1, <1>2, <1>3, <1>4 DEF Faults, Begun, Body, Stopped, Current
<1>7. Full'
  <2>1. pc = "add" /\ todo = {} => connection[peer] = Remote[peer]
    BY <1>1, <1>3 DEF Current
  <2>2. pc \notin {"stop", "ended"} /\ fault # "adding"
    BY <1>3 DEF Begun, Body
  <2>3. ASSUME NEW p \in DOMAIN connection
        PROVE  connection[p] = Remote[p] \/ (p = peer /\ pc = "add")
    BY <1>1, <1>3, <2>2 DEF Full
  <2>4. ASSUME NEW p \in DOMAIN connection
        PROVE  connection[p] = Remote[p] \/ (p = peer /\ fault' = "adding")
    BY <1>4, <2>1, <2>3
  <2>5. peer' = peer /\ connection' = connection
    BY <1>2
  <2> QED
    BY <2>4, <2>5 DEF Full
<1>8. Running'
  BY <1>1, <1>2, <1>3, <1>4 DEF Running, Current
<1>9. Counted'
  BY <1>1, <1>2, <1>3, <1>4, Unreferenced, SameRefs DEF Pending
<1> QED
  BY <1>5, <1>6, <1>7, <1>8, <1>9 DEF ProcessInv

LEMMA RaiseInv == ProcessInv /\ Raise => ProcessInv'
<1> SUFFICES ASSUME ProcessInv, Raise PROVE ProcessInv'
  OBVIOUS
<1>1. /\ Interrupt /\ pc \in Body \cup {"start", "start2", "make"}
      /\ held' \in BOOLEAN /\ raised' \in BOOLEAN /\ status' \in BOOLEAN
  BY DEF Raise, ProcessInv, Types, NodeTypeOK
<1> QED
  BY <1>1, InterruptInv

LEMMA SignalInv == ProcessInv /\ Signal => ProcessInv'
<1> SUFFICES ASSUME ProcessInv, Signal PROVE ProcessInv'
  OBVIOUS
<1>1. Types /\ Faults /\ Current /\ Full /\ Running /\ Stopped /\ Counted
  BY DEF ProcessInv
<1>2. CASE held \/ raised
  <2>1. /\ status' = TRUE /\ UNCHANGED <<pc, then, peer, todo, held, raised, services,
                               connection, processes, gateway, routes, served,
                               fault>>
    BY <1>2 DEF Signal, Handler, tunnels
  <2>2. (Adding <=> Adding') /\ (Incomplete <=> Incomplete')
    BY <2>1 DEF Adding, Incomplete
  <2>3. Types'
    BY <1>1, <2>1 DEF Types, NodeTypeOK
  <2>4. Faults' /\ Stopped' /\ Current' /\ Full' /\ Running'
    BY <1>1, <2>1, <2>2 DEF Faults, Stopped, Current, Full, Running
  <2>5. Counted'
    BY <1>1, <2>1, <2>2, Unreferenced, SameRefs DEF Pending
  <2> QED
    BY <2>3, <2>4, <2>5 DEF ProcessInv
<1>3. CASE ~ (held \/ raised) /\ pc \in Body
  <2>1. /\ Interrupt /\ status' = TRUE /\ raised' = TRUE /\ held' = held
    BY <1>3 DEF Signal, Handler
  <2> QED
    BY <1>1, <1>3, <2>1, InterruptInv DEF Types, NodeTypeOK
<1>4. CASE ~ (held \/ raised) /\ pc \notin Body
  <2>1. /\ pc' = "ended" /\ fault' = "skipped" /\ status' = TRUE /\ raised' = TRUE
        /\ UNCHANGED <<then, peer, todo, services, connection, processes, gateway,
                       routes, served, held>>
    BY <1>4 DEF Signal, Handler, tunnels
  <2>2. Incomplete' /\ ~ Adding'
    BY <2>1 DEF Incomplete, Adding
  <2>3. Types'
    BY <1>1, <2>1 DEF Types, NodeTypeOK
  <2> QED
    BY <2>1, <2>2, <2>3
      DEF ProcessInv, Faults, Begun, Body, Current, Full, Running, Stopped,
      Counted
<1> QED
  BY <1>2, <1>3, <1>4

\* Each tunnel gives back its references, unless its addresses were not all added.
LEMMA KillAllInv ==
  ASSUME NEW p \in Peer
  PROVE  ProcessInv /\ KillAll(p) => ProcessInv'
<1> SUFFICES ASSUME ProcessInv, KillAll(p) PROVE ProcessInv'
  OBVIOUS
<1>1. Types /\ Faults /\ Current /\ Full /\ Running /\ Stopped /\ Counted
  BY DEF ProcessInv
<1>2. /\ pc = "cleanup" /\ p \in DOMAIN connection
      /\ processes' = IF fault = "opening" /\ p = peer THEN processes
                      ELSE processes \ {p}
      /\ UNCHANGED <<then, peer, todo, held, status, raised, services, served, fault>>
  BY DEF KillAll, lock
<1>3. /\ fault # "skipped" /\ ~ Adding /\ ~ Incomplete
      /\ connection[p] \subseteq Remote[p] /\ Remote[p] \subseteq Ip
      /\ Refs \in [Ip -> Nat] /\ Counts(Refs, gateway, routes)
  BY <1>1, <1>2, RefsFacts, Addresses
    DEF Faults, Adding, Incomplete, Types, NodeTypeOK, Counted
<1>4. \A i \in connection[p] : Refs[i] > 0
  BY <1>1, <1>2, <1>3, Referenced
<1>5. CASE connection[p] = Remote[p]
  <2> DEFINE D == Remote[p]
             m == RemoveAll(Manager, D)
             new == [i \in Ip |-> IF i \in D THEN Refs[i] - 1 ELSE Refs[i]]
  <2>1. /\ connection' = [x \in DOMAIN connection \ {p} |-> connection[x]]
        /\ gateway' = m.dict /\ routes' = m.routes /\ pc' = pc
    BY <1>5 DEF KillAll, SetManager
  <2>2. Counts(new, m.dict, m.routes)
    BY <1>3, <1>4, <1>5, RemoveAllCounts
  <2>3. /\ DOMAIN connection' = DOMAIN connection \ {p}
        /\ \A x \in DOMAIN connection' : connection'[x] = connection[x]
    BY <2>1
  <2>4. ASSUME NEW i \in Ip PROVE Refs'[i] = new[i]
    <3>1. ServedFrom(i)' = ServedFrom(i) /\ Pending(i)' = Pending(i)
      BY <1>2, <2>1 DEF ServedFrom, Pending
    <3>2. CASE i \in D
      <4>1. MadeTo(i)' = MadeTo(i) \ {p} /\ p \in MadeTo(i)
        BY <1>2, <1>5, <2>3, <3>2 DEF MadeTo
      <4>2. Cardinality(MadeTo(i)') = Cardinality(MadeTo(i)) - 1
        BY <1>1, <4>1, RefsFacts, FS_RemoveElement
      <4>3. Refs'[i] = Refs[i] - 1
        BY <1>1, <3>1, <4>2, RefsFacts DEF Refs, References
      <4> QED
        BY <3>2, <4>3
    <3>3. CASE i \notin D
      <4>1. MadeTo(i)' = MadeTo(i)
        BY <1>2, <1>5, <2>3, <3>3 DEF MadeTo
      <4> QED
        BY <3>1, <3>3, <4>1 DEF Refs, References
    <3> QED
      BY <3>2, <3>3
  <2> HIDE DEF m, new
  <2>5. Types'
    <3>1. IsFiniteSet(DOMAIN connection')
      BY <1>1, <2>3, FS_Subset DEF Types
    <3>2. processes' \subseteq Peer
      BY <1>1, <1>2 DEF Types, NodeTypeOK
    <3> QED
      BY <1>1, <1>2, <2>1, <2>2, <2>3, <3>1, <3>2, CountsTypes
        DEF Types, NodeTypeOK, ManagerOK
  <2>6. ~ Adding' /\ ~ Incomplete'
    BY <1>2, <2>1 DEF Adding, Incomplete
  <2>7. Faults' /\ Stopped' /\ Current'
    BY <1>1, <1>2, <1>3, <2>1, <2>3, <2>6
      DEF Faults, Begun, Body, Stopped, Current
  <2>8. Full' /\ Running'
    BY <1>1, <1>2, <1>3, <2>1, <2>3, <2>6 DEF Full, Running
  <2>9. Counted'
    BY <2>1, <2>2, <2>4, Recounted
  <2> QED
    BY <2>5, <2>7, <2>8, <2>9 DEF ProcessInv
<1>6. CASE connection[p] # Remote[p]
  <2>1. PICK D \in SUBSET connection[p] :
          SetManager(RemoveAll(Manager, D)) /\ pc' = "stop" /\ UNCHANGED connection
    BY <1>6 DEF KillAll
  <2> DEFINE m == RemoveAll(Manager, D)
             new == [i \in Ip |-> IF i \in D THEN Refs[i] - 1 ELSE Refs[i]]
  <2>2. D \subseteq Ip /\ \A i \in D : Refs[i] > 0
    BY <1>3, <1>4, <2>1
  <2>3. Counts(new, m.dict, m.routes)
    BY <1>3, <2>2, RemoveAllCounts
  <2>4. gateway' = m.dict /\ routes' = m.routes
    BY <2>1 DEF SetManager
  <2> HIDE DEF m, new
  <2>5. Types'
    <3>1. processes' \subseteq Peer
      BY <1>1, <1>2 DEF Types, NodeTypeOK
    <3> QED
      BY <1>1, <1>2, <2>1, <2>3, <2>4, <3>1, CountsTypes
        DEF Types, NodeTypeOK, ManagerOK
  <2>6. p = peer /\ fault = "adding"
    BY <1>1, <1>2, <1>3, <1>6 DEF Full
  <2>7. Incomplete' /\ ~ Adding'
    BY <1>2, <2>1, <2>6 DEF Incomplete, Adding
  <2> QED
    BY <1>2, <2>1, <2>5, <2>6, <2>7
      DEF ProcessInv, Faults, Begun, Body, Current, Full,
      Running, Stopped, Counted
<1> QED
  BY <1>5, <1>6

-----------------------------------------------------------------------------
LEMMA ProcessStep == ProcessInv /\ [NodeNext]_nodeVars => ProcessInv'
<1> SUFFICES ASSUME ProcessInv, [NodeNext]_nodeVars PROVE ProcessInv'
  OBVIOUS
<1>1. CASE Step
  <2>1. \/ Starting \/ Free \/ Ending \/ Moving
        \/ Made \/ AddGateway \/ RemoveGateway \/ \E p \in Peer : KillAll(p)
    BY <1>1 DEF Step, Starting, Ending, Moving
  <2> QED
    BY <2>1, StartingInv, FreeInv, EndingInv, MovingInv, MadeInv, AddGatewayInv,
      RemoveGatewayInv, KillAllInv
<1>2. CASE Events
  <2>1. \/ Moving \/ \E p \in Peer : Kill(p)
        \/ \E c \in Client : Serve(c) \/ Unserve(c)
        \/ Raise \/ Signal
    BY <1>2 DEF Events, Moving
  <2> QED
    BY <2>1, MovingInv, KillInv, ServingInv, RaiseInv, SignalInv
<1>3. CASE UNCHANGED nodeVars
  <2>1. UNCHANGED <<pc, then, peer, todo, held, status, raised, services, connection,
                    processes, gateway, routes, served, fault>>
    BY <1>3 DEF nodeVars, lock, tunnels
  <2>2. (Adding <=> Adding') /\ (Incomplete <=> Incomplete')
    BY <2>1 DEF Adding, Incomplete
  <2>3. Types' /\ Faults' /\ Stopped' /\ Current' /\ Full' /\ Running'
    BY <2>1, <2>2
      DEF ProcessInv, Types, NodeTypeOK, Faults, Stopped, Current, Full, Running
  <2>4. Counted'
    BY <2>1, <2>2, Unreferenced, SameRefs DEF ProcessInv, Pending
  <2> QED
    BY <2>3, <2>4 DEF ProcessInv
<1> QED
  BY <1>1, <1>2, <1>3 DEF NodeNext

\* An address has an entry as long as a tunnel or a client uses it, the count is
\* right, and the kernel has the routes of the entries (MultiGatewayManager, add
\* and remove, and whoever calls them), for any number of peers and of addresses.
THEOREM RoutesAreCounted == NodeSpec => []SafeRoutes
<1>1. ProcessInv => SafeRoutes
  <2> SUFFICES ASSUME ProcessInv,
                      pc \in {"loop", "add", "open", "cleanup"},
                      fault \in {"none", "missed"}
               PROVE  /\ \A i \in Ip : References(i) = IF i \in DOMAIN gateway
                                     THEN gateway[i].count + 1 ELSE 0
                      /\ routes = {i \in DOMAIN gateway : gateway[i].gw}
    BY DEF ProcessInv, Types, SafeRoutes, RoutesCounted
  <2>1. Counts(Refs, gateway, routes) /\ Types
    BY DEF ProcessInv, Counted, Incomplete
  <2>2. \A i \in Ip : Refs[i] = References(i)
    BY <2>1, RefsFacts DEF Pending, References
  <2> QED
    BY <2>1, <2>2 DEF Counts
<1> QED
  BY <1>1, ProcessInit, ProcessStep, PTL DEF NodeSpec

\* A node that ends leaves no process and no route, but for the tunnel it was
\* making or killing (main, its clause finally, and killAll).
THEOREM LeavesNothing == NodeSpec => []NothingLeft
<1>1. ProcessInv => NothingLeft
  <2> SUFFICES ASSUME ProcessInv, pc = "ended", fault \notin {"skipped", "adding"}
               PROVE  /\ services = {}
                      /\ processes \subseteq IF fault \in {"opening", "killing"}
                                             THEN {peer} ELSE {}
                      /\ fault # "killing" =>
                           routes \subseteq {i \in DOMAIN gateway : gateway[i].gw
                                /\ \E c \in served : Trusted[c] = i}
    BY DEF NothingLeft
  <2>1. ~ Incomplete /\ Types
    BY DEF ProcessInv, Incomplete
  <2>2. services = {} /\ DOMAIN connection = {}
    BY <2>1 DEF ProcessInv, Stopped
  <2>3. processes \subseteq IF fault \in {"opening", "killing"} THEN {peer} ELSE {}
    BY <2>1, <2>2 DEF ProcessInv, Running
  <2>4. ASSUME fault # "killing", NEW i \in routes
        PROVE  i \in DOMAIN gateway /\ gateway[i].gw /\ \E c \in served : Trusted[c] = i
    <3>1. /\ i \in DOMAIN gateway /\ gateway[i].gw /\ i \in Ip
          /\ Refs[i] > 0
      BY <2>1 DEF ProcessInv, Counted, Counts, Entry
    <3>2. MadeTo(i) = {} /\ Pending(i) = 0
      BY <2>2, <2>4 DEF MadeTo, Pending
    <3>3. ServedFrom(i) # {}
      BY <2>1, <3>1, <3>2, RefsFacts, FS_EmptySet
    <3> QED
      BY <3>1, <3>3 DEF ServedFrom
  <2> QED
    BY <2>2, <2>3, <2>4
<1> QED
  BY <1>1, ProcessInit, ProcessStep, PTL DEF NodeSpec

\* Once a signal ended the main loop, other ones do not prevent the cleanup
\* (utils.exit).
THEOREM SignalsAreOnce == NodeSpec => SignalOnce
<1>1. [NodeNext]_nodeVars => [pc = "finally" /\ raised => pc' # "ended"]_nodeVars
  <2> SUFFICES ASSUME NodeNext, pc = "finally", raised PROVE pc' # "ended"
    BY DEF nodeVars
  <2>1. CASE Step
    BY <2>1 DEF Step, StartService, Stop, Up, UpDone, EnterLoop, Free, Made,
      AddGateway, Open, Close, RemoveGateway, Finally, KilledAll, End, KillAll
  <2>2. CASE Events
    BY <2>2 DEF Events, MakeTunnel, Reopen, Kill, ProcessEnd, Serve, Unserve,
      Raise, Interrupt, Signal, Handler
  <2> QED
    BY <2>1, <2>2 DEF NodeNext
<1> QED
  BY <1>1, PTL DEF NodeSpec, SignalOnce
=============================================================================
