----------------------- MODULE RegistrySessionProofs -----------------------
(***************************************************************************)
(* Proofs about the two sides of the registry's queue of requests: first   *)
(* RegistrySession, for any number of requests and secrets, and any loss,  *)
(* repetition or delay of requests; then RegistryQueries.                  *)
(***************************************************************************)
EXTENDS RegistrySession, RegistryQueries, FiniteSetTheorems, TLAPS

-----------------------------------------------------------------------------
(***************************************************************************)
(* Types.                                                                  *)
(***************************************************************************)
Types ==
  /\ TypeOK
  /\ IsFiniteSet(sent)
  /\ \A r \in sent : IF r.method = "hello" THEN r.key = NoKey ELSE r.key \in Key

Calls == {r \in sent : r.method # "hello"}

LEMMA TypesFacts ==
  ASSUME Types
  PROVE  /\ Cardinality(sent) \in Nat /\ NextId \in Nat
         /\ MaxRequest \in Nat /\ MaxSecret \in Nat
         /\ node \in Client
         /\ \A k \in Key : Ratchet(k) = [secret |-> k.secret, n |-> k.n + 1]
         /\ \A r \in sent : r \in Request /\ r.id \in Id
         /\ \A a \in answers : a \in Answer
         /\ \A r \in Calls : r \in sent /\ r.key \in Key
         /\ \A i \in DOMAIN session : session[i] \in Key
         /\ \A k \in Keys : k \in Key
<1>1. Cardinality(sent) \in Nat
  BY FS_CardinalityType DEF Types
<1>2. \A k \in Key : Ratchet(k) = [secret |-> k.secret, n |-> k.n + 1]
  BY DEF Ratchet, Key
<1>3. \A i \in DOMAIN session : session[i] \in Key
  BY DEF Types, TypeOK
<1> QED
  BY <1>1, <1>2, <1>3, Bounds DEF Types, TypeOK, NextId, Calls, Keys, Request

\* What the registry does only marks the call of the node.
Marks ==
  /\ node' \in Client
  /\ node'.hmac = node.hmac /\ node'.step = node.step
  /\ node'.request = node.request /\ node'.result = node.result
  /\ node'.kept \in {node.kept, FALSE}

LEMMA ServerMarks ==
  ASSUME Types,
         \/ \E r \in sent : Hello(r) \/ Authenticate(r) \/ Reject(r) \/ AnswerCall(r)
         \/ OtherHello \/ Revoke \/ RestartRegistry
  PROVE  Marks /\ sent' = sent
<1>1. /\ node \in Client
      /\ Disturbed \in Client
      /\ Disturbed.hmac = node.hmac /\ Disturbed.step = node.step
      /\ Disturbed.request = node.request /\ Disturbed.result = node.result
      /\ Disturbed.kept = node.kept
  BY DEF Types, TypeOK, Disturbed, Client
<1> DEFINE f == [Disturbed EXCEPT !.kept = FALSE]
<1>2. /\ f \in Client
      /\ f.hmac = node.hmac /\ f.step = node.step
      /\ f.request = node.request /\ f.result = node.result
      /\ f.kept = FALSE
  <2> HIDE DEF Disturbed
  <2> QED
    BY <1>1 DEF Client
<1> HIDE DEF f
<1>3. sent' = sent /\ (node' = node \/ node' = Disturbed \/ node' = f)
  BY DEF Hello, Authenticate, Reject, AnswerCall, OtherHello, Revoke,
    RestartRegistry, server, f
<1> QED
  BY <1>1, <1>2, <1>3 DEF Marks

\* What hello leaves.
LEMMA HandshakeKeys ==
  ASSUME Types, NEW k \in Key
  PROVE  /\ Handshake(k) \in Seq(Key) /\ Len(Handshake(k)) <= 2
         /\ {Handshake(k)[i] : i \in DOMAIN Handshake(k)} \subseteq Keys \cup {k}
<1> USE DEF Types, TypeOK
<1>1. CASE session = <<>>
  <2>1. Handshake(k) = <<k>>
    BY <1>1 DEF Handshake
  <2> QED
    BY <2>1
<1>2. CASE session # <<>>
  <2>1. /\ Handshake(k) = <<session[1], k>>
        /\ 1 \in DOMAIN session /\ session[1] \in Key /\ session[1] \in Keys
    BY <1>2 DEF Handshake, Keys
  <2> QED
    BY <2>1
<1> QED
  BY <1>1, <1>2

LEMMA NewClientType == NewClient \in Client
<1>1. 0 \in 0 .. MaxRequest
  BY Bounds
<1> QED
  BY <1>1 DEF NewClient, Client, Calling

LEMMA TypesInit == Init => Types
<1>1. NewClient \in Client
  BY NewClientType
<1> QED
  BY <1>1, Bounds, FS_EmptySet DEF Init, Types, TypeOK

\* What the actions of the client do to the fields of node.
LEMMA EndFields ==
  ASSUME Types, NEW res \in {"ok", "failed"}
  PROVE  /\ End(res) \in Client
         /\ End(res).hmac = node.hmac /\ End(res).step = "idle"
         /\ End(res).result = res /\ End(res).kept = node.kept
<1>1. node \in Client /\ 0 \in 0 .. MaxRequest
  BY Bounds, TypesFacts
<1>2. res \in {"ok", "failed", "running"} /\ "idle" \in {"idle", "loop", "hello", "call"}
  OBVIOUS
<1>3. End(res) = [node EXCEPT !.step = "idle", !.result = res, !.request = 0]
  BY DEF End
<1> QED
  BY <1>1, <1>2, <1>3 DEF Client

LEMMA FailedFields ==
  ASSUME Types
  PROVE  /\ Failed \in Client /\ Failed.hmac = NoKey
         /\ \/ Failed.step = "idle" /\ Failed.result = "failed"
            \/ Failed.step = "loop"
<1>1. CASE node.retry
  <2>1. Failed = [node EXCEPT !.step = "loop", !.hmac = NoKey, !.request = 0]
    BY <1>1 DEF Failed
  <2>2. node \in Client /\ 0 \in 0 .. MaxRequest
    BY Bounds, TypesFacts
  <2>3. "loop" \in {"idle", "loop", "hello", "call"} /\ NoKey \in Key \cup {NoKey}
    OBVIOUS
  <2> QED
    BY <2>1, <2>2, <2>3 DEF Client
<1>2. CASE ~ node.retry
  <2>1. /\ End("failed") \in Client /\ End("failed").step = "idle"
        /\ End("failed").result = "failed"
    BY EndFields
  <2>2. Failed = [End("failed") EXCEPT !.hmac = NoKey]
    BY <1>2 DEF Failed
  <2> HIDE DEF End
  <2> QED
    BY <2>1, <2>2 DEF Client
<1> QED
  BY <1>1, <1>2

LEMMA TypesStep == Types /\ [Next]_vars => Types'
<1> SUFFICES ASSUME Types, [Next]_vars
             PROVE  Types'
  OBVIOUS
<1>a. /\ TypeOK /\ IsFiniteSet(sent)
      /\ \A r \in sent : IF r.method = "hello" THEN r.key = NoKey ELSE r.key \in Key
  BY DEF Types
<1>b. /\ Cardinality(sent) \in Nat /\ NextId \in Nat
      /\ MaxRequest \in Nat /\ MaxSecret \in Nat
      /\ node \in Client
  BY TypesFacts
\* A request that is sent.
<1>c. ASSUME NEW m \in Method, NEW k \in Key \cup {NoKey},
             IF m = "hello" THEN k = NoKey ELSE k \in Key, NextId <= MaxRequest,
             Send([id |-> NextId, method |-> m, key |-> k])
      PROVE  /\ sent' \in SUBSET Request /\ IsFiniteSet(sent')
             /\ sent \subseteq sent'
             /\ \A r \in sent' : IF r.method = "hello" THEN r.key = NoKey ELSE r.key \in Key
             /\ NextId \in Id
  <2> DEFINE q == [id |-> NextId, method |-> m, key |-> k]
  <2>0. NextId \in Id
    BY <1>b, <1>c DEF Id, NextId
  <2>1. q \in Request /\ q.method = m /\ q.key = k
    BY <2>0 DEF Request
  <2>2. sent' = sent \cup {q}
    BY <1>c DEF Send
  <2>3. IsFiniteSet(sent')
    BY <1>a, <2>2, FS_AddElement
  <2> HIDE DEF q
  <2> QED
    BY <1>a, <1>c, <2>0, <2>1, <2>2, <2>3 DEF TypeOK
\* An answer.
<1>d. ASSUME NEW r \in sent, NEW ok \in BOOLEAN, NEW k \in Key \cup {NoKey},
             Reply(r, ok, k)
      PROVE  answers' \in SUBSET Answer
  <2>1. r.id \in Id
    BY TypesFacts
  <2>2. [id |-> r.id, ok |-> ok, key |-> k] \in Answer
    BY <2>1 DEF Answer
  <2> QED
    BY <1>a, <1>d, <2>2 DEF Reply, TypeOK
<1>1. ASSUME NEW m \in Calling, StartCall(m)
      PROVE  Types'
  <2>1. node' \in Client
    BY <1>a, <1>b, <1>1 DEF StartCall, Client, TypeOK
  <2> QED
    BY <1>a, <1>1, <2>1 DEF StartCall, Types, TypeOK, server
<1>2. CASE SendHello
  <2>1. /\ sent' \in SUBSET Request /\ IsFiniteSet(sent') /\ sent \subseteq sent'
        /\ \A r \in sent' : IF r.method = "hello" THEN r.key = NoKey ELSE r.key \in Key
        /\ NextId \in Id
    BY <1>2, <1>c DEF SendHello, Method
  <2>2. node' \in Client
    <3>1. node' = [node EXCEPT !.step = "hello", !.retry = FALSE,
                     !.request = NextId]
      BY <1>2 DEF SendHello, LastTry
    <3>2. NextId \in 0 .. MaxRequest /\ "hello" \in {"idle", "loop", "hello", "call"}
      BY <1>b, <2>1 DEF Id
    <3> QED
      BY <1>b, <3>1, <3>2 DEF Client
  <2> QED
    BY <1>a, <1>2, <2>1, <2>2 DEF SendHello, Types, TypeOK, server
<1>3. CASE SendCall
  <2>0. node.method \in Method /\ node.method # "hello" /\ node.hmac \in Key
    BY <1>b, <1>3 DEF SendCall, Client, Calling, Method
  <2>1. /\ sent' \in SUBSET Request /\ IsFiniteSet(sent') /\ sent \subseteq sent'
        /\ \A r \in sent' : IF r.method = "hello" THEN r.key = NoKey ELSE r.key \in Key
        /\ NextId \in Id
    <3>1. node.method # "hello" => node.hmac \in Key
      BY <2>0
    <3> QED
      BY <1>3, <1>c, <2>0, <3>1 DEF SendCall
  <2>2. Advance(node.hmac) \in Key
    BY <2>0, TypesFacts DEF Advance, Key
  <2>3. node' \in Client
    <3> DEFINE k == Advance(node.hmac)
    <3>1. node' = [node EXCEPT !.step = "call", !.request = NextId,
                     !.hmac = k, !.kept = TRUE]
      BY <1>3 DEF SendCall
    <3>2. k \in Key /\ NextId \in 0 .. MaxRequest
      BY <2>1, <2>2 DEF Id
    <3> HIDE DEF k
    <3> QED
      BY <1>b, <3>1, <3>2 DEF Client
  <2> QED
    BY <1>a, <1>3, <2>1, <2>3 DEF SendCall, Types, TypeOK, server
<1>4. ASSUME NEW a \in answers, ReceiveHello(a)
      PROVE  Types'
  <2>1. a.key \in Key \cup {NoKey}
    BY TypesFacts DEF Answer
  <2>2. node' \in Client
    BY <1>b, <1>4, <2>1, EndFields DEF ReceiveHello, Client
  <2> QED
    BY <1>a, <1>4, <2>2 DEF ReceiveHello, Types, TypeOK, server
<1>5. ASSUME NEW a \in answers, ReceiveResult(a)
      PROVE  Types'
  <2>1. node' \in Client
    BY <1>5, EndFields, FailedFields DEF ReceiveResult
  <2> QED
    BY <1>a, <1>5, <2>1 DEF ReceiveResult, Types, TypeOK, server
<1>6. CASE GiveUp
  <2>1. End("failed") \in Client
    BY EndFields
  <2>2. node' \in Client
    <3> HIDE DEF End
    <3> QED
      BY <1>6, <2>1 DEF GiveUp, Client
  <2> QED
    BY <1>a, <1>6, <2>2 DEF GiveUp, Types, TypeOK, server
<1>7. CASE RestartNode
  <2>1. NewClient \in Client
    BY NewClientType
  <2> QED
    BY <1>a, <1>7, <2>1 DEF RestartNode, Types, TypeOK, server
\* A secret that is drawn.
<1>e. ASSUME drawn < MaxSecret, drawn' = drawn + 1
      PROVE  drawn' \in 0 .. MaxSecret /\ [secret |-> drawn', n |-> 0] \in Key
  BY <1>a, <1>b, <1>e DEF TypeOK, Key, Secret
<1>8. ASSUME NEW r \in sent, Hello(r)
      PROVE  Types'
  <2>1. node' \in Client /\ sent' = sent
    BY <1>8, ServerMarks DEF Marks
  <2>2. CASE valid
    <3> DEFINE k == [secret |-> drawn', n |-> 0]
    <3>1. drawn' \in 0 .. MaxSecret /\ k \in Key
      BY <1>8, <1>e, <2>2 DEF Hello
    <3>2. session' = Handshake(k) /\ Reply(r, TRUE, k)
      BY <1>8, <2>2 DEF Hello
    <3>3. session' \in Seq(Key) /\ Len(session') <= 2
      BY <3>1, <3>2, HandshakeKeys
    <3>4. answers' \in SUBSET Answer
      BY <3>1, <3>2, <1>d
    <3> QED
      BY <1>a, <1>8, <2>1, <3>1, <3>3, <3>4 DEF Hello, Types, TypeOK
  <2>3. CASE ~ valid
    <3>1. answers' \in SUBSET Answer
      BY <1>8, <2>3, <1>d DEF Hello
    <3> QED
      BY <1>a, <1>8, <2>1, <2>3, <3>1 DEF Hello, Types, TypeOK
  <2> QED
    BY <2>2, <2>3
<1>9. CASE OtherHello
  <2>1. node' \in Client /\ sent' = sent
    BY <1>9, ServerMarks DEF Marks
  <2> DEFINE k == [secret |-> drawn', n |-> 0]
  <2>2. drawn' \in 0 .. MaxSecret /\ k \in Key
    BY <1>9, <1>e DEF OtherHello
  <2>3. session' = Handshake(k)
    BY <1>9 DEF OtherHello
  <2>4. session' \in Seq(Key) /\ Len(session') <= 2
    BY <2>2, <2>3, HandshakeKeys
  <2> QED
    BY <1>a, <1>9, <2>1, <2>2, <2>4 DEF OtherHello, Types, TypeOK
<1>10. ASSUME NEW r \in sent, Authenticate(r)
       PROVE  Types'
  <2>1. node' \in Client /\ sent' = sent
    BY <1>10, ServerMarks DEF Marks
  <2>2. r.key \in Key
    BY <1>10, TypesFacts DEF Authenticate
  <2>3. Ratchet(r.key) \in Key
    BY <2>2, TypesFacts DEF Key
  <2>4. session' = <<Ratchet(r.key)>>
    BY <1>10 DEF Authenticate, AfterUse
  <2>5. session' \in Seq(Key) /\ Len(session') <= 2
    BY <2>3, <2>4
  <2>6. accepted' \in [Id -> Nat]
    <3>1. accepted \in [Id -> Nat] /\ r.id \in Id
      BY <1>a, TypesFacts DEF TypeOK
    <3>2. accepted[r.id] + 1 \in Nat
      BY <3>1
    <3>3. accepted' = [accepted EXCEPT ![r.id] = accepted[r.id] + 1]
      BY <1>10 DEF Authenticate
    <3> QED
      BY <3>1, <3>2, <3>3
  <2> QED
    BY <1>a, <1>10, <2>1, <2>5, <2>6 DEF Authenticate, Types, TypeOK
<1>11. ASSUME NEW r \in sent, Reject(r)
       PROVE  Types'
  <2>1. node' \in Client /\ sent' = sent
    BY <1>11, ServerMarks DEF Marks
  <2>2. answers' \in SUBSET Answer
    BY <1>11, <1>d DEF Reject
  <2> QED
    BY <1>a, <1>11, <2>1, <2>2 DEF Reject, Types, TypeOK, server
<1>12. ASSUME NEW r \in sent, AnswerCall(r)
       PROVE  Types'
  <2>1. Result(r) \in BOOLEAN
    BY <1>a DEF Result, TypeOK
  <2>2. r.key \in Key \cup {NoKey}
    BY TypesFacts DEF Request
  <2>3. answers' \in SUBSET Answer
    BY <1>12, <2>1, <2>2, <1>d DEF AnswerCall
  <2> QED
    BY <1>a, <1>12, <2>3 DEF AnswerCall, Types, TypeOK
<1>13. CASE Revoke \/ RestartRegistry
  <2>1. node' \in Client /\ sent' = sent
    BY <1>13, ServerMarks DEF Marks
  <2>2. session' = <<>> /\ threads' \subseteq threads /\ valid' \in BOOLEAN
        /\ answers' = answers /\ drawn' = drawn /\ accepted' = accepted
    BY <1>a, <1>13 DEF Revoke, RestartRegistry, TypeOK
  <2>3. session' \in Seq(Key) /\ Len(session') <= 2
    BY <2>2
  <2> QED
    BY <1>a, <2>1, <2>2, <2>3 DEF Types, TypeOK
<1>14. CASE UNCHANGED vars
  BY <1>a, <1>14 DEF vars, Types, TypeOK
<1> QED
  BY <1>1, <1>2, <1>3, <1>4, <1>5, <1>6, <1>7, <1>8, <1>9, <1>10, <1>11, <1>12,
     <1>13, <1>14 DEF Next, Act

\* The types hold; among others, the registry never keeps more than two keys for
\* a node.
THEOREM TypeCorrect == Spec => []TypeOK
<1>1. Types => TypeOK
  BY DEF Types
<1> QED
  BY <1>1, TypesInit, TypesStep, PTL DEF Spec

-----------------------------------------------------------------------------
(***************************************************************************)
(* The inductive invariant.                                                *)
(***************************************************************************)
\* Requests are numbered in the order they are sent.
Numbers ==
  /\ \A r \in sent : r.id < NextId
  /\ \A q, r \in sent : q.id = r.id => q = r
  /\ \A i \in Id : i >= NextId => accepted[i] = 0
  /\ \A a \in answers : a.id < NextId

\* Anything that is signed is signed with a secret that was drawn.
Secrets ==
  /\ \A r \in Calls : r.key.secret <= drawn
  /\ \A a \in answers : a.key # NoKey => a.key.secret <= drawn
  /\ node.hmac # NoKey => node.hmac.secret <= drawn

\* The registry only executes calls, and only answers what it executed.
Executed ==
  /\ \A r \in threads : r \in Calls /\ accepted[r.id] > 0
  /\ \A a \in answers, r \in Calls : a.id = r.id /\ a.ok => accepted[r.id] > 0

\* What the node waits for.
Waiting ==
  /\ node.step = "hello" =>
       \E r \in sent : r.id = node.request /\ r.method = "hello"
  /\ node.step = "call" =>
       \E r \in Calls : r.id = node.request /\ node.hmac = Ratchet(r.key)

\* The secret that hello gives was never used.
Fresh ==
  node.step = "hello" =>
    \A a \in answers : a.id = node.request /\ a.ok =>
      a.key \in Key /\ \A r \in Calls : r.key.secret # a.key.secret

\* The node goes forward on the keys of a secret, and so does the registry.
ClientForward ==
  node.hmac # NoKey =>
    \A r \in Calls : r.key.secret = node.hmac.secret => r.key.n < node.hmac.n

RegistryForward ==
  \A r \in Calls : accepted[r.id] > 0 =>
    \A k \in Keys : k.secret = r.key.secret => r.key.n < k.n

\* From the moment a call is executed, the registry expects the next key of
\* the node, and what hello added is a secret that the node never used.
InStep ==
  node.kept /\ \/ node.step = "idle" /\ node.result = "ok"
               \/ node.step = "call" /\ accepted[node.request] > 0
  => /\ session # <<>> /\ session[1] = node.hmac
     /\ \A i \in DOMAIN session : i # 1 =>
          \A r \in Calls : r.key.secret < session[i].secret

IInv ==
  /\ Types /\ Numbers /\ Secrets /\ Executed /\ Waiting /\ Fresh
  /\ ClientForward /\ RegistryForward /\ InStep
  /\ SignedOnce /\ ExecutedOnce

LEMMA IInvInit == Init => IInv
<1> SUFFICES ASSUME Init
             PROVE  IInv
  OBVIOUS
<1>1. Types
  BY TypesInit
<1>2. /\ sent = {} /\ answers = {} /\ session = <<>> /\ threads = {}
      /\ node.hmac = NoKey /\ node.step = "idle" /\ node.kept = FALSE
      /\ \A i \in Id : accepted[i] = 0
  BY DEF Init, NewClient
<1>3. Calls = {} /\ Keys = {}
  BY <1>2 DEF Calls, Keys
<1> QED
  BY <1>1, <1>2, <1>3 DEF IInv, Numbers, Secrets, Executed, Waiting, Fresh,
    ClientForward, RegistryForward, InStep, SignedOnce, ExecutedOnce

-----------------------------------------------------------------------------
(***************************************************************************)
(* The steps of the client.                                                *)
(***************************************************************************)
\* The client sends nothing and gets no key.
Quiet ==
  /\ sent' = sent /\ answers' = answers /\ UNCHANGED server
  /\ node'.hmac \in {node.hmac, NoKey}
  /\ node'.step \in {"idle", "loop"}
  /\ node'.kept /\ node'.step = "idle" /\ node'.result = "ok" =>
       /\ node.kept /\ node'.hmac = node.hmac /\ node.step = "call"
       /\ \E a \in answers : a.id = node.request /\ a.ok

LEMMA QuietSteps ==
  ASSUME IInv,
         \/ \E m \in Calling : StartCall(m)
         \/ GiveUp
         \/ RestartNode
         \/ \E a \in answers : ReceiveResult(a)
         \/ \E a \in answers : ReceiveHello(a) /\ ~ a.ok
  PROVE  Quiet
<1>0. Types /\ node \in Client
  BY TypesFacts DEF IInv
<1>1. ASSUME NEW m \in Calling, StartCall(m)
      PROVE  Quiet
  <2>1. /\ node'.hmac = node.hmac /\ node'.step = "loop"
    BY <1>0, <1>1 DEF StartCall, Client
  <2> QED
    BY <1>1, <2>1 DEF StartCall, Quiet
<1>2. CASE GiveUp
  <2>1. /\ End("failed") \in Client
        /\ End("failed").hmac = node.hmac /\ End("failed").step = "idle"
        /\ End("failed").result = "failed"
    BY <1>0, EndFields
  <2>2. node'.hmac = node.hmac /\ node'.step = "idle" /\ node'.result = "failed"
    <3> HIDE DEF End
    <3> QED
      BY <1>2, <2>1 DEF GiveUp, Client
  <2> QED
    BY <1>2, <2>2 DEF GiveUp, Quiet
<1>3. CASE RestartNode
  <2>1. node'.hmac = NoKey /\ node'.step = "idle" /\ node'.kept = FALSE
    BY <1>3 DEF RestartNode, NewClient
  <2> QED
    BY <1>3, <2>1 DEF RestartNode, Quiet
<1>4. ASSUME NEW a \in answers, ReceiveResult(a)
      PROVE  Quiet
  <2>0. sent' = sent /\ answers' = answers /\ UNCHANGED server
        /\ node.step = "call" /\ a.id = node.request
    BY <1>4 DEF ReceiveResult
  <2>1. CASE a.ok
    <3>1. node' = End("ok")
      BY <1>4, <2>1 DEF ReceiveResult
    <3>2. node'.hmac = node.hmac /\ node'.step = "idle" /\ node'.kept = node.kept
      BY <1>0, <3>1, EndFields
    <3> QED
      BY <2>0, <2>1, <3>2 DEF Quiet
  <2>2. CASE ~ a.ok
    <3>1. node' = Failed
      BY <1>4, <2>2 DEF ReceiveResult
    <3>2. /\ node'.hmac = NoKey
          /\ \/ node'.step = "idle" /\ node'.result = "failed"
             \/ node'.step = "loop"
      BY <1>0, <3>1, FailedFields
    <3> QED
      BY <2>0, <3>2 DEF Quiet
  <2> QED
    BY <2>1, <2>2
<1>5. ASSUME NEW a \in answers, ReceiveHello(a), ~ a.ok
      PROVE  Quiet
  <2>1. node' = End("failed")
    BY <1>5 DEF ReceiveHello
  <2>2. /\ node'.hmac = node.hmac /\ node'.step = "idle"
        /\ node'.result = "failed"
    BY <1>0, <2>1, EndFields
  <2> QED
    BY <1>5, <2>2 DEF ReceiveHello, Quiet
<1> QED
  BY <1>1, <1>2, <1>3, <1>4, <1>5

LEMMA QuietInv ==
  ASSUME IInv, Types', Quiet
  PROVE  IInv'
<1>1. /\ Calls' = Calls /\ Keys' = Keys /\ NextId' = NextId
      /\ sent' = sent /\ answers' = answers /\ session' = session
      /\ threads' = threads /\ drawn' = drawn /\ accepted' = accepted
  BY DEF Quiet, server, Calls, Keys, NextId
<1>2. Numbers' /\ Executed' /\ RegistryForward' /\ SignedOnce' /\ ExecutedOnce'
  BY <1>1 DEF IInv, Numbers, Executed, RegistryForward, SignedOnce, ExecutedOnce
<1>3. Secrets' /\ ClientForward'
  BY <1>1 DEF IInv, Quiet, Secrets, ClientForward
<1>4. Waiting' /\ Fresh'
  BY DEF Quiet, Waiting, Fresh
<1>5. InStep'
  <2> SUFFICES ASSUME node'.kept, node'.step = "idle", node'.result = "ok"
               PROVE  InStep'
    BY DEF Quiet, InStep
  <2>1. PICK a \in answers : a.id = node.request /\ a.ok
    BY DEF Quiet
  <2>2. node.kept /\ node'.hmac = node.hmac /\ node.step = "call"
    BY DEF Quiet
  <2>3. PICK r \in Calls : r.id = node.request
    BY <2>2 DEF IInv, Waiting
  <2>4. accepted[node.request] > 0
    BY <2>1, <2>3 DEF IInv, Executed
  <2> QED
    BY <1>1, <2>2, <2>4 DEF IInv, InStep
<1> QED
  BY <1>2, <1>3, <1>4, <1>5 DEF IInv

\* The secret that is received was never used: it does not matter how.
LEMMA ReceiveHelloInv ==
  ASSUME IInv, Types', NEW a \in answers, ReceiveHello(a), a.ok
  PROVE  IInv'
<1>1. /\ Calls' = Calls /\ Keys' = Keys /\ NextId' = NextId
      /\ sent' = sent /\ answers' = answers /\ session' = session
      /\ threads' = threads /\ drawn' = drawn /\ accepted' = accepted
  BY DEF ReceiveHello, server, Calls, Keys, NextId
<1>2. /\ node.step = "hello" /\ a.id = node.request
      /\ node' = [node EXCEPT !.step = "loop", !.hmac = a.key]
  BY DEF ReceiveHello
<1>3. node \in Client
  BY TypesFacts DEF IInv
<1>4. node'.step = "loop" /\ node'.hmac = a.key
  BY <1>2, <1>3 DEF Client
<1>5. Numbers' /\ Executed' /\ RegistryForward' /\ SignedOnce' /\ ExecutedOnce'
  BY <1>1 DEF IInv, Numbers, Executed, RegistryForward, SignedOnce, ExecutedOnce
<1>6. Secrets'
  BY <1>1, <1>4 DEF IInv, Secrets
<1>7. Waiting' /\ Fresh' /\ InStep'
  BY <1>2, <1>4 DEF IInv, Waiting, Fresh, InStep
<1>8. ClientForward'
  BY <1>1, <1>2, <1>4 DEF IInv, Fresh, ClientForward
<1> QED
  BY <1>5, <1>6, <1>7, <1>8 DEF IInv

\* A request has a number of its own.
LEMMA SendFacts ==
  ASSUME IInv, NEW q, q.id = NextId, Send(q)
  PROVE  /\ sent' = sent \cup {q} /\ NextId' = NextId + 1
         /\ \A r \in sent : r.id # q.id /\ r.id \in Nat /\ r.id < NextId
         /\ NextId \in Nat
<1>1. /\ Types /\ IsFiniteSet(sent) /\ NextId \in Nat
      /\ \A r \in sent : r.id < NextId
      /\ \A r \in sent : r.id \in Id
  BY TypesFacts DEF IInv, Types, Numbers
<1>2. \A r \in sent : r.id \in Nat
  BY <1>1 DEF Id
<1>3. q \notin sent
  BY <1>1, <1>2
<1>4. sent' = sent \cup {q}
  BY DEF Send
<1>5. Cardinality(sent \cup {q}) = Cardinality(sent) + 1
  BY <1>1, <1>3, FS_AddElement
<1>6. NextId' = NextId + 1
  BY <1>4, <1>5 DEF NextId
<1> QED
  BY <1>1, <1>2, <1>4, <1>6

\* Its number is not used by anything else.
LEMMA SendNumbers ==
  ASSUME IInv, NEW q, q.id = NextId, Send(q),
         answers' = answers, accepted' = accepted
  PROVE  Numbers'
<1>1. /\ sent' = sent \cup {q} /\ NextId' = NextId + 1
      /\ \A r \in sent : r.id # q.id /\ r.id \in Nat /\ r.id < NextId
      /\ NextId \in Nat
  BY SendFacts
<1>2. \A r \in sent' : r.id < NextId'
  BY <1>1
<1>3. \A p, r \in sent' : p.id = r.id => p = r
  BY <1>1 DEF IInv, Numbers
<1>4. \A i \in Id : i >= NextId' => accepted'[i] = 0
  BY <1>1 DEF IInv, Numbers, Id
<1>5. \A a \in answers : a.id \in Nat /\ a.id < NextId
  BY TypesFacts DEF IInv, Numbers, Answer, Id
<1>6. \A a \in answers' : a.id < NextId'
  BY <1>1, <1>5
<1> QED
  BY <1>2, <1>3, <1>4, <1>6 DEF Numbers

LEMMA SendHelloInv ==
  ASSUME IInv, Types', SendHello
  PROVE  IInv'
<1> DEFINE q == [id |-> NextId, method |-> "hello", key |-> NoKey]
<1>0. node \in Client
  BY TypesFacts DEF IInv
<1>1. /\ Send(q) /\ q.id = NextId /\ q.method = "hello"
      /\ answers' = answers /\ session' = session
      /\ threads' = threads /\ drawn' = drawn /\ accepted' = accepted
      /\ node.hmac = NoKey
  BY DEF SendHello, server
<1>2. /\ node'.step = "hello" /\ node'.hmac = node.hmac
      /\ node'.request = NextId
      /\ node.step = "loop"
  BY <1>0 DEF SendHello, Client
<1> HIDE DEF q
<1>3. /\ sent' = sent \cup {q}
      /\ NextId \in Nat
  BY <1>1, SendFacts
<1>4. Calls' = Calls /\ Keys' = Keys
  BY <1>1, <1>3 DEF Calls, Keys
<1>5. Numbers'
  BY <1>1, SendNumbers
<1>6. Secrets' /\ Executed' /\ ClientForward' /\ RegistryForward' /\ ExecutedOnce'
  BY <1>1, <1>2, <1>4 DEF IInv, Secrets, Executed, ClientForward, RegistryForward,
    ExecutedOnce
<1>7. Waiting'
  BY <1>1, <1>2, <1>3 DEF IInv, Waiting
<1>8. Fresh'
  <2>1. \A a \in answers : a.id \in Nat /\ a.id < NextId
    BY TypesFacts DEF IInv, Numbers, Answer, Id
  <2>2. \A a \in answers' : a.id # node'.request
    BY <1>1, <1>2, <1>3, <2>1
  <2> QED
    BY <2>2 DEF Fresh
<1>9. InStep'
  BY <1>2 DEF InStep
<1>10. SignedOnce'
  <2>1. SignedOnce /\ Types
    BY DEF IInv
  <2>2. \A r \in sent : r.method # "hello" => r.key # q.key
    BY <1>1, <2>1, NoKeyIsNone DEF Types, q
  <2> QED
    BY <1>1, <1>3, <2>1, <2>2 DEF SignedOnce
<1> QED
  BY <1>5, <1>6, <1>7, <1>8, <1>9, <1>10 DEF IInv

LEMMA SendCallInv ==
  ASSUME IInv, Types', SendCall
  PROVE  IInv'
<1> DEFINE q == [id |-> NextId, method |-> node.method, key |-> node.hmac]
           h == Ratchet(node.hmac)
<1>0. /\ node \in Client /\ node.hmac \in Key /\ drawn \in Nat
      /\ node.hmac.n \in Nat /\ node.hmac.secret \in Nat
      /\ node.hmac # NoKey
  <2>1. node \in Client /\ drawn \in Nat /\ MaxSecret \in Nat
    BY TypesFacts DEF IInv, Types, TypeOK
  <2>2. node.hmac \in Key /\ node.hmac # NoKey
    BY <2>1 DEF SendCall, Client
  <2> QED
    BY <2>1, <2>2 DEF Key, Secret
<1>1. /\ Send(q) /\ q.id = NextId /\ q.method = node.method /\ q.key = node.hmac
      /\ answers' = answers /\ session' = session
      /\ threads' = threads /\ drawn' = drawn /\ accepted' = accepted
      /\ node.method # "hello"
  <2>1. node.method # "hello"
    BY <1>0 DEF Client, Calling
  <2> QED
    BY <2>1 DEF SendCall, server
<1>2. /\ node'.step = "call" /\ node'.hmac = h /\ node'.request = NextId
  <2>1. node' = [node EXCEPT !.step = "call", !.request = NextId,
                   !.hmac = h, !.kept = TRUE]
    BY DEF SendCall, Advance
  <2> HIDE DEF h
  <2> QED
    BY <1>0, <2>1 DEF Client
<1>3. h \in Key /\ h.secret = node.hmac.secret /\ h.n = node.hmac.n + 1
      /\ h # NoKey
  BY <1>0, TypesFacts, NoKeyIsNone DEF IInv, Key
<1> HIDE DEF q, h
<1>4. /\ sent' = sent \cup {q}
      /\ NextId \in Nat
  BY <1>1, SendFacts
<1>5. Calls' = Calls \cup {q} /\ Keys' = Keys
  BY <1>1, <1>4 DEF Calls, Keys
<1>6. \A r \in Calls : r.key \in Key /\ r.key.n \in Nat /\ r.key.secret \in Nat
  BY TypesFacts DEF IInv, Key, Secret
<1>7. Numbers'
  BY <1>1, SendNumbers
<1>8. NextId \in Id /\ accepted'[NextId] = 0
  <2>1. NextId <= MaxRequest
    BY DEF SendCall
  <2>3. NextId >= 1 /\ MaxRequest \in Nat
    BY FS_CardinalityType, Bounds DEF IInv, Types, NextId
  <2>2. NextId \in Id
    BY <1>4, <2>1, <2>3 DEF Id
  <2> QED
    BY <1>1, <1>4, <2>2 DEF IInv, Numbers
<1>9. Secrets'
  BY <1>0, <1>1, <1>2, <1>3, <1>5 DEF IInv, Secrets
<1>10. Executed'
  <2>1. \A a \in answers : a.id # NextId
    BY <1>4, TypesFacts DEF IInv, Numbers, Answer, Id
  <2>2. \A r \in threads : r \in Calls /\ accepted[r.id] > 0
    BY DEF IInv, Executed
  <2>3. \A a \in answers, r \in Calls : a.id = r.id /\ a.ok => accepted[r.id] > 0
    BY DEF IInv, Executed
  <2> QED
    BY <1>1, <1>5, <2>1, <2>2, <2>3 DEF Executed
<1>11. Waiting'
  <2>1. h = Ratchet(q.key)
    BY <1>1 DEF h
  <2> QED
    BY <1>1, <1>2, <1>5, <2>1 DEF Waiting, Ratchet
<1>12. Fresh'
  BY <1>2 DEF Fresh
<1>13. ClientForward'
  <2>1. \A r \in Calls : r.key.secret = node.hmac.secret => r.key.n < node.hmac.n
    BY <1>0 DEF IInv, ClientForward
  <2>2. \A r \in Calls' : r.key.secret = h.secret => r.key.n < h.n
    BY <1>0, <1>1, <1>3, <1>5, <1>6, <2>1
  <2> QED
    BY <1>2, <2>2 DEF ClientForward
<1>14. RegistryForward'
  <2>1. ~ accepted'[q.id] > 0
    BY <1>1, <1>8
  <2> QED
    BY <1>1, <1>5, <2>1 DEF IInv, RegistryForward
<1>15. InStep'
  BY <1>2, <1>8 DEF InStep
<1>16. SignedOnce'
  <2>1. \A r \in Calls : r.key # q.key
    BY <1>0, <1>1, <1>6 DEF IInv, ClientForward
  <2>2. SignedOnce /\ Types
    BY DEF IInv
  <2>3. \A r \in sent : r.key # q.key
    <3>1. q.key # NoKey
      BY <1>0, <1>1
    <3> QED
      BY <2>1, <2>2, <3>1 DEF Calls, Types
  <2> QED
    BY <1>4, <2>2, <2>3 DEF SignedOnce
<1>17. ExecutedOnce'
  BY <1>1 DEF IInv, ExecutedOnce
<1> QED
  BY <1>7, <1>9, <1>10, <1>11, <1>12, <1>13, <1>14, <1>15, <1>16, <1>17 DEF IInv

-----------------------------------------------------------------------------
(***************************************************************************)
(* The steps of the registry.                                              *)
(***************************************************************************)
\* What the registry does not change.
LEMMA MarksInv ==
  ASSUME IInv, Marks, sent' = sent, UNCHANGED accepted
  PROVE  /\ Calls' = Calls /\ NextId' = NextId
         /\ SignedOnce' /\ ExecutedOnce' /\ Waiting' /\ ClientForward'
<1>1. Calls' = Calls /\ NextId' = NextId
  BY DEF Calls, NextId
<1>2. SignedOnce' /\ ExecutedOnce'
  BY DEF IInv, SignedOnce, ExecutedOnce
<1>3. Waiting'
  BY <1>1 DEF IInv, Marks, Waiting
<1>4. ClientForward'
  BY <1>1 DEF IInv, Marks, ClientForward
<1> QED
  BY <1>1, <1>2, <1>3, <1>4

\* The registry answers a request.
LEMMA ReplyInv ==
  ASSUME IInv, Types', Marks, sent' = sent, UNCHANGED accepted, drawn' >= drawn,
         NEW r \in sent, NEW ok \in BOOLEAN, NEW k \in Key \cup {NoKey},
         Reply(r, ok, k), k # NoKey => k.secret <= drawn',
         ok /\ r \in Calls => accepted[r.id] > 0,
         ok /\ r.method = "hello" =>
           k \in Key /\ \A q \in Calls : q.key.secret # k.secret
  PROVE  Numbers' /\ Secrets' /\ Fresh'
         /\ \A a \in answers', q \in Calls : a.id = q.id /\ a.ok => accepted[q.id] > 0
<1> DEFINE b == [id |-> r.id, ok |-> ok, key |-> k]
<1>1. Calls' = Calls /\ NextId' = NextId
  BY MarksInv
<1>2. /\ answers' = answers \cup {b}
      /\ b.id = r.id /\ b.ok = ok /\ b.key = k
  BY DEF Reply
<1> HIDE DEF b
<1>3. /\ \A p, q \in sent : p.id = q.id => p = q
      /\ \A q \in Calls : q \in sent /\ q.method # "hello"
      /\ drawn \in Nat /\ drawn' \in Nat
  BY DEF IInv, Numbers, Calls, Types, TypeOK
<1>4. Numbers'
  BY <1>1, <1>2 DEF IInv, Numbers
<1>5. Secrets'
  <2>1. \A q \in Calls : q.key.secret \in Nat /\ q.key.secret <= drawn
    BY TypesFacts DEF IInv, Secrets, Key, Secret
  <2>2. \A a \in answers : a.key # NoKey => a.key.secret \in Nat /\ a.key.secret <= drawn
    BY TypesFacts DEF IInv, Secrets, Answer, Key, Secret
  <2>3. node.hmac # NoKey => node.hmac.secret \in Nat /\ node.hmac.secret <= drawn
    BY TypesFacts DEF IInv, Secrets, Client, Key, Secret
  <2>4. \A q \in Calls' : q.key.secret <= drawn'
    BY <1>1, <1>3, <2>1
  <2>5. \A a \in answers' : a.key # NoKey => a.key.secret <= drawn'
    BY <1>2, <1>3, <2>2
  <2>6. node'.hmac # NoKey => node'.hmac.secret <= drawn'
    BY <1>3, <2>3 DEF Marks
  <2> QED
    BY <2>4, <2>5, <2>6 DEF Secrets
<1>6. Fresh'
  <2> SUFFICES ASSUME node'.step = "hello",
                      NEW a \in answers', a.id = node'.request, a.ok
               PROVE  a.key \in Key /\ \A q \in Calls' : q.key.secret # a.key.secret
    BY DEF Fresh
  <2>1. node.step = "hello" /\ a.id = node.request
    BY DEF Marks
  <2>2. CASE a \in answers
    BY <1>1, <2>1, <2>2 DEF IInv, Fresh
  <2>3. CASE a = b
    <3>1. PICK q \in sent : q.id = node.request /\ q.method = "hello"
      BY <2>1 DEF IInv, Waiting
    <3>2. q = r
      BY <1>2, <1>3, <2>1, <2>3, <3>1
    <3> QED
      BY <1>1, <1>2, <2>3, <3>1, <3>2
  <2> QED
    BY <1>2, <2>2, <2>3
<1>7. \A a \in answers', q \in Calls : a.id = q.id /\ a.ok => accepted[q.id] > 0
  BY <1>2, <1>3 DEF IInv, Executed
<1> QED
  BY <1>4, <1>5, <1>6, <1>7

\* A key that hello adds can only be used by calls that are not sent yet.
LEMMA HandshakeInv ==
  ASSUME IInv, Types', Marks, sent' = sent, UNCHANGED accepted,
         NEW k \in Key, k.secret = drawn + 1, session' = Handshake(k)
  PROVE  RegistryForward' /\ InStep'
<1>1. Calls' = Calls
  BY MarksInv
<1>2. /\ \A q \in Calls : q.key.secret \in Nat /\ q.key.secret <= drawn
      /\ drawn \in Nat
  BY TypesFacts DEF IInv, Types, TypeOK, Secrets, Key, Secret
<1>3. \A q \in Calls : q.key.secret < k.secret
  BY <1>2
<1>4. Keys' \subseteq Keys \cup {k}
  <2>1. {Handshake(k)[i] : i \in DOMAIN Handshake(k)} \subseteq Keys \cup {k}
    BY HandshakeKeys DEF IInv
  <2>2. Keys' = {Handshake(k)[i] : i \in DOMAIN Handshake(k)}
    BY DEF Keys
  <2> QED
    BY <2>1, <2>2
<1>5. RegistryForward'
  <2>1. \A q \in Calls : k.secret # q.key.secret
    BY <1>2
  <2> QED
    BY <1>1, <1>4, <2>1 DEF IInv, RegistryForward
<1>6. InStep'
  <2> SUFFICES ASSUME node'.kept,
                      \/ node'.step = "idle" /\ node'.result = "ok"
                      \/ node'.step = "call" /\ accepted'[node'.request] > 0
               PROVE  InStep'
    BY DEF InStep
  <2>1. session # <<>> /\ session[1] = node.hmac
    BY DEF IInv, InStep, Marks
  <2>2. session' = <<session[1], k>>
    BY <2>1 DEF Handshake
  <2>3. session' # <<>> /\ session'[1] = node'.hmac
    BY <2>1, <2>2 DEF Marks
  <2>4. \A i \in DOMAIN session' : i # 1 => session'[i] = k
    BY <2>2
  <2>5. \A i \in DOMAIN session' : i # 1 =>
          \A q \in Calls' : q.key.secret < session'[i].secret
    BY <1>1, <1>3, <2>4
  <2> QED
    BY <2>3, <2>5 DEF InStep
<1> QED
  BY <1>5, <1>6

LEMMA HelloInv ==
  ASSUME IInv, Types', NEW r \in sent, Hello(r)
  PROVE  IInv'
<1>1. Marks /\ sent' = sent /\ UNCHANGED <<threads, accepted>>
      /\ r.method = "hello" /\ drawn \in Nat /\ r \notin Calls
  <2>1. Marks /\ sent' = sent
    BY ServerMarks DEF IInv
  <2>2. drawn \in Nat
    BY DEF IInv, Types, TypeOK
  <2> QED
    BY <2>1, <2>2 DEF Hello, Calls
<1>2. Calls' = Calls /\ SignedOnce' /\ ExecutedOnce' /\ Waiting' /\ ClientForward'
  BY <1>1, MarksInv
<1>3. CASE valid
  <2> DEFINE k == [secret |-> drawn', n |-> 0]
  <2>1. /\ drawn' = drawn + 1 /\ session' = Handshake(k) /\ Reply(r, TRUE, k)
        /\ k.secret = drawn + 1
    BY <1>3 DEF Hello
  <2>2. k \in Key /\ drawn' >= drawn /\ k.secret <= drawn'
    <3>1. drawn' <= MaxSecret /\ MaxSecret \in Nat
      BY Bounds DEF Types, TypeOK
    <3>2. drawn' \in Secret
      BY <1>1, <2>1, <3>1 DEF Secret
    <3> QED
      BY <1>1, <2>1, <3>2 DEF Key
  <2> HIDE DEF k
  <2>3. \A q \in Calls : q.key.secret # k.secret
    <3>1. \A q \in Calls : q.key.secret \in Nat /\ q.key.secret <= drawn
      BY TypesFacts DEF IInv, Secrets, Key, Secret
    <3> QED
      BY <1>1, <2>1, <3>1
  <2>4. /\ Numbers' /\ Secrets' /\ Fresh'
        /\ \A a \in answers', q \in Calls : a.id = q.id /\ a.ok => accepted[q.id] > 0
    BY <1>1, <2>1, <2>2, <2>3, ReplyInv
  <2>5. RegistryForward' /\ InStep'
    BY <1>1, <2>1, <2>2, HandshakeInv
  <2>6. Executed'
    BY <1>1, <1>2, <2>4 DEF IInv, Executed
  <2> QED
    BY <1>2, <2>4, <2>5, <2>6 DEF IInv
<1>4. CASE ~ valid
  <2>1. UNCHANGED <<drawn, session>> /\ Reply(r, FALSE, NoKey) /\ drawn' >= drawn
    <3>1. UNCHANGED <<drawn, session>>
      BY <1>4 DEF Hello
    <3>2. Reply(r, FALSE, NoKey)
      BY <1>4, Zenon DEF Hello
    <3>3. drawn' >= drawn
      BY <1>1, <3>1
    <3> QED
      BY <3>1, <3>2, <3>3, Zenon
  <2>2. /\ Numbers' /\ Secrets' /\ Fresh'
        /\ \A a \in answers', q \in Calls : a.id = q.id /\ a.ok => accepted[q.id] > 0
    <3>1. FALSE \in BOOLEAN /\ NoKey \in Key \cup {NoKey}
      OBVIOUS
    <3>2. sent' = sent /\ UNCHANGED accepted /\ Marks
      BY <1>1
    <3> QED
      BY <2>1, <3>1, <3>2, ReplyInv
  <2>3. Keys' = Keys
    BY <2>1 DEF Keys
  <2>4. RegistryForward' /\ InStep'
    BY <1>1, <1>2, <2>1, <2>3 DEF IInv, RegistryForward, InStep, Marks
  <2>5. Executed'
    BY <1>1, <1>2, <2>2 DEF IInv, Executed
  <2> QED
    BY <1>2, <2>2, <2>4, <2>5 DEF IInv
<1> QED
  BY <1>3, <1>4

LEMMA OtherHelloInv ==
  ASSUME IInv, Types', OtherHello
  PROVE  IInv'
<1>1. Marks /\ sent' = sent /\ UNCHANGED <<answers, threads, accepted>>
      /\ drawn \in Nat
  <2>1. Marks /\ sent' = sent
    BY ServerMarks DEF IInv
  <2>2. drawn \in Nat
    BY DEF IInv, Types, TypeOK
  <2> QED
    BY <2>1, <2>2 DEF OtherHello
<1>2. /\ Calls' = Calls /\ NextId' = NextId
      /\ SignedOnce' /\ ExecutedOnce' /\ Waiting' /\ ClientForward'
  BY <1>1, MarksInv
<1> DEFINE k == [secret |-> drawn', n |-> 0]
<1>3. drawn' = drawn + 1 /\ session' = Handshake(k) /\ k.secret = drawn + 1
  BY DEF OtherHello
<1>4. k \in Key
  <2>1. drawn' <= MaxSecret /\ MaxSecret \in Nat
    BY Bounds DEF Types, TypeOK
  <2>2. drawn' \in Secret
    BY <1>1, <1>3, <2>1 DEF Secret
  <2> QED
    BY <2>2 DEF Key
<1> HIDE DEF k
<1>5. RegistryForward' /\ InStep'
  BY <1>1, <1>3, <1>4, HandshakeInv
<1>6. Numbers' /\ Executed' /\ Fresh'
  BY <1>1, <1>2 DEF IInv, Numbers, Executed, Fresh, Marks
<1>7. Secrets'
  <2>1. \A q \in Calls : q.key.secret \in Nat /\ q.key.secret <= drawn
    BY TypesFacts DEF IInv, Secrets, Key, Secret
  <2>2. \A a \in answers : a.key # NoKey => a.key.secret \in Nat /\ a.key.secret <= drawn
    BY TypesFacts DEF IInv, Secrets, Answer, Key, Secret
  <2>3. node.hmac # NoKey => node.hmac.secret \in Nat /\ node.hmac.secret <= drawn
    BY TypesFacts DEF IInv, Secrets, Client, Key, Secret
  <2> QED
    BY <1>1, <1>2, <1>3, <2>1, <2>2, <2>3 DEF Secrets, Marks
<1> QED
  BY <1>2, <1>5, <1>6, <1>7 DEF IInv

\* A request is executed only if its key is ahead of all those that were used.
LEMMA AuthenticateInv ==
  ASSUME IInv, Types', NEW r \in sent, Authenticate(r)
  PROVE  IInv'
<1> DEFINE k == Ratchet(r.key)
<1>1. /\ Marks /\ sent' = sent /\ UNCHANGED <<answers, drawn>>
      /\ r \in Calls /\ r.key \in Keys
      /\ session' = <<k>> /\ threads' = threads \cup {r}
      /\ accepted' = [accepted EXCEPT ![r.id] = @ + 1]
  <2>1. Marks /\ sent' = sent
    BY ServerMarks DEF IInv
  <2> QED
    BY <2>1 DEF Authenticate, AfterUse, Calls
<1>2. /\ Types /\ r.key \in Key /\ r.id \in Id /\ accepted \in [Id -> Nat]
      /\ r.key.n \in Nat /\ r.key.secret \in Nat
  <2>1. Types /\ r.key \in Key /\ r.id \in Id /\ accepted \in [Id -> Nat]
    BY <1>1, TypesFacts DEF IInv, Types, TypeOK
  <2> QED
    BY <2>1 DEF Key, Secret
<1>3. k.secret = r.key.secret /\ k.n = r.key.n + 1
  BY <1>2, TypesFacts
<1> HIDE DEF k
<1>4. Calls' = Calls /\ NextId' = NextId /\ Keys' = {k}
  <2>1. DOMAIN session' = {1} /\ session'[1] = k
    BY <1>1
  <2> QED
    BY <1>1, <2>1 DEF Calls, NextId, Keys
<1>5. accepted[r.id] = 0
  <2>1. ~ accepted[r.id] > 0
    BY <1>1, <1>2 DEF IInv, RegistryForward
  <2> QED
    BY <1>2, <2>1
<1>6. /\ accepted'[r.id] = 1
      /\ \A i \in Id : i # r.id => accepted'[i] = accepted[i]
  BY <1>1, <1>2, <1>5
<1>7. ExecutedOnce'
  BY <1>6 DEF IInv, ExecutedOnce
<1>8. Numbers'
  <2>1. r.id < NextId /\ NextId \in Nat /\ r.id \in Nat
    BY <1>2, TypesFacts DEF IInv, Numbers, Id
  <2>2. \A i \in Id : i >= NextId => i # r.id
    BY <2>1 DEF Id
  <2> QED
    BY <1>1, <1>4, <1>6, <2>2 DEF IInv, Numbers
<1>9. Secrets' /\ Fresh' /\ SignedOnce' /\ ClientForward' /\ Waiting'
  BY <1>1, <1>4 DEF IInv, Secrets, Fresh, SignedOnce, ClientForward, Waiting, Marks
<1>10. Executed'
  <2>1. \A i \in Id : accepted[i] > 0 => accepted'[i] > 0
    BY <1>5, <1>6
  <2>2. \A q \in Calls : q.id \in Id
    BY <1>2, TypesFacts
  <2> QED
    BY <1>1, <1>4, <1>6, <2>1, <2>2 DEF IInv, Executed
<1>11. RegistryForward'
  <2> SUFFICES ASSUME NEW q \in Calls, accepted'[q.id] > 0,
                      k.secret = q.key.secret
               PROVE  q.key.n < k.n
    BY <1>4 DEF RegistryForward
  <2>1. q.key.n \in Nat /\ q.id \in Id /\ q \in sent
    BY <1>2, TypesFacts DEF Key
  <2>2. CASE q.id = r.id
    <3>1. q = r
      BY <2>1, <2>2 DEF IInv, Numbers
    <3> QED
      BY <1>2, <1>3, <3>1
  <2>3. CASE q.id # r.id
    <3>1. accepted[q.id] > 0
      BY <1>6, <2>1, <2>3
    <3>2. q.key.n < r.key.n
      BY <1>1, <1>3, <3>1 DEF IInv, RegistryForward
    <3> QED
      BY <1>2, <1>3, <2>1, <3>2
  <2> QED
    BY <2>2, <2>3
<1>12. InStep'
  <2> SUFFICES ASSUME node.kept,
                      \/ node.step = "idle" /\ node.result = "ok"
                      \/ node.step = "call" /\ accepted'[node.request] > 0
               PROVE  node.hmac = k
    <3>1. session' # <<>> /\ session'[1] = k /\ \A i \in DOMAIN session' : i = 1
      BY <1>1
    <3> QED
      BY <1>1, <3>1 DEF InStep, Marks
  <2>1. CASE node.step = "call" /\ node.request = r.id
    <3>1. PICK q \in Calls : q.id = node.request /\ node.hmac = Ratchet(q.key)
      BY <2>1 DEF IInv, Waiting
    <3>2. q = r
      BY <2>1, <3>1, TypesFacts DEF IInv, Numbers
    <3> QED
      BY <3>1, <3>2 DEF k
  \* Otherwise only the key of the node and ones it never used are expected.
  <2>2. CASE ~ (node.step = "call" /\ node.request = r.id)
    <3>1. \/ node.step = "idle" /\ node.result = "ok"
          \/ node.step = "call" /\ accepted[node.request] > 0
      <4>1. CASE node.step = "call"
        <5>1. PICK q \in Calls : q.id = node.request
          BY <4>1 DEF IInv, Waiting
        <5>2. node.request \in Id
          BY <1>2, <5>1, TypesFacts
        <5> QED
          BY <1>6, <2>2, <4>1, <5>2
      <4> QED
        BY <4>1
    <3>2. /\ session[1] = node.hmac /\ session # <<>>
          /\ \A i \in DOMAIN session : i # 1 => r.key.secret < session[i].secret
      BY <1>1, <3>1 DEF IInv, InStep
    <3>3. PICK i \in DOMAIN session : r.key = session[i]
      BY <1>1 DEF Keys
    <3>4. CASE i = 1
      <4>1. node.hmac = r.key /\ node.hmac # NoKey
        BY <1>2, <3>2, <3>3, <3>4, NoKeyIsNone
      <4> QED
        BY <1>1, <1>2, <4>1 DEF IInv, ClientForward
    <3>5. CASE i # 1
      BY <1>2, <3>2, <3>3, <3>5
    <3> QED
      BY <3>4, <3>5
  <2> QED
    BY <2>1, <2>2
<1> QED
  BY <1>7, <1>8, <1>9, <1>10, <1>11, <1>12 DEF IInv

LEMMA RejectInv ==
  ASSUME IInv, Types', NEW r \in sent, Reject(r)
  PROVE  IInv'
<1>1. /\ Marks /\ sent' = sent
      /\ UNCHANGED <<session, threads, drawn, accepted>>
      /\ Reply(r, FALSE, NoKey) /\ drawn' >= drawn
  <2>1. Marks /\ sent' = sent
    BY ServerMarks DEF IInv
  <2>2. drawn \in Nat
    BY DEF IInv, Types, TypeOK
  <2>3. Reply(r, FALSE, NoKey)
    BY Zenon DEF Reject
  <2>4. UNCHANGED <<session, threads, drawn, accepted>>
    BY DEF Reject, server
  <2>5. drawn' >= drawn
    BY <2>2, <2>4
  <2> QED
    BY <2>1, <2>3, <2>4, <2>5, Zenon
<1>2. Calls' = Calls /\ SignedOnce' /\ ExecutedOnce' /\ Waiting' /\ ClientForward'
  BY <1>1, MarksInv
<1>3. /\ Numbers' /\ Secrets' /\ Fresh'
      /\ \A a \in answers', q \in Calls : a.id = q.id /\ a.ok => accepted[q.id] > 0
  <2>1. FALSE \in BOOLEAN /\ NoKey \in Key \cup {NoKey}
    OBVIOUS
  <2> QED
    BY <1>1, <2>1, ReplyInv
<1>4. Keys' = Keys
  BY <1>1 DEF Keys
<1>5. RegistryForward' /\ InStep'
  BY <1>1, <1>2, <1>4 DEF IInv, RegistryForward, InStep, Marks
<1>6. Executed'
  BY <1>1, <1>2, <1>3 DEF IInv, Executed
<1> QED
  BY <1>2, <1>3, <1>5, <1>6 DEF IInv

LEMMA AnswerCallInv ==
  ASSUME IInv, Types', NEW r \in sent, AnswerCall(r)
  PROVE  IInv'
<1>1. /\ Marks /\ sent' = sent
      /\ UNCHANGED <<session, drawn, accepted>> /\ threads' = threads \ {r}
      /\ Reply(r, Result(r), r.key) /\ drawn' >= drawn
      /\ r \in threads
  <2>1. Marks /\ sent' = sent
    BY ServerMarks DEF IInv
  <2>2. drawn \in Nat
    BY DEF IInv, Types, TypeOK
  <2> QED
    BY <2>1, <2>2 DEF AnswerCall
<1>2. r \in Calls /\ accepted[r.id] > 0
  BY <1>1 DEF IInv, Executed
<1>3. r.key \in Key /\ r.key.secret <= drawn /\ r.method # "hello"
  BY <1>2, TypesFacts DEF IInv, Secrets, Calls
<1>4. Result(r) \in BOOLEAN
  BY DEF IInv, Types, TypeOK, Result
<1>5. Calls' = Calls /\ SignedOnce' /\ ExecutedOnce' /\ Waiting' /\ ClientForward'
  BY <1>1, MarksInv
<1>6. /\ Numbers' /\ Secrets' /\ Fresh'
      /\ \A a \in answers', q \in Calls : a.id = q.id /\ a.ok => accepted[q.id] > 0
  <2> DEFINE ok == Result(r)
  <2>1. ok \in BOOLEAN /\ r.key \in Key \cup {NoKey} /\ r.key.secret <= drawn'
        /\ Reply(r, ok, r.key)
    BY <1>1, <1>3, <1>4
  <2> HIDE DEF ok
  <2> QED
    BY <1>1, <1>2, <1>3, <2>1, ReplyInv
<1>7. Keys' = Keys
  BY <1>1 DEF Keys
<1>8. RegistryForward' /\ InStep'
  BY <1>1, <1>5, <1>7 DEF IInv, RegistryForward, InStep, Marks
<1>9. Executed'
  BY <1>1, <1>5, <1>6 DEF IInv, Executed
<1> QED
  BY <1>5, <1>6, <1>8, <1>9 DEF IInv

\* The registry forgets its session.
LEMMA ForgetInv ==
  ASSUME IInv, Types', Revoke \/ RestartRegistry
  PROVE  IInv'
<1>1. /\ Marks /\ sent' = sent /\ UNCHANGED <<answers, drawn, accepted>>
      /\ session' = <<>> /\ threads' \subseteq threads
  <2>1. Marks /\ sent' = sent
    BY ServerMarks DEF IInv
  <2> QED
    BY <2>1 DEF Revoke, RestartRegistry
<1>2. node'.kept = FALSE
  <2>1. node \in Client
    BY TypesFacts DEF IInv
  <2>2. Disturbed \in Client
    BY <2>1 DEF Disturbed, Client
  <2>3. node' = [Disturbed EXCEPT !.kept = FALSE]
    BY DEF Revoke, RestartRegistry
  <2> HIDE DEF Disturbed
  <2> QED
    BY <2>2, <2>3 DEF Client
<1>3. /\ Calls' = Calls /\ NextId' = NextId
      /\ SignedOnce' /\ ExecutedOnce' /\ Waiting' /\ ClientForward'
  BY <1>1, MarksInv
<1>4. Keys' = {}
  BY <1>1 DEF Keys
<1>5. RegistryForward' /\ InStep'
  BY <1>2, <1>4 DEF RegistryForward, InStep
<1>6. Numbers' /\ Secrets' /\ Fresh'
  BY <1>1, <1>3 DEF IInv, Numbers, Secrets, Fresh, Marks
<1>7. Executed'
  BY <1>1, <1>3 DEF IInv, Executed
<1> QED
  BY <1>3, <1>5, <1>6, <1>7 DEF IInv

LEMMA StutterInv == IInv /\ UNCHANGED vars => IInv'
<1> SUFFICES ASSUME IInv, UNCHANGED vars
             PROVE  IInv'
  OBVIOUS
<1>0. Types'
  BY TypesStep DEF IInv
<1>1. /\ sent' = sent /\ answers' = answers /\ session' = session
      /\ threads' = threads /\ drawn' = drawn /\ accepted' = accepted
      /\ node' = node
  BY DEF vars
<1>2. Calls' = Calls /\ Keys' = Keys /\ NextId' = NextId
  BY <1>1 DEF Calls, Keys, NextId
<1> QED
  BY <1>0, <1>1, <1>2 DEF IInv, Numbers, Secrets, Executed, Waiting, Fresh,
    ClientForward, RegistryForward, InStep, SignedOnce, ExecutedOnce

LEMMA IInvStep == IInv /\ [Next]_vars => IInv'
<1> SUFFICES ASSUME IInv, [Next]_vars
             PROVE  IInv'
  OBVIOUS
<1>0. Types'
  BY TypesStep DEF IInv
<1>1. ASSUME NEW a \in answers, ReceiveHello(a)
      PROVE  IInv'
  <2>1. CASE a.ok
    BY <1>0, <1>1, <2>1, ReceiveHelloInv
  <2>2. CASE ~ a.ok
    BY <1>0, <1>1, <2>2, QuietSteps, QuietInv
  <2> QED
    BY <2>1, <2>2
<1>2. CASE Act
  <2>1. CASE SendHello
    BY <1>0, <2>1, SendHelloInv
  <2>2. CASE SendCall
    BY <1>0, <2>2, SendCallInv
  <2>3. CASE GiveUp
    BY <1>0, <2>3, QuietSteps, QuietInv
  <2>4. ASSUME NEW a \in answers, ReceiveResult(a)
        PROVE  IInv'
    BY <1>0, <2>4, QuietSteps, QuietInv
  <2> QED
    BY <1>1, <1>2, <2>1, <2>2, <2>3, <2>4 DEF Act
<1>3. CASE RestartNode \/ \E m \in Calling : StartCall(m)
  BY <1>0, <1>3, QuietSteps, QuietInv
<1>4. ASSUME NEW r \in sent,
             Hello(r) \/ Authenticate(r) \/ Reject(r) \/ AnswerCall(r)
      PROVE  IInv'
  BY <1>0, <1>4, HelloInv, AuthenticateInv, RejectInv, AnswerCallInv
<1>5. CASE OtherHello \/ Revoke \/ RestartRegistry
  BY <1>0, <1>5, OtherHelloInv, ForgetInv
<1> QED
  BY <1>2, <1>3, <1>4, <1>5, StutterInv DEF Next

\* A request that is repeated or delayed is executed once at most.
THEOREM ExecutesOnce == Spec => []ExecutedOnce
<1>1. IInv => ExecutedOnce
  BY DEF IInv
<1> QED
  BY <1>1, IInvInit, IInvStep, PTL DEF Spec

\* The node never signs two requests with the same key.
THEOREM SignsOnce == Spec => []SignedOnce
<1>1. IInv => SignedOnce
  BY DEF IInv
<1> QED
  BY <1>1, IInvInit, IInvStep, PTL DEF Spec

\* A key serves once, at both ends.
THEOREM AlwaysOnce == Spec => []OnlyOnce
<1>1. TypeOK /\ ExecutedOnce /\ SignedOnce => OnlyOnce
  BY DEF OnlyOnce
<1> QED
  BY <1>1, TypeCorrect, ExecutesOnce, SignsOnce, PTL

\* After a call that was answered, the registry still expects the key that the
\* node has, whatever hellos are sent for this node.
THEOREM KeepsSession == Spec => []SessionKept
<1>1. IInv => SessionKept
  <2> SUFFICES ASSUME IInv, node.step = "idle", node.result = "ok", node.kept
               PROVE  node.hmac \in Keys
    BY DEF SessionKept
  <2>1. session # <<>> /\ session[1] = node.hmac
    BY DEF IInv, InStep
  <2>2. 1 \in DOMAIN session
    BY <2>1 DEF IInv, Types, TypeOK
  <2> QED
    BY <2>1, <2>2 DEF Keys
<1> QED
  BY <1>1, IInvInit, IInvStep, PTL DEF Spec

-----------------------------------------------------------------------------
(***************************************************************************)
(* A call that is not disturbed is answered.                               *)
(***************************************************************************)
\* The last try uses a key that was just received: the registry has it, until
\* it authenticates the call and has no other one, which getPeerProtocol needs.
Steady ==
  ~ node.disturbed =>
    /\ node.result # "failed"
    /\ node.step # "idle" => valid
    /\ node.step = "hello" =>
         \A a \in answers : a.id = node.request => a.ok /\ a.key \in Keys
    /\ node.step = "loop" /\ node.hmac # NoKey /\ ~ node.retry =>
         node.hmac \in Keys /\ \E a \in answers : a.id = node.request
    /\ node.step = "call" /\ ~ node.retry =>
         \A r \in Calls : r.id = node.request =>
           \/ /\ accepted[r.id] = 0 /\ r.key \in Keys
              /\ \A a \in answers : a.id # r.id
           \/ /\ accepted[r.id] > 0 /\ Len(session) = 1
              /\ \A a \in answers : a.id = r.id => a.ok

LEMMA SteadyClient ==
  ASSUME IInv, Steady,
         Act \/ RestartNode \/ \E m \in Calling : StartCall(m)
  PROVE  Steady'
<1>0. /\ Types /\ node \in Client /\ Numbers /\ Waiting
      /\ \A r \in Calls : r \in sent
  BY TypesFacts DEF IInv
<1>1. ASSUME NEW m \in Calling, StartCall(m)
      PROVE  Steady'
  <2>1. /\ node'.disturbed = ~ valid /\ node'.result = "running"
        /\ node'.step = "loop" /\ node'.retry = TRUE /\ valid' = valid
    BY <1>0, <1>1 DEF StartCall, Client, server
  <2> QED
    BY <2>1 DEF Steady
<1>2. CASE SendHello
  <2>1. /\ node.step = "loop" /\ node'.step = "hello" /\ node'.request = NextId
        /\ node'.disturbed = node.disturbed /\ node'.result = node.result
        /\ valid' = valid /\ answers' = answers
    BY <1>0, <1>2 DEF SendHello, Client, server
  <2>2. \A a \in answers : a.id # NextId
    BY <1>0, TypesFacts DEF Numbers, Answer, Id
  <2> QED
    BY <2>1, <2>2 DEF Steady
<1>3. CASE SendCall
  <2> DEFINE q == [id |-> NextId, method |-> node.method, key |-> node.hmac]
  <2>1. /\ node.step = "loop" /\ node'.step = "call" /\ node'.request = NextId
        /\ node'.disturbed = node.disturbed /\ node'.result = node.result
        /\ node'.retry = node.retry /\ node.hmac # NoKey /\ NextId \in Id
        /\ UNCHANGED <<valid, answers, session, accepted>>
        /\ sent' = sent \cup {q}
    <3>1. NextId \in Id
      BY <1>0, <1>3, TypesFacts DEF SendCall, Id, NextId
    <3>2. sent' = sent \cup {q} /\ UNCHANGED <<valid, answers, session, accepted>>
      BY <1>3 DEF SendCall, Send, server
    <3> DEFINE k == Advance(node.hmac)
    <3>3. /\ node' = [node EXCEPT !.step = "call", !.request = NextId,
                        !.hmac = k, !.kept = TRUE]
          /\ node.step = "loop" /\ node.hmac # NoKey
      BY <1>3 DEF SendCall
    <3> HIDE DEF k, q
    <3> QED
      BY <1>0, <3>1, <3>2, <3>3 DEF Client
  <2>2. accepted[NextId] = 0 /\ \A a \in answers : a.id # NextId
    BY <1>0, <2>1, TypesFacts DEF Numbers, Answer, Id
  <2>3. \A r \in Calls' : r.id = NextId => r.key = node.hmac
    <3>1. \A r \in sent : r.id # NextId
      BY <1>0, TypesFacts DEF Numbers, Id
    <3> QED
      BY <2>1, <3>1 DEF Calls
  <2>4. Keys' = Keys
    BY <2>1 DEF Keys
  <2> QED
    BY <2>1, <2>2, <2>3, <2>4 DEF Steady
<1>4. CASE GiveUp
  <2>1. End("failed") \in Client
    BY <1>0, EndFields
  <2>2. node'.disturbed
    <3> HIDE DEF End
    <3> QED
      BY <1>4, <2>1 DEF GiveUp, Client
  <2> QED
    BY <2>2 DEF Steady
<1>5. CASE RestartNode
  BY <1>5 DEF RestartNode, NewClient, Steady
<1>6. ASSUME NEW a \in answers, ReceiveHello(a)
      PROVE  Steady'
  <2>1. /\ node.step = "hello" /\ a.id = node.request
        /\ UNCHANGED <<valid, answers, session, accepted>>
    BY <1>6 DEF ReceiveHello, server
  <2>2. CASE a.ok
    <3>1. /\ node'.step = "loop" /\ node'.hmac = a.key /\ node'.request = a.id
          /\ node'.disturbed = node.disturbed /\ node'.result = node.result
      BY <1>0, <1>6, <2>1, <2>2 DEF ReceiveHello, Client
    <3>2. Keys' = Keys
      BY <2>1 DEF Keys
    <3> QED
      BY <2>1, <3>1, <3>2 DEF Steady
  <2>3. CASE ~ a.ok
    <3>1. node'.disturbed = node.disturbed
      BY <1>0, <1>6, <2>3 DEF ReceiveHello, End, Client
    <3> QED
      BY <2>1, <2>3, <3>1 DEF Steady
  <2> QED
    BY <2>2, <2>3
<1>7. ASSUME NEW a \in answers, ReceiveResult(a)
      PROVE  Steady'
  <2>1. /\ node.step = "call" /\ a.id = node.request
        /\ UNCHANGED <<valid, answers, session, accepted>>
    BY <1>7 DEF ReceiveResult, server
  <2>2. CASE a.ok
    <3>1. node'.step = "idle" /\ node'.result = "ok"
      BY <1>0, <1>7, <2>2, EndFields DEF ReceiveResult
    <3> QED
      BY <3>1 DEF Steady
  <2>3. CASE ~ a.ok /\ node.retry
    <3>1. /\ node'.step = "loop" /\ node'.hmac = NoKey
          /\ node'.disturbed = node.disturbed /\ node'.result = node.result
      BY <1>0, <1>7, <2>3 DEF ReceiveResult, Failed, Client
    <3> QED
      BY <2>1, <3>1 DEF Steady
  <2>4. CASE ~ a.ok /\ ~ node.retry
    <3>1. node'.disturbed = node.disturbed
      BY <1>0, <1>7, <2>4 DEF ReceiveResult, Failed, End, Client
    <3>2. PICK r \in Calls : r.id = node.request
      BY <1>0, <2>1 DEF Waiting
    <3>3. node.disturbed
      BY <2>1, <2>4, <3>2 DEF Steady
    <3> QED
      BY <3>1, <3>3 DEF Steady
  <2> QED
    BY <2>2, <2>3, <2>4
<1> QED
  BY <1>1, <1>2, <1>3, <1>4, <1>5, <1>6, <1>7 DEF Act

\* What the registry does disturbs the call, or is what the node waits for.
LEMMA SteadyServer ==
  ASSUME IInv, Steady,
         \/ \E r \in sent : Hello(r) \/ Authenticate(r) \/ Reject(r) \/ AnswerCall(r)
         \/ OtherHello \/ Revoke \/ RestartRegistry
  PROVE  Steady'
<1>0. /\ Types /\ node \in Client /\ Numbers /\ Waiting /\ Executed
      /\ \A r \in Calls : r \in sent /\ r.method # "hello"
      /\ Calls' = Calls
  <2>1. sent' = sent
    BY ServerMarks DEF IInv
  <2> QED
    BY <2>1, TypesFacts DEF IInv, Calls
<1>1. Disturbed.disturbed
  BY <1>0 DEF Disturbed, Client
<1>2. CASE node'.disturbed
  BY <1>2 DEF Steady
<1>3. CASE OtherHello \/ Revoke \/ RestartRegistry
  <2>1. [Disturbed EXCEPT !.kept = FALSE].disturbed
    BY <1>0 DEF Disturbed, Client
  <2> QED
    BY <1>1, <1>2, <1>3, <2>1 DEF OtherHello, Revoke, RestartRegistry
<1>4. ASSUME NEW r \in sent, Hello(r), ~ node'.disturbed
      PROVE  Steady'
  <2>1. Expected(r) /\ node' = node /\ ~ node.disturbed /\ r.method = "hello"
        /\ accepted' = accepted /\ valid' = valid
    BY <1>1, <1>4 DEF Hello
  <2>2. CASE node.step = "idle"
    BY <2>1, <2>2 DEF Steady
  <2>3. CASE node.step = "hello"
    <3> DEFINE k == [secret |-> drawn', n |-> 0]
    <3>1. /\ valid /\ session' = Handshake(k)
          /\ answers' = answers \cup {[id |-> r.id, ok |-> TRUE, key |-> k]}
      BY <1>4, <2>1, <2>3 DEF Steady, Hello, Reply
    <3>2. k \in Keys'
      <4>1. session \in Seq(Key)
        BY <1>0 DEF Types, TypeOK
      <4> HIDE DEF k
      <4>2. \E i \in DOMAIN session' : session'[i] = k
        <5>1. CASE session = <<>>
          BY <3>1, <5>1 DEF Handshake
        <5>2. CASE session # <<>>
          <6>1. session' = <<session[1], k>>
            BY <3>1, <5>2 DEF Handshake
          <6>2. 2 \in DOMAIN session' /\ session'[2] = k
            BY <6>1
          <6> QED
            BY <6>2
        <5> QED
          BY <5>1, <5>2
      <4> QED
        BY <4>2 DEF Keys
    <3>3. \A a \in answers : a.id # node.request
      BY <2>1 DEF Expected
    <3> QED
      BY <2>1, <2>3, <3>1, <3>2, <3>3 DEF Steady
  <2>4. CASE node.step = "loop"
    <3>1. \A a \in answers : a.id # node.request
      BY <2>1 DEF Expected
    <3> QED
      BY <2>1, <2>4, <3>1 DEF Steady
  <2>5. CASE node.step = "call"
    <3>1. PICK q \in Calls : q.id = node.request
      BY <1>0, <2>5 DEF Waiting
    <3>2. q = r
      BY <1>0, <2>1, <3>1 DEF Numbers, Expected
    <3> QED
      BY <1>0, <2>1, <3>1, <3>2
  <2> QED
    BY <1>0, <2>2, <2>3, <2>4, <2>5 DEF Client
<1>5. ASSUME NEW r \in sent, Authenticate(r) \/ Reject(r), ~ node'.disturbed
      PROVE  Steady'
  <2>1. Expected(r) /\ node' = node /\ ~ node.disturbed /\ r \in Calls
        /\ valid' = valid
    BY <1>1, <1>5 DEF Authenticate, Reject, Calls, server
  <2>2. CASE node.step = "idle"
    BY <2>1, <2>2 DEF Steady
  <2>3. CASE node.step = "hello"
    <3>1. PICK q \in sent : q.id = node.request /\ q.method = "hello"
      BY <1>0, <2>3 DEF Waiting
    <3>2. q = r
      BY <1>0, <2>1, <3>1 DEF Numbers, Expected
    <3> QED
      BY <1>0, <2>1, <3>1, <3>2
  <2>4. CASE node.step = "loop"
    <3>1. \A a \in answers : a.id # node.request
      BY <2>1 DEF Expected
    <3> QED
      BY <2>1, <2>4, <3>1 DEF Steady
  <2>5. CASE node.step = "call" /\ node.retry
    BY <2>1, <2>5 DEF Steady
  <2>6. CASE node.step = "call" /\ ~ node.retry
    <3>1. /\ r.id = node.request /\ accepted[r.id] = 0 /\ r.id \in Id
          /\ \A a \in answers : a.id # r.id
      BY <1>0, <2>1, TypesFacts DEF Expected
    <3>2. r.key \in Keys
      BY <2>1, <2>6, <3>1 DEF Steady
    <3>3. /\ session' = <<Ratchet(r.key)>> /\ answers' = answers
          /\ accepted' = [accepted EXCEPT ![r.id] = @ + 1]
      BY <1>5, <3>2 DEF Authenticate, Reject, AfterUse
    <3>4. Len(session') = 1 /\ accepted'[r.id] > 0
      BY <1>0, <3>1, <3>3 DEF Types, TypeOK
    <3>5. \A q \in Calls : q.id = node.request => q = r
      BY <1>0, <3>1 DEF Numbers
    <3> QED
      BY <1>0, <2>1, <2>6, <3>1, <3>3, <3>4, <3>5 DEF Steady
  <2> QED
    BY <1>0, <2>2, <2>3, <2>4, <2>5, <2>6 DEF Client
<1>6. ASSUME NEW r \in sent, AnswerCall(r), ~ node'.disturbed
      PROVE  Steady'
  <2> DEFINE b == [id |-> r.id, ok |-> Result(r), key |-> r.key]
  <2>1. /\ node' = node /\ ~ node.disturbed /\ r \in Calls /\ accepted[r.id] > 0
        /\ UNCHANGED <<accepted, valid, session>> /\ Keys' = Keys
        /\ answers' = answers \cup {b}
    BY <1>0, <1>6 DEF AnswerCall, Reply, Executed, Keys
  <2>2. b.id = r.id /\ (b.ok <=> Result(r))
    OBVIOUS
  <2> HIDE DEF b
  <2>3. CASE node.step = "hello"
    <3>1. PICK q \in sent : q.id = node.request /\ q.method = "hello"
      BY <1>0, <2>3 DEF Waiting
    <3>2. r.id # node.request
      BY <1>0, <2>1, <3>1 DEF Numbers
    <3> QED
      BY <2>1, <2>2, <2>3, <3>2 DEF Steady
  <2>4. CASE node.step = "call" /\ ~ node.retry
    <3>1. valid
      BY <2>1, <2>4 DEF Steady
    <3>2. ASSUME NEW q \in Calls, q.id = node.request
          PROVE  \/ /\ accepted[q.id] = 0 /\ q.key \in Keys
                    /\ \A a \in answers' : a.id # q.id
                 \/ /\ accepted[q.id] > 0 /\ Len(session) = 1
                    /\ \A a \in answers' : a.id = q.id => a.ok
      <4>1. \/ /\ accepted[q.id] = 0 /\ q.key \in Keys
               /\ \A a \in answers : a.id # q.id
            \/ /\ accepted[q.id] > 0 /\ Len(session) = 1
               /\ \A a \in answers : a.id = q.id => a.ok
        BY <2>1, <2>4, <3>2 DEF Steady
      <4>2. CASE q.id # r.id
        BY <2>1, <2>2, <4>1, <4>2
      <4>3. CASE q.id = r.id
        <5>1. accepted[q.id] > 0 /\ accepted[q.id] \in Nat /\ ~ accepted[q.id] = 0
          BY <1>0, <2>1, <4>3, TypesFacts DEF Types, TypeOK
        <5>2. b.ok
          BY <2>2, <3>1, <4>1, <5>1 DEF Result
        <5> QED
          BY <2>1, <2>2, <4>1, <5>1, <5>2
      <4> QED
        BY <4>2, <4>3
    <3> QED
      BY <1>0, <2>1, <2>4, <3>1, <3>2 DEF Steady
  <2>5. CASE node.step \in {"idle", "loop"} \/ (node.step = "call" /\ node.retry)
    BY <2>1, <2>5 DEF Steady
  <2> QED
    BY <1>0, <2>3, <2>4, <2>5 DEF Client
<1> QED
  BY <1>2, <1>3, <1>4, <1>5, <1>6

\* Whatever happened before, a call that nothing disturbs is answered: a stale
\* key costs one try, and the next one has a key that the registry expects.
THEOREM AlwaysAnswered == Spec => []CallAnswered
<1>1. Init => IInv /\ Steady
  BY IInvInit DEF Init, NewClient, Steady
<1>2. IInv /\ Steady /\ [Next]_vars => (IInv /\ Steady)'
  <2> SUFFICES ASSUME IInv, Steady, [Next]_vars
               PROVE  (IInv /\ Steady)'
    OBVIOUS
  <2>1. CASE Next
    BY <2>1, IInvStep, SteadyClient, SteadyServer DEF Next
  <2>2. CASE UNCHANGED vars
    <3>1. Steady'
      BY <2>2 DEF vars, Steady, Keys, Calls
    <3> QED
      BY <3>1, IInvStep
  <2> QED
    BY <2>1, <2>2
<1>3. Steady => CallAnswered
  BY DEF Steady, CallAnswered
<1> QED
  BY <1>1, <1>2, <1>3, PTL DEF Spec

-----------------------------------------------------------------------------
(***************************************************************************)
(* Proofs about RegistryQueries, for any number of threads, of nodes and   *)
(* of tunnels.                                                             *)
(*                                                                         *)
(* Only one thread at once runs a request (Exclusive), with variables of   *)
(* its own (OwnWork).  An answer that is missing was lost, or is on its    *)
(* way, or is to be received (NoneDue); and a node that is named in the    *)
(* graph is there with its tunnels, or is to be asked, or its answer is    *)
(* due (GraphDue).  The request only ends when there is nobody left to ask *)
(* and nothing to receive.                                                 *)
(***************************************************************************)
\* Threads have a request, its next step and the peer it asks.
ThreadsOK ==
  thread \in [Thread -> [request : Queries, peer : Node,
                         step : {"idle", "peers", "dump", "lock", "run"}]]

\* The answer of n was lost, is on its way or is to be received.
Due(n, code) ==
  \/ n \in lost \/ net[n][code] > 0
  \/ \E i \in 1 .. Len(sock) : sock[i] = [node |-> n, code |-> code]

\* All tunnels of n are in the graph, or n has still to be asked.
Whole(n) == \A f \in Tunnel : n \in {f[1], f[2]} => f \in work.edges
Listed(n, l) == \E i \in 1 .. Len(l) : l[i] = n
ToAsk(n) == Listed(n, work.todo)

\* The lock serialises the requests, each with variables of its own.
Exclusive == \A t \in Thread : thread[t].step = "run" => lock = t
OwnWork ==
  \A t \in Thread : thread[t].step = "run" =>
    /\ thread[t].request # "versions" => work.none = {}
    /\ thread[t].request # "topology" => work.keys = {} /\ work.edges = {}

\* A node that was asked for its version and did not answer may still do.
NoneDue == \A n \in work.none : Due(n, 4)

\* A node of the graph was explored, or will be.
InGraph(n) == n \in work.keys \/ \E e \in work.edges : n \in {e[1], e[2]}
GraphDue ==
  \A n \in Node : InGraph(n) => Whole(n) \/ ToAsk(n) \/ Due(n, 5)

QueryInv ==
  /\ QueryTypeOK /\ ThreadsOK /\ Exclusive /\ OwnWork
  /\ NoneDue /\ GraphDue /\ RightAddress

-----------------------------------------------------------------------------
\* SetToSeq enumerates a finite set.
LEMMA SetOrder ==
  ASSUME NEW S, IsFiniteSet(S)
  PROVE  /\ SetToSeq(S) \in Seq(S)
         /\ \A x \in S : \E i \in 1 .. Len(SetToSeq(S)) : SetToSeq(S)[i] = x
<1> DEFINE n == Cardinality(S)
           s == SetToSeq(S)
<1>1. n \in Nat /\ ExistsBijection(1 .. n, S)
  BY FS_CardinalityType
<1>2. \E f \in [1 .. n -> S] : IsInjective(f)
  BY <1>1 DEF ExistsBijection, Bijection, Injection
<1>3. s \in [1 .. n -> S] /\ IsInjective(s)
  BY <1>2 DEF SetToSeq
<1>4. s \in Injection(1 .. n, S)
  BY <1>3 DEF Injection
<1>5. IsFiniteSet(1 .. n) /\ Cardinality(1 .. n) = n
  BY <1>1, FS_Interval
<1>6. s \in Surjection(1 .. n, S)
  BY <1>4, <1>5, FS_Injection
<1>7. \A x \in S : \E i \in 1 .. n : s[i] = x
  BY <1>6 DEF Surjection
<1> HIDE DEF n, s
<1>8. s \in Seq(S) /\ Len(s) = n
  BY <1>1, <1>3
<1> QED
  BY <1>7, <1>8 DEF s

\* What is left to ask after an answer: what was, and the nodes of a set.
LEMMA MoreToAsk ==
  ASSUME NEW q \in Seq(Node), NEW S \in SUBSET Node,
         NEW l, l = q \o SetToSeq(S)
  PROVE  /\ l \in Seq(Node)
         /\ \A n \in S : Listed(n, l)
         /\ \A n \in Node : Listed(n, q) => Listed(n, l)
<1> DEFINE o == SetToSeq(S)
<1>1. IsFiniteSet(S)
  BY Names, FS_Subset
<1>2. /\ o \in Seq(Node)
      /\ \A x \in S : \E i \in 1 .. Len(o) : o[i] = x
  BY <1>1, SetOrder
<1> HIDE DEF o
<1>3. /\ q \o o \in Seq(Node) /\ Len(q \o o) = Len(q) + Len(o)
      /\ \A i \in 1 .. Len(q) : (q \o o)[i] = q[i]
      /\ \A i \in 1 .. Len(o) : (q \o o)[Len(q) + i] = o[i]
      /\ Len(q) \in Nat /\ Len(o) \in Nat
  BY <1>2
<1>4. ASSUME NEW n \in S
      PROVE  \E i \in 1 .. Len(q \o o) : (q \o o)[i] = n
  <2>1. PICK i \in 1 .. Len(o) : o[i] = n
    BY <1>2
  <2>2. Len(q) + i \in 1 .. Len(q \o o) /\ (q \o o)[Len(q) + i] = n
    BY <1>3, <2>1
  <2> QED
    BY <2>2
<1>5. ASSUME NEW n \in Node, \E i \in 1 .. Len(q) : q[i] = n
      PROVE  \E i \in 1 .. Len(q \o o) : (q \o o)[i] = n
  <2>1. PICK i \in 1 .. Len(q) : q[i] = n
    BY <1>5
  <2>2. i \in 1 .. Len(q \o o) /\ (q \o o)[i] = n
    BY <1>3, <2>1
  <2> QED
    BY <2>2
<1>6. l = q \o o
  BY DEF o
<1> QED
  BY <1>3, <1>4, <1>5, <1>6 DEF Listed

LEMMA Coding ==
  /\ \A r \in Queries : Code[r] \in Codes
  /\ Code["versions"] = 4 /\ Code["topology"] = 5
BY DEF Queries, Code, Codes

LEMMA NoWorkOK == NoWork \in Work
BY DEF NoWork, Work

-----------------------------------------------------------------------------
(* An answer that is due stays so, until it is received. *)

LEMMA ArriveDue ==
  ASSUME QueryTypeOK, NEW n \in Node, NEW code \in Codes, Arrive(n, code)
  PROVE  /\ net' \in [Node -> [Codes -> 0 .. MaxNet]] /\ sock' \in Seq(Message)
         /\ \A m \in Node, c \in Codes : Due(m, c) => Due(m, c)'
<1>1. /\ net \in [Node -> [Codes -> 0 .. MaxNet]] /\ net[n][code] > 0
      /\ net' = [net EXCEPT ![n][code] = @ - 1]
      /\ sock' = Append(sock, [node |-> n, code |-> code]) /\ lost' = lost
      /\ sock \in Seq(Message)
  BY DEF QueryTypeOK, Arrive
<1>2. [node |-> n, code |-> code] \in Message
  BY DEF Message
<1>3. /\ sock' \in Seq(Message) /\ Len(sock') = Len(sock) + 1 /\ Len(sock) \in Nat
      /\ \A i \in 1 .. Len(sock) : sock'[i] = sock[i]
      /\ sock'[Len(sock) + 1] = [node |-> n, code |-> code]
  BY <1>1, <1>2
<1>4. /\ net[n][code] - 1 \in 0 .. MaxNet
      /\ net' = [net EXCEPT ![n] = [net[n] EXCEPT ![code] = net[n][code] - 1]]
  BY <1>1, QueryBounds
<1>5. /\ net' \in [Node -> [Codes -> 0 .. MaxNet]]
      /\ \A m \in Node, c \in Codes : m # n \/ c # code => net'[m][c] = net[m][c]
  BY <1>1, <1>4
<1>6. ASSUME NEW m \in Node, NEW c \in Codes, Due(m, c)
      PROVE  Due(m, c)'
  <2>1. CASE m = n /\ c = code
    <3>1. Len(sock) + 1 \in 1 .. Len(sock')
      BY <1>3
    <3> QED
      BY <1>3, <2>1, <3>1 DEF Due
  <2>2. CASE m \in lost \/ (net[m][c] > 0 /\ (m # n \/ c # code))
    BY <1>1, <1>5, <2>2 DEF Due
  <2>3. CASE \E i \in 1 .. Len(sock) : sock[i] = [node |-> m, code |-> c]
    <3>1. PICK i \in 1 .. Len(sock) : sock[i] = [node |-> m, code |-> c]
      BY <2>3
    <3>2. i \in 1 .. Len(sock') /\ sock'[i] = [node |-> m, code |-> c]
      BY <1>3, <3>1
    <3> QED
      BY <3>2 DEF Due
  <2> QED
    BY <1>6, <2>1, <2>2, <2>3 DEF Due
<1> QED
  BY <1>3, <1>5, <1>6

LEMMA LoseDue ==
  ASSUME QueryTypeOK, NEW n \in Node, NEW code \in Codes, Lose(n, code)
  PROVE  /\ net' \in [Node -> [Codes -> 0 .. MaxNet]] /\ lost' \subseteq Node
         /\ \A m \in Node, c \in Codes : Due(m, c) => Due(m, c)'
<1>1. /\ net \in [Node -> [Codes -> 0 .. MaxNet]] /\ net[n][code] > 0
      /\ net' = [net EXCEPT ![n][code] = @ - 1]
      /\ lost' = lost \cup {n} /\ sock' = sock /\ lost \subseteq Node
  BY DEF QueryTypeOK, Lose
<1>2. /\ net[n][code] - 1 \in 0 .. MaxNet
      /\ net' = [net EXCEPT ![n] = [net[n] EXCEPT ![code] = net[n][code] - 1]]
  BY <1>1, QueryBounds
<1>3. /\ net' \in [Node -> [Codes -> 0 .. MaxNet]]
      /\ \A m \in Node, c \in Codes : m # n => net'[m][c] = net[m][c]
  BY <1>1, <1>2
<1>4. ASSUME NEW m \in Node, NEW c \in Codes, Due(m, c)
      PROVE  Due(m, c)'
  <2>1. CASE m = n
    BY <1>1, <2>1 DEF Due
  <2>2. CASE m # n
    BY <1>1, <1>3, <1>4, <2>2 DEF Due
  <2> QED
    BY <2>1, <2>2
<1> QED
  BY <1>1, <1>3, <1>4

LEMMA SendDue ==
  ASSUME QueryTypeOK, NEW n \in Node, NEW code \in Codes, SendTo(n, code),
         UNCHANGED sock
  PROVE  /\ net' \in [Node -> [Codes -> 0 .. MaxNet]] /\ lost' \subseteq Node
         /\ Due(n, code)'
         /\ \A m \in Node, c \in Codes : Due(m, c) => Due(m, c)'
<1>1. /\ net \in [Node -> [Codes -> 0 .. MaxNet]] /\ lost \subseteq Node
      /\ net[n][code] \in 0 .. MaxNet
  BY DEF QueryTypeOK
<1>2. CASE net[n][code] = MaxNet
  <2>1. lost' = lost \cup {n} /\ net' = net
    BY <1>2 DEF SendTo
  <2> QED
    BY <1>1, <2>1 DEF Due
<1>3. CASE net[n][code] # MaxNet
  <2>1. net' = [net EXCEPT ![n][code] = @ + 1] /\ lost' = lost
    BY <1>3 DEF SendTo
  <2>2. net[n][code] + 1 \in 0 .. MaxNet /\ net[n][code] + 1 > 0
    BY <1>1, <1>3, QueryBounds
  <2>3. /\ net' \in [Node -> [Codes -> 0 .. MaxNet]] /\ net'[n][code] > 0
        /\ \A m \in Node, c \in Codes : m # n \/ c # code => net'[m][c] = net[m][c]
    BY <1>1, <2>1, <2>2
  <2>4. ASSUME NEW m \in Node, NEW c \in Codes, Due(m, c)
        PROVE  Due(m, c)'
    <3>1. CASE m = n /\ c = code
      BY <2>3, <3>1 DEF Due
    <3>2. CASE m # n \/ c # code
      BY <2>1, <2>3, <2>4, <3>2 DEF Due
    <3> QED
      BY <3>1, <3>2
  <2> QED
    BY <1>1, <2>1, <2>3, <2>4 DEF Due
<1> QED
  BY <1>2, <1>3

LEMMA TailDue ==
  ASSUME QueryTypeOK, sock # <<>>, sock' = Tail(sock), UNCHANGED <<net, lost>>
  PROVE  /\ sock' \in Seq(Message) /\ Head(sock) \in Message
         /\ \A m \in Node, c \in Codes : Due(m, c)
              => Due(m, c)' \/ Head(sock) = [node |-> m, code |-> c]
<1>1. sock \in Seq(Message) /\ Len(sock) \in Nat /\ Len(sock) > 0
  BY DEF QueryTypeOK
<1>2. /\ sock' \in Seq(Message) /\ Len(sock') = Len(sock) - 1
      /\ \A i \in 1 .. Len(sock') : sock'[i] = sock[i + 1]
      /\ Head(sock) = sock[1] /\ Head(sock) \in Message
  BY <1>1
<1>3. ASSUME NEW m \in Node, NEW c \in Codes, Due(m, c)
      PROVE  Due(m, c)' \/ Head(sock) = [node |-> m, code |-> c]
  <2>1. CASE m \in lost \/ net[m][c] > 0
    BY <2>1 DEF Due
  <2>2. CASE \E i \in 1 .. Len(sock) : sock[i] = [node |-> m, code |-> c]
    <3>1. PICK i \in 1 .. Len(sock) : sock[i] = [node |-> m, code |-> c]
      BY <2>2
    <3>2. CASE i = 1
      BY <1>2, <3>1, <3>2
    <3>3. CASE i # 1
      <4>1. /\ i - 1 \in 1 .. Len(sock') /\ (i - 1) + 1 = i
        BY <1>1, <1>2, <3>3
      <4>2. sock'[i - 1] = [node |-> m, code |-> c]
        BY <1>2, <3>1, <4>1
      <4> QED
        BY <4>1, <4>2 DEF Due
    <3> QED
      BY <3>2, <3>3
  <2> QED
    BY <1>3, <2>1, <2>2 DEF Due
<1> QED
  BY <1>2, <1>3

-----------------------------------------------------------------------------
(* The steps of a request. *)

LEMMA QueryInitInv == QueryInit => QueryInv
<1> SUFFICES ASSUME QueryInit PROVE QueryInv
  OBVIOUS
<1>1. ThreadsOK
  BY Names DEF QueryInit, ThreadsOK, NoThread, Queries
<1>2. /\ thread = [t \in Thread |-> NoThread] /\ calls = 0 /\ peers = {}
      /\ peers_lock = Nobody /\ lock = Nobody /\ work = NoWork
      /\ net = [n \in Node |-> [code \in Codes |-> 0]] /\ sock = <<>> /\ lost = {}
      /\ result = NoResult
  BY DEF QueryInit
<1>3. QueryTypeOK
  <2>1. \A t \in Thread : /\ thread[t].request \in Queries /\ thread[t].peer \in Node
                          /\ thread[t].step = "idle"
    BY <1>2, Names DEF NoThread, Queries
  <2>2. net \in [Node -> [Codes -> 0 .. MaxNet]] /\ calls \in 0 .. MaxCall
    BY <1>2, QueryBounds
  <2> QED
    BY <1>2, <2>1, <2>2, NoWorkOK DEF QueryTypeOK
<1>4. Exclusive /\ OwnWork
  BY <1>2 DEF Exclusive, OwnWork, NoThread
<1>5. NoneDue /\ GraphDue /\ RightAddress
  BY <1>2 DEF NoneDue, GraphDue, InGraph, NoWork, RightAddress, NoResult
<1> QED
  BY <1>1, <1>3, <1>4, <1>5 DEF QueryInv

\* A thread that gets closer to the lock does not touch what it protects.
Preparing(t) == (\E r \in Queries : Call(t, r)) \/ LockPeers(t) \/ Dump(t)

LEMMA PreparingInv ==
  ASSUME NEW t \in Thread
  PROVE  QueryInv /\ Preparing(t) => QueryInv'
<1> SUFFICES ASSUME QueryInv, Preparing(t) PROVE QueryInv'
  OBVIOUS
<1>1. ThreadsOK /\ QueryTypeOK
  BY DEF QueryInv
<1> DEFINE Prepared ==
      /\ UNCHANGED <<lock, net, sock, work, lost, result>>
      /\ calls' \in 0 .. MaxCall /\ peers' \subseteq Node
      /\ peers_lock' \in Thread \cup {Nobody}
      /\ thread' \in [Thread -> [request : Queries, peer : Node,
                         step : {"idle", "peers", "dump", "lock", "run"}]]
      /\ thread'[t].step # "run"
      /\ \A u \in Thread \ {t} : thread'[u] = thread[u]
<1>2. Prepared
  <2> USE <1>1 DEF ThreadsOK
  <2>1. ASSUME NEW r \in Queries, Call(t, r) PROVE Prepared
    BY <2>1, Names, QueryBounds DEF Call, locks, QueryTypeOK
  <2>2. CASE LockPeers(t)
    BY <2>2 DEF LockPeers, Goto, QueryTypeOK
  <2>3. CASE Dump(t)
    <3>1. CASE thread[t].request = "versions"
      BY <2>3, <3>1 DEF Dump, Goto, QueryTypeOK
    <3>2. CASE thread[t].request # "versions"
      <4>1. PICK list \in ({peers} \ {{}}) \cup {{Root} \cup s : s \in SUBSET Known} :
              \E p \in list :
                /\ peers' = list \ {p}
                /\ thread' = [thread EXCEPT ![t].step = "lock", ![t].peer = p]
        BY <2>3, <3>2 DEF Dump
      <4>2. list \subseteq Node
        BY <4>1, Names DEF QueryTypeOK, Known
      <4>3. PICK p \in list :
              /\ peers' = list \ {p}
              /\ thread' = [thread EXCEPT ![t].step = "lock", ![t].peer = p]
        BY <4>1
      <4>4. /\ thread'[t] = [thread[t] EXCEPT !.step = "lock", !.peer = p]
            /\ \A u \in Thread \ {t} : thread'[u] = thread[u]
            /\ p \in Node
        BY <4>2, <4>3
      <4>5. thread'[t] \in [request : Queries, peer : Node,
                            step : {"idle", "peers", "dump", "lock", "run"}]
        BY <4>4
      <4>6. /\ thread' \in [Thread -> [request : Queries, peer : Node,
                            step : {"idle", "peers", "dump", "lock", "run"}]]
            /\ thread'[t].step # "run"
        BY <4>3, <4>4, <4>5
      <4> QED
        BY <2>3, <4>2, <4>3, <4>4, <4>6 DEF Dump, QueryTypeOK
    <3> QED
      BY <3>1, <3>2
  <2> QED
    BY <2>1, <2>2, <2>3 DEF Preparing
<1>3. ThreadsOK'
  BY <1>2 DEF ThreadsOK
<1>4. QueryTypeOK'
  BY <1>1, <1>2 DEF QueryTypeOK
<1>5. Exclusive' /\ OwnWork'
  BY <1>2 DEF QueryInv, Exclusive, OwnWork
<1>6. NoneDue' /\ GraphDue' /\ RightAddress'
  BY <1>2 DEF QueryInv, NoneDue, Due, GraphDue, InGraph, Whole, ToAsk,
    RightAddress
<1> QED
  BY <1>3, <1>4, <1>5, <1>6 DEF QueryInv

LEMMA LockInv ==
  ASSUME NEW t \in Thread
  PROVE  QueryInv /\ Lock(t) => QueryInv'
<1> SUFFICES ASSUME QueryInv, Lock(t) PROVE QueryInv'
  OBVIOUS
<1>1. ThreadsOK /\ QueryTypeOK
  BY DEF QueryInv
<1> DEFINE r == thread[t].request
<1>2. /\ thread[t].step = "lock" /\ lock = Nobody /\ lock' = t
      /\ thread' = [thread EXCEPT ![t].step = "run"]
      /\ lost' = {} /\ UNCHANGED <<calls, peers, peers_lock, sock, result>>
  BY DEF Lock, TakeLock, Goto
<1>3. /\ thread'[t] = [thread[t] EXCEPT !.step = "run"]
      /\ \A u \in Thread \ {t} : thread'[u] = thread[u]
      /\ ThreadsOK'
  BY <1>1, <1>2 DEF ThreadsOK
<1>4. net' \in [Node -> [Codes -> 0 .. MaxNet]]
  <2>1. CASE r = "getBootstrapPeer"
    <3>1. /\ net' = [net EXCEPT ![thread[t].peer][1] =
                       IF @ = MaxNet THEN @ ELSE @ + 1]
          /\ thread[t].peer \in Node /\ 1 \in Codes
      BY <1>1, <2>1 DEF Lock, ThreadsOK, Codes
    <3> QED
      BY <1>1, <3>1, QueryBounds DEF QueryTypeOK
  <2>2. CASE r # "getBootstrapPeer"
    BY <1>1, <2>2 DEF Lock, QueryTypeOK
  <2> QED
    BY <2>1, <2>2
<1>5. \E q \in Seq(Node) : work' = [NoWork EXCEPT !.todo = q]
  <2>1. CASE r = "getBootstrapPeer"
    <3>1. work' = NoWork
      BY <2>1 DEF Lock
    <3>2. NoWork = [NoWork EXCEPT !.todo = <<>>] /\ <<>> \in Seq(Node)
      BY DEF NoWork
    <3> QED
      BY <3>1, <3>2
  <2>2. CASE r = "topology"
    <3>1. work' = [NoWork EXCEPT !.todo = <<Root>>]
      BY <2>2 DEF Lock
    <3>2. <<Root>> \in Seq(Node)
      BY Names
    <3> QED
      BY <3>1, <3>2
  <2>3. CASE r \notin {"topology", "getBootstrapPeer"}
    <3>1. PICK s \in SUBSET Known :
            work' = [NoWork EXCEPT !.todo = SetToSeq(s \cup {Root})]
      BY <2>3 DEF Lock
    <3>2. s \cup {Root} \subseteq Node
      BY Names DEF Known
    <3>3. IsFiniteSet(s \cup {Root})
      BY <3>2, Names, FS_Subset
    <3>4. SetToSeq(s \cup {Root}) \in Seq(Node)
      BY <3>2, <3>3, SetOrder
    <3> QED
      BY <3>1, <3>4
  <2> QED
    BY <2>1, <2>2, <2>3
<1>6. work' \in Work /\ work'.none = {} /\ work'.keys = {} /\ work'.edges = {}
  BY <1>5 DEF NoWork, Work
<1>7. QueryTypeOK'
  <2>1. \A u \in Thread : /\ thread'[u].request \in Queries /\ thread'[u].peer \in Node
         /\ thread'[u].step \in {"idle", "peers", "dump", "lock", "run"}
    BY <1>3 DEF ThreadsOK
  <2> QED
    BY <1>1, <1>2, <1>4, <1>6, <2>1 DEF QueryTypeOK
<1>8. Exclusive' /\ OwnWork'
  BY <1>2, <1>3, <1>6, Names DEF QueryInv, Exclusive, OwnWork
<1>9. NoneDue' /\ GraphDue' /\ RightAddress'
  BY <1>2, <1>6 DEF QueryInv, NoneDue, GraphDue, InGraph, RightAddress
<1> QED
  BY <1>3, <1>7, <1>8, <1>9 DEF QueryInv

\* The end of a request, and how its lock is given back.
LEMMA ReturnInv ==
  ASSUME QueryInv, NEW t \in Thread, NEW from \in Node \cup {Nobody},
         thread[t].step = "run", Return(t, from),
         thread[t].request = "getBootstrapPeer" => from \in {thread[t].peer, Nobody},
         UNCHANGED <<calls, peers, peers_lock, net, lost>>, sock' \in Seq(Message)
  PROVE  QueryInv'
<1>1. ThreadsOK /\ QueryTypeOK
  BY DEF QueryInv
<1>2. /\ thread' = [thread EXCEPT ![t] = NoThread] /\ lock' = Nobody
      /\ work' = NoWork
      /\ result'.request = thread[t].request /\ result'.peer = thread[t].peer
      /\ result'.from = from
  BY DEF Return
<1>3. /\ thread'[t] = NoThread /\ ThreadsOK'
      /\ \A u \in Thread \ {t} : thread'[u] = thread[u]
  BY <1>1, <1>2, Names DEF ThreadsOK, NoThread, Queries
<1>4. work' \in Work /\ work'.none = {} /\ work'.keys = {} /\ work'.edges = {}
  BY <1>2, NoWorkOK DEF NoWork
<1>5. QueryTypeOK'
  <2>1. \A u \in Thread : /\ thread'[u].request \in Queries /\ thread'[u].peer \in Node
         /\ thread'[u].step \in {"idle", "peers", "dump", "lock", "run"}
    BY <1>3 DEF ThreadsOK
  <2> QED
    BY <1>1, <1>2, <1>4, <2>1 DEF QueryTypeOK
<1>6. \A u \in Thread : thread'[u].step # "run"
  BY <1>2, <1>3 DEF QueryInv, Exclusive, NoThread
<1>7. Exclusive' /\ OwnWork'
  BY <1>6 DEF Exclusive, OwnWork
<1>8. NoneDue' /\ GraphDue' /\ RightAddress'
  BY <1>2, <1>4 DEF NoneDue, GraphDue, InGraph, RightAddress
<1> QED
  BY <1>3, <1>5, <1>7, <1>8 DEF QueryInv

\* What an answer of n adds to the graph.
LEMMA ExploreInv ==
  ASSUME work \in Work, NEW n \in Node, work' = Explore(n)
  PROVE  /\ work' \in Work /\ work'.none = work.none
         /\ Whole(n)'
         /\ \A m \in Node : /\ Whole(m) => Whole(m)'
                            /\ ToAsk(m) => ToAsk(m)'
                            /\ InGraph(m)' => InGraph(m) \/ m = n \/ ToAsk(m)'
<1> DEFINE S == (Servers(n) \cup Served(n)) \ (work.keys \cup {n})
           E == {<<n, m>> : m \in Servers(n)} \cup {<<m, n>> : m \in Served(n)}
<1>1. /\ work.todo \in Seq(Node) /\ work.keys \subseteq Node
      /\ work.edges \subseteq Node \X Node /\ work.done \subseteq Node
      /\ work.none \subseteq Node
  BY DEF Work
<1>2. /\ S \subseteq Node /\ Servers(n) \subseteq Node /\ Served(n) \subseteq Node
      /\ E \subseteq Node \X Node
  <2>1. Servers(n) \subseteq Node /\ Served(n) \subseteq Node
    BY DEF Servers, Served
  <2>2. \A m \in Node : <<n, m>> \in Node \X Node /\ <<m, n>> \in Node \X Node
    OBVIOUS
  <2>3. /\ {<<n, m>> : m \in Servers(n)} \subseteq Node \X Node
        /\ {<<m, n>> : m \in Served(n)} \subseteq Node \X Node
    BY <2>1, <2>2
  <2> QED
    BY <2>1, <2>3
<1>3. /\ work'.todo = work.todo \o SetToSeq(S)
      /\ work'.keys = work.keys \cup {n} \cup Served(n)
      /\ work'.edges = work.edges \cup E
      /\ work'.done = work.done \cup {n} /\ work'.none = work.none
      /\ work' = [todo |-> work'.todo, keys |-> work'.keys, edges |-> work'.edges,
                  done |-> work'.done, none |-> work'.none]
  BY DEF Explore, Work
<1> HIDE DEF S, E
<1>4. /\ work'.todo \in Seq(Node)
      /\ \A m \in S : ToAsk(m)'
      /\ \A m \in Node : ToAsk(m) => ToAsk(m)'
  <2> DEFINE q == work.todo
             o == q \o SetToSeq(S)
  <2>1. q \in Seq(Node) /\ S \in SUBSET Node /\ work'.todo = o
    BY <1>1, <1>2, <1>3
  <2> HIDE DEF q
  <2>2. o = q \o SetToSeq(S)
    OBVIOUS
  <2> HIDE DEF o
  <2>3. /\ o \in Seq(Node)
        /\ \A m \in S : Listed(m, o)
        /\ \A m \in Node : Listed(m, q) => Listed(m, o)
    BY <2>1, <2>2, MoreToAsk
  <2> QED
    BY <2>1, <2>3 DEF ToAsk, q
<1>5. work' \in Work
  <2>1. /\ work'.keys \subseteq Node /\ work'.edges \subseteq Node \X Node
        /\ work'.done \subseteq Node /\ work'.none \subseteq Node
    BY <1>1, <1>2, <1>3
  <2> QED
    BY <1>3, <1>4, <2>1 DEF Work
<1>6. Whole(n)'
  <2> SUFFICES ASSUME NEW f \in Tunnel, n \in {f[1], f[2]}
               PROVE  f \in work'.edges
    BY DEF Whole
  <2>1. f = <<f[1], f[2]>> /\ f[1] \in Node /\ f[2] \in Node
    BY Names
  <2>2. CASE f[1] = n
    <3>1. f[2] \in Servers(n) /\ f = <<n, f[2]>>
      BY <2>1, <2>2 DEF Servers
    <3> QED
      BY <1>3, <3>1 DEF E
  <2>3. CASE f[2] = n
    <3>1. f[1] \in Served(n) /\ f = <<f[1], n>>
      BY <2>1, <2>3 DEF Served
    <3> QED
      BY <1>3, <3>1 DEF E
  <2> QED
    BY <2>2, <2>3
<1>7. ASSUME NEW m \in Node PROVE Whole(m) => Whole(m)'
  BY <1>3 DEF Whole
<1>8. ASSUME NEW m \in Node, InGraph(m)', m # n, ~ InGraph(m)
      PROVE  m \in S
  <2>1. m \notin work.keys /\ ~ \E e \in work.edges : m \in {e[1], e[2]}
    BY <1>8 DEF InGraph
  <2>2. CASE m \in work'.keys
    BY <1>3, <1>8, <2>1, <2>2 DEF S
  <2>3. CASE \E e \in work'.edges : m \in {e[1], e[2]}
    <3>1. PICK e \in E : m \in {e[1], e[2]}
      BY <1>3, <2>1, <2>3
    <3>2. CASE \E k \in Servers(n) : e = <<n, k>>
      BY <1>8, <2>1, <3>1, <3>2 DEF S
    <3>3. CASE \E k \in Served(n) : e = <<k, n>>
      BY <1>8, <2>1, <3>1, <3>3 DEF S
    <3> QED
      BY <3>1, <3>2, <3>3 DEF E
  <2> QED
    BY <1>8, <2>2, <2>3 DEF InGraph
<1> QED
  BY <1>3, <1>4, <1>5, <1>6, <1>7, <1>8

\* An answer, to this query or to an older one.
LEMMA ReceiveInv ==
  ASSUME NEW t \in Thread
  PROVE  QueryInv /\ Receive(t) => QueryInv'
<1> SUFFICES ASSUME QueryInv, Receive(t) PROVE QueryInv'
  OBVIOUS
<1>1. ThreadsOK /\ QueryTypeOK /\ work \in Work
  BY DEF QueryInv, QueryTypeOK
<1> DEFINE m == Head(sock)
           r == thread[t].request
<1>2. /\ thread[t].step = "run" /\ sock # <<>> /\ sock' = Tail(sock)
      /\ UNCHANGED <<calls, peers, peers_lock, net, lost>>
  BY DEF Receive
<1>3. /\ sock' \in Seq(Message) /\ m \in Message
      /\ \A n \in Node, c \in Codes : Due(n, c)
           => Due(n, c)' \/ m = [node |-> n, code |-> c]
  BY <1>1, <1>2, TailDue
<1>4. /\ r # "versions" => work.none = {}
      /\ r # "topology" => work.keys = {} /\ work.edges = {}
      /\ r \in Queries
  BY <1>1, <1>2 DEF QueryInv, OwnWork, ThreadsOK
<1>5. m.node \in Node /\ work.none \subseteq Node /\ {4, 5} \subseteq Codes
  BY <1>1, <1>3 DEF Message, Work, Codes
<1> HIDE DEF m
<1>6. CASE r = "getBootstrapPeer" /\ Matches(t, m)
  <2>1. Return(t, m.node)
    BY <1>6 DEF Receive, m
  <2>2. m.node = thread[t].peer
    BY <1>6 DEF Matches
  <2> QED
    BY <1>2, <1>3, <1>5, <2>1, <2>2, ReturnInv
<1>7. CASE UNCHANGED <<thread, lock, result>> /\ work' \in Work
        /\ (r # "versions" => work'.none = {})
        /\ (r # "topology" => work'.keys = {} /\ work'.edges = {})
        /\ NoneDue' /\ GraphDue'
  <2>1. QueryTypeOK' /\ ThreadsOK'
    BY <1>1, <1>2, <1>3, <1>7 DEF QueryTypeOK, ThreadsOK
  <2>2. \A u \in Thread : thread[u].step = "run" => u = t
    BY <1>2 DEF QueryInv, Exclusive
  <2>3. Exclusive' /\ OwnWork'
    BY <1>7, <2>2 DEF QueryInv, Exclusive, OwnWork
  <2>4. RightAddress'
    BY <1>7 DEF QueryInv, RightAddress
  <2> QED
    BY <1>7, <2>1, <2>3, <2>4 DEF QueryInv
<1>8. CASE r = "versions" /\ m.code = 4
  <2>1. /\ work' = [work EXCEPT !.done = @ \cup {m.node}, !.none = @ \ {m.node}]
        /\ UNCHANGED <<thread, lock, result>>
    BY <1>8 DEF Receive, m
  <2>2. /\ work' \in Work /\ work'.none = work.none \ {m.node}
        /\ work'.keys = {} /\ work'.edges = {}
    BY <1>1, <1>4, <1>5, <1>8, <2>1 DEF Work
  <2>3. NoneDue'
    BY <1>3, <1>5, <2>2 DEF QueryInv, NoneDue
  <2>4. GraphDue'
    BY <2>2 DEF GraphDue, InGraph
  <2> QED
    BY <1>7, <1>8, <2>1, <2>2, <2>3, <2>4
<1>9. CASE r = "topology" /\ m.code = 5
  <2>1. PICK n \in Node : n = m.node
    BY <1>5
  <2>2. work' = Explore(n) /\ UNCHANGED <<thread, lock, result>>
    BY <1>9, <2>1 DEF Receive, m
  <2>3. /\ work' \in Work /\ work'.none = work.none /\ Whole(n)'
        /\ \A k \in Node : /\ Whole(k) => Whole(k)'
                           /\ ToAsk(k) => ToAsk(k)'
                           /\ InGraph(k)' => InGraph(k) \/ k = n \/ ToAsk(k)'
    BY <1>1, <2>2, ExploreInv
  <2>4. work'.none = {} /\ NoneDue'
    BY <1>4, <1>9, <2>3 DEF NoneDue
  <2>5. \A k \in Node : Due(k, 5) => Due(k, 5)' \/ k = n
    BY <1>3, <1>5, <2>1
  <2>6. GraphDue'
    BY <2>3, <2>5 DEF QueryInv, GraphDue
  <2> QED
    BY <1>7, <1>9, <2>2, <2>3, <2>4, <2>6
<1>10. CASE ~ (r = "getBootstrapPeer" /\ Matches(t, m))
        /\ ~ (r = "versions" /\ m.code = 4) /\ ~ (r = "topology" /\ m.code = 5)
  <2>1. UNCHANGED <<thread, lock, work, result>>
    BY <1>10 DEF Receive, m
  <2>2. NoneDue'
    BY <1>3, <1>4, <1>5, <1>10, <2>1 DEF QueryInv, NoneDue
  <2>3. GraphDue'
    <3>1. CASE r # "topology"
      BY <1>4, <2>1, <3>1 DEF GraphDue, InGraph
    <3>2. CASE m.code # 5
      <4>1. \A n \in Node : Due(n, 5) => Due(n, 5)'
        BY <1>3, <1>5, <3>2
      <4> QED
        BY <2>1, <4>1 DEF QueryInv, GraphDue, InGraph, Whole, ToAsk
    <3> QED
      BY <1>10, <3>1, <3>2
  <2> QED
    BY <1>1, <1>4, <1>7, <2>1, <2>2, <2>3
<1> QED
  BY <1>6, <1>8, <1>9, <1>10

LEMMA AskInv ==
  ASSUME NEW t \in Thread
  PROVE  QueryInv /\ Ask(t) => QueryInv'
<1> SUFFICES ASSUME QueryInv, Ask(t) PROVE QueryInv'
  OBVIOUS
<1>1. ThreadsOK /\ QueryTypeOK /\ work \in Work
  BY DEF QueryInv, QueryTypeOK
<1>2. thread[t].request \in Queries
  BY <1>1 DEF ThreadsOK
<1>3. work.todo # <<>> /\ work.todo \in Seq(Node)
  BY <1>1 DEF Ask, Work
<1>4. PICK r \in Queries : r = thread[t].request
  BY <1>2
<1>5. PICK n \in Node : n = Head(work.todo)
  BY <1>3
<1>6. /\ thread[t].step = "run" /\ work.todo # <<>>
      /\ SendTo(n, Code[r])
      /\ work' = [work EXCEPT !.todo = Tail(@),
                              !.done = IF r = "versions" THEN @ \ {n} ELSE @,
                              !.none = IF r = "versions" THEN @ \cup {n} ELSE @]
      /\ UNCHANGED <<thread, calls, peers, peers_lock, lock, sock, result>>
  BY <1>4, <1>5 DEF Ask, locks
<1>7. /\ Tail(work.todo) \in Seq(Node)
      /\ \A m : ToAsk(m) => m = n \/ \E i \in 1 .. Len(Tail(work.todo)) :
                                        Tail(work.todo)[i] = m
  <2>1. /\ n = work.todo[1] /\ n \in Node /\ Tail(work.todo) \in Seq(Node)
        /\ Len(Tail(work.todo)) = Len(work.todo) - 1 /\ Len(work.todo) \in Nat
        /\ \A i \in 1 .. Len(work.todo) - 1 : Tail(work.todo)[i] = work.todo[i + 1]
    BY <1>3, <1>5
  <2>2. ASSUME NEW m, ToAsk(m), m # n
        PROVE  \E i \in 1 .. Len(Tail(work.todo)) : Tail(work.todo)[i] = m
    <3>1. PICK i \in 1 .. Len(work.todo) : work.todo[i] = m
      BY <2>2 DEF ToAsk, Listed
    <3>2. i - 1 \in 1 .. Len(work.todo) - 1 /\ (i - 1) + 1 = i
      BY <2>1, <2>2, <3>1
    <3>3. Tail(work.todo)[i - 1] = m
      BY <2>1, <3>1, <3>2
    <3> QED
      BY <2>1, <3>2, <3>3
  <2> QED
    BY <2>1, <2>2
<1>8. /\ net' \in [Node -> [Codes -> 0 .. MaxNet]] /\ lost' \subseteq Node
      /\ Due(n, Code[r])'
      /\ \A m \in Node, c \in Codes : Due(m, c) => Due(m, c)'
  BY <1>1, <1>6, Coding, SendDue
<1>9. /\ work' \in Work /\ work'.todo = Tail(work.todo)
      /\ work'.keys = work.keys /\ work'.edges = work.edges
      /\ work'.none = IF r = "versions" THEN work.none \cup {n} ELSE work.none
  BY <1>1, <1>6, <1>7 DEF Work
<1>10. QueryTypeOK' /\ ThreadsOK'
  BY <1>1, <1>6, <1>8, <1>9 DEF QueryTypeOK, ThreadsOK
<1>11. \A u \in Thread : thread[u].step = "run" => u = t
  BY <1>6 DEF QueryInv, Exclusive
<1>12. Exclusive' /\ OwnWork' /\ RightAddress'
  BY <1>6, <1>9, <1>11, <1>4 DEF QueryInv, Exclusive, OwnWork, RightAddress
<1>13. NoneDue'
  <2>1. work.none \subseteq Node /\ 4 \in Codes
    BY <1>1 DEF Work, Codes
  <2> QED
    BY <1>1, <1>6, <1>8, <1>9, <2>1, Coding DEF QueryInv, NoneDue
<1>14. GraphDue'
  <2>1. CASE r = "topology"
    <3>1. ASSUME NEW m \in Node, ToAsk(m) PROVE ToAsk(m)' \/ Due(m, 5)'
      BY <1>7, <1>8, <1>9, <2>1, <3>1, Coding DEF ToAsk, Listed
    <3>2. \A m \in Node : (InGraph(m)' <=> InGraph(m)) /\ (Whole(m)' <=> Whole(m))
      BY <1>9 DEF InGraph, Whole
    <3>3. 5 \in Codes
      BY DEF Codes
    <3> QED
      BY <1>8, <3>1, <3>2, <3>3 DEF QueryInv, GraphDue
  <2>2. CASE r # "topology"
    <3>1. work'.keys = {} /\ work'.edges = {}
      BY <1>6, <1>9, <1>4, <2>2 DEF QueryInv, OwnWork
    <3> QED
      BY <3>1 DEF GraphDue, InGraph
  <2> QED
    BY <2>1, <2>2
<1> QED
  BY <1>10, <1>12, <1>13, <1>14 DEF QueryInv

\* What happens to the messages on their way.
LEMMA NetworkInv ==
  ASSUME NEW n \in Node, NEW code \in Codes
  PROVE  QueryInv /\ (Arrive(n, code) \/ Lose(n, code)) => QueryInv'
<1> SUFFICES ASSUME QueryInv, Arrive(n, code) \/ Lose(n, code) PROVE QueryInv'
  OBVIOUS
<1>1. ThreadsOK /\ QueryTypeOK
  BY DEF QueryInv
<1>2. UNCHANGED <<thread, calls, peers, peers_lock, lock, work, result>>
  BY DEF Arrive, Lose, locks
<1>3. /\ net' \in [Node -> [Codes -> 0 .. MaxNet]] /\ sock' \in Seq(Message)
      /\ lost' \subseteq Node
      /\ \A m \in Node, c \in Codes : Due(m, c) => Due(m, c)'
  <2>1. CASE Arrive(n, code)
    BY <1>1, <2>1, ArriveDue DEF Arrive, QueryTypeOK
  <2>2. CASE Lose(n, code)
    BY <1>1, <2>2, LoseDue DEF Lose, QueryTypeOK
  <2> QED
    BY <2>1, <2>2
<1>4. QueryTypeOK' /\ ThreadsOK'
  BY <1>1, <1>2, <1>3 DEF QueryTypeOK, ThreadsOK
<1>5. Exclusive' /\ OwnWork' /\ RightAddress'
  BY <1>2 DEF QueryInv, Exclusive, OwnWork, RightAddress
<1>6. work.none \subseteq Node /\ {4, 5} \subseteq Codes
  BY <1>1 DEF QueryTypeOK, Work, Codes
<1>7. NoneDue'
  BY <1>2, <1>3, <1>6 DEF QueryInv, NoneDue
<1>8. \A m : (InGraph(m)' <=> InGraph(m)) /\ (Whole(m)' <=> Whole(m))
             /\ (ToAsk(m)' <=> ToAsk(m))
  BY <1>2 DEF InGraph, Whole, ToAsk
<1>9. GraphDue'
  BY <1>3, <1>6, <1>8 DEF QueryInv, GraphDue
<1> QED
  BY <1>4, <1>5, <1>7, <1>9 DEF QueryInv

LEMMA TimeoutInv ==
  ASSUME NEW t \in Thread
  PROVE  QueryInv /\ Timeout(t) => QueryInv'
<1> SUFFICES ASSUME QueryInv, Timeout(t) PROVE QueryInv'
  OBVIOUS
<1>1. /\ thread[t].step = "run" /\ Return(t, Nobody)
      /\ UNCHANGED <<calls, peers, peers_lock, net, sock, lost>>
      /\ sock' \in Seq(Message)
  BY DEF Timeout, QueryInv, QueryTypeOK
<1> QED
  BY <1>1, ReturnInv

LEMMA QueryStep == QueryInv /\ [QueryNext]_queryVars => QueryInv'
<1> SUFFICES ASSUME QueryInv, [QueryNext]_queryVars PROVE QueryInv'
  OBVIOUS
<1>1. ASSUME NEW t \in Thread, Progress(t) \/ \E r \in Queries : Call(t, r)
      PROVE  QueryInv'
  <2>1. Preparing(t) \/ Lock(t) \/ Receive(t) \/ Ask(t) \/ Timeout(t)
    BY <1>1 DEF Progress, Preparing
  <2> QED
    BY <2>1, PreparingInv, LockInv, ReceiveInv, AskInv, TimeoutInv
<1>2. ASSUME NEW n \in Node, NEW code \in Codes, Arrive(n, code) \/ Lose(n, code)
      PROVE  QueryInv'
  BY <1>2, NetworkInv
<1>3. CASE UNCHANGED queryVars
  BY <1>3 DEF queryVars, locks, QueryInv, QueryTypeOK, ThreadsOK, Exclusive, OwnWork,
    NoneDue, GraphDue, Due, InGraph, Whole, ToAsk, RightAddress
<1> QED
  BY <1>1, <1>2, <1>3 DEF QueryNext

LEMMA QueriesAlways == QuerySpec => []QueryInv
BY QueryInitInv, QueryStep, PTL DEF QuerySpec

-----------------------------------------------------------------------------
\* The address that getBootstrapPeer sends is the one of the peer that it asked,
\* whatever answers to other queries are received (RegistryServer.request_dump
\* and the lock of getBootstrapPeer), in states of the right types.
THEOREM RightPeer == QuerySpec => []SafeQueries
<1>1. QueryInv => SafeQueries
  BY DEF QueryInv, SafeQueries
<1> QED
  BY <1>1, QueriesAlways, PTL

\* Only a request that ends changes the result, and what it found is in work.
LEMMA ResultStep ==
  ASSUME QueryInv, [QueryNext]_queryVars, result' # result,
         result'.request # "getBootstrapPeer"
  PROVE  \E t \in Thread : /\ thread[t].step = "run" /\ sock = <<>>
                           /\ work.todo = <<>> /\ result'.work = work
                           /\ result'.lost = lost
<1>1. \A t \in Thread : thread[t].request \in Queries
  BY DEF QueryInv, ThreadsOK
<1>2. ASSUME NEW t \in Thread, Receive(t) PROVE FALSE
  <2>1. PICK m : thread[t].request = "getBootstrapPeer" /\ Return(t, m)
    BY <1>2 DEF Receive
  <2> QED
    BY <2>1 DEF Return
<1>3. PICK t \in Thread : Timeout(t)
  BY <1>2 DEF QueryNext, queryVars, Progress, Call, LockPeers, Dump, Lock, Ask,
    Arrive, Lose
<1>4. /\ thread[t].step = "run" /\ sock = <<>> /\ work.todo = <<>>
      /\ Return(t, Nobody)
  BY <1>3 DEF Timeout
<1> QED
  BY <1>4 DEF Return

\* versions: a node has no version in the answer only if its own answer was lost
\* or is late, however the answers to other queries come in between.
THEOREM AllVersions == QuerySpec => VersionsComplete
<1>1. QueryInv /\ [QueryNext]_queryVars
        => [result' # result /\ result'.request = "versions"
              => \A n \in result'.work.none :
                   n \in result'.lost \/ net[n][4] > 0]_queryVars
  <2> SUFFICES ASSUME QueryInv, [QueryNext]_queryVars, result' # result,
                      result'.request = "versions", NEW n \in result'.work.none
               PROVE  n \in result'.lost \/ net[n][4] > 0
    OBVIOUS
  <2>1. sock = <<>> /\ result'.work = work /\ result'.lost = lost
    BY ResultStep
  <2>2. Due(n, 4) /\ Len(sock) = 0
    BY <2>1 DEF QueryInv, NoneDue
  <2> QED
    BY <2>1, <2>2 DEF Due
<1> QED
  BY <1>1, QueriesAlways, PTL DEF QuerySpec, VersionsComplete

\* topology: a node that another one names is in the graph with all its tunnels,
\* unless its answer was lost or is late, in whatever order answers come.
THEOREM WholeTopology == QuerySpec => TopologyComplete
<1>1. QueryInv /\ [QueryNext]_queryVars
        => [result' # result /\ result'.request = "topology"
              => LET w == result'.work IN
                 \A e \in w.edges : \A n \in {e[1], e[2]} :
                   \/ \A f \in Tunnel : n \in {f[1], f[2]} => f \in w.edges
                   \/ n \in result'.lost \/ net[n][5] > 0]_queryVars
  <2> SUFFICES ASSUME QueryInv, [QueryNext]_queryVars, result' # result,
                      result'.request = "topology",
                      NEW e \in result'.work.edges, NEW n \in {e[1], e[2]}
               PROVE  \/ \A f \in Tunnel : n \in {f[1], f[2]}
                           => f \in result'.work.edges
                      \/ n \in result'.lost \/ net[n][5] > 0
    OBVIOUS
  <2>1. /\ sock = <<>> /\ work.todo = <<>>
        /\ result'.work = work /\ result'.lost = lost
    BY ResultStep
  <2>2. n \in Node /\ InGraph(n)
    BY <2>1 DEF QueryInv, QueryTypeOK, Work, InGraph
  <2>3. Whole(n) \/ ToAsk(n) \/ Due(n, 5)
    BY <2>2 DEF QueryInv, GraphDue
  <2>4. Len(sock) = 0 /\ Len(work.todo) = 0
    BY <2>1
  <2> QED
    BY <2>1, <2>3, <2>4 DEF Whole, ToAsk, Listed, Due
<1> QED
  BY <1>1, QueriesAlways, PTL DEF QuerySpec, TopologyComplete
=============================================================================
