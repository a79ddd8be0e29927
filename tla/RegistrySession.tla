-------------------------- MODULE RegistrySession --------------------------
(***************************************************************************)
(* Authenticated calls of a node to the registry, over HTTP.               *)
(*                                                                         *)
(* hello gives the node a secret.  Each call is signed with a key that     *)
(* both ends derive from it: they hash it after each call.  A key is       *)
(* [secret, n]: the secret after n calls.  The answer is signed with an    *)
(* intermediate key, that identifies the call.                             *)
(*                                                                         *)
(* A request that the node waits for no more may be processed later, and   *)
(* a proxy in front of the registry may repeat one: a request that was     *)
(* sent can be handled at any time, once, several times or never.  The     *)
(* registry handles requests in threads.  hello is not authenticated: any  *)
(* one can send it for this node.                                          *)
(***************************************************************************)
EXTENDS Naturals, Sequences, FiniteSets

CONSTANTS
  MaxRequest,    \* bound: HTTP requests of the node
  MaxSecret,     \* bound: secrets that the registry draws
  NoKey

ASSUME Bounds == MaxRequest \in Nat /\ MaxSecret \in Nat

VARIABLES
  sent,       \* requests, by number
  answers,    \* of the registry
  session,    \* registry: self.sessions[cn], <<>> if there is none
  threads,    \* registry: calls that were authenticated, not answered
  drawn,      \* registry: secrets that were drawn
  valid,      \* registry: the node has a certificate
  node,       \* the client
  accepted    \* for each request, how many times it was authenticated

vars == <<sent, answers, session, threads, drawn, valid, node, accepted>>
server == <<session, threads, drawn, valid, accepted>>

Id == 1 .. MaxRequest
Secret == 1 .. MaxSecret
Key == [secret : Secret, n : Nat]

ASSUME NoKeyIsNone == NoKey \notin Key

\* What the calls need differs, see Result: getBootstrapPeer stands for one that
\* finds an address, and getDh for any that needs nothing more.  Those that only
\* need a certificate, as getNetworkConfig, end like the former if it is revoked
\* and like the latter otherwise.
Calling == {"getBootstrapPeer", "getDh"}
Method == Calling \cup {"hello"}
Request == [id : Id, method : Method, key : Key \cup {NoKey}]
Answer == [id : Id, ok : BOOLEAN, key : Key \cup {NoKey}]

\* hmac is _hmac; request is the one it waits for.  The rest describes the last
\* call: how it ended, whether something disturbed it, and whether the registry
\* kept its session since it was sent.
Client == [hmac : Key \cup {NoKey}, step : {"idle", "loop", "hello", "call"},
           retry : BOOLEAN, method : Calling, request : 0 .. MaxRequest,
           result : {"ok", "failed", "running"}, disturbed : BOOLEAN,
           kept : BOOLEAN]

NewClient == [hmac |-> NoKey, step |-> "idle", retry |-> FALSE,
              method |-> "getDh", request |-> 0, result |-> "failed",
              disturbed |-> TRUE, kept |-> FALSE]

\* Twice the SHA1, for the next call.
Ratchet(k) == [k EXCEPT !.n = @ + 1]

-----------------------------------------------------------------------------
Init ==
  /\ sent = {} /\ answers = {} /\ session = <<>> /\ threads = {}
  /\ drawn = 0 /\ valid = TRUE
  /\ node = NewClient
  /\ accepted = [i \in Id |-> 0]

(***************************************************************************)
(* RegistryClient                                                          *)
(***************************************************************************)
NextId == Cardinality(sent) + 1
Send(r) == sent' = sent \cup {r}

\* A call needs at most three requests.
StartCall(m) ==
  /\ node.step = "idle"
  /\ NextId + 2 <= MaxRequest
  /\ node' = [node EXCEPT !.step = "loop", !.retry = TRUE, !.method = m,
                !.result = "running", !.disturbed = ~ valid]
  /\ UNCHANGED <<sent, answers, server>>

LastTry_Never == node.retry
LastTry == FALSE

SendHello ==
  /\ node.step = "loop" /\ node.hmac = NoKey
  /\ NextId <= MaxRequest
  /\ Send([id |-> NextId, method |-> "hello", key |-> NoKey])
  /\ node' = [node EXCEPT !.step = "hello", !.retry = LastTry,
                !.request = NextId]
  /\ UNCHANGED <<answers, server>>

\* The next key is computed before the request is sent.
Advance(k) == Ratchet(k)

SendCall ==
  /\ node.step = "loop" /\ node.hmac # NoKey
  /\ NextId <= MaxRequest
  /\ Send([id |-> NextId, method |-> node.method, key |-> node.hmac])
  /\ node' = [node EXCEPT !.step = "call", !.request = NextId,
                !.hmac = Advance(node.hmac), !.kept = TRUE]
  /\ UNCHANGED <<answers, server>>

End(result) ==
  [node EXCEPT !.step = "idle", !.result = result, !.request = 0]

ReceiveHello(a) ==
  /\ node.step = "hello" /\ a.id = node.request
  /\ node' = IF a.ok THEN [node EXCEPT !.step = "loop", !.hmac = a.key]
             ELSE End("failed")
  /\ UNCHANGED <<sent, answers, server>>

\* Any error resets the key; once, it tries again.
Failed_NoRetry == [End("failed") EXCEPT !.hmac = NoKey]
Failed ==
  IF node.retry THEN [node EXCEPT !.step = "loop", !.hmac = NoKey, !.request = 0]
  ELSE [End("failed") EXCEPT !.hmac = NoKey]

ReceiveResult(a) ==
  /\ node.step = "call" /\ a.id = node.request
  /\ node' = IF a.ok THEN End("ok") ELSE Failed
  /\ UNCHANGED <<sent, answers, server>>

\* The connection fails, or the socket times out.
GiveUp ==
  /\ node.step \in {"hello", "call"}
  /\ node' = [End("failed") EXCEPT !.disturbed = TRUE]
  /\ UNCHANGED <<sent, answers, server>>

RestartNode ==
  /\ node # NewClient
  /\ node' = NewClient
  /\ UNCHANGED <<sent, answers, server>>

(***************************************************************************)
(* RegistryServer                                                          *)
(***************************************************************************)
Reply(r, ok, k) ==
  answers' = answers \cup {[id |-> r.id, ok |-> ok, key |-> k]}

Disturbed == [node EXCEPT !.disturbed = TRUE]

\* What the node waits for is handled for the first time, or something else
\* happens.
Expected(r) == r.id = node.request /\ accepted[r.id] = 0
               /\ \A a \in answers : a.id # r.id

\* The last key that was used stays until another one is.
Handshake_Replace(k) == <<k>>
Handshake(k) == IF session = <<>> THEN <<k>> ELSE <<session[1], k>>

Hello(r) ==
  /\ r.method = "hello"
  /\ IF valid
     THEN /\ drawn < MaxSecret
          /\ drawn' = drawn + 1
          /\ session' = Handshake([secret |-> drawn', n |-> 0])
          /\ Reply(r, TRUE, [secret |-> drawn', n |-> 0])
     ELSE /\ Reply(r, FALSE, NoKey)
          /\ UNCHANGED <<drawn, session>>
  /\ node' = IF Expected(r) THEN node ELSE Disturbed
  /\ UNCHANGED <<sent, threads, valid, accepted>>

\* A hello for this node by someone else.
OtherHello ==
  /\ valid /\ drawn < MaxSecret
  /\ drawn' = drawn + 1
  /\ session' = Handshake([secret |-> drawn', n |-> 0])
  /\ node' = Disturbed
  /\ UNCHANGED <<sent, answers, threads, valid, accepted>>

Keys == {session[i] : i \in DOMAIN session}

\* handle_request, with the lock.
AfterUse_Keep(r) == <<r.key>>
AfterUse(r) == <<Ratchet(r.key)>>

Authenticate(r) ==
  /\ r.method # "hello"
  /\ r.key \in Keys
  /\ session' = AfterUse(r)
  /\ threads' = threads \cup {r}
  /\ accepted' = [accepted EXCEPT ![r.id] = @ + 1]
  /\ node' = IF Expected(r) THEN node ELSE Disturbed
  /\ UNCHANGED <<sent, answers, drawn, valid>>

\* No session, or wrong HMAC.
Reject(r) ==
  /\ r.method # "hello"
  /\ r.key \notin Keys
  /\ Reply(r, FALSE, NoKey)
  /\ node' = IF Expected(r) THEN node ELSE Disturbed
  /\ UNCHANGED <<sent, server>>

\* getPeerProtocol wants exactly one key, and getCert a certificate.
Result(r) ==
  r.method = "getBootstrapPeer" => Len(session) = 1 /\ valid

AnswerCall(r) ==
  /\ r \in threads
  /\ threads' = threads \ {r}
  /\ Reply(r, Result(r), r.key)
  /\ UNCHANGED <<sent, session, drawn, valid, node, accepted>>

Revoke ==
  /\ valid
  /\ valid' = FALSE /\ session' = <<>>
  /\ node' = [Disturbed EXCEPT !.kept = FALSE]
  /\ UNCHANGED <<sent, answers, threads, drawn, accepted>>

RestartRegistry ==
  /\ session # <<>>
  /\ session' = <<>> /\ threads' = {}
  /\ node' = [Disturbed EXCEPT !.kept = FALSE]
  /\ UNCHANGED <<sent, answers, drawn, valid, accepted>>

Act ==
  \/ SendHello \/ SendCall \/ GiveUp
  \/ \E a \in answers : ReceiveHello(a) \/ ReceiveResult(a)

Next ==
  \/ \E m \in Calling : StartCall(m)
  \/ Act
  \/ RestartNode
  \/ \E r \in sent : Hello(r) \/ Authenticate(r) \/ Reject(r) \/ AnswerCall(r)
  \/ OtherHello \/ Revoke \/ RestartRegistry

Spec == Init /\ [][Next]_vars

\* The node does not stop in the middle of a call: sockets time out.
FairSpec == Spec /\ WF_vars(Act)

-----------------------------------------------------------------------------
TypeOK ==
  /\ sent \in SUBSET Request
  /\ answers \in SUBSET Answer
  /\ session \in Seq(Key) /\ Len(session) <= 2
  /\ threads \in SUBSET sent
  /\ drawn \in 0 .. MaxSecret
  /\ valid \in BOOLEAN
  /\ node \in Client
  /\ accepted \in [Id -> Nat]

\* "secret+1 = SHA1(secret) to protect from replay attacks": a request that is
\* repeated or delayed is executed once at most.
ExecutedOnce == \A i \in Id : accepted[i] <= 1

\* The node never signs two requests with the same key, even if it does not know
\* what happened to the first one.
SignedOnce ==
  \A q, r \in sent : q.method # "hello" /\ q.key = r.key => q = r

\* A key serves once, at both ends, and the types hold: among others the registry
\* never has more than two keys for a node.
OnlyOnce == TypeOK /\ ExecutedOnce /\ SignedOnce

\* "To prevent anyone from breaking an existing session": after a call that was
\* answered, whatever hellos are sent for this node, the registry still expects
\* the key that the node has.
SessionKept ==
  node.step = "idle" /\ node.result = "ok" /\ node.kept
    => node.hmac \in Keys

\* Whatever happened before, a call that is not disturbed is answered.
CallAnswered == node.result = "failed" => node.disturbed

\* A request that was authenticated succeeds, unless the node is revoked.
HelloBreaksNothing ==
  \A a \in answers : a.key # NoKey /\ valid => a.ok

\* A call always ends: answered or not, the main loop of the node goes on.
CallEnds == node.step # "idle" ~> node.step = "idle"
=============================================================================
