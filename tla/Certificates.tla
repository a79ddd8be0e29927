---------------------------- MODULE Certificates ----------------------------
(***************************************************************************)
(* The certificates the registry signs, those it revokes, and the          *)
(* configuration of the network it publishes.                              *)
(*                                                                         *)
(* self.lock serialises the requests, but the database is in autocommit    *)
(* mode: each statement is committed by itself.  A request is therefore a  *)
(* sequence of steps, one per statement that writes, and it can be         *)
(* interrupted before any of them: what was written stays and what was in  *)
(* memory is lost.  onTimeout is one transaction, hence one step.          *)
(*                                                                         *)
(* newPrefix takes a prefix that is free (see PrefixTree).  Requests by    *)
(* email or anonymous only differ by the token.                            *)
(***************************************************************************)
EXTENDS Naturals, FiniteSets

CONSTANTS
  Prefix,        \* that can be allocated
  Token,
  NoPrefix, NoToken, NoCert, NoConfig,
  MaxSerial,     \* bound: certificates that are signed
  MaxVersion     \* bound: versions of the configuration

ASSUME Names == /\ NoPrefix \notin Prefix /\ NoToken \notin Token
                /\ IsFiniteSet(Prefix)
ASSUME Bounds == MaxSerial \in Nat /\ MaxVersion \in Nat

VARIABLES
  token, cert, crl,            \* the tables
  serial, prefix, version, lastConfig,    \* the table "config"
  reg,          \* the process: prefix, version, network_config
  call,         \* the request: local variables and next statement
  age,          \* age[s]: of the certificate of serial s
  signed,       \* all the certificates that were recorded
  published,    \* all the configurations that nodes could get
  announced,    \* the last version that was sent to the nodes
  forgotten,    \* ghost: serials that an interrupted revoke did not list
  missed        \* ghost: versions whose announcement was interrupted

db == <<token, cert, crl, serial, prefix, version, lastConfig>>
lost == <<forgotten, missed>>
past == <<signed, published, announced, lost>>
vars == <<db, reg, call, age, past>>

Serial == 1 .. MaxSerial

\* The subject has a number of its own, that nodes use for IPv4.
Subject == 0 .. Cardinality(Prefix)
Cert == [serial : Serial, prefix : Prefix, subject : Subject,
         token : Token \cup {NoToken}]

ASSUME None == NoCert \notin Cert

\* Less than RENEW_PERIOD before the end, then after the end, for less or
\* for more than the grace period.
Age == {"valid", "renewable", "expired", "old"}
Older == [a \in Age |-> CASE a = "valid" -> "renewable"
                          [] a = "renewable" -> "expired"
                          [] OTHER -> "old"]

Config == [crl : SUBSET Serial, prefix : Prefix]
Served == [crl : SUBSET Serial, prefix : Prefix, version : 0 .. MaxVersion]

Registry == [prefix : Prefix \cup {NoPrefix}, version : 0 .. MaxVersion,
             config : Served \cup {NoConfig}]

Step == {"stopped", "idle", "alloc", "prefix", "config", "last", "announce",
         "serial", "record", "list"}

Call == [step : Step, then : {"idle", "serial"},
         prefix : Prefix \cup {NoPrefix}, token : Token \cup {NoToken},
         subject : Subject, serial : 0 .. MaxSerial, age : Age]
NoCall == [step |-> "idle", then |-> "idle", prefix |-> NoPrefix,
           token |-> NoToken, subject |-> 0, serial |-> 0, age |-> "valid"]

Goto(s) == call' = [call EXCEPT !.step = s]

\* The end of a request forgets its local variables.
Return == call' = NoCall
Continue(s) == IF s = "idle" THEN Return ELSE Goto(s)

HasCert(p) == cert[p] # NoCert
AgeOf(p) == age[cert[p].serial]
Issued == {cert[p] : p \in {q \in Prefix : HasCert(q)}}

-----------------------------------------------------------------------------
Init ==
  /\ token = {} /\ cert = [p \in Prefix |-> NoCert] /\ crl = {}
  /\ serial = 0 /\ prefix = NoPrefix /\ version = 0 /\ lastConfig = NoConfig
  /\ reg = [prefix |-> NoPrefix, version |-> 0, config |-> NoConfig]
  /\ call = NoCall
  /\ age = [s \in Serial |-> "valid"]
  /\ signed = {} /\ published = {} /\ announced = 0
  /\ forgotten = {} /\ missed = {}

\* addToken, with a token that was never used.
AddToken(t) ==
  /\ call.step = "idle"
  /\ t \notin token /\ \A c \in signed : c.token # t
  /\ token' = token \cup {t}
  /\ UNCHANGED <<cert, crl, serial, prefix, version, lastConfig,
                 reg, call, age, past>>

DeleteToken(t) ==
  /\ call.step = "idle"
  /\ token' = token \ {t}
  /\ UNCHANGED <<cert, crl, serial, prefix, version, lastConfig,
                 reg, call, age, past>>

\* requestCertificate: a token is good for one certificate.
Spend_Keep(t) == token
Spend(t) == token \ {t}

RequestCertificate(t) ==
  /\ call.step = "idle"
  /\ t \in token \cup {NoToken}
  /\ token' = Spend(t)
  /\ call' = [call EXCEPT !.step = "alloc", !.token = t]
  /\ UNCHANGED <<cert, crl, serial, prefix, version, lastConfig,
                 reg, age, past>>

\* newPrefix.  The first prefix is the one of the registry.
Alloc(p) ==
  /\ call.step = "alloc"
  /\ ~ HasCert(p)
  /\ IF reg.prefix = NoPrefix
     THEN /\ reg' = [reg EXCEPT !.prefix = p]
          /\ call' = [call EXCEPT !.step = "prefix", !.prefix = p]
     ELSE /\ reg' = reg
          /\ call' = [call EXCEPT !.step = "serial", !.prefix = p]
  /\ UNCHANGED <<db, age, past>>

AllocFails ==
  /\ call.step = "alloc"
  /\ \A p \in Prefix : HasCert(p)
  /\ Return
  /\ UNCHANGED <<db, reg, age, past>>

SetPrefix ==
  /\ call.step = "prefix"
  /\ prefix' = call.prefix
  /\ call' = [call EXCEPT !.step = "config", !.then = "serial"]
  /\ UNCHANGED <<token, cert, crl, serial, version, lastConfig,
                 reg, age, past>>

(***************************************************************************)
(* updateNetworkConfig                                                     *)
(***************************************************************************)
NewConfig == [crl |-> crl, prefix |-> reg.prefix]

Changed_Prefix ==
  IF lastConfig = NoConfig THEN TRUE ELSE lastConfig.prefix # reg.prefix
Changed_Running == reg.config # NoConfig /\ lastConfig # NewConfig
Changed == lastConfig # NewConfig

\* What getNetworkConfig returns from now on.
Publish ==
  /\ reg' = [reg EXCEPT !.config = [crl |-> crl, prefix |-> reg.prefix,
                                    version |-> reg.version]]
  /\ published' = published \cup {reg'.config}

\* increaseVersion, setConfig('version').
NewVersion ==
  /\ call.step = "config"
  /\ Changed
  /\ reg.version < MaxVersion
  /\ reg' = [reg EXCEPT !.version = @ + 1]
  /\ version' = reg.version + 1
  /\ Goto("last")
  /\ UNCHANGED <<token, cert, crl, serial, prefix, lastConfig, age, past>>

SetLastConfig ==
  /\ call.step = "last"
  /\ lastConfig' = NewConfig
  /\ Goto("announce")
  /\ UNCHANGED <<token, cert, crl, serial, prefix, version, reg, age, past>>

Announce ==
  /\ call.step = "announce"
  /\ announced' = reg.version
  /\ Publish
  /\ Continue(call.then)
  /\ UNCHANGED <<db, age, signed, lost>>

SameConfig ==
  /\ call.step = "config"
  /\ ~ Changed
  /\ Publish
  /\ Continue(call.then)
  /\ UNCHANGED <<db, age, signed, announced, lost>>

(***************************************************************************)
(* createCertificate                                                       *)
(***************************************************************************)
\* getSubjectSerial: the smallest number that is not used.
UsedSubjects == {c.subject : c \in Issued}
SubjectSerial_Count == Cardinality(UsedSubjects)
SubjectSerial ==
  CHOOSE n \in Subject : /\ n \notin UsedSubjects
                         /\ \A m \in Subject : m < n => m \in UsedSubjects

NextSerial == 1 + serial

\* A certificate that is renewed keeps its subject.
SetSerial ==
  /\ call.step = "serial"
  /\ serial < MaxSerial
  /\ serial' = NextSerial
  /\ call' = [call EXCEPT !.step = "record", !.serial = NextSerial,
                !.subject = IF HasCert(call.prefix) THEN cert[call.prefix].subject
                            ELSE SubjectSerial]
  /\ UNCHANGED <<token, cert, crl, prefix, version, lastConfig,
                 reg, age, past>>

NewCert == [serial |-> call.serial, prefix |-> call.prefix,
            subject |-> call.subject, token |-> call.token]

Record ==
  /\ call.step = "record"
  /\ cert' = [cert EXCEPT ![call.prefix] = NewCert]
  /\ age' = [age EXCEPT ![call.serial] = call.age]
  /\ signed' = signed \cup {NewCert}
  /\ Return
  /\ UNCHANGED <<token, crl, serial, prefix, version, lastConfig,
                 reg, published, announced, lost>>

\* renewCertificate: a certificate that was revoked by its serial is replaced
\* by one that expires at the same time.
RenewCertificate(p) ==
  /\ call.step = "idle"
  /\ HasCert(p)
  /\ \/ /\ AgeOf(p) # "valid"
        /\ call' = [call EXCEPT !.step = "serial", !.prefix = p]
     \/ /\ AgeOf(p) = "valid"
        /\ cert[p].serial \in crl
        /\ call' = [call EXCEPT !.step = "serial", !.prefix = p,
                                !.age = AgeOf(p)]
  /\ UNCHANGED <<db, reg, age, past>>

(***************************************************************************)
(* revoke                                                                  *)
(***************************************************************************)
Revocable_Valid(s) == age[s] = "valid"
Revocable(s) == age[s] \in {"valid", "renewable"}

\* By name: the prefix is free.  (The INSERT in the CRL fails if the serial is
\* already there.)
RevokePrefix(p) ==
  /\ call.step = "idle"
  /\ HasCert(p)
  /\ LET s == cert[p].serial IN
     IF Revocable(s) /\ s \notin crl
     THEN call' = [call EXCEPT !.step = "list", !.serial = s]
     ELSE UNCHANGED call
  /\ cert' = [cert EXCEPT ![p] = NoCert]
  /\ UNCHANGED <<token, crl, serial, prefix, version, lastConfig,
                 reg, age, past>>

\* By serial: its owner can ask for another certificate.
RevokeSerial(s) ==
  /\ call.step = "idle"
  /\ \E c \in Issued : c.serial = s
  /\ Revocable(s) /\ s \notin crl
  /\ call' = [call EXCEPT !.step = "list", !.serial = s]
  /\ UNCHANGED <<db, reg, age, past>>

ListInCrl ==
  /\ call.step = "list"
  /\ crl' = crl \cup {call.serial}
  /\ Goto("config")
  /\ UNCHANGED <<token, cert, serial, prefix, version, lastConfig,
                 reg, age, past>>

(***************************************************************************)
(* onTimeout, and the life of the process                                  *)
(***************************************************************************)
Freed == {p \in Prefix : HasCert(p) /\ AgeOf(p) = "old"}

\* It refuses to free the prefix of the registry.
Clean(T) ==
  /\ prefix \notin Freed
  /\ token' = token \ T
  /\ cert' = [p \in Prefix |-> IF p \in Freed THEN NoCert ELSE cert[p]]

Stop ==
  /\ call' = [NoCall EXCEPT !.step = "stopped"]
  /\ reg' = [prefix |-> NoPrefix, version |-> 0, config |-> NoConfig]

OnTimeout(T) ==
  /\ call.step = "idle"
  /\ \/ Clean(T) /\ UNCHANGED <<call, reg>>
     \/ prefix \in Freed /\ Stop /\ UNCHANGED <<token, cert>>
  /\ UNCHANGED <<crl, serial, prefix, version, lastConfig, age, past>>

\* Before what is lost: revoke by name removed the certificate and did not list
\* its serial yet; a new version is recorded and not announced yet.
Forgets == call.step = "list" /\ \A c \in Issued : c.serial # call.serial
Misses == call.step = "announce"

Crash ==
  /\ call.step # "stopped"
  /\ Stop
  /\ forgotten' = IF Forgets THEN forgotten \cup {call.serial} ELSE forgotten
  /\ missed' = IF Misses THEN missed \cup {version} ELSE missed
  /\ UNCHANGED <<db, age, signed, published, announced>>

\* RegistryServer.__init__
Start(T) ==
  /\ call.step = "stopped"
  /\ Clean(T)
  /\ reg' = [prefix |-> prefix, version |-> version, config |-> NoConfig]
  /\ call' = [NoCall EXCEPT !.step = IF prefix = NoPrefix THEN "idle"
                                     ELSE "config"]
  /\ UNCHANGED <<crl, serial, prefix, version, lastConfig, age, past>>

\* Time only matters between requests: each one looks at the clock once, and only
\* at the certificates of the table.
Pass(c) ==
  /\ call.step \in {"idle", "stopped"}
  /\ c \in Issued
  /\ age' = [age EXCEPT ![c.serial] = Older[@]]
  /\ UNCHANGED <<db, reg, call, past>>

Next ==
  \/ \E t \in Token : AddToken(t) \/ DeleteToken(t)
  \/ \E t \in Token \cup {NoToken} : RequestCertificate(t)
  \/ \E p \in Prefix : Alloc(p) \/ RenewCertificate(p) \/ RevokePrefix(p)
  \/ AllocFails \/ SetPrefix
  \/ NewVersion \/ SetLastConfig \/ Announce \/ SameConfig
  \/ SetSerial \/ Record
  \/ \E s \in Serial : RevokeSerial(s)
  \/ ListInCrl
  \/ \E T \in SUBSET token : OnTimeout(T) \/ Start(T)
  \/ Crash
  \/ \E c \in signed : Pass(c)

Spec == Init /\ [][Next]_vars

-----------------------------------------------------------------------------
TypeOK ==
  /\ token \in SUBSET Token
  /\ cert \in [Prefix -> Cert \cup {NoCert}]
  /\ crl \in SUBSET Serial
  /\ serial \in 0 .. MaxSerial
  /\ prefix \in Prefix \cup {NoPrefix}
  /\ version \in 0 .. MaxVersion
  /\ lastConfig \in Config \cup {NoConfig}
  /\ reg \in Registry
  /\ call \in Call
  /\ age \in [Serial -> Age]
  /\ signed \in SUBSET Cert
  /\ published \in SUBSET Served
  /\ announced \in 0 .. MaxVersion
  /\ forgotten \in SUBSET Serial /\ missed \in SUBSET (0 .. MaxVersion)

\* Two certificates never have the same serial, so that revoking one does not
\* revoke another, even if the registry ends between two statements.
SerialsUnique ==
  \A c, d \in signed : c.serial = d.serial => c = d

\* "Smallest unique number, for IPv4 support": no two nodes have the same,
\* after any sequence of requests, renewals, revocations and interruptions.
SubjectsUnique ==
  \A p, q \in Prefix :
    HasCert(p) /\ HasCert(q) /\ cert[p].subject = cert[q].subject => p = q

\* What identifies a node is unique, in tables of the right types.
Unique == TypeOK /\ SerialsUnique /\ SubjectsUnique

\* A version names one configuration: a node that has it never misses a
\* change, and an interruption does not make it name two.
VersionNames ==
  \A x, y \in published : x.version = y.version => x = y

\* Between requests, nodes get the configuration that the tables define, with
\* the version that is recorded, whatever was interrupted before.
ConfigServed ==
  call.step = "idle" /\ prefix # NoPrefix
    => reg.config = [crl |-> crl, prefix |-> prefix, version |-> version]

\* A version and what nodes get for it match, over interruptions too.
VersionsServed == VersionNames /\ ConfigServed

\* A token is worth one certificate.
TokenOnce ==
  \A c, d \in signed : c.token = d.token /\ c.token # NoToken => c = d

\* It left the table for a newer one in the last period of its life.
Renewed(c) ==
  /\ age[c.serial] = "renewable"
  /\ \E d \in signed : d.prefix = c.prefix /\ d.serial > c.serial

\* Between requests, a certificate that nodes still accept is recorded, so that it
\* can be revoked, or in the CRL, or renewed; but for those that an interrupted
\* revoke by name forgot, which nothing can list any more.
RevokedListed ==
  call.step = "idle" =>
    \A c \in signed :
      IF c.serial \in forgotten THEN c \notin Issued /\ c.serial \notin crl
      ELSE \/ cert[c.prefix] = c
           \/ c.serial \in crl
           \/ age[c.serial] \in {"expired", "old"}
           \/ Renewed(c)

\* Between requests, the nodes were told about the version that is recorded,
\* unless its own announcement is what was interrupted: starting again does not
\* send it.
Announced ==
  call.step = "idle" => (announced = version <=> version \notin missed)

\* "The first registered node" is the one of the registry.
FirstIsRegistry ==
  call.step = "idle" =>
    \A c \in signed : \/ c.prefix = prefix
                      \/ \E d \in signed : d.serial < c.serial
=============================================================================
