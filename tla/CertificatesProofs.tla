------------------------- MODULE CertificatesProofs -------------------------
(***************************************************************************)
(* Proofs about Certificates, for any prefixes, tokens and bounds, and     *)
(* whatever is interrupted.                                                *)
(***************************************************************************)
EXTENDS Certificates, FiniteSetTheorems, TLAPS

-----------------------------------------------------------------------------
(***************************************************************************)
(* getSubjectSerial finds a number.                                        *)
(***************************************************************************)

\* A set of numbers has a smallest one.
LEMMA Smallest ==
  ASSUME NEW S \in SUBSET Nat, S # {}
  PROVE  \E m \in S : \A k \in S : m <= k
<1> DEFINE T == {0 .. m : m \in S}
           R == StrictSubsetOrdering(Nat)
<1>1. IsWellFoundedOn(R, FiniteSubsetsOf(Nat))
  BY FS_StrictSubsetOrderingWellFounded
<1>2. T \subseteq FiniteSubsetsOf(Nat)
  <2>1. ASSUME NEW m \in S
        PROVE  IsFiniteSet(0 .. m) /\ 0 .. m \in SUBSET Nat
    <3>1. m \in Int
      OBVIOUS
    <3> QED
      BY <3>1, FS_Interval
  <2> QED
    BY <2>1 DEF FiniteSubsetsOf
<1>3. T # {}
  OBVIOUS
<1>4. PICK x \in T : \A y \in T : ~ (<<y, x>> \in R)
  <2> HIDE DEF T, R
  <2> QED
    BY <1>1, <1>2, <1>3, WFMin
<1>5. PICK m \in S : x = 0 .. m
  OBVIOUS
<1>6. ASSUME NEW k \in S, ~ (m <= k)
      PROVE  FALSE
  <2>1. 0 .. k \in T
    OBVIOUS
  <2>2. 0 .. k \subseteq 0 .. m /\ 0 .. k # 0 .. m
    BY <1>6
  <2>3. <<0 .. k, 0 .. m>> \in R
    BY <2>2, <1>2, <2>1, <1>5 DEF StrictSubsetOrdering, FiniteSubsetsOf
  <2> QED
    BY <2>1, <2>3, <1>4, <1>5
<1> QED
  BY <1>6

\* There are fewer nodes than numbers, so the smallest free one exists.
LEMMA SubjectSerialFree ==
  ASSUME cert \in [Prefix -> Cert \cup {NoCert}],
         \A p \in Prefix : HasCert(p) => cert[p] \in Cert
  PROVE  SubjectSerial \in Subject /\ SubjectSerial \notin UsedSubjects
<1> DEFINE Q == {q \in Prefix : HasCert(q)}
           f == [q \in Q |-> cert[q].subject]
<1>1. Cardinality(Prefix) \in Nat
  BY Names, FS_CardinalityType
<1>2. IsFiniteSet(Q) /\ Cardinality(Q) <= Cardinality(Prefix)
  BY Names, FS_Subset
<1>3. UsedSubjects = {cert[q].subject : q \in Q}
  BY DEF UsedSubjects, Issued
<1>4. f \in Surjection(Q, UsedSubjects)
  BY <1>3 DEF Surjection
<1>5. IsFiniteSet(UsedSubjects) /\ Cardinality(UsedSubjects) <= Cardinality(Q)
  BY <1>2, <1>4, FS_Surjection
<1>6. Cardinality(Subject) = Cardinality(Prefix) + 1
  BY <1>1, FS_Interval DEF Subject
<1>7. Subject \ UsedSubjects # {}
  <2> SUFFICES ASSUME Subject \subseteq UsedSubjects
               PROVE  FALSE
    OBVIOUS
  <2>1. Cardinality(Subject) <= Cardinality(UsedSubjects)
    BY <1>5, FS_Subset
  <2>2. Cardinality(UsedSubjects) \in Nat /\ Cardinality(Q) \in Nat
    BY <1>5, <1>2, FS_CardinalityType
  <2> QED
    BY <2>1, <2>2, <1>1, <1>2, <1>5, <1>6
<1>8. Subject \ UsedSubjects \in SUBSET Nat
  BY <1>1 DEF Subject
<1>9. PICK n \in Subject \ UsedSubjects :
        \A m \in Subject \ UsedSubjects : n <= m
  BY <1>7, <1>8, Smallest
<1>10. /\ n \in Subject /\ n \notin UsedSubjects
       /\ \A m \in Subject : m < n => m \in UsedSubjects
  BY <1>8, <1>9, <1>1 DEF Subject
<1> QED
  BY <1>10 DEF SubjectSerial
-----------------------------------------------------------------------------
(***************************************************************************)
(* What a request knows at each of its steps.                              *)
(***************************************************************************)
Running == {"idle", "alloc", "prefix", "config", "last", "announce",
            "serial", "record", "list"}

\* The steps where the registry has a prefix that is recorded.
Named == {"config", "last", "announce", "serial", "record", "list"}

WithPrefix ==
  \/ call.step \in {"prefix", "serial", "record"}
  \/ call.step \in {"config", "last", "announce"} /\ call.then = "serial"

CallInv ==
  /\ call.step = "idle" => call = NoCall
  /\ WithPrefix => call.prefix \in Prefix
  /\ call.step \in {"record", "list"} => call.serial \in Serial
  /\ call.step = "list" => call.then = "idle"
  /\ call.step \in Named => prefix # NoPrefix
  /\ call.step = "prefix" => prefix = NoPrefix /\ reg.prefix = call.prefix
  /\ call.step \in Running \ {"prefix"} => reg.prefix = prefix
  /\ call.step \in Running => reg.version = version
  /\ call.step = "announce" => lastConfig = NewConfig

\* The table only has certificates that were signed, each at its prefix.
TableInv ==
  \A p \in Prefix : HasCert(p) => /\ prefix # NoPrefix
                                  /\ cert[p] \in signed
                                  /\ cert[p].prefix = p

BaseInv == TypeOK /\ CallInv /\ TableInv

LEMMA InitBase == Init => BaseInv
<1> SUFFICES ASSUME Init
             PROVE  BaseInv
  OBVIOUS
<1>1. Cardinality(Prefix) \in Nat
  BY Names, FS_CardinalityType
<1>2. TypeOK
  BY <1>1, Bounds DEF Init, TypeOK, NoCall, Call, Registry, Subject, Age, Step, Serial
<1>3. CallInv
  BY DEF Init, CallInv, NoCall, WithPrefix, Named, Running
<1>4. TableInv
  BY DEF Init, TableInv, HasCert
<1> QED
  BY <1>2, <1>3, <1>4 DEF BaseInv

LEMMA BaseStep == BaseInv /\ [Next]_vars => BaseInv'
<1> SUFFICES ASSUME BaseInv, [Next]_vars
             PROVE  BaseInv'
  OBVIOUS
<1> USE DEF BaseInv, HasCert
<1>0. /\ TypeOK /\ CallInv /\ TableInv
      /\ Cardinality(Prefix) \in Nat
      /\ MaxSerial \in Nat /\ MaxVersion \in Nat
      /\ NoPrefix \notin Prefix /\ Serial \subseteq 0 .. MaxSerial
      /\ NoCall \in Call /\ NoCall.step = "idle" /\ NoCall.then = "idle"
  BY Names, Bounds, FS_CardinalityType DEF NoCall, Call, Step, Subject, Age, Serial
<1>a. ASSUME NEW p \in Prefix, HasCert(p)
      PROVE  /\ cert[p] \in Cert /\ cert[p].serial \in Serial
             /\ cert[p].subject \in Subject /\ age[cert[p].serial] \in Age
             /\ prefix # NoPrefix
  BY <1>0, <1>a DEF TypeOK, Cert, TableInv
<1>1. ASSUME NEW t \in Token, AddToken(t) \/ DeleteToken(t)
      PROVE  BaseInv'
  <2>1. /\ token' \in SUBSET Token
        /\ UNCHANGED <<cert, crl, serial, prefix, version, lastConfig, reg, call,
                       age, signed, published, announced, forgotten, missed>>
    BY <1>0, <1>1 DEF AddToken, DeleteToken, TypeOK, past, lost
  <2>2. TypeOK'
    BY <1>0, <2>1 DEF TypeOK
  <2>3. CallInv'
    BY <1>0, <2>1 DEF CallInv, WithPrefix, NewConfig
  <2>4. TableInv'
    BY <1>0, <2>1 DEF TableInv
  <2> QED
    BY <2>2, <2>3, <2>4
<1>2. ASSUME NEW t \in Token \cup {NoToken}, RequestCertificate(t)
      PROVE  BaseInv'
  BY <1>0, <1>2 DEF RequestCertificate, Spend, TypeOK, Call, Registry, CallInv, WithPrefix, Step,
       Named, Running, TableInv, NewConfig, past, lost
<1>3. ASSUME NEW p \in Prefix, Alloc(p)
      PROVE  BaseInv'
  <2>a. reg' \in Registry
    BY <1>0, <1>3 DEF Alloc, TypeOK, Registry
  <2>b. PICK s \in {"prefix", "serial"} :
               call' = [call EXCEPT !.step = s, !.prefix = p]
    BY <1>3 DEF Alloc
  <2>0. call' \in Call /\ reg' \in Registry
    BY <1>0, <2>a, <2>b DEF TypeOK, Call, Step
  <2>1. TypeOK'
    BY <1>0, <1>3, <2>0 DEF Alloc, TypeOK, past, lost, db
  <2>2. TableInv'
    BY <1>0, <1>3 DEF Alloc, TableInv, past, lost, db
  <2>3. CASE reg.prefix = NoPrefix
    <3>1. prefix = NoPrefix /\ reg.version = version
      BY <1>0, <1>3, <2>3 DEF Alloc, CallInv, Running
    <3>2. /\ call'.step = "prefix" /\ call'.prefix = p /\ reg'.prefix = p
          /\ reg'.version = reg.version
      BY <1>0, <1>3, <2>3 DEF Alloc, TypeOK, Call, Registry
    <3>3. CallInv'
      BY <1>3, <3>1, <3>2 DEF Alloc, CallInv, WithPrefix, Named, Running, db
    <3> QED
      BY <2>1, <2>2, <3>3
  <2>4. CASE reg.prefix # NoPrefix
    <3>1. reg.prefix = prefix /\ reg.version = version
      BY <1>0, <1>3 DEF Alloc, CallInv, Running
    <3>2. /\ call'.step = "serial" /\ call'.prefix = p /\ reg' = reg
      BY <1>0, <1>3, <2>4 DEF Alloc, TypeOK, Call
    <3>3. CallInv'
      BY <1>3, <2>4, <3>1, <3>2 DEF Alloc, CallInv, WithPrefix, Named, Running, db
    <3> QED
      BY <2>1, <2>2, <3>3
  <2> QED
    BY <2>3, <2>4
<1>4. ASSUME NEW p \in Prefix, RenewCertificate(p)
      PROVE  BaseInv'
  <2>1. TypeOK'
    <3>1. AgeOf(p) \in Age
      BY <1>4, <1>a DEF RenewCertificate, AgeOf
    <3>2. call' \in {[call EXCEPT !.step = "serial", !.prefix = p],
                     [call EXCEPT !.step = "serial", !.prefix = p, !.age = AgeOf(p)]}
      BY <1>4 DEF RenewCertificate
    <3>3. call' \in Call
      <4>1. call \in Call /\ {"serial"} \subseteq Step
        BY <1>0 DEF TypeOK, Step
      <4>2. [call EXCEPT !.step = "serial", !.prefix = p] \in Call
        BY <4>1 DEF Call
      <4>3. [call EXCEPT !.step = "serial", !.prefix = p, !.age = AgeOf(p)] \in Call
        BY <4>1, <3>1 DEF Call
      <4> QED
        BY <3>2, <4>2, <4>3
    <3> QED
      BY <1>0, <1>4, <3>3 DEF RenewCertificate, TypeOK, past, lost, db
  <2>2. CallInv'
    BY <1>0, <1>4, <1>a DEF RenewCertificate, TypeOK, Call, Registry, CallInv, WithPrefix,
         Named, Running, NewConfig, past, lost, db
  <2>3. TableInv'
    BY <1>0, <1>4 DEF RenewCertificate, TableInv, past, lost, db
  <2> QED
    BY <2>1, <2>2, <2>3
<1>5. ASSUME NEW p \in Prefix, RevokePrefix(p)
      PROVE  BaseInv'
  <2> DEFINE k == cert[p].serial
             r == [call EXCEPT !.step = "list", !.serial = k]
  <2>0. k \in Serial /\ prefix # NoPrefix
    BY <1>5, <1>a DEF RevokePrefix
  <2>a. call' = call \/ call' = r
    BY <1>5 DEF RevokePrefix
  <2>1. TypeOK'
    <3>1. call' \in Call
      <4>1. call \in Call /\ "list" \in Step /\ k \in 0 .. MaxSerial
        BY <1>0, <2>0 DEF TypeOK, Step
      <4>2. r \in Call
        <5> HIDE DEF k
        <5> QED
          BY <4>1 DEF Call
      <4> HIDE DEF r
      <4> QED
        BY <2>a, <4>1, <4>2
    <3> QED
      BY <1>0, <1>5, <3>1 DEF RevokePrefix, TypeOK, past, lost
  <2>2. CallInv'
    <3>1. call = NoCall /\ reg.prefix = prefix /\ reg.version = version
      BY <1>0, <1>5 DEF RevokePrefix, CallInv, Running
    <3>2. /\ call'.then = "idle"
          /\ call' = NoCall \/ (call'.step = "list" /\ call'.serial = k)
      <4>1. call \in Call /\ call.then = "idle"
        BY <1>0, <3>1 DEF TypeOK
      <4>2. r.then = "idle" /\ r.step = "list" /\ r.serial = k
        <5> HIDE DEF k
        <5> QED
          BY <4>1 DEF Call
      <4> HIDE DEF r, k
      <4> QED
        BY <2>a, <3>1, <4>1, <4>2
    <3> QED
      BY <1>0, <1>5, <2>0, <3>1, <3>2 DEF RevokePrefix, CallInv, WithPrefix,
         Named, Running
  <2>3. TableInv'
    BY <1>0, <1>5 DEF RevokePrefix, TypeOK, TableInv, past, lost
  <2> QED
    BY <2>1, <2>2, <2>3
<1>6. ASSUME AllocFails
      PROVE  BaseInv'
  BY <1>0, <1>6 DEF AllocFails, Return, TypeOK, Call, Registry, CallInv, WithPrefix, Step,
       Named, Running, TableInv, NewConfig, past, lost, db
<1>7. ASSUME SetPrefix
      PROVE  BaseInv'
  BY <1>0, <1>7 DEF SetPrefix, TypeOK, Call, Registry, CallInv, WithPrefix, Step,
       Named, Running, TableInv, NewConfig, past, lost
<1>8. ASSUME NewVersion
      PROVE  BaseInv'
  BY <1>0, <1>8 DEF NewVersion, Goto, TypeOK, Call, Registry, CallInv, WithPrefix, Step,
       Named, Running, TableInv, NewConfig, past, lost
<1>9. ASSUME SetLastConfig
      PROVE  BaseInv'
  BY <1>0, <1>9 DEF SetLastConfig, Goto, TypeOK, Call, Registry, CallInv, WithPrefix, Step, Config,
       Named, Running, TableInv, NewConfig, past, lost
<1>10. ASSUME Announce \/ SameConfig
       PROVE  BaseInv'
  BY <1>0, <1>10 DEF Announce, SameConfig, Publish, Continue, Return, Goto,
       TypeOK, Call, Registry, CallInv, WithPrefix, Step, Served, Named, Running, TableInv,
       NewConfig, past, lost, db
<1>11. ASSUME SetSerial
       PROVE  BaseInv'
  <2>2. SubjectSerial \in Subject
    BY <1>0, <1>a, SubjectSerialFree DEF TypeOK
  <2>3. call.prefix \in Prefix
    BY <1>0, <1>11 DEF SetSerial, CallInv, WithPrefix
  <2>4. NextSerial \in Serial
    BY <1>0, <1>11 DEF SetSerial, TypeOK, NextSerial, Serial
  <2>5. TypeOK'
    <3>1. call' \in Call
      BY <1>0, <1>11, <1>a, <2>2, <2>3, <2>4 DEF SetSerial, TypeOK, Call, Step
    <3> QED
      BY <1>0, <1>11, <2>4, <3>1 DEF SetSerial, TypeOK, Serial, past, lost
  <2>6. CallInv'
    BY <1>0, <1>11, <2>3, <2>4 DEF SetSerial, TypeOK, Call, Registry, CallInv, WithPrefix,
       Named, Running, NewConfig, past, lost
  <2>7. TableInv'
    BY <1>0, <1>11 DEF SetSerial, TableInv, past, lost
  <2> QED
    BY <2>5, <2>6, <2>7
<1>12. ASSUME Record
       PROVE  BaseInv'
  <2>1. /\ NewCert \in Cert /\ NewCert.prefix = call.prefix
        /\ call.prefix \in Prefix /\ prefix # NoPrefix
    BY <1>0, <1>12 DEF Record, TypeOK, Call, Registry, CallInv, WithPrefix, Named, NewCert, Cert
  <2> QED
    BY <1>0, <1>12, <2>1 DEF Record, Return, TypeOK, Call, Registry, CallInv, WithPrefix, Step,
       Named, Running, TableInv, NewConfig, lost
<1>13. ASSUME NEW s \in Serial, RevokeSerial(s)
       PROVE  BaseInv'
  <2>1. prefix # NoPrefix
    BY <1>13, <1>a DEF RevokeSerial, Issued
  <2>2. call' \in Call
    BY <1>0, <1>13 DEF RevokeSerial, TypeOK, Call, Step
  <2> QED
    BY <1>0, <1>13, <2>1, <2>2 DEF RevokeSerial, TypeOK, Call, Registry, CallInv, WithPrefix,
         Named, Running, TableInv, NewConfig, past, lost, db
<1>14. ASSUME ListInCrl
       PROVE  BaseInv'
  BY <1>0, <1>14 DEF ListInCrl, Goto, TypeOK, Call, Registry, CallInv, WithPrefix, Step,
       Named, Running, TableInv, NewConfig, past, lost
<1>15. ASSUME NEW T \in SUBSET token, OnTimeout(T)
       PROVE  BaseInv'
  BY <1>0, <1>15 DEF OnTimeout, Clean, Stop, TypeOK, Call, Registry, CallInv, WithPrefix, Step,
       Named, Running, TableInv, NewConfig, past, lost
<1>16. ASSUME NEW T \in SUBSET token, Start(T)
       PROVE  BaseInv'
  BY <1>0, <1>16 DEF Start, Clean, TypeOK, Call, Registry, CallInv, WithPrefix, Step,
       Named, Running, TableInv, NewConfig, past, lost
<1>17. ASSUME Crash
       PROVE  BaseInv'
  <2>1. call.step = "list" => call.serial \in Serial
    BY <1>0 DEF CallInv
  <2>2. forgotten' \in SUBSET Serial /\ missed' \in SUBSET (0 .. MaxVersion)
    BY <1>0, <1>17, <2>1 DEF Crash, Forgets, TypeOK
  <2>3. call' \in Call /\ call'.step = "stopped" /\ reg' \in Registry
    BY <1>0, <1>17 DEF Crash, Stop, Call, Registry, Step, NoCall
  <2>4. TypeOK'
    BY <1>0, <1>17, <2>2, <2>3 DEF Crash, TypeOK, db
  <2> QED
    BY <1>0, <1>17, <2>3, <2>4 DEF Crash, CallInv, WithPrefix, Named, Running,
       TableInv, db
<1>18. ASSUME NEW c \in signed, Pass(c)
       PROVE  BaseInv'
  <2>1. Older \in [Age -> Age]
    BY DEF Older, Age
  <2>2. TypeOK'
    BY <1>0, <1>18, <2>1 DEF Pass, TypeOK, past, lost, db
  <2> QED
    BY <1>0, <1>18, <2>1, <2>2 DEF Pass, CallInv, WithPrefix, TableInv,
       NewConfig, past, lost, db
<1>19. ASSUME UNCHANGED vars
       PROVE  BaseInv'
  BY <1>0, <1>19 DEF vars, past, lost, db, TypeOK, Call, Registry, CallInv, WithPrefix, TableInv, NewConfig
<1> QED
  BY <1>1, <1>2, <1>3, <1>4, <1>5, <1>6, <1>7, <1>8, <1>9, <1>10, <1>11, <1>12,
     <1>13, <1>14, <1>15, <1>16, <1>17, <1>18, <1>19 DEF Next

\* The types hold, with what requests know: in particular the number of a new
\* subject always exists.
THEOREM TypeCorrect == Spec => []TypeOK
<1>1. BaseInv => TypeOK
  BY DEF BaseInv
<1> QED
  BY <1>1, InitBase, BaseStep, PTL DEF Spec

LEMMA Base == Spec => []BaseInv
BY InitBase, BaseStep, PTL DEF Spec

-----------------------------------------------------------------------------
(***************************************************************************)
(* Serials.                                                                *)
(***************************************************************************)

\* A serial that is reserved is above all those that were used, even if the
\* request ends before it uses it.
SerialInv ==
  /\ SerialsUnique
  /\ \A c \in signed : c.serial <= serial
  /\ call.step = "record" => /\ call.serial <= serial
                             /\ \A c \in signed : c.serial < call.serial

\* Only createCertificate changes serials and certificates.
LEMMA SerialFrame ==
  ASSUME BaseInv, [Next]_vars
  PROVE  \/ SetSerial \/ Record
         \/ /\ UNCHANGED <<signed, serial>>
            /\ call'.step = "record" => UNCHANGED call
<1> USE DEF past, lost, db, BaseInv, TypeOK, Call, NoCall
<1>1. ASSUME NEW t \in Token, AddToken(t) \/ DeleteToken(t)
      PROVE  UNCHANGED <<signed, serial, call>>
  BY <1>1 DEF AddToken, DeleteToken
<1>2. ASSUME NEW t \in Token \cup {NoToken}, RequestCertificate(t)
      PROVE  UNCHANGED <<signed, serial>> /\ call'.step # "record"
  BY <1>2 DEF RequestCertificate
<1>3. ASSUME NEW p \in Prefix, Alloc(p) \/ RenewCertificate(p) \/ RevokePrefix(p)
      PROVE  UNCHANGED <<signed, serial>> /\ call'.step # "record"
  BY <1>3 DEF Alloc, RenewCertificate, RevokePrefix
<1>4. ASSUME AllocFails \/ SetPrefix \/ NewVersion \/ SetLastConfig \/ ListInCrl
      PROVE  UNCHANGED <<signed, serial>> /\ call'.step # "record"
  <2>1. CASE AllocFails
    BY <2>1 DEF AllocFails, Return
  <2>3. CASE SetPrefix
    BY <2>3 DEF SetPrefix
  <2>2. CASE NewVersion \/ SetLastConfig \/ ListInCrl
    BY <2>2 DEF NewVersion, SetLastConfig, ListInCrl, Goto
  <2> QED
    BY <1>4, <2>1, <2>2, <2>3
<1>5. ASSUME Announce \/ SameConfig
      PROVE  UNCHANGED <<signed, serial>> /\ call'.step # "record"
  BY <1>5 DEF Announce, SameConfig, Publish, Continue, Goto, Return
<1>6. ASSUME NEW s \in Serial, RevokeSerial(s)
      PROVE  UNCHANGED <<signed, serial>> /\ call'.step # "record"
  BY <1>6 DEF RevokeSerial
<1>7. ASSUME NEW T \in SUBSET token, OnTimeout(T) \/ Start(T)
      PROVE  UNCHANGED <<signed, serial>> /\ call'.step # "record"
  BY <1>7 DEF OnTimeout, Start, Stop
<1>8. ASSUME Crash \/ \E c \in signed : Pass(c)
      PROVE  UNCHANGED <<signed, serial>> /\ (call'.step = "record" => UNCHANGED call)
  BY <1>8 DEF Crash, Stop, Pass
<1> QED
  BY <1>1, <1>2, <1>3, <1>4, <1>5, <1>6, <1>7, <1>8 DEF Next, vars

LEMMA SerialStep == BaseInv /\ SerialInv /\ [Next]_vars => SerialInv'
<1> SUFFICES ASSUME BaseInv, SerialInv, [Next]_vars
             PROVE  SerialInv'
  OBVIOUS
<1>0. /\ serial \in Nat /\ MaxSerial \in Nat
      /\ call \in Call /\ call.serial \in Nat
      /\ \A c \in signed : c \in Cert /\ c.serial \in Nat
  BY Bounds DEF BaseInv, TypeOK, Call, Cert, Serial
<1>1. CASE SetSerial
  <2>1. /\ signed' = signed /\ serial' = serial + 1
        /\ call'.step = "record" /\ call'.serial = serial + 1
    BY <1>0, <1>1 DEF SetSerial, NextSerial, past, lost, Call
  <2> QED
    BY <1>0, <2>1 DEF SerialInv, SerialsUnique
<1>2. CASE Record
  <2>1. /\ signed' = signed \cup {NewCert} /\ NewCert.serial = call.serial
        /\ serial' = serial /\ call'.step = "idle"
    BY <1>2 DEF Record, Return, NoCall, NewCert
  <2> QED
    BY <1>0, <1>2, <2>1 DEF SerialInv, SerialsUnique, Record
<1>3. CASE /\ UNCHANGED <<signed, serial>>
           /\ call'.step = "record" => UNCHANGED call
  BY <1>3 DEF SerialInv, SerialsUnique
<1> QED
  BY <1>1, <1>2, <1>3, SerialFrame

\* No serial is ever given twice, whatever is interrupted: revoking a
\* certificate never revokes another one.
THEOREM UniqueSerials == Spec => []SerialsUnique
<1>1. Init => SerialInv
  BY DEF Init, SerialInv, SerialsUnique, NoCall
<1>2. SerialInv => SerialsUnique
  BY DEF SerialInv
<1> QED
  BY <1>1, <1>2, Base, SerialStep, PTL DEF Spec

-----------------------------------------------------------------------------
(***************************************************************************)
(* Subjects.                                                               *)
(***************************************************************************)

\* The number of the certificate that is about to be recorded is not the one of
\* another node.
SubjectInv ==
  /\ SubjectsUnique
  /\ call.step = "record" =>
       \A p \in Prefix : HasCert(p) /\ cert[p].subject = call.subject
                         => p = call.prefix

\* But for Record, certificates only disappear, and only SetSerial goes to Record.
LEMMA SubjectFrame ==
  ASSUME BaseInv, [Next]_vars
  PROVE  \/ SetSerial \/ Record
         \/ /\ \A p \in Prefix : HasCert(p)' => HasCert(p) /\ cert'[p] = cert[p]
            /\ call'.step = "record" => UNCHANGED call
<1> USE DEF past, lost, db, BaseInv, TypeOK, HasCert
<1>1. ASSUME NEW p \in Prefix, RevokePrefix(p)
      PROVE  \A q \in Prefix : HasCert(q)' => HasCert(q) /\ cert'[q] = cert[q]
  BY <1>1 DEF RevokePrefix
<1>2. ASSUME NEW T \in SUBSET token, OnTimeout(T) \/ Start(T)
      PROVE  \A q \in Prefix : HasCert(q)' => HasCert(q) /\ cert'[q] = cert[q]
  BY <1>2 DEF OnTimeout, Start, Clean, Freed
<1>3. ASSUME NEW t \in Token \cup {NoToken},
             AddToken(t) \/ DeleteToken(t) \/ RequestCertificate(t)
      PROVE  UNCHANGED cert
  BY <1>3 DEF AddToken, DeleteToken, RequestCertificate
<1>4. ASSUME NEW p \in Prefix, Alloc(p) \/ RenewCertificate(p)
      PROVE  UNCHANGED cert
  BY <1>4 DEF Alloc, RenewCertificate
<1>5. ASSUME AllocFails \/ SetPrefix \/ NewVersion \/ SetLastConfig \/ ListInCrl
             \/ Announce \/ SameConfig \/ Crash
      PROVE  UNCHANGED cert
  BY <1>5 DEF AllocFails, SetPrefix, NewVersion, SetLastConfig, ListInCrl,
       Announce, SameConfig, Crash
<1>6. ASSUME \/ \E s \in Serial : RevokeSerial(s)
             \/ \E c \in signed : Pass(c)
             \/ UNCHANGED vars
      PROVE  UNCHANGED cert
  BY <1>6 DEF RevokeSerial, Pass, vars
<1>7. \/ SetSerial \/ Record
      \/ \A p \in Prefix : HasCert(p)' => HasCert(p) /\ cert'[p] = cert[p]
  BY <1>1, <1>2, <1>3, <1>4, <1>5, <1>6 DEF Next
<1> QED
  BY <1>7, SerialFrame

LEMMA SubjectStep == BaseInv /\ SubjectInv /\ [Next]_vars => SubjectInv'
<1> SUFFICES ASSUME BaseInv, SubjectInv, [Next]_vars
             PROVE  SubjectInv'
  OBVIOUS
<1>0. /\ cert \in [Prefix -> Cert \cup {NoCert}]
      /\ call \in Call
      /\ \A p \in Prefix : HasCert(p) => cert[p] \in Cert
  BY DEF BaseInv, TypeOK, HasCert
<1>1. CASE SetSerial
  <2>1. SubjectSerial \notin UsedSubjects
    BY <1>0, SubjectSerialFree
  <2>2. \A p \in Prefix : HasCert(p) => cert[p].subject # SubjectSerial
    BY <2>1 DEF UsedSubjects, Issued
  <2>3. /\ cert' = cert /\ call'.prefix = call.prefix /\ call.prefix \in Prefix
        /\ call'.subject = IF HasCert(call.prefix) THEN cert[call.prefix].subject
                           ELSE SubjectSerial
    BY <1>0, <1>1 DEF SetSerial, Call, BaseInv, CallInv, WithPrefix
  <2> QED
    BY <2>2, <2>3 DEF SubjectInv, SubjectsUnique, HasCert
<1>2. CASE Record
  <2>1. /\ cert' = [cert EXCEPT ![call.prefix] = NewCert]
        /\ NewCert.subject = call.subject /\ call'.step = "idle"
    BY <1>2 DEF Record, Return, NoCall, NewCert
  <2> QED
    BY <1>0, <1>2, <2>1 DEF SubjectInv, SubjectsUnique, HasCert, Record
<1>3. CASE /\ \A p \in Prefix : HasCert(p)' => HasCert(p) /\ cert'[p] = cert[p]
           /\ call'.step = "record" => UNCHANGED call
  BY <1>3 DEF SubjectInv, SubjectsUnique
<1> QED
  BY <1>1, <1>2, <1>3, SubjectFrame

\* No two nodes have the same number, hence the same IPv4 addresses, after any
\* sequence of requests, renewals, revocations and interruptions.
THEOREM UniqueSubjects == Spec => []SubjectsUnique
<1>1. Init => SubjectInv
  BY DEF Init, SubjectInv, SubjectsUnique, NoCall, HasCert
<1>2. SubjectInv => SubjectsUnique
  BY DEF SubjectInv
<1> QED
  BY <1>1, <1>2, Base, SubjectStep, PTL DEF Spec

\* What identifies a node is unique, whatever is interrupted.
THEOREM AlwaysUnique == Spec => []Unique
<1>1. TypeOK /\ SerialsUnique /\ SubjectsUnique => Unique
  BY DEF Unique
<1> QED
  BY <1>1, TypeCorrect, UniqueSerials, UniqueSubjects, PTL

-----------------------------------------------------------------------------
(***************************************************************************)
(* Versions.                                                               *)
(***************************************************************************)

\* A configuration that was published with the current version is the one that
\* is recorded; none was while the new one is not recorded.
VersionInv ==
  /\ VersionNames
  /\ \A x \in published : x.version <= version
  /\ \A x \in published :
       x.version = version => lastConfig = [crl |-> x.crl, prefix |-> x.prefix]
  /\ call.step = "last" => \A x \in published : x.version < version

\* Only updateNetworkConfig changes the version and publishes.
LEMMA VersionFrame ==
  ASSUME BaseInv, [Next]_vars
  PROVE  \/ NewVersion \/ SetLastConfig \/ Announce \/ SameConfig
         \/ /\ UNCHANGED <<published, version, lastConfig>>
            /\ call'.step = "last" => UNCHANGED call
<1> USE DEF past, lost, db, BaseInv, TypeOK, Call, NoCall
<1>1. ASSUME NEW t \in Token, AddToken(t) \/ DeleteToken(t)
      PROVE  UNCHANGED <<published, version, lastConfig, call>>
  BY <1>1 DEF AddToken, DeleteToken
<1>2. ASSUME NEW t \in Token \cup {NoToken}, RequestCertificate(t)
      PROVE  UNCHANGED <<published, version, lastConfig>> /\ call'.step # "last"
  BY <1>2 DEF RequestCertificate
<1>3. ASSUME NEW p \in Prefix, Alloc(p) \/ RenewCertificate(p) \/ RevokePrefix(p)
      PROVE  UNCHANGED <<published, version, lastConfig>> /\ call'.step # "last"
  BY <1>3 DEF Alloc, RenewCertificate, RevokePrefix
<1>4. ASSUME AllocFails \/ SetPrefix \/ Record
      PROVE  UNCHANGED <<published, version, lastConfig>> /\ call'.step # "last"
  <2>1. CASE AllocFails
    BY <2>1 DEF AllocFails, Return
  <2>2. CASE SetPrefix
    BY <2>2 DEF SetPrefix
  <2>3. CASE Record
    BY <2>3 DEF Record, Return
  <2> QED
    BY <1>4, <2>1, <2>2, <2>3
<1>5. ASSUME SetSerial \/ ListInCrl
      PROVE  UNCHANGED <<published, version, lastConfig>> /\ call'.step # "last"
  BY <1>5 DEF SetSerial, ListInCrl, Goto
<1>6. ASSUME NEW s \in Serial, RevokeSerial(s)
      PROVE  UNCHANGED <<published, version, lastConfig>> /\ call'.step # "last"
  BY <1>6 DEF RevokeSerial
<1>7. ASSUME NEW T \in SUBSET token, OnTimeout(T) \/ Start(T)
      PROVE  UNCHANGED <<published, version, lastConfig>> /\ call'.step # "last"
  BY <1>7 DEF OnTimeout, Start, Stop
<1>8. ASSUME Crash \/ \E c \in signed : Pass(c)
      PROVE  /\ UNCHANGED <<published, version, lastConfig>>
             /\ call'.step = "last" => UNCHANGED call
  BY <1>8 DEF Crash, Stop, Pass
<1> QED
  BY <1>1, <1>2, <1>3, <1>4, <1>5, <1>6, <1>7, <1>8 DEF Next, vars

LEMMA VersionStep == BaseInv /\ VersionInv /\ [Next]_vars => VersionInv'
<1> SUFFICES ASSUME BaseInv, VersionInv, [Next]_vars
             PROVE  VersionInv'
  OBVIOUS
<1>0. /\ version \in Nat /\ MaxVersion \in Nat
      /\ call \in Call /\ reg \in Registry
      /\ \A x \in published : x \in Served /\ x.version \in Nat
  BY Bounds DEF BaseInv, TypeOK, Served
<1>1. CASE NewVersion
  <2>1. /\ published' = published /\ version' = version + 1
        /\ call'.step = "last"
    BY <1>0, <1>1 DEF NewVersion, Goto, Call, past, lost, BaseInv, CallInv, Running
  <2> QED
    BY <1>0, <2>1 DEF VersionInv, VersionNames
<1>2. CASE SetLastConfig
  <2>1. /\ published' = published /\ version' = version
        /\ call'.step = "announce"
        /\ \A x \in published : x.version < version
    BY <1>0, <1>2 DEF SetLastConfig, Goto, Call, past, lost, VersionInv
  <2> QED
    BY <1>0, <2>1 DEF VersionInv, VersionNames
<1>3. CASE Announce \/ SameConfig
  <2> DEFINE y == [crl |-> crl, prefix |-> reg.prefix, version |-> version]
  <2>1. lastConfig = NewConfig
    BY <1>3 DEF Announce, SameConfig, Changed, BaseInv, CallInv
  <2>2. /\ published' = published \cup {y}
        /\ version' = version /\ lastConfig' = lastConfig
    BY <1>0, <1>3 DEF Announce, SameConfig, Publish, Registry, db,
         BaseInv, CallInv, Running
  <2>3. call'.step # "last"
    BY <1>0, <1>3 DEF Announce, SameConfig, Continue, Return, Goto, NoCall, Call
  <2>4. \A x \in published : x.version = version => x = y
    <3>1. ASSUME NEW x \in published, x.version = version
          PROVE  x = y
      <4>1. [crl |-> x.crl, prefix |-> x.prefix] = NewConfig
        BY <3>1, <2>1 DEF VersionInv
      <4>2. x.crl = crl /\ x.prefix = reg.prefix
        BY <4>1 DEF NewConfig
      <4> QED
        BY <3>1, <4>2, <1>0 DEF Served
    <3> QED
      BY <3>1
  <2>5. VersionNames'
    BY <2>2, <2>4 DEF VersionInv, VersionNames
  <2> QED
    BY <1>0, <2>1, <2>2, <2>3, <2>5 DEF VersionInv, NewConfig
<1>4. CASE /\ UNCHANGED <<published, version, lastConfig>>
           /\ call'.step = "last" => UNCHANGED call
  BY <1>4 DEF VersionInv, VersionNames
<1> QED
  BY <1>1, <1>2, <1>3, <1>4, VersionFrame

\* A version never names two configurations, whatever is interrupted: a node
\* that has the last version has the last configuration.
THEOREM VersionsName == Spec => []VersionNames
<1>1. Init => VersionInv
  BY DEF Init, VersionInv, VersionNames, NoCall
<1>2. VersionInv => VersionNames
  BY DEF VersionInv
<1> QED
  BY <1>1, <1>2, Base, VersionStep, PTL DEF Spec

-----------------------------------------------------------------------------
(***************************************************************************)
(* Tokens.                                                                 *)
(***************************************************************************)

\* A token is in the table, in a request or in a certificate, never in two.
TokenInv ==
  /\ TokenOnce
  /\ \A k \in token : k # call.token /\ \A c \in signed : c.token # k
  /\ call.token # NoToken => \A c \in signed : c.token # call.token

LEMMA TokenFrame ==
  ASSUME BaseInv, [Next]_vars
  PROVE  \/ \E t \in Token : AddToken(t)
         \/ \E t \in Token \cup {NoToken} : RequestCertificate(t)
         \/ Record
         \/ /\ token' \subseteq token /\ UNCHANGED signed
            /\ call'.token \in {call.token, NoToken}
<1> USE DEF past, lost, db, BaseInv, TypeOK, Call, NoCall
<1>1. ASSUME NEW t \in Token, DeleteToken(t)
      PROVE  token' \subseteq token /\ UNCHANGED <<signed, call>>
  BY <1>1 DEF DeleteToken
<1>2. ASSUME NEW p \in Prefix, Alloc(p) \/ RenewCertificate(p) \/ RevokePrefix(p)
      PROVE  UNCHANGED <<token, signed>> /\ call'.token = call.token
  BY <1>2 DEF Alloc, RenewCertificate, RevokePrefix
<1>3. ASSUME AllocFails \/ SetPrefix
      PROVE  UNCHANGED <<token, signed>> /\ call'.token \in {call.token, NoToken}
  <2>1. CASE AllocFails
    BY <2>1 DEF AllocFails, Return
  <2>2. CASE SetPrefix
    BY <2>2 DEF SetPrefix
  <2> QED
    BY <1>3, <2>1, <2>2
<1>4. ASSUME NewVersion \/ SetLastConfig
      PROVE  UNCHANGED <<token, signed>> /\ call'.token = call.token
  BY <1>4 DEF NewVersion, SetLastConfig, Goto
<1>5. ASSUME SetSerial \/ ListInCrl
      PROVE  UNCHANGED <<token, signed>> /\ call'.token = call.token
  BY <1>5 DEF SetSerial, ListInCrl, Goto
<1>6. ASSUME Announce \/ SameConfig
      PROVE  UNCHANGED <<token, signed>> /\ call'.token \in {call.token, NoToken}
  BY <1>6 DEF Announce, SameConfig, Continue, Return, Goto
<1>7. ASSUME NEW s \in Serial, RevokeSerial(s)
      PROVE  UNCHANGED <<token, signed>> /\ call'.token = call.token
  BY <1>7 DEF RevokeSerial
<1>8. ASSUME NEW T \in SUBSET token, OnTimeout(T) \/ Start(T)
      PROVE  /\ token' \subseteq token /\ UNCHANGED signed
             /\ call'.token \in {call.token, NoToken}
  BY <1>8 DEF OnTimeout, Start, Stop, Clean
<1>9. ASSUME Crash \/ \E c \in signed : Pass(c)
      PROVE  UNCHANGED <<token, signed>> /\ call'.token \in {call.token, NoToken}
  BY <1>9 DEF Crash, Stop, Pass
<1> QED
  BY <1>1, <1>2, <1>3, <1>4, <1>5, <1>6, <1>7, <1>8, <1>9 DEF Next, vars

LEMMA TokenStep == BaseInv /\ TokenInv /\ [Next]_vars => TokenInv'
<1> SUFFICES ASSUME BaseInv, TokenInv, [Next]_vars
             PROVE  TokenInv'
  OBVIOUS
<1>0. /\ token \in SUBSET Token /\ NoToken \notin Token
      /\ call \in Call
  BY Names DEF BaseInv, TypeOK
<1>1. ASSUME NEW t \in Token, AddToken(t)
      PROVE  TokenInv'
  <2>1. call.token = NoToken /\ call' = call /\ signed' = signed
    BY <1>1 DEF AddToken, past, lost, BaseInv, CallInv, NoCall
  <2> QED
    BY <1>0, <1>1, <2>1 DEF AddToken, TokenInv, TokenOnce
<1>2. ASSUME NEW t \in Token \cup {NoToken}, RequestCertificate(t)
      PROVE  TokenInv'
  <2>1. call'.token = t /\ signed' = signed /\ token' = token \ {t}
    BY <1>0, <1>2 DEF RequestCertificate, Spend, past, lost, Call
  <2> QED
    BY <1>0, <1>2, <2>1 DEF RequestCertificate, TokenInv, TokenOnce
<1>3. CASE Record
  <2>1. /\ signed' = signed \cup {NewCert} /\ NewCert.token = call.token
        /\ token' = token /\ call'.token = NoToken
    BY <1>3 DEF Record, Return, NoCall, NewCert
  <2> QED
    BY <1>0, <2>1 DEF TokenInv, TokenOnce
<1>4. CASE /\ token' \subseteq token /\ UNCHANGED signed
           /\ call'.token \in {call.token, NoToken}
  BY <1>0, <1>4 DEF TokenInv, TokenOnce
<1> QED
  BY <1>1, <1>2, <1>3, <1>4, TokenFrame

\* A token is worth one certificate at most, whatever is interrupted.
THEOREM OneCertificatePerToken == Spec => []TokenOnce
<1>1. Init => TokenInv
  BY Names DEF Init, TokenInv, TokenOnce, NoCall
<1>2. TokenInv => TokenOnce
  BY DEF TokenInv
<1> QED
  BY <1>1, <1>2, Base, TokenStep, PTL DEF Spec

-----------------------------------------------------------------------------
(***************************************************************************)
(* Revocation.                                                             *)
(***************************************************************************)

\* What is forgotten stays so: its serial is in no table, in no request, and will
\* not be given again.
ForgottenInv ==
  /\ \A s \in forgotten :
       /\ s \notin crl /\ s <= serial
       /\ \A p \in Prefix : HasCert(p) => cert[p].serial # s
       /\ call.step \in {"record", "list"} => call.serial # s
  /\ call.step = "list" => call.serial \notin crl /\ call.serial <= serial

LEMMA ForgottenFrame ==
  ASSUME BaseInv, [Next]_vars
  PROVE  \/ SetSerial \/ Record \/ ListInCrl \/ Crash
         \/ \E p \in Prefix : RevokePrefix(p)
         \/ \E s \in Serial : RevokeSerial(s)
         \/ /\ UNCHANGED <<forgotten, crl, serial>>
            /\ call'.step \in {"record", "list"} => UNCHANGED call
<1> USE DEF past, lost, db, BaseInv, TypeOK, Call, NoCall
<1>1. ASSUME NEW t \in Token \cup {NoToken},
             AddToken(t) \/ DeleteToken(t) \/ RequestCertificate(t)
      PROVE  /\ UNCHANGED <<forgotten, crl, serial>>
             /\ call'.step \in {"record", "list"} => UNCHANGED call
  BY <1>1 DEF AddToken, DeleteToken, RequestCertificate
<1>2. ASSUME NEW p \in Prefix, Alloc(p) \/ RenewCertificate(p)
      PROVE  UNCHANGED <<forgotten, crl, serial>> /\ call'.step \notin {"record", "list"}
  BY <1>2 DEF Alloc, RenewCertificate
<1>3. ASSUME AllocFails \/ SetPrefix
      PROVE  UNCHANGED <<forgotten, crl, serial>> /\ call'.step \notin {"record", "list"}
  <2>1. CASE AllocFails
    BY <2>1 DEF AllocFails, Return
  <2>2. CASE SetPrefix
    BY <2>2 DEF SetPrefix
  <2> QED
    BY <1>3, <2>1, <2>2
<1>4. ASSUME NewVersion \/ SetLastConfig \/ Announce \/ SameConfig
      PROVE  UNCHANGED <<forgotten, crl, serial>> /\ call'.step \notin {"record", "list"}
  <2>1. CASE NewVersion \/ SetLastConfig
    BY <2>1 DEF NewVersion, SetLastConfig, Goto
  <2>2. CASE Announce \/ SameConfig
    BY <2>2 DEF Announce, SameConfig, Continue, Return, Goto
  <2> QED
    BY <1>4, <2>1, <2>2
<1>5. ASSUME NEW T \in SUBSET token, OnTimeout(T) \/ Start(T)
      PROVE  UNCHANGED <<forgotten, crl, serial>> /\ call'.step \notin {"record", "list"}
  BY <1>5 DEF OnTimeout, Start, Stop
<1>6. ASSUME NEW c \in signed, Pass(c)
      PROVE  UNCHANGED <<forgotten, crl, serial, call>>
  BY <1>6 DEF Pass
<1> QED
  BY <1>1, <1>2, <1>3, <1>4, <1>5, <1>6 DEF Next, vars

LEMMA ForgottenStep ==
  BaseInv /\ SerialInv /\ ForgottenInv /\ [Next]_vars => ForgottenInv'
<1> SUFFICES ASSUME BaseInv, SerialInv, ForgottenInv, [Next]_vars
             PROVE  ForgottenInv'
  OBVIOUS
<1>0. /\ cert \in [Prefix -> Cert \cup {NoCert}] /\ call \in Call
      /\ serial \in Nat /\ call.serial \in Nat
      /\ \A s \in forgotten : s \in Nat
      /\ \A p \in Prefix : HasCert(p) => /\ cert[p] \in signed
                                       /\ cert[p].serial \in Nat
                                       /\ cert[p].serial <= serial
  <2>1. \A p \in Prefix : HasCert(p) => cert[p] \in signed
    BY DEF BaseInv, TableInv
  <2>2. \A c \in signed : c.serial \in Nat /\ c.serial <= serial
    BY Bounds DEF BaseInv, TypeOK, Cert, Serial, SerialInv
  <2> QED
    BY <2>1, <2>2, Bounds DEF BaseInv, TypeOK, Call, Serial
<1>1. CASE SetSerial
  <2>1. /\ UNCHANGED <<cert, crl, forgotten>> /\ serial' = serial + 1
        /\ call'.step = "record" /\ call'.serial = serial + 1
    BY <1>0, <1>1 DEF SetSerial, NextSerial, past, lost, Call
  <2> QED
    BY <1>0, <2>1 DEF ForgottenInv, HasCert
<1>2. CASE Record
  <2>1. /\ UNCHANGED <<crl, serial, forgotten>> /\ call'.step = "idle"
        /\ cert' = [cert EXCEPT ![call.prefix] = NewCert]
        /\ NewCert.serial = call.serial /\ call.step = "record"
    BY <1>2 DEF Record, lost, Return, NoCall, NewCert
  <2> QED
    BY <1>0, <2>1 DEF ForgottenInv, HasCert
<1>3. CASE ListInCrl
  <2>1. /\ UNCHANGED <<cert, serial, forgotten>> /\ crl' = crl \cup {call.serial}
        /\ call.step = "list" /\ call'.step = "config"
    BY <1>0, <1>3 DEF ListInCrl, past, lost, Goto, Call
  <2> QED
    BY <1>0, <2>1 DEF ForgottenInv, HasCert
<1>4. CASE Crash
  <2>1. /\ UNCHANGED <<cert, crl, serial>> /\ call'.step = "stopped"
        /\ forgotten' = IF Forgets THEN forgotten \cup {call.serial} ELSE forgotten
    BY <1>4 DEF Crash, Stop, NoCall, db
  <2>2. Forgets => \A p \in Prefix : HasCert(p) => cert[p].serial # call.serial
    BY DEF Forgets, Issued
  <2> QED
    BY <1>0, <2>1, <2>2 DEF ForgottenInv, HasCert, Forgets
<1>5. ASSUME NEW p \in Prefix, RevokePrefix(p)
      PROVE  ForgottenInv'
  <2> DEFINE k == cert[p].serial
  <2>1. /\ UNCHANGED <<crl, serial, forgotten>> /\ HasCert(p)
        /\ cert' = [cert EXCEPT ![p] = NoCert]
        /\ call.step = "idle"
    BY <1>5 DEF RevokePrefix, past, lost
  <2>2. /\ k <= serial /\ \A s \in forgotten : s # k
    BY <1>0, <2>1 DEF ForgottenInv
  <2>3. \/ call'.step = "list" /\ call'.serial = k /\ k \notin crl
        \/ call'.step = "idle"
    BY <1>0, <1>5 DEF RevokePrefix, Call
  <2>4. \A q \in Prefix : HasCert(q)' => HasCert(q) /\ cert'[q] = cert[q]
    BY <1>0, <2>1 DEF HasCert
  <2> HIDE DEF k
  <2> QED
    BY <1>0, <2>1, <2>2, <2>3, <2>4 DEF ForgottenInv
<1>6. ASSUME NEW s \in Serial, RevokeSerial(s)
      PROVE  ForgottenInv'
  <2>1. /\ UNCHANGED <<cert, crl, serial, forgotten>> /\ s \notin crl
        /\ call'.step = "list" /\ call'.serial = s
    BY <1>0, <1>6 DEF RevokeSerial, past, lost, db, Call
  <2>2. PICK p \in Prefix : HasCert(p) /\ cert[p].serial = s
    BY <1>6 DEF RevokeSerial, Issued
  <2> QED
    BY <1>0, <2>1, <2>2 DEF ForgottenInv, HasCert
<1>7. CASE /\ UNCHANGED <<forgotten, crl, serial>>
           /\ call'.step \in {"record", "list"} => UNCHANGED call
           /\ \A p \in Prefix : HasCert(p)' => HasCert(p) /\ cert'[p] = cert[p]
  BY <1>7 DEF ForgottenInv
<1> QED
  BY <1>1, <1>2, <1>3, <1>4, <1>5, <1>6, <1>7, ForgottenFrame, SubjectFrame

\* A request that is about to sign for a prefix that has a certificate renews it:
\* it is in its last period or in the CRL.
ReplaceInv ==
  WithPrefix /\ HasCert(call.prefix)
    => AgeOf(call.prefix) # "valid" \/ cert[call.prefix].serial \in crl

LEMMA ReplaceFrame ==
  ASSUME BaseInv, [Next]_vars
  PROVE  \/ \E p \in Prefix : Alloc(p) \/ RenewCertificate(p)
         \/ ~ WithPrefix'
         \/ /\ UNCHANGED <<cert, crl, age>> /\ WithPrefix
            /\ call'.prefix = call.prefix
<1> USE DEF past, lost, db, BaseInv, TypeOK, Call, NoCall, WithPrefix
<1>0. call.step = "idle" => call = NoCall
  BY DEF CallInv
<1>1. ASSUME NEW t \in Token \cup {NoToken},
             AddToken(t) \/ DeleteToken(t) \/ RequestCertificate(t)
      PROVE  ~ WithPrefix'
  BY <1>0, <1>1 DEF AddToken, DeleteToken, RequestCertificate
<1>2. ASSUME \/ \E p \in Prefix : RevokePrefix(p)
             \/ \E s \in Serial : RevokeSerial(s)
      PROVE  ~ WithPrefix'
  BY <1>0, <1>2 DEF RevokePrefix, RevokeSerial
<1>3. ASSUME AllocFails \/ Record \/ ListInCrl
      PROVE  ~ WithPrefix'
  <2>1. CASE AllocFails
    BY <2>1 DEF AllocFails, Return
  <2>2. CASE Record
    BY <2>2 DEF Record, Return
  <2>3. CASE ListInCrl
    BY <2>3 DEF ListInCrl, Goto, CallInv
  <2> QED
    BY <1>3, <2>1, <2>2, <2>3
<1>4. ASSUME \/ \E T \in SUBSET token : OnTimeout(T) \/ Start(T)
             \/ Crash
      PROVE  ~ WithPrefix'
  BY <1>0, <1>4 DEF OnTimeout, Start, Stop, Crash
<1>5. ASSUME \E c \in signed : Pass(c)
      PROVE  ~ WithPrefix'
  BY <1>0, <1>5 DEF Pass
<1>6. ASSUME SetPrefix \/ SetSerial
      PROVE  UNCHANGED <<cert, crl, age>> /\ WithPrefix /\ call'.prefix = call.prefix
  BY <1>6 DEF SetPrefix, SetSerial
<1>7. ASSUME NewVersion \/ SetLastConfig \/ Announce \/ SameConfig
      PROVE  \/ ~ WithPrefix'
             \/ /\ UNCHANGED <<cert, crl, age>> /\ WithPrefix
                /\ call'.prefix = call.prefix
  <2>1. CASE NewVersion \/ SetLastConfig
    BY <2>1 DEF NewVersion, SetLastConfig, Goto
  <2>2. CASE Announce \/ SameConfig
    BY <2>2 DEF Announce, SameConfig, Continue, Return, Goto
  <2> QED
    BY <1>7, <2>1, <2>2
<1>8. ASSUME UNCHANGED vars
      PROVE  \/ ~ WithPrefix'
             \/ /\ UNCHANGED <<cert, crl, age>> /\ WithPrefix
                /\ call'.prefix = call.prefix
  BY <1>8 DEF vars
<1> QED
  BY <1>1, <1>2, <1>3, <1>4, <1>5, <1>6, <1>7, <1>8 DEF Next

LEMMA ReplaceStep == BaseInv /\ ReplaceInv /\ [Next]_vars => ReplaceInv'
<1> SUFFICES ASSUME BaseInv, ReplaceInv, [Next]_vars
             PROVE  ReplaceInv'
  OBVIOUS
<1>0. call \in Call
  BY DEF BaseInv, TypeOK
<1>1. ASSUME NEW p \in Prefix, Alloc(p)
      PROVE  ReplaceInv'
  <2>1. call'.prefix = p /\ ~ HasCert(p)'
    BY <1>0, <1>1 DEF Alloc, Call, HasCert, db
  <2> QED
    BY <2>1 DEF ReplaceInv
<1>2. ASSUME NEW p \in Prefix, RenewCertificate(p)
      PROVE  ReplaceInv'
  <2>1. /\ UNCHANGED <<cert, crl, age>>
        /\ AgeOf(p) # "valid" \/ cert[p].serial \in crl
    BY <1>2 DEF RenewCertificate, db
  <2>2. call'.prefix = p
    BY <1>0, <1>2 DEF RenewCertificate, Call
  <2> QED
    BY <2>1, <2>2 DEF ReplaceInv, AgeOf
<1>3. CASE ~ WithPrefix'
  BY <1>3 DEF ReplaceInv
<1>4. CASE /\ UNCHANGED <<cert, crl, age>> /\ WithPrefix
           /\ call'.prefix = call.prefix
  BY <1>4 DEF ReplaceInv, HasCert, AgeOf
<1> QED
  BY <1>1, <1>2, <1>3, <1>4, ReplaceFrame

\* A certificate leaves the table because it is expired, for a newer one in its
\* last period, or to be listed in the CRL by the same request, which forgets it
\* if it is interrupted.
Kept(c) ==
  \/ c.serial \in forgotten
  \/ cert[c.prefix] = c
  \/ c.serial \in crl
  \/ age[c.serial] \in {"expired", "old"}
  \/ Renewed(c)
  \/ call.step = "list" /\ call.serial = c.serial

RevocationInv == \A c \in signed : Kept(c)

\* The actions that change neither the table nor the CRL do not start from the
\* step "list".
LEMMA RevocationFrame ==
  ASSUME BaseInv, [Next]_vars
  PROVE  \/ \E p \in Prefix : RevokePrefix(p)
         \/ \E T \in SUBSET token : OnTimeout(T) \/ Start(T)
         \/ ListInCrl \/ Record \/ Crash
         \/ \E c \in signed : Pass(c)
         \/ /\ UNCHANGED <<cert, crl, age, signed, forgotten>>
            /\ call.step = "list" => UNCHANGED call
<1> USE DEF past, lost, db
<1>1. ASSUME NEW t \in Token \cup {NoToken},
             AddToken(t) \/ DeleteToken(t) \/ RequestCertificate(t)
      PROVE  /\ UNCHANGED <<cert, crl, age, signed, forgotten>>
             /\ call.step = "list" => UNCHANGED call
  BY <1>1 DEF AddToken, DeleteToken, RequestCertificate
<1>2. ASSUME NEW p \in Prefix, Alloc(p) \/ RenewCertificate(p)
      PROVE  UNCHANGED <<cert, crl, age, signed, forgotten>> /\ call.step # "list"
  BY <1>2 DEF Alloc, RenewCertificate
<1>3. ASSUME \/ AllocFails \/ SetPrefix \/ SetSerial
             \/ NewVersion \/ SetLastConfig \/ Announce \/ SameConfig
             \/ \E s \in Serial : RevokeSerial(s)
      PROVE  UNCHANGED <<cert, crl, age, signed, forgotten>> /\ call.step # "list"
  BY <1>3 DEF AllocFails, SetPrefix, SetSerial, NewVersion, SetLastConfig,
       Announce, SameConfig, RevokeSerial
<1> QED
  BY <1>1, <1>2, <1>3 DEF Next, vars

LEMMA RevocationStep ==
  BaseInv /\ SerialInv /\ ReplaceInv /\ RevocationInv /\ [Next]_vars => RevocationInv'
<1> SUFFICES ASSUME BaseInv, SerialInv, ReplaceInv, RevocationInv, [Next]_vars
             PROVE  RevocationInv'
  OBVIOUS
<1>0. /\ cert \in [Prefix -> Cert \cup {NoCert}]
      /\ age \in [Serial -> Age]
      /\ call \in Call
      /\ \A c \in signed : c \in Cert /\ c.prefix \in Prefix /\ c.serial \in Serial
  BY DEF BaseInv, TypeOK, Cert
<1>1. ASSUME NEW p \in Prefix, RevokePrefix(p)
      PROVE  RevocationInv'
  <2> DEFINE s == cert[p].serial
  <2>1. /\ signed' = signed /\ crl' = crl /\ age' = age /\ forgotten' = forgotten
        /\ cert' = [cert EXCEPT ![p] = NoCert]
        /\ call.step = "idle"
        /\ cert[p] \in signed /\ cert[p].prefix = p
    BY <1>1 DEF RevokePrefix, past, lost, BaseInv, TableInv
  <2>2. CASE Revocable(s) /\ s \notin crl
    <3>1. call'.step = "list" /\ call'.serial = s
      BY <1>0, <1>1, <2>2 DEF RevokePrefix, Call
    <3> QED
      BY <1>0, <2>1, <3>1 DEF RevocationInv, Kept, Renewed
  <2>3. CASE ~ (Revocable(s) /\ s \notin crl)
    <3>1. age[s] \in {"expired", "old"} \/ s \in crl
      BY <1>0, <2>1, <2>3 DEF Revocable, Age
    <3> QED
      BY <1>0, <2>1, <3>1 DEF RevocationInv, Kept, Renewed
  <2> QED
    BY <2>2, <2>3
<1>2. ASSUME NEW T \in SUBSET token, OnTimeout(T) \/ Start(T)
      PROVE  RevocationInv'
  <2>1. /\ signed' = signed /\ crl' = crl /\ age' = age /\ forgotten' = forgotten
        /\ call.step # "list"
    BY <1>2 DEF OnTimeout, Start, past, lost
  <2>2. \A p \in Prefix : cert'[p] = cert[p] \/ age[cert[p].serial] = "old"
    BY <1>0, <1>2 DEF OnTimeout, Start, Clean, Freed, AgeOf
  <2> QED
    BY <1>0, <2>1, <2>2 DEF RevocationInv, Kept, Renewed
<1>3. CASE ListInCrl
  BY <1>3 DEF ListInCrl, past, lost, RevocationInv, Kept, Renewed
<1>4. CASE Record
  <2>1. /\ signed' = signed \cup {NewCert}
        /\ NewCert.prefix = call.prefix /\ NewCert.serial = call.serial
        /\ cert' = [cert EXCEPT ![call.prefix] = NewCert]
        /\ age' = [age EXCEPT ![call.serial] = call.age]
        /\ crl' = crl /\ forgotten' = forgotten /\ call.step = "record"
        /\ call.prefix \in Prefix
    BY <1>4 DEF Record, lost, NewCert, BaseInv, CallInv, WithPrefix
  <2>2. \A c \in signed : c.serial < call.serial
    BY <2>1 DEF SerialInv
  <2>3. /\ \A c \in signed : c.serial # call.serial
        /\ NewCert \in signed' /\ cert'[NewCert.prefix] = NewCert
    BY <1>0, <2>1, <2>2 DEF Serial
  <2>4. ASSUME NEW c \in signed
        PROVE  Kept(c)'
    <3>0. age'[c.serial] = age[c.serial]
      BY <1>0, <2>1, <2>3
    <3>1. Renewed(c) => Renewed(c)'
      BY <2>1, <3>0 DEF Renewed
    <3>2. CASE cert[c.prefix] = c /\ c.prefix = call.prefix
      <4>1. HasCert(call.prefix)
        BY <1>0, <3>2, None DEF HasCert
      <4>2. age[c.serial] # "valid" \/ c.serial \in crl
        BY <2>1, <3>2, <4>1 DEF ReplaceInv, WithPrefix, AgeOf
      <4>3. age[c.serial] = "renewable" => Renewed(c)'
        BY <1>0, <2>1, <2>2, <2>3, <3>0, <3>2 DEF Renewed, Serial
      <4>4. age[c.serial] \in Age
        BY <1>0
      <4> QED
        BY <2>1, <3>0, <4>2, <4>3, <4>4 DEF Kept, Age
    <3>3. CASE cert[c.prefix] = c /\ c.prefix # call.prefix
      <4>1. cert'[c.prefix] = c
        BY <1>0, <2>1, <3>3
      <4> QED
        BY <4>1 DEF Kept
    <3>4. CASE cert[c.prefix] # c
      BY <2>1, <3>0, <3>1, <3>4 DEF RevocationInv, Kept
    <3> QED
      BY <3>2, <3>3, <3>4
  <2>5. ASSUME NEW c \in {NewCert}
        PROVE  Kept(c)'
    BY <2>3, <2>5 DEF Kept
  <2> QED
    BY <2>1, <2>4, <2>5 DEF RevocationInv
<1>5. ASSUME NEW c \in signed, Pass(c)
      PROVE  RevocationInv'
  <2>1. /\ signed' = signed /\ crl' = crl /\ cert' = cert /\ call' = call
        /\ forgotten' = forgotten
        /\ age' = [age EXCEPT ![c.serial] = Older[@]]
    BY <1>5 DEF Pass, past, lost, db
  <2>2. /\ \A a \in {"expired", "old"} : Older[a] = "old"
        /\ Older["renewable"] = "expired"
    BY DEF Older, Age
  <2>3. \A x \in Serial : age[x] \in {"expired", "old"} => age'[x] \in {"expired", "old"}
    BY <1>0, <2>1, <2>2
  <2>4. \A x \in Serial :
          age[x] = "renewable" => age'[x] \in {"renewable", "expired"}
    BY <1>0, <2>1, <2>2
  <2>5. ASSUME NEW d \in signed
        PROVE  Kept(d)'
    <3>1. Renewed(d) => Renewed(d)' \/ age'[d.serial] = "expired"
      BY <1>0, <2>1, <2>4 DEF Renewed
    <3>2. Kept(d)
      BY DEF RevocationInv
    <3> QED
      BY <1>0, <2>1, <2>3, <3>1, <3>2 DEF Kept
  <2> QED
    BY <2>1, <2>5 DEF RevocationInv
<1>6. CASE Crash
  <2>1. /\ UNCHANGED <<signed, crl, cert, age>>
        /\ forgotten' = IF Forgets THEN forgotten \cup {call.serial} ELSE forgotten
    BY <1>6 DEF Crash, db
  <2>2. ASSUME NEW c \in signed, call.step = "list", call.serial = c.serial
        PROVE  c.serial \in forgotten' \/ cert[c.prefix] = c
    <3>1. CASE Forgets
      BY <2>1, <2>2, <3>1
    <3>2. CASE ~ Forgets
      <4>1. PICK p \in Prefix : HasCert(p) /\ cert[p].serial = c.serial
        BY <2>2, <3>2 DEF Forgets, Issued
      <4>2. cert[p] \in signed /\ cert[p].prefix = p
        BY <4>1 DEF BaseInv, TableInv
      <4>3. cert[p] = c
        BY <4>1, <4>2 DEF SerialInv, SerialsUnique
      <4> QED
        BY <4>2, <4>3
    <3> QED
      BY <3>1, <3>2
  <2> QED
    BY <2>1, <2>2 DEF RevocationInv, Kept, Renewed
<1>7. CASE /\ UNCHANGED <<cert, crl, age, signed, forgotten>>
           /\ call.step = "list" => UNCHANGED call
  BY <1>7 DEF RevocationInv, Kept, Renewed
<1> QED
  BY <1>1, <1>2, <1>3, <1>4, <1>5, <1>6, <1>7, RevocationFrame

\* Whatever is interrupted, the certificates that are neither recorded, nor listed,
\* nor expired, nor renewed in their last period are those of the revocations by
\* name that were interrupted between their two statements: nothing else is
\* forgotten, and these can not be listed any more.
THEOREM NeverForgotten == Spec => []RevokedListed
<1> DEFINE Inv == SerialInv /\ ForgottenInv /\ ReplaceInv /\ RevocationInv
<1>1. Init => Inv
  BY DEF Init, SerialInv, SerialsUnique, ForgottenInv, ReplaceInv, WithPrefix,
     RevocationInv, NoCall
<1>2. Inv => RevokedListed
  <2> SUFFICES ASSUME Inv, call.step = "idle", NEW c \in signed
               PROVE  IF c.serial \in forgotten THEN c \notin Issued /\ c.serial \notin crl
                      ELSE \/ cert[c.prefix] = c
                           \/ c.serial \in crl
                           \/ age[c.serial] \in {"expired", "old"}
                           \/ Renewed(c)
    BY DEF RevokedListed
  <2>1. CASE c.serial \in forgotten
    BY <2>1 DEF ForgottenInv, Issued
  <2>2. CASE c.serial \notin forgotten
    BY <2>2 DEF RevocationInv, Kept
  <2> QED
    BY <2>1, <2>2
<1>3. BaseInv /\ Inv /\ [Next]_vars => Inv'
  BY SerialStep, ForgottenStep, ReplaceStep, RevocationStep
<1> QED
  BY <1>1, <1>2, <1>3, Base, PTL DEF Spec

-----------------------------------------------------------------------------
(***************************************************************************)
(* The configuration.                                                      *)
(***************************************************************************)

\* The steps that need what updateNetworkConfig does.
Settled == {"idle", "alloc", "serial", "record", "list"}

ServedInv ==
  call.step \in Settled /\ prefix # NoPrefix
    => /\ reg.config = [crl |-> crl, prefix |-> prefix, version |-> version]
       /\ lastConfig = [crl |-> crl, prefix |-> prefix]

\* A version that was not announced will be: the configuration that is recorded
\* is not the one of the tables.  If its announcement was interrupted, it never is.
AnnouncedInv ==
  /\ \/ announced = version
     \/ version \in missed
     \/ call.step = "announce"
     \/ lastConfig # [crl |-> crl, prefix |-> prefix] /\ prefix # NoPrefix
  /\ announced <= version /\ announced \notin missed
  /\ \A v \in missed : v <= version
  /\ call.step \in {"last", "announce"} => announced < version /\ version \notin missed

LEMMA ServedFrame ==
  ASSUME BaseInv, [Next]_vars
  PROVE  \/ \E p \in Prefix : Alloc(p)
         \/ \E T \in SUBSET token : OnTimeout(T) \/ Start(T)
         \/ SetPrefix \/ NewVersion \/ SetLastConfig \/ Announce \/ SameConfig
         \/ ListInCrl \/ Crash
         \/ /\ UNCHANGED <<crl, prefix, version, lastConfig, reg, announced, missed>>
            /\ \/ call.step \in Settled /\ call'.step \in Settled
               \/ UNCHANGED call
<1> USE DEF past, lost, db, BaseInv, TypeOK, Call, NoCall, Settled
<1>1. ASSUME NEW t \in Token \cup {NoToken},
             AddToken(t) \/ DeleteToken(t) \/ RequestCertificate(t)
      PROVE  /\ UNCHANGED <<crl, prefix, version, lastConfig, reg, announced, missed>>
             /\ \/ call.step \in Settled /\ call'.step \in Settled
                \/ UNCHANGED call
  BY <1>1 DEF AddToken, DeleteToken, RequestCertificate
<1>2. ASSUME NEW p \in Prefix, RenewCertificate(p) \/ RevokePrefix(p)
      PROVE  /\ UNCHANGED <<crl, prefix, version, lastConfig, reg, announced, missed>>
             /\ call.step \in Settled /\ call'.step \in Settled
  BY <1>2 DEF RenewCertificate, RevokePrefix
<1>3. ASSUME AllocFails \/ Record
      PROVE  /\ UNCHANGED <<crl, prefix, version, lastConfig, reg, announced, missed>>
             /\ call.step \in Settled /\ call'.step \in Settled
  BY <1>3 DEF AllocFails, Record, Return
<1>4. ASSUME SetSerial
      PROVE  /\ UNCHANGED <<crl, prefix, version, lastConfig, reg, announced, missed>>
             /\ call.step \in Settled /\ call'.step \in Settled
  BY <1>4 DEF SetSerial
<1>5. ASSUME NEW s \in Serial, RevokeSerial(s)
      PROVE  /\ UNCHANGED <<crl, prefix, version, lastConfig, reg, announced, missed>>
             /\ call.step \in Settled /\ call'.step \in Settled
  BY <1>5 DEF RevokeSerial
<1>6. ASSUME NEW c \in signed, Pass(c)
      PROVE  UNCHANGED <<crl, prefix, version, lastConfig, reg, announced, missed, call>>
  BY <1>6 DEF Pass
<1> QED
  BY <1>1, <1>2, <1>3, <1>4, <1>5, <1>6 DEF Next, vars

LEMMA ServedStep == BaseInv /\ ServedInv /\ [Next]_vars => ServedInv'
<1> SUFFICES ASSUME BaseInv, ServedInv, [Next]_vars
             PROVE  ServedInv'
  OBVIOUS
<1>0. /\ call \in Call /\ reg \in Registry
      /\ prefix \in Prefix \cup {NoPrefix} /\ NoPrefix \notin Prefix
  BY Names DEF BaseInv, TypeOK
<1>1. ASSUME NEW p \in Prefix, Alloc(p)
      PROVE  ServedInv'
  BY <1>0, <1>1 DEF Alloc, ServedInv, Settled, Call, Registry, BaseInv, CallInv, Running, db
<1>2. ASSUME NEW T \in SUBSET token, OnTimeout(T) \/ Start(T)
      PROVE  ServedInv'
  BY <1>0, <1>2 DEF OnTimeout, Start, Clean, Stop, NoCall, ServedInv, Settled, Call
<1>3. CASE SetPrefix \/ NewVersion \/ SetLastConfig \/ ListInCrl \/ Crash
  <2>1. call'.step \notin Settled
    BY <1>0, <1>3 DEF SetPrefix, NewVersion, SetLastConfig, ListInCrl, Crash, Stop,
         NoCall, Goto, Settled, Call
  <2> QED
    BY <2>1 DEF ServedInv
<1>4. CASE Announce \/ SameConfig
  <2>1. lastConfig = NewConfig /\ reg.prefix = prefix /\ reg.version = version
    BY <1>4 DEF Announce, SameConfig, Changed, BaseInv, CallInv, Running
  <2>2. /\ reg'.config = [crl |-> crl, prefix |-> reg.prefix, version |-> reg.version]
        /\ UNCHANGED db
    BY <1>0, <1>4 DEF Announce, SameConfig, Publish, Registry
  <2> QED
    BY <2>1, <2>2 DEF ServedInv, NewConfig, db
<1>5. CASE /\ UNCHANGED <<crl, prefix, version, lastConfig, reg, announced, missed>>
           /\ \/ call.step \in Settled /\ call'.step \in Settled
              \/ UNCHANGED call
  BY <1>5 DEF ServedInv
<1> QED
  BY <1>1, <1>2, <1>3, <1>4, <1>5, ServedFrame

LEMMA AnnouncedStep ==
  BaseInv /\ ServedInv /\ AnnouncedInv /\ [Next]_vars => AnnouncedInv'
<1> SUFFICES ASSUME BaseInv, ServedInv, AnnouncedInv, [Next]_vars
             PROVE  AnnouncedInv'
  OBVIOUS
<1>0. /\ call \in Call /\ reg \in Registry
      /\ version \in Nat /\ announced \in Nat /\ \A v \in missed : v \in Nat
      /\ prefix \in Prefix \cup {NoPrefix} /\ NoPrefix \notin Prefix
  BY Names, Bounds DEF BaseInv, TypeOK
<1>1. ASSUME NEW p \in Prefix, Alloc(p)
      PROVE  AnnouncedInv'
  <2>1. /\ UNCHANGED <<announced, version, missed, lastConfig, crl, prefix>>
        /\ call.step = "alloc" /\ call'.step \in {"prefix", "serial"}
    BY <1>0, <1>1 DEF Alloc, Call, db, past, lost
  <2> QED
    BY <2>1 DEF AnnouncedInv
<1>2. ASSUME NEW T \in SUBSET token, OnTimeout(T) \/ Start(T)
      PROVE  AnnouncedInv'
  <2>1. /\ UNCHANGED <<announced, version, missed, lastConfig, crl, prefix>>
        /\ call.step # "announce" /\ call'.step \notin {"last", "announce"}
    BY <1>0, <1>2 DEF OnTimeout, Start, Stop, NoCall, Call, past, lost
  <2> QED
    BY <2>1 DEF AnnouncedInv
<1>3. CASE Crash
  <2>1. /\ UNCHANGED <<announced, version, lastConfig, crl, prefix>>
        /\ call'.step = "stopped"
        /\ missed' = IF Misses THEN missed \cup {version} ELSE missed
    BY <1>3 DEF Crash, Stop, NoCall, db
  <2> QED
    BY <1>0, <2>1 DEF AnnouncedInv, Misses
<1>4. CASE SetPrefix
  <2>1. /\ UNCHANGED <<announced, version, missed, lastConfig, crl>>
        /\ prefix = NoPrefix /\ prefix' = call.prefix /\ call.prefix \in Prefix
        /\ call.step = "prefix" /\ call'.step = "config"
    BY <1>0, <1>4 DEF SetPrefix, BaseInv, CallInv, WithPrefix, Call, past, lost
  <2> QED
    BY <1>0, <2>1 DEF AnnouncedInv
<1>5. CASE ListInCrl
  <2>1. /\ UNCHANGED <<announced, version, missed, lastConfig, prefix>>
        /\ call.step = "list" /\ call'.step = "config"
    BY <1>0, <1>5 DEF ListInCrl, Goto, Call, past, lost
  <2>2. announced = version \/ version \in missed
    BY <2>1 DEF AnnouncedInv, ServedInv, Settled
  <2> QED
    BY <2>1, <2>2 DEF AnnouncedInv
<1>6. CASE NewVersion
  <2>1. lastConfig # [crl |-> crl, prefix |-> prefix] /\ prefix # NoPrefix
    BY <1>6 DEF NewVersion, Changed, NewConfig, BaseInv, CallInv, Running, Named
  <2>2. /\ UNCHANGED <<announced, missed, lastConfig, crl, prefix>>
        /\ version' = version + 1
    BY <1>0, <1>6 DEF NewVersion, BaseInv, CallInv, Running, past, lost
  <2> QED
    BY <1>0, <2>1, <2>2 DEF AnnouncedInv
<1>7. CASE SetLastConfig
  <2>1. /\ UNCHANGED <<announced, version, missed>>
        /\ call.step = "last" /\ call'.step = "announce"
    BY <1>0, <1>7 DEF SetLastConfig, Goto, Call, past, lost
  <2> QED
    BY <2>1 DEF AnnouncedInv
<1>8. CASE Announce
  <2>1. /\ UNCHANGED <<version, missed>> /\ announced' = version
        /\ call.step = "announce" /\ call'.step \notin {"last", "announce"}
    BY <1>0, <1>8 DEF Announce, Continue, Return, Goto, NoCall, Call, db, lost,
       BaseInv, CallInv, Running
  <2> QED
    BY <1>0, <2>1 DEF AnnouncedInv
<1>9. CASE SameConfig
  <2>1. lastConfig = [crl |-> crl, prefix |-> prefix] /\ call.step = "config"
    BY <1>9 DEF SameConfig, Changed, NewConfig, BaseInv, CallInv, Running
  <2>2. announced = version \/ version \in missed
    BY <2>1 DEF AnnouncedInv
  <2>3. /\ UNCHANGED <<announced, version, missed>>
        /\ call'.step \notin {"last", "announce"}
    BY <1>0, <1>9 DEF SameConfig, Continue, Return, Goto, NoCall, Call, db, lost
  <2> QED
    BY <2>2, <2>3 DEF AnnouncedInv
<1>10. CASE /\ UNCHANGED <<crl, prefix, version, lastConfig, reg, announced, missed>>
            /\ \/ call.step \in Settled /\ call'.step \in Settled
               \/ UNCHANGED call
  <2>1. CASE UNCHANGED call
    BY <1>10, <2>1 DEF AnnouncedInv
  <2>2. CASE call.step \in Settled /\ call'.step \in Settled
    BY <1>10, <2>2 DEF AnnouncedInv, Settled
  <2> QED
    BY <1>10, <2>1, <2>2
<1> QED
  BY <1>1, <1>2, <1>3, <1>4, <1>5, <1>6, <1>7, <1>8, <1>9, <1>10, ServedFrame

LEMMA Served0 == Init => ServedInv /\ AnnouncedInv
BY DEF Init, ServedInv, AnnouncedInv, NoCall

\* Between requests, nodes get the configuration that the tables define, with
\* the version that is recorded, whatever was interrupted.
THEOREM AlwaysServed == Spec => []ConfigServed
<1>1. ServedInv => ConfigServed
  BY DEF ServedInv, ConfigServed, Settled
<1> QED
  BY <1>1, Served0, Base, ServedStep, PTL DEF Spec

\* A version and what nodes get for it always match.
THEOREM VersionsAlwaysServed == Spec => []VersionsServed
<1>1. VersionNames /\ ConfigServed => VersionsServed
  BY DEF VersionsServed
<1> QED
  BY <1>1, VersionsName, AlwaysServed, PTL

\* Whatever is interrupted, between requests the nodes were told about the version
\* that is recorded, exactly unless the announcement of this very version was
\* interrupted: an interruption at any other step is repaired by the next start.
THEOREM AlwaysAnnounced == Spec => []Announced
<1>1. BaseInv /\ ServedInv /\ AnnouncedInv => Announced
  BY DEF BaseInv, TypeOK, CallInv, ServedInv, AnnouncedInv, Announced, Settled, Named
<1>2. BaseInv /\ (ServedInv /\ AnnouncedInv) /\ [Next]_vars
        => (ServedInv /\ AnnouncedInv)'
  BY ServedStep, AnnouncedStep
<1> QED
  BY <1>1, <1>2, Served0, Base, PTL DEF Spec
=============================================================================
