-------------------------- MODULE TunnelKillProofs --------------------------
(***************************************************************************)
(* Proofs about TunnelKill, for locks and delays of any length.            *)
(*                                                                         *)
(* A tunnel may be cut because three facts are kept together: an end that  *)
(* is locked has no route via the link and nothing to tell babeld          *)
(* (LockInv); as long as an answer may arrive, the killer that sent it has *)
(* time left, since a lock is held longer than a datagram lives (MsgInv);  *)
(* and a killer is locked only while its end has the tunnel (EndInv).      *)
(***************************************************************************)
EXTENDS TunnelKill, TLAPS

Idle(e) == killer[e].state \in {"absent", "new"}

\* The multiplier of the link, once babeld read what it was sent.
Pending(e) == IF sent[e] = "no" THEN babeld[e].cost ELSE sent[e]

EndInv(e) ==
  /\ ~up[e] => killer[e].state \in {"absent", "unlocking"}
  /\ babeld[e].direct => babeld[e].cost # "hard"
  /\ killer[e].cost # "hard"
  /\ Idle(e) => Pending(e) # "hard"
  /\ restored[e] # "hasty" => IF Idle(e) THEN Pending(e) = "normal"
                              ELSE killer[e].cost = "normal"

\* A link with multiplier 0 keeps it, unless babeld forgets it since an end
\* has no tunnel any more.
Shut(e) ==
  /\ ~babeld[e].direct
  /\ sent[e] = "no"
  /\ babeld[e].cost = "hard" \/ \E f \in End : ~up[f]

LockInv == \A e \in End : killer[e].state = "locked" => Shut(e)

MsgInv ==
  \A m \in msgs : m.from = "server" =>
    /\ killer["server"].time + m.age >= LockTime
    /\ \/ killer["server"].state = "locked"
       \/ killer["server"].state = "unlocking" /\ ~up["server"]
    /\ Shut("server")

SeenInv ==
  /\ seen.direct => seen.cost # "hard"
  /\ Idle("server") /\ restored["server"] = "no" => seen.cost = "normal"

IInv == TypeOK /\ (\A e \in End : EndInv(e)) /\ LockInv /\ MsgInv /\ SeenInv

-----------------------------------------------------------------------------
LEMMA Ends == "client" \in End /\ "server" \in End /\ "client" # "server"
BY DEF End

\* The fields of what the state is made of.
LEMMA Fields ==
  ASSUME TypeOK, NEW e \in End
  PROVE  /\ killer[e] \in KillerState
         /\ killer[e].time \in 0 .. LockTime
         /\ killer[e].cost \in Cost
         /\ sent[e] \in Cost \cup {"no"}
         /\ babeld[e] \in Link
         /\ babeld[e].cost \in Cost
         /\ babeld[e].direct \in BOOLEAN
         /\ up[e] \in BOOLEAN
         /\ restored[e] \in Ghost
BY DEF TypeOK, KillerState, Link

LEMMA LockTimes == LockTime \in Nat /\ MaxAge \in Nat /\ MaxAge < LockTime
BY Times

\* What babeld has after it read what it was sent.
LEMMA ReadLink ==
  ASSUME TypeOK, NEW e \in End, EndInv(e)
  PROVE  /\ AfterRead(e) \in Link
         /\ AfterRead(e).cost = Pending(e)
         /\ AfterRead(e).direct \in BOOLEAN
         /\ AfterRead(e).direct => AfterRead(e).cost # "hard"
         /\ sent[e] = "no" => AfterRead(e) = babeld[e]
BY Fields DEF EndInv, AfterRead, Pending, Link, Cost

\* The outcomes of a dump for the killer of e, that becomes k: c is what it
\* sends to babeld, g its ghost and M its messages.  It waits;
Waiting(e, k, c, g, M) ==
  /\ ~Over(killer[e]) /\ c = "no" /\ M = {}
  /\ k.state = killer[e].state /\ k.cost = killer[e].cost
  /\ k.state # "hardLocking" => k = killer[e]
  /\ (g = "hasty") <=> (restored[e] = "hasty")
  /\ g # "unlocked"

\* there is none, or it only begins;
Beginning(e, k, c, g, M) ==
  /\ Idle(e) /\ k.state \in {"absent", "new"} /\ (k.state = "new" => up[e])
  /\ k.cost = "normal" /\ c = "no" /\ M = {}
  /\ (g = "hasty") <=> (restored[e] = "hasty")

\* its time is over;
Ending(e, k, c, g, M) ==
  /\ ~Idle(e) /\ Over(killer[e])
  /\ k.state \in {"absent", "new"} /\ (k.state = "new" => up[e])
  /\ k.cost = "normal" /\ c = killer[e].cost /\ M = {}
  /\ g # "no" /\ ((g = "hasty") <=> (restored[e] = "hasty"))

\* it starts, at once if another one ends;
Starting(e, k, c, g, M) ==
  /\ up[e] /\ AfterRead(e).direct /\ (Idle(e) \/ Over(killer[e]))
  /\ k.state = "softLocking" /\ k.cost = AfterRead(e).cost
  /\ c = "soft" /\ M = {}
  /\ g # "hasty" => Idle(e) /\ restored[e] # "hasty"

\* it forbids the link;
Forbidding(e, k, c, g, M) ==
  /\ killer[e].state = "softLocking" /\ ~AfterRead(e).direct
  /\ k.state = "hardLocking" /\ k.cost = killer[e].cost
  /\ c = "hard" /\ M = {}
  /\ (g = "hasty") <=> (restored[e] = "hasty")

\* the link is locked.
Locking(e, k, c, g, M) ==
  /\ killer[e].state = "hardLocking" /\ Locked(AfterRead(e))
  /\ k.state = "locked" /\ k.cost = killer[e].cost /\ k.time = LockTime
  /\ c = "no" /\ M = {[from |-> e, age |-> 0]}
  /\ (g = "hasty") <=> (restored[e] = "hasty")

Dumped(e, k, c, g, M) ==
  \/ Waiting(e, k, c, g, M) \/ Beginning(e, k, c, g, M)
  \/ Ending(e, k, c, g, M) \/ Starting(e, k, c, g, M)
  \/ Forbidding(e, k, c, g, M) \/ Locking(e, k, c, g, M)

\* The step of a killer that is called or removed.
Outcome(e, k, s, r) ==
  \/ Over(k) /\ r = [killer |-> NoKiller, cost |-> Unlock(k), msgs |-> {}]
  \/ ~Over(k) /\ r = Waits(k)
  \/ /\ ~Over(k) /\ k.state = "new" /\ s.direct
     /\ r = [killer |-> [k EXCEPT !.state = "softLocking", !.cost = s.cost],
             cost |-> "soft", msgs |-> {}]
  \/ /\ ~Over(k) /\ k.state = "softLocking" /\ ~s.direct
     /\ r = [killer |-> [k EXCEPT !.state = "hardLocking"],
             cost |-> "hard", msgs |-> {}]
  \/ /\ ~Over(k) /\ k.state = "hardLocking" /\ Locked(s)
     /\ r = [killer |-> [k EXCEPT !.state = "locked", !.time = LockTime],
             cost |-> "no", msgs |-> {[from |-> e, age |-> 0]}]
  \/ /\ ~Over(k) /\ k.state = "hardLocking"
     /\ r = Waits([k EXCEPT !.time = 0])

LEMMA StepOutcome ==
  ASSUME NEW e, NEW k, NEW s, NEW o
  PROVE  Outcome(e, k, s, Step(e, k, s, o))
<1>1. CASE Over(k)
  BY <1>1 DEF Outcome, Step
<1>2. CASE ~Over(k) /\ k.state = "new"
  BY <1>2 DEF Outcome, Step, Call, Init_Killer
<1>3. CASE ~Over(k) /\ k.state = "softLocking"
  BY <1>3 DEF Outcome, Step, Call, SoftLocking
<1>4. CASE ~Over(k) /\ k.state = "hardLocking"
  BY <1>4 DEF Outcome, Step, Call, HardLocking
<1>5. CASE ~Over(k) /\ k.state \notin {"new", "softLocking", "hardLocking"}
  BY <1>5 DEF Outcome, Step, Call
<1> QED
  BY <1>1, <1>2, <1>3, <1>4, <1>5

LEMMA OutcomeTypes ==
  ASSUME NEW e \in End, NEW k \in KillerState, NEW s \in Link, NEW r,
         Outcome(e, k, s, r)
  PROVE  /\ r.killer \in KillerState
         /\ r.cost \in Cost \cup {"no"}
         /\ r.msgs \in SUBSET Message
<1> USE LockTimes
<1>0. /\ k.state \in {"absent", "new", "softLocking", "hardLocking", "locked",
                       "unlocking"}
      /\ k.time \in 0 .. LockTime /\ k.cost \in Cost /\ s.cost \in Cost
  BY DEF KillerState, Link
<1>1. NoKiller \in KillerState
  BY DEF KillerState, NoKiller, Cost
<1>a. ASSUME NEW x \in {"softLocking", "hardLocking", "locked"}
      PROVE  /\ [k EXCEPT !.state = x] \in KillerState
             /\ [k EXCEPT !.state = x, !.cost = s.cost] \in KillerState
             /\ [k EXCEPT !.state = x, !.time = LockTime] \in KillerState
  <2>1. x \in {"absent", "new", "softLocking", "hardLocking", "locked",
               "unlocking"}
    OBVIOUS
  <2>2. LockTime \in 0 .. LockTime
    OBVIOUS
  <2>3. [k EXCEPT !.state = x] \in KillerState
    BY <2>1 DEF KillerState
  <2>4. [k EXCEPT !.state = x, !.cost = s.cost] \in KillerState
    BY <1>0, <2>1 DEF KillerState
  <2>5. [k EXCEPT !.state = x, !.time = LockTime] \in KillerState
    BY <2>1, <2>2 DEF KillerState
  <2> QED
    BY <2>3, <2>4, <2>5
<1>b. [k EXCEPT !.time = 0] \in KillerState
  BY DEF KillerState
<1>2. Unlock(k) \in Cost \cup {"no"} /\ {"soft", "hard"} \subseteq Cost
  BY <1>0 DEF Unlock, Cost
<1>3. {} \in SUBSET Message /\ {[from |-> e, age |-> 0]} \in SUBSET Message
  BY DEF Message
<1> QED
  <2>1. CASE Over(k) /\ r = [killer |-> NoKiller, cost |-> Unlock(k), msgs |-> {}]
    BY <1>1, <1>2, <1>3, <2>1
  <2>2. CASE r = Waits(k) \/ r = Waits([k EXCEPT !.time = 0])
    BY <1>b, <1>3, <2>2 DEF Waits
  <2>3. CASE r = [killer |-> [k EXCEPT !.state = "softLocking", !.cost = s.cost],
                  cost |-> "soft", msgs |-> {}]
    BY <1>a, <1>2, <1>3, <2>3
  <2>4. CASE r = [killer |-> [k EXCEPT !.state = "hardLocking"],
                  cost |-> "hard", msgs |-> {}]
    <3>1. "hard" \in Cost
      BY DEF Cost
    <3> QED
      BY <1>a, <1>3, <2>4, <3>1
  <2>5. CASE r = [killer |-> [k EXCEPT !.state = "locked", !.time = LockTime],
                  cost |-> "no", msgs |-> {[from |-> e, age |-> 0]}]
    BY <1>a, <1>3, <2>5
  <2> QED
    BY <2>1, <2>2, <2>3, <2>4, <2>5 DEF Outcome

\* What a killer that is called or removed does is one of the outcomes of a dump.
LEMMA CalledOutcome ==
  ASSUME TypeOK, NEW e \in End, EndInv(e), NEW r, NEW g,
         Outcome(e, killer[e], AfterRead(e), r),
         g = IF restored[e] = "hasty" THEN "hasty"
             ELSE IF Over(killer[e]) /\ r.cost # "no" THEN "unlocked" ELSE "no"
  PROVE  Dumped(e, r.killer, r.cost, g, r.msgs)
<1>1. /\ killer[e].cost \in Cost /\ killer[e] \in KillerState
      /\ killer[e].state \in {"absent", "new", "softLocking", "hardLocking",
                              "locked", "unlocking"}
  BY Fields DEF KillerState
<1>2. CASE Over(killer[e]) /\ Idle(e)
  <2>1. r.killer = NoKiller /\ r.cost = "no" /\ r.msgs = {}
    BY <1>2 DEF Outcome, Unlock, Idle
  <2> QED
    BY <1>2, <2>1 DEF Dumped, Beginning, NoKiller
<1>3. CASE Over(killer[e]) /\ ~Idle(e)
  <2>1. r.killer = NoKiller /\ r.cost = killer[e].cost /\ r.msgs = {}
    BY <1>3 DEF Outcome, Unlock, Idle
  <2> QED
    BY <1>1, <1>3, <2>1 DEF Dumped, Ending, NoKiller, Cost
<1>4. CASE ~Over(killer[e])
  <2>1. CASE r = Waits(killer[e])
    BY <1>4, <2>1 DEF Dumped, Waiting, Waits
  <2>2. CASE /\ killer[e].state = "new" /\ AfterRead(e).direct
             /\ r = [killer |-> [killer[e] EXCEPT !.state = "softLocking",
                                                  !.cost = AfterRead(e).cost],
                     cost |-> "soft", msgs |-> {}]
    <3>1. Idle(e) /\ up[e]
      BY <2>2, Fields DEF Idle, EndInv
    <3>2. /\ r.killer.state = "softLocking" /\ r.killer.cost = AfterRead(e).cost
          /\ r.cost = "soft" /\ r.msgs = {}
      BY <2>2, <1>1 DEF KillerState
    <3> QED
      BY <1>4, <2>2, <3>1, <3>2 DEF Dumped, Starting
  <2>3. CASE /\ killer[e].state = "softLocking" /\ ~AfterRead(e).direct
             /\ r = [killer |-> [killer[e] EXCEPT !.state = "hardLocking"],
                     cost |-> "hard", msgs |-> {}]
    BY <1>1, <1>4, <2>3 DEF Dumped, Forbidding, KillerState
  <2>4. CASE /\ killer[e].state = "hardLocking" /\ Locked(AfterRead(e))
             /\ r = [killer |-> [killer[e] EXCEPT !.state = "locked",
                                                  !.time = LockTime],
                     cost |-> "no", msgs |-> {[from |-> e, age |-> 0]}]
    BY <1>1, <1>4, <2>4 DEF Dumped, Locking, KillerState
  <2>5. CASE /\ killer[e].state = "hardLocking"
             /\ r = Waits([killer[e] EXCEPT !.time = 0])
    BY <1>1, <1>4, <2>5 DEF Dumped, Waiting, Waits, KillerState
  <2> QED
    BY <1>4, <2>1, <2>2, <2>3, <2>4, <2>5 DEF Outcome
<1> QED
  BY <1>2, <1>3, <1>4

\* So is a killer that starts at once where there is none any more.
LEMMA StartedOutcome ==
  ASSUME TypeOK, NEW e \in End, EndInv(e), up[e], NEW r, NEW n, NEW c, NEW g,
         Outcome(e, killer[e], AfterRead(e), r),
         r.killer.state = "absent",
         n = NewKiller(AfterRead(e)),
         c = IF n.cost = "no" THEN r.cost ELSE n.cost,
         g = IF restored[e] = "hasty" THEN "hasty"
             ELSE IF Over(killer[e]) /\ r.cost # "no"
             THEN IF n.cost # "no" THEN "hasty" ELSE "unlocked" ELSE "no"
  PROVE  Dumped(e, n.killer, c, g, n.msgs) /\ n.killer \in KillerState
<1> DEFINE s == AfterRead(e)
<1>1. /\ killer[e].cost \in Cost /\ killer[e] \in KillerState
      /\ killer[e].state \in {"absent", "new", "softLocking", "hardLocking",
                              "locked", "unlocking"}
  BY Fields DEF KillerState
<1>2. s.cost \in Cost /\ s.direct \in BOOLEAN
  BY ReadLink DEF Link
<1>3. \/ Over(killer[e]) /\ r.cost = Unlock(killer[e])
      \/ killer[e].state = "absent" /\ r.cost = "no" /\ ~Over(killer[e])
  <2>1. CASE Over(killer[e])
    BY <2>1 DEF Outcome
  <2>2. CASE r = Waits(killer[e]) /\ ~Over(killer[e])
    BY <2>2 DEF Waits
  <2>3. CASE ~Over(killer[e]) /\ r # Waits(killer[e])
    <3>1. CASE r.killer = [killer[e] EXCEPT !.state = "softLocking",
                                            !.cost = s.cost]
      BY <1>1, <3>1 DEF KillerState
    <3>2. CASE r.killer = [killer[e] EXCEPT !.state = "hardLocking"]
      BY <1>1, <3>2 DEF KillerState
    <3>3. CASE r.killer = [killer[e] EXCEPT !.state = "locked",
                                            !.time = LockTime]
      BY <1>1, <3>3 DEF KillerState
    <3>4. CASE /\ r.killer = [killer[e] EXCEPT !.time = 0]
               /\ killer[e].state = "hardLocking"
      BY <1>1, <3>4 DEF KillerState
    <3> QED
      BY <2>3, <3>1, <3>2, <3>3, <3>4 DEF Outcome, Waits
  <2> QED
    BY <2>1, <2>2, <2>3
<1>4. CASE s.direct
  <2>1. n = [killer |-> [state |-> "softLocking", time |-> LockTime,
                         cost |-> s.cost], cost |-> "soft", msgs |-> {}]
    BY <1>4 DEF NewKiller, Init_Killer
  <2>2. n.killer \in KillerState
    BY <1>2, <2>1, LockTimes DEF KillerState
  <2>3. Idle(e) \/ Over(killer[e])
    BY <1>3 DEF Idle
  <2>4. g # "hasty" => Idle(e) /\ restored[e] # "hasty"
    BY <1>1, <1>3, <2>1 DEF Unlock, Idle, Cost
  <2> QED
    BY <1>4, <2>1, <2>2, <2>3, <2>4 DEF Dumped, Starting
<1>5. CASE ~s.direct
  <2>1. n = [killer |-> [state |-> "new", time |-> LockTime,
                         cost |-> "normal"], cost |-> "no", msgs |-> {}]
    BY <1>5 DEF NewKiller, Init_Killer, Waits
  <2>2. n.killer \in KillerState
    BY <2>1, LockTimes DEF KillerState, Cost
  <2>3. CASE Idle(e)
    <3>1. c = "no"
      BY <1>3, <2>1, <2>3 DEF Unlock, Idle
    <3> QED
      BY <2>1, <2>2, <2>3, <3>1 DEF Dumped, Beginning
  <2>4. CASE ~Idle(e)
    <3>1. Over(killer[e]) /\ c = killer[e].cost /\ r.cost = c /\ c # "no"
      BY <1>1, <1>3, <2>1, <2>4 DEF Unlock, Idle, Cost
    <3> QED
      BY <2>1, <2>2, <2>4, <3>1 DEF Dumped, Ending
  <2> QED
    BY <2>3, <2>4
<1> QED
  BY <1>4, <1>5

\* A dump has one of these outcomes.
LEMMA DumpOutcome ==
  ASSUME TypeOK, NEW e \in End, EndInv(e), BabelDump(e)
  PROVE  \E k \in KillerState, c \in Cost \cup {"no"}, g \in Ghost,
            M \in SUBSET Message :
           /\ Dumped(e, k, c, g, M)
           /\ killer' = [killer EXCEPT ![e] = k]
           /\ sent' = [sent EXCEPT ![e] = c]
           /\ restored' = [restored EXCEPT ![e] = g]
           /\ msgs' = msgs \cup M
           /\ babeld' = [babeld EXCEPT ![e] = AfterRead(e)]
           /\ seen' = IF e = "server" THEN AfterRead(e) ELSE seen
           /\ up' = up
<1> DEFINE s == AfterRead(e)
           n == NewKiller(s)
<1>1. PICK others \in BOOLEAN :
        LET r == Step(e, killer[e], s, others)
            ended == Over(killer[e]) /\ r.cost # "no"
            read == IF restored[e] = "hasty" THEN "hasty"
                    ELSE IF ended THEN "unlocked" ELSE "no"
        IN  /\ babeld' = [babeld EXCEPT ![e] = s]
            /\ seen' = IF e = "server" THEN s ELSE seen
            /\ \/ /\ Effects(e, r)
                  /\ restored' = [restored EXCEPT ![e] = read]
               \/ /\ e = "client" /\ up[e] /\ r.killer.state = "absent"
                  /\ Effects(e, IF n.cost = "no" THEN [n EXCEPT !.cost = r.cost]
                                ELSE n)
                  /\ restored' = [restored EXCEPT ![e] =
                       IF read = "unlocked" /\ n.cost # "no" THEN "hasty"
                       ELSE read]
            /\ up' = up
  BY DEF BabelDump
<1> DEFINE r == Step(e, killer[e], s, others)
           ended == Over(killer[e]) /\ r.cost # "no"
           read == IF restored[e] = "hasty" THEN "hasty"
                   ELSE IF ended THEN "unlocked" ELSE "no"
<1>2. Outcome(e, killer[e], s, r)
  BY StepOutcome
<1>3. s \in Link /\ s.cost \in Cost /\ s.direct \in BOOLEAN
  BY ReadLink DEF Link
<1>4. killer[e] \in KillerState /\ read \in Ghost
  BY Fields DEF Ghost
<1>5. CASE Effects(e, r) /\ restored' = [restored EXCEPT ![e] = read]
  <2>1. /\ r.killer \in KillerState /\ r.cost \in Cost \cup {"no"}
        /\ r.msgs \in SUBSET Message
    BY <1>2, <1>3, <1>4, OutcomeTypes
  <2>2. Dumped(e, r.killer, r.cost, read, r.msgs)
    BY <1>2, CalledOutcome
  <2> HIDE DEF r, read, s
  <2> QED
    BY <1>1, <1>4, <1>5, <2>1, <2>2 DEF Effects, s
<1>6. CASE /\ e = "client" /\ up[e] /\ r.killer.state = "absent"
           /\ Effects(e, IF n.cost = "no" THEN [n EXCEPT !.cost = r.cost]
                         ELSE n)
           /\ restored' = [restored EXCEPT ![e] =
                IF read = "unlocked" /\ n.cost # "no" THEN "hasty" ELSE read]
  <2> DEFINE c == IF n.cost = "no" THEN r.cost ELSE n.cost
             g == IF read = "unlocked" /\ n.cost # "no" THEN "hasty" ELSE read
  <2>1. \/ n = [killer |-> [state |-> "softLocking", time |-> LockTime,
                            cost |-> s.cost], cost |-> "soft", msgs |-> {}]
        \/ n = [killer |-> [state |-> "new", time |-> LockTime,
                            cost |-> "normal"], cost |-> "no", msgs |-> {}]
    BY DEF NewKiller, Init_Killer, Waits
  <2>2. r.cost \in Cost \cup {"no"}
    BY <1>2, <1>3, <1>4, OutcomeTypes
  <2>3. c \in Cost \cup {"no"} /\ g \in Ghost /\ n.msgs \in SUBSET Message
    BY <1>4, <2>1, <2>2 DEF Cost, Ghost
  <2>4. killer' = [killer EXCEPT ![e] = n.killer]
        /\ sent' = [sent EXCEPT ![e] = c] /\ msgs' = msgs \cup n.msgs
    <3> HIDE DEF r, s, n
    <3> QED
      BY <1>6, <2>1 DEF Effects
  <2>5. Dumped(e, n.killer, c, g, n.msgs) /\ n.killer \in KillerState
    BY <1>2, <1>6, StartedOutcome
  <2> HIDE DEF r, s, n, c, read
  <2> QED
    BY <1>1, <1>6, <2>3, <2>4, <2>5 DEF s
<1> QED
  BY <1>1, <1>5, <1>6

-----------------------------------------------------------------------------
\* The types and EndInv, when the end e takes new values.
LEMMA NewValues ==
  ASSUME TypeOK, \A f \in End : EndInv(f), NEW e \in End,
         NEW k \in KillerState, NEW c \in Cost \cup {"no"}, NEW g \in Ghost,
         NEW l \in Link,
         killer' = [killer EXCEPT ![e] = k],
         sent' = [sent EXCEPT ![e] = c],
         restored' = [restored EXCEPT ![e] = g],
         babeld' = [babeld EXCEPT ![e] = l],
         up' = up, seen' \in Link, msgs' \subseteq Message,
         EndInv(e)'
  PROVE  TypeOK' /\ \A f \in End : EndInv(f)'
<1>1. TypeOK'
  BY DEF TypeOK
<1>2. ASSUME NEW f \in End
      PROVE  EndInv(f)'
  <2>1. CASE f # e
    BY <2>1 DEF TypeOK, EndInv, Idle, Pending
  <2> QED
    BY <2>1
<1> QED
  BY <1>1, <1>2

LEMMA DumpEnd ==
  ASSUME IInv, NEW e \in End, BabelDump(e)
  PROVE  IInv'
<1> DEFINE s == AfterRead(e)
<1>1. PICK k \in KillerState, c \in Cost \cup {"no"}, g \in Ghost,
           M \in SUBSET Message :
           /\ Dumped(e, k, c, g, M)
           /\ killer' = [killer EXCEPT ![e] = k]
           /\ sent' = [sent EXCEPT ![e] = c]
           /\ restored' = [restored EXCEPT ![e] = g]
           /\ msgs' = msgs \cup M
           /\ babeld' = [babeld EXCEPT ![e] = s]
           /\ seen' = IF e = "server" THEN s ELSE seen
           /\ up' = up
  BY DumpOutcome DEF IInv
<1>2. /\ TypeOK /\ EndInv(e) /\ \A f \in End : EndInv(f)
  BY DEF IInv
<1>3. /\ s \in Link /\ s.cost = Pending(e) /\ s.direct \in BOOLEAN
      /\ s.cost \in Cost
      /\ s.direct => s.cost # "hard"
      /\ sent[e] = "no" => s = babeld[e]
  BY <1>2, ReadLink DEF Link
<1>4. /\ killer'[e] = k /\ sent'[e] = c /\ restored'[e] = g /\ babeld'[e] = s
      /\ \A f \in End \ {e} :
           /\ killer'[f] = killer[f] /\ sent'[f] = sent[f]
           /\ restored'[f] = restored[f] /\ babeld'[f] = babeld[f]
  BY <1>1, <1>2 DEF TypeOK
<1>5. /\ killer[e] \in KillerState /\ killer[e].cost \in Cost
      /\ killer[e].state \in {"absent", "new", "softLocking", "hardLocking",
                              "locked", "unlocking"}
      /\ killer[e].time \in 0 .. LockTime
  BY <1>2, Fields DEF KillerState
<1> HIDE DEF s
<1>6. EndInv(e)'
  <2> DEFINE P == IF c = "no" THEN s.cost ELSE c
             I == k.state \in {"absent", "new"}
  <2>0. /\ ~up[e] => killer[e].state \in {"absent", "unlocking"}
        /\ killer[e].cost # "hard"
        /\ killer[e].state \in {"absent", "new"} => s.cost # "hard"
        /\ restored[e] # "hasty" => IF killer[e].state \in {"absent", "new"}
                                    THEN s.cost = "normal"
                                    ELSE killer[e].cost = "normal"
    BY <1>2, <1>3 DEF EndInv, Idle
  <2> SUFFICES /\ ~up[e] => k.state \in {"absent", "unlocking"}
               /\ k.cost # "hard"
               /\ I => P # "hard"
               /\ g # "hasty" => IF I THEN P = "normal" ELSE k.cost = "normal"
    BY <1>1, <1>3, <1>4 DEF EndInv, Idle, Pending
  <2>1. CASE Waiting(e, k, c, g, M)
    BY <2>0, <2>1 DEF Waiting
  <2>2. CASE Beginning(e, k, c, g, M)
    BY <2>0, <2>2 DEF Beginning, Idle
  <2>3. CASE Ending(e, k, c, g, M)
    BY <1>5, <2>0, <2>3 DEF Ending, Idle, Cost
  <2>4. CASE Starting(e, k, c, g, M)
    BY <1>3, <2>0, <2>4 DEF Starting, Idle, s
  <2>5. CASE Forbidding(e, k, c, g, M)
    BY <2>0, <2>5 DEF Forbidding
  <2>6. CASE Locking(e, k, c, g, M)
    BY <2>0, <2>6 DEF Locking
  <2> QED
    BY <1>1, <2>1, <2>2, <2>3, <2>4, <2>5, <2>6 DEF Dumped
<1>7. ASSUME NEW f \in End, killer'[f].state = "locked"
      PROVE  Shut(f)'
  <2>1. CASE f # e
    BY <1>1, <1>4, <1>7, <2>1 DEF IInv, LockInv, Shut
  <2>2. CASE f = e /\ Waiting(e, k, c, g, M)
    <3>1. c = "no" /\ Shut(e)
      BY <1>4, <1>7, <2>2 DEF Waiting, IInv, LockInv
    <3> QED
      BY <1>1, <1>3, <1>4, <2>2, <3>1 DEF Shut
  <2>3. CASE f = e /\ Locking(e, k, c, g, M)
    <3>1. c = "no" /\ Locked(s)
      BY <2>3 DEF Locking, s
    <3> QED
      BY <1>1, <1>4, <2>3, <3>1 DEF Shut, Locked
  <2>4. CASE ~Waiting(e, k, c, g, M) /\ ~Locking(e, k, c, g, M)
    <3>1. k.state # "locked"
      BY <1>1, <2>4 DEF Dumped, Beginning, Ending, Starting, Forbidding
    <3> QED
      BY <1>4, <1>7, <2>1, <3>1
  <2> QED
    BY <2>1, <2>2, <2>3, <2>4
<1>8. ASSUME NEW m \in msgs', m.from = "server"
      PROVE  /\ killer'["server"].time + m.age >= LockTime
             /\ \/ killer'["server"].state = "locked"
                \/ killer'["server"].state = "unlocking" /\ ~up'["server"]
             /\ Shut("server")'
  <2>1. CASE m \in msgs /\ e = "server"
    <3>1. /\ killer[e].time + m.age >= LockTime
          /\ \/ killer[e].state = "locked"
             \/ killer[e].state = "unlocking" /\ ~up[e]
          /\ Shut(e)
      BY <1>8, <2>1 DEF IInv, MsgInv
    <3>2. m.age \in 0 .. MaxAge
      BY <1>2, <2>1 DEF TypeOK, Message
    <3>3. ~Over(killer[e]) /\ ~Idle(e)
      BY <1>5, <3>1, <3>2, LockTimes DEF Over, Idle
    <3>4. Waiting(e, k, c, g, M)
      BY <1>1, <3>1, <3>3
         DEF Dumped, Beginning, Ending, Starting, Forbidding, Locking
    <3>5. k = killer[e] /\ c = "no"
      BY <3>1, <3>4 DEF Waiting
    <3> QED
      BY <1>1, <1>3, <1>4, <2>1, <3>1, <3>5 DEF Shut
  <2>2. CASE m \in msgs /\ e # "server"
    BY <1>1, <1>4, <1>8, <2>2, Ends DEF IInv, MsgInv, Shut
  <2>3. CASE m \notin msgs
    <3>1. m \in M
      BY <1>1, <1>8, <2>3
    <3>2. Locking(e, k, c, g, M)
      BY <1>1, <3>1
         DEF Dumped, Waiting, Beginning, Ending, Starting, Forbidding
    <3>3. m = [from |-> e, age |-> 0] /\ e = "server"
      BY <1>8, <3>1, <3>2 DEF Locking
    <3>4. killer'[e].state = "locked" /\ killer'[e].time = LockTime
      BY <1>4, <3>2 DEF Locking
    <3> QED
      BY <1>7, <3>3, <3>4, LockTimes
  <2> QED
    BY <2>1, <2>2, <2>3
<1>9. SeenInv'
  <2>1. CASE e # "server"
    BY <1>1, <1>4, <2>1, Ends DEF IInv, SeenInv, Idle
  <2>2. CASE e = "server"
    <3>1. seen' = s
      BY <1>1, <2>2
    <3>2. ASSUME k.state \in {"absent", "new"}, g = "no"
          PROVE  s.cost = "normal"
      <4>1. CASE Waiting(e, k, c, g, M)
        BY <1>2, <1>3, <3>2, <4>1 DEF Waiting, EndInv, Idle
      <4>2. CASE Beginning(e, k, c, g, M)
        BY <1>2, <1>3, <3>2, <4>2 DEF Beginning, EndInv, Idle
      <4> QED
        BY <1>1, <3>2, <4>1, <4>2
           DEF Dumped, Ending, Starting, Forbidding, Locking
    <3> QED
      BY <1>3, <1>4, <2>2, <3>1, <3>2 DEF SeenInv, Idle
  <2> QED
    BY <2>1, <2>2
<1>10. TypeOK' /\ \A f \in End : EndInv(f)'
  <2>1. seen' \in Link /\ msgs' \subseteq Message
    BY <1>1, <1>2, <1>3 DEF TypeOK
  <2> QED
    BY <1>1, <1>2, <1>3, <1>6, <2>1, NewValues
<1> QED
  BY <1>7, <1>8, <1>9, <1>10 DEF IInv, LockInv, MsgInv

-----------------------------------------------------------------------------
LEMMA RequestInv ==
  ASSUME IInv, NEW m \in msgs, KillRequest(m)
  PROVE  IInv'
<1> DEFINE r == NewKiller(seen)
<1>1. /\ TypeOK /\ \A f \in End : EndInv(f)
      /\ msgs' = msgs \ {m} /\ up' = up /\ babeld' = babeld /\ seen' = seen
  BY DEF IInv, KillRequest
<1>2. CASE ~(killer["server"].state = "absent" /\ up["server"])
  <2>1. killer' = killer /\ sent' = sent /\ restored' = restored
    BY <1>2 DEF KillRequest
  <2> QED
    BY <1>1, <2>1 DEF IInv, TypeOK, EndInv, Idle, Pending, LockInv, MsgInv,
                      Shut, SeenInv
<1>3. CASE killer["server"].state = "absent" /\ up["server"]
  <2> DEFINE e == "server"
             c == IF r.cost = "no" THEN sent[e] ELSE r.cost
             g == IF r.cost = "no" THEN restored[e]
                  ELSE IF restored[e] = "no" THEN "no" ELSE "hasty"
  <2>1. /\ seen \in Link /\ seen.direct \in BOOLEAN /\ seen.cost \in Cost
        /\ seen.direct => seen.cost # "hard"
        /\ restored[e] = "no" => seen.cost = "normal"
    BY <1>3 DEF IInv, TypeOK, Link, SeenInv, Idle
  <2>2. \/ /\ seen.direct /\ c = "soft" /\ g \in {"no", "hasty"}
           /\ r.killer = [state |-> "softLocking", time |-> LockTime,
                          cost |-> seen.cost]
           /\ g = "no" => restored[e] = "no"
        \/ /\ ~seen.direct /\ c = sent[e] /\ g = restored[e]
           /\ r.killer = [state |-> "new", time |-> LockTime,
                          cost |-> "normal"]
    BY <2>1 DEF NewKiller, Init_Killer, Waits
  <2>3. r.killer \in KillerState /\ c \in Cost \cup {"no"} /\ g \in Ghost
    BY <1>1, <2>1, <2>2, LockTimes, Fields, Ends DEF KillerState, Cost, Ghost
  <2>4. /\ killer' = [killer EXCEPT ![e] = r.killer]
        /\ sent' = [sent EXCEPT ![e] = c]
        /\ restored' = [restored EXCEPT ![e] = g]
        /\ babeld' = [babeld EXCEPT ![e] = babeld[e]]
    BY <1>1, <1>3, Ends DEF KillRequest, TypeOK
  <2>5. /\ killer'[e] = r.killer /\ sent'[e] = c /\ restored'[e] = g
        /\ \A f \in End \ {e} : killer'[f] = killer[f] /\ sent'[f] = sent[f]
    BY <1>1, <2>4, Ends DEF TypeOK
  <2> HIDE DEF r, c, g
  <2>6. EndInv(e)'
    BY <1>1, <1>3, <2>1, <2>2, <2>5, Ends DEF EndInv, Idle, Pending
  <2>7. TypeOK' /\ \A f \in End : EndInv(f)'
    <3>1. babeld[e] \in Link /\ seen' \in Link /\ msgs' \subseteq Message
      BY <1>1, Fields, Ends DEF TypeOK
    <3> QED
      BY <1>1, <2>3, <2>4, <2>6, <3>1, Ends, NewValues
  <2>8. LockInv'
    BY <1>1, <2>2, <2>5 DEF IInv, LockInv, Shut
  <2>9. MsgInv'
    BY <1>1, <1>3 DEF IInv, MsgInv
  <2>10. SeenInv'
    BY <1>1, <1>3, <2>1, <2>2, <2>5 DEF SeenInv, Idle
  <2> QED
    BY <2>7, <2>8, <2>9, <2>10 DEF IInv
<1> QED
  BY <1>2, <1>3

\* The end of the tunnel at the end e, maybe with the message that asked for it.
LEMMA CloseInv ==
  ASSUME IInv, NEW e \in End, Close(e), msgs' \subseteq msgs,
         UNCHANGED <<sent, babeld, seen, restored>>
  PROVE  IInv'
<1> DEFINE k == Abort(killer[e])
<1>1. TypeOK /\ (\A f \in End : EndInv(f)) /\ up[e]
  BY DEF IInv, Close
<1>2. /\ killer[e] \in KillerState /\ killer[e].cost \in Cost
      /\ killer[e].state \in {"absent", "new", "softLocking", "hardLocking",
                              "locked", "unlocking"}
  BY <1>1, Fields DEF KillerState
<1>3. \/ Idle(e) /\ k = NoKiller
      \/ killer[e].state = "unlocking" /\ k = killer[e]
      \/ /\ ~Idle(e) /\ k.state = "unlocking" /\ k.time = LockTime
         /\ k.cost = killer[e].cost /\ k \in KillerState
  <2>1. LockTime \in 0 .. LockTime
    BY LockTimes
  <2>2. CASE ~Idle(e) /\ killer[e].state # "unlocking"
    <3>1. k = [killer[e] EXCEPT !.state = "unlocking", !.time = LockTime]
      BY <1>2, <2>2 DEF Abort, Idle
    <3> QED
      BY <1>2, <2>1, <2>2, <3>1 DEF KillerState
  <2>3. CASE killer[e].state = "unlocking"
    BY <2>3 DEF Abort
  <2> QED
    BY <2>2, <2>3 DEF Abort, Idle
<1>4. k \in KillerState
  <2>1. NoKiller \in KillerState
    BY LockTimes DEF NoKiller, KillerState, Cost
  <2> QED
    BY <1>2, <1>3, <2>1
<1> HIDE DEF k
<1>5. /\ killer' = [killer EXCEPT ![e] = k] /\ killer'[e] = k
      /\ up' = [up EXCEPT ![e] = FALSE] /\ up'[e] = FALSE
      /\ \A f \in End \ {e} : killer'[f] = killer[f] /\ up'[f] = up[f]
      /\ sent' = sent /\ babeld' = babeld /\ seen' = seen
      /\ restored' = restored
  BY <1>1 DEF Close, TypeOK, k
<1>6. TypeOK'
  BY <1>1, <1>4, <1>5 DEF TypeOK
<1>7. ASSUME NEW f \in End
      PROVE  EndInv(f)'
  <2>1. CASE f # e
    BY <1>1, <1>5, <2>1 DEF EndInv, Idle, Pending
  <2>2. CASE f = e
    BY <1>1, <1>3, <1>5, <2>2 DEF EndInv, Idle, Pending, NoKiller
  <2> QED
    BY <2>1, <2>2
<1>8. \A f \in End : Shut(f) => Shut(f)'
  BY <1>5 DEF Shut
<1>9. LockInv'
  BY <1>3, <1>5, <1>8 DEF IInv, LockInv, NoKiller
<1>10. ASSUME NEW m \in msgs', m.from = "server"
       PROVE  /\ killer'["server"].time + m.age >= LockTime
              /\ \/ killer'["server"].state = "locked"
                 \/ killer'["server"].state = "unlocking" /\ ~up'["server"]
              /\ Shut("server")'
  <2>1. /\ killer["server"].time + m.age >= LockTime
        /\ killer["server"].state \in {"locked", "unlocking"}
        /\ killer["server"].state = "unlocking" => ~up["server"]
        /\ Shut("server")
    BY <1>10 DEF IInv, MsgInv
  <2>2. CASE e # "server"
    BY <1>5, <1>8, <2>1, <2>2, Ends
  <2>3. CASE e = "server"
    <3>1. m.age \in Nat
      BY <1>1, <1>10, LockTimes DEF TypeOK, Message
    <3>2. k.state = "unlocking" /\ k.time = LockTime
      BY <1>1, <1>3, <2>1, <2>3 DEF Idle
    <3> QED
      BY <1>5, <1>8, <2>1, <2>3, <3>1, <3>2, LockTimes
  <2> QED
    BY <2>2, <2>3
<1>11. SeenInv'
  BY <1>3, <1>5, Ends DEF IInv, SeenInv, Idle, NoKiller
<1> QED
  BY <1>6, <1>7, <1>9, <1>10, <1>11 DEF IInv, MsgInv

LEMMA ResponseInv ==
  ASSUME IInv, NEW m \in msgs, KillResponse(m)
  PROVE  IInv'
<1>1. msgs' = msgs \ {m} /\ UNCHANGED <<sent, babeld, seen, restored>>
  BY DEF KillResponse
<1>2. CASE killer["client"].state = "locked"
  BY <1>1, <1>2, CloseInv, Ends DEF KillResponse
<1>3. CASE killer["client"].state # "locked"
  BY <1>1, <1>3 DEF KillResponse, IInv, TypeOK, EndInv, Idle, Pending,
                    LockInv, MsgInv, Shut, SeenInv
<1> QED
  BY <1>2, <1>3

LEMMA ConnectInv ==
  ASSUME IInv, Connect
  PROVE  IInv'
<1>1. /\ \A e \in End : ~up[e] /\ up'[e] = TRUE
      /\ up' = [e \in End |-> TRUE] /\ msgs' = {}
      /\ UNCHANGED <<killer, sent, babeld, seen, restored>>
  BY DEF Connect
<1>2. \A e \in End : killer[e].state # "locked"
  BY <1>1 DEF IInv, EndInv
<1>3. TypeOK'
  BY <1>1 DEF IInv, TypeOK
<1>4. \A e \in End : EndInv(e)'
  BY <1>1 DEF IInv, EndInv, Idle, Pending
<1> QED
  BY <1>1, <1>2, <1>3, <1>4 DEF IInv, LockInv, MsgInv, SeenInv, Idle

\* babeld takes or leaves the link.
LEMMA RerouteInv ==
  ASSUME IInv, NEW e \in End, Reroute(e)
  PROVE  IInv'
<1>1. TypeOK /\ (\A f \in End : EndInv(f))
  BY DEF IInv
<1>2. /\ babeld[e].cost \in Cost /\ babeld[e].direct \in BOOLEAN
      /\ babeld[e] \in Link
  BY <1>1, Fields
<1>3. /\ babeld'[e].cost = babeld[e].cost
      /\ babeld'[e].direct = ~babeld[e].direct
      /\ babeld'[e] \in Link
      /\ \A f \in End \ {e} : babeld'[f] = babeld[f]
      /\ babeld' \in [End -> Link]
  BY <1>1, <1>2 DEF Reroute, TypeOK, Link
<1>4. UNCHANGED <<up, killer, sent, seen, msgs, restored>>
  BY DEF Reroute
<1>5. babeld[e].direct \/ (babeld[e].cost # "hard" /\ \A f \in End : up[f])
  BY DEF Reroute
<1>6. \A f \in End : Shut(f) => Shut(f)'
  BY <1>2, <1>3, <1>4, <1>5 DEF Shut
<1>7. TypeOK'
  BY <1>1, <1>3, <1>4 DEF TypeOK
<1>8. ASSUME NEW f \in End
      PROVE  EndInv(f)'
  BY <1>1, <1>2, <1>3, <1>4, <1>5 DEF EndInv, Idle, Pending
<1> QED
  BY <1>4, <1>6, <1>7, <1>8, Ends
     DEF IInv, LockInv, MsgInv, SeenInv, Idle

\* babeld forgets the link.
LEMMA ForgetInv ==
  ASSUME IInv, NEW e \in End, Forget(e)
  PROVE  IInv'
<1>1. TypeOK /\ (\A f \in End : EndInv(f))
  BY DEF IInv
<1>2. /\ babeld'[e] = Fresh
      /\ \A f \in End \ {e} : babeld'[f] = babeld[f]
      /\ babeld' \in [End -> Link]
  BY <1>1 DEF Forget, TypeOK, Link, Fresh, Cost
<1>3. UNCHANGED <<up, killer, sent, seen, msgs, restored>>
  BY DEF Forget
<1>4. \A f \in End : Shut(f) => Shut(f)'
  BY <1>2, <1>3 DEF Shut, Forget, Fresh
<1>5. TypeOK'
  BY <1>1, <1>2, <1>3 DEF TypeOK
<1>6. ASSUME NEW f \in End
      PROVE  EndInv(f)'
  BY <1>1, <1>2, <1>3 DEF EndInv, Idle, Pending, Fresh
<1> QED
  BY <1>3, <1>4, <1>5, <1>6, Ends
     DEF IInv, LockInv, MsgInv, SeenInv, Idle

\* A lock loses a tick when the datagrams grow older by one.
LEMMA TickInv ==
  ASSUME IInv, Tick
  PROVE  IInv'
<1>1. TypeOK /\ (\A e \in End : EndInv(e))
  BY DEF IInv
<1>2. UNCHANGED <<up, sent, babeld, seen, restored>>
  BY DEF Tick
<1>3. ASSUME NEW e \in End
      PROVE  /\ killer'[e].state = killer[e].state
             /\ killer'[e].cost = killer[e].cost
             /\ killer'[e].time = IF killer[e].time = 0 THEN 0
                                  ELSE killer[e].time - 1
             /\ killer'[e] \in KillerState
             /\ killer[e].time \in 0 .. LockTime
  <2>1. killer[e] \in KillerState /\ killer[e].time \in 0 .. LockTime
    BY <1>1, Fields
  <2>2. (IF killer[e].time = 0 THEN 0 ELSE killer[e].time - 1) \in 0 .. LockTime
    BY <2>1, LockTimes
  <2>3. killer'[e] = [killer[e] EXCEPT !.time = IF @ = 0 THEN 0 ELSE @ - 1]
    BY DEF Tick
  <2> QED
    BY <2>1, <2>2, <2>3 DEF KillerState
<1>4. ASSUME NEW n \in msgs'
      PROVE  \E m \in msgs : /\ n.from = m.from /\ n.age = m.age + 1
                             /\ n \in Message
  <2>1. PICK m \in msgs : m.age < MaxAge /\ n = [m EXCEPT !.age = @ + 1]
    BY DEF Tick
  <2>2. m \in Message /\ m.age \in 0 .. MaxAge
    BY <1>1 DEF TypeOK, Message
  <2>3. m.age + 1 \in 0 .. MaxAge
    BY <2>1, <2>2, LockTimes
  <2>4. n.from = m.from /\ n.age = m.age + 1 /\ n \in Message
    BY <2>1, <2>2, <2>3 DEF Message
  <2> QED
    BY <2>4
<1>5. TypeOK'
  <2>1. killer' \in [End -> KillerState]
    BY <1>3 DEF Tick
  <2> QED
    BY <1>1, <1>2, <1>4, <2>1 DEF TypeOK
<1>6. \A e \in End : EndInv(e)'
  BY <1>1, <1>2, <1>3 DEF EndInv, Idle, Pending
<1>7. \A e \in End : Shut(e) => Shut(e)'
  BY <1>2 DEF Shut
<1>8. LockInv'
  BY <1>3, <1>7 DEF IInv, LockInv
<1>9. ASSUME NEW n \in msgs', n.from = "server"
      PROVE  /\ killer'["server"].time + n.age >= LockTime
             /\ \/ killer'["server"].state = "locked"
                \/ killer'["server"].state = "unlocking" /\ ~up'["server"]
             /\ Shut("server")'
  <2>1. PICK m \in msgs : n.from = m.from /\ n.age = m.age + 1
    BY <1>4
  <2>2. /\ killer["server"].time + m.age >= LockTime
        /\ \/ killer["server"].state = "locked"
           \/ killer["server"].state = "unlocking" /\ ~up["server"]
        /\ Shut("server")
    BY <1>9, <2>1 DEF IInv, MsgInv
  <2>3. killer["server"].time # 0
    BY <2>2, Ends DEF Tick, Over
  <2>4. m.age \in 0 .. MaxAge
    BY <1>1 DEF TypeOK, Message
  <2>5. killer'["server"].time + n.age >= LockTime
    BY <1>3, <2>1, <2>2, <2>3, <2>4, Ends, LockTimes
  <2> QED
    BY <1>2, <1>3, <1>7, <2>2, <2>5, Ends
<1>10. SeenInv'
  BY <1>2, <1>3, Ends DEF IInv, SeenInv, Idle
<1> QED
  BY <1>5, <1>6, <1>8, <1>9, <1>10 DEF IInv, MsgInv

LEMMA SameInv ==
  ASSUME IInv, UNCHANGED <<up, killer, sent, babeld, seen, restored>>,
         msgs' \subseteq msgs
  PROVE  IInv'
BY DEF IInv, TypeOK, EndInv, Idle, Pending, LockInv, MsgInv, Shut, SeenInv

LEMMA InvInit == Init => IInv
<1> SUFFICES ASSUME Init PROVE IInv
  OBVIOUS
<1>1. TypeOK
  BY LockTimes DEF Init, TypeOK, NoKiller, KillerState, Fresh, Link, Cost, Ghost
<1>2. \A e \in End : EndInv(e)
  BY DEF Init, EndInv, Idle, Pending, NoKiller, Fresh
<1>3. LockInv /\ MsgInv /\ SeenInv
  BY DEF Init, LockInv, MsgInv, SeenInv, NoKiller, Fresh
<1> QED
  BY <1>1, <1>2, <1>3 DEF IInv

LEMMA InvStep == IInv /\ [Next]_vars => IInv'
<1> SUFFICES ASSUME IInv, [Next]_vars PROVE IInv'
  OBVIOUS
<1>1. ASSUME NEW e \in End, BabelDump(e)
      PROVE  IInv'
  BY <1>1, DumpEnd
<1>2. ASSUME NEW e \in End, Fail(e)
      PROVE  IInv'
  BY <1>2, CloseInv DEF Fail
<1>3. ASSUME NEW m \in msgs, Lose(m)
      PROVE  IInv'
  BY <1>3, SameInv DEF Lose
<1>4. CASE UNCHANGED vars
  BY <1>4, SameInv DEF vars
<1> QED
  BY <1>1, <1>2, <1>3, <1>4, ConnectInv, TickInv, RerouteInv, ForgetInv,
     RequestInv, ResponseInv DEF Next

-----------------------------------------------------------------------------
\* Whatever ends a killer, its link is given back a cost that babeld can use,
\* the one it had unless the killer was started too early: for locks and delays
\* of any length, provided that a lock is longer.
THEOREM CostsRestored == Spec => []SafeCosts
<1>1. IInv => SafeCosts
  BY DEF IInv, EndInv, Idle, Pending, SafeCosts, LinkUsable, CostRestored
<1> QED
  BY <1>1, InvInit, InvStep, PTL DEF Spec

\* No killer ever cuts a tunnel that one of its ends uses, or may use as soon as
\* babeld reads what it was sent.
THEOREM NeverCutsTraffic == Spec => NoTrafficCut
<1>1. ASSUME IInv, NEW m \in msgs, KillResponse(m), up["client"],
             ~up'["client"]
      PROVE  \A e \in End : ~babeld[e].direct /\ sent[e] = "no"
  <2>1. killer["client"].state = "locked" /\ m.from = "server"
    BY <1>1 DEF KillResponse
  <2>2. Shut("client") /\ Shut("server")
    BY <1>1, <2>1, Ends DEF IInv, LockInv, MsgInv
  <2> QED
    BY <2>2 DEF Shut, End
<1>2. IInv /\ [Next]_vars =>
        [\A m \in msgs : KillResponse(m) /\ up["client"] /\ ~up'["client"]
           => \A e \in End : ~babeld[e].direct /\ sent[e] = "no"]_vars
  BY <1>1
<1> QED
  BY <1>2, InvInit, InvStep, PTL DEF Spec, NoTrafficCut
=============================================================================
