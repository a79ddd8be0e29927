----------------------------- MODULE PrefixTree -----------------------------
(***************************************************************************)
(* The prefixes of the network, in the table "cert" of the registry:       *)
(* newPrefix and mergePrefixes.                                            *)
(*                                                                         *)
(* The rows of the table are the leaves of a binary tree.  A prefix is     *)
(* allocated by splitting the longest free one that is not too long, and   *)
(* the free halves of a prefix are merged again by onTimeout.              *)
(*                                                                         *)
(* self.lock is held for the whole of a request, so requests are not       *)
(* interleaved.  But the database is in autocommit mode: what a request    *)
(* did stays in the table if it is interrupted (the process ends, a        *)
(* statement fails) between two statements.  onTimeout is the exception:   *)
(* it opens a transaction.                                                 *)
(***************************************************************************)
EXTENDS Naturals, SequencesExt

CONSTANTS
  MaxLen,         \* bits of an address after the prefix of the network
  Community,      \* prefixes that group nodes by location
  Length          \* bits of prefixes that are requested, after the community

Bit == {0, 1}
Prefix == UNION {[1 .. n -> Bit] : n \in 0 .. MaxLen}
Address == [1 .. MaxLen -> Bit]

\* Communities do not overlap (RegistryServer.__init__).
ASSUME Sizes == MaxLen \in Nat \ {0}
ASSUME Communities ==
  /\ Community \subseteq Prefix
  /\ \A c, d \in Community : IsPrefix(c, d) => c = d
ASSUME Lengths ==
  /\ Length \subseteq Nat \ {0}
  /\ \A c \in Community, l \in Length : Len(c) + l <= MaxLen

VARIABLES
  rows,    \* the table, as the process sees it: status of each prefix
  disk,    \* the table, as it is committed
  step,    \* the statement to execute next, "idle" between requests
  req,     \* the request: [community, len]
  at,      \* newPrefix: prefix, <<>> unless it is being split
  level,   \* mergePrefixes: the length of prefixes to merge next
  lost     \* history: the halves that an interruption left out of the table

vars == <<rows, disk, step, req, at, level, lost>>

\* "none": no such row.  "free": cert is null.  "used": it has a certificate.
Status == {"none", "free", "reserved", "used"}

Having(t, status) == {p \in Prefix : t[p] = status}
Rows(t) == {p \in Prefix : t[p] # "none"}

\* prefix + '0', prefix + '1'
Child(p, b) == Append(p, b)

Sibling(p) == [p EXCEPT ![Len(p)] = 1 - @]

Longest(S) == {p \in S : \A q \in S : Len(q) <= Len(p)}

\* A statement that is committed at once.
Execute(t) == rows' = t /\ disk' = t

-----------------------------------------------------------------------------
Init ==
  /\ rows = [p \in Prefix |-> IF p = <<>> THEN "free" ELSE "none"]
  /\ disk = rows
  /\ step = "idle"
  /\ req \in [community : Community, len : Length]
  /\ at = <<>>
  /\ level = 0
  /\ lost = {}

\* newPrefix is called.
Request(c, l) ==
  /\ step = "idle"
  /\ step' = "select"
  /\ req' = [community |-> c, len |-> Len(c) + l]
  /\ UNCHANGED <<rows, disk, at, level, lost>>

\* The free prefixes of the community, unless too long, and the rows that
\* contain the community.
Within == {p \in Having(rows, "free") :
             IsPrefix(req.community, p) /\ Len(p) <= req.len}
Around == {p \in Rows(rows) : IsPrefix(p, req.community)}

Select == IF Within # {} THEN Longest(Within)
          ELSE {p \in Around : rows[p] = "free"}

SelectPrefix ==
  /\ step = "select"
  /\ \E p \in Select : at' = p
  /\ step' = "split"
  /\ UNCHANGED <<rows, disk, req, level, lost>>

\* No more free prefix (or no row at all): the request fails.
Refuse ==
  /\ step = "select"
  /\ Within = {}
  /\ Around = {} \/ \E p \in Around : rows[p] # "free"
  /\ step' = "idle"
  /\ UNCHANGED <<rows, disk, req, at, level, lost>>

\* The next bit of the prefix: the one of the community, then 0.
NextBit == IF Len(at) < Len(req.community) THEN req.community[Len(at) + 1]
           ELSE 0

\* The loop that splits the prefix.  First the row is changed to be the other
\* half,
Split_KeepWhole(t, p, b) ==
  [t EXCEPT ![Child(p, 1 - b)] = "free"]
Split(t, p, b) ==
  [t EXCEPT ![p] = "none", ![Child(p, 1 - b)] = "free"]

TooShort == Len(at) < req.len

UpdateHalf ==
  /\ step = "split"
  /\ TooShort
  /\ Execute(Split(rows, at, NextBit))
  /\ step' = "insert"
  /\ UNCHANGED <<req, at, level, lost>>

\* then the half to continue with is inserted.
InsertHalf ==
  /\ step = "insert"
  /\ Execute([rows EXCEPT ![Child(at, NextBit)] = "free"])
  /\ at' = Child(at, NextBit)
  /\ step' = "split"
  /\ UNCHANGED <<req, level, lost>>

\* The address made only of zeros after the community is not for nodes.
Reserved(p) ==
  Len(p) = MaxLen /\ \A i \in Len(req.community) + 1 .. Len(p) : p[i] = 0

Reserve_Forget(p) == rows
ReserveRow(p) == [rows EXCEPT ![p] = "reserved"]

Reserve ==
  /\ step = "split"
  /\ ~ TooShort
  /\ Reserved(at)
  /\ Execute(ReserveRow(at))
  /\ step' = "select"
  /\ at' = <<>>
  /\ UNCHANGED <<req, level, lost>>

\* newPrefix returns, and createCertificate uses the prefix.
Use ==
  /\ step = "split"
  /\ ~ TooShort
  /\ ~ Reserved(at)
  /\ Execute([rows EXCEPT ![at] = "used"])
  /\ step' = "idle"
  /\ at' = <<>>
  /\ UNCHANGED <<req, level, lost>>

\* revoke: the row becomes free; it is only merged by the next onTimeout.
Revoke(p) ==
  /\ step = "idle"
  /\ rows[p] = "used"
  /\ Execute([rows EXCEPT ![p] = "free"])
  /\ UNCHANGED <<step, req, at, level, lost>>

\* onTimeout: free the prefixes that are expired for long, then mergePrefixes,
\* all in a transaction.
Timeout(E) ==
  /\ step = "idle"
  /\ rows' = [p \in Prefix |-> IF p \in E THEN "free" ELSE rows[p]]
  /\ step' = "merge"
  /\ level' = MaxLen
  /\ UNCHANGED <<disk, req, at, lost>>

\* One iteration of its loop: two consecutive prefixes of the same length that
\* only differ by their last bit are replaced by their parent.
Mergeable_Any(t, n) ==
  {p \in Having(t, "free") : Len(p) = n /\ Sibling(p) \in Rows(t)}
Mergeable(t, n) ==
  {p \in Having(t, "free") : Len(p) = n /\ Sibling(p) \in Having(t, "free")}

Merge(t, n) ==
  LET M == Mergeable(t, n) IN
  [p \in Prefix |-> IF p \in M THEN "none"
                    ELSE IF Len(p) = n - 1 /\ Child(p, 0) \in M THEN "free"
                    ELSE t[p]]

\* Lengths are considered in decreasing order.
NextLevel_Once(n) == 0
NextLevel(n) == n - 1

MergeLevel ==
  /\ step = "merge"
  /\ level # 0
  /\ rows' = Merge(rows, level)
  /\ level' = NextLevel(level)
  /\ UNCHANGED <<disk, step, req, at, lost>>

Commit ==
  /\ step = "merge"
  /\ level = 0
  /\ disk' = rows
  /\ step' = "idle"
  /\ UNCHANGED <<rows, req, at, level, lost>>

\* The request is interrupted: a transaction is rolled back, but the first half
\* of a split is in the table and the other one never will.
Crash ==
  /\ step # "idle"
  /\ lost' = IF step = "insert" THEN lost \cup {Child(at, NextBit)} ELSE lost
  /\ rows' = disk
  /\ step' = "idle"
  /\ at' = <<>>
  /\ level' = 0
  /\ UNCHANGED <<disk, req>>

Proceed == \/ SelectPrefix \/ Refuse \/ UpdateHalf \/ InsertHalf
           \/ Reserve \/ Use \/ MergeLevel \/ Commit

Next ==
  \/ \E c \in Community, l \in Length : Request(c, l)
  \/ \E p \in Prefix : Revoke(p)
  \/ \E E \in SUBSET Having(rows, "used") : Timeout(E)
  \/ Proceed
  \/ Crash

Spec == Init /\ [][Next]_vars

\* A thread that handles a request is not suspended for ever.
FairSpec == Spec /\ WF_vars(Proceed)

-----------------------------------------------------------------------------
TypeOK ==
  /\ rows \in [Prefix -> Status]
  /\ disk \in [Prefix -> Status]
  /\ step \in {"idle", "select", "split", "insert", "merge"}
  /\ req \in [community : Community, len : 1 .. MaxLen]
  /\ at \in Prefix
  /\ level \in 0 .. MaxLen
  /\ lost \subseteq Prefix

\* No address is covered by two rows, whatever is interrupted: the subnets of
\* two nodes never overlap.
NoOverlap ==
  \A p, q \in Rows(disk) : IsPrefix(p, q) => p = q

\* No address is lost but the halves of the splits that were interrupted: after
\* any sequence of allocations, expirations, merges and interruptions, each
\* other one belongs to a row, except while a split goes on ("There should be
\* exactly 1 row whose prefix is the beginning of community" needs it).
Complete ==
  step # "insert" =>
    \A a \in Address : \E p \in Rows(disk) \cup lost : IsPrefix(p, a)

\* The rows are a partition of the address space, whatever is interrupted, but
\* for the halves that are known to be lost.
Partition == TypeOK /\ NoOverlap /\ Complete

\* When onTimeout ends, no block is left in free pieces: a single pass by
\* decreasing length is enough.
MergeComplete ==
  [][Commit => \A n \in 1 .. MaxLen : Mergeable(rows', n) = {}]_vars

\* newPrefix ends: although it starts again after each prefix it reserves, it
\* either finds a prefix or fails.
Terminates == step = "select" ~> step = "idle"

\* The table implements the pool of prefixes promised to nodes.
Pool == INSTANCE PrefixPool WITH used <- Having(disk, "used")
PoolSpec == Pool!Spec
=============================================================================
