-------------------------- MODULE PrefixTreeProofs --------------------------
(***************************************************************************)
(* Proofs about PrefixTree, for any network, communities and lengths.      *)
(***************************************************************************)
EXTENDS PrefixTree, SequenceTheorems, TLAPS

-----------------------------------------------------------------------------
(***************************************************************************)
(* Prefixes.                                                               *)
(***************************************************************************)

\* A prefix is a sequence of at most MaxLen bits.
LEMMA PrefixSeq ==
  \A p \in Prefix : /\ p \in Seq(Bit)
                    /\ Len(p) \in 0 .. MaxLen
                    /\ DOMAIN p = 1 .. Len(p)
                    /\ \A i \in 1 .. Len(p) : p[i] \in Bit
BY Sizes DEF Prefix, Bit

\* IsPrefix, bit by bit.
LEMMA PrefixPointwise ==
  ASSUME NEW p \in Prefix, NEW q \in Prefix
  PROVE  IsPrefix(p, q) <=> /\ Len(p) <= Len(q)
                            /\ \A i \in 1 .. Len(p) : p[i] = q[i]
BY DEF IsPrefix, Prefix, Bit

\* A prefix is determined by its length and its bits.
LEMMA PrefixEqual ==
  ASSUME NEW p \in Prefix, NEW q \in Prefix,
         Len(p) = Len(q), \A i \in 1 .. Len(p) : p[i] = q[i]
  PROVE  p = q
BY DEF Prefix, Bit

\* IsPrefix is an order.
LEMMA PrefixOrder ==
  /\ \A p \in Prefix : IsPrefix(p, p)
  /\ \A p, q \in Prefix : IsPrefix(p, q) /\ Len(q) <= Len(p) => p = q
  /\ \A p, q, r \in Prefix : IsPrefix(p, q) /\ IsPrefix(q, r) => IsPrefix(p, r)
<1>1. \A p \in Prefix : IsPrefix(p, p)
  BY PrefixPointwise, PrefixSeq
<1>2. ASSUME NEW p \in Prefix, NEW q \in Prefix, IsPrefix(p, q), Len(q) <= Len(p)
      PROVE  p = q
  BY <1>2, PrefixPointwise, PrefixEqual, PrefixSeq
<1>3. ASSUME NEW p \in Prefix, NEW q \in Prefix, NEW r \in Prefix,
             IsPrefix(p, q), IsPrefix(q, r)
      PROVE  IsPrefix(p, r)
  BY <1>3, PrefixPointwise, PrefixSeq
<1> QED
  BY <1>1, <1>2, <1>3

\* An address is a prefix of the greatest length.
LEMMA AddressPrefix == \A a \in Address : a \in Prefix /\ Len(a) = MaxLen
BY Sizes DEF Address, Prefix, Bit

\* The halves of a prefix.
LEMMA ChildPrefix ==
  ASSUME NEW p \in Prefix, Len(p) < MaxLen, NEW b \in Bit
  PROVE  /\ Child(p, b) \in Prefix
         /\ Len(Child(p, b)) = Len(p) + 1
         /\ \A i \in 1 .. Len(p) : Child(p, b)[i] = p[i]
         /\ Child(p, b)[Len(p) + 1] = b
         /\ IsPrefix(p, Child(p, b))
<1>1. /\ p \in Seq(Bit)
      /\ Len(p) \in Nat /\ Len(p) + 1 \in 0 .. MaxLen
  BY PrefixSeq, Sizes
<1>2. /\ Child(p, b) \in Seq(Bit)
      /\ Len(Child(p, b)) = Len(p) + 1
      /\ \A i \in 1 .. Len(p) : Child(p, b)[i] = p[i]
      /\ Child(p, b)[Len(p) + 1] = b
  BY <1>1, AppendProperties DEF Child
<1>3. Child(p, b) \in [1 .. Len(p) + 1 -> Bit]
  BY <1>2, LenProperties
<1>4. Child(p, b) \in Prefix
  BY <1>1, <1>3 DEF Prefix
<1>5. IsPrefix(p, Child(p, b))
  <2>1. Len(p) <= Len(Child(p, b))
    BY <1>1, <1>2
  <2> QED
    BY <2>1, <1>2, <1>4, PrefixPointwise
<1> QED
  BY <1>2, <1>4, <1>5

\* What a prefix begins, other than itself, is in one of its halves.
LEMMA ChildBegins ==
  ASSUME NEW p \in Prefix, NEW q \in Prefix, IsPrefix(p, q), p # q
  PROVE  /\ Len(p) < Len(q)
         /\ Len(p) < MaxLen
         /\ \E b \in Bit : IsPrefix(Child(p, b), q)
<1>1. Len(p) < Len(q) /\ Len(p) < MaxLen
  <2>1. /\ Len(p) \in Nat /\ Len(q) \in Nat /\ MaxLen \in Nat
        /\ Len(q) <= MaxLen
    BY PrefixSeq, Sizes
  <2>2. ~ (Len(q) <= Len(p))
    BY PrefixOrder
  <2> QED
    BY <2>1, <2>2
<1>2. PICK b \in Bit : b = q[Len(p) + 1]
  <2>1. Len(p) + 1 \in 1 .. Len(q)
    BY <1>1, PrefixSeq
  <2> QED
    BY <2>1, PrefixSeq
<1>3. IsPrefix(Child(p, b), q)
  <2>1. /\ Child(p, b) \in Prefix /\ Len(Child(p, b)) = Len(p) + 1
        /\ \A i \in 1 .. Len(p) : Child(p, b)[i] = p[i]
        /\ Child(p, b)[Len(p) + 1] = b
    BY <1>1, ChildPrefix
  <2>2. \A i \in 1 .. Len(p) : p[i] = q[i]
    BY PrefixPointwise
  <2>3. \A i \in 1 .. Len(p) + 1 : Child(p, b)[i] = q[i]
    BY <2>1, <2>2, <1>2, PrefixSeq
  <2> QED
    BY <2>1, <2>3, <1>1, PrefixPointwise, PrefixSeq
<1> QED
  BY <1>1, <1>3

\* What begins a half begins the whole, or is this half.
LEMMA BeginsChild ==
  ASSUME NEW p \in Prefix, Len(p) < MaxLen, NEW b \in Bit, NEW q \in Prefix,
         IsPrefix(q, Child(p, b)), q # Child(p, b)
  PROVE  IsPrefix(q, p)
<1>1. Len(q) <= Len(p)
  BY ChildPrefix, PrefixOrder, PrefixSeq
<1> QED
  BY <1>1, ChildPrefix, PrefixPointwise, PrefixSeq

\* The two halves of a prefix begin nothing in common.
LEMMA ChildrenApart ==
  ASSUME NEW p \in Prefix, Len(p) < MaxLen, NEW b \in Bit, NEW q \in Prefix,
         IsPrefix(Child(p, b), q)
  PROVE  ~ IsPrefix(Child(p, 1 - b), q)
<1>1. 1 - b \in Bit /\ 1 - b # b
  BY DEF Bit
<1> QED
  BY <1>1, ChildPrefix, PrefixPointwise, PrefixSeq

-----------------------------------------------------------------------------
(***************************************************************************)
(* Tables: what the statements of newPrefix and mergePrefixes preserve.    *)
(***************************************************************************)
Table == [Prefix -> Status]
Disjoint(t) == \A p, q \in Rows(t) : IsPrefix(p, q) => p = q
Covers(t, a) == \E p \in Rows(t) : IsPrefix(p, a)

\* No row overlaps d.
Apart(t, d) == \A q \in Rows(t) : ~ IsPrefix(q, d) /\ ~ IsPrefix(d, q)

\* The first statement of a split leaves a hole, and only there.
LEMMA SplitTable ==
  ASSUME NEW t \in Table, Disjoint(t), NEW p \in Prefix, t[p] = "free",
         Len(p) < MaxLen, NEW b \in Bit
  PROVE  /\ Split(t, p, b) \in Table
         /\ Disjoint(Split(t, p, b))
         /\ Apart(Split(t, p, b), Child(p, b))
         /\ \A a \in Address : Covers(t, a) => \/ Covers(Split(t, p, b), a)
                                             \/ IsPrefix(Child(p, b), a)
         /\ Having(Split(t, p, b), "used") = Having(t, "used")
<1> DEFINE c == Child(p, 1 - b)
           d == Child(p, b)
           u == Split(t, p, b)
<1>1. 1 - b \in Bit /\ 1 - (1 - b) = b
  BY DEF Bit
<1>2. /\ c \in Prefix /\ d \in Prefix
      /\ IsPrefix(p, c) /\ IsPrefix(p, d)
      /\ p # c /\ p # d
  BY <1>1, ChildPrefix, PrefixSeq
<1>3. \A q \in Rows(t) \ {p} : ~ IsPrefix(p, q) /\ ~ IsPrefix(q, p)
  BY DEF Disjoint, Rows
<1>4. u \in Table /\ Rows(u) = (Rows(t) \ {p}) \cup {c}
  BY <1>2 DEF Split, Table, Status, Rows
<1>5. \A q \in Rows(t) \ {p} : ~ IsPrefix(c, q) /\ ~ IsPrefix(d, q)
  BY <1>2, <1>3, PrefixOrder DEF Rows
<1>6. \A q \in Rows(t) \ {p} : ~ IsPrefix(q, c) /\ ~ IsPrefix(q, d)
  <2> SUFFICES ASSUME NEW q \in Rows(t) \ {p}
               PROVE  ~ IsPrefix(q, c) /\ ~ IsPrefix(q, d)
    OBVIOUS
  <2>1. q \in Prefix /\ q # c /\ q # d
    BY <1>2, <1>3 DEF Rows
  <2> QED
    BY <2>1, <1>1, <1>3, BeginsChild
<1>7. ~ IsPrefix(c, d) /\ ~ IsPrefix(d, c)
  BY <1>1, <1>2, ChildrenApart, PrefixOrder
<1>8. Disjoint(u)
  BY <1>4, <1>5, <1>6 DEF Disjoint
<1>9. Apart(u, d)
  BY <1>4, <1>5, <1>6, <1>7 DEF Apart
<1>10. ASSUME NEW a \in Address, Covers(t, a)
       PROVE  Covers(u, a) \/ IsPrefix(d, a)
  <2>1. PICK q \in Rows(t) : IsPrefix(q, a)
    BY <1>10 DEF Covers
  <2>2. CASE q # p
    BY <2>1, <2>2, <1>4 DEF Covers
  <2>3. CASE q = p
    <3>1. p # a /\ a \in Prefix
      BY AddressPrefix
    <3>2. PICK x \in Bit : IsPrefix(Child(p, x), a)
      BY <2>1, <2>3, <3>1, ChildBegins
    <3>3. x = b \/ x = 1 - b
      BY DEF Bit
    <3> QED
      BY <3>2, <3>3, <1>4 DEF Covers
  <2> QED
    BY <2>2, <2>3
<1>11. t[c] = "none"
  BY <1>2, <1>3 DEF Rows
<1>12. Having(u, "used") = Having(t, "used")
  BY <1>2, <1>11 DEF Having, Split, Table
<1> QED
  BY <1>4, <1>8, <1>9, <1>10, <1>12

\* The second one fills the hole.
LEMMA InsertTable ==
  ASSUME NEW t \in Table, Disjoint(t), NEW d \in Prefix, Apart(t, d)
  PROVE  LET u == [t EXCEPT ![d] = "free"] IN
         /\ u \in Table
         /\ Disjoint(u)
         /\ \A a \in Address : Covers(t, a) \/ IsPrefix(d, a) => Covers(u, a)
         /\ Having(u, "used") = Having(t, "used")
<1> DEFINE u == [t EXCEPT ![d] = "free"]
<1>1. t[d] = "none"
  BY PrefixOrder DEF Apart, Rows
<1>2. u \in Table /\ Rows(u) = Rows(t) \cup {d}
  BY DEF Table, Status, Rows
<1>3. Disjoint(u)
  BY <1>2 DEF Disjoint, Apart
<1>4. \A a \in Address : Covers(t, a) \/ IsPrefix(d, a) => Covers(u, a)
  BY <1>2 DEF Covers
<1>5. Having(u, "used") = Having(t, "used")
  BY <1>1 DEF Having, Table
<1> QED
  BY <1>2, <1>3, <1>4, <1>5

\* Only the rows matter, not what they are.
LEMMA SameRows ==
  ASSUME NEW t \in Table, NEW u \in Table, Rows(t) = Rows(u)
  PROVE  /\ Disjoint(t) <=> Disjoint(u)
         /\ \A a : Covers(t, a) <=> Covers(u, a)
BY DEF Disjoint, Covers

\* The sibling of a half is the other half.
LEMMA SiblingChild ==
  ASSUME NEW q \in Prefix, Len(q) < MaxLen, NEW b \in Bit
  PROVE  Sibling(Child(q, b)) = Child(q, 1 - b)
<1> DEFINE c == Child(q, b)
           d == Child(q, 1 - b)
           s == Sibling(c)
<1>1. Len(q) \in Nat /\ 1 - b \in Bit
  BY PrefixSeq DEF Bit
<1>2. /\ c \in Prefix /\ Len(c) = Len(q) + 1
      /\ \A i \in 1 .. Len(q) : c[i] = q[i]
      /\ c[Len(q) + 1] = b
  BY ChildPrefix
<1>3. /\ d \in Prefix /\ Len(d) = Len(q) + 1
      /\ \A i \in 1 .. Len(q) : d[i] = q[i]
      /\ d[Len(q) + 1] = 1 - b
  BY <1>1, ChildPrefix
<1>4. c \in [1 .. Len(q) + 1 -> Bit] /\ d \in [1 .. Len(q) + 1 -> Bit]
  BY <1>2, <1>3, PrefixSeq, LenProperties
<1>5. s = [i \in 1 .. Len(q) + 1 |-> IF i = Len(q) + 1 THEN 1 - b ELSE c[i]]
  BY <1>1, <1>2, <1>4 DEF Sibling
<1>6. \A i \in 1 .. Len(q) + 1 : s[i] = d[i]
  BY <1>1, <1>2, <1>3, <1>5
<1> QED
  BY <1>4, <1>5, <1>6

\* Every prefix but the empty one is a half.
LEMMA ParentPrefix ==
  ASSUME NEW p \in Prefix, Len(p) # 0
  PROVE  \E q \in Prefix, b \in Bit : Len(q) = Len(p) - 1 /\ p = Child(q, b)
<1> DEFINE n == Len(p) - 1
           q == [i \in 1 .. n |-> p[i]]
<1>1. /\ n \in 0 .. MaxLen /\ n < MaxLen /\ n + 1 = Len(p)
      /\ p[n + 1] \in Bit
      /\ \A i \in 1 .. n : p[i] \in Bit
  BY PrefixSeq, Sizes
<1>2. q \in [1 .. n -> Bit]
  BY <1>1
<1>3. q \in Prefix /\ Len(q) = n
  BY <1>1, <1>2 DEF Prefix
<1>4. /\ Child(q, p[n + 1]) \in Prefix
      /\ Len(Child(q, p[n + 1])) = n + 1
      /\ \A i \in 1 .. n : Child(q, p[n + 1])[i] = q[i]
      /\ Child(q, p[n + 1])[n + 1] = p[n + 1]
  BY <1>1, <1>3, ChildPrefix
<1>5. \A i \in 1 .. n + 1 : Child(q, p[n + 1])[i] = p[i]
  BY <1>1, <1>4
<1>6. p = Child(q, p[n + 1])
  BY <1>1, <1>4, <1>5, PrefixEqual
<1> QED
  BY <1>1, <1>3, <1>6

\* An iteration of mergePrefixes covers the same addresses, and leaves nothing
\* to merge at its length nor at the greater ones.
LEMMA MergeTable ==
  ASSUME NEW t \in Table, Disjoint(t), NEW n \in 1 .. MaxLen
  PROVE  /\ Merge(t, n) \in Table
         /\ Disjoint(Merge(t, n))
         /\ \A a \in Address : Covers(t, a) => Covers(Merge(t, n), a)
         /\ Having(Merge(t, n), "used") = Having(t, "used")
         /\ Mergeable(Merge(t, n), n) = {}
         /\ \A m \in n + 1 .. MaxLen :
              Mergeable(t, m) = {} => Mergeable(Merge(t, n), m) = {}
<1> DEFINE M == Mergeable(t, n)
           New == {q \in Prefix : Len(q) = n - 1 /\ Child(q, 0) \in M}
           u == Merge(t, n)
<1>1. n \in Nat /\ n - 1 \in Nat /\ n - 1 < MaxLen /\ 0 \in Bit /\ 1 \in Bit
  BY Sizes DEF Bit
<1>2. \A p \in M : p \in Prefix /\ Len(p) = n /\ p \in Rows(t) /\ t[p] = "free"
  BY DEF Mergeable, Having, Rows
<1>3. ASSUME NEW q \in Prefix, Len(q) = n - 1, NEW b \in Bit, Child(q, b) \in M
      PROVE  Child(q, 1 - b) \in M
  <2>1. 1 - b \in Bit /\ 1 - (1 - b) = b
    BY DEF Bit
  <2>2. /\ Sibling(Child(q, b)) = Child(q, 1 - b)
        /\ Sibling(Child(q, 1 - b)) = Child(q, b)
    BY <1>1, <1>3, <2>1, SiblingChild
  <2>3. Child(q, 1 - b) \in Prefix /\ Len(Child(q, 1 - b)) = n
    BY <1>1, <1>3, <2>1, ChildPrefix
  <2> QED
    BY <1>3, <2>2, <2>3 DEF Mergeable, Having
<1>4. \A q \in New : \A b \in Bit : Child(q, b) \in M
  <2> SUFFICES ASSUME NEW q \in New, NEW b \in Bit
               PROVE  Child(q, b) \in M
    OBVIOUS
  <2>1. Child(q, 1 - 0) \in M
    BY <1>1, <1>3
  <2> QED
    BY <2>1 DEF Bit
<1>5. ASSUME NEW p \in M
      PROVE  \E q \in New : IsPrefix(q, p)
  <2>1. PICK q \in Prefix, b \in Bit : Len(q) = n - 1 /\ p = Child(q, b)
    BY <1>1, <1>2, ParentPrefix
  <2>2. b = 0 \/ 1 - b = 0
    BY DEF Bit
  <2>3. Child(q, 0) \in M
    BY <1>3, <2>1, <2>2
  <2> QED
    BY <1>1, <2>1, <2>3, ChildPrefix
<1>6. ASSUME NEW q \in New
      PROVE  t[q] = "none"
  <2>1. /\ Child(q, 0) \in Rows(t) /\ IsPrefix(q, Child(q, 0))
        /\ Child(q, 0) # q
    BY <1>1, <1>2, ChildPrefix
  <2> QED
    BY <2>1 DEF Disjoint, Rows
<1>7. \A p \in Prefix : u[p] = IF p \in M THEN "none"
                               ELSE IF p \in New THEN "free" ELSE t[p]
  BY DEF Merge
<1>8. u \in Table
  BY DEF Merge, Table, Status
<1>9. Rows(u) = (Rows(t) \ M) \cup New /\ \A q \in New : q \notin M
  BY <1>1, <1>2, <1>7 DEF Rows
<1>10. Disjoint(u)
  <2> SUFFICES ASSUME NEW p \in Rows(u), NEW q \in Rows(u), IsPrefix(p, q), p # q
               PROVE  FALSE
    BY DEF Disjoint
  <2>1. p \in Prefix /\ q \in Prefix
    BY DEF Rows
  <2>2. CASE p \in Rows(t) \ M /\ q \in Rows(t) \ M
    BY <2>2 DEF Disjoint
  <2>3. CASE p \in New /\ q \in Rows(t) \ M
    <3>1. PICK b \in Bit : IsPrefix(Child(p, b), q)
      BY <2>1, ChildBegins
    <3>2. Child(p, b) \in M
      BY <2>3, <1>4
    <3> QED
      BY <3>1, <3>2, <2>3, <1>2 DEF Disjoint
  <2>4. CASE p \in Rows(t) \ M /\ q \in New
    <3>1. /\ Child(q, 0) \in M /\ Child(q, 0) \in Rows(t)
          /\ Child(q, 0) \in Prefix
      BY <2>4, <1>2
    <3>2. IsPrefix(p, Child(q, 0))
      <4>1. IsPrefix(q, Child(q, 0))
        BY <1>1, <2>1, <2>4, ChildPrefix
      <4> QED
        BY <2>1, <3>1, <4>1, PrefixOrder
    <3> QED
      BY <3>1, <3>2, <2>4 DEF Disjoint
  <2>5. CASE p \in New /\ q \in New
    <3>1. Len(q) <= Len(p)
      BY <1>1, <2>5
    <3> QED
      BY <2>1, <3>1, PrefixOrder
  <2> QED
    BY <1>9, <2>2, <2>3, <2>4, <2>5
<1>11. ASSUME NEW a \in Address, Covers(t, a)
       PROVE  Covers(u, a)
  <2>1. PICK p \in Rows(t) : IsPrefix(p, a)
    BY <1>11 DEF Covers
  <2>2. CASE p \notin M
    BY <2>1, <2>2, <1>9 DEF Covers
  <2>3. CASE p \in M
    <3>1. PICK q \in New : IsPrefix(q, p)
      BY <2>3, <1>5
    <3>2. IsPrefix(q, a)
      BY <2>1, <3>1, <2>3, <1>2, AddressPrefix, PrefixOrder
    <3> QED
      BY <3>1, <3>2, <1>9 DEF Covers
  <2> QED
    BY <2>2, <2>3
<1>12. Having(u, "used") = Having(t, "used")
  BY <1>2, <1>6, <1>7 DEF Having
<1>13. \A p \in Prefix : u[p] = "free" /\ Len(p) # n - 1
         => t[p] = "free" /\ p \notin M
  BY <1>7
<1>14. ASSUME NEW m \in n .. MaxLen, NEW p \in Mergeable(u, m)
       PROVE  p \in Mergeable(t, m) /\ p \notin M
  <2>1. /\ p \in Prefix /\ Len(p) = m /\ u[p] = "free"
        /\ Sibling(p) \in Prefix /\ u[Sibling(p)] = "free"
    BY DEF Mergeable, Having
  <2>2. PICK q \in Prefix, b \in Bit : Len(q) = m - 1 /\ p = Child(q, b)
    BY <1>1, <2>1, ParentPrefix
  <2>3. Len(Sibling(p)) = m
    <3>1. 1 - b \in Bit /\ m - 1 < MaxLen /\ m - 1 + 1 = m
      BY <1>1, Sizes DEF Bit
    <3>2. Sibling(p) = Child(q, 1 - b)
      BY <2>2, <3>1, SiblingChild
    <3>3. Len(Child(q, 1 - b)) = m
      BY <2>2, <3>1, ChildPrefix
    <3> QED
      BY <3>2, <3>3
  <2>4. m # n - 1
    BY <1>1
  <2> QED
    BY <2>1, <2>3, <2>4, <1>13 DEF Mergeable, Having
<1>15. Mergeable(u, n) = {}
  BY <1>1, <1>14
<1>16. \A m \in n + 1 .. MaxLen : Mergeable(t, m) = {} => Mergeable(u, m) = {}
  BY <1>1, <1>14
<1> QED
  BY <1>8, <1>10, <1>11, <1>12, <1>15, <1>16

-----------------------------------------------------------------------------
(***************************************************************************)
(* The inductive invariant.  It says what newPrefix knows at each of its   *)
(* statements, and that the rows of the process and of the disk are both   *)
(* free of overlaps, so that an interruption can happen at any time.       *)
(***************************************************************************)
DiskInv ==
  /\ step # "merge" => disk = rows
  /\ Having(rows, "used") \subseteq Having(disk, "used")

StepInv ==
  /\ step \in {"select", "split", "insert"} => Len(req.community) <= req.len
  /\ step = "split" => rows[at] = "free" /\ Len(at) <= req.len
  /\ step = "insert" => Len(at) < req.len /\ Apart(rows, Child(at, NextBit))
  /\ step = "merge" => \A m \in level + 1 .. MaxLen : Mergeable(rows, m) = {}

TreeInv ==
  /\ TypeOK
  /\ Disjoint(rows)
  /\ Disjoint(disk)
  /\ DiskInv
  /\ StepInv

\* The addresses that belong to a row, to the half that is not inserted yet, or
\* to one that was lost.
Lost(a) == \E p \in lost : IsPrefix(p, a)

CoverInv ==
  \A a \in Address :
    /\ step # "insert" => /\ Covers(rows, a) \/ Lost(a)
                          /\ Covers(disk, a) \/ Lost(a)
    /\ step = "insert" => \/ Covers(rows, a) \/ Lost(a)
                          \/ IsPrefix(Child(at, NextBit), a)

\* The prefix of everything.
LEMMA EmptyPrefix ==
  <<>> \in Prefix /\ Len(<<>>) = 0 /\ \A p \in Prefix : IsPrefix(<<>>, p)
<1>1. <<>> \in [1 .. 0 -> Bit] /\ 0 \in 0 .. MaxLen
  BY Sizes
<1>2. <<>> \in Prefix /\ Len(<<>>) = 0
  BY <1>1 DEF Prefix
<1> QED
  BY <1>2, PrefixPointwise, PrefixSeq

\* The bit to continue with is a bit.
LEMMA NextBitType == TypeOK => NextBit \in Bit
<1> SUFFICES ASSUME TypeOK PROVE NextBit \in Bit
  OBVIOUS
<1>1. req.community \in Prefix /\ at \in Prefix
  BY Communities DEF TypeOK
<1>2. CASE Len(at) < Len(req.community)
  <2>1. Len(at) + 1 \in 1 .. Len(req.community)
    BY <1>1, <1>2, PrefixSeq
  <2> QED
    BY <1>1, <1>2, <2>1, PrefixSeq DEF NextBit
<1>3. CASE ~ (Len(at) < Len(req.community))
  BY <1>3 DEF NextBit, Bit
<1> QED
  BY <1>2, <1>3

\* The table starts with one row that is free.
LEMMA TreeInit == Init => TreeInv /\ CoverInv
<1> SUFFICES ASSUME Init PROVE TreeInv /\ CoverInv
  OBVIOUS
<1>1. rows \in Table /\ disk = rows /\ Rows(rows) = {<<>>}
  BY EmptyPrefix DEF Init, Table, Status, Rows
<1>2. req \in [community : Community, len : 1 .. MaxLen]
  <2>1. PICK c \in Community, l \in Length : req = [community |-> c, len |-> l]
    BY DEF Init
  <2>2. l \in Nat \ {0} /\ Len(c) \in Nat /\ Len(c) + l <= MaxLen
    BY Lengths, Communities, PrefixSeq
  <2>3. l \in 1 .. MaxLen
    BY <2>2, Sizes
  <2> QED
    BY <2>1, <2>3
<1>3. TypeOK
  BY <1>1, <1>2, EmptyPrefix, Sizes DEF Init, TypeOK, Table
<1>4. Disjoint(rows)
  BY <1>1 DEF Disjoint
<1>5. DiskInv /\ StepInv
  BY <1>1 DEF DiskInv, StepInv, Init
<1>6. CoverInv
  BY <1>1, EmptyPrefix, AddressPrefix DEF CoverInv, Covers, Init, Lost
<1> QED
  BY <1>1, <1>3, <1>4, <1>5, <1>6 DEF TreeInv

-----------------------------------------------------------------------------
(***************************************************************************)
(* Each action preserves the invariant, and what is covered stays so.      *)
(***************************************************************************)
Keeps == TreeInv' /\ (CoverInv => CoverInv')

\* The prefix that is requested is not shorter than its community.
LEMMA RequestStep ==
  ASSUME TreeInv, NEW c \in Community, NEW l \in Length, Request(c, l)
  PROVE  Keeps
<1>1. /\ step = "idle" /\ step' = "select"
      /\ rows' = rows /\ disk' = disk /\ at' = at /\ level' = level /\ lost' = lost
      /\ req' = [community |-> c, len |-> Len(c) + l]
  BY DEF Request
<1>2. l \in Nat \ {0} /\ Len(c) \in Nat /\ Len(c) + l <= MaxLen
  BY Lengths, Communities, PrefixSeq
<1>3. Len(c) + l \in 1 .. MaxLen /\ Len(c) <= Len(c) + l
  BY <1>2, Sizes
<1>4. TypeOK'
  BY <1>1, <1>3 DEF TreeInv, TypeOK
<1>5. Disjoint(rows)' /\ Disjoint(disk)' /\ DiskInv'
  BY <1>1 DEF TreeInv, DiskInv, Having, Disjoint, Rows
<1>6. StepInv'
  BY <1>1, <1>3 DEF StepInv
<1>7. CoverInv => CoverInv'
  BY <1>1 DEF CoverInv, Covers, Rows, Lost
<1> QED
  BY <1>4, <1>5, <1>6, <1>7 DEF Keeps, TreeInv

\* The row that is selected is free, and not too long to be split.
LEMMA SelectPrefixStep == ASSUME TreeInv, SelectPrefix PROVE Keeps
<1>1. /\ step = "select" /\ step' = "split"
      /\ rows' = rows /\ disk' = disk /\ req' = req /\ level' = level /\ lost' = lost
  BY DEF SelectPrefix
<1>2. /\ req.community \in Prefix /\ req.len \in 1 .. MaxLen
      /\ Len(req.community) <= req.len
  BY <1>1, Communities DEF TreeInv, TypeOK, StepInv
<1>3. at' \in Prefix /\ rows[at'] = "free" /\ Len(at') <= req.len
  <2>1. at' \in Select
    BY DEF SelectPrefix
  <2>2. CASE Within # {}
    BY <2>1, <2>2 DEF Select, Longest, Within, Having
  <2>3. CASE Within = {}
    <3>1. /\ at' \in Prefix /\ rows[at'] = "free"
          /\ IsPrefix(at', req.community)
      BY <2>1, <2>3 DEF Select, Around, Rows
    <3>2. Len(at') <= Len(req.community)
      BY <3>1, <1>2, PrefixPointwise
    <3> QED
      BY <3>1, <3>2, <1>2, PrefixSeq
  <2> QED
    BY <2>2, <2>3
<1>4. TypeOK'
  BY <1>1, <1>3 DEF TreeInv, TypeOK
<1>5. Disjoint(rows)' /\ Disjoint(disk)' /\ DiskInv'
  BY <1>1 DEF TreeInv, DiskInv, Having, Disjoint, Rows
<1>6. StepInv'
  BY <1>1, <1>3 DEF TreeInv, StepInv
<1>7. CoverInv => CoverInv'
  BY <1>1 DEF CoverInv, Covers, Rows, Lost
<1> QED
  BY <1>4, <1>5, <1>6, <1>7 DEF Keeps, TreeInv

\* A request that fails changes nothing.
LEMMA RefuseStep == ASSUME TreeInv, Refuse PROVE Keeps
<1>1. /\ step = "select" /\ step' = "idle"
      /\ rows' = rows /\ disk' = disk /\ req' = req /\ at' = at
      /\ level' = level /\ lost' = lost
  BY DEF Refuse
<1>2. TypeOK' /\ StepInv'
  BY <1>1 DEF TreeInv, TypeOK, StepInv
<1>3. Disjoint(rows)' /\ Disjoint(disk)' /\ DiskInv'
  BY <1>1 DEF TreeInv, DiskInv, Having, Disjoint, Rows
<1>4. CoverInv => CoverInv'
  BY <1>1 DEF CoverInv, Covers, Rows, Lost
<1> QED
  BY <1>2, <1>3, <1>4 DEF Keeps, TreeInv

\* After the first statement of a split, nothing overlaps the missing half.
LEMMA UpdateHalfStep == ASSUME TreeInv, UpdateHalf PROVE Keeps
<1>1. /\ step = "split" /\ step' = "insert"
      /\ rows' = Split(rows, at, NextBit) /\ disk' = rows'
      /\ req' = req /\ at' = at /\ level' = level /\ lost' = lost
  BY DEF UpdateHalf, Execute
<1>2. /\ rows \in Table /\ at \in Prefix /\ NextBit \in Bit
      /\ Disjoint(rows) /\ rows[at] = "free"
  BY <1>1, NextBitType DEF TreeInv, TypeOK, StepInv, Table
<1>3. Len(at) < req.len /\ Len(at) < MaxLen
  <2>1. req.len \in 1 .. MaxLen /\ Len(at) < req.len
    BY DEF TreeInv, TypeOK, UpdateHalf, TooShort
  <2> QED
    BY <2>1, <1>2, PrefixSeq, Sizes
<1>4. NextBit' = NextBit
  BY <1>1 DEF NextBit
<1>5. /\ rows' \in Table /\ Disjoint(rows')
      /\ Apart(rows', Child(at, NextBit))
      /\ \A a \in Address : Covers(rows, a) => \/ Covers(rows', a)
                                             \/ IsPrefix(Child(at, NextBit), a)
  BY <1>1, <1>2, <1>3, SplitTable
<1>6. TypeOK'
  BY <1>1, <1>5 DEF TreeInv, TypeOK, Table
<1>7. DiskInv'
  BY <1>1 DEF DiskInv
<1>8. StepInv'
  BY <1>1, <1>3, <1>4, <1>5 DEF TreeInv, StepInv
<1>9. CoverInv => CoverInv'
  BY <1>1, <1>4, <1>5 DEF CoverInv, Lost
<1> QED
  BY <1>1, <1>5, <1>6, <1>7, <1>8, <1>9 DEF Keeps, TreeInv

\* The second statement of a split can be executed, and fills the hole.
LEMMA InsertHalfStep == ASSUME TreeInv, InsertHalf PROVE Keeps
<1> DEFINE d == Child(at, NextBit)
<1>1. /\ step = "insert" /\ step' = "split"
      /\ rows' = [rows EXCEPT ![d] = "free"] /\ disk' = rows'
      /\ req' = req /\ at' = d /\ level' = level /\ lost' = lost
  BY DEF InsertHalf, Execute
<1>2. /\ rows \in Table /\ at \in Prefix /\ NextBit \in Bit
      /\ Disjoint(rows) /\ Apart(rows, d)
      /\ Len(at) < req.len /\ req.len \in 1 .. MaxLen
  BY <1>1, NextBitType DEF TreeInv, TypeOK, StepInv, Table
<1>3. d \in Prefix /\ Len(d) = Len(at) + 1 /\ Len(d) <= req.len
  <2>1. Len(at) \in Nat /\ Len(at) < MaxLen /\ Len(at) + 1 <= req.len
    BY <1>2, PrefixSeq, Sizes
  <2> QED
    BY <2>1, <1>2, ChildPrefix
<1>4. /\ rows' \in Table /\ Disjoint(rows')
      /\ \A a \in Address : Covers(rows, a) \/ IsPrefix(d, a) => Covers(rows', a)
  BY <1>1, <1>2, <1>3, InsertTable
<1>5. TypeOK'
  BY <1>1, <1>3, <1>4 DEF TreeInv, TypeOK, Table
<1>6. DiskInv'
  BY <1>1 DEF DiskInv
<1>7. rows'[d] = "free"
  BY <1>1, <1>2, <1>3 DEF Table
<1>8. StepInv'
  BY <1>1, <1>3, <1>7 DEF TreeInv, StepInv
<1>9. CoverInv => CoverInv'
  BY <1>1, <1>4 DEF CoverInv, Lost
<1> QED
  BY <1>1, <1>4, <1>5, <1>6, <1>8, <1>9 DEF Keeps, TreeInv

\* A statement that only changes what a row is.
LEMMA MarkStep ==
  ASSUME TreeInv, step \in {"idle", "split"}, NEW p \in Rows(rows),
         NEW status \in Status \ {"none"}, Execute([rows EXCEPT ![p] = status]),
         step' \in {"idle", "select"}, step' = "select" => step = "split",
         at' \in Prefix, UNCHANGED <<req, level, lost>>
  PROVE  Keeps
<1>1. /\ rows' = [rows EXCEPT ![p] = status] /\ disk' = rows'
      /\ disk = rows /\ rows \in Table
      /\ req' = req /\ level' = level /\ lost' = lost
  BY DEF Execute, TreeInv, TypeOK, DiskInv, Table
<1>2. rows' \in Table /\ Rows(rows') = Rows(rows)
  BY <1>1 DEF Table, Status, Rows
<1>3. Disjoint(rows') /\ \A a : Covers(rows', a) <=> Covers(rows, a)
  BY <1>1, <1>2, SameRows DEF TreeInv
<1>4. TypeOK'
  BY <1>1, <1>2 DEF TreeInv, TypeOK, Table
<1>5. DiskInv'
  BY <1>1 DEF DiskInv
<1>6. StepInv'
  BY <1>1 DEF TreeInv, StepInv
<1>7. CoverInv => CoverInv'
  BY <1>1, <1>3 DEF CoverInv, Lost
<1> QED
  BY <1>1, <1>3, <1>4, <1>5, <1>6, <1>7 DEF Keeps, TreeInv

\* The statements that record a reservation, a certificate or a revocation.
LEMMA MarkSteps ==
  ASSUME TreeInv, Reserve \/ Use \/ \E p \in Prefix : Revoke(p)
  PROVE  Keeps
<1>1. (step = "split" => at \in Rows(rows)) /\ at \in Prefix /\ <<>> \in Prefix
  BY EmptyPrefix DEF TreeInv, TypeOK, StepInv, Rows
<1>2. CASE Reserve
  BY <1>1, <1>2, MarkStep DEF Reserve, ReserveRow, Status
<1>3. CASE Use
  BY <1>1, <1>3, MarkStep DEF Use, Status
<1>4. ASSUME NEW p \in Prefix, Revoke(p)
      PROVE  Keeps
  BY <1>1, <1>4, MarkStep DEF Revoke, Status, Rows
<1> QED
  BY <1>2, <1>3, <1>4

\* The beginning of onTimeout, which does not change what is committed.
LEMMA TimeoutStep ==
  ASSUME TreeInv, NEW E \in SUBSET Having(rows, "used"), Timeout(E)
  PROVE  Keeps
<1>1. /\ step = "idle" /\ step' = "merge" /\ level' = MaxLen
      /\ lost' = lost
      /\ rows' = [p \in Prefix |-> IF p \in E THEN "free" ELSE rows[p]]
      /\ disk' = disk /\ req' = req /\ at' = at
      /\ rows \in Table /\ disk = rows
  BY DEF Timeout, TreeInv, TypeOK, DiskInv, Table
<1>2. /\ rows' \in Table /\ Rows(rows') = Rows(rows)
      /\ Having(rows', "used") \subseteq Having(disk, "used")
  BY <1>1 DEF Table, Status, Rows, Having
<1>3. Disjoint(rows') /\ \A a : Covers(rows', a) <=> Covers(rows, a)
  BY <1>1, <1>2, SameRows DEF TreeInv
<1>4. TypeOK'
  BY <1>1, <1>2, Sizes DEF TreeInv, TypeOK, Table
<1>5. DiskInv'
  BY <1>1, <1>2 DEF DiskInv
<1>6. StepInv'
  BY <1>1, Sizes DEF StepInv
<1>7. CoverInv => CoverInv'
  BY <1>1, <1>3 DEF CoverInv, Lost
<1> QED
  BY <1>1, <1>3, <1>4, <1>5, <1>6, <1>7 DEF Keeps, TreeInv

\* After the iteration for a length, there is nothing left to merge at this
\* length, and what was done for the greater ones is not undone.
LEMMA MergeLevelStep == ASSUME TreeInv, MergeLevel PROVE Keeps
<1>1. /\ step = "merge" /\ step' = "merge" /\ level \in 1 .. MaxLen
      /\ rows' = Merge(rows, level) /\ level' = level - 1 /\ lost' = lost
      /\ disk' = disk /\ req' = req /\ at' = at
      /\ rows \in Table /\ Disjoint(rows)
  BY Sizes DEF MergeLevel, NextLevel, TreeInv, TypeOK, Table
<1>2. /\ rows' \in Table /\ Disjoint(rows')
      /\ \A a \in Address : Covers(rows, a) => Covers(rows', a)
      /\ Having(rows', "used") = Having(rows, "used")
      /\ Mergeable(rows', level) = {}
      /\ \A m \in level + 1 .. MaxLen :
           Mergeable(rows, m) = {} => Mergeable(rows', m) = {}
  BY <1>1, MergeTable
<1>3. TypeOK'
  BY <1>1, <1>2, Sizes DEF TreeInv, TypeOK, Table
<1>4. DiskInv'
  BY <1>1, <1>2 DEF TreeInv, DiskInv
<1>5. StepInv'
  <2>1. \A m \in level + 1 .. MaxLen : Mergeable(rows, m) = {}
    BY <1>1 DEF TreeInv, StepInv
  <2>2. \A m \in level' + 1 .. MaxLen : m = level \/ m \in level + 1 .. MaxLen
    BY <1>1, Sizes
  <2> QED
    BY <1>1, <1>2, <2>1, <2>2 DEF StepInv
<1>6. CoverInv => CoverInv'
  BY <1>1, <1>2 DEF CoverInv, Covers, Rows, Lost
<1> QED
  BY <1>1, <1>2, <1>3, <1>4, <1>5, <1>6 DEF Keeps, TreeInv

\* The end of onTimeout: what is committed is what was merged.
LEMMA CommitStep == ASSUME TreeInv, Commit PROVE Keeps
<1>1. /\ step = "merge" /\ step' = "idle" /\ disk' = rows /\ rows' = rows
      /\ req' = req /\ at' = at /\ level' = level /\ lost' = lost
  BY DEF Commit
<1>2. TypeOK' /\ DiskInv' /\ StepInv'
  BY <1>1 DEF TreeInv, TypeOK, DiskInv, StepInv
<1>3. Disjoint(rows)' /\ Disjoint(disk)'
  BY <1>1 DEF TreeInv, Disjoint, Rows
<1>4. CoverInv => CoverInv'
  BY <1>1 DEF CoverInv, Covers, Rows, Lost
<1> QED
  BY <1>2, <1>3, <1>4 DEF Keeps, TreeInv

\* An interruption, wherever it is: the half that a split did not insert is lost.
LEMMA CrashStep == ASSUME TreeInv, Crash PROVE Keeps
<1>1. /\ step' = "idle" /\ rows' = disk /\ disk' = disk
      /\ req' = req /\ at' \in Prefix /\ level' = 0
      /\ lost \subseteq Prefix
      /\ lost' = IF step = "insert" THEN lost \cup {Child(at, NextBit)} ELSE lost
  BY EmptyPrefix DEF Crash, TreeInv, TypeOK
<1>2. step = "insert" => Child(at, NextBit) \in Prefix
  <2> SUFFICES ASSUME step = "insert" PROVE Child(at, NextBit) \in Prefix
    OBVIOUS
  <2>1. /\ at \in Prefix /\ NextBit \in Bit
        /\ Len(at) < req.len /\ req.len \in 1 .. MaxLen
    BY NextBitType DEF TreeInv, TypeOK, StepInv
  <2>2. Len(at) < MaxLen
    BY <2>1, PrefixSeq, Sizes
  <2> QED
    BY <2>1, <2>2, ChildPrefix
<1>3. lost' \subseteq Prefix
  BY <1>1, <1>2
<1>4. TypeOK' /\ DiskInv' /\ StepInv'
  BY <1>1, <1>3, Sizes DEF TreeInv, TypeOK, DiskInv, StepInv
<1>5. Disjoint(rows)' /\ Disjoint(disk)'
  BY <1>1 DEF TreeInv, Disjoint, Rows
<1>6. CoverInv => CoverInv'
  <2> SUFFICES ASSUME CoverInv, NEW a \in Address
               PROVE  Covers(disk, a) \/ \E p \in lost' : IsPrefix(p, a)
    BY <1>1 DEF CoverInv, Covers, Rows, Lost
  <2>1. CASE step = "insert"
    <3>1. disk = rows
      BY <2>1 DEF TreeInv, DiskInv
    <3> QED
      BY <1>1, <2>1, <3>1 DEF CoverInv, Lost
  <2>2. CASE step # "insert"
    BY <1>1, <2>2 DEF CoverInv, Lost
  <2> QED
    BY <2>1, <2>2
<1> QED
  BY <1>4, <1>5, <1>6 DEF Keeps, TreeInv

\* Steps of the rest of the system.
LEMMA StutterStep == ASSUME TreeInv, UNCHANGED vars PROVE Keeps
<1>1. /\ step' = step /\ rows' = rows /\ disk' = disk
      /\ req' = req /\ at' = at /\ level' = level /\ lost' = lost
  BY DEF vars
<1>2. NextBit' = NextBit
  BY <1>1 DEF NextBit
<1>3. TypeOK' /\ DiskInv' /\ Disjoint(rows)' /\ Disjoint(disk)'
  BY <1>1 DEF TreeInv, TypeOK, DiskInv, Disjoint, Having, Rows
<1>4. StepInv'
  BY <1>1, <1>2 DEF TreeInv, StepInv, Apart, Rows
<1>5. CoverInv => CoverInv'
  BY <1>1, <1>2 DEF CoverInv, Covers, Rows, Lost
<1> QED
  BY <1>3, <1>4, <1>5 DEF Keeps, TreeInv

\* The invariant is inductive, and coverage too.
LEMMA NextStep == ASSUME TreeInv, [Next]_vars PROVE Keeps
<1>1. CASE \E c \in Community, l \in Length : Request(c, l)
  BY <1>1, RequestStep
<1>2. CASE \E p \in Prefix : Revoke(p)
  BY <1>2, MarkSteps
<1>3. CASE \E E \in SUBSET Having(rows, "used") : Timeout(E)
  BY <1>3, TimeoutStep
<1>4. CASE Proceed
  BY <1>4, SelectPrefixStep, RefuseStep, UpdateHalfStep, InsertHalfStep,
     MarkSteps, MergeLevelStep, CommitStep DEF Proceed
<1>5. CASE Crash
  BY <1>5, CrashStep
<1>6. CASE UNCHANGED vars
  BY <1>6, StutterStep
<1> QED
  BY <1>1, <1>2, <1>3, <1>4, <1>5, <1>6 DEF Next

\* The invariant holds.
LEMMA TreeCorrect == Spec => []TreeInv
<1>1. TreeInv /\ [Next]_vars => TreeInv'
  BY NextStep DEF Keeps
<1> QED
  BY TreeInit, <1>1, PTL DEF Spec

-----------------------------------------------------------------------------
\* Whatever is interrupted, and even in a split, the table never holds two
\* prefixes that overlap, so no two nodes get the same address.
THEOREM NeverOverlap == Spec => []NoOverlap
<1>1. TreeInv => NoOverlap
  BY DEF TreeInv, Disjoint, NoOverlap
<1> QED
  BY TreeCorrect, <1>1, PTL

\* The types hold.
THEOREM TypeCorrect == Spec => []TypeOK
<1>1. TreeInv => TypeOK
  BY DEF TreeInv
<1> QED
  BY TreeCorrect, <1>1, PTL

\* Whatever is interrupted, every address always belongs to a row, but those of
\* the halves that the interruption of a split left out.
THEOREM NeverLost == Spec => []Complete
<1>1. TreeInv /\ CoverInv /\ [Next]_vars => (TreeInv /\ CoverInv)'
  BY NextStep DEF Keeps
<1>2. CoverInv => Complete
  BY DEF CoverInv, Complete, Covers, Lost
<1> QED
  BY TreeInit, <1>1, <1>2, PTL DEF Spec

\* The rows are always a partition of the address space, but for those halves.
THEOREM AlwaysPartition == Spec => []Partition
<1>1. TypeOK /\ NoOverlap /\ Complete => Partition
  BY DEF Partition
<1> QED
  BY <1>1, TypeCorrect, NeverOverlap, NeverLost, PTL

\* The single pass of mergePrefixes merges everything that can be.
THEOREM AllMerged == Spec => MergeComplete
<1>1. TreeInv /\ Commit => \A n \in 1 .. MaxLen : Mergeable(rows', n) = {}
  <2> SUFFICES ASSUME TreeInv, Commit
               PROVE  \A n \in 1 .. MaxLen : Mergeable(rows', n) = {}
    OBVIOUS
  <2>1. level = 0 /\ rows' = rows /\ step = "merge"
    BY DEF Commit
  <2>2. \A n \in level + 1 .. MaxLen : Mergeable(rows, n) = {}
    BY <2>1 DEF TreeInv, StepInv
  <2>3. \A n \in 1 .. MaxLen : Mergeable(rows, n) = {}
    BY <2>1, <2>2
  <2> QED
    BY <2>1, <2>3
<1> QED
  BY TreeCorrect, <1>1, PTL DEF MergeComplete

-----------------------------------------------------------------------------
(***************************************************************************)
(* The refinement.                                                         *)
(***************************************************************************)

\* In autocommit, the prefixes of nodes only change by the statements that
\* record a certificate or its revocation.
LEMMA MarkUsed ==
  ASSUME NEW t \in Table, NEW p \in Prefix
  PROVE  /\ Having([t EXCEPT ![p] = "used"], "used") = Having(t, "used") \cup {p}
         /\ \A s \in Status \ {"used"} :
              Having([t EXCEPT ![p] = s], "used") = Having(t, "used") \ {p}
BY DEF Having, Table

\* Every step of the registry grants a prefix that overlaps none in use,
\* withdraws some, or is invisible to nodes.
LEMMA PoolStep ==
  ASSUME TreeInv, [Next]_vars
  PROVE  [Pool!Next]_(Having(disk, "used"))
<1> DEFINE used == Having(disk, "used")
<1>1. rows \in Table /\ disk \in Table /\ at \in Prefix
  BY DEF TreeInv, TypeOK, Table
<1>2. step # "merge" => disk = rows
  BY DEF TreeInv, DiskInv
<1>3. CASE Use
  <2>1. /\ step = "split" /\ disk = rows
        /\ disk' = [disk EXCEPT ![at] = "used"]
        /\ Disjoint(disk) /\ disk[at] = "free"
    BY <1>2, <1>3 DEF Use, Execute, TreeInv, StepInv
  <2>2. used' = used \cup {at}
    BY <1>1, <2>1, MarkUsed
  <2>3. \A q \in used : ~ Pool!Overlap(at, q)
    <3>1. ASSUME NEW q \in used
          PROVE  /\ q \in Rows(disk) /\ q # at /\ at \in Rows(disk)
                 /\ ~ IsPrefix(at, q) /\ ~ IsPrefix(q, at)
      BY <1>1, <2>1 DEF Disjoint, Rows, Having
    <3>2. \A q \in used : Pool!Overlap(at, q) <=> IsPrefix(at, q) \/ IsPrefix(q, at)
      BY DEF Pool!Overlap, Pool!IsPrefix, IsPrefix
    <3> QED
      BY <3>1, <3>2
  <2>4. Pool!Grant(at)
    BY <2>2, <2>3 DEF Pool!Grant
  <2> QED
    BY <1>1, <2>4 DEF Pool!Next
<1>4. ASSUME NEW p \in Prefix, Revoke(p)
      PROVE  Pool!Next
  <2>1. disk = rows /\ disk' = [disk EXCEPT ![p] = "free"] /\ disk[p] = "used"
    BY <1>2, <1>4 DEF Revoke, Execute
  <2>2. used' = used \ {p}
    BY <1>1, <2>1, MarkUsed DEF Status
  <2>3. {p} \in SUBSET used
    BY <2>1 DEF Having
  <2>4. Pool!Withdraw({p})
    BY <2>2, <2>3 DEF Pool!Withdraw
  <2> QED
    BY <2>3, <2>4 DEF Pool!Next
<1>5. CASE Commit
  <2> DEFINE W == used \ Having(rows, "used")
  <2>1. disk' = rows /\ Having(rows, "used") \subseteq used
    BY <1>5 DEF Commit, TreeInv, DiskInv
  <2>2. used' = used \ W /\ W \in SUBSET used
    BY <2>1
  <2>3. Pool!Withdraw(W)
    BY <2>2 DEF Pool!Withdraw
  <2> QED
    BY <2>2, <2>3 DEF Pool!Next
<1>6. CASE UpdateHalf
  <2>1. /\ step = "split" /\ disk = rows /\ disk' = Split(disk, at, NextBit)
        /\ Disjoint(disk) /\ disk[at] = "free" /\ NextBit \in Bit
    BY <1>2, <1>6, NextBitType
       DEF UpdateHalf, Execute, TreeInv, StepInv
  <2>2. Len(at) < MaxLen
    <3>1. req.len \in 1 .. MaxLen /\ Len(at) < req.len
      BY <1>6 DEF UpdateHalf, TooShort, TreeInv, TypeOK
    <3> QED
      BY <1>1, <3>1, PrefixSeq, Sizes
  <2> QED
    BY <1>1, <2>1, <2>2, SplitTable
<1>7. CASE InsertHalf
  <2>1. /\ step = "insert" /\ disk = rows
        /\ disk' = [disk EXCEPT ![Child(at, NextBit)] = "free"]
        /\ Disjoint(disk) /\ Apart(disk, Child(at, NextBit))
        /\ NextBit \in Bit
    BY <1>2, <1>7, NextBitType
       DEF InsertHalf, Execute, TreeInv, StepInv
  <2>2. Child(at, NextBit) \in Prefix
    <3>1. req.len \in 1 .. MaxLen /\ Len(at) < req.len
      BY <1>7 DEF InsertHalf, TreeInv, TypeOK, StepInv
    <3>2. Len(at) < MaxLen
      BY <1>1, <3>1, PrefixSeq, Sizes
    <3> QED
      BY <1>1, <2>1, <3>2, ChildPrefix
  <2> QED
    BY <1>1, <2>1, <2>2, InsertTable
<1>8. CASE Reserve
  <2>1. /\ disk = rows /\ disk' = [disk EXCEPT ![at] = "reserved"]
        /\ disk[at] = "free"
    BY <1>2, <1>8 DEF Reserve, ReserveRow, Execute, TreeInv, StepInv
  <2>2. used' = used \ {at} /\ at \notin used
    BY <1>1, <2>1, MarkUsed DEF Status, Having
  <2> QED
    BY <2>2
<1>9. ASSUME disk' = disk
      PROVE  used' = used
  BY <1>9 DEF Having
<1>10. CASE \E c \in Community, l \in Length : Request(c, l)
  BY <1>9, <1>10 DEF Request
<1>11. CASE \E E \in SUBSET Having(rows, "used") : Timeout(E)
  BY <1>9, <1>11 DEF Timeout
<1>12. CASE SelectPrefix \/ Refuse \/ MergeLevel
  BY <1>9, <1>12 DEF SelectPrefix, Refuse, MergeLevel
<1>13. CASE Crash
  BY <1>9, <1>13 DEF Crash
<1>14. CASE UNCHANGED vars
  BY <1>9, <1>14 DEF vars
<1> QED
  BY <1>3, <1>4, <1>5, <1>6, <1>7, <1>8, <1>10, <1>11, <1>12, <1>13, <1>14
     DEF Next, Proceed

\* Whatever is interrupted, the table implements the pool of prefixes promised
\* to nodes: none is granted that overlaps one in use.
THEOREM ImplementsPool == Spec => PoolSpec
<1>1. Init => Pool!Init
  BY DEF Init, Pool!Init, Having
<1>2. TreeInv /\ [Next]_vars => [Pool!Next]_(Having(disk, "used"))
  BY PoolStep
<1> QED
  BY TreeCorrect, <1>1, <1>2, PTL DEF Spec, PoolSpec, Pool!Spec

=============================================================================
