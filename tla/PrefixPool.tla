----------------------------- MODULE PrefixPool -----------------------------
(***************************************************************************)
(* What the registry promises of the prefixes it gives to nodes: a prefix  *)
(* is only granted if it does not overlap one that a node still has.  See  *)
(* PrefixTree for how the table of prefixes achieves it.                   *)
(***************************************************************************)
EXTENDS SequencesExt

CONSTANT Prefix      \* sequences of bits

VARIABLE used        \* the prefixes that nodes have

Overlap(p, q) == IsPrefix(p, q) \/ IsPrefix(q, p)

Init == used = {}

Grant(p) ==
  /\ \A q \in used : ~ Overlap(p, q)
  /\ used' = used \cup {p}

\* Revoked, or expired for long.
Withdraw(W) ==
  /\ W \subseteq used
  /\ used' = used \ W

Next == \/ \E W \in SUBSET used : Withdraw(W)
        \/ \E p \in Prefix : Grant(p)

Spec == Init /\ [][Next]_used
=============================================================================
