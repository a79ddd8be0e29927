-------------------------------- MODULE Dump --------------------------------
(***************************************************************************)
(* What the requester of a dump is promised: when its request ends, it has *)
(* either the state of babeld at some moment since it asked, or nothing if *)
(* babeld is not there, or what it had before if it gave up.               *)
(***************************************************************************)
EXTENDS Naturals

VARIABLES
  asking,     \* a request is pending
  since,      \* first moment after the request
  now,        \* moments of babeld, numbered
  neighbours  \* the moment that is known, 0 for nothing

vars == <<asking, since, now, neighbours>>

Init == asking = FALSE /\ since = 0 /\ now = 0 /\ neighbours = 0

Ask ==
  /\ ~asking /\ asking' = TRUE
  /\ now' = now + 1 /\ since' = now + 1
  /\ UNCHANGED neighbours

Pass == now' = now + 1 /\ UNCHANGED <<asking, since, neighbours>>

Answer ==
  /\ asking /\ asking' = FALSE
  /\ neighbours' \in (since .. now) \cup {0}
  /\ UNCHANGED <<since, now>>

Unreachable ==
  /\ ~asking /\ asking' = FALSE
  /\ neighbours' = 0 /\ since' = now + 1
  /\ UNCHANGED now

GiveUp == asking /\ asking' = FALSE /\ UNCHANGED <<since, now, neighbours>>

Forget ==
  /\ asking' = FALSE /\ neighbours' = 0
  /\ UNCHANGED <<since, now>>

Next == Ask \/ Unreachable \/ Pass \/ Answer \/ GiveUp \/ Forget

Spec == Init /\ [][Next]_vars
=============================================================================
