--------------------------- MODULE MCNodeProcess ---------------------------
(* Model checking of NodeProcess: two peers, that share an address with a
   client. *)
EXTENDS NodeProcess

CONSTANTS p1, p2, c1, x1, x2

MCRemote == [i \in {p1, p2} |-> IF i = p1 THEN {x1, x2} ELSE {x1}]
MCTrusted == [i \in {c1} |-> x1]
=============================================================================
