--------------------------- MODULE MCPeerSession ---------------------------
(* Model checking of PeerSession with two named ends. *)
EXTENDS PeerSession, TLC

CONSTANTS a, b

MCSymmetry == Permutations(Node)
=============================================================================
