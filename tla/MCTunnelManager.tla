-------------------------- MODULE MCTunnelManager --------------------------
(* Model checking of TunnelManager with named peers and interfaces. *)
EXTENDS TunnelManager

CONSTANTS p1, p2, i1, Srv
=============================================================================
