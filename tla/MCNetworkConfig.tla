-------------------------- MODULE MCNetworkConfig --------------------------
(* Model checking of NetworkConfig on a line of three nodes. *)
EXTENDS NetworkConfig

CONSTANTS a, b

MCTunnel == {<<Root, a>>, <<a, Root>>, <<a, b>>, <<b, a>>}
=============================================================================
