------------------------- MODULE MCRegistryQueries -------------------------
(* Model checking of RegistryQueries: a cycle of tunnels. *)
EXTENDS RegistryQueries

CONSTANTS root, na, nb, t1, t2

MCTunnel == {<<na, root>>, <<nb, na>>, <<root, nb>>}
=============================================================================
