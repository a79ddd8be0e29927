-------------------------- MODULE MCVersionGossip --------------------------
(* Model checking of VersionGossip: the registry's node and two others. *)
EXTENDS VersionGossip

CONSTANTS root, na, nb

MCLine == {<<root, na>>, <<na, root>>, <<na, nb>>, <<nb, na>>}
=============================================================================
