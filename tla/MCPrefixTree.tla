---------------------------- MODULE MCPrefixTree ----------------------------
(* Model checking of PrefixTree on a small address space. *)
EXTENDS PrefixTree

\* The two halves of the network.
MCCommunities == {<<0>>, <<1>>}
=============================================================================
