------------------------- MODULE MCRegistrySession -------------------------
(* Model checking of RegistrySession. *)
EXTENDS RegistrySession
=============================================================================
