--------------------------- MODULE MCCertificates ---------------------------
(* Model checking of Certificates with named prefixes. *)
EXTENDS Certificates, TLC

CONSTANTS p1, p2, t

MCSymmetry == Permutations(Prefix)
=============================================================================
