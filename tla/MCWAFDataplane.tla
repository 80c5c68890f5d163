--------------------------- MODULE MCWAFDataplane ---------------------------
(* Instances of WAFDataplane for TLC.                                       *)
EXTENDS TLC, WAFDataplane

CONSTANTS r1, r2

MCSymmetry == Permutations({r1, r2})
=============================================================================
