--------------------------- MODULE MCEventStream ---------------------------
(* EventStream on small instances.                                         *)
EXTENDS EventStream, TLC

CONSTANTS d1, d2

Symmetry == Permutations({d1, d2})
=============================================================================
