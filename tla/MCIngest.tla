------------------------------ MODULE MCIngest ------------------------------
(* Ingest on small instances.                                              *)
EXTENDS Ingest, TLC

CONSTANTS d1, d2

Symmetry == Permutations({d1, d2})
=============================================================================
