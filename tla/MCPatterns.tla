----------------------------- MODULE MCPatterns -----------------------------
(* Patterns on small instances.                                            *)
EXTENDS Patterns, TLC

CONSTANTS s1, s2, p1, p2, d1

Symmetry == Permutations({s1, s2}) \cup Permutations({p1, p2})
=============================================================================
