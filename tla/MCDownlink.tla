----------------------------- MODULE MCDownlink -----------------------------
(* Downlink on small instances.                                            *)
EXTENDS Downlink

CONSTANTS s1, s2, d1
=============================================================================
