---------------------------- MODULE MCActivation ----------------------------
(* Activations on small instances. *)
EXTENDS Activation

CONSTANTS s1, s2, p1, p2, d1
=============================================================================
