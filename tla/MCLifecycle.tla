---------------------------- MODULE MCLifecycle ----------------------------
(* Lifecycle, and the listener in it, on small instances. *)
EXTENDS Lifecycle

CONSTANTS d1
=============================================================================
