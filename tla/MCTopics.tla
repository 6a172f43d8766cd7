------------------------------ MODULE MCTopics ------------------------------
(* Topics with devices that are called like levels of other topics. *)
EXTENDS Topics
=============================================================================
