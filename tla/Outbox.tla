------------------------------- MODULE Outbox -------------------------------
(***************************************************************************)
(* What publish() promises its callers, with no connection in sight: the   *)
(* broker takes a message at most once and TRUE means that it did.  FALSE  *)
(* says nothing: the message may have been taken, or may still be.         *)
(***************************************************************************)
EXTENDS Naturals, Sequences

CONSTANT Messages

VARIABLES taken,    \* the messages the broker took, in that order
          outcome   \* what publish returned: "none" so far, "ok" or "failed"

vars == <<taken, outcome>>

WasTaken(m) == \E i \in DOMAIN taken : taken[i] = m

Init == taken = <<>> /\ outcome = [m \in Messages |-> "none"]

Take(m) == /\ ~WasTaken(m)
           /\ taken' = Append(taken, m)
           /\ UNCHANGED outcome

Succeed(m) == /\ outcome[m] = "none" /\ WasTaken(m)
              /\ outcome' = [outcome EXCEPT ![m] = "ok"]
              /\ UNCHANGED taken

Fail(m) == /\ outcome[m] = "none"
           /\ outcome' = [outcome EXCEPT ![m] = "failed"]
           /\ UNCHANGED taken

Next == \E m \in Messages : Take(m) \/ Succeed(m) \/ Fail(m)

Spec == Init /\ [][Next]_vars
=============================================================================
