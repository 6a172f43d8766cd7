----------------------------- MODULE Activation -----------------------------
(***************************************************************************)
(* What an activation with syncNow achieves among other requests, and how  *)
(* long it lasts.  The pattern endpoints are those of Patterns, unchanged; *)
(* this module adds what a client that knows all requests can tell:        *)
(* which activations ran without another one of their device, which pushes *)
(* succeeded, and what has been asked for since.                           *)
(***************************************************************************)
EXTENDS Patterns

VARIABLES
  alone,   \* slots whose activation has had no other of its device beside it
  sole,    \* slots whose activation has had no other writer of its pattern
           \* beside it
  settled, \* devices a lone activation was pushed to and none was asked since
  current  \* those of them whose pattern nobody has asked to write either,
           \* before or after

observed == <<alone, sole, settled, current>>

Underway(r)   == r.step \in Commands
Activating(r) == r.op = "activate" /\ Underway(r)
Writing(r)    == r.op \in {"create", "update", "activate", "delete"} /\ Underway(r)

ObserverInit == alone = {} /\ sole = {} /\ settled = {} /\ current = {}

\* The activation of slot s just begins, or belonged to the set before.
Continues(s, set) == s \in set \/ ~Underway(req[s])

\* The lone activations whose push succeeds in this step.
Pushed == {s \in alone : At(s, "publish") /\ req'[s].step = "202"}

Observe ==
  /\ alone' = {s \in Slots :
       /\ Activating(req'[s]) /\ Continues(s, alone)
       /\ \A t \in Slots : t # s /\ Activating(req'[t]) => req'[t].dev # req'[s].dev}
  /\ sole' = {s \in Slots :
       /\ Activating(req'[s]) /\ Continues(s, sole)
       /\ \A t \in Slots : t # s /\ Writing(req'[t]) => req'[t].pid # req'[s].pid}
  /\ settled' = {d \in settled : \A s \in Slots : Activating(req'[s]) => req'[s].dev # d}
                  \cup {req[s].dev : s \in Pushed}
  /\ current' = {d \in current : \A s \in Slots :
                   /\ Activating(req'[s]) => req'[s].dev # d
                   /\ Writing(req'[s]) => req'[s].pid # retained[d].pid}
                  \cup {req[s].dev : s \in Pushed \cap sole}

ObservedSpec == /\ Init /\ ObserverInit
                /\ [][Next /\ Observe]_<<vars, observed>>

\* The observer takes part in every step and keeps the event loop from none.
FairObservedSpec == ObservedSpec /\ \A s \in Slots : WF_vars(Step(s))

-----------------------------------------------------------------------------
(* Properties.                                                             *)

\* The message that activates a pattern as it is stored.
Latest(p) == [pid |-> p, version |-> record[p].version,
              content |-> record[p].content]

\* A push that succeeded and had no other activation of its device beside it
\* leaves the retained message and active_pattern at the same pattern until the
\* next activation of the device is asked for, whatever else runs or fails in
\* between.  The message is the pattern as it is stored for as long as no other
\* request that writes the pattern overlaps the activation or is made after it:
\* update_pattern and delete_pattern publish nothing.
ActivationSettles ==
  /\ \A d \in settled : retained[d].pid = active[d]
  /\ \A d \in current : retained[d] = Latest(active[d])
=============================================================================
