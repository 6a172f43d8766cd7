-------------------------- MODULE PatternCatalogue --------------------------
(***************************************************************************)
(* What the pattern endpoints promise one caller at a time: a catalogue of *)
(* patterns in which every operation takes effect at once, or not at all.  *)
(***************************************************************************)
EXTENDS Naturals

CONSTANTS Patterns,  \* pattern identifiers
          Contents   \* name, algorithm and representation, as one value

VARIABLE catalogue   \* the listed patterns with their records

Listed == DOMAIN catalogue

With(p, r) == [q \in Listed \cup {p} |-> IF q = p THEN r ELSE catalogue[q]]

Init == catalogue = [p \in {} |-> 0]

Register == \E p \in Patterns \ Listed, c \in Contents :
  catalogue' = With(p, [version |-> 1, isActive |-> FALSE, content |-> c])

Revise == \E p \in Listed, c \in Contents :
  catalogue' = With(p, [catalogue[p] EXCEPT !.version = @ + 1, !.content = c])

Activate == \E p \in Listed :
  catalogue' = With(p, [catalogue[p] EXCEPT !.isActive = TRUE])

Remove == \E p \in Listed : catalogue' = [q \in Listed \ {p} |-> catalogue[q]]

Next == Register \/ Revise \/ Activate \/ Remove

Spec == Init /\ [][Next]_catalogue
=============================================================================
