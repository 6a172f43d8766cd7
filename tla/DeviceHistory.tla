--------------------------- MODULE DeviceHistory ---------------------------
(***************************************************************************)
(* What the ingest side promises to every reader of Redis, with no broker, *)
(* no await and no failure in sight: device events are recorded in one     *)
(* history, in the order they were sent and at most once, and the snapshot *)
(* of a device only ever moves to the newest recorded event.               *)
(***************************************************************************)
EXTENDS Naturals, Sequences

CONSTANTS Ids,       \* positive numbers that order the events as they were sent
          Devices,   \* device identifiers
          Types,     \* the six message types
          Fields     \* the types whose payload is copied into the snapshot

VARIABLES history,   \* the events recorded so far, oldest first
          shadow     \* per device and field: the event it shows, 0 for none

vars == <<history, shadow>>

Event == [seq : Ids, dev : Devices, type : Types]
Newest == history[Len(history)]

Init == /\ history = <<>>
        /\ shadow = [d \in Devices |-> [f \in Fields |-> 0]]

Record == \E e \in Event :
            /\ history # <<>> => Newest.seq < e.seq
            /\ history' = Append(history, e)
            /\ UNCHANGED shadow

Reflect == /\ history # <<>>
           /\ Newest.type \in Fields
           /\ shadow' = [shadow EXCEPT ![Newest.dev][Newest.type] = Newest.seq]
           /\ UNCHANGED history

Next == Record \/ Reflect

Spec == Init /\ [][Next]_vars
=============================================================================
