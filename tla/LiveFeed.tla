------------------------------ MODULE LiveFeed ------------------------------
(***************************************************************************)
(* The live websocket (handle_ws in api/events.py): a loop that looks at   *)
(* the newest entries of the event stream and sends the amplitude of the   *)
(* newest knock_live event of its device, once, and a zero when there is   *)
(* none to send.  An action is the code between two awaits; the listener   *)
(* appends in between.                                                     *)
(*                                                                         *)
(* The stream is trimmed to no fewer than Peek entries, so it is modelled  *)
(* as a log that only grows, and an event is its place in it.              *)
(***************************************************************************)
EXTENDS Naturals, Sequences

CONSTANTS Peek,       \* how many entries a poll reads
          Amps,       \* amplitudes, 0 among them
          None,       \* no amplitude: nothing sent yet, or no knock in a window
          MaxEvents,  \* bound: events
          MaxOpens,   \* bound: connections, one after the other
          MaxFaults   \* bound: Redis errors and crashes

ASSUME ConstantsOK == /\ Peek \in Nat \ {0} /\ Amps \subseteq Nat
                      /\ None \notin Nat
                      /\ MaxEvents \in Nat /\ MaxOpens \in Nat
                      /\ MaxFaults \in Nat

VARIABLES
  log,     \* the event stream
  step,    \* the await handle_ws is suspended at, or "closed"
  client,  \* the other end of the connection: "open" or "gone"
  seen,    \* seenEventId
  prev,    \* prev: the last value sent
  event,   \* the event being sent
  out,     \* what this connection has sent: events, 0 for an idle zero
  polled,  \* (history) how long the log was at the last poll
  opens,   \* connections so far
  faults   \* faults so far

socket == <<step, client, seen, prev, event, out, polled>>
vars   == <<log, socket, opens, faults>>

\* live: a knock_live event of this connection's device, whose first knock has
\* this amplitude; events of other types and other devices are all alike
Entry == [live : BOOLEAN, id : Nat, amp : Amps \cup {None}]

Init == /\ log = <<>>
        /\ step = "closed" /\ client = "gone" /\ seen = {} /\ prev = None
        /\ event = 0 /\ out = <<>> /\ polled = 0
        /\ opens = 0 /\ faults = 0

-----------------------------------------------------------------------------
(* The listener appends.                                                   *)

AppendEvent(e) == /\ Len(log) < MaxEvents
                  /\ log' = Append(log, e)
                  /\ UNCHANGED <<socket, opens, faults>>

\* The eventId comes from the device, which may use one again; the list of
\* knocks in a window may be empty.
AppendLive ==
  \E id \in {log[i].id : i \in {j \in DOMAIN log : log[j].live}}
             \cup {Len(log) + 1},
     amp \in Amps \cup {None} :
    AppendEvent([live |-> TRUE, id |-> id, amp |-> amp])

AppendOther == AppendEvent([live |-> FALSE, id |-> 0, amp |-> None])

-----------------------------------------------------------------------------
(* The connection.                                                         *)

\* websocket.accept, then the locals of the loop
Accept == /\ step = "closed" /\ opens < MaxOpens
          /\ opens' = opens + 1
          /\ step' = "read" /\ client' = "open" /\ seen' = {} /\ prev' = None
          /\ event' = 0 /\ out' = <<>> /\ polled' = 0
          /\ UNCHANGED <<log, faults>>

\* XREVRANGE COUNT Peek
Window == {i \in 1 .. Len(log) : i + Peek > Len(log) /\ log[i].live}

\* mutant: an event seen before does not end the search
NewestUnseen ==
  {i \in Window : /\ log[i].id \notin seen
                  /\ \A j \in Window : log[j].id \notin seen => j <= i}

\* mutant: only the last entry is read
NewestOfOne == {i \in Window : i = Len(log)}

\* The event at which the search ends (a set of at most one).
Newest == {i \in Window : \A j \in Window : j <= i}

\* mutant: an empty list of knocks is not looked for
PollFindsAnything ==
  /\ step = "read"
  /\ polled' = Len(log)
  /\ \E i \in Newest : /\ log[i].id \notin seen
                       /\ seen' = seen \cup {log[i].id}
                       /\ step' = "send" /\ event' = i
  /\ UNCHANGED <<log, client, prev, out, opens, faults>>

\* An event not seen before: its first knock is taken, which raises IndexError
\* and ends the handler when there is none.
PollFinds ==
  /\ step = "read"
  /\ polled' = Len(log)
  /\ \E i \in Newest :
       /\ log[i].id \notin seen
       /\ seen' = seen \cup {log[i].id}
       /\ IF log[i].amp = None THEN step' = "closed" /\ event' = 0
                               ELSE step' = "send"   /\ event' = i
  /\ UNCHANGED <<log, client, prev, out, opens, faults>>

\* mutant: a zero is only sent at the start
PollIdleOnce ==
  /\ step = "read"
  /\ polled' = Len(log)
  /\ \A i \in Newest : log[i].id \in seen
  /\ step' = IF prev = None THEN "zero" ELSE "read"
  /\ UNCHANGED <<log, client, seen, prev, event, out, opens, faults>>

\* Nothing new: the zero, unless a zero was the last value sent.
PollIdle ==
  /\ step = "read"
  /\ polled' = Len(log)
  /\ \A i \in Newest : log[i].id \in seen
  /\ step' = IF prev # 0 THEN "zero" ELSE "read"
  /\ UNCHANGED <<log, client, seen, prev, event, out, opens, faults>>

\* mutant: a client that is gone is not noticed
SendToNobody ==
  /\ step \in {"send", "zero"}
  /\ step' = "read" /\ event' = 0
  /\ IF client = "open"
     THEN /\ out' = Append(out, event)
          /\ prev' = IF step = "send" THEN log[event].amp ELSE 0
     ELSE UNCHANGED <<out, prev>>
  /\ UNCHANGED <<log, client, seen, polled, opens, faults>>

\* send_text raises when the client is gone, and the handler ends.
Send ==
  /\ step \in {"send", "zero"}
  /\ IF client = "open"
     THEN /\ step' = "read" /\ out' = Append(out, event)
          /\ prev' = IF step = "send" THEN log[event].amp ELSE 0
     ELSE /\ step' = "closed" /\ UNCHANGED <<out, prev>>
  /\ event' = 0
  /\ UNCHANGED <<log, client, seen, polled, opens, faults>>

Loop == PollFinds \/ PollIdle \/ Send

ClientLeaves == /\ client = "open"
                /\ client' = "gone"
                /\ UNCHANGED <<log, step, seen, prev, event, out, polled, opens,
                               faults>>

\* A Redis error at the poll, or the end of the process.
Broken == /\ step # "closed" /\ faults < MaxFaults
          /\ faults' = faults + 1
          /\ step' = "closed" /\ event' = 0
          /\ UNCHANGED <<log, client, seen, prev, out, polled, opens>>

Next == AppendLive \/ AppendOther \/ Accept \/ Loop \/ ClientLeaves \/ Broken

Spec == Init /\ [][Next]_vars

\* The event loop resumes the handler when Redis or the socket has answered.
FairSpec == Spec /\ WF_vars(Loop)

-----------------------------------------------------------------------------
(* Properties.                                                             *)

\* The shape of every variable; what was sent or is being sent has a knock.
TypeOK ==
  /\ log \in Seq(Entry)
  /\ step \in {"closed", "read", "send", "zero"}
  /\ client \in {"open", "gone"}
  /\ seen \subseteq Nat /\ prev \in Amps \cup {0, None}
  /\ event \in 0 .. Len(log) /\ out \in Seq(0 .. Len(log))
  /\ polled \in 0 .. Len(log)
  /\ opens \in 0 .. MaxOpens /\ faults \in 0 .. MaxFaults
  /\ step = "send" <=> event # 0
  /\ step = "send" => log[event].live /\ log[event].amp # None

\* A connection sends events in the order of the stream and none twice, also
\* when eventIds are used again, whatever is appended between two polls and
\* falls out of the five entries it looks at.
SentInOrder ==
  \A j, k \in DOMAIN out :
    j < k /\ out[j] # 0 /\ out[k] # 0
      => out[j] < out[k] /\ log[out[j]].id # log[out[k]].id

\* An event of this device is shown: it was sent, or is being sent, or another
\* one with its eventId.
Shown(i) == \/ \E k \in DOMAIN out : out[k] # 0 /\ log[out[k]].id = log[i].id
            \/ step = "send" /\ log[event].id = log[i].id

\* What an open connection has not shown it could not have seen at its last
\* poll: a newer event of its device or Peek newer entries were in front.
MissedWasCovered ==
  \A i \in 1 .. polled :
    \/ step = "closed" \/ ~log[i].live \/ Shown(i)
    \/ \E j \in i + 1 .. polled : log[j].live
    \/ i + Peek <= polled

\* A knock is not shown for ever: after a value other than zero something else
\* is sent, or the connection ends.
KnockEnds ==
  \A n \in 1 .. 2 * MaxEvents + 1 :
    (Len(out) = n /\ prev # 0) ~> (Len(out) # n \/ step = "closed")

\* A client that goes away while the last value it got was not zero is noticed,
\* and its connection ends.  (At zero it is not: nothing is sent to it.)
GoneClientNoticed == (client = "gone" /\ prev # 0) ~> (step = "closed")
=============================================================================
