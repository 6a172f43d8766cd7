-------------------------- MODULE LiveFeedProofs ---------------------------
(***************************************************************************)
(* What the live websocket sends and what it misses, for any number of     *)
(* events, amplitudes and connections and any window of a poll.            *)
(***************************************************************************)
EXTENDS LiveFeed, SequenceTheorems, TLAPS

-----------------------------------------------------------------------------
(* Type correctness.                                                       *)

\* The log only grows at its end.
Grown == /\ Len(log') = Len(log) + 1 /\ log' \in Seq(Entry)
         /\ \A i \in 1 .. Len(log) : log'[i] = log[i]

LEMMA LogGrows ==
  ASSUME TypeOK, AppendLive \/ AppendOther
  PROVE  Grown /\ UNCHANGED <<socket, opens, faults>>
<1>1. ASSUME NEW e \in Entry, AppendEvent(e)
      PROVE  Grown /\ UNCHANGED <<socket, opens, faults>>
  BY <1>1, AppendProperties, LenProperties DEF AppendEvent, Grown, TypeOK
<1>2. log \in Seq(Entry)
  BY DEF TypeOK
<1>3. CASE AppendLive
  <2>1. PICK id \in {log[i].id : i \in {j \in DOMAIN log : log[j].live}}
                      \cup {Len(log) + 1},
             amp \in Amps \cup {None} :
               AppendEvent([live |-> TRUE, id |-> id, amp |-> amp])
    BY <1>3 DEF AppendLive
  <2>2. Len(log) \in Nat /\ \A j \in DOMAIN log : log[j] \in Entry
    BY <1>2, LenProperties, ElementOfSeq
  <2>3. id \in Nat
    BY <2>1, <2>2 DEF Entry
  <2>4. [live |-> TRUE, id |-> id, amp |-> amp] \in Entry
    BY <2>3 DEF Entry
  <2> QED
    BY <1>1, <2>1, <2>4
<1>4. CASE AppendOther
  BY <1>1, <1>4 DEF AppendOther, Entry
<1> QED
  BY <1>3, <1>4

LEMMA WiderOut ==
  ASSUME NEW m \in Nat, NEW n \in Nat, m <= n, NEW s \in Seq(0 .. m)
  PROVE  s \in Seq(0 .. n)
<1>1. s \in [1 .. Len(s) -> 0 .. n] /\ Len(s) \in Nat
  BY LenProperties
<1> QED
  BY <1>1

LEMMA InitType == Init => TypeOK
<1> SUFFICES ASSUME Init PROVE TypeOK
  OBVIOUS
<1>1. Len(log) = 0 /\ log \in Seq(Entry) /\ out \in Seq(0 .. Len(log))
  BY EmptySeq DEF Init
<1> QED
  BY <1>1, ConstantsOK DEF Init, TypeOK

LEMMA TypeInductive == TypeOK /\ [Next]_vars => TypeOK'
<1> SUFFICES ASSUME TypeOK, [Next]_vars PROVE TypeOK'
  OBVIOUS
<1>0. /\ log \in Seq(Entry) /\ Len(log) \in Nat
      /\ \A i \in 1 .. Len(log) : log[i] \in Entry
      /\ out \in Seq(0 .. Len(log))
  BY LenProperties DEF TypeOK
<1>1. CASE AppendLive \/ AppendOther
  <2>1. Grown /\ UNCHANGED <<socket, opens, faults>>
    BY <1>1, LogGrows
  <2>2. out' \in Seq(0 .. Len(log'))
    BY <1>0, <2>1, WiderOut DEF Grown, socket
  <2>3. step = "send" => event \in 1 .. Len(log)
    BY <1>0 DEF TypeOK
  <2>4. step' = "send" => log'[event'].live /\ log'[event'].amp # None
    BY <2>1, <2>3 DEF Grown, TypeOK, socket
  <2>5. event' \in 0 .. Len(log') /\ polled' \in 0 .. Len(log')
    BY <1>0, <2>1 DEF Grown, TypeOK, socket
  <2>6. log' \in Seq(Entry)
    BY <2>1 DEF Grown
  <2>7. /\ step' = step /\ client' = client /\ seen' = seen /\ prev' = prev
        /\ event' = event /\ opens' = opens /\ faults' = faults
    BY <2>1 DEF socket
  <2> QED
    BY <2>2, <2>4, <2>5, <2>6, <2>7 DEF TypeOK
<1>2. CASE Accept
  <2>1. <<>> \in Seq(0 .. Len(log))
    BY EmptySeq
  <2> QED
    BY <1>0, <1>2, <2>1, ConstantsOK DEF Accept, TypeOK
<1>3. CASE PollFinds
  <2>1. PICK i \in Newest :
          /\ log[i].id \notin seen
          /\ seen' = seen \cup {log[i].id}
          /\ IF log[i].amp = None THEN step' = "closed" /\ event' = 0
                                  ELSE step' = "send"   /\ event' = i
    BY <1>3 DEF PollFinds
  <2>2. i \in 1 .. Len(log) /\ log[i].live /\ log[i] \in Entry /\ i # 0
    BY <1>0, <2>1 DEF Newest, Window
  <2>3. seen' \subseteq Nat
    BY <2>1, <2>2 DEF TypeOK, Entry
  <2>4. /\ step' \in {"closed", "send"} /\ event' \in 0 .. Len(log)
        /\ step' = "send" <=> event' # 0
        /\ step' = "send" => log[event'].live /\ log[event'].amp # None
    BY <1>0, <2>1, <2>2
  <2> QED
    BY <1>0, <1>3, <2>3, <2>4 DEF PollFinds, TypeOK
<1>4. CASE PollIdle
  BY <1>0, <1>4 DEF PollIdle, TypeOK
<1>5. CASE Send
  <2>1. Append(out, event) \in Seq(0 .. Len(log))
    BY <1>0, AppendProperties DEF TypeOK
  <2>2. step = "send" => event \in 1 .. Len(log) /\ log[event].amp \in Amps \cup {None}
    BY <1>0 DEF TypeOK, Entry
  <2>3. /\ log' = log /\ client' = client /\ seen' = seen /\ polled' = polled
        /\ opens' = opens /\ faults' = faults
        /\ step' \in {"read", "closed"} /\ event' = 0
        /\ out' \in {out, Append(out, event)}
        /\ prev' \in {prev, 0} \/ (step = "send" /\ prev' = log[event].amp)
    BY <1>5 DEF Send
  <2>4. prev' \in Amps \cup {0, None}
    BY <2>2, <2>3 DEF TypeOK
  <2>5. out' \in Seq(0 .. Len(log))
    BY <1>0, <2>1, <2>3
  <2> QED
    BY <1>0, <2>3, <2>4, <2>5 DEF TypeOK
<1>6. CASE ClientLeaves
  BY <1>0, <1>6 DEF ClientLeaves, TypeOK
<1>7. CASE Broken
  BY <1>0, <1>7, ConstantsOK DEF Broken, TypeOK
<1>8. CASE UNCHANGED vars
  BY <1>8 DEF vars, socket, TypeOK
<1> QED
  BY <1>1, <1>2, <1>3, <1>4, <1>5, <1>6, <1>7, <1>8 DEF Next, Loop

\* Every variable keeps its type; handle_ws never gets to send_text with an
\* event that is not a knock of its device or has no first knock.
THEOREM TypeCorrect == Spec => []TypeOK
  BY InitType, TypeInductive, PTL DEF Spec

-----------------------------------------------------------------------------
(* The inductive invariant.                                                *)

\* Whatever was sent was live at its place and is known as seen.
SentAreSeen ==
  \A k \in DOMAIN out : out[k] # 0 =>
    log[out[k]].live /\ log[out[k]].id \in seen

\* What is being sent is seen, newer than all that was sent, and no repetition.
SendingIsNewer ==
  step = "send" =>
    /\ log[event].id \in seen
    /\ \A k \in DOMAIN out : out[k] # 0 =>
         out[k] < event /\ log[out[k]].id # log[event].id

\* What is seen was sent or is being sent: a poll marks an event before the
\* send, but the connection is gone when the send does not happen.
SeenAreShown ==
  step # "closed" =>
    \A x \in seen : \/ \E k \in DOMAIN out : out[k] # 0 /\ log[out[k]].id = x
                    \/ step = "send" /\ log[event].id = x

IInv == /\ TypeOK /\ SentAreSeen /\ SendingIsNewer /\ SeenAreShown
        /\ SentInOrder /\ MissedWasCovered

LEMMA InitIInv == Init => IInv
<1> SUFFICES ASSUME Init PROVE IInv
  OBVIOUS
<1>1. DOMAIN out = {}
  BY DEF Init
<1>2. 1 .. polled = {}
  BY DEF Init
<1> QED
  BY <1>1, <1>2, InitType
     DEF Init, IInv, SentAreSeen, SendingIsNewer, SeenAreShown, SentInOrder,
         MissedWasCovered

\* Places in the log.
LEMMA Places ==
  ASSUME TypeOK
  PROVE  /\ Len(log) \in Nat /\ Peek \in Nat /\ polled \in 0 .. Len(log)
         /\ DOMAIN out = 1 .. Len(out) /\ Len(out) \in Nat
         /\ \A k \in DOMAIN out : /\ out[k] \in 0 .. Len(log)
                                  /\ out[k] # 0 => out[k] \in 1 .. Len(log)
         /\ event \in 0 .. Len(log)
         /\ step = "send" => event \in 1 .. Len(log)
<1>1. log \in Seq(Entry) /\ out \in Seq(0 .. Len(log)) /\ event \in 0 .. Len(log)
  BY DEF TypeOK
<1>2. Len(log) \in Nat /\ DOMAIN out = 1 .. Len(out) /\ Len(out) \in Nat
  BY <1>1, LenProperties
<1>3. \A k \in DOMAIN out : out[k] \in 0 .. Len(log)
  BY <1>1, ElementOfSeq, <1>2
<1> QED
  BY <1>1, <1>2, <1>3, ConstantsOK DEF TypeOK

\* A live event not seen before at which a poll ends is newer than all events
\* sent: those still in the window are older, the others were before it.
LEMMA NewestIsNewer ==
  ASSUME TypeOK, SentAreSeen, NEW i \in Newest, log[i].id \notin seen
  PROVE  \A k \in DOMAIN out : out[k] # 0 =>
           out[k] < i /\ log[out[k]].id # log[i].id
<1> SUFFICES ASSUME NEW k \in DOMAIN out, out[k] # 0
             PROVE  out[k] < i /\ log[out[k]].id # log[i].id
  OBVIOUS
<1>1. /\ out[k] \in 1 .. Len(log) /\ Len(log) \in Nat /\ Peek \in Nat
      /\ i \in 1 .. Len(log) /\ i + Peek > Len(log)
  BY Places DEF Newest, Window
<1>2. log[out[k]].live /\ log[out[k]].id \in seen
  BY DEF SentAreSeen
<1>3. CASE out[k] + Peek > Len(log)
  <2>1. out[k] \in Window
    BY <1>1, <1>2, <1>3 DEF Window
  <2>2. out[k] <= i
    BY <2>1 DEF Newest
  <2> QED
    BY <1>1, <1>2, <2>2
<1>4. CASE ~(out[k] + Peek > Len(log))
  BY <1>1, <1>2, <1>4
<1> QED
  BY <1>3, <1>4

\* Steps that leave the stream, and what was sent, alone.
LEMMA InductiveStill ==
  ASSUME IInv, TypeOK', UNCHANGED <<log, out, seen, polled>>,
         \/ step' = "closed"
         \/ step' = step /\ event' = event
      PROVE IInv'
<1>1. SentAreSeen' /\ SentInOrder'
  BY DEF IInv, SentAreSeen, SentInOrder
<1>2. SendingIsNewer' /\ SeenAreShown'
  BY DEF IInv, SendingIsNewer, SeenAreShown
<1>3. MissedWasCovered'
  BY DEF IInv, MissedWasCovered, Shown
<1> QED
  BY <1>1, <1>2, <1>3 DEF IInv

LEMMA InductiveAppend ==
  ASSUME IInv, TypeOK', AppendLive \/ AppendOther
  PROVE  IInv'
<1>0. TypeOK
  BY DEF IInv
<1>1. /\ Grown /\ UNCHANGED socket
  BY <1>0, LogGrows
<1>2. /\ step' = step /\ event' = event /\ out' = out /\ seen' = seen /\ polled' = polled
  BY <1>1 DEF socket
<1>3. /\ \A k \in DOMAIN out : out[k] # 0 => log'[out[k]] = log[out[k]]
      /\ step = "send" => log'[event] = log[event]
      /\ \A i \in 1 .. polled : log'[i] = log[i]
  BY <1>0, <1>1, Places DEF Grown
<1>4. SentAreSeen' /\ SentInOrder'
  BY <1>2, <1>3 DEF IInv, SentAreSeen, SentInOrder
<1>5. SendingIsNewer' /\ SeenAreShown'
  BY <1>2, <1>3 DEF IInv, SendingIsNewer, SeenAreShown
<1>6. ASSUME NEW i \in 1 .. polled
      PROVE  \/ step' = "closed" \/ ~log'[i].live \/ Shown(i)'
             \/ \E j \in i + 1 .. polled : log'[j].live
             \/ i + Peek <= polled
  <2>1. Shown(i) => Shown(i)'
    BY <1>2, <1>3, <1>6 DEF Shown
  <2>2. \A j \in i + 1 .. polled : log'[j] = log[j]
    BY <1>0, <1>3, Places
  <2> QED
    BY <1>2, <1>3, <2>1, <2>2 DEF IInv, MissedWasCovered
<1>7. MissedWasCovered'
  BY <1>2, <1>6 DEF MissedWasCovered
<1> QED
  BY <1>4, <1>5, <1>7 DEF IInv

LEMMA InductivePoll ==
  ASSUME IInv, TypeOK', PollFinds \/ PollIdle
  PROVE  IInv'
<1>0. TypeOK /\ step = "read"
  BY DEF IInv, PollFinds, PollIdle
<1>1. log' = log /\ out' = out /\ polled' = Len(log)
  BY DEF PollFinds, PollIdle
<1>2. ASSUME NEW i \in 1 .. Len(log), log[i].live
      PROVE  \/ i \in Newest
             \/ \E j \in i + 1 .. Len(log) : log[j].live
             \/ i + Peek <= Len(log)
  <2>1. CASE i + Peek > Len(log)
    <3>1. i \in Window
      BY <1>2, <2>1 DEF Window
    <3>2. CASE i \notin Newest
      <4>1. PICK j \in Window : ~(j <= i)
        BY <3>1, <3>2 DEF Newest
      <4>2. j \in i + 1 .. Len(log) /\ log[j].live
        BY <1>0, <1>2, <4>1, Places DEF Window
      <4> QED
        BY <4>2
    <3> QED
      BY <3>2
  <2> QED
    BY <1>0, <1>2, <2>1, Places
<1>3. ASSUME \A i \in Newest : step' = "closed" \/ Shown(i)'
      PROVE  MissedWasCovered'
  BY <1>1, <1>2, <1>3 DEF MissedWasCovered
<1>4. CASE PollFinds
  <2>1. PICK i \in Newest :
          /\ log[i].id \notin seen
          /\ seen' = seen \cup {log[i].id}
          /\ IF log[i].amp = None THEN step' = "closed" /\ event' = 0
                                  ELSE step' = "send"   /\ event' = i
    BY <1>4 DEF PollFinds
  <2>2. \A j \in Newest : j = i
    BY <2>1, <1>0, Places DEF Newest, Window
  <2>3. SentAreSeen' /\ SentInOrder'
    BY <1>1, <2>1 DEF IInv, SentAreSeen, SentInOrder
  <2>4. SendingIsNewer'
    BY <1>0, <1>1, <2>1, NewestIsNewer DEF IInv, SendingIsNewer
  <2>5. SeenAreShown'
    BY <1>0, <1>1, <2>1 DEF IInv, SeenAreShown
  <2>6. step' = "closed" \/ Shown(i)'
    BY <1>1, <2>1 DEF Shown
  <2> QED
    BY <1>3, <2>2, <2>3, <2>4, <2>5, <2>6 DEF IInv
<1>5. CASE PollIdle
  <2>1. /\ seen' = seen /\ step' \in {"zero", "read"}
        /\ \A i \in Newest : log[i].id \in seen
    BY <1>5 DEF PollIdle
  <2>2. SentAreSeen' /\ SentInOrder' /\ SendingIsNewer' /\ SeenAreShown'
    BY <1>0, <1>1, <2>1
       DEF IInv, SentAreSeen, SentInOrder, SendingIsNewer, SeenAreShown
  <2>3. \A i \in Newest : Shown(i)'
    BY <1>0, <1>1, <2>1 DEF IInv, SeenAreShown, Shown
  <2> QED
    BY <1>3, <2>2, <2>3 DEF IInv
<1> QED
  BY <1>4, <1>5

LEMMA InductiveSend ==
  ASSUME IInv, TypeOK', Send, client = "open"
  PROVE  IInv'
<1>0. TypeOK
  BY DEF IInv
<1>1. /\ step \in {"send", "zero"} /\ step' = "read" /\ out' = Append(out, event)
      /\ log' = log /\ seen' = seen /\ polled' = polled
      /\ step = "send" <=> event # 0
  BY DEF Send, IInv, TypeOK
<1>2. /\ DOMAIN out = 1 .. Len(out) /\ Len(out) \in Nat
      /\ DOMAIN out' = 1 .. Len(out) + 1
      /\ out'[Len(out) + 1] = event
      /\ \A k \in 1 .. Len(out) : out'[k] = out[k]
  <2>1. out \in Seq(0 .. Len(log)) /\ event \in 0 .. Len(log)
    BY <1>0 DEF TypeOK
  <2> QED
    BY <1>1, <2>1, AppendProperties, LenProperties
<1>3. \A k \in DOMAIN out' : \/ k \in DOMAIN out /\ out'[k] = out[k]
                             \/ k = Len(out) + 1 /\ out'[k] = event
  BY <1>2
<1>4. SentAreSeen'
  BY <1>0, <1>1, <1>3 DEF IInv, SentAreSeen, SendingIsNewer, TypeOK
<1>5. SentInOrder'
  <2> SUFFICES ASSUME NEW j \in DOMAIN out', NEW k \in DOMAIN out',
                      j < k, out'[j] # 0, out'[k] # 0
               PROVE  out'[j] < out'[k] /\ log[out'[j]].id # log[out'[k]].id
    BY <1>1 DEF SentInOrder
  <2>1. j \in DOMAIN out /\ out'[j] = out[j]
    BY <1>2
  <2>2. CASE k \in DOMAIN out
    BY <1>2, <2>1, <2>2 DEF IInv, SentInOrder
  <2>3. CASE k = Len(out) + 1
    BY <1>1, <1>2, <2>1, <2>3 DEF IInv, SendingIsNewer
  <2> QED
    BY <1>2, <2>2, <2>3
<1>6. \A x : \/ \E k \in DOMAIN out : out[k] # 0 /\ log[out[k]].id = x
             \/ step = "send" /\ log[event].id = x
        => \E k \in DOMAIN out' : out'[k] # 0 /\ log[out'[k]].id = x
  BY <1>1, <1>2
<1>7. SeenAreShown' /\ SendingIsNewer'
  BY <1>1, <1>6 DEF IInv, SeenAreShown, SendingIsNewer
<1>8. \A i : Shown(i) => Shown(i)'
  BY <1>1, <1>6 DEF Shown
<1>9. MissedWasCovered'
  BY <1>1, <1>8 DEF IInv, MissedWasCovered
<1> QED
  BY <1>4, <1>5, <1>7, <1>9 DEF IInv

LEMMA Inductive == IInv /\ [Next]_vars => IInv'
<1> SUFFICES ASSUME IInv, [Next]_vars PROVE IInv'
  OBVIOUS
<1>0. TypeOK'
  BY TypeInductive DEF IInv
<1>1. CASE AppendLive \/ AppendOther
  BY <1>0, <1>1, InductiveAppend
<1>2. CASE Accept
  <2>1. DOMAIN out' = {} /\ 1 .. polled' = {} /\ seen' = {} /\ step' = "read"
    BY <1>2 DEF Accept
  <2> QED
    BY <1>0, <2>1
       DEF IInv, SentAreSeen, SendingIsNewer, SeenAreShown, SentInOrder,
           MissedWasCovered
<1>3. CASE PollFinds \/ PollIdle
  BY <1>0, <1>3, InductivePoll
<1>4. CASE Send
  <2>1. CASE client # "open"
    BY <1>0, <1>4, <2>1, InductiveStill DEF Send
  <2> QED
    BY <1>0, <1>4, <2>1, InductiveSend
<1>5. CASE ClientLeaves \/ Broken \/ UNCHANGED vars
  BY <1>0, <1>5, InductiveStill DEF ClientLeaves, Broken, vars, socket
<1> QED
  BY <1>1, <1>2, <1>3, <1>4, <1>5 DEF Next, Loop

-----------------------------------------------------------------------------
(* The theorems.                                                           *)

\* handle_ws sends events in the order of the stream and none twice: the search
\* that ends at the newest event of the window never goes back.
THEOREM OrderCorrect == Spec => []SentInOrder
<1>1. IInv => SentInOrder
  BY DEF IInv
<1> QED
  BY <1>1, InitIInv, Inductive, PTL DEF Spec

\* An open connection misses no event but those that a newer one of its device
\* or a full window of entries hid at its last poll.
THEOREM MissedCorrect == Spec => []MissedWasCovered
<1>1. IInv => MissedWasCovered
  BY DEF IInv
<1> QED
  BY <1>1, InitIInv, Inductive, PTL DEF Spec
=============================================================================
