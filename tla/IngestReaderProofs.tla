------------------------- MODULE IngestReaderProofs -------------------------
(***************************************************************************)
(* What the readers of the store rely on, for any devices, messages,       *)
(* numbers of faults and any ONLINE_TTL_SEC: a device heard recently is    *)
(* online, and the stream and the snapshots implement DeviceHistory.       *)
(***************************************************************************)
EXTENDS IngestProofs

-----------------------------------------------------------------------------
(* The online flag.                                                        *)

\* A handler holds a time, and its event was received no later.
ClockInv ==
  /\ now >= 1
  /\ pc \in Handling => at >= 1
  /\ \A i \in DOMAIN log : log[i].rx >= 1
  /\ Appended => log[Len(log)].rx <= at

\* lastSeen has reached the time of every logged event, s and torn ones aside.
SeenUpTo(s) ==
  \A i \in DOMAIN log : \/ state[log[i].dev]["lastSeen"] >= log[i].rx
                        \/ log[i].seq = s \/ log[i].seq \in torn

SeenInv ==
  \A i \in DOMAIN log : \/ state[log[i].dev]["lastSeen"] >= log[i].rx
                        \/ InHandler(log[i].seq) \/ log[i].seq \in torn

OnlineInv == ClockInv /\ SeenInv

\* A step of the listener, or none that its handler would notice.
LEMMA HandlerMoves ==
  ASSUME IInv, [Next]_vars
  PROVE  /\ now' \in Nat /\ now <= now'
         /\ \/ Accept
            \/ RedisReplies
            \/ pc' \notin Handling
            \/ UNCHANGED <<pc, at, log>> /\ (pc \in Handling => Current' = Current)
<1> USE DEF store, env, queue
<1>0. now \in Nat
  BY DEF IInv, TypeOK
<1>1. CASE Start \/ Connect \/ Subscribe \/ Refused \/ ConnectionLost \/ Retry
  BY <1>0, <1>1
  DEF Start, Connect, Subscribe, Refused, ConnectionLost, Fail, Retry, Handling
<1>2. CASE Reject \/ RedisFails
  BY <1>0, <1>2 DEF Reject, RedisFails, Handling
<1>3. CASE Accept
  BY <1>0, <1>3 DEF Accept
<1>4. CASE RedisReplies
  BY <1>0, <1>4 DEF RedisReplies
<1>5. CASE Unwind \/ Exit \/ Crash
  BY <1>0, <1>5 DEF Unwind, Exit, Crash, Gone, Handling
<1>6. CASE Stop \/ LinkDrop \/ UNCHANGED vars
  BY <1>0, <1>6 DEF Stop, LinkDrop, Current, vars
<1>7. CASE Tick
  BY <1>0, <1>7 DEF Tick, Current
<1>8. ASSUME NEW d \in Devices, NEW t \in Sending, NEW f \in Flaws,
             Publish(d, t, f)
      PROVE  /\ UNCHANGED <<now, pc, at, log>>
             /\ pc \in Handling => Current' = Current
  BY <1>8, PublishKeepsHead DEF Publish, IInv
<1> QED
  BY <1>0, <1>1, <1>2, <1>3, <1>4, <1>5, <1>6, <1>7, <1>8 DEF Next, Listener

\* How the stream grows.
LEMMA LogGrows ==
  ASSUME IInv, [Next]_vars
  PROVE  \/ log' = log
         \/ /\ pc = "append" /\ Len(log) \in Nat
            /\ DOMAIN log' = 1 .. Len(log) + 1 /\ Len(log') = Len(log) + 1
            /\ \A i \in DOMAIN log : log'[i] = log[i]
            /\ log'[Len(log) + 1].seq = Current.seq
            /\ log'[Len(log) + 1].rx = at
<1>1. CASE log' = log
  BY <1>1
<1>2. CASE pc = "append" /\ AppendEvent(Current)
  <2> DEFINE e == [seq |-> Current.seq, dev |-> Current.dev,
                   type |-> Current.type, rx |-> at]
  <2>1. log \in Seq(Entry) /\ e \in Entry /\ e.seq = Current.seq /\ e.rx = at
    BY <1>2, CurrentType DEF IInv, TypeOK, Entry, Handling
  <2>2. log' = Append(log, e)
    BY <1>2 DEF AppendEvent
  <2> HIDE DEF e
  <2>3. /\ Len(log) \in Nat /\ DOMAIN log = 1 .. Len(log)
        /\ DOMAIN log' = 1 .. Len(log) + 1 /\ Len(log') = Len(log) + 1
        /\ \A i \in 1 .. Len(log) : log'[i] = log[i]
        /\ log'[Len(log) + 1] = e
    BY <2>1, <2>2, AppendProperties, LenProperties
  <2> QED
    BY <1>2, <2>1, <2>3
<1> QED
  BY <1>1, <1>2, StoreStep DEF store, Command, JsonSetReported, JsonSetState

LEMMA ClockStep == IInv /\ ClockInv /\ [Next]_vars => ClockInv'
<1> SUFFICES ASSUME IInv, ClockInv, [Next]_vars PROVE ClockInv'
  OBVIOUS
<1>1. /\ now \in Nat /\ now' \in Nat /\ now <= now' /\ now >= 1
      /\ at \in Nat /\ at <= now
  BY HandlerMoves DEF IInv, TypeOK, StampsPast, ClockInv
<1>2. \A i \in DOMAIN log' : log'[i].rx >= 1
  <2>1. pc = "append" => at >= 1
    BY DEF ClockInv, Handling
  <2>2. \A i \in DOMAIN log : log[i].rx >= 1
    BY DEF ClockInv
  <2>3. DOMAIN log = 1 .. Len(log) /\ Len(log) \in Nat
    BY LogTypes DEF IInv
  <2>4. CASE log' = log
    BY <2>2, <2>4
  <2>5. CASE log' # log
    BY <2>1, <2>2, <2>3, <2>5, LogGrows
  <2> QED
    BY <2>4, <2>5
<1>3. CASE Accept
  BY <1>1, <1>2, <1>3 DEF Accept, FirstAwait, ClockInv, Appended
<1>4. CASE RedisReplies
  <2>1. pc' \in Handling => at' >= 1
    BY <1>1, <1>4 DEF RedisReplies, NextAwait, ClockInv, Handling
  <2>2. CASE pc = "append"
    <3>1. log' # log => log'[Len(log')].rx = at
      BY LogGrows
    <3>2. log' # log
      <4>1. Command(Current)
        BY <1>4 DEF RedisReplies
      <4>2. Len(log') = Len(log) + 1 /\ Len(log) \in Nat
        <5> DEFINE e == [seq |-> Current.seq, dev |-> Current.dev,
                         type |-> Current.type, rx |-> at]
        <5>1. log \in Seq(Entry) /\ e \in Entry
          BY <2>2, CurrentType DEF IInv, TypeOK, Entry, Handling
        <5>2. log' = Append(log, e)
          BY <2>2, <4>1 DEF Command, AppendEvent
        <5> HIDE DEF e
        <5> QED
          BY <5>1, <5>2, AppendProperties, LenProperties
      <4> QED
        BY <4>2
    <3>3. at' = now
      BY <1>4, <2>2 DEF RedisReplies
    <3> QED
      BY <1>1, <1>2, <2>1, <3>1, <3>2, <3>3 DEF ClockInv
  <2>3. CASE pc # "append"
    <3>1. log' = log
      BY <2>3, LogGrows
    <3>2. Appended' => Appended /\ at' = at
      BY <1>4, <2>3 DEF RedisReplies, NextAwait, Appended, Handling
    <3> QED
      BY <1>1, <1>2, <2>1, <3>1, <3>2 DEF ClockInv
  <2> QED
    BY <2>2, <2>3
<1>5. CASE pc' \notin Handling
  BY <1>1, <1>2, <1>5 DEF ClockInv, Appended, Handling
<1>6. CASE UNCHANGED <<pc, at, log>>
  BY <1>1, <1>2, <1>6 DEF ClockInv, Appended
<1> QED
  BY <1>3, <1>4, <1>5, <1>6, HandlerMoves

\* A running handler goes on, is torn, or has just written the snapshot.
LEMMA HandlerEnds ==
  ASSUME IInv, [Next]_vars, pc \in Handling
  PROVE  \/ pc' \in Handling /\ Current'.seq = Current.seq
         \/ Current.seq \in torn'
         \/ pc = "write" /\ Command(Current)
<1> USE DEF store, env, queue
<1>1. CASE RedisReplies
  BY <1>1 DEF RedisReplies, NextAwait, Handling, Current
<1>2. CASE Abandon
  BY <1>2 DEF Abandon
<1>3. CASE RedisFails \/ Unwind \/ Exit \/ Crash
  BY <1>2, <1>3 DEF RedisFails, Unwind, Exit, Crash, Gone
<1>4. CASE Stop \/ LinkDrop \/ Tick \/ UNCHANGED vars
  BY <1>4 DEF Stop, LinkDrop, Tick, vars, Current
<1>5. ASSUME NEW d \in Devices, NEW t \in Sending, NEW f \in Flaws,
             Publish(d, t, f)
      PROVE  pc' \in Handling /\ Current' = Current
  BY <1>5, PublishKeepsHead DEF Publish, IInv
<1>6. CASE \/ Start \/ Connect \/ Subscribe \/ Refused \/ ConnectionLost \/ Retry
           \/ Reject \/ Accept
  BY <1>6 DEF Start, Connect, Subscribe, Refused, ConnectionLost, Retry, Reject,
              Accept, Handling
<1> QED
  BY <1>1, <1>3, <1>4, <1>5, <1>6 DEF Next, Listener

LEMMA SeenStep == IInv /\ OnlineInv /\ [Next]_vars => SeenInv'
<1> SUFFICES ASSUME IInv, OnlineInv, [Next]_vars,
                    NEW i \in DOMAIN log', log'[i].seq \notin torn',
                    ~(pc' \in Handling /\ Current'.seq = log'[i].seq)
             PROVE  state'[log'[i].dev]["lastSeen"] >= log'[i].rx
  BY DEF SeenInv, InHandler
<1>1. /\ torn \subseteq torn' /\ SnapshotForward
      /\ DOMAIN log = 1 .. Len(log) /\ Len(log) \in Nat
      /\ \A j \in DOMAIN log : /\ log[j].dev \in Devices
                               /\ log[j].rx \in Nat /\ log[j].seq \in Nat
      /\ state \in [Devices -> [Attrs -> Nat]]
  BY StoreStep, ForwardStep, LogTypes DEF IInv, TypeOK
<1>2. state' \in [Devices -> [Attrs -> Nat]]
  BY TypeInductive DEF IInv, TypeOK
<1>3. CASE i \in DOMAIN log /\ log'[i] = log[i] /\ ~InHandler(log[i].seq)
  <2>1. state[log[i].dev]["lastSeen"] >= log[i].rx
    BY <1>1, <1>3 DEF OnlineInv, SeenInv
  <2> QED
    BY <1>1, <1>2, <1>3, <2>1 DEF SnapshotForward, Attrs
<1>4. CASE pc \in Handling /\ log'[i].seq = Current.seq
  <2>1. pc = "write" /\ JsonSetState(Current)
    BY <1>4, HandlerEnds DEF InHandler, Command
  <2>2. log' = log /\ state'[Current.dev]["lastSeen"] = at
    BY <1>1, <1>4, <2>1, CurrentType DEF JsonSetState, Upserted, Attrs, IInv
  <2>3. i = Len(log) /\ log[i].dev = Current.dev
    <3>1. Len(log) \in DOMAIN log /\ log[Len(log)].seq = Current.seq
          /\ log[Len(log)].dev = Current.dev
      BY <1>1, <2>1 DEF IInv, AppendedExactly, Appended, TypeOK
    <3> QED
      BY <1>1, <1>4, <2>2, <3>1 DEF IInv, StoreInv, LogInSendOrder
  <2>4. log[Len(log)].rx <= at /\ at \in Nat
    BY <2>1 DEF OnlineInv, ClockInv, Appended, IInv, TypeOK
  <2> QED
    BY <1>1, <2>2, <2>3, <2>4
<1>5. \/ i \in DOMAIN log /\ log'[i] = log[i]
      \/ pc = "append" /\ log'[i].seq = Current.seq
  BY <1>1, LogGrows
<1> QED
  BY <1>3, <1>4, <1>5 DEF InHandler, Handling

LEMMA OnlineInit == Init => OnlineInv
  BY DEF Init, OnlineInv, ClockInv, SeenInv, Appended, Handling

\* A device with an event received in the last ONLINE_TTL_SEC is online, unless
\* that event's handler is still running or died before its last command: every
\* handler, whatever the type of its message, refreshes lastSeen.
THEOREM OnlineCorrect == Spec => []RecentlyHeardIsOnline
<1>1. IInv /\ OnlineInv /\ [Next]_vars => OnlineInv'
  BY ClockStep, SeenStep DEF OnlineInv
<1>2. IInv /\ OnlineInv => RecentlyHeardIsOnline
  <2> SUFFICES ASSUME IInv, OnlineInv, NEW i \in DOMAIN log
               PROVE  \/ now - log[i].rx > OnlineTtl
                      \/ Status(log[i].dev) = "online"
                      \/ InHandler(log[i].seq) \/ log[i].seq \in torn
    BY DEF RecentlyHeardIsOnline
  <2> SUFFICES ASSUME ~InHandler(log[i].seq), log[i].seq \notin torn
               PROVE  \/ now - log[i].rx > OnlineTtl
                      \/ Status(log[i].dev) = "online"
    OBVIOUS
  <2>1. state[log[i].dev]["lastSeen"] >= log[i].rx /\ log[i].rx >= 1
    BY DEF OnlineInv, SeenInv, ClockInv
  <2>2. /\ log[i].dev \in Devices /\ log[i].rx \in Nat /\ now \in Nat
        /\ state[log[i].dev]["lastSeen"] \in Nat
    <3>1. TypeOK
      BY DEF IInv
    <3>2. log[i].dev \in Devices /\ log[i].rx \in Nat
      BY <3>1, LogTypes
    <3>3. now \in Nat /\ state \in [Devices -> [Attrs -> Nat]]
      BY <3>1 DEF TypeOK
    <3>4. "lastSeen" \in Attrs
      BY DEF Attrs
    <3>5. \A d \in Devices : state[d]["lastSeen"] \in Nat
      BY <3>3, <3>4
    <3> QED
      BY <3>2, <3>3, <3>5
  <2> QED
    BY <2>1, <2>2, ConstantsOK DEF Status
<1> QED
  BY <1>1, <1>2, OnlineInit, Inductive, PTL DEF Spec

-----------------------------------------------------------------------------
(* The history.                                                            *)

\* Recorded copies an entry of the stream to an event of the history.
Copy(e) == [seq |-> e.seq, dev |-> e.dev, type |-> e.type]

LEMMA CopyType ==
  ASSUME NEW e \in Entry, e.seq <= MaxMsgs
  PROVE  Copy(e) \in History!Event
<1>1. e.seq \in 1 .. MaxMsgs /\ e.dev \in Devices /\ e.type \in Types
  BY ConstantsOK DEF Entry
<1> QED
  BY <1>1 DEF Copy, History!Event

RecordedIsCopy ==
  /\ Recorded \in Seq(History!Event) /\ Len(Recorded) = Len(log)
  /\ \A i \in 1 .. Len(log) : Recorded[i] = Copy(log[i])

LEMMA RecordedShape == IInv => RecordedIsCopy
<1> SUFFICES ASSUME IInv PROVE RecordedIsCopy
  OBVIOUS
<1>1. Len(log) \in Nat /\ DOMAIN log = 1 .. Len(log) /\ log \in Seq(Entry)
  BY LogTypes DEF IInv, TypeOK
<1>2. \A i \in 1 .. Len(log) : log[i] \in Entry /\ log[i].seq <= MaxMsgs
  <2>1. \A i \in 1 .. Len(log) : log[i] \in Entry
    BY <1>1, ElementOfSeq
  <2>2. \A i \in 1 .. Len(log) : log[i].seq <= sent /\ sent <= MaxMsgs
    BY <1>1 DEF IInv, LogBehindInbox, InboxInOrder
  <2>3. sent \in Nat /\ MaxMsgs \in Nat
    BY ConstantsOK DEF IInv, TypeOK
  <2> QED
    BY <2>1, <2>2, <2>3 DEF Entry
<1>3. \A i \in 1 .. Len(log) : Copy(log[i]) \in History!Event
  BY <1>2, CopyType
<1>4. Recorded = [i \in 1 .. Len(log) |-> Copy(log[i])]
  BY <1>1 DEF Recorded, Copy
<1>5. Recorded \in [1 .. Len(log) -> History!Event]
  BY <1>3, <1>4
<1>6. Recorded \in Seq(History!Event)
  BY <1>1, <1>5, SeqDef
<1>7. Len(Recorded) = Len(log)
  BY <1>1, <1>5
<1> QED
  BY <1>4, <1>6, <1>7 DEF RecordedIsCopy

LEMMA HistoryInit == Init => History!Init
<1> SUFFICES ASSUME Init PROVE History!Init
  OBVIOUS
<1>1. Recorded = <<>>
  <2>1. IInv /\ Len(log) = 0
    BY IInvInit DEF Init
  <2>2. Recorded \in Seq(History!Event) /\ Len(Recorded) = 0
    BY <2>1, RecordedShape DEF RecordedIsCopy
  <2> QED
    BY <2>2, EmptySeq
<1>2. Shadow = [d \in Devices |-> [f \in Fields |-> 0]]
  BY DEF Init, Shadow, Absent, Attrs
<1> QED
  BY <1>1, <1>2 DEF History!Init

\* XADD is the step Record of the history.
LEMMA AppendRecords ==
  ASSUME IInv, IInv', pc = "append", AppendEvent(Current)
  PROVE  History!Record
<1> DEFINE e == [seq |-> Current.seq, dev |-> Current.dev,
                 type |-> Current.type, rx |-> at]
           n == Len(log)
<1>1. log \in Seq(Entry) /\ e \in Entry /\ e.seq = Current.seq
  BY CurrentType DEF IInv, TypeOK, Entry, Handling
<1>2. log' = Append(log, e) /\ state' = state
  BY DEF AppendEvent
<1> HIDE DEF e
<1>3. /\ n \in Nat /\ Len(log') = n + 1 /\ log'[n + 1] = e
      /\ \A i \in 1 .. n : log'[i] = log[i]
  BY <1>1, <1>2, AppendProperties, LenProperties
<1>4. /\ Recorded \in Seq(History!Event) /\ Len(Recorded) = n
      /\ \A i \in 1 .. n : Recorded[i] = Copy(log[i])
  BY RecordedShape DEF RecordedIsCopy
<1>5. /\ Recorded' \in Seq(History!Event) /\ Len(Recorded') = n + 1
      /\ \A i \in 1 .. n + 1 : Recorded'[i] = Copy(log'[i])
  <2>1. RecordedIsCopy'
    BY RecordedShape, PTL
  <2> QED
    BY <1>3, <2>1 DEF RecordedIsCopy, History!Event, Copy
<1>6. Copy(e) \in History!Event
  <2>1. Current.seq <= sent /\ sent <= MaxMsgs /\ sent \in Nat
    BY LogUpToCurrent DEF IInv, InboxInOrder, TypeOK, Handling
  <2>2. Current.seq \in Nat
    BY CurrentType DEF IInv, Handling
  <2> QED
    BY <1>1, <2>1, <2>2, CopyType, ConstantsOK
<1>7. Recorded' = Append(Recorded, Copy(e))
  <2>1. /\ Append(Recorded, Copy(e)) \in Seq(History!Event)
        /\ Len(Append(Recorded, Copy(e))) = n + 1
        /\ \A i \in 1 .. n : Append(Recorded, Copy(e))[i] = Recorded[i]
        /\ Append(Recorded, Copy(e))[n + 1] = Copy(e)
    BY <1>4, <1>6, AppendProperties
  <2>2. \A i \in 1 .. n + 1 : Append(Recorded, Copy(e))[i] = Recorded'[i]
    BY <1>3, <1>4, <1>5, <2>1
  <2> QED
    BY <1>3, <1>5, <2>1, <2>2, SeqEqual
<1>8. Recorded # <<>> => History!Newest.seq < Copy(e).seq
  <2>1. Recorded # <<>> => n \in 1 .. n
    BY <1>3, <1>4, EmptySeq
  <2>2. n \in 1 .. n => log[n].seq < Current.seq
    BY LogUpToCurrent, <1>3, LogTypes DEF Appended, IInv, Handling
  <2>3. Copy(e).seq = Current.seq /\ \A x : Copy(x).seq = x.seq
    BY <1>1 DEF Copy
  <2>4. n \in 1 .. n => History!Newest.seq = log[n].seq
    BY <1>4, <2>3 DEF History!Newest
  <2> QED
    BY <2>1, <2>2, <2>3, <2>4
<1>9. Shadow' = Shadow
  BY <1>2 DEF Shadow
<1> QED
  BY <1>6, <1>7, <1>8, <1>9 DEF History!Record

\* The SET of upsert_state is the step Reflect of the history, or no step of it
\* when the message has no field in the snapshot.
LEMMA WriteReflects ==
  ASSUME IInv, pc = "write", JsonSetState(Current)
  PROVE  History!Reflect \/ UNCHANGED History!vars
<1> DEFINE c == Current.dev
           t == Current.type
           n == Len(log)
<1>1. /\ c \in Devices /\ t \in Types /\ n \in 1 .. n /\ n \in Nat
      /\ log[n].seq = Current.seq /\ log[n].dev = c /\ log[n].type = t
      /\ snap = state[c]
  BY CurrentType, LogTypes
  DEF IInv, AppendedExactly, Appended, SnapFresh, TypeOK, Handling
<1>2. /\ log' = log /\ state' = [state EXCEPT ![c] = Upserted(Current)]
      /\ state \in [Devices -> [Attrs -> Nat]]
  BY DEF JsonSetState, IInv, TypeOK
<1>3. \A d \in Devices, f \in Fields :
        state'[d][f] = IF d = c /\ f = t THEN Current.seq ELSE state[d][f]
  BY <1>1, <1>2 DEF Upserted, Attrs, Fields
<1>4. Recorded' = Recorded
  BY <1>2 DEF Recorded
<1>5. CASE t \notin Fields
  <2>1. \A d \in Devices, f \in Fields : state'[d][f] = state[d][f]
    BY <1>3, <1>5
  <2>2. Shadow' = Shadow
    BY <2>1 DEF Shadow
  <2> QED
    BY <1>4, <2>2 DEF History!vars
<1>6. CASE t \in Fields
  <2>1. /\ Recorded # <<>> /\ History!Newest.seq = Current.seq
        /\ History!Newest.dev = c /\ History!Newest.type = t
    <3>1. /\ Recorded \in Seq(History!Event) /\ Len(Recorded) = n
          /\ Recorded[n] = Copy(log[n])
      BY <1>1, RecordedShape DEF RecordedIsCopy
    <3>2. Recorded # <<>>
      BY <1>1, <3>1, EmptySeq
    <3> QED
      BY <1>1, <3>1, <3>2 DEF History!Newest, Copy
  <2>2. Shadow' = [Shadow EXCEPT ![c][t] = Current.seq]
    <3> DEFINE row == [Shadow[c] EXCEPT ![t] = Current.seq]
    <3>1. \A f \in Fields : state'[c][f] = row[f]
      BY <1>1, <1>3, <1>6 DEF Shadow
    <3>2. [f \in Fields |-> state'[c][f]] = row
      BY <1>1, <3>1 DEF Shadow
    <3>3. \A d \in Devices \ {c} :
            [f \in Fields |-> state'[d][f]] = Shadow[d]
      BY <1>3 DEF Shadow
    <3> HIDE DEF row
    <3>4. Shadow' = [d \in Devices |-> IF d = c THEN row ELSE Shadow[d]]
      BY <3>2, <3>3 DEF Shadow
    <3>5. [Shadow EXCEPT ![c] = row] =
            [d \in Devices |-> IF d = c THEN row ELSE Shadow[d]]
      BY DEF Shadow
    <3> QED
      BY <3>4, <3>5 DEF row
  <2> QED
    BY <1>4, <1>6, <2>1, <2>2 DEF History!Reflect
<1> QED
  BY <1>5, <1>6

LEMMA HistoryStep ==
  IInv /\ IInv' /\ [Next]_vars => [History!Next]_(History!vars)
<1> SUFFICES ASSUME IInv, IInv', [Next]_vars
             PROVE  History!Next \/ UNCHANGED History!vars
  OBVIOUS
<1>1. CASE UNCHANGED <<log, state>>
  BY <1>1 DEF Recorded, Shadow, History!vars
<1>2. CASE pc = "append" /\ AppendEvent(Current)
  BY <1>2, AppendRecords DEF History!Next
<1>3. CASE pc = "write" /\ JsonSetState(Current)
  BY <1>3, WriteReflects DEF History!Next
<1> QED
  BY <1>1, <1>2, <1>3, StoreStep DEF store, Command, JsonSetReported

\* The listener, its failures and its restarts included, implements the
\* history: an XADD records an event, the last SET of a handler moves the
\* snapshot of the device to it, and nothing else is visible.
THEOREM HistoryCorrect == Spec => HistorySpec
<1>1. IInv /\ IInv' /\ [Next]_vars => [History!Next]_(History!vars)
  BY HistoryStep
<1> QED
  BY <1>1, HistoryInit, Inductive, PTL DEF Spec, HistorySpec, History!Spec
=============================================================================
