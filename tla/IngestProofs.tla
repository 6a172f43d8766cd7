---------------------------- MODULE IngestProofs ----------------------------
(***************************************************************************)
(* Proofs about the listener and its handlers, for any devices, messages   *)
(* and numbers of faults.                                                  *)
(***************************************************************************)
EXTENDS Ingest, SequenceTheorems, TLAPS

-----------------------------------------------------------------------------
(* Type correctness.                                                       *)

LEMMA SixTopics == Len(SubscribeOrder) = 6
  BY DEF SubscribeOrder

LEMMA InitType == Init => TypeOK
<1> SUFFICES ASSUME Init PROVE TypeOK
  OBVIOUS
<1>1. pc \in Awaits /\ pc \notin Handling
  BY DEF Init, Awaits, Handling
<1>2. inbox \in Seq(Message) /\ log \in Seq(Entry) /\ trimmed \in 0 .. Len(log)
  BY EmptySeq DEF Init
<1>3. Absent \in [Attrs -> Nat]
  BY DEF Absent
<1>4. subs \in 0 .. Len(SubscribeOrder)
  BY SixTopics DEF Init
<1> QED
  BY <1>1, <1>2, <1>3, <1>4 DEF Init, TypeOK

LEMMA CurrentType ==
  ASSUME TypeOK, pc \in Handling
  PROVE  /\ Current \in Message
         /\ Current.seq \in Nat \ {0} /\ Current.dev \in Devices
         /\ Current.type \in Types
<1>1. Current \in Message
  BY DEF TypeOK, Current
<1> QED
  BY <1>1 DEF Message

\* What one Redis command of the current handler may do to the store.
LEMMA CommandType ==
  ASSUME TypeOK, pc \in Handling, Command(Current)
  PROVE  /\ log' \in Seq(Entry) /\ trimmed' \in 0 .. Len(log')
         /\ state' \in [Devices -> [Attrs -> Nat]]
         /\ reported' \in [Devices -> Nat]
<1>2. Current.seq \in Nat \ {0} /\ Current.dev \in Devices /\ Current.type \in Types
  BY CurrentType
<1>3. CASE pc = "report" /\ JsonSetReported(Current)
  BY <1>2, <1>3 DEF TypeOK, JsonSetReported
<1>4. CASE pc = "append" /\ AppendEvent(Current)
  <2> DEFINE e == [seq |-> Current.seq, dev |-> Current.dev,
                   type |-> Current.type, rx |-> at]
  <2>1. e \in Entry
    BY <1>2 DEF TypeOK, Entry
  <2>2. log' = Append(log, e) /\ trimmed' \in TrimChoices(Len(log) + 1)
    BY <1>4 DEF AppendEvent
  <2>3. log' \in Seq(Entry) /\ Len(log') = Len(log) + 1
    BY <2>1, <2>2, AppendProperties DEF TypeOK
  <2>4. trimmed' \in 0 .. Len(log')
    BY <2>2, <2>3 DEF TrimChoices, TypeOK
  <2> QED
    BY <1>4, <2>3, <2>4 DEF AppendEvent, TypeOK
<1>5. CASE pc = "read" /\ UNCHANGED store
  BY <1>5 DEF TypeOK, store
<1>6. CASE pc = "write" /\ JsonSetState(Current)
  <2>1. Upserted(Current) \in [Attrs -> Nat]
    BY <1>2 DEF Upserted, TypeOK
  <2> QED
    BY <1>2, <1>6, <2>1 DEF JsonSetState, TypeOK
<1> QED
  BY <1>3, <1>4, <1>5, <1>6 DEF Command

LEMMA AbandonType ==
  ASSUME TypeOK, Abandon
  PROVE  /\ log' \in Seq(Entry) /\ trimmed' \in 0 .. Len(log')
         /\ state' \in [Devices -> [Attrs -> Nat]]
         /\ reported' \in [Devices -> Nat]
         /\ torn' \subseteq Nat
         /\ snap' \in [Attrs -> Nat] /\ at' \in Nat
<1>1. snap' \in [Attrs -> Nat] /\ at' \in Nat
  BY DEF Abandon, Absent
<1>2. CASE pc \in Handling
  <2>1. Current.seq \in Nat
    BY <1>2, CurrentType
  <2>2. torn' \subseteq Nat
    BY <1>2, <2>1 DEF Abandon, TypeOK
  <2>3. CASE UNCHANGED store
    BY <1>1, <2>2, <2>3 DEF TypeOK, store
  <2>4. CASE Command(Current)
    BY <1>1, <1>2, <2>2, <2>4, CommandType
  <2> QED
    BY <1>2, <2>3, <2>4 DEF Abandon
<1>3. CASE pc \notin Handling
  BY <1>1, <1>3 DEF Abandon, TypeOK, store
<1> QED
  BY <1>2, <1>3

LEMMA TailInbox ==
  ASSUME TypeOK, inbox # <<>>
  PROVE  Tail(inbox) \in Seq(Message)
  BY HeadTailProperties DEF TypeOK

LEMMA TypeInductive == TypeOK /\ [Next]_vars => TypeOK'
<1> SUFFICES ASSUME TypeOK, [Next]_vars PROVE TypeOK'
  OBVIOUS
<1> USE SixTopics
<1>0. <<>> \in Seq(Message)
  BY EmptySeq
<1>1. CASE Start
  BY <1>1 DEF Start, TypeOK, Awaits, Handling, queue, store, env
<1>2. CASE Connect
  BY <1>0, <1>2 DEF Connect, TypeOK, Awaits, Handling, store, env
<1>3. CASE Subscribe
  <2>1. subs' \in 0 .. 6 /\ pc' \in {"subscribe", "listen"}
    BY <1>3 DEF Subscribe, TypeOK
  <2> QED
    BY <1>3, <2>1 DEF Subscribe, TypeOK, Awaits, Handling, store, env
<1>4. CASE Refused \/ ConnectionLost
  <2>1. Fail /\ faults' \in Nat
    BY <1>4 DEF Refused, ConnectionLost, TypeOK
  <2> QED
    BY <1>0, <2>1 DEF Fail, TypeOK, Awaits, Handling, store, env
<1>5. CASE Retry
  BY <1>5 DEF Retry, TypeOK, Awaits, Handling, queue, store, env
<1>6. CASE Reject
  BY <1>6, TailInbox DEF Reject, TypeOK, Handling, store, env
<1>7. CASE Accept
  BY <1>7 DEF Accept, FirstAwait, TypeOK, Awaits, Handling, queue, store, env
<1>8. CASE RedisReplies
  <2>1. /\ log' \in Seq(Entry) /\ trimmed' \in 0 .. Len(log')
        /\ state' \in [Devices -> [Attrs -> Nat]]
        /\ reported' \in [Devices -> Nat]
    BY <1>8, CommandType DEF RedisReplies
  <2>2. pc' \in {"append", "read", "write", "listen"} /\ at' \in Nat
    BY <1>8 DEF RedisReplies, NextAwait, TypeOK, Handling
  <2>4. inbox' \in Seq(Message) /\ (pc' \in Handling => inbox' # <<>>)
    <3>1. CASE pc = "write"
      BY <1>8, <3>1, TailInbox DEF RedisReplies, NextAwait, TypeOK, Handling
    <3>2. CASE pc # "write"
      BY <1>8, <3>2 DEF RedisReplies, TypeOK
    <3> QED
      BY <3>1, <3>2
  <2>3. snap' \in [Attrs -> Nat]
    <3>1. CASE pc = "read"
      <4>1. Current.dev \in Devices
        BY <1>8, CurrentType DEF RedisReplies
      <4> QED
        BY <1>8, <3>1, <4>1 DEF RedisReplies, TypeOK
    <3>2. CASE pc # "read"
      BY <1>8, <3>2 DEF RedisReplies, Absent
    <3> QED
      BY <3>1, <3>2
  <2> QED
    BY <1>8, <2>1, <2>2, <2>3, <2>4 DEF RedisReplies, TypeOK, Awaits, Handling,
                                        env
<1>9. CASE RedisFails
  <2>1. Abandon
    BY <1>9 DEF RedisFails
  <2>2. inbox' \in Seq(Message)
    BY <1>9, TailInbox DEF RedisFails, TypeOK
  <2> QED
    BY <1>9, <2>1, <2>2, AbandonType
    DEF RedisFails, TypeOK, Awaits, Handling, env
<1>10. CASE Stop
  BY <1>10 DEF Stop, TypeOK, queue, store, env
<1>11. ASSUME NEW p \in {"stopped", "down"}, Gone(p), stopping' = stopping,
              faults' \in Nat
       PROVE  TypeOK'
  <2>1. Abandon
    BY <1>11 DEF Gone
  <2> QED
    BY <1>0, <1>11, <2>1, AbandonType DEF Gone, TypeOK, Awaits, Handling, env
<1>12. CASE Unwind \/ Exit \/ Crash
  BY <1>11, <1>12 DEF Unwind, Exit, Crash, TypeOK
<1>13. ASSUME NEW d \in Devices, NEW t \in Sending, NEW f \in Flaws,
              Publish(d, t, f)
       PROVE  TypeOK'
  <2> DEFINE m == [seq |-> sent', dev |-> d, type |-> t, flaw |-> f]
  <2>1. sent' \in Nat \ {0}
    BY <1>13 DEF Publish, TypeOK
  <2>2. m \in Message
    BY <1>13, <2>1, ConstantsOK DEF Message
  <2>3. inbox' = inbox \/ inbox' = Append(inbox, m)
    BY <1>13 DEF Publish
  <2>4. inbox' \in Seq(Message) /\ (inbox # <<>> => inbox' # <<>>)
    <3> HIDE DEF m
    <3>1. inbox \in Seq(Message)
      BY DEF TypeOK
    <3>2. Append(inbox, m) \in Seq(Message) /\ Append(inbox, m) # <<>>
      BY <2>2, <3>1, AppendProperties
    <3> QED
      BY <2>3, <3>1, <3>2
  <2> QED
    BY <1>13, <2>1, <2>4 DEF Publish, TypeOK, store
<1>14. CASE LinkDrop
  BY <1>14 DEF LinkDrop, TypeOK, store, env
<1>15. CASE Tick
  BY <1>15 DEF Tick, TypeOK, queue, store
<1>16. CASE UNCHANGED vars
  BY <1>16 DEF vars, queue, store, env, TypeOK
<1> QED
  BY <1>1, <1>2, <1>3, <1>4, <1>5, <1>6, <1>7, <1>8, <1>9, <1>10, <1>12,
     <1>13, <1>14, <1>15, <1>16 DEF Next, Listener

\* Every variable keeps its type, through failures, shutdowns and crashes; in
\* particular a handler always has the message it handles at the head.
THEOREM TypeCorrect == Spec => []TypeOK
  BY InitType, TypeInductive, PTL DEF Spec

-----------------------------------------------------------------------------
(* The inductive invariant.  The properties speak of the stream and the    *)
(* snapshots; what makes them inductive is how both relate to the inbox    *)
(* and to the handler's locals at each of its awaits.                      *)

\* The handler has appended its event and not yet finished.
Appended == pc \in {"read", "write"}

InboxInOrder ==
  /\ sent <= MaxMsgs
  /\ \A i \in DOMAIN inbox : inbox[i].seq <= sent
  /\ \A i, j \in DOMAIN inbox : i < j => inbox[i].seq < inbox[j].seq

\* Every logged event is older than every queued one, except the newest one
\* while its handler still runs.
LogBehindInbox ==
  \A i \in DOMAIN log :
    /\ log[i].seq <= sent
    /\ \A j \in DOMAIN inbox : \/ log[i].seq < inbox[j].seq
                               \/ Appended /\ i = Len(log) /\ j = 1

AppendedExactly ==
  Appended => /\ trimmed < Len(log)
              /\ log[Len(log)].seq = Current.seq
              /\ log[Len(log)].dev = Current.dev
              /\ log[Len(log)].type = Current.type

\* No other writer changed the document between the GET and the SET.
SnapFresh == pc = "write" => snap = state[Current.dev]

ReportedFirst ==
  /\ pc = "report" => Current.type = "config_reported"
  /\ pc \in {"append", "read", "write"} /\ Current.type = "config_reported"
       => reported[Current.dev] >= Current.seq

StampsPast ==
  /\ at <= now
  /\ \A d \in Devices : state[d]["lastSeen"] <= now
  /\ Appended => \A d \in Devices : state[d]["lastSeen"] <= at

StoreInv == /\ LogInSendOrder
            /\ SnapshotOfLoggedEvent
            /\ SnapshotLagExplained
            /\ ReportedCoversLog

IInv == /\ TypeOK
        /\ InboxInOrder /\ LogBehindInbox /\ AppendedExactly
        /\ SnapFresh /\ ReportedFirst /\ StampsPast
        /\ StoreInv

LEMMA EntryElements ==
  ASSUME NEW q \in Seq(Entry)
  PROVE  /\ Len(q) \in Nat /\ DOMAIN q = 1 .. Len(q)
         /\ \A i \in DOMAIN q : /\ q[i].seq \in Nat \ {0}
                                /\ q[i].dev \in Devices
                                /\ q[i].type \in Types /\ q[i].rx \in Nat
<1>1. \A i \in DOMAIN q : q[i] \in Entry
  BY LenProperties, ElementOfSeq
<1> QED
  BY <1>1, LenProperties DEF Entry

LEMMA LogTypes ==
  ASSUME TypeOK
  PROVE  /\ Len(log) \in Nat /\ DOMAIN log = 1 .. Len(log)
         /\ \A i \in DOMAIN log : /\ log[i].seq \in Nat \ {0}
                                  /\ log[i].dev \in Devices
                                  /\ log[i].type \in Types /\ log[i].rx \in Nat
  BY EntryElements DEF TypeOK

LEMMA InboxTypes ==
  ASSUME TypeOK
  PROVE  /\ Len(inbox) \in Nat /\ DOMAIN inbox = 1 .. Len(inbox)
         /\ \A i \in DOMAIN inbox : inbox[i].seq \in Nat \ {0}
         /\ inbox # <<>> => 1 \in DOMAIN inbox
<1>1. inbox \in Seq(Message)
  BY DEF TypeOK
<1>2. Len(inbox) \in Nat /\ DOMAIN inbox = 1 .. Len(inbox)
  BY <1>1, LenProperties
<1>3. \A i \in DOMAIN inbox : inbox[i] \in Message
  BY <1>1, <1>2, ElementOfSeq
<1>4. inbox # <<>> => Len(inbox) # 0
  BY <1>1, EmptySeq
<1> QED
  BY <1>2, <1>3, <1>4 DEF Message

\* While a handler runs, no logged event is newer than its message, and none
\* but the one it appended itself is as new.
LEMMA LogUpToCurrent ==
  ASSUME IInv, pc \in Handling
  PROVE  /\ \A i \in DOMAIN log : /\ log[i].seq <= Current.seq
                                  /\ \/ log[i].seq < Current.seq
                                     \/ Appended /\ i = Len(log)
         /\ Current.seq <= sent
<1>1. 1 \in DOMAIN inbox /\ Current = inbox[1] /\ Current.seq \in Nat
  BY InboxTypes, CurrentType DEF IInv, TypeOK, Current
<1>2. \A i \in DOMAIN log : \/ log[i].seq < Current.seq
                            \/ Appended /\ i = Len(log)
  BY <1>1 DEF IInv, LogBehindInbox
<1>3. Appended => log[Len(log)].seq = Current.seq
  BY DEF IInv, AppendedExactly
<1>4. Current.seq <= sent
  BY <1>1 DEF IInv, InboxInOrder
<1> QED
  BY <1>1, <1>2, <1>3, <1>4, LogTypes DEF IInv

\* A lagging snapshot is excused, or the message in hand has not caught up.
LagUpTo(s) ==
  \A i \in DOMAIN log :
    LET e == log[i] IN
      \/ e.type \notin Fields
      \/ state[e.dev][e.type] >= e.seq
      \/ e.seq = s \/ e.seq \in torn

SnapshotForward ==
  \A d \in Devices, a \in Attrs : state'[d][a] >= state[d][a]

LEMMA LagNow == ASSUME IInv, pc \in Handling PROVE LagUpTo(Current.seq)
  BY DEF IInv, StoreInv, SnapshotLagExplained, LagUpTo, InHandler

\* What any Redis command keeps, executed or not, and what the last one achieves.
LEMMA CommandKeeps ==
  ASSUME IInv, pc \in Handling, Command(Current) \/ UNCHANGED store,
         torn \subseteq torn', NEW s, s = Current.seq
  PROVE  /\ LogInSendOrder' /\ SnapshotOfLoggedEvent' /\ ReportedCoversLog'
         /\ LagUpTo(s)' /\ (pc = "write" /\ Command(Current) => LagUpTo(0)')
         /\ SnapshotForward
         /\ \A d \in Devices : state'[d]["lastSeen"] <= now
         /\ \A i \in DOMAIN log' : log'[i].seq <= s
<1>1. TypeOK /\ StampsPast /\ LagUpTo(s)
  BY LagNow DEF IInv
<1>2. LogInSendOrder /\ SnapshotOfLoggedEvent /\ ReportedCoversLog
  BY DEF IInv, StoreInv
<1>3. /\ s \in Nat \ {0} /\ Current.dev \in Devices /\ Current.type \in Types
      /\ \A i \in DOMAIN log : /\ log[i].seq <= s
                               /\ log[i].seq < s \/ (Appended /\ i = Len(log))
  BY <1>1, CurrentType, LogUpToCurrent
<1>4. \A d \in Devices, a \in Attrs : state[d][a] \in Nat
  BY <1>1 DEF TypeOK
<1>5. CASE pc = "report" /\ JsonSetReported(Current)
  <2>1. /\ UNCHANGED <<log, state>>
        /\ reported' = [reported EXCEPT ![Current.dev] = s]
    BY <1>5 DEF JsonSetReported
  <2>2. ReportedCoversLog'
    BY <1>1, <1>2, <1>3, <2>1, LogTypes DEF ReportedCoversLog, TypeOK
  <2>3. LagUpTo(s)'
    BY <1>1, <2>1 DEF LagUpTo
  <2> QED
    BY <1>1, <1>2, <1>3, <1>4, <1>5, <2>1, <2>2, <2>3
    DEF LogInSendOrder, SnapshotOfLoggedEvent, Logged, SnapshotForward,
        StampsPast
<1>6. CASE pc = "append" /\ AppendEvent(Current)
  <2> DEFINE e == [seq |-> Current.seq, dev |-> Current.dev,
                   type |-> Current.type, rx |-> at]
             n == Len(log)
  <2>1. e \in Entry /\ log \in Seq(Entry)
    BY <1>1, <1>3 DEF TypeOK, Entry
  <2>2. log' = Append(log, e) /\ UNCHANGED <<state, reported>>
    BY <1>6 DEF AppendEvent
  <2>3. e.seq = s /\ e.dev = Current.dev /\ e.type = Current.type
    BY <1>3
  <2> HIDE DEF e
  <2>4. /\ n \in Nat /\ DOMAIN log = 1 .. n /\ DOMAIN log' = 1 .. n + 1
        /\ \A i \in 1 .. n : log'[i] = log[i]
        /\ log'[n + 1] = e
    BY <2>1, <2>2, AppendProperties, LenProperties
  <2>5. \A i \in 1 .. n : log[i].seq < s
    BY <1>3, <1>6, <2>4 DEF Appended
  <2> HIDE DEF n
  <2>6. LogInSendOrder'
    BY <1>2, <1>3, <2>3, <2>4, <2>5 DEF LogInSendOrder
  <2>7. SnapshotOfLoggedEvent'
    <3> SUFFICES ASSUME NEW d \in Devices, NEW f \in Fields, state'[d][f] # 0
                 PROVE  Logged(state[d][f], d, f)'
      BY <2>2 DEF SnapshotOfLoggedEvent
    <3>1. PICK i \in DOMAIN log : /\ log[i].seq = state[d][f]
                                  /\ log[i].dev = d /\ log[i].type = f
      BY <1>2, <2>2 DEF SnapshotOfLoggedEvent, Logged
    <3> QED
      BY <2>2, <2>4, <3>1 DEF Logged
  <2>8. ReportedCoversLog'
    <3>1. e.type = "config_reported" => reported[e.dev] >= e.seq
      BY <1>6, <2>3 DEF IInv, ReportedFirst
    <3> QED
      BY <1>2, <2>2, <2>4, <3>1 DEF ReportedCoversLog
  <2>9. LagUpTo(s)'
    BY <1>1, <2>2, <2>3, <2>4 DEF LagUpTo
  <2>10. \A i \in DOMAIN log' : log'[i].seq <= s
    BY <1>3, <2>3, <2>4
  <2> QED
    BY <1>1, <1>4, <1>6, <2>2, <2>6, <2>7, <2>8, <2>9, <2>10
    DEF SnapshotForward, StampsPast
<1>7. CASE UNCHANGED store /\ ~(pc = "write" /\ JsonSetState(Current))
  <2>1. UNCHANGED <<log, state, reported>>
    BY <1>7 DEF store
  <2>2. LagUpTo(s)'
    BY <1>1, <2>1 DEF LagUpTo
  <2> QED
    BY <1>1, <1>2, <1>3, <1>4, <1>7, <2>1, <2>2
    DEF Command, LogInSendOrder, SnapshotOfLoggedEvent, Logged, ReportedCoversLog,
        SnapshotForward, StampsPast
<1>8. CASE pc = "write" /\ JsonSetState(Current)
  <2> DEFINE c == Current.dev
             t == Current.type
  <2>1. UNCHANGED <<log, reported>> /\ Appended /\ snap = state[c]
    BY <1>8 DEF JsonSetState, Appended, IInv, SnapFresh
  <2>2. /\ state' = [state EXCEPT ![c] = Upserted(Current)]
        /\ state'[c] = Upserted(Current)
        /\ \A d \in Devices \ {c} : state'[d] = state[d]
    BY <1>1, <1>3, <1>8 DEF JsonSetState, TypeOK
  <2>3. /\ state'[c]["lastSeen"] = at
        /\ \A f \in Fields : state'[c][f] = IF f = t THEN s ELSE state[c][f]
    BY <1>3, <2>1, <2>2 DEF Upserted, Attrs, Fields
  <2>4. /\ Len(log) \in DOMAIN log
        /\ log[Len(log)].seq = s /\ log[Len(log)].dev = c
        /\ log[Len(log)].type = t
    BY <1>1, <1>3, <2>1, LogTypes DEF IInv, AppendedExactly, TypeOK
  <2>5. \A d \in Devices, f \in Fields :
          \/ state'[d][f] = state[d][f]
          \/ d = c /\ f = t /\ state'[d][f] = s
    BY <2>2, <2>3
  <2>6. SnapshotOfLoggedEvent'
    BY <1>2, <2>1, <2>4, <2>5 DEF SnapshotOfLoggedEvent, Logged
  <2>7. \A d \in Devices, f \in Fields : state[d][f] <= s
    BY <1>2, <1>3, <1>4 DEF SnapshotOfLoggedEvent, Logged, Attrs
  <2>8. at \in Nat /\ now \in Nat
        /\ \A d \in Devices : state[d]["lastSeen"] <= at /\ at <= now
    BY <1>1, <2>1 DEF StampsPast, TypeOK
  <2>9. SnapshotForward
    BY <1>3, <1>4, <2>2, <2>3, <2>5, <2>7, <2>8 DEF SnapshotForward, Attrs
  <2>10. LagUpTo(0)'
    <3> SUFFICES ASSUME NEW i \in DOMAIN log, log[i].type \in Fields
                 PROVE  \/ state'[log[i].dev][log[i].type] >= log[i].seq
                        \/ log[i].seq \in torn'
      BY <2>1 DEF LagUpTo
    <3>1. CASE log[i].seq = s
      <4>1. i = Len(log)
        BY <1>2, <1>3, <2>4, <3>1, LogTypes, <1>1 DEF LogInSendOrder
      <4> QED
        BY <1>3, <2>3, <2>4, <3>1, <4>1
    <3>2. CASE log[i].seq # s
      <4>1. \/ state[log[i].dev][log[i].type] >= log[i].seq
            \/ log[i].seq \in torn
        BY <1>1, <3>2 DEF LagUpTo
      <4>2. log[i].dev \in Devices /\ log[i].seq \in Nat
        BY <1>1, LogTypes
      <4> QED
        BY <1>3, <1>4, <2>5, <4>1, <4>2 DEF Attrs
    <3> QED
      BY <3>1, <3>2
  <2>11. LagUpTo(s)'
    BY <1>1, <2>1, <2>10, LogTypes DEF LagUpTo
  <2>12. \A d \in Devices : state'[d]["lastSeen"] <= now
    BY <2>2, <2>3, <2>8, <1>1 DEF StampsPast
  <2> QED
    BY <1>2, <1>3, <2>1, <2>6, <2>9, <2>10, <2>11, <2>12
    DEF LogInSendOrder, ReportedCoversLog
<1> QED
  BY <1>5, <1>6, <1>7, <1>8 DEF Command

\* Taking the head off the inbox, or losing the inbox, keeps it in order and
\* ahead of a stream that holds nothing newer than the head.
LEMMA PopKeeps ==
  ASSUME IInv, TypeOK', inbox # <<>>, sent' = sent,
         inbox' = Tail(inbox) \/ inbox' = <<>>,
         \A i \in DOMAIN log' : log'[i].seq <= inbox[1].seq
  PROVE  InboxInOrder' /\ LogBehindInbox'
<1>1. /\ inbox \in Seq(Message) /\ sent \in Nat
      /\ DOMAIN inbox = 1 .. Len(inbox) /\ Len(inbox) \in Nat
      /\ \A i \in DOMAIN inbox : inbox[i].seq \in Nat
      /\ 1 \in DOMAIN inbox
  BY InboxTypes DEF IInv, TypeOK
<1>2. InboxInOrder
  BY DEF IInv
<1>3. \A j \in DOMAIN inbox' : /\ j \in Nat \ {0} /\ j + 1 \in DOMAIN inbox
                               /\ inbox'[j] = inbox[j + 1]
  <2>1. CASE inbox' = Tail(inbox)
    <3>1. /\ Tail(inbox) \in Seq(Message)
          /\ Len(Tail(inbox)) = Len(inbox) - 1
          /\ \A i \in 1 .. Len(Tail(inbox)) : Tail(inbox)[i] = inbox[i + 1]
      BY <1>1, HeadTailProperties
    <3>2. DOMAIN Tail(inbox) = 1 .. Len(inbox) - 1
      BY <3>1, LenProperties
    <3> QED
      BY <1>1, <2>1, <3>1, <3>2
  <2>2. CASE inbox' = <<>>
    BY <2>2
  <2> QED
    BY <2>1, <2>2
<1>4. \A i \in DOMAIN log' : log'[i].seq \in Nat
  <2>1. log' \in Seq(Entry)
    BY DEF TypeOK
  <2> QED
    BY <2>1, EntryElements
<1>5. InboxInOrder'
  <2>1. \A i \in DOMAIN inbox' : inbox'[i].seq <= sent
    BY <1>2, <1>3 DEF InboxInOrder
  <2>2. ASSUME NEW i \in DOMAIN inbox', NEW j \in DOMAIN inbox', i < j
        PROVE  inbox'[i].seq < inbox'[j].seq
    <3>1. /\ i + 1 \in DOMAIN inbox /\ j + 1 \in DOMAIN inbox /\ i + 1 < j + 1
          /\ inbox'[i] = inbox[i + 1] /\ inbox'[j] = inbox[j + 1]
      BY <1>3, <2>2
    <3> QED
      BY <1>2, <3>1 DEF InboxInOrder
  <2> QED
    BY <1>2, <2>1, <2>2 DEF InboxInOrder
<1>6. LogBehindInbox'
  <2>1. inbox[1].seq <= sent
    BY <1>1, <1>2 DEF InboxInOrder
  <2>2. ASSUME NEW j \in DOMAIN inbox'
        PROVE  inbox[1].seq < inbox'[j].seq
    <3>1. j + 1 \in DOMAIN inbox /\ 1 < j + 1 /\ inbox'[j] = inbox[j + 1]
      BY <1>3
    <3> QED
      BY <1>1, <1>2, <3>1 DEF InboxInOrder
  <2>3. \A j \in DOMAIN inbox' : inbox'[j].seq \in Nat
    BY <1>1, <1>3
  <2> QED
    BY <1>1, <1>4, <2>1, <2>2, <2>3 DEF LogBehindInbox
<1> QED
  BY <1>5, <1>6

\* A step of no handler that leaves the store alone and starts no handler.
LEMMA QuietKeeps ==
  ASSUME IInv, TypeOK', pc \notin Handling, pc' \notin Handling,
         UNCHANGED <<log, state, reported, torn, sent, now>>, at' \in {at, 0},
         \/ inbox' = inbox \/ inbox' = <<>>
         \/ inbox # <<>> /\ inbox' = Tail(inbox)
  PROVE  IInv'
<1>1. ~Appended /\ ~Appended' /\ pc # "write" /\ pc' # "write"
  BY DEF Appended, Handling
<1>2. InboxInOrder' /\ LogBehindInbox'
  <2>1. CASE inbox' = inbox
    BY <1>1, <2>1 DEF IInv, InboxInOrder, LogBehindInbox
  <2>2. CASE inbox # <<>> /\ inbox' \in {<<>>, Tail(inbox)}
    <3>1. \A i \in DOMAIN log : log[i].seq <= inbox[1].seq
      BY <1>1, <2>2, InboxTypes, LogTypes DEF IInv, LogBehindInbox
    <3> QED
      BY <2>2, <3>1, PopKeeps
  <2> QED
    BY <2>1, <2>2
<1>3. StoreInv'
  BY DEF IInv, StoreInv, LogInSendOrder, SnapshotOfLoggedEvent, Logged,
         SnapshotLagExplained, InHandler, ReportedCoversLog
<1>4. StampsPast'
  BY <1>1 DEF IInv, TypeOK, StampsPast
<1> QED
  BY <1>1, <1>2, <1>3, <1>4
  DEF IInv, AppendedExactly, SnapFresh, ReportedFirst, Handling

\* A handler that ends before its last command, whatever the command it was
\* waiting for did.
LEMMA TornKeeps ==
  ASSUME IInv, TypeOK', pc \in Handling, pc' \notin Handling,
         Abandon, UNCHANGED <<sent, now>>,
         inbox' = Tail(inbox) \/ inbox' = <<>>
  PROVE  IInv'
<1>0. PICK s : s = Current.seq
  OBVIOUS
<1>1. /\ ~Appended' /\ pc' # "write"
      /\ pc' \notin {"report", "append", "read", "write"}
  BY DEF Appended, Handling
<1>2. torn' = torn \cup {s} /\ at' = 0
  BY <1>0 DEF Abandon
<1>3. Command(Current) \/ UNCHANGED store
  BY DEF Abandon
<1>4. inbox # <<>> /\ now \in Nat /\ Current = inbox[1]
  BY DEF IInv, TypeOK, Current
<1>5. /\ LogInSendOrder' /\ SnapshotOfLoggedEvent' /\ ReportedCoversLog'
      /\ LagUpTo(s)'
      /\ \A d \in Devices : state'[d]["lastSeen"] <= now
      /\ \A i \in DOMAIN log' : log'[i].seq <= s
  BY <1>0, <1>2, <1>3, <1>4, CommandKeeps
<1>6. InboxInOrder' /\ LogBehindInbox'
  BY <1>0, <1>4, <1>5, PopKeeps
<1>7. SnapshotLagExplained'
  BY <1>2, <1>5 DEF SnapshotLagExplained, LagUpTo
<1>8. StampsPast'
  BY <1>1, <1>2, <1>4, <1>5 DEF StampsPast
<1> QED
  BY <1>1, <1>5, <1>6, <1>7, <1>8
  DEF IInv, AppendedExactly, SnapFresh, ReportedFirst, StoreInv

LEMMA AcceptKeeps == ASSUME IInv, TypeOK', Accept PROVE IInv'
<1>1. /\ ~Appended /\ ~Appended' /\ pc' \in {"report", "append"}
      /\ pc \notin Handling /\ Current' = Current
      /\ UNCHANGED <<inbox, log, state, reported, torn, sent, now>> /\ at' = now
      /\ pc' = FirstAwait(Current)
  BY DEF Accept, Appended, Handling, FirstAwait, Current, queue, store, env
<1>2. ReportedFirst'
  BY <1>1 DEF FirstAwait, ReportedFirst
<1>3. StoreInv'
  BY <1>1 DEF IInv, StoreInv, LogInSendOrder, SnapshotOfLoggedEvent, Logged,
              SnapshotLagExplained, InHandler, ReportedCoversLog
<1>4. StampsPast'
  BY <1>1 DEF IInv, TypeOK, StampsPast
<1> QED
  BY <1>1, <1>2, <1>3, <1>4
  DEF IInv, InboxInOrder, LogBehindInbox, AppendedExactly, SnapFresh

\* A handler that goes on to its next await still excuses its own event.
LEMMA GoesOn ==
  ASSUME IInv, pc \in Handling, pc' \in Handling, UNCHANGED <<torn, inbox>>,
         Command(Current)
  PROVE  StoreInv'
<1>0. PICK s : s = Current.seq
  OBVIOUS
<1>1. /\ LogInSendOrder' /\ SnapshotOfLoggedEvent' /\ ReportedCoversLog'
      /\ LagUpTo(s)'
  BY <1>0, CommandKeeps
<1>2. Current' = Current /\ Current'.seq = s
  BY <1>0 DEF Current
<1>3. SnapshotLagExplained'
  BY <1>1, <1>2 DEF SnapshotLagExplained, LagUpTo, InHandler
<1> QED
  BY <1>1, <1>3 DEF StoreInv

LEMMA RepliesKeep == ASSUME IInv, TypeOK', RedisReplies PROVE IInv'
<1> DEFINE s == Current.seq
<1>1. /\ pc \in Handling /\ Command(Current) /\ UNCHANGED <<sent, now, torn>>
      /\ inbox # <<>> /\ Current = inbox[1] /\ 1 \in DOMAIN inbox
  BY InboxTypes DEF RedisReplies, env, IInv, TypeOK, Current
<1>2. /\ \A d \in Devices : state'[d]["lastSeen"] <= now
      /\ \A i \in DOMAIN log' : log'[i].seq <= s
      /\ pc = "write" => LagUpTo(0)'
      /\ LogInSendOrder' /\ SnapshotOfLoggedEvent' /\ ReportedCoversLog'
  BY <1>1, CommandKeeps
<1>3. now \in Nat /\ at \in Nat /\ Current.dev \in Devices /\ s \in Nat
  BY <1>1, CurrentType DEF IInv, TypeOK
<1>4. CASE pc = "report"
  <2>1. /\ pc' = "append" /\ at' = now /\ inbox' = inbox
        /\ UNCHANGED <<log, state>>
        /\ reported' = [reported EXCEPT ![Current.dev] = s]
    BY <1>4 DEF RedisReplies, NextAwait, Command, JsonSetReported
  <2>2. Current' = Current /\ ~Appended /\ ~Appended'
    BY <1>4, <2>1 DEF Current, Appended
  <2>3. StoreInv'
    BY <1>1, <2>1, GoesOn DEF Handling
  <2>4. reported'[Current.dev] = s
    BY <1>3, <2>1 DEF IInv, TypeOK
  <2>5. ReportedFirst'
    BY <1>3, <2>1, <2>2, <2>4 DEF ReportedFirst
  <2>6. StampsPast'
    BY <1>1, <1>2, <1>3, <2>1, <2>2 DEF StampsPast
  <2> QED
    BY <1>1, <2>1, <2>2, <2>3, <2>5, <2>6
    DEF IInv, InboxInOrder, LogBehindInbox, AppendedExactly, SnapFresh
<1>5. CASE pc = "append"
  <2> DEFINE e == [seq |-> Current.seq, dev |-> Current.dev,
                   type |-> Current.type, rx |-> at]
             n == Len(log)
  <2>1. /\ pc' = "read" /\ at' = now /\ inbox' = inbox
        /\ UNCHANGED <<state, reported>>
        /\ log' = Append(log, e) /\ trimmed' \in TrimChoices(n + 1)
    BY <1>5 DEF RedisReplies, NextAwait, Command, AppendEvent
  <2>2. Current' = Current /\ ~Appended /\ Appended'
    BY <1>5, <2>1 DEF Current, Appended
  <2>3. StoreInv'
    BY <1>1, <2>1, GoesOn DEF Handling
  <2>4. e \in Entry /\ log \in Seq(Entry)
    BY <1>1, <1>3, CurrentType DEF IInv, TypeOK, Entry
  <2>5. e.seq = s /\ e.dev = Current.dev /\ e.type = Current.type
    OBVIOUS
  <2> HIDE DEF e
  <2>6. /\ n \in Nat /\ DOMAIN log = 1 .. n /\ DOMAIN log' = 1 .. n + 1
        /\ Len(log') = n + 1
        /\ \A i \in 1 .. n : log'[i] = log[i]
        /\ log'[n + 1] = e
    BY <2>1, <2>4, AppendProperties, LenProperties
  <2>7. trimmed' < n + 1
    BY <2>1, <2>6, ConstantsOK DEF TrimChoices, IInv, TypeOK
  <2>8. \A j \in DOMAIN inbox : j = 1 \/ s < inbox[j].seq
    BY <1>1, InboxTypes DEF IInv, InboxInOrder
  <2>9. LogBehindInbox'
    <3>1. s <= sent
      BY <1>1, LogUpToCurrent
    <3>2. \A i \in 1 .. n : log[i].seq <= sent
      BY <2>6 DEF IInv, LogBehindInbox
    <3>3. \A i \in 1 .. n, j \in DOMAIN inbox : log[i].seq < inbox[j].seq
      BY <2>2, <2>6 DEF IInv, LogBehindInbox
    <3> QED
      BY <1>1, <2>1, <2>2, <2>5, <2>6, <2>8, <3>1, <3>2, <3>3
      DEF LogBehindInbox
  <2>10. AppendedExactly'
    BY <2>2, <2>5, <2>6, <2>7 DEF AppendedExactly
  <2>11. StampsPast'
    BY <1>1, <1>2, <1>3, <2>1 DEF StampsPast
  <2>12. ReportedFirst'
    BY <1>5, <2>1, <2>2 DEF IInv, ReportedFirst
  <2> QED
    BY <1>1, <2>1, <2>3, <2>9, <2>10, <2>11, <2>12
    DEF IInv, InboxInOrder, SnapFresh
<1>6. CASE pc = "read"
  <2>1. /\ pc' = "write" /\ at' = at /\ inbox' = inbox
        /\ UNCHANGED <<log, trimmed, state, reported>>
        /\ snap' = state[Current.dev]
    BY <1>6 DEF RedisReplies, NextAwait, Command, store
  <2>2. Current' = Current /\ Appended /\ Appended'
    BY <1>6, <2>1 DEF Current, Appended
  <2>3. StoreInv'
    BY <1>1, <2>1, GoesOn DEF Handling
  <2> QED
    BY <1>1, <1>6, <2>1, <2>2, <2>3
    DEF IInv, InboxInOrder, LogBehindInbox, AppendedExactly, SnapFresh,
        ReportedFirst, StampsPast
<1>7. CASE pc = "write"
  <2>1. pc' = "listen" /\ at' = 0 /\ inbox' = Tail(inbox)
    BY <1>7 DEF RedisReplies, NextAwait
  <2>2. ~Appended'
    BY <2>1 DEF Appended
  <2>3. InboxInOrder' /\ LogBehindInbox'
    BY <1>1, <1>2, <2>1, PopKeeps
  <2>4. \A i \in DOMAIN log' : log'[i].seq # 0
    <3>1. log' \in Seq(Entry)
      BY DEF TypeOK
    <3> QED
      BY <3>1, EntryElements
  <2>5. SnapshotLagExplained'
    BY <1>2, <1>7, <2>4 DEF LagUpTo, SnapshotLagExplained
  <2>6. StampsPast'
    BY <1>1, <1>2, <1>3, <2>1, <2>2 DEF StampsPast
  <2> QED
    BY <1>2, <2>1, <2>2, <2>3, <2>5, <2>6
    DEF IInv, AppendedExactly, SnapFresh, ReportedFirst, StoreInv
<1> QED
  BY <1>1, <1>4, <1>5, <1>6, <1>7 DEF Handling

\* A publication queues behind the message being handled.
LEMMA PublishKeepsHead ==
  ASSUME TypeOK, NEW d \in Devices, NEW t \in Sending, NEW f \in Flaws,
         Publish(d, t, f), pc \in Handling
  PROVE  Current' = Current
<1> DEFINE m == [seq |-> sent', dev |-> d, type |-> t, flaw |-> f]
<1>1. inbox' = inbox \/ inbox' = Append(inbox, m)
  BY DEF Publish
<1>2. m \in Message
  BY ConstantsOK DEF Publish, TypeOK, Message
<1>3. inbox \in Seq(Message) /\ 1 \in 1 .. Len(inbox)
  BY InboxTypes DEF TypeOK
<1> HIDE DEF m
<1>4. Append(inbox, m)[1] = inbox[1]
  BY <1>2, <1>3, AppendProperties
<1> QED
  BY <1>1, <1>4 DEF Current

LEMMA PublishKeeps ==
  ASSUME IInv, TypeOK', NEW d \in Devices, NEW t \in Sending, NEW f \in Flaws,
         Publish(d, t, f)
  PROVE  IInv'
<1> DEFINE m == [seq |-> sent', dev |-> d, type |-> t, flaw |-> f]
           n == Len(inbox)
<1>1. /\ UNCHANGED <<pc, snap, at, log, trimmed, state, reported, now, torn>>
      /\ sent' = sent + 1 /\ sent' <= MaxMsgs /\ sent \in Nat
  BY ConstantsOK DEF Publish, store, IInv, TypeOK
<1>2. inbox' = inbox \/ inbox' = Append(inbox, m)
  BY DEF Publish
<1>3. m \in Message /\ m.seq = sent + 1
  BY <1>1, ConstantsOK DEF Message
<1>4. /\ inbox \in Seq(Message) /\ n \in Nat /\ DOMAIN inbox = 1 .. n
      /\ \A i \in 1 .. n : inbox[i].seq \in Nat /\ inbox[i].seq <= sent
  BY InboxTypes DEF IInv, TypeOK, InboxInOrder
<1> HIDE DEF m
<1>5. \A i \in DOMAIN inbox' : \/ i \in 1 .. n /\ inbox'[i] = inbox[i]
                               \/ i = n + 1 /\ inbox'[i] = m
  <2>1. CASE inbox' = inbox
    BY <1>4, <2>1
  <2>2. CASE inbox' = Append(inbox, m)
    BY <1>3, <1>4, <2>2, AppendProperties, LenProperties
  <2> QED
    BY <1>2, <2>1, <2>2
<1>6. pc \in Handling => Current' = Current
  BY PublishKeepsHead DEF IInv
<1>7. InboxInOrder'
  <2>1. \A i \in DOMAIN inbox' : inbox'[i].seq <= sent'
    BY <1>1, <1>3, <1>4, <1>5
  <2>2. ASSUME NEW i \in DOMAIN inbox', NEW j \in DOMAIN inbox', i < j
        PROVE  inbox'[i].seq < inbox'[j].seq
    <3>1. i \in 1 .. n /\ inbox'[i] = inbox[i]
      BY <1>4, <1>5, <2>2
    <3>2. CASE j \in 1 .. n /\ inbox'[j] = inbox[j]
      BY <1>4, <2>2, <3>1, <3>2 DEF IInv, InboxInOrder
    <3>3. CASE inbox'[j] = m
      BY <1>1, <1>3, <1>4, <3>1, <3>3
    <3> QED
      BY <1>5, <3>2, <3>3
  <2> QED
    BY <1>1, <2>1, <2>2 DEF InboxInOrder
<1>8. Appended' = Appended
  BY <1>1 DEF Appended
<1>9. LogBehindInbox'
  <2>1. \A i \in DOMAIN log : log[i].seq \in Nat /\ log[i].seq <= sent
    BY LogTypes DEF IInv, LogBehindInbox
  <2>2. \A i \in DOMAIN log, j \in DOMAIN inbox' :
          log[i].seq < inbox'[j].seq \/ (Appended /\ i = Len(log) /\ j = 1)
    BY <1>1, <1>3, <1>4, <1>5, <2>1 DEF IInv, LogBehindInbox
  <2> QED
    BY <1>1, <1>8, <2>1, <2>2 DEF LogBehindInbox
<1>10. AppendedExactly' /\ SnapFresh' /\ ReportedFirst'
  BY <1>1, <1>6
  DEF IInv, AppendedExactly, SnapFresh, ReportedFirst, Appended, Handling
<1>11. StoreInv'
  BY <1>1, <1>6 DEF IInv, StoreInv, LogInSendOrder, SnapshotOfLoggedEvent,
                    Logged, SnapshotLagExplained, InHandler, ReportedCoversLog
<1> QED
  BY <1>1, <1>7, <1>8, <1>9, <1>10, <1>11 DEF IInv, StampsPast

\* Steps that change nothing the invariant speaks of, but the clock.
LEMMA OthersKeep ==
  ASSUME IInv, TypeOK',
         UNCHANGED <<pc, inbox, snap, at, log, trimmed, state, reported, sent,
                     torn>>,
         now' \in Nat, now <= now'
  PROVE  IInv'
<1>1. UNCHANGED <<Current, Appended>>
  BY DEF Current, Appended
<1>2. StampsPast'
  BY <1>1 DEF IInv, TypeOK, StampsPast, Attrs
<1>3. StoreInv'
  BY <1>1 DEF IInv, StoreInv, LogInSendOrder, SnapshotOfLoggedEvent, Logged,
              SnapshotLagExplained, InHandler, ReportedCoversLog
<1>4. LogBehindInbox' /\ AppendedExactly'
  BY <1>1 DEF IInv, LogBehindInbox, AppendedExactly
<1> QED
  BY <1>1, <1>2, <1>3, <1>4 DEF IInv, InboxInOrder, SnapFresh, ReportedFirst

LEMMA IInvInit == Init => IInv
<1> SUFFICES ASSUME Init PROVE IInv
  OBVIOUS
<1>1. TypeOK
  BY InitType
<1>2. ~Appended /\ pc \notin Handling
  BY DEF Init, Appended, Handling
<1>3. DOMAIN log = {} /\ DOMAIN inbox = {}
  BY DEF Init
<1>4. StampsPast
  BY <1>2 DEF Init, StampsPast, Absent, Attrs
<1>5. SnapshotOfLoggedEvent
  BY DEF Init, SnapshotOfLoggedEvent, Absent, Attrs
<1>6. InboxInOrder
  BY <1>3, ConstantsOK DEF Init, InboxInOrder
<1> QED
  BY <1>1, <1>2, <1>3, <1>4, <1>5, <1>6
  DEF IInv, StoreInv, LogBehindInbox, AppendedExactly, SnapFresh,
      ReportedFirst, LogInSendOrder, SnapshotLagExplained, ReportedCoversLog,
      Handling

LEMMA IInvInductive == IInv /\ [Next]_vars => IInv'
<1> SUFFICES ASSUME IInv, [Next]_vars PROVE IInv'
  OBVIOUS
<1>1. TypeOK /\ TypeOK'
  BY TypeInductive DEF IInv
<1>2. now \in Nat /\ now <= now
  BY <1>1 DEF TypeOK
<1>3. CASE Start \/ Connect \/ Subscribe \/ Refused \/ ConnectionLost \/ Retry
  BY <1>1, <1>3, QuietKeeps
  DEF Start, Connect, Subscribe, Refused, ConnectionLost, Fail, Retry, Handling,
      queue, store, env
<1>4. CASE Reject
  BY <1>1, <1>4, QuietKeeps DEF Reject, Handling, store, env
<1>5. CASE Accept
  BY <1>1, <1>5, AcceptKeeps
<1>6. CASE RedisReplies
  BY <1>1, <1>6, RepliesKeep
<1>7. CASE RedisFails
  BY <1>1, <1>7, TornKeeps DEF RedisFails, Handling, env
<1>8. CASE Stop
  BY <1>1, <1>2, <1>8, OthersKeep DEF Stop, queue, store, env
<1>9. CASE Unwind \/ Exit \/ Crash
  <2>1. /\ Abandon /\ pc' \in {"stopped", "down"} /\ inbox' = <<>>
        /\ UNCHANGED <<sent, now>>
    BY <1>9 DEF Unwind, Exit, Crash, Gone, env
  <2>2. CASE pc \in Handling
    BY <1>1, <2>1, <2>2, TornKeeps DEF Handling
  <2>3. CASE pc \notin Handling
    BY <1>1, <1>2, <2>1, <2>3, QuietKeeps
    DEF Abandon, Handling, store
  <2> QED
    BY <2>2, <2>3
<1>10. ASSUME NEW d \in Devices, NEW t \in Sending, NEW f \in Flaws,
              Publish(d, t, f)
       PROVE  IInv'
  BY <1>1, <1>10, PublishKeeps
<1>11. CASE LinkDrop
  BY <1>1, <1>2, <1>11, OthersKeep DEF LinkDrop, store, env
<1>12. CASE Tick
  BY <1>1, <1>2, <1>12, OthersKeep DEF Tick, queue, store
<1>13. CASE UNCHANGED vars
  BY <1>1, <1>2, <1>13, OthersKeep DEF vars, queue, store, env
<1> QED
  BY <1>3, <1>4, <1>5, <1>6, <1>7, <1>8, <1>9, <1>10, <1>11, <1>12, <1>13
  DEF Next, Listener

\* At every await of a handler the queue, the stream, the snapshots and its
\* locals are related the way the next command of the handler relies on.
THEOREM Inductive == Spec => []IInv
  BY IInvInit, IInvInductive, PTL DEF Spec

-----------------------------------------------------------------------------
(* What follows from the invariant.                                        *)

\* The event stream records events at most once and in the order the devices
\* sent them, through any failures, shutdowns, crashes and reconnections.
THEOREM OrderCorrect == Spec => []LogInSendOrder
<1>1. IInv => LogInSendOrder
  BY DEF IInv, StoreInv
<1> QED
  BY <1>1, Inductive, PTL

\* While a handler reads and writes the snapshot, its event is the newest of
\* the stream and no trimming has removed it.
THEOREM AppendedCorrect == Spec => []AppendedIsCurrent
<1>1. IInv => AppendedIsCurrent
  BY DEF IInv, AppendedExactly, Appended, AppendedIsCurrent
<1> QED
  BY <1>1, Inductive, PTL

\* A snapshot field is always a copy of a recorded event of that device and
\* type: a handler never writes the snapshot without its event being logged.
THEOREM SnapshotCorrect == Spec => []SnapshotOfLoggedEvent
<1>1. IInv => SnapshotOfLoggedEvent
  BY DEF IInv, StoreInv
<1> QED
  BY <1>1, Inductive, PTL

\* The read-modify-write of upsert_state loses no update: a field is older than
\* a logged event only if that event's handler is running or died.
THEOREM LagCorrect == Spec => []SnapshotLagExplained
<1>1. IInv => SnapshotLagExplained
  BY DEF IInv, StoreInv
<1> QED
  BY <1>1, Inductive, PTL

\* The reported config is stored before its event is logged: a logged
\* config_reported event never announces a config that was not stored.
THEOREM ReportedCorrect == Spec => []ReportedCoversLog
<1>1. IInv => ReportedCoversLog
  BY DEF IInv, StoreInv
<1> QED
  BY <1>1, Inductive, PTL

-----------------------------------------------------------------------------
(* What a step does to the stream and the snapshots.                       *)

\* The store changes only by the Redis command the handler waits for.
LEMMA StoreStep ==
  ASSUME [Next]_vars
  PROVE  /\ torn \subseteq torn'
         /\ \/ UNCHANGED store
            \/ pc \in Handling /\ Command(Current)
<1>1. CASE Start \/ Connect \/ Subscribe \/ Refused \/ ConnectionLost \/ Retry
  BY <1>1 DEF Start, Connect, Subscribe, Refused, ConnectionLost, Fail, Retry
<1>2. CASE Reject \/ Accept
  BY <1>2 DEF Reject, Accept
<1>3. CASE RedisReplies
  BY <1>3 DEF RedisReplies
<1>4. CASE Abandon
  BY <1>4 DEF Abandon
<1>5. CASE RedisFails \/ Unwind \/ Exit \/ Crash
  BY <1>4, <1>5 DEF RedisFails, Unwind, Exit, Crash, Gone
<1>6. CASE Stop \/ LinkDrop \/ Tick
  BY <1>6 DEF Stop, LinkDrop, Tick
<1>7. ASSUME NEW d \in Devices, NEW t \in Sending, NEW f \in Flaws,
             Publish(d, t, f)
      PROVE  UNCHANGED <<store, torn>>
  BY <1>7 DEF Publish
<1>8. CASE UNCHANGED vars
  BY <1>8 DEF vars
<1> QED
  BY <1>1, <1>2, <1>3, <1>5, <1>6, <1>7, <1>8 DEF Next, Listener

LEMMA ForwardStep == IInv /\ [Next]_vars => SnapshotForward
<1> SUFFICES ASSUME IInv, [Next]_vars PROVE SnapshotForward
  OBVIOUS
<1>1. CASE pc \in Handling
  <2>0. PICK s : s = Current.seq
    OBVIOUS
  <2> QED
    BY <1>1, <2>0, StoreStep, CommandKeeps
<1>2. CASE pc \notin Handling
  <2>1. state' = state
    BY <1>2, StoreStep DEF store
  <2> QED
    BY <2>1 DEF SnapshotForward, IInv, TypeOK
<1> QED
  BY <1>1, <1>2

\* No step takes a snapshot field or lastSeen back, not even one of a handler
\* whose event came before a crash, nor a SET whose reply was lost.
THEOREM MonotonicCorrect == Spec => SnapshotMonotonic
<1>1. IInv /\ [Next]_vars => [\A d \in Devices, a \in Attrs :
                                state'[d][a] >= state[d][a]]_vars
  BY ForwardStep DEF SnapshotForward
<1> QED
  BY <1>1, Inductive, PTL DEF Spec, SnapshotMonotonic
=============================================================================
