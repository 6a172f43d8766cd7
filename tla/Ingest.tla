------------------------------- MODULE Ingest -------------------------------
(***************************************************************************)
(* The MQTT listener task (mqtt/client.py), the handlers it calls          *)
(* (mqtt/handlers.py) and the Redis writes they make (storage/events.py,   *)
(* storage/state.py).  One asyncio task handles one message at a time; an  *)
(* action is the code between two awaits, so a failure, a shutdown or a    *)
(* crash can fall between any two Redis commands of a handler.             *)
(*                                                                         *)
(* An event is its place in the order the devices sent them (seq); a       *)
(* snapshot field holds the seq of the event it was copied from, 0 if none.*)
(***************************************************************************)
EXTENDS Naturals, Sequences

CONSTANTS Devices,       \* device identifiers
          Sending,       \* the message types devices publish in this instance
          StreamMaxLen,  \* STREAM_MAXLEN
          OnlineTtl,     \* ONLINE_TTL_SEC
          MaxMsgs,       \* bound: messages published
          MaxFaults,     \* bound: broker faults, Redis errors, stops, crashes
          MaxNow         \* bound: clock

\* The topics of get_subscribe_topics, in the order they are subscribed.
SubscribeOrder == <<"telemetry", "knock_live", "knock_result", "logs",
                    "command_ack", "config_reported">>
Types  == {"telemetry", "knock_live", "knock_result", "logs",
           "command_ack", "config_reported"}
\* The snapshot fields (telemetry, lastKnockResult, lastLog, lastCommandAck),
\* each named by the message type that updates it.
Fields == {"telemetry", "knock_result", "logs", "command_ack"}
Attrs  == Fields \cup {"lastSeen"}

ASSUME ConstantsOK == /\ Sending \subseteq Types
                      /\ StreamMaxLen \in Nat \ {0}
                      /\ OnlineTtl \in Nat
                      /\ MaxMsgs \in Nat /\ MaxFaults \in Nat /\ MaxNow \in Nat

VARIABLES
  pc,        \* the await the listener task is suspended at, see Awaits
  stopping,  \* _shutdown_event is set and the task has been cancelled
  link,      \* the broker connection: "up" or "down"
  subs,      \* how many topics of SubscribeOrder the broker has acknowledged
  inbox,     \* messages delivered to the client; the head is being handled
  snap,      \* upsert_state: the document json_get returned
  at,        \* the handler's last datetime.now(), 0 when none runs
  log,       \* every entry ever added to the event stream, oldest first
  trimmed,   \* how many of them the stream has trimmed away
  state,     \* device:state:{id}: fields and lastSeen, 0 for absent
  reported,  \* the event stored as the device's reported config, 0 for none
  sent,      \* messages published so far
  torn,      \* (history) messages whose handler died before its last command
  now,       \* the clock
  faults     \* faults so far

queue  == <<link, subs, inbox>>
store  == <<log, trimmed, state, reported>>
env    == <<sent, now>>
vars   == <<pc, stopping, queue, snap, at, store, env, torn, faults>>

Handling == {"report", "append", "read", "write"}
Awaits == {"down", "connect", "subscribe", "listen", "backoff", "stopped"}
          \cup Handling

\* What route_message finds wrong with a payload: "unroutable" is oversize, no
\* device id in the topic, or not JSON; "schema" fails the pydantic model.
Flaws   == {"none", "unroutable", "schema"}
Message == [seq : Nat \ {0}, dev : Devices, type : Types, flaw : Flaws]
Entry   == [seq : Nat \ {0}, dev : Devices, type : Types, rx : Nat]

Absent == [a \in Attrs |-> 0]

Init ==
  /\ pc = "down" /\ stopping = FALSE
  /\ link = "down" /\ subs = 0 /\ inbox = <<>>
  /\ snap = Absent /\ at = 0
  /\ log = <<>> /\ trimmed = 0
  /\ state = [d \in Devices |-> Absent]
  /\ reported = [d \in Devices |-> 0]
  /\ sent = 0 /\ now = 1 /\ torn = {} /\ faults = 0

-----------------------------------------------------------------------------
(* Connecting (client.py): one subscribe per topic, retry after a pause.   *)

\* start_mqtt, after a start or a restart of the process
Start == /\ pc = "down"
         /\ pc' = "connect" /\ stopping' = FALSE
         /\ UNCHANGED <<queue, snap, at, store, env, torn, faults>>

Connect == /\ pc = "connect" /\ ~stopping
           /\ link' = "up" /\ subs' = 0 /\ inbox' = <<>>
           /\ pc' = "subscribe"
           /\ UNCHANGED <<stopping, snap, at, store, env, torn, faults>>

\* mutant: one topic past the end of the list
SubscribeTooMany == /\ pc = "subscribe" /\ ~stopping /\ link = "up"
                    /\ subs' = subs + 1
                    /\ pc' = IF subs' > Len(SubscribeOrder) THEN "listen" ELSE pc
                    /\ UNCHANGED <<stopping, link, inbox, snap, at, store, env,
                                   torn, faults>>

Subscribe == /\ pc = "subscribe" /\ ~stopping /\ link = "up"
             /\ subs' = subs + 1
             /\ pc' = IF subs' = Len(SubscribeOrder) THEN "listen" ELSE pc
             /\ UNCHANGED <<stopping, link, inbox, snap, at, store, env, torn,
                            faults>>

\* A refused connection, or an MqttError out of subscribe or the message loop:
\* the session and what it had queued are gone.
Fail == /\ link' = "down" /\ subs' = 0 /\ inbox' = <<>>
        /\ pc' = "backoff"
        /\ UNCHANGED <<stopping, snap, at, store, env, torn>>

Refused == /\ pc = "connect" /\ ~stopping /\ faults < MaxFaults
           /\ faults' = faults + 1
           /\ Fail

\* mutant: an error while subscribing escapes the handler
ConnectionLostListening == /\ pc = "listen" /\ ~stopping
                           /\ link = "down"
                           /\ UNCHANGED faults
                           /\ Fail

ConnectionLost == /\ pc \in {"subscribe", "listen"} /\ ~stopping
                  /\ link = "down"
                  /\ UNCHANGED faults
                  /\ Fail

Retry == /\ pc = "backoff" /\ ~stopping
         /\ pc' = "connect"
         /\ UNCHANGED <<stopping, queue, snap, at, store, env, torn, faults>>

-----------------------------------------------------------------------------
(* Handling the head of the inbox.  Every handler is a fixed sequence of   *)
(* Redis commands: config_reported stores the reported config first, all   *)
(* then append the event, GET the snapshot and SET it back.                *)

\* the message whose handler runs
Current == inbox[1]

\* handle_config_reported validates nothing.
Accepted(m) == \/ m.flaw = "none"
               \/ m.flaw = "schema" /\ m.type = "config_reported"

\* mutant: config_reported only appends its event
FirstAwaitAppend(m) == "append"

FirstAwait(m) == IF m.type = "config_reported" THEN "report" ELSE "append"

\* mutant: the snapshot is written without reading it first
NextAwaitNoRead(p) == CASE p = "report" -> "append"
                        [] p = "append" -> "write"
                        [] p = "write"  -> "listen"

NextAwait(p) == CASE p = "report" -> "append"
                  [] p = "append" -> "read"
                  [] p = "read"   -> "write"
                  [] p = "write"  -> "listen"

\* mutant: a rejected message is queued again
RejectRequeueing == /\ pc = "listen" /\ ~stopping /\ inbox # <<>>
                    /\ ~Accepted(Current)
                    /\ inbox' = Append(Tail(inbox), Current)
                    /\ UNCHANGED <<pc, stopping, link, subs, snap, at, store,
                                   env, torn, faults>>

Reject == /\ pc = "listen" /\ ~stopping /\ inbox # <<>>
          /\ ~Accepted(Current)
          /\ inbox' = Tail(inbox)
          /\ UNCHANGED <<pc, stopping, link, subs, snap, at, store, env, torn,
                         faults>>

Accept == /\ pc = "listen" /\ ~stopping /\ inbox # <<>>
          /\ Accepted(Current)
          /\ pc' = FirstAwait(Current)
          /\ at' = now
          /\ UNCHANGED <<stopping, queue, snap, store, env, torn, faults>>

\* mutant: one entry too many
TrimChoicesTooMany(n) == {t \in trimmed .. n :
                            t = trimmed \/ t + StreamMaxLen <= n + 1}

\* XADD ... MAXLEN ~ StreamMaxLen: whole nodes are trimmed, so fewer entries
\* than the surplus may go, never more.
TrimChoices(n) == {t \in trimmed .. n : t = trimmed \/ t + StreamMaxLen <= n}

JsonSetReported(m) == /\ reported' = [reported EXCEPT ![m.dev] = m.seq]
                      /\ UNCHANGED <<log, trimmed, state>>

AppendEvent(m) == /\ log' = Append(log, [seq |-> m.seq, dev |-> m.dev,
                                         type |-> m.type, rx |-> at])
                  /\ trimmed' \in TrimChoices(Len(log) + 1)
                  /\ UNCHANGED <<state, reported>>

\* mutant: the document is replaced, not updated
UpsertedReplacing(m) == [a \in Attrs |-> IF a = "lastSeen" THEN at
                                         ELSE IF a = m.type THEN m.seq ELSE 0]

\* mutant: an empty update does not touch lastSeen
UpsertedNoTouch(m) == [a \in Attrs |->
                         IF a = "lastSeen" /\ m.type \in Fields THEN at
                         ELSE IF a = m.type THEN m.seq ELSE snap[a]]

\* upsert_state: the document read, the updated field, lastSeen
Upserted(m) == [a \in Attrs |-> IF a = "lastSeen" THEN at
                                ELSE IF a = m.type THEN m.seq ELSE snap[a]]

\* mutant: every device under one key
JsonSetStateShared(m) == /\ state' = [d \in Devices |-> Upserted(m)]
                         /\ UNCHANGED <<log, trimmed, reported>>

JsonSetState(m) == /\ state' = [state EXCEPT ![m.dev] = Upserted(m)]
                   /\ UNCHANGED <<log, trimmed, reported>>

\* The effect on Redis of the command the listener is waiting for.
Command(m) == \/ pc = "report" /\ JsonSetReported(m)
              \/ pc = "append" /\ AppendEvent(m)
              \/ pc = "read"   /\ UNCHANGED store
              \/ pc = "write"  /\ JsonSetState(m)

RedisReplies ==
  /\ pc \in Handling /\ ~stopping
  /\ Command(Current)
  /\ pc' = NextAwait(pc)
  /\ at' = CASE pc \in {"report", "append"} -> now
             [] pc = "read"  -> at
             [] pc = "write" -> 0
  /\ snap' = IF pc = "read" THEN state[Current.dev] ELSE Absent
  /\ inbox' = IF pc = "write" THEN Tail(inbox) ELSE inbox
  /\ UNCHANGED <<stopping, link, subs, env, torn, faults>>

\* The handler ends here and its locals are gone.  A command whose reply is
\* never seen was executed or it was not.
Abandon ==
  /\ snap' = Absent /\ at' = 0
  /\ IF pc \in Handling
     THEN /\ UNCHANGED store \/ Command(Current)
          /\ torn' = torn \cup {Current.seq}
     ELSE UNCHANGED <<store, torn>>

\* mutant: the failed message is tried again
RedisFailsRetrying == /\ pc \in Handling /\ ~stopping /\ faults < MaxFaults
                      /\ faults' = faults + 1
                      /\ Abandon
                      /\ pc' = "listen"
                      /\ UNCHANGED <<stopping, queue, env>>

\* mutant: a failed XADD does not end the handler
RedisFailsContinuing == /\ pc = "append" /\ ~stopping /\ faults < MaxFaults
                        /\ faults' = faults + 1
                        /\ pc' = "read"
                        /\ UNCHANGED <<stopping, queue, snap, at, store, env,
                                       torn>>

\* The exception is logged and the message dropped ("except Exception").
RedisFails == /\ pc \in Handling /\ ~stopping /\ faults < MaxFaults
              /\ faults' = faults + 1
              /\ Abandon
              /\ inbox' = Tail(inbox)
              /\ pc' = "listen"
              /\ UNCHANGED <<stopping, link, subs, env>>

-----------------------------------------------------------------------------
(* Shutdown, crash, and the environment.                                   *)

\* stop_mqtt sets the event and cancels the task with no await in between.
Stop == /\ pc \notin {"down", "stopped"} /\ ~stopping /\ faults < MaxFaults
        /\ stopping' = TRUE /\ faults' = faults + 1
        /\ UNCHANGED <<pc, queue, snap, at, store, env, torn>>

Gone(p) == /\ Abandon
           /\ pc' = p
           /\ link' = "down" /\ subs' = 0 /\ inbox' = <<>>
           /\ UNCHANGED env

\* mutant: the handlers swallow the cancellation
UnwindIdle == /\ stopping /\ pc \notin Handling \cup {"down", "stopped"}
              /\ Gone("stopped")
              /\ UNCHANGED <<stopping, faults>>

\* CancelledError is raised at the await and leaves every "except Exception".
Unwind == /\ stopping /\ pc \notin {"down", "stopped"}
          /\ Gone("stopped")
          /\ UNCHANGED <<stopping, faults>>

Exit == /\ pc = "stopped"
        /\ Gone("down")
        /\ UNCHANGED <<stopping, faults>>

Crash == /\ pc # "down" /\ faults < MaxFaults
         /\ faults' = faults + 1
         /\ Gone("down")
         /\ UNCHANGED stopping

\* A device publishes.  QoS 0 and a clean session: the message is queued for
\* the listener if its topic is subscribed and the link is up, else lost.
Publish(d, t, f) ==
  /\ sent < MaxMsgs
  /\ sent' = sent + 1
  /\ inbox' = IF link = "up" /\ \E i \in 1 .. subs : SubscribeOrder[i] = t
              THEN Append(inbox, [seq |-> sent', dev |-> d, type |-> t,
                                  flaw |-> f])
              ELSE inbox
  /\ UNCHANGED <<pc, stopping, link, subs, snap, at, store, now, torn, faults>>

LinkDrop == /\ link = "up" /\ faults < MaxFaults
            /\ link' = "down" /\ faults' = faults + 1
            /\ UNCHANGED <<pc, stopping, subs, inbox, snap, at, store, env,
                           torn>>

Tick == /\ now < MaxNow
        /\ now' = now + 1
        /\ UNCHANGED <<pc, stopping, queue, snap, at, store, sent, torn,
                       faults>>

Listener == \/ Connect \/ Subscribe \/ ConnectionLost \/ Retry
            \/ Reject \/ Accept \/ RedisReplies \/ Unwind

Next == \/ Listener
        \/ Start \/ Refused \/ RedisFails \/ Stop \/ Exit \/ Crash
        \/ \E d \in Devices, t \in Sending, f \in Flaws : Publish(d, t, f)
        \/ LinkDrop \/ Tick

Spec == Init /\ [][Next]_vars

\* The event loop runs a task whose await is over, and what it awaits (broker,
\* Redis, the pause) answers or fails.
Fairness == WF_vars(Listener)

FairSpec == Spec /\ Fairness

-----------------------------------------------------------------------------
(* Properties.                                                             *)

\* The shape of every variable.
TypeOK ==
  /\ pc \in Awaits /\ stopping \in BOOLEAN
  /\ link \in {"up", "down"} /\ subs \in 0 .. Len(SubscribeOrder)
  /\ inbox \in Seq(Message)
  /\ snap \in [Attrs -> Nat] /\ at \in Nat
  /\ log \in Seq(Entry) /\ trimmed \in 0 .. Len(log)
  /\ state \in [Devices -> [Attrs -> Nat]]
  /\ reported \in [Devices -> Nat]
  /\ sent \in Nat /\ now \in Nat /\ faults \in Nat
  /\ torn \subseteq Nat
  /\ pc \in Handling => inbox # <<>>
  /\ pc = "subscribe" => subs < Len(SubscribeOrder)

\* Across failures, cancellations, crashes and reconnections an event enters
\* the stream at most once, and in the order the devices sent them.
LogInSendOrder == \A i, j \in DOMAIN log : i < j => log[i].seq < log[j].seq

\* Between its XADD and its last SET, a message's event is the newest of the
\* stream and still in it, whatever the approximate trimming removes.
AppendedIsCurrent ==
  pc \in {"read", "write"} => /\ trimmed < Len(log)
                              /\ log[Len(log)].seq = Current.seq

Logged(s, d, t) == \E i \in DOMAIN log : /\ log[i].seq = s
                                         /\ log[i].dev = d
                                         /\ log[i].type = t

\* The snapshot is never ahead of the history: every field was copied from an
\* event of that device and type that the stream recorded before.
SnapshotOfLoggedEvent ==
  \A d \in Devices, f \in Fields :
    state[d][f] # 0 => Logged(state[d][f], d, f)

InHandler(s) == pc \in Handling /\ Current.seq = s

\* The snapshot falls behind the history only for events whose handler is
\* still running or died between its XADD and its SET: the read-modify-write
\* of upsert_state loses no other event's field.
SnapshotLagExplained ==
  \A i \in DOMAIN log :
    LET e == log[i] IN
      \/ e.type \notin Fields
      \/ state[e.dev][e.type] >= e.seq
      \/ InHandler(e.seq) \/ e.seq \in torn

\* A config_reported event in the stream implies that the device's stored
\* reported config is at least that recent, even if the handler died.
ReportedCoversLog ==
  \A i \in DOMAIN log :
    log[i].type = "config_reported" => reported[log[i].dev] >= log[i].seq

\* compute_status
Status(d) == IF state[d]["lastSeen"] = 0 THEN "unknown"
             ELSE IF now - state[d]["lastSeen"] <= OnlineTtl THEN "online"
             ELSE "offline"

\* A device with an event of any type received in the last OnlineTtl is online,
\* unless that event's handler has not reached, or never reached, its SET.
RecentlyHeardIsOnline ==
  \A i \in DOMAIN log :
    LET e == log[i] IN
      \/ now - e.rx > OnlineTtl
      \/ Status(e.dev) = "online"
      \/ InHandler(e.seq) \/ e.seq \in torn

\* No step, crash and restart included, moves a snapshot field or lastSeen
\* back to an older event or an earlier time.
SnapshotMonotonic ==
  [][\A d \in Devices, a \in Attrs : state'[d][a] >= state[d][a]]_vars

\* The stream and the snapshots together implement the abstract history.
Recorded == [i \in DOMAIN log |-> [seq |-> log[i].seq, dev |-> log[i].dev,
                                   type |-> log[i].type]]
Shadow == [d \in Devices |-> [f \in Fields |-> state[d][f]]]
History == INSTANCE DeviceHistory WITH
             Ids <- 1 .. MaxMsgs, history <- Recorded, shadow <- Shadow
HistorySpec == History!Spec

Queued(s) == \E i \in DOMAIN inbox : inbox[i].seq = s

\* No message blocks the queue: each one is handled, rejected or dropped.
QueueDrains == \A s \in 1 .. MaxMsgs : Queued(s) ~> ~Queued(s)

\* After a failure the listener subscribes to all topics again, unless the
\* process stops.
Reconnects == (pc = "backoff") ~> (pc = "listen" \/ stopping \/ pc = "down")
=============================================================================
