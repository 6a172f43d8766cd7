# A verification of the KnockLock backend

The backend (`src/app`) sits between smart locks and their users. Devices publish
telemetry, knocks, logs, acknowledgements and reported configurations over MQTT; one
listener task stores them in Redis; a REST API and a websocket read them back, manage knock
patterns and send commands and configurations to the devices. This directory models its
concurrent core in TLA+, checks it with TLC and proves the main results with TLAPS.

## The system

Everything runs in one Python process on one asyncio event loop, so code between two
awaits is atomic and every await is a point where other tasks run, where an error can come
out, where a shutdown cancels the task, and where the process may die.

| component | source | state | operations | module |
|---|---|---|---|---|
| MQTT listener | `mqtt/client.py` | broker session, shutdown event, task | connect, subscribe, handle, reconnect, start, stop | `Ingest` |
| message handlers | `mqtt/handlers.py` | locals across awaits | routing, six handlers | `Ingest`, `Topics` |
| device state | `storage/state.py` | one JSON document per device | read-modify-write, status | `Ingest` |
| event stream | `storage/events.py` | one trimmed Redis stream | append | `Ingest`, `EventStream` |
| lifecycle | `main.py`, `storage/redis.py` | shared Redis client | startup, shutdown | `Lifecycle` |
| topics | `mqtt/topics.py` | none | subscribe, build, parse | `Topics` |
| config, actions | `api/config.py`, `api/actions.py` | desired and reported config | get, put, sync, lock, unlock, learn | `Downlink` |
| publisher | `mqtt/publisher.py` | the broker's session and retained messages | publish | `Downlink`, `Patterns` (one message) |
| patterns | `storage/patterns.py`, `api/patterns.py` | records, index set, active pattern per device | create, update, activate, delete, list | `Patterns`, `Activation` |
| events, statistics | `api/events.py`, `api/stats.py` | none (cursors are the client's) | filtered query, latest, buckets | `EventStream` |
| live websocket | `api/events.py` | per connection: ids seen, last value | poll and send | `LiveFeed` |
| broadcaster, SSE | `services/broadcaster.py`, `api/stream.py` | queues | wired to nothing | not modelled |

The parts meet in Redis and in the broker, never by direct calls: the listener writes the
stream, the snapshots and the reported configs; the events and stats endpoints and the
websocket read the stream; patterns and configs are written by requests and sent to devices
as retained messages. What is hard is therefore what happens between two commands of one
operation:

- a handler is three or four Redis commands, and an error, a cancellation or a crash may
  fall between any two of them, with the reply of an executed command lost;
- snapshots and patterns are read, changed in memory and written back;
- a session can be lost at any time, with what was queued in it (QoS 0, clean session);
- every publish opens a connection with the same client identifier, so overlapping
  publishes take it from each other, and a connection that was given up may still have its
  message on the way;
- the stream is trimmed while handlers and clients with cursors work on it, and the live
  websocket polls its end while the listener appends;
- a pattern is a record, an index entry, an active pattern and a retained message, written
  one after the other by requests that run at the same time;
- shutdown ends the listener and then the Redis client its handlers use.

What makes each component correct: the listener keeps history and snapshots consistent and
always comes back; the stream's readers miss nothing that is there and agree with each
other; a pattern request is atomic towards the others, or at least loses nothing; a device
is only ever sent what is stored, and an answer says what happened to the message; a topic
means the same to its sender and to its receiver.

## Modules

`Ingest` is the core. `pc` is the await the listener task is suspended at, and an action is
the code from one await to the next. The four handler awaits are the commands `report` (SET
of the reported config), `append` (XADD), `read` (GET of the snapshot) and `write` (SET of
the snapshot). `RedisReplies` executes the command and moves on; `RedisFails` is any
exception, with the command executed or not; `Stop`/`Unwind`/`Exit` are `stop_mqtt`, the
cancellation arriving at whatever await the task is at, and the end of the process; `Crash`
takes the process down anywhere; Redis keeps its data. An event is represented by its place
in the order devices sent them (`seq`), so "the snapshot shows this event" and "in order"
can be said. A payload is reduced to what is wrong with it (`Flaws`), since
`config_reported` accepts what the other handlers reject. `torn` is a history variable: the
messages whose handler died half-way.

`DeviceHistory` is what `Ingest` promises to the readers of Redis: `Record` an event later
than all before, `Reflect` the newest one in its device's snapshot. No broker, no failure.

`Lifecycle` composes `Ingest` with `lifespan`: `phase` is the await of startup and shutdown,
`client` the shared Redis client. The start, stop and end of the listener happen inside the
steps of the lifespan, so the module shows that the code around the listener really drives
it the way `Ingest` allows.

`Downlink` is everything from the REST API down to the devices but patterns. A request in a
slot stands at a Redis command, inside `publish` (`connect`, `publish`, `puback`) or at its
reply. `session` is the slot whose connection the broker has for the publisher's identifier:
`Connect` takes it over, `Cut` is the `MqttError` in the publish that lost it, `Release` the
end of `async with`. `late` is a message in a connection that was given up, which the broker
reads (`TakeLate`) unless another `Connect` with the identifier comes first. Devices apply
the retained configuration and report it. `Outbox` is what `publish` promises its callers:
at most one delivery, and TRUE only after it; FALSE says nothing.

`Topics` has a topic as the sequence of its levels and translates `topics.py` level by
level: filters, `BuildTopic`, both parsers, the type. Devices, commands and the backend
exchange messages and `Route` records what `route_message` makes of them. A device reports and
acknowledges on the topics of the code, or (`ReportAsDocumented`, `AcknowledgeAsDocumented`) on
those `src/README.md` lists, which lack the level `api`.

`Patterns` holds a fixed number of request slots. A request stands at the Redis command, the
publish or the reply it waits for (`step`); commands of different slots interleave.
`PatternCatalogue` is the catalogue with atomic operations. `Activation` leaves `Patterns` as it
is and adds an observer of all requests: which activations under way have had no other of their
device beside them (`alone`), which no other writer of their pattern (`sole`), and the devices
for which the outcome of such a push should still stand (`settled`, `current`).

`EventStream` has a writer (append, trim, time) and two kinds of client, one that follows
`nextCursor` and one that polls with the newest id it has. Each request is one Redis
command and hence one action; the queries are operators over the stream. The stream is the
set of its entries, whose ids are their order: a page cut at the limit (`Newest`) is stated by
who belongs to it, the entries with fewer than that many newer ones, and not by the loop that
collects them. `LiveFeed` is the
websocket loop over the same stream, reduced to what the loop can tell apart: an entry is a
knock of its device, with an id and a first amplitude, or anything else.

`MC*` modules instantiate these for TLC; `*Proofs` hold the proofs. Operators commented
`mutant:` stand just before the definition they are a wrong version of; they show that a
property can fail and are used by nothing.

## What the runs check

Each run is `tlc -config <cfg> <module>`; `CHECK_DEADLOCK FALSE` everywhere, because the
bounds on messages, requests and faults run out and an idle service is no error. The runs of
`Ingest`, `Activation`, `EventStream` and `LiveFeed` check the type invariant `TypeOK` too.

| run (cfg) | bounds | what it shows |
|---|---|---|
| `MCIngest` | 2 devices, 3 messages, 2 faults, stream length 1, TTL 0, time 1..2 | the stream is in sending order without duplicates (`LogInSendOrder`); no trimming removes an event before the snapshot shows it (`AppendedIsCurrent`); the snapshot never precedes the history (`SnapshotOfLoggedEvent`), lags only for handlers that run or died (`SnapshotLagExplained`) and never goes back (`SnapshotMonotonic`); a logged config is stored (`ReportedCoversLog`); a device heard recently is online (`RecentlyHeardIsOnline`); `Ingest` implements `DeviceHistory` (`HistorySpec`) |
| `MCLifecycle` | 1 device, 2 messages, 2 faults, 1 failed startup | no handler runs on a closed Redis client (`HandlersHaveRedis`); the application is the listener of `Ingest` with its fairness (`ImplementsIngest`); `QueueDrains`, `Reconnects`, `ShutdownCompletes`, under fairness |
| `MCActivation` | 2 slots, 2 patterns, 1 device, 4 requests, 1 fault | a created pattern stays stored and listed (`UndeletedStaysListed`, `ListingComplete`); a deleted one returns only by a save that was already under way (`DeletedStaysDeleted`); once an activation was pushed without another of its device beside it, the retained message names the active pattern until the next activation is asked for, and it is the stored record as long as nobody else asks to write the pattern, beside the activation or after it (`ActivationSettles`); every request is answered (`RequestsComplete`, under fairness) |
| `MCPatternsSerial` | 1 slot, 5 requests, 2 faults | one request at a time implements `PatternCatalogue`, failures half-way included (`CatalogueSpec`) |
| `MCEventStream` | 2 devices, 3 events, length 2, `/latest` factor 2, pages of 1 and 2, time 0..1, buckets of 1 and 2 | polling with the newest id misses only trimmed events (`PollingMissesOnlyTrimmed`); each page of a walk leads beyond its cursor, so no page comes twice, though a writer that never stops can keep it going (`WalkAdvances`); `/latest` is the beginning of the query's first page and leaves out only what is buried (`LatestMissesOnlyBuried`); statistics and event query count the same knock results, for all windows (`StatsAgreeWithQuery`) |
| `MCDownlink` | 2 slots, 1 device, 3 requests, 1 fault | a device is sent and reports only what was stored (`AnnouncedWasStored`); a PUT without another beside it, once published, leaves stored and retained equal, however late other messages arrive (`SettledAgrees`); a command answered `ISSUED` was taken by the broker (`IssuedWasTaken`); of publishes that contend the last to connect succeeds (`LastConnectedSucceeds`); `publish` implements `Outbox` (`OutboxSpec`); every request is answered (`RequestsAnswered`, under fairness) |
| `MCLiveFeed` | 4 events, 2 entries per poll, amplitudes 0 and 1, 1 connection, 1 fault | events are sent in order and none twice (`SentInOrder`); what is missed was hidden by newer entries at the poll (`MissedWasCovered`); a knock does not stay on show (`KnockEnds`) and a client that leaves while one is shown is noticed (`GoneClientNoticed`), under fairness |
| `MCTopics` | devices called `api` and `ack`, commands `c1` and `telemetry`, 4 messages | acknowledgements belong to commands issued to the device (`AcksCorrelate`); messages reach the handler their sender means under its name (`RoutedAsSent`); what the subscriptions let in is a device's, with its sender and one type in the topic, and what the backend sends does not come back (`ArrivingIsRouted`) |

Three messages are the least in which an event can be torn, a second one of the same device
handled and a third one queued behind it; two faults allow a lost reply followed by a
crash, or a shutdown followed by an error after the restart. Length 1 makes trimming compete with
the handler at every append. Two message types suffice for the runs: `telemetry` has a
snapshot field, `config_reported` has none and has the fourth command; the proofs cover all
six. For patterns, every race of the code is one between two requests on one pattern: four
requests allow a create, two that overlap, and a fourth that sees the result. Three events of
two devices give a page boundary with a foreign event beside it and a trimmed cursor; time 0..1
gives a window that cuts a bucket of 2 and buckets of 1 side by side. In `Downlink` a takeover
needs two overlapping requests and a late message a third that connects after it was given up;
devices are independent, as every key and every topic contains one, so one device suffices,
and the one session is shared whatever their number. Four events and a window of two let
an event be hidden by a newer one, by foreign traffic, and come back into the newest place
with an id used before; the code's five changes only how many it takes. The names in
`MCTopics` are chosen to collide with topic levels.

The other runs each check one statement of the documentation that the code does not keep.
TLC finds the shortest counterexample:

| cfg | statement | what happens |
|---|---|---|
| `MCPatternsVersion` | "Monotonic version counter" (`models/pattern.py:95`) | an activation read version 1, an update stored version 2, the activation writes version 1 back and the update is lost |
| `MCPatternsRetained` | "the device receives the latest pattern on reconnect" (`mqtt/publisher.py:82`) | two activations record in one order and publish in the other: the retained message names a pattern that is not active (`RetainedIsActive`) |
| `MCEventStreamWalk` | "pass nextCursor from previous response" (`src/README.md:241`) | the cursor of a newest-first page is used to ask for newer events: older ones are never reached |
| `MCDownlinkPut` | "Stores the desired configuration in Redis and publishes it" (`api/config.py:55`) | a command that overlaps the PUT takes over the shared client identifier; the publish returns FALSE, which is logged, and the PUT is answered 200 |

More disagreements were met that need no run of their own. A single message or request, or a
sequence of requests one after the other, shows them:

- `src/README.md:84-87` lists `knocklock/v1/devices/+/knock/live`, `knock/result`, `logs` and
  `commands/+/ack` as subscribed topics, and `:168`, `:180`, `:191` and `:329` publish to them.
  The code has the level `api` in each (`mqtt/topics.py:28-33`, `:50-57`): a device that follows
  the documentation is not heard, but for its telemetry. `Topics` has such devices
  (`ReportAsDocumented`, `AcknowledgeAsDocumented`) and `DocumentedUnsubscribed` proves that
  nothing they send that way is subscribed; therefore `ArrivingIsRouted` speaks of what arrives
  and not of what is sent. The doctest of `parse_command_id_from_ack_topic`
  (`mqtt/topics.py:123`), for which the code returns None, and the command topics a device is
  told to listen on (`src/README.md:93`, `:321`; commands go out on `api/commands`) are the same.
- "The PC should reload the pattern if it receives a newer version via MQTT" (`api/patterns.py:145`)
  and "the device receives the latest pattern on reconnect" (`mqtt/publisher.py:82`): an update of
  the active pattern publishes nothing (`api/patterns.py:168`). Create, activate with `syncNow`,
  update, without any overlap or fault, leaves the old version and content retained until somebody
  activates the pattern again. A `DELETE` publishes nothing either, and leaves the id as the active
  one of its devices. `ActivationSettles` claims the stored version only for as long as nobody asks
  to write the pattern.
- "Permanently removes the pattern from the system" (`api/patterns.py:177`): an update or an
  activation that read the pattern before the `DEL` and waits for its `SET` writes it back after it
  (`api/patterns.py:168`, `:224`). `DeletedStaysDeleted` excepts this overlap (`overlapped`) and
  shows that nothing else brings a pattern back.
- `isActive` is set by an activation and never cleared, so `activeOnly` keeps listing a pattern
  after its device has activated another (`api/patterns.py:85`, `:219`).
- A push that failed is answered "Device will receive it on next reconnect" and nothing repeats it
  (`api/patterns.py:234`, `:243`).
- A window bound without a time zone raises `TypeError` in the comparison, which is caught, and the
  filter is skipped (`api/events.py:83`). `StatsAgreeWithQuery` is about windows with a time zone.
- `/latest` returns fewer events than a device has when five times the limit of others is newer
  (`api/events.py:154`), which `LatestMissesOnlyBuried` states exactly.

## Fairness

`Ingest`: weak fairness of the listener's own steps. The event loop resumes a task whose
await is over; the broker accepts or refuses a connection, Redis answers or its connection
breaks, the pause ends. Faults are not fair and are bounded, which stands for "the broker is
reachable again at some time". The Redis client has no timeout, so a Redis that never
answers would hold the listener: the fairness assumes that it does not. `Lifecycle`: the
same, and weak fairness of the steps of `lifespan`. Nothing is assumed about a restart:
`docker-compose.yml` restarts a container that ends, but the reloading server the
`Dockerfile` starts waits for a changed file when its child has died. `Patterns` and
`Downlink`: weak fairness of every slot's step, for the same reasons; inside `publish`
`aiomqtt` ends a wait for the broker after ten seconds. Publishes that contend for the
identifier need no more than that: one that is cut returns FALSE and does not connect again.
`LiveFeed`: weak fairness of the loop; clients and the listener are not fair.

## What is proved

For all values of the constants, from the named assumptions of each module alone. Each
module's `IInv` is an inductive invariant; the properties are not inductive by themselves.

**`Ingest`** (`IngestProofs`, and `IngestReaderProofs` for what readers see): type correctness,
every safety invariant of `MCIngest`, its action property and the refinement of
`DeviceHistory` (`HistoryCorrect`). `IInv` adds what the code relies on at each await: the
queue is in sending order and, save for the event of the running handler, newer than the
stream (`InboxInOrder`, `LogBehindInbox`); between the XADD and the last SET the newest entry
of the stream, untrimmed, is the handler's own (`AppendedExactly`); the document read is
still the stored one when it is written back, since the listener is its only writer
(`SnapFresh`); a handler that has passed `report` has its config stored (`ReportedFirst`);
and no time lies ahead of the clock (`StampsPast`). `CommandKeeps` is the central lemma: any
Redis command of a handler, executed or not, keeps the properties for everything but the
handler's own event. `StoreStep` says that the store changes only by the command a handler
waits for, which gives the action property and the refinement. `OnlineInv` adds that the time
a handler holds is no earlier than the time its event was received.

**`Lifecycle`** (`LifecycleProofs`): `RedisOutlivesHandlers`, from the invariant that relates
the phase to the listener's `pc`; and `ListenerImplemented`: the application makes only steps
of `Ingest`. `StoreOutlivesApplication` draws the conclusion: history, snapshots, reported
configs and online status, and the refinement of `DeviceHistory`, hold of the application
through every order of startup, shutdown, failure and kill. That it keeps the fairness as
well (`ImplementsIngest`) is model-checked.

**`Downlink`** (`DownlinkProofs`): type correctness (proved and therefore in no run), the four
invariants of `MCDownlink` and the refinement of `Outbox`. The invariant says which message
can be where: numbers are used by one request only (`Numbered`) and the session belongs to a
publish that waits for it (`Owned`); a message whose publish has not reached `puback` was not
taken, a `late` one neither, and no request still works on a `late` one (`Accounted`); and
while a PUT runs alone, from its own `Connect` on, no other configuration of its device is
`late` (`AloneUndisturbed`, `Settled`). That is what makes `SettledAgrees` true: the shared
identifier that lets publishes cut each other off also silences what was given up.

**`Patterns`** (`PatternsProofs`): type correctness, `UndeletedStaysListed`,
`DeletedStaysDeleted`, `ListingComplete`, for any number of slots and requests. The invariant
follows a pattern through the half-done requests: who may still write or drop it, and what a
listing under way has yet to look up.

`ActivationCorrect`, in the same module, proves `ActivationSettles` of `ObservedSpec` under no
further hypothesis: any requests beside the activation, with or without `syncNow`, any number of
failures and crashes. It rests on what a lone activation finds when it gets to its publish: the
active pattern is the one it recorded (`AloneOK`), the stored record the one it saved (`SoleOK`),
because every command writes only the record of a request that counts as writing it, and only
the active pattern and the message of a request that activates (`Stores`).

`CatalogueCorrect` has one hypothesis more, `Serial`: there is a single slot, so one request runs
at a time. The code does not enforce it; `MCPatternsVersion` and
`MCPatternsRetained` show what is lost without it. Under it the theorem proves the
refinement of `PatternCatalogue` with any number of failed commands: the record a request read
is still the stored one when it writes (`SerialOK`), and a stored pattern that a client may
name is indexed (`KnownIsListed`, which every command keeps: `StaysListed`), so each operation
takes effect with its SET, its SADD or its DEL, or not at all. The refinement mapping hides a
pattern that is stored and not yet indexed (`Listing`).

**`EventStream`** (`EventStreamProofs`): type correctness and the four invariants of
`MCEventStream`, for any stream length, page and bucket sizes. `PollingMissesOnlyTrimmed` needs
that the stream holds only what the polling client counts as sent and that what was sent is
still there or lost (`HeldWasSent`, `SentIsHeldOrLost`); a poll then gets all that is newer
(`PollGetsAll`, as the ids are distinct and no more than `MaxEvents`). The other three hold of
every stream with distinct ids, whatever led to it: `CursorLeadsOn` gives `WalkAdvances`;
`NewestIsUpwardClosed`, that whatever is newer than an entry read was read too, gives
`LatestMissesOnlyBuried`; and `BucketEncloses`, that a time lies in the bucket `_bucket_start`
computes and in no other, gives `StatsAgreeWithQuery`.

**`LiveFeed`** (`LiveFeedProofs`): type correctness, `SentInOrder`, `MissedWasCovered`, for any
number of entries read. The invariant: what was sent has its id in `seen` (`SentAreSeen`),
what is being sent is newer and no repetition (`SendingIsNewer`), and an open connection has
shown, or is showing, all it has seen (`SeenAreShown`).

**`Topics`** (`TopicsProofs`): the three invariants, for any names. The invariant spells out
the topic of every message on the wire, and of those sent as documented that they are not
subscribed; the lemmas before it compute, for each shape of topic,
whether it is subscribed, its type, its device and its command.

Only model-checked: liveness and fairness everywhere (`QueueDrains`, `Reconnects`,
`ShutdownCompletes`, `RequestsComplete`, `RequestsAnswered`, `KnockEnds`, `GoneClientNoticed`,
and `ImplementsIngest` for its fairness), which this prover does not reach. Every other property
of a passing run is also a theorem. Finite bounds of the models (messages, requests, faults,
time) are constants of the theorems as well: each holds for every value of them.

## Assumptions and what is left out

- Redis executes commands one at a time and keeps its data when the process dies. A command
  of a handler that died is executed before the next step or not at all.
- One process, one listener. `Stop` sets the event and cancels without an await in between,
  as `stop_mqtt` does.
- The broker closes the older of two connections with one identifier and reads nothing more
  from it, as the protocol requires; it retains one message per topic. The listener has an
  identifier of its own, so publishes do not disturb it.
- The clock does not go back. Ids from `uuid4` are fresh, although only eight digits are kept
  for patterns.
- Messages of one device and of the broker arrive in the order they were sent; they may be
  lost before the subscription and with the session, never duplicated (QoS 0).
- A cancellation is delivered at the await it finds. `aiomqtt` waits with `asyncio.wait_for`,
  which in Python 3.11 (`Dockerfile:1`) can lose a cancellation that meets a wait just completed:
  a listener whose connection or subscription is answered in the very moment of `stop_mqtt` would
  go on to wait for messages, and `ShutdownCompletes` would then depend on the next error.
- `LiveFeed`: the listener's approximate trimming never leaves fewer entries than the five a poll
  reads; an entry in reach of a poll is not trimmed.
- A push that fails in `Patterns` takes effect at once or never. A message of it that the broker
  reads later, as in `Downlink`, leaves `ActivationSettles` as it is: it speaks of a device only
  from a later push that succeeded, whose connection has silenced it.
- Device ids and command ids are single topic levels. The prefix counts as one level, as it
  is fixed.

## Not modelled

- The broadcaster and the SSE stream: `main.py` includes no router of it and nothing calls the
  broadcaster, so the program never runs them. `publish_message`, `stream_add`,
  `get_recent_events` and `get_active_pattern_id` are called by nothing either.
- Pydantic schemas beyond accepting or rejecting, wording and layout of responses, logging,
  settings, health checks (they only read), the configuration of the containers.
- The transcription endpoint and its page: signal processing of one upload, without state.

## Plan

Done: `Ingest` with `DeviceHistory`; `Patterns` with `PatternCatalogue` and
`Activation`; `EventStream`; `Lifecycle` around `Ingest`; `Downlink` with `Outbox`; `LiveFeed`; `Topics`; the proofs of all
their safety properties. What would add most next: `publish_pattern_desired` inside `Patterns`
with the three awaits and the session of `Downlink`; and the exact set of requests that may
overlap without losing the refinement of `PatternCatalogue` (those on different patterns), as a
weaker hypothesis than `Serial`.
