------------------------------ MODULE Downlink ------------------------------
(***************************************************************************)
(* From the REST API down to the devices: the config endpoints             *)
(* (api/config.py), the command endpoints (api/actions.py) and the         *)
(* publisher below them (mqtt/publisher.py), which opens a connection for  *)
(* every message, always with the same client identifier.                  *)
(*                                                                         *)
(* As in Patterns a slot holds a request and an action is the code between *)
(* two awaits.  A request has a number, which also stands for the message  *)
(* it publishes: the revision and data of a PUT, the commandId of a        *)
(* command (a uuid4, so a fresh one for each).                             *)
(***************************************************************************)
EXTENDS Naturals, Sequences

CONSTANTS Slots,        \* requests served at the same time
          Devices,
          None,         \* no slot, no device
          MaxRequests,  \* bound: requests
          MaxFaults     \* bound: Redis errors, broker errors, crashes

ASSUME ConstantsOK == /\ None \notin Slots /\ None \notin Devices
                      /\ MaxRequests \in Nat /\ MaxFaults \in Nat

VARIABLES
  desired,   \* config:desired:{id}: the PUT that wrote it, 0 for none
  reported,  \* config:reported:{id}, written by the listener
  retained,  \* the retained config/desired message of each device
  held,      \* the configuration each device has received and applied
  session,   \* the slot whose connection the broker keeps for the publisher's
             \* client identifier, or None
  late,      \* what the broker has not read yet from a connection given up
  req,       \* the request in each slot
  requests,  \* how many requests have begun
  faults,    \* faults so far
  stored,    \* (history) PUTs that were ever stored, per device
  settled,   \* (history) devices whose latest PUT ran alone and was published
  taken,     \* (history) messages the broker took, in that order
  outcome,   \* (history) what publish returned for each message
  latest     \* (history) the last message whose publish got a connection

redis   == <<desired, reported, stored>>
broker  == <<retained, session, late, taken, latest>>
vars    == <<redis, broker, held, req, requests, faults, settled, outcome>>

Numbers == 1 .. MaxRequests

\* The awaits inside publish: the connection, the message, its PUBACK.
Publishing == {"connect", "publish", "puback"}
Commands   == {"set", "getDesired", "getReported"}
Replies    == {"200", "500", "502"}

Request == [op    : {"none", "put", "get", "command"},
            step  : {"idle"} \cup Commands \cup Publishing \cup Replies,
            dev   : Devices \cup {None},
            num   : Nat,      \* the request's number
            alone : BOOLEAN]  \* put: (history) no other PUT for dev beside it

Blank == [op |-> "none", step |-> "idle", dev |-> None, num |-> 0,
          alone |-> FALSE]

At(s, step) == req[s].step = step
Goto(s, step) == req' = [req EXCEPT ![s].step = step]

Init ==
  /\ desired = [d \in Devices |-> 0] /\ reported = [d \in Devices |-> 0]
  /\ retained = [d \in Devices |-> 0] /\ held = [d \in Devices |-> 0]
  /\ session = None /\ late = Blank /\ req = [s \in Slots |-> Blank]
  /\ requests = 0 /\ faults = 0
  /\ stored = [d \in Devices |-> {}] /\ settled = {}
  /\ taken = <<>> /\ outcome = [m \in Numbers |-> "none"] /\ latest = 0

-----------------------------------------------------------------------------
(* Requests arrive.                                                        *)

\* A PUT for d that has not come back from publish.
Putting(s, d) == /\ req[s].op = "put" /\ req[s].dev = d
                 /\ req[s].step \in {"set"} \cup Publishing

Begin(s, r, others) ==
  /\ At(s, "idle") /\ requests < MaxRequests
  /\ requests' = requests + 1
  /\ req' = [others EXCEPT ![s] = [r EXCEPT !.num = requests + 1]]
  /\ UNCHANGED <<redis, broker, held, faults, outcome>>

\* mutant: the message is published first, then stored
BeginPutPublishing(s, d) ==
  /\ Begin(s, [Blank EXCEPT !.op = "put", !.step = "connect", !.dev = d,
                 !.alone = ~\E t \in Slots : Putting(t, d)],
           [t \in Slots |-> IF Putting(t, d) THEN [req[t] EXCEPT !.alone = FALSE]
                            ELSE req[t]])
  /\ settled' = settled \ {d}

BeginPut(s, d) ==
  /\ Begin(s, [Blank EXCEPT !.op = "put", !.step = "set", !.dev = d,
                 !.alone = ~\E t \in Slots : Putting(t, d)],
           [t \in Slots |-> IF Putting(t, d) THEN [req[t] EXCEPT !.alone = FALSE]
                            ELSE req[t]])
  /\ settled' = settled \ {d}

BeginGet(s, d) ==
  /\ Begin(s, [Blank EXCEPT !.op = "get", !.step = "getDesired", !.dev = d], req)
  /\ UNCHANGED settled

\* lock, unlock, learn/start, learn/stop and config/sync: a fresh commandId
BeginCommand(s, d) ==
  /\ Begin(s, [Blank EXCEPT !.op = "command", !.step = "connect", !.dev = d],
           req)
  /\ UNCHANGED settled

-----------------------------------------------------------------------------
(* Redis.                                                                  *)

JsonSetDesired(r) == /\ desired' = [desired EXCEPT ![r.dev] = r.num]
                     /\ stored' = [stored EXCEPT ![r.dev] = @ \cup {r.num}]
                     /\ UNCHANGED reported

StoreDesired(s) == /\ At(s, "set")
                   /\ JsonSetDesired(req[s])
                   /\ Goto(s, "connect")
                   /\ UNCHANGED <<broker, held, requests, faults, settled,
                                  outcome>>

\* The two reads of a snapshot; the values only go into the response.
Read(s) == /\ \/ At(s, "getDesired") /\ Goto(s, "getReported")
              \/ At(s, "getReported") /\ Goto(s, "200")
           /\ UNCHANGED <<redis, broker, held, requests, faults, settled,
                          outcome>>

-----------------------------------------------------------------------------
(* publish: connect, send, wait for the PUBACK, disconnect.                *)

\* mutant: every connection has an identifier of its own
ConnectUnshared(s) == /\ At(s, "connect")
                      /\ session' = s /\ latest' = req[s].num
                      /\ Goto(s, "publish")
                      /\ UNCHANGED <<redis, retained, late, taken, held,
                                     requests, faults, settled, outcome>>

\* The broker closes the connection that had the identifier before, and reads
\* nothing more from it.
Connect(s) == /\ At(s, "connect")
              /\ session' = s /\ late' = Blank /\ latest' = req[s].num
              /\ Goto(s, "publish")
              /\ UNCHANGED <<redis, retained, taken, held, requests, faults,
                             settled, outcome>>

\* The broker takes the message of r; a configuration has the retain flag.
Deliver(r) == /\ taken' = Append(taken, r.num)
              /\ retained' = IF r.op = "put"
                             THEN [retained EXCEPT ![r.dev] = r.num]
                             ELSE retained

Take(s) == /\ At(s, "publish") /\ session = s
           /\ Deliver(req[s])
           /\ Goto(s, "puback")
           /\ UNCHANGED <<redis, session, late, latest, held, requests, faults,
                          settled, outcome>>

\* mutant: the caller ignores what publish returned
AfterPublishAlways200(s, ok) == IF req[s].op = "put" THEN "getReported" ELSE "200"

\* put_config goes on in any case, a command is answered 200 or 502.
AfterPublish(s, ok) == CASE req[s].op = "put" -> "getReported"
                         [] req[s].op = "command" /\ ok -> "200"
                         [] req[s].op = "command" /\ ~ok -> "502"

\* publish returns; leaving "async with" closes the connection if it is there.
Return(s, ok) == LET r == req[s] IN
  /\ Goto(s, AfterPublish(s, ok))
  /\ outcome' = [outcome EXCEPT ![r.num] = IF ok THEN "ok" ELSE "failed"]
  /\ settled' = IF r.op = "put" /\ r.alone /\ ok THEN settled \cup {r.dev}
                ELSE settled
  /\ UNCHANGED <<redis, retained, taken, latest, held, requests>>

\* mutant: disconnecting closes whatever connection has the identifier
ReleaseIdentifier(s) == session' = None

Release(s) == session' = IF session = s THEN None ELSE session

\* The PUBACK is read, also when the connection has been closed since.
PubAck(s) == /\ At(s, "puback")
             /\ Return(s, TRUE)
             /\ Release(s)
             /\ UNCHANGED <<late, faults>>

\* mutant: a connection that was taken over is opened again
CutReconnecting(s) == /\ At(s, "publish") /\ session # s
                      /\ session' = s /\ late' = Blank
                      /\ latest' = req[s].num
                      /\ UNCHANGED <<redis, retained, taken, held, req,
                                     requests, faults, settled, outcome>>

\* mutant: the message is sent again after the connection was lost
CutResending(s) == /\ At(s, "publish") \/ At(s, "puback")
                   /\ session # s
                   /\ Goto(s, "connect")
                   /\ UNCHANGED <<redis, broker, held, requests, faults,
                                  settled, outcome>>

\* Another publish has taken the identifier over: MqttError, FALSE.
Cut(s) == /\ At(s, "publish") \/ At(s, "puback")
          /\ session # s
          /\ Return(s, FALSE)
          /\ UNCHANGED <<session, late, faults>>

Respond(s) == /\ \E c \in Replies : At(s, c)
              /\ req' = [req EXCEPT ![s] = Blank]
              /\ UNCHANGED <<redis, broker, held, requests, faults, settled,
                             outcome>>

Step(s) == \/ StoreDesired(s) \/ Read(s) \/ Connect(s) \/ Take(s)
           \/ PubAck(s) \/ Cut(s) \/ Respond(s)

-----------------------------------------------------------------------------
(* Failures and the devices.                                               *)

Fault == faults < MaxFaults /\ faults' = faults + 1

\* An exception out of Redis is caught nowhere: 500.  A SET that fails was
\* executed or it was not.
RedisFails(s) ==
  /\ \E c \in Commands : At(s, c)
  /\ \/ At(s, "set") /\ JsonSetDesired(req[s])
     \/ UNCHANGED redis
  /\ Goto(s, "500")
  /\ Fault
  /\ UNCHANGED <<broker, held, requests, settled, outcome>>

\* A connection is given up: its message may be on the way to the broker.
GiveUp(s) == /\ session' = None
             /\ late' \in {late} \cup {r \in {req[s]} : r.step = "publish"}

\* The broker refuses, is lost, or does not answer in time.  A CONNECT without
\* an answer may still have taken the identifier over.
BrokerFails(s) ==
  /\ req[s].step \in Publishing
  /\ Return(s, FALSE)
  /\ \/ session = s /\ GiveUp(s)
     \/ session # s /\ UNCHANGED <<session, late>>
     \/ At(s, "connect") /\ session' = None /\ late' = Blank
  /\ Fault

\* The broker reads the message after all.
TakeLate == /\ late # Blank
            /\ Deliver(late)
            /\ late' = Blank
            /\ UNCHANGED <<redis, session, latest, held, req, requests, faults,
                           settled, outcome>>

Crash == /\ req' = [s \in Slots |-> Blank]
         /\ \/ \E s \in Slots : session = s /\ GiveUp(s)
            \/ session = None /\ UNCHANGED <<session, late>>
         /\ Fault
         /\ UNCHANGED <<redis, retained, taken, latest, held, requests, settled,
                        outcome>>

\* The device receives the retained message: as it is published, on reconnect,
\* or after SYNC_CONFIG.
Apply(d) == /\ held[d] # retained[d]
            /\ held' = [held EXCEPT ![d] = retained[d]]
            /\ UNCHANGED <<redis, broker, req, requests, faults, settled,
                           outcome>>

\* It reports what it has; handle_config_reported stores it.
Report(d) == /\ reported[d] # held[d]
             /\ reported' = [reported EXCEPT ![d] = held[d]]
             /\ UNCHANGED <<desired, stored, broker, held, req, requests,
                            faults, settled, outcome>>

Next == \/ \E s \in Slots, d \in Devices :
             BeginPut(s, d) \/ BeginGet(s, d) \/ BeginCommand(s, d)
        \/ \E s \in Slots : Step(s) \/ RedisFails(s) \/ BrokerFails(s)
        \/ TakeLate \/ Crash
        \/ \E d \in Devices : Apply(d) \/ Report(d)

Spec == Init /\ [][Next]_vars

\* The event loop resumes every request whose await is over; aiomqtt ends a
\* wait for the broker after ten seconds.
FairSpec == Spec /\ \A s \in Slots : WF_vars(Step(s))

-----------------------------------------------------------------------------
(* Properties.                                                             *)

\* The shape of every variable; a request inside publish is a PUT or a command.
TypeOK ==
  /\ desired \in [Devices -> Nat] /\ reported \in [Devices -> Nat]
  /\ retained \in [Devices -> Nat] /\ held \in [Devices -> Nat]
  /\ session \in Slots \cup {None} /\ late \in Request
  /\ req \in [Slots -> Request]
  /\ requests \in 0 .. MaxRequests /\ faults \in Nat
  /\ stored \in [Devices -> SUBSET Nat] /\ settled \subseteq Devices
  /\ taken \in Seq(Numbers)
  /\ outcome \in [Numbers -> {"none", "ok", "failed"}]
  /\ latest \in 0 .. MaxRequests
  /\ \A s \in Slots : /\ At(s, "set") => req[s].op = "put"
                      /\ req[s].step \in Publishing =>
                           req[s].op \in {"put", "command"}
                      /\ req[s].op # "none" =>
                           req[s].dev \in Devices /\ req[s].num \in Numbers

\* Whatever fails half-way, a device is never sent a configuration, nor does it
\* report one, that was not stored as its desired configuration first.
AnnouncedWasStored ==
  \A d \in Devices : {retained[d], held[d], reported[d]} \ {0} \subseteq stored[d]

\* After a PUT that had no other PUT for its device beside it, and whose publish
\* succeeded, the retained message is the stored configuration, whatever failed
\* before, whatever else is published at the same time, and however late the
\* broker reads what was given up.
SettledAgrees == \A d \in settled : retained[d] = desired[d]

\* A command answered "ISSUED" has been taken by the broker.
IssuedWasTaken ==
  \A s \in Slots : At(s, "200") /\ req[s].op = "command"
                     => \E i \in DOMAIN taken : taken[i] = req[s].num

\* Publishes that overlap take the connection from each other, but never all
\* lose it: without faults the last one to connect does not fail.
LastConnectedSucceeds ==
  faults = 0 /\ latest # 0 => outcome[latest] # "failed"

\* Taken over, failed or answered, publish keeps the contract of Outbox: the
\* broker takes no message twice, and TRUE means that it took it.
Contract == INSTANCE Outbox WITH Messages <- Numbers
OutboxSpec == Contract!Spec

\* Every request is answered: publishes that contend for the identifier do not
\* keep each other from ever finishing.
RequestsAnswered ==
  \A s \in Slots : (req[s].step \in Commands \cup Publishing)
                     ~> (req[s].step \in Replies \cup {"idle"})

\* api/config.py says that a PUT "Stores the desired configuration in Redis and
\* publishes it to the MQTT config/desired topic with retain=true": without any
\* fault, a PUT that is answered 200 has been published.
AnsweredPutWasPublished ==
  \A s \in Slots : faults = 0 /\ At(s, "200") /\ req[s].op = "put"
                     => \E i \in DOMAIN taken : taken[i] = req[s].num
=============================================================================
