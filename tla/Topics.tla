------------------------------- MODULE Topics -------------------------------
(***************************************************************************)
(* How topics tie the backend to the devices: the subscriptions, the       *)
(* topics it publishes on, and what route_message reads out of the topic   *)
(* of an incoming message (mqtt/topics.py, mqtt/handlers.py).  A command   *)
(* goes out with its id in the payload and is acknowledged on a topic that *)
(* contains it.                                                            *)
(*                                                                         *)
(* A topic is the sequence of its levels; the configured prefix counts as  *)
(* one.  The empty name stands for Python's None too.                      *)
(***************************************************************************)
EXTENDS Naturals, Sequences, FiniteSets

CONSTANTS Devices,    \* device ids: any names, those of other levels included
          CommandIds, \* the uuid4s of commands
          MaxMessages \* bound: messages published

Prefix  == "knocklock/v1/devices"
Empty   == ""
Backend == "/"  \* the sender of what the backend publishes, no level's name

ASSUME NamesOK == /\ Devices \cup CommandIds \subseteq STRING \ {Empty, Backend}
                  /\ MaxMessages \in Nat

VARIABLES issued,  \* the commands issued: device and id
          wire,    \* the messages published so far
          heard    \* what the handlers recorded, with the message it came from

vars == <<issued, wire, heard>>

Init == issued = {} /\ wire = {} /\ heard = {}

-----------------------------------------------------------------------------
(* topics.py                                                               *)

\* The last levels of the topics of each type of message.
Suffix == [telemetry       |-> <<"telemetry">>,
           knock_live      |-> <<"api", "knock", "live">>,
           knock_result    |-> <<"api", "knock", "result">>,
           logs            |-> <<"api", "logs">>,
           config_reported |-> <<"config", "reported">>]

CommandsKind == <<"api", "commands">>
PatternKind  == <<"config", "pattern", "desired">>

AckFilter == <<Prefix, "+", "api", "commands", "+", "ack">>

\* mutant: one filter for both config topics
FiltersConfig == {<<Prefix, "+">> \o Suffix[k] : k \in DOMAIN Suffix}
                   \cup {AckFilter, <<Prefix, "+", "config", "+">>}

\* get_subscribe_topics
Filters == {<<Prefix, "+">> \o Suffix[k] : k \in DOMAIN Suffix}
             \cup {AckFilter}

\* The broker's matching; "+" is any one level.
MatchesFilter(f, t) == /\ Len(f) = Len(t)
                       /\ \A i \in 1 .. Len(f) : f[i] \in {"+", t[i]}

Subscribed(t) == \E f \in Filters : MatchesFilter(f, t)

\* build_topic
BuildTopic(d, kind, sub) ==
  <<Prefix, d>> \o kind \o (IF sub = Empty THEN <<>> ELSE <<sub>>)

\* mutant: the last but one level
ParseDeviceLast(t) == IF Len(t) < 3 THEN Empty ELSE t[Len(t) - 1]

\* parse_device_id_from_topic
ParseDevice(t) == IF Len(t) >= 3 /\ t[1] = Prefix THEN t[2] ELSE Empty

\* parse_command_id_from_ack_topic
ParseCommand(t) ==
  IF /\ Len(t) = 6 /\ t[1] = Prefix /\ t[2] # Empty
     /\ t[3] = "api" /\ t[4] = "commands" /\ t[6] = "ack"
  THEN t[5] ELSE Empty

EndsWith(t, s) == /\ Len(s) < Len(t)
                  /\ \A i \in 1 .. Len(s) : t[Len(t) - Len(s) + i] = s[i]

\* get_message_type_from_topic; the suffixes exclude each other.
IsAck(t) == /\ \E i \in 2 .. Len(t) - 2 : t[i] = "api" /\ t[i + 1] = "commands"
            /\ EndsWith(t, <<"ack">>)
TypesOf(t) == {k \in DOMAIN Suffix : EndsWith(t, Suffix[k])}
                \cup {k \in {"command_ack"} : IsAck(t)}

-----------------------------------------------------------------------------
(* What the backend and the devices publish.                               *)

\* kind is what the sender means; command the id in the payload.
Publish(topic, sender, kind, command) ==
  /\ Cardinality(wire) < MaxMessages
  /\ wire' = wire \cup {[topic |-> topic, sender |-> sender, kind |-> kind,
                         command |-> command]}

\* _issue_command and sync_config
Issue(d, c) == /\ \A i \in issued : i.id # c
               /\ issued' = issued \cup {[dev |-> d, id |-> c]}
               /\ Publish(BuildTopic(d, CommandsKind, Empty), Backend,
                          "command", c)
               /\ UNCHANGED heard

\* put_config, with its sub-id, and publish_pattern_desired
SendDesired(d) ==
  /\ \/ Publish(BuildTopic(d, <<"config">>, "desired"), Backend, "config", Empty)
     \/ Publish(BuildTopic(d, PatternKind, Empty), Backend, "pattern", Empty)
  /\ UNCHANGED <<issued, heard>>

\* A device acknowledges a command it received on its topic, with the id in the
\* topic or only in the payload.
Acknowledge(d) ==
  \E m \in wire :
    /\ m.kind = "command" /\ m.topic = BuildTopic(d, CommandsKind, Empty)
    /\ \E level \in {m.command, Empty} :
         Publish(<<Prefix, d>> \o CommandsKind \o <<level, "ack">>, d,
                 "command_ack", m.command)
    /\ UNCHANGED <<issued, heard>>

ReportSomething(d) ==
  /\ \E k \in DOMAIN Suffix : Publish(<<Prefix, d>> \o Suffix[k], d, k, Empty)
  /\ UNCHANGED <<issued, heard>>

\* What src/README.md has devices publish on, where it differs from topics.py.
Documented == [knock_live   |-> <<"knock", "live">>,
               knock_result |-> <<"knock", "result">>,
               logs         |-> <<"logs">>]

\* A device that was built after it reports, or acknowledges a command whose id
\* it was told.
ReportAsDocumented(d) ==
  /\ \E k \in DOMAIN Documented :
       Publish(<<Prefix, d>> \o Documented[k], d, k, Empty)
  /\ UNCHANGED <<issued, heard>>

AcknowledgeAsDocumented(d) ==
  /\ \E i \in issued :
       i.dev = d /\ Publish(<<Prefix, d, "commands", i.id, "ack">>, d,
                            "command_ack", i.id)
  /\ UNCHANGED <<issued, heard>>

-----------------------------------------------------------------------------
(* route_message                                                           *)

\* mutant: the id in the payload is not looked at
AckedCommandTopic(m) == ParseCommand(m.topic)

\* handle_command_ack: command_id or data.commandId
AckedCommand(m) == IF ParseCommand(m.topic) # Empty THEN ParseCommand(m.topic)
                   ELSE m.command

Route(m) ==
  /\ Subscribed(m.topic)
  /\ ParseDevice(m.topic) # Empty
  /\ \E k \in TypesOf(m.topic) :
       heard' = heard \cup
         {[dev |-> ParseDevice(m.topic), type |-> k, msg |-> m,
           command |-> IF k = "command_ack" THEN AckedCommand(m) ELSE Empty]}
  /\ UNCHANGED <<issued, wire>>

Next == \/ \E d \in Devices, c \in CommandIds : Issue(d, c)
        \/ \E d \in Devices :
             \/ SendDesired(d)
             \/ Acknowledge(d) \/ ReportSomething(d)
             \/ AcknowledgeAsDocumented(d) \/ ReportAsDocumented(d)
        \/ \E m \in wire : Route(m)

Spec == Init /\ [][Next]_vars

-----------------------------------------------------------------------------
(* Properties.                                                             *)

\* A recorded acknowledgement belongs to a command that was issued to the
\* device it is recorded for, however the devices are called and wherever the
\* acknowledgement has the id.
AcksCorrelate ==
  \A r \in heard : r.type = "command_ack" =>
                     [dev |-> r.dev, id |-> r.command] \in issued

\* Whatever reaches a handler reaches that of the type its sender meant, under
\* the name of its sender.
RoutedAsSent ==
  \A r \in heard : r.dev = r.msg.sender /\ r.type = r.msg.kind

\* Of all that is on the wire, what the subscriptions let in is what some device
\* sent, and route_message finds its sender and its one type in the topic: it
\* drops nothing that arrives, and nothing of the backend comes back.
ArrivingIsRouted ==
  \A m \in wire : Subscribed(m.topic) =>
    m.sender # Backend /\ ParseDevice(m.topic) = m.sender /\ TypesOf(m.topic) = {m.kind}
=============================================================================
