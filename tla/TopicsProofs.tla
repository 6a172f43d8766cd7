---------------------------- MODULE TopicsProofs ----------------------------
(***************************************************************************)
(* Proofs about Topics, for every set of device names and command ids.     *)
(* The inductive invariant spells out the topic of every message on the    *)
(* wire, which decides subscription, type, device and command id.          *)
(***************************************************************************)
EXTENDS Topics, SequenceTheorems, TLAPS

-----------------------------------------------------------------------------
(* Concatenations of known lengths, spelled out.                           *)

LEMMA JoinedLength == ASSUME NEW S, NEW p \in Seq(S), NEW q \in Seq(S)
                      PROVE Len(p \o q) = Len(p) + Len(q)
  OBVIOUS

LEMMA Joined21 ==
  ASSUME NEW S, NEW p \in Seq(S), NEW q \in Seq(S), Len(p) = 2, Len(q) = 1
  PROVE p \o q = <<p[1], p[2], q[1]>>
<1>1. PICK t : t = p \o q
  OBVIOUS
<1>2. t \in Seq(S)
  BY <1>1
<1>3. Len(t) = 3
  <2>1. Len(p \o q) = Len(p) + Len(q)
    BY JoinedLength
  <2> QED BY <2>1, <1>1
<1>4. \A i \in 1 .. Len(p) + Len(q) :
        t[i] = IF i <= Len(p) THEN p[i] ELSE q[i - Len(p)]
  BY <1>1, ConcatProperties
<1>5. /\ t[1] = p[1]
      /\ t[2] = p[2]
      /\ t[3] = q[1]
  BY <1>4
<1>6. t = <<p[1], p[2], q[1]>>
  BY <1>2, <1>3, <1>5
<1> QED BY <1>1, <1>6

LEMMA Concat21 ==
  ASSUME NEW a, NEW b, NEW x
  PROVE <<a, b>> \o <<x>> = <<a, b, x>>
<1>1. PICK S : S = {a, b, x}
  OBVIOUS
<1>2. <<a, b>> \in Seq(S) /\ <<x>> \in Seq(S)
  BY <1>1
<1>3. PICK p \in Seq(S), q \in Seq(S) :
        p = <<a, b>> /\ q = <<x>>
  BY <1>2, Zenon
<1>4. Len(p) = 2 /\ p[1] = a /\ p[2] = b
  BY <1>3
<1>5. Len(q) = 1 /\ q[1] = x
  BY <1>3
<1>6. p \o q = <<p[1], p[2], q[1]>>
  BY <1>4, <1>5, Joined21
<1> QED BY <1>3, <1>4, <1>5, <1>6, Zenon

LEMMA Joined22 ==
  ASSUME NEW S, NEW p \in Seq(S), NEW q \in Seq(S), Len(p) = 2, Len(q) = 2
  PROVE p \o q = <<p[1], p[2], q[1], q[2]>>
<1>1. PICK t : t = p \o q
  OBVIOUS
<1>2. t \in Seq(S)
  BY <1>1
<1>3. Len(t) = 4
  <2>1. Len(p \o q) = Len(p) + Len(q)
    BY JoinedLength
  <2> QED BY <2>1, <1>1
<1>4. \A i \in 1 .. Len(p) + Len(q) :
        t[i] = IF i <= Len(p) THEN p[i] ELSE q[i - Len(p)]
  BY <1>1, ConcatProperties
<1>5. /\ t[1] = p[1]
      /\ t[2] = p[2]
      /\ t[3] = q[1]
      /\ t[4] = q[2]
  BY <1>4
<1>6. t = <<p[1], p[2], q[1], q[2]>>
  BY <1>2, <1>3, <1>5
<1> QED BY <1>1, <1>6

LEMMA Concat22 ==
  ASSUME NEW a, NEW b, NEW x, NEW y
  PROVE <<a, b>> \o <<x, y>> = <<a, b, x, y>>
<1>1. PICK S : S = {a, b, x, y}
  OBVIOUS
<1>2. <<a, b>> \in Seq(S) /\ <<x, y>> \in Seq(S)
  BY <1>1
<1>3. PICK p \in Seq(S), q \in Seq(S) :
        p = <<a, b>> /\ q = <<x, y>>
  BY <1>2, Zenon
<1>4. Len(p) = 2 /\ p[1] = a /\ p[2] = b
  BY <1>3
<1>5. Len(q) = 2 /\ q[1] = x /\ q[2] = y
  BY <1>3
<1>6. p \o q = <<p[1], p[2], q[1], q[2]>>
  BY <1>4, <1>5, Joined22
<1> QED BY <1>3, <1>4, <1>5, <1>6, Zenon

LEMMA Joined23 ==
  ASSUME NEW S, NEW p \in Seq(S), NEW q \in Seq(S), Len(p) = 2, Len(q) = 3
  PROVE p \o q = <<p[1], p[2], q[1], q[2], q[3]>>
<1>1. PICK t : t = p \o q
  OBVIOUS
<1>2. t \in Seq(S)
  BY <1>1
<1>3. Len(t) = 5
  <2>1. Len(p \o q) = Len(p) + Len(q)
    BY JoinedLength
  <2> QED BY <2>1, <1>1
<1>4. \A i \in 1 .. Len(p) + Len(q) :
        t[i] = IF i <= Len(p) THEN p[i] ELSE q[i - Len(p)]
  BY <1>1, ConcatProperties
<1>5. /\ t[1] = p[1]
      /\ t[2] = p[2]
      /\ t[3] = q[1]
      /\ t[4] = q[2]
      /\ t[5] = q[3]
  BY <1>4
<1>6. t = <<p[1], p[2], q[1], q[2], q[3]>>
  BY <1>2, <1>3, <1>5
<1> QED BY <1>1, <1>6

LEMMA Concat23 ==
  ASSUME NEW a, NEW b, NEW x, NEW y, NEW z
  PROVE <<a, b>> \o <<x, y, z>> = <<a, b, x, y, z>>
<1>1. PICK S : S = {a, b, x, y, z}
  OBVIOUS
<1>2. <<a, b>> \in Seq(S) /\ <<x, y, z>> \in Seq(S)
  BY <1>1
<1>3. PICK p \in Seq(S), q \in Seq(S) :
        p = <<a, b>> /\ q = <<x, y, z>>
  BY <1>2, Zenon
<1>4. Len(p) = 2 /\ p[1] = a /\ p[2] = b
  BY <1>3
<1>5. Len(q) = 3 /\ q[1] = x /\ q[2] = y /\ q[3] = z
  BY <1>3
<1>6. p \o q = <<p[1], p[2], q[1], q[2], q[3]>>
  BY <1>4, <1>5, Joined23
<1> QED BY <1>3, <1>4, <1>5, <1>6, Zenon

LEMMA Joined31 ==
  ASSUME NEW S, NEW p \in Seq(S), NEW q \in Seq(S), Len(p) = 3, Len(q) = 1
  PROVE p \o q = <<p[1], p[2], p[3], q[1]>>
<1>1. PICK t : t = p \o q
  OBVIOUS
<1>2. t \in Seq(S)
  BY <1>1
<1>3. Len(t) = 4
  <2>1. Len(p \o q) = Len(p) + Len(q)
    BY JoinedLength
  <2> QED BY <2>1, <1>1
<1>4. \A i \in 1 .. Len(p) + Len(q) :
        t[i] = IF i <= Len(p) THEN p[i] ELSE q[i - Len(p)]
  BY <1>1, ConcatProperties
<1>5. /\ t[1] = p[1]
      /\ t[2] = p[2]
      /\ t[3] = p[3]
      /\ t[4] = q[1]
  BY <1>4
<1>6. t = <<p[1], p[2], p[3], q[1]>>
  BY <1>2, <1>3, <1>5
<1> QED BY <1>1, <1>6

LEMMA Concat31 ==
  ASSUME NEW a, NEW b, NEW c, NEW x
  PROVE <<a, b, c>> \o <<x>> = <<a, b, c, x>>
<1>1. PICK S : S = {a, b, c, x}
  OBVIOUS
<1>2. <<a, b, c>> \in Seq(S) /\ <<x>> \in Seq(S)
  BY <1>1
<1>3. PICK p \in Seq(S), q \in Seq(S) :
        p = <<a, b, c>> /\ q = <<x>>
  BY <1>2, Zenon
<1>4. Len(p) = 3 /\ p[1] = a /\ p[2] = b /\ p[3] = c
  BY <1>3
<1>5. Len(q) = 1 /\ q[1] = x
  BY <1>3
<1>6. p \o q = <<p[1], p[2], p[3], q[1]>>
  BY <1>4, <1>5, Joined31
<1> QED BY <1>3, <1>4, <1>5, <1>6, Zenon

LEMMA Joined42 ==
  ASSUME NEW S, NEW p \in Seq(S), NEW q \in Seq(S), Len(p) = 4, Len(q) = 2
  PROVE p \o q = <<p[1], p[2], p[3], p[4], q[1], q[2]>>
<1>1. PICK t : t = p \o q
  OBVIOUS
<1>2. t \in Seq(S)
  BY <1>1
<1>3. Len(t) = 6
  <2>1. Len(p \o q) = Len(p) + Len(q)
    BY JoinedLength
  <2> QED BY <2>1, <1>1
<1>4. \A i \in 1 .. Len(p) + Len(q) :
        t[i] = IF i <= Len(p) THEN p[i] ELSE q[i - Len(p)]
  BY <1>1, ConcatProperties
<1>5. /\ t[1] = p[1]
      /\ t[2] = p[2]
      /\ t[3] = p[3]
      /\ t[4] = p[4]
      /\ t[5] = q[1]
      /\ t[6] = q[2]
  BY <1>4
<1>6. t = <<p[1], p[2], p[3], p[4], q[1], q[2]>>
  BY <1>2, <1>3, <1>5
<1> QED BY <1>1, <1>6

LEMMA Concat42 ==
  ASSUME NEW a, NEW b, NEW c, NEW d, NEW x, NEW y
  PROVE <<a, b, c, d>> \o <<x, y>> = <<a, b, c, d, x, y>>
<1>1. PICK S : S = {a, b, c, d, x, y}
  OBVIOUS
<1>2. <<a, b, c, d>> \in Seq(S) /\ <<x, y>> \in Seq(S)
  BY <1>1
<1>3. PICK p \in Seq(S), q \in Seq(S) :
        p = <<a, b, c, d>> /\ q = <<x, y>>
  BY <1>2, Zenon
<1>4. Len(p) = 4 /\ p[1] = a /\ p[2] = b /\ p[3] = c /\ p[4] = d
  BY <1>3
<1>5. Len(q) = 2 /\ q[1] = x /\ q[2] = y
  BY <1>3
<1>6. p \o q = <<p[1], p[2], p[3], p[4], q[1], q[2]>>
  BY <1>4, <1>5, Joined42
<1> QED BY <1>3, <1>4, <1>5, <1>6, Zenon

-----------------------------------------------------------------------------
(* The topics.                                                             *)

LEMMA Kinds == 
  DOMAIN Suffix =
    {"telemetry", "knock_live", "knock_result", "logs", "config_reported"}
  BY DEF Suffix

LEMMA Suffixes == /\ Suffix["telemetry"] = <<"telemetry">>
                  /\ Suffix["knock_live"] = <<"api", "knock", "live">>
                  /\ Suffix["knock_result"] = <<"api", "knock", "result">>
                  /\ Suffix["logs"] = <<"api", "logs">>
                  /\ Suffix["config_reported"] = <<"config", "reported">>
  BY DEF Suffix

\* The topic on which d reports k.
ReportTopic(d, k) == <<Prefix, d>> \o Suffix[k]

LEMMA ReportTopics ==
  ASSUME NEW d
  PROVE /\ ReportTopic(d, "telemetry") = <<Prefix, d, "telemetry">>
        /\ ReportTopic(d, "knock_live") = <<Prefix, d, "api", "knock", "live">>
        /\ ReportTopic(d, "knock_result") = <<Prefix, d, "api", "knock", "result">>
        /\ ReportTopic(d, "logs") = <<Prefix, d, "api", "logs">>
        /\ ReportTopic(d, "config_reported") = <<Prefix, d, "config", "reported">>
<1>1. ReportTopic(d, "telemetry") = <<Prefix, d, "telemetry">>
  BY Suffixes, Concat21 DEF ReportTopic
<1>2. ReportTopic(d, "knock_live") = <<Prefix, d, "api", "knock", "live">>
  BY Suffixes, Concat23 DEF ReportTopic
<1>3. ReportTopic(d, "knock_result") = <<Prefix, d, "api", "knock", "result">>
  BY Suffixes, Concat23 DEF ReportTopic
<1>4. ReportTopic(d, "logs") = <<Prefix, d, "api", "logs">>
  BY Suffixes, Concat22 DEF ReportTopic
<1>5. ReportTopic(d, "config_reported") = <<Prefix, d, "config", "reported">>
  BY Suffixes, Concat22 DEF ReportTopic
<1> QED BY <1>1, <1>2, <1>3, <1>4, <1>5

LEMMA TelemetryType ==
  ASSUME NEW d
  PROVE TypesOf(<<Prefix, d, "telemetry">>) = {"telemetry"}
<1>1. PICK t : t = <<Prefix, d, "telemetry">>
  OBVIOUS
<1>2. Len(t) = 3 /\ t[3] = "telemetry"
  BY <1>1
<1>3. ~IsAck(t)
  BY <1>2 DEF IsAck, EndsWith
<1>4. EndsWith(t, <<"telemetry">>)
  BY <1>2 DEF EndsWith
<1>5. ~EndsWith(t, <<"api", "knock", "live">>)
  BY <1>2 DEF EndsWith
<1>6. ~EndsWith(t, <<"api", "knock", "result">>)
  BY <1>2 DEF EndsWith
<1>7. ~EndsWith(t, <<"api", "logs">>)
  BY <1>2 DEF EndsWith
<1>8. ~EndsWith(t, <<"config", "reported">>)
  BY <1>2 DEF EndsWith
<1>9. \A l \in DOMAIN Suffix : EndsWith(t, Suffix[l]) <=> l = "telemetry"
  BY <1>4, <1>5, <1>6, <1>7, <1>8, Kinds, Suffixes
<1> QED BY <1>1, <1>3, <1>9, Kinds DEF TypesOf

LEMMA KnockLiveType ==
  ASSUME NEW d
  PROVE TypesOf(<<Prefix, d, "api", "knock", "live">>) = {"knock_live"}
<1>1. PICK t : t = <<Prefix, d, "api", "knock", "live">>
  OBVIOUS
<1>2. Len(t) = 5 /\ t[3] = "api" /\ t[4] = "knock" /\ t[5] = "live"
  BY <1>1
<1>3. ~IsAck(t)
  BY <1>2 DEF IsAck, EndsWith
<1>4. ~EndsWith(t, <<"telemetry">>)
  BY <1>2 DEF EndsWith
<1>5. EndsWith(t, <<"api", "knock", "live">>)
  BY <1>2 DEF EndsWith
<1>6. ~EndsWith(t, <<"api", "knock", "result">>)
  BY <1>2 DEF EndsWith
<1>7. ~EndsWith(t, <<"api", "logs">>)
  BY <1>2 DEF EndsWith
<1>8. ~EndsWith(t, <<"config", "reported">>)
  BY <1>2 DEF EndsWith
<1>9. \A l \in DOMAIN Suffix : EndsWith(t, Suffix[l]) <=> l = "knock_live"
  BY <1>4, <1>5, <1>6, <1>7, <1>8, Kinds, Suffixes
<1> QED BY <1>1, <1>3, <1>9, Kinds DEF TypesOf

LEMMA KnockResultType ==
  ASSUME NEW d
  PROVE TypesOf(<<Prefix, d, "api", "knock", "result">>) = {"knock_result"}
<1>1. PICK t : t = <<Prefix, d, "api", "knock", "result">>
  OBVIOUS
<1>2. Len(t) = 5 /\ t[3] = "api" /\ t[4] = "knock" /\ t[5] = "result"
  BY <1>1
<1>3. ~IsAck(t)
  BY <1>2 DEF IsAck, EndsWith
<1>4. ~EndsWith(t, <<"telemetry">>)
  BY <1>2 DEF EndsWith
<1>5. ~EndsWith(t, <<"api", "knock", "live">>)
  BY <1>2 DEF EndsWith
<1>6. EndsWith(t, <<"api", "knock", "result">>)
  BY <1>2 DEF EndsWith
<1>7. ~EndsWith(t, <<"api", "logs">>)
  BY <1>2 DEF EndsWith
<1>8. ~EndsWith(t, <<"config", "reported">>)
  BY <1>2 DEF EndsWith
<1>9. \A l \in DOMAIN Suffix : EndsWith(t, Suffix[l]) <=> l = "knock_result"
  BY <1>4, <1>5, <1>6, <1>7, <1>8, Kinds, Suffixes
<1> QED BY <1>1, <1>3, <1>9, Kinds DEF TypesOf

LEMMA LogsType ==
  ASSUME NEW d
  PROVE TypesOf(<<Prefix, d, "api", "logs">>) = {"logs"}
<1>1. PICK t : t = <<Prefix, d, "api", "logs">>
  OBVIOUS
<1>2. Len(t) = 4 /\ t[3] = "api" /\ t[4] = "logs"
  BY <1>1
<1>3. ~IsAck(t)
  BY <1>2 DEF IsAck, EndsWith
<1>4. ~EndsWith(t, <<"telemetry">>)
  BY <1>2 DEF EndsWith
<1>5. ~EndsWith(t, <<"api", "knock", "live">>)
  BY <1>2 DEF EndsWith
<1>6. ~EndsWith(t, <<"api", "knock", "result">>)
  BY <1>2 DEF EndsWith
<1>7. EndsWith(t, <<"api", "logs">>)
  BY <1>2 DEF EndsWith
<1>8. ~EndsWith(t, <<"config", "reported">>)
  BY <1>2 DEF EndsWith
<1>9. \A l \in DOMAIN Suffix : EndsWith(t, Suffix[l]) <=> l = "logs"
  BY <1>4, <1>5, <1>6, <1>7, <1>8, Kinds, Suffixes
<1> QED BY <1>1, <1>3, <1>9, Kinds DEF TypesOf

LEMMA ConfigReportedType ==
  ASSUME NEW d
  PROVE TypesOf(<<Prefix, d, "config", "reported">>) = {"config_reported"}
<1>1. PICK t : t = <<Prefix, d, "config", "reported">>
  OBVIOUS
<1>2. Len(t) = 4 /\ t[3] = "config" /\ t[4] = "reported"
  BY <1>1
<1>3. ~IsAck(t)
  BY <1>2 DEF IsAck, EndsWith
<1>4. ~EndsWith(t, <<"telemetry">>)
  BY <1>2 DEF EndsWith
<1>5. ~EndsWith(t, <<"api", "knock", "live">>)
  BY <1>2 DEF EndsWith
<1>6. ~EndsWith(t, <<"api", "knock", "result">>)
  BY <1>2 DEF EndsWith
<1>7. ~EndsWith(t, <<"api", "logs">>)
  BY <1>2 DEF EndsWith
<1>8. EndsWith(t, <<"config", "reported">>)
  BY <1>2 DEF EndsWith
<1>9. \A l \in DOMAIN Suffix : EndsWith(t, Suffix[l]) <=> l = "config_reported"
  BY <1>4, <1>5, <1>6, <1>7, <1>8, Kinds, Suffixes
<1> QED BY <1>1, <1>3, <1>9, Kinds DEF TypesOf

LEMMA AckType ==
  ASSUME NEW d, NEW c
  PROVE TypesOf(<<Prefix, d, "api", "commands", c, "ack">>) = {"command_ack"}
<1>1. PICK t : t = <<Prefix, d, "api", "commands", c, "ack">>
  OBVIOUS
<1>2. /\ Len(t) = 6 /\ t[3] = "api" /\ t[4] = "commands" /\ t[6] = "ack"
  BY <1>1
<1>3. IsAck(t)
  BY <1>2 DEF IsAck, EndsWith
<1>4. ~EndsWith(t, <<"telemetry">>)
  BY <1>2 DEF EndsWith
<1>5. ~EndsWith(t, <<"api", "knock", "live">>)
  BY <1>2 DEF EndsWith
<1>6. ~EndsWith(t, <<"api", "knock", "result">>)
  BY <1>2 DEF EndsWith
<1>7. ~EndsWith(t, <<"api", "logs">>)
  BY <1>2 DEF EndsWith
<1>8. ~EndsWith(t, <<"config", "reported">>)
  BY <1>2 DEF EndsWith
<1>9. \A l \in DOMAIN Suffix : ~EndsWith(t, Suffix[l])
  BY <1>4, <1>5, <1>6, <1>7, <1>8, Kinds, Suffixes
<1> QED BY <1>1, <1>3, <1>9 DEF TypesOf

-----------------------------------------------------------------------------
(* Which topics are subscribed, and what is parsed out of them.            *)

LEMMA ReportSubscribed ==
  ASSUME NEW d, NEW k \in DOMAIN Suffix
  PROVE Subscribed(ReportTopic(d, k))
<1>1. PICK f : f = <<Prefix, "+">> \o Suffix[k]
  OBVIOUS
<1>2. f \in Filters
  BY <1>1 DEF Filters
<1>3. f = ReportTopic("+", k)
  BY <1>1 DEF ReportTopic
<1>4. MatchesFilter(f, ReportTopic(d, k))
  <2>1. MatchesFilter(<<Prefix, "+", "telemetry">>,
                     <<Prefix, d, "telemetry">>)
    BY DEF MatchesFilter
  <2>2. MatchesFilter(<<Prefix, "+", "api", "knock", "live">>,
                     <<Prefix, d, "api", "knock", "live">>)
    BY DEF MatchesFilter
  <2>3. MatchesFilter(<<Prefix, "+", "api", "knock", "result">>,
                     <<Prefix, d, "api", "knock", "result">>)
    BY DEF MatchesFilter
  <2>4. MatchesFilter(<<Prefix, "+", "api", "logs">>,
                     <<Prefix, d, "api", "logs">>)
    BY DEF MatchesFilter
  <2>5. MatchesFilter(<<Prefix, "+", "config", "reported">>,
                     <<Prefix, d, "config", "reported">>)
    BY DEF MatchesFilter
  <2> QED BY <2>1, <2>2, <2>3, <2>4, <2>5, <1>3, Kinds, ReportTopics
<1> QED BY <1>2, <1>4 DEF Subscribed

LEMMA AckSubscribed ==
  ASSUME NEW d, NEW c
  PROVE Subscribed(<<Prefix, d, "api", "commands", c, "ack">>)
<1>1. MatchesFilter(AckFilter, <<Prefix, d, "api", "commands", c, "ack">>)
  BY DEF MatchesFilter, AckFilter
<1> QED BY <1>1 DEF Subscribed, Filters

LEMMA FiltersSpelled ==
  Filters = {AckFilter, <<Prefix, "+", "telemetry">>,
             <<Prefix, "+", "api", "knock", "live">>,
             <<Prefix, "+", "api", "knock", "result">>,
             <<Prefix, "+", "api", "logs">>,
             <<Prefix, "+", "config", "reported">>}
<1>1. Filters = {ReportTopic("+", k) : k \in DOMAIN Suffix} \cup {AckFilter}
  BY DEF Filters, ReportTopic
<1> QED BY <1>1, Kinds, ReportTopics

LEMMA CommandUnsubscribed ==
  ASSUME NEW d
  PROVE ~Subscribed(<<Prefix, d, "api", "commands">>)
<1>1. PICK t : t = <<Prefix, d, "api", "commands">>
  OBVIOUS
<1>2. Len(t) = 4 /\ t[3] = "api" /\ t[4] = "commands"
  BY <1>1
<1>3. ~MatchesFilter(AckFilter, t)
  BY <1>2 DEF MatchesFilter, AckFilter
<1>4. ~MatchesFilter(<<Prefix, "+", "telemetry">>, t)
  BY <1>2 DEF MatchesFilter
<1>5. ~MatchesFilter(<<Prefix, "+", "api", "knock", "live">>, t)
  BY <1>2 DEF MatchesFilter
<1>6. ~MatchesFilter(<<Prefix, "+", "api", "knock", "result">>, t)
  BY <1>2 DEF MatchesFilter
<1>7. ~MatchesFilter(<<Prefix, "+", "api", "logs">>, t)
  BY <1>2 DEF MatchesFilter
<1>8. ~MatchesFilter(<<Prefix, "+", "config", "reported">>, t)
  BY <1>2 DEF MatchesFilter
<1> QED BY <1>1, <1>3, <1>4, <1>5, <1>6, <1>7, <1>8, FiltersSpelled
        DEF Subscribed

LEMMA ConfigUnsubscribed ==
  ASSUME NEW d
  PROVE ~Subscribed(<<Prefix, d, "config", "desired">>)
<1>1. PICK t : t = <<Prefix, d, "config", "desired">>
  OBVIOUS
<1>2. Len(t) = 4 /\ t[3] = "config" /\ t[4] = "desired"
  BY <1>1
<1>3. ~MatchesFilter(AckFilter, t)
  BY <1>2 DEF MatchesFilter, AckFilter
<1>4. ~MatchesFilter(<<Prefix, "+", "telemetry">>, t)
  BY <1>2 DEF MatchesFilter
<1>5. ~MatchesFilter(<<Prefix, "+", "api", "knock", "live">>, t)
  BY <1>2 DEF MatchesFilter
<1>6. ~MatchesFilter(<<Prefix, "+", "api", "knock", "result">>, t)
  BY <1>2 DEF MatchesFilter
<1>7. ~MatchesFilter(<<Prefix, "+", "api", "logs">>, t)
  BY <1>2 DEF MatchesFilter
<1>8. ~MatchesFilter(<<Prefix, "+", "config", "reported">>, t)
  BY <1>2 DEF MatchesFilter
<1> QED BY <1>1, <1>3, <1>4, <1>5, <1>6, <1>7, <1>8, FiltersSpelled
        DEF Subscribed

LEMMA PatternUnsubscribed ==
  ASSUME NEW d
  PROVE ~Subscribed(<<Prefix, d, "config", "pattern", "desired">>)
<1>1. PICK t : t = <<Prefix, d, "config", "pattern", "desired">>
  OBVIOUS
<1>2. Len(t) = 5 /\ t[3] = "config" /\ t[4] = "pattern" /\ t[5] = "desired"
  BY <1>1
<1>3. ~MatchesFilter(AckFilter, t)
  BY <1>2 DEF MatchesFilter, AckFilter
<1>4. ~MatchesFilter(<<Prefix, "+", "telemetry">>, t)
  BY <1>2 DEF MatchesFilter
<1>5. ~MatchesFilter(<<Prefix, "+", "api", "knock", "live">>, t)
  BY <1>2 DEF MatchesFilter
<1>6. ~MatchesFilter(<<Prefix, "+", "api", "knock", "result">>, t)
  BY <1>2 DEF MatchesFilter
<1>7. ~MatchesFilter(<<Prefix, "+", "api", "logs">>, t)
  BY <1>2 DEF MatchesFilter
<1>8. ~MatchesFilter(<<Prefix, "+", "config", "reported">>, t)
  BY <1>2 DEF MatchesFilter
<1> QED BY <1>1, <1>3, <1>4, <1>5, <1>6, <1>7, <1>8, FiltersSpelled
        DEF Subscribed

\* The topics that the documentation has instead.
LEMMA DocumentedKnockUnsubscribed ==
  ASSUME NEW d, NEW c
  PROVE ~Subscribed(<<Prefix, d, "knock", c>>)
<1>1. PICK t : t = <<Prefix, d, "knock", c>>
  OBVIOUS
<1>2. Len(t) = 4 /\ t[3] = "knock" /\ t[4] = c
  BY <1>1
<1>3. ~MatchesFilter(AckFilter, t)
  BY <1>2 DEF MatchesFilter, AckFilter
<1>4. ~MatchesFilter(<<Prefix, "+", "telemetry">>, t)
  BY <1>2 DEF MatchesFilter
<1>5. ~MatchesFilter(<<Prefix, "+", "api", "knock", "live">>, t)
  BY <1>2 DEF MatchesFilter
<1>6. ~MatchesFilter(<<Prefix, "+", "api", "knock", "result">>, t)
  BY <1>2 DEF MatchesFilter
<1>7. ~MatchesFilter(<<Prefix, "+", "api", "logs">>, t)
  BY <1>2 DEF MatchesFilter
<1>8. ~MatchesFilter(<<Prefix, "+", "config", "reported">>, t)
  BY <1>2 DEF MatchesFilter
<1> QED BY <1>1, <1>3, <1>4, <1>5, <1>6, <1>7, <1>8, FiltersSpelled
        DEF Subscribed

LEMMA DocumentedLogsUnsubscribed ==
  ASSUME NEW d
  PROVE ~Subscribed(<<Prefix, d, "logs">>)
<1>1. PICK t : t = <<Prefix, d, "logs">>
  OBVIOUS
<1>2. Len(t) = 3 /\ t[3] = "logs"
  BY <1>1
<1>3. ~MatchesFilter(AckFilter, t)
  BY <1>2 DEF MatchesFilter, AckFilter
<1>4. ~MatchesFilter(<<Prefix, "+", "telemetry">>, t)
  BY <1>2 DEF MatchesFilter
<1>5. ~MatchesFilter(<<Prefix, "+", "api", "knock", "live">>, t)
  BY <1>2 DEF MatchesFilter
<1>6. ~MatchesFilter(<<Prefix, "+", "api", "knock", "result">>, t)
  BY <1>2 DEF MatchesFilter
<1>7. ~MatchesFilter(<<Prefix, "+", "api", "logs">>, t)
  BY <1>2 DEF MatchesFilter
<1>8. ~MatchesFilter(<<Prefix, "+", "config", "reported">>, t)
  BY <1>2 DEF MatchesFilter
<1> QED BY <1>1, <1>3, <1>4, <1>5, <1>6, <1>7, <1>8, FiltersSpelled
        DEF Subscribed

LEMMA DocumentedAckUnsubscribed ==
  ASSUME NEW d, NEW c
  PROVE ~Subscribed(<<Prefix, d, "commands", c, "ack">>)
<1>1. PICK t : t = <<Prefix, d, "commands", c, "ack">>
  OBVIOUS
<1>2. Len(t) = 5 /\ t[3] = "commands" /\ t[4] = c /\ t[5] = "ack"
  BY <1>1
<1>3. ~MatchesFilter(AckFilter, t)
  BY <1>2 DEF MatchesFilter, AckFilter
<1>4. ~MatchesFilter(<<Prefix, "+", "telemetry">>, t)
  BY <1>2 DEF MatchesFilter
<1>5. ~MatchesFilter(<<Prefix, "+", "api", "knock", "live">>, t)
  BY <1>2 DEF MatchesFilter
<1>6. ~MatchesFilter(<<Prefix, "+", "api", "knock", "result">>, t)
  BY <1>2 DEF MatchesFilter
<1>7. ~MatchesFilter(<<Prefix, "+", "api", "logs">>, t)
  BY <1>2 DEF MatchesFilter
<1>8. ~MatchesFilter(<<Prefix, "+", "config", "reported">>, t)
  BY <1>2 DEF MatchesFilter
<1> QED BY <1>1, <1>3, <1>4, <1>5, <1>6, <1>7, <1>8, FiltersSpelled
        DEF Subscribed

LEMMA DocumentedUnsubscribed ==
  ASSUME NEW d, NEW k \in DOMAIN Documented
  PROVE ~Subscribed(<<Prefix, d>> \o Documented[k])
<1>1. /\ DOMAIN Documented = {"knock_live", "knock_result", "logs"}
      /\ Documented["knock_live"] = <<"knock", "live">>
      /\ Documented["knock_result"] = <<"knock", "result">>
      /\ Documented["logs"] = <<"logs">>
  BY DEF Documented
<1>2. ~Subscribed(<<Prefix, d>> \o Documented["knock_live"])
  <2>1. <<Prefix, d>> \o <<"knock", "live">> = <<Prefix, d, "knock", "live">>
    BY Concat22
  <2> QED BY <1>1, <2>1, DocumentedKnockUnsubscribed
<1>3. ~Subscribed(<<Prefix, d>> \o Documented["knock_result"])
  <2>1. <<Prefix, d>> \o <<"knock", "result">> = <<Prefix, d, "knock", "result">>
    BY Concat22
  <2> QED BY <1>1, <2>1, DocumentedKnockUnsubscribed
<1>4. ~Subscribed(<<Prefix, d>> \o Documented["logs"])
  BY <1>1, Concat21, DocumentedLogsUnsubscribed
<1> QED BY <1>1, <1>2, <1>3, <1>4

LEMMA ReportDevice ==
  ASSUME NEW d, NEW k \in DOMAIN Suffix
  PROVE ParseDevice(ReportTopic(d, k)) = d
<1>1. ParseDevice(<<Prefix, d, "telemetry">>) = d
  BY DEF ParseDevice
<1>2. ParseDevice(<<Prefix, d, "api", "knock", "live">>) = d
  BY DEF ParseDevice
<1>3. ParseDevice(<<Prefix, d, "api", "knock", "result">>) = d
  BY DEF ParseDevice
<1>4. ParseDevice(<<Prefix, d, "api", "logs">>) = d
  BY DEF ParseDevice
<1>5. ParseDevice(<<Prefix, d, "config", "reported">>) = d
  BY DEF ParseDevice
<1> QED BY <1>1, <1>2, <1>3, <1>4, <1>5, Kinds, ReportTopics

LEMMA AckParsed ==
  ASSUME NEW d, NEW c, d # Empty
  PROVE /\ ParseDevice(<<Prefix, d, "api", "commands", c, "ack">>) = d
        /\ ParseCommand(<<Prefix, d, "api", "commands", c, "ack">>) = c
  BY DEF ParseDevice, ParseCommand

-----------------------------------------------------------------------------
(* The inductive invariant.                                                *)

\* A message of the backend: the topics that build_topic builds.
FromBackend(m) ==
  /\ m.sender = Backend
  /\ \E d \in Devices :
       \/ /\ m.kind = "command" /\ m.topic = <<Prefix, d, "api", "commands">>
          /\ [dev |-> d, id |-> m.command] \in issued
       \/ m.kind = "config" /\ m.topic = <<Prefix, d, "config", "desired">>
       \/ /\ m.kind = "pattern"
          /\ m.topic = <<Prefix, d, "config", "pattern", "desired">>

\* A device's acknowledgement of a command that was issued to it.
Acknowledgement(m) ==
  \E d \in Devices, level \in {m.command, Empty} :
    /\ m.sender = d /\ m.kind = "command_ack"
    /\ m.topic = <<Prefix, d, "api", "commands", level, "ack">>
    /\ [dev |-> d, id |-> m.command] \in issued

\* A device's report of anything else.
Report(m) ==
  \E d \in Devices, k \in DOMAIN Suffix :
    m.sender = d /\ m.kind = k /\ m.topic = ReportTopic(d, k)

\* What a device sends as documented, which is not let in.
AsDocumented(m) ==
  m.sender \in Devices /\ m.kind # "command" /\ ~Subscribed(m.topic)

Known(m) == FromBackend(m) \/ Acknowledgement(m) \/ Report(m) \/ AsDocumented(m)

\* What route_message reads out of the topic.
RoutedFrom(r) ==
  /\ r.msg \in wire /\ Subscribed(r.msg.topic)
  /\ r.dev = ParseDevice(r.msg.topic) /\ r.type \in TypesOf(r.msg.topic)
  /\ r.type = "command_ack" => r.command = AckedCommand(r.msg)

\* Every message on the wire is one of these, and every record comes from one.
IInv == /\ \A m \in wire : Known(m)
        /\ \A r \in heard : RoutedFrom(r)

LEMMA BackendTopics ==
  ASSUME NEW d
  PROVE /\ BuildTopic(d, CommandsKind, Empty) = <<Prefix, d, "api", "commands">>
        /\ BuildTopic(d, <<"config">>, "desired")
             = <<Prefix, d, "config", "desired">>
        /\ BuildTopic(d, PatternKind, Empty)
             = <<Prefix, d, "config", "pattern", "desired">>
<1>1. <<Prefix, d>> \o <<"api", "commands">> = <<Prefix, d, "api", "commands">>
  BY Concat22
<1>2. <<Prefix, d>> \o <<"config", "pattern", "desired">>
        = <<Prefix, d, "config", "pattern", "desired">>
  BY Concat23
<1>3. <<Prefix, d>> \o <<"config">> \o <<"desired">>
        = <<Prefix, d, "config", "desired">>
  <2>1. <<Prefix, d>> \o <<"config">> = <<Prefix, d, "config">>
    BY Concat21
  <2>2. <<Prefix, d, "config">> \o <<"desired">>
          = <<Prefix, d, "config", "desired">>
    BY Concat31
  <2> QED BY <2>1, <2>2, Zenon
<1>4. <<Prefix, d, "api", "commands">> \o <<>> = <<Prefix, d, "api", "commands">>
  <2>1. PICK S : S = {Prefix, d, "api", "commands"}
    OBVIOUS
  <2>2. <<Prefix, d, "api", "commands">> \in Seq(S)
    BY <2>1
  <2> QED BY <2>2, ConcatEmptySeq
<1>5. <<Prefix, d, "config", "pattern", "desired">> \o <<>>
        = <<Prefix, d, "config", "pattern", "desired">>
  <2>1. PICK S : S = {Prefix, d, "config", "pattern", "desired"}
    OBVIOUS
  <2>2. <<Prefix, d, "config", "pattern", "desired">> \in Seq(S)
    BY <2>1
  <2> QED BY <2>2, ConcatEmptySeq
<1>6. "desired" # Empty
  BY DEF Empty
<1> QED
  <2>1. BuildTopic(d, CommandsKind, Empty) = <<Prefix, d, "api", "commands">>
    BY <1>1, <1>4 DEF BuildTopic, CommandsKind
  <2>2. BuildTopic(d, <<"config">>, "desired") = <<Prefix, d, "config", "desired">>
    BY <1>3, <1>6 DEF BuildTopic
  <2>3. BuildTopic(d, PatternKind, Empty)
          = <<Prefix, d, "config", "pattern", "desired">>
    BY <1>2, <1>5 DEF BuildTopic, PatternKind
  <2> QED BY <2>1, <2>2, <2>3

LEMMA AckTopic ==
  ASSUME NEW d, NEW level
  PROVE <<Prefix, d>> \o CommandsKind \o <<level, "ack">>
          = <<Prefix, d, "api", "commands", level, "ack">>
<1>1. <<Prefix, d>> \o CommandsKind = <<Prefix, d, "api", "commands">>
  BY Concat22 DEF CommandsKind
<1>2. <<Prefix, d, "api", "commands">> \o <<level, "ack">>
        = <<Prefix, d, "api", "commands", level, "ack">>
  BY Concat42
<1> QED BY <1>1, <1>2, Zenon

LEMMA InitIInv == Init => IInv
  BY DEF Init, IInv

\* A message that is added is known, if it is one of the four, and what was
\* known and recorded stays so when only messages and commands are added.
LEMMA AddKnown ==
  ASSUME IInv, issued \subseteq issued', UNCHANGED heard,
         NEW new, wire' = wire \cup {new}, Known(new)'
  PROVE IInv'
<1>1. ASSUME NEW m, Known(m)
      PROVE  Known(m)'
  BY <1>1 DEF Known, FromBackend, Acknowledgement, Report, AsDocumented
<1>2. \A m \in wire' : Known(m)'
  BY <1>1 DEF IInv
<1>3. \A r \in heard' : RoutedFrom(r)'
  BY DEF IInv, RoutedFrom
<1> QED BY <1>2, <1>3 DEF IInv

LEMMA IssueIInv ==
  ASSUME IInv, NEW d \in Devices, NEW c \in CommandIds, Issue(d, c)
  PROVE IInv'
<1>1. PICK new : new = [topic |-> <<Prefix, d, "api", "commands">>,
                        sender |-> Backend, kind |-> "command", command |-> c]
  OBVIOUS
<1>2. wire' = wire \cup {new}
  BY <1>1, BackendTopics DEF Issue, Publish
<1>3. [dev |-> d, id |-> c] \in issued'
  BY DEF Issue
<1>4. Known(new)'
  BY <1>1, <1>3 DEF Known, FromBackend
<1> QED BY <1>2, <1>4, AddKnown DEF Issue

LEMMA DesiredIInv ==
  ASSUME IInv, NEW d \in Devices, SendDesired(d)
  PROVE IInv'
<1>1. CASE Publish(BuildTopic(d, <<"config">>, "desired"), Backend, "config", Empty)
  <2>1. PICK new : new = [topic |-> <<Prefix, d, "config", "desired">>,
                          sender |-> Backend, kind |-> "config",
                          command |-> Empty]
    OBVIOUS
  <2>2. wire' = wire \cup {new}
    BY <1>1, <2>1, BackendTopics DEF Publish
  <2>3. Known(new)'
    BY <2>1 DEF Known, FromBackend
  <2> QED BY <2>2, <2>3, AddKnown DEF SendDesired
<1>2. CASE Publish(BuildTopic(d, PatternKind, Empty), Backend, "pattern", Empty)
  <2>1. PICK new : new = [topic |-> <<Prefix, d, "config", "pattern", "desired">>,
                          sender |-> Backend, kind |-> "pattern",
                          command |-> Empty]
    OBVIOUS
  <2>2. wire' = wire \cup {new}
    BY <1>2, <2>1, BackendTopics DEF Publish
  <2>3. Known(new)'
    BY <2>1 DEF Known, FromBackend
  <2> QED BY <2>2, <2>3, AddKnown DEF SendDesired
<1> QED BY <1>1, <1>2 DEF SendDesired

LEMMA AcknowledgeIInv ==
  ASSUME IInv, NEW d \in Devices, Acknowledge(d)
  PROVE IInv'
<1>1. PICK m \in wire :
        /\ m.kind = "command" /\ m.topic = <<Prefix, d, "api", "commands">>
        /\ \E level \in {m.command, Empty} :
             Publish(<<Prefix, d, "api", "commands", level, "ack">>, d,
                     "command_ack", m.command)
        /\ UNCHANGED <<issued, heard>>
  BY BackendTopics, AckTopic DEF Acknowledge
<1>2. [dev |-> d, id |-> m.command] \in issued
  <2>1. ~Acknowledgement(m)
    BY <1>1 DEF Acknowledgement
  <2>2. ~Report(m)
    BY <1>1, Kinds DEF Report
  <2>d. ~AsDocumented(m)
    BY <1>1 DEF AsDocumented
  <2>3. PICK e \in Devices : /\ m.topic = <<Prefix, e, "api", "commands">>
                             /\ [dev |-> e, id |-> m.command] \in issued
    BY <1>1, <2>1, <2>2, <2>d DEF IInv, Known, FromBackend
  <2>4. e = d
    BY <1>1, <2>3
  <2> QED BY <2>3, <2>4
<1>3. PICK level \in {m.command, Empty} :
        Publish(<<Prefix, d, "api", "commands", level, "ack">>, d,
                "command_ack", m.command)
  BY <1>1
<1>4. PICK new :
        new = [topic |-> <<Prefix, d, "api", "commands", level, "ack">>,
               sender |-> d, kind |-> "command_ack", command |-> m.command]
  OBVIOUS
<1>5. wire' = wire \cup {new}
  BY <1>3, <1>4 DEF Publish
<1>6. /\ new.sender = d /\ new.kind = "command_ack"
      /\ new.topic = <<Prefix, d, "api", "commands", level, "ack">>
      /\ new.command = m.command
  BY <1>4
<1>7. Known(new)'
  BY <1>1, <1>2, <1>6 DEF Known, Acknowledgement
<1> QED BY <1>1, <1>5, <1>7, AddKnown

LEMMA ReportIInv ==
  ASSUME IInv, NEW d \in Devices, ReportSomething(d)
  PROVE IInv'
<1>1. PICK k \in DOMAIN Suffix : Publish(ReportTopic(d, k), d, k, Empty)
  BY DEF ReportSomething, ReportTopic
<1>2. PICK new : new = [topic |-> ReportTopic(d, k), sender |-> d, kind |-> k,
                        command |-> Empty]
  OBVIOUS
<1>3. wire' = wire \cup {new}
  BY <1>1, <1>2 DEF Publish
<1>4. Known(new)'
  BY <1>2 DEF Known, Report
<1> QED BY <1>3, <1>4, AddKnown DEF ReportSomething

LEMMA DocumentedIInv ==
  ASSUME IInv, NEW d \in Devices, ReportAsDocumented(d) \/ AcknowledgeAsDocumented(d)
  PROVE IInv'
<1>1. ASSUME NEW topic, NEW kind, NEW command, kind # "command", ~Subscribed(topic),
             Publish(topic, d, kind, command)
      PROVE  IInv'
  <2>1. PICK new : new = [topic |-> topic, sender |-> d, kind |-> kind,
                          command |-> command]
    OBVIOUS
  <2>2. wire' = wire \cup {new}
    BY <1>1, <2>1 DEF Publish
  <2>3. Known(new)'
    BY <1>1, <2>1 DEF Known, AsDocumented, Subscribed
  <2> QED BY <2>2, <2>3, AddKnown DEF ReportAsDocumented, AcknowledgeAsDocumented
<1>2. CASE ReportAsDocumented(d)
  <2>1. PICK k \in DOMAIN Documented :
          Publish(<<Prefix, d>> \o Documented[k], d, k, Empty)
    BY <1>2 DEF ReportAsDocumented
  <2>2. k # "command"
    BY DEF Documented
  <2> QED BY <1>1, <2>1, <2>2, DocumentedUnsubscribed
<1>3. CASE AcknowledgeAsDocumented(d)
  <2>1. PICK i \in issued :
          Publish(<<Prefix, d, "commands", i.id, "ack">>, d, "command_ack", i.id)
    BY <1>3 DEF AcknowledgeAsDocumented
  <2> QED BY <1>1, <2>1, DocumentedAckUnsubscribed
<1> QED BY <1>2, <1>3

LEMMA RouteIInv ==
  ASSUME IInv, NEW m \in wire, Route(m)
  PROVE IInv'
<1>1. \A x \in wire' : Known(x)'
  BY DEF IInv, Route, Known, FromBackend, Acknowledgement, Report, AsDocumented
<1>2. PICK k \in TypesOf(m.topic) :
        heard' = heard \cup
          {[dev |-> ParseDevice(m.topic), type |-> k, msg |-> m,
            command |-> IF k = "command_ack" THEN AckedCommand(m) ELSE Empty]}
  BY DEF Route
<1>3. PICK r : r = [dev |-> ParseDevice(m.topic), type |-> k, msg |-> m,
                    command |-> IF k = "command_ack" THEN AckedCommand(m)
                                ELSE Empty]
  OBVIOUS
<1>4. /\ r.dev = ParseDevice(m.topic) /\ r.type = k /\ r.msg = m
      /\ k = "command_ack" => r.command = AckedCommand(m)
  BY <1>3
<1>5. RoutedFrom(r)'
  BY <1>2, <1>4 DEF RoutedFrom, Route
<1>6. \A x \in heard : RoutedFrom(x)'
  BY DEF IInv, RoutedFrom, Route
<1>7. heard' = heard \cup {r}
  BY <1>2, <1>3
<1> QED BY <1>1, <1>5, <1>6, <1>7 DEF IInv

LEMMA NextIInv == IInv /\ [Next]_vars => IInv'
<1> SUFFICES ASSUME IInv, [Next]_vars PROVE IInv'
  OBVIOUS
<1>1. ASSUME NEW d \in Devices, NEW c \in CommandIds, Issue(d, c) PROVE IInv'
  BY <1>1, IssueIInv
<1>2. ASSUME NEW d \in Devices, SendDesired(d) PROVE IInv'
  BY <1>2, DesiredIInv
<1>3. ASSUME NEW d \in Devices, Acknowledge(d) PROVE IInv'
  BY <1>3, AcknowledgeIInv
<1>4. ASSUME NEW d \in Devices, ReportSomething(d) PROVE IInv'
  BY <1>4, ReportIInv
<1>5. ASSUME NEW m \in wire, Route(m) PROVE IInv'
  BY <1>5, RouteIInv
<1>6. ASSUME NEW d \in Devices, ReportAsDocumented(d) \/ AcknowledgeAsDocumented(d)
      PROVE  IInv'
  BY <1>6, DocumentedIInv
<1>7. CASE UNCHANGED vars
  BY <1>7 DEF vars, IInv, Known, FromBackend, Acknowledgement, Report, AsDocumented,
     RoutedFrom
<1> QED BY <1>1, <1>2, <1>3, <1>4, <1>5, <1>6, <1>7 DEF Next

-----------------------------------------------------------------------------
(* What follows from it.                                                   *)

LEMMA DeviceNames == \A d \in Devices : d # Empty /\ d # Backend
  BY NamesOK

LEMMA BackendUnheard ==
  ASSUME NEW m, FromBackend(m)
  PROVE m.sender = Backend /\ ~Subscribed(m.topic)
  BY CommandUnsubscribed, ConfigUnsubscribed, PatternUnsubscribed
  DEF FromBackend

LEMMA AckHeard ==
  ASSUME NEW m, Acknowledgement(m)
  PROVE /\ m.sender \in Devices /\ m.sender = ParseDevice(m.topic)
        /\ Subscribed(m.topic) /\ m.kind = "command_ack"
        /\ TypesOf(m.topic) = {m.kind}
        /\ [dev |-> m.sender, id |-> AckedCommand(m)] \in issued
<1>1. PICK d \in Devices, level \in {m.command, Empty} :
        /\ m.sender = d /\ m.kind = "command_ack"
        /\ m.topic = <<Prefix, d, "api", "commands", level, "ack">>
        /\ [dev |-> d, id |-> m.command] \in issued
  BY DEF Acknowledgement
<1>2. ParseDevice(m.topic) = d /\ ParseCommand(m.topic) = level
  BY <1>1, AckParsed, DeviceNames
<1>3. AckedCommand(m) = m.command
  BY <1>2 DEF AckedCommand
<1> QED BY <1>1, <1>2, <1>3, AckSubscribed, AckType

LEMMA ReportHeard ==
  ASSUME NEW m, Report(m)
  PROVE /\ m.sender \in Devices /\ m.sender = ParseDevice(m.topic)
        /\ Subscribed(m.topic) /\ m.kind # "command_ack"
        /\ TypesOf(m.topic) = {m.kind}
<1>1. PICK d \in Devices, k \in DOMAIN Suffix :
        m.sender = d /\ m.kind = k /\ m.topic = ReportTopic(d, k)
  BY DEF Report
<1>2. TypesOf(ReportTopic(d, k)) = {k}
  BY Kinds, ReportTopics, TelemetryType, KnockLiveType, KnockResultType,
     LogsType, ConfigReportedType
<1>3. k # "command_ack"
  BY Kinds
<1> QED BY <1>1, <1>2, <1>3, ReportSubscribed, ReportDevice

LEMMA InvProperties ==
  ASSUME IInv
  PROVE ArrivingIsRouted /\ RoutedAsSent /\ AcksCorrelate
<1>1. ArrivingIsRouted
  BY BackendUnheard, AckHeard, ReportHeard, DeviceNames
  DEF IInv, Known, AsDocumented, ArrivingIsRouted
<1>2. ASSUME NEW r \in heard
      PROVE /\ r.dev = r.msg.sender /\ r.type = r.msg.kind
            /\ r.type = "command_ack" => [dev |-> r.dev, id |-> r.command] \in issued
  <2>1. RoutedFrom(r) /\ Known(r.msg)
    BY DEF IInv, RoutedFrom
  <2>2. Acknowledgement(r.msg) \/ Report(r.msg)
    BY <2>1, BackendUnheard DEF Known, AsDocumented, RoutedFrom
  <2>3. CASE Acknowledgement(r.msg)
    BY <2>1, <2>3, AckHeard DEF RoutedFrom
  <2>4. CASE Report(r.msg)
    BY <2>1, <2>4, ReportHeard DEF RoutedFrom
  <2> QED BY <2>2, <2>3, <2>4
<1> QED BY <1>1, <1>2 DEF RoutedAsSent, AcksCorrelate

\* Every message on the wire has one of the shapes of topic that the backend and
\* the devices spell, or is not subscribed, and route_message has read nothing else.
THEOREM Inductive == Spec => []IInv
  BY InitIInv, NextIInv, PTL DEF Spec

\* handle_command_ack records the id of a command issued to that device, taken
\* from the topic or from the payload, for every naming of both.
THEOREM AcksCorrect == Spec => []AcksCorrelate
<1>1. IInv => AcksCorrelate
  BY InvProperties
<1> QED BY <1>1, Inductive, PTL

\* route_message dispatches to the handler of the type that the sender meant,
\* under the name of the sender, for every naming.
THEOREM RoutingCorrect == Spec => []RoutedAsSent
<1>1. IInv => RoutedAsSent
  BY InvProperties
<1> QED BY <1>1, Inductive, PTL

\* What the subscriptions of get_subscribe_topics let in was sent by a device, and
\* route_message finds its sender and its one type, for every naming; whatever
\* the backend publishes with build_topic stays out.
THEOREM SubscriptionCorrect == Spec => []ArrivingIsRouted
<1>1. IInv => ArrivingIsRouted
  BY InvProperties
<1> QED BY <1>1, Inductive, PTL
=============================================================================
