--------------------------- MODULE DownlinkProofs ---------------------------
(***************************************************************************)
(* The safety invariants of Downlink and the contract of publish, for any  *)
(* number of slots, devices, requests and faults.                          *)
(***************************************************************************)
EXTENDS Downlink, SequenceTheorems, TLAPS

WasTaken(m) == Contract!WasTaken(m)

\* A request whose message has not been published yet, or whose publish has not
\* returned.
Unsent(s) == req[s].step \in {"set", "connect", "publish"}
Underway(s) == req[s].step \in {"set"} \cup Publishing

-----------------------------------------------------------------------------
(* Steps of requests.                                                      *)

\* Slot s has gone on to step x, and nothing else happened to the requests.
Moved(s, x) == /\ \A t \in Slots : t # s => req'[t] = req[t]
               /\ req'[s].step = x
               /\ req'[s].op = req[s].op /\ req'[s].dev = req[s].dev
               /\ req'[s].num = req[s].num /\ req'[s].alone = req[s].alone

LEMMA GotoMoves ==
  ASSUME NEW s \in Slots, NEW x, TypeOK, Goto(s, x)
  PROVE  Moved(s, x)
<1>1. req \in [Slots -> Request]
  BY DEF TypeOK
<1>2. req' = [req EXCEPT ![s] = [req[s] EXCEPT !.step = x]]
  BY DEF Goto
<1>3. req[s] \in Request
  BY <1>1
<1>4. req'[s] = [req[s] EXCEPT !.step = x]
  BY <1>1, <1>2
<1>5. \A t \in Slots : t # s => req'[t] = req[t]
  BY <1>1, <1>2
<1> QED
  BY <1>3, <1>4, <1>5 DEF Moved, Request

Steps == {"idle"} \cup Commands \cup Publishing \cup Replies

\* The typing of the requests is kept by such a step.
ReqOK(r) ==
  \A s \in Slots : /\ r[s].step = "set" => r[s].op = "put"
                   /\ r[s].step \in Publishing => r[s].op \in {"put", "command"}
                   /\ r[s].op # "none" =>
                        r[s].dev \in Devices /\ r[s].num \in Numbers

LEMMA GotoType ==
  ASSUME NEW s \in Slots, NEW x \in Steps, TypeOK, Goto(s, x),
         x = "set" => req[s].op = "put",
         x \in Publishing => req[s].op \in {"put", "command"}
  PROVE  req' \in [Slots -> Request] /\ ReqOK(req')
<1>1. req \in [Slots -> Request] /\ ReqOK(req)
  BY DEF TypeOK, ReqOK, At
<1>2. req' = [req EXCEPT ![s] = [req[s] EXCEPT !.step = x]]
  BY DEF Goto
<1>3. [req[s] EXCEPT !.step = x] \in Request
  BY <1>1 DEF Request, Steps
<1>4. req' \in [Slots -> Request]
  BY <1>1, <1>2, <1>3
<1>5. Moved(s, x)
  BY GotoMoves
<1> QED
  BY <1>1, <1>4, <1>5 DEF Moved, ReqOK

LEMMA BlankType == Blank \in Request
  BY DEF Blank, Request

\* What publish hands back to the request.
LEMMA ReturnMoves ==
  ASSUME NEW s \in Slots, NEW ok \in BOOLEAN, TypeOK, Return(s, ok),
         req[s].step \in Publishing
  PROVE  /\ Moved(s, AfterPublish(s, ok))
         /\ AfterPublish(s, ok) \in {"getReported", "200", "502"}
         /\ AfterPublish(s, ok) = "200" => ok /\ req[s].op = "command"
         /\ req' \in [Slots -> Request] /\ ReqOK(req')
<1>1. req[s].op \in {"put", "command"}
  BY DEF TypeOK
<1>2. AfterPublish(s, ok) \in {"getReported", "200", "502"}
  BY <1>1 DEF AfterPublish
<1>3. AfterPublish(s, ok) = "200" => ok /\ req[s].op = "command"
  BY <1>1 DEF AfterPublish
<1>4. Goto(s, AfterPublish(s, ok))
  BY DEF Return
<1>5. Moved(s, AfterPublish(s, ok))
  BY <1>4, GotoMoves
<1>6. /\ AfterPublish(s, ok) \in Steps
      /\ AfterPublish(s, ok) # "set" /\ AfterPublish(s, ok) \notin Publishing
  BY <1>2 DEF Steps, Commands, Replies, Publishing
<1>7. req' \in [Slots -> Request] /\ ReqOK(req')
  BY <1>4, <1>6, GotoType
<1> QED
  BY <1>2, <1>3, <1>5, <1>7

-----------------------------------------------------------------------------
(* Type correctness.                                                       *)

\* What the broker may still read is a message some request began to publish.
LateIsMessage ==
  late # Blank => /\ late.op \in {"put", "command"}
                  /\ late.dev \in Devices
                  /\ late.num \in Numbers

TypeInv == TypeOK /\ LateIsMessage

LEMMA BeginType ==
  ASSUME TypeOK, NEW s \in Slots, NEW r \in Request, NEW others,
         others \in [Slots -> Request], ReqOK(others),
         r.step = "set" => r.op = "put",
         r.step \in Publishing => r.op \in {"put", "command"},
         r.dev \in Devices,
         Begin(s, r, others)
  PROVE  /\ req' \in [Slots -> Request] /\ ReqOK(req')
         /\ requests' \in 0 .. MaxRequests
<1> DEFINE new == [r EXCEPT !.num = requests + 1]
<1>1. requests + 1 \in Numbers /\ requests' = requests + 1
  BY ConstantsOK DEF Begin, TypeOK, Numbers
<1>2. /\ new \in Request /\ new.op = r.op /\ new.step = r.step
      /\ new.dev = r.dev /\ new.num = requests + 1
  BY <1>1 DEF Request, Numbers
<1>3. req' = [others EXCEPT ![s] = new]
  BY DEF Begin
<1>4. req' \in [Slots -> Request]
  BY <1>2, <1>3
<1>5. \A t \in Slots : req'[t] = IF t = s THEN new ELSE others[t]
  BY <1>3
<1>6. ReqOK(req')
  <2> HIDE DEF new
  <2> QED
    BY <1>1, <1>2, <1>5 DEF ReqOK
<1> QED
  BY <1>1, <1>4, <1>6 DEF Numbers

\* A PUT that begins ends the solitude of the others for its device.
Joined(d) == [t \in Slots |-> IF Putting(t, d) THEN [req[t] EXCEPT !.alone = FALSE]
                              ELSE req[t]]

LEMMA JoinedType ==
  ASSUME TypeOK, NEW d
  PROVE  Joined(d) \in [Slots -> Request] /\ ReqOK(Joined(d))
<1>1. req \in [Slots -> Request] /\ ReqOK(req)
  BY DEF TypeOK, ReqOK, At
<1>2. \A t \in Slots :
        /\ [req[t] EXCEPT !.alone = FALSE] \in Request
        /\ [req[t] EXCEPT !.alone = FALSE].op = req[t].op
        /\ [req[t] EXCEPT !.alone = FALSE].step = req[t].step
        /\ [req[t] EXCEPT !.alone = FALSE].dev = req[t].dev
        /\ [req[t] EXCEPT !.alone = FALSE].num = req[t].num
  BY <1>1 DEF Request
<1>3. Joined(d) \in [Slots -> Request]
  BY <1>1, <1>2 DEF Joined
<1>4. \A t \in Slots : /\ Joined(d)[t].op = req[t].op
                       /\ Joined(d)[t].step = req[t].step
                       /\ Joined(d)[t].dev = req[t].dev
                       /\ Joined(d)[t].num = req[t].num
  BY <1>2 DEF Joined
<1> QED
  BY <1>1, <1>3, <1>4 DEF ReqOK

LEMMA DeliverType ==
  ASSUME TypeOK, NEW r \in Request, r.num \in Numbers, r.dev \in Devices,
         Deliver(r)
  PROVE  taken' \in Seq(Numbers) /\ retained' \in [Devices -> Nat]
<1>1. taken' \in Seq(Numbers)
  BY AppendProperties DEF Deliver, TypeOK
<1>2. r.num \in Nat
  BY ConstantsOK DEF Numbers
<1>3. retained' \in [Devices -> Nat]
  BY <1>2 DEF Deliver, TypeOK
<1> QED
  BY <1>1, <1>3

\* The part of TypeOK that is not about the requests.
StoresOK ==
  /\ desired \in [Devices -> Nat] /\ reported \in [Devices -> Nat]
  /\ retained \in [Devices -> Nat] /\ held \in [Devices -> Nat]
  /\ session \in Slots \cup {None} /\ late \in Request
  /\ faults \in Nat
  /\ stored \in [Devices -> SUBSET Nat] /\ settled \subseteq Devices
  /\ taken \in Seq(Numbers)
  /\ outcome \in [Numbers -> {"none", "ok", "failed"}]
  /\ latest \in 0 .. MaxRequests

LEMMA TypeParts ==
  TypeOK <=> /\ StoresOK /\ req \in [Slots -> Request] /\ ReqOK(req)
             /\ requests \in 0 .. MaxRequests
  BY DEF TypeOK, StoresOK, ReqOK, At

LEMMA InitTypeInv == Init => TypeInv
<1> SUFFICES ASSUME Init PROVE TypeInv
  OBVIOUS
<1>1. req \in [Slots -> Request] /\ ReqOK(req)
  BY BlankType DEF Init, ReqOK, Blank, Publishing
<1>2. <<>> \in Seq(Numbers)
  BY EmptySeq
<1>3. StoresOK /\ requests \in 0 .. MaxRequests
  BY <1>2, BlankType, ConstantsOK DEF Init, StoresOK
<1> QED
  BY <1>1, <1>3, TypeParts DEF TypeInv, LateIsMessage, Init

LEMMA StoreType ==
  ASSUME TypeOK, NEW s \in Slots, At(s, "set"), JsonSetDesired(req[s])
  PROVE  /\ desired' \in [Devices -> Nat] /\ reported' \in [Devices -> Nat]
         /\ stored' \in [Devices -> SUBSET Nat]
<1>1. req[s].num \in Nat /\ req[s].op = "put"
  BY DEF TypeOK, Request
<1> QED
  BY <1>1 DEF TypeOK, JsonSetDesired

LEMMA ReturnType ==
  ASSUME TypeOK, NEW s \in Slots, NEW ok \in BOOLEAN, Return(s, ok),
         req[s].step \in Publishing
  PROVE  /\ outcome' \in [Numbers -> {"none", "ok", "failed"}]
         /\ settled' \subseteq Devices
<1>1. req[s].num \in Numbers /\ req[s].dev \in Devices
  BY DEF TypeOK
<1> QED
  BY <1>1 DEF TypeOK, Return

\* The publishes that end, one way or another.
Ends(s, ok) == Return(s, ok) /\ req[s].step \in Publishing

LEMMA EndsSomehow ==
  ASSUME NEW s \in Slots, StoresOK, PubAck(s) \/ Cut(s) \/ BrokerFails(s)
  PROVE  /\ \/ Ends(s, TRUE) /\ At(s, "puback")
            \/ Ends(s, FALSE)
         /\ session' \in {session, None} /\ session' # s
         /\ faults' \in Nat
         /\ \/ late' \in {late, Blank}
            \/ late' = req[s] /\ req[s].step = "publish"
<1>1. CASE PubAck(s)
  BY <1>1, ConstantsOK
     DEF PubAck, At, Publishing, Ends, Release, StoresOK
<1>2. CASE Cut(s)
  BY <1>2 DEF Cut, At, Publishing, Ends, StoresOK
<1>3. CASE BrokerFails(s)
  <2>0. Ends(s, FALSE)
    BY <1>3 DEF BrokerFails, Ends
  <2>5. faults' \in Nat
    BY <1>3 DEF BrokerFails, Fault, StoresOK
  <2>1. Ends(s, FALSE) /\ faults' \in Nat
    BY <2>0, <2>5
  <2>2. CASE session = s /\ GiveUp(s)
    BY <1>3, <2>1, <2>2, ConstantsOK DEF GiveUp
  <2>3. CASE session # s /\ UNCHANGED <<session, late>>
    BY <1>3, <2>1, <2>3
  <2>4. CASE At(s, "connect") /\ session' = None /\ late' = Blank
    BY <1>3, <2>1, <2>4, ConstantsOK
  <2> QED
    BY <1>3, <2>2, <2>3, <2>4 DEF BrokerFails
<1> QED
  BY <1>1, <1>2, <1>3

LEMMA TypeInductive == TypeInv /\ [Next]_vars => TypeInv'
<1> SUFFICES ASSUME TypeInv, [Next]_vars PROVE TypeInv'
  OBVIOUS
<1>0. /\ TypeOK /\ StoresOK /\ LateIsMessage
      /\ req \in [Slots -> Request] /\ ReqOK(req) /\ requests \in 0 .. MaxRequests
  BY TypeParts DEF TypeInv
<1>p. SUFFICES /\ StoresOK' /\ LateIsMessage' /\ requests' \in 0 .. MaxRequests
               /\ req' \in [Slots -> Request] /\ ReqOK(req')
  BY DEF TypeInv, TypeOK, StoresOK, ReqOK, At
<1>1. ASSUME NEW s \in Slots, NEW d \in Devices, BeginPut(s, d)
      PROVE  StoresOK' /\ LateIsMessage' /\ requests' \in 0 .. MaxRequests
               /\ req' \in [Slots -> Request] /\ ReqOK(req')
  <2> DEFINE r == [Blank EXCEPT !.op = "put", !.step = "set", !.dev = d,
                     !.alone = ~\E t \in Slots : Putting(t, d)]
  <2>1. Begin(s, r, Joined(d)) /\ settled' = settled \ {d}
    BY <1>1 DEF BeginPut, Joined
  <2>2. r \in Request /\ r.step = "set" /\ r.op = "put" /\ r.dev = d
    BY DEF Blank, Request, Commands
  <2> HIDE DEF r
  <2>3. req' \in [Slots -> Request] /\ ReqOK(req') /\ requests' \in 0 .. MaxRequests
    BY <1>0, <2>1, <2>2, BeginType, JoinedType DEF Publishing
  <2> QED
    BY <1>0, <2>1, <2>3 DEF Begin, StoresOK, LateIsMessage, redis, broker
<1>2. ASSUME NEW s \in Slots, NEW d \in Devices, BeginGet(s, d) \/ BeginCommand(s, d)
      PROVE  StoresOK' /\ LateIsMessage' /\ requests' \in 0 .. MaxRequests
               /\ req' \in [Slots -> Request] /\ ReqOK(req')
  <2> DEFINE get == [Blank EXCEPT !.op = "get", !.step = "getDesired", !.dev = d]
             cmd == [Blank EXCEPT !.op = "command", !.step = "connect", !.dev = d]
             Fits(r) == /\ r \in Request /\ r.step # "set" /\ r.dev = d
                        /\ r.step \in Publishing => r.op = "command"
  <2>1. Fits(get) /\ Fits(cmd)
    BY DEF Blank, Request, Commands, Publishing
  <2>2. UNCHANGED settled /\ (Begin(s, get, req) \/ Begin(s, cmd, req))
    BY <1>2 DEF BeginGet, BeginCommand
  <2> HIDE DEF get, cmd
  <2>4. PICK r : Fits(r) /\ Begin(s, r, req)
    BY <2>1, <2>2
  <2>3. req' \in [Slots -> Request] /\ ReqOK(req') /\ requests' \in 0 .. MaxRequests
    BY <1>0, <2>4, BeginType
  <2> QED
    BY <1>0, <2>2, <2>3, <2>4 DEF Begin, StoresOK, LateIsMessage, redis, broker
<1>3. ASSUME NEW s \in Slots, StoreDesired(s)
      PROVE  StoresOK' /\ LateIsMessage' /\ requests' \in 0 .. MaxRequests
               /\ req' \in [Slots -> Request] /\ ReqOK(req')
  <2>1. req[s].op = "put" /\ Goto(s, "connect")
    BY <1>0, <1>3 DEF StoreDesired, ReqOK, At
  <2>2. req' \in [Slots -> Request] /\ ReqOK(req')
    BY <1>0, <2>1, GotoType DEF Steps, Publishing
  <2> QED
    BY <1>0, <1>3, <2>2, StoreType
       DEF StoreDesired, StoresOK, LateIsMessage, broker
<1>4. ASSUME NEW s \in Slots, Read(s)
      PROVE  StoresOK' /\ LateIsMessage' /\ requests' \in 0 .. MaxRequests
               /\ req' \in [Slots -> Request] /\ ReqOK(req')
  <2>1. PICK x \in {"getReported", "200"} : Goto(s, x)
    BY <1>4 DEF Read
  <2>2. req' \in [Slots -> Request] /\ ReqOK(req')
    BY <1>0, <2>1, GotoType DEF Steps, Publishing, Commands, Replies
  <2> QED
    BY <1>0, <1>4, <2>2 DEF Read, StoresOK, LateIsMessage, redis, broker
<1>5. ASSUME NEW s \in Slots, Connect(s)
      PROVE  StoresOK' /\ LateIsMessage' /\ requests' \in 0 .. MaxRequests
               /\ req' \in [Slots -> Request] /\ ReqOK(req')
  <2>1. req[s].op \in {"put", "command"} /\ Goto(s, "publish")
    BY <1>0, <1>5 DEF Connect, ReqOK, At, Publishing
  <2>2. req' \in [Slots -> Request] /\ ReqOK(req')
    BY <1>0, <2>1, GotoType DEF Steps, Publishing
  <2>3. req[s].num \in 0 .. MaxRequests
    BY <1>0, <2>1, ConstantsOK DEF ReqOK, Numbers
  <2> QED
    BY <1>0, <1>5, <2>2, <2>3, BlankType
       DEF Connect, StoresOK, LateIsMessage, redis
<1>6. ASSUME NEW s \in Slots, Take(s)
      PROVE  StoresOK' /\ LateIsMessage' /\ requests' \in 0 .. MaxRequests
               /\ req' \in [Slots -> Request] /\ ReqOK(req')
  <2>1. /\ req[s].op \in {"put", "command"} /\ Goto(s, "puback")
        /\ req[s].num \in Numbers /\ req[s].dev \in Devices /\ req[s] \in Request
    BY <1>0, <1>6 DEF Take, ReqOK, At, Publishing
  <2>2. req' \in [Slots -> Request] /\ ReqOK(req')
    BY <1>0, <2>1, GotoType DEF Steps, Publishing
  <2>3. taken' \in Seq(Numbers) /\ retained' \in [Devices -> Nat]
    BY <1>0, <1>6, <2>1, DeliverType DEF Take
  <2> QED
    BY <1>0, <1>6, <2>2, <2>3 DEF Take, StoresOK, LateIsMessage, redis
<1>7. ASSUME NEW s \in Slots, PubAck(s) \/ Cut(s) \/ BrokerFails(s)
      PROVE  StoresOK' /\ LateIsMessage' /\ requests' \in 0 .. MaxRequests
               /\ req' \in [Slots -> Request] /\ ReqOK(req')
  <2>1. PICK ok \in BOOLEAN : Ends(s, ok)
    BY <1>0, <1>7, EndsSomehow
  <2>2. /\ req' \in [Slots -> Request] /\ ReqOK(req')
        /\ outcome' \in [Numbers -> {"none", "ok", "failed"}]
        /\ settled' \subseteq Devices
    BY <1>0, <2>1, ReturnMoves, ReturnType DEF Ends
  <2>3. /\ session' \in {session, None} /\ faults' \in Nat
        /\ \/ late' \in {late, Blank}
           \/ late' = req[s] /\ req[s].step = "publish"
    BY <1>0, <1>7, EndsSomehow
  <2>4. late' \in Request /\ LateIsMessage'
    BY <1>0, <2>3, BlankType DEF StoresOK, ReqOK, Publishing, LateIsMessage
  <2> QED
    BY <1>0, <2>1, <2>2, <2>3, <2>4 DEF Ends, Return, StoresOK, redis
<1>8. ASSUME NEW s \in Slots, Respond(s)
      PROVE  StoresOK' /\ LateIsMessage' /\ requests' \in 0 .. MaxRequests
               /\ req' \in [Slots -> Request] /\ ReqOK(req')
  <2>1. req' = [req EXCEPT ![s] = Blank]
    BY <1>8 DEF Respond
  <2>2. \A t \in Slots : req'[t] = IF t = s THEN Blank ELSE req[t]
    BY <1>0, <2>1
  <2>3. req' \in [Slots -> Request] /\ ReqOK(req')
    BY <1>0, <2>1, <2>2, BlankType DEF ReqOK, Blank, Publishing
  <2> QED
    BY <1>0, <1>8, <2>3 DEF Respond, StoresOK, LateIsMessage, redis, broker
<1>9. ASSUME NEW s \in Slots, RedisFails(s)
      PROVE  StoresOK' /\ LateIsMessage' /\ requests' \in 0 .. MaxRequests
               /\ req' \in [Slots -> Request] /\ ReqOK(req')
  <2>1. Goto(s, "500") /\ faults' \in Nat
    BY <1>0, <1>9 DEF RedisFails, Fault, StoresOK
  <2>2. req' \in [Slots -> Request] /\ ReqOK(req')
    BY <1>0, <2>1, GotoType DEF Steps, Publishing, Replies
  <2>3. /\ desired' \in [Devices -> Nat] /\ reported' \in [Devices -> Nat]
        /\ stored' \in [Devices -> SUBSET Nat]
    BY <1>0, <1>9, StoreType DEF RedisFails, redis, StoresOK
  <2> QED
    BY <1>0, <1>9, <2>1, <2>2, <2>3
       DEF RedisFails, StoresOK, LateIsMessage, broker
<1>10. CASE TakeLate
  <2>1. taken' \in Seq(Numbers) /\ retained' \in [Devices -> Nat]
    BY <1>0, <1>10, DeliverType DEF TakeLate, LateIsMessage, StoresOK
  <2> QED
    BY <1>0, <1>10, <2>1, BlankType DEF TakeLate, StoresOK, LateIsMessage, redis
<1>11. CASE Crash
  <2>1. req' \in [Slots -> Request] /\ ReqOK(req')
    BY <1>11, BlankType DEF Crash, ReqOK, Blank, Publishing
  <2>2. \/ UNCHANGED late
        \/ \E s \in Slots : late' = req[s] /\ req[s].step = "publish"
    BY <1>11 DEF Crash, GiveUp
  <2>3. late' \in Request /\ LateIsMessage'
    BY <1>0, <2>2 DEF StoresOK, ReqOK, Publishing, LateIsMessage
  <2>4. session' \in Slots \cup {None} /\ faults' \in Nat
    BY <1>0, <1>11 DEF Crash, GiveUp, Fault, StoresOK
  <2> QED
    BY <1>0, <1>11, <2>1, <2>3, <2>4 DEF Crash, StoresOK, redis
<1>12. ASSUME NEW d \in Devices, Apply(d) \/ Report(d)
       PROVE  StoresOK' /\ LateIsMessage' /\ requests' \in 0 .. MaxRequests
               /\ req' \in [Slots -> Request] /\ ReqOK(req')
  BY <1>0, <1>12 DEF Apply, Report, StoresOK, LateIsMessage, redis, broker
<1>13. CASE UNCHANGED vars
  BY <1>0, <1>13 DEF vars, StoresOK, LateIsMessage, redis, broker
<1> QED
  BY <1>1, <1>2, <1>3, <1>4, <1>5, <1>6, <1>7, <1>8, <1>9, <1>10, <1>11, <1>12,
     <1>13 DEF Next, Step

\* Every variable keeps its type through takeovers, failures and crashes; only
\* a PUT or a command is ever inside publish.
THEOREM TypeCorrect == Spec => []TypeOK
<1>1. TypeInv => TypeOK
  BY DEF TypeInv
<1> QED
  BY <1>1, InitTypeInv, TypeInductive, PTL DEF Spec

-----------------------------------------------------------------------------
(* What the actions do to the requests, and to what the broker may read.   *)

Begins(s, d, r) ==
  /\ requests' = requests + 1 /\ At(s, "idle")
  /\ \A t \in Slots : t # s =>
       /\ req'[t].op = req[t].op /\ req'[t].step = req[t].step
       /\ req'[t].dev = req[t].dev /\ req'[t].num = req[t].num
       /\ req'[t].alone => req[t].alone
  /\ req'[s].op = r.op /\ req'[s].step = r.step
  /\ req'[s].dev = d /\ req'[s].num = requests + 1
  /\ UNCHANGED <<redis, broker, held, faults, outcome>>

LEMMA BeginPutBegins ==
  ASSUME TypeOK, NEW s \in Slots, NEW d \in Devices, BeginPut(s, d)
  PROVE  /\ Begins(s, d, [op |-> "put", step |-> "set"])
         /\ \A t \in Slots : t # s /\ req'[t].alone => ~Putting(t, d)
         /\ req'[s].alone => \A t \in Slots : ~Putting(t, d)
         /\ settled' = settled \ {d}
<1> DEFINE r == [Blank EXCEPT !.op = "put", !.step = "set", !.dev = d,
                   !.alone = ~\E t \in Slots : Putting(t, d)]
           new == [r EXCEPT !.num = requests + 1]
<1>1. /\ req' = [Joined(d) EXCEPT ![s] = new] /\ settled' = settled \ {d}
      /\ requests' = requests + 1 /\ At(s, "idle")
      /\ UNCHANGED <<redis, broker, held, faults, outcome>>
  BY DEF BeginPut, Begin, Joined
<1>2. /\ new.op = "put" /\ new.step = "set" /\ new.dev = d
      /\ new.num = requests + 1
      /\ new.alone => \A t \in Slots : ~Putting(t, d)
  BY DEF Blank
<1> HIDE DEF new
<1>3. req'[s] = new /\ \A t \in Slots : t # s => req'[t] = Joined(d)[t]
  BY <1>1 DEF Joined
<1>4. \A t \in Slots :
        /\ Joined(d)[t].op = req[t].op /\ Joined(d)[t].step = req[t].step
        /\ Joined(d)[t].dev = req[t].dev /\ Joined(d)[t].num = req[t].num
        /\ Joined(d)[t].alone => req[t].alone /\ ~Putting(t, d)
  BY DEF Joined, TypeOK, Request
<1> QED
  BY <1>1, <1>2, <1>3, <1>4 DEF Begins

LEMMA BeginGetBegins ==
  ASSUME TypeOK, NEW s \in Slots, NEW d \in Devices, BeginGet(s, d)
  PROVE  /\ Begins(s, d, [op |-> "get", step |-> "getDesired"])
         /\ UNCHANGED settled
         /\ \A t \in Slots : t # s => req'[t] = req[t]
<1> DEFINE new == [[Blank EXCEPT !.op = "get", !.step = "getDesired", !.dev = d]
                     EXCEPT !.num = requests + 1]
<1>1. req' = [req EXCEPT ![s] = new]
  BY DEF BeginGet, Begin
<1>2. /\ new.op = "get" /\ new.step = "getDesired" /\ new.dev = d
      /\ new.num = requests + 1
  BY DEF Blank
<1> HIDE DEF new
<1>3. req'[s] = new /\ \A t \in Slots : t # s => req'[t] = req[t]
  BY <1>1 DEF TypeOK
<1> QED
  BY <1>2, <1>3 DEF BeginGet, Begin, Begins

LEMMA BeginCommandBegins ==
  ASSUME TypeOK, NEW s \in Slots, NEW d \in Devices, BeginCommand(s, d)
  PROVE  /\ Begins(s, d, [op |-> "command", step |-> "connect"])
         /\ UNCHANGED settled
         /\ \A t \in Slots : t # s => req'[t] = req[t]
<1> DEFINE new == [[Blank EXCEPT !.op = "command", !.step = "connect", !.dev = d]
                     EXCEPT !.num = requests + 1]
<1>1. req' = [req EXCEPT ![s] = new]
  BY DEF BeginCommand, Begin
<1>2. /\ new.op = "command" /\ new.step = "connect" /\ new.dev = d
      /\ new.num = requests + 1
  BY DEF Blank
<1> HIDE DEF new
<1>3. req'[s] = new /\ \A t \in Slots : t # s => req'[t] = req[t]
  BY <1>1 DEF TypeOK
<1> QED
  BY <1>2, <1>3 DEF BeginCommand, Begin, Begins

\* All other steps: a request goes on or is gone, and the broker may read what
\* it could read before, nothing, or the message of a request that published.
Kept == /\ requests' = requests
        /\ \A t \in Slots :
             \/ req'[t] = Blank
             \/ /\ req'[t].op = req[t].op /\ req'[t].dev = req[t].dev
                /\ req'[t].num = req[t].num /\ req'[t].alone = req[t].alone
LateFrom == \/ late' = late \/ late' = Blank
            \/ \E s \in Slots : late' = req[s] /\ req[s].step = "publish"

Rest(s) == \/ StoreDesired(s) \/ Read(s) \/ Connect(s) \/ Take(s) \/ PubAck(s)
           \/ Cut(s) \/ Respond(s) \/ RedisFails(s) \/ BrokerFails(s)

Quiet == \/ TakeLate
         \/ \E d \in Devices : Apply(d) \/ Report(d)
         \/ UNCHANGED vars

LEMMA NextCases ==
  ASSUME [Next]_vars
  PROVE  \/ \E s \in Slots, d \in Devices :
              BeginPut(s, d) \/ BeginGet(s, d) \/ BeginCommand(s, d)
         \/ \E s \in Slots : Rest(s)
         \/ Crash \/ Quiet
  BY DEF Next, Step, Rest, Quiet

LEMMA RestKeeps ==
  ASSUME TypeOK, NEW s \in Slots, Rest(s)
  PROVE  /\ Kept /\ LateFrom
         /\ \A t \in Slots : t # s => req'[t] = req[t]
<1>0. StoresOK
  BY TypeParts
<1>1. CASE StoreDesired(s) \/ Read(s) \/ Connect(s) \/ Take(s) \/ RedisFails(s)
  <2>1. PICK x : Goto(s, x)
    BY <1>1 DEF StoreDesired, Read, Connect, Take, RedisFails
  <2>2. Moved(s, x)
    BY <2>1, GotoMoves
  <2>3. requests' = requests /\ LateFrom
    BY <1>1 DEF StoreDesired, Read, Connect, Take, RedisFails, broker, LateFrom
  <2> QED
    BY <2>2, <2>3 DEF Moved, Kept
<1>2. CASE PubAck(s) \/ Cut(s) \/ BrokerFails(s)
  <2>1. PICK ok \in BOOLEAN : Ends(s, ok)
    BY <1>0, <1>2, EndsSomehow
  <2>2. Moved(s, AfterPublish(s, ok)) /\ requests' = requests
    BY <2>1, ReturnMoves DEF Ends, Return
  <2>3. LateFrom
    BY <1>0, <1>2, EndsSomehow DEF LateFrom
  <2> QED
    BY <2>2, <2>3 DEF Moved, Kept
<1>3. CASE Respond(s)
  <2>1. req' = [req EXCEPT ![s] = Blank] /\ requests' = requests /\ late' = late
    BY <1>3 DEF Respond, broker
  <2> QED
    BY <2>1 DEF TypeOK, Kept, LateFrom
<1> QED
  BY <1>1, <1>2, <1>3 DEF Rest

LEMMA CrashKeeps ==
  ASSUME TypeOK, Crash
  PROVE  Kept /\ LateFrom /\ \A t \in Slots : req'[t] = Blank
  BY DEF Crash, GiveUp, Kept, LateFrom

LEMMA QuietKeeps ==
  ASSUME TypeOK, Quiet
  PROVE  Kept /\ LateFrom /\ req' = req
  BY DEF Quiet, TakeLate, Apply, Report, vars, broker, Kept, LateFrom

-----------------------------------------------------------------------------
(* The inductive invariant.                                                *)

\* Numbers are given out in order; no two requests have the same.
Numbered ==
  /\ \A s \in Slots : req[s].op # "none" => req[s].num <= requests
  /\ \A s, t \in Slots : s # t /\ req[s].op # "none" /\ req[t].op # "none"
                           => req[s].num # req[t].num
  /\ late # Blank => late.num <= requests

\* The broker's connection is that of a request waiting for it; a command reads
\* nothing from Redis.
Owned ==
  /\ \A s \in Slots : session = s => req[s].step \in {"publish", "puback"}
  /\ \A s \in Slots : req[s].step \in {"getDesired", "getReported"}
                        => req[s].op # "command"

\* A configuration that is or may be published has been stored.
PublishedAreStored ==
  /\ \A s \in Slots : req[s].op = "put" /\ req[s].step \in Publishing
                        => req[s].num \in stored[req[s].dev]
  /\ late.op = "put" => late.num \in stored[late.dev]

\* A PUT that is alone really is; what it has stored and published stays.
AloneUndisturbed ==
  \A s \in Slots, d \in Devices :
    Putting(s, d) =>
      /\ d \notin settled
      /\ req[s].alone => \A t \in Slots : Putting(t, d) => t = s
      /\ req[s].alone /\ ~At(s, "set") => desired[d] = req[s].num
      /\ req[s].alone /\ At(s, "puback") => retained[d] = req[s].num
      /\ req[s].alone /\ (session = s \/ At(s, "puback"))
           => ~(late.op = "put" /\ late.dev = d)

\* Nothing that is still to be read can replace a settled configuration.
Settled ==
  \A d \in settled : /\ retained[d] = desired[d]
                     /\ ~(late.op = "put" /\ late.dev = d)

\* What the broker has taken and publish has returned, request by request.
Accounted ==
  /\ \A s \in Slots : /\ At(s, "puback") => WasTaken(req[s].num)
                      /\ Unsent(s) => ~WasTaken(req[s].num)
                      /\ Underway(s) => outcome[req[s].num] = "none"
                      /\ Underway(s) /\ late # Blank => req[s].num # late.num
  /\ late # Blank => ~WasTaken(late.num)
  /\ \A n \in Numbers : n > requests => ~WasTaken(n) /\ outcome[n] = "none"

\* Without faults, whoever has lost the connection did not connect last.
LosersAreOlder ==
  faults = 0 =>
    /\ latest # 0 => outcome[latest] # "failed"
    /\ \A s \in Slots : req[s].step \in {"publish", "puback"} /\ session # s
                          => req[s].num # latest

IInv == /\ TypeInv /\ Numbered /\ Owned /\ PublishedAreStored
        /\ AnnouncedWasStored /\ AloneUndisturbed /\ Settled /\ Accounted
        /\ IssuedWasTaken /\ LosersAreOlder

LEMMA InitIInv == Init => IInv
<1> SUFFICES ASSUME Init PROVE IInv
  OBVIOUS
<1>1. TypeInv
  BY InitTypeInv
<1>2. \A s \in Slots : req[s] = Blank
  BY DEF Init
<1>3. \A m : ~WasTaken(m)
  BY DEF Init, WasTaken, Contract!WasTaken
<1>4. Numbered /\ Owned /\ PublishedAreStored /\ AloneUndisturbed /\ Settled
  BY <1>2, ConstantsOK
     DEF Init, Blank, Numbered, Owned, PublishedAreStored, AloneUndisturbed,
         Settled, Putting, Publishing
<1>5. Accounted /\ IssuedWasTaken
  BY <1>2, <1>3
     DEF Init, Blank, Accounted, IssuedWasTaken, At, Unsent, Underway, Publishing
<1>6. AnnouncedWasStored /\ LosersAreOlder
  BY <1>2 DEF Init, Blank, AnnouncedWasStored, LosersAreOlder
<1> QED
  BY <1>1, <1>4, <1>5, <1>6 DEF IInv

\* How each step of a slot moves its request.
LEMMA Moves ==
  ASSUME TypeOK, NEW s \in Slots
  PROVE  /\ StoreDesired(s) => At(s, "set") /\ Moved(s, "connect") /\ req[s].op = "put"
         /\ Read(s) => \/ At(s, "getDesired") /\ Moved(s, "getReported")
                       \/ At(s, "getReported") /\ Moved(s, "200")
         /\ Connect(s) => At(s, "connect") /\ Moved(s, "publish")
         /\ Take(s) => At(s, "publish") /\ Moved(s, "puback")
         /\ RedisFails(s) => req[s].step \in Commands /\ Moved(s, "500")
         /\ Respond(s) => /\ req[s].step \in Replies /\ req'[s] = Blank
                          /\ \A t \in Slots : t # s => req'[t] = req[t]
<1>1. StoreDesired(s) => At(s, "set") /\ Moved(s, "connect") /\ req[s].op = "put"
  BY GotoMoves DEF StoreDesired, TypeOK
<1>2. Read(s) => \/ At(s, "getDesired") /\ Moved(s, "getReported")
                 \/ At(s, "getReported") /\ Moved(s, "200")
  BY GotoMoves DEF Read
<1>3. Connect(s) => At(s, "connect") /\ Moved(s, "publish")
  BY GotoMoves DEF Connect
<1>4. Take(s) => At(s, "publish") /\ Moved(s, "puback")
  BY GotoMoves DEF Take
<1>5. RedisFails(s) => req[s].step \in Commands /\ Moved(s, "500")
  BY GotoMoves DEF RedisFails, At
<1>6. Respond(s) => /\ req[s].step \in Replies /\ req'[s] = Blank
                    /\ \A t \in Slots : t # s => req'[t] = req[t]
  BY DEF Respond, At, TypeOK
<1> QED
  BY <1>1, <1>2, <1>3, <1>4, <1>5, <1>6

\* How a publish that returns leaves its request.
LEMMA EndMoves ==
  ASSUME TypeOK, NEW s \in Slots, PubAck(s) \/ Cut(s) \/ BrokerFails(s)
  PROVE  \E ok \in BOOLEAN, x \in {"getReported", "200", "502"} :
           /\ Ends(s, ok) /\ Moved(s, x)
           /\ ok => At(s, "puback")
           /\ x = "200" => ok
           /\ x = "getReported" => req[s].op # "command"
<1>1. PICK ok \in BOOLEAN : Ends(s, ok) /\ (ok => At(s, "puback"))
  BY EndsSomehow, TypeParts
<1>2. /\ Moved(s, AfterPublish(s, ok))
      /\ AfterPublish(s, ok) \in {"getReported", "200", "502"}
      /\ AfterPublish(s, ok) = "200" => ok
  BY <1>1, ReturnMoves DEF Ends
<1>3. AfterPublish(s, ok) = "getReported" => req[s].op # "command"
  BY DEF AfterPublish
<1> QED
  BY <1>1, <1>2, <1>3

LEMMA NumberedKept ==
  ASSUME TypeInv, Numbered, [Next]_vars
  PROVE  Numbered'
<1>t. /\ TypeOK /\ StoresOK /\ req \in [Slots -> Request] /\ ReqOK(req)
      /\ requests \in 0 .. MaxRequests
  BY TypeParts DEF TypeInv
<1>n. requests \in Nat /\ late.num \in Nat /\ \A s \in Slots : req[s].num \in Nat
  BY <1>t, ConstantsOK DEF StoresOK, Request
<1>p. \A s \in Slots : req[s].step = "publish" => req[s].op # "none"
  BY <1>t DEF ReqOK, Publishing
<1>0. TypeOK /\ requests \in Nat /\ late.num \in Nat
      /\ \A s \in Slots : /\ req[s].num \in Nat
                          /\ req[s].step = "publish" => req[s].op # "none"
  BY <1>t, <1>n, <1>p
<1>1. ASSUME NEW s \in Slots, NEW d \in Devices, NEW r, Begins(s, d, r)
      PROVE  Numbered'
  BY <1>0, <1>1 DEF Begins, Numbered, broker
<1>2. ASSUME Kept, LateFrom
      PROVE  Numbered'
  BY <1>0, <1>2 DEF Kept, LateFrom, Numbered, Blank
<1>3. CASE \E s \in Slots, d \in Devices :
             BeginPut(s, d) \/ BeginGet(s, d) \/ BeginCommand(s, d)
  BY <1>0, <1>1, <1>3, BeginPutBegins, BeginGetBegins, BeginCommandBegins
<1> QED
  BY <1>0, <1>2, <1>3, NextCases, RestKeeps, CrashKeeps, QuietKeeps

LEMMA OwnedKept ==
  ASSUME TypeInv, Owned, [Next]_vars
  PROVE  Owned'
<1>0. TypeOK /\ StoresOK
  BY TypeParts DEF TypeInv
<1>1. ASSUME NEW s \in Slots, NEW d \in Devices, NEW r, Begins(s, d, r),
             r.step \notin {"publish", "puback", "getReported"},
             r.step = "getDesired" => r.op # "command"
      PROVE  Owned'
  BY <1>1 DEF Begins, Owned, broker, At
<1>2. CASE \E s \in Slots, d \in Devices : BeginPut(s, d)
  BY <1>0, <1>1, <1>2, BeginPutBegins
<1>3. ASSUME NEW s \in Slots, NEW d \in Devices, BeginGet(s, d) \/ BeginCommand(s, d)
      PROVE  Owned'
  <2>1. CASE BeginGet(s, d)
    <3>1. Begins(s, d, [op |-> "get", step |-> "getDesired"])
      BY <1>0, <2>1, BeginGetBegins
    <3> QED
      BY <1>1, <3>1
  <2>2. CASE BeginCommand(s, d)
    <3>1. Begins(s, d, [op |-> "command", step |-> "connect"])
      BY <1>0, <2>2, BeginCommandBegins
    <3> QED
      BY <1>1, <3>1
  <2> QED
    BY <1>3, <2>1, <2>2
<1>4. ASSUME NEW s \in Slots, Rest(s)
      PROVE  Owned'
  <2>1. CASE StoreDesired(s) \/ Read(s) \/ RedisFails(s)
    <3>1. session' = session
      BY <2>1 DEF StoreDesired, Read, RedisFails, broker
    <3> QED
      BY <1>0, <2>1, <3>1, Moves DEF Owned, Moved, At, Commands
  <2>2. CASE Connect(s) \/ Take(s)
    <3>1. session' = s
      BY <2>2 DEF Connect, Take
    <3> QED
      BY <1>0, <2>2, <3>1, Moves DEF Owned, Moved, At
  <2>3. CASE Respond(s)
    <3>1. session' = session
      BY <2>3 DEF Respond, broker
    <3> QED
      BY <1>0, <2>3, <3>1, Moves DEF Owned, Replies, Blank
  <2>4. CASE PubAck(s) \/ Cut(s) \/ BrokerFails(s)
    <3>1. session' \in {session, None} /\ session' # s
      BY <1>0, <2>4, EndsSomehow
    <3> QED
      BY <1>0, <2>4, <3>1, EndMoves, ConstantsOK DEF Owned, Moved
  <2> QED
    BY <1>4, <2>1, <2>2, <2>3, <2>4 DEF Rest
<1>5. CASE Crash
  <2>1. session' = None
    BY <1>5 DEF Crash, GiveUp
  <2> QED
    BY <1>0, <1>5, <2>1, CrashKeeps, ConstantsOK DEF Owned, Blank
<1>6. CASE Quiet
  <2>1. session' = session
    BY <1>6 DEF Quiet, TakeLate, Apply, Report, vars, broker
  <2> QED
    BY <1>0, <1>6, <2>1, QuietKeeps DEF Owned
<1> QED
  BY <1>2, <1>3, <1>4, <1>5, <1>6, NextCases

\* What a step does to the stored configurations and to the messages.
StoresMore == \A d \in Devices : stored[d] \subseteq stored'[d]

LEMMA StoredGrows ==
  ASSUME TypeOK, [Next]_vars
  PROVE  StoresMore
<1>1. ASSUME NEW s \in Slots, JsonSetDesired(req[s])
      PROVE  StoresMore
  BY <1>1 DEF JsonSetDesired, TypeOK, StoresMore
<1>2. stored' = stored => StoresMore
  BY DEF StoresMore
<1>3. ASSUME NEW s \in Slots, Rest(s)
      PROVE  StoresMore
  BY <1>1, <1>2, <1>3
     DEF Rest, StoreDesired, Read, Connect, Take, PubAck, Cut, Respond,
         RedisFails, BrokerFails, Return, redis
<1>4. CASE \E s \in Slots, d \in Devices :
             BeginPut(s, d) \/ BeginGet(s, d) \/ BeginCommand(s, d)
  BY <1>2, <1>4 DEF BeginPut, BeginGet, BeginCommand, Begin, redis
<1>5. CASE Crash \/ Quiet
  BY <1>2, <1>5 DEF Crash, Quiet, TakeLate, Apply, Report, vars, redis
<1> QED
  BY <1>3, <1>4, <1>5, NextCases

LEMMA PublishedKept ==
  ASSUME TypeInv, PublishedAreStored, [Next]_vars
  PROVE  PublishedAreStored'
<1>0. TypeOK /\ StoresOK /\ ReqOK(req) /\ StoresMore /\ LateIsMessage
  BY TypeParts, StoredGrows DEF TypeInv
<1>p. \A s \in Slots : /\ req[s].step \in Publishing => req[s].dev \in Devices
                       /\ req[s].op = "put" => req[s].dev \in Devices
  BY <1>0 DEF ReqOK, Publishing
<1>b. Blank.op # "put" /\ Blank.step \notin Publishing
  BY DEF Blank, Publishing
<1>1. ASSUME LateFrom
      PROVE  late'.op = "put" => late'.num \in stored'[late'.dev]
  <2>1. CASE late' = late \/ late' = Blank
    BY <1>0, <1>b, <2>1 DEF PublishedAreStored, StoresMore, LateIsMessage
  <2>2. ASSUME NEW s \in Slots, late' = req[s], req[s].step = "publish"
        PROVE  late'.op = "put" => late'.num \in stored'[late'.dev]
    BY <1>0, <1>p, <2>2 DEF PublishedAreStored, StoresMore, Publishing
  <2> QED
    BY <1>1, <2>1, <2>2 DEF LateFrom
<1>2. ASSUME NEW s \in Slots, NEW d \in Devices, NEW r, Begins(s, d, r),
             r.op = "put" => r.step \notin Publishing
      PROVE  PublishedAreStored'
  BY <1>0, <1>1, <1>2, <1>p DEF Begins, PublishedAreStored, broker, redis, LateFrom
<1>3. CASE \E s \in Slots, d \in Devices :
             BeginPut(s, d) \/ BeginGet(s, d) \/ BeginCommand(s, d)
  BY <1>0, <1>2, <1>3, BeginPutBegins, BeginGetBegins, BeginCommandBegins
     DEF Publishing
<1>4. ASSUME NEW s \in Slots, Rest(s)
      PROVE  PublishedAreStored'
  <2>1. /\ late'.op = "put" => late'.num \in stored'[late'.dev]
        /\ \A t \in Slots : t # s => req'[t] = req[t]
    BY <1>0, <1>1, <1>4, RestKeeps
  <2>2. req'[s].op = "put" /\ req'[s].step \in Publishing
          => req'[s].num \in stored'[req'[s].dev]
    <3>1. CASE StoreDesired(s)
      BY <1>0, <1>p, <3>1, Moves
         DEF StoreDesired, JsonSetDesired, Moved, TypeOK
    <3>2. CASE Read(s) \/ Respond(s) \/ RedisFails(s)
      BY <1>0, <1>b, <3>2, Moves DEF Moved, Publishing
    <3>3. CASE Connect(s) \/ Take(s)
      BY <1>0, <1>p, <3>3, Moves
         DEF Moved, Publishing, PublishedAreStored, StoresMore, At
    <3>4. CASE PubAck(s) \/ Cut(s) \/ BrokerFails(s)
      BY <1>0, <3>4, EndMoves DEF Moved, Publishing
    <3> QED
      BY <1>4, <3>1, <3>2, <3>3, <3>4 DEF Rest
  <2> QED
    BY <1>0, <1>p, <2>1, <2>2 DEF PublishedAreStored, StoresMore
<1>5. CASE Crash
  BY <1>0, <1>1, <1>5, <1>b, CrashKeeps DEF PublishedAreStored
<1>6. CASE Quiet
  BY <1>0, <1>1, <1>6, <1>p, QuietKeeps DEF PublishedAreStored, StoresMore
<1> QED
  BY <1>3, <1>4, <1>5, <1>6, NextCases

LEMMA AnnouncedKept ==
  ASSUME TypeInv, PublishedAreStored, AnnouncedWasStored, [Next]_vars
  PROVE  AnnouncedWasStored'
<1>0. TypeOK /\ StoresOK /\ ReqOK(req) /\ StoresMore /\ LateIsMessage
  BY TypeParts, StoredGrows DEF TypeInv
<1>1. ASSUME retained' = retained, held' = held, reported' = reported
      PROVE  AnnouncedWasStored'
  BY <1>0, <1>1 DEF AnnouncedWasStored, StoresMore
<1>2. ASSUME NEW r, Deliver(r), r.dev \in Devices, held' = held, reported' = reported,
             r.op = "put" => r.num \in stored[r.dev]
      PROVE  AnnouncedWasStored'
  <2>1. \A d \in Devices : \/ retained'[d] = retained[d]
                           \/ retained'[d] \in stored[d]
    BY <1>0, <1>2 DEF Deliver, StoresOK
  <2> QED
    BY <1>0, <1>2, <2>1 DEF AnnouncedWasStored, StoresMore
<1>3. CASE \E s \in Slots, d \in Devices :
             BeginPut(s, d) \/ BeginGet(s, d) \/ BeginCommand(s, d)
  BY <1>1, <1>3 DEF BeginPut, BeginGet, BeginCommand, Begin, redis, broker
<1>4. ASSUME NEW s \in Slots, Take(s)
      PROVE  AnnouncedWasStored'
  BY <1>0, <1>2, <1>4 DEF Take, redis, ReqOK, At, Publishing, PublishedAreStored
<1>5. ASSUME NEW s \in Slots, Rest(s), ~Take(s)
      PROVE  AnnouncedWasStored'
  BY <1>1, <1>5
     DEF Rest, StoreDesired, JsonSetDesired, Read, Connect, PubAck, Cut, Respond,
         RedisFails, BrokerFails, Return, redis, broker
<1>6. CASE TakeLate
  BY <1>0, <1>2, <1>6 DEF TakeLate, redis, PublishedAreStored, LateIsMessage
<1>7. ASSUME NEW d \in Devices, Apply(d) \/ Report(d)
      PROVE  AnnouncedWasStored'
  BY <1>0, <1>7
     DEF Apply, Report, redis, broker, AnnouncedWasStored, StoresMore, StoresOK
<1>8. CASE Crash \/ UNCHANGED vars
  BY <1>1, <1>8 DEF Crash, vars, redis, broker
<1> QED
  BY <1>3, <1>4, <1>5, <1>6, <1>7, <1>8, NextCases DEF Quiet

\* Both halves of SettledAgrees' invariant.
Undisturbed == AloneUndisturbed /\ Settled

\* Nobody publishes beside a PUT that is alone.
LEMMA OthersPutElsewhere ==
  ASSUME AloneUndisturbed, NEW s \in Slots, NEW t \in Slots, NEW d \in Devices,
         Putting(t, d), req[t].alone, s # t
  PROVE  ~Putting(s, d)
  BY DEF AloneUndisturbed

LEMMA PuttingMoved ==
  ASSUME NEW s \in Slots, NEW x, Moved(s, x), NEW t \in Slots, NEW d
  PROVE  /\ t # s => Putting(t, d)' = Putting(t, d)
         /\ t = s /\ x \in {"set"} \cup Publishing /\ req[s].step \in {"set"} \cup Publishing
              => Putting(t, d)' = Putting(t, d)
         /\ t = s /\ x \notin {"set"} \cup Publishing => ~Putting(t, d)'
  BY DEF Moved, Putting

\* A step that leaves the configurations and the messages alone, and takes
\* solitude, connections and requests away at most.
LEMMA UndisturbedKept ==
  ASSUME Undisturbed, settled' \subseteq settled, desired' = desired,
         retained' = retained,
         late' = late \/ late'.op # "put",
         \A t \in Slots, d \in Devices :
           Putting(t, d)' => \/ ~req'[t].alone /\ d \notin settled'
                             \/ /\ Putting(t, d) /\ req'[t] = req[t]
                                /\ session' = t => session = t
                                /\ \A u \in Slots : Putting(u, d)' => Putting(u, d)
  PROVE  Undisturbed'
  BY DEF Undisturbed, AloneUndisturbed, Settled, At

LEMMA UndisturbedBegin ==
  ASSUME TypeInv, Owned, Undisturbed, NEW s \in Slots, NEW d \in Devices,
         BeginPut(s, d) \/ BeginGet(s, d) \/ BeginCommand(s, d)
  PROVE  Undisturbed'
<1>0. TypeOK
  BY DEF TypeInv
<1>1. CASE BeginPut(s, d)
  <2>1. /\ Begins(s, d, [op |-> "put", step |-> "set"])
        /\ \A t \in Slots : t # s /\ req'[t].alone => ~Putting(t, d)
        /\ req'[s].alone => \A t \in Slots : ~Putting(t, d)
        /\ settled' = settled \ {d}
    BY <1>0, <1>1, BeginPutBegins
  <2>2. /\ req'[s].op = "put" /\ req'[s].step = "set" /\ req'[s].dev = d
        /\ \A t \in Slots : t # s =>
             /\ req'[t].op = req[t].op /\ req'[t].step = req[t].step
             /\ req'[t].dev = req[t].dev /\ req'[t].num = req[t].num
             /\ req'[t].alone => req[t].alone
        /\ desired' = desired /\ retained' = retained /\ late' = late
        /\ session' = session /\ session # s
    BY <2>1 DEF Begins, redis, broker, At, Owned
  <2>3. \A t \in Slots, e \in Devices :
          Putting(t, e)' <=> \/ t # s /\ Putting(t, e)
                             \/ t = s /\ e = d
    BY <2>2 DEF Putting, Publishing
  <2>4. Settled'
    BY <2>1, <2>2 DEF Undisturbed, Settled
  <2>5. ASSUME NEW t \in Slots, NEW e \in Devices, Putting(t, e)', t # s
        PROVE  /\ e \notin settled'
               /\ req'[t].alone => \A u \in Slots : Putting(u, e)' => u = t
               /\ req'[t].alone /\ ~(req'[t].step = "set") => desired'[e] = req'[t].num
               /\ req'[t].alone /\ req'[t].step = "puback" => retained'[e] = req'[t].num
               /\ req'[t].alone /\ (session' = t \/ req'[t].step = "puback")
                    => ~(late'.op = "put" /\ late'.dev = e)
    BY <2>1, <2>2, <2>3, <2>5 DEF Undisturbed, AloneUndisturbed, At
  <2>6. /\ d \notin settled'
        /\ req'[s].alone => \A u \in Slots : Putting(u, d)' => u = s
        /\ req'[s].step = "set" /\ session' # s
    BY <2>1, <2>2, <2>3
  <2> QED
    BY <2>3, <2>4, <2>5, <2>6 DEF Undisturbed, AloneUndisturbed, At
<1>2. CASE BeginGet(s, d) \/ BeginCommand(s, d)
  <2>1. PICK r : /\ Begins(s, d, r) /\ r.op \in {"get", "command"}
                 /\ UNCHANGED settled
                 /\ \A t \in Slots : t # s => req'[t] = req[t]
    <3>1. CASE BeginGet(s, d)
      BY <1>0, <3>1, BeginGetBegins
    <3>2. CASE BeginCommand(s, d)
      BY <1>0, <3>2, BeginCommandBegins
    <3> QED
      BY <1>2, <3>1, <3>2
  <2>2. /\ desired' = desired /\ retained' = retained /\ late' = late
        /\ session' = session /\ req'[s].op # "put"
    BY <2>1 DEF Begins, redis, broker
  <2>3. \A t \in Slots, e \in Devices :
          Putting(t, e)' => Putting(t, e) /\ req'[t] = req[t]
    BY <2>1, <2>2 DEF Putting
  <2> QED
    BY <2>1, <2>2, <2>3, UndisturbedKept
<1> QED
  BY <1>1, <1>2

LEMMA UndisturbedStore ==
  ASSUME TypeInv, Undisturbed, NEW s \in Slots, At(s, "set"), req[s].op = "put",
         JsonSetDesired(req[s]), NEW x \in {"connect", "500"}, Moved(s, x),
         UNCHANGED broker, UNCHANGED settled
  PROVE  Undisturbed'
<1>0. TypeOK /\ req[s].dev \in Devices
  BY DEF TypeInv, TypeOK
<1>1. Putting(s, req[s].dev)
  BY DEF Putting, At
<1>2. /\ desired'[req[s].dev] = req[s].num
      /\ \A d \in Devices : d # req[s].dev => desired'[d] = desired[d]
      /\ retained' = retained /\ session' = session /\ late' = late
  BY <1>0 DEF JsonSetDesired, TypeOK, broker
<1>3. Settled'
  BY <1>0, <1>1, <1>2 DEF Undisturbed, Settled, AloneUndisturbed, TypeOK
<1>4. ASSUME NEW t \in Slots, NEW d \in Devices, Putting(t, d)', t # s
      PROVE  /\ Putting(t, d) /\ req'[t] = req[t]
             /\ req[t].alone => d # req[s].dev
  BY <1>1, <1>4 DEF Moved, Putting, Undisturbed, AloneUndisturbed
<1>5. ASSUME NEW d \in Devices, Putting(s, d)'
      PROVE  /\ x = "connect" /\ d = req[s].dev /\ Putting(s, d)
             /\ req'[s].alone = req[s].alone /\ req'[s].num = req[s].num
             /\ req'[s].step = "connect"
  BY <1>1, <1>5 DEF Moved, Putting, Publishing
<1>6. \A t \in Slots, d \in Devices : Putting(t, d)' => Putting(t, d)
  BY <1>4, <1>5
<1>7. ASSUME NEW t \in Slots, NEW d \in Devices, Putting(t, d)', t # s
      PROVE  /\ d \notin settled'
             /\ req'[t].alone => \A u \in Slots : Putting(u, d)' => u = t
             /\ req'[t].alone /\ ~(req'[t].step = "set") => desired'[d] = req'[t].num
             /\ req'[t].alone /\ req'[t].step = "puback" => retained'[d] = req'[t].num
             /\ req'[t].alone /\ (session' = t \/ req'[t].step = "puback")
                  => ~(late'.op = "put" /\ late'.dev = d)
  BY <1>2, <1>4, <1>6, <1>7 DEF Undisturbed, AloneUndisturbed, At
<1>8. ASSUME NEW d \in Devices, Putting(s, d)'
      PROVE  /\ d \notin settled'
             /\ req'[s].alone => \A u \in Slots : Putting(u, d)' => u = s
             /\ desired'[d] = req'[s].num /\ req'[s].step = "connect"
             /\ req'[s].alone /\ session' = s
                  => ~(late'.op = "put" /\ late'.dev = d)
  BY <1>2, <1>5, <1>6, <1>8 DEF Undisturbed, AloneUndisturbed, At
<1> QED
  BY <1>3, <1>7, <1>8 DEF Undisturbed, AloneUndisturbed, At

LEMMA UndisturbedConnect ==
  ASSUME TypeInv, Undisturbed, NEW s \in Slots, Connect(s)
  PROVE  Undisturbed'
<1>1. At(s, "connect") /\ Moved(s, "publish")
  BY Moves DEF TypeInv
<1>2. /\ desired' = desired /\ retained' = retained /\ late'.op # "put"
      /\ session' = s /\ settled' = settled
  BY DEF Connect, redis, Blank
<1>3. \A t \in Slots, d \in Devices :
        Putting(t, d)' => /\ Putting(t, d) /\ req'[t].alone = req[t].alone
                          /\ req'[t].num = req[t].num
                          /\ t # s => req'[t] = req[t]
                          /\ t = s => req'[t].step = "publish"
  BY <1>1 DEF Moved, Putting, At, Publishing
<1> QED
  BY <1>1, <1>2, <1>3 DEF Undisturbed, AloneUndisturbed, Settled, At

LEMMA UndisturbedTake ==
  ASSUME TypeInv, Undisturbed, NEW s \in Slots, Take(s)
  PROVE  Undisturbed'
<1>0. TypeOK
  BY DEF TypeInv
<1>1. At(s, "publish") /\ Moved(s, "puback")
  BY <1>0, Moves
<1>2. /\ desired' = desired /\ late' = late /\ session = s /\ session' = s
      /\ settled' = settled
      /\ \A d \in Devices : retained'[d] = IF req[s].op = "put" /\ req[s].dev = d
                                           THEN req[s].num ELSE retained[d]
  BY <1>0 DEF Take, redis, Deliver, TypeOK
<1>3. \A d \in Devices : Putting(s, d) <=> req[s].op = "put" /\ req[s].dev = d
  BY <1>1 DEF Putting, At, Publishing
<1>4. \A t \in Slots, d \in Devices :
        Putting(t, d)' => /\ Putting(t, d) /\ req'[t].alone = req[t].alone
                          /\ req'[t].num = req[t].num
                          /\ t # s => req'[t] = req[t]
                          /\ t = s => req'[t].step = "puback"
  BY <1>1 DEF Moved, Putting, At, Publishing
<1>8. \A d \in settled : d \in Devices /\ ~Putting(s, d)
  BY <1>0 DEF Undisturbed, AloneUndisturbed, TypeOK
<1>5. Settled'
  BY <1>2, <1>3, <1>8 DEF Undisturbed, Settled
<1>6. ASSUME NEW t \in Slots, NEW d \in Devices, Putting(t, d)', t # s
      PROVE  /\ d \notin settled'
             /\ req'[t].alone => \A u \in Slots : Putting(u, d)' => u = t
             /\ req'[t].alone /\ ~(req'[t].step = "set") => desired'[d] = req'[t].num
             /\ req'[t].alone /\ req'[t].step = "puback" => retained'[d] = req'[t].num
             /\ req'[t].alone /\ (session' = t \/ req'[t].step = "puback")
                  => ~(late'.op = "put" /\ late'.dev = d)
  BY <1>2, <1>3, <1>4, <1>6 DEF Undisturbed, AloneUndisturbed, At
<1>7. ASSUME NEW d \in Devices, Putting(s, d)'
      PROVE  /\ d \notin settled'
             /\ req'[s].alone => \A u \in Slots : Putting(u, d)' => u = s
             /\ req'[s].alone => desired'[d] = req'[s].num
             /\ retained'[d] = req'[s].num
             /\ req'[s].alone => ~(late'.op = "put" /\ late'.dev = d)
  BY <1>1, <1>2, <1>3, <1>4, <1>7 DEF Undisturbed, AloneUndisturbed, At
<1> QED
  BY <1>5, <1>6, <1>7 DEF Undisturbed, AloneUndisturbed, At

LEMMA UndisturbedEnd ==
  ASSUME TypeInv, Undisturbed, NEW s \in Slots, PubAck(s) \/ Cut(s) \/ BrokerFails(s)
  PROVE  Undisturbed'
<1>0. TypeOK /\ StoresOK
  BY TypeParts DEF TypeInv
<1>1. PICK ok \in BOOLEAN, x \in {"getReported", "200", "502"} :
        Ends(s, ok) /\ Moved(s, x) /\ (ok => At(s, "puback"))
  BY <1>0, EndMoves
<1>2. /\ desired' = desired /\ retained' = retained
      /\ settled' = IF req[s].op = "put" /\ req[s].alone /\ ok
                    THEN settled \cup {req[s].dev} ELSE settled
  BY <1>1 DEF Ends, Return, redis
<1>b. Blank.op # "put"
  BY DEF Blank
<1>e. /\ session' \in {session, None}
      /\ \/ late' \in {late, Blank}
         \/ late' = req[s] /\ req[s].step = "publish"
  BY <1>0, EndsSomehow
<1>3. /\ session' \in {session, None}
      /\ \/ late' = late \/ late'.op # "put"
         \/ late' = req[s] /\ req[s].step = "publish"
  BY <1>b, <1>e
<1>4. \A t \in Slots, d \in Devices :
        Putting(t, d)' => t # s /\ Putting(t, d) /\ req'[t] = req[t]
  BY <1>1 DEF Moved, Putting, Publishing
<1>5. \A d \in Devices :
        /\ late'.op = "put" /\ late'.dev = d
             => \/ late.op = "put" /\ late.dev = d
                \/ Putting(s, d) /\ ~At(s, "puback")
        /\ d \in settled' => \/ d \in settled
                             \/ Putting(s, d) /\ At(s, "puback") /\ req[s].alone
  BY <1>1, <1>2, <1>3 DEF Putting, Publishing, At
<1>8. \A d \in settled : d \in Devices /\ ~Putting(s, d)
  BY <1>0 DEF Undisturbed, AloneUndisturbed, TypeOK
<1>9. settled' \subseteq Devices
  BY <1>0, <1>1, ReturnType DEF Ends
<1>10. ASSUME NEW d \in Devices, Putting(s, d), At(s, "puback"), req[s].alone
       PROVE  retained[d] = desired[d] /\ ~(late.op = "put" /\ late.dev = d)
  BY <1>10 DEF Undisturbed, AloneUndisturbed, At
<1>6. Settled'
  <2> SUFFICES ASSUME NEW d \in settled'
               PROVE  retained[d] = desired[d] /\ ~(late'.op = "put" /\ late'.dev = d)
    BY <1>2 DEF Settled
  <2>1. CASE d \in settled
    BY <1>5, <1>8, <1>9, <2>1 DEF Undisturbed, Settled
  <2>2. CASE d \notin settled
    BY <1>5, <1>9, <1>10, <2>2
  <2> QED
    BY <2>1, <2>2
<1>7. ASSUME NEW t \in Slots, NEW d \in Devices, Putting(t, d)'
      PROVE  /\ d \notin settled'
             /\ req'[t].alone => \A u \in Slots : Putting(u, d)' => u = t
             /\ req'[t].alone /\ ~(req'[t].step = "set") => desired'[d] = req'[t].num
             /\ req'[t].alone /\ req'[t].step = "puback" => retained'[d] = req'[t].num
             /\ req'[t].alone /\ (session' = t \/ req'[t].step = "puback")
                  => ~(late'.op = "put" /\ late'.dev = d)
  BY <1>2, <1>3, <1>4, <1>5, <1>7, ConstantsOK DEF Undisturbed, AloneUndisturbed, At
<1> QED
  BY <1>6, <1>7 DEF Undisturbed, AloneUndisturbed, At

LEMMA UndisturbedInductive ==
  ASSUME TypeInv, Owned, Undisturbed, [Next]_vars
  PROVE  Undisturbed'
<1>0. TypeOK /\ StoresOK
  BY TypeParts DEF TypeInv
<1>1. ASSUME NEW s \in Slots, Rest(s)
      PROVE  Undisturbed'
  <2>1. CASE StoreDesired(s)
    BY <1>0, <2>1, Moves, UndisturbedStore DEF StoreDesired
  <2>2. CASE RedisFails(s)
    <3>1. Moved(s, "500") /\ UNCHANGED broker /\ UNCHANGED settled
      BY <1>0, <2>2, Moves DEF RedisFails
    <3>2. CASE At(s, "set") /\ JsonSetDesired(req[s])
      BY <1>0, <3>1, <3>2, UndisturbedStore DEF TypeOK
    <3>3. CASE UNCHANGED redis
      <4>1. \A t \in Slots, d \in Devices :
              Putting(t, d)' => Putting(t, d) /\ req'[t] = req[t]
        BY <3>1 DEF Moved, Putting, Publishing
      <4> QED
        BY <3>1, <3>3, <4>1, UndisturbedKept DEF redis, broker
    <3> QED
      BY <2>2, <3>2, <3>3 DEF RedisFails
  <2>3. CASE Read(s) \/ Respond(s)
    <3>1. UNCHANGED <<redis, broker, settled>>
      BY <2>3 DEF Read, Respond
    <3>2. \A t \in Slots, d \in Devices :
            Putting(t, d)' => Putting(t, d) /\ req'[t] = req[t]
      BY <1>0, <2>3, Moves DEF Moved, Putting, Publishing, Blank
    <3> QED
      BY <3>1, <3>2, UndisturbedKept DEF redis, broker
  <2> QED
    BY <1>1, <2>1, <2>2, <2>3, UndisturbedConnect, UndisturbedTake, UndisturbedEnd
       DEF Rest
<1>2. CASE Crash
  <2>1. \A t \in Slots : req'[t].op # "put"
    BY <1>0, <1>2, CrashKeeps DEF Blank
  <2>2. \A t \in Slots, d \in Devices : ~Putting(t, d)'
    BY <2>1 DEF Putting
  <2>3. /\ settled' = settled /\ desired' = desired /\ retained' = retained
        /\ \/ late' = late
           \/ \E s \in Slots : late' = req[s] /\ req[s].step = "publish"
    BY <1>2 DEF Crash, GiveUp, redis
  <2>4. \A d \in Devices : late'.op = "put" /\ late'.dev = d
          => (late.op = "put" /\ late.dev = d) \/ \E s \in Slots : Putting(s, d)
    BY <2>3 DEF Putting, Publishing
  <2>5. Settled'
    BY <1>0, <2>3, <2>4 DEF Undisturbed, Settled, AloneUndisturbed, TypeOK
  <2> QED
    BY <2>2, <2>5 DEF Undisturbed, AloneUndisturbed
<1>3. CASE TakeLate
  <2>1. /\ settled' = settled /\ desired' = desired /\ late'.op # "put"
        /\ req' = req /\ session' = session
        /\ \A d \in Devices : \/ retained'[d] = retained[d]
                              \/ late.op = "put" /\ late.dev = d
    BY <1>0, <1>3 DEF TakeLate, Deliver, redis, Blank, StoresOK
  <2>2. \A t \in Slots, d \in Devices : Putting(t, d)' <=> Putting(t, d)
    BY <2>1 DEF Putting
  <2> QED
    BY <1>0, <2>1, <2>2 DEF Undisturbed, Settled, AloneUndisturbed, At, TypeOK
<1>4. CASE UNCHANGED <<settled, desired, retained, late, req, session>>
  BY <1>4, UndisturbedKept DEF Putting
<1>5. CASE Quiet
  BY <1>3, <1>4, <1>5 DEF Quiet, Apply, Report, vars, redis, broker
<1> QED
  BY <1>1, <1>2, <1>5, UndisturbedBegin, NextCases

LEMMA AppendTaken ==
  ASSUME taken \in Seq(Numbers), NEW n \in Numbers, taken' = Append(taken, n)
  PROVE  \A m : WasTaken(m)' <=> WasTaken(m) \/ m = n
<1>1. /\ Len(taken) \in Nat /\ DOMAIN taken = 1 .. Len(taken)
      /\ DOMAIN taken' = 1 .. Len(taken) + 1
      /\ taken'[Len(taken) + 1] = n
      /\ \A i \in 1 .. Len(taken) : taken'[i] = taken[i]
  BY AppendProperties, LenProperties
<1>2. ASSUME NEW m, WasTaken(m)
      PROVE  WasTaken(m)'
  BY <1>1, <1>2 DEF WasTaken, Contract!WasTaken
<1>3. WasTaken(n)'
  BY <1>1 DEF WasTaken, Contract!WasTaken
<1>4. ASSUME NEW m, WasTaken(m)'
      PROVE  WasTaken(m) \/ m = n
  <2>1. PICK i \in DOMAIN taken' : taken'[i] = m
    BY <1>4 DEF WasTaken, Contract!WasTaken
  <2>2. CASE i \in 1 .. Len(taken)
    BY <1>1, <2>1, <2>2 DEF WasTaken, Contract!WasTaken
  <2>3. CASE i = Len(taken) + 1
    BY <1>1, <2>1, <2>3
  <2> QED
    BY <1>1, <2>1, <2>2, <2>3
<1> QED
  BY <1>2, <1>3, <1>4

LEMMA SameTaken ==
  ASSUME taken' = taken
  PROVE  \A m : WasTaken(m)' <=> WasTaken(m)
  BY DEF WasTaken, Contract!WasTaken

\* The broker takes a message in two ways only.
LEMMA TakenBy ==
  ASSUME TypeInv, [Next]_vars
  PROVE  \/ taken' = taken
         \/ \E s \in Slots : /\ Take(s) /\ req[s].num \in Numbers
                             /\ \A m : WasTaken(m)' <=> WasTaken(m) \/ m = req[s].num
         \/ /\ TakeLate /\ late.num \in Numbers
            /\ \A m : WasTaken(m)' <=> WasTaken(m) \/ m = late.num
<1>0. TypeOK /\ StoresOK /\ ReqOK(req) /\ LateIsMessage
  BY TypeParts DEF TypeInv
<1>1. ASSUME NEW s \in Slots, Take(s)
      PROVE  /\ req[s].num \in Numbers
             /\ \A m : WasTaken(m)' <=> WasTaken(m) \/ m = req[s].num
  <2>1. req[s].num \in Numbers /\ taken' = Append(taken, req[s].num)
    BY <1>0, <1>1 DEF Take, Deliver, ReqOK, At, Publishing
  <2> QED
    BY <1>0, <2>1, AppendTaken DEF StoresOK
<1>2. ASSUME TakeLate
      PROVE  /\ late.num \in Numbers
             /\ \A m : WasTaken(m)' <=> WasTaken(m) \/ m = late.num
  <2>1. late.num \in Numbers /\ taken' = Append(taken, late.num)
    BY <1>0, <1>2 DEF TakeLate, Deliver, LateIsMessage
  <2> QED
    BY <1>0, <2>1, AppendTaken DEF StoresOK
<1>3. ASSUME NEW s \in Slots, Rest(s), ~Take(s)
      PROVE  taken' = taken
  BY <1>3
     DEF Rest, StoreDesired, Read, Connect, PubAck, Cut, Respond, RedisFails,
         BrokerFails, Return, broker
<1>4. CASE \E s \in Slots, d \in Devices :
             BeginPut(s, d) \/ BeginGet(s, d) \/ BeginCommand(s, d)
  BY <1>4 DEF BeginPut, BeginGet, BeginCommand, Begin, broker
<1>5. CASE Crash \/ (Quiet /\ ~TakeLate)
  BY <1>5 DEF Crash, Quiet, Apply, Report, vars, broker
<1> QED
  BY <1>1, <1>2, <1>3, <1>4, <1>5, NextCases DEF Quiet

LEMMA AccountedKept ==
  ASSUME TypeInv, Numbered, Accounted, [Next]_vars
  PROVE  Accounted'
<1>t. /\ TypeOK /\ StoresOK /\ ReqOK(req) /\ LateIsMessage
      /\ req \in [Slots -> Request] /\ requests \in 0 .. MaxRequests
  BY TypeParts DEF TypeInv
<1>n. /\ requests \in Nat /\ late.num \in Nat /\ \A s \in Slots : req[s].num \in Nat
      /\ \A n \in Numbers : n \in Nat
  BY <1>t, ConstantsOK DEF StoresOK, Request, Numbers
<1>p. \A s \in Slots :
        Unsent(s) \/ Underway(s) =>
          /\ req[s].op # "none" /\ req[s].num \in Numbers
          /\ req[s].num <= requests
          /\ late # Blank => late.num <= requests
  BY <1>t DEF Unsent, Underway, ReqOK, Publishing, Numbered
<1>b. Blank.step = "idle"
  BY DEF Blank
<1>1. ASSUME NEW s \in Slots, NEW d \in Devices, NEW r, Begins(s, d, r),
             r.step # "puback"
      PROVE  Accounted'
  <2>1. /\ late' = late /\ outcome' = outcome /\ requests' = requests + 1
        /\ \A m : WasTaken(m)' <=> WasTaken(m)
    BY <1>1, SameTaken DEF Begins, broker
  <2>2. \A t \in Slots : t # s => /\ req'[t].num = req[t].num
                                  /\ req'[t].step = req[t].step
    BY <1>1 DEF Begins
  <2>3. /\ req'[s].num = requests + 1 /\ req'[s].step # "puback"
        /\ req'[s].num \in Numbers
    <3>1. requests' \in 0 .. MaxRequests
      BY TypeInductive DEF TypeInv, TypeOK
    <3> QED
      BY <1>1, <1>n, <2>1, <3>1 DEF Begins, Numbers
  <2>4. /\ ~WasTaken(requests + 1) /\ outcome[requests + 1] = "none"
        /\ late # Blank => late.num # requests + 1
    BY <1>n, <2>3 DEF Accounted, Numbered
  <2>5. /\ At(s, "puback")' => WasTaken(req[s].num)'
        /\ Unsent(s)' => ~WasTaken(req[s].num)'
        /\ Underway(s)' => outcome'[req'[s].num] = "none"
        /\ Underway(s)' /\ late' # Blank => req'[s].num # late'.num
    BY <2>1, <2>3, <2>4 DEF At, WasTaken
  <2>6. ASSUME NEW t \in Slots, t # s
        PROVE  /\ At(t, "puback")' => WasTaken(req[t].num)'
               /\ Unsent(t)' => ~WasTaken(req[t].num)'
               /\ Underway(t)' => outcome'[req'[t].num] = "none"
               /\ Underway(t)' /\ late' # Blank => req'[t].num # late'.num
    BY <2>1, <2>2, <2>6 DEF At, WasTaken, Unsent, Underway, Accounted
  <2>7. /\ late' # Blank => ~WasTaken(late.num)'
        /\ \A n \in Numbers : n > requests' => ~WasTaken(n)' /\ outcome'[n] = "none"
    BY <1>n, <2>1 DEF Accounted, WasTaken
  <2> QED
    BY <2>5, <2>6, <2>7 DEF Accounted
<1>2. ASSUME requests' = requests, outcome' = outcome, taken' = taken,
             \/ late' \in {late, Blank}
             \/ \E s \in Slots : /\ late' = req[s] /\ req[s].step = "publish"
                                 /\ ~Underway(s)',
             \A t \in Slots : At(t, "puback")' \/ Underway(t)' =>
               /\ req'[t].num = req[t].num /\ Underway(t)
               /\ At(t, "puback")' => At(t, "puback")
               /\ Unsent(t)' => Unsent(t)
      PROVE  Accounted'
  <2>1. \A m : WasTaken(m)' <=> WasTaken(m)
    BY <1>2, SameTaken
  <2>2. ASSUME NEW s \in Slots, late' = req[s], req[s].step = "publish", ~Underway(s)'
        PROVE  /\ ~WasTaken(late.num)'
               /\ \A t \in Slots : Underway(t)' => req'[t].num # late'.num
    <3>1. Unsent(s) /\ Underway(s)
      BY <2>2 DEF Unsent, Underway, Publishing
    <3>2. ~WasTaken(late.num)'
      BY <2>1, <2>2, <3>1 DEF Accounted, WasTaken
    <3>3. \A t \in Slots : Underway(t)' => t # s /\ Underway(t) /\ req'[t].num = req[t].num
      BY <1>2, <2>2
    <3> QED
      BY <1>p, <2>2, <3>1, <3>2, <3>3 DEF Numbered
  <2>3. ASSUME late' \in {late, Blank}, late' # Blank
        PROVE  /\ ~WasTaken(late.num)'
               /\ \A t \in Slots : Underway(t)' => req'[t].num # late'.num
    BY <1>2, <2>1, <2>3 DEF Accounted, WasTaken
  <2>4. late' # Blank => /\ ~WasTaken(late.num)'
                         /\ \A t \in Slots : Underway(t)' => req'[t].num # late'.num
    BY <1>2, <2>2, <2>3
  <2>5. ASSUME NEW t \in Slots
        PROVE  /\ At(t, "puback")' => WasTaken(req[t].num)'
               /\ Unsent(t)' => ~WasTaken(req[t].num)'
               /\ Underway(t)' => outcome'[req'[t].num] = "none"
    <3>1. Unsent(t)' => Underway(t)'
      BY DEF Unsent, Underway, Publishing
    <3> QED
      BY <1>2, <2>1, <3>1 DEF Accounted, WasTaken
  <2>6. \A n \in Numbers : n > requests' => ~WasTaken(n)' /\ outcome'[n] = "none"
    BY <1>2, <2>1 DEF Accounted
  <2> QED
    BY <2>4, <2>5, <2>6 DEF Accounted
<1>3. ASSUME NEW s \in Slots, StoreDesired(s) \/ Read(s) \/ Connect(s) \/ Respond(s)
                                \/ RedisFails(s)
      PROVE  Accounted'
  <2>1. /\ requests' = requests /\ outcome' = outcome /\ taken' = taken
        /\ late' \in {late, Blank}
    BY <1>3 DEF StoreDesired, Read, Connect, Respond, RedisFails, broker
  <2>2. \A t \in Slots : At(t, "puback")' \/ Underway(t)' =>
               /\ req'[t].num = req[t].num /\ Underway(t)
               /\ At(t, "puback")' => At(t, "puback")
               /\ Unsent(t)' => Unsent(t)
    <3>1. \A t \in Slots : t # s => req'[t] = req[t]
      BY <1>t, <1>3, Moves DEF Moved
    <3>2. At(s, "puback")' \/ Underway(s)' =>
            /\ req'[s].num = req[s].num /\ Underway(s) /\ Unsent(s)
            /\ ~At(s, "puback")'
      BY <1>t, <1>b, <1>3, Moves DEF Moved, At, Underway, Unsent, Publishing
    <3> QED
      BY <3>1, <3>2 DEF At, Underway, Unsent, Publishing
  <2> QED
    BY <1>2, <2>1, <2>2
<1>4. ASSUME NEW s \in Slots, Take(s)
      PROVE  Accounted'
  <2>1. /\ Unsent(s) /\ Underway(s) /\ req[s].num \in Numbers
        /\ \A m : WasTaken(m)' <=> WasTaken(m) \/ m = req[s].num
    BY <1>t, <1>p, <1>4, AppendTaken DEF Take, Deliver, Unsent, Underway,
       Publishing, At, StoresOK
  <2>2. requests' = requests /\ outcome' = outcome /\ late' = late
    BY <1>4 DEF Take
  <2>3. Moved(s, "puback")
    BY <1>t, <1>4, Moves
  <2>4. /\ WasTaken(req[s].num)' /\ ~Unsent(s)'
        /\ outcome'[req'[s].num] = "none"
        /\ late' # Blank => req'[s].num # late'.num
    BY <2>1, <2>2, <2>3 DEF Accounted, Moved, Unsent, WasTaken
  <2>5. ASSUME NEW t \in Slots, t # s
        PROVE  /\ At(t, "puback")' => WasTaken(req[t].num)'
               /\ Unsent(t)' => ~WasTaken(req[t].num)'
               /\ Underway(t)' => outcome'[req'[t].num] = "none"
               /\ Underway(t)' /\ late' # Blank => req'[t].num # late'.num
    <3>1. req'[t] = req[t]
      BY <2>3, <2>5 DEF Moved
    <3>2. /\ At(t, "puback")' <=> At(t, "puback")
          /\ Unsent(t)' <=> Unsent(t)
          /\ Underway(t)' <=> Underway(t)
          /\ Unsent(t) => req[t].num # req[s].num
      BY <1>p, <2>1, <2>5, <3>1 DEF At, Unsent, Underway, Numbered
    <3> QED
      BY <2>1, <2>2, <3>1, <3>2 DEF Accounted, WasTaken
  <2>6. late' # Blank => ~WasTaken(late.num)'
    BY <2>1, <2>2 DEF Accounted, WasTaken
  <2>7. \A n \in Numbers : n > requests' => ~WasTaken(n)' /\ outcome'[n] = "none"
    BY <1>n, <1>p, <2>1, <2>2 DEF Accounted
  <2> QED
    BY <2>4, <2>5, <2>6, <2>7 DEF Accounted
<1>5. ASSUME NEW s \in Slots, PubAck(s) \/ Cut(s) \/ BrokerFails(s)
      PROVE  Accounted'
  <2>1. PICK ok \in BOOLEAN, x \in {"getReported", "200", "502"} :
          Ends(s, ok) /\ Moved(s, x)
    BY <1>t, <1>5, EndMoves
  <2>2. /\ requests' = requests /\ taken' = taken
        /\ Underway(s) /\ ~Underway(s)' /\ ~Unsent(s)' /\ ~At(s, "puback")'
        /\ \A n \in Numbers : n # req[s].num => outcome'[n] = outcome[n]
    BY <1>t, <2>1 DEF Ends, Return, Moved, Underway, Unsent, At, Publishing, StoresOK
  <2>3. \/ late' \in {late, Blank}
        \/ late' = req[s] /\ req[s].step = "publish"
    BY <1>t, <1>5, EndsSomehow
  <2>4. \A m : WasTaken(m)' <=> WasTaken(m)
    BY <2>2, SameTaken
  <2>5. late' # Blank => /\ ~WasTaken(late.num)'
                         /\ \A t \in Slots : t # s /\ Underway(t) => req[t].num # late'.num
    <3>1. CASE late' = late
      BY <2>4, <3>1 DEF Accounted, WasTaken
    <3>2. CASE late' = req[s] /\ req[s].step = "publish"
      <4>1. Unsent(s)
        BY <3>2 DEF Unsent
      <4>2. ~WasTaken(late.num)'
        BY <2>4, <3>2, <4>1 DEF Accounted, WasTaken
      <4> QED
        BY <1>p, <2>2, <3>2, <4>1, <4>2 DEF Numbered
    <3> QED
      BY <2>3, <3>1, <3>2
  <2>6. ASSUME NEW t \in Slots, t # s
        PROVE  /\ At(t, "puback")' => WasTaken(req[t].num)'
               /\ Unsent(t)' => ~WasTaken(req[t].num)'
               /\ Underway(t)' => outcome'[req'[t].num] = "none"
               /\ Underway(t)' /\ late' # Blank => req'[t].num # late'.num
    <3>1. req'[t] = req[t]
      BY <2>1, <2>6 DEF Moved
    <3>2. /\ At(t, "puback")' <=> At(t, "puback")
          /\ Unsent(t)' <=> Unsent(t)
          /\ Underway(t)' <=> Underway(t)
          /\ Underway(t) => outcome'[req[t].num] = outcome[req[t].num]
      BY <1>p, <2>2, <2>6, <3>1 DEF At, Unsent, Underway, Numbered
    <3> QED
      BY <2>4, <2>5, <2>6, <3>1, <3>2 DEF Accounted, WasTaken
  <2>7. \A n \in Numbers : n > requests' => ~WasTaken(n)' /\ outcome'[n] = "none"
    BY <1>n, <1>p, <2>2, <2>4 DEF Accounted
  <2> QED
    BY <2>2, <2>5, <2>6, <2>7 DEF Accounted
<1>6. CASE Crash
  <2>1. /\ requests' = requests /\ outcome' = outcome /\ taken' = taken
        /\ \/ late' \in {late, Blank}
           \/ \E s \in Slots : late' = req[s] /\ req[s].step = "publish"
    BY <1>6 DEF Crash, GiveUp
  <2>2. \A t \in Slots : ~At(t, "puback")' /\ ~Underway(t)'
    BY <1>b, <1>t, <1>6, CrashKeeps DEF At, Underway, Publishing
  <2> QED
    BY <1>2, <2>1, <2>2
<1>7. CASE TakeLate
  <2>1. /\ late # Blank /\ late' = Blank /\ req' = req /\ requests' = requests
        /\ outcome' = outcome
        /\ \A m : WasTaken(m)' <=> WasTaken(m) \/ m = late.num
    BY <1>t, <1>7, AppendTaken DEF TakeLate, Deliver, LateIsMessage, StoresOK
  <2>2. ASSUME NEW t \in Slots
        PROVE  /\ At(t, "puback")' => WasTaken(req[t].num)'
               /\ Unsent(t)' => ~WasTaken(req[t].num)'
               /\ Underway(t)' => outcome'[req'[t].num] = "none"
    <3>1. /\ At(t, "puback")' <=> At(t, "puback")
          /\ Unsent(t)' <=> Unsent(t)
          /\ Underway(t)' <=> Underway(t)
          /\ Unsent(t) => Underway(t)
      BY <2>1 DEF At, Unsent, Underway, Publishing
    <3> QED
      BY <2>1, <3>1 DEF Accounted, WasTaken
  <2>3. \A n \in Numbers : n > requests' => ~WasTaken(n)' /\ outcome'[n] = "none"
    BY <1>n, <2>1 DEF Accounted, Numbered
  <2> QED
    BY <2>1, <2>2, <2>3 DEF Accounted
<1>8. CASE Quiet /\ ~TakeLate
  <2>1. UNCHANGED <<requests, outcome, taken, late, req>>
    BY <1>8 DEF Quiet, Apply, Report, vars, broker
  <2>2. \A t \in Slots : At(t, "puback")' \/ Underway(t)' =>
               /\ req'[t].num = req[t].num /\ Underway(t)
               /\ At(t, "puback")' => At(t, "puback")
               /\ Unsent(t)' => Unsent(t)
    BY <2>1 DEF At, Underway, Unsent, Publishing
  <2> QED
    BY <1>2, <2>1, <2>2
<1>9. CASE \E s \in Slots, d \in Devices :
             BeginPut(s, d) \/ BeginGet(s, d) \/ BeginCommand(s, d)
  BY <1>t, <1>1, <1>9, BeginPutBegins, BeginGetBegins, BeginCommandBegins
<1> QED
  BY <1>3, <1>4, <1>5, <1>6, <1>7, <1>8, <1>9, NextCases DEF Rest, Quiet

LEMMA IssuedKept ==
  ASSUME TypeInv, Owned, Accounted, IssuedWasTaken, [Next]_vars
  PROVE  IssuedWasTaken'
<1>t. TypeOK /\ StoresOK /\ ReqOK(req)
  BY TypeParts DEF TypeInv
<1>w. \A m : WasTaken(m) => WasTaken(m)'
  <2>1. taken' = taken => \A m : WasTaken(m)' <=> WasTaken(m)
    BY SameTaken
  <2> QED
    BY <2>1, TakenBy
<1>b. Blank.step # "200"
  BY DEF Blank
<1>1. \A s \in Slots : req[s].step = "200" /\ req[s].op = "command"
                         => WasTaken(req[s].num)
  BY DEF IssuedWasTaken, At, WasTaken, Contract!WasTaken
<1>2. ASSUME \A s \in Slots : req'[s].step = "200" /\ req'[s].op = "command"
               => /\ req'[s].num = req[s].num
                  /\ \/ req[s].step = "200" /\ req[s].op = "command"
                     \/ At(s, "puback")
      PROVE  IssuedWasTaken'
  <2>1. \A s \in Slots : req'[s].step = "200" /\ req'[s].op = "command"
          => WasTaken(req[s].num)'
    BY <1>1, <1>2, <1>w DEF Accounted, WasTaken
  <2> QED
    BY <2>1 DEF IssuedWasTaken, At, WasTaken, Contract!WasTaken
<1>3. ASSUME NEW s \in Slots, NEW d \in Devices, NEW r, Begins(s, d, r), r.step # "200"
      PROVE  IssuedWasTaken'
  BY <1>2, <1>3 DEF Begins
<1>4. ASSUME NEW s \in Slots, Rest(s)
      PROVE  IssuedWasTaken'
  <2>1. \A t \in Slots : t # s => req'[t] = req[t]
    BY <1>t, <1>4, RestKeeps
  <2>2. CASE PubAck(s) \/ Cut(s) \/ BrokerFails(s)
    BY <1>t, <1>2, <2>1, <2>2, EndMoves DEF Moved
  <2>3. CASE ~(PubAck(s) \/ Cut(s) \/ BrokerFails(s))
    <3>1. ~(req'[s].step = "200" /\ req'[s].op = "command")
      BY <1>t, <1>b, <1>4, <2>3, Moves DEF Rest, Moved, Owned, At
    <3> QED
      BY <1>2, <2>1, <3>1
  <2> QED
    BY <2>2, <2>3
<1>5. CASE Crash
  BY <1>t, <1>b, <1>2, <1>5, CrashKeeps
<1>6. CASE Quiet
  BY <1>t, <1>2, <1>6, QuietKeeps
<1>7. CASE \E s \in Slots, d \in Devices :
             BeginPut(s, d) \/ BeginGet(s, d) \/ BeginCommand(s, d)
  BY <1>t, <1>3, <1>7, BeginPutBegins, BeginGetBegins, BeginCommandBegins
<1> QED
  BY <1>4, <1>5, <1>6, <1>7, NextCases

LEMMA LosersKept ==
  ASSUME TypeInv, Numbered, Owned, Accounted, LosersAreOlder, [Next]_vars
  PROVE  LosersAreOlder'
<1>t. /\ TypeOK /\ StoresOK /\ ReqOK(req) /\ req \in [Slots -> Request]
      /\ requests \in 0 .. MaxRequests
  BY TypeParts DEF TypeInv
<1>b. Blank.step \notin {"publish", "puback"}
  BY DEF Blank
<1>f. Fault => faults' # 0
  BY <1>t DEF Fault, StoresOK
<1>1. CASE faults' # 0
  BY <1>1 DEF LosersAreOlder
<1>2. ASSUME faults' = faults, latest' = latest, outcome' = outcome, session' = session,
             \A t \in Slots : req'[t].step \in {"publish", "puback"} /\ session # t =>
               req'[t].num = req[t].num /\ req[t].step \in {"publish", "puback"}
      PROVE  LosersAreOlder'
  BY <1>2 DEF LosersAreOlder
<1>3. ASSUME NEW s \in Slots, NEW d \in Devices, NEW r, Begins(s, d, r),
             r.step \notin {"publish", "puback"}
      PROVE  LosersAreOlder'
  BY <1>2, <1>3 DEF Begins, broker
<1>4. ASSUME NEW s \in Slots, StoreDesired(s) \/ Read(s) \/ Respond(s) \/ Take(s)
      PROVE  LosersAreOlder'
  <2>1. /\ faults' = faults /\ latest' = latest /\ outcome' = outcome
        /\ session' = session
    BY <1>4 DEF StoreDesired, Read, Respond, Take, broker
  <2>2. \A t \in Slots : t # s => req'[t] = req[t]
    BY <1>t, <1>4, Moves DEF Moved
  <2>3. req'[s].step \in {"publish", "puback"} =>
          req'[s].num = req[s].num /\ req[s].step \in {"publish", "puback"}
    BY <1>t, <1>b, <1>4, Moves DEF Moved, At
  <2> QED
    BY <1>2, <2>1, <2>2, <2>3
<1>5. ASSUME NEW s \in Slots, Connect(s)
      PROVE  LosersAreOlder'
  <2>1. /\ At(s, "connect") /\ Moved(s, "publish")
        /\ latest' = req[s].num /\ session' = s /\ outcome' = outcome
    BY <1>t, <1>5, Moves DEF Connect
  <2>2. outcome[req[s].num] = "none" /\ req[s].op # "none"
    BY <1>t, <2>1 DEF Accounted, Underway, At, Publishing, ReqOK
  <2>3. \A t \in Slots : t # s /\ req[t].step \in {"publish", "puback"}
                           => req[t].num # req[s].num
    BY <1>t, <2>2 DEF Numbered, ReqOK, Publishing
  <2> QED
    BY <2>1, <2>2, <2>3 DEF LosersAreOlder, Moved
<1>6. ASSUME NEW s \in Slots, PubAck(s) \/ Cut(s)
      PROVE  LosersAreOlder'
  <2>1. PICK x \in {"getReported", "200", "502"} : Moved(s, x)
    BY <1>t, <1>6, EndMoves
  <2>2. /\ faults' = faults /\ latest' = latest
        /\ session' = IF session = s THEN None ELSE session
        /\ \A t \in Slots : t # s /\ session' # t => session # t
    BY <1>6 DEF PubAck, Cut, Return, Release
  <2>3. \A t \in Slots : t # s => req'[t] = req[t]
    BY <2>1 DEF Moved
  <2>4. /\ req[s].num \in Numbers /\ req[s].step \in {"publish", "puback"}
    BY <1>t, <1>6 DEF PubAck, Cut, At, ReqOK, Publishing
  <2>5. faults = 0 /\ latest # 0 => outcome'[latest] # "failed"
    <3>1. latest # 0 => latest \in Numbers
      BY <1>t, ConstantsOK DEF StoresOK, Numbers
    <3>2. CASE PubAck(s)
      BY <1>t, <2>4, <3>1, <3>2 DEF PubAck, Return, LosersAreOlder, StoresOK
    <3>3. CASE Cut(s)
      <4>1. faults = 0 => req[s].num # latest
        BY <2>4, <3>3 DEF Cut, LosersAreOlder
      <4> QED
        BY <1>t, <2>4, <3>1, <3>3, <4>1 DEF Cut, Return, LosersAreOlder, StoresOK
    <3> QED
      BY <1>6, <3>2, <3>3
  <2> QED
    BY <2>1, <2>2, <2>3, <2>5 DEF LosersAreOlder, Moved
<1>7. ASSUME NEW s \in Slots, RedisFails(s) \/ BrokerFails(s)
      PROVE  LosersAreOlder'
  <2>1. Fault
    BY <1>7 DEF RedisFails, BrokerFails
  <2> QED
    BY <1>f, <1>1, <2>1
<1>8. CASE Crash
  BY <1>f, <1>1, <1>8 DEF Crash
<1>9. CASE Quiet
  <2>1. UNCHANGED <<faults, latest, outcome, session, req>>
    BY <1>9 DEF Quiet, TakeLate, Apply, Report, vars, broker
  <2> QED
    BY <1>2, <2>1
<1>10. CASE \E s \in Slots, d \in Devices :
             BeginPut(s, d) \/ BeginGet(s, d) \/ BeginCommand(s, d)
  BY <1>t, <1>3, <1>10, BeginPutBegins, BeginGetBegins, BeginCommandBegins
<1> QED
  BY <1>4, <1>5, <1>6, <1>7, <1>8, <1>9, <1>10, NextCases DEF Rest

LEMMA Inductive == IInv /\ [Next]_vars => IInv'
<1> SUFFICES ASSUME IInv, [Next]_vars PROVE IInv'
  OBVIOUS
<1>1. /\ TypeInv /\ Numbered /\ Owned /\ PublishedAreStored /\ AnnouncedWasStored
      /\ Undisturbed /\ Accounted /\ IssuedWasTaken /\ LosersAreOlder
  BY DEF IInv, Undisturbed
<1>2. TypeInv' /\ Numbered' /\ Owned' /\ PublishedAreStored' /\ AnnouncedWasStored'
  BY <1>1, TypeInductive, NumberedKept, OwnedKept, PublishedKept, AnnouncedKept
<1>3. Undisturbed' /\ Accounted' /\ IssuedWasTaken' /\ LosersAreOlder'
  BY <1>1, UndisturbedInductive, AccountedKept, IssuedKept, LosersKept
<1> QED
  BY <1>2, <1>3 DEF IInv, Undisturbed

LEMMA Invariance == Spec => []IInv
  BY InitIInv, Inductive, PTL DEF Spec

-----------------------------------------------------------------------------
(* The theorems.                                                           *)

\* No device is sent, nor reports, a configuration that put_config has not
\* stored first, through every failure, crash and late delivery.
THEOREM AnnouncedCorrect == Spec => []AnnouncedWasStored
<1>1. IInv => AnnouncedWasStored
  BY DEF IInv
<1> QED
  BY <1>1, Invariance, PTL

\* The PUT that ran alone and was published last is what the broker retains and
\* what Redis holds: nothing given up earlier can still replace it.
THEOREM SettledCorrect == Spec => []SettledAgrees
<1>1. IInv => SettledAgrees
  BY DEF IInv, Settled, SettledAgrees
<1> QED
  BY <1>1, Invariance, PTL

\* _issue_command answers "ISSUED" only for messages that the broker took,
\* whoever takes the client identifier over.
THEOREM IssuedCorrect == Spec => []IssuedWasTaken
<1>1. IInv => IssuedWasTaken
  BY DEF IInv
<1> QED
  BY <1>1, Invariance, PTL

\* Without faults the last publish to connect does not fail, however many
\* overlap.
THEOREM LastConnectedCorrect == Spec => []LastConnectedSucceeds
<1>1. IInv => LastConnectedSucceeds
  BY DEF IInv, LosersAreOlder, LastConnectedSucceeds
<1> QED
  BY <1>1, Invariance, PTL

\* publish() implements Outbox.
LEMMA OutboxStep == IInv /\ [Next]_vars => [Contract!Next]_(Contract!vars)
<1> SUFFICES ASSUME IInv, [Next]_vars PROVE [Contract!Next]_(Contract!vars)
  OBVIOUS
<1>t. /\ TypeOK /\ StoresOK /\ ReqOK(req) /\ LateIsMessage /\ Accounted
  BY TypeParts DEF IInv, TypeInv
<1>1. ASSUME NEW s \in Slots, Take(s)
      PROVE  Contract!Next
  <2>1. req[s].num \in Numbers /\ Unsent(s)
    BY <1>t, <1>1 DEF Take, At, ReqOK, Publishing, Unsent
  <2>2. Contract!Take(req[s].num)
    BY <1>t, <1>1, <2>1 DEF Take, Deliver, Contract!Take, Accounted, WasTaken
  <2> QED
    BY <2>1, <2>2 DEF Contract!Next
<1>2. ASSUME TakeLate
      PROVE  Contract!Next
  <2>1. late.num \in Numbers
    BY <1>t, <1>2 DEF TakeLate, LateIsMessage
  <2>2. Contract!Take(late.num)
    BY <1>t, <1>2 DEF TakeLate, Deliver, Contract!Take, Accounted, WasTaken
  <2> QED
    BY <2>1, <2>2 DEF Contract!Next
<1>3. ASSUME NEW s \in Slots, PubAck(s) \/ Cut(s) \/ BrokerFails(s)
      PROVE  Contract!Next
  <2>1. PICK ok \in BOOLEAN : Ends(s, ok) /\ (ok => At(s, "puback"))
    BY <1>t, <1>3, EndsSomehow
  <2>2. /\ req[s].num \in Numbers /\ outcome[req[s].num] = "none"
        /\ ok => Contract!WasTaken(req[s].num)
    BY <1>t, <2>1 DEF Ends, ReqOK, Accounted, Underway, WasTaken
  <2>3. /\ outcome' = [outcome EXCEPT ![req[s].num] = IF ok THEN "ok" ELSE "failed"]
        /\ taken' = taken
    BY <2>1 DEF Ends, Return
  <2>4. CASE ok
    BY <2>2, <2>3, <2>4 DEF Contract!Next, Contract!Succeed
  <2>5. CASE ~ok
    BY <2>2, <2>3, <2>5 DEF Contract!Next, Contract!Fail
  <2> QED
    BY <2>4, <2>5
<1>4. CASE UNCHANGED <<taken, outcome>>
  BY <1>4 DEF Contract!vars
<1>5. ASSUME NEW s \in Slots,
             StoreDesired(s) \/ Read(s) \/ Connect(s) \/ Respond(s) \/ RedisFails(s)
      PROVE  UNCHANGED <<taken, outcome>>
  BY <1>5 DEF StoreDesired, Read, Connect, Respond, RedisFails, broker
<1>6. CASE \E s \in Slots, d \in Devices :
             BeginPut(s, d) \/ BeginGet(s, d) \/ BeginCommand(s, d)
  BY <1>4, <1>6 DEF BeginPut, BeginGet, BeginCommand, Begin, broker
<1>7. CASE Crash \/ (Quiet /\ ~TakeLate)
  BY <1>4, <1>7 DEF Crash, Quiet, Apply, Report, vars, broker
<1> QED
  BY <1>1, <1>2, <1>3, <1>4, <1>5, <1>6, <1>7, NextCases DEF Rest, Quiet

\* The broker takes no message twice and TRUE means that it took it: publish
\* implements the contract of Outbox whatever happens to its connections.
THEOREM OutboxCorrect == Spec => OutboxSpec
<1>1. Init => Contract!Init
  BY DEF Init, Contract!Init
<1> QED
  BY <1>1, OutboxStep, Invariance, PTL DEF Spec, OutboxSpec, Contract!Spec
=============================================================================
