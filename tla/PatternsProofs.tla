--------------------------- MODULE PatternsProofs --------------------------
(***************************************************************************)
(* The pattern endpoints, for any number of concurrent requests, patterns, *)
(* devices and faults: no created pattern is lost, no deleted one returns  *)
(* but through a save that was waiting, and no listing is incomplete; and  *)
(* an activation that was pushed without another beside it lasts.  For one *)
(* request at a time, the endpoints implement the catalogue.               *)
(***************************************************************************)
EXTENDS Activation, TLAPS

-----------------------------------------------------------------------------
(* The inductive invariant.                                                *)

Creating(r) == r.op = "create" /\ r.step \in {"set", "sadd"}

\* What holds of one request, given what is stored: whatever id it still works
\* on is known, and the record of that id is there or was deleted.
RequestOK(r) ==
  /\ r.step \in Commands => r.pid \in used \cup {None} /\ r.ids \subseteq used
  /\ r.step \in Commands \ {"smembers"} => r.pid \in Patterns
  /\ r.step \in {"set", "sadd"} => r.op \in {"create", "update", "activate"}
  /\ r.step = "get" => r.op \in {"update", "activate"}
  /\ r.step \in {"smembers", "lookup", "drop"} <=> r.op = "list" /\ r.step \in Commands
  /\ r.step = "set" => r.rec.version # 0 /\ r.pid \notin removed \ overlapped
  /\ r.step = "sadd" => Exists(r.pid) \/ r.pid \in removed
  /\ r.step = "srem" => r.pid \in removed \/ r.pid \notin created
  /\ r.step = "drop" => r.pid \in removed
  /\ r.step \in {"lookup", "drop"} =>
       \A p \in r.ids \cup {r.pid} : Exists(p) \/ p \in removed

\* A listing has not lost sight of a pattern it owes its caller.
ListOK(r) ==
  r.op = "list" =>
    /\ r.due \subseteq created
    /\ ~r.flag =>
         /\ r.step = "lookup" => r.due \ removed \subseteq r.found \cup r.ids \cup {r.pid}
         /\ r.step = "drop" => r.due \ removed \subseteq r.found \cup r.ids
         /\ r.step = "200" => r.due \ removed \subseteq r.found

\* Nobody else works on a pattern that is being created.
Private ==
  \A s \in Slots : Creating(req[s]) =>
    /\ req[s].pid \notin created \cup index \cup removed
    /\ \A t \in Slots : t # s /\ req[t].step \in Commands =>
         req[t].pid # req[s].pid /\ req[s].pid \notin req[t].ids

\* A listed pattern has a record, or somebody deleted it.
Indexed == /\ Known \subseteq used
           /\ \A p \in index : Exists(p) \/ p \in removed

Requests == \A s \in Slots : RequestOK(req[s]) /\ ListOK(req[s])

IInv == /\ TypeOK /\ Indexed /\ Requests /\ Private
        /\ UndeletedStaysListed /\ DeletedStaysDeleted

LEMMA BlankOK == /\ Blank \in Request /\ Blank.step = "idle" /\ Blank.op = "none"
                 /\ RequestOK(Blank) /\ ListOK(Blank)
                 /\ RequestOK(Blank)' /\ ListOK(Blank)'
<1>1. Blank \in Request
  BY DEF Blank, Request, Absent, Record
<1>2. Blank.step = "idle" /\ Blank.op = "none"
  BY DEF Blank
<1> QED
  BY <1>1, <1>2 DEF RequestOK, ListOK, Commands

LEMMA InitIInv == Init => IInv
<1> SUFFICES ASSUME Init PROVE IInv
  OBVIOUS
<1>1. \A s \in Slots : req[s] = Blank
  BY DEF Init
<1>2. Requests /\ Private
  BY <1>1, BlankOK DEF Requests, Private, Creating
<1>3. TypeOK
  BY BlankOK DEF Init, TypeOK, Absent, Record, Nothing, Desired
<1> QED
  BY <1>2, <1>3
     DEF Init, IInv, Indexed, Known, UndeletedStaysListed, DeletedStaysDeleted

-----------------------------------------------------------------------------
(* What a step of slot s does to everything but its own request.           *)

World(s) ==
  /\ removed \subseteq removed' /\ created \subseteq created' /\ used \subseteq used'
  /\ \A p \in Patterns : Exists(p) => Exists(p)' \/ p \in removed'
  /\ \A p \in removed' \ overlapped' :
       \/ p \in removed \ overlapped
       \/ \A t \in Slots : ~(At(t, "set") /\ req[t].pid = p)
  /\ \A p \in created' \ created : Creating(req[s]) /\ p = req[s].pid

LEMMA OtherRequests ==
  ASSUME IInv, NEW s \in Slots, World(s), NEW t \in Slots, t # s, req'[t] = req[t]
  PROVE  RequestOK(req[t])' /\ ListOK(req[t])'
<1>1. RequestOK(req[t]) /\ ListOK(req[t]) /\ req[t] \in Request
  BY DEF IInv, Requests, TypeOK
<1>2. req[t].step \in Commands => req[t].pid \notin created' \ created
  BY DEF World, IInv, Private
<1>3. \A p \in Patterns : Exists(p) \/ p \in removed => Exists(p)' \/ p \in removed'
  BY DEF World
<1>4. req[t].ids \subseteq Patterns
  BY <1>1 DEF Request
<1>5. RequestOK(req[t])'
  <2>1. /\ req'[t].step \in Commands => req'[t].pid \in used' \cup {None} /\ req'[t].ids \subseteq used'
        /\ req'[t].step \in Commands \ {"smembers"} => req'[t].pid \in Patterns
        /\ req'[t].step \in {"set", "sadd"} => req'[t].op \in {"create", "update", "activate"}
        /\ req'[t].step = "get" => req'[t].op \in {"update", "activate"}
        /\ req'[t].step \in {"smembers", "lookup", "drop"}
             <=> req'[t].op = "list" /\ req'[t].step \in Commands
    BY <1>1 DEF RequestOK, World
  <2>2. /\ req'[t].step = "set" => req'[t].rec.version # 0 /\ req'[t].pid \notin removed' \ overlapped'
        /\ req'[t].step = "srem" => req'[t].pid \in removed' \/ req'[t].pid \notin created'
        /\ req'[t].step = "drop" => req'[t].pid \in removed'
    BY <1>1, <1>2 DEF RequestOK, World, At, Commands
  <2>3. /\ req'[t].step = "sadd" => Exists(req[t].pid)' \/ req'[t].pid \in removed'
        /\ req'[t].step \in {"lookup", "drop"} =>
             \A p \in req'[t].ids \cup {req'[t].pid} : Exists(p)' \/ p \in removed'
    BY <1>1, <1>3, <1>4 DEF RequestOK, Commands, Exists
  <2> QED
    BY <2>1, <2>2, <2>3 DEF RequestOK, Exists
<1>6. ListOK(req[t])'
  BY <1>1 DEF ListOK, World
<1> QED
  BY <1>5, <1>6

\* The effect of a command, executed or not.
Executes(s) == /\ req[s].step \in Commands
               /\ Effect(s) \/ UNCHANGED effects

\* What is left of the types and the invariant by it.
LEMMA EffectType ==
  ASSUME TypeOK, NEW s \in Slots, RequestOK(req[s]), Executes(s)
  PROVE  /\ record' \in [Patterns -> Record] /\ index' \subseteq Patterns
         /\ active' \in [Devices -> Patterns \cup {None}]
         /\ retained' \in [Devices -> Desired]
         /\ removed' \subseteq Patterns /\ overlapped' \subseteq Patterns
<1>1. req[s] \in Request /\ req[s].rec \in Record /\ req[s].pid \in Patterns \cup {None}
  BY DEF TypeOK, Request
<1>2. req[s].step # "smembers" => req[s].pid \in Patterns
  BY DEF RequestOK, Executes
<1>3. CASE Set(s)
  BY <1>1, <1>3 DEF Set, TypeOK
<1>4. CASE SAdd(s)
  BY <1>2, <1>4 DEF SAdd, TypeOK, At
<1>5. CASE Del(s)
  <2>1. Absent \in Record
    BY DEF Absent, Record
  <2>2. req[s].pid \in Patterns
    BY <1>2, <1>5 DEF Del, At
  <2> QED
    BY <1>5, <2>1, <2>2 DEF Del, TypeOK
<1>6. CASE SRem(s)
  BY <1>6 DEF SRem, TypeOK
<1>7. CASE SetActive(s)
  BY <1>1, <1>7 DEF SetActive, TypeOK
<1>8. CASE Publish(s)
  <2>1. [pid |-> req[s].pid, version |-> req[s].rec.version,
         content |-> req[s].rec.content] \in Desired
    BY <1>1 DEF Desired, Record
  <2> QED
    BY <1>8, <2>1 DEF Publish, TypeOK
<1>9. CASE Reads(s) \/ UNCHANGED effects
  BY <1>9 DEF Reads, effects, store, TypeOK
<1> QED
  BY <1>3, <1>4, <1>5, <1>6, <1>7, <1>8, <1>9 DEF Executes, Effect

LEMMA EffectKeeps ==
  ASSUME IInv, NEW s \in Slots, Executes(s)
  PROVE  /\ removed \subseteq removed'
         /\ \A p \in Patterns : Exists(p) => Exists(p)' \/ p \in removed'
         /\ \A p \in removed' \ overlapped' :
              \/ p \in removed \ overlapped
              \/ \A t \in Slots : ~(At(t, "set") /\ req[t].pid = p)
         /\ index' \subseteq index \cup {req[s].pid}
         /\ removed' \subseteq removed \cup {req[s].pid}
         /\ index' \cup removed' \subseteq used
         /\ \A p \in index' : Exists(p)' \/ p \in removed'
         /\ \A p \in created \ removed' : Exists(p)' /\ p \in index'
         /\ \A p \in removed' \ overlapped' : ~Exists(p)'
<1>0. /\ TypeOK /\ RequestOK(req[s]) /\ req[s] \in Request
      /\ Known \subseteq used
      /\ \A p \in index : Exists(p) \/ p \in removed
      /\ \A p \in created \ removed : Exists(p) /\ p \in index
      /\ \A p \in removed \ overlapped : ~Exists(p)
      /\ index \subseteq Patterns /\ created \subseteq Patterns /\ removed \subseteq Patterns
  BY DEF IInv, Requests, TypeOK, Indexed, UndeletedStaysListed, DeletedStaysDeleted
<1>k. created \subseteq used /\ index \subseteq used /\ removed \subseteq used
  BY <1>0 DEF Known
<1>1. CASE UNCHANGED <<record, index, removed, overlapped>>
  <2>1. \A p : Exists(p)' <=> Exists(p)
    BY <1>1 DEF Exists
  <2> QED
    BY <1>0, <1>k, <1>1, <2>1
<1>2. CASE Set(s)
  <2>1. /\ req[s].pid \in Patterns /\ req[s].rec.version # 0
        /\ req[s].pid \notin removed \ overlapped
    BY <1>0, <1>2 DEF Set, At, RequestOK, Commands
  <2>2. /\ \A p \in Patterns : record'[p] = IF p = req[s].pid THEN req[s].rec ELSE record[p]
        /\ index' = index /\ removed' = removed /\ overlapped' = overlapped
    BY <1>0, <1>2 DEF Set, TypeOK
  <2>3. \A p \in Patterns : Exists(p)' <=> Exists(p) \/ p = req[s].pid
    BY <2>1, <2>2 DEF Exists
  <2> QED
    BY <1>0, <1>k, <2>1, <2>2, <2>3
<1>3. CASE SAdd(s)
  <2>1. /\ req[s].pid \in Patterns /\ req[s].pid \in used \cup {None}
        /\ Exists(req[s].pid) \/ req[s].pid \in removed
    BY <1>0, <1>3 DEF SAdd, At, RequestOK, Commands
  <2>2. /\ record' = record /\ removed' = removed /\ overlapped' = overlapped
        /\ index' = index \cup {req[s].pid} /\ req[s].pid \in used
    BY <1>3, <2>1, ConstantsOK DEF SAdd
  <2>3. \A p : Exists(p)' <=> Exists(p)
    BY <2>2 DEF Exists
  <2> QED
    BY <1>0, <1>k, <2>1, <2>2, <2>3
<1>4. CASE Del(s)
  <2>1. req[s].pid \in Patterns /\ req[s].pid \in used
    BY <1>0, <1>4, ConstantsOK DEF Del, At, RequestOK, Commands
  <2>2. /\ \A p \in Patterns : record'[p] = IF p = req[s].pid THEN Absent ELSE record[p]
        /\ index' = index
        /\ removed' = IF Exists(req[s].pid) THEN removed \cup {req[s].pid} ELSE removed
        /\ overlapped' = IF \E t \in Slots : At(t, "set") /\ req[t].pid = req[s].pid
                         THEN overlapped \cup {req[s].pid} ELSE overlapped
    BY <1>0, <1>4 DEF Del, TypeOK
  <2>3. \A p \in Patterns : Exists(p)' <=> Exists(p) /\ p # req[s].pid
    BY <2>1, <2>2 DEF Exists, Absent
  <2>4. removed \subseteq removed' /\ overlapped \subseteq overlapped'
    BY <2>2
  <2>5. \A p \in removed' \ overlapped' :
              \/ p \in removed \ overlapped
              \/ \A t \in Slots : ~(At(t, "set") /\ req[t].pid = p)
    BY <2>2
  <2>6. removed' \subseteq used /\ removed' \subseteq Patterns
    BY <1>0, <1>k, <2>1, <2>2
  <2> QED
    BY <1>0, <1>k, <2>1, <2>2, <2>3, <2>4, <2>5, <2>6
<1>5. CASE SRem(s)
  <2>1. /\ record' = record /\ removed' = removed /\ overlapped' = overlapped
        /\ index' = index \ {req[s].pid}
    BY <1>5 DEF SRem
  <2>2. \A p : Exists(p)' <=> Exists(p)
    BY <2>1 DEF Exists
  <2>3. req[s].pid \notin created \ removed
    BY <1>0, <1>5 DEF SRem, At, RequestOK
  <2> QED
    BY <1>0, <1>k, <2>1, <2>2, <2>3
<1>6. CASE SetActive(s) \/ Publish(s) \/ Reads(s) \/ UNCHANGED effects
  BY <1>1, <1>6 DEF SetActive, Publish, Reads, effects, store
<1> QED
  BY <1>2, <1>3, <1>4, <1>5, <1>6 DEF Executes, Effect

-----------------------------------------------------------------------------
(* The steps of a request.                                                 *)

Became(s, r) == /\ r \in Request
                /\ req' = [req EXCEPT ![s] = r]

\* The new request of slot s works on ids it had, or on listed ones.
OnKnownIds(s, r) ==
  r.step \in Commands => /\ r.pid \in {req[s].pid} \cup req[s].ids \cup index
                         /\ r.ids \subseteq req[s].ids \cup index

\* The step adds the id of slot s to the created ones, or none.
Creates(s) ==
  \/ created' = created
  \/ /\ At(s, "sadd") /\ req[s].op = "create" /\ SAdd(s)
     /\ created' = created \cup {req[s].pid}

LEMMA StepKeeps ==
  ASSUME IInv, NEW s \in Slots, NEW r, Became(s, r), Executes(s), Creates(s),
         used' = used, requests' \in Nat, faults' \in Nat, OnKnownIds(s, r),
         Creating(r) => /\ Creating(req[s]) /\ r.pid = req[s].pid
                        /\ UNCHANGED <<created, index, removed>>,
         RequestOK(req[s])', ListOK(req[s])'
  PROVE  IInv'
<1>0. /\ TypeOK /\ RequestOK(req[s]) /\ req[s] \in Request /\ Private
      /\ created \subseteq used /\ index \subseteq used
      /\ created \subseteq Patterns /\ used \subseteq Patterns
  BY DEF IInv, Requests, TypeOK, Indexed, Known
<1>1. req'[s] = r /\ \A t \in Slots : t # s => req'[t] = req[t]
  BY <1>0 DEF Became, TypeOK
<1>2. \/ created' = created
      \/ \E p \in Patterns : /\ Creating(req[s]) /\ p = req[s].pid
                             /\ created' = created \cup {p}
                             /\ p \in used /\ Exists(p)' /\ p \in index'
  <2>1. ASSUME At(s, "sadd"), req[s].op = "create", SAdd(s)
        PROVE  \E p \in Patterns : /\ Creating(req[s]) /\ p = req[s].pid
                                   /\ p \in used /\ Exists(p)' /\ p \in index'
    <3>1. PICK p \in Patterns : p = req[s].pid /\ p \in used
      BY <1>0, <2>1, ConstantsOK DEF At, RequestOK, Commands
    <3>2. Creating(req[s])
      BY <2>1 DEF At, Creating
    <3>3. Exists(p)
      BY <1>0, <2>1, <3>1, <3>2 DEF At, RequestOK, Private, Known
    <3> QED
      BY <2>1, <3>1, <3>2, <3>3 DEF SAdd, Exists
  <2> QED
    BY <2>1 DEF Creates
<1>3. World(s)
  BY <1>2, EffectKeeps DEF World
<1>4. Requests'
  <2>1. \A t \in Slots : t # s => RequestOK(req[t])' /\ ListOK(req[t])'
    BY <1>1, <1>3, OtherRequests
  <2> QED
    BY <2>1 DEF Requests
<1>5. TypeOK'
  <2>1. req' \in [Slots -> Request] /\ created' \subseteq Patterns /\ used' \subseteq Patterns
    BY <1>0, <1>2 DEF Became, TypeOK
  <2> QED
    BY <1>0, <2>1, EffectType DEF TypeOK
<1>6. Indexed'
  BY <1>0, <1>2, EffectKeeps DEF Indexed, Known
<1>7. UndeletedStaysListed' /\ DeletedStaysDeleted'
  <2>1. \A p \in created' \ removed' : Exists(p)' /\ p \in index'
    BY <1>2, EffectKeeps
  <2> QED
    BY <2>1, EffectKeeps DEF UndeletedStaysListed, DeletedStaysDeleted
<1>8. Private'
  <2> SUFFICES ASSUME NEW t \in Slots, Creating(req'[t])
               PROVE  /\ req'[t].pid \notin created' \cup index' \cup removed'
                      /\ \A u \in Slots : u # t /\ req'[u].step \in Commands =>
                           req'[u].pid # req'[t].pid /\ req'[t].pid \notin req'[u].ids
    BY DEF Private, Known
  <2>1. CASE t = s
    BY <1>0, <1>1, <2>1 DEF Private, Known
  <2>2. CASE t # s
    <3>1. /\ Creating(req[t]) /\ req'[t] = req[t]
          /\ req[t].pid \notin created \cup index \cup removed
          /\ req[s].pid # req[t].pid /\ req[t].pid \notin req[s].ids
      BY <1>0, <1>1, <2>2 DEF Private, Known, Executes
    <3>2. req[t].pid \notin created' \cup index' \cup removed'
      BY <1>2, <3>1, EffectKeeps
    <3>3. r.step \in Commands => r.pid # req[t].pid /\ req[t].pid \notin r.ids
      BY <3>1 DEF OnKnownIds
    <3> QED
      BY <1>0, <1>1, <2>2, <3>1, <3>2, <3>3 DEF Private
  <2> QED
    BY <2>1, <2>2
<1> QED
  BY <1>4, <1>5, <1>6, <1>7, <1>8 DEF IInv

\* A step that only moves the request on to x.
Copy(r, q) == /\ r.op = q.op /\ r.pid = q.pid /\ r.dev = q.dev /\ r.flag = q.flag
              /\ r.ids = q.ids /\ r.found = q.found /\ r.due = q.due

LEMMA GotoBecomes ==
  ASSUME TypeOK, NEW s \in Slots, NEW x \in Commands \cup Replies, Goto(s, x)
  PROVE  \E r : Became(s, r) /\ r.step = x /\ Copy(r, req[s]) /\ r.rec = req[s].rec
<1> DEFINE r == [req[s] EXCEPT !.step = x]
<1>1. req[s] \in Request
  BY DEF TypeOK
<1>2. r \in Request /\ r.step = x /\ Copy(r, req[s]) /\ r.rec = req[s].rec
  BY <1>1 DEF Request, Copy
<1>3. req' = [req EXCEPT ![s] = r]
  BY DEF Goto
<1> QED
  BY <1>2, <1>3 DEF Became

LEMMA CommandsAndReplies == Commands \cap Replies = {} /\ "idle" \notin Commands \cup Replies
  BY DEF Commands, Replies

\* A request that is answered works on nothing any more.
LEMMA Answered ==
  ASSUME IInv, NEW s \in Slots, NEW x \in Replies, Goto(s, x), Executes(s),
         Creates(s), used' = used, requests' \in Nat, faults' \in Nat,
         x = "200" => req[s].op # "list"
  PROVE  IInv'
<1>0. TypeOK /\ ListOK(req[s])
  BY DEF IInv, Requests
<1>1. PICK r : Became(s, r) /\ r.step = x /\ Copy(r, req[s])
  BY <1>0, GotoBecomes
<1>2. req'[s] = r /\ x \notin Commands
  BY <1>0, <1>1, CommandsAndReplies DEF Became, TypeOK
<1>3. RequestOK(req[s])' /\ OnKnownIds(s, r) /\ ~Creating(r)
  BY <1>1, <1>2 DEF RequestOK, OnKnownIds, Commands, Creating
<1>4. created \subseteq created'
  BY DEF Creates
<1>5. ListOK(req[s])'
  BY <1>0, <1>1, <1>2, <1>4 DEF ListOK, Copy, Replies
<1> QED
  BY <1>1, <1>3, <1>5, StepKeeps

LEMMA SetKeeps ==
  ASSUME IInv, NEW s \in Slots, AfterSet(s)
  PROVE  IInv'
<1>0. /\ TypeOK /\ RequestOK(req[s]) /\ ListOK(req[s]) /\ req[s].step = "set"
      /\ Executes(s) /\ Creates(s) /\ used' = used /\ requests' \in Nat /\ faults' \in Nat
  BY DEF IInv, Requests, AfterSet, Set, At, Executes, Effect, Commands, Creates,
         quiet, TypeOK
<1>1. PICK r : Became(s, r) /\ r.step = "sadd" /\ Copy(r, req[s])
  BY <1>0, GotoBecomes DEF AfterSet, Commands
<1>2. req'[s] = r
  BY <1>0, <1>1 DEF Became, TypeOK
<1>3. /\ req[s].pid \in Patterns /\ req[s].rec.version # 0
      /\ req[s].pid \in used \cup {None} /\ req[s].ids \subseteq used
      /\ req[s].op \in {"create", "update", "activate"}
  BY <1>0 DEF RequestOK, Commands
<1>4. Exists(req[s].pid)' /\ UNCHANGED <<created, index, removed>>
  <2>1. record'[req[s].pid] = req[s].rec
    BY <1>0, <1>3 DEF AfterSet, Set, TypeOK
  <2>2. req'[s].pid = req[s].pid
    BY <1>1, <1>2 DEF Copy
  <2>3. record'[req'[s].pid].version # 0
    BY <1>3, <2>1, <2>2
  <2> QED
    BY <2>3 DEF Exists, AfterSet, Set
<1>5. RequestOK(req[s])' /\ ListOK(req[s])'
  BY <1>0, <1>1, <1>2, <1>3, <1>4 DEF RequestOK, ListOK, Copy, Commands
<1>6. OnKnownIds(s, r) /\ (Creating(r) => Creating(req[s]) /\ r.pid = req[s].pid)
  BY <1>0, <1>1 DEF OnKnownIds, Copy, Creating
<1> QED
  BY <1>0, <1>1, <1>4, <1>5, <1>6, StepKeeps

LEMMA GetKeeps ==
  ASSUME IInv, NEW s \in Slots, AfterGet(s)
  PROVE  IInv'
<1>0. /\ TypeOK /\ RequestOK(req[s]) /\ ListOK(req[s]) /\ req[s].step = "get"
      /\ Executes(s) /\ Creates(s) /\ used' = used /\ requests' \in Nat /\ faults' \in Nat
      /\ UNCHANGED effects /\ req[s] \in Request
  BY DEF IInv, Requests, AfterGet, Reads, At, Executes, Effect, Commands, Creates,
         quiet, TypeOK
<1>1. /\ req[s].pid \in Patterns /\ req[s].op \in {"update", "activate"}
      /\ req[s].pid \in used \cup {None} /\ req[s].ids \subseteq used
  BY <1>0 DEF RequestOK, Commands
<1>2. CASE Exists(req[s].pid)
  <2> DEFINE new == NewRecord(req[s], record[req[s].pid])
             r   == [req[s] EXCEPT !.step = "set", !.rec = new]
  <2>1. req' = [req EXCEPT ![s] = r]
    BY <1>0, <1>2 DEF AfterGet, TypeOK
  <2>2. new \in Record /\ new.version # 0
    <3>1. record[req[s].pid] \in Record /\ req[s].rec \in Record
      BY <1>0, <1>1 DEF TypeOK, Request
    <3>2. record[req[s].pid].version \in Nat /\ record[req[s].pid].version # 0
      BY <1>2, <3>1 DEF Record, Exists
    <3>3. CASE req[s].op = "update"
      BY <3>1, <3>2, <3>3 DEF NewRecord, Record
    <3>4. CASE req[s].op # "update"
      BY <3>1, <3>2, <3>4 DEF NewRecord, Record
    <3> QED
      BY <3>3, <3>4
  <2> HIDE DEF new
  <2>3. /\ r \in Request /\ r.step = "set" /\ r.rec = new /\ Copy(r, req[s])
    BY <1>0, <2>2 DEF Request, Copy, Commands
  <2> HIDE DEF r
  <2>4. req'[s] = r
    BY <1>0, <2>1 DEF TypeOK
  <2>5. req[s].pid \notin removed \ overlapped
    BY <1>2 DEF IInv, DeletedStaysDeleted
  <2>6. RequestOK(req[s])' /\ ListOK(req[s])'
    <3>1. UNCHANGED <<removed, overlapped, created>>
      BY <1>0 DEF effects, AfterGet
    <3> QED
      BY <1>0, <1>1, <2>2, <2>3, <2>4, <2>5, <3>1 DEF RequestOK, ListOK, Copy, Commands
  <2>7. OnKnownIds(s, r) /\ ~Creating(r)
    BY <1>1, <2>3 DEF OnKnownIds, Copy, Creating
  <2>8. Became(s, r)
    BY <2>1, <2>3 DEF Became
  <2> QED
    BY <1>0, <2>6, <2>7, <2>8, StepKeeps
<1>3. CASE ~Exists(req[s].pid)
  <2>1. Goto(s, "404") /\ "404" \in Replies
    BY <1>3 DEF AfterGet, Replies
  <2> QED
    BY <1>0, <2>1, Answered
<1> QED
  BY <1>2, <1>3

LEMMA DelKeeps ==
  ASSUME IInv, NEW s \in Slots, AfterDel(s)
  PROVE  IInv'
<1>0. /\ TypeOK /\ RequestOK(req[s]) /\ ListOK(req[s]) /\ req[s].step = "del"
      /\ Executes(s) /\ Creates(s) /\ used' = used /\ requests' \in Nat /\ faults' \in Nat
      /\ req[s] \in Request /\ created' = created
  BY DEF IInv, Requests, AfterDel, Del, At, Executes, Effect, Commands, Creates,
         quiet, TypeOK
<1> DEFINE r == [req[s] EXCEPT !.step = "srem", !.existed = Exists(req[s].pid)]
<1>1. req' = [req EXCEPT ![s] = r]
  BY <1>0 DEF AfterDel, TypeOK
<1>2. r \in Request /\ r.step = "srem" /\ Copy(r, req[s])
  BY <1>0 DEF Request, Copy, Commands, Exists
<1> HIDE DEF r
<1>3. req'[s] = r
  BY <1>0, <1>1 DEF TypeOK
<1>4. /\ req[s].pid \in Patterns /\ req[s].op # "list"
      /\ req[s].pid \in used \cup {None} /\ req[s].ids \subseteq used
  BY <1>0 DEF RequestOK, Commands
<1>5. req[s].pid \in removed' \/ req[s].pid \notin created
  BY DEF AfterDel, Del, IInv, UndeletedStaysListed
<1>6. RequestOK(req[s])' /\ ListOK(req[s])'
  BY <1>0, <1>2, <1>3, <1>4, <1>5 DEF RequestOK, ListOK, Copy, Commands
<1>7. OnKnownIds(s, r) /\ ~Creating(r) /\ Became(s, r)
  BY <1>1, <1>2 DEF OnKnownIds, Copy, Creating, Became
<1> QED
  BY <1>0, <1>6, <1>7, StepKeeps

LEMMA SAddKeeps ==
  ASSUME IInv, NEW s \in Slots, AfterSAdd(s)
  PROVE  IInv'
<1>0. /\ TypeOK /\ RequestOK(req[s]) /\ ListOK(req[s]) /\ req[s].step = "sadd"
      /\ Executes(s) /\ Creates(s) /\ used' = used /\ requests' \in Nat /\ faults' \in Nat
  BY DEF IInv, Requests, AfterSAdd, SAdd, At, Executes, Effect, Commands, Creates,
         quiet, TypeOK
<1>1. /\ req[s].op \in {"create", "update", "activate"}
      /\ req[s].pid \in Patterns
      /\ req[s].pid \in used \cup {None} /\ req[s].ids \subseteq used
  BY <1>0 DEF RequestOK, Commands
<1>2. CASE req[s].op = "activate"
  <2>1. Goto(s, "setActive") /\ created' = created
    BY <1>2 DEF AfterSAdd
  <2>2. PICK r : Became(s, r) /\ r.step = "setActive" /\ Copy(r, req[s])
    BY <1>0, <2>1, GotoBecomes DEF Commands
  <2>3. req'[s] = r
    BY <1>0, <2>2 DEF Became, TypeOK
  <2>4. RequestOK(req[s])' /\ ListOK(req[s])' /\ OnKnownIds(s, r) /\ ~Creating(r)
    BY <1>0, <1>1, <1>2, <2>2, <2>3
       DEF RequestOK, ListOK, OnKnownIds, Creating, Copy, Commands
  <2> QED
    BY <1>0, <2>2, <2>4, StepKeeps
<1>3. CASE req[s].op # "activate"
  <2>1. PICK x \in {"200", "201"} : Goto(s, x)
    BY <1>1, <1>3 DEF AfterSAdd
  <2> QED
    BY <1>0, <1>1, <2>1, Answered DEF Replies
<1> QED
  BY <1>2, <1>3

LEMMA SetActiveKeeps ==
  ASSUME IInv, NEW s \in Slots, AfterSetActive(s)
  PROVE  IInv'
<1>0. /\ TypeOK /\ RequestOK(req[s]) /\ ListOK(req[s]) /\ req[s].step = "setActive"
      /\ Executes(s) /\ Creates(s) /\ used' = used /\ requests' \in Nat /\ faults' \in Nat
      /\ created' = created
  BY DEF IInv, Requests, AfterSetActive, SetActive, At, Executes, Effect, Commands,
         Creates, quiet, TypeOK
<1>1. CASE Goto(s, "publish")
  <2>2. PICK r : Became(s, r) /\ r.step = "publish" /\ Copy(r, req[s])
    BY <1>0, <1>1, GotoBecomes DEF Commands
  <2>3. req'[s] = r
    BY <1>0, <2>2 DEF Became, TypeOK
  <2>4. RequestOK(req[s])' /\ ListOK(req[s])' /\ OnKnownIds(s, r) /\ ~Creating(r)
    BY <1>0, <2>2, <2>3 DEF RequestOK, ListOK, OnKnownIds, Creating, Copy, Commands
  <2> QED
    BY <1>0, <2>2, <2>4, StepKeeps
<1>2. CASE Goto(s, "202")
  BY <1>0, <1>2, Answered DEF Replies
<1> QED
  BY <1>1, <1>2 DEF AfterSetActive

\* Commands that end with their reply, and requests that fail.
LEMMA EndKeeps ==
  ASSUME IInv, NEW s \in Slots,
         AfterSRem(s) \/ AfterPublish(s) \/ RedisFails(s) \/ PublishFails(s)
  PROVE  IInv'
<1>n. requests \in Nat /\ faults \in Nat
  BY DEF IInv, TypeOK
<1>f. /\ used' = used /\ requests' = requests /\ created' = created
      /\ faults' \in {faults, faults + 1}
  BY DEF AfterSRem, AfterPublish, RedisFails, PublishFails, Fault, quiet
<1>0. /\ used' = used /\ requests' \in Nat /\ faults' \in Nat /\ created' = created
  BY <1>n, <1>f
<1>1. Creates(s)
  BY <1>0 DEF Creates
<1>2. Executes(s)
  BY DEF AfterSRem, AfterPublish, RedisFails, PublishFails, Executes, Effect, At,
         SRem, Publish, Commands
<1>3. PICK x \in Replies \ {"200"} : Goto(s, x)
  BY DEF AfterSRem, AfterPublish, RedisFails, PublishFails, Replies
<1> QED
  BY <1>0, <1>1, <1>2, <1>3, Answered

\* A listing goes on to the next of the ids it has left, or answers.
LEMMA NextLookup ==
  ASSUME TypeOK, NEW s \in Slots, NEW q \in Request, LookupNext(s, q)
  PROVE  \E r : /\ Became(s, r) /\ r.op = q.op /\ r.flag = q.flag
                /\ r.found = q.found /\ r.due = q.due
                /\ \/ q.ids = {} /\ r.step = "200"
                   \/ /\ r.step = "lookup" /\ r.pid \in q.ids
                      /\ r.ids = q.ids \ {r.pid}
<1>1. CASE q.ids = {}
  <2> DEFINE r == [q EXCEPT !.step = "200", !.pid = None]
  <2>1. /\ r \in Request /\ r.op = q.op /\ r.flag = q.flag /\ r.found = q.found
        /\ r.due = q.due /\ r.step = "200"
    BY DEF Request, Replies
  <2>2. req' = [req EXCEPT ![s] = r]
    BY <1>1 DEF LookupNext
  <2> HIDE DEF r
  <2> QED
    BY <1>1, <2>1, <2>2 DEF Became
<1>2. CASE q.ids # {}
  <2>1. PICK p \in q.ids :
          req' = [req EXCEPT ![s] = [q EXCEPT !.step = "lookup", !.pid = p,
                                              !.ids = @ \ {p}]]
    BY <1>2 DEF LookupNext
  <2> DEFINE r == [q EXCEPT !.step = "lookup", !.pid = p, !.ids = @ \ {p}]
  <2>2. /\ r \in Request /\ r.op = q.op /\ r.flag = q.flag /\ r.found = q.found
        /\ r.due = q.due /\ r.step = "lookup" /\ r.pid = p /\ r.ids = q.ids \ {p}
    BY DEF Request, Commands
  <2>3. req' = [req EXCEPT ![s] = r]
    BY <2>1
  <2> HIDE DEF r
  <2> QED
    BY <2>2, <2>3 DEF Became
<1> QED
  BY <1>1, <1>2

LEMMA LookupKeeps ==
  ASSUME IInv, NEW s \in Slots, NEW q \in Request, LookupNext(s, q), Executes(s),
         created' = created, used' = used, requests' \in Nat, faults' \in Nat,
         q.op = "list", q.ids \subseteq req[s].ids \cup index, q.ids \subseteq used,
         \A p \in q.ids : Exists(p)' \/ p \in removed',
         q.due \subseteq created,
         ~q.flag => q.due \ removed' \subseteq q.found \cup q.ids
  PROVE  IInv'
<1>0. TypeOK /\ q.ids \subseteq Patterns
  BY DEF IInv, Request
<1>1. PICK r : /\ Became(s, r) /\ r.op = q.op /\ r.flag = q.flag
               /\ r.found = q.found /\ r.due = q.due
               /\ \/ q.ids = {} /\ r.step = "200"
                  \/ /\ r.step = "lookup" /\ r.pid \in q.ids
                     /\ r.ids = q.ids \ {r.pid}
  BY <1>0, NextLookup
<1>2. req'[s] = r
  BY <1>0, <1>1 DEF Became, TypeOK
<1>3. /\ "200" \notin Commands /\ "lookup" \in Commands
      /\ "200" \notin {"smembers", "lookup", "drop", "set", "sadd", "get", "srem"}
  BY DEF Commands
<1>4. ListOK(req[s])'
  BY <1>1, <1>2 DEF ListOK
<1>5. OnKnownIds(s, r) /\ ~Creating(r)
  BY <1>1, <1>3 DEF OnKnownIds, Creating
<1>6. RequestOK(req[s])'
  <2>1. CASE r.step = "200"
    BY <1>2, <1>3, <2>1 DEF RequestOK
  <2>2. CASE r.step = "lookup"
    <3>1. \A p \in r.ids \cup {r.pid} : Exists(p)' \/ p \in removed'
      BY <1>1, <2>2
    <3> QED
      BY <1>0, <1>1, <1>2, <1>3, <2>2, <3>1 DEF RequestOK, Exists
  <2> QED
    BY <1>1, <2>1, <2>2
<1> QED
  BY <1>1, <1>4, <1>5, <1>6, StepKeeps DEF Creates

LEMMA ListKeeps ==
  ASSUME IInv, NEW s \in Slots, AfterSMembers(s) \/ AfterLookup(s) \/ AfterDrop(s)
  PROVE  IInv'
<1>0. /\ TypeOK /\ RequestOK(req[s]) /\ ListOK(req[s]) /\ req[s] \in Request
      /\ used' = used /\ requests' \in Nat /\ faults' \in Nat /\ created' = created
      /\ Indexed /\ UndeletedStaysListed /\ index \subseteq Patterns
  BY DEF IInv, Requests, TypeOK, AfterSMembers, AfterLookup, AfterDrop, quiet
<1>1. /\ req[s].step \in {"smembers", "lookup", "drop"} /\ Executes(s)
      /\ req[s].step = "drop" \/ UNCHANGED effects
  BY DEF AfterSMembers, AfterLookup, AfterDrop, SRem, Reads, At, Executes, Effect,
         Commands
<1>2. /\ req[s].op = "list" /\ req[s].step \in Commands /\ req[s].due \subseteq created
      /\ req[s].ids \subseteq used /\ req[s].ids \subseteq Patterns
  BY <1>0, <1>1 DEF RequestOK, ListOK, Commands, Request
<1>e. /\ record' = record /\ removed' = removed
      /\ \A p : Exists(p)' <=> Exists(p)
  BY <1>1 DEF AfterDrop, AfterSMembers, AfterLookup, SRem, effects, store, Exists, At
<1>3. CASE AfterSMembers(s)
  <2> DEFINE q == [req[s] EXCEPT !.ids = index]
  <2>1. /\ q \in Request /\ q.op = "list" /\ q.ids = index /\ q.due = req[s].due
        /\ q.flag = req[s].flag /\ q.found = req[s].found
    BY <1>0, <1>2 DEF Request
  <2>2. LookupNext(s, q)
    BY <1>3 DEF AfterSMembers
  <2> HIDE DEF q
  <2>3. \A p \in index : p \in used /\ (Exists(p)' \/ p \in removed')
    BY <1>0, <1>e DEF Indexed, Known
  <2>4. req[s].due \ removed' \subseteq index
    BY <1>0, <1>2, <1>e DEF UndeletedStaysListed
  <2> QED
    BY <1>0, <1>1, <1>2, <2>1, <2>2, <2>3, <2>4, LookupKeeps
<1>4. CASE AfterLookup(s)
  <2>0. /\ req[s].step = "lookup" /\ req[s].pid \in Patterns
        /\ \A p \in req[s].ids \cup {req[s].pid} : Exists(p) \/ p \in removed
        /\ ~req[s].flag =>
             req[s].due \ removed \subseteq req[s].found \cup req[s].ids \cup {req[s].pid}
        /\ req[s].pid \in used \cup {None}
    BY <1>0, <1>2, <1>4 DEF AfterLookup, At, RequestOK, ListOK, Commands
  <2>1. CASE ~Exists(req[s].pid)
    <3>1. PICK r : Became(s, r) /\ r.step = "drop" /\ Copy(r, req[s])
      BY <1>0, <1>4, <2>1, GotoBecomes DEF AfterLookup, Commands
    <3>2. req'[s] = r
      BY <1>0, <3>1 DEF Became, TypeOK
    <3>3. req[s].pid \in removed'
      BY <1>e, <2>0, <2>1
    <3>4. \A p \in r.ids \cup {r.pid} : Exists(p)' \/ p \in removed'
      BY <1>e, <2>0, <3>1 DEF Copy
    <3>5. RequestOK(req[s])'
      BY <1>0, <1>2, <2>0, <3>1, <3>2, <3>3, <3>4 DEF RequestOK, Copy, Commands, Exists
    <3>6. ListOK(req[s])' /\ OnKnownIds(s, r) /\ ~Creating(r)
      BY <1>0, <1>2, <1>e, <2>0, <3>1, <3>2, <3>3 DEF ListOK, OnKnownIds, Creating, Copy
    <3> QED
      BY <1>0, <1>1, <3>1, <3>5, <3>6, StepKeeps DEF Creates
  <2>2. CASE Exists(req[s].pid)
    <3> DEFINE q == IF req[s].flag /\ ~record[req[s].pid].isActive THEN req[s]
                    ELSE [req[s] EXCEPT !.found = @ \cup {req[s].pid}]
    <3>1. /\ q \in Request /\ q.op = "list" /\ q.ids = req[s].ids /\ q.due = req[s].due
          /\ q.flag = req[s].flag
          /\ ~q.flag => q.found = req[s].found \cup {req[s].pid}
      <4>1. CASE req[s].flag /\ ~record[req[s].pid].isActive
        BY <1>0, <1>2, <4>1
      <4>2. CASE ~(req[s].flag /\ ~record[req[s].pid].isActive)
        BY <1>0, <1>2, <2>0, <4>2 DEF Request
      <4> QED
        BY <4>1, <4>2
    <3>2. LookupNext(s, q)
      BY <1>4, <2>2 DEF AfterLookup
    <3> HIDE DEF q
    <3>3. \A p \in q.ids : Exists(p)' \/ p \in removed'
      BY <1>e, <2>0, <3>1
    <3>4. ~q.flag => q.due \ removed' \subseteq q.found \cup q.ids
      BY <1>e, <2>0, <3>1
    <3> QED
      BY <1>0, <1>1, <1>2, <3>1, <3>2, <3>3, <3>4, LookupKeeps
  <2> QED
    BY <2>1, <2>2
<1>5. CASE AfterDrop(s)
  <2>0. /\ req[s].step = "drop"
        /\ \A p \in req[s].ids : Exists(p) \/ p \in removed
        /\ ~req[s].flag => req[s].due \ removed \subseteq req[s].found \cup req[s].ids
    BY <1>0, <1>2, <1>5 DEF AfterDrop, At, RequestOK, ListOK
  <2> QED
    BY <1>0, <1>1, <1>2, <1>5, <1>e, <2>0, LookupKeeps DEF AfterDrop
<1> QED
  BY <1>3, <1>4, <1>5

\* The steps that change the requests only: one begins, is over, or all are gone.
LEMMA RequestsOnly ==
  ASSUME IInv, UNCHANGED <<store, history>>, used \subseteq used', used' \subseteq Patterns,
         req' \in [Slots -> Request], requests' \in Nat, faults' \in Nat, NEW new,
         \A t \in Slots : req'[t] = req[t] \/ req'[t] = Blank \/ t = new,
         new \in Slots => RequestOK(req[new])' /\ ListOK(req[new])',
         \A t \in Slots \ {new}, u \in Slots :
           Creating(req[t]) /\ req'[u].step \in Commands =>
             \/ u # new
             \/ req'[u].pid # req[t].pid /\ req[t].pid \notin req'[u].ids,
         new \in Slots /\ Creating(req'[new]) =>
           /\ req'[new].pid \notin used
           /\ req'[new].pid # None
  PROVE  IInv'
<1>0. /\ TypeOK /\ Indexed /\ Private /\ UndeletedStaysListed /\ DeletedStaysDeleted
      /\ \A t \in Slots : RequestOK(req[t]) /\ ListOK(req[t])
  BY DEF IInv, Requests
<1>1. /\ record' = record /\ index' = index /\ created' = created /\ removed' = removed
      /\ overlapped' = overlapped /\ \A p : Exists(p)' <=> Exists(p)
  BY DEF store, history, Exists
<1>2. TypeOK' /\ Indexed' /\ UndeletedStaysListed' /\ DeletedStaysDeleted'
  BY <1>0, <1>1 DEF TypeOK, Indexed, Known, UndeletedStaysListed, DeletedStaysDeleted,
     store, history
<1>3. Requests'
  <2>1. ASSUME NEW t \in Slots, req'[t] = req[t]
        PROVE  RequestOK(req[t])' /\ ListOK(req[t])'
    BY <1>0, <1>1, <2>1 DEF RequestOK, ListOK, Exists
  <2>2. ASSUME NEW t \in Slots, req'[t] = Blank
        PROVE  RequestOK(req[t])' /\ ListOK(req[t])'
    BY <2>2, BlankOK DEF RequestOK, ListOK, Commands
  <2> QED
    BY <2>1, <2>2 DEF Requests
<1>4. Private'
  <2> SUFFICES ASSUME NEW t \in Slots, Creating(req'[t])
               PROVE  /\ req'[t].pid \notin created \cup index \cup removed
                      /\ \A u \in Slots : u # t /\ req'[u].step \in Commands =>
                           req'[u].pid # req'[t].pid /\ req'[t].pid \notin req'[u].ids
    BY <1>1 DEF Private, Known
  <2>b. ~Creating(Blank) /\ Blank.step \notin Commands
    BY BlankOK DEF Creating, Commands
  <2>1. CASE t = new
    <3>1. req'[t].pid \notin used /\ req'[t].pid # None
      BY <2>1
    <3>2. \A u \in Slots : u # t /\ req'[u].step \in Commands =>
            /\ req'[u] = req[u] /\ req[u].pid \in used \cup {None} /\ req[u].ids \subseteq used
      BY <1>0, <2>1, <2>b DEF RequestOK
    <3> QED
      BY <1>0, <3>1, <3>2 DEF Indexed, Known
  <2>2. CASE t # new
    <3>1. req'[t] = req[t] /\ Creating(req[t])
      BY <2>2, <2>b
    <3>2. \A u \in Slots : u # t /\ u # new /\ req'[u].step \in Commands => req'[u] = req[u]
      BY <2>b
    <3> QED
      BY <1>0, <2>2, <3>1, <3>2 DEF Private, Known
  <2> QED
    BY <2>1, <2>2
<1> QED
  BY <1>2, <1>3, <1>4 DEF IInv

LEMMA BeginKeeps ==
  ASSUME IInv, NEW s \in Slots,
         \/ BeginCreate(s) \/ BeginUpdate(s) \/ BeginActivate(s)
         \/ BeginDelete(s) \/ BeginList(s)
  PROVE  IInv'
<1>0. /\ TypeOK /\ Indexed /\ Private /\ used \subseteq Patterns /\ requests \in Nat
      /\ \A t \in Slots : RequestOK(req[t]) /\ ListOK(req[t])
      /\ Known \subseteq used /\ DeletedStaysDeleted
  BY DEF IInv, Requests, TypeOK, Indexed
<1>1. ASSUME NEW r \in Request, Begin(s, r), used' = used, r.op # "create", r.ids = {},
             r.step \in {"get", "del", "smembers"},
             r.step # "smembers" => r.pid \in Known,
             r.step = "smembers" => r.pid = None,
             r.step = "get" => r.op \in {"update", "activate"},
             r.op = "list" <=> r.step = "smembers",
             r.op = "list" => r.due \subseteq created
      PROVE  IInv'
  <2>1. /\ req' = [req EXCEPT ![s] = r] /\ requests' \in Nat /\ faults' \in Nat
        /\ UNCHANGED <<store, history>>
    BY <1>0, <1>1 DEF Begin, TypeOK
  <2>2. /\ req' \in [Slots -> Request] /\ req'[s] = r
        /\ \A t \in Slots : t # s => req'[t] = req[t]
    BY <1>0, <1>1, <2>1 DEF TypeOK
  <2>3. RequestOK(req[s])' /\ ListOK(req[s])'
    BY <1>0, <1>1, <2>1, <2>2 DEF RequestOK, ListOK, Commands, history
  <2>4. \A t \in Slots : Creating(req[t]) => r.pid # req[t].pid /\ req[t].pid \notin r.ids
    BY <1>0, <1>1, ConstantsOK DEF Private, Creating, RequestOK, Commands, Known
  <2>5. ~Creating(r)
    BY <1>1 DEF Creating
  <2> QED
    BY <1>0, <1>1, <2>1, <2>2, <2>3, <2>4, <2>5, RequestsOnly
<1>b. Blank \in Request /\ requests + 1 \in Nat
  BY <1>0, BlankOK
<1>2. CASE BeginCreate(s)
  <2>1. PICK p \in Patterns \ used :
          /\ used' = used \cup {p}
          /\ Begin(s, [Blank EXCEPT !.op = "create", !.step = "set", !.pid = p,
                         !.rec = [version |-> 1, isActive |-> FALSE,
                                  content |-> requests + 1]])
    BY <1>2 DEF BeginCreate
  <2> DEFINE r == [Blank EXCEPT !.op = "create", !.step = "set", !.pid = p,
                     !.rec = [version |-> 1, isActive |-> FALSE,
                              content |-> requests + 1]]
  <2>2. /\ r \in Request /\ r.op = "create" /\ r.step = "set" /\ r.pid = p
        /\ r.ids = {} /\ r.rec.version # 0
    <3> DEFINE rec == [version |-> 1, isActive |-> FALSE, content |-> requests + 1]
    <3>1. rec \in Record /\ rec.version # 0
      BY <1>b DEF Record
    <3>2. r = [Blank EXCEPT !.op = "create", !.step = "set", !.pid = p, !.rec = rec]
      OBVIOUS
    <3> HIDE DEF rec, r
    <3>3. Blank \in Request /\ Blank.ids = {}
      BY BlankOK DEF Blank
    <3> QED
      BY <3>1, <3>2, <3>3 DEF Request, Commands
  <2>3. Begin(s, r)
    BY <2>1
  <2> HIDE DEF r
  <2>4. /\ req' = [req EXCEPT ![s] = r] /\ requests' \in Nat /\ faults' \in Nat
        /\ UNCHANGED <<store, history>>
    BY <1>0, <2>3 DEF Begin, TypeOK
  <2>5. /\ req' \in [Slots -> Request] /\ req'[s] = r
        /\ \A t \in Slots : t # s => req'[t] = req[t]
    BY <1>0, <2>2, <2>4 DEF TypeOK
  <2>6. p \notin removed
    BY <1>0, <2>1 DEF Known
  <2>7. RequestOK(req[s])' /\ ListOK(req[s])'
    BY <2>1, <2>2, <2>4, <2>5, <2>6 DEF RequestOK, ListOK, Commands, history
  <2>8. \A t \in Slots : Creating(req[t]) => p # req[t].pid
    BY <1>0, <2>1, ConstantsOK DEF Creating, RequestOK, Commands
  <2> QED
    BY <1>0, <2>1, <2>2, <2>4, <2>5, <2>7, <2>8, ConstantsOK, RequestsOnly
<1>3. CASE BeginUpdate(s)
  <2>1. PICK p \in Known :
          /\ Begin(s, [Blank EXCEPT !.op = "update", !.step = "get", !.pid = p,
                                    !.rec.content = requests + 1])
          /\ used' = used
    BY <1>3 DEF BeginUpdate
  <2> DEFINE r == [Blank EXCEPT !.op = "update", !.step = "get", !.pid = p,
                                !.rec.content = requests + 1]
  <2>2. /\ r \in Request /\ r.op = "update" /\ r.step = "get" /\ r.pid = p /\ r.ids = {}
    BY <1>0, <1>b DEF Blank, Request, Record, Commands, Absent
  <2> HIDE DEF r
  <2> QED
    BY <1>1, <2>1, <2>2 DEF r
<1>4. CASE BeginActivate(s)
  <2>1. PICK p \in Known, d \in Devices, f \in Flags :
          /\ Begin(s, [Blank EXCEPT !.op = "activate", !.step = "get", !.pid = p,
                                    !.dev = d, !.flag = f])
          /\ used' = used
    BY <1>4 DEF BeginActivate
  <2> DEFINE r == [Blank EXCEPT !.op = "activate", !.step = "get", !.pid = p,
                                    !.dev = d, !.flag = f]
  <2>2. /\ r \in Request /\ r.op = "activate" /\ r.step = "get" /\ r.pid = p /\ r.ids = {}
    BY <1>0, <1>b, ConstantsOK DEF Blank, Request, Commands
  <2> HIDE DEF r
  <2> QED
    BY <1>1, <2>1, <2>2 DEF r
<1>5. CASE BeginDelete(s)
  <2>1. PICK p \in Known :
          /\ Begin(s, [Blank EXCEPT !.op = "delete", !.step = "del", !.pid = p])
          /\ used' = used
    BY <1>5 DEF BeginDelete
  <2> DEFINE r == [Blank EXCEPT !.op = "delete", !.step = "del", !.pid = p]
  <2>2. /\ r \in Request /\ r.op = "delete" /\ r.step = "del" /\ r.pid = p /\ r.ids = {}
    BY <1>0, <1>b DEF Blank, Request, Commands
  <2> HIDE DEF r
  <2> QED
    BY <1>1, <2>1, <2>2 DEF r
<1>6. CASE BeginList(s)
  <2>1. PICK f \in Flags :
          /\ Begin(s, [Blank EXCEPT !.op = "list", !.step = "smembers", !.flag = f,
                                    !.due = created])
          /\ used' = used
    BY <1>6 DEF BeginList
  <2> DEFINE r == [Blank EXCEPT !.op = "list", !.step = "smembers", !.flag = f,
                                    !.due = created]
  <2>2. /\ r \in Request /\ r.op = "list" /\ r.step = "smembers" /\ r.pid = None
        /\ r.ids = {} /\ r.due = created
    <3>1. created \in SUBSET Patterns /\ f \in BOOLEAN
      BY <1>0, ConstantsOK DEF TypeOK
    <3> QED
      BY <1>b, <3>1 DEF Blank, Request, Commands
  <2> HIDE DEF r
  <2> QED
    BY <1>1, <2>1, <2>2 DEF r
<1> QED
  BY <1>2, <1>3, <1>4, <1>5, <1>6

LEMMA Inductive == IInv /\ [Next]_vars => IInv'
<1> SUFFICES ASSUME IInv, [Next]_vars PROVE IInv'
  OBVIOUS
<1>0. /\ TypeOK /\ used \subseteq Patterns /\ requests \in Nat /\ faults \in Nat
      /\ req \in [Slots -> Request]
  BY DEF IInv, TypeOK
<1>1. CASE UNCHANGED vars
  <2>1. UNCHANGED <<store, history, req, requests, faults, used>>
    BY <1>1 DEF vars
  <2>2. PICK no : no \notin Slots
    BY NoSetContainsEverything
  <2> QED
    BY <1>0, <2>1, <2>2, RequestsOnly
<1>2. CASE Crash
  <2>1. /\ UNCHANGED <<store, history, used>> /\ requests' \in Nat /\ faults' \in Nat
        /\ req' = [s \in Slots |-> Blank]
    BY <1>0, <1>2 DEF Crash, Fault, effects, history
  <2>2. PICK no : no \notin Slots
    BY NoSetContainsEverything
  <2>3. req' \in [Slots -> Request] /\ \A s \in Slots : req'[s] = Blank
    BY <2>1, BlankOK
  <2> QED
    BY <1>0, <2>1, <2>2, <2>3, RequestsOnly
<1>3. ASSUME NEW s \in Slots, Respond(s)
      PROVE  IInv'
  <2>1. /\ UNCHANGED <<store, history, used, requests, faults>>
        /\ req' = [req EXCEPT ![s] = Blank]
    BY <1>3 DEF Respond, quiet
  <2>2. PICK no : no \notin Slots
    BY NoSetContainsEverything
  <2>3. /\ req' \in [Slots -> Request]
        /\ \A t \in Slots : req'[t] = req[t] \/ req'[t] = Blank
    BY <1>0, <2>1, BlankOK
  <2> QED
    BY <1>0, <2>1, <2>2, <2>3, RequestsOnly
<1>4. ASSUME NEW s \in Slots, Step(s)
      PROVE  IInv'
  BY <1>3, <1>4, SetKeeps, SAddKeeps, GetKeeps, DelKeeps, EndKeeps, SetActiveKeeps,
     ListKeeps DEF Step
<1> QED
  BY <1>1, <1>2, <1>4, BeginKeeps, EndKeeps DEF Next

-----------------------------------------------------------------------------
(* The theorems.                                                           *)

LEMMA Invariance == Spec => []IInv
  BY InitIInv, Inductive, PTL DEF Spec

\* The variables keep their shape.
THEOREM TypeCorrect == Spec => []TypeOK
<1>1. IInv => TypeOK
  BY DEF IInv
<1> QED
  BY <1>1, Invariance, PTL

\* A created pattern keeps its record and its index entry until it is deleted:
\* a listing drops only index entries of deleted patterns, and nobody can work
\* on an id before its creation is answered.
THEOREM UndeletedCorrect == Spec => []UndeletedStaysListed
<1>1. IInv => UndeletedStaysListed
  BY DEF IInv
<1> QED
  BY <1>1, Invariance, PTL

\* Only a save that waited for its SET when the DEL ran brings a pattern back.
THEOREM DeletedCorrect == Spec => []DeletedStaysDeleted
<1>1. IInv => DeletedStaysDeleted
  BY DEF IInv
<1> QED
  BY <1>1, Invariance, PTL

\* A listing has every pattern created before it began and not deleted since.
THEOREM ListingCorrect == Spec => []ListingComplete
<1>1. IInv => ListingComplete
  BY DEF IInv, Requests, ListOK, ListingComplete, At
<1> QED
  BY <1>1, Invariance, PTL

-----------------------------------------------------------------------------
(* One request at a time.                                                  *)

\* At most one request is served at a time.
Serial == \A s, t \in Slots : s = t

\* The pattern's record and its index entry, which make it listed.
Stored(p) == p \in index /\ Exists(p)

\* What one request at a time adds: between its read and its write nothing has
\* changed, so what it is about to write is what the catalogue's operation does.
SerialOK(r) ==
  /\ r.step = "get" => r.pid \in Known
  /\ r.step \in {"get", "set"} /\ r.op \in {"create", "update"}
       => r.rec.content \in 1 .. MaxRequests
  /\ r.step = "set" /\ r.op = "create"
       => r.rec.version = 1 /\ ~r.rec.isActive
  /\ r.step = "set" /\ r.op = "update"
       => /\ Stored(r.pid) /\ r.rec.version = record[r.pid].version + 1
          /\ r.rec.isActive = record[r.pid].isActive
  /\ r.step = "set" /\ r.op = "activate"
       => Stored(r.pid) /\ r.rec = [record[r.pid] EXCEPT !.isActive = TRUE]
  /\ r.step = "sadd" /\ r.op = "create"
       => /\ record[r.pid].version = 1 /\ ~record[r.pid].isActive
          /\ record[r.pid].content \in 1 .. MaxRequests
  /\ r.step = "sadd" /\ r.op # "create" => r.pid \in index
  /\ r.step \in {"srem", "drop"} => ~Exists(r.pid)

\* No known pattern has a record but no index entry.
KnownIsListed == \A p \in Known : Exists(p) => p \in index

SerialInv == KnownIsListed /\ \A s \in Slots : SerialOK(req[s])

-----------------------------------------------------------------------------
(* The catalogue.                                                          *)

Listing == [p \in {q \in index : Exists(q)} |-> record[p]]

LEMMA CatalogueListed ==
  /\ Catalogue!Listed = {p \in index : Exists(p)}
  /\ \A p : p \in Catalogue!Listed <=> Stored(p)
  BY DEF Catalogue!Listed, Stored

\* Two listings with the same stored patterns and the same records are equal.
LEMMA SameListing ==
  ASSUME \A p : Stored(p)' <=> Stored(p),
         \A p : Stored(p) => record'[p] = record[p]
  PROVE  Listing' = Listing
<1>1. \A p : p \in index' /\ record'[p].version # 0 <=> p \in index /\ record[p].version # 0
  BY DEF Stored, Exists
<1>2. \A p \in {q \in index : Exists(q)} : record'[p] = record[p]
  BY DEF Stored
<1>3. {q \in index' : record'[q].version # 0} = {q \in index : record[q].version # 0}
  BY <1>1
<1> QED
  BY <1>2, <1>3 DEF Listing, Exists

\* One more record, or another one in its place, is With of the catalogue.
LEMMA ListingWith ==
  ASSUME NEW p, Stored(p)', NEW r, record'[p] = r,
         \A q : q # p => (Stored(q)' <=> Stored(q)),
         \A q : q # p /\ Stored(q) => record'[q] = record[q]
  PROVE  Listing' = Catalogue!With(p, r)
<1>1. {q \in index' : record'[q].version # 0} = Catalogue!Listed \cup {p}
  BY CatalogueListed DEF Stored, Exists
<1>2. \A q \in Catalogue!Listed \cup {p} :
        record'[q] = IF q = p THEN r ELSE Listing[q]
  BY CatalogueListed DEF Listing, Stored
<1> QED
  BY <1>1, <1>2 DEF Catalogue!With, Listing, Exists

\* What KnownIsListed needs of a command, whatever becomes of its answer.
StaysListed == \A p \in created \cup index' \cup removed' :
                 record'[p].version # 0 => p \in index'

\* SET: a new record is not listed yet; over a listed one it is the catalogue's
\* operation.
LEMMA SetMaps ==
  ASSUME IInv, SerialInv, NEW s \in Slots, Set(s)
  PROVE  /\ Catalogue!Next \/ Listing' = Listing
         /\ StaysListed
<1>p. PICK p : p = req[s].pid
  OBVIOUS
<1>r. PICK r : r = req[s].rec
  OBVIOUS
<1>0. /\ record \in [Patterns -> Record] /\ req[s] \in Request /\ r \in Record
      /\ Creating(req[s]) => p \notin Known
      /\ SerialOK(req[s]) /\ KnownIsListed /\ Known \subseteq Patterns
  BY <1>p, <1>r DEF IInv, SerialInv, Private, Known, TypeOK, Request
<1>1. /\ At(s, "set") /\ p \in Patterns /\ r.version # 0
      /\ req[s].op \in {"create", "update", "activate"}
  BY <1>p, <1>r DEF Set, At, RequestOK, Commands, IInv, Requests
<1>2. /\ record' = [record EXCEPT ![p] = r] /\ UNCHANGED <<index, removed>>
  BY <1>p, <1>r DEF Set
<1>3. /\ record'[p] = r
      /\ \A q : q # p => record'[q] = record[q]
  BY <1>0, <1>1, <1>2
<1>4. \A q : q # p => (Stored(q)' <=> Stored(q))
  BY <1>2, <1>3 DEF Stored, Exists
<1>5. CASE req[s].op = "create"
  <2>1. p \notin Known
    BY <1>p, <1>0, <1>1, <1>5 DEF Creating, At
  <2>2. p \notin index
    BY <2>1 DEF Known
  <2>3. Listing' = Listing
    <3>1. ~Stored(p)' /\ ~Stored(p)
      BY <1>2, <2>2 DEF Stored
    <3> QED
      BY <1>3, <1>4, <3>1, SameListing
  <2> QED
    BY <1>0, <1>2, <1>3, <2>1, <2>3 DEF KnownIsListed, Known, Exists, StaysListed
<1>6. CASE req[s].op \in {"update", "activate"}
  <2>1. Stored(p)
    BY <1>p, <1>0, <1>1, <1>6 DEF At, SerialOK
  <2>2. Stored(p)'
    BY <1>1, <1>2, <1>3, <2>1 DEF Stored, Exists
  <2>3. /\ Listing' = Catalogue!With(p, r) /\ p \in Catalogue!Listed
        /\ Listing[p] = record[p]
    BY <1>3, <1>4, <2>1, <2>2, ListingWith, CatalogueListed DEF Listing, Stored
  <2>4. CASE req[s].op = "update"
    <3>1. r = [record[p] EXCEPT !.version = @ + 1, !.content = r.content]
          /\ r.content \in 1 .. MaxRequests
      BY <1>p, <1>r, <1>0, <1>1, <2>4 DEF SerialOK, At, Record
    <3>2. \E q \in Catalogue!Listed, c \in 1 .. MaxRequests :
            Listing' = Catalogue!With(q, [Listing[q] EXCEPT !.version = @ + 1,
                                                           !.content = c])
      BY <2>3, <3>1
    <3>3. Catalogue!Revise
      BY <3>2 DEF Catalogue!Revise, Listing
    <3> QED
      BY <1>0, <1>2, <1>3, <2>1, <3>3 DEF Catalogue!Next, KnownIsListed, Known, Stored, Exists, StaysListed
  <2>5. CASE req[s].op = "activate"
    <3>1. r = [record[p] EXCEPT !.isActive = TRUE]
      BY <1>p, <1>r, <1>0, <1>1, <2>5 DEF SerialOK, At
    <3>2. Catalogue!Activate
      BY <1>1, <2>3, <3>1 DEF Catalogue!Activate, Listing
    <3> QED
      BY <1>0, <1>2, <1>3, <2>1, <3>2 DEF Catalogue!Next, KnownIsListed, Known, Stored, Exists, StaysListed
  <2> QED
    BY <1>6, <2>4, <2>5
<1> QED
  BY <1>1, <1>5, <1>6

\* SADD: registers the new pattern; any other is listed already.
LEMMA SAddMaps ==
  ASSUME IInv, SerialInv, NEW s \in Slots, SAdd(s)
  PROVE  /\ Catalogue!Next \/ Listing' = Listing
         /\ StaysListed
<1>p. PICK p : p = req[s].pid
  OBVIOUS
<1>0. /\ record \in [Patterns -> Record]
      /\ Creating(req[s]) => p \notin Known
      /\ SerialOK(req[s]) /\ KnownIsListed
  BY <1>p DEF IInv, SerialInv, Private, Known, TypeOK
<1>1. At(s, "sadd") /\ p \in Patterns /\ (Exists(p) \/ p \in removed)
  BY <1>p DEF SAdd, At, RequestOK, Commands, IInv, Requests
<1>2. index' = index \cup {p} /\ UNCHANGED <<record, removed>>
  BY <1>p DEF SAdd
<1>3. StaysListed
  BY <1>0, <1>2 DEF StaysListed, KnownIsListed, Known, Exists
<1>4. CASE req[s].op = "create"
  <2>1. p \notin Known
    BY <1>p, <1>0, <1>1, <1>4 DEF Creating, At
  <2>2. p \notin index /\ Exists(p)
    BY <1>1, <2>1 DEF Known
  <2>3. Stored(p)' /\ \A q : q # p => (Stored(q)' <=> Stored(q))
    BY <1>2, <2>2 DEF Stored, Exists
  <2>4. Listing' = Catalogue!With(p, record[p]) /\ p \in Patterns \ Catalogue!Listed
    BY <1>1, <1>2, <2>2, <2>3, ListingWith, CatalogueListed DEF Stored
  <2>5. PICK c \in 1 .. MaxRequests :
          record[p] = [version |-> 1, isActive |-> FALSE, content |-> c]
    BY <1>p, <1>0, <1>1, <1>4 DEF SerialOK, At, Record
  <2>6. \E q \in Patterns \ Catalogue!Listed, d \in 1 .. MaxRequests :
          Listing' = Catalogue!With(q, [version |-> 1, isActive |-> FALSE,
                                        content |-> d])
    BY <2>4, <2>5
  <2>7. Catalogue!Register
    BY <2>6 DEF Catalogue!Register, Listing
  <2> QED
    BY <1>3, <2>7 DEF Catalogue!Next
<1>5. CASE req[s].op # "create"
  <2>1. index' = index
    BY <1>p, <1>0, <1>1, <1>2, <1>5 DEF SerialOK, At
  <2>2. Listing' = Listing
    BY <1>2, <2>1, SameListing DEF Stored, Exists
  <2> QED
    BY <1>3, <2>2
<1> QED
  BY <1>4, <1>5

\* DEL: removes a listed pattern at once, its index entry notwithstanding.
LEMMA DelMaps ==
  ASSUME IInv, SerialInv, NEW s \in Slots, Del(s)
  PROVE  /\ Catalogue!Next \/ Listing' = Listing
         /\ StaysListed
<1>p. PICK p : p = req[s].pid
  OBVIOUS
<1>0. record \in [Patterns -> Record] /\ KnownIsListed
  BY DEF IInv, SerialInv, TypeOK
<1>1. p \in Patterns
  BY <1>p DEF Del, At, RequestOK, Commands, IInv, Requests
<1>2. /\ record' = [record EXCEPT ![p] = Absent] /\ index' = index
      /\ removed' \subseteq removed \cup {p}
  BY <1>p DEF Del
<1>3. record'[p].version = 0 /\ \A q : q # p => record'[q] = record[q]
  BY <1>0, <1>1, <1>2 DEF Absent
<1>4. StaysListed
  BY <1>0, <1>2, <1>3 DEF StaysListed, KnownIsListed, Known, Exists
<1>5. CASE Stored(p)
  <2>1. {q \in index' : record'[q].version # 0} = Catalogue!Listed \ {p}
    BY <1>2, <1>3, CatalogueListed DEF Stored, Exists
  <2>2. \A q \in Catalogue!Listed \ {p} : record'[q] = Listing[q]
    BY <1>3, CatalogueListed DEF Stored, Listing
  <2>3. Listing' = [q \in Catalogue!Listed \ {p} |-> Listing[q]]
    BY <2>1, <2>2 DEF Listing, Exists
  <2>4. p \in Catalogue!Listed
    BY <1>5, CatalogueListed
  <2>5. \E x \in Catalogue!Listed :
          Listing' = [q \in Catalogue!Listed \ {x} |-> Listing[q]]
    BY <2>3, <2>4
  <2>6. Catalogue!Remove
    BY <2>5 DEF Catalogue!Remove, Listing
  <2> QED
    BY <1>4, <2>6 DEF Catalogue!Next
<1>6. CASE ~Stored(p)
  <2>1. ~Stored(p)' /\ \A q : q # p => (Stored(q)' <=> Stored(q))
    BY <1>2, <1>3 DEF Stored, Exists
  <2>2. Listing' = Listing
    BY <1>3, <1>6, <2>1, SameListing
  <2> QED
    BY <1>4, <2>2
<1> QED
  BY <1>5, <1>6

\* SREM: the index loses a pattern that has no record any more.
LEMMA SRemMaps ==
  ASSUME SerialInv, NEW s \in Slots, SRem(s)
  PROVE  Listing' = Listing /\ StaysListed
<1>p. PICK p : p = req[s].pid
  OBVIOUS
<1>1. ~Exists(p) /\ index' = index \ {p} /\ UNCHANGED <<record, removed>>
  BY <1>p DEF SRem, SerialInv, SerialOK, At
<1>2. \A q : Stored(q)' <=> Stored(q)
  BY <1>1 DEF Stored, Exists
<1>3. Listing' = Listing
  BY <1>1, <1>2, SameListing
<1> QED
  BY <1>1, <1>3 DEF SerialInv, StaysListed, KnownIsListed, Known, Exists

\* Anything else leaves the catalogue alone.
LEMMA QuietMaps ==
  ASSUME SerialInv, UNCHANGED <<record, index, removed>>
  PROVE  Listing' = Listing /\ StaysListed
<1>1. \A q : Stored(q)' <=> Stored(q)
  BY DEF Stored, Exists
<1>2. Listing' = Listing
  BY <1>1, SameListing
<1> QED
  BY <1>2 DEF SerialInv, StaysListed, KnownIsListed, Known, Exists

LEMMA CommandMaps ==
  ASSUME IInv, SerialInv, NEW s \in Slots, Executes(s)
  PROVE  /\ Catalogue!Next \/ Listing' = Listing
         /\ StaysListed
<1>1. CASE UNCHANGED <<record, index, removed>>
  BY <1>1, QuietMaps
<1>2. CASE SetActive(s) \/ Publish(s) \/ Reads(s) \/ UNCHANGED effects
  BY <1>1, <1>2 DEF SetActive, Publish, Reads, effects, store
<1> QED
  BY <1>2, SetMaps, SAddMaps, DelMaps, SRemMaps DEF Executes, Effect

-----------------------------------------------------------------------------
(* One request at a time keeps the invariant.                              *)

\* Whatever a request does outside the steps SerialOK is about is fine with it.
LEMMA ElsewhereOK ==
  ASSUME NEW s, req'[s].step \notin {"get", "set", "sadd", "srem", "drop"}
  PROVE  SerialOK(req[s])'
  BY DEF SerialOK

LEMMA GotoMoves ==
  ASSUME TypeOK, NEW s \in Slots, NEW x, Goto(s, x)
  PROVE  /\ req'[s].step = x /\ req'[s].op = req[s].op /\ req'[s].pid = req[s].pid
         /\ req'[s].dev = req[s].dev /\ req'[s].flag = req[s].flag
<1>1. req'[s] = [req[s] EXCEPT !.step = x] /\ req[s] \in Request
  BY DEF Goto, TypeOK
<1> QED
  BY <1>1 DEF Request

LEMMA GotoElsewhere ==
  ASSUME TypeOK, NEW s \in Slots, NEW x, Goto(s, x),
         x \notin {"get", "set", "sadd", "srem", "drop"}
  PROVE  SerialOK(req[s])'
<1>1. req'[s].step = x
  BY GotoMoves
<1> QED
  BY <1>1, ElsewhereOK

\* A listing that goes on, or ends.
LEMMA LookupOK ==
  ASSUME NEW s \in Slots, req \in [Slots -> Request], NEW r \in Request,
         LookupNext(s, r)
  PROVE  SerialOK(req[s])'
<1>1. CASE r.ids = {}
  <2>1. req'[s] = [r EXCEPT !.step = "200", !.pid = None]
    BY <1>1 DEF LookupNext
  <2>2. req'[s].step = "200"
    BY <2>1 DEF Request
  <2> QED
    BY <2>2, ElsewhereOK
<1>2. CASE r.ids # {}
  <2>1. PICK p \in r.ids : req'[s] = [r EXCEPT !.step = "lookup", !.pid = p,
                                              !.ids = @ \ {p}]
    BY <1>2 DEF LookupNext
  <2>2. req'[s].step = "lookup"
    BY <2>1 DEF Request
  <2> QED
    BY <2>2, ElsewhereOK
<1> QED
  BY <1>1, <1>2

LEMMA SetOK ==
  ASSUME IInv, SerialInv, NEW s \in Slots, AfterSet(s)
  PROVE  SerialOK(req[s])'
<1>0. /\ TypeOK /\ record \in [Patterns -> Record] /\ req[s] \in Request
      /\ RequestOK(req[s]) /\ SerialOK(req[s]) /\ At(s, "set") /\ req[s].rec \in Record
  BY DEF IInv, Requests, SerialInv, TypeOK, AfterSet, Set, Request
<1>1. /\ req'[s].step = "sadd" /\ req'[s].op = req[s].op /\ req'[s].pid = req[s].pid
  BY <1>0, GotoMoves DEF AfterSet
<1>2. /\ req[s].pid \in Patterns /\ req[s].op \in {"create", "update", "activate"}
  BY <1>0 DEF RequestOK, At, Commands
<1>3. record'[req[s].pid] = req[s].rec /\ index' = index
  BY <1>0, <1>2 DEF AfterSet, Set
<1>4. req[s].op = "create" => /\ req[s].rec.version = 1 /\ ~req[s].rec.isActive
                              /\ req[s].rec.content \in 1 .. MaxRequests
  BY <1>0 DEF SerialOK, At
<1>5. req[s].op # "create" => req[s].pid \in index
  BY <1>0, <1>2 DEF SerialOK, At, Stored
<1>6. record'[req'[s].pid] = req[s].rec
  BY <1>1, <1>3
<1> QED
  BY <1>1, <1>3, <1>4, <1>5, <1>6 DEF SerialOK

LEMMA GetOK ==
  ASSUME IInv, SerialInv, NEW s \in Slots, AfterGet(s)
  PROVE  SerialOK(req[s])'
<1>0. /\ TypeOK /\ record \in [Patterns -> Record] /\ req[s] \in Request
      /\ RequestOK(req[s]) /\ SerialOK(req[s]) /\ At(s, "get") /\ KnownIsListed
      /\ UNCHANGED <<record, index, removed, created>> /\ req[s].rec \in Record
  BY DEF IInv, Requests, SerialInv, TypeOK, AfterGet, Reads, effects, store, Request
<1>1. /\ req[s].pid \in Patterns /\ req[s].op \in {"update", "activate"}
      /\ req[s].pid \in Known
      /\ req[s].op = "update" => req[s].rec.content \in 1 .. MaxRequests
  BY <1>0 DEF RequestOK, SerialOK, At, Commands
<1>2. CASE ~Exists(req[s].pid)
  BY <1>0, <1>2, GotoElsewhere DEF AfterGet
<1>3. CASE Exists(req[s].pid)
  <2>1. PICK old \in Record : old = record[req[s].pid]
    BY <1>0, <1>1
  <2>2. PICK new : new = NewRecord(req[s], old)
    OBVIOUS
  <2>3. req' = [req EXCEPT ![s].step = "set", ![s].rec = new]
    BY <1>3, <2>1, <2>2 DEF AfterGet
  <2>4. /\ req'[s].step = "set" /\ req'[s].op = req[s].op
        /\ req'[s].pid = req[s].pid /\ req'[s].rec = new
    BY <1>0, <2>3 DEF TypeOK, Request
  <2>5. /\ req[s].op = "update" => /\ new.version = old.version + 1
                                   /\ new.isActive = old.isActive
                                   /\ new.content \in 1 .. MaxRequests
        /\ req[s].op = "activate" => new = [old EXCEPT !.isActive = TRUE]
    BY <1>0, <1>1, <2>2 DEF NewRecord
  <2>6. record'[req'[s].pid] = old /\ req'[s].pid \in index' /\ old.version # 0
    BY <1>0, <1>1, <1>3, <2>1, <2>4 DEF KnownIsListed, Exists
  <2> QED
    BY <1>1, <2>4, <2>5, <2>6 DEF SerialOK, Stored, Exists
<1> QED
  BY <1>2, <1>3

LEMMA DelOK ==
  ASSUME IInv, NEW s \in Slots, AfterDel(s)
  PROVE  SerialOK(req[s])'
<1>0. /\ record \in [Patterns -> Record] /\ req \in [Slots -> Request]
      /\ req[s].pid \in Patterns
  BY DEF IInv, Requests, TypeOK, AfterDel, Del, At, RequestOK, Commands
<1>1. req'[s].step = "srem" /\ req'[s].pid = req[s].pid
  BY <1>0 DEF AfterDel, Request
<1>2. record'[req'[s].pid].version = 0
  BY <1>0, <1>1 DEF AfterDel, Del, Absent
<1> QED
  BY <1>1, <1>2 DEF SerialOK, Exists

LEMMA ListOKs ==
  ASSUME IInv, NEW s \in Slots,
         AfterSMembers(s) \/ AfterLookup(s) \/ AfterDrop(s)
  PROVE  SerialOK(req[s])'
<1>0. TypeOK /\ req \in [Slots -> Request] /\ req[s] \in Request /\ index \in SUBSET Patterns
  BY DEF IInv, TypeOK
<1>1. CASE AfterSMembers(s)
  <2>1. [req[s] EXCEPT !.ids = index] \in Request
    BY <1>0 DEF Request
  <2> QED
    BY <1>0, <1>1, <2>1, LookupOK DEF AfterSMembers
<1>2. CASE AfterDrop(s)
  BY <1>0, <1>2, LookupOK DEF AfterDrop
<1>3. CASE AfterLookup(s) /\ Exists(req[s].pid)
  <2>1. req[s].pid \in Patterns
    BY <1>3 DEF AfterLookup, At, IInv, Requests, RequestOK, Commands
  <2>2. [req[s] EXCEPT !.found = @ \cup {req[s].pid}] \in Request
    BY <1>0, <2>1 DEF Request
  <2> QED
    BY <1>0, <1>3, <2>2, LookupOK DEF AfterLookup
<1>4. CASE AfterLookup(s) /\ ~Exists(req[s].pid)
  <2>1. req'[s].step = "drop" /\ req'[s].pid = req[s].pid
    BY <1>0, <1>4, GotoMoves DEF AfterLookup
  <2>2. record' = record
    BY <1>4 DEF AfterLookup, Reads, effects, store
  <2> QED
    BY <1>4, <2>1, <2>2 DEF SerialOK, Exists
<1> QED
  BY <1>1, <1>2, <1>3, <1>4

\* A request begins with an id its client knows, or with a new record.
Beginning(r) ==
  \/ /\ r.op = "create" /\ r.step = "set" /\ r.rec.version = 1 /\ ~r.rec.isActive
     /\ r.rec.content = requests + 1
  \/ /\ r.op = "update" /\ r.step = "get" /\ r.pid \in Known
     /\ r.rec.content = requests + 1
  \/ /\ r.op = "activate" /\ r.step = "get" /\ r.pid \in Known
     /\ r.dev \in Devices /\ r.flag \in Flags
  \/ r.op = "delete" /\ r.step = "del"
  \/ r.op = "list" /\ r.step = "smembers"

Begins(s) == \/ BeginCreate(s) \/ BeginUpdate(s) \/ BeginActivate(s)
             \/ BeginDelete(s) \/ BeginList(s)

LEMMA BeginsWith ==
  ASSUME NEW s \in Slots, Begins(s)
  PROVE  \E r : Begin(s, r) /\ Beginning(r)
<1>1. CASE BeginCreate(s)
  <2>1. PICK p, rec, r :
          /\ p \in Patterns
          /\ rec = [version |-> 1, isActive |-> FALSE, content |-> requests + 1]
          /\ r = [Blank EXCEPT !.op = "create", !.step = "set", !.pid = p, !.rec = rec]
          /\ Begin(s, r)
    BY <1>1 DEF BeginCreate
  <2>2. r.op = "create" /\ r.step = "set" /\ r.rec = rec
    BY <2>1 DEF Blank
  <2>3. rec.version = 1 /\ ~rec.isActive /\ rec.content = requests + 1
    BY <2>1
  <2>4. Beginning(r)
    BY <2>2, <2>3 DEF Beginning
  <2> QED
    BY <2>1, <2>4
<1>2. CASE BeginUpdate(s)
  <2>1. PICK p, r :
          /\ p \in Known
          /\ r = [Blank EXCEPT !.op = "update", !.step = "get", !.pid = p,
                               !.rec.content = requests + 1]
          /\ Begin(s, r)
    BY <1>2 DEF BeginUpdate
  <2>2. /\ r.op = "update" /\ r.step = "get" /\ r.pid = p
        /\ r.rec.content = requests + 1
    BY <2>1 DEF Blank, Absent
  <2> QED
    BY <2>1, <2>2 DEF Beginning
<1>3. CASE BeginActivate(s)
  <2>1. PICK p, d, f, r :
          /\ p \in Known /\ d \in Devices /\ f \in Flags
          /\ r = [Blank EXCEPT !.op = "activate", !.step = "get", !.pid = p,
                               !.dev = d, !.flag = f]
          /\ Begin(s, r)
    BY <1>3 DEF BeginActivate
  <2>2. /\ r.op = "activate" /\ r.step = "get" /\ r.pid = p
        /\ r.dev = d /\ r.flag = f
    BY <2>1 DEF Blank
  <2> QED
    BY <2>1, <2>2 DEF Beginning
<1>4. CASE BeginDelete(s)
  <2>1. PICK p, r :
          /\ p \in Known
          /\ r = [Blank EXCEPT !.op = "delete", !.step = "del", !.pid = p]
          /\ Begin(s, r)
    BY <1>4 DEF BeginDelete
  <2>2. r.op = "delete" /\ r.step = "del"
    BY <2>1 DEF Blank
  <2> QED
    BY <2>1, <2>2 DEF Beginning
<1>5. CASE BeginList(s)
  <2>1. PICK f, r :
          /\ f \in Flags
          /\ r = [Blank EXCEPT !.op = "list", !.step = "smembers", !.flag = f,
                               !.due = created]
          /\ Begin(s, r)
    BY <1>5 DEF BeginList
  <2>2. r.op = "list" /\ r.step = "smembers"
    BY <2>1 DEF Blank
  <2> QED
    BY <2>1, <2>2 DEF Beginning
<1> QED
  BY <1>1, <1>2, <1>3, <1>4, <1>5 DEF Begins

LEMMA BeginOK ==
  ASSUME TypeOK, NEW s \in Slots, Begins(s)
  PROVE  SerialOK(req[s])'
<1>1. PICK r : Begin(s, r) /\ Beginning(r)
  BY BeginsWith
<1>2. /\ req'[s] = r /\ requests + 1 \in 1 .. MaxRequests /\ Known' = Known
  BY <1>1, ConstantsOK DEF TypeOK, Begin, Known, history, store
<1> QED
  BY <1>1, <1>2 DEF SerialOK, Beginning

\* What a step of Next does to the stored patterns, and to the requests.
LEMMA SerialStep ==
  ASSUME Serial, IInv, SerialInv, [Next]_vars
  PROVE  SerialInv' /\ (Catalogue!Next \/ Listing' = Listing)
<1>0. TypeOK /\ req \in [Slots -> Request]
  BY DEF IInv, TypeOK
<1>1. ASSUME NEW s \in Slots, Executes(s), SerialOK(req[s])',
             created' \subseteq created \cup index'
      PROVE  SerialInv' /\ (Catalogue!Next \/ Listing' = Listing)
  <2>1. StaysListed /\ (Catalogue!Next \/ Listing' = Listing)
    BY <1>1, CommandMaps
  <2>2. KnownIsListed'
    BY <1>1, <2>1 DEF StaysListed, KnownIsListed, Known, Exists
  <2> QED
    BY <1>1, <2>1, <2>2 DEF Serial, SerialInv
<1>2. ASSUME UNCHANGED <<record, index, removed, created>>,
             \A s \in Slots : SerialOK(req[s])'
      PROVE  SerialInv' /\ (Catalogue!Next \/ Listing' = Listing)
  <2>1. KnownIsListed' /\ Listing' = Listing
    BY <1>2, QuietMaps DEF StaysListed, KnownIsListed, Known, Exists
  <2> QED
    BY <1>2, <2>1 DEF SerialInv
<1>3. CASE UNCHANGED vars
  <2>1. UNCHANGED <<record, index, removed, created, req>>
    BY <1>3 DEF vars, store, history
  <2>2. \A s \in Slots : SerialOK(req[s])'
    BY <2>1 DEF SerialInv, SerialOK, Stored, Exists, Known
  <2> QED
    BY <1>2, <2>1, <2>2
<1>4. CASE Crash
  <2>1. \A s \in Slots : req'[s].step = "idle"
    BY <1>4, BlankOK DEF Crash
  <2>2. \A s \in Slots : SerialOK(req[s])'
    BY <2>1, ElsewhereOK
  <2> QED
    BY <1>2, <1>4, <2>2 DEF Crash, Fault, effects, store
<1>5. ASSUME NEW s \in Slots, Begins(s)
      PROVE  SerialInv' /\ (Catalogue!Next \/ Listing' = Listing)
  <2>1. UNCHANGED <<record, index, removed, created>>
    BY <1>5, BeginsWith DEF Begin, store, history
  <2>2. \A t \in Slots : SerialOK(req[t])'
    BY <1>0, <1>5, BeginOK DEF Serial
  <2> QED
    BY <1>2, <2>1, <2>2
<1>6. ASSUME NEW s \in Slots, Respond(s)
      PROVE  SerialInv' /\ (Catalogue!Next \/ Listing' = Listing)
  <2>1. /\ UNCHANGED <<record, index, removed, created>>
        /\ req'[s].step = "idle"
    BY <1>0, <1>6, BlankOK DEF Respond, store, history
  <2>2. \A t \in Slots : SerialOK(req[t])'
    BY <2>1, ElsewhereOK DEF Serial
  <2> QED
    BY <1>2, <2>1, <2>2
<1>7. ASSUME NEW s \in Slots, RedisFails(s) \/ PublishFails(s)
      PROVE  SerialInv' /\ (Catalogue!Next \/ Listing' = Listing)
  <2>1. Executes(s) /\ created' = created
    BY <1>7 DEF RedisFails, PublishFails, Executes, Fault, At, Commands
  <2>2. SerialOK(req[s])'
    BY <1>0, <1>7, GotoElsewhere DEF RedisFails, PublishFails
  <2> QED
    BY <1>1, <2>1, <2>2
<1>8. ASSUME NEW s \in Slots, AfterSAdd(s)
      PROVE  SerialInv' /\ (Catalogue!Next \/ Listing' = Listing)
  <2>1. Executes(s) /\ created' \subseteq created \cup index'
    BY <1>8 DEF AfterSAdd, SAdd, Executes, Effect, At, Commands
  <2>2. req[s].op \in {"create", "update", "activate"}
    BY <1>8 DEF AfterSAdd, SAdd, At, IInv, Requests, RequestOK
  <2>3. Goto(s, "201") \/ Goto(s, "200") \/ Goto(s, "setActive")
    BY <1>8, <2>2 DEF AfterSAdd
  <2>4. SerialOK(req[s])'
    BY <1>0, <2>3, GotoElsewhere
  <2> QED
    BY <1>1, <2>1, <2>4
<1>9. ASSUME NEW s \in Slots, AfterSRem(s) \/ AfterSetActive(s) \/ AfterPublish(s)
      PROVE  SerialInv' /\ (Catalogue!Next \/ Listing' = Listing)
  <2>1. Executes(s) /\ created' = created
    BY <1>9 DEF AfterSRem, AfterSetActive, AfterPublish, SRem, SetActive, Publish,
       Executes, Effect, At, Commands
  <2>2. Goto(s, "204") \/ Goto(s, "404") \/ Goto(s, "publish") \/ Goto(s, "202")
    BY <1>9 DEF AfterSRem, AfterSetActive, AfterPublish
  <2>3. SerialOK(req[s])'
    BY <1>0, <2>2, GotoElsewhere
  <2> QED
    BY <1>1, <2>1, <2>3
<1>10. ASSUME NEW s \in Slots,
             \/ AfterSet(s) \/ AfterGet(s) \/ AfterDel(s)
             \/ AfterSMembers(s) \/ AfterLookup(s) \/ AfterDrop(s)
      PROVE  SerialInv' /\ (Catalogue!Next \/ Listing' = Listing)
  <2>1. Executes(s) /\ created' = created
    BY <1>10 DEF AfterSet, AfterGet, AfterDel, AfterSMembers, AfterLookup, AfterDrop,
       Set, Del, SRem, Reads, Executes, Effect, At, Commands
  <2>2. SerialOK(req[s])'
    BY <1>10, SetOK, GetOK, DelOK, ListOKs
  <2> QED
    BY <1>1, <2>1, <2>2
<1> QED
  BY <1>3, <1>4, <1>5, <1>6, <1>7, <1>8, <1>9, <1>10 DEF Next, Step, Begins

LEMMA SerialInit == Init => SerialInv /\ Catalogue!Init
<1> SUFFICES ASSUME Init PROVE SerialInv /\ Catalogue!Init
  OBVIOUS
<1>1. \A s \in Slots : SerialOK(req[s])
  BY BlankOK DEF Init, SerialOK
<1>2. Known = {} /\ index = {}
  BY DEF Init, Known
<1>3. Catalogue!Init
  BY <1>2 DEF Catalogue!Init
<1> QED
  BY <1>1, <1>2, <1>3 DEF SerialInv, KnownIsListed

\* One request at a time, with any number of failed commands and crashes between
\* its commands, implements the catalogue: an operation takes effect with its
\* SET, its SADD or its DEL, or not at all, and nothing else is visible.
THEOREM CatalogueCorrect ==
  ASSUME Serial PROVE Spec => CatalogueSpec
<1>1. IInv /\ SerialInv /\ [Next]_vars => SerialInv'
  BY SerialStep
<1>2. IInv /\ SerialInv /\ [Next]_vars => Catalogue!Next \/ Listing' = Listing
  BY SerialStep
<1>3. IInv /\ SerialInv /\ [Next]_vars
        => [Catalogue!Next]_([p \in {q \in index : Exists(q)} |-> record[p]])
  BY <1>2 DEF Listing
<1> QED
  BY <1>1, <1>3, SerialInit, Invariance, PTL DEF Spec, CatalogueSpec, Catalogue!Spec

-----------------------------------------------------------------------------
(* Activations.                                                            *)

\* Which commands an operation comes to.
RoleOK(r) == /\ r.op = "activate" => r.dev \in Devices
             /\ r.step \in {"setActive", "publish"} => r.op = "activate"
             /\ r.step = "del" => r.op = "delete"

RolesOK == \A s \in Slots : RoleOK(req[s])

\* Once it has recorded the active pattern, a lone activation finds it there.
AloneOK ==
  \A s \in alone :
    /\ s \in Slots /\ Activating(req[s])
    /\ \A t \in Slots : t # s /\ Activating(req[t]) => req[t].dev # req[s].dev
    /\ At(s, "publish") => active[req[s].dev] = req[s].pid

\* What an activation without another writer has saved is what is stored.
SoleOK ==
  \A s \in sole :
    /\ s \in Slots /\ Activating(req[s])
    /\ \A t \in Slots : t # s /\ Writing(req[t]) => req[t].pid # req[s].pid
    /\ req[s].step \in {"sadd", "setActive", "publish"} => record[req[s].pid] = req[s].rec

SettledOK ==
  \A d \in settled :
    /\ d \in Devices /\ active[d] \in Patterns /\ retained[d].pid = active[d]
    /\ \A t \in Slots : Activating(req[t]) => req[t].dev # d

CurrentOK ==
  \A d \in current :
    /\ d \in settled /\ retained[d] = Latest(active[d])
    /\ \A t \in Slots : Writing(req[t]) => req[t].pid # active[d]

ObsInv == RolesOK /\ AloneOK /\ SoleOK /\ SettledOK /\ CurrentOK

\* A command writes the record of a request that counts as writing it, and the
\* active pattern and the retained message of one that activates.
Stores(s) ==
  /\ \A p \in Patterns : record'[p] = record[p] \/ (Writing(req[s]) /\ p = req[s].pid)
  /\ \A d \in Devices : \/ active'[d] = active[d] /\ retained'[d] = retained[d]
                        \/ Activating(req[s]) /\ d = req[s].dev

\* What the observer relies on in a step of slot s.
Proceeds(s) ==
  /\ \A t \in Slots : t # s => req'[t] = req[t]
  /\ RoleOK(req'[s])
  /\ Underway(req[s]) =>
       /\ req'[s].op = req[s].op
       /\ req[s].op # "list" => req'[s].pid = req[s].pid /\ req'[s].dev = req[s].dev
  /\ req'[s].step \in {"sadd", "setActive", "publish"} =>
       /\ Underway(req[s]) /\ req[s].pid \in Patterns /\ req'[s].rec = req[s].rec
       /\ \/ record'[req[s].pid] = req[s].rec
          \/ record' = record /\ req[s].step \in {"sadd", "setActive"}
  /\ req'[s].step = "publish" =>
       At(s, "setActive") /\ active'[req[s].dev] = req[s].pid
  /\ At(s, "publish") /\ req'[s].step = "202" =>
       /\ UNCHANGED <<record, active>>
       /\ retained'[req[s].dev] = [pid |-> req[s].pid, version |-> req[s].rec.version,
                                   content |-> req[s].rec.content]

LEMMA CommandStores ==
  ASSUME IInv, RolesOK, NEW s \in Slots, Executes(s)
  PROVE  Stores(s)
<1>0. /\ TypeOK /\ RequestOK(req[s]) /\ RoleOK(req[s]) /\ Underway(req[s])
  BY DEF IInv, Requests, RolesOK, Executes, Underway
<1>1. CASE UNCHANGED <<record, active, retained>>
  BY <1>1 DEF Stores
<1>2. CASE Set(s)
  <2>1. Writing(req[s])
    BY <1>0, <1>2 DEF Set, At, RequestOK, Writing
  <2> QED
    BY <1>0, <1>2, <2>1 DEF Set, Stores, TypeOK
<1>3. CASE Del(s)
  <2>1. Writing(req[s])
    BY <1>0, <1>3 DEF Del, At, RoleOK, Writing
  <2> QED
    BY <1>0, <1>3, <2>1 DEF Del, Stores, TypeOK
<1>4. CASE SetActive(s)
  <2>1. Activating(req[s])
    BY <1>0, <1>4 DEF SetActive, At, RoleOK, Activating
  <2> QED
    BY <1>0, <1>4, <2>1 DEF SetActive, Stores, TypeOK
<1>5. CASE Publish(s)
  <2>1. Activating(req[s])
    BY <1>0, <1>5 DEF Publish, At, RoleOK, Activating
  <2> QED
    BY <1>0, <1>5, <2>1 DEF Publish, Stores, TypeOK
<1>6. CASE SAdd(s) \/ SRem(s) \/ Reads(s) \/ UNCHANGED effects
  BY <1>1, <1>6 DEF SAdd, SRem, Reads, effects, store
<1> QED
  BY <1>2, <1>3, <1>4, <1>5, <1>6 DEF Executes, Effect

\* A step that only moves the request on, to where nothing is asked of it.
LEMMA GotoProceeds ==
  ASSUME IInv, RolesOK, NEW s \in Slots, NEW x, Goto(s, x),
         x \notin {"sadd", "setActive", "publish", "del", "202"}
  PROVE  Proceeds(s)
<1>0. TypeOK /\ RoleOK(req[s])
  BY DEF IInv, RolesOK
<1>1. /\ req'[s].step = x /\ req'[s].op = req[s].op /\ req'[s].pid = req[s].pid
      /\ req'[s].dev = req[s].dev
  BY <1>0, GotoMoves
<1>2. \A t \in Slots : t # s => req'[t] = req[t]
  BY <1>0 DEF Goto, TypeOK
<1>3. RoleOK(req'[s])
  BY <1>0, <1>1 DEF RoleOK
<1> QED
  BY <1>1, <1>2, <1>3 DEF Proceeds

\* The same of a step to any other record.
LEMMA BecomesProceeds ==
  ASSUME IInv, NEW s \in Slots, NEW r, req' = [req EXCEPT ![s] = r], RoleOK(r),
         r.step \notin {"sadd", "setActive", "publish", "202"},
         Underway(req[s]) =>
           /\ r.op = req[s].op
           /\ req[s].op # "list" => r.pid = req[s].pid /\ r.dev = req[s].dev
  PROVE  Proceeds(s)
<1>1. req'[s] = r /\ \A t \in Slots : t # s => req'[t] = req[t]
  BY DEF IInv, TypeOK
<1> QED
  BY <1>1 DEF Proceeds

LEMMA SaveProceeds ==
  ASSUME IInv, RolesOK, NEW s \in Slots, AfterSet(s) \/ AfterSAdd(s) \/ AfterSetActive(s)
  PROVE  Proceeds(s)
<1>0. /\ TypeOK /\ RequestOK(req[s]) /\ RoleOK(req[s]) /\ req[s] \in Request
      /\ record \in [Patterns -> Record] /\ active \in [Devices -> Patterns \cup {None}]
  BY DEF IInv, Requests, RolesOK, TypeOK
<1>1. req[s].step \in {"set", "sadd", "setActive"}
  BY DEF AfterSet, AfterSAdd, AfterSetActive, Set, SAdd, SetActive, At
<1>2. /\ Underway(req[s]) /\ req[s].pid \in Patterns
      /\ req[s].op \in {"create", "update", "activate"}
  BY <1>0, <1>1 DEF Underway, Commands, RequestOK, RoleOK
<1>3. PICK x : /\ Goto(s, x)
               /\ \/ x = "sadd" /\ Set(s)
                  \/ x = "setActive" /\ SAdd(s) /\ req[s].op = "activate"
                  \/ x = "publish" /\ SetActive(s) /\ req[s].op = "activate"
                  \/ x \in {"200", "201"}
                  \/ x = "202" /\ SetActive(s)
  BY <1>0, <1>2 DEF AfterSet, AfterSAdd, AfterSetActive, RoleOK, SetActive, At
<1>4. /\ req'[s].step = x /\ req'[s].op = req[s].op /\ req'[s].pid = req[s].pid
      /\ req'[s].dev = req[s].dev
  BY <1>0, <1>3, GotoMoves
<1>5. req'[s].rec = req[s].rec /\ \A t \in Slots : t # s => req'[t] = req[t]
  <2>1. req' = [req EXCEPT ![s].step = x] /\ req \in [Slots -> Request]
    BY <1>0, <1>3 DEF Goto, TypeOK
  <2>2. req'[s] = [req[s] EXCEPT !.step = x]
    BY <2>1
  <2> QED
    BY <1>0, <2>1, <2>2 DEF Request
<1>6. RoleOK(req'[s])
  BY <1>0, <1>3, <1>4 DEF RoleOK
<1>7. /\ x = "sadd" => record'[req[s].pid] = req[s].rec
      /\ x = "setActive" => record' = record /\ At(s, "sadd")
      /\ x = "publish" => /\ record' = record /\ At(s, "setActive")
                          /\ active'[req[s].dev] = req[s].pid
      /\ ~At(s, "publish")
  BY <1>0, <1>1, <1>2, <1>3 DEF Set, SAdd, SetActive, At, RoleOK
<1>8. req'[s].step \in {"sadd", "setActive", "publish"} =>
        \/ record'[req[s].pid] = req[s].rec
        \/ record' = record /\ req[s].step \in {"sadd", "setActive"}
  BY <1>3, <1>4, <1>7 DEF At
<1> QED
  BY <1>2, <1>4, <1>5, <1>6, <1>7, <1>8 DEF Proceeds

LEMMA PublishProceeds ==
  ASSUME IInv, RolesOK, NEW s \in Slots, AfterPublish(s)
  PROVE  Proceeds(s)
<1>0. /\ TypeOK /\ RoleOK(req[s]) /\ At(s, "publish") /\ Goto(s, "202") /\ Publish(s)
      /\ retained \in [Devices -> Desired]
  BY DEF IInv, RolesOK, TypeOK, AfterPublish, Publish
<1>1. /\ req'[s].step = "202" /\ req'[s].op = req[s].op /\ req'[s].pid = req[s].pid
      /\ req'[s].dev = req[s].dev
  BY <1>0, GotoMoves
<1>2. \A t \in Slots : t # s => req'[t] = req[t]
  BY <1>0 DEF Goto, TypeOK
<1>3. RoleOK(req'[s]) /\ req[s].dev \in Devices
  BY <1>0, <1>1 DEF RoleOK, At
<1>4. /\ UNCHANGED <<record, active>>
      /\ retained'[req[s].dev] = [pid |-> req[s].pid, version |-> req[s].rec.version,
                                  content |-> req[s].rec.content]
  BY <1>0, <1>3 DEF Publish
<1> QED
  BY <1>1, <1>2, <1>3, <1>4 DEF Proceeds

LEMMA GetProceeds ==
  ASSUME IInv, RolesOK, NEW s \in Slots, AfterGet(s) \/ AfterDel(s)
  PROVE  Proceeds(s)
<1>0. RoleOK(req[s]) /\ req[s] \in Request
  BY DEF IInv, RolesOK, TypeOK
<1>1. CASE AfterGet(s) /\ ~Exists(req[s].pid)
  BY <1>1, GotoProceeds DEF AfterGet
<1>2. ASSUME NEW r, req' = [req EXCEPT ![s] = r], r.step \in {"set", "srem"},
             r.op = req[s].op, r.pid = req[s].pid, r.dev = req[s].dev
      PROVE  Proceeds(s)
  <2>1. RoleOK(r)
    BY <1>0, <1>2 DEF RoleOK
  <2> QED
    BY <1>2, <2>1, BecomesProceeds
<1>3. CASE AfterGet(s) /\ Exists(req[s].pid)
  <2>1. PICK new, r : /\ req' = [req EXCEPT ![s].step = "set", ![s].rec = new]
                      /\ r = [req[s] EXCEPT !.step = "set", !.rec = new]
    BY <1>3 DEF AfterGet
  <2>2. /\ r.step = "set" /\ r.op = req[s].op /\ r.pid = req[s].pid
        /\ r.dev = req[s].dev
    BY <1>0, <2>1 DEF Request
  <2>3. req' = [req EXCEPT ![s] = r]
    BY <2>1
  <2> QED
    BY <1>2, <2>2, <2>3
<1>4. CASE AfterDel(s)
  <2>1. PICK e, r : /\ req' = [req EXCEPT ![s].step = "srem", ![s].existed = e]
                    /\ r = [req[s] EXCEPT !.step = "srem", !.existed = e]
    BY <1>4 DEF AfterDel
  <2>2. /\ r.step = "srem" /\ r.op = req[s].op /\ r.pid = req[s].pid
        /\ r.dev = req[s].dev
    BY <1>0, <2>1 DEF Request
  <2>3. req' = [req EXCEPT ![s] = r]
    BY <2>1
  <2> QED
    BY <1>2, <2>2, <2>3
<1> QED
  BY <1>1, <1>3, <1>4

LEMMA ListProceeds ==
  ASSUME IInv, RolesOK, NEW s \in Slots,
         AfterSMembers(s) \/ AfterLookup(s) \/ AfterDrop(s)
  PROVE  Proceeds(s)
<1>0. TypeOK /\ RequestOK(req[s]) /\ req[s] \in Request
  BY DEF IInv, Requests, TypeOK
<1>1. req[s].op = "list"
  BY <1>0 DEF AfterSMembers, AfterLookup, AfterDrop, At, RequestOK
<1>2. ASSUME NEW q \in Request, q.op = "list", LookupNext(s, q)
      PROVE  Proceeds(s)
  <2>1. PICK r : Became(s, r) /\ r.op = "list" /\ r.step \in {"200", "lookup"}
    BY <1>0, <1>2, NextLookup
  <2> QED
    BY <1>1, <2>1, BecomesProceeds DEF Became, RoleOK
<1>3. CASE AfterSMembers(s)
  <2>1. PICK q : q = [req[s] EXCEPT !.ids = index] /\ LookupNext(s, q)
    BY <1>3 DEF AfterSMembers
  <2>2. q \in Request /\ q.op = "list"
    BY <1>0, <1>1, <2>1 DEF Request, TypeOK
  <2> QED
    BY <1>2, <2>1, <2>2
<1>4. CASE AfterDrop(s)
  BY <1>0, <1>1, <1>2, <1>4 DEF AfterDrop
<1>5. CASE AfterLookup(s) /\ Exists(req[s].pid)
  <2>1. PICK q : /\ q \in {req[s], [req[s] EXCEPT !.found = @ \cup {req[s].pid}]}
                 /\ LookupNext(s, q)
    BY <1>5 DEF AfterLookup
  <2>2. req[s].pid \in Patterns
    BY <1>0, <1>5 DEF AfterLookup, At, RequestOK, Commands
  <2>3. q \in Request /\ q.op = "list"
    BY <1>0, <1>1, <2>1, <2>2 DEF Request
  <2> QED
    BY <1>2, <2>1, <2>3
<1>6. CASE AfterLookup(s) /\ ~Exists(req[s].pid)
  BY <1>6, GotoProceeds DEF AfterLookup
<1> QED
  BY <1>3, <1>4, <1>5, <1>6

LEMMA BeginProceeds ==
  ASSUME IInv, NEW s \in Slots, Begins(s)
  PROVE  Proceeds(s) /\ UNCHANGED store
<1>1. PICK r : Begin(s, r) /\ Beginning(r)
  BY BeginsWith
<1>2. RoleOK(r) /\ r.step \notin {"sadd", "setActive", "publish", "202"}
  BY <1>1 DEF Beginning, RoleOK
<1>3. ~Underway(req[s])
  BY <1>1 DEF Begin, At, Underway, Commands
<1> QED
  BY <1>1, <1>2, <1>3, BecomesProceeds DEF Begin

\* Every step but a crash is the step of one slot.
LEMMA NextProceeds ==
  ASSUME IInv, RolesOK, Next, ~Crash
  PROVE  \E s \in Slots : Proceeds(s) /\ Stores(s)
<1>1. PICK s \in Slots : Begins(s) \/ Step(s) \/ RedisFails(s) \/ PublishFails(s)
  BY DEF Next, Begins
<1>2. CASE UNCHANGED store /\ Proceeds(s)
  BY <1>2 DEF store, Stores
<1>3. CASE Begins(s)
  BY <1>2, <1>3, BeginProceeds
<1>4. CASE Respond(s)
  <2>1. req' = [req EXCEPT ![s] = Blank] /\ UNCHANGED store /\ ~Underway(req[s])
    BY <1>4, CommandsAndReplies DEF Respond, At, Underway
  <2> QED
    BY <1>2, <2>1, BlankOK, BecomesProceeds DEF RoleOK
<1>5. CASE RedisFails(s) \/ PublishFails(s) \/ (Step(s) /\ ~Respond(s))
  <2>1. Executes(s)
    BY <1>5 DEF RedisFails, PublishFails, Step, AfterSet, AfterSAdd, AfterGet, AfterDel,
       AfterSRem, AfterSetActive, AfterPublish, AfterSMembers, AfterLookup, AfterDrop,
       Executes, Effect, At, Set, SAdd, Del, SRem, SetActive, Publish, Reads, Commands
  <2>2. ASSUME RedisFails(s) \/ PublishFails(s) \/ AfterSRem(s)
        PROVE  Proceeds(s)
    <3>1. PICK x \in {"500", "202 push failed", "204", "404"} : Goto(s, x)
      BY <2>2 DEF RedisFails, PublishFails, AfterSRem
    <3> QED
      BY <3>1, GotoProceeds
  <2>3. Proceeds(s)
    BY <1>5, <2>2, SaveProceeds, PublishProceeds, GetProceeds, ListProceeds DEF Step
  <2> QED
    BY <2>1, <2>3, CommandStores
<1> QED
  BY <1>1, <1>3, <1>4, <1>5

LEMMA SettledStays ==
  ASSUME IInv, ObsInv, NEW s \in Slots, Proceeds(s), Stores(s), Observe
  PROVE  SettledOK' /\ CurrentOK'
<1>0. /\ TypeOK /\ AloneOK /\ SoleOK /\ SettledOK /\ CurrentOK /\ RolesOK
  BY DEF IInv, ObsInv
<1>1. \A t \in Slots : t # s => req'[t] = req[t]
  BY DEF Proceeds
<1>2. ASSUME NEW u \in Pushed
      PROVE  /\ u = s /\ s \in alone /\ ~Underway(req'[s])
             /\ req[s].dev \in Devices /\ req[s].pid \in Patterns
             /\ active'[req[s].dev] = req[s].pid /\ UNCHANGED record
             /\ retained'[req[s].dev] = [pid |-> req[s].pid, version |-> req[s].rec.version,
                                         content |-> req[s].rec.content]
  <2>1. u \in alone /\ u \in Slots /\ At(u, "publish") /\ req'[u].step = "202"
    BY <1>0, <1>2 DEF Pushed, AloneOK
  <2>2. u = s
    BY <1>1, <2>1 DEF At
  <2>3. RequestOK(req[s]) /\ RoleOK(req[s])
    BY <1>0 DEF IInv, Requests, RolesOK
  <2>4. req[s].dev \in Devices /\ req[s].pid \in Patterns
    BY <2>1, <2>2, <2>3 DEF At, RequestOK, RoleOK, Commands
  <2>5. active[req[s].dev] = req[s].pid
    BY <1>0, <2>1, <2>2 DEF AloneOK
  <2>6. ~Underway(req'[s])
    BY <2>1, <2>2 DEF Underway, Commands
  <2> QED
    BY <2>1, <2>2, <2>4, <2>5, <2>6 DEF Proceeds
<1>3. ASSUME NEW d \in settled
      PROVE  /\ d \in Devices /\ active'[d] = active[d] /\ retained'[d] = retained[d]
  BY <1>0, <1>3 DEF SettledOK, Stores
<1>4. ASSUME NEW d \in settled'
      PROVE  /\ d \in Devices /\ active'[d] \in Patterns
             /\ retained'[d].pid = active'[d]
             /\ \A t \in Slots : Activating(req'[t]) => req'[t].dev # d
  <2>1. CASE d \in settled /\ \A t \in Slots : Activating(req'[t]) => req'[t].dev # d
    BY <1>0, <1>3, <2>1 DEF SettledOK
  <2>2. CASE \E u \in Pushed : d = req[u].dev
    <3>1. s \in Pushed /\ d = req[s].dev
      BY <1>2, <2>2
    <3>2. \A t \in Slots : Activating(req'[t]) => t # s /\ Activating(req[t])
      BY <1>1, <1>2, <3>1 DEF Activating
    <3>3. \A t \in Slots : Activating(req'[t]) => req'[t].dev # d
      BY <1>0, <1>1, <1>2, <3>1, <3>2 DEF AloneOK
    <3> QED
      BY <1>2, <3>1, <3>3
  <2> QED
    BY <1>4, <2>1, <2>2 DEF Observe
<1>5. SettledOK'
  BY <1>4 DEF SettledOK, Activating, Underway
<1>6. ASSUME NEW d \in current'
      PROVE  /\ d \in settled' /\ retained'[d] = Latest(active[d])'
             /\ \A t \in Slots : Writing(req'[t]) => req'[t].pid # active'[d]
  <2>1. CASE d \in current /\ \A t \in Slots :
               /\ Activating(req'[t]) => req'[t].dev # d
               /\ Writing(req'[t]) => req'[t].pid # retained[d].pid
    <3>1. /\ d \in settled /\ retained[d] = Latest(active[d]) /\ active[d] \in Patterns
          /\ retained[d].pid = active[d]
          /\ ~(Writing(req[s]) /\ active[d] = req[s].pid)
      BY <1>0, <2>1 DEF CurrentOK, SettledOK
    <3>2. record'[active[d]] = record[active[d]]
      BY <3>1 DEF Stores
    <3>3. d \in settled'
      BY <2>1, <3>1 DEF Observe
    <3> QED
      BY <1>3, <2>1, <3>1, <3>2, <3>3 DEF Latest
  <2>2. CASE \E u \in Pushed \cap sole : d = req[u].dev
    <3>1. s \in Pushed /\ s \in sole /\ d = req[s].dev
      BY <1>2, <2>2
    <3>2. d \in settled'
      BY <3>1 DEF Observe
    <3>3. record[req[s].pid] = req[s].rec
      BY <1>0, <3>1 DEF SoleOK, Pushed, At
    <3>4. \A t \in Slots : Writing(req'[t]) => t # s /\ Writing(req[t])
      BY <1>1, <1>2, <3>1 DEF Writing
    <3>5. \A t \in Slots : Writing(req'[t]) => req'[t].pid # active'[d]
      BY <1>0, <1>1, <1>2, <3>1, <3>4 DEF SoleOK
    <3> QED
      BY <1>2, <3>1, <3>2, <3>3, <3>5 DEF Latest
  <2> QED
    BY <1>6, <2>1, <2>2 DEF Observe
<1>7. CurrentOK'
  BY <1>6 DEF CurrentOK, Writing, Underway
<1> QED
  BY <1>5, <1>7

\* An activation that is still without another one, or another writer, was so
\* before the step, so that nobody else has touched what it recorded.
LEMMA LoneStays ==
  ASSUME IInv, ObsInv, NEW s \in Slots, Proceeds(s), Stores(s), Observe
  PROVE  AloneOK' /\ SoleOK'
<1>0. /\ TypeOK /\ AloneOK /\ SoleOK /\ RolesOK
  BY DEF IInv, ObsInv
<1>1. \A t \in Slots : t # s => req'[t] = req[t]
  BY DEF Proceeds
<1>2. ASSUME NEW u \in alone', At(u, "publish")'
      PROVE  active'[req'[u].dev] = req'[u].pid
  <2>1. u \in Slots /\ Activating(req'[u]) /\ Continues(u, alone) /\ req'[u].step = "publish"
    BY <1>2 DEF Observe, At
  <2>2. CASE u = s
    <3>1. At(s, "setActive") /\ active'[req[s].dev] = req[s].pid
      BY <2>1, <2>2 DEF Proceeds
    <3>2. Underway(req[s]) /\ req[s].op # "list"
      BY <2>1, <2>2, <3>1 DEF At, Underway, Commands, Proceeds, Activating
    <3> QED
      BY <2>2, <3>1, <3>2 DEF Proceeds
  <2>3. CASE u # s
    <3>1. req'[u] = req[u] /\ Activating(req[u]) /\ u \in alone /\ At(u, "publish")
      BY <1>1, <2>1, <2>3 DEF Continues, Activating, Underway, At
    <3>2. /\ active[req[u].dev] = req[u].pid
          /\ ~(Activating(req[s]) /\ req[u].dev = req[s].dev)
      BY <1>0, <2>3, <3>1 DEF AloneOK
    <3>3. req[u].dev \in Devices
      BY <1>0, <2>1, <3>1 DEF RolesOK, RoleOK, Activating
    <3> QED
      BY <3>1, <3>2, <3>3 DEF Stores
  <2> QED
    BY <2>2, <2>3
<1>3. \A u \in alone' :
        /\ u \in Slots /\ Activating(req'[u])
        /\ \A t \in Slots : t # u /\ Activating(req'[t]) => req'[t].dev # req'[u].dev
  BY DEF Observe
<1>4. AloneOK'
  BY <1>2, <1>3 DEF AloneOK, Activating, Underway
<1>5. ASSUME NEW u \in sole', req'[u].step \in {"sadd", "setActive", "publish"}
      PROVE  record'[req'[u].pid] = req'[u].rec
  <2>1. u \in Slots /\ Activating(req'[u]) /\ Continues(u, sole)
    BY <1>5 DEF Observe
  <2>2. CASE u = s
    <3>1. /\ Underway(req[s]) /\ req[s].op = "activate" /\ req'[s].pid = req[s].pid
          /\ req'[s].rec = req[s].rec /\ s \in sole
      BY <1>5, <2>1, <2>2 DEF Proceeds, Activating, Continues
    <3>2. \/ record'[req[s].pid] = req[s].rec
          \/ record' = record /\ req[s].step \in {"sadd", "setActive"}
      BY <1>5, <2>2 DEF Proceeds
    <3> QED
      BY <1>0, <2>2, <3>1, <3>2 DEF SoleOK
  <2>3. CASE u # s
    <3>1. req'[u] = req[u] /\ Activating(req[u]) /\ u \in sole
      BY <1>1, <2>1, <2>3 DEF Continues, Activating, Underway
    <3>2. /\ record[req[u].pid] = req[u].rec
          /\ ~(Writing(req[s]) /\ req[u].pid = req[s].pid)
      BY <1>0, <1>5, <2>3, <3>1 DEF SoleOK
    <3>3. req[u].pid \in Patterns
      BY <1>5, <2>1, <3>1 DEF IInv, Requests, RequestOK, Commands
    <3> QED
      BY <3>1, <3>2, <3>3 DEF Stores
  <2> QED
    BY <2>2, <2>3
<1>6. \A u \in sole' :
        /\ u \in Slots /\ Activating(req'[u])
        /\ \A t \in Slots : t # u /\ Writing(req'[t]) => req'[t].pid # req'[u].pid
  BY DEF Observe
<1>7. SoleOK'
  BY <1>5, <1>6 DEF SoleOK, Writing, Activating, Underway
<1> QED
  BY <1>4, <1>7

LEMMA ObserverStep ==
  ASSUME IInv, ObsInv, [Next /\ Observe]_<<vars, observed>>
  PROVE  ObsInv'
<1>0. RolesOK /\ AloneOK /\ SoleOK /\ SettledOK /\ CurrentOK
  BY DEF ObsInv
<1>1. CASE UNCHANGED <<vars, observed>>
  <2>1. UNCHANGED <<record, active, retained, req, alone, sole, settled, current>>
    BY <1>1 DEF vars, store, observed
  <2> QED
    BY <1>0, <2>1 DEF ObsInv, RolesOK, RoleOK, AloneOK, SoleOK, SettledOK, CurrentOK,
       Activating, Writing, Underway, At, Latest
<1>2. CASE Crash /\ Observe
  <2>1. /\ UNCHANGED <<record, active, retained>>
        /\ \A t \in Slots : req'[t].op = "none" /\ req'[t].step = "idle"
    BY <1>2, BlankOK DEF Crash, effects, store
  <2>2. \A t \in Slots : ~Underway(req'[t]) /\ RoleOK(req'[t])
    BY <2>1 DEF Underway, Commands, RoleOK
  <2>3. alone' = {} /\ sole' = {} /\ Pushed = {}
    BY <1>0, <1>2, <2>1, <2>2 DEF Observe, Activating, Pushed, AloneOK
  <2>4. settled' = settled /\ current' = current
    BY <1>2, <2>2, <2>3 DEF Observe, Activating, Writing
  <2>5. RolesOK'
    BY <2>2 DEF RolesOK, RoleOK
  <2>6. AloneOK' /\ SoleOK'
    BY <2>3 DEF AloneOK, SoleOK
  <2>7. SettledOK'
    BY <1>0, <2>1, <2>2, <2>4 DEF SettledOK, Activating, Underway
  <2>8. CurrentOK'
    BY <1>0, <2>1, <2>2, <2>4 DEF CurrentOK, Latest, Writing, Underway
  <2> QED
    BY <2>5, <2>6, <2>7, <2>8 DEF ObsInv
<1>3. CASE Next /\ ~Crash /\ Observe
  <2>1. PICK s \in Slots : Proceeds(s) /\ Stores(s)
    BY <1>0, <1>3, NextProceeds
  <2>2. AloneOK' /\ SoleOK' /\ SettledOK' /\ CurrentOK'
    BY <1>3, <2>1, LoneStays, SettledStays
  <2>3. RolesOK'
    BY <1>0, <2>1 DEF Proceeds, RolesOK, RoleOK
  <2> QED
    BY <2>2, <2>3 DEF ObsInv
<1> QED
  BY <1>1, <1>2, <1>3

\* Beside any number of other requests, failures and crashes, an activation that
\* was pushed without another one of its device lasts until the next is asked
\* for, and its message is up to date until its pattern is asked to be written.
THEOREM ActivationCorrect == ObservedSpec => []ActivationSettles
<1>1. Init /\ ObserverInit => ObsInv
  BY BlankOK DEF Init, ObserverInit, ObsInv, RolesOK, RoleOK, AloneOK, SoleOK,
     SettledOK, CurrentOK
<1>2. IInv /\ [Next /\ Observe]_<<vars, observed>> => IInv'
  <2>1. [Next /\ Observe]_<<vars, observed>> => [Next]_vars
    OBVIOUS
  <2> QED
    BY <2>1, Inductive
<1>3. IInv /\ ObsInv /\ [Next /\ Observe]_<<vars, observed>> => ObsInv'
  BY ObserverStep
<1>4. ObsInv => ActivationSettles
  BY DEF ObsInv, SettledOK, CurrentOK, ActivationSettles
<1> QED
  BY <1>1, <1>2, <1>3, <1>4, InitIInv, PTL DEF ObservedSpec
=============================================================================
