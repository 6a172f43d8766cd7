------------------------------ MODULE Patterns ------------------------------
(***************************************************************************)
(* The pattern endpoints (api/patterns.py) over storage/patterns.py and    *)
(* the retained desired-pattern message (mqtt/publisher.py).               *)
(*                                                                         *)
(* FastAPI serves requests concurrently on one event loop: a slot holds a  *)
(* request, an action is the code between two of its awaits, and the steps *)
(* of different slots interleave.  The step of a request is the Redis      *)
(* command or the publish it is suspended at, or its reply.                *)
(***************************************************************************)
EXTENDS Naturals

CONSTANTS Slots,        \* requests served at the same time
          Patterns,     \* pattern identifiers
          Devices,      \* device identifiers
          None,         \* no pattern, no device
          Flags,        \* the values of syncNow and activeOnly in requests
          MaxRequests,  \* bound: requests
          MaxFaults     \* bound: Redis errors, failed publishes, crashes

ASSUME ConstantsOK == /\ None \notin Patterns /\ None \notin Devices
                      /\ Flags \subseteq BOOLEAN
                      /\ MaxRequests \in Nat /\ MaxFaults \in Nat

VARIABLES
  record,    \* pattern:{id}: the stored record
  index,     \* the set of ids kept under the index key
  active,    \* active_pattern:{deviceId}: the id, or None
  retained,  \* the retained config/pattern/desired message of each device
  req,       \* the request in each slot
  requests,  \* how many requests have begun; numbers the contents they bring
  faults,    \* faults so far
  used,      \* ids given out by new_pattern_id
  created,   \* (history) ids whose creation was answered 201
  removed,   \* (history) ids whose record a DEL removed
  overlapped \* (history) those removed while another request was saving them

store   == <<record, index, active, retained>>
history == <<created, removed, overlapped>>
vars    == <<store, req, requests, faults, used, history>>

Record == [version : Nat, isActive : BOOLEAN, content : Nat]
Absent == [version |-> 0, isActive |-> FALSE, content |-> 0]
Exists(p) == record[p].version # 0

Desired == [pid : Patterns \cup {None}, version : Nat, content : Nat]
Nothing == [pid |-> None, version |-> 0, content |-> 0]

Commands == {"set", "sadd", "get", "del", "srem", "smembers", "lookup",
             "drop", "setActive", "publish"}
Replies  == {"200", "201", "202", "202 push failed", "204", "404", "500"}

Request == [op      : {"none", "create", "update", "activate", "delete", "list"},
            step    : {"idle"} \cup Commands \cup Replies,
            pid     : Patterns \cup {None},  \* list: the id being looked up
            dev     : Devices \cup {None},   \* activate: deviceId
            flag    : BOOLEAN,               \* syncNow or activeOnly
            rec     : Record,                \* the record to save
            existed : BOOLEAN,               \* delete: DEL removed a record
            ids     : SUBSET Patterns,       \* list: ids still to look up
            found   : SUBSET Patterns,       \* list: the result so far
            due     : SUBSET Patterns]       \* list: (history) created before

Blank == [op |-> "none", step |-> "idle", pid |-> None, dev |-> None,
          flag |-> FALSE, rec |-> Absent, existed |-> FALSE, ids |-> {},
          found |-> {}, due |-> {}]

At(s, step) == req[s].step = step
Goto(s, step) == req' = [req EXCEPT ![s].step = step]

Init ==
  /\ record = [p \in Patterns |-> Absent]
  /\ index = {}
  /\ active = [d \in Devices |-> None]
  /\ retained = [d \in Devices |-> Nothing]
  /\ req = [s \in Slots |-> Blank]
  /\ requests = 0 /\ faults = 0
  /\ used = {} /\ created = {} /\ removed = {} /\ overlapped = {}

-----------------------------------------------------------------------------
(* Requests arrive.                                                        *)

\* The ids a client can have: from a 201 or from a listing.
Known == created \cup index \cup removed

Begin(s, r) == /\ At(s, "idle") /\ requests < MaxRequests
               /\ requests' = requests + 1
               /\ req' = [req EXCEPT ![s] = r]
               /\ UNCHANGED <<store, faults, history>>

\* new_pattern_id: eight hex digits of a uuid4, taken to be fresh
BeginCreate(s) == \E p \in Patterns \ used :
  /\ used' = used \cup {p}
  /\ Begin(s, [Blank EXCEPT !.op = "create", !.step = "set", !.pid = p,
                 !.rec = [version |-> 1, isActive |-> FALSE,
                          content |-> requests + 1]])

BeginUpdate(s) == \E p \in Known :
  /\ Begin(s, [Blank EXCEPT !.op = "update", !.step = "get", !.pid = p,
                            !.rec.content = requests + 1])
  /\ UNCHANGED used

BeginActivate(s) == \E p \in Known, d \in Devices, f \in Flags :
  /\ Begin(s, [Blank EXCEPT !.op = "activate", !.step = "get", !.pid = p,
                            !.dev = d, !.flag = f])
  /\ UNCHANGED used

BeginDelete(s) == \E p \in Known :
  /\ Begin(s, [Blank EXCEPT !.op = "delete", !.step = "del", !.pid = p])
  /\ UNCHANGED used

BeginList(s) == \E f \in Flags :
  /\ Begin(s, [Blank EXCEPT !.op = "list", !.step = "smembers", !.flag = f,
                            !.due = created])
  /\ UNCHANGED used

-----------------------------------------------------------------------------
(* What each command does to Redis and to the broker.                      *)

effects == <<store, removed, overlapped>>

Set(s) == LET r == req[s] IN
  /\ At(s, "set")
  /\ record' = [record EXCEPT ![r.pid] = r.rec]
  /\ UNCHANGED <<index, active, retained, removed, overlapped>>

SAdd(s) == /\ At(s, "sadd")
           /\ index' = index \cup {req[s].pid}
           /\ UNCHANGED <<record, active, retained, removed, overlapped>>

Del(s) == LET p == req[s].pid IN
  /\ At(s, "del")
  /\ record' = [record EXCEPT ![p] = Absent]
  /\ removed' = IF Exists(p) THEN removed \cup {p} ELSE removed
  /\ overlapped' = IF \E t \in Slots : At(t, "set") /\ req[t].pid = p
                   THEN overlapped \cup {p} ELSE overlapped
  /\ UNCHANGED <<index, active, retained>>

SRem(s) == /\ At(s, "srem") \/ At(s, "drop")
           /\ index' = index \ {req[s].pid}
           /\ UNCHANGED <<record, active, retained, removed, overlapped>>

\* mutant: the arguments swapped
SetActiveSwapped(s) ==
  /\ At(s, "setActive")
  /\ active' = [active EXCEPT ![req[s].dev] = req[s].dev]
  /\ UNCHANGED <<record, index, retained, removed, overlapped>>

SetActive(s) ==
  /\ At(s, "setActive")
  /\ active' = [active EXCEPT ![req[s].dev] = req[s].pid]
  /\ UNCHANGED <<record, index, retained, removed, overlapped>>

Publish(s) == LET r == req[s] IN
  /\ At(s, "publish")
  /\ retained' = [retained EXCEPT ![r.dev] =
                    [pid |-> r.pid, version |-> r.rec.version,
                     content |-> r.rec.content]]
  /\ UNCHANGED <<record, index, active, removed, overlapped>>

Reads(s) == /\ \E c \in {"get", "smembers", "lookup"} : At(s, c)
            /\ UNCHANGED effects

Effect(s) == \/ Set(s) \/ SAdd(s) \/ Del(s) \/ SRem(s) \/ SetActive(s)
             \/ Publish(s) \/ Reads(s)

-----------------------------------------------------------------------------
(* The command's answer arrives and the request runs to its next await.    *)

quiet == <<requests, faults, used>>

\* save_pattern: SET the record, then add its id to the index
AfterSet(s) == /\ Set(s)
               /\ Goto(s, "sadd")
               /\ UNCHANGED <<created, quiet>>

\* mutant: activate_pattern pushes without recording the active pattern
AfterSAddNoSetActive(s) == LET r == req[s] IN
  /\ SAdd(s)
  /\ Goto(s, CASE r.op = "create"   -> "201"
               [] r.op = "update"   -> "200"
               [] r.op = "activate" -> "publish")
  /\ created' = IF r.op = "create" THEN created \cup {r.pid} ELSE created
  /\ UNCHANGED quiet

AfterSAdd(s) == LET r == req[s] IN
  /\ SAdd(s)
  /\ Goto(s, CASE r.op = "create"   -> "201"
               [] r.op = "update"   -> "200"
               [] r.op = "activate" -> "setActive")
  /\ created' = IF r.op = "create" THEN created \cup {r.pid} ELSE created
  /\ UNCHANGED quiet

\* mutant: an update resets isActive to its default
NewRecordInactive(r, old) ==
  IF r.op = "update"
  THEN [version |-> old.version + 1, isActive |-> FALSE,
        content |-> r.rec.content]
  ELSE [old EXCEPT !.isActive = TRUE]

\* update_pattern and activate_pattern build the new record from the one read.
NewRecord(r, old) ==
  IF r.op = "update"
  THEN [version |-> old.version + 1, isActive |-> old.isActive,
        content |-> r.rec.content]
  ELSE [old EXCEPT !.isActive = TRUE]

\* mutant: no 404 for a missing pattern
AfterGetUpsert(s) == LET r == req[s] IN
  /\ At(s, "get") /\ Reads(s)
  /\ req' = [req EXCEPT ![s].step = "set",
                        ![s].rec = NewRecord(r, record[r.pid])]
  /\ UNCHANGED <<created, quiet>>

AfterGet(s) == LET r == req[s] IN
  /\ At(s, "get") /\ Reads(s)
  /\ IF Exists(r.pid)
     THEN req' = [req EXCEPT ![s].step = "set",
                             ![s].rec = NewRecord(r, record[r.pid])]
     ELSE Goto(s, "404")
  /\ UNCHANGED <<created, quiet>>

AfterDel(s) == /\ Del(s)
               /\ req' = [req EXCEPT ![s].step = "srem",
                                     ![s].existed = Exists(req[s].pid)]
               /\ UNCHANGED <<created, quiet>>

AfterSRem(s) == /\ At(s, "srem") /\ SRem(s)
                /\ Goto(s, IF req[s].existed THEN "204" ELSE "404")
                /\ UNCHANGED <<created, quiet>>

AfterSetActive(s) == /\ SetActive(s)
                     /\ Goto(s, IF req[s].flag THEN "publish" ELSE "202")
                     /\ UNCHANGED <<created, quiet>>

AfterPublish(s) == /\ Publish(s)
                   /\ Goto(s, "202")
                   /\ UNCHANGED <<created, quiet>>

\* list_patterns: the next id, in no particular order, or the answer
LookupNext(s, r) ==
  IF r.ids = {}
  THEN req' = [req EXCEPT ![s] = [r EXCEPT !.step = "200", !.pid = None]]
  ELSE \E p \in r.ids :
         req' = [req EXCEPT ![s] = [r EXCEPT !.step = "lookup", !.pid = p,
                                             !.ids = @ \ {p}]]

AfterSMembers(s) == /\ At(s, "smembers") /\ Reads(s)
                    /\ LookupNext(s, [req[s] EXCEPT !.ids = index])
                    /\ UNCHANGED <<created, quiet>>

\* mutant: activeOnly removes the inactive patterns from the index
AfterLookupDropsInactive(s) == LET r == req[s] IN
  /\ At(s, "lookup") /\ Reads(s)
  /\ IF ~Exists(r.pid) \/ (r.flag /\ ~record[r.pid].isActive)
     THEN Goto(s, "drop")
     ELSE LookupNext(s, [r EXCEPT !.found = @ \cup {r.pid}])
  /\ UNCHANGED <<created, quiet>>

\* mutant: a missing record ends the listing
AfterLookupStops(s) == LET r == req[s] IN
  /\ At(s, "lookup") /\ Reads(s)
  /\ IF ~Exists(r.pid) THEN Goto(s, "200")
     ELSE LookupNext(s, [r EXCEPT !.found = @ \cup {r.pid}])
  /\ UNCHANGED <<created, quiet>>

\* A missing record is a stale index entry, to be removed from the index.
AfterLookup(s) == LET r == req[s] IN
  /\ At(s, "lookup") /\ Reads(s)
  /\ IF ~Exists(r.pid) THEN Goto(s, "drop")
     ELSE LookupNext(s, IF r.flag /\ ~record[r.pid].isActive THEN r
                        ELSE [r EXCEPT !.found = @ \cup {r.pid}])
  /\ UNCHANGED <<created, quiet>>

\* mutant: the missing id is looked up again
AfterDropRetries(s) == /\ At(s, "drop")
                       /\ UNCHANGED effects
                       /\ Goto(s, "lookup")
                       /\ UNCHANGED <<created, quiet>>

AfterDrop(s) == /\ At(s, "drop") /\ SRem(s)
                /\ LookupNext(s, req[s])
                /\ UNCHANGED <<created, quiet>>

Respond(s) == /\ \E c \in Replies : At(s, c)
              /\ req' = [req EXCEPT ![s] = Blank]
              /\ UNCHANGED <<store, history, quiet>>

Step(s) == \/ AfterSet(s) \/ AfterSAdd(s) \/ AfterGet(s) \/ AfterDel(s)
           \/ AfterSRem(s) \/ AfterSetActive(s) \/ AfterPublish(s)
           \/ AfterSMembers(s) \/ AfterLookup(s) \/ AfterDrop(s) \/ Respond(s)

-----------------------------------------------------------------------------
(* Failures.  A command that fails was executed or it was not.             *)

Fault == /\ faults < MaxFaults
         /\ faults' = faults + 1
         /\ UNCHANGED <<created, requests, used>>

\* An exception out of Redis: nothing is undone, the client gets a 500.
RedisFails(s) == /\ \E c \in Commands \ {"publish"} : At(s, c)
                 /\ UNCHANGED effects \/ Effect(s)
                 /\ Goto(s, "500")
                 /\ Fault

\* publish catches everything and returns False; the request goes on.
PublishFails(s) == /\ At(s, "publish")
                   /\ UNCHANGED effects \/ Effect(s)
                   /\ Goto(s, "202 push failed")
                   /\ Fault

Crash == /\ req' = [s \in Slots |-> Blank]
         /\ UNCHANGED effects
         /\ Fault

Next == \/ \E s \in Slots :
             \/ BeginCreate(s) \/ BeginUpdate(s) \/ BeginActivate(s)
             \/ BeginDelete(s) \/ BeginList(s)
             \/ Step(s) \/ RedisFails(s) \/ PublishFails(s)
        \/ Crash

Spec == Init /\ [][Next]_vars

\* The event loop resumes every request whose await is over.
FairSpec == Spec /\ \A s \in Slots : WF_vars(Step(s))

-----------------------------------------------------------------------------
(* Properties.                                                             *)

\* The shape of every variable.
TypeOK ==
  /\ record \in [Patterns -> Record]
  /\ index \subseteq Patterns
  /\ active \in [Devices -> Patterns \cup {None}]
  /\ retained \in [Devices -> Desired]
  /\ req \in [Slots -> Request]
  /\ requests \in Nat /\ faults \in Nat
  /\ used \subseteq Patterns /\ created \subseteq Patterns
  /\ removed \subseteq Patterns /\ overlapped \subseteq Patterns

\* A pattern whose creation was answered 201 keeps its record and its index
\* entry until some DELETE removes it: no concurrent save, listing (which
\* cleans the index up) or failure loses it.
UndeletedStaysListed ==
  \A p \in created \ removed : Exists(p) /\ p \in index

\* A listing contains every pattern created before it began and not deleted,
\* whatever runs beside it.
ListingComplete ==
  \A s \in Slots : At(s, "200") /\ req[s].op = "list" /\ ~req[s].flag
                     => req[s].due \ removed \subseteq req[s].found

\* A deleted pattern comes back only through a save that was already waiting
\* to write it when the DEL ran.
DeletedStaysDeleted == \A p \in removed \ overlapped : ~Exists(p)

\* Every request is answered.
RequestsComplete ==
  \A s \in Slots : (\E c \in Commands : At(s, c)) ~> (\E c \in Replies \cup
                     {"idle"} : At(s, c))

Serving == \E s \in Slots : ~At(s, "idle")

\* When the service is at rest and nothing failed, the message retained for a
\* device names the pattern it has active (publisher.py: "the device receives
\* the latest pattern on reconnect").  Refuted by two activations that record
\* and publish in opposite orders.
RetainedIsActive ==
  Serving \/ faults > 0 \/ \A d \in Devices : retained[d].pid = active[d]

\* models/pattern.py calls version a "Monotonic version counter": no save takes
\* the stored record of a pattern back to a lower version.
VersionMonotonic ==
  [][\A p \in Patterns : record'[p] = Absent
                           \/ record'[p].version >= record[p].version]_vars

\* One request at a time, even with failures and crashes half-way, implements
\* the catalogue whose operations take effect at once or not at all.
Catalogue == INSTANCE PatternCatalogue WITH
               Contents <- 1 .. MaxRequests,
               catalogue <- [p \in {q \in index : Exists(q)} |-> record[p]]
CatalogueSpec == Catalogue!Spec
=============================================================================
