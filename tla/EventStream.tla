---------------------------- MODULE EventStream ----------------------------
(***************************************************************************)
(* The readers of the event stream (api/events.py, api/stats.py): the      *)
(* filtered query with its cursor, the latest events, and the bucketed     *)
(* knock statistics, beside a writer that appends and trims                *)
(* (append_event).  Each request reads the stream with one Redis command,  *)
(* so a request is one action; what interleaves is the requests of one     *)
(* client and the writer.                                                  *)
(***************************************************************************)
EXTENDS Integers, FiniteSets, FiniteSetsExt

CONSTANTS Devices,
          MaxLen,      \* STREAM_MAXLEN
          ReadFactor,  \* what get_latest_events multiplies the limit by, 5
          Limits,      \* page sizes asked for
          BucketSizes, \* _BUCKET_SECONDS
          MaxEvents,   \* bound: events appended
          MaxTs        \* bound: serverReceivedTs

ASSUME ConstantsOK == /\ MaxLen \in Nat \ {0} /\ Limits \subseteq Nat \ {0}
                      /\ ReadFactor \in Nat \ {0}
                      /\ BucketSizes \subseteq Nat \ {0}
                      /\ MaxEvents \in Nat /\ MaxTs \in Nat

\* Two kinds of event stand for the six: knock_result, which the matched filter
\* and the statistics are about, and one other.
Types == {"knock_result", "logs"}

\* id is the stream id, in the order of the XADDs; ts is serverReceivedTs.
Event == [id : 1 .. MaxEvents, dev : Devices, type : Types,
          matched : BOOLEAN, ts : 0 .. MaxTs]

All == "all"

VARIABLES
  stream,   \* the entries the stream holds; their ids are their order
  added,    \* how many were ever added
  clock,    \* datetime.now() of the writer
  walk,     \* a client following nextCursor from the first page on
  poll      \* per device, a client asking for what is newer than the newest
            \* event it has: cursor, and the ids got, sent by the device so
            \* far, and trimmed so far

vars == <<stream, added, clock, walk, poll>>

\* dev and limit of the walk, cursor of the next page (0 at the start), the ids
\* due when it began, the ids got so far, and whether it reached the end
NoWalk == [dev |-> All, limit |-> 0, cursor |-> 0, due |-> {}, got |-> {},
           ended |-> FALSE]

Init == /\ stream = {} /\ added = 0 /\ clock = 0
        /\ walk = NoWalk
        /\ poll = [d \in Devices |-> [cursor |-> 0, sent |-> {},
                                     got |-> {}, lost |-> {}]]

-----------------------------------------------------------------------------
(* Queries.                                                                *)

\* An answer is the set of its entries: every endpoint lists them newest first.
Ids(es) == {e.id : e \in es}
Newer(es, e) == {f \in es : f.id > e.id}
Newest(es, n) == {e \in es : Cardinality(Newer(es, e)) < n}

AllTime == [from |-> 0, to |-> MaxTs, aware |-> TRUE]
Window == [from : 0 .. MaxTs, to : 0 .. MaxTs, aware : BOOLEAN]

\* Comparing an aware with a naive datetime raises TypeError; the filter is
\* then skipped (aware: the bounds carry a time zone).
InWindow(ts, w) == ~w.aware \/ ts \in w.from .. w.to

\* mutant: no filter on the device
MatchesAnyDevice(e, dev, type, matched, w) ==
  /\ type \in {All, e.type}
  /\ matched = All \/ (e.type = "knock_result" /\ e.matched = (matched = "yes"))
  /\ InWindow(e.ts, w)

\* _matches_filters
Matches(e, dev, type, matched, w) ==
  /\ e.dev = dev
  /\ type \in {All, e.type}
  /\ matched = All \/ (e.type = "knock_result" /\ e.matched = (matched = "yes"))
  /\ InWindow(e.ts, w)

\* mutant: the entry after the cursor is skipped too
NewerThanSkipping(cursor) == {e \in stream : e.id > cursor + 1}

\* mutant: the cursor is inclusive
NewerThanInclusive(cursor) == {e \in stream : e.id >= cursor}

\* XRANGE with min "(cursor"
NewerThan(cursor) == {e \in stream : e.id > cursor}

\* get_events: all that is newer than the cursor, filtered and cut at the limit
\* from the newest on; nextCursor is the last id of a full page, else 0.
GetEvents(dev, type, matched, w, cursor, limit) ==
  LET items == Newest({e \in NewerThan(cursor) : Matches(e, dev, type, matched, w)},
                      limit)
  IN [items |-> items,
      nextCursor |-> IF Cardinality(items) >= limit THEN Min(Ids(items)) ELSE 0]

\* mutant: no more entries are read than asked for
GetLatestUnscaled(dev, limit) ==
  {e \in Newest(stream, limit) : e.dev = dev}

\* get_latest_events: XREVRANGE COUNT 5 * limit, then the device's own
GetLatest(dev, limit) ==
  Newest({e \in Newest(stream, ReadFactor * limit) : e.dev = dev}, limit)

BucketStart(ts, size) == (ts \div size) * size

\* mutant: the upper bound of the window is excluded
KnocksHalfOpen(dev, w) ==
  {e \in stream : /\ e.type = "knock_result" /\ e.dev = dev
                /\ w.from <= e.ts /\ e.ts < w.to}

\* The entries get_knock_stats counts.
Knocks(dev, w) ==
  {e \in stream : /\ e.type = "knock_result" /\ e.dev = dev
                /\ w.from <= e.ts /\ e.ts <= w.to}

Point(es) == [total   |-> Cardinality(es),
              matched |-> Cardinality({e \in es : e.matched}),
              failed  |-> Cardinality({e \in es : ~e.matched})]

\* get_knock_stats: a point for each bucket that has an entry.  (A naive bound
\* is compared with an aware time outside any try: the request fails.)
KnockStats(dev, size, w) ==
  LET es == Knocks(dev, w) IN
  [b \in {BucketStart(e.ts, size) : e \in es} |->
     Point({e \in es : BucketStart(e.ts, size) = b})]

-----------------------------------------------------------------------------
(* The writer and the clients.                                             *)

Tick == /\ clock < MaxTs
        /\ clock' = clock + 1
        /\ UNCHANGED <<stream, added, walk, poll>>

\* append_event: XADD with MAXLEN ~, which may leave more than MaxLen entries
\* but never fewer of those it has
XAdd(dev, type, matched) ==
  /\ added < MaxEvents
  /\ added' = added + 1
  /\ LET full == stream \cup {[id |-> added + 1, dev |-> dev, type |-> type,
                                matched |-> matched, ts |-> clock]}
     IN \E first \in 1 .. added + 1 :
          LET kept == {e \in full : e.id >= first} IN
          /\ kept = full \/ Cardinality(kept) >= MaxLen
          /\ stream' = kept
          /\ poll' = [d \in Devices |->
               [poll[d] EXCEPT
                  !.sent = IF d = dev THEN @ \cup {added + 1} ELSE @,
                  !.lost = @ \cup Ids(full \ kept)]]
  /\ UNCHANGED <<clock, walk>>

AddLogs == \E d \in Devices : XAdd(d, "logs", FALSE)
AddKnockResult == \E d \in Devices, m \in BOOLEAN : XAdd(d, "knock_result", m)

Page(dev, cursor, limit) == GetEvents(dev, All, All, AllTime, cursor, limit)

Follow(w, page) == [w EXCEPT !.cursor = page.nextCursor,
                             !.got = @ \cup Ids(page.items),
                             !.ended = (page.nextCursor = 0)]

StartWalk(dev, limit) ==
  /\ walk = NoWalk
  /\ walk' = Follow([NoWalk EXCEPT !.dev = dev, !.limit = limit,
                       !.due = Ids({e \in stream : e.dev = dev})],
                    Page(dev, 0, limit))
  /\ UNCHANGED <<stream, added, clock, poll>>

NextPage ==
  /\ walk # NoWalk /\ ~walk.ended
  /\ walk' = Follow(walk, Page(walk.dev, walk.cursor, walk.limit))
  /\ UNCHANGED <<stream, added, clock, poll>>

\* The limit exceeds what arrives between two polls: no page is full.
PollNewer(dev) ==
  LET items == Page(dev, poll[dev].cursor, MaxEvents + 1).items IN
  /\ items # {}
  /\ poll' = [poll EXCEPT ![dev].cursor = Max(Ids(items)),
                          ![dev].got = @ \cup Ids(items)]
  /\ UNCHANGED <<stream, added, clock, walk>>

Next == \/ Tick \/ AddLogs \/ AddKnockResult \/ NextPage
        \/ \E d \in Devices, n \in Limits : StartWalk(d, n)
        \/ \E d \in Devices : PollNewer(d)

Spec == Init /\ [][Next]_vars

-----------------------------------------------------------------------------
(* Properties.                                                             *)

\* The shape of every variable; a client has only events of its own device.
TypeOK ==
  /\ added \in 0 .. MaxEvents /\ clock \in 0 .. MaxTs
  /\ stream \subseteq Event
  /\ \A e, f \in stream : e.id <= added /\ (e.id = f.id => e = f)
  /\ walk \in [dev : Devices \cup {All}, limit : Limits \cup {0},
              cursor : 0 .. added, due : SUBSET (1 .. added),
              got : SUBSET (1 .. added), ended : BOOLEAN]
  /\ poll \in [Devices -> [cursor : 0 .. added, sent : SUBSET (1 .. added),
                          got : SUBSET (1 .. added), lost : SUBSET (1 .. added)]]
  /\ \A d \in Devices : poll[d].got \subseteq poll[d].sent

\* A client that asks for what is newer than the newest event it has seen gets
\* every event of its device, whatever is appended and trimmed in between,
\* except those that were trimmed before it asked.
PollingMissesOnlyTrimmed ==
  \A d \in Devices :
    \A i \in poll[d].sent : i <= poll[d].cursor =>
                              i \in poll[d].got \cup poll[d].lost

\* Whatever cursor a client holds, also one whose entry has been trimmed since,
\* the page it gets ends the walk or leads beyond that cursor: a walk never comes
\* back to a page, though a writer that never stops can keep it going.
WalkAdvances ==
  \A d \in Devices, n \in Limits, cursor \in 0 .. added :
    LET next == Page(d, cursor, n).nextCursor IN next = 0 \/ next > cursor

\* The statistics and the event query, which filter the stream in separate
\* code, count the same knock results: each bucket's matched and failed are
\* what the query for knock_result returns for that bucket inside the window.
StatsAgreeWithQuery ==
  \A d \in Devices, size \in BucketSizes,
     w \in {v \in Window : v.aware} :
    LET stats == KnockStats(d, size, w)
        Count(b, matched) ==
          Cardinality({e \in GetEvents(d, "knock_result", matched, w, 0,
                                       MaxEvents + 1).items :
                         e.ts \in b .. b + size - 1})
        CountAt(b) == [total   |-> Count(b, All), matched |-> Count(b, "yes"),
                       failed  |-> Count(b, "no")]
        empty == [total |-> 0, matched |-> 0, failed |-> 0]
    IN \A b \in {BucketStart(t, size) : t \in 0 .. MaxTs} :
         CountAt(b) = IF b \in DOMAIN stats THEN stats[b] ELSE empty

\* test_events_query.py expects nextCursor to lead on from a full page: a walk
\* that ended has seen every event that was there when it began.
WalkSeesAll == walk.ended => walk.due \subseteq walk.got

\* /latest agrees with the event query, which reads the whole stream: it returns
\* the beginning of the query's first page, and what it leaves out lies behind
\* five times as many newer entries as the client asked for.
LatestMissesOnlyBuried ==
  \A d \in Devices, n \in Limits :
    LET latest == GetLatest(d, n)
        page   == Page(d, 0, n).items
    IN /\ latest \subseteq page
       /\ \A e \in page \ latest :
            /\ latest \subseteq Newer(page, e)
            /\ Cardinality(Newer(stream, e)) >= ReadFactor * n
=============================================================================
