------------------------- MODULE EventStreamProofs -------------------------
(***************************************************************************)
(* The invariants of EventStream, for any number of devices and events,    *)
(* any length of the stream, any page sizes and any bucket sizes.          *)
(***************************************************************************)
EXTENDS EventStream, FiniteSetTheorems, WellFoundedInduction, TLAPS

-----------------------------------------------------------------------------
(* Finite sets of numbers.                                                 *)

LEMMA MinIsLeast ==
  ASSUME NEW S, S \subseteq Nat, S # {}
  PROVE  Min(S) \in S /\ \A x \in S : Min(S) <= x
<1>1. IsWellFoundedOn(OpToRel(<, Nat), Nat)
  BY NatLessThanWellFounded
<1>2. PICK m \in S : \A x \in S : <<x, m>> \notin OpToRel(<, Nat)
  BY <1>1, WFMin
<1>3. \A x \in S : m <= x
  <2>1. OpToRel(<, Nat) = {p \in Nat \X Nat : p[1] < p[2]}
    BY Zenon DEF OpToRel
  <2>2. \A x \in S : ~(x < m)
    BY <1>2, <2>1
  <2> QED
    BY <2>2
<1> QED
  BY <1>3 DEF Min

LEMMA MaxIsGreatest ==
  ASSUME NEW n \in Nat, NEW S, S \subseteq 1 .. n, S # {}
  PROVE  Max(S) \in S /\ \A x \in S : x <= Max(S)
<1> DEFINE T == {n - x : x \in S}
<1>1. T \subseteq Nat /\ T # {}
  <2>1. \A x \in S : x \in Nat /\ x <= n
    OBVIOUS
  <2>2. \A x \in S : n - x \in Nat
    BY <2>1
  <2> QED
    BY <2>2
<1> DEFINE m == Min(T)
<1>2. m \in T /\ \A x \in T : m <= x
  BY <1>1, MinIsLeast
<1> HIDE DEF m
<1>3. PICK y \in S : m = n - y
  BY <1>2
<1>4. \A x \in S : y >= x
  <2> SUFFICES ASSUME NEW x \in S PROVE y >= x
    OBVIOUS
  <2>1. n - y <= n - x
    BY <1>2, <1>3
  <2> QED
    BY <2>1
<1>5. Max(S) \in S /\ \A x \in S : Max(S) >= x
  BY <1>4 DEF Max
<1> QED
  BY <1>5

LEMMA DivBounds ==
  ASSUME NEW a \in Nat, NEW n \in Nat \ {0}
  PROVE  a \div n \in Nat /\ (a \div n) * n <= a /\ a < (a \div n) * n + n
OBVIOUS

LEMMA DivUnique ==
  ASSUME NEW p \in Nat, NEW q \in Nat, NEW a \in Nat, NEW n \in Nat \ {0},
         p * n <= a, a < p * n + n, q * n <= a, a < q * n + n
  PROVE  p = q
<1>1. ASSUME NEW x \in Nat, NEW y \in Nat, x < y
      PROVE  x * n + n <= y * n
  <2>1. PICK k \in Nat : y = x + 1 + k
    <3>1. y - x - 1 \in Nat /\ y = x + 1 + (y - x - 1)
      BY <1>1
    <3> QED
      BY <3>1
  <2>2. y * n = x * n + n + k * n
    BY <2>1
  <2>3. k * n \in Nat
    OBVIOUS
  <2> QED
    BY <2>2, <2>3
<1>2. ~(p < q)
  BY <1>1
<1>3. ~(q < p)
  BY <1>1
<1> QED
  BY <1>2, <1>3

-----------------------------------------------------------------------------
(* Sets of entries.                                                        *)

\* The ids of es, which lie in 1 .. n, tell its entries apart.
Numbered(es, n) == /\ \A e \in es : e.id \in 1 .. n
                   /\ \A e, f \in es : e.id = f.id => e = f

LEMMA NumberedIsFinite ==
  ASSUME NEW n \in Nat, NEW es, Numbered(es, n)
  PROVE  IsFiniteSet(es) /\ Cardinality(es) \in 0 .. n
<1> DEFINE f == [e \in es |-> e.id]
<1>1. f \in Injection(es, 1 .. n)
  BY DEF Numbered, Injection, IsInjective
<1>2. IsFiniteSet(1 .. n) /\ Cardinality(1 .. n) = n
  BY FS_Interval
<1>3. IsFiniteSet(es) /\ Cardinality(es) <= n
  BY <1>1, <1>2, FS_Injection
<1> QED
  BY <1>3, FS_CardinalityType

\* A page that asks for more entries than there are is all of them.
LEMMA LargePageIsAll ==
  ASSUME NEW n \in Nat, NEW es, Numbered(es, n)
  PROVE  Newest(es, n + 1) = es
<1>1. ASSUME NEW e \in es PROVE Cardinality(Newer(es, e)) < n + 1
  <2>1. Numbered(Newer(es, e), n)
    BY DEF Numbered, Newer
  <2> QED
    BY <2>1, NumberedIsFinite
<1> QED
  BY <1>1 DEF Newest

LEMMA StreamIsNumbered ==
  ASSUME TypeOK
  PROVE  Numbered(stream, added) /\ Numbered(stream, MaxEvents)
BY ConstantsOK DEF TypeOK, Event, Numbered

LEMMA SubsetIsNumbered ==
  ASSUME NEW n \in Nat, NEW es, Numbered(es, n), NEW fs \in SUBSET es
  PROVE  Numbered(fs, n)
BY DEF Numbered

\* What the unfiltered query of a device's events matches.
Sent(d, cursor) == {e \in stream : e.id > cursor /\ e.dev = d}

LEMMA PageIsNewest ==
  ASSUME TypeOK, NEW d, NEW cursor, NEW limit
  PROVE  /\ Page(d, cursor, limit).items = Newest(Sent(d, cursor), limit)
         /\ Page(d, cursor, limit).nextCursor =
              LET items == Newest(Sent(d, cursor), limit)
              IN IF Cardinality(items) >= limit THEN Min(Ids(items)) ELSE 0
<1>1. \A e \in stream : Matches(e, d, All, All, AllTime) <=> e.dev = d
  <2>1. \A e \in stream : e.ts \in 0 .. MaxTs
    BY DEF TypeOK, Event
  <2> QED
    BY <2>1 DEF Matches, InWindow, AllTime
<1>2. {e \in NewerThan(cursor) : Matches(e, d, All, All, AllTime)}
        = Sent(d, cursor)
  BY <1>1 DEF NewerThan, Sent
<1> QED
  BY <1>2 DEF Page, GetEvents

\* A full page leads on: its oldest id is beyond the cursor and was given out.
LEMMA CursorLeadsOn ==
  ASSUME TypeOK, NEW d, NEW cursor \in Nat, NEW limit \in Nat \ {0}
  PROVE  LET page == Page(d, cursor, limit)
         IN /\ page.items \subseteq Sent(d, cursor)
            /\ page.nextCursor \in 0 .. added
            /\ page.nextCursor = 0 \/ page.nextCursor > cursor
<1> DEFINE items == Newest(Sent(d, cursor), limit)
<1>1. items \subseteq stream /\ \A e \in items : e.id > cursor
  BY DEF Newest, Sent
<1>2. added \in Nat /\ Numbered(stream, added)
  BY StreamIsNumbered DEF TypeOK
<1>5. Page(d, cursor, limit).items \subseteq Sent(d, cursor)
  <2>1. Page(d, cursor, limit).items = Newest(Sent(d, cursor), limit)
    BY PageIsNewest
  <2> QED
    BY <2>1 DEF Newest
<1>3. CASE Cardinality(items) >= limit
  <2>1. items # {}
    BY <1>3, FS_EmptySet
  <2>2. Ids(items) # {} /\ Ids(items) \subseteq 1 .. added
        /\ \A i \in Ids(items) : i > cursor
    BY <1>1, <1>2, <2>1 DEF Ids, Numbered
  <2>3. Min(Ids(items)) \in Ids(items)
    BY <2>2, MinIsLeast
  <2>4. Page(d, cursor, limit).nextCursor = Min(Ids(items))
    BY <1>3, PageIsNewest
  <2>5. Page(d, cursor, limit).items \subseteq Sent(d, cursor)
    BY <1>5
  <2> QED
    BY <2>2, <2>3, <2>4, <2>5, <1>2
<1>4. CASE ~(Cardinality(items) >= limit)
  <2>1. Page(d, cursor, limit).nextCursor = 0
    BY <1>4, PageIsNewest
  <2>2. Page(d, cursor, limit).items \subseteq Sent(d, cursor)
    BY <1>5
  <2> QED
    BY <2>1, <2>2, <1>2
<1> QED
  BY <1>3, <1>4

\* A poll asks for more than the stream can hold and gets all that is newer.
LEMMA PollGetsAll ==
  ASSUME TypeOK, NEW d, NEW cursor
  PROVE  Page(d, cursor, MaxEvents + 1).items = Sent(d, cursor)
<1>1. Numbered(Sent(d, cursor), MaxEvents)
  BY StreamIsNumbered, SubsetIsNumbered, ConstantsOK DEF Sent
<1> QED
  BY <1>1, LargePageIsAll, PageIsNewest, ConstantsOK
-----------------------------------------------------------------------------
(* The inductive invariant.                                                *)

\* A walk asks for pages of at least one entry.
WalkAsks == walk = NoWalk \/ walk.limit \in Limits

\* What the clients count as sent is what was appended: every entry the stream
\* holds, and every id is still in the stream or was trimmed.
HeldWasSent == \A e \in stream : e.id \in poll[e.dev].sent
SentIsHeldOrLost ==
  \A d \in Devices : \A i \in poll[d].sent :
    i \in poll[d].lost \/ \E e \in stream : e.dev = d /\ e.id = i

IInv == /\ TypeOK /\ WalkAsks /\ HeldWasSent /\ SentIsHeldOrLost
       /\ PollingMissesOnlyTrimmed

Poll == [cursor : 0 .. added, sent : SUBSET (1 .. added),
         got : SUBSET (1 .. added), lost : SUBSET (1 .. added)]
Walk == [dev : Devices \cup {All}, limit : Limits \cup {0},
         cursor : 0 .. added, due : SUBSET (1 .. added),
         got : SUBSET (1 .. added), ended : BOOLEAN]

LEMMA InvInit == Init => IInv
<1> SUFFICES ASSUME Init PROVE IInv
  OBVIOUS
<1>1. stream = {} /\ added = 0 /\ clock = 0 /\ walk = NoWalk
  BY DEF Init
<1>2. \A d \in Devices :
        poll[d] = [cursor |-> 0, sent |-> {}, got |-> {}, lost |-> {}]
  BY DEF Init
<1>3. walk \in Walk
  BY <1>1 DEF Walk, NoWalk
<1>4. poll \in [Devices -> Poll]
  BY <1>1 DEF Init, Poll
<1>5. added \in 0 .. MaxEvents /\ clock \in 0 .. MaxTs
  BY <1>1, ConstantsOK
<1>6. TypeOK
  BY <1>1, <1>2, <1>3, <1>4, <1>5 DEF TypeOK, Walk, Poll
<1>7. WalkAsks /\ HeldWasSent /\ SentIsHeldOrLost /\ PollingMissesOnlyTrimmed
  BY <1>1, <1>2 DEF WalkAsks, HeldWasSent, SentIsHeldOrLost,
                    PollingMissesOnlyTrimmed
<1> QED
  BY <1>6, <1>7 DEF IInv

\* The writer: the new id is beyond every cursor, and what it trims is recorded
\* as lost.
LEMMA XAddKeepsInv ==
  ASSUME IInv, NEW dev \in Devices, NEW type \in Types, NEW matched \in BOOLEAN,
         XAdd(dev, type, matched)
  PROVE  IInv'
<1> DEFINE new  == [id |-> added + 1, dev |-> dev, type |-> type,
                    matched |-> matched, ts |-> clock]
           full == stream \cup {new}
<1>1. PICK first \in 1 .. added + 1 :
        LET kept == {e \in full : e.id >= first}
        IN /\ stream' = kept
           /\ poll' = [d \in Devices |->
                [poll[d] EXCEPT
                   !.sent = IF d = dev THEN @ \cup {added + 1} ELSE @,
                   !.lost = @ \cup Ids(full \ kept)]]
  BY DEF XAdd
<1> DEFINE kept == {e \in full : e.id >= first}
<1>2. added \in Nat /\ added < MaxEvents /\ added' = added + 1
      /\ clock' = clock /\ walk' = walk
  <2>1. added < MaxEvents /\ added' = added + 1 /\ UNCHANGED <<clock, walk>>
    BY DEF XAdd
  <2>2. added \in 0 .. MaxEvents
    BY DEF IInv, TypeOK
  <2> QED
    BY <2>1, <2>2
<1>3. added \in 0 .. MaxEvents /\ clock \in 0 .. MaxTs /\ stream \subseteq Event
      /\ (\A e, f \in stream : e.id <= added /\ (e.id = f.id => e = f))
      /\ walk \in Walk /\ poll \in [Devices -> Poll]
      /\ (\A d \in Devices : poll[d].got \subseteq poll[d].sent)
  BY DEF IInv, TypeOK, Walk, Poll
<1>4. new \in Event /\ new.id = added + 1 /\ new.dev = dev
  BY <1>2, <1>3, ConstantsOK DEF Event
<1> HIDE DEF new
<1>5. full \subseteq Event /\ kept \subseteq full /\ stream' = kept
      /\ (\A e, f \in full : e.id <= added + 1 /\ (e.id = f.id => e = f))
  <2>1. \A e \in stream : e.id \in Nat /\ e.id < added + 1
    BY <1>2, <1>3 DEF Event
  <2>2. full \subseteq Event /\ kept \subseteq full /\ stream' = kept
    BY <1>1, <1>3, <1>4 DEF new
  <2>3. ASSUME NEW e \in full, NEW f \in full
        PROVE  e.id <= added + 1 /\ (e.id = f.id => e = f)
    <3>1. e \in stream \/ (e = new /\ e.id = added + 1)
      BY <1>4
    <3>2. f \in stream \/ (f = new /\ f.id = added + 1)
      BY <1>4
    <3>3. e.id <= added + 1
      BY <1>2, <2>1, <3>1
    <3>4. (e.id = f.id => e = f)
      BY <1>2, <1>3, <2>1, <3>1, <3>2
    <3> QED
      BY <3>3, <3>4
  <2> QED
    BY <2>2, <2>3
<1>6. \A d \in Devices :
        /\ poll'[d].cursor = poll[d].cursor /\ poll'[d].got = poll[d].got
        /\ poll'[d].sent = IF d = dev THEN poll[d].sent \cup {added + 1}
                           ELSE poll[d].sent
        /\ poll'[d].lost = poll[d].lost \cup Ids(full \ kept)
        /\ poll'[d] = [cursor |-> poll'[d].cursor, sent |-> poll'[d].sent,
                       got |-> poll'[d].got, lost |-> poll'[d].lost]
  BY <1>1, <1>3 DEF Poll
<1>7. Ids(full \ kept) \subseteq 1 .. added + 1
  BY <1>2, <1>5 DEF Ids, Event
<1>8. poll' \in [Devices -> Poll']
  <2>1. ASSUME NEW d \in Devices PROVE poll'[d] \in Poll'
    <3>1. poll[d].cursor \in 0 .. added /\ poll[d].sent \subseteq 1 .. added
          /\ poll[d].got \subseteq 1 .. added /\ poll[d].lost \subseteq 1 .. added
      BY <1>3 DEF Poll
    <3>2. 1 .. added \subseteq 1 .. added + 1 /\ 0 .. added \subseteq 0 .. added + 1
          /\ added + 1 \in 1 .. added + 1
      BY <1>2
    <3>3. PICK lost : lost = Ids(full \ kept)
      OBVIOUS
    <3>4. poll'[d].cursor = poll[d].cursor /\ poll'[d].got = poll[d].got
          /\ poll'[d].sent \subseteq poll[d].sent \cup {added + 1}
          /\ poll'[d].lost = poll[d].lost \cup lost
      BY <1>6, <3>3
    <3>5. lost \subseteq 1 .. added + 1
      BY <1>7, <3>3
    <3>6. PICK r : r = poll'[d]
      OBVIOUS
    <3>7. r = [cursor |-> r.cursor, sent |-> r.sent, got |-> r.got, lost |-> r.lost]
      BY <1>6, <3>6
    <3>8. r.cursor \in 0 .. added + 1 /\ r.sent \subseteq 1 .. added + 1
          /\ r.got \subseteq 1 .. added + 1 /\ r.lost \subseteq 1 .. added + 1
      BY <3>1, <3>2, <3>4, <3>5, <3>6
    <3>9. Poll' = [cursor : 0 .. added + 1, sent : SUBSET (1 .. added + 1),
                   got : SUBSET (1 .. added + 1), lost : SUBSET (1 .. added + 1)]
      BY <1>2 DEF Poll
    <3> QED
      BY <3>6, <3>7, <3>8, <3>9
  <2>2. poll' = [d \in Devices |-> poll'[d]]
    BY <1>1
  <2> QED
    BY <2>1, <2>2
<1>9. walk' \in Walk'
  <2>1. 1 .. added \subseteq 1 .. added + 1 /\ 0 .. added \subseteq 0 .. added + 1
    BY <1>2
  <2> QED
    BY <1>2, <1>3, <2>1 DEF Walk
<1>10. TypeOK'
  <2>1. added' \in 0 .. MaxEvents /\ clock' \in 0 .. MaxTs
    BY <1>2, <1>3, ConstantsOK
  <2>2. \A d \in Devices : poll'[d].got \subseteq poll'[d].sent
    BY <1>3, <1>6
  <2>3. stream' \subseteq Event
        /\ \A e, f \in stream' : e.id <= added' /\ (e.id = f.id => e = f)
    BY <1>2, <1>5
  <2> QED
    BY <1>8, <1>9, <2>1, <2>2, <2>3 DEF TypeOK, Walk, Poll
<1>11. WalkAsks'
  BY <1>2 DEF IInv, WalkAsks, NoWalk
<1>12. HeldWasSent'
  <2> SUFFICES ASSUME NEW e \in stream' PROVE e.id \in poll'[e.dev].sent
    BY DEF HeldWasSent
  <2>1. e \in full /\ e.dev \in Devices
    BY <1>5 DEF Event
  <2>2. CASE e \in stream
    BY <1>6, <2>1, <2>2 DEF IInv, HeldWasSent
  <2>3. CASE e = new
    BY <1>4, <1>6, <2>1, <2>3
  <2> QED
    BY <2>1, <2>2, <2>3
<1>13. SentIsHeldOrLost'
  <2> SUFFICES ASSUME NEW d \in Devices, NEW i \in poll'[d].sent
               PROVE  \/ i \in poll'[d].lost
                      \/ \E e \in stream' : e.dev = d /\ e.id = i
    BY DEF SentIsHeldOrLost
  <2>1. ASSUME NEW e \in full, e.dev = d, e.id = i
        PROVE  \/ i \in poll'[d].lost
               \/ \E f \in stream' : f.dev = d /\ f.id = i
    <3>1. CASE e \in kept
      BY <1>5, <2>1, <3>1
    <3>2. CASE e \notin kept
      <4>1. e.id \in Ids(full \ kept)
        BY <3>2 DEF Ids
      <4> QED
        BY <1>6, <2>1, <4>1
    <3> QED
      BY <3>1, <3>2
  <2>2. CASE i \in poll[d].sent
    <3>1. i \in poll[d].lost \/ \E e \in stream : e.dev = d /\ e.id = i
      BY <2>2 DEF IInv, SentIsHeldOrLost
    <3> QED
      BY <1>6, <2>1, <3>1
  <2>3. CASE d = dev /\ i = added + 1
    BY <1>4, <2>1, <2>3
  <2> QED
    BY <1>6, <2>2, <2>3
<1>14. PollingMissesOnlyTrimmed'
  <2> SUFFICES ASSUME NEW d \in Devices, NEW i \in poll'[d].sent,
                      i <= poll'[d].cursor
               PROVE  i \in poll'[d].got \cup poll'[d].lost
    BY DEF PollingMissesOnlyTrimmed
  <2>1. poll[d].cursor \in 0 .. added
    BY <1>3 DEF Poll
  <2>2. i <= poll[d].cursor
    BY <1>6
  <2>3. i # added + 1
    BY <1>2, <2>1, <2>2
  <2>4. i \in poll[d].sent
    BY <1>6, <2>3
  <2>5. i \in poll[d].got \cup poll[d].lost
    BY <2>2, <2>4 DEF IInv, PollingMissesOnlyTrimmed
  <2> QED
    BY <1>6, <2>5
<1> QED
  BY <1>10, <1>11, <1>12, <1>13, <1>14 DEF IInv

\* A step of the walk leaves everything else alone.
LEMMA FollowKeepsInv ==
  ASSUME IInv, NEW w \in Walk, w.limit \in Limits, w.dev \in Devices \cup {All},
         walk' = Follow(w, Page(w.dev, w.cursor, w.limit)),
         UNCHANGED <<stream, added, clock, poll>>
  PROVE  IInv'
<1> DEFINE page == Page(w.dev, w.cursor, w.limit)
<1>1. TypeOK
  BY DEF IInv
<1>2. w.cursor \in Nat /\ w.limit \in Nat \ {0} /\ added \in Nat
  <2>1. added \in Nat
    BY <1>1 DEF TypeOK
  <2>2. w.cursor \in 0 .. added
    BY DEF Walk
  <2>3. w.limit \in Nat \ {0}
    BY ConstantsOK
  <2>4. w.cursor \in Nat
    BY <2>1, <2>2
  <2> QED
    BY <2>1, <2>3, <2>4
<1>3. page.items \subseteq stream /\ page.nextCursor \in 0 .. added
  BY <1>1, <1>2, CursorLeadsOn DEF Sent
<1>4. Ids(page.items) \subseteq 1 .. added
  BY <1>1, <1>3, StreamIsNumbered DEF Ids, Numbered
<1> HIDE DEF page
<1>5. walk' = [w EXCEPT !.cursor = page.nextCursor,
                        !.got = @ \cup Ids(page.items),
                        !.ended = (page.nextCursor = 0)]
  BY DEF Follow, page
<1>6. walk' = [dev |-> w.dev, limit |-> w.limit, cursor |-> page.nextCursor,
               due |-> w.due, got |-> w.got \cup Ids(page.items),
               ended |-> (page.nextCursor = 0)]
  BY <1>5 DEF Walk
<1>7. walk' \in Walk /\ walk'.limit \in Limits
  BY <1>3, <1>4, <1>6 DEF Walk
<1>8. TypeOK'
  BY <1>1, <1>7 DEF TypeOK, Walk
<1>9. WalkAsks'
  BY <1>7 DEF WalkAsks
<1>10. HeldWasSent' /\ SentIsHeldOrLost' /\ PollingMissesOnlyTrimmed'
  BY DEF IInv, HeldWasSent, SentIsHeldOrLost, PollingMissesOnlyTrimmed
<1> QED
  BY <1>8, <1>9, <1>10 DEF IInv

LEMMA StartWalkKeepsInv ==
  ASSUME IInv, NEW dev \in Devices, NEW limit \in Limits, StartWalk(dev, limit)
  PROVE  IInv'
<1> DEFINE due == Ids({e \in stream : e.dev = dev})
<1>1. due \subseteq 1 .. added /\ added \in Nat
  BY StreamIsNumbered DEF IInv, TypeOK, Ids, Numbered
<1> HIDE DEF due
<1>2. PICK w : w = [dev |-> dev, limit |-> limit, cursor |-> 0, due |-> due,
                    got |-> {}, ended |-> FALSE]
  OBVIOUS
<1>3. [NoWalk EXCEPT !.dev = dev, !.limit = limit, !.due = due] = w
  <2>1. PICK n : n = NoWalk
    OBVIOUS
  <2>2. n \in Walk /\ n.cursor = 0 /\ n.got = {} /\ n.ended = FALSE
    BY <1>1, <2>1 DEF NoWalk, Walk
  <2>3. PICK m : m = [n EXCEPT !.dev = dev, !.limit = limit, !.due = due]
    OBVIOUS
  <2>4. m = [dev |-> dev, limit |-> limit, cursor |-> n.cursor, due |-> due,
             got |-> n.got, ended |-> n.ended]
    BY <2>2, <2>3 DEF Walk
  <2> QED
    BY <1>2, <2>1, <2>2, <2>3, <2>4
<1>4. w \in Walk
  BY <1>1, <1>2 DEF Walk
<1>5. w.dev = dev /\ w.limit = limit /\ w.cursor = 0
  BY <1>2
<1>6. walk' = Follow(w, Page(w.dev, w.cursor, w.limit))
  BY <1>3, <1>5 DEF StartWalk, due
<1> QED
  BY <1>4, <1>5, <1>6, FollowKeepsInv DEF StartWalk

LEMMA NextPageKeepsInv ==
  ASSUME IInv, NextPage
  PROVE  IInv'
<1>1. walk \in Walk /\ walk.limit \in Limits /\ walk.dev \in Devices \cup {All}
  BY DEF IInv, TypeOK, Walk, WalkAsks, NextPage
<1> QED
  BY <1>1, FollowKeepsInv DEF NextPage

\* A poll gets all that is newer than its cursor; what it did not get lies
\* beyond the new cursor or was lost before.
LEMMA PollNewerKeepsInv ==
  ASSUME IInv, NEW dev \in Devices, PollNewer(dev)
  PROVE  IInv'
<1>1. TypeOK
  BY DEF IInv
<1> DEFINE new == Sent(dev, poll[dev].cursor)
<1>2. new # {} /\ new = Page(dev, poll[dev].cursor, MaxEvents + 1).items
  BY <1>1, PollGetsAll DEF PollNewer
<1>3. PICK ids : ids = Ids(new)
  OBVIOUS
<1>4. PICK top : top = Max(ids)
  OBVIOUS
<1>5. added \in Nat /\ ids \subseteq 1 .. added /\ ids # {}
  BY <1>1, <1>2, <1>3, StreamIsNumbered DEF TypeOK, Ids, Numbered, Sent
<1>6. top \in 1 .. added
  BY <1>4, <1>5, MaxIsGreatest
<1>7. poll \in [Devices -> Poll]
  BY <1>1 DEF TypeOK, Poll
<1>8. poll' = [poll EXCEPT ![dev].cursor = top, ![dev].got = @ \cup ids]
  BY <1>2, <1>3, <1>4 DEF PollNewer
<1>9. /\ poll'[dev] = [cursor |-> top, sent |-> poll[dev].sent,
                       got |-> poll[dev].got \cup ids, lost |-> poll[dev].lost]
      /\ \A d \in Devices : d # dev => poll'[d] = poll[d]
  BY <1>7, <1>8 DEF Poll
<1>10. stream' = stream /\ added' = added /\ clock' = clock /\ walk' = walk
  BY DEF PollNewer
<1>11. \A d \in Devices : poll'[d].sent = poll[d].sent /\ poll'[d].lost = poll[d].lost
  BY <1>9
<1>12. ids \subseteq poll[dev].sent
  BY <1>3 DEF IInv, HeldWasSent, Ids, Sent
<1>13. poll' \in [Devices -> Poll]
  <2>1. poll'[dev] \in Poll
    <3>1. PICK p : p = poll[dev]
      OBVIOUS
    <3>2. p.sent \subseteq 1 .. added /\ p.got \subseteq 1 .. added
          /\ p.lost \subseteq 1 .. added
      BY <1>7, <3>1 DEF Poll
    <3>3. poll'[dev] = [cursor |-> top, sent |-> p.sent, got |-> p.got \cup ids,
                        lost |-> p.lost]
      BY <1>9, <3>1
    <3>4. top \in 0 .. added
      BY <1>5, <1>6
    <3>5. p.got \cup ids \subseteq 1 .. added
      BY <1>5, <3>2
    <3> QED
      BY <3>2, <3>3, <3>4, <3>5 DEF Poll
  <2> QED
    BY <1>7, <1>8, <1>9, <2>1
<1>14. \A d \in Devices : poll'[d].got \subseteq poll'[d].sent
  <2>1. \A d \in Devices : poll[d].got \subseteq poll[d].sent
    BY <1>1 DEF TypeOK
  <2>2. poll'[dev].got = poll[dev].got \cup ids /\ poll'[dev].sent = poll[dev].sent
    BY <1>9
  <2> QED
    BY <1>9, <1>12, <2>1, <2>2
<1>15. TypeOK'
  BY <1>1, <1>10, <1>13, <1>14 DEF TypeOK, Poll
<1>16. WalkAsks' /\ HeldWasSent' /\ SentIsHeldOrLost'
  <2>1. \A e \in stream : e.dev \in Devices
    BY <1>1 DEF TypeOK, Event
  <2> QED
    BY <1>10, <1>11, <2>1
       DEF IInv, WalkAsks, NoWalk, HeldWasSent, SentIsHeldOrLost
<1>17. PollingMissesOnlyTrimmed'
  <2> SUFFICES ASSUME NEW d \in Devices, NEW i \in poll'[d].sent,
                      i <= poll'[d].cursor
               PROVE  i \in poll'[d].got \cup poll'[d].lost
    BY DEF PollingMissesOnlyTrimmed
  <2>1. CASE d # dev
    BY <1>9, <2>1 DEF IInv, PollingMissesOnlyTrimmed
  <2>2. CASE d = dev /\ i <= poll[d].cursor
    BY <1>9, <2>2 DEF IInv, PollingMissesOnlyTrimmed
  <2>3. CASE d = dev /\ ~(i <= poll[d].cursor)
    <3>1. i \in poll[dev].sent
      BY <1>11, <2>3
    <3>2. i > poll[dev].cursor
      BY <1>5, <1>7, <2>3, <3>1 DEF Poll
    <3>3. i \in poll[dev].lost \/ \E e \in stream : e.dev = dev /\ e.id = i
      BY <3>1 DEF IInv, SentIsHeldOrLost
    <3>4. i \in poll[dev].lost \/ i \in ids
      BY <1>3, <3>2, <3>3 DEF Ids, Sent
    <3> QED
      BY <1>9, <2>3, <3>4
  <2> QED
    BY <2>1, <2>2, <2>3
<1> QED
  BY <1>15, <1>16, <1>17 DEF IInv

LEMMA InvNext == IInv /\ [Next]_vars => IInv'
<1> SUFFICES ASSUME IInv, [Next]_vars PROVE IInv'
  OBVIOUS
<1>1. CASE Tick
  <2>1. clock' \in 0 .. MaxTs
    BY <1>1, ConstantsOK DEF IInv, TypeOK, Tick
  <2> QED
    BY <1>1, <2>1 DEF Tick, IInv, TypeOK, WalkAsks, NoWalk, HeldWasSent,
                      SentIsHeldOrLost, PollingMissesOnlyTrimmed
<1>2. CASE AddLogs
  BY <1>2, XAddKeepsInv DEF AddLogs, Types
<1>3. CASE AddKnockResult
  BY <1>3, XAddKeepsInv DEF AddKnockResult, Types
<1>4. CASE NextPage
  BY <1>4, NextPageKeepsInv
<1>5. CASE \E d \in Devices, n \in Limits : StartWalk(d, n)
  BY <1>5, StartWalkKeepsInv
<1>6. CASE \E d \in Devices : PollNewer(d)
  BY <1>6, PollNewerKeepsInv
<1>7. CASE UNCHANGED vars
  BY <1>7 DEF vars, IInv, TypeOK, WalkAsks, NoWalk, HeldWasSent,
              SentIsHeldOrLost, PollingMissesOnlyTrimmed
<1> QED
  BY <1>1, <1>2, <1>3, <1>4, <1>5, <1>6, <1>7 DEF Next

LEMMA InvAlways == Spec => []IInv
BY InvInit, InvNext, PTL DEF Spec

\* The stream's entries stay distinct and numbered by the writer, and a client
\* never has an event of another device.
THEOREM TypeCorrect == Spec => []TypeOK
<1>1. IInv => TypeOK
  BY DEF IInv
<1> QED
  BY InvAlways, <1>1, PTL

\* A client that polls with the newest id it has seen misses only what the
\* writer trimmed before it asked, however appends, trims and polls interleave.
THEOREM PollingCorrect == Spec => []PollingMissesOnlyTrimmed
<1>1. IInv => PollingMissesOnlyTrimmed
  BY DEF IInv
<1> QED
  BY InvAlways, <1>1, PTL
-----------------------------------------------------------------------------
(* Properties of the answers, which hold wherever the stream is numbered.   *)

\* A page that is full leads beyond its cursor, whatever the cursor: a walk
\* never comes back to a page it has had.
THEOREM WalksAdvance == Spec => []WalkAdvances
<1>1. ASSUME TypeOK, NEW d \in Devices, NEW n \in Limits, NEW cursor \in 0 .. added
      PROVE  LET next == Page(d, cursor, n).nextCursor
             IN next = 0 \/ next > cursor
  <2>1. n \in Nat \ {0}
    BY ConstantsOK
  <2>2. cursor \in Nat
    BY <1>1 DEF TypeOK
  <2> QED
    BY <1>1, <2>1, <2>2, CursorLeadsOn
<1>2. TypeOK => WalkAdvances
  BY <1>1 DEF WalkAdvances
<1> QED
  BY TypeCorrect, <1>2, PTL

\* Whatever is newer than one of the newest entries is one of them too.
LEMMA NewestIsUpwardClosed ==
  ASSUME NEW m \in Nat, NEW es, Numbered(es, m), NEW k \in Nat,
         NEW e \in Newest(es, k), NEW f \in es, f.id > e.id
  PROVE  f \in Newest(es, k)
<1>1. Newer(es, f) \subseteq Newer(es, e)
  BY DEF Newer, Newest, Numbered
<1>2. Numbered(Newer(es, e), m)
  BY DEF Newer, Numbered
<1>3. Cardinality(Newer(es, f)) <= Cardinality(Newer(es, e))
      /\ Cardinality(Newer(es, f)) \in Nat /\ Cardinality(Newer(es, e)) \in Nat
  BY <1>1, <1>2, NumberedIsFinite, SubsetIsNumbered, FS_Subset
<1>4. Cardinality(Newer(es, e)) < k
  BY DEF Newest
<1>5. Cardinality(Newer(es, f)) < k
  BY <1>3, <1>4
<1> QED
  BY <1>5 DEF Newest

\* What get_latest_events leaves out of the query's first page is older than
\* everything it returns and buried under ReadFactor times the limit.
LEMMA LatestIsBeginning ==
  ASSUME TypeOK, NEW d \in Devices, NEW n \in Nat \ {0}
  PROVE  LET latest == GetLatest(d, n)
             page   == Page(d, 0, n).items
         IN /\ latest \subseteq page
            /\ \A e \in page \ latest :
                 /\ latest \subseteq Newer(page, e)
                 /\ Cardinality(Newer(stream, e)) >= ReadFactor * n
<1> DEFINE k      == ReadFactor * n
           read   == Newest(stream, k)
           mine   == {e \in stream : e.dev = d}
           seen   == {e \in read : e.dev = d}
           latest == Newest(seen, n)
           page   == Newest(mine, n)
<1>1. k \in Nat
  BY ConstantsOK
<1>2. added \in Nat /\ Numbered(stream, added)
  BY StreamIsNumbered DEF TypeOK
<1>3. GetLatest(d, n) = latest
  BY DEF GetLatest
<1>4. Page(d, 0, n).items = page
  <2>1. mine = Sent(d, 0)
    BY <1>2 DEF Sent, Numbered
  <2>2. Page(d, 0, n).items = Newest(Sent(d, 0), n)
    BY PageIsNewest
  <2> QED
    BY <2>1, <2>2
<1> HIDE DEF k
<1>5. seen \subseteq mine /\ seen = {e \in mine : e \in read}
  BY DEF Newest
<1>6. ASSUME NEW e \in seen PROVE Newer(seen, e) = Newer(mine, e)
  <2>1. ASSUME NEW f \in mine, f.id > e.id PROVE f \in seen
    BY <1>1, <1>2, <1>6, <2>1, NewestIsUpwardClosed
  <2> QED
    BY <1>5, <2>1 DEF Newer
<1>7. latest = {e \in page : e \in read}
  BY <1>5, <1>6 DEF Newest
<1>8. ASSUME NEW e \in page, e \notin latest
      PROVE  /\ latest \subseteq Newer(page, e)
             /\ Cardinality(Newer(stream, e)) >= k
  <2>1. e \in stream /\ e \notin read
    BY <1>7, <1>8 DEF Newest
  <2>2. Cardinality(Newer(stream, e)) \in Nat
    BY <1>2, SubsetIsNumbered, NumberedIsFinite DEF Newer
  <2>3. ~(Cardinality(Newer(stream, e)) < k)
    BY <2>1 DEF Newest
  <2>4. ASSUME NEW f \in latest PROVE f \in page /\ f.id > e.id
    <3>1. f \in page /\ f \in read /\ f \in stream
      BY <1>7 DEF Newest
    <3>2. ~(e.id > f.id)
      BY <1>1, <1>2, <2>1, <3>1, NewestIsUpwardClosed
    <3>3. e.id # f.id
      BY <1>2, <2>1, <3>1 DEF Numbered
    <3>4. e.id \in Nat /\ f.id \in Nat
      BY <1>2, <2>1, <3>1 DEF Numbered
    <3> QED
      BY <3>1, <3>2, <3>3, <3>4
  <2> QED
    BY <1>1, <2>2, <2>3, <2>4 DEF Newer
<1>9. latest \subseteq page
  BY <1>7
<1> QED
  BY <1>3, <1>4, <1>8, <1>9 DEF k

\* /latest is the beginning of the event query's first page, and misses only
\* what lies behind the entries it reads.
THEOREM LatestCorrect == Spec => []LatestMissesOnlyBuried
<1>1. ASSUME TypeOK, NEW d \in Devices, NEW n \in Limits
      PROVE  LET latest == GetLatest(d, n)
                 page   == Page(d, 0, n).items
             IN /\ latest \subseteq page
                /\ \A e \in page \ latest :
                     /\ latest \subseteq Newer(page, e)
                     /\ Cardinality(Newer(stream, e)) >= ReadFactor * n
  <2>1. n \in Nat \ {0}
    BY ConstantsOK
  <2> QED
    BY <1>1, <2>1, LatestIsBeginning
<1>2. TypeOK => LatestMissesOnlyBuried
  BY <1>1 DEF LatestMissesOnlyBuried
<1> QED
  BY TypeCorrect, <1>2, PTL

-----------------------------------------------------------------------------
(* The statistics.                                                         *)

\* The bucket of a time is the one whose bounds enclose it.
LEMMA BucketEncloses ==
  ASSUME NEW size \in Nat \ {0}, NEW t \in Nat, NEW u \in Nat
  PROVE  BucketStart(t, size) = BucketStart(u, size)
           <=> t \in BucketStart(u, size) .. BucketStart(u, size) + size - 1
<1> DEFINE p == t \div size
           q == u \div size
<1>1. p \in Nat /\ p * size <= t /\ t < p * size + size
  BY DivBounds
<1>2. q \in Nat /\ q * size <= u /\ u < q * size + size
  BY DivBounds
<1> HIDE DEF p, q
<1>3. PICK a, b : a = p * size /\ b = q * size
  OBVIOUS
<1>4. a \in Nat /\ b \in Nat
  BY <1>1, <1>2, <1>3
<1>5. ASSUME t \in b .. b + size - 1 PROVE a = b
  <2>1. b <= t /\ t < b + size
    BY <1>4, <1>5
  <2>2. p = q
    BY <1>1, <1>2, <1>3, <2>1, DivUnique
  <2> QED
    BY <1>3, <2>2
<1>6. ASSUME a = b PROVE t \in b .. b + size - 1
  <2>1. a <= t /\ t < a + size
    BY <1>1, <1>3
  <2> QED
    BY <1>4, <1>6, <2>1
<1>7. BucketStart(t, size) = a /\ BucketStart(u, size) = b
  BY <1>3 DEF BucketStart, p, q
<1> QED
  BY <1>5, <1>6, <1>7

\* The knock results of a device in a window, matched, failed or both.
Results(d, m, w) ==
  {e \in stream : /\ e.dev = d /\ e.type = "knock_result"
                  /\ m = All \/ e.matched = (m = "yes")
                  /\ e.ts \in w.from .. w.to}

\* The query for knock results returns all of them.
LEMMA QueryIsResults ==
  ASSUME TypeOK, NEW d \in Devices, NEW m, NEW w \in Window, w.aware
  PROVE  GetEvents(d, "knock_result", m, w, 0, MaxEvents + 1).items
           = Results(d, m, w)
<1> DEFINE found == {e \in NewerThan(0) : Matches(e, d, "knock_result", m, w)}
<1>1. Numbered(stream, MaxEvents) /\ MaxEvents \in Nat
  BY StreamIsNumbered, ConstantsOK
<1>2. \A e \in stream : Matches(e, d, "knock_result", m, w)
        <=> /\ e.dev = d /\ e.type = "knock_result"
            /\ m = All \/ e.matched = (m = "yes")
            /\ e.ts \in w.from .. w.to
  <2>1. "knock_result" # All
    BY DEF All
  <2> QED
    BY <2>1 DEF Matches, InWindow
<1>3. NewerThan(0) = stream
  BY <1>1 DEF NewerThan, Numbered
<1>4. found = Results(d, m, w)
  BY <1>2, <1>3 DEF Results
<1>5. Numbered(found, MaxEvents)
  BY <1>1, <1>3, SubsetIsNumbered
<1>6. Newest(found, MaxEvents + 1) = found
  BY <1>1, <1>5, LargePageIsAll
<1>7. GetEvents(d, "knock_result", m, w, 0, MaxEvents + 1).items
        = Newest(found, MaxEvents + 1)
  BY DEF GetEvents
<1> QED
  BY <1>4, <1>6, <1>7
\* The entries get_knock_stats counts in a bucket.
InBucket(d, w, size, b) == {e \in Knocks(d, w) : BucketStart(e.ts, size) = b}

LEMMA BucketIsResults ==
  ASSUME TypeOK, NEW d \in Devices, NEW w \in Window,
         NEW size \in Nat \ {0}, NEW u \in Nat
  PROVE  LET b == BucketStart(u, size)
             In(m) == {e \in Results(d, m, w) : e.ts \in b .. b + size - 1}
         IN /\ In(All) = InBucket(d, w, size, b)
            /\ In("yes") = {e \in InBucket(d, w, size, b) : e.matched}
            /\ In("no") = {e \in InBucket(d, w, size, b) : ~e.matched}
<1> DEFINE b == BucketStart(u, size)
<1>1. \A e \in stream : e.ts \in Nat /\ e.matched \in BOOLEAN
  BY ConstantsOK DEF TypeOK, Event
<1>2. \A e \in stream :
        BucketStart(e.ts, size) = b <=> e.ts \in b .. b + size - 1
  BY <1>1, BucketEncloses
<1>3. w.from \in Nat /\ w.to \in Nat
  BY ConstantsOK DEF Window
<1>4. \A e \in stream :
        e.ts \in w.from .. w.to <=> w.from <= e.ts /\ e.ts <= w.to
  BY <1>1, <1>3
<1> HIDE DEF b
<1>5. {e \in Results(d, All, w) : e.ts \in b .. b + size - 1}
        = InBucket(d, w, size, b)
  BY <1>2, <1>4 DEF Results, InBucket, Knocks
<1>6. {e \in Results(d, "yes", w) : e.ts \in b .. b + size - 1}
        = {e \in InBucket(d, w, size, b) : e.matched}
  <2>1. "yes" # All
    BY DEF All
  <2>2. \A e \in stream : (e.matched = ("yes" = "yes")) <=> e.matched
    BY <1>1
  <2> QED
    BY <1>2, <1>4, <2>1, <2>2 DEF Results, InBucket, Knocks
<1>7. {e \in Results(d, "no", w) : e.ts \in b .. b + size - 1}
        = {e \in InBucket(d, w, size, b) : ~e.matched}
  <2>1. "no" # All
    BY DEF All
  <2>2. \A e \in stream : (e.matched = ("no" = "yes")) <=> ~e.matched
    BY <1>1
  <2> QED
    BY <1>2, <1>4, <2>1, <2>2 DEF Results, InBucket, Knocks
<1> QED
  BY <1>5, <1>6, <1>7 DEF b

\* What the query counts in a bucket is the bucket's point, or nothing where
\* the statistics have no point.
LEMMA CountIsPoint ==
  ASSUME TypeOK, NEW d \in Devices, NEW w \in Window, w.aware,
         NEW size \in Nat \ {0}, NEW u \in Nat
  PROVE  LET b == BucketStart(u, size)
             Count(m) ==
               Cardinality({e \in GetEvents(d, "knock_result", m, w, 0,
                                            MaxEvents + 1).items :
                              e.ts \in b .. b + size - 1})
             stats == KnockStats(d, size, w)
         IN [total |-> Count(All), matched |-> Count("yes"), failed |-> Count("no")]
              = IF b \in DOMAIN stats THEN stats[b]
                ELSE [total |-> 0, matched |-> 0, failed |-> 0]
<1> DEFINE b     == BucketStart(u, size)
           es    == InBucket(d, w, size, b)
           stats == KnockStats(d, size, w)
           Query(m) == GetEvents(d, "knock_result", m, w, 0, MaxEvents + 1).items
           Hits(m)  == {e \in Query(m) : e.ts \in b .. b + size - 1}
<1>1. Hits(All) = es /\ Hits("yes") = {e \in es : e.matched}
      /\ Hits("no") = {e \in es : ~e.matched}
  <2>1. Query(All) = Results(d, All, w) /\ Query("yes") = Results(d, "yes", w)
        /\ Query("no") = Results(d, "no", w)
    BY QueryIsResults
  <2> QED
    BY <2>1, BucketIsResults
<1>2. DOMAIN stats = {BucketStart(e.ts, size) : e \in Knocks(d, w)}
  BY DEF KnockStats
<1>3. ASSUME b \in DOMAIN stats PROVE stats[b] = Point(es)
  BY <1>2, <1>3 DEF KnockStats, InBucket
<1>4. ASSUME b \notin DOMAIN stats
      PROVE  Point(es) = [total |-> 0, matched |-> 0, failed |-> 0]
  <2>1. es = {}
    BY <1>2, <1>4 DEF InBucket
  <2>2. {e \in es : e.matched} = {} /\ {e \in es : ~e.matched} = {}
    BY <2>1
  <2> QED
    BY <2>1, <2>2, FS_EmptySet DEF Point
<1>5. [total |-> Cardinality(Hits(All)), matched |-> Cardinality(Hits("yes")),
       failed |-> Cardinality(Hits("no"))] = Point(es)
  BY <1>1 DEF Point
<1> HIDE DEF b, es, stats, Hits
<1>6. [total |-> Cardinality(Hits(All)), matched |-> Cardinality(Hits("yes")),
       failed |-> Cardinality(Hits("no"))]
        = IF b \in DOMAIN stats THEN stats[b]
          ELSE [total |-> 0, matched |-> 0, failed |-> 0]
  BY <1>3, <1>4, <1>5
<1> QED
  BY <1>6 DEF b, stats, Hits

\* The statistics and the event query count the same knock results in every
\* bucket of every window, at every size of the buckets.
THEOREM StatsCorrect == Spec => []StatsAgreeWithQuery
<1>1. TypeOK => StatsAgreeWithQuery
  <2> SUFFICES ASSUME TypeOK, NEW d \in Devices, NEW size \in BucketSizes,
                      NEW w \in {v \in Window : v.aware}, NEW u \in 0 .. MaxTs
               PROVE  LET b == BucketStart(u, size)
                          Count(m) ==
                            Cardinality({e \in GetEvents(d, "knock_result", m, w,
                                                         0, MaxEvents + 1).items :
                                           e.ts \in b .. b + size - 1})
                          stats == KnockStats(d, size, w)
                      IN [total |-> Count(All), matched |-> Count("yes"),
                          failed |-> Count("no")]
                           = IF b \in DOMAIN stats THEN stats[b]
                             ELSE [total |-> 0, matched |-> 0, failed |-> 0]
    BY DEF StatsAgreeWithQuery
  <2>1. size \in Nat \ {0} /\ u \in Nat
    BY ConstantsOK
  <2> QED
    BY <2>1, CountIsPoint
<1> QED
  BY TypeCorrect, <1>1, PTL
=============================================================================
