---------------------------- MODULE PagedReads ----------------------------
(***************************************************************************)
(* The activity pages of the HTTP API -- a user's or a market's swaps, a   *)
(* user's liquidity and lending events, a user's and a market's activity   *)
(* feed -- as a client walks them page after page while rows arrive: the   *)
(* pages are cached, two listeners drop cached pages when the database     *)
(* announces a row, and the `swaps` history pages by a cursor where the    *)
(* others page by offset.                                                  *)
(*                                                                         *)
(* In a Dusk database every table these pages read is a view over the      *)
(* event stream whose `id` is row_number() OVER (ORDER BY time)            *)
(* (020_dusk_v1_compatibility.sql): a row with an older time shifts the    *)
(* ids of the rows after it, and rows of one time are numbered in any      *)
(* order.  One client's walk of one feed is followed, and the cache as far *)
(* as that feed's pages go; other clients fill the same cache.            *)
(***************************************************************************)
EXTENDS Naturals, FiniteSets, SequencesExt, FiniteSetsExt

CONSTANTS
    Rows,       \* the event rows that may be stored
    Old,        \* those stored and announced before the process started
    KindOf,     \* "swap", "liquidity", "collateral", "debt", "liquidation", "update"
    UserOf,
    PairOf,
    TimeOf,     \* a row's time, in the microseconds of a timestamptz
    PerMs,      \* microseconds of a millisecond (1000; a bound)
    Feeds,      \* the feeds that are read: [family, user, pair, categories, sort]
    Limit,      \* rows of a page
    MaxOffset,  \* 10 000: the page of a larger offset is that of this one
    MaxCached,  \* pages the cache and its loads hold (bound; 10 000 in the code)
    None

VARIABLES
    stored,     \* the rows committed
    told,       \* the rows a notice of which has dropped the feed's pages
    notices,    \* the notices sent and not handled
    cache,      \* the feed's cached pages: where a page starts -> page
    loads,      \* the loads in flight: [from, page, attached, mine]
    walk        \* the followed client

vars == <<stored, told, notices, cache, loads, walk>>

(***************************************************************************)
(* What a feed shows.                                                      *)
(***************************************************************************)
Lending == {"collateral", "debt", "liquidation", "update"}
Wanted(x, y) == x = None \/ x = y

SwapsShow(f, r) == KindOf[r] = "swap" /\ Wanted(f.user, UserOf[r]) /\ Wanted(f.pair, PairOf[r])
LiquidityShow(f, r) == KindOf[r] = "liquidity" /\ f.user = UserOf[r] /\ f.pair = PairOf[r]
LendingShow(f, r) == KindOf[r] \in Lending /\ f.user = UserOf[r]

Category(r) ==
    CASE KindOf[r] = "swap" -> "swaps"
      [] KindOf[r] = "liquidity" -> "liquidity"
      [] OTHER -> "lending"

ActivityShow(f, r) ==
    Category(r) \in f.categories /\ f.user = UserOf[r] /\ Wanted(f.pair, PairOf[r])

\* A market's feed has no branch for position updates.
MarketShow(f, r) ==
    Category(r) \in f.categories /\ KindOf[r] # "update" /\ f.pair = PairOf[r]

Shows(f, r) ==
    \/ f.family = "swaps" /\ SwapsShow(f, r)
    \/ f.family = "liquidity" /\ LiquidityShow(f, r)
    \/ f.family = "lending" /\ LendingShow(f, r)
    \/ f.family = "activity" /\ ActivityShow(f, r)
    \/ f.family = "market" /\ MarketShow(f, r)

(***************************************************************************)
(* A page.  ids is one numbering the views may give the stored rows.       *)
(***************************************************************************)
Numberings(S) ==
    {s \in SetToSeqs(S) : \A i, j \in DOMAIN s : i < j => TimeOf[s[i]] <= TimeOf[s[j]]}

\* A row's id in the swaps view: its place among the swaps.
SwapId(ids, r) ==
    Cardinality({i \in DOMAIN ids : /\ KindOf[ids[i]] = "swap"
                                    /\ i <= CHOOSE j \in DOMAIN ids : ids[j] = r})

First == [offset |-> 0, cursor |-> <<>>]

CursorOf_extra(ids, page, more) == <<TimeOf[more] \div PerMs, SwapId(ids, more)>>

\* The cursor a swaps page hands out: the last row's id, and its time as
\* Date.toISOString() writes it, in milliseconds.
CursorOf(ids, page, more) == <<TimeOf[Last(page)] \div PerMs, SwapId(ids, Last(page))>>

\* ("timestamp", id) < (cursor.timestamp, cursor.id)
Below(ids, cursor, r) ==
    cursor # <<>> =>
        \/ TimeOf[r] < cursor[1] * PerMs
        \/ TimeOf[r] = cursor[1] * PerMs /\ SwapId(ids, r) < cursor[2]

Listing(f, ids, S) ==
    LET shown == SelectSeq(ids, LAMBDA r : r \in S)
    IN  IF f.sort = "oldest" THEN shown ELSE Reverse(shown)

NextFrom(f, from, ids, rows, more) ==
    IF f.family = "swaps"
    THEN [offset |-> 0, cursor |-> CursorOf(ids, rows, more)]
    ELSE [offset |-> Min({from.offset + Limit, MaxOffset}), cursor |-> <<>>]

Taken(s, offset, n) == SubSeq(s, offset + 1, IF offset + n < Len(s) THEN offset + n ELSE Len(s))

\* The query asks for one row more than the page, to know whether one follows.
PageOf(f, from, ids) ==
    LET all  == Listing(f, ids, {r \in stored : Shows(f, r) /\ Below(ids, from.cursor, r)})
        got  == Taken(all, from.offset, Limit + 1)
        rows == Taken(got, 0, Limit)
    IN  [rows |-> ToSet(rows),
         edge |-> IF rows = <<>> THEN None ELSE Last(rows),
         next |-> IF Len(got) > Limit
                  THEN NextFrom(f, from, ids, rows, Last(got))
                  ELSE First]

-----------------------------------------------------------------------------
Init ==
    /\ stored = Old
    /\ told = Old
    /\ notices = {}
    /\ cache = <<>>
    /\ loads = {}
    /\ walk \in {[feed |-> f, from |-> First, begun |-> FALSE, waits |-> FALSE, done |-> FALSE,
                  seen |-> {}, edges |-> {}, began |-> {}] : f \in Feeds}

\* A row commits and its insert triggers notify: dusk_events_updated for
\* every row, swap_updates for a swap.
Store(r) ==
    /\ r \notin stored
    /\ stored' = stored \cup {r}
    /\ notices' = notices \cup {<<r, "events">>}
                          \cup (IF KindOf[r] = "swap" THEN {<<r, "swaps">>} ELSE {})
    /\ UNCHANGED <<told, cache, loads, walk>>

\* Whether a notice drops the feed's pages: the read-model listener drops
\* every domain; the activity listener the keys of the trader, and the
\* activity of the market.
Drops(r, channel, f) ==
    \/ channel = "events"
    \/ IF f.family = "market" THEN f.pair = PairOf[r] ELSE f.user = UserOf[r]

\* cache.deleteByPrefix: cached pages go, loads in flight are detached.
Detached(load) == [load EXCEPT !.attached = FALSE]

Handle(n) ==
    /\ n \in notices
    /\ notices' = notices \ {n}
    /\ IF Drops(n[1], n[2], walk.feed)
       THEN /\ cache' = <<>>
            /\ loads' = {Detached(l) : l \in loads}
            /\ told' = told \cup {n[1]}
       ELSE UNCHANGED <<cache, loads, told>>
    /\ UNCHANGED <<stored, walk>>

\* A page outlives its 20 s to 180 s.
Expire(k) ==
    /\ cache' = Restrict(cache, DOMAIN cache \ {k})
    /\ UNCHANGED <<stored, told, notices, loads, walk>>

-----------------------------------------------------------------------------
Pending(k) == {l \in loads : l.from = k /\ l.attached}
Loading(k, mine) == [from |-> k, page |-> None, attached |-> TRUE, mine |-> mine]
HasRoom == Cardinality(loads) + Cardinality(DOMAIN cache) < MaxCached

\* Another client misses a page a walk can have reached: it leads a load.
Others(k) ==
    /\ HasRoom
    /\ k \notin DOMAIN cache
    /\ Pending(k) = {}
    /\ loads' = loads \cup {Loading(k, FALSE)}
    /\ UNCHANGED <<stored, told, notices, cache, walk>>

Begin ==
    /\ ~walk.begun
    /\ walk' = [walk EXCEPT !.begun = TRUE, !.began = {r \in told : Shows(walk.feed, r)}]
    /\ UNCHANGED <<stored, told, notices, cache, loads>>

Walked(page) ==
    [walk EXCEPT !.waits = FALSE,
                 !.seen = @ \cup page.rows,
                 !.edges = @ \cup ({page.edge} \ {None}),
                 !.from = page.next,
                 !.done = page.next = First]

\* getOrSetWithMeta: a hit, a join of the attached load, or a load of its own.
Ask ==
    /\ walk.begun /\ ~walk.done /\ ~walk.waits
    /\ \/ /\ walk.from \in DOMAIN cache
          /\ walk' = Walked(cache[walk.from])
          /\ UNCHANGED loads
       \/ /\ walk.from \notin DOMAIN cache
          /\ walk' = [walk EXCEPT !.waits = TRUE]
          /\ loads' = IF Pending(walk.from) = {} THEN loads \cup {Loading(walk.from, TRUE)}
                      ELSE {IF l \in Pending(walk.from) THEN [l EXCEPT !.mine = TRUE] ELSE l : l \in loads}
    /\ UNCHANGED <<stored, told, notices, cache>>

\* The query runs on one snapshot, under one numbering of the rows.
Query(l) ==
    /\ l.page = None
    /\ \E ids \in Numberings(stored) :
           loads' = (loads \ {l}) \cup {[l EXCEPT !.page = PageOf(walk.feed, l.from, ids)]}
    /\ UNCHANGED <<stored, told, notices, cache, walk>>

\* The load answers those that wait on it, and is cached while attached.
Finish(l) ==
    /\ l.page # None
    /\ loads' = loads \ {l}
    /\ cache' = IF l.attached THEN [k \in DOMAIN cache \cup {l.from} |-> IF k = l.from THEN l.page ELSE cache[k]]
                ELSE cache
    /\ walk' = IF l.mine THEN Walked(l.page) ELSE walk
    /\ UNCHANGED <<stored, told, notices>>

Next ==
    \/ \E r \in Rows : Store(r)
    \/ \E n \in notices : Handle(n)
    \/ \E k \in DOMAIN cache : Expire(k)
    \/ \E k \in {First} \cup {p.next : p \in Range(cache)} : Others(k)
    \/ Begin
    \/ Ask
    \/ \E l \in loads : Query(l) \/ Finish(l)

Spec == Init /\ [][Next]_vars

(***************************************************************************)
(* A finished walk has shown every row that had been announced to its feed *)
(* before it began, with two exceptions the code allows: a row of the same *)
(* millisecond as the last row of a page of swaps (the cursor is in        *)
(* milliseconds), or of the same time as the last row of a page of another *)
(* feed (ties may change places between pages); and, where pages are by    *)
(* offset, any row once the walk has met a row that is newer than its      *)
(* beginning, because the next page may have been cached before that row.  *)
(***************************************************************************)
SameInstant(f, r, e) ==
    IF f.family = "swaps" THEN TimeOf[r] \div PerMs = TimeOf[e] \div PerMs
    ELSE TimeOf[r] = TimeOf[e]

WalkMissesOnlyTies ==
    walk.done =>
        \A r \in walk.began \ walk.seen :
            \/ \E e \in walk.edges : SameInstant(walk.feed, r, e)
            \/ walk.feed.family # "swaps" /\ ~(walk.seen \subseteq walk.began)
=============================================================================
