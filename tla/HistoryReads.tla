---------------------------- MODULE HistoryReads -----------------------------
(***************************************************************************)
(* The readers of native history over a store that keeps moving: clients    *)
(* that page through the events under a watermark (duskEventHistory.ts),    *)
(* the process cache between them (duskQuoteCache.ts), and a chart that      *)
(* refreshes the suffix of its candles that changed (duskQuoteHistory.ts).  *)
(* Every read is one repeatable-read transaction, so what it sees is one    *)
(* committed version of the store; the database is the sequence of these.   *)
(***************************************************************************)
EXTENDS Naturals, Sequences, FiniteSets, FiniteSetsExt

CONSTANTS
    Events,     \* one market's events
    Samples,    \* those of them that carry a price
    Rank,       \* [Events -> 1, 2, .. by (slot, event_key)], all different
    Bucket,     \* [Samples -> the candle its time falls into, 1, 2, ..]
    Walkers,    \* clients that page through the events
    Charts,     \* clients that refresh candles
    PageLimit,
    None

VARIABLES
    drawn,    \* [Events -> the id that the INSERT drew from the sequence, or 0]
    db,       \* committed versions: [obs, canon, revision]
    entries,  \* the cache's entries: [key, page]
    pending,  \* the walkers whose load is registered and of this generation
    walk,     \* [Walkers -> the request and the pages accepted so far]
    chart     \* [Charts -> the candles shown and missed (history), or None]

vars == <<drawn, db, entries, pending, walk, chart>>

Buckets == 1..Max({Bucket[e] : e \in Samples})
Now == Len(db)

\* observation_id is 0 before the observation is stored.
Versions == [obs: [Events -> 0..Cardinality(Events)], canon: SUBSET Events, revision: Nat]

\* A cursor is the watermark of the walk's first page and the last rank read.
Cursors == [watermark: 0..Cardinality(Events), rank: Nat] \cup {None}
Keys == [revision: Nat, watermark: 0..Cardinality(Events), cursor: Cursors]

TypeOK ==
    /\ drawn \in [Events -> 0..Cardinality(Events)]
    /\ \A n \in 1..Now : db[n] \in Versions
    /\ \A entry \in entries : entry.key \in Keys /\ entry.page \subseteq Events
    /\ pending \subseteq {w \in Walkers : walk[w].at = "loading"}
    /\ \A w \in Walkers :
          /\ walk[w].at \in {"idle", "loading", "waiting"}
          /\ walk[w].version \in 0..Now
          /\ walk[w].cursor \in Cursors
          /\ walk[w].seen \subseteq Events /\ walk[w].begun \subseteq Events
    /\ \A c \in Charts : chart[c] = None \/
          (chart[c].shown \subseteq Events /\ chart[c].until \in Buckets)

-----------------------------------------------------------------------------
(* What a transaction on version n sees. *)

Visible(n) == db[n].canon

\* ORDER BY observation_id DESC LIMIT 1 over the observations, canonical or not.
Watermark(n) == Max({db[n].obs[e] : e \in Events} \cup {0})

\* max(observation_id) over streamed_market_snapshots.
QuoteRevision(n) == Max({db[n].obs[e] : e \in Visible(n) \cap Samples} \cup {0})

\* The rows of a page and the one beyond it, by falling (slot, event_key).
Matching(n, watermark, cursor) ==
    {e \in Visible(n) :
        /\ db[n].obs[e] <= watermark
        /\ cursor # None => Rank[e] < cursor.rank}

FirstOf(es, k) == {e \in es : Cardinality({f \in es : Rank[f] > Rank[e]}) < k}

PageWatermark_latest(n, cursor) == Watermark(n)

\* A walk keeps the watermark of its first page.
PageWatermark(n, cursor) == IF cursor = None THEN Watermark(n) ELSE cursor.watermark

Page(n, cursor) ==
    FirstOf(Matching(n, PageWatermark(n, cursor), cursor), PageLimit)

HasMore(n, cursor) ==
    Cardinality(Matching(n, PageWatermark(n, cursor), cursor)) > PageLimit

KeyOf(n, cursor) ==
    [revision |-> db[n].revision, watermark |-> Watermark(n), cursor |-> cursor]

-----------------------------------------------------------------------------

Init ==
    /\ drawn = [e \in Events |-> 0]
    /\ db = <<[obs |-> [e \in Events |-> 0], canon |-> {}, revision |-> 0]>>
    /\ entries = {} /\ pending = {}
    /\ walk = [w \in Walkers |->
                  [at |-> "idle", version |-> 0, key |-> None, on |-> None,
                   cursor |-> None, more |-> TRUE, seen |-> {}, from |-> 0, begun |-> {}]]
    /\ chart = [c \in Charts |-> None]

readers == <<entries, pending, walk, chart>>

\* The triggers on all three event tables bump the revision in the writer's
\* transaction; the row they update is locked until it commits.
Bumped(revision) == revision + 1

\* The events whose INSERT has drawn its id.
Drawn == {e \in Events : drawn[e] # 0}

\* BIGSERIAL: the INSERT of an observation draws the next id at once. Only then,
\* AFTER ROW, does the trigger take the lock on the state's row; the daemon and
\* a replay may both be between the two. (An id that is rolled back is a gap.)
Draw(e) ==
    /\ drawn[e] = 0
    /\ drawn' = [drawn EXCEPT ![e] = Max({drawn[f] : f \in Events}) + 1]
    /\ UNCHANGED <<db, readers>>

\* The observation commits, in whatever order the ids were drawn.
Observe(e) ==
    LET v == db[Now]
    IN /\ drawn[e] # 0 /\ v.obs[e] = 0
       /\ db' = Append(db, [v EXCEPT !.obs[e] = drawn[e],
                                     !.revision = Bumped(@)])
       /\ UNCHANGED <<drawn, readers>>

\* The canonical and the stream row follow, at once or, after a dropped write,
\* when the transaction is delivered again.
Publish(e) ==
    LET v == db[Now]
    IN /\ v.obs[e] # 0 /\ e \notin v.canon
       /\ db' = Append(db, [v EXCEPT !.canon = @ \cup {e},
                                     !.revision = Bumped(@)])
       /\ UNCHANGED <<drawn, readers>>

-----------------------------------------------------------------------------

\* The request is over; what it read is of no further use.
Idle(x) == [x EXCEPT !.at = "idle", !.key = None, !.version = 0, !.on = None]

\* The client accepts a page: its rows and the cursor of the next one.
Accept(x, page, more) ==
    [Idle(x) EXCEPT !.seen = @ \cup page,
                    !.more = more,
                    !.cursor = IF more
                               THEN [watermark |-> PageWatermark(x.version, x.cursor),
                                     rank |-> Min({Rank[e] : e \in page})]
                               ELSE None]

\* A request reads the state and looks its page up: it takes an entry, waits
\* for a load that is under way, or loads. An entry whose time is over is
\* deleted by the lookup, and one that the limit evicted is not there.
Request(w) ==
    /\ walk[w].at = "idle" /\ walk[w].more
    /\ LET cursor == walk[w].cursor
           key == KeyOf(Now, cursor)
           x == [walk[w] EXCEPT !.version = Now, !.key = key,
                                !.from = IF cursor = None THEN Now ELSE @,
                                !.begun = IF cursor = None THEN Drawn ELSE @]
           unkeyed == {entry \in entries : entry.key # key}
       IN \/ /\ \E entry \in entries \ unkeyed :
                   walk' = [walk EXCEPT ![w] = Accept(x, entry.page, entry.more)]
             /\ UNCHANGED <<entries, pending>>
          \/ /\ entries' = unkeyed
             /\ \E p \in pending :
                   /\ walk[p].key = key
                   /\ walk' = [walk EXCEPT ![w] = [x EXCEPT !.at = "waiting", !.on = p]]
             /\ UNCHANGED pending
          \/ /\ entries' = unkeyed
             /\ \A p \in pending : walk[p].key # key
             /\ walk' = [walk EXCEPT ![w] = [x EXCEPT !.at = "loading"]]
             /\ pending' = pending \cup {w}
    /\ UNCHANGED <<drawn, db, chart>>

\* The requests that w's load answers: its own and those that share its promise.
Answered(w) == {u \in Walkers : u = w \/ (walk[u].at = "waiting" /\ walk[u].on = w)}

\* The generation is the one that the load began in: clear(), which ends it,
\* also empties pending, and nothing but its own end unregisters a load.
Stores(w) == w \in pending

Loaded(w) ==
    /\ walk[w].at = "loading"
    /\ LET x == walk[w]
           page == Page(x.version, x.cursor)
           more == HasMore(x.version, x.cursor)
       IN /\ entries' = IF Stores(w)
                        THEN entries \cup {[key |-> x.key, page |-> page, more |-> more]}
                        ELSE entries
          /\ walk' = [u \in Walkers |->
                         IF u \in Answered(w) THEN Accept(walk[u], page, more) ELSE walk[u]]
    /\ pending' = pending \ {w}
    /\ UNCHANGED <<drawn, db, chart>>

\* clear() drops what is held and disowns the loads that are under way.
Cleared == entries' = {} /\ pending' = {}

\* A failed load fails those that share it, and they clear the cache.
LoadFails(w) ==
    /\ walk[w].at = "loading"
    /\ walk' = [u \in Walkers |-> IF u \in Answered(w) THEN Idle(walk[u]) ELSE walk[u]]
    /\ Cleared
    /\ UNCHANGED <<drawn, db, chart>>

\* On a notice and on each of the listener's transitions.
Clear ==
    /\ Cleared
    /\ UNCHANGED <<drawn, db, walk, chart>>

-----------------------------------------------------------------------------

\* The samples of the buckets from..until.
Candles(n, from, until) ==
    {e \in Visible(n) \cap Samples : from <= Bucket[e] /\ Bucket[e] <= until}

\* The first read covers the whole window.
OpenChart(c, until) ==
    /\ chart[c] = None
    /\ chart' = [chart EXCEPT ![c] =
                    [shown |-> Candles(Now, 1, until), until |-> until,
                     revision |-> QuoteRevision(Now), missed |-> {}]]
    /\ UNCHANGED <<drawn, db, entries, pending, walk>>

\* The suffix begins at the oldest bucket with a newer id, and at the latest
\* at the last bucket shown, which may have been partial.
RefreshFrom(x) ==
    LET newer == {e \in Visible(Now) \cap Samples : db[Now].obs[e] > x.revision}
    IN Min({Bucket[e] : e \in newer} \cup {x.until})

\* The chart sends the revision and the end of what it shows and replaces the
\* suffix that it is answered. A revision that has fallen back is refused.
Refresh(c, until) ==
    LET x == chart[c]
        from == RefreshFrom(x)
        shown == {e \in x.shown : Bucket[e] < from} \cup Candles(Now, from, until)
    IN /\ x # None
       /\ until >= x.until
       /\ QuoteRevision(Now) >= x.revision
       /\ chart' = [chart EXCEPT ![c] =
              [shown |-> shown, until |-> until, revision |-> QuoteRevision(Now),
               missed |-> Candles(Now, 1, until) \ shown]]
       /\ UNCHANGED <<drawn, db, entries, pending, walk>>

-----------------------------------------------------------------------------

Next ==
    \/ \E e \in Events : Draw(e) \/ Observe(e) \/ Publish(e)
    \/ \E w \in Walkers : Request(w) \/ Loaded(w) \/ LoadFails(w)
    \/ Clear
    \/ \E c \in Charts, until \in Buckets : OpenChart(c, until) \/ Refresh(c, until)

Spec == Init /\ [][Next]_vars

-----------------------------------------------------------------------------

\* Whatever the cache holds for a key, or is loading for it, is what a read
\* of any version that maps to this key would compute, late events included.
CacheIsTruth ==
    \A entry \in entries, n \in 1..Now :
        KeyOf(n, entry.key.cursor) = entry.key =>
            /\ entry.page = Page(n, entry.key.cursor)
            /\ entry.more = HasMore(n, entry.key.cursor)

\* A walk that has read its last page has every event that its first page's
\* version held, whatever was stored in between, and at no time one whose
\* INSERT began after its first page. One that was under way then may show up
\* in the middle of the walk: its id is below the watermark (dusk-runtime.md:176).
WalkIsOfItsTime ==
    \A w \in Walkers :
        /\ ~walk[w].more => Visible(walk[w].from) \subseteq walk[w].seen
        /\ walk[w].seen \subseteq walk[w].begun

\* Samples that became visible below the revision that was visible before.
Late ==
    {e \in Samples : \E n \in 2..Now :
        /\ e \in Visible(n) \ Visible(n - 1)
        /\ db[n].obs[e] < QuoteRevision(n - 1)}

\* A refreshed chart misses no sample but such as became visible out of the
\* order of the ids: a slower commit, or a write that failed and came back.
RefreshSound ==
    \A c \in Charts :
        chart[c] # None => chart[c].missed \subseteq Late

\* "Every observation arrival advances the revision, including a replayed older
\* one, so a client refresh can widen to its bucket" (duskQuoteHistory.ts:150-151):
\* after a refresh the chart shows all the samples of its window.
RefreshIsComplete ==
    \A c \in Charts :
        chart[c] # None => chart[c].missed = {}

\* The readers' promises together.
WalksAreTrue == CacheIsTruth /\ WalkIsOfItsTime /\ RefreshSound
=============================================================================
