---------------------------- MODULE ActivityReads -----------------------------
(***************************************************************************)
(* Native activity: the worker that copies economic events to               *)
(* market_activity_events, the sums of a window of time that the routes      *)
(* answer from it (duskMarketActivity.ts, duskActivityMath.ts), and the      *)
(* statistics snapshot that puts sums and open interest side by side        *)
(* (duskStatisticsSnapshot.ts).                                             *)
(*                                                                          *)
(* An amount's value is the set of prices that it was computed from.  A      *)
(* range is complete up to the cursor's time (historyScanCovers), but the   *)
(* daemon's catch-up and its queue write events that are older than it.     *)
(***************************************************************************)
EXTENDS Integers, FiniteSets, FiniteSetsExt

CONSTANTS
    None,
    Events,         \* of one market, in the order of their slots
    SlotOf,         \* [Events -> Nat \ {0}]
    BlockTime,      \* [Events -> the time of its slot]
    PayloadOf,      \* [Events -> what parseActivityEvent reads]
    Canonical,      \* the IDL's SwapExecuted has an origin
    Quotes,         \* provider prices: [asset, at]
    References,     \* the assets of the dated reference policy
    Stable,         \* those of them that are pegged
    Limit,          \* of a batch of the worker
    Window,         \* 24 hours
    Fresh,          \* two minutes
    MaxTime

VARIABLES
    clock,
    cursor,     \* the stream's cursor: [slot, time]
    writing,    \* the transaction that the daemon writes, or None
    canonical,  \* canonical events
    streamed,   \* [event -> time] of the event stream
    projected,  \* market_activity_events
    quotes,     \* provider prices stored
    late,       \* history: rows written behind the cursor's time
    answer,     \* a complete answer given, with the rows of its time, or None
    stats       \* the statistics capture

storeVars == <<clock, cursor, writing, canonical, streamed, projected, quotes, late>>
vars == <<storeVars, answer, stats>>

Assets == {"base", "quote"}
Other(a) == CHOOSE b \in Assets : b # a
Times == 0..MaxTime

-----------------------------------------------------------------------------
(* duskActivityMath.ts.                                                     *)

Settlement(e) == PayloadOf[e].name \in {"FlashLiquidationSettled", "EmergencyLiquidationSettled"}
Leverage(e) ==
    PayloadOf[e].name \in {"LeveragePositionOpened", "LeveragePositionUpdated",
                           "LeveragePositionClosed", "LeveragePositionLiquidated"}

\* A leverage event's swap is a trade of its own unless the swap has an event.
HasSwap(e) ==
    /\ PayloadOf[e].swap # None
    /\ PayloadOf[e].name = "SwapExecuted" \/ (Leverage(e) /\ ~Canonical)

\* Turnover of collateral; an update's only if it swaps or borrows.
Exposed(e) ==
    /\ PayloadOf[e].collateral
    /\ \/ Leverage(e) /\ (PayloadOf[e].name = "LeveragePositionUpdated" =>
                             PayloadOf[e].swap # None \/ PayloadOf[e].borrowed)
       \/ Settlement(e) /\ PayloadOf[e].leverage

PaysInterest(e) ==
    \/ Settlement(e)
    \/ PayloadOf[e].name \in {"MarketDebtUpdated", "LeveragePositionClosed",
           "LeveragePositionLiquidated", "HlpClosed", "HlpTerminalLiquidated"}

Amount(metric, asset, output) == [metric |-> metric, asset |-> asset, output |-> output]

Amounts(e) ==
    LET p == PayloadOf[e]
    IN  (IF HasSwap(e)
         THEN {Amount("volume", p.swap, Other(p.swap))}
              \cup {Amount(m, p.fee, None) : m \in {"swapFees", "retainedFees", "compoundedFees"}}
         ELSE {})
        \cup (IF p.name = "MarketDebtUpdated" /\ p.borrowed THEN {Amount("creditVolume", p.debt, None)} ELSE {})
        \cup (IF Exposed(e) THEN {Amount("marginVolume", Other(p.debt), None)} ELSE {})
        \cup (IF PaysInterest(e) THEN {Amount("reportedInterest", p.debt, None)} ELSE {})

\* The latest swap of an earlier slot that had been observed by then quotes
\* the market's spot price.
Captures(e) ==
    {p \in canonical \cap DOMAIN streamed :
        PayloadOf[p].name = "SwapExecuted" /\ SlotOf[p] < SlotOf[e] /\ streamed[p] <= streamed[e]}
Spot(e) == {p \in Captures(e) : \A q \in Captures(e) : SlotOf[q] <= SlotOf[p]}

\* The latest provider price that had been observed by then.
Provided(a, e) ==
    LET known == {q \in quotes : q.asset = a /\ q.at <= streamed[e]}
    IN {q \in known : \A r \in known : r.at <= q.at}

\* The reference policy's price, which no one observed, or the other asset's by
\* the spot price.
Reference(a) == [asset |-> a, at |-> 0]

Configured(a, e) ==
    IF a \in References THEN {Reference(a)}
    ELSE IF Spot(e) # {} /\ Other(a) \in References THEN {Reference(Other(a))} \cup Spot(e) ELSE {}

\* activityPriceBasis: an empty set is no price.
Price(a, e) ==
    LET other == IF a \in Stable THEN {}
                 ELSE IF Provided(Other(a), e) # {} THEN Provided(Other(a), e)
                 ELSE IF Other(a) \in Stable THEN Configured(Other(a), e) ELSE {}
    IN IF Provided(a, e) # {} THEN Provided(a, e)
       ELSE IF Spot(e) # {} /\ other # {} THEN other \cup Spot(e)
       ELSE Configured(a, e)

\* valueActivityAmounts: a trade by the leg that is a stablecoin.
Value(amount, e) ==
    LET leg == IF amount.output \in Stable /\ amount.asset \notin Stable
               THEN Price(amount.output, e) ELSE {}
    IN IF leg # {} THEN leg ELSE Price(amount.asset, e)

-----------------------------------------------------------------------------
(* The answers. Each is one repeatable-read transaction.                    *)

Covers_atEnd(scan, since, until) == since > 0 /\ until <= scan.time

\* historyScanCovers: strictly inside; a later arrival may share the last
\* millisecond. The release was registered at 0.
Covers(scan, since, until) == since > 0 /\ until < scan.time

InWindow(since, until) == {e \in projected : since <= streamed[e] /\ streamed[e] <= until}

Sums(since, until) ==
    [e \in InWindow(since, until) |-> {[amount |-> a, value |-> Value(a, e)] : a \in Amounts(e)}]

\* readMarketActivity.
Activity(since, until) ==
    [since |-> since, until |-> until, sums |-> Sums(since, until),
     complete |-> canonical = projected /\ Covers(cursor, since, until),
     through |-> cursor]

LastSlot(activity) == Max({SlotOf[e] : e \in DOMAIN activity.sums} \cup {activity.through.slot})

Rows == DOMAIN streamed \cup quotes

-----------------------------------------------------------------------------

Init ==
    /\ clock = 1
    /\ cursor = [slot |-> 0, time |-> 0]
    /\ writing = None
    /\ canonical = {} /\ streamed = [e \in {} |-> 0] /\ projected = {} /\ quotes = {} /\ late = {}
    /\ answer = None
    /\ stats = [at |-> "idle"]

Tick ==
    /\ clock < MaxTime
    /\ clock' = clock + 1
    /\ UNCHANGED <<cursor, writing, canonical, streamed, projected, quotes, late, answer, stats>>

\* The daemon writes one transaction at a time: the cursor's slot before its
\* rows. An event's time is that of its arrival, or its block's when it is
\* read back.
Advance(e, time) ==
    /\ writing = None /\ e \notin DOMAIN streamed
    /\ writing' = [event |-> e, time |-> time]
    /\ cursor' = [cursor EXCEPT !.slot = Max({@, SlotOf[e]})]
    /\ UNCHANGED <<clock, canonical, streamed, projected, quotes, late, answer, stats>>

WriteCanonical ==
    /\ writing # None /\ writing.event \notin canonical
    /\ canonical' = canonical \cup {writing.event}
    /\ UNCHANGED <<clock, cursor, writing, streamed, projected, quotes, late, answer, stats>>

WriteStream ==
    /\ writing # None /\ writing.event \in canonical
    /\ streamed' = [e \in DOMAIN streamed \cup {writing.event} |->
           IF e = writing.event THEN writing.time ELSE streamed[e]]
    /\ late' = IF writing.time < cursor.time THEN late \cup {writing.event} ELSE late
    /\ writing' = None
    /\ UNCHANGED <<clock, cursor, canonical, projected, quotes, answer, stats>>

\* touch_cursor, under the lock: after a transaction, or on a heartbeat.
Touch ==
    /\ writing = None /\ cursor.time < clock
    /\ cursor' = [cursor EXCEPT !.time = clock]
    /\ UNCHANGED <<clock, writing, canonical, streamed, projected, quotes, late, answer, stats>>

\* A provider's price, stored some time after it was observed.
Quote(q) ==
    /\ q \notin quotes /\ q.at <= clock
    /\ quotes' = quotes \cup {q}
    /\ late' = IF q.at < cursor.time THEN late \cup {q} ELSE late
    /\ UNCHANGED <<clock, cursor, writing, canonical, streamed, projected, answer, stats>>

\* projectMarketActivityBatch: the first events by slot, all of them or, if
\* one has no row in the stream yet, none.
ProjectBatch ==
    LET pending == canonical \ projected
        batch == {e \in pending : Cardinality({f \in pending : SlotOf[f] < SlotOf[e]}) < Limit}
    IN /\ batch # {} /\ batch \subseteq DOMAIN streamed
       /\ projected' = projected \cup batch
       /\ UNCHANGED <<clock, cursor, writing, canonical, streamed, quotes, late, answer, stats>>

-----------------------------------------------------------------------------

\* GET /analytics/activity for a window of the client's.
Answer(since, until) ==
    /\ since <= until /\ until <= clock
    /\ answer = None /\ stats.at = "idle"
    /\ Activity(since, until).complete
    /\ answer' = [activity |-> Activity(since, until), rows |-> Rows]
    /\ UNCHANGED <<storeVars, stats>>

\* captureStatisticsSnapshot('24h'): a window up to now, and the open
\* interest, each on a connection of its own.
Begin ==
    /\ answer = None /\ stats.at = "idle"
    /\ stats' = [at |-> "reading", now |-> clock, activity |-> None, positions |-> None, slot |-> None]
    /\ UNCHANGED <<storeVars, answer>>

ReadActivity ==
    /\ stats.at = "reading" /\ stats.activity = None
    /\ stats' = [stats EXCEPT !.activity = Activity(stats.now - Window, stats.now)]
    /\ UNCHANGED <<storeVars, answer>>

\* readMarketExposures: streamed_leverage_positions, and then the cursor.
ReadPositions ==
    /\ stats.at = "reading" /\ stats.positions = None
    /\ stats' = [stats EXCEPT !.positions = {e \in canonical : Leverage(e)}]
    /\ UNCHANGED <<storeVars, answer>>

CursorAfter(positions) == positions # None

ReadCursor ==
    /\ stats.at = "reading" /\ stats.slot = None
    /\ CursorAfter(stats.positions)
    /\ stats' = [stats EXCEPT !.slot = cursor.slot]
    /\ UNCHANGED <<storeVars, answer>>

\* A window that ends inside the covered range is read instead, if that is
\* recent and all of it after the registration.
Instead(through) == [since |-> through - 1 - Window, until |-> through - 1]

Show ==
    /\ stats.at = "reading" /\ stats.activity # None /\ stats.positions # None /\ stats.slot # None
    /\ LET through == stats.activity.through.time
           again == /\ through <= stats.now /\ stats.now - through < Fresh
                    /\ Instead(through).since > 0
           shown == IF again THEN Activity(Instead(through).since, Instead(through).until)
                    ELSE stats.activity
       IN stats' = [at |-> "shown", activity |-> shown, positions |-> stats.positions,
                    sourceSlot |-> Max({stats.slot, LastSlot(shown)})]
    /\ UNCHANGED <<storeVars, answer>>

-----------------------------------------------------------------------------

Daemon ==
    \/ \E e \in Events : BlockTime[e] <= clock /\ \E time \in {BlockTime[e], clock} : Advance(e, time)
    \/ WriteCanonical \/ WriteStream \/ Touch

Next ==
    \/ Tick \/ Daemon
    \/ \E q \in Quotes : Quote(q)
    \/ ProjectBatch
    \/ \E since, until \in Times : Answer(since, until)
    \/ Begin \/ ReadActivity \/ ReadPositions \/ ReadCursor \/ Show

Spec == Init /\ [][Next]_vars

-----------------------------------------------------------------------------

\* "Whole wall-clock ranges must lie strictly inside the covered interval"
\* (duskHistoryCoverage.ts:73-76): what a complete answer summed, and at what
\* prices, is what the same window gives at any later time, but for rows that
\* were stored behind the cursor's time since.
CompleteIsFinal ==
    answer # None =>
        LET a == answer.activity
        IN late \subseteq answer.rows => a.sums = Sums(a.since, a.until)

\* "The stream's slot, read after the positions, covers every event they
\* include" (duskStatisticsSnapshot.ts:8-10): no event behind the statistics,
\* of the sums or of the open interest, is of a slot beyond theirs.
StatisticsCovered ==
    stats.at = "shown" =>
        \A e \in stats.positions \cup DOMAIN stats.activity.sums : SlotOf[e] <= stats.sourceSlot
=============================================================================
