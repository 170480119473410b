---------------------------- MODULE LpValuation -----------------------------
(***************************************************************************)
(* How LP earnings get their dollar values. The earnings worker allocates   *)
(* the source events that have no marker yet, batch by batch, at the hourly *)
(* prices stored by then (lpEarningsBackfillService.ts), the hourly         *)
(* reconciler fetches better prices for what it can still reach and values  *)
(* those rows again (lpValuationRepairService.ts), and both read and write  *)
(* one table of prices whose last writer wins (tokenPriceSnapshotService).  *)
(* A price, and the value computed from it, is its quality; a position's    *)
(* total (lp_position_earnings) is the set of valued events it sums up.     *)
(***************************************************************************)
EXTENDS Naturals, FiniteSets, FiniteSetsExt

CONSTANTS
    Events,     \* the events that earn something for a pair's LPs
    HourOf,     \* [Events -> the hour of event_timestamp]
    MintsOf,    \* [Events -> the mints of its nonzero sides]
    EarnersOf,  \* [Events -> the positions it is allocated to]
    Limit,      \* LP_EARNINGS_LIMIT
    Lookback,   \* LP_VALUATION_RECONCILE_LOOKBACK_HOURS
    MaxHour, MaxFaults,  \* bounds: of the clock; of failed runs and calls
    None

Mints == UNION {MintsOf[e] : e \in Events}
Positions == UNION {EarnersOf[e] : e \in Events}

Hours == {HourOf[e] : e \in Events}  \* the buckets that matter

VARIABLES
    hour,      \* the current bucket
    stored,    \* events in update_pair_events and swaps
    marked,    \* events in lp_earning_source_events
    value,     \* [Events -> quality of its rows in lp_position_earning_events, or None]
    total,     \* [Positions -> the valued events that lp_position_earnings sums up]
    price,     \* [Mints -> [Hours -> quality in token_price_snapshots, or None]]
    worker,    \* the earnings run: its step, batch, hours to price, fetch under way
    repair,    \* the reconciler's run: its step, range, prices lacking, positions revalued
    faults

vars == <<hour, stored, marked, value, total, price, worker, repair, faults>>

Qualities == {"historical", "estimated", "missing"}
NoFetch == [hour |-> None, mints |-> {}]
WorkerIdle == [at |-> "idle", batch |-> {}, left |-> {}, fetch |-> NoFetch]
RepairIdle == [at |-> "idle", from |-> 0, to |-> 0, lacking |-> [m \in Mints |-> {}],
               positions |-> {}]

TypeOK ==
    /\ hour \in 1..MaxHour
    /\ marked \subseteq stored /\ stored \subseteq Events
    /\ value \in [Events -> Qualities \cup {None}]
    /\ total \in [Positions -> SUBSET (Events \X Qualities)]
    /\ price \in [Mints -> [Hours -> Qualities \cup {None}]]
    /\ worker.at \in {"idle", "price", "store"}
    /\ worker.batch \subseteq stored /\ worker.left \subseteq Hours
    /\ repair.at \in {"idle", "fetch", "refresh"} /\ repair.positions \subseteq Positions
    /\ faults \in 0..MaxFaults

-----------------------------------------------------------------------------

\* amountAwarePriceQuality, and the CASE of both statements.
Worst(qualities) ==
    IF qualities \cap {"missing", None} # {} THEN "missing"
    ELSE IF "estimated" \in qualities THEN "estimated"
    ELSE "historical"

\* The value of an event's rows at the prices stored.
Valued(e) == Worst({price[m][HourOf[e]] : m \in MintsOf[e]})

\* Those of an hour that the worker has not passed.
Unmarked_cursor == {e \in stored \ marked : \A f \in marked : HourOf[f] <= HourOf[e]}

\* NOT EXISTS (... lp_earning_source_events ...)
Unmarked == stored \ marked

\* ORDER BY event_timestamp LIMIT; ids order the events of a time.
IsBatch(b) ==
    /\ b # {} /\ b \subseteq Unmarked
    /\ Cardinality(b) = Min({Limit, Cardinality(Unmarked)})
    /\ \A e \in b, f \in Unmarked \ b : HourOf[e] <= HourOf[f]

\* The worker asks again for prices that are missing, the reconciler for
\* estimated ones too.
WorkerRefreshes == {"missing"}

RepairRefreshes_missing == {"missing"}

RepairRefreshes == {"missing", "estimated"}

\* What a call to the providers may come to. Birdeye has a price for each hour
\* that is over; a failed call is a fault. The next best is a current price,
\* from Jupiter or from an earlier bucket, and either may have none.
Answers(m, h) ==
    IF h < hour THEN {"historical"} ELSE {"historical", "estimated", "missing"}

Outage(m, h) == {"estimated", "missing"}

-----------------------------------------------------------------------------

Init ==
    /\ hour = 1 /\ stored = {} /\ marked = {}
    /\ value = [e \in Events |-> None]
    /\ total = [p \in Positions |-> {}]
    /\ price = [m \in Mints |-> [h \in Hours |-> None]]
    /\ worker = WorkerIdle /\ repair = RepairIdle
    /\ faults = 0

Fault ==
    /\ faults < MaxFaults
    /\ faults' = faults + 1

Tick ==
    /\ hour < MaxHour
    /\ hour' = hour + 1
    /\ UNCHANGED <<stored, marked, value, total, price, worker, repair, faults>>

\* Ingestion stores a swap or an interest accrual, at its time or late.
Arrive(e) ==
    /\ e \notin stored /\ HourOf[e] <= hour
    /\ stored' = stored \cup {e}
    /\ UNCHANGED <<hour, marked, value, total, price, worker, repair, faults>>

-----------------------------------------------------------------------------

\* A tick of the worker, which starts no run beside one that is in flight.
FetchEvents(b) ==
    /\ worker.at = "idle"
    /\ IsBatch(b)
    /\ worker' = [WorkerIdle EXCEPT !.at = "price", !.batch = b,
                                    !.left = {HourOf[e] : e \in b}]
    /\ UNCHANGED <<hour, stored, marked, value, total, price, repair, faults>>

\* getHistoricalTokenPrices reads a bucket's prices before it fetches others.
LoadPrices ==
    /\ worker.at = "price"
    /\ \E h \in worker.left :
          /\ \A g \in worker.left : h <= g
          /\ LET mints == UNION {MintsOf[e] : e \in {f \in worker.batch : HourOf[f] = h}}
                 lacking == {m \in mints : price[m][h] \in WorkerRefreshes \cup {None}}
             IN worker' = IF lacking = {} THEN [worker EXCEPT !.left = @ \ {h}]
                          ELSE [worker EXCEPT !.at = "store",
                                              !.fetch = [hour |-> h, mints |-> lacking]]
    /\ UNCHANGED <<hour, stored, marked, value, total, price, repair, faults>>

\* The upsert, over whatever was stored meanwhile.
Put(table, m, hs, outcome) ==
    [table EXCEPT ![m] = [h \in Hours |-> IF h \in hs THEN outcome[h] ELSE @[h]]]

StorePrices ==
    /\ worker.at = "store"
    /\ LET h == worker.fetch.hour
           need == worker.fetch.mints
       IN /\ \E outcome \in [need -> Qualities] :
                /\ \/ /\ \A m \in need : outcome[m] \in Answers(m, h)
                      /\ UNCHANGED faults
                   \/ /\ \A m \in need : outcome[m] \in Answers(m, h) \cup Outage(m, h)
                      /\ Fault
                /\ price' = [m \in Mints |->
                                IF m \in need
                                THEN [price[m] EXCEPT ![h] = outcome[m]] ELSE price[m]]
          /\ worker' = [worker EXCEPT !.at = "price", !.left = @ \ {h}, !.fetch = NoFetch]
    /\ UNCHANGED <<hour, stored, marked, value, total, repair>>

\* The rows of a position, by what they are valued at.
Rows(p) == {<<e, value[e]>> : e \in {f \in Events : p \in EarnersOf[f] /\ value[f] # None}}

Refreshed(positions) == [p \in Positions |-> IF p \in positions THEN Rows(p) ELSE total[p]]

\* One statement in one transaction: the rows of the batch, at the prices it
\* sees, their markers, and the totals of their positions. The parts of a
\* statement do not see each other's writes: the totals sum up the old rows.
PersistBatch ==
    /\ worker.at = "price" /\ worker.left = {}
    /\ value' = [e \in Events |-> IF e \in worker.batch THEN Valued(e) ELSE value[e]]
    /\ marked' = marked \cup worker.batch
    /\ total' = Refreshed(UNION {EarnersOf[e] : e \in worker.batch})
    /\ worker' = WorkerIdle
    /\ UNCHANGED <<hour, stored, price, repair, faults>>

\* A query fails: nothing of the batch is kept, the next tick begins anew.
WorkerFails ==
    /\ worker.at # "idle"
    /\ Fault
    /\ worker' = WorkerIdle
    /\ UNCHANGED <<hour, stored, marked, value, total, price, repair>>

-----------------------------------------------------------------------------

Repairable_any(e, from, to) == e \in marked /\ from <= HourOf[e] /\ HourOf[e] < to

\* price_quality IN ('missing', 'estimated') and the times of the range, which
\* ends with the beginning of the hour that the run started in.
Repairable(e, from, to) ==
    /\ e \in marked /\ value[e] \in {"missing", "estimated"}
    /\ from <= HourOf[e] /\ HourOf[e] < to

\* The reconciler's hourly tick: the mints of the rows to repair, and the
\* buckets of the range for which their stored prices will not do.
StartRepair ==
    /\ repair.at = "idle"
    /\ LET from == IF hour > Lookback THEN hour - Lookback ELSE 0
           mints == UNION {MintsOf[e] : e \in {f \in Events : Repairable(f, from, hour)}}
           lacks(m) == {h \in Hours : /\ from <= h /\ h <= hour
                                      /\ price[m][h] \in RepairRefreshes \cup {None}}
       IN /\ mints # {}
          /\ repair' = [at |-> "fetch", from |-> from, to |-> hour,
                        lacking |-> [m \in Mints |-> IF m \in mints THEN lacks(m) ELSE {}],
                        positions |-> {}]
    /\ UNCHANGED <<hour, stored, marked, value, total, price, worker, faults>>

\* One call and one upsert a mint. A call that fails is as good as an answer
\* without points.
FetchRange(m) ==
    /\ repair.at = "fetch" /\ repair.lacking[m] # {}
    /\ LET hs == repair.lacking[m]
       IN \E outcome \in [hs -> Qualities] :
             /\ \/ /\ \A h \in hs : outcome[h] \in Answers(m, h)
                   /\ UNCHANGED faults
                \/ /\ \A h \in hs : outcome[h] \in Outage(m, h)
                   /\ Fault
             /\ price' = Put(price, m, hs, outcome)
    /\ repair' = [repair EXCEPT !.lacking[m] = {}]
    /\ UNCHANGED <<hour, stored, marked, value, total, worker>>

\* The rows are chosen anew, by what they are now.
Reprice ==
    /\ repair.at = "fetch" /\ \A m \in Mints : repair.lacking[m] = {}
    /\ LET rows == {e \in Events : Repairable(e, repair.from, repair.to)}
       IN /\ value' = [e \in Events |-> IF e \in rows THEN Valued(e) ELSE value[e]]
          /\ repair' = [repair EXCEPT !.at = "refresh",
                                       !.positions = UNION {EarnersOf[e] : e \in rows}]
    /\ UNCHANGED <<hour, stored, marked, total, price, worker, faults>>

\* A statement and a transaction of its own.
RefreshTotals ==
    /\ repair.at = "refresh"
    /\ total' = Refreshed(repair.positions)
    /\ repair' = RepairIdle
    /\ UNCHANGED <<hour, stored, marked, value, price, worker, faults>>

RepairFails ==
    /\ repair.at # "idle"
    /\ Fault
    /\ repair' = RepairIdle
    /\ UNCHANGED <<hour, stored, marked, value, total, price, worker>>

-----------------------------------------------------------------------------

WorkerStep == (\E b \in SUBSET stored : FetchEvents(b)) \/ LoadPrices \/ StorePrices \/ PersistBatch
RepairStep == StartRepair \/ (\E m \in Mints : FetchRange(m)) \/ Reprice \/ RefreshTotals

Next ==
    \/ Tick
    \/ \E e \in Events : Arrive(e)
    \/ WorkerStep \/ WorkerFails
    \/ RepairStep \/ RepairFails

Spec == Init /\ [][Next]_vars

-----------------------------------------------------------------------------

\* A row valued at a historical price keeps that value, although either process
\* may overwrite the price with a worse one that it asked for earlier.
HistoricalIsFinal ==
    [][\A e \in Events : value[e] = "historical" => value'[e] = "historical"]_vars

\* A total names events that are allocated, and lags behind their rows in one
\* direction only: what it counts at a historical price stands.
TotalsLag ==
    \A p \in Positions : \A r \in total[p] :
        r[1] \in marked /\ (r[2] = "historical" => value[r[1]] = "historical")

\* Every event that is stored gets its rows and its marker, late ones too,
\* however many runs fail.
EventuallyAllocated == []<>(stored \subseteq marked)

\* A row is valued at a historical price in the end, unless the reconciler no
\* longer reaches its hour, or does not reach it yet.
EventuallyHistorical ==
    []<>(\A e \in marked :
            value[e] = "historical" \/ HourOf[e] + Lookback < hour \/ HourOf[e] = hour)

\* Between two runs a position's total is the sum of its rows, which is what
\* lpPositionMetricsService shows beside their price quality.
TotalsFollow ==
    worker.at = "idle" /\ repair.at = "idle" => \A p \in Positions : total[p] = Rows(p)
=============================================================================
