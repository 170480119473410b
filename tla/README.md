# TLA+ models of the Dusk indexer

The Dusk runtime turns the confirmed transactions of two Solana programs into
PostgreSQL rows and serves them. Its processes are the ingestion daemon (Rust,
`src/indexer/crates/dusk-daemon`), the API (TypeScript, `src/api`), a handful of
workers that run the API's code, and the gRPC server (Rust, `src/grpc`). They
share nothing but the database: the daemon writes, triggers notify, the others
listen, read, and ask the chain for what the stream does not carry.

This directory holds TLA+ modules of the parts where time, order and failure
decide what is correct, the TLC runs over them, and the theorems about them
that TLAPS checks. `PROJECT.json` is the machine-readable side: which lines each
definition models, which property each mutant breaks, what was found, and the
hazards the properties are for.

    Solana ──push──► Helius WebSocket ──channel──► processor ─┐
       │ └──RPC──► catch-up / --replay ───────────────────────┤   Ingestion
       │                                                      ▼
       │      cursor, observations, canonical, stream, orders     EventStore ⇒ EventLog
       │                                                      │ NOTIFY at commit
       │   workers: claims and activity  EventDrain ◄─────────┤
       │            LP earnings  LpValuation                  │
       ├──banks──►  portfolio    PortfolioCapture             │
       │                                                      ▼
       │                           one listening client each: API  InvalidationListener
       │                                      │            gRPC    GrpcStream, SwapStream
       │                              SimpleCache  ReadCache, change feeds  ChangeFeed
       │                                      │
       │        history  HistoryReads         │   snapshots pushed  SnapshotHub
       │        first-generation pages and values  PagedReads, MarketValues, PortfolioValues
       └──banks──► MarketSurface, WalletCapture, MarketBook, LeverageQuotes,
                   OwnerClaims, LiveYield, YieldRates, ActivityReads

Two things recur. A read of the database is a snapshot of its own unless it is in
a transaction, so several of them see several states. A read of the chain is
answered by some bank at or after the slot it names (`minContextSlot`), so two
reads are ordered only by the floor that the second one names.

## Inventory

| Component | State | Operations | What is hard | What makes it correct |
|---|---|---|---|---|
| Stream, processor, cursor, heartbeat, catch-up (`main.rs`, `catchup.rs`, `liveness.rs`, `processors.rs`, the Helius datasource) | socket and subscription, channel, transaction in hand, cursor mutex, open gap; `ingestion_cursors` | subscribe, push, receive, ingest, retry, drop, touch, notice silence, list, replay, close the gap, restart | five tasks and a second process around one cursor; outages, full channel, RPC failures, crashes | nothing confirmed is lost in silence; the cursor's slot covers every row; its time moves between transactions only; gaps get closed |
| Event store (`persist.rs`, `orders.rs`, migrations 018, 019, 040, 044, 046) | `event_observations`, `canonical_events`, `event_stream`, `order_instruction_observations` | two transactions per event, one statement per order, the streamed views | two writers of one key, redelivery, rollback between the commits, sequences | every stream row backed, each event once, folds in chain order, no deadlock |
| Invalidation listener and bus (`duskInvalidationService.ts`, `duskChangeBus.ts`) | `connection`, `starting`, the reconnect timer, the client's session | connect, LISTEN, disconnect, reconnect, start | events between two awaits, notices lost while nothing listens | what it missed is dropped or told |
| Read cache (`cache.ts`) | entry and pending promise per key | getOrSet, deleteByPrefix, expiry | a read that outlives an invalidation | never older than what the listener handled |
| Change feeds (`duskChangeStream.ts`) | phase, pending kind and slot, timer, frame in flight | open, schedule, send, write, close | the listener changes during two awaits; merging while sending | no commit missed in silence, no feed without a listener, no feed stuck |
| gRPC streams (`dusk_stream.rs`, `db_listener.rs`, `grpc_server.rs`) | watch channel with a generation, the shared observation, a stream's seen version; swaps held back, a broadcast | listen, subscribe, look, ask, frame, tick; receive, flush, give, skip | the listener is replaced during an await; the channel coalesces; clients lag | as the change feeds; no swap lost but by a named cause |
| Snapshot hub, shared snapshots, socket delivery (`duskSnapshotStream.ts`, `duskSharedSnapshot.ts`, `duskSocket.ts`, `duskPayloads.ts`) | topics and subscribers, `live_snapshots`, frames queued and in flight | subscribe, tick, leave, try-lock, capture, cooldown, deliver, acknowledge | last reader leaves during a tick; replicas race; slow readers | frames in order and unexpired, no orphaned topic, news arrives |
| History readers and caches (`duskEventHistory.ts`, `duskQuoteCache.ts`, `duskQuoteHistory.ts`) | watermark, cached pages, generation, a chart's revision | page, load, clear, refresh | ids commit out of order; a load overlaps `clear()` | a walk is of its first page's time; a cached page is what a read would give |
| Event drain and projections (`duskEventDrain.ts`, `duskYieldClaims.ts`, `duskMarketActivity.ts`) | pending, current pass, listening client, batch | wake, lock, select, commit, reject, reconnect, stop, restart | wakes during a pass, lost notices, replicas, late backfills | every event is projected, once; a worker at rest left nothing behind |
| LP earnings (`lpEarningsBackfillService.ts`, `lpValuationRepairService.ts`, `tokenPriceSnapshotService.ts`, price providers) | prices by hour, valued rows, totals, markers | batch, fetch, price, allocate, reprice, aggregate | two jobs on one price table, outages, late events | nothing unallocated for ever, good values stay |
| Portfolio worker (`duskPortfolioWorker.ts`, `duskPortfolioSnapshots.ts`) | evidence rows, checkpoints, a cycle's catalog | catalog, capture, commit, project, replay | confirmed discovery against finalized banks; crash between evidence and projection | nobody closed who is open; every capture projected |
| First-generation pages (`swapController.ts`, `userController.ts`, `marketActivityController.ts`, `activityInvalidationService.ts`) | cached pages | page by offset or cursor, invalidate | rows arrive between pages, ids of a view move | a walk skips only ties and shifted rows |
| Market value baselines (`marketValueBaselineService.ts`) | none | eleven queries, metrics, sums | eleven snapshots | a total is whole or absent |
| Portfolio snapshots (`portfolioSnapshotService.ts` and its scripts) | `portfolio_value_snapshots` | backfill on lanes, hourly snapshotter | shared index, failures, last writer wins | no bucket left out, no debt counted twice |
| Wallet capture (`duskWalletSnapshot.ts`, `duskOrderCapture.ts`, `duskLeverageValuation.ts`, ...) | one capture's parts and banks | list, value, fold flows, list again | every part from another bank, the stream behind | what is shown was held throughout, an executed order once |
| Market surface (`duskMarketService.ts`, `duskMarketSurface.ts`, `duskMarketCapacity.ts`) | three caches and what is in flight | discover, capture, quote, join, notice | older captures that end last | no answer falls behind one served |
| Activity and statistics (`duskMarketActivity.ts`, `duskActivityMath.ts`, `duskStatisticsSnapshot.ts`) | `market_activity_events`, prices | project, page, sum, capture | coverage by time, late rows and prices | a complete answer stays true |
| Owner and partner claims (`duskOwnerYield.ts`, `duskReferralPartner.ts`) | one capture | discover, read accounts | several statements over rows in any order | no claim left out |
| Live yield and rates (`duskYieldAccounting.ts`, `duskYieldRates.ts`, `duskHlpRates.ts`) | a cached rate | settle, publish, measure | two levels of floor division; times that do not follow slots | a claim pays what was shown; a rate is of its window |
| Market book (`duskVirtualBook.ts`, `virtualBook/*`, `duskEntryOrderBook.ts`) | a shared snapshot | preview, halve, combine, confirm orders | banks move between batches and orders | one market state, one release |
| Leverage quotes (`duskLeverageMaximum*.ts`) | slots in flight, known addresses | capture, search | a program of which nothing may be assumed | what is answered was executed |
| Decoding, identity, alerts, controllers, schema, old scripts | none shared | decode, attest, query | none | functions of their input |


## Modules

### The daemon and the tables

`Ingestion` is the daemon. Its variables follow the data: the chain
(`confirmed`), the socket (`socket`, `sub`, `wire`), the age of the last Clock
update (`age`: within `GAP`, within `STREAM_LIVENESS`, older), the channel
(`queue`), the two writers in the process (`pc`, `tx`, `done`, `attempt` for
"stream" and "catch_up"), the cursor mutex (`lock`), the heartbeat, the watcher
(`watch`, `gap`, `todo`), and what is in the database: `last` for
`last_observed_slot`, `rows`, and `vouched` for `updated_at`. Time is a set:
`vouched` holds the arrivals that `updated_at` is later than. Each await is the
end of a step. A transaction's rows are written one step each; what one of those
steps does in PostgreSQL is the next module's. `Restart` loses all but the
database and leaves `gap` where `main.rs:147` reads it. `--replay` is a process
with its own mutex, one step here.

`EventStore` is `persist_event` and `orders::persist` statement by statement, by
sessions that interleave, retry and die. `pc` says which transaction is open and
which locks are held (`Steps`); a unique key makes the second inserter wait, the
canonical row and the advisory lock are held until the commit. Deliveries carry
facts and a time, because redelivery changes the time and a fork can change the
facts. `StreamedEvents` and `Decides` are the readers' views of migration 046.

`EventLog` is what the tables promise: a log that only grows, each event once
with one set of facts, after the events its transaction emitted before it.
`EventStore` implements it with `log` mapped to the `streamed_events` view.

### Notices, caches and feeds

`InvalidationListener` has the listener's `connect()` calls, one per pool client
(`client[c]` says how far it is), the timer, and the commits with their notices.
It is composed, not run by itself: `ReadCache` and `ChangeFeed` extend it and
conjoin their own reaction to its steps, which is what a synchronous callback
does. `ReadCache` is one key of `SimpleCache`; a value is the number of commits
its query saw. `ChangeFeed` is `openDuskChangeFeed`; `stale[f]` is a history
variable with the commits no frame of `f` covers yet.

`GrpcStream` is the other listener: a task with its own connection (`session`,
`inbox`), the watch channel (`notice`, a ready flag, a generation and a slot,
of which a receiver sees only the last), the API's envelope shared for 250 ms
(`shared`), and the streams, each at one of the awaits of its loop. A stream
takes a commit's notice, or ends because the generation it began with is gone.
`owed` is a history variable: the commits of which no frame has told yet.

`SwapStream` is the server's older stream: swaps held back for an enriched update
(`buffer`, one of a transaction), a bounded broadcast (`sent`, of which the last
`Capacity` can still be read), and clients that lag and are cut off.

`SnapshotHub` follows one selection of a live snapshot through three files: the
row that the replicas share behind a try-lock (`row`, `holder`), each replica's
topic that polls it (`status`, `step`, `mine`, `latest`), and the streams with
their queues (`wire`), where an SSE stream drops a reader that lags and a
Socket.IO subscription replaces its queued frame. A topic is a number given out
once, so a tick that returns late returns to a topic that has been replaced.

`HistoryReads` has the database as a sequence of committed versions and three
kinds of readers over it: a client that walks the pages of events under a
watermark, the process cache between the two with its generation (`entries`,
`pending`), and a chart that fetches what has changed since its revision.

### Workers

`EventDrain` is a service of projection workers: `coalescedDrain` (`pending`,
`pass`), the listening connection of `drainOnEvents` (`link`, `notices`), the
batch transaction with its advisory lock, and the process (`status`, `retries`).
`stored` stands for the events of the store that a projection is about, numbered
in `(slot, event_key)` order; the daemon may store them in any. `Batches` says
what `ORDER BY ... LIMIT` returns instead of computing it. An attempt to connect
that fails only sets the timer again, so it is no step.

`LpValuation` is the earnings worker beside the hourly reconciler. A price is its
quality and a value the quality of the price it was computed with. `marked` and
`value` are written by one batch statement; `total` by the same statement, whose
parts share a snapshot (the finding), or by a later one.

`PortfolioCapture` is the portfolio worker: a catalog from the confirmed stream,
captures from finalized banks, evidence committed first (`captures`), projected
afterwards (`projected`). `banks` is the chain after each slot, of which the
stream (`seen`) may know more than the finalized bank or less.

### Reads

The rest are reads that put an answer together from several snapshots or banks.
Each module has the world, which moves, and the request, which is at one of its
awaits; a bank or a snapshot is chosen when the read ends, among those that the
read's floor allows.

- `PagedReads`: pages of the activity feeds by offset and by cursor, cached, and
  dropped by notices; `walk` is one client. Ids are row numbers of a view, so a
  late row shifts them.
- `MarketValues`: the eleven queries of `marketValueBaselineService.ts`, each on
  a snapshot of its own (`request`), and the sums over them (`answer`).
- `PortfolioValues`: the backfill's lanes over one shared list (`job`, `lane`),
  the hourly snapshotter (`snap`) and the one table both write (`rows`).
- `WalletCapture` over `WalletBanks`: a wallet's list of positions, its values,
  orders and flows, and the list once more. `WalletBanks` is what the node and
  the stream may answer, `WalletChains` the small chains it is run on.
- `MarketSurface`: discovery, snapshots and capacities with their five-second
  caches, requests that join one another (`current`), and notices that detach
  what is being read.
- `ActivityReads`: the worker that projects economic events, prices from
  providers and references, the sums of a window, and the statistics capture.
- `OwnerClaims`: discovery of owner yields and of a partner's accruals from rows
  in any order (`rows`, `through`), valued on the chain.
- `LiveYield`: two levels of fixed-point growth (the market's ledger, the vault's)
  and a holder's checkpoint; the program is external, what the API computes from
  its accounts is not.
- `YieldRates`: a window measured between two stored swaps, and the cached
  trailing rate.
- `MarketBook`: a curve previewed in batches that are halved when they do not fit,
  entry orders read in chunks, and the combination of both, shared by replicas.
- `LeverageQuotes`: a capture retried until two reads agree, and a search for a
  leverage or a margin with the program as an oracle of which nothing is assumed.

### Compositions, instances and proofs

Two modules put components that share no state side by side, for any values of
their constants: `Surfaces` has what clients are answered and told
and what is precomputed for them (`HistoryReads`, `MarketSurface`, `GrpcStream`,
`SwapStream`, `MarketValues`, `PortfolioValues`), `Services` what the
workers record and the routes compute (`EventDrain`, `PortfolioCapture`,
`LpValuation`, `ActivityReads`, `YieldRates`, `MarketBook`, `LeverageQuotes`,
`WalletCapture`). Each
component keeps its own variables and takes its own steps, and each composition
names the assumptions on its constants.

`MCIngestion`, `MCEventStore`, `MCReadCache`, `MCChangeFeed`, `MCEventDrain`,
`MCSnapshotHub`, `MCLpValuation` and `MCPortfolioCapture` hold one instance each.
`MCSurfaces` extends `Surfaces`, and `MCReads` extends `Services` with the modules
that no theorem is about. `part` says of which component a behaviour is,
and never changes: a step of the part is a step of `Spec`, so a behaviour of
`PartSpec` is one of `Spec` in which the others rest, and since nothing is shared
no interleaving is lost by it.

The theorems are in `IngestionProofs`, `StoreProofs`, `ReadCacheProofs`,
`ChangeFeedProofs`, `SnapshotHubProofs`, `SurfaceProofs` (about `Surfaces`) and
`ServiceProofs` (about `Services`); `ListenerProofs` is what the caches and the
feeds share.

Definitions named `X_something` in front of a definition `X` are the mutants of
`X`: plausible bugs in the code it models, each of which breaks a property.

## Runs

| Run | Shows | Distinct states |
|---|---|---|
| `Ingestion_safety` | `Recoverable`, `CursorCoversRows`, `TouchSettles` with five transactions, a channel of one, two faults | 2.5 M |
| `Ingestion_liveness` | `EventuallyStored` with three transactions and three faults | 65 k |
| `EventStore` | `Backed`, `FoldIsChainOrder`, that it implements `EventLog`, `DeliveriesEnd`; two sessions, two deliveries, two faults | 520 k |
| `ReadCache` | `NeverOlder`, `StaleIsOnItsWay`, no deadlock; three commits, two reads, two faults | 709 k |
| `ChangeFeed` | `NothingMissed`, `NoFalseHealth`, `CommitReachesFeeds`; two commits, two faults | 132 k |
| `EventDrain` | `EventuallyProjected`; two workers, three events, one malformed, one fault | 325 k |
| `SnapshotHub` | `InOrder`, `NoOrphans`, `FreshFrames`, `Delivered`; two replicas, three topics, two streams, one fault | 379 k |
| `LpValuation` | `EventuallyAllocated`, `EventuallyHistorical`; three events, three hours, one fault | 162 k |
| `LpValuation_totals` | finding: a batch's totals lack its own rows | counterexample |
| `PortfolioCapture` | `EventuallyProjected`; two workers, three slots, one fault | 260 k |
| `Surfaces` | `WalksAreTrue`, `MovesForward`, `NoticesReach`, `TotalsAreWhole`, `SnapshotsAreWhole` | 2.5 M |
| `Reads` | workers: `NothingForgotten`, `ReplicasApart`, `CapturesAreTrue`, `HistoricalIsFinal`; routes: `CompleteIsFinal`, `RatesMeasure`, `BookIsWhole`, `LeverageIsExecutable`, `PositionsAreWhole`, `ExecutedOnce`, `OrdersListed`, `ClaimsAreWhole`, `HarvestPaysShown`, `WalkMissesOnlyTies` | 0.68 M |

Each property is stated in words where it is defined. The less obvious ones:

- `Recoverable`: every confirmed transaction is stored, on its way, inside what
  the watcher will read back, or named by a log line.
- `TouchSettles`: whenever the cursor's time moves, what the stream has taken
  from the channel is stored or logged.
- `StaleIsOnItsWay`: an entry older than a commit has its notice coming, or the
  listener's end, which drops it.
- `NothingMissed` and `NoticesReach`: for each commit, an open stream has told of
  it, has it pending, or is about to learn that it must end.
- `WalkMissesOnlyTies`: which announced rows a page-by-page walk may skip, and no
  others.
- `CompleteIsFinal`: an activity answer flagged complete sums what it would sum
  later, except for rows written behind the cursor's time (`late`), as
  `duskHistoryCoverage.ts` says.
- `BookIsWhole`, `LeverageIsExecutable`, `PositionsAreWhole`: some one bank, of
  one release, at which all that is shown together was true together.

### Bounds

- *Ingestion*: t0 is before the release, t1 confirmed before the daemon runs and
  of two rows, t2 and t3 share a slot, t3 has no rows, t4 is later. This is the
  least with a slot below `first_slot`, a half-written transaction, a tie, and a
  transaction above the cursor while another is below it. One place in the
  channel makes it full with a second push. `MaxAttempts` is 2 where the code
  has 3: a retry and a last attempt both occur. `MaxFaults` counts everything
  that goes wrong in one behaviour; two are needed for an outage during
  recovery, the liveness run has three.
- *EventStore*: t1 emits two events of a position and may arrive with other
  facts, t2 closes the position and carries an order. Two deliveries at a time
  are the daemon beside a replay; two faults let one be retried and the other
  die. More deliveries repeat the same pairs.
- *ReadCache*: three commits put one before, one inside and one after a read's
  query; two reads let a detached one outlive a registered one.
- *ChangeFeed*: two commits, the second of a lower slot, as a catch-up writes
  them. Each fault frees one client and may start two `connect()` calls, so
  three clients are enough for two faults. Feeds do not touch each other, so one
  is run; the theorems are for any number.
- *EventDrain*: two replicas are what a deployment has while one replaces the
  other. Three events in batches of one make every batch full but the last empty
  one, with the malformed event last in order. A fault with a retry left lets a
  replacement meet what its predecessor left. `Batches` covers short batches;
  the theorems are for any size.
- *SnapshotHub*: two replicas, one of which may create a second topic while the
  first is awaited; one stream of each transport; a third capture too large for
  a frame. An interval of 1, a lifetime of 2 and a clock up to 2 let a row expire
  under a reader. Caps of one frame make a queue full with the second.
- *LpValuation*: an event of two mints and two of one, in two hours, batches of
  two (one full, one short), and a clock of three hours against a look-back of two.
- *PortfolioCapture*: an account that opens and closes in three slots, two
  captures, a replica that replays while the other captures. `ReplayLimit` is 1.
- *Reads*: the workers' safety has an instance here that is smaller than the one
  of their own runs: *drain* with two workers, two events and batches of one (a
  full batch, a last empty one, one malformed event), *capture* with one account
  in three slots and a failure, *valuation* with two events in two hours. The own
  runs have the sizes that liveness needs, and the theorems are for every size.
  *pages* of one row with four rows, of which two share a time and one
  comes late, and two cached pages;
  *wallet* chains of three slots with something that happens under the
  capture: an entry order executed, a position changed and changed back, an order
  replaced while another's position closes, a market created, a loan repaid and a
  stop executed. Parts of a capture that run side by side commute, since each reads
  banks of its own, and are taken in the order of the list; the chain is fixed
  at the start and unknown to the capture, which is the same as growing.
  *activity* with two events, one late provider price, a window of 1 and a clock
  up to 3; *yields* and *referral* with one order, three slots, rows in any order;
  *growth* with a fixed point of 8 for 2^64 (both divisions leave remainders), a
  vault of two shares and four units of fees; *rates* with four swaps of which two
  share a slot; *book* with three levels, three chunks of orders and three
  histories (a market that refuses a level, that runs out of compute, that changes
  between batches); *leverage* with five programs, among them one that refuses
  small margins only and one that takes none.
- *Surfaces*: *walks* and *chart* with three events in any order of arrival;
  *surface* with two requests, two slots, one notice; *feed* with two commits, the
  second of a lower slot, *feeds* with two streams that share an observation;
  *swaps* with three swaps, two of one transaction, a broadcast of one, a client
  that may miss one, two faults; *market* values of two pools of the same tokens
  the other way round, with one row stored among the eleven reads; *portfolio* with two users on two lanes, three
  hours, a second run after one failure.
- Symmetry is used in `ReadCache` (reads) and `Surfaces` (walkers and
  streams, requests), which check safety only.
- Deadlock is not checked where a system may rest: everything stored, every
  delivery ended, every feed closed, every event projected, a request answered.
  `ReadCache` checks it.

### Fairness

`Ingestion` gives weak fairness to every task that can run, to the network
answering and to time, strong fairness to the mutex (tokio's is first come,
first served, so a waiter cannot be overtaken for ever) and none to
confirmations and faults. `EventStore` gives it to every statement, which
PostgreSQL runs unless it waits for a lock. The listener's promises settle and
its timer fires; a feed's timers fire, and `bounded()` ends each observation one
way or the other. A `connect()` that fails is a fault and not fair.
`EventDrain` gives weak fairness to each worker's loop, its deliveries, its
transaction and its restart. A cut connection is reported in the end (the driver
sets no keepalive, so that is the operating system's promise), the platform
restarts a failed worker up to `MaxRetries` times, and a stopped one is replaced.
`EventuallyProjected` therefore needs no more failures than retries.
`SnapshotHub` gives it to each topic's tick, which `setTimeout` starts again and
whose awaits settle; readers and sockets are not fair. `LpValuation` gives it to
the clock, the worker's loop and the reconciler's; `PortfolioCapture` to replay,
projection and the worker's wake-up, all in loops with a delay.

### Timings the daemon does not defend against

`Recoverable` rests on how long things take. Each timing that breaks it is a
name in the constant `Hazards` and impossible unless listed. `TypeCorrect`,
`CursorCovers` and `TouchIsSettled` hold with all of them; `NothingIsLost` states
`Recoverable` for `Hazards \subseteq {"lost_subscription"}`.

| Hazard | Where | With it |
|---|---|---|
| `crash_in_catch_up` | `catchup.rs:197`: the gap is only in memory | `Recoverable` fails |
| `unnoticed_outage` | `catchup.rs:200-214`: one look a second, none during a catch-up | `Recoverable` fails |
| `reordered_push` | `persist.rs:122`: one slot stands for all below it | `Recoverable` fails |
| `late_subscription` | `catchup.rs:211`: the first Clock update starts the listing | `Recoverable` fails |
| `early_replay` | `main.rs:184`: a replay raises the cursor over pushes on their way | `Recoverable` fails |
| `lost_subscription` | `lib.rs:402`, `lib.rs:623`: the transaction task ends alone | `Recoverable` holds, `EventuallyStored` fails; in `Ingestion_safety` |

To see one, add its name to `Hazards` in a copy of `Ingestion_safety.cfg`.

## Finding

*A batch's totals lack the batch* (`LpValuation_totals`). The statement that
writes a batch's rows also sums them into `lp_position_earnings`
(`lpEarningsBackfillService.ts:884`). All parts of one PostgreSQL statement read
the snapshot from before it, so the total is the one without these rows, and
stays so until the position is touched again. The path for one event sums in a
statement of its own, and its reader takes the two for the same.
`TotalsLagBehind` is what does hold: a total counts allocated events only, and
what it counts at a historical price is what the row says.

## Observations

What the modelling met that no run states as a property, because the code does
it knowingly or nothing it promises is broken. Where a model has it, its
properties are stated so as to allow it.

*Ingestion and store.* A crash inside a catch-up forgets the gap
(`catchup.rs:197`; `docs/dusk-runtime.md:17` says otherwise). The heartbeat's
cursor time passes arrivals still in the channel (`main.rs:352`). A transaction
that does not convert ends the catch-up at `catchup.rs:149`, and every later one.
Within a slot the order is that of arrival, so a close replayed before its open
leaves the position open.

*Listeners.* The reconnect timer and a feed's `start()` may both connect; one
client is then never released (`duskInvalidationService.ts:63-75`). The gRPC
heartbeat that takes a notice between `has_changed` and `borrow_and_update`
(`dusk_stream.rs:292-293`) marks it seen without telling the client, who hears of
it with the next change; `Hides` names the case. A failed observation is shared
for 250 ms and ends every stream that asks. `db_listener.rs` keys its buffer by
signature, so that the second swap of a transaction replaces the first within
five seconds (`Displaced`), although migration 023 says of a Dusk swap that the
"enrichment wait simply never has anything to wait for". Its lag count starts
anew with every value (`grpc_server.rs:184`), so a client that is always behind,
but never by a thousand at once, stays. If it cannot listen at the start, it never
does. The
activity and pool listeners of the API do not reconnect.

*History and activity.* A chart's refresh misses an observation with a lower id
that commits later (`docs/dusk-quote-history.md:131-134`). Row-number ids move
under a client that pages by them. A complete range can still gain rows behind
the cursor's time (`duskHistoryCoverage.ts:20-25` says so). A trailing window
whose ends are out of order is an error, not a rate (`duskYieldRates.ts:112-114`).

*Values.* Reprice, totals and snapshot rebuild are statements without a
transaction. A price may be overwritten by a worse one. An event without its pool
row is marked with no allocations. The portfolio snapshotter counts the sides of
the first indebted position of a pair only, and a repair overwrites its rows. An
empty reserve shows an "exact" value of 0.

*Wallets and markets.* During a catch-up a position may be shown with a cost basis
of the flows so far (`duskLeverageCashFlows.ts:66-67`). One holding of hLP
shares, moved between two banks, can be counted in both. The scope of markets is
read at an earlier bank (`duskOwnerAccounts.ts:46-47`). The envelope of `/config`
may go back for a request that joins an older surface
(`duskMarketService.ts:742-744`), and `market_snapshot` is filled again by a read
from before a notice. A level that a bank refuses is left out of a book that
other banks filled. A refusal counts as "too much" for the margin search, so a
program that refuses small margins is answered with its capacity, not its margin.

## Proofs

All theorems are for every value of the constants under the named assumptions of
the modules, which TLC evaluates on every run. Most say that sentinels are no
values, slots are numbers and bounds are positive. Those that say more:
- `ActivityConstants`: events and prices are rows of different tables.
- `RatesConstants` and `BookConstants`: swaps are numbered in the chain's order,
  levels from 1 (the model's names for them; nothing is assumed of arrival).
- `BookConstants` and `LeverageConstants`: a release that was replaced does not
  come back, so that two reads of the same release have only it between them.
- `WalletConstants`: a market of the release stays one, an address is that of one
  market, an order's also of one kind, and an entry order's position is of the
  order's market (`assertDuskOrderIdentity`, the program's seeds).

Three theorems have a hypothesis of their own. `NothingIsLost` is for the hazards
named above. `FoldFollowsChain` is under `OneTransactionPerSlot`, as the run is:
within a slot the views order by arrival, so that a fold of two transactions of one
slot may not be the chain's. `PositionsStayWhole` is under `EventsTell`: what an event
says that its position holds, the bank after its slot has, so that the position has no
later event in the slot. All chains of the run satisfy it. `PositionsAreHeld` is the
part of that theorem that needs nothing of events.

Each safety theorem rests on an inductive invariant, since none of the properties
is inductive by itself.

`IngestionProofs`:
- `TypeCorrect`, with `WriterOK`: a transaction in hand is one of `Txs` because
  `pc` and `tx` agree, and `lock` names the writer past `Acquire`.
- `CursorCovers`: `CursorCoversRows` is not inductive, since `WriteRow` says
  nothing of the cursor. `CursorOK` adds that a writer at its rows is at or
  below it: `Advance` establishes it, and `Raised` never falls.
- `TouchIsSettled`: `ProgressOK` (what a writer counts is stored) and
  `ArrivalOK` (an arrival is stored, logged, queued or in the stream's hands)
  are inductive; a touch happens at `FinishStream`, with all rows counted, or
  with the mutex free, when the stream is idle or yet to get it.
- `NothingIsLost`: `FlowOK` says where each confirmed transaction can be. While the
  gap is open it reaches back to everything unsettled (`GapReaches`). Once it is
  closed, or its list is fetched, what is missing is on the socket and newer than
  all that may move the cursor (`MissingIsNewer`), which needs that the stream
  keeps slot order (`InOrder`) and which phases exclude one another (`Phases`).

`StoreProofs`: `StoreInv` says what a session may rely on at each of its steps
(`Session`), that no two hold one event's row or its first insert (`Apart`), that
an event has one observation, in the order of its transaction's instructions
(`ObservedInOrder`), and that stream rows are backed. `RowsAreBacked` is part of it;
`StoreImplementsLog` maps each step to an append of one event, whose predecessors in
the transaction are streamed already, or to none; `FoldFollowsChain` compares the
views' order with the chain's by `ObservedInOrder`.

`ReadCacheProofs`: `NeverOlderHolds`. The invariant adds that `settled` is a
commit made, that inboxes hold commits made (`InboxOK` of `ListenerProofs`), and
that the registered fetch, once it has read, has read at least `settled`. A read
begun before an invalidation is no longer registered when it ends.
`StaleIsOnlyDelayed` adds that the inbox of the named client is the commits after
`settled`, all of them and in order, unless its session has ended.

`ChangeFeedProofs`: four invariants are proved together with
`ConnectionOK` (`connection` is a client past `connect()`) and `HistoryOK`
(frames are owed only by open feeds). `NothingMissed` needs `NoFalseHealth` at a
commit (an open feed has a connection, which is notified, or is dead and will
say so) and `NeverStuck` is kept by the steps that keep it.

`SnapshotHubProofs`: `HubInv` is `Typed`, `RowOK` and `StreamsOK`. The row is written by
the lock's holder only (`OneWriter`), whose capture began after the one in the row;
what a topic has published is never ahead of the row (`RowLeads`), what a stream was
sent never ahead of its topic (`Bounded`), and a stream is in one topic. Hence frames
of either transport come in the order of captures.

`SurfaceProofs`:
- `SurfaceMovesForward`: what was served is at or below `discoveryFloor` (`FloorOK`), a
  request's list is of a bank at or above what was served when it was made, and its
  payloads at or above its list (`RequestOK`), whichever read it joins.
- `GrpcTypeCorrect`, `NoticesReachClients`: the channel is ready while a session listens
  or has died unnoticed (`ChannelOK`), and at each await of its loop a stream knows the
  kind of frame it owes and no generation but the channel's or one before (`TurnOK`).
  For swaps, notifications, buffer and broadcast keep the order of commits
  (`InCommitOrder`), and `NothingVanishes` says where each announced swap is: on its
  way, held back, sent, lost with a connection, or displaced by one of its transaction.
- `ReadersSeeTruth`: versions only grow and ids below a watermark are closed to later
  commits (`VersionsOK`), a cached page is a function of its version (`EntryOK`), a
  walk is the top of its version down to its cursor (`WalksOK`).
- `TotalsAddUp`: an answer is computed from what eleven queries saw, each any set of
  stored rows (`MarketInv`), so the theorem is about the sums. The places of a pool's
  two sides are added up by token and by pool: both are the same sum split two ways
  (`SumByFibers`), unless some place is missing, and then so are both.
- `SnapshotsStayWhole`: of the users that the lanes have taken, each has its rows or is in
  some lane (`PortfolioInv`), and a lane's user has rows for the hours below its bucket
  and for those that it skips (`LaneOK`). Rows are only added. The debt in hand is that
  of the loop over the positions, and `DebtBound` follows the loop: the pairs counted
  so far bound what has been added.

  Sums are folds of the community modules over a set, in the order that `CHOOSE` picks.
  `LawExists` and `LawAgrees` show, by a smallest counterexample among the finite
  subsets, that one function obeys the fold's equation; that the sum of a set is that
  of a part and the rest follows, for any element, and the other lemmas about
  sums from it.

`ServiceProofs`:
- `NothingForgotten` speaks of a worker at rest. `AllCovered` extends
  it to the others: whatever is unprojected has a notice, a wake, a pass that has
  yet to look, or is in the batch or behind a full one. A batch that is not full
  is all there was (`Batches`), which is why a short one may end the pass.
  `ReplicasApart` follows from `OneHolder`, since only the holder has a batch, and
  `BatchFresh`.
- `HistoricalHolds`: a batch writes only rows that have no marker (`Unallocated`: a row
  without a marker has no value), and the reconciler's UPDATE chooses its rows anew
  by what they are. `TotalsLagBehind` rests on it: a total sums rows that were, and
  what it counts at a historical price still stands.
- `CapturesStayTrue`: a catalog lists what was open in a bank that it reaches
  (`CatalogOK`), groups are read from later ones, and between a bank with an account
  and one without there is the one that closed it (`Closings`).
- `CompleteStays`: the rows that an answer lacks are later than its window or were
  written behind the cursor's time (`Beyond`), so its sums stand.
- `RatesMeasureHolds`: rows are numbered as they arrive, so (slot, id) orders them
  totally; the bracketing rows of a window are its last before and first after.
- `BookHolds`: of every level, a batch still asks, a quote has it, or some bank refused
  it alone (`DepthOK`), through halving and retries; the orders are read at or after
  the depth's bank and confirmed there.
- `LeverageHolds`: the bisection keeps one end that the program takes and one that it
  does not, with no assumption of monotony (`BisectOK`); `QuoteOK` has the search's
  state per phase, and the places taken are counted by the running requests.
- `OrdersAreWhole`, `ExecutedIsShownOnce`, `PositionsStayWhole`: none of the three
  speaks of a capture on its way, so `WalletInv` follows it. The list is one bank's
  (`ListOK`), and values, prices and loans are of banks at or above it (`ValuesOK`). The
  floor of the orders only rises: a row is of a bank between the list and the floor
  (`RowOK`), and an order that stays open is found, still to be asked for, or of a kind
  yet to be read (`NoneLeftOut`). The second list is asked for at or above all of that
  and equals the first (`HeldOK`), so both ends of the capture have the same positions,
  and an order that is executed in between is either gone before the first list or there
  until after the second. Flows count only when the stream's last event of the position
  says what is listed (`FlowsOK`).

Only model-checked, and why:
- The liveness properties (`EventuallyStored`, `DeliveriesEnd`, `CommitReachesFeeds`,
  `Delivered`, both `EventuallyProjected`, `EventuallyAllocated`,
  `EventuallyHistorical`): the prover does not reach fairness.
- `WalkMissesOnlyTies`, `ClaimsAreWhole`: their modules compute with sorted, filtered
  and folded sequences, of which the library's facts need induction over an operator.
  For sums over sets that is done by hand (see `SurfaceProofs`).
- `HarvestPaysShown`: two floor divisions of products, beyond the solver's arithmetic.

## Not modelled

Inside the modelled parts: `--catch-up-from` (the catch-up's code run once by a
process of its own), account subscriptions, attestation at start-up, the
shutdown of listener and feeds, `--once` and `--dry-run`, sequence numbers and frame
contents, the folds of 046 other than a position's life, the order archive,
`maxBucketsPerUser`, the LP part of a portfolio's value, the split of large
yield reads into concurrent groups, junior and retired ledgers, statistics of the
cache.

Left out whole: the gRPC server's permits and payload bridge (a check of one frame
against the one before), the token price worker, liquidation discovery, oracle and operator routes, the shared helpers of
controllers, the first-generation pool, position and price reads (one query per
answer), the legacy swap jobs, migrations, and decoding, identity and alerts
(functions of their input with no state to interleave). `PROJECT.json` gives the
reason for each, and a note with each hazard that no property covers.

## Plan

Done: the modules and proofs above, in the order of the inventory. What a next
step would take:

1. Theorems: `ClaimsAreWhole`, with facts about sequences proved as those about sums
   are; and `GrpcStream` and `ChangeFeed` as implementations of one abstract feed.
2. Modules: the payload bridge of the gRPC server over `GrpcStream`; liquidation
   discovery beside `PortfolioCapture`.
