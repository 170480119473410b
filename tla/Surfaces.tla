------------------------------ MODULE Surfaces ------------------------------
(***************************************************************************)
(* What the API and the gRPC server answer and tell while the database and  *)
(* the chain move on, and what the first-generation API precomputes for it: *)
(* the readers of the history, the market surface, the gRPC streams, the    *)
(* value baselines and the portfolio snapshots side by side, for any values *)
(* of their constants.  They share no state.                                *)
(***************************************************************************)
EXTENDS Integers, Sequences, FiniteSets

CONSTANTS
    None,
    Logged, Charted, Rank, Bucket, Walkers, Charts, PageLimit,       \* HistoryReads
    Markets, Requests, CreatedAt, MaxSlot, MaxNotices,              \* MarketSurface
    Streams, SlotOf, MaxCuts,                                       \* GrpcStream
    Swaps, TxOf, Enriched, Viewers, Capacity, MaxLag, MaxDrops,     \* SwapStream
    Pools, Shown, TokensOf, Rows, Old, Baseline, Hour, Day, Week,
    PreIndexFees, MaxLate,                                          \* MarketValues
    Users, Lanes, FirstHour, PositionsAt, DebtEvents,
    MaxHour, MaxRuns, MaxFails                                      \* PortfolioValues

VARIABLES
    drawn, versions, entries, pending, walk, chart,
    stream, notices, discoveryFloor, snapshots, captures, capacities, quotes,
    current, parts, request, served,
    commits, session, unheard, notice, release, shared, watcher, owed, behind, cuts,
    announced, link, arriving, buffer, sent, viewer, given, due, missed, drops,
    facts, asked, totals,
    hour, rows, job, lane, snap, runs, fails

historyVars == <<drawn, versions, entries, pending, walk, chart>>
surfaceVars == <<stream, notices, discoveryFloor, snapshots, captures, capacities, quotes,
                 current, parts, request, served>>
feedVars == <<commits, session, unheard, notice, release, shared, watcher, owed, behind, cuts>>
swapVars == <<announced, link, arriving, buffer, sent, viewer, given, due, missed, drops>>
marketVars == <<facts, asked, totals>>
portfolioVars == <<hour, rows, job, lane, snap, runs, fails>>

vars == <<historyVars, surfaceVars, feedVars, swapVars, marketVars, portfolioVars>>

-----------------------------------------------------------------------------

\* Clients that page through events, and clients that refresh charts.
History == INSTANCE HistoryReads WITH
    Events <- Logged, Samples <- Charted, db <- versions

\* A cursor is a record; events have different ranks.
HistoryConstants ==
    /\ IsFiniteSet(Logged) /\ Charted \subseteq Logged
    /\ \A e \in Logged : Rank[e] \in Nat
    /\ \A e, f \in Logged : Rank[e] = Rank[f] => e = f
    /\ \A e \in Charted : Bucket[e] \in Nat
    /\ PageLimit \in Nat \ {0}
    /\ None \notin [watermark : Nat, rank : Nat]

ASSUME HistoryAssumption == HistoryConstants

\* Requests for the surface or for one of its markets.
Surface == INSTANCE MarketSurface

\* A market is named by its address.
SurfaceConstants == MaxSlot \in Nat /\ "all" \notin Markets

ASSUME SurfaceAssumption == SurfaceConstants

\* The gRPC server's streams of changes.
Grpc == INSTANCE GrpcStream WITH
    MaxFaults <- MaxCuts, inbox <- unheard, stream <- watcher, faults <- cuts

ASSUME FeedAssumption ==
    SlotOf \in Seq(Nat \ {0}) /\ None \notin {"change", "resync", "heartbeat"}

\* Its older stream of swaps.
Swap == INSTANCE SwapStream WITH
    Clients <- Viewers, MaxFaults <- MaxDrops, notices <- announced, inbox <- arriving,
    client <- viewer, got <- given, owed <- due, lost <- missed, faults <- drops

ASSUME SwapAssumption == MaxLag \in Nat /\ Capacity \in Nat

\* What the markets were worth.
Market == INSTANCE MarketValues WITH
    Visible <- Shown, stored <- facts, request <- asked, answer <- totals

\* Amounts, prices and times are integers.
MarketConstants ==
    /\ IsFiniteSet(Pools) /\ Shown \subseteq Pools
    /\ IsFiniteSet(Rows) /\ Old \subseteq Rows
    /\ \A r \in Rows :
        /\ r.at \in Int
        /\ r.kind = "price" => r.usd \in Int
        /\ r.kind \in {"swap", "update"} => \A i \in {1, 2} : r.reserve[i] \in Int
        /\ r.kind = "debt" => \A i \in {1, 2} : r.amount[i] \in Int
        /\ r.kind = "update" => \A i \in {1, 2} : r.interest[i] \in Int
        /\ r.kind = "position" => \A i \in {1, 2} : r.collateral[i] \in Int

ASSUME MarketAssumption == MarketConstants

\* What each user's positions were worth, hour by hour.
Portfolio == INSTANCE PortfolioValues

\* Hours count from 1; a pair has two sides.
PortfolioConstants ==
    /\ MaxHour \in Nat /\ None \notin 1..MaxHour
    /\ Users \in Seq(DOMAIN FirstHour) /\ None \notin DOMAIN FirstHour
    /\ \A u \in DOMAIN FirstHour :
        /\ FirstHour[u] \in 1..MaxHour
        /\ IsFiniteSet(DebtEvents[u]) /\ \A e \in DebtEvents[u] : e.amount \in Int
        /\ \A h \in 1..MaxHour : LET positions == PositionsAt[u][h] IN
            /\ Len(positions) \in Nat /\ DOMAIN positions = 1..Len(positions)
            /\ \A i \in DOMAIN positions : positions[i].sides \subseteq {0, 1}

ASSUME PortfolioAssumption == PortfolioConstants

-----------------------------------------------------------------------------

Init ==
    /\ History!Init /\ Surface!Init /\ Grpc!Init /\ Swap!Init /\ Market!Init
    /\ Portfolio!Init

valueVars == <<marketVars, portfolioVars>>

HistoryStep == UNCHANGED <<surfaceVars, feedVars, swapVars, valueVars>> /\ History!Next
SurfaceStep == UNCHANGED <<historyVars, feedVars, swapVars, valueVars>> /\ Surface!Next
FeedStep == UNCHANGED <<historyVars, surfaceVars, swapVars, valueVars>> /\ Grpc!Next
SwapStep == UNCHANGED <<historyVars, surfaceVars, feedVars, valueVars>> /\ Swap!Next
MarketStep ==
    UNCHANGED <<historyVars, surfaceVars, feedVars, swapVars, portfolioVars>> /\ Market!Next
PortfolioStep ==
    UNCHANGED <<historyVars, surfaceVars, feedVars, swapVars, marketVars>> /\ Portfolio!Next

Next ==
    \/ HistoryStep \/ SurfaceStep \/ FeedStep \/ SwapStep
    \/ MarketStep \/ PortfolioStep

Spec == Init /\ [][Next]_vars

(***************************************************************************)
(* What the modules claim.                                                  *)
(***************************************************************************)
\* A walk that ends has the events of its first page's time, a page in the
\* cache is what a read would compute, and a refreshed chart misses only
\* samples that became visible out of the order of their ids (HistoryReads).
WalksAreTrue == History!WalksAreTrue

\* After a refresh a chart shows every sample of its window (HistoryReads).
RefreshIsComplete == History!RefreshIsComplete

\* No answer below a bank already served when its surface was begun (MarketSurface).
MovesForward == Surface!MovesForward

\* Nor below one already served when the request asked (MarketSurface).
NeverBelowServed == Surface!NeverBelowServed

\* News of a commit reaches the stream's client or the stream ends, and no
\* frame's observation is from before its slot (GrpcStream); swaps reach their
\* clients but for what is skipped, displaced or lost with a connection, the
\* enriched last and without long gaps (SwapStream).
NoticesReach ==
    /\ Grpc!NoticesReach /\ Grpc!FramesCover
    /\ Swap!SwapsReach /\ Swap!NewestLast /\ Swap!GapsAreBounded

\* A protocol total is whole or missing, and the sum of the tokens' (MarketValues).
TotalsAreWhole == Market!TotalsAreWhole

\* A backfill that ends well left no hour without a row, and a past snapshot
\* counts no debt twice (PortfolioValues).
SnapshotsAreWhole == Portfolio!BackfillComplete /\ Portfolio!DebtWithinPrincipal
=============================================================================
