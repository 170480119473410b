------------------------------ MODULE Services ------------------------------
(***************************************************************************)
(* What the API's routes compute and its workers record, from a database    *)
(* and a chain that move on: the modules of these services side by side,    *)
(* for any values of their constants.  They share no state.                 *)
(***************************************************************************)
EXTENDS Integers, Sequences, FiniteSets

CONSTANTS
    None,
    Workers,                                                        \* replicas of a worker
    Sourced, Malformed, BatchSize, MaxRetries, MaxOutages,          \* EventDrain
    Accounts, OwnerOf, Groups, GroupOf, ReplayLimit,                \* PortfolioCapture
    LastBank, MaxCaptures, MaxFailures,
    Earning, HourOf, MintsOf, EarnersOf, EarningsLimit, Lookback,   \* LpValuation
    MaxHour, MaxMisses,
    Economic, EventSlot, EventTime, PayloadOf, Canonical,           \* ActivityReads
    ProviderQuotes, References, Stable, BatchLimit, StatsWindow, Fresh, MaxClock,
    Measured, MeasuredSlot, MeasuredTime, RateWindow, Cadence, MaxTicks,    \* YieldRates
    MaxBookSlot, Histories, Levels, PerBatch, Accepts, Fits, PerRead, MaxOrders,    \* MarketBook
    Quoters, MaxInFlight, Attempts, MaxMargin, Grid, Programs,      \* LeverageQuotes
    BankHistories, Leverages, Receipts, Inputs,
    WalletHistories, LastState, FirstCursor, DetailBatch            \* WalletCapture

VARIABLES
    written, derived, status, link, wakeups, pending, pass, batch, retries, outages,
    ledger, final, observed, evidence, filed, cycle, failures,
    hour, earned, marked, worth, sums, price, earner, reconciler, misses,
    clock, cursor, writing, canonical, streamed, projected, prices, late, answer, stats,
    ticks, stored, rate,
    history, offered, book,
    chain, inFlight, known, quote,
    states, tip, gaps, walletFloor, stage, owned, covered, sales, marks, debts, standing,
    shareValues, relisted, cashFlows

drainVars == <<written, derived, status, link, wakeups, pending, pass, batch, retries, outages>>
captureVars == <<ledger, final, observed, evidence, filed, cycle, failures>>
activityVars == <<clock, cursor, writing, canonical, streamed, projected, prices, late, answer, stats>>
rateVars == <<ticks, stored, rate>>
bookVars == <<history, offered, book>>
leverageVars == <<chain, inFlight, known, quote>>
walletVars == <<states, tip, gaps, walletFloor, stage, owned, covered, sales, marks, debts, standing,
                shareValues, relisted, cashFlows>>
valuationVars == <<hour, earned, marked, worth, sums, price, earner, reconciler, misses>>
workerVars == <<drainVars, captureVars, valuationVars>>
quoteVars == <<rateVars, bookVars, leverageVars, walletVars>>

vars == <<workerVars, activityVars, quoteVars>>

-----------------------------------------------------------------------------

\* The projections of stored events.
Drain == INSTANCE EventDrain WITH
    Events <- Sourced, MaxFaults <- MaxOutages,
    stored <- written, projected <- derived, notices <- wakeups, faults <- outages

ASSUME DrainAssumption ==
    /\ Sourced \subseteq Nat /\ IsFiniteSet(Sourced)
    /\ Malformed \subseteq Sourced
    /\ BatchSize \in Nat \ {0}
    /\ MaxRetries \in Nat /\ MaxOutages \in Nat

\* The portfolio snapshots.
Capture == INSTANCE PortfolioCapture WITH
    MaxSlot <- LastBank, MaxFaults <- MaxFailures,
    banks <- ledger, seen <- observed, captures <- evidence, projected <- filed,
    worker <- cycle, faults <- failures

CaptureConstants ==
    /\ GroupOf \in [Accounts -> Groups]
    /\ ReplayLimit \in Nat \ {0} /\ MaxCaptures \in Nat
    /\ LastBank \in Nat \ {0} /\ MaxFailures \in Nat

ASSUME CaptureAssumption == CaptureConstants

\* The earnings of liquidity providers, and the reconciler of their values.
Valuation == INSTANCE LpValuation WITH
    Events <- Earning, Limit <- EarningsLimit, MaxFaults <- MaxMisses,
    stored <- earned, value <- worth, total <- sums, worker <- earner, repair <- reconciler,
    faults <- misses

ASSUME ValuationAssumption ==
    /\ None \notin {"historical", "estimated", "missing"}
    /\ \A e \in Earning : IsFiniteSet(EarnersOf[e])
    /\ IsFiniteSet(Earning) /\ HourOf \in [Earning -> 1..MaxHour]
    /\ \A e \in Earning : MintsOf[e] # {} /\ IsFiniteSet(MintsOf[e])
    /\ EarningsLimit \in Nat \ {0} /\ Lookback \in Nat
    /\ MaxHour \in Nat \ {0} /\ MaxMisses \in Nat

\* Answers for a window of activity, and the statistics.
Activity == INSTANCE ActivityReads WITH
    Events <- Economic, SlotOf <- EventSlot, BlockTime <- EventTime, Limit <- BatchLimit,
    Quotes <- ProviderQuotes, Window <- StatsWindow, MaxTime <- MaxClock, quotes <- prices

\* Events and prices are rows of different tables.
ActivityConstants ==
    /\ EventSlot \in [Economic -> Nat] /\ EventTime \in [Economic -> Nat]
    /\ Economic \cap ProviderQuotes = {}
    /\ \A q \in ProviderQuotes : q.at \in Nat
    /\ StatsWindow \in Nat

ASSUME ActivityAssumption == ActivityConstants

\* The trailing rate of the senior shares.
Rates == INSTANCE YieldRates WITH
    Swaps <- Measured, SlotOf <- MeasuredSlot, BlockTime <- MeasuredTime, Window <- RateWindow,
    MaxTime <- MaxTicks, clock <- ticks

\* Swaps are numbered in the chain's order.
RatesConstants ==
    /\ IsFiniteSet(Measured) /\ Measured = 1..Cardinality(Measured)
    /\ MeasuredSlot \in [Measured -> Nat] /\ MeasuredTime \in [Measured -> Nat]
    /\ \A r, s \in Measured : r <= s => MeasuredSlot[r] <= MeasuredSlot[s]
    /\ RateWindow \in Nat \ {0}
    /\ None \notin Measured

ASSUME RatesAssumption == RatesConstants

\* A market's depth beside its entry orders.
Book == INSTANCE MarketBook WITH MaxSlot <- MaxBookSlot, shared <- offered

\* Levels are numbered.
BookConstants ==
    /\ MaxBookSlot \in Nat \ {0} /\ PerBatch \in Nat \ {0} /\ PerRead \in Nat \ {0}
    /\ IsFiniteSet(Levels) /\ Levels = 1..Cardinality(Levels)
    /\ \A h \in Histories :
          /\ IsFiniteSet(DOMAIN h.orders)
          /\ \A s \in 1..MaxBookSlot : Fits[h.market[s]] \in Nat

ASSUME BookAssumption == BookConstants

\* Searches for a leverage and for a margin.
Leverage == INSTANCE LeverageQuotes WITH
    Requests <- Quoters, Limit <- MaxInFlight, Chains <- BankHistories

LeverageConstants ==
    /\ IsFiniteSet(Quoters) /\ MaxInFlight \in Nat
    /\ Grid \in Nat /\ MaxMargin \in Nat \ {0} /\ None \notin Nat
    /\ Inputs \subseteq [kind : {"maximum", "size"}, margin : 1..MaxMargin, target : Nat]
    /\ \A c \in BankHistories :
          /\ DOMAIN c.market \subseteq Nat
          /\ \A s \in DOMAIN c.market :
                Receipts[c.market[s]] \in [1..MaxMargin -> Nat \cup {None}]

ASSUME LeverageAssumption == LeverageConstants

\* Captures of a wallet.
Wallet == INSTANCE WalletCapture WITH
    Histories <- WalletHistories, MaxSlot <- LastState, FirstSlot <- FirstCursor,
    BatchSize <- DetailBatch, chain <- states, stream <- tip, missed <- gaps,
    floor <- walletFloor, at <- stage, accounts <- owned, streamed <- covered, values <- sales,
    oracle <- marks, loans <- debts, orders <- standing, holdings <- shareValues,
    verified <- relisted, flows <- cashFlows

\* A market of the release stays one; an address is that of one market, and an
\* order's also of one kind; an entry order's position is of its market
\* (assertDuskOrderIdentity).
WalletConstants ==
    /\ LastState \in Nat \ {0} /\ FirstCursor \in 1..LastState
    /\ \A c \in WalletHistories :
          /\ \A S \in SUBSET DOMAIN c.orders : S # None
          /\ \A e \in c.events : e.slot \in 1..LastState
          /\ \A p \in DOMAIN c.positions : \A s \in 1..LastState :
                c.positions[p][s] # None => c.positions[p][s].opened \in Nat
          /\ \A s, t \in 1..LastState : s <= t => c.markets[s] \subseteq c.markets[t]
          /\ \A p \in DOMAIN c.positions : \A s, t \in 1..LastState :
                c.positions[p][s] # None /\ c.positions[p][t] # None =>
                    c.positions[p][s].market = c.positions[p][t].market
          /\ \A o \in DOMAIN c.orders : \A s, t \in 1..LastState :
                /\ c.orders[o][s] # None => c.orders[o][s].kind \in {"exit", "entry", "hlp"}
                /\ c.orders[o][s] # None /\ c.orders[o][t] # None =>
                      /\ c.orders[o][s].market = c.orders[o][t].market
                      /\ c.orders[o][s].kind = c.orders[o][t].kind
                /\ c.orders[o][s] # None /\ c.orders[o][s].kind = "entry" =>
                      /\ c.orders[o][s].position \in DOMAIN c.positions
                      /\ c.positions[c.orders[o][s].position][t] # None =>
                            c.positions[c.orders[o][s].position][t].market = c.orders[o][s].market

ASSUME WalletAssumption == WalletConstants

-----------------------------------------------------------------------------

Init ==
    /\ Drain!Init /\ Capture!Init /\ Valuation!Init
    /\ Activity!Init /\ Rates!Init /\ Book!Init /\ Leverage!Init
    /\ Wallet!Init

DrainStep == UNCHANGED <<captureVars, valuationVars, activityVars, quoteVars>> /\ Drain!Next
CaptureStep == UNCHANGED <<drainVars, valuationVars, activityVars, quoteVars>> /\ Capture!Next
ValuationStep == UNCHANGED <<drainVars, captureVars, activityVars, quoteVars>> /\ Valuation!Next
ActivityStep == UNCHANGED <<workerVars, quoteVars>> /\ Activity!Next
RatesStep == UNCHANGED <<workerVars, activityVars, bookVars, leverageVars, walletVars>> /\ Rates!Next
BookStep == UNCHANGED <<workerVars, activityVars, rateVars, leverageVars, walletVars>> /\ Book!Next
LeverageStep == UNCHANGED <<workerVars, activityVars, rateVars, bookVars, walletVars>> /\ Leverage!Next
WalletStep == UNCHANGED <<workerVars, activityVars, rateVars, bookVars, leverageVars>> /\ Wallet!Next

Next ==
    \/ DrainStep \/ CaptureStep \/ ValuationStep
    \/ ActivityStep \/ RatesStep \/ BookStep \/ LeverageStep \/ WalletStep

Spec == Init /\ [][Next]_vars

(***************************************************************************)
(* What the modules claim.                                                  *)
(***************************************************************************)
\* A worker that listens and rests has left nothing behind (EventDrain).
NothingForgotten == Drain!NothingForgotten

\* Replicas never work on the same event, and none on one that has its row
\* (EventDrain).
ReplicasApart == Drain!ReplicasApart

\* What a capture says is true: accounts reported closed were closed, and an
\* owner with a checkpoint has one in every later capture (PortfolioCapture).
CapturesAreTrue == Capture!CapturesAreTrue

\* A value at historical prices stays as it is (LpValuation).
HistoricalIsFinal == Valuation!HistoricalIsFinal

\* What a complete answer summed stays so, and no event behind the statistics
\* is of a later slot (ActivityReads).
CompleteIsFinal == Activity!CompleteIsFinal /\ Activity!StatisticsCovered

\* A window is measured from end to end (YieldRates).
RatesMeasure == Rates!RatesMeasure

\* A book is of one state of its market, with the orders that were open after
\* it (MarketBook).
BookIsWhole == Book!BookIsWhole

\* A leverage or a margin is executable in the bank it was searched in, and as
\* good as that bank allows, which is no older than was asked for (LeverageQuotes).
LeverageIsExecutable == Leverage!LeverageIsExecutable

\* A wallet's positions are held from the first list to the second, and their
\* flows are those that led to them as they are listed (WalletCapture).
PositionsAreWhole == Wallet!HeldThroughout /\ Wallet!FlowsAreWhole

\* An entry order that is executed is shown once (WalletCapture).
ExecutedOnce == Wallet!ExecutedOnce

\* The orders shown are the orders of their slots, and none is left out (WalletCapture).
OrdersListed == Wallet!OrdersListed
=============================================================================
