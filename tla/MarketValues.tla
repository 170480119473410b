--------------------------- MODULE MarketValues ----------------------------
(***************************************************************************)
(* The value baselines of the markets page (marketValueBaselineService.ts): *)
(* what each pool, each token and the protocol were worth at an earlier     *)
(* instant.  Eleven queries run at once, each on a snapshot of its own,     *)
(* while rows are stored; the answer then adds the same amounts up twice,   *)
(* by pool for the protocol and by token.                                   *)
(*                                                                          *)
(* A row's time is an integer that also orders the rows of one time (time,  *)
(* slot); a rate, an APR and a utilization keep their inputs and their      *)
(* absence, and their scale is left out.                                    *)
(***************************************************************************)
EXTENDS Integers, FiniteSets, FiniteSetsExt

CONSTANTS
    Pools, Visible,  \* the pools, and those with visible = TRUE
    TokensOf,        \* [Pools -> <<token0, token1>>]
    Rows,            \* the rows that may be stored, records by kind
    Old,             \* those stored at the start
    Baseline,        \* now - windowHours
    Hour, Day, Week, \* in units of a row's time
    PreIndexFees,    \* PRE_INDEX_TOTAL_FEES
    MaxLate,         \* bound: rows stored while one request reads
    None

VARIABLES
    stored,    \* the rows committed
    request,   \* the request under way: the pools it listed, the rows it found, or None
    answer     \* the last answer, or None

vars == <<stored, request, answer>>

Sides == {1, 2}

(***************************************************************************)
(* The eleven queries.  S is what a query's snapshot holds.                *)
(***************************************************************************)
Queries == {"prices", "reserves", "states", "principal", "interest", "volume",
            "fees", "aprSwaps", "aprUpdates", "collateral", "total"}

KindsOf(q) ==
    CASE q = "prices" -> {"price"}
      [] q = "reserves" -> {"swap", "update"}
      [] q \in {"volume", "fees", "aprSwaps", "total"} -> {"swap"}
      [] q \in {"states", "interest", "aprUpdates"} -> {"update"}
      [] q = "principal" -> {"debt"}
      [] q = "collateral" -> {"position"}

Of(S, p) == {r \in S : r.pair = p /\ r.at <= Baseline}
Since(S, p, span) == {r \in Of(S, p) : r.at > Baseline - span}
Latest(S) == CHOOSE r \in S : \A s \in S : s.at <= r.at
Total(amount) == LET Amount(r) == amount[r] IN MapThenSumSet(Amount, DOMAIN amount)

\* The latest hourly price of one provider, whatever its quality.
StoredPrice(S, m) ==
    LET usable == {r \in S : /\ r.mint = m /\ r.provider = "birdeye"
                             /\ r.at <= (Baseline \div Hour) * Hour}
    IN  IF usable = {} THEN None ELSE Latest(usable)

\* DISTINCT ON (pair) ... ORDER BY timestamp DESC, slot DESC
LatestRow(S, p) == IF Of(S, p) = {} THEN None ELSE Latest(Of(S, p))

Reserve(S, p, i) == IF LatestRow(S, p) = None THEN 0 ELSE LatestRow(S, p).reserve[i]
Cash(S, p, i) == IF LatestRow(S, p) = None THEN 0 ELSE LatestRow(S, p).cash[i]
Rate(S, p, i) == IF LatestRow(S, p) = None THEN None ELSE Max({LatestRow(S, p).rate[i], 1})

\* GREATEST(COALESCE(SUM(amount), 0), 0)
Principal(S, p, i) == Max({Total([r \in Of(S, p) |-> r.amount[i]]), 0})
Interest(S, p, i) == Total([r \in Of(S, p) |-> r.interest[i]])

\* Each position's latest row.
Collateral(S, p, i) ==
    Total([o \in {r.position : r \in Of(S, p)} |->
               Latest({r \in Of(S, p) : r.position = o}).collateral[i]])

Volume(S) == Total([r \in S |-> r.volume])
Fees(S) == Total([r \in S |-> r.feeUsd])

\* A side's yearly yield: a week's income over the average nonzero reserve.
SideApr(income, i) ==
    LET held == {r \in DOMAIN income : r.reserve[i] # 0}
        sum == Total([r \in held |-> r.reserve[i]])
    IN  IF sum > 0 THEN (Total(income) * Cardinality(held)) \div sum ELSE 0

Apr(swaps, updates) ==
    LET Fee(i) == SideApr([r \in swaps |-> r.fee[i]], i)
        Lent(i) == SideApr([r \in updates |-> r.lpInterest[i]], i)
    IN  (Fee(1) + Fee(2)) \div 2 + Lent(1) + Lent(2)

-----------------------------------------------------------------------------
(***************************************************************************)
(* From amounts to metrics.  A metric that is missing has no value.        *)
(***************************************************************************)
Priced(price) == price # None /\ price.quality # "missing" /\ price.usd > 0

\* convertRawToUsd: an amount of zero needs no price.
Convert(amount, price) ==
    IF Priced(price)
    THEN [usd |-> amount * price.usd,
          quality |-> IF price.quality \in {"estimated", "current"} THEN "estimated" ELSE "exact"]
    ELSE IF amount = 0 THEN [usd |-> 0, quality |-> "exact"]
    ELSE [usd |-> None, quality |-> "missing"]

Missing == [value |-> None, quality |-> "missing"]

Summed(values, quality) == [value |-> values, quality |-> quality]

UsdMetric_partial(c, forced) ==
    LET shown == {i \in Sides : c[i].quality # "missing"}
        Usd(i) == c[i].usd
    IN  IF shown = {} THEN Missing ELSE Summed(MapThenSumSet(Usd, shown), forced)

\* makeUsdMetric: both sides, or nothing.
UsdMetric(c, forced) ==
    IF \E i \in Sides : c[i].quality = "missing" THEN Missing
    ELSE Summed(c[1].usd + c[2].usd,
                IF forced # "" THEN forced
                ELSE IF \E i \in Sides : c[i].quality = "estimated" THEN "estimated"
                ELSE "exact")

AmountMetric(c) == IF c.quality = "missing" THEN Missing ELSE Summed(c.usd, c.quality)

Utilization(debt, reserve) ==
    IF reserve <= 0 THEN Missing ELSE Summed((debt * 100) \div reserve, "estimated")

\* One pool's metrics.  saw[q] is what query q saw.
PoolBaseline(p, saw) ==
    LET price == [i \in Sides |-> StoredPrice(saw.prices, TokensOf[p][i])]
        debts == [i \in Sides |-> Max({0, Principal(saw.principal, p, i) + Interest(saw.interest, p, i)})]
        reserves == [i \in Sides |-> Reserve(saw.reserves, p, i)]
        worth(amounts) == [i \in Sides |-> Convert(amounts[i], price[i])]
        held == worth(reserves)
        owed == worth(debts)
    IN  [tvl |-> UsdMetric(worth([i \in Sides |-> Cash(saw.states, p, i)]), ""),
         liquidity |-> UsdMetric(held, ""),
         debt |-> UsdMetric(owed, "estimated"),
         collateral |-> UsdMetric(worth([i \in Sides |-> Collateral(saw.collateral, p, i)]), "estimated"),
         volume |-> Volume(Since(saw.volume, p, Day)),
         fees |-> Fees(Of(saw.fees, p)),
         apr |-> Apr(Since(saw.aprSwaps, p, Week), Since(saw.aprUpdates, p, Week)),
         reserves |-> [i \in Sides |-> AmountMetric(held[i])],
         sideDebts |-> [i \in Sides |-> AmountMetric(owed[i])],
         rates |-> [i \in Sides |-> Rate(saw.states, p, i)],
         utilization |-> [i \in Sides |-> Utilization(debts[i], reserves[i])]]

\* Metrics added up: missing as soon as one of them is.
AddUp(metrics, index) ==
    IF \E x \in index : metrics[x] = Missing THEN Missing
    ELSE Summed(Total([x \in index |-> metrics[x].value]), "estimated")

\* addTokenAggregate, buildTokenBaselines: over the sides that hold the token.
TokenBaseline(m, pools, price) ==
    LET sides == {x \in (DOMAIN pools) \X Sides : TokensOf[x[1]][x[2]] = m}
        held == [x \in sides |-> pools[x[1]].reserves[x[2]]]
        owed == [x \in sides |-> pools[x[1]].sideDebts[x[2]]]
        rates == {pools[x[1]].rates[x[2]] : x \in sides}
        used == [x \in sides |-> pools[x[1]].utilization[x[2]]]
    IN  [price |-> IF Priced(price) THEN price.usd ELSE None,
         liquidity |-> AddUp(held, sides),
         debt |-> AddUp(owed, sides),
         borrowRate |-> IF None \in rates THEN None ELSE Min(rates),
         utilization |-> LET all == AddUp(used, sides)
                         IN  IF all = Missing THEN None ELSE all.value \div Cardinality(sides)]

Answer(listed, saw) ==
    LET pools == [p \in listed |-> PoolBaseline(p, saw)]
        mints == {TokensOf[p][i] : p \in listed, i \in Sides}
        liquidity == AddUp([p \in listed |-> pools[p].liquidity], listed)
        collateral == AddUp([p \in listed |-> pools[p].collateral], listed)
    IN  [pools |-> pools,
         tokens |-> [m \in mints |-> TokenBaseline(m, pools, StoredPrice(saw.prices, m))],
         deposited |-> IF Missing \in {liquidity, collateral} THEN Missing
                       ELSE Summed(liquidity.value + collateral.value, "estimated"),
         borrowed |-> AddUp([p \in listed |-> pools[p].debt], listed),
         volume |-> Volume(UNION {Of(saw.total, p) : p \in listed}),
         fees |-> PreIndexFees + Total([p \in listed |-> pools[p].fees])]

-----------------------------------------------------------------------------
Init ==
    /\ stored = Old
    /\ request = None
    /\ answer = None

Store(r) ==
    /\ r \notin stored
    /\ request # None => Cardinality(stored \ request.found) < MaxLate
    /\ stored' = stored \cup {r}
    /\ UNCHANGED <<request, answer>>

\* fetchPools.
Ask(listed) ==
    /\ request = None
    /\ request' = [listed |-> listed, found |-> stored]
    /\ answer' = None
    /\ UNCHANGED stored

\* Promise.all: a row committed meanwhile is in the snapshots of any of the
\* queries that read its kind.
Reply ==
    /\ request # None
    /\ \E late \in SUBSET {x \in (stored \ request.found) \X Queries : x[1].kind \in KindsOf(x[2])} :
           LET saw == [q \in Queries |->
                          {r \in stored : r.kind \in KindsOf(q) /\ (r \in request.found \/ <<r, q>> \in late)}]
           IN  answer' = Answer(request.listed, saw)
    /\ request' = None
    /\ UNCHANGED stored

Next ==
    \/ \E r \in Rows : Store(r)
    \/ \E listed \in {Visible, Pools} : Ask(listed)
    \/ Reply

Spec == Init /\ [][Next]_vars

(***************************************************************************)
(* A total over the whole protocol is whole or not shown, and it is the    *)
(* same money as the tokens': borrowed is shown exactly when each token's  *)
(* debt is, and is their sum; deposited is shown exactly when each token's *)
(* liquidity and each pool's collateral is, and is their sum.  This holds  *)
(* although the amounts behind an answer come from eleven snapshots.       *)
(***************************************************************************)
TotalsAreWhole ==
    answer # None =>
        LET tokens == answer.tokens
            mints == DOMAIN tokens
            pools == DOMAIN answer.pools
            owed == [m \in mints |-> tokens[m].debt]
            held == [m \in mints |-> tokens[m].liquidity]
            locked == [p \in pools |-> answer.pools[p].collateral]
        IN  /\ answer.borrowed = AddUp(owed, mints)
            /\ IF Missing \in {AddUp(held, mints), AddUp(locked, pools)}
               THEN answer.deposited = Missing
               ELSE answer.deposited.value = AddUp(held, mints).value + AddUp(locked, pools).value
=============================================================================
