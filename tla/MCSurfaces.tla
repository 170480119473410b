----------------------------- MODULE MCSurfaces -----------------------------
(***************************************************************************)
(* Small values for the constants of Surfaces.  Its modules share no state; *)
(* a behaviour is one of theirs, which `part` chooses.                      *)
(***************************************************************************)
EXTENDS Surfaces, TLC

CONSTANTS e1, e2, e3, w1, w2, c1, r1, r2, r3, usdc, sol, Parts

VARIABLE part

\* Three events in any order of arrival, so e1 may be a backfill below the
\* others; two of them carry a price, of two candles.  Two clients page by one
\* event, and a client refreshes a chart.
MCLogged == {e1, e2, e3}
MCCharted == {e1, e2}
MCRank == e1 :> 1 @@ e2 :> 2 @@ e3 :> 3
MCBucket == e1 :> 1 @@ e2 :> 2
MCWalkers == {w1, w2}
MCCharts == {c1}

\* Two requests, of the surface or of its one market, or three.
MCMarkets == {"m"}
MCRequests == {r1, r2}
ThreeRequests == {r1, r2, r3}
MCCreatedAt == [m \in MCMarkets |-> 1]

\* Two streams of two commits, the second of a lower slot as catch-up writes it.
MCStreams == {w1, w2}
MCSlotOf == <<2, 1>>

\* Two swaps of a transaction, of which the first is enriched, and a third.
MCSwaps == 1..3
MCTxOf == <<1, 1, 2>>
MCEnriched == {1}
MCViewers == {c1}

\* Two pools of the same tokens the other way round; a later price that is
\* missing, a swap and an update of the reserves, debt that is repaid past
\* its principal, and a position.
Price(m, t, v, q, by) == [kind |-> "price", mint |-> m, at |-> t, usd |-> v, quality |-> q, provider |-> by]

MCPools == {"p", "q"}
MCTokensOf == [p \in MCPools |-> IF p = "p" THEN <<sol, usdc>> ELSE <<usdc, sol>>]
MCRows ==
    {Price(sol, 2, 3, "historical", "birdeye"), Price(usdc, 2, 5, "historical", "birdeye"),
     Price(usdc, 4, 2, "estimated", "birdeye"), Price(usdc, 4, 0, "missing", "anchor"),
     [kind |-> "swap", pair |-> "p", at |-> 4, reserve |-> <<2, 0>>, fee |-> <<1, 0>>,
      volume |-> 3, feeUsd |-> 1],
     [kind |-> "update", pair |-> "q", at |-> 3, reserve |-> <<1, 2>>, cash |-> <<1, 1>>,
      interest |-> <<0, 1>>, lpInterest |-> <<0, 1>>, rate |-> <<1, 2>>],
     [kind |-> "debt", pair |-> "q", at |-> 3, amount |-> <<0, 2>>],
     [kind |-> "debt", pair |-> "q", at |-> 5, amount |-> <<0, -3>>],
     [kind |-> "position", pair |-> "p", at |-> 2, position |-> 1, collateral |-> <<1, 0>>]}

\* Two users, the first with two positions in one pair, and two lanes.
Person == {"u", "v"}
Position(sides, owes) == [pair |-> "p", sides |-> sides, owes |-> owes]
Debts(k, h, n) == [pair |-> "p", side |-> k, hour |-> h, amount |-> n]

MCUsers == <<"u", "v">>
MCLanes == {1, 2}
MCFirstHour == [u \in Person |-> IF u = "u" THEN 1 ELSE 2]
MCPositionsAt == [u \in Person |-> [h \in 1..3 |->
    CASE u = "u" /\ h = 1 -> <<Position({0}, 1), Position({0, 1}, 2)>>
      [] u = "u" /\ h = 2 -> <<Position({}, 0), Position({0}, 1)>>
      [] OTHER -> <<>>]]
MCDebtEvents == [u \in Person |->
    IF u = "u" THEN {Debts(0, 1, 2), Debts(0, 2, -1), Debts(1, 1, 1)} ELSE {}]

Symmetric == Permutations({w1, w2}) \cup Permutations({r1, r2})

-----------------------------------------------------------------------------

\* "walks", "chart", "surface", "feed", "swaps", "market", "portfolio". The
\* stream's first slot matters to the surface alone.
PartInit ==
    /\ part \in Parts
    /\ Init /\ (part # "surface" => stream = 1)

\* Of the walks' events the middle one is observed first.
PartNext ==
    /\ UNCHANGED part
    /\ \/ /\ part = "walks" /\ UNCHANGED chart /\ HistoryStep
          /\ (\E e \in {e1, e3} : drawn'[e] # 0) => versions[Len(versions)].obs[e2] # 0
       \/ part = "chart" /\ UNCHANGED <<entries, pending, walk>> /\ HistoryStep
       \/ part = "surface" /\ SurfaceStep
       \/ part = "feed" /\ FeedStep
       \/ part = "swaps" /\ SwapStep
       \/ part = "market" /\ MarketStep
       \/ part = "portfolio" /\ PortfolioStep

PartSpec == PartInit /\ [][PartNext]_<<part, vars>>
=============================================================================
