------------------------------ MODULE MCReads ------------------------------
(***************************************************************************)
(* Small values for the constants of Services and ReadCache, and small     *)
(* instances of the modules about what else the HTTP API reads:            *)
(* PagedReads, OwnerClaims and LiveYield.  They share no state; a          *)
(* behaviour is one of theirs, which `part` chooses.                       *)
(***************************************************************************)
EXTENDS Services, ReadCache, TLC

CONSTANTS
    u1, m1, s1, s2, s3, d1, o1, owner, accrual, e1, e2, w1, w2, a1, m2, p1, c1, c2, r1, r2

VARIABLES part,
          kept, told, notices, cache, loads, walk,
          recorded, through, claim, fees, vault, account, credited, paid

pageVars == <<kept, told, notices, cache, loads, walk>>
claimVars == <<recorded, through, claim>>
yieldVars == <<fees, vault, account, credited, paid>>
readVars == <<lookupVars, pageVars, claimVars, yieldVars>>

(***************************************************************************)
(* The constants of Services.                                              *)
(***************************************************************************)
\* Two replicas; two events of which the later is malformed, and neither need
\* ever be stored; one account that opens and closes.
MCWorkers == {w1, w2}
MCSourced == 1..2
MCMalformed == {2}
MCAccounts == {a1}
MCOwnerOf == a1 :> owner
MCGroups == {"m"}
MCGroupOf == a1 :> "m"

\* An event of two mints and one of one, in two hours.
MCEarning == {e1, e2}
MCHourOf == e1 :> 1 @@ e2 :> 2
MCMintsOf == e1 :> {m1, m2} @@ e2 :> {m1}
MCEarnersOf == [e \in MCEarning |-> {p1}]

Symmetric == Permutations(MCWorkers) \cup Permutations({r1, r2})

\* A swap, and a position closed one slot later with a swap of its own; the
\* quote asset has a reference price, and a provider prices the base asset.
Swapped ==
    [name |-> "SwapExecuted", swap |-> "base", fee |-> "base", debt |-> None,
     borrowed |-> FALSE, collateral |-> FALSE, leverage |-> FALSE]
Closed ==
    [name |-> "LeveragePositionClosed", swap |-> "base", fee |-> "base", debt |-> "quote",
     borrowed |-> FALSE, collateral |-> TRUE, leverage |-> TRUE]
MCEconomic == {e1, e2}
MCEventSlot == e1 :> 1 @@ e2 :> 2
MCPayloadOf == e1 :> Swapped @@ e2 :> Closed
MCQuotes == {[asset |-> "base", at |-> 2]}
MCReferences == {"quote"}

\* Four swaps, two of one slot.
MCMeasured == 1..4
MCMeasuredSlot == <<1, 2, 2, 3>>

\* A market that refuses a level, runs out of compute, or changes in between,
\* and orders that are filled, expire, come late or live for one slot.
Entry(created, closed, expires, listed) ==
    [created |-> created, closed |-> closed, expires |-> expires, seen |-> listed]
Bank(market) ==
    [market |-> market,
     orders |-> "filled" :> Entry(1, 3, 4, TRUE) @@ "expires" :> Entry(1, 5, 3, TRUE)
             @@ "late" :> Entry(3, 5, 4, TRUE) @@ "brief" :> Entry(4, 4, 4, FALSE)]
MCHistories ==
    {Bank(<<"a", "a", "b", "b">>), Bank(<<"c", "c", "a", "a">>), Bank(<<"b", "c", "d", "d">>)}
MCLevels == 1..3
MCAccepts == [a |-> {1, 3}, b |-> 1..3, c |-> {1, 3}, d |-> 1..3]
MCFits == [a |-> 1, b |-> 2, c |-> 3, d |-> 3]

\* Programs that take any margin, stop at one, take none, or refuse some in
\* between.
Margins == 1..15
MCQuoters == {1, 2}
MCPrograms == {"hook"}
MCChains ==
    [market : {<<"flat", "steep">>, <<"thin", "uneven">>, <<"none", "uneven">>}]
MCLeverages == [flat |-> 0..3, steep |-> {0, 1}, thin |-> {0, 2}, uneven |-> {0, 1, 3}, none |-> {}]
MCReceipts ==
    [flat |-> [m \in Margins |-> m \div 2],
     steep |-> [m \in Margins |-> IF m > 9 THEN None ELSE 2 * m],
     thin |-> [m \in Margins |-> IF m > 3 THEN None ELSE m],
     uneven |-> [m \in Margins |-> IF m < 3 THEN None ELSE IF m % 3 = 0 THEN m - 1 ELSE m],
     none |-> [m \in Margins |-> None]]
MCInputs ==
    {[kind |-> "maximum", margin |-> 1, target |-> 0]}
    \cup [kind : {"size"}, margin : {1, 5, 12}, target : {1, 6, 12}]

\* Chains of three slots; a capture begins at the second or later.
W == INSTANCE WalletChains
MCWallets == W!Chains

\* Three commits, of slots that do not matter to the cache.
MCSlotOf == <<1, 1, 1>>

(***************************************************************************)
(* The other instances.                                                    *)
(***************************************************************************)
\* A swap stored late, two older ones of one millisecond, and a repayment
\* at the microsecond of the oldest.
Row == {s1, s2, s3, d1}
Feed(family, user, pair, categories) ==
    [family |-> family, user |-> user, pair |-> pair, categories |-> categories, sort |-> "recent"]

Walk == INSTANCE PagedReads WITH
    stored <- kept,
    Rows <- Row,
    Old <- {s2, s3, d1},
    KindOf <- [r \in Row |-> IF r = d1 THEN "debt" ELSE "swap"],
    UserOf <- [r \in Row |-> u1],
    PairOf <- [r \in Row |-> m1],
    TimeOf <- [r \in Row |-> CASE r = s1 -> 8 [] r = s2 -> 7 [] OTHER -> 5],
    PerMs <- 4,
    Feeds <- {Feed("swaps", None, m1, {}), Feed("activity", u1, None, {"swaps", "lending"})},
    Limit <- 1,
    MaxOffset <- 2,
    MaxCached <- 2

\* A market of the second slot.  An order is cancelled, and settled later, or by
\* a shorter path of the same slot, or not at all; interest accrues to a partner,
\* who claims a part before another accrual of the slot.
Happens(slot, place, path, name, of, amount) ==
    [slot |-> slot, place |-> place, path |-> path, name |-> name, of |-> of, amount |-> amount]
Ordered(slot, name) == Happens(slot, IF name = "settled" THEN 3 ELSE 2, IF name = "cancelled" THEN 2 ELSE 1, name, o1, 0)
Opening == {Happens(2, 1, 1, "opened", m1, 0), Ordered(2, "created")}
Endings ==
    [later |-> {Ordered(2, "cancelled"), Ordered(3, "settled")},
     tied |-> {Ordered(3, "cancelled"), Ordered(3, "settled")},
     kept |-> {Ordered(3, "cancelled"), Happens(2, 3, 1, "held", owner, 0)}]

Claims(kind, events) == INSTANCE OwnerClaims WITH
    Kinds <- {kind}, Owner <- owner, Market <- m1, Orders <- {o1}, Accrual <- accrual,
    MaxSlot <- 3, rows <- recorded, request <- claim, Chain <- events

Movements ==
    {Happens(2, 1, 1, "opened", m1, 0), Happens(2, 2, 1, "accrued", accrual, 2),
     Happens(3, 1, 1, "claimed", accrual, 1), Happens(3, 2, 1, "accrued", accrual, 1)}

\* A senior holder of one share, a vault of two, and three receipts of it.
Yield == INSTANCE LiveYield WITH
    Seniors <- {"senior"}, Receipts <- {"first", "second"},
    Balance <- "senior" :> 1 @@ "first" :> 2 @@ "second" :> 1,
    VaultShares <- 2, Q <- 8, Reach <- 1, MaxEpoch <- 2, MaxCredit <- 4

Parts ==
    {"drain", "captures", "valuation", "activity", "rates", "book", "leverage",
     "cache", "pages", "wallet", "referral", "growth"} \cup DOMAIN Endings

\* What a part does not use begins at one of its values.
PartInit ==
    /\ part \in Parts
    /\ Init
    /\ part # "book" => history = CHOOSE h \in Histories : TRUE
    /\ part # "leverage" => chain = CHOOSE c \in BankHistories : TRUE
    /\ CacheInit
    /\ Walk!Init /\ (part # "pages" => walk.feed.family = "swaps")
    /\ part # "wallet" => states = W!Replaced /\ tip = 3
    /\ Claims("referral", Movements)!Init /\ Yield!Init

ServiceNext ==
    /\ UNCHANGED <<part, readVars>>
    /\ \/ part = "drain" /\ DrainStep
       \/ part = "captures" /\ CaptureStep
       \/ part = "valuation" /\ ValuationStep
       \/ part = "activity" /\ ActivityStep
       \/ part = "rates" /\ RatesStep
       \/ part = "book" /\ BookStep
       \/ part = "leverage" /\ LeverageStep
       \/ part = "wallet" /\ WalletStep

ReadNext ==
    /\ UNCHANGED <<part, vars>>
    /\ \/ part = "cache" /\ UNCHANGED <<pageVars, claimVars, yieldVars>> /\ CacheNext
       \/ part = "pages" /\ UNCHANGED <<lookupVars, claimVars, yieldVars>> /\ Walk!Next
       \/ /\ UNCHANGED <<lookupVars, pageVars, yieldVars>>
          /\ \/ \E e \in DOMAIN Endings : part = e /\ Claims("yield", Opening \cup Endings[e])!Next
             \/ part = "referral" /\ Claims("referral", Movements)!Next
       \/ part = "growth" /\ UNCHANGED <<lookupVars, pageVars, claimVars>> /\ Yield!Next

PartSpec == PartInit /\ [][ServiceNext \/ ReadNext]_<<part, vars, readVars>>

(***************************************************************************)
(* What these modules claim.                                               *)
(***************************************************************************)
\* Walking the pages of a feed misses no announced row but ties at a page's
\* edge and rows pushed over a cached offset (PagedReads).
WalkMissesOnlyTies == Walk!WalkMissesOnlyTies

\* A capture finds what was discovered for it and leaves no claim out, accruals
\* are the chain's (OwnerClaims), and what holders are shown and paid was
\* earned (LiveYield).
ClaimsAreWhole ==
    /\ \A e \in DOMAIN Endings : part = e =>
          /\ Claims("yield", Opening \cup Endings[e])!DiscoveryIsThere
          /\ Claims("yield", Opening \cup Endings[e])!ClaimsAreWhole
    /\ part = "referral" =>
          Claims("referral", Movements)!DiscoveryIsThere /\ Claims("referral", Movements)!ClaimsAreWhole
    /\ part = "growth" => Yield!YieldIsBacked

\* Harvest pays what a holder is shown (LiveYield).
HarvestPaysShown == [][part = "growth" => Yield!ShownIsKept]_yieldVars
=============================================================================
