--------------------------- MODULE WalletCapture ---------------------------
(***************************************************************************)
(* A capture of a wallet's payload (captureWalletSnapshot): the list of     *)
(* the owner's leverage positions, then what the stream knows, then values  *)
(* and orders side by side, each from banks of its own, then the list once  *)
(* more from a bank that is not older than any of them.  Whatever fails, or *)
(* the 14 s of the payload, ends the capture without one.                   *)
(***************************************************************************)
EXTENDS WalletBanks

CONSTANTS
    BatchSize,  \* orders read at once (20 in the code)
    FirstSlot   \* the cursor when the capture begins, at least (bound)

VARIABLES
    floor,      \* deployment.sourceSlot
    at,         \* where the capture is
    accounts,   \* [slot, rows]
    streamed,   \* ["borrow", "hlp", "junior" -> [rows, slot], as cursors]
    values,     \* the closes simulated
    oracle,     \* [market -> slot]
    loans,      \* the borrow positions valued
    orders,     \* [at, scope, floor, found, left, rows] of readDuskOrders
    holdings,   \* hLP holdings valued
    verified,   \* slot of the second list
    flows

given == <<chain, stream, missed, floor>>
parts == <<values, oracle, loans, orders>>
vars == <<given, at, accounts, streamed, parts, holdings, verified, flows>>

Streams == {"borrow", "hlp", "junior"}
Nothing == [x \in {} |-> None]

\* What was read before, and what has been read now.
Joined(f, g) == [x \in DOMAIN f \cup DOMAIN g |-> IF x \in DOMAIN f THEN f[x] ELSE g[x]]
With(f, x, y) == Joined(f, [z \in {x} |-> y])

\* readDuskOrders on its way: the kind or the prices it reads, the markets in
\* scope, the slot it asks for, the accounts found, those left, and its rows.
Reading(reads, scope, low, found, left, rows) ==
    [at |-> reads, scope |-> scope, floor |-> low, found |-> found, left |-> left, rows |-> rows]

Init ==
    /\ chain \in Histories
    /\ stream \in FirstSlot..MaxSlot
    /\ missed \in {{}} \cup {{e} : e \in {x \in chain.events : x.slot <= stream}}
    /\ floor = stream
    /\ at = "accounts"
    /\ accounts = [slot |-> 0, rows |-> Nothing]
    /\ streamed = [k \in Streams |-> [rows |-> 0, slot |-> 0]]
    /\ values = Nothing /\ oracle = Nothing /\ loans = Nothing
    /\ orders = Reading("scope", 0, 0, None, {}, Nothing)
    /\ holdings = Nothing
    /\ verified = 0
    /\ flows = Nothing

\* The ingestion goes on, and so may its catch-up.
StreamMoves ==
    /\ at \in {"streams", "flows"} /\ stream < MaxSlot
    /\ stream' \in (stream + 1)..MaxSlot
    /\ missed' \in {missed, {}}
    /\ UNCHANGED <<chain, floor, at, accounts, streamed, parts, holdings, verified, flows>>

-----------------------------------------------------------------------------

ReadAccounts ==
    /\ at = "accounts"
    /\ accounts' \in OwnerAccounts(floor)
    /\ at' = "streams"
    /\ UNCHANGED <<given, streamed, parts, holdings, verified, flows>>

\* The floor of all that follows.
CaptureFloor_deployment == floor
CaptureFloor == Max({floor, accounts.slot})

\* Rows first, then the cursor, which covers them.
ReadRows(k) ==
    /\ at = "streams" /\ streamed[k].rows = 0
    /\ streamed' = [streamed EXCEPT ![k].rows = stream]
    /\ UNCHANGED <<given, at, accounts, parts, holdings, verified, flows>>

ReadCursor(k) ==
    /\ at = "streams" /\ streamed[k].rows # 0 /\ streamed[k].slot = 0
    /\ streamed' = [streamed EXCEPT ![k].slot = stream]
    /\ at' = IF \A j \in Streams \ {k} : streamed[j].slot # 0 THEN "parts" ELSE at
    /\ UNCHANGED <<given, accounts, parts, holdings, verified, flows>>

-----------------------------------------------------------------------------
(* The parts.  They share nothing, and their banks are the chain's: their   *)
(* steps commute, and are taken in the order of the code's list.            *)

Valued == DOMAIN values = Open(accounts.rows)
Owed == StreamedLoans(streamed["borrow"].rows)

\* completeBatch: six at a time, all or none.
Value(p) ==
    /\ at = "parts" /\ p \in Open(accounts.rows) \ DOMAIN values
    /\ \E v \in Valuations(p, CaptureFloor) : values' = With(values, p, v)
    /\ UNCHANGED <<given, at, accounts, streamed, oracle, loans, orders, holdings, verified, flows>>

ValueByOracle(m) ==
    LET batch == {p \in Open(accounts.rows) : accounts.rows[p].market = m}
    IN  /\ at = "parts" /\ Valued
        /\ batch # {} /\ m \notin DOMAIN oracle
        /\ \E s \in OracleBanks(accounts.rows, batch, CaptureFloor) : oracle' = With(oracle, m, s)
        /\ UNCHANGED <<given, at, accounts, streamed, values, loans, orders, holdings, verified, flows>>

Priced == \A p \in Open(accounts.rows) : accounts.rows[p].market \in DOMAIN oracle

ValueLoan(a) ==
    /\ at = "parts" /\ Valued /\ Priced
    /\ a \in Owed \ DOMAIN loans
    /\ \E v \in LoanValues(a, Max({CaptureFloor, streamed["borrow"].slot})) : loans' = With(loans, a, v)
    /\ UNCHANGED <<given, at, accounts, streamed, values, oracle, orders, holdings, verified, flows>>

OthersDone == at = "parts" /\ Valued /\ Priced /\ DOMAIN loans = Owed
notOrders == <<given, at, accounts, streamed, values, oracle, loans, holdings, verified, flows>>

-----------------------------------------------------------------------------
(* readDuskOrders: the floor rises with each read.                          *)

AfterKind(kind) ==
    CASE kind = "exit" -> "entry" [] kind = "entry" -> "hlp" [] kind = "hlp" -> "marks"

ReadScope ==
    /\ OthersDone /\ orders.at = "scope"
    /\ \E s \in CaptureFloor..MaxSlot : orders' = Reading("exit", s, s, None, {}, Nothing)
    /\ UNCHANGED notOrders

Discover ==
    /\ orders.at \in {"exit", "entry", "hlp"} /\ orders.found = None
    /\ \E s \in orders.floor..MaxSlot :
          orders' = Reading(orders.at, orders.scope, s, OrdersOf(orders.at, s, orders.scope),
                            {}, orders.rows)
    /\ UNCHANGED notOrders

\* A batch once more, with its markets, positions and Clock.  An answer whose
\* Clock is of another bank is refused and asked for again, at that slot or
\* later, two times; an order that is gone is skipped.
Detail ==
    /\ orders.found \notin {None, {}}
    /\ \E batch \in SUBSET orders.found, s \in orders.floor..MaxSlot, bank \in Slots :
          /\ Cardinality(batch) = Min({BatchSize, Cardinality(orders.found)})
          /\ SameBank(s, bank)
          /\ LET there == {o \in batch : chain.orders[o][bank] # None}
             IN  orders' = Reading(orders.at, orders.scope, s, orders.found \ batch, {},
                                   Joined(orders.rows, [o \in there |-> OrderRow(o, s, bank)]))
    /\ UNCHANGED notOrders

RowsOf(kind) == {o \in DOMAIN orders.rows : orders.rows[o].order.kind = kind}

KindDone ==
    /\ orders.found = {}
    /\ orders' = Reading(AfterKind(orders.at), orders.scope, orders.floor, None,
                         IF orders.at = "hlp" THEN RowsOf("entry") ELSE {}, orders.rows)
    /\ UNCHANGED notOrders

\* A price that is not there does not raise the floor.
Marked(o, mark) ==
    Reading(orders.at, orders.scope, IF mark = None THEN orders.floor ELSE mark.slot, None,
            orders.left \ {o},
            [orders.rows EXCEPT ![o] = [orders.rows[o] EXCEPT !.mark = mark]])

Mark ==
    /\ orders.at = "marks"
    /\ \E o \in orders.left : \E m \in EntryMarks(o, orders.rows[o], orders.floor) : orders' = Marked(o, m)
    /\ UNCHANGED notOrders

MarksDone ==
    /\ orders.at = "marks" /\ orders.left = {}
    /\ orders' = Reading("triggers", orders.scope, orders.floor, None,
                         {o \in RowsOf("hlp") : orders.rows[o].order.status = 0 /\ ~orders.rows[o].retired},
                         orders.rows)
    /\ UNCHANGED notOrders

Trigger ==
    /\ orders.at = "triggers"
    /\ \E o \in orders.left, t \in Triggers(orders.floor) : orders' = Marked(o, t)
    /\ UNCHANGED notOrders

Ordered == orders.at = "triggers" /\ orders.left = {}
PartsDone ==
    /\ at = "parts" /\ Ordered
    /\ at' = "holdings"
    /\ UNCHANGED <<given, accounts, streamed, parts, holdings, verified, flows>>

-----------------------------------------------------------------------------

Stops == Restrict(orders.rows, RowsOf("hlp"))
Held == Holding(StreamedShares(streamed["hlp"].rows), Stops)

ValueHolding(m) ==
    /\ at = "holdings" /\ m \in DOMAIN Held \ DOMAIN holdings
    /\ \E v \in HoldingValues(m, Held[m], Max({orders.floor, streamed["hlp"].slot})) :
          holdings' = With(holdings, m, v)
    /\ UNCHANGED <<given, at, accounts, streamed, parts, verified, flows>>

HoldingsDone ==
    /\ at = "holdings" /\ DOMAIN holdings = DOMAIN Held
    /\ at' = "verify"
    /\ UNCHANGED <<given, accounts, streamed, parts, holdings, verified, flows>>

SlotsOf(f) == {f[x].slot : x \in DOMAIN f}
SourceSlot ==
    Max({accounts.slot, orders.floor} \cup SlotsOf(streamed) \cup SlotsOf(values)
        \cup {oracle[m] : m \in DOMAIN oracle} \cup SlotsOf(loans) \cup SlotsOf(holdings))

\* The list is read again at a bank that no part is newer than.
VerifyFloor_listed == Max({accounts.slot} \cup SlotsOf(values))
VerifyFloor == Max({SourceSlot} \cup {values[p].checked : p \in DOMAIN values})

Verify ==
    /\ at = "verify"
    /\ \E v \in OwnerAccounts(VerifyFloor) : v.rows = accounts.rows /\ verified' = v.slot
    /\ at' = "flows"
    /\ UNCHANGED <<given, accounts, streamed, parts, holdings, flows>>

ReadFlows ==
    /\ at = "flows"
    /\ flows' \in CashFlows(accounts.rows, floor, verified)
    /\ at' = "publish"
    /\ UNCHANGED <<given, accounts, streamed, parts, holdings, verified>>

\* A valuation must be of the position that was listed.
Publish ==
    /\ at = "publish"
    /\ \A p \in DOMAIN values : values[p].status = "available" => values[p].position = accounts.rows[p]
    /\ at' = "published"
    /\ UNCHANGED <<given, accounts, streamed, parts, holdings, verified, flows>>

\* An error, or the signal of capturePayload.
Fail ==
    /\ at \notin {"published", "failed"}
    /\ at' = "failed"
    /\ UNCHANGED <<given, accounts, streamed, parts, holdings, verified, flows>>

Next ==
    \/ StreamMoves \/ ReadAccounts
    \/ \E k \in Streams : ReadRows(k) \/ ReadCursor(k)
    \/ \E p \in Positions : Value(p)
    \/ \E m \in UNION {chain.markets[s] : s \in Slots} : ValueByOracle(m)
    \/ \E a \in Loans : ValueLoan(a)
    \/ ReadScope \/ Discover \/ Detail \/ KindDone \/ Mark \/ MarksDone \/ Trigger \/ PartsDone
    \/ \E m \in {chain.vault[s] : s \in Slots} : ValueHolding(m)
    \/ HoldingsDone \/ Verify \/ ReadFlows \/ Publish \/ Fail

Spec == Init /\ [][Next]_vars

-----------------------------------------------------------------------------
(***************************************************************************)
(* Properties of what is published.                                        *)
(***************************************************************************)
Published == at = "published"
Span == accounts.slot..verified

\* The wallet holds together: every position that is there from the first
\* list to the second is in it, as it is in both banks, everything that was
\* read from the node lies between them, and what a simulated close sold is
\* the collateral listed (duskWalletSnapshot.ts: the second list).
HeldThroughout ==
    Published =>
        /\ \A p \in Positions :
              /\ \A s \in Span : chain.positions[p][s] # None
              /\ chain.positions[p][accounts.slot].market \in Scope(accounts.slot)
              => p \in DOMAIN accounts.rows
        /\ \A p \in DOMAIN accounts.rows, s \in {accounts.slot, verified} :
              chain.positions[p][s] = accounts.rows[p]
        /\ SlotsOf(values) \cup SlotsOf(loans) \cup SlotsOf(orders.rows) \cup {orders.floor}
              \cup {oracle[m] : m \in DOMAIN oracle} \subseteq Span
        /\ \A p \in DOMAIN values :
              values[p].status = "available" =>
                  chain.positions[p][values[p].slot].collateral = accounts.rows[p].collateral

\* An entry order that becomes a position while the wallet is captured is
\* shown as the one or as the other, never as both nor as neither: positions
\* and orders come from different banks (duskWalletSnapshot.ts: the capture's
\* floor and the second list).
ExecutedOnce ==
    Published =>
        \A o \in Orders, executed \in accounts.slot..(verified + 1) :
            LET first == chain.orders[o][1]
                p == first.position
            IN  /\ first # None /\ first.kind = "entry" /\ first.market \in Scope(1)
                /\ \A s \in Span : /\ chain.orders[o][s] # None <=> s < executed
                                   /\ chain.positions[p][s] # None <=> s >= executed
                => (o \in DOMAIN orders.rows) # (p \in DOMAIN accounts.rows)

\* An order that is open all the while is listed; a row says what its slot's
\* bank held, of the order and of the position it would close; and the price
\* of an entry order was had for that order (duskOrderCapture.ts).
OrdersListed ==
    Published =>
        /\ \A o \in Orders :
              /\ \A s \in accounts.slot..orders.floor : chain.orders[o][s] # None
              /\ chain.orders[o][accounts.slot].market \in Scope(accounts.slot)
              => o \in DOMAIN orders.rows
        /\ \A o \in DOMAIN orders.rows :
              LET row == orders.rows[o]
              IN  /\ row.order = chain.orders[o][row.slot]
                  /\ row.order.kind = "exit" => row.position = chain.positions[row.order.position][row.slot]
                  /\ row.order.kind = "entry" /\ row.mark # None =>
                        /\ row.mark.slot \in row.slot..orders.floor
                        /\ chain.orders[o][row.mark.slot] = row.order

\* The flows that led to a position as it was listed.
TrueFlows(p, slot) ==
    LET rows == {e \in chain.events : e.position = p /\ e.slot \in accounts.rows[p].opened..slot}
    IN  <<Sum("debit", rows), Sum("credit", rows)>>

ShownTruly(p) ==
    \E s \in accounts.rows[p].opened..MaxSlot :
        /\ chain.positions[p][s] # None
        /\ chain.positions[p][s].collateral = accounts.rows[p].collateral
        /\ chain.positions[p][s].shares = accounts.rows[p].shares
        /\ <<flows[p].contributed, flows[p].withdrawn>> = TrueFlows(p, s)

\* A stream that lags, or whose catch-up lacks the position's last events,
\* supplies no cost basis but the right one (duskLeverageCashFlows.ts).
FlowsAreWhole ==
    Published =>
        \A p \in DOMAIN flows :
            /\ flows[p].status = "available"
            /\ \A e \in missed, f \in chain.events \ missed :
                   e.position = p /\ f.position = p => f.slot < e.slot
            => ShownTruly(p)
=============================================================================
