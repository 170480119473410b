---------------------------- MODULE WalletBanks ----------------------------
(***************************************************************************)
(* What the node and the event stream may answer to the reads of a wallet   *)
(* capture.  The chain is a history, fixed but not known: after each slot   *)
(* there is a bank, and a read answers from some bank at or after the slot  *)
(* it asks for.  The node is several replicas, of which any may lag: the    *)
(* floor that a read names is all that orders it with another.              *)
(*                                                                         *)
(* One wallet is followed.  An account is its bytes, a record or None.      *)
(***************************************************************************)
EXTENDS Naturals, FiniteSets, FiniteSetsExt, Functions

CONSTANTS
    MaxSlot,    \* the last slot of the chain (bound)
    Histories,  \* the chains considered
    None

VARIABLES
    chain,      \* [markets, positions, orders, loans, shares, vault, events]
    stream,     \* the stream's cursor
    missed      \* events of slots below the cursor that catch-up has yet to read

Slots == 1..MaxSlot
Positions == DOMAIN chain.positions
Orders == DOMAIN chain.orders
Loans == DOMAIN chain.loans

\* n reads, each of which asks for the bank of the one before it or a later
\* one (boundedDuskRpcRead with minContextSlot).
Rising(n, floor) ==
    {b \in [1..n -> floor..MaxSlot] : \A i \in 1..(n - 1) : b[i] <= b[i + 1]}

At(accounts, slot) ==
    Restrict([a \in DOMAIN accounts |-> accounts[a][slot]],
             {a \in DOMAIN accounts : accounts[a][slot] # None})

\* The markets of this release that a bank has: positions and orders of any
\* other are left out before they are decoded.
Scope(slot) == chain.markets[slot]

InScope(accounts, slot, scope) ==
    LET found == At(accounts, slot)
    IN  Restrict(found, {a \in DOMAIN found : found[a].market \in Scope(scope)})

-----------------------------------------------------------------------------
(***************************************************************************)
(* Positions.                                                              *)
(***************************************************************************)
\* The owner's accounts: the scope first, then all the accounts at once.
OwnerAccounts(floor) ==
    {[slot |-> b[2], rows |-> InScope(chain.positions, b[2], b[1])] : b \in Rising(2, floor)}

\* Neither closed nor free of debt.
Open(rows) == {p \in DOMAIN rows : rows[p].collateral # 0 /\ rows[p].shares # 0}

\* The receipt of a simulated close tells what was sold and paid, not what
\* the debt was.
ReceiptMatches(held, sold) == sold # None /\ sold.collateral = held.collateral

\* The last read is of the bank of the simulation or a later one.
Unchanged(p, held, slot) == chain.positions[p][slot] = held

\* A full close, simulated: the position, its market and the mint are read
\* first, and the position again at the end.  The program may refuse, which
\* is an answer; all else that does not add up fails the capture.
Valuations(p, floor) ==
    UNION {
        LET held == chain.positions[p][b[1]]
            sold == chain.positions[p][b[4]]
        IN  (IF ReceiptMatches(held, sold) /\ Unchanged(p, held, b[5])
             THEN {[status |-> "available", position |-> held, slot |-> b[4], checked |-> b[5]]}
             ELSE {})
            \cup {[status |-> "unavailable", slot |-> b[4], checked |-> b[4]]} :
        b \in {x \in Rising(5, floor) : p \in Open(At(chain.positions, x[1]))}}

\* One bank for the positions of a market, which must be as they were listed;
\* their prices may be missing.
OracleBanks(rows, batch, floor) ==
    {s \in floor..MaxSlot : \A p \in batch : chain.positions[p][s] = rows[p]}

-----------------------------------------------------------------------------
(***************************************************************************)
(* Orders: exits, entries and stops of hLP shares.                         *)
(***************************************************************************)
OrdersOf(kind, slot, scope) ==
    LET found == InScope(chain.orders, slot, scope)
    IN  {o \in DOMAIN found : found[o].kind = kind}

\* Several accounts at once: a replica may answer from another bank than the
\* slot it names.  The Clock among them tells.
SameBank_unchecked(slot, bank) == bank <= slot
SameBank(slot, bank) == bank = slot

\* An hLP order whose vault has moved to another mint.
Retired(order, slot) == order.kind = "hlp" /\ order.mint # chain.vault[slot]

OrderRow(o, slot, bank) ==
    LET order == chain.orders[o][bank]
    IN  [order |-> order, slot |-> slot,
         position |-> IF order.kind = "exit" THEN chain.positions[order.position][bank] ELSE None,
         retired |-> Retired(order, bank), mark |-> None]

\* The open of an entry order, simulated: the receipt counts if the order is
\* still the one that was read and has not expired.  Whatever fails is a
\* price that is not shown.
ReceiptOfOrder(o, row, slot) ==
    chain.orders[o][slot] = row.order /\ slot <= row.order.expires

EntryMarks(o, row, floor) ==
    {None} \cup
    (IF row.order.expires < row.slot THEN {}
     ELSE {[slot |-> s] : s \in {x \in floor..MaxSlot : ReceiptOfOrder(o, row, x)}})

\* The trigger of a stop, simulated; None if the read fails.
Triggers(floor) == {None} \cup [slot : floor..MaxSlot, value : {None, "preview"}]

-----------------------------------------------------------------------------
(***************************************************************************)
(* Borrow positions and hLP holdings: found in the stream, valued by the    *)
(* node.                                                                   *)
(***************************************************************************)
StreamedLoans(through) == {a \in Loans : chain.loans[a][through] # None}
StreamedShares(through) ==
    [balance |-> chain.shares[through], mint |-> chain.vault[1],
     retired |-> chain.vault[through] # chain.vault[1]]

LoanValues(a, floor) ==
    {[slot |-> s, status |-> "unavailable"] : s \in floor..MaxSlot} \cup
    {[slot |-> s, status |-> "available"] : s \in {x \in floor..MaxSlot : chain.loans[a][x] # None}}

\* Per mint: the wallet's shares, those its open stops hold, and the price of
\* their sum.
Holding(held, stops) ==
    [m \in {held.mint : x \in {y \in {held} : y.balance # 0}}
             \cup {stops[o].order.mint : o \in {x \in DOMAIN stops : stops[x].order.status = 0}} |->
        LET mine == {o \in DOMAIN stops : stops[o].order.status = 0 /\ stops[o].order.mint = m}
            wallet == IF m = held.mint THEN held.balance ELSE 0
        IN  [wallet |-> wallet,
             escrow |-> MapThenSumSet(LAMBDA o : stops[o].order.amount, mine),
             retired |-> IF wallet # 0 THEN held.retired
                         ELSE \A o \in mine : stops[o].retired]]

HoldingValues(m, holding, floor) ==
    IF holding.retired THEN {[slot |-> floor, nav |-> "none"]}
    ELSE IF holding.wallet + holding.escrow = 0 THEN {[slot |-> floor, nav |-> "unknown"]}
    ELSE {[slot |-> s, nav |-> "unknown"] : s \in floor..MaxSlot} \cup
         {[slot |-> s, nav |-> IF chain.vault[s] = m THEN "known" ELSE "none"] : s \in floor..MaxSlot}

-----------------------------------------------------------------------------
(***************************************************************************)
(* What the owner has paid into a position and taken out of it.            *)
(***************************************************************************)
Sum(name, S) == MapThenSumSet(LAMBDA e : e[name], S)

NoFlows(slot) == [status |-> "unavailable", slot |-> slot]

\* The position must be what the last slot's events left of it.
LeadsTo(rows, held) ==
    \E e \in rows :
        /\ \A f \in rows : f.slot <= e.slot
        /\ e.collateral = held.collateral /\ e.shares = held.shares

Fold(p, held, events, slot) ==
    LET rows == {e \in events : e.position = p /\ e.slot >= held.opened}
        openings == {e \in rows : e.name = "opened"}
    IN  IF /\ slot >= held.opened
           /\ Cardinality(openings) = 1
           /\ \A e \in openings : e.slot = held.opened /\ e.debit = held.margin
           /\ \A e \in rows : e.name \in {"opened", "updated", "liquidated"}
           /\ LeadsTo(rows, held)
        THEN [status |-> "available", slot |-> slot,
              contributed |-> Sum("debit", rows), withdrawn |-> Sum("credit", rows)]
        ELSE NoFlows(slot)

Streamed(through) == {e \in chain.events : e.slot <= through} \ missed

\* A stream behind the deployment's slot, or a database that fails, supplies
\* nothing.
CashFlows(rows, floor, verified) ==
    {[p \in {q \in DOMAIN rows : rows[q].collateral # 0} |->
        IF stream < floor THEN NoFlows(floor) ELSE Fold(p, rows[p], Streamed(stream), stream)],
     [p \in {q \in DOMAIN rows : rows[q].collateral # 0} |-> NoFlows(verified)]}
=============================================================================
