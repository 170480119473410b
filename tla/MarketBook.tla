----------------------------- MODULE MarketBook -----------------------------
(***************************************************************************)
(* The depth of a market and its open entry orders, put together from reads *)
(* of different banks (duskVirtualBook.ts, virtualBook/*.ts,                 *)
(* duskEntryOrderBook.ts) and shared among the replicas.                     *)
(*                                                                          *)
(* The chain is a history, fixed but not known; a read answers from some     *)
(* bank at or after its floor.  A preview is accepted or refused by the      *)
(* market of its bank, and a simulated batch of them has one compute limit.  *)
(***************************************************************************)
EXTENDS Naturals, Sequences, FiniteSets, FiniteSetsExt, SequencesExt

CONSTANTS
    None,
    MaxSlot,
    Histories,      \* [market: slot -> version,
                    \*  orders: order -> [created, closed, expires, seen]]
    Levels,         \* 1..n: the cumulative amounts of the curve
    PerBatch,       \* previews of a batch (4)
    Accepts,        \* [version -> the levels that its market executes]
    Fits,           \* [version -> previews that fit in a transaction]
    PerRead,        \* orders of a read (99)
    MaxOrders       \* orders of a book (500)

VARIABLES
    history,
    shared,         \* the snapshot that the replicas share
    book            \* the request

vars == <<history, shared, book>>

Slots == 1..MaxSlot
Orders == DOMAIN history.orders
Idle == [at |-> "idle"]

\* boundedDuskRpcRead with minContextSlot.
Banks(floor) == floor..MaxSlot

-----------------------------------------------------------------------------
(* Depth. *)

Chunks(seq, n) == {SubSeq(seq, i, Min({i + n - 1, Len(seq)})) : i \in {j \in 1..Len(seq) : j % n = 1 % n}}
Batches == Chunks([i \in 1..Cardinality(Levels) |-> i], PerBatch)

\* The previews of a transaction run in order, and the first that fails tells.
Outcome(batch, slot) ==
    LET version == history.market[slot]
        refused == {i \in 1..Len(batch) : batch[i] \notin Accepts[version]}
    IN  IF \E i \in refused : i <= Fits[version] THEN "unquotable"
        ELSE IF Len(batch) > Fits[version] THEN "exhausted" ELSE "quoted"

Singles(batch) == {<<batch[i]>> : i \in 1..Len(batch)}

\* Halves, the first rounded up.
Halves(batch) == LET half == (Len(batch) + 1) \div 2 IN {SubSeq(batch, 1, half), SubSeq(batch, half + 1, Len(batch))}

Quotes(batch, slot) == [levels |-> Range(batch), slot |-> slot]

\* combineVirtualBookBatches: all the previews are of one state of the market.
\* The floor they shared is kept to compare with.
Coherent(results) ==
    /\ \E r \in results : r.levels # {}
    /\ \A q, r \in results : history.market[q.slot] = history.market[r.slot]

Combined(results, since) ==
    [levels |-> UNION {r.levels : r \in results}, since |-> since,
     first |-> Min({r.slot : r \in results}), last |-> Max({r.slot : r \in results})]

-----------------------------------------------------------------------------
(* Entry orders: addresses from the stream, terms from the node. *)

\* Created by then, and the latest instruction heard is the creation; within a
\* slot, the latest by path.
Heard(through) ==
    {o \in Orders :
        LET order == history.orders[o]
        IN  /\ order.created <= through
            /\ order.closed <= through => order.closed = order.created /\ ~order.seen}

Account(o, slot) == history.orders[o].created <= slot /\ slot < history.orders[o].closed

Live(o, slot) == Account(o, slot) /\ slot <= history.orders[o].expires

\* The reads of the orders, each at the bank of the one before or later; one
\* that is of another bank than its slot is found out by its Clock.
OrderReads(addresses, floor) ==
    LET keys == SetToSeq(addresses)
        n == Max({1, (Len(keys) + PerRead - 1) \div PerRead})
        Of(i) == (i - 1) \div PerRead + 1
    IN  {[slot |-> b[n], heard |-> addresses,
          listed |-> {[order |-> keys[i], slot |-> b[Of(i)]] :
                          i \in {j \in 1..Len(keys) : Live(keys[j], b[Of(j)])}}] :
            b \in {f \in [1..n -> Banks(floor)] : \A i \in 1..(n - 1) : f[i] <= f[i + 1]}}

\* Orders are a separate panel: whatever fails there is None.
EntryOrders(floor) ==
    {None} \cup UNION {OrderReads(Heard(d), floor) : d \in {s \in Slots : Cardinality(Heard(s)) <= MaxOrders}}

\* The orders are read at the bank of the last preview or later.
OrdersFloor_first(depth) == depth.first
OrdersFloor(depth) == depth.last

\* The last bank that a snapshot was read at.
ConfirmFloor(snapshot) ==
    Max({snapshot.depth.last} \cup {s.slot : s \in {snapshot.orders} \ {None}})

-----------------------------------------------------------------------------

Init ==
    /\ history \in Histories
    /\ shared = None
    /\ book = Idle

\* currentVirtualBook: the envelope before, of the stream's slot.  The identity
\* that an envelope carries is the process's own (pinnedEnvelope), never read
\* from the chain: within a process it is always the one expected.
Begin(slot) ==
    /\ book.at = "idle"
    /\ book' = [at |-> "asked", slot |-> slot]
    /\ UNCHANGED <<history, shared>>

Join ==
    /\ book.at = "asked" /\ shared # None
    /\ book' = [at |-> "computed", slot |-> book.slot, snapshot |-> shared]
    /\ UNCHANGED <<history, shared>>

\* readDuskVirtualBook: what the previews are asked for is of the bank that
\* the market was read at, and that bank is their floor.
ReadMarket(snap) ==
    /\ book.at = "asked" /\ shared = None
    /\ snap \in Banks(book.slot)
    /\ book' = [at |-> "market", slot |-> book.slot, floor |-> snap, todo |-> Batches,
                results |-> {}]
    /\ UNCHANGED <<history, shared>>

\* previewVirtualBookQuotes: every batch at once.
PreviewAll(slots) ==
    /\ book.at = "market"
    /\ \A b \in Batches : slots[b] \in Banks(book.floor) /\ Outcome(b, slots[b]) = "quoted"
    /\ book' = [book EXCEPT !.at = "quoting", !.todo = {},
                            !.results = {Quotes(b, slots[b]) : b \in Batches}]
    /\ UNCHANGED <<history, shared>>

\* One of them fails: the curve is asked for again, batch by batch.
Recover(batch, slot) ==
    /\ book.at = "market" /\ batch \in Batches /\ slot \in Banks(book.floor)
    /\ Outcome(batch, slot) # "quoted"
    /\ book' = [book EXCEPT !.at = "quoting"]
    /\ UNCHANGED <<history, shared>>

\* A batch that runs out of compute is halved; one with an amount that cannot
\* execute is asked for one by one, and such an amount alone is omitted.
Preview(batch, slot) ==
    /\ book.at = "quoting" /\ batch \in book.todo /\ slot \in Banks(book.floor)
    /\ Outcome(batch, slot) = "exhausted" => Len(batch) > 1
    /\ book' = [book EXCEPT
           !.todo = (@ \ {batch}) \cup
               CASE Outcome(batch, slot) = "exhausted" -> Halves(batch)
                 [] Outcome(batch, slot) = "unquotable" /\ Len(batch) > 1 -> Singles(batch)
                 [] OTHER -> {},
           !.results = @ \cup (IF Outcome(batch, slot) = "quoted" THEN {Quotes(batch, slot)} ELSE {})]
    /\ UNCHANGED <<history, shared>>

\* captureVirtualBook: what is stored for the replicas.
Compute(orders) ==
    /\ book.at = "quoting" /\ book.todo = {} /\ Coherent(book.results)
    /\ LET depth == Combined(book.results, book.floor)
           snapshot == [depth |-> depth, orders |-> orders]
       IN  /\ orders \in EntryOrders(OrdersFloor(depth))
           /\ shared' = snapshot
           /\ book' = [at |-> "computed", slot |-> book.slot, snapshot |-> snapshot]
    /\ UNCHANGED history

\* The answer carries an envelope of its own: the stream's slot, or the last
\* bank that the snapshot was read at.
Deliver(stream) ==
    /\ book.at = "computed"
    /\ book' = [at |-> "delivered", slot |-> Max({stream, book.slot, ConfirmFloor(book.snapshot)}),
                snapshot |-> book.snapshot]
    /\ UNCHANGED <<history, shared>>

\* Any other failure, a deadline or a stream that is not live ends the request.
End == book.at # "idle" /\ book' = Idle /\ UNCHANGED <<history, shared>>

Expire ==
    /\ shared # None
    /\ shared' = None
    /\ UNCHANGED <<history, book>>

Next ==
    \/ \E s \in Slots : Begin(s) \/ ReadMarket(s) \/ Deliver(s)
    \/ Join \/ End \/ Expire
    \/ book.at = "market" /\ \E slots \in [Batches -> Slots] : PreviewAll(slots)
    \/ book.at = "market" /\ \E b \in Batches, s \in Slots : Recover(b, s)
    \/ book.at = "quoting" /\ \E b \in book.todo, s \in Slots : Preview(b, s)
    \/ book.at = "quoting" /\ book.todo = {} /\ Coherent(book.results)
       /\ \E o \in EntryOrders(OrdersFloor(Combined(book.results, book.floor))) : Compute(o)

Spec == Init /\ [][Next]_vars

-----------------------------------------------------------------------------

\* What a snapshot claims, though its parts are of different banks: the depth is
\* what one state of the market executes, and a level is missing only if a bank
\* refused it on its own (virtual-book-quotes.ts:43-45); the orders are later
\* than the depth, each open and unexpired at its own bank, so none that the
\* depth has consumed is shown beside it, and none that was heard of and open
\* throughout is missing (duskEntryOrderBook.ts:5-9, duskVirtualBook.ts:33-34).
SnapshotIsWhole(snapshot) ==
    LET depth == snapshot.depth
        orders == snapshot.orders
        version == history.market[depth.first]
    IN  /\ depth.levels \subseteq Accepts[version]
        /\ version = history.market[depth.last]
        /\ \A l \in Levels \ depth.levels : \E s \in Banks(depth.since) : l \notin Accepts[history.market[s]]
        /\ orders # None =>
              /\ \A r \in orders.listed :
                     r.slot \in depth.last..orders.slot /\ Account(r.order, r.slot)
                     /\ r.slot <= history.orders[r.order].expires
              /\ \A o \in orders.heard :
                     (\A s \in depth.last..orders.slot : Live(o, s)) => \E r \in orders.listed : r.order = o

\* Every bank that a snapshot was read at is covered by the envelope it is
\* delivered in (duskDeploymentService.ts:144-146: "A payload read at slot N
\* cannot be stamped with an envelope below N").
Covered(slot, snapshot) ==
    /\ snapshot.depth.last <= slot
    /\ snapshot.orders # None => snapshot.orders.slot <= slot

\* Every book delivered, and every book shared, is whole, and the envelope of
\* a delivery covers it.
BookIsWhole ==
    /\ shared # None => SnapshotIsWhole(shared)
    /\ book.at = "delivered" => SnapshotIsWhole(book.snapshot) /\ Covered(book.slot, book.snapshot)
=============================================================================
