---------------------------- MODULE OwnerClaims -----------------------------
(***************************************************************************)
(* What an owner can claim, discovered in the database and valued on the     *)
(* chain: the yield of its LP shares and of the hLP order escrows that it    *)
(* still owns (duskOwnerYield.ts), and a partner's referral accruals         *)
(* (duskReferralPartner.ts), both behind currentDisplayState.                *)
(*                                                                          *)
(* The queries of a discovery are not one transaction: the stream writes     *)
(* rows between them, a lower slot's after a higher one's when catch-up      *)
(* reads a gap back, and those of one slot in any order, as it replays a     *)
(* slot by signature.  The chain is ahead of the stream, and any bank from   *)
(* the floor on may answer.                                                 *)
(***************************************************************************)
EXTENDS Integers, Sequences, SequencesExt, FiniteSetsExt

CONSTANTS
    Kinds,          \* of requests: "yield", "referral"
    Owner,          \* the wallet, as a holder of shares
    Market,         \* of its shares, or with the partner's terms
    Orders,         \* its hLP orders, each an escrow that holds shares for it
    Accrual,        \* a referral accrual account
    Chain,          \* what happens: [slot, place, path, name, of, amount]; a
                    \* slot's transactions are ordered by place, and path is
                    \* an instruction's within its own transaction
    MaxSlot

VARIABLES
    rows,       \* the events stored, in the order of observation_id
    through,    \* the stream's slot
    request     \* the capture for one request

vars == <<rows, through, request>>

Slots == 0..MaxSlot
Stored == Range(rows)

-----------------------------------------------------------------------------
(* Discovery.                                                               *)

\* streamed_markets: the market, and its mints.
Listed == \E e \in Stored : e.of = Market

\* ORDER BY slot, then what breaks a tie, then observation_id.
Id(e) == CHOOSE i \in DOMAIN rows : rows[i] = e
After(e, f, tie) ==
    \/ e.slot > f.slot
    \/ e.slot = f.slot /\ tie[e] > tie[f]
    \/ e.slot = f.slot /\ tie[e] = tie[f] /\ Id(e) > Id(f)

\* The order's instructions that change what its escrow holds.  The latest of a
\* slot is that of the longest path, whichever transaction came last.
Instructions(o) ==
    {e \in Stored : e.of = o /\ e.name \in {"created", "cancelled", "executed", "settled"}}
Latest(o) ==
    CHOOSE e \in Instructions(o) :
        \A f \in Instructions(o) \ {e} : After(e, f, [g \in Stored |-> g.path])
CreatedRows == {o \in Orders : \E e \in Instructions(o) : e.name = "created"}

\* An escrow accrues for its owner until it is settled.
Escrows_open == {o \in CreatedRows : Latest(o).name = "created"}
Escrows == {o \in CreatedRows : Latest(o).name # "settled"}

\* A balance stays listed when it has gone to zero; JOIN streamed_markets.
Holdings == IF Listed /\ \E e \in Stored : e.of = Owner THEN {Owner} ELSE {}

\* The accrual's movements ORDER BY slot, observation_id: an accrual adds, a
\* claim states what remains.
Movements ==
    SortSeq(SelectSeq(rows, LAMBDA e : e.of = Accrual),
            LAMBDA e, f : After(f, e, [g \in Stored |-> 0]))
Amount(moved) ==
    FoldLeft(LAMBDA n, e : IF e.name = "accrued" THEN n + e.amount ELSE e.amount, 0, moved)

-----------------------------------------------------------------------------

Idle == [kind |-> "none", step |-> "idle"]

Init ==
    /\ rows = <<>>
    /\ through = 0
    /\ request = Idle

\* The stream, a catch-up or a replay stores an event under an id that it drew
\* before, or the cursor passes a slot without one.
Store(e, id) ==
    /\ e \notin Stored
    /\ rows' = InsertAt(rows, id, e)
    /\ through' = Max({through, e.slot})
    /\ UNCHANGED request

Heartbeat ==
    /\ through < MaxSlot
    /\ through' = through + 1
    /\ UNCHANGED <<rows, request>>

\* currentDisplayState: the envelope's slot, and a capture of its own.
\* `seen` is history: what was stored by then.
Begin(kind) ==
    /\ request.step = "idle"
    /\ request' = [kind |-> kind, step |-> "first", before |-> through, seen |-> Stored,
                   groups |-> {}, listed |-> FALSE, moved |-> <<>>, floor |-> 0,
                   valued |-> [g \in {} |-> 0], bank |-> 0]
    /\ UNCHANGED <<rows, through>>

\* readOwnerYieldGroups: the holdings, the escrows, their vaults, and the cursor
\* last.  An escrow whose vault is not known fails the request.
ReadHoldings ==
    /\ request.kind = "yield" /\ request.step = "first"
    /\ request' = [request EXCEPT !.groups = Holdings, !.step = "second"]
    /\ UNCHANGED <<rows, through>>

ReadEscrows ==
    /\ request.kind = "yield" /\ request.step = "second"
    /\ request' = [request EXCEPT !.groups = @ \cup Escrows, !.step = "third"]
    /\ UNCHANGED <<rows, through>>

ReadVaults ==
    /\ request.kind = "yield" /\ request.step = "third"
    /\ request' = IF request.groups \cap Orders = {} \/ Listed
                  THEN [request EXCEPT !.step = "stream"] ELSE Idle
    /\ UNCHANGED <<rows, through>>

\* readStreamedReferralState: the terms and the markets, without which the
\* answer has no accruals, the movements, and the cursor last.
ReadTerms ==
    /\ request.kind = "referral" /\ request.step = "first"
    /\ request' = [request EXCEPT !.listed = Listed, !.step = "second"]
    /\ UNCHANGED <<rows, through>>

ReadMovements ==
    /\ request.kind = "referral" /\ request.step = "second"
    /\ request' = [request EXCEPT !.moved = Movements, !.step = "stream"]
    /\ UNCHANGED <<rows, through>>

Floor_before(before, stream) == before
Floor(before, stream) == Max({before, stream})

ReadStream ==
    /\ request.step = "stream"
    /\ through > 0
    /\ request' = [request EXCEPT !.floor = Floor(request.before, through),
                                  !.bank = Floor(request.before, through),
                                  !.step = IF request.listed THEN "mints" ELSE "values"]
    /\ UNCHANGED <<rows, through>>

-----------------------------------------------------------------------------
(* Values.                                                                  *)

Made(of, bank) == \E e \in Chain : e.of = of /\ e.slot <= bank
Closed(g, bank) == \E e \in Chain : e.of = g /\ e.name = "settled" /\ e.slot <= bank

\* captureYieldGroup: one simulated bank.  A preview that the program rejects,
\* or a market that is not there, is null; a holder that is not there, or an
\* escrow that is gone by then, has no balance and no yield account.
Value(g, bank, rejected) ==
    /\ request.step = "values" /\ g \in request.groups \ DOMAIN request.valued
    /\ bank >= request.floor
    /\ request' = [request EXCEPT !.valued = (g :> [
                       bank |-> bank,
                       status |-> IF rejected \/ ~Made(Market, bank) THEN "unavailable"
                                  ELSE IF Made(g, bank) /\ ~Closed(g, bank)
                                  THEN "initialized" ELSE "empty"]) @@ @]
    /\ UNCHANGED <<rows, through>>

\* captureReferralPartner: the mints, and then the accrual accounts, whose
\* own instruction creates them without an event.
ReadMints(bank) ==
    /\ request.step = "mints"
    /\ bank >= request.floor
    /\ request' = IF Made(Market, bank) THEN [request EXCEPT !.bank = bank, !.step = "accounts"]
                  ELSE [request EXCEPT !.step = "missing"]
    /\ UNCHANGED <<rows, through>>

ReadAccounts(bank) ==
    /\ request.step = "accounts"
    /\ bank >= request.bank
    /\ request' = IF Made(Accrual, bank) \/ Amount(request.moved) = 0
                  THEN [request EXCEPT !.bank = bank, !.step = "values"]
                  ELSE [request EXCEPT !.step = "missing"]
    /\ UNCHANGED <<rows, through>>

\* A deadline, or a node that is behind the floor.
Expire ==
    /\ request.step \in {"first", "second", "third", "stream", "values", "mints", "accounts"}
    /\ request' = Idle
    /\ UNCHANGED <<rows, through>>

\* The snapshot is kept, for every replica, and answered under an envelope of
\* its highest slot.
SourceSlot == Max({request.floor, request.bank} \cup {request.valued[g].bank : g \in DOMAIN request.valued})

Complete ==
    /\ request.step = "values"
    /\ DOMAIN request.valued = request.groups
    /\ request' = [request EXCEPT !.step = "answered", !.bank = SourceSlot]
    /\ UNCHANGED <<rows, through>>

Next ==
    \/ \E e \in Chain, id \in 1..(Len(rows) + 1) : Store(e, id)
    \/ Heartbeat
    \/ \E kind \in Kinds : Begin(kind)
    \/ ReadHoldings \/ ReadEscrows \/ ReadVaults
    \/ ReadTerms \/ ReadMovements \/ ReadStream
    \/ \E g \in Orders \cup {Owner}, bank \in Slots, rejected \in BOOLEAN : Value(g, bank, rejected)
    \/ \E bank \in Slots : ReadMints(bank) \/ ReadAccounts(bank)
    \/ Expire \/ Complete

Spec == Init /\ [][Next]_vars

-----------------------------------------------------------------------------

\* "The stream's slot is read last and covers them" (duskOwnerYield.ts:82-83,
\* duskReferralPartner.ts:73-74): the bank that values what was discovered
\* has it, so no capture fails on an account that is not there yet, and no
\* holder is shown as empty, or its market as unavailable, for that reason.
DiscoveryIsThere ==
    /\ request.step # "missing"
    /\ request.step \in {"values", "answered"} =>
          \A g \in DOMAIN request.valued :
              Made(Market, request.valued[g].bank) /\ Made(g, request.valued[g].bank)

Answered(kind) == request.kind = kind /\ request.step = "answered"

SettledBy(o, slot) == \E e \in Chain : e.of = o /\ e.name = "settled" /\ e.slot <= slot
SeenOf(g, name) == \E e \in request.seen : e.of = g /\ e.name = name

\* Another instruction of the slot in which the order was settled: the path
\* may put it last.
Tied(o) ==
    \E e, f \in Chain : e.of = o /\ f.of = o /\ e.slot = f.slot /\ e.name = "settled" /\ f.name # "settled"

\* Every holder that was known when the capture began and has not been settled
\* before its floor is in the answer, valued or named as unavailable, whatever
\* the stream wrote between the queries; and no escrow whose settlement was
\* known, or where its slot leaves that open, not as one that still holds shares
\* (duskOwnerYield.ts:98-99, 316, 322).
YieldIsWhole ==
    Answered("yield") =>
        /\ SeenOf(Owner, "held") /\ SeenOf(Market, "opened") => Owner \in DOMAIN request.valued
        /\ \A o \in Orders :
              /\ SeenOf(o, "created") => o \in DOMAIN request.valued \/ SettledBy(o, request.floor)
              /\ SeenOf(o, "settled") /\ o \in DOMAIN request.valued =>
                    Tied(o) /\ request.valued[o].status # "initialized"

\* On the chain, f follows e.
Precedes(e, f) == e.slot < f.slot \/ (e.slot = f.slot /\ e.place < f.place)

\* The chain's accrual after a slot: what the last claim left, and what was
\* accrued since.
AccruedBy(slot) ==
    LET before == {e \in Chain : e.of = Accrual /\ e.slot <= slot}
        claims == {e \in before : e.name = "claimed"}
        last   == {c \in claims : \A d \in claims \ {c} : Precedes(d, c)}
        since  == {e \in before \ claims : \A c \in claims : Precedes(c, e)}
    IN MapThenSumSet(LAMBDA e : e.amount, last \cup since)

\* A claim beside another movement in its slot was stored in the chain's order.
\* The query cannot tell if it was not (catchup.rs:71 replays a slot by
\* signature).
ClaimsInPlace(moved) ==
    \A i, j \in DOMAIN moved :
        i < j /\ moved[i].slot = moved[j].slot /\ "claimed" \in {moved[i].name, moved[j].name} =>
            moved[i].place < moved[j].place

\* Whatever the order its movements were stored in, ties of a claim apart, a
\* partner is shown the chain's accrual of a slot once every movement up to that
\* slot is stored (duskReferralPartner.ts:109-125).
AccrualIsTheChains ==
    Answered("referral") /\ request.listed /\ ClaimsInPlace(request.moved) =>
        \A slot \in Slots :
            Range(request.moved) = {e \in Chain : e.of = Accrual /\ e.slot <= slot} =>
                Amount(request.moved) = AccruedBy(slot)

ClaimsAreWhole == YieldIsWhole /\ AccrualIsTheChains
=============================================================================
