-------------------------- MODULE PortfolioValues --------------------------
(***************************************************************************)
(* The hourly portfolio snapshots of the first-generation tables           *)
(* (portfolioSnapshotService.ts): a backfill whose lanes share a list of   *)
(* users, the snapshotter that values everyone at the current hour, and    *)
(* the one table both write, last writer wins.  The backfill can fail at   *)
(* any step and be run again, with --skip-existing or without.             *)
(*                                                                         *)
(* Of a snapshot's value the debt is kept, the one part put together from  *)
(* two sources: a position's shares say that it owes, the debt events of   *)
(* its pair say how much, for all the user's positions of that pair.       *)
(***************************************************************************)
EXTENDS Integers, FiniteSets, FiniteSetsExt, SequencesExt

CONSTANTS
    Users,        \* fetchActivePortfolioUsers: a sequence
    Lanes,        \* one for each of --concurrency
    FirstHour,    \* [user -> hour of the first activity]
    PositionsAt,  \* [user -> [hour -> its borrow positions: [pair, sides, owes]]]
    DebtEvents,   \* [user -> a set of [pair, side, hour, amount]]
    MaxHour, MaxRuns, MaxFails,  \* bounds: the clock, runs of the backfill, failures
    None

VARIABLES
    hour,    \* the current hour
    rows,    \* portfolio_value_snapshots: [<<user, hour>> -> [debt, source]]
    job,     \* the backfill
    lane,    \* [Lanes -> the user and bucket in hand]
    snap,    \* the snapshotter
    runs, fails

vars == <<hour, rows, job, lane, snap, runs, fails>>

Free == [user |-> None, bucket |-> 0, existing |-> {}, past |-> FALSE, debt |-> None]
AtRest == [next |-> 0, bucket |-> 0, debt |-> None]
Sides == {0, 1}

-----------------------------------------------------------------------------
Total(amount) == LET Amount(x) == amount[x] IN MapThenSumSet(Amount, DOMAIN amount)

\* GREATEST(SUM(amount), 0) over the pair's debt events up to the bucket.
Principal(u, pair, side, h) ==
    LET events == {e \in DebtEvents[u] : e.pair = pair /\ e.side = side /\ e.hour <= h}
    IN  Max({0, Total([e \in events |-> e.amount])})

\* reconstructDebtFromPrincipal
Reconstructed(u, position, h) ==
    Total([side \in position.sides |-> Principal(u, position.pair, side, h)])

\* A pair whose principal one indebted position has taken is counted.
AfterPosition(counted, position) ==
    IF position.sides # {} THEN counted \cup {position.pair} ELSE counted

\* computeBorrowValueUsd.  exact: the places whose debt the program told.
Debt(u, positions, h, exact) ==
    LET Step(done, i) ==
            LET p == positions[i]
            IN  IF i \in exact THEN [done EXCEPT !.usd = @ + p.owes]
                ELSE [counted |-> AfterPosition(done.counted, p),
                      usd |-> done.usd + (IF p.pair \in done.counted THEN 0
                                          ELSE Reconstructed(u, p, h))]
    IN  FoldLeft(Step, [counted |-> {}, usd |-> 0], [i \in DOMAIN positions |-> i]).usd

\* A past hour is reconstructed; for the current one each position is asked,
\* and one that does not answer falls back on the principal.
Values(u, h, historical) ==
    IF historical THEN {Debt(u, PositionsAt[u][h], h, {})}
    ELSE {Debt(u, PositionsAt[u][hour], h, exact) : exact \in SUBSET DOMAIN PositionsAt[u][hour]}

\* upsertPortfolioSnapshot
Upserted(u, h, debt, source) ==
    [x \in DOMAIN rows \cup {<<u, h>>} |->
        IF x = <<u, h>> THEN [debt |-> debt, source |-> source] ELSE rows[x]]

-----------------------------------------------------------------------------
Init ==
    /\ hour = Max({FirstHour[u] : u \in ToSet(Users)})
    /\ rows = <<>>
    /\ job = [state |-> "idle", skip |-> FALSE, active |-> FALSE, from |-> 1, to |-> 1, next |-> 1]
    /\ lane = [l \in Lanes |-> Free]
    /\ snap = AtRest
    /\ runs = 0
    /\ fails = 0

HourPasses ==
    /\ hour < MaxHour
    /\ hour' = hour + 1
    /\ UNCHANGED <<rows, job, lane, snap, runs, fails>>

\* backfillPortfolioSnapshots: the range is fixed here.
StartJob(skip, active) ==
    /\ job.state # "running" /\ runs < MaxRuns
    /\ runs' = runs + 1
    /\ job' = [state |-> "running", skip |-> skip, active |-> active, next |-> 1, to |-> hour,
               from |-> Min({FirstHour[u] : u \in ToSet(Users)})]
    /\ UNCHANGED <<hour, rows, lane, snap, fails>>

StartOf(u) == IF job.active THEN Max({job.from, FirstHour[u]}) ELSE job.from

Existing_any(u) == IF job.skip THEN {x[2] : x \in DOMAIN rows} ELSE {}

\* fetchExistingSnapshotBuckets
Existing(u) == IF job.skip THEN {x[2] : x \in {y \in DOMAIN rows : y[1] = u}} ELSE {}

\* A lane takes the next user and moves the shared index in one step; then
\* it reads the buckets to skip.
Take(l) ==
    /\ job.state = "running" /\ lane[l].user = None /\ job.next <= Len(Users)
    /\ lane' = [lane EXCEPT ![l] = [Free EXCEPT !.user = Users[job.next],
                                               !.bucket = StartOf(Users[job.next]),
                                               !.existing = {None}]]
    /\ job' = [job EXCEPT !.next = @ + 1]
    /\ UNCHANGED <<hour, rows, snap, runs, fails>>

List(l) ==
    /\ lane[l].existing = {None}
    /\ lane' = [lane EXCEPT ![l].existing = Existing(lane[l].user)]
    /\ UNCHANGED <<hour, rows, job, snap, runs, fails>>

Left(l) == {h \in lane[l].bucket..job.to : h \notin lane[l].existing}

Compute(l) ==
    /\ lane[l].user # None /\ lane[l].existing # {None} /\ lane[l].debt = None
    /\ IF Left(l) = {} THEN lane' = [lane EXCEPT ![l] = Free]
       ELSE LET h == Min(Left(l))
            IN  \E debt \in Values(lane[l].user, h, h < hour) :
                    lane' = [lane EXCEPT ![l].bucket = h, ![l].past = h < hour, ![l].debt = debt]
    /\ UNCHANGED <<hour, rows, job, snap, runs, fails>>

Write(l) ==
    /\ lane[l].debt # None
    /\ rows' = Upserted(lane[l].user, lane[l].bucket, lane[l].debt, "backfill")
    /\ lane' = [lane EXCEPT ![l].bucket = @ + 1, ![l].debt = None]
    /\ UNCHANGED <<hour, job, snap, runs, fails>>

JobEnds ==
    /\ job.state = "running" /\ job.next > Len(Users)
    /\ \A l \in Lanes : lane[l] = Free
    /\ job' = [job EXCEPT !.state = "done"]
    /\ UNCHANGED <<hour, rows, lane, snap, runs, fails>>

\* A lane throws: Promise.all rejects and the script ends with the rest.
JobFails ==
    /\ job.state = "running" /\ fails < MaxFails
    /\ fails' = fails + 1
    /\ job' = [job EXCEPT !.state = "failed"]
    /\ lane' = [l \in Lanes |-> Free]
    /\ UNCHANGED <<hour, rows, snap, runs>>

\* snapshotCurrentActiveUsers: the bucket is fixed before the first user.
SnapStart ==
    /\ snap = AtRest
    /\ snap' = [next |-> 1, bucket |-> hour, debt |-> None]
    /\ UNCHANGED <<hour, rows, job, lane, runs, fails>>

SnapCompute ==
    /\ snap.next > 0 /\ snap.debt = None
    /\ IF snap.next > Len(Users) THEN snap' = AtRest
       ELSE \E debt \in Values(Users[snap.next], snap.bucket, FALSE) : snap' = [snap EXCEPT !.debt = debt]
    /\ UNCHANGED <<hour, rows, job, lane, runs, fails>>

SnapWrite ==
    /\ snap.debt # None
    /\ rows' = Upserted(Users[snap.next], snap.bucket, snap.debt, "snapshotter")
    /\ snap' = [snap EXCEPT !.next = @ + 1, !.debt = None]
    /\ UNCHANGED <<hour, job, lane, runs, fails>>

\* runSnapshot logs the failure; the next tick starts over.
SnapFails ==
    /\ snap # AtRest /\ fails < MaxFails
    /\ fails' = fails + 1
    /\ snap' = AtRest
    /\ UNCHANGED <<hour, rows, job, lane, runs>>

Next ==
    \/ HourPasses
    \/ \E skip, active \in BOOLEAN : StartJob(skip, active)
    \/ \E l \in Lanes : Take(l) \/ List(l) \/ Compute(l) \/ Write(l)
    \/ JobEnds \/ JobFails
    \/ SnapStart \/ SnapCompute \/ SnapWrite \/ SnapFails

Spec == Init /\ [][Next]_vars

(***************************************************************************)
(* A backfill that ends well has left no hole: each of its users has a row *)
(* for each hour from its start to the hour the backfill began, however    *)
(* its lanes shared the users, whatever the snapshotter wrote meanwhile    *)
(* and wherever an earlier run stopped.                                    *)
(***************************************************************************)
BackfillComplete ==
    job.state = "done" =>
        \A i \in DOMAIN Users : \A h \in StartOf(Users[i])..job.to : <<Users[i], h>> \in DOMAIN rows

(***************************************************************************)
(* In a snapshot of a past hour no debt is counted twice: the debt is at   *)
(* most what the debt events of the user's indebted pairs add up to, even  *)
(* with several positions in one pair.                                     *)
(***************************************************************************)
DebtWithinPrincipal ==
    \A l \in Lanes :
        lane[l].debt # None /\ lane[l].past =>
            LET u == lane[l].user
                h == lane[l].bucket
                pairs == {p.pair : p \in ToSet(PositionsAt[u][h])}
            IN  lane[l].debt <= Total([x \in pairs \X Sides |-> Principal(u, x[1], x[2], h)])
=============================================================================
