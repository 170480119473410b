-------------------------- MODULE PortfolioCapture --------------------------
(***************************************************************************)
(* The portfolio worker (duskPortfolioWorker.ts) takes a picture of every   *)
(* position: the confirmed stream says which accounts exist, finalized      *)
(* banks say what they hold (duskPortfolioSnapshots.ts). The evidence is    *)
(* committed first and projected into checkpoints by a second transaction,  *)
(* which a later cycle, or another replica, makes up for.                    *)
(***************************************************************************)
EXTENDS Naturals, Sequences, FiniteSets, FiniteSetsExt

CONSTANTS
    Accounts,   \* position accounts and canonical LP token accounts
    OwnerOf,    \* [Accounts -> owner]: both kinds of address derive from the owner
    Groups,     \* the jobs: ten accounts of a market, or a market without any
    GroupOf,    \* [Accounts -> Groups]
    Workers,
    ReplayLimit,
    MaxSlot, MaxCaptures, MaxFaults,  \* bounds: of the chain; captures; crashes and failed cycles
    None

VARIABLES
    banks,      \* the confirmed chain: the accounts that are open after each slot
    final,      \* the last finalized slot
    seen,       \* the openings and closings in the store, as <<account, slot>>
    captures,   \* portfolio_capture_observations, by capture_id
    projected,  \* portfolio_capture_projections, and with them the checkpoints
    worker,     \* [Workers -> step of the cycle, catalog, groups captured, capture]
    faults

vars == <<banks, final, seen, captures, projected, worker, faults>>

Owners == {OwnerOf[a] : a \in Accounts}
Slots == 1..Len(banks)

\* How a group's evidence turns out: "odd" if the node contradicts what others
\* say of the bank, "broken" if the projection cannot value it.
Outcomes == {"good", "odd", "broken"}

NoCatalog == [through |-> 0, slot |-> [a \in Accounts |-> 0], listed |-> {},
              owners |-> {}, after |-> {}]
AtRest == [at |-> "replay", catalog |-> NoCatalog, groups |-> [g \in Groups |-> None],
           capture |-> 0]

TypeOK ==
    /\ Len(banks) \in 1..MaxSlot /\ \A s \in Slots : banks[s] \subseteq Accounts
    /\ final \in Slots
    /\ seen \subseteq Accounts \X Slots
    /\ projected \subseteq 1..Len(captures)
    /\ \A w \in Workers :
          /\ worker[w].at \in {"replay", "catalog", "capture", "project", "sleep", "fatal"}
          /\ worker[w].catalog.listed \subseteq Accounts
          /\ worker[w].capture \in 0..Len(captures)
    /\ faults \in 0..MaxFaults

-----------------------------------------------------------------------------

\* The streamed views: an account's latest row that is stored, and the last
\* slot of all rows, which the cursor is not below.
LastSlot(a) == Max({x[2] : x \in {y \in seen : y[1] = a}} \cup {0})
Streamed == {a \in Accounts : LastSlot(a) # 0}
Through == Max({x[2] : x \in seen} \cup {1})

Listed == {a \in Streamed : a \in banks[LastSlot(a)]}

\* The owners of a capture's checkpoints: those of the catalog, shown or not.
KnownOwners == {OwnerOf[a] : a \in Streamed} \cup UNION {captures[c].catalog.owners : c \in projected}

Catalog ==
    [through |-> Through, slot |-> [a \in Accounts |-> LastSlot(a)], listed |-> Listed,
     owners |-> KnownOwners, after |-> projected]

ReadFloor_none(catalog) == 1

\* Discovery comes from the confirmed stream: a finalized bank that values it
\* may not be older.
ReadFloor(catalog) == catalog.through

-----------------------------------------------------------------------------
(* What is made of a capture, the same at every replay. *)

Bank(c, a) == c.groups[GroupOf[a]].slot

Closed(c) == {a \in c.catalog.listed : a \notin banks[Bank(c, a)]}

Components(c, o) == {a \in c.catalog.listed \ Closed(c) : OwnerOf[a] = o}

Projectable(c) == \A g \in Groups : c.groups[g].outcome # "broken"

\* Two hashes for one account, bank and basis, in whatever was saved.
Contradiction ==
    \E i, j \in 1..Len(captures), a \in Accounts :
        /\ a \in captures[i].catalog.listed \cap captures[j].catalog.listed
        /\ Bank(captures[i], a) = Bank(captures[j], a)
        /\ captures[i].groups[GroupOf[a]].outcome = "odd"
        /\ captures[j].groups[GroupOf[a]].outcome = "good"

\* Saved and not projected, by source_max_slot and id, ReplayLimit at most.
MaxBank(c) == Max({c.groups[g].slot : g \in Groups})
Before(i, j) ==
    LET p == MaxBank(captures[i]) q == MaxBank(captures[j]) IN p < q \/ (p = q /\ i < j)
Pending == (1..Len(captures)) \ projected
Batch == {i \in Pending : Cardinality({j \in Pending : Before(j, i)}) < ReplayLimit}

-----------------------------------------------------------------------------

Init ==
    /\ banks = <<{}>> /\ final = 1
    /\ seen = {}
    /\ captures = <<>> /\ projected = {}
    /\ worker = [w \in Workers |-> AtRest]
    /\ faults = 0

store == <<captures, projected>>
chain == <<banks, final, seen>>

\* One transaction opens or closes an account.
Transact(a) ==
    /\ Len(banks) < MaxSlot
    /\ banks' = Append(banks, IF a \in banks[Len(banks)] THEN banks[Len(banks)] \ {a}
                              ELSE banks[Len(banks)] \cup {a})
    /\ UNCHANGED <<final, seen, store, worker, faults>>

Finalize ==
    /\ final < Len(banks)
    /\ final' = final + 1
    /\ UNCHANGED <<banks, seen, store, worker, faults>>

\* Ingestion stores an event, in whatever order.
Stream(a, s) ==
    /\ s > 1 /\ (a \in banks[s]) # (a \in banks[s - 1])
    /\ <<a, s>> \notin seen
    /\ seen' = seen \cup {<<a, s>>}
    /\ UNCHANGED <<banks, final, store, worker, faults>>

Fault ==
    /\ faults < MaxFaults
    /\ faults' = faults + 1

-----------------------------------------------------------------------------

\* One transaction under the advisory lock replays a batch or nothing of it.
Replay(w) ==
    /\ worker[w].at = "replay"
    /\ IF Contradiction THEN
          /\ worker' = [worker EXCEPT ![w].at = "fatal"]
          /\ UNCHANGED projected
       ELSE IF \E i \in Batch : ~Projectable(captures[i]) THEN
          /\ worker' = [worker EXCEPT ![w].at = "sleep"]
          /\ UNCHANGED projected
       ELSE
          /\ projected' = projected \cup Batch
          /\ worker' = [worker EXCEPT ![w].at =
                           IF Cardinality(Batch) = ReplayLimit THEN "replay" ELSE "catalog"]
    /\ UNCHANGED <<chain, captures, faults>>

\* One repeatable-read transaction. A stream that is stale fails the cycle.
ReadCatalog(w) ==
    /\ worker[w].at = "catalog"
    /\ Len(captures) < MaxCaptures
    /\ worker' = [worker EXCEPT ![w].at = "capture", ![w].catalog = Catalog]
    /\ UNCHANGED <<chain, store, faults>>

\* A simulation at some finalized bank, of whichever node answers.
CaptureGroup(w, g) ==
    /\ worker[w].at = "capture" /\ worker[w].groups[g] = None
    /\ \E s \in ReadFloor(worker[w].catalog)..final, outcome \in Outcomes :
          /\ IF outcome = "good" THEN UNCHANGED faults ELSE Fault
          /\ worker' = [worker EXCEPT ![w].groups[g] = [slot |-> s, outcome |-> outcome]]
    /\ UNCHANGED <<chain, store>>

\* The evidence is committed; content that is saved already keeps its id.
Store(w) ==
    /\ worker[w].at = "capture" /\ \A g \in Groups : worker[w].groups[g] # None
    /\ LET c == [catalog |-> worker[w].catalog, groups |-> worker[w].groups]
           same == {i \in 1..Len(captures) :
                       /\ captures[i].groups = c.groups
                       /\ [captures[i].catalog EXCEPT !.after = {}]
                              = [c.catalog EXCEPT !.after = {}]}
       IN /\ captures' = IF same = {} THEN Append(captures, c) ELSE captures
          /\ worker' = [worker EXCEPT ![w] =
                 [AtRest EXCEPT !.at = "project",
                                !.capture = IF same = {} THEN Len(captures) + 1
                                            ELSE CHOOSE i \in same : TRUE]]
    /\ UNCHANGED <<chain, projected, faults>>

\* A transaction of its own, under the advisory lock.
Project(w) ==
    /\ worker[w].at = "project"
    /\ LET i == worker[w].capture
       IN IF Contradiction THEN
             /\ worker' = [worker EXCEPT ![w] = [AtRest EXCEPT !.at = "fatal"]]
             /\ UNCHANGED projected
          ELSE
             /\ projected' = IF Projectable(captures[i]) THEN projected \cup {i} ELSE projected
             /\ worker' = [worker EXCEPT ![w] = [AtRest EXCEPT !.at = "sleep"]]
    /\ UNCHANGED <<chain, captures, faults>>

Wake(w) ==
    /\ worker[w].at = "sleep"
    /\ worker' = [worker EXCEPT ![w].at = "replay"]
    /\ UNCHANGED <<chain, store, faults>>

AfterFailure_once == "fatal"

\* Only FINALIZED_INVARIANT ends the worker.
AfterFailure == "sleep"

\* An RPC or query fails, the stream is stale, a market's creation is not
\* stored yet, the deployment changed or the catalog aged out: the cycle is
\* given up. What is saved stays saved.
CycleFails(w) ==
    /\ worker[w].at \in {"replay", "catalog", "capture", "project"}
    /\ Fault
    /\ worker' = [worker EXCEPT ![w] = [AtRest EXCEPT !.at = AfterFailure]]
    /\ UNCHANGED <<chain, store>>

Crash(w) ==
    /\ worker[w].at \notin {"replay", "fatal"}
    /\ Fault
    /\ worker' = [worker EXCEPT ![w] = AtRest]
    /\ UNCHANGED <<chain, store>>

Step(w) ==
    \/ Replay(w) \/ ReadCatalog(w) \/ Store(w) \/ Project(w) \/ Wake(w)
    \/ \E g \in Groups : CaptureGroup(w, g)

Next ==
    \/ \E a \in Accounts : Transact(a)
    \/ \E a \in Accounts, s \in Slots : Stream(a, s)
    \/ Finalize
    \/ \E w \in Workers : Step(w) \/ CycleFails(w) \/ Crash(w)

Spec == Init /\ [][Next]_vars

-----------------------------------------------------------------------------

\* An account is reported closed only if it was open when the stream saw it
\* and closed by a later transaction, and never because the bank that was read
\* is older than the account.
ClosedWasClosed ==
    \A i \in 1..Len(captures) : \A a \in Closed(captures[i]) :
        LET c == captures[i]
        IN \E s \in c.catalog.slot[a] + 1 .. Bank(c, a) : a \in banks[s - 1] \ banks[s]

\* Whoever has a checkpoint has one in every capture that was begun later, an
\* empty one once everything is closed: a portfolio's history never goes silent.
OwnersStay ==
    \A i, j \in projected :
        i \in captures[j].catalog.after => captures[i].catalog.owners \subseteq captures[j].catalog.owners

\* What a capture says is true: accounts reported closed were closed, and an
\* owner with a checkpoint has one in every later capture.
CapturesAreTrue == ClosedWasClosed /\ OwnersStay

\* Saved evidence is projected in the end, by whoever replays it, unless some
\* of it contradicts itself or cannot be projected.
EventuallyProjected ==
    []<>(\/ 1..Len(captures) \subseteq projected
         \/ Contradiction
         \/ \E j \in 1..Len(captures) : ~Projectable(captures[j]))
=============================================================================
