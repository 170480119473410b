------------------------------ MODULE EventStore ------------------------------
(***************************************************************************)
(* persist_event and orders::persist against PostgreSQL: the observation,   *)
(* its canonical pointer, the stream row and the order instruction of each  *)
(* transaction, written by sessions that run side by side (the daemon, and  *)
(* a `--replay` or `--catch-up-from` process, whose mutex is its own), that *)
(* retry, and that die. Isolation is READ COMMITTED: a row is seen by the   *)
(* others at its writer's commit, a unique key makes a second inserter wait *)
(* for the first one's commit or rollback.                                  *)
(*                                                                          *)
(* A delivery brings a transaction with certain facts: what its events say  *)
(* and its instructions hold. Two deliveries of one transaction differ in   *)
(* time, and in facts only for the transactions FactsOf says so.            *)
(***************************************************************************)
EXTENDS Naturals, Sequences

CONSTANTS
    Sessions,
    Txs,
    EventsOf,       \* [Txs -> the event keys it emits, in instruction order]
    HasOrder,       \* transactions with an order instruction
    FactsOf,        \* [Txs -> the facts deliveries of it may carry]
    SlotOf,         \* [Txs -> slot]
    ChainIndex,     \* [Txs -> place in the chain's order]
    PositionOf,     \* [events -> the position an event is about]
    MaxDeliveries,  \* bound on the deliveries of one behaviour
    MaxFaults,      \* bound on its faults
    None

EventsIn(t) == {EventsOf[t][i] : i \in DOMAIN EventsOf[t]}
Events == UNION {EventsIn(t) : t \in Txs}
Facts == UNION {FactsOf[t] : t \in Txs}

ASSUME EventStoreAssumption ==
    /\ \A t \in Txs : /\ EventsOf[t] \in Seq(Events) /\ EventsOf[t] # <<>>
                      /\ FactsOf[t] # {}
                      /\ SlotOf[t] \in Nat /\ ChainIndex[t] \in Nat
    \* An event key names one place in one transaction.
    /\ \A t, u \in Txs : \A i \in DOMAIN EventsOf[t], j \in DOMAIN EventsOf[u] :
           EventsOf[t][i] = EventsOf[u][j] => t = u /\ i = j
    \* Slots follow the chain.
    /\ \A t, u \in Txs : SlotOf[t] < SlotOf[u] => ChainIndex[t] < ChainIndex[u]
    /\ HasOrder \subseteq Txs
    /\ MaxDeliveries \in Nat /\ MaxFaults \in Nat
    /\ None \notin Txs

TxOf == [e \in Events |-> CHOOSE t \in Txs : e \in EventsIn(t)]
Ordinal == [e \in Events |->
                CHOOSE i \in DOMAIN EventsOf[TxOf[e]] : EventsOf[TxOf[e]][i] = e]
Earlier == [e \in Events |->
                {d \in EventsIn(TxOf[e]) : Ordinal[d] < Ordinal[e]}]

VARIABLES
    pc,         \* [Sessions -> where persist stands; see Steps]
    tx,         \* [Sessions -> the transaction in hand]
    facts,      \* [Sessions -> the facts this delivery carries]
    time,       \* [Sessions -> arrival time of this delivery]
    idx,        \* [Sessions -> index of the event in hand]
    id,         \* [Sessions -> observation_id it works with]
    fresh,      \* [Sessions -> does its open transaction insert a row]
    nextId,     \* the observation_id sequence, which no rollback turns back
    obs,        \* event_observations, committed: <<event, observation_id, facts>>
    canon,      \* canonical_events, committed: <<event, observation_id>>
    stream,     \* event_stream, committed: <<event, facts, time>>
    orders,     \* order_instruction_observations: <<transaction, facts, time>>
    deliveries, \* deliveries so far
    faults,     \* faults so far
    ingested    \* history: <<transaction, facts>> of the deliveries that succeeded

sessionVars == <<pc, tx, facts, time, idx, id, fresh>>
tableVars == <<obs, canon, stream, orders>>
vars == <<pc, tx, facts, time, idx, id, fresh, nextId, obs, canon, stream, orders,
          deliveries, faults, ingested>>

(***************************************************************************)
(* "observe": about to draw an id; "insert": at the INSERT; "observed": in  *)
(* the first transaction, about to commit; "project": about to upsert the   *)
(* canonical row; "upserted": holding it; "locked": holding the advisory    *)
(* lock too; "inserted": about to commit the second transaction.            *)
(***************************************************************************)
Steps == {"idle", "observe", "insert", "observed", "project", "upserted",
          "locked", "inserted", "orders"}

TypeOK ==
    /\ pc \in [Sessions -> Steps]
    /\ tx \in [Sessions -> Txs \cup {None}]
    /\ facts \in [Sessions -> Facts \cup {None}]
    /\ time \in [Sessions -> 0..MaxDeliveries]
    /\ \A s \in Sessions :
           IF pc[s] \in {"idle", "orders"} THEN idx[s] \in Nat
                                           ELSE idx[s] \in DOMAIN EventsOf[tx[s]]
    /\ \A s \in Sessions : id[s] < nextId
    /\ fresh \in [Sessions -> BOOLEAN]
    /\ obs \subseteq (Events \X (1..(nextId - 1)) \X Facts)
    /\ canon \subseteq (Events \X (1..(nextId - 1)))
    /\ stream \subseteq (Events \X Facts \X (1..MaxDeliveries))
    /\ orders \subseteq (HasOrder \X Facts \X (1..MaxDeliveries))
    /\ deliveries \in 0..MaxDeliveries
    /\ faults \in 0..MaxFaults

-----------------------------------------------------------------------------

Event(s) == EventsOf[tx[s]][idx[s]]

\* Sessions other than s, at one of the steps in P, with the event of s.
Rivals(s, P) == {r \in Sessions \ {s} : pc[r] \in P /\ Event(r) = Event(s)}

ObservationOf(e) == {o \in obs : o[1] = e}

\* s waits for a rival's uncommitted observation of the same key.
InsertWaits(s) == \E r \in Rivals(s, {"observed"}) : fresh[r]

\* The repeated observation's row is taken without comparing it.
SameFacts_any(o, f) == TRUE

\* The repeated observation must agree with the stored row.
SameFacts(o, f) == o[3] = f

\* The id of a repeated observation is the stored row's.
StoredId(s, o) == o[2]

\* The key is also held by a session that has not begun its upsert.
UpsertWaits_early(s) == Rivals(s, {"project", "upserted", "locked", "inserted"}) # {}

\* The canonical row of the key is a rival's until it commits.
UpsertWaits(s) == Rivals(s, {"upserted", "locked", "inserted"}) # {}

Streamed(e) == \E r \in stream : r[1] = e

\* persist's two loops: the events, then the order instructions.
AfterEvent(s) == IF idx[s] < Len(EventsOf[tx[s]]) THEN "observe" ELSE "orders"

\* A retry that goes on with the next event.
RetryFrom_skip(s) ==
    IF idx[s] < Len(EventsOf[tx[s]]) THEN idx[s] + 1 ELSE 1

\* A retry starts the transaction again.
RetryFrom(s) == 1

\* An instruction is known whatever time its row carries.
KnownOrder(t, f, at) == \E r \in orders : r[1] = t /\ r[2] = f

Fault == faults < MaxFaults /\ faults' = faults + 1

Rest(s) ==
    /\ pc' = [pc EXCEPT ![s] = "idle"]
    /\ tx' = [tx EXCEPT ![s] = None]
    /\ facts' = [facts EXCEPT ![s] = None]
    /\ time' = [time EXCEPT ![s] = 0]
    /\ idx' = [idx EXCEPT ![s] = 1]
    /\ id' = [id EXCEPT ![s] = 0]
    /\ fresh' = [fresh EXCEPT ![s] = FALSE]

-----------------------------------------------------------------------------

Init ==
    /\ pc = [s \in Sessions |-> "idle"]
    /\ tx = [s \in Sessions |-> None]
    /\ facts = [s \in Sessions |-> None]
    /\ time = [s \in Sessions |-> 0]
    /\ idx = [s \in Sessions |-> 1]
    /\ id = [s \in Sessions |-> 0]
    /\ fresh = [s \in Sessions |-> FALSE]
    /\ nextId = 1
    /\ obs = {} /\ canon = {} /\ stream = {} /\ orders = {}
    /\ deliveries = 0 /\ faults = 0 /\ ingested = {}

\* A session begins a delivery: any transaction, in any order, since a replay
\* or a catch-up comes late and a signature says nothing of its place in a slot.
Deliver(s, t, f) ==
    /\ pc[s] = "idle"
    /\ deliveries < MaxDeliveries
    /\ deliveries' = deliveries + 1
    /\ pc' = [pc EXCEPT ![s] = "observe"]
    /\ tx' = [tx EXCEPT ![s] = t]
    /\ facts' = [facts EXCEPT ![s] = f]
    /\ time' = [time EXCEPT ![s] = deliveries']
    /\ UNCHANGED <<idx, id, fresh, nextId, tableVars, faults, ingested>>

\* The INSERT draws its id before it looks for a conflict.
DrawId(s) ==
    /\ pc[s] = "observe"
    /\ id' = [id EXCEPT ![s] = nextId]
    /\ nextId' = nextId + 1
    /\ pc' = [pc EXCEPT ![s] = "insert"]
    /\ UNCHANGED <<tx, facts, time, idx, fresh, tableVars, deliveries, faults, ingested>>

InsertObservation(s) ==
    /\ pc[s] = "insert"
    /\ ~InsertWaits(s)
    /\ ObservationOf(Event(s)) = {}
    /\ fresh' = [fresh EXCEPT ![s] = TRUE]
    /\ pc' = [pc EXCEPT ![s] = "observed"]
    /\ UNCHANGED <<tx, facts, time, idx, id, nextId, tableVars, deliveries, faults, ingested>>

\* ON CONFLICT DO NOTHING: the stored row, if it holds the same facts.
ReuseObservation(s) ==
    /\ pc[s] = "insert"
    /\ ~InsertWaits(s)
    /\ \E o \in ObservationOf(Event(s)) :
           /\ SameFacts(o, facts[s])
           /\ id' = [id EXCEPT ![s] = StoredId(s, o)]
    /\ pc' = [pc EXCEPT ![s] = "observed"]
    /\ UNCHANGED <<tx, facts, time, idx, fresh, nextId, tableVars, deliveries, faults,
                   ingested>>

\* "repeated observation has contradictory chain facts": an error each time
\* the transaction is tried, so the delivery is dropped.
Contradicted(s) ==
    /\ pc[s] = "insert"
    /\ ~InsertWaits(s)
    /\ \E o \in ObservationOf(Event(s)) : ~SameFacts(o, facts[s])
    /\ Rest(s)
    /\ UNCHANGED <<nextId, tableVars, deliveries, faults, ingested>>

\* The first commit: the observation stays even if its projection fails.
CommitObservation(s) ==
    /\ pc[s] = "observed"
    /\ obs' = IF fresh[s] THEN obs \cup {<<Event(s), id[s], facts[s]>>} ELSE obs
    /\ fresh' = [fresh EXCEPT ![s] = FALSE]
    /\ pc' = [pc EXCEPT ![s] = "project"]
    /\ UNCHANGED <<tx, facts, time, idx, id, nextId, canon, stream, orders, deliveries,
                   faults, ingested>>

UpsertCanonical(s) ==
    /\ pc[s] = "project"
    /\ ~UpsertWaits(s)
    /\ pc' = [pc EXCEPT ![s] = "upserted"]
    /\ UNCHANGED <<tx, facts, time, idx, id, fresh, nextId, tableVars, deliveries, faults,
                   ingested>>

\* pg_advisory_xact_lock on the event key.
LockKey(s) ==
    /\ pc[s] = "upserted"
    /\ Rivals(s, {"locked", "inserted"}) = {}
    /\ pc' = [pc EXCEPT ![s] = "locked"]
    /\ UNCHANGED <<tx, facts, time, idx, id, fresh, nextId, tableVars, deliveries, faults,
                   ingested>>

\* INSERT ... WHERE NOT EXISTS.
InsertStream(s) ==
    /\ pc[s] = "locked"
    /\ fresh' = [fresh EXCEPT ![s] = ~Streamed(Event(s))]
    /\ pc' = [pc EXCEPT ![s] = "inserted"]
    /\ UNCHANGED <<tx, facts, time, idx, id, nextId, tableVars, deliveries, faults, ingested>>

\* The second commit shows the pointer and the stream row together, and
\* persist goes on to the next event or to the orders.
CommitProjection(s) ==
    /\ pc[s] = "inserted"
    /\ canon' = {c \in canon : c[1] # Event(s)} \cup {<<Event(s), id[s]>>}
    /\ stream' = IF fresh[s] THEN stream \cup {<<Event(s), facts[s], time[s]>>} ELSE stream
    /\ fresh' = [fresh EXCEPT ![s] = FALSE]
    /\ idx' = [idx EXCEPT ![s] = idx[s] + 1]
    /\ id' = [id EXCEPT ![s] = 0]
    /\ pc' = [pc EXCEPT ![s] = AfterEvent(s)]
    /\ UNCHANGED <<tx, facts, time, nextId, obs, orders, deliveries, faults, ingested>>

\* record_order_instruction, one statement under the revision's advisory lock:
\* a known instruction keeps its first row, a changed one is stored as evidence.
\* The delivery succeeds only if every row under the key holds its facts.
RecordOrder(s) ==
    /\ pc[s] = "orders"
    /\ tx[s] \in HasOrder
    /\ orders' = IF KnownOrder(tx[s], facts[s], time[s]) THEN orders
                 ELSE orders \cup {<<tx[s], facts[s], time[s]>>}
    /\ ingested' = IF \A r \in orders' : r[1] = tx[s] => r[2] = facts[s]
                   THEN ingested \cup {<<tx[s], facts[s]>>} ELSE ingested
    /\ Rest(s)
    /\ UNCHANGED <<nextId, obs, canon, stream, deliveries, faults>>

NoOrder(s) ==
    /\ pc[s] = "orders"
    /\ tx[s] \notin HasOrder
    /\ ingested' = ingested \cup {<<tx[s], facts[s]>>}
    /\ Rest(s)
    /\ UNCHANGED <<nextId, tableVars, deliveries, faults>>

\* A database error rolls back the open transaction and ingest tries again.
Retry(s) ==
    /\ pc[s] # "idle"
    /\ Fault
    /\ pc' = [pc EXCEPT ![s] = "observe"]
    /\ idx' = [idx EXCEPT ![s] = IF pc[s] = "orders" THEN 1 ELSE RetryFrom(s)]
    /\ id' = [id EXCEPT ![s] = 0]
    /\ fresh' = [fresh EXCEPT ![s] = FALSE]
    /\ UNCHANGED <<tx, facts, time, nextId, tableVars, deliveries, ingested>>

\* The process dies, or ingest gives the transaction up: rolled back, and what
\* was committed stays.
Abandon(s) ==
    /\ pc[s] # "idle"
    /\ Fault
    /\ Rest(s)
    /\ UNCHANGED <<nextId, tableVars, deliveries, ingested>>

-----------------------------------------------------------------------------

Write(s) ==
    \/ DrawId(s) \/ InsertObservation(s) \/ ReuseObservation(s) \/ Contradicted(s)
    \/ CommitObservation(s) \/ UpsertCanonical(s) \/ LockKey(s) \/ InsertStream(s)
    \/ CommitProjection(s) \/ RecordOrder(s) \/ NoOrder(s)

Next ==
    \E s \in Sessions :
        \/ \E t \in Txs : \E f \in FactsOf[t] : Deliver(s, t, f)
        \/ Write(s)
        \/ Retry(s) \/ Abandon(s)

Spec == Init /\ [][Next]_vars

\* PostgreSQL answers every statement that is not waiting for a lock.
FairSpec == Spec /\ \A s \in Sessions : WF_vars(Write(s))

-----------------------------------------------------------------------------
(* Readers.                                                                 *)

\* The streamed_events view: the canonical row's observation, and a stream row.
StreamedEvents ==
    {o \in obs : <<o[1], o[2]>> \in canon /\ \E r \in stream : r[1] = o[1]}

\* ORDER BY observation_id alone.
Later_arrival(a, b) == a[2] > b[2]

\* ORDER BY slot, then observation_id: a comes after b in a fold.
Later(a, b) ==
    \/ SlotOf[TxOf[a[1]]] > SlotOf[TxOf[b[1]]]
    \/ SlotOf[TxOf[a[1]]] = SlotOf[TxOf[b[1]]] /\ a[2] > b[2]

\* DISTINCT ON a position: the row that decides its state.
Decides(o) ==
    /\ o \in StreamedEvents
    /\ \A a \in StreamedEvents \ {o} : PositionOf[a[1]] = PositionOf[o[1]] => Later(o, a)

\* The order the chain executed the events in.
OnChainAfter(a, b) ==
    \/ ChainIndex[TxOf[a]] > ChainIndex[TxOf[b]]
    \/ TxOf[a] = TxOf[b] /\ Ordinal[a] > Ordinal[b]

-----------------------------------------------------------------------------
(* Properties.                                                              *)

\* "One stream row per event", and one order row per instruction and facts,
\* whatever is redelivered, retried or replayed beside the stream
\* (persist.rs:302, 044_dusk_streamed_ingestion.sql:55).
OneRowPerKey ==
    /\ \A r, q \in stream : r[1] = q[1] => r = q
    /\ \A r, q \in orders : r[1] = q[1] /\ r[2] = q[2] => r = q

\* A stream row is its event's only one and is backed: its canonical row points at the event's only
\* committed observation and both hold the same facts, which is what
\* check_market_activity_source demands of a source.
Backed ==
    OneRowPerKey /\ \A r \in stream :
        \E o \in obs : /\ ObservationOf(r[1]) = {o} /\ o[3] = r[2]
                       /\ {c \in canon : c[1] = r[1]} = {<<r[1], o[2]>>}

\* A late older event lands in its place: of the events a position shows, the
\* one the fold lets decide is the last the chain executed. docs/dusk-runtime.md
\* and the head of catchup.rs say so; the views do not keep it within a slot: see
\* the finding.
FoldIsChainOrder ==
    \A o \in StreamedEvents :
        Decides(o) =>
            \A a \in StreamedEvents \ {o} :
                PositionOf[a[1]] = PositionOf[o[1]] => OnChainAfter(o[1], a[1])

\* Two transactions of one slot, whose order the views do not know.
Tied(d, e) == TxOf[d] # TxOf[e] /\ SlotOf[TxOf[d]] = SlotOf[TxOf[e]]

\* What they do keep, whatever is delivered late, twice, or by two sessions that
\* take turns at one transaction's events: the event that decides is the last the
\* chain executed of every other slot and of its own transaction, and of several
\* transactions of its slot it is of the one that was observed last.
FoldKeepsSlots ==
    \A o \in StreamedEvents :
        Decides(o) =>
            \A a \in StreamedEvents \ {o} :
                PositionOf[a[1]] = PositionOf[o[1]] =>
                    OnChainAfter(o[1], a[1]) \/ (Tied(o[1], a[1]) /\ a[2] < o[2])

\* No two sessions wait for each other: each delivery ends.
DeliveriesEnd == \A s \in Sessions : []<>(pc[s] = "idle")

\* Readers see the log EventLog promises.
Log == INSTANCE EventLog WITH
           log <- {<<o[1], o[3]>> : o \in StreamedEvents}

LogSpec == Log!Spec
=============================================================================
