----------------------------- MODULE StoreProofs -----------------------------
(***************************************************************************)
(* What holds of the event tables however many sessions write them side by  *)
(* side, retry and die: the rows agree with each other, the log the readers *)
(* see is EventLog's, and a fold of it follows the chain.                   *)
(***************************************************************************)
EXTENDS EventStore, TLAPS

(***************************************************************************)
(* The inductive invariant.                                                 *)
(***************************************************************************)

\* The steps at which a session's transaction holds its event's canonical row.
Holding == {"upserted", "locked", "inserted"}

\* s is about to commit the first row of its event.
First(s) == pc[s] = "observed" /\ fresh[s]

\* s works with an id it drew itself and has not committed.
Drawn(s) == pc[s] = "insert" \/ First(s)

\* s works with its event's committed row.
Rowed(s) == pc[s] \in Holding \cup {"project"} \/ (pc[s] = "observed" /\ ~fresh[s])

Typed ==
    /\ TypeOK
    /\ idx \in [Sessions -> Nat \ {0}]
    /\ id \in [Sessions -> Nat]
    /\ nextId \in Nat \ {0}
    /\ \A s \in Sessions :
           IF pc[s] = "idle" THEN idx[s] = 1
           ELSE tx[s] \in Txs /\ facts[s] \in Facts /\ time[s] \in 1..MaxDeliveries

\* What a session may rely on of the tables at each of its steps.
Session(s) ==
    /\ fresh[s] => pc[s] \in {"observed", "inserted"}
    /\ First(s) => ObservationOf(Event(s)) = {}
    /\ Rowed(s) => <<Event(s), id[s], facts[s]>> \in obs
    /\ pc[s] = "inserted" => (fresh[s] <=> ~Streamed(Event(s)))
    /\ pc[s] # "idle" =>
           \A i \in DOMAIN EventsOf[tx[s]] : i < idx[s] => Streamed(EventsOf[tx[s]][i])
    /\ Drawn(s) =>
           /\ id[s] > 0
           /\ \A o \in obs : (TxOf[o[1]] = tx[s] /\ Ordinal[o[1]] < idx[s]) => o[2] < id[s]

\* Two sessions hold no event's canonical row together, nor both its first row.
Apart ==
    \A s, r \in Sessions :
        (s # r /\ ((pc[s] \in Holding /\ pc[r] \in Holding) \/ (First(s) /\ First(r))))
            => Event(s) # Event(r)

ObservedOnce == \A a, b \in obs : a[1] = b[1] => a = b

\* Ids follow a transaction's instructions.
ObservedInOrder ==
    \A o \in obs : \A d \in Earlier[o[1]] : \E a \in obs : a[1] = d /\ a[2] < o[2]

StoreInv ==
    /\ Typed
    /\ \A s \in Sessions : Session(s)
    /\ Apart
    /\ ObservedOnce /\ ObservedInOrder
    /\ Backed

-----------------------------------------------------------------------------
(* The events of a transaction.                                             *)

\* An event key gives back its transaction and its place in it.
LEMMA EventPlace ==
    ASSUME NEW t \in Txs, NEW i \in DOMAIN EventsOf[t]
    PROVE  /\ EventsOf[t][i] \in Events /\ i \in Nat
           /\ TxOf[EventsOf[t][i]] = t /\ Ordinal[EventsOf[t][i]] = i
<1> DEFINE e == EventsOf[t][i]
<1>1. e \in EventsIn(t)
  BY DEF EventsIn
<1>2. e \in Events
  BY <1>1 DEF Events
<1>3. \A u \in Txs : e \in EventsIn(u) => u = t
  BY EventStoreAssumption DEF EventsIn
<1>4. TxOf[e] = t
  <2>1. TxOf[e] = CHOOSE u \in Txs : e \in EventsIn(u)
    BY <1>2 DEF TxOf
  <2>2. t = CHOOSE u \in Txs : e \in EventsIn(u)
    BY <1>1, <1>3
  <2> QED BY <2>1, <2>2
<1>5. Ordinal[e] = i
  <2>1. Ordinal[e] = CHOOSE j \in DOMAIN EventsOf[t] : EventsOf[t][j] = e
    BY <1>2, <1>4 DEF Ordinal
  <2>2. \A j \in DOMAIN EventsOf[t] : EventsOf[t][j] = e => j = i
    BY EventStoreAssumption
  <2> QED BY <2>1, <2>2
<1>6. i \in Nat
  BY EventStoreAssumption
<1> QED BY <1>2, <1>4, <1>5, <1>6

\* Every event has such a place.
LEMMA EventHasPlace ==
    ASSUME NEW e \in Events
    PROVE  /\ TxOf[e] \in Txs /\ Ordinal[e] \in DOMAIN EventsOf[TxOf[e]]
           /\ EventsOf[TxOf[e]][Ordinal[e]] = e /\ Ordinal[e] \in Nat
<1>1. PICK t \in Txs : e \in EventsIn(t)
  BY DEF Events
<1>2. PICK i \in DOMAIN EventsOf[t] : EventsOf[t][i] = e
  BY <1>1 DEF EventsIn
<1> QED BY <1>2, EventPlace

\* The events before it are those at the places before its own.
LEMMA EarlierPlaces ==
    ASSUME NEW e \in Events, NEW d \in Earlier[e]
    PROVE  /\ d \in Events /\ TxOf[d] = TxOf[e] /\ Ordinal[d] < Ordinal[e]
           /\ Ordinal[d] \in DOMAIN EventsOf[TxOf[e]]
           /\ EventsOf[TxOf[e]][Ordinal[d]] = d
<1>1. d \in EventsIn(TxOf[e]) /\ Ordinal[d] < Ordinal[e]
  BY DEF Earlier
<1>2. TxOf[e] \in Txs
  BY EventHasPlace
<1>3. PICK i \in DOMAIN EventsOf[TxOf[e]] : EventsOf[TxOf[e]][i] = d
  BY <1>1 DEF EventsIn
<1> QED BY <1>1, <1>2, <1>3, EventPlace

\* A session with an event in hand has one of its transaction's.
LEMMA InHand ==
    ASSUME Typed, NEW s \in Sessions, pc[s] \notin {"idle", "orders"}
    PROVE  /\ tx[s] \in Txs /\ idx[s] \in DOMAIN EventsOf[tx[s]] /\ Event(s) \in Events
           /\ facts[s] \in Facts /\ time[s] \in 1..MaxDeliveries
           /\ TxOf[Event(s)] = tx[s] /\ Ordinal[Event(s)] = idx[s]
<1>1. tx[s] \in Txs /\ idx[s] \in DOMAIN EventsOf[tx[s]]
      /\ facts[s] \in Facts /\ time[s] \in 1..MaxDeliveries
  BY DEF Typed, TypeOK
<1> QED BY <1>1, EventPlace DEF Event

-----------------------------------------------------------------------------
(* Typing.                                                                  *)

\* A session at rest is typed.
LEMMA RestTyped ==
    ASSUME Typed, NEW s \in Sessions, Rest(s), UNCHANGED <<nextId, obs, canon, stream, deliveries>>,
           orders' \subseteq (HasOrder \X Facts \X (1..MaxDeliveries)),
           faults' \in 0..MaxFaults
    PROVE  Typed'
BY EventStoreAssumption DEF Typed, TypeOK, Rest, Steps

\* Every step of a session keeps the types.
LEMMA TypedStep ==
    ASSUME Typed, NEW s \in Sessions, Session(s),
           \/ \E t \in Txs : \E f \in FactsOf[t] : Deliver(s, t, f)
           \/ Write(s) \/ Retry(s) \/ Abandon(s)
    PROVE  Typed'
<1>1. ASSUME NEW t \in Txs, NEW f \in FactsOf[t], Deliver(s, t, f) PROVE Typed'
  <2>1. 1 \in DOMAIN EventsOf[t] /\ f \in Facts
    BY EventStoreAssumption DEF Facts
  <2> QED
    BY <1>1, <2>1, EventStoreAssumption DEF Deliver, Typed, TypeOK, Steps, tableVars
<1>2. CASE DrawId(s)
  BY <1>2 DEF DrawId, Typed, TypeOK, Steps, tableVars
<1>3. CASE InsertObservation(s)
  BY <1>3 DEF InsertObservation, Typed, TypeOK, Steps, tableVars
<1>4. CASE ReuseObservation(s)
  <2>1. PICK o \in ObservationOf(Event(s)) : id' = [id EXCEPT ![s] = o[2]]
    BY <1>4 DEF ReuseObservation, StoredId
  <2>2. o[2] \in 1..(nextId - 1)
    BY <2>1 DEF ObservationOf, Typed, TypeOK
  <2> QED
    BY <1>4, <2>1, <2>2 DEF ReuseObservation, Typed, TypeOK, Steps, tableVars
<1>5. CASE Contradicted(s)
  BY <1>5, RestTyped DEF Contradicted, tableVars, Typed, TypeOK
<1>6. CASE CommitObservation(s)
  <2>1. Event(s) \in Events /\ facts[s] \in Facts
    BY <1>6, InHand DEF CommitObservation
  <2>2. fresh[s] => id[s] \in 1..(nextId - 1)
    BY <1>6 DEF CommitObservation, Session, Drawn, First, Typed, TypeOK
  <2>3. obs' \subseteq (Events \X (1..(nextId - 1)) \X Facts)
    BY <1>6, <2>1, <2>2 DEF CommitObservation, Typed, TypeOK
  <2> QED
    BY <1>6, <2>3 DEF CommitObservation, Typed, TypeOK, Steps
<1>7. CASE UpsertCanonical(s) \/ LockKey(s) \/ InsertStream(s)
  BY <1>7 DEF UpsertCanonical, LockKey, InsertStream, Typed, TypeOK, Steps, tableVars
<1>8. CASE CommitProjection(s)
  <2>1. /\ Event(s) \in Events /\ facts[s] \in Facts /\ time[s] \in 1..MaxDeliveries
        /\ tx[s] \in Txs /\ idx[s] \in DOMAIN EventsOf[tx[s]]
    BY <1>8, InHand DEF CommitProjection
  <2>2. <<Event(s), id[s], facts[s]>> \in obs
    BY <1>8 DEF CommitProjection, Session, Rowed, Holding
  <2>3. canon' \subseteq (Events \X (1..(nextId' - 1)))
    BY <1>8, <2>1, <2>2 DEF CommitProjection, Typed, TypeOK
  <2>4. stream' \subseteq (Events \X Facts \X (1..MaxDeliveries))
    BY <1>8, <2>1 DEF CommitProjection, Typed, TypeOK
  <2>5. AfterEvent(s) \in {"observe", "orders"}
        /\ (AfterEvent(s) = "observe" => idx[s] + 1 \in DOMAIN EventsOf[tx[s]])
    BY <2>1, EventStoreAssumption DEF AfterEvent
  <2>6. pc' \in [Sessions -> Steps] /\ idx' \in [Sessions -> Nat \ {0}]
        /\ id' \in [Sessions -> Nat] /\ fresh' \in [Sessions -> BOOLEAN]
    BY <1>8, <2>5 DEF CommitProjection, Typed, TypeOK, Steps
  <2>7. UNCHANGED <<tx, facts, time, nextId, obs, orders, deliveries, faults>>
    BY <1>8 DEF CommitProjection
  <2>8. ASSUME NEW r \in Sessions
        PROVE /\ id'[r] < nextId'
              /\ IF pc'[r] \in {"idle", "orders"} THEN idx'[r] \in Nat
                 ELSE idx'[r] \in DOMAIN EventsOf[tx'[r]]
              /\ IF pc'[r] = "idle" THEN idx'[r] = 1
                 ELSE tx'[r] \in Txs /\ facts'[r] \in Facts /\ time'[r] \in 1..MaxDeliveries
    <3>1. CASE r = s
      BY <1>8, <2>1, <2>5, <3>1 DEF CommitProjection, Typed, TypeOK
    <3>2. CASE r # s
      BY <1>8, <3>2 DEF CommitProjection, Typed, TypeOK
    <3> QED BY <3>1, <3>2
  <2> QED
    BY <2>3, <2>4, <2>6, <2>7, <2>8 DEF Typed, TypeOK
<1>9. CASE RecordOrder(s)
  <2>1. <<tx[s], facts[s], time[s]>> \in HasOrder \X Facts \X (1..MaxDeliveries)
    BY <1>9 DEF RecordOrder, Typed, TypeOK
  <2>2. orders' \subseteq (HasOrder \X Facts \X (1..MaxDeliveries))
    BY <1>9, <2>1 DEF RecordOrder, Typed, TypeOK
  <2> QED
    BY <1>9, <2>2, RestTyped DEF RecordOrder, Typed, TypeOK
<1>10. CASE NoOrder(s)
  BY <1>10, RestTyped DEF NoOrder, tableVars, Typed, TypeOK
<1>11. CASE Retry(s)
  <2>1. tx[s] \in Txs /\ 1 \in DOMAIN EventsOf[tx[s]]
    BY <1>11, EventStoreAssumption DEF Retry, Typed
  <2>2. faults' \in 0..MaxFaults
    BY <1>11, EventStoreAssumption DEF Retry, Fault, Typed, TypeOK
  <2> QED
    BY <1>11, <2>1, <2>2 DEF Retry, RetryFrom, Typed, TypeOK, Steps, tableVars
<1>12. CASE Abandon(s)
  <2>1. faults' \in 0..MaxFaults
    BY <1>12, EventStoreAssumption DEF Abandon, Fault, Typed, TypeOK
  <2> QED
    BY <1>12, <2>1, RestTyped DEF Abandon, tableVars, Typed, TypeOK
<1> QED
  BY <1>1, <1>2, <1>3, <1>4, <1>5, <1>6, <1>7, <1>8, <1>9, <1>10, <1>11, <1>12 DEF Write

-----------------------------------------------------------------------------
(* What a step leaves to the other sessions.                                *)

\* A step of s leaves every other session where it is.
LEMMA OthersStay ==
    ASSUME Typed, NEW s \in Sessions, NEW r \in Sessions \ {s},
           \/ \E t \in Txs : \E f \in FactsOf[t] : Deliver(s, t, f)
           \/ Write(s) \/ Retry(s) \/ Abandon(s)
    PROVE  /\ pc'[r] = pc[r] /\ tx'[r] = tx[r] /\ facts'[r] = facts[r]
           /\ idx'[r] = idx[r] /\ id'[r] = id[r] /\ fresh'[r] = fresh[r]
           /\ Event(r)' = Event(r)
<1>1. /\ pc'[r] = pc[r] /\ tx'[r] = tx[r] /\ facts'[r] = facts[r]
      /\ idx'[r] = idx[r] /\ id'[r] = id[r] /\ fresh'[r] = fresh[r]
  BY DEF Deliver, Write, DrawId, InsertObservation, ReuseObservation, Contradicted,
         CommitObservation, UpsertCanonical, LockKey, InsertStream, CommitProjection,
         RecordOrder, NoOrder, Retry, Abandon, Rest, Typed, TypeOK
<1> QED BY <1>1 DEF Event

\* A session that stays keeps what it relies on, if no row of its event appears
\* while it counts on there being none, and no observation comes between its id
\* and those of the events before.
LEMMA SessionKept ==
    ASSUME NEW r \in Sessions, Session(r),
           pc'[r] = pc[r], tx'[r] = tx[r], facts'[r] = facts[r],
           idx'[r] = idx[r], id'[r] = id[r], fresh'[r] = fresh[r],
           Event(r)' = Event(r),
           obs \subseteq obs', stream \subseteq stream',
           First(r) => \A o \in obs' : o[1] = Event(r) => o \in obs,
           pc[r] = "inserted" => \A q \in stream' : q[1] = Event(r) => q \in stream,
           Drawn(r) => \A o \in obs' : (TxOf[o[1]] = tx[r] /\ Ordinal[o[1]] < idx[r]) => o \in obs
    PROVE  Session(r)'
<1>1. First(r)' = First(r) /\ Drawn(r)' = Drawn(r) /\ Rowed(r)' = Rowed(r)
  BY DEF First, Drawn, Rowed
<1>2. \A e : Streamed(e) => Streamed(e)'
  BY DEF Streamed
<1>3. pc[r] = "inserted" => Streamed(Event(r))' = Streamed(Event(r))
  BY DEF Streamed
<1>4. First(r) => ObservationOf(Event(r))' = ObservationOf(Event(r))
  BY DEF ObservationOf
<1>5. First(r)' => ObservationOf(Event(r))' = {}
  BY <1>1, <1>4 DEF Session
<1>6. Rowed(r)' => <<Event(r)', id'[r], facts'[r]>> \in obs'
  BY <1>1 DEF Session
<1>7. pc'[r] = "inserted" => (fresh'[r] <=> ~Streamed(Event(r))')
  BY <1>3 DEF Session
<1>8. pc'[r] # "idle" =>
           \A i \in DOMAIN EventsOf[tx'[r]] : i < idx'[r] => Streamed(EventsOf[tx[r]][i])'
  BY <1>2 DEF Session
<1>9. Drawn(r)' =>
           /\ id'[r] > 0
           /\ \A o \in obs' : (TxOf[o[1]] = tx'[r] /\ Ordinal[o[1]] < idx'[r]) => o[2] < id'[r]
  BY <1>1 DEF Session
<1> QED BY <1>5, <1>6, <1>7, <1>8, <1>9 DEF Session

\* A streamed event has a committed observation.
LEMMA StreamedObserved ==
    ASSUME Backed, NEW e, Streamed(e)
    PROVE  \E o \in obs : o[1] = e
BY DEF Backed, Streamed, ObservationOf

\* A drawn first row belongs to an event nobody has observed or streamed, and
\* every event before it is observed under a smaller id.
LEMMA FirstRow ==
    ASSUME StoreInv, NEW s \in Sessions, First(s)
    PROVE  /\ \A o \in obs : o[1] # Event(s)
           /\ ~Streamed(Event(s))
           /\ \A d \in Earlier[Event(s)] : \E a \in obs : a[1] = d /\ a[2] < id[s]
<1>1. \A o \in obs : o[1] # Event(s)
  BY DEF StoreInv, Session, ObservationOf
<1>2. ~Streamed(Event(s))
  BY <1>1, StreamedObserved DEF StoreInv
<1>3. ASSUME NEW d \in Earlier[Event(s)] PROVE \E a \in obs : a[1] = d /\ a[2] < id[s]
  <2>1. /\ Event(s) \in Events /\ TxOf[Event(s)] = tx[s] /\ Ordinal[Event(s)] = idx[s]
        /\ pc[s] # "idle"
    BY InHand DEF StoreInv, First
  <2>2. /\ TxOf[d] = tx[s] /\ Ordinal[d] < idx[s]
        /\ Ordinal[d] \in DOMAIN EventsOf[tx[s]] /\ EventsOf[tx[s]][Ordinal[d]] = d
    BY <2>1, EarlierPlaces
  <2>3. Streamed(d)
    BY <2>1, <2>2 DEF StoreInv, Session
  <2>4. PICK a \in obs : a[1] = d
    BY <2>3, StreamedObserved DEF StoreInv
  <2>5. a[2] < id[s]
    BY <2>2, <2>4 DEF StoreInv, Session, Drawn
  <2> QED BY <2>4, <2>5
<1> QED BY <1>1, <1>2, <1>3

-----------------------------------------------------------------------------
(* The tables.                                                              *)

\* The rows agree after every step.
LEMMA TablesStep ==
    ASSUME StoreInv, NEW s \in Sessions,
           \/ \E t \in Txs : \E f \in FactsOf[t] : Deliver(s, t, f)
           \/ Write(s) \/ Retry(s) \/ Abandon(s)
    PROVE  ObservedOnce' /\ ObservedInOrder' /\ Backed'
<1> USE DEF StoreInv
<1>1. CASE UNCHANGED tableVars
  BY <1>1 DEF tableVars, ObservedOnce, ObservedInOrder, Backed, OneRowPerKey, ObservationOf
<1>2. CASE CommitObservation(s)
  <2>1. UNCHANGED <<canon, stream, orders>>
    BY <1>2 DEF CommitObservation
  <2>2. CASE ~fresh[s]
    BY <1>2, <2>1, <2>2 DEF CommitObservation, ObservedOnce, ObservedInOrder, Backed,
                            OneRowPerKey, ObservationOf
  <2>3. CASE fresh[s]
    <3> DEFINE o == <<Event(s), id[s], facts[s]>>
    <3>1. First(s) /\ obs' = obs \cup {o}
      BY <1>2, <2>3 DEF CommitObservation, First
    <3>2. /\ \A a \in obs : a[1] # Event(s)
          /\ ~Streamed(Event(s))
          /\ \A d \in Earlier[Event(s)] : \E a \in obs : a[1] = d /\ a[2] < id[s]
      BY <3>1, FirstRow
    <3>3. o[1] = Event(s) /\ o[2] = id[s]
      OBVIOUS
    <3>4. ObservedOnce'
      BY <3>1, <3>2, <3>3 DEF ObservedOnce
    <3>5. ObservedInOrder'
      BY <3>1, <3>2, <3>3 DEF ObservedInOrder
    <3>6. ASSUME NEW r \in stream
          PROVE ObservationOf(r[1])' = ObservationOf(r[1])
      <4>1. r[1] # Event(s)
        BY <3>2 DEF Streamed
      <4> QED BY <3>1, <3>3, <4>1 DEF ObservationOf
    <3>7. Backed'
      BY <2>1, <3>1, <3>6 DEF Backed, OneRowPerKey
    <3> QED BY <3>4, <3>5, <3>7
  <2> QED BY <2>2, <2>3
<1>3. CASE CommitProjection(s)
  <2> DEFINE e == Event(s)
             o == <<Event(s), id[s], facts[s]>>
             q == <<Event(s), facts[s], time[s]>>
  <2>1. UNCHANGED <<obs, orders>>
    BY <1>3 DEF CommitProjection
  <2>2. ObservedOnce' /\ ObservedInOrder'
    BY <2>1 DEF ObservedOnce, ObservedInOrder
  <2>3. o \in obs /\ ObservationOf(e) = {o}
    <3>1. o \in obs
      BY <1>3 DEF CommitProjection, Session, Rowed, Holding
    <3> QED BY <3>1 DEF ObservedOnce, ObservationOf
  <2>4. canon' = {c \in canon : c[1] # e} \cup {<<e, id[s]>>}
    BY <1>3 DEF CommitProjection
  <2>5. stream' = IF fresh[s] THEN stream \cup {q} ELSE stream
    BY <1>3 DEF CommitProjection
  <2>6. fresh[s] => \A r \in stream : r[1] # e
    BY <1>3 DEF CommitProjection, Session, Streamed
  <2>7. OneRowPerKey'
    BY <2>1, <2>5, <2>6 DEF Backed, OneRowPerKey
  <2>8. ASSUME NEW r \in stream'
        PROVE \E p \in obs' : /\ ObservationOf(r[1])' = {p} /\ p[3] = r[2]
                              /\ {c \in canon' : c[1] = r[1]} = {<<r[1], p[2]>>}
    <3>1. ObservationOf(r[1])' = ObservationOf(r[1])
      BY <2>1 DEF ObservationOf
    <3>2. CASE r[1] = e
      <4>1. r[2] = facts[s]
        <5>1. CASE r = q
          BY <5>1
        <5>2. CASE r \in stream
          <6>1. PICK p \in obs : ObservationOf(r[1]) = {p} /\ p[3] = r[2]
            BY <5>2 DEF Backed
          <6>2. p = o
            BY <6>1, <2>3, <3>2
          <6> QED BY <6>1, <6>2
        <5> QED BY <2>5, <5>1, <5>2
      <4>2. {c \in canon' : c[1] = e} = {<<e, id[s]>>}
        BY <2>4
      <4> QED BY <2>1, <2>3, <3>1, <3>2, <4>1, <4>2
    <3>3. CASE r[1] # e
      <4>1. r \in stream
        BY <2>5, <3>3
      <4>2. {c \in canon' : c[1] = r[1]} = {c \in canon : c[1] = r[1]}
        BY <2>4, <3>3
      <4> QED BY <2>1, <3>1, <4>1, <4>2 DEF Backed
    <3> QED BY <3>2, <3>3
  <2> QED BY <2>2, <2>7, <2>8 DEF Backed
<1>4. CASE RecordOrder(s)
  <2>1. UNCHANGED <<obs, canon, stream>>
    BY <1>4 DEF RecordOrder
  <2>2. \A r, q \in orders' : r[1] = q[1] /\ r[2] = q[2] => r = q
    BY <1>4 DEF RecordOrder, KnownOrder, Backed, OneRowPerKey
  <2> QED
    BY <2>1, <2>2 DEF ObservedOnce, ObservedInOrder, Backed, OneRowPerKey, ObservationOf
<1>5. UNCHANGED tableVars \/ CommitObservation(s) \/ CommitProjection(s) \/ RecordOrder(s)
  BY DEF Deliver, Write, DrawId, InsertObservation, ReuseObservation, Contradicted,
         UpsertCanonical, LockKey, InsertStream, NoOrder, Retry, Abandon, tableVars
<1> QED BY <1>1, <1>2, <1>3, <1>4, <1>5

-----------------------------------------------------------------------------
(* The sessions.                                                            *)

\* What the other sessions rely on survives a step of s.
LEMMA OthersStep ==
    ASSUME StoreInv, NEW s \in Sessions, NEW r \in Sessions \ {s},
           \/ \E t \in Txs : \E f \in FactsOf[t] : Deliver(s, t, f)
           \/ Write(s) \/ Retry(s) \/ Abandon(s)
    PROVE  Session(r)'
<1>1. Session(r) /\ Typed /\ r # s
  BY DEF StoreInv
<1>2. /\ pc'[r] = pc[r] /\ tx'[r] = tx[r] /\ facts'[r] = facts[r]
      /\ idx'[r] = idx[r] /\ id'[r] = id[r] /\ fresh'[r] = fresh[r]
      /\ Event(r)' = Event(r)
  BY <1>1, OthersStay
<1>3. CASE UNCHANGED <<obs, stream>>
  BY <1>1, <1>2, <1>3, SessionKept
<1>4. CASE CommitObservation(s) /\ fresh[s]
  <2>1. First(s) /\ obs' = obs \cup {<<Event(s), id[s], facts[s]>>} /\ stream' = stream
    BY <1>4 DEF CommitObservation, First
  <2>2. First(r) => Event(r) # Event(s)
    BY <1>1, <2>1 DEF StoreInv, Apart
  <2>3. ASSUME Drawn(r), TxOf[Event(s)] = tx[r], Ordinal[Event(s)] < idx[r] PROVE FALSE
    <3>1. /\ TxOf[Event(s)] \in Txs /\ Ordinal[Event(s)] \in DOMAIN EventsOf[TxOf[Event(s)]]
          /\ EventsOf[TxOf[Event(s)]][Ordinal[Event(s)]] = Event(s)
      BY <1>1, <2>1, InHand, EventHasPlace DEF First
    <3>2. pc[r] # "idle"
      BY <2>3 DEF Drawn, First
    <3>3. Streamed(Event(s))
      BY <1>1, <2>3, <3>1, <3>2 DEF Session
    <3> QED BY <2>1, <3>3, FirstRow
  <2>4. First(r) => \A o \in obs' : o[1] = Event(r) => o \in obs
    BY <2>1, <2>2
  <2>5. Drawn(r) => \A o \in obs' : (TxOf[o[1]] = tx[r] /\ Ordinal[o[1]] < idx[r]) => o \in obs
    BY <2>1, <2>3
  <2> QED BY <1>1, <1>2, <2>1, <2>4, <2>5, SessionKept
<1>5. CASE CommitProjection(s) /\ fresh[s]
  <2>1. /\ stream' = stream \cup {<<Event(s), facts[s], time[s]>>} /\ obs' = obs
        /\ pc[s] \in Holding
    BY <1>5 DEF CommitProjection, Holding
  <2>2. pc[r] = "inserted" => Event(r) # Event(s)
    BY <1>1, <2>1 DEF StoreInv, Apart, Holding
  <2>3. pc[r] = "inserted" => \A q \in stream' : q[1] = Event(r) => q \in stream
    BY <2>1, <2>2
  <2> QED BY <1>1, <1>2, <2>1, <2>3, SessionKept
<1>6. \/ UNCHANGED <<obs, stream>>
      \/ CommitObservation(s) /\ fresh[s]
      \/ CommitProjection(s) /\ fresh[s]
  BY DEF Deliver, Write, DrawId, InsertObservation, ReuseObservation, Contradicted,
         CommitObservation, UpsertCanonical, LockKey, InsertStream, CommitProjection,
         RecordOrder, NoOrder, Retry, Abandon, tableVars
<1> QED BY <1>3, <1>4, <1>5, <1>6

\* s itself: what it relies on at the step it comes to.
LEMMA OwnStep ==
    ASSUME StoreInv, NEW s \in Sessions,
           \/ \E t \in Txs : \E f \in FactsOf[t] : Deliver(s, t, f)
           \/ Write(s) \/ Retry(s) \/ Abandon(s)
    PROVE  Session(s)'
<1>0. Session(s) /\ Typed /\ Typed' /\ Backed
  BY TypedStep DEF StoreInv
<1> USE DEF First, Drawn, Rowed, Holding
<1>1. ASSUME NEW t \in Txs, NEW f \in FactsOf[t], Deliver(s, t, f) PROVE Session(s)'
  <2>1. pc'[s] = "observe" /\ fresh'[s] = FALSE /\ idx'[s] = 1
    BY <1>0, <1>1 DEF Deliver, Session, Typed, TypeOK
  <2>2. \A i \in DOMAIN EventsOf[tx'[s]] : ~(i < 1)
    BY <1>0, <2>1, EventStoreAssumption DEF Typed
  <2> QED BY <2>1, <2>2 DEF Session
<1>2. CASE DrawId(s)
  <2>1. /\ pc'[s] = "insert" /\ id'[s] = nextId /\ UNCHANGED <<tx, idx, fresh, obs, stream>>
        /\ pc[s] = "observe"
    BY <1>0, <1>2 DEF DrawId, tableVars, Typed, TypeOK
  <2>2. id'[s] > 0 /\ \A o \in obs : o[2] < id'[s]
    BY <1>0, <2>1 DEF Typed, TypeOK
  <2> QED BY <1>0, <2>1, <2>2 DEF Session, Streamed
<1>3. CASE InsertObservation(s)
  <2>1. /\ pc'[s] = "observed" /\ fresh'[s] = TRUE /\ UNCHANGED <<tx, idx, id, obs, stream>>
        /\ pc[s] = "insert" /\ ObservationOf(Event(s)) = {}
    BY <1>0, <1>3 DEF InsertObservation, tableVars, Typed, TypeOK
  <2>2. ObservationOf(Event(s))' = {}
    BY <2>1 DEF ObservationOf, Event
  <2> QED BY <1>0, <2>1, <2>2 DEF Session, Streamed
<1>4. CASE ReuseObservation(s)
  <2>1. PICK o \in ObservationOf(Event(s)) : o[3] = facts[s] /\ id' = [id EXCEPT ![s] = o[2]]
    BY <1>4 DEF ReuseObservation, StoredId, SameFacts
  <2>2. o \in obs /\ o = <<Event(s), o[2], facts[s]>>
    BY <1>0, <2>1 DEF ObservationOf, Typed, TypeOK
  <2>3. /\ pc'[s] = "observed" /\ fresh'[s] = FALSE /\ id'[s] = o[2]
        /\ UNCHANGED <<tx, facts, idx, obs, stream>> /\ pc[s] = "insert"
    BY <1>0, <1>4, <2>1 DEF ReuseObservation, tableVars, Session, Typed, TypeOK
  <2>4. <<Event(s)', id'[s], facts'[s]>> \in obs'
    BY <2>2, <2>3 DEF Event
  <2> QED BY <1>0, <2>3, <2>4 DEF Session, Streamed
<1>5. ASSUME Rest(s) PROVE Session(s)'
  <2>1. pc'[s] = "idle" /\ fresh'[s] = FALSE
    BY <1>0, <1>5 DEF Rest, Typed, TypeOK
  <2> QED BY <2>1 DEF Session
<1>6. CASE CommitObservation(s)
  <2>1. /\ pc'[s] = "project" /\ fresh'[s] = FALSE /\ UNCHANGED <<tx, facts, idx, id, stream>>
        /\ pc[s] = "observed"
    BY <1>0, <1>6 DEF CommitObservation, Typed, TypeOK
  <2>2. <<Event(s)', id'[s], facts'[s]>> \in obs'
    BY <1>0, <1>6, <2>1 DEF CommitObservation, Session, Event
  <2> QED BY <1>0, <2>1, <2>2 DEF Session, Streamed
<1>7. CASE UpsertCanonical(s) \/ LockKey(s)
  <2>1. /\ pc[s] \in {"project", "upserted"} /\ pc'[s] \in {"upserted", "locked"}
        /\ UNCHANGED <<tx, facts, idx, id, fresh, obs, stream>>
    BY <1>0, <1>7 DEF UpsertCanonical, LockKey, tableVars, Typed, TypeOK
  <2> QED BY <1>0, <2>1 DEF Session, Streamed, Event
<1>8. CASE InsertStream(s)
  <2>1. /\ pc[s] = "locked" /\ pc'[s] = "inserted" /\ fresh'[s] = ~Streamed(Event(s))
        /\ UNCHANGED <<tx, facts, idx, id, obs, stream>>
    BY <1>0, <1>8 DEF InsertStream, tableVars, Typed, TypeOK
  <2> QED BY <1>0, <2>1 DEF Session, Streamed, Event
<1>9. CASE CommitProjection(s)
  <2>1. /\ pc[s] = "inserted" /\ pc'[s] \in {"observe", "orders"} /\ fresh'[s] = FALSE
        /\ idx'[s] = idx[s] + 1 /\ UNCHANGED tx
    BY <1>0, <1>9 DEF CommitProjection, AfterEvent, Typed, TypeOK
  <2>2. stream \subseteq stream'
    BY <1>9 DEF CommitProjection
  <2>3. \E r \in stream' : r[1] = Event(s)
    <3>1. CASE fresh[s]
      <4>1. <<Event(s), facts[s], time[s]>> \in stream'
        BY <1>9, <3>1 DEF CommitProjection
      <4>2. <<Event(s), facts[s], time[s]>>[1] = Event(s)
        OBVIOUS
      <4> QED BY <4>1, <4>2
    <3>2. CASE ~fresh[s]
      BY <1>0, <2>1, <2>2, <3>2 DEF Session, Streamed
    <3> QED BY <3>1, <3>2
  <2>4. ASSUME NEW i \in DOMAIN EventsOf[tx[s]], i < idx[s] + 1
        PROVE  \E r \in stream' : r[1] = EventsOf[tx[s]][i]
    <3>1. tx[s] \in Txs /\ i \in Nat /\ idx[s] \in Nat
      BY <1>0, <2>1, EventStoreAssumption, InHand, EventPlace
    <3>2. CASE i < idx[s]
      BY <1>0, <2>1, <2>2, <3>2 DEF Session, Streamed
    <3>3. CASE i = idx[s]
      BY <2>3, <3>3 DEF Event
    <3> QED BY <2>4, <3>1, <3>2, <3>3
  <2> QED BY <2>1, <2>4 DEF Session, Streamed
<1>10. CASE Retry(s)
  <2>1. /\ pc'[s] = "observe" /\ fresh'[s] = FALSE /\ idx'[s] = 1
        /\ tx'[s] = tx[s] /\ tx[s] \in Txs
    BY <1>0, <1>10 DEF Retry, RetryFrom, Typed, TypeOK
  <2>2. \A i \in DOMAIN EventsOf[tx[s]] : ~(i < 1)
    BY <2>1, EventStoreAssumption
  <2> QED BY <2>1, <2>2 DEF Session
<1>11. Contradicted(s) \/ RecordOrder(s) \/ NoOrder(s) \/ Abandon(s) => Rest(s)
  BY DEF Contradicted, RecordOrder, NoOrder, Abandon
<1> QED
  BY <1>1, <1>2, <1>3, <1>4, <1>5, <1>6, <1>7, <1>8, <1>9, <1>10, <1>11 DEF Write

\* The sessions stay apart.
LEMMA ApartStep ==
    ASSUME StoreInv, NEW s \in Sessions,
           \/ \E t \in Txs : \E f \in FactsOf[t] : Deliver(s, t, f)
           \/ Write(s) \/ Retry(s) \/ Abandon(s)
    PROVE  Apart'
<1>0. Typed /\ Apart /\ Session(s)
  BY DEF StoreInv
<1>1. ASSUME NEW r \in Sessions \ {s}
      PROVE  /\ (pc'[s] \in Holding /\ pc'[r] \in Holding) => Event(s)' # Event(r)'
             /\ (First(s)' /\ First(r)') => Event(s)' # Event(r)'
  <2>1. /\ pc'[r] = pc[r] /\ fresh'[r] = fresh[r] /\ Event(r)' = Event(r)
    BY <1>0, OthersStay
  <2>2. CASE InsertObservation(s)
    <3>1. /\ pc'[s] = "observed" /\ Event(s)' = Event(s)
          /\ (pc[r] = "observed" /\ fresh[r]) => Event(r) # Event(s)
      BY <1>0, <2>2 DEF InsertObservation, InsertWaits, Rivals, Event, Typed, TypeOK
    <3> QED BY <2>1, <3>1 DEF First, Holding
  <2>3. CASE UpsertCanonical(s)
    <3>1. /\ pc'[s] = "upserted" /\ Event(s)' = Event(s)
          /\ pc[r] \in Holding => Event(r) # Event(s)
      BY <1>0, <2>3 DEF UpsertCanonical, UpsertWaits, Rivals, Event, Holding, Typed, TypeOK
    <3> QED BY <2>1, <3>1 DEF First, Holding
  <2>4. CASE LockKey(s) \/ InsertStream(s)
    <3>1. /\ pc[s] \in Holding /\ pc'[s] \in Holding /\ Event(s)' = Event(s)
      BY <1>0, <2>4 DEF LockKey, InsertStream, Event, Holding, Typed, TypeOK
    <3> QED BY <1>0, <2>1, <3>1 DEF First, Holding, Apart
  <2>5. CASE ReuseObservation(s)
    <3>1. pc'[s] = "observed" /\ ~fresh'[s]
      BY <1>0, <2>5 DEF ReuseObservation, Session, Typed, TypeOK
    <3> QED BY <3>1 DEF First, Holding
  <2>6. CASE pc'[s] \notin Holding \cup {"observed"}
    BY <2>6 DEF First
  <2>7. \/ InsertObservation(s) \/ UpsertCanonical(s) \/ LockKey(s) \/ InsertStream(s)
        \/ ReuseObservation(s)
        \/ pc'[s] \in {"idle", "observe", "insert", "project", "orders"}
    BY <1>0 DEF Deliver, Write, DrawId, Contradicted, CommitObservation, CommitProjection,
                AfterEvent, RecordOrder, NoOrder, Retry, Abandon, Rest, Typed, TypeOK
  <2> QED BY <2>2, <2>3, <2>4, <2>5, <2>6, <2>7 DEF Holding
<1>2. ASSUME NEW q \in Sessions \ {s}, NEW r \in Sessions \ {s}, q # r
      PROVE  /\ (pc'[q] \in Holding /\ pc'[r] \in Holding) => Event(q)' # Event(r)'
             /\ (First(q)' /\ First(r)') => Event(q)' # Event(r)'
  <2>1. /\ pc'[q] = pc[q] /\ fresh'[q] = fresh[q] /\ Event(q)' = Event(q)
        /\ pc'[r] = pc[r] /\ fresh'[r] = fresh[r] /\ Event(r)' = Event(r)
    BY <1>0, OthersStay
  <2> QED BY <1>0, <1>2, <2>1 DEF Apart, First
<1> QED BY <1>1, <1>2 DEF Apart

-----------------------------------------------------------------------------
(* The theorems.                                                            *)

\* The sessions start idle before empty tables.
LEMMA StoreInit == Init => StoreInv
<1> SUFFICES ASSUME Init PROVE StoreInv
  OBVIOUS
<1>1. Typed
  BY EventStoreAssumption DEF Init, Typed, TypeOK, Steps
<1>2. \A s \in Sessions : Session(s)
  BY DEF Init, Session, First, Rowed, Drawn, Holding
<1>3. Apart /\ ObservedOnce /\ ObservedInOrder /\ Backed
  BY DEF Init, Apart, First, Holding, ObservedOnce, ObservedInOrder, Backed, OneRowPerKey
<1> QED BY <1>1, <1>2, <1>3 DEF StoreInv

\* Every step keeps the invariant.
LEMMA StoreStep == StoreInv /\ [Next]_vars => StoreInv'
<1> SUFFICES ASSUME StoreInv, [Next]_vars PROVE StoreInv'
  OBVIOUS
<1>1. CASE UNCHANGED vars
  <2>1. \A s \in Sessions : Session(s)' = Session(s)
    BY <1>1 DEF vars, Session, First, Rowed, Drawn, Event, ObservationOf, Streamed
  <2>2. Typed' /\ Apart' /\ ObservedOnce' /\ ObservedInOrder' /\ Backed'
    BY <1>1 DEF vars, StoreInv, Typed, TypeOK, Apart, First, Event, ObservedOnce,
                ObservedInOrder, Backed, OneRowPerKey, ObservationOf
  <2> QED BY <2>1, <2>2 DEF StoreInv
<1>2. ASSUME NEW s \in Sessions,
             \/ \E t \in Txs : \E f \in FactsOf[t] : Deliver(s, t, f)
             \/ Write(s) \/ Retry(s) \/ Abandon(s)
      PROVE  StoreInv'
  <2>1. Typed'
    BY <1>2, TypedStep DEF StoreInv
  <2>2. \A r \in Sessions : Session(r)'
    BY <1>2, OthersStep, OwnStep
  <2>3. Apart' /\ ObservedOnce' /\ ObservedInOrder' /\ Backed'
    BY <1>2, ApartStep, TablesStep
  <2> QED BY <2>1, <2>2, <2>3 DEF StoreInv
<1> QED BY <1>1, <1>2 DEF Next

\* The invariant holds throughout.
LEMMA StoreInvariant == Spec => []StoreInv
BY StoreInit, StoreStep, PTL DEF Spec

\* The sessions and the tables keep their types, whatever is delivered, retried
\* or abandoned (persist.rs).
THEOREM StoreTypes == Spec => []TypeOK
<1>1. StoreInv => TypeOK
  BY DEF StoreInv, Typed
<1> QED BY StoreInvariant, <1>1, PTL

\* However many sessions persist, retry and die, a stream row is its event's
\* only one, its canonical row points at the event's one observation, and both
\* say the same (persist.rs:302, 044_dusk_streamed_ingestion.sql:55).
THEOREM RowsAreBacked == Spec => []Backed
<1>1. StoreInv => Backed
  BY DEF StoreInv
<1> QED BY StoreInvariant, <1>1, PTL

-----------------------------------------------------------------------------
(* The log of EventLog.                                                     *)

\* The log the readers see, and the same read off the stream's own rows.
ReadersLog == {<<o[1], o[3]>> : o \in StreamedEvents}
StreamLog == {<<r[1], r[2]>> : r \in stream}

\* The readers' log is the stream's.
LEMMA LogIsStream == StoreInv => ReadersLog = StreamLog
<1> SUFFICES ASSUME StoreInv PROVE ReadersLog = StreamLog
  OBVIOUS
<1>1. ASSUME NEW r \in stream PROVE \E o \in StreamedEvents : o[1] = r[1] /\ o[3] = r[2]
  <2>1. PICK o \in obs : /\ ObservationOf(r[1]) = {o} /\ o[3] = r[2]
                         /\ {c \in canon : c[1] = r[1]} = {<<r[1], o[2]>>}
    BY DEF StoreInv, Backed
  <2>2. o[1] = r[1] /\ <<o[1], o[2]>> \in canon
    BY <2>1 DEF ObservationOf
  <2> QED BY <2>1, <2>2 DEF StreamedEvents
<1>2. ASSUME NEW o \in StreamedEvents PROVE \E r \in stream : o[1] = r[1] /\ o[3] = r[2]
  <2>1. PICK r \in stream : r[1] = o[1]
    BY DEF StreamedEvents
  <2>2. PICK p \in obs : ObservationOf(r[1]) = {p} /\ p[3] = r[2]
    BY DEF StoreInv, Backed
  <2>3. o = p
    BY <2>1, <2>2 DEF ObservationOf, StreamedEvents
  <2> QED BY <2>1, <2>2, <2>3
<1> QED BY <1>1, <1>2 DEF ReadersLog, StreamLog

\* EventLog's published events are the streamed ones.
LEMMA PublishedIsStreamed ==
    ASSUME StoreInv, NEW e
    PROVE  Log!Published(e) <=> Streamed(e)
<1>1. Log!Published(e) <=> \E f \in Facts : <<e, f>> \in StreamLog
  BY LogIsStream DEF Log!Published, ReadersLog
<1>2. \A r \in stream : r[2] \in Facts
  BY DEF StoreInv, Typed, TypeOK
<1> QED BY <1>1, <1>2 DEF Streamed, StreamLog

\* The same of the next state.
LEMMA LogIsStreamNext == (StoreInv => ReadersLog = StreamLog)'
BY LogIsStream, PTL

\* Committing a projection with a new stream row publishes its event.
LEMMA CommitPublishes ==
    ASSUME StoreInv, StoreInv', NEW s \in Sessions, CommitProjection(s), fresh[s]
    PROVE  Log!Next
<1> DEFINE e == Event(s)
           f == facts[s]
<1>1. e \in Events /\ f \in Facts /\ TxOf[e] = tx[s] /\ Ordinal[e] = idx[s]
  BY InHand DEF CommitProjection, StoreInv
<1>2. ~Log!Published(e)
  BY PublishedIsStreamed DEF CommitProjection, StoreInv, Session
<1>3. ASSUME NEW d \in Earlier[e] PROVE Log!Published(d)
  <2>1. /\ Ordinal[d] < idx[s] /\ Ordinal[d] \in DOMAIN EventsOf[tx[s]]
        /\ EventsOf[tx[s]][Ordinal[d]] = d
    BY <1>1, EarlierPlaces
  <2>2. Streamed(d)
    BY <2>1 DEF CommitProjection, StoreInv, Session
  <2> QED BY <2>2, PublishedIsStreamed
<1>4. StreamLog' = StreamLog \cup {<<e, f>>}
  <2>1. stream' = stream \cup {<<e, f, time[s]>>}
    BY DEF CommitProjection
  <2>2. <<e, f, time[s]>>[1] = e /\ <<e, f, time[s]>>[2] = f
    OBVIOUS
  <2> QED BY <2>1, <2>2 DEF StreamLog
<1>5. ReadersLog' = ReadersLog \cup {<<e, f>>}
  BY <1>4, LogIsStream, LogIsStreamNext
<1> HIDE DEF e, f
<1> QED BY <1>1, <1>2, <1>3, <1>5 DEF Log!Next, Log!Publish, ReadersLog

\* The event tables implement EventLog: their readers see a log that only
\* grows, each event once and after those its transaction emitted before it
\* (044_dusk_streamed_ingestion.sql's streamed_events view, persist.rs:302).
THEOREM StoreImplementsLog == Spec => LogSpec
<1>1. Init => Log!Init
  BY DEF Init, Log!Init, StreamedEvents
<1>2. StoreInv /\ StoreInv' /\ [Next]_vars => [Log!Next]_ReadersLog
  <2> SUFFICES ASSUME StoreInv, StoreInv', [Next]_vars
               PROVE  [Log!Next]_ReadersLog
    OBVIOUS
  <2>1. CASE stream' = stream
    BY <2>1, LogIsStream, LogIsStreamNext DEF StreamLog
  <2>2. ASSUME NEW s \in Sessions, CommitProjection(s), fresh[s]
        PROVE  Log!Next
    BY <2>2, CommitPublishes
  <2>3. stream' = stream \/ \E s \in Sessions : CommitProjection(s) /\ fresh[s]
    BY DEF Next, Deliver, Write, DrawId, InsertObservation, ReuseObservation, Contradicted,
           CommitObservation, UpsertCanonical, LockKey, InsertStream, CommitProjection,
           RecordOrder, NoOrder, Retry, Abandon, tableVars, vars
  <2> QED BY <2>1, <2>2, <2>3
<1> QED
  BY <1>1, <1>2, StoreInvariant, PTL DEF Spec, LogSpec, Log!Spec, ReadersLog

-----------------------------------------------------------------------------
(* The order of a fold.                                                     *)

\* Of two rows of one transaction, the fold's later is the chain's.
LEMMA LaterInTransaction ==
    ASSUME StoreInv, NEW o \in obs, NEW a \in obs, TxOf[o[1]] = TxOf[a[1]], o # a, Later(o, a)
    PROVE  Ordinal[o[1]] > Ordinal[a[1]]
<1>1. o[1] \in Events /\ a[1] \in Events /\ o[1] # a[1]
  BY DEF StoreInv, Typed, TypeOK, ObservedOnce
<1>2. /\ TxOf[a[1]] \in Txs /\ Ordinal[a[1]] \in Nat /\ Ordinal[o[1]] \in Nat
      /\ EventsOf[TxOf[a[1]]][Ordinal[a[1]]] = a[1]
      /\ EventsOf[TxOf[a[1]]][Ordinal[o[1]]] = o[1]
      /\ Ordinal[o[1]] \in DOMAIN EventsOf[TxOf[a[1]]]
  BY <1>1, EventHasPlace
<1>3. a[2] \in Nat /\ o[2] \in Nat /\ o[2] > a[2]
  <2>1. a[2] \in Nat /\ o[2] \in Nat
    BY DEF StoreInv, Typed, TypeOK
  <2> QED BY <2>1, <1>2, EventStoreAssumption DEF Later
<1>4. ASSUME Ordinal[o[1]] < Ordinal[a[1]] PROVE FALSE
  <2>1. o[1] \in Earlier[a[1]]
    BY <1>1, <1>2, <1>4 DEF Earlier, EventsIn
  <2>2. PICK b \in obs : b[1] = o[1] /\ b[2] < a[2]
    BY <2>1 DEF StoreInv, ObservedInOrder
  <2>3. b = o
    BY <2>2 DEF StoreInv, ObservedOnce
  <2> QED BY <1>3, <2>2, <2>3
<1>5. Ordinal[o[1]] # Ordinal[a[1]]
  BY <1>1, <1>2
<1> QED BY <1>2, <1>4, <1>5

\* The row a position's fold lets decide is the last the chain executed of the
\* other slots and of its own transaction, however late and in whatever order the
\* deliveries came, and of its slot's transactions it is of the one observed last
\* (the views' ORDER BY slot, observation_id).
THEOREM FoldFollowsSlots == Spec => []FoldKeepsSlots
<1>1. ASSUME StoreInv PROVE FoldKeepsSlots
  <2> SUFFICES ASSUME NEW o \in StreamedEvents, Decides(o),
                      NEW a \in StreamedEvents \ {o}, PositionOf[a[1]] = PositionOf[o[1]]
               PROVE  OnChainAfter(o[1], a[1]) \/ (Tied(o[1], a[1]) /\ a[2] < o[2])
    BY DEF FoldKeepsSlots
  <2>1. Later(o, a) /\ o \in obs /\ a \in obs /\ o # a
    BY DEF Decides, StreamedEvents
  <2>2. o[1] \in Events /\ a[1] \in Events
    BY <1>1, <2>1 DEF StoreInv, Typed, TypeOK
  <2>3. TxOf[o[1]] \in Txs /\ TxOf[a[1]] \in Txs
    BY <2>2, EventHasPlace
  <2>4. CASE TxOf[o[1]] = TxOf[a[1]]
    BY <1>1, <2>1, <2>4, LaterInTransaction DEF OnChainAfter
  <2>5. CASE SlotOf[TxOf[a[1]]] < SlotOf[TxOf[o[1]]]
    <3>1. ChainIndex[TxOf[a[1]]] < ChainIndex[TxOf[o[1]]]
      BY <2>3, <2>5, EventStoreAssumption
    <3> QED BY <2>3, <3>1, EventStoreAssumption DEF OnChainAfter
  <2>6. CASE Tied(o[1], a[1])
    <3>1. a[2] \in Nat /\ o[2] \in Nat
      BY <1>1, <2>1 DEF StoreInv, Typed, TypeOK
    <3>2. o[2] > a[2]
      BY <2>1, <2>3, <2>6, EventStoreAssumption DEF Later, Tied
    <3> QED BY <2>6, <3>1, <3>2
  <2>7. \/ TxOf[o[1]] = TxOf[a[1]] \/ Tied(o[1], a[1])
        \/ SlotOf[TxOf[a[1]]] < SlotOf[TxOf[o[1]]]
    BY <2>1, <2>3, EventStoreAssumption DEF Later, Tied
  <2> QED BY <2>4, <2>5, <2>6, <2>7
<1>2. StoreInv => FoldKeepsSlots
  BY <1>1
<1> QED BY <1>2, StoreInvariant, PTL
=============================================================================
