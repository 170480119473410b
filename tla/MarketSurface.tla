---------------------------- MODULE MarketSurface -----------------------------
(***************************************************************************)
(* The market surface: what /config, /markets/state and                     *)
(* /markets/state/:market read of the chain, in one process of the API.     *)
(*                                                                          *)
(* A surface lists the markets (discoverMarkets) and puts a payload        *)
(* together for each: a simulated snapshot (currentMarketSnapshot) and      *)
(* simulated capacities (currentMarketCapacities), both of which are        *)
(* cached for five seconds and shared by whoever asks meanwhile.  Requests  *)
(* that come while a surface is read get that surface, unless a notice of   *)
(* the database has come since: it empties the cache and detaches what is   *)
(* being read.  Every answer wears an envelope whose slot covers it.        *)
(*                                                                          *)
(* Each RPC read is answered by a node at any bank at or after the slot it  *)
(* asks for, so banks can go back from read to read.  A payload is the set  *)
(* of banks that it was read from.  A stale stream, a failed query and an   *)
(* RPC error are a request or a read that fails at any time; whoever gets   *)
(* the error may ask again.                                                 *)
(***************************************************************************)
EXTENDS FiniteSetsExt, Integers

CONSTANTS
    None,
    Markets,
    Requests,
    CreatedAt,      \* [Markets -> the slot of its creation]
    MaxSlot,
    MaxNotices

VARIABLES
    stream,         \* the stream's cursor
    notices,        \* notices so far
    discoveryFloor,
    snapshots,      \* [Markets -> the bank of the cached snapshot, or None]
    captures,       \* captureLiveMarketSimulation in flight
    capacities,     \* cached capacities, by market and bank of the snapshot
    quotes,         \* captureMarketCapacities in flight, by the same key
    current,        \* the request whose surface a new one joins
    parts,          \* [Requests -> [market -> stage of its payload]]
    request,        \* [Requests -> where it is]
    served          \* history: the highest bank of a list that was answered

requestVars == <<current, parts, request>>
cacheVars == <<snapshots, captures, capacities, quotes>>
vars == <<stream, notices, discoveryFloor, cacheVars, requestVars, served>>

Slots == 1..MaxSlot
All == "all"            \* the route of a surface; the others name their market

-----------------------------------------------------------------------------

\* deploymentEnvelope, while the stream is live.
Envelope(minimum) == Max({stream, minimum})

\* Any snapshot in the cache will do.
Satisfies_any(bank, floor) == bank # None

\* Cached complete snapshots may only satisfy reads at or after their floor.
Satisfies(bank, floor) == bank # None /\ bank >= floor

\* The bank of a list, and what it leaves of the floor.
Floor(slot) == Max({discoveryFloor, slot})

\* The policy's bank is the floor of the simulation, whether the preview in
\* it succeeds or is rejected.
Simulated(floor) == floor..MaxSlot

\* The hLP and the borrow preview are each at or after the snapshot's bank,
\* or unknown.
Quoted(slot) == SUBSET (slot..MaxSlot)

\* The banks a market's payload shows. A rejected preview hides the hLP values
\* as one that is unknown does.
Projected(bank, banks) == [state |-> bank, quoted |-> banks]

\* The highest bank one market payload read.
PayloadSlot(p) == Max(p.quoted \cup {p.state})

CapacityOf(m, slot) == {c \in capacities : c.market = m /\ c.slot = slot}

\* marketPayload once it has its snapshot: the cached capacities, or a wait.
WithSnapshot(m, bank) ==
    IF CapacityOf(m, bank) # {}
    THEN [at |-> "done",
          payload |-> Projected(bank, (CHOOSE c \in CapacityOf(m, bank) : TRUE).banks)]
    ELSE [at |-> "capacity", key |-> [market |-> m, slot |-> bank]]

\* marketPayload for a reader that found the market at this slot.
Begin(m, slot) ==
    IF Satisfies(snapshots[m], slot)
    THEN WithSnapshot(m, snapshots[m])
    ELSE [at |-> "snapshot", key |-> [market |-> m, floor |-> slot, after |-> notices]]

Staged(stages, at) == {m \in DOMAIN stages : stages[m].at = at}

\* A reader's payloads begin, and with them the reads that nobody waits for yet.
Reading(c, stages) ==
    /\ parts' = [parts EXCEPT ![c] = stages]
    /\ captures' = captures \cup {stages[m].key : m \in Staged(stages, "snapshot")}
    /\ quotes' = quotes \cup {stages[m].key : m \in Staged(stages, "capacity")}

WaitsFor(c, at, k) == k.market \in Staged(parts[c], at) /\ parts[c][k.market].key = k

Nothing == [m \in {} |-> None]
Idle == [at |-> "none"]

Init ==
    /\ stream \in Slots
    /\ notices = 0
    /\ discoveryFloor = 0
    /\ snapshots = [m \in Markets |-> None]
    /\ captures = {} /\ capacities = {} /\ quotes = {}
    /\ current = None
    /\ parts = [c \in Requests |-> Nothing]
    /\ request = [c \in Requests |-> Idle]
    /\ served = 0

StreamMoves ==
    /\ stream < MaxSlot
    /\ stream' = stream + 1
    /\ UNCHANGED <<notices, discoveryFloor, cacheVars, requestVars, served>>

\* invalidateDuskReadCaches: the surface and the snapshots go, and what is
\* being read of them is joined no more. Capacities stay.
Notice ==
    /\ notices < MaxNotices
    /\ notices' = notices + 1
    /\ snapshots' = [m \in Markets |-> None]
    /\ current' = None
    /\ UNCHANGED <<stream, discoveryFloor, captures, capacities, quotes, parts, request, served>>

\* Five seconds have passed.
Expire ==
    /\ \/ \E m \in Markets :
              /\ snapshots[m] # None
              /\ snapshots' = [snapshots EXCEPT ![m] = None]
              /\ UNCHANGED capacities
       \/ \E c \in capacities : capacities' = capacities \ {c} /\ UNCHANGED snapshots
    /\ UNCHANGED <<stream, notices, discoveryFloor, captures, quotes, requestVars, served>>

-----------------------------------------------------------------------------
(* Requests.                                                                *)

\* withDeploymentRead: a live stream. Its cursor does not go back, so the
\* envelope after the read covers the one before. `since` is the highest list
\* answered when this request came.
Ask(c, route) ==
    /\ request[c] = Idle
    /\ request' = [request EXCEPT ![c] = [at |-> "asked", route |-> route, since |-> served]]
    /\ UNCHANGED <<stream, notices, discoveryFloor, cacheVars, current, parts, served>>

\* deploymentSnapshot: a new surface, whose list is asked for at the floor of
\* this moment, or the one that is being read. `begun` is the highest list
\* answered when the surface was begun.
ReadSurface(c) ==
    /\ request[c].at = "asked" /\ request[c].route = All
    /\ IF current = None
       THEN /\ current' = c
            /\ request' = [request EXCEPT ![c] =
                   [at |-> "listing", by |-> c, route |-> All, since |-> @.since,
                    floor |-> discoveryFloor, begun |-> served]]
       ELSE /\ request' = [request EXCEPT ![c] =
                   [at |-> "joined", by |-> current, route |-> All, since |-> @.since]]
            /\ UNCHANGED current
    /\ UNCHANGED <<stream, notices, discoveryFloor, cacheVars, parts, served>>

\* discoverMarkets, then marketPayload for each.
Discovered(c, slot) ==
    /\ request[c].at = "listing"
    /\ slot >= request[c].floor
    /\ discoveryFloor' = Floor(slot)
    /\ request' = [request EXCEPT ![c] =
           [at |-> "reading", by |-> c, route |-> All, since |-> @.since,
            list |-> slot, begun |-> @.begun]]
    /\ Reading(c, [m \in {n \in Markets : CreatedAt[n] <= slot} |-> Begin(m, slot)])
    /\ UNCHANGED <<stream, notices, snapshots, capacities, current, served>>

\* fetchMarket: whatever bank the node is at.
Fetched(c, m, slot) ==
    /\ request[c].at = "asked" /\ request[c].route = m
    /\ slot >= CreatedAt[m]
    /\ request' = [request EXCEPT ![c] =
           [at |-> "reading", by |-> c, route |-> m, since |-> @.since,
            list |-> slot, begun |-> 0]]
    /\ Reading(c, [n \in {m} |-> Begin(n, slot)])
    /\ UNCHANGED <<stream, notices, discoveryFloor, snapshots, capacities, current, served>>

-----------------------------------------------------------------------------
(* Reads of a market.                                                       *)

\* Whoever waits for this snapshot stores it, unless the cache has a newer
\* one, and goes on to the capacities, even for a request that has failed.
Captured(k, bank) ==
    LET m == k.market
        next == WithSnapshot(m, bank)
    IN /\ captures' = captures \ {k}
       /\ snapshots' = IF Satisfies(snapshots[m], bank) THEN snapshots
                       ELSE [snapshots EXCEPT ![m] = bank]
       /\ quotes' = IF next.at = "capacity" THEN quotes \cup {next.key} ELSE quotes
       /\ parts' = [c \in Requests |->
              IF WaitsFor(c, "snapshot", k) THEN [parts[c] EXCEPT ![m] = next] ELSE parts[c]]
       /\ UNCHANGED <<stream, notices, discoveryFloor, capacities, current, request, served>>

CapacitiesRead(k, banks) ==
    /\ quotes' = quotes \ {k}
    /\ capacities' = capacities \cup {[market |-> k.market, slot |-> k.slot, banks |-> banks]}
    /\ parts' = [c \in Requests |->
           IF WaitsFor(c, "capacity", k)
           THEN [parts[c] EXCEPT ![k.market] = [at |-> "done", payload |-> Projected(k.slot, banks)]]
           ELSE parts[c]]
    /\ UNCHANGED <<stream, notices, discoveryFloor, snapshots, captures, current, request, served>>

-----------------------------------------------------------------------------
(* Answers.                                                                 *)

\* Whoever waits for the reads of these requests.
Waiting(readers) ==
    {c \in Requests : request[c].at \in {"listing", "reading", "joined"} /\ request[c].by \in readers}

Ended(readers) ==
    /\ parts' = [c \in Requests |-> IF c \in readers THEN Nothing ELSE parts[c]]
    /\ current' = IF current \in readers THEN None ELSE current

\* The read inside withDeploymentRead is complete.
ReadDone(r) ==
    /\ request[r].at = "reading"
    /\ \A m \in DOMAIN parts[r] : parts[r][m].at = "done"
    /\ LET read(c) == [at |-> "read", by |-> r, route |-> request[r].route,
                       since |-> request[c].since,
                       list |-> request[r].list, begun |-> request[r].begun,
                       payloads |-> [m \in DOMAIN parts[r] |-> parts[r][m].payload]]
       IN request' = [c \in Requests |-> IF c \in Waiting({r}) THEN read(c) ELSE request[c]]
    /\ Ended({r})
    /\ UNCHANGED <<stream, notices, discoveryFloor, cacheVars, served>>

Failed(requests) == request' = [c \in Requests |-> IF c \in requests THEN Idle ELSE request[c]]

\* A list or an account that cannot be read.
ReadFails(r) ==
    /\ \/ request[r].at = "listing"
       \/ request[r].at = "asked" /\ request[r].route # All
    /\ Failed(Waiting({r}) \cup {r})
    /\ Ended({r})
    /\ UNCHANGED <<stream, notices, discoveryFloor, cacheVars, served>>

\* A snapshot that cannot be captured fails every surface that waits for it;
\* their other reads go on.
CaptureFails(k) ==
    LET readers == {c \in Requests : WaitsFor(c, "snapshot", k)}
    IN /\ captures' = captures \ {k}
       /\ Failed(Waiting(readers))
       /\ Ended(readers)
       /\ UNCHANGED <<stream, notices, discoveryFloor, snapshots, capacities, quotes, served>>

\* The envelope after the read, which covers it, or none.
SourceSlot(r) == Max({r.list} \cup {PayloadSlot(r.payloads[m]) : m \in DOMAIN r.payloads})

Answer(c) ==
    LET r == request[c]
    IN /\ r.at = "read"
       /\ request' = [request EXCEPT ![c] =
              [at |-> "answered", by |-> r.by, route |-> r.route, since |-> r.since,
               list |-> r.list, begun |-> r.begun,
               payloads |-> r.payloads, envelope |-> Envelope(SourceSlot(r))]]
       /\ served' = IF r.route = All THEN Max({served, r.list}) ELSE served
       /\ UNCHANGED <<stream, notices, discoveryFloor, cacheVars, current, parts>>

NotCovered(c) ==
    /\ request[c].at = "read"
    /\ Failed({c})
    /\ UNCHANGED <<stream, notices, discoveryFloor, cacheVars, current, parts, served>>

-----------------------------------------------------------------------------

RequestStep(c) ==
    \/ \E route \in Markets \cup {All} : Ask(c, route)
    \/ ReadSurface(c)
    \/ \E slot \in Slots : Discovered(c, slot) \/ \E m \in Markets : Fetched(c, m, slot)
    \/ ReadDone(c) \/ ReadFails(c) \/ Answer(c) \/ NotCovered(c)

Next ==
    \/ StreamMoves \/ Notice \/ Expire
    \/ \E c \in Requests : RequestStep(c)
    \/ \E k \in captures : CaptureFails(k) \/ \E bank \in Simulated(k.floor) : Captured(k, bank)
    \/ \E k \in quotes : \E banks \in Quoted(k.slot) : CapacitiesRead(k, banks)

Spec == Init /\ [][Next]_vars

-----------------------------------------------------------------------------

\* "A lagging RPC replica must therefore never answer below a bank already
\* served" (duskMarketService.ts:743-744): of what was served when the request
\* asked, if it begins the surface that answers it; of what was served when that
\* surface was begun, if it joins one. No payload is older than the list it is
\* for, no preview than its payload, and the envelope covers them all.
MovesForward ==
    \A c \in Requests : LET r == request[c] IN
        r.at = "answered" =>
            /\ r.route = All /\ r.by = c => r.since <= r.list
            /\ r.begun <= r.list /\ r.list <= r.envelope
            /\ \A m \in DOMAIN r.payloads : LET p == r.payloads[m] IN
                   /\ r.list <= p.state /\ PayloadSlot(p) <= r.envelope
                   /\ \A bank \in p.quoted : p.state <= bank

\* The comment without the exception: nor is a request that joins.
NeverBelowServed ==
    \A c \in Requests : LET r == request[c] IN
        r.at = "answered" /\ r.route = All => r.since <= r.list
=============================================================================
