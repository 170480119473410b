---------------------------- MODULE SurfaceProofs ----------------------------
(***************************************************************************)
(* Proofs about what Surfaces puts side by side, for any number of events,  *)
(* clients, markets, swaps, rows, users, hours and steps: the market        *)
(* surface, the two streams of the gRPC server, the readers of the history, *)
(* the value baselines and the portfolio snapshots.  Each has its inductive *)
(* invariant; every step of Surfaces is one of theirs, or leaves their      *)
(* variables as they are.                                                   *)
(***************************************************************************)
EXTENDS Surfaces, FiniteSetTheorems, SequenceTheorems, WellFoundedInduction, TLAPS

(* The market surface.                                                      *)

Banks == 1..MaxSlot

PayloadOK(p, list) ==
    /\ p.state \in Banks /\ list <= p.state
    /\ p.quoted \subseteq p.state..MaxSlot

\* A payload that is being put together reads at or after its list.
StageOK(stage, list) ==
    /\ stage.at \in {"snapshot", "capacity", "done"}
    /\ stage.at = "snapshot" => stage.key.floor \in Banks /\ list <= stage.key.floor
    /\ stage.at = "capacity" => stage.key.slot \in Banks /\ list <= stage.key.slot
    /\ stage.at = "done" => PayloadOK(stage.payload, list)

StagesOK(stages, list) == \A m \in DOMAIN stages : StageOK(stages[m], list)

ListOK(r, floor) ==
    /\ r.list \in Banks /\ r.begun \in Nat /\ r.begun <= r.list
    /\ r.route = "all" => r.list <= floor

PayloadsOK(r) == \A m \in DOMAIN r.payloads : PayloadOK(r.payloads[m], r.list)

\* Request c's own surface, if it is one, is not below what it saw served.
OwnOK(c, r) == r.route = "all" /\ r.by = c => r.since <= r.list

RequestOK(c, r, stages, floor) ==
    /\ r.at = "asked" => r.since \in Nat /\ r.since <= floor
    /\ r.at = "listing" =>
          /\ r.route = "all" /\ r.floor \in Nat
          /\ r.begun \in Nat /\ r.begun <= r.floor
          /\ r.since \in Nat /\ r.since <= r.floor
    /\ r.at = "reading" =>
          /\ ListOK(r, floor) /\ StagesOK(stages, r.list)
          /\ r.route = "all" => r.since <= r.list
    /\ r.at = "read" => ListOK(r, floor) /\ PayloadsOK(r) /\ OwnOK(c, r)
    /\ r.at = "answered" =>
          /\ OwnOK(c, r)
          /\ r.begun <= r.list /\ r.list <= r.envelope
          /\ \A m \in DOMAIN r.payloads : LET p == r.payloads[m] IN
                /\ r.list <= p.state /\ Surface!PayloadSlot(p) <= r.envelope
                /\ \A bank \in p.quoted : p.state <= bank

FloorOK ==
    /\ stream \in Banks
    /\ discoveryFloor \in 0..MaxSlot
    /\ served \in Nat /\ served <= discoveryFloor

CachesOK ==
    /\ \A m \in Markets : snapshots[m] # None => snapshots[m] \in Banks
    /\ \A k \in captures : k.floor \in Banks
    /\ \A c \in capacities : c.banks \subseteq c.slot..MaxSlot

SurfaceInv ==
    /\ FloorOK /\ CachesOK
    /\ DOMAIN snapshots = Markets /\ DOMAIN parts = Requests /\ DOMAIN request = Requests
    /\ \A c \in Requests : RequestOK(c, request[c], parts[c], discoveryFloor)

-----------------------------------------------------------------------------

\* A nonempty set of banks has its highest.
LEMMA HighestBank ==
    ASSUME NEW n \in Nat, NEW S, S \subseteq 0..n, S # {}
    PROVE  Surface!Max(S) \in S /\ \A y \in S : y <= Surface!Max(S)
<1> DEFINE T == {n - x : x \in S}
<1>1. \A x \in S : n - x \in Nat
  <2>1. SUFFICES ASSUME NEW x \in S PROVE n - x \in Nat
    OBVIOUS
  <2>2. x \in 0..n
    OBVIOUS
  <2> QED BY <2>2, SMT
<1>2. T \subseteq Nat /\ T # {}
  BY <1>1
<1>3. PICK t \in T : \A y \in T : <<y, t>> \notin OpToRel(<, Nat)
  BY <1>2, WFMin, NatLessThanWellFounded
<1>4. \A y \in T : ~(y < t)
  BY <1>2, <1>3 DEF OpToRel
<1>5. PICK x \in S : t = n - x
  BY <1>3
<1>6. \A y \in S : x >= y
  <2>1. SUFFICES ASSUME NEW y \in S PROVE x >= y
    OBVIOUS
  <2>2. ~(n - y < n - x)
    BY <1>4, <1>5
  <2> QED BY <2>1, <2>2
<1> HIDE DEF T
<1>7. Surface!Max(S) \in S /\ \A y \in S : Surface!Max(S) >= y
  BY <1>6 DEF Surface!Max
<1>8. \A y \in S : y \in 0..n
  OBVIOUS
<1> QED BY <1>7, <1>8

\* A payload begun for a list reads at or after it.
LEMMA SnapshotServes ==
    ASSUME SurfaceInv, NEW m, NEW bank \in Banks, NEW list \in Nat, list <= bank
    PROVE  StageOK(Surface!WithSnapshot(m, bank), list)
<1>1. CASE Surface!CapacityOf(m, bank) # {}
  <2>1. PICK c : c = CHOOSE d \in Surface!CapacityOf(m, bank) : TRUE
    OBVIOUS
  <2>2. c \in Surface!CapacityOf(m, bank)
    BY <1>1, <2>1
  <2>3. c.banks \subseteq bank..MaxSlot
    BY <2>2 DEF Surface!CapacityOf, SurfaceInv, CachesOK
  <2>4. Surface!WithSnapshot(m, bank) = [at |-> "done", payload |-> [state |-> bank, quoted |-> c.banks]]
    BY <1>1, <2>1 DEF Surface!WithSnapshot, Surface!Projected
  <2> QED BY <2>3, <2>4 DEF StageOK, PayloadOK
<1>2. CASE Surface!CapacityOf(m, bank) = {}
  <2>1. Surface!WithSnapshot(m, bank) = [at |-> "capacity", key |-> [market |-> m, slot |-> bank]]
    BY <1>2 DEF Surface!WithSnapshot
  <2> QED BY <2>1 DEF StageOK
<1> QED BY <1>1, <1>2

LEMMA BeginServes ==
    ASSUME SurfaceInv, NEW m \in Markets, NEW slot \in Banks
    PROVE  /\ StageOK(Surface!Begin(m, slot), slot)
           /\ Surface!Begin(m, slot).at = "snapshot" => Surface!Begin(m, slot).key.floor = slot
<1>1. CASE Surface!Satisfies(snapshots[m], slot)
  <2>1. snapshots[m] \in Banks /\ slot <= snapshots[m] /\ slot \in Nat
    BY <1>1 DEF Surface!Satisfies, SurfaceInv, CachesOK, Banks
  <2>2. Surface!Begin(m, slot) = Surface!WithSnapshot(m, snapshots[m])
    BY <1>1 DEF Surface!Begin
  <2>3. Surface!WithSnapshot(m, snapshots[m]).at # "snapshot"
    BY DEF Surface!WithSnapshot
  <2> QED BY <2>1, <2>2, <2>3, SnapshotServes
<1>2. CASE ~Surface!Satisfies(snapshots[m], slot)
  <2>1. Surface!Begin(m, slot) =
          [at |-> "snapshot", key |-> [market |-> m, floor |-> slot, after |-> notices]]
    BY <1>2 DEF Surface!Begin
  <2>2. slot <= slot
    BY DEF Banks
  <2> QED BY <2>1, <2>2 DEF StageOK
<1> QED BY <1>1, <1>2

\* A request that nothing happens to is as it was: the floor does not go back.
LEMMA RequestKept ==
    ASSUME NEW c, NEW r, NEW stages, NEW floor \in Nat, NEW next \in Nat, floor <= next,
           RequestOK(c, r, stages, floor), MaxSlot \in Nat
    PROVE  RequestOK(c, r, stages, next)
<1>1. ListOK(r, floor) => ListOK(r, next)
  BY DEF ListOK, Banks
<1>2. r.at = "asked" => r.since \in Nat /\ r.since <= next
  BY DEF RequestOK
<1> QED BY <1>1, <1>2 DEF RequestOK, PayloadsOK

-----------------------------------------------------------------------------
(* Steps that leave the requests alone, and steps of one request.           *)

LEMMA SurfaceApart ==
    ASSUME SurfaceInv, SurfaceConstants, Surface!StreamMoves \/ Surface!Notice \/ Surface!Expire
    PROVE  SurfaceInv'
<1>1. UNCHANGED <<discoveryFloor, parts, request, served, captures>>
  BY DEF Surface!StreamMoves, Surface!Notice, Surface!Expire, Surface!cacheVars,
         Surface!requestVars
<1>2. stream' \in Banks
  BY DEF Surface!StreamMoves, Surface!Notice, Surface!Expire, SurfaceInv, FloorOK, Banks,
         SurfaceConstants
<1>3. FloorOK'
  BY <1>1, <1>2 DEF FloorOK, SurfaceInv
<1>4. DOMAIN snapshots' = Markets /\ \A m \in Markets : snapshots'[m] # None => snapshots'[m] \in Banks
  <2>1. CASE snapshots' = snapshots
    BY <2>1 DEF SurfaceInv, CachesOK
  <2>2. CASE snapshots' = [m \in Markets |-> None]
    BY <2>2
  <2>3. ASSUME NEW n \in Markets, snapshots' = [snapshots EXCEPT ![n] = None]
        PROVE  /\ DOMAIN snapshots' = Markets
               /\ \A m \in Markets : snapshots'[m] # None => snapshots'[m] \in Banks
    BY <2>3 DEF SurfaceInv, CachesOK
  <2> QED BY <2>1, <2>2, <2>3
          DEF Surface!StreamMoves, Surface!Notice, Surface!Expire, Surface!cacheVars
<1>5. capacities' \subseteq capacities
  BY DEF Surface!StreamMoves, Surface!Notice, Surface!Expire, Surface!cacheVars
<1>6. CachesOK'
  BY <1>1, <1>4, <1>5 DEF CachesOK, SurfaceInv
<1>7. \A c \in Requests : RequestOK(c, request'[c], parts'[c], discoveryFloor')
  BY <1>1 DEF SurfaceInv
<1> QED BY <1>1, <1>3, <1>4, <1>6, <1>7 DEF SurfaceInv

\* A step that changes one request, or what it puts together.
LEMMA RequestChanges ==
    ASSUME SurfaceInv, SurfaceConstants, NEW c \in Requests, NEW x, NEW stages,
           request' = [request EXCEPT ![c] = x],
           (parts' = parts /\ stages = parts[c]) \/ parts' = [parts EXCEPT ![c] = stages],
           FloorOK', CachesOK', discoveryFloor <= discoveryFloor', DOMAIN snapshots' = Markets,
           RequestOK(c, x, stages, discoveryFloor')
    PROVE  SurfaceInv'
<1>1. discoveryFloor \in Nat /\ discoveryFloor' \in Nat
  BY DEF SurfaceInv, FloorOK, SurfaceConstants
<1>2. ASSUME NEW d \in Requests PROVE RequestOK(d, request'[d], parts'[d], discoveryFloor')
  <2>1. CASE d = c
    BY <2>1 DEF SurfaceInv
  <2>2. CASE d # c
    <3>1. request'[d] = request[d] /\ parts'[d] = parts[d]
      BY <2>2 DEF SurfaceInv
    <3>2. RequestOK(d, request[d], parts[d], discoveryFloor)
      BY DEF SurfaceInv
    <3> QED BY <1>1, <3>1, <3>2, RequestKept DEF SurfaceConstants
  <2> QED BY <2>1, <2>2
<1>3. DOMAIN parts' = Requests /\ DOMAIN request' = Requests
  BY DEF SurfaceInv
<1> QED BY <1>2, <1>3 DEF SurfaceInv

LEMMA AskStep ==
    ASSUME SurfaceInv, SurfaceConstants, NEW c \in Requests, NEW route, Surface!Ask(c, route)
    PROVE  SurfaceInv'
<1>1. PICK x : x = [at |-> "asked", route |-> route, since |-> served]
  OBVIOUS
<1>3. request' = [request EXCEPT ![c] = x]
  BY <1>1 DEF Surface!Ask
<1>2. parts' = parts
  BY DEF Surface!Ask, Surface!requestVars
<1>5. UNCHANGED <<stream, discoveryFloor, snapshots, captures, capacities, served>>
  BY DEF Surface!Ask, Surface!cacheVars
<1>4. RequestOK(c, x, parts[c], discoveryFloor')
  BY <1>1, <1>5 DEF RequestOK, SurfaceInv, FloorOK
<1>6. FloorOK' /\ CachesOK' /\ discoveryFloor <= discoveryFloor' /\ DOMAIN snapshots' = Markets
  BY <1>5 DEF SurfaceInv, FloorOK, CachesOK
<1> QED BY <1>2, <1>3, <1>4, <1>6, RequestChanges

LEMMA ReadSurfaceStep ==
    ASSUME SurfaceInv, SurfaceConstants, NEW c \in Requests, Surface!ReadSurface(c)
    PROVE  SurfaceInv'
<1>1. UNCHANGED <<stream, discoveryFloor, snapshots, captures, capacities, served>> /\ parts' = parts
  BY DEF Surface!ReadSurface, Surface!cacheVars
<1>2. FloorOK' /\ CachesOK' /\ discoveryFloor <= discoveryFloor' /\ DOMAIN snapshots' = Markets
  BY <1>1 DEF SurfaceInv, FloorOK, CachesOK
<1>3. CASE current = None
  <2>1. PICK x : x = [at |-> "listing", by |-> c, route |-> "all", since |-> request[c].since,
                      floor |-> discoveryFloor, begun |-> served]
    OBVIOUS
  <2>2. request' = [request EXCEPT ![c] = x]
    BY <1>3, <2>1 DEF Surface!ReadSurface, Surface!All
  <2>3. RequestOK(c, x, parts[c], discoveryFloor')
    <3>1. request[c].since \in Nat /\ request[c].since <= discoveryFloor
      BY DEF Surface!ReadSurface, SurfaceInv, RequestOK
    <3>2. discoveryFloor \in Nat /\ served \in Nat /\ served <= discoveryFloor
      BY DEF SurfaceInv, FloorOK, SurfaceConstants
    <3> QED BY <1>1, <2>1, <3>1, <3>2 DEF RequestOK
  <2> QED BY <1>1, <1>2, <2>2, <2>3, RequestChanges
<1>4. CASE current # None
  <2>1. PICK x : x = [at |-> "joined", by |-> current, route |-> "all", since |-> request[c].since]
    OBVIOUS
  <2>2. request' = [request EXCEPT ![c] = x]
    BY <1>4, <2>1 DEF Surface!ReadSurface, Surface!All
  <2>3. RequestOK(c, x, parts[c], discoveryFloor')
    BY <1>1, <2>1 DEF RequestOK
  <2> QED BY <1>1, <1>2, <2>2, <2>3, RequestChanges
<1> QED BY <1>3, <1>4

\* The payloads of a list begin.
LEMMA Begins ==
    ASSUME SurfaceInv, SurfaceConstants, NEW c \in Requests, NEW slot \in Banks,
           NEW ms \in SUBSET Markets,
           Surface!Reading(c, [m \in ms |-> Surface!Begin(m, slot)]),
           UNCHANGED <<snapshots, capacities>>
    PROVE  /\ StagesOK([m \in ms |-> Surface!Begin(m, slot)], slot)
           /\ CachesOK'
<1>1. \A m \in ms : /\ StageOK(Surface!Begin(m, slot), slot)
                    /\ Surface!Begin(m, slot).at = "snapshot" => Surface!Begin(m, slot).key.floor = slot
  BY BeginServes
<1>2. PICK stages : stages = [m \in ms |-> Surface!Begin(m, slot)]
  OBVIOUS
<1>3. DOMAIN stages = ms /\ \A m \in ms : stages[m] = Surface!Begin(m, slot)
  BY <1>2
<1>4. StagesOK(stages, slot)
  BY <1>1, <1>3 DEF StagesOK
<1>5. captures' = captures \cup {stages[m].key : m \in Surface!Staged(stages, "snapshot")}
  BY <1>2 DEF Surface!Reading
<1>6. ASSUME NEW k \in captures' PROVE k.floor \in Banks
  <2>1. CASE k \in captures
    BY <2>1 DEF SurfaceInv, CachesOK
  <2>2. CASE k \notin captures
    <3>1. PICK m \in Surface!Staged(stages, "snapshot") : k = stages[m].key
      BY <1>5, <2>2
    <3>2. m \in ms /\ stages[m].at = "snapshot"
      BY <1>3, <3>1 DEF Surface!Staged
    <3> QED BY <1>1, <1>3, <3>1, <3>2
  <2> QED BY <2>1, <2>2
<1>7. CachesOK'
  BY <1>6 DEF SurfaceInv, CachesOK
<1> QED BY <1>2, <1>4, <1>7

LEMMA DiscoveredStep ==
    ASSUME SurfaceInv, SurfaceConstants, NEW c \in Requests, NEW slot \in Banks,
           Surface!Discovered(c, slot)
    PROVE  SurfaceInv'
<1>1. RequestOK(c, request[c], parts[c], discoveryFloor) /\ request[c].at = "listing"
      /\ slot >= request[c].floor
  BY DEF SurfaceInv, Surface!Discovered
<1>2. /\ request[c].since \in Nat /\ request[c].floor \in Nat /\ request[c].since <= request[c].floor
      /\ request[c].begun \in Nat /\ request[c].begun <= request[c].floor
      /\ slot \in Nat /\ slot <= MaxSlot
  BY <1>1 DEF RequestOK, Banks, SurfaceConstants
<1>3. request[c].since <= slot /\ request[c].begun <= slot
  BY <1>1, <1>2
<1>4. /\ discoveryFloor' \in 0..MaxSlot /\ discoveryFloor <= discoveryFloor' /\ slot <= discoveryFloor'
      /\ discoveryFloor \in Nat
  <2>1. discoveryFloor' = Surface!Max({discoveryFloor, slot})
    BY DEF Surface!Discovered, Surface!Floor
  <2>2. {discoveryFloor, slot} \subseteq 0..MaxSlot /\ MaxSlot \in Nat
    BY <1>2 DEF SurfaceInv, FloorOK, SurfaceConstants
  <2>3. PICK both : both = {discoveryFloor, slot}
    OBVIOUS
  <2>4. Surface!Max(both) \in both /\ \A y \in both : y <= Surface!Max(both)
    BY <2>2, <2>3, HighestBank
  <2> QED BY <2>1, <2>2, <2>3, <2>4
<1>5. PICK ms : ms = {n \in Markets : CreatedAt[n] <= slot}
  OBVIOUS
<1>6. PICK stages : stages = [m \in ms |-> Surface!Begin(m, slot)]
  OBVIOUS
<1>7. Surface!Reading(c, [m \in ms |-> Surface!Begin(m, slot)])
      /\ UNCHANGED <<snapshots, capacities, stream, served>>
  BY <1>5 DEF Surface!Discovered
<1>8. StagesOK(stages, slot) /\ CachesOK' /\ DOMAIN snapshots' = Markets
  BY <1>5, <1>6, <1>7, Begins DEF SurfaceInv
<1>9. PICK x : x = [at |-> "reading", by |-> c, route |-> "all", since |-> request[c].since,
                    list |-> slot, begun |-> request[c].begun]
  OBVIOUS
<1>10. request' = [request EXCEPT ![c] = x]
  BY <1>9 DEF Surface!Discovered, Surface!All
<1>11. parts' = [parts EXCEPT ![c] = stages]
  BY <1>6, <1>7 DEF Surface!Reading
<1>12. RequestOK(c, x, stages, discoveryFloor')
  BY <1>2, <1>3, <1>4, <1>8, <1>9 DEF RequestOK, ListOK
<1>13. FloorOK'
  <2>1. served' = served /\ served \in Nat /\ served <= discoveryFloor /\ stream' = stream
        /\ stream \in Banks
    BY <1>7 DEF SurfaceInv, FloorOK
  <2>2. discoveryFloor' \in Nat
    BY <1>4 DEF SurfaceConstants
  <2>3. served' <= discoveryFloor'
    BY <1>4, <2>1, <2>2
  <2> QED BY <1>4, <2>1, <2>3 DEF FloorOK
<1> QED BY <1>4, <1>8, <1>10, <1>11, <1>12, <1>13, RequestChanges

LEMMA FetchedStep ==
    ASSUME SurfaceInv, SurfaceConstants, NEW c \in Requests, NEW m \in Markets, NEW slot \in Banks,
           Surface!Fetched(c, m, slot)
    PROVE  SurfaceInv'
<1>1. PICK stages : stages = [n \in {m} |-> Surface!Begin(n, slot)]
  OBVIOUS
<1>2. UNCHANGED <<snapshots, capacities, stream, served, discoveryFloor>>
  BY DEF Surface!Fetched
<1>3. PICK ms : ms = {m}
  OBVIOUS
<1>4. Surface!Reading(c, [n \in ms |-> Surface!Begin(n, slot)])
  BY <1>3 DEF Surface!Fetched
<1>5. StagesOK(stages, slot) /\ CachesOK' /\ DOMAIN snapshots' = Markets
  BY <1>1, <1>2, <1>3, <1>4, Begins DEF SurfaceInv
<1>6. PICK x : x = [at |-> "reading", by |-> c, route |-> m, since |-> request[c].since,
                    list |-> slot, begun |-> 0]
  OBVIOUS
<1>7. request' = [request EXCEPT ![c] = x]
  BY <1>6 DEF Surface!Fetched
<1>8. parts' = [parts EXCEPT ![c] = stages]
  BY <1>1, <1>3, <1>4 DEF Surface!Reading
<1>9. m # "all" /\ slot \in Nat
  BY DEF SurfaceConstants, Banks
<1>10. RequestOK(c, x, stages, discoveryFloor')
  BY <1>5, <1>6, <1>9 DEF RequestOK, ListOK
<1>11. FloorOK' /\ discoveryFloor <= discoveryFloor'
  BY <1>2 DEF SurfaceInv, FloorOK
<1> QED BY <1>5, <1>7, <1>8, <1>10, <1>11, RequestChanges

-----------------------------------------------------------------------------
(* Reads of a market, which whoever waits for them takes over.              *)

LEMMA StageMoves ==
    ASSUME NEW stages, NEW list, NEW m, NEW stage, StagesOK(stages, list), StageOK(stage, list)
    PROVE  StagesOK([stages EXCEPT ![m] = stage], list)
BY DEF StagesOK

\* A read that ends serves every payload that waits for it.
LEMMA StagesMove ==
    ASSUME SurfaceInv, SurfaceConstants, NEW m, NEW next, NEW waiting,
           parts' = [c \in Requests |-> IF c \in waiting THEN [parts[c] EXCEPT ![m] = next]
                                        ELSE parts[c]],
           \A c \in Requests : c \in waiting /\ request[c].at = "reading" =>
               StageOK(next, request[c].list),
           UNCHANGED <<stream, discoveryFloor, request, served>>,
           CachesOK', DOMAIN snapshots' = Markets
    PROVE  SurfaceInv'
<1>1. ASSUME NEW c \in Requests PROVE RequestOK(c, request'[c], parts'[c], discoveryFloor')
  <2>1. RequestOK(c, request[c], parts[c], discoveryFloor)
    BY DEF SurfaceInv
  <2>2. CASE c \in waiting
    <3>1. parts'[c] = [parts[c] EXCEPT ![m] = next]
      BY <2>2
    <3>2. request[c].at = "reading" => StagesOK(parts'[c], request[c].list)
      BY <2>1, <2>2, <3>1, StageMoves DEF RequestOK
    <3> QED BY <2>1, <3>2 DEF RequestOK
  <2>3. CASE c \notin waiting
    BY <2>1, <2>3
  <2> QED BY <2>2, <2>3
<1>2. FloorOK'
  BY DEF FloorOK, SurfaceInv
<1>3. DOMAIN parts' = Requests /\ DOMAIN request' = Requests
  BY DEF SurfaceInv
<1> QED BY <1>1, <1>2, <1>3 DEF SurfaceInv

LEMMA CapturedStep ==
    ASSUME SurfaceInv, SurfaceConstants, NEW k \in captures, NEW bank \in Surface!Simulated(k.floor),
           Surface!Captured(k, bank)
    PROVE  SurfaceInv'
<1>1. k.floor \in Banks /\ bank \in Banks /\ k.floor <= bank /\ bank \in Nat
  BY DEF SurfaceInv, CachesOK, Surface!Simulated, Banks, SurfaceConstants
<1>2. PICK m, next : m = k.market /\ next = Surface!WithSnapshot(m, bank)
  OBVIOUS
<1>0. PICK waiting : waiting = {c \in Requests : Surface!WaitsFor(c, "snapshot", k)}
  OBVIOUS
<1>3. /\ captures' = captures \ {k}
      /\ snapshots' = IF Surface!Satisfies(snapshots[m], bank) THEN snapshots
                      ELSE [snapshots EXCEPT ![m] = bank]
      /\ parts' = [c \in Requests |-> IF c \in waiting
                                      THEN [parts[c] EXCEPT ![m] = next] ELSE parts[c]]
      /\ UNCHANGED <<stream, discoveryFloor, capacities, request, served>>
  BY <1>0, <1>2 DEF Surface!Captured
<1>4. ASSUME NEW c \in Requests, c \in waiting, request[c].at = "reading"
      PROVE  StageOK(next, request[c].list)
  <2>1. ListOK(request[c], discoveryFloor) /\ StagesOK(parts[c], request[c].list)
    BY <1>4 DEF SurfaceInv, RequestOK
  <2>2. m \in DOMAIN parts[c] /\ parts[c][m].at = "snapshot" /\ parts[c][m].key = k
    BY <1>0, <1>2, <1>4 DEF Surface!WaitsFor, Surface!Staged
  <2>3. request[c].list <= k.floor /\ request[c].list \in Nat
    BY <2>1, <2>2 DEF StagesOK, StageOK, ListOK, Banks
  <2>4. request[c].list <= bank
    BY <1>1, <2>3 DEF Banks
  <2> QED BY <1>1, <1>2, <2>3, <2>4, SnapshotServes
<1>5. CachesOK' /\ DOMAIN snapshots' = Markets
  BY <1>1, <1>3 DEF CachesOK, SurfaceInv
<1> QED BY <1>3, <1>4, <1>5, StagesMove

LEMMA CapacitiesStep ==
    ASSUME SurfaceInv, SurfaceConstants, NEW k, NEW banks \in Surface!Quoted(k.slot),
           Surface!CapacitiesRead(k, banks)
    PROVE  SurfaceInv'
<1>1. PICK m, next : m = k.market /\ next = [at |-> "done", payload |-> [state |-> k.slot, quoted |-> banks]]
  OBVIOUS
<1>0. PICK waiting : waiting = {c \in Requests : Surface!WaitsFor(c, "capacity", k)}
  OBVIOUS
<1>2. /\ capacities' = capacities \cup {[market |-> k.market, slot |-> k.slot, banks |-> banks]}
      /\ parts' = [c \in Requests |-> IF c \in waiting
                                      THEN [parts[c] EXCEPT ![m] = next] ELSE parts[c]]
      /\ UNCHANGED <<stream, discoveryFloor, snapshots, captures, request, served>>
  BY <1>0, <1>1 DEF Surface!CapacitiesRead, Surface!Projected
<1>3. banks \subseteq k.slot..MaxSlot
  BY DEF Surface!Quoted
<1>4. ASSUME NEW c \in Requests, c \in waiting, request[c].at = "reading"
      PROVE  StageOK(next, request[c].list)
  <2>1. ListOK(request[c], discoveryFloor) /\ StagesOK(parts[c], request[c].list)
    BY <1>4 DEF SurfaceInv, RequestOK
  <2>2. m \in DOMAIN parts[c] /\ parts[c][m].at = "capacity" /\ parts[c][m].key = k
    BY <1>0, <1>1, <1>4 DEF Surface!WaitsFor, Surface!Staged
  <2>3. k.slot \in Banks /\ request[c].list <= k.slot
    BY <2>1, <2>2 DEF StagesOK, StageOK
  <2> QED BY <1>1, <1>3, <2>3 DEF StageOK, PayloadOK
<1>5. CachesOK' /\ DOMAIN snapshots' = Markets
  <2>1. ASSUME NEW c \in capacities' PROVE c.banks \subseteq c.slot..MaxSlot
    BY <1>2, <1>3 DEF CachesOK, SurfaceInv
  <2> QED BY <1>2, <2>1 DEF CachesOK, SurfaceInv
<1> QED BY <1>2, <1>4, <1>5, StagesMove

-----------------------------------------------------------------------------
(* Answers.                                                                 *)

\* Reads end: some requests go on as xs, the parts of some are dropped.
LEMMA ReadsEnd ==
    ASSUME SurfaceInv, SurfaceConstants, NEW goers, NEW enders, NEW xs,
           request' = [c \in Requests |-> IF c \in goers THEN xs[c] ELSE request[c]],
           parts' = [c \in Requests |-> IF c \in enders THEN Surface!Nothing ELSE parts[c]],
           \A c \in Requests : c \in goers => \A stages : RequestOK(c, xs[c], stages, discoveryFloor),
           UNCHANGED <<stream, discoveryFloor, snapshots, capacities, served>>,
           captures' \subseteq captures
    PROVE  SurfaceInv'
<1>1. ASSUME NEW c \in Requests PROVE RequestOK(c, request'[c], parts'[c], discoveryFloor')
  <2>1. RequestOK(c, request[c], parts[c], discoveryFloor)
    BY DEF SurfaceInv
  <2>2. DOMAIN Surface!Nothing = {}
    BY DEF Surface!Nothing
  <2>3. RequestOK(c, request[c], Surface!Nothing, discoveryFloor)
    BY <2>1, <2>2 DEF RequestOK, StagesOK
  <2> QED BY <2>1, <2>3
<1>2. FloorOK' /\ CachesOK'
  BY DEF FloorOK, CachesOK, SurfaceInv
<1>3. DOMAIN parts' = Requests /\ DOMAIN request' = Requests /\ DOMAIN snapshots' = Markets
  BY DEF SurfaceInv
<1> QED BY <1>1, <1>2, <1>3 DEF SurfaceInv

LEMMA ReadDoneStep ==
    ASSUME SurfaceInv, SurfaceConstants, NEW r \in Requests, Surface!ReadDone(r)
    PROVE  SurfaceInv'
<1>1. /\ request[r].at = "reading" /\ ListOK(request[r], discoveryFloor)
      /\ StagesOK(parts[r], request[r].list) /\ \A m \in DOMAIN parts[r] : parts[r][m].at = "done"
  BY DEF SurfaceInv, RequestOK, Surface!ReadDone
<1>2. PICK payloads : payloads = [m \in DOMAIN parts[r] |-> parts[r][m].payload]
  OBVIOUS
<1>3. PICK xs : xs = [c \in Requests |->
                        [at |-> "read", by |-> r, route |-> request[r].route,
                         since |-> request[c].since, list |-> request[r].list,
                         begun |-> request[r].begun, payloads |-> payloads]]
  OBVIOUS
<1>4. request' = [c \in Requests |-> IF c \in Surface!Waiting({r}) THEN xs[c] ELSE request[c]]
  BY <1>2, <1>3 DEF Surface!ReadDone
<1>5. \A m \in DOMAIN payloads : PayloadOK(payloads[m], request[r].list)
  BY <1>1, <1>2 DEF StagesOK, StageOK
<1>6. request[r].route = "all" => request[r].since <= request[r].list
  BY <1>1 DEF SurfaceInv, RequestOK
<1>7. ASSUME NEW c \in Requests, NEW stages PROVE RequestOK(c, xs[c], stages, discoveryFloor)
  <2>1. PICK x : x = xs[c]
    OBVIOUS
  <2>2. /\ x.at = "read" /\ x.by = r /\ x.route = request[r].route /\ x.since = request[c].since
        /\ x.list = request[r].list /\ x.begun = request[r].begun /\ x.payloads = payloads
    BY <1>3, <2>1
  <2>3. ListOK(x, discoveryFloor) /\ PayloadsOK(x)
    BY <1>1, <1>5, <2>2 DEF ListOK, PayloadsOK
  <2>4. OwnOK(c, x)
    BY <1>6, <2>2 DEF OwnOK
  <2> QED BY <2>1, <2>2, <2>3, <2>4 DEF RequestOK
<1>8. parts' = [c \in Requests |-> IF c \in {r} THEN Surface!Nothing ELSE parts[c]]
  BY DEF Surface!ReadDone, Surface!Ended
<1>9. UNCHANGED <<stream, discoveryFloor, snapshots, captures, capacities, served>>
  BY DEF Surface!ReadDone, Surface!cacheVars
<1> QED BY <1>4, <1>7, <1>8, <1>9, ReadsEnd

LEMMA IdleIsOK == \A c, stages : RequestOK(c, Surface!Idle, stages, discoveryFloor)
BY DEF RequestOK, Surface!Idle

LEMMA ReadFailsStep ==
    ASSUME SurfaceInv, SurfaceConstants, NEW r \in Requests, Surface!ReadFails(r)
    PROVE  SurfaceInv'
<1>1. UNCHANGED <<stream, discoveryFloor, snapshots, captures, capacities, served>>
  BY DEF Surface!ReadFails, Surface!cacheVars
<1>2. PICK failed : failed = Surface!Waiting({r}) \cup {r}
  OBVIOUS
<1>3. request' = [c \in Requests |-> IF c \in failed THEN Surface!Idle ELSE request[c]]
  BY <1>2 DEF Surface!ReadFails, Surface!Failed
<1>4. parts' = [c \in Requests |-> IF c \in {r} THEN Surface!Nothing ELSE parts[c]]
  BY DEF Surface!ReadFails, Surface!Ended
<1>5. PICK xs : xs = [c \in Requests |-> Surface!Idle]
  OBVIOUS
<1>6. request' = [c \in Requests |-> IF c \in failed THEN xs[c] ELSE request[c]]
  BY <1>3, <1>5
<1>7. \A c \in Requests : c \in failed => \A stages : RequestOK(c, xs[c], stages, discoveryFloor)
  BY <1>5, IdleIsOK
<1> QED BY <1>1, <1>4, <1>6, <1>7, ReadsEnd

LEMMA CaptureFailsStep ==
    ASSUME SurfaceInv, SurfaceConstants, NEW k, Surface!CaptureFails(k)
    PROVE  SurfaceInv'
<1>1. UNCHANGED <<stream, discoveryFloor, snapshots, capacities, served>> /\ captures' \subseteq captures
  BY DEF Surface!CaptureFails
<1>2. PICK readers : readers = {c \in Requests : Surface!WaitsFor(c, "snapshot", k)}
  OBVIOUS
<1>3. Surface!Failed(Surface!Waiting(readers)) /\ Surface!Ended(readers)
  BY <1>2 DEF Surface!CaptureFails
<1>4. request' = [c \in Requests |-> IF c \in Surface!Waiting(readers) THEN Surface!Idle ELSE request[c]]
  BY <1>3 DEF Surface!Failed
<1>5. parts' = [c \in Requests |-> IF c \in readers THEN Surface!Nothing ELSE parts[c]]
  BY <1>3 DEF Surface!Ended
<1>6. PICK xs : xs = [c \in Requests |-> Surface!Idle]
  OBVIOUS
<1>7. request' = [c \in Requests |-> IF c \in Surface!Waiting(readers) THEN xs[c] ELSE request[c]]
  BY <1>4, <1>6
<1>8. \A c \in Requests : c \in Surface!Waiting(readers) =>
        \A stages : RequestOK(c, xs[c], stages, discoveryFloor)
  BY <1>6, IdleIsOK
<1> QED BY <1>1, <1>5, <1>7, <1>8, ReadsEnd

LEMMA NotCoveredStep ==
    ASSUME SurfaceInv, SurfaceConstants, NEW c \in Requests, Surface!NotCovered(c)
    PROVE  SurfaceInv'
<1>1. UNCHANGED <<stream, discoveryFloor, snapshots, captures, capacities, served>> /\ parts' = parts
  BY DEF Surface!NotCovered, Surface!cacheVars
<1>2. request' = [d \in Requests |-> IF d \in {c} THEN Surface!Idle ELSE request[d]]
  BY DEF Surface!NotCovered, Surface!Failed
<1>3. ASSUME NEW d \in Requests PROVE RequestOK(d, request'[d], parts'[d], discoveryFloor')
  <2>1. RequestOK(d, request[d], parts[d], discoveryFloor)
    BY DEF SurfaceInv
  <2> QED BY <1>1, <1>2, <2>1, IdleIsOK
<1>4. FloorOK' /\ CachesOK'
  BY <1>1 DEF FloorOK, CachesOK, SurfaceInv
<1> QED BY <1>1, <1>2, <1>3, <1>4 DEF SurfaceInv

\* The highest bank of a payload, and of an answer.
LEMMA HighestOfPayload ==
    ASSUME SurfaceConstants, NEW p, NEW list, PayloadOK(p, list)
    PROVE  Surface!PayloadSlot(p) \in 0..MaxSlot
<1>1. PICK banks : banks = p.quoted \cup {p.state}
  OBVIOUS
<1>2. p.state \in 1..MaxSlot /\ MaxSlot \in Nat /\ p.quoted \subseteq p.state..MaxSlot
  BY DEF PayloadOK, Banks, SurfaceConstants
<1>3. banks \subseteq 0..MaxSlot /\ banks # {}
  BY <1>1, <1>2
<1> QED BY <1>1, <1>2, <1>3, HighestBank DEF Surface!PayloadSlot

LEMMA EnvelopeCovers ==
    ASSUME SurfaceInv, SurfaceConstants, NEW r, ListOK(r, discoveryFloor), PayloadsOK(r)
    PROVE  /\ r.list <= Surface!Envelope(Surface!SourceSlot(r))
           /\ \A m \in DOMAIN r.payloads :
                 Surface!PayloadSlot(r.payloads[m]) <= Surface!Envelope(Surface!SourceSlot(r))
<1>1. PICK slots : slots = {r.list} \cup {Surface!PayloadSlot(r.payloads[m]) : m \in DOMAIN r.payloads}
  OBVIOUS
<1>2. r.list \in 0..MaxSlot /\ MaxSlot \in Nat /\ stream \in 0..MaxSlot
  BY DEF ListOK, Banks, SurfaceConstants, SurfaceInv, FloorOK
<1>3. \A m \in DOMAIN r.payloads : Surface!PayloadSlot(r.payloads[m]) \in 0..MaxSlot
  BY HighestOfPayload DEF PayloadsOK
<1>4. slots \subseteq 0..MaxSlot /\ slots # {}
  BY <1>1, <1>2, <1>3
<1>5. PICK source : source = Surface!Max(slots)
  OBVIOUS
<1>6. source \in slots /\ \A y \in slots : y <= source
  BY <1>2, <1>4, <1>5, HighestBank
<1>7. PICK both : both = {stream, source}
  OBVIOUS
<1>8. both \subseteq 0..MaxSlot /\ both # {}
  BY <1>2, <1>4, <1>6, <1>7
<1>9. PICK envelope : envelope = Surface!Max(both)
  OBVIOUS
<1>10. envelope \in both /\ \A y \in both : y <= envelope
  BY <1>2, <1>8, <1>9, HighestBank
<1>11. envelope = Surface!Envelope(Surface!SourceSlot(r))
  BY <1>1, <1>5, <1>7, <1>9 DEF Surface!Envelope, Surface!SourceSlot
<1>12. source <= envelope /\ source \in Nat /\ envelope \in Nat
  BY <1>4, <1>6, <1>7, <1>8, <1>10
<1>13. \A y \in slots : y <= envelope
  <2>1. SUFFICES ASSUME NEW y \in slots PROVE y <= envelope
    OBVIOUS
  <2>2. y \in Nat /\ y <= source
    BY <1>4, <1>6
  <2> QED BY <1>12, <2>2
<1> QED BY <1>1, <1>11, <1>13

LEMMA AnswerStep ==
    ASSUME SurfaceInv, SurfaceConstants, NEW c \in Requests, Surface!Answer(c)
    PROVE  SurfaceInv'
<1>1. PICK r : r = request[c]
  OBVIOUS
<1>2. r.at = "read" /\ ListOK(r, discoveryFloor) /\ PayloadsOK(r) /\ OwnOK(c, r)
  BY <1>1 DEF Surface!Answer, SurfaceInv, RequestOK
<1>3. PICK envelope : envelope = Surface!Envelope(Surface!SourceSlot(r))
  OBVIOUS
<1>4. r.list <= envelope /\ \A m \in DOMAIN r.payloads : Surface!PayloadSlot(r.payloads[m]) <= envelope
  BY <1>2, <1>3, EnvelopeCovers
<1>5. PICK x : x = [at |-> "answered", by |-> r.by, route |-> r.route, since |-> r.since,
                    list |-> r.list, begun |-> r.begun, payloads |-> r.payloads, envelope |-> envelope]
  OBVIOUS
<1>6. /\ request' = [request EXCEPT ![c] = x] /\ parts' = parts
      /\ UNCHANGED <<stream, discoveryFloor, snapshots, captures, capacities>>
      /\ served' = IF r.route = "all" THEN Surface!Max({served, r.list}) ELSE served
  BY <1>1, <1>3, <1>5 DEF Surface!Answer, Surface!cacheVars, Surface!All
<1>7. \A m \in DOMAIN r.payloads :
         r.list <= r.payloads[m].state /\ \A bank \in r.payloads[m].quoted : r.payloads[m].state <= bank
  BY <1>2 DEF PayloadsOK, PayloadOK
<1>8. RequestOK(c, x, parts[c], discoveryFloor')
  BY <1>2, <1>4, <1>5, <1>7 DEF RequestOK, ListOK, OwnOK
<1>9. served' \in Nat /\ served' <= discoveryFloor
  <2>1. served \in Nat /\ served <= discoveryFloor /\ discoveryFloor \in 0..MaxSlot /\ MaxSlot \in Nat
    BY DEF SurfaceInv, FloorOK, SurfaceConstants
  <2>2. CASE r.route = "all"
    <3>1. r.list \in Nat /\ r.list <= discoveryFloor
      BY <1>2, <2>2 DEF ListOK, Banks
    <3>2. PICK both : both = {served, r.list}
      OBVIOUS
    <3>3. both \subseteq 0..MaxSlot /\ both # {}
      BY <2>1, <3>1, <3>2
    <3>4. Surface!Max(both) \in both
      BY <2>1, <3>3, HighestBank
    <3> QED BY <1>6, <2>1, <2>2, <3>1, <3>2, <3>4
  <2> QED BY <1>6, <2>1, <2>2
<1>10. FloorOK' /\ CachesOK' /\ discoveryFloor <= discoveryFloor' /\ DOMAIN snapshots' = Markets
  BY <1>6, <1>9 DEF FloorOK, CachesOK, SurfaceInv
<1> QED BY <1>6, <1>8, <1>10, RequestChanges

-----------------------------------------------------------------------------

LEMMA SurfaceInit == ASSUME SurfaceConstants, Surface!Init PROVE SurfaceInv
<1>1. FloorOK /\ CachesOK
  BY DEF FloorOK, CachesOK, Surface!Init, Surface!Slots, Banks, SurfaceConstants
<1>2. \A c \in Requests : RequestOK(c, request[c], parts[c], discoveryFloor)
  BY IdleIsOK DEF Surface!Init
<1> QED BY <1>1, <1>2 DEF SurfaceInv, Surface!Init

LEMMA SurfaceNext ==
    ASSUME SurfaceConstants, SurfaceInv, [Surface!Next]_Surface!vars
    PROVE  SurfaceInv'
<1>1. ASSUME NEW c \in Requests, Surface!RequestStep(c) PROVE SurfaceInv'
  <2>1. Surface!Slots = Banks
    BY DEF Surface!Slots, Banks
  <2> QED BY <1>1, <2>1, AskStep, ReadSurfaceStep, DiscoveredStep, FetchedStep, ReadDoneStep,
             ReadFailsStep, AnswerStep, NotCoveredStep DEF Surface!RequestStep
<1>2. ASSUME NEW k \in captures,
             Surface!CaptureFails(k) \/ \E bank \in Surface!Simulated(k.floor) : Surface!Captured(k, bank)
      PROVE  SurfaceInv'
  BY <1>2, CaptureFailsStep, CapturedStep
<1>3. ASSUME NEW k \in quotes, \E banks \in Surface!Quoted(k.slot) : Surface!CapacitiesRead(k, banks)
      PROVE  SurfaceInv'
  BY <1>3, CapacitiesStep
<1>4. ASSUME UNCHANGED Surface!vars PROVE SurfaceInv'
  BY <1>4 DEF Surface!vars, Surface!cacheVars, Surface!requestVars, SurfaceInv, FloorOK,
              CachesOK
<1> QED BY <1>1, <1>2, <1>3, <1>4, SurfaceApart DEF Surface!Next

\* A step of Surfaces is a step of the market surface or leaves it alone.
LEMMA SurfaceSteps == [Next]_vars => [Surface!Next]_Surface!vars
BY DEF Next, HistoryStep, SurfaceStep, FeedStep, SwapStep, MarketStep, PortfolioStep, vars, surfaceVars, Surface!vars,
       Surface!cacheVars, Surface!requestVars

\* A request that begins a surface is not answered below a bank that was served when
\* it asked, one that joins a surface not below a bank that was served when that was
\* begun; no payload is older than its list, and the envelope covers all that was read
\* (duskMarketService.ts), whatever nodes answer, notices empty and reads fail.
THEOREM SurfaceMovesForward == Spec => []MovesForward
<1>1. Init => SurfaceInv
  BY SurfaceInit, SurfaceAssumption DEF Init
<1>2. SurfaceInv /\ [Next]_vars => SurfaceInv'
  BY SurfaceSteps, SurfaceNext, SurfaceAssumption
<1>3. SurfaceInv => MovesForward
  BY DEF SurfaceInv, RequestOK, OwnOK, MovesForward, Surface!MovesForward, Surface!All
<1> QED BY <1>1, <1>2, <1>3, PTL DEF Spec

-----------------------------------------------------------------------------
(* The change stream of the gRPC server (GrpcStream), over the same commits. *)

\* Where a stream is, what it is about to send, and the notice it last took.
StreamStates ==
    [at: {"new", "opened", "looked", "asking", "reading", "waiting", "batching", "looking",
          "closed"},
     unseen: BOOLEAN, generation: Nat, kind: {None, "resync", "change", "heartbeat"},
     slot: Nat, identity: {None, 1, 2}]

GrpcTypeOK ==
    /\ commits \in 0..Len(SlotOf)
    /\ session \in {"resting", "connecting", "listening", "dead"}
    /\ unheard \in Seq(DOMAIN SlotOf)
    /\ notice \in [ready: BOOLEAN, generation: Nat, slot: Nat]
    /\ release \in {1, 2}
    /\ shared \in {None} \cup [failed: BOOLEAN, slot: Nat, release: {None, 1, 2}]
    /\ watcher \in [Streams -> StreamStates]
    /\ owed \in [Streams -> SUBSET (DOMAIN SlotOf)]

\* The channel says ready while a session listens, or has died unnoticed.
ChannelOK == notice.ready <=> session \in {"listening", "dead"}

\* Of a connection that is being made a stream can only be at its first frame;
\* what a stream is about to send is known where it is looked at.
TurnOK(s) ==
    /\ watcher[s].at \notin {"new", "opened", "closed"} =>
          /\ watcher[s].generation <= notice.generation
          /\ session = "connecting" /\ watcher[s].generation = notice.generation =>
                watcher[s].kind = "resync"
    /\ watcher[s].at = "looking" => watcher[s].kind = "heartbeat"
    /\ watcher[s].at = "looked" => watcher[s].kind # None
    /\ watcher[s].at = "batching" => watcher[s].kind = "change"
    /\ watcher[s].at = "waiting" => watcher[s].kind = None
    /\ watcher[s].at \in {"new", "closed"} => owed[s] = {}

GrpcInv == GrpcTypeOK /\ ChannelOK /\ (\A s \in Streams : TurnOK(s)) /\ Grpc!NoticesReach

-----------------------------------------------------------------------------

\* What the operators of the community modules return here.
LEMMA MaxOfTwo ==
    ASSUME NEW a \in Nat, NEW b \in Nat
    PROVE  Grpc!Max({a, b}) \in Nat /\ Grpc!Max({a, b}) >= a /\ Grpc!Max({a, b}) >= b
<1>1. \E m \in {a, b} : \A n \in {a, b} : m >= n
  <2>1. CASE a >= b
    BY <2>1
  <2>2. CASE b >= a
    BY <2>2
  <2> QED
    BY <2>1, <2>2
<1> QED
  BY <1>1 DEF Grpc!Max

\* A notice that is appended is there, and those before it stay.
LEMMA Appended ==
    ASSUME NEW box \in Seq(DOMAIN SlotOf), NEW n \in DOMAIN SlotOf
    PROVE  /\ Append(box, n) \in Seq(DOMAIN SlotOf)
           /\ n \in Grpc!Range(Append(box, n))
           /\ Grpc!Range(box) \subseteq Grpc!Range(Append(box, n))
<1>1. /\ DOMAIN Append(box, n) = 1..(Len(box) + 1) /\ Append(box, n)[Len(box) + 1] = n
      /\ \A i \in DOMAIN box : i \in DOMAIN Append(box, n) /\ Append(box, n)[i] = box[i]
      /\ Len(box) \in Nat /\ Append(box, n) \in Seq(DOMAIN SlotOf)
  OBVIOUS
<1>2. Len(box) + 1 \in DOMAIN Append(box, n)
  BY <1>1
<1> QED
  BY <1>1, <1>2 DEF Grpc!Range

\* Only the first notice leaves with Tail.
LEMMA Received ==
    ASSUME NEW box \in Seq(DOMAIN SlotOf), box # <<>>
    PROVE  /\ Tail(box) \in Seq(DOMAIN SlotOf) /\ Head(box) \in DOMAIN SlotOf
           /\ \A n \in Grpc!Range(box) : n = Head(box) \/ n \in Grpc!Range(Tail(box))
<1>1. /\ Tail(box) \in Seq(DOMAIN SlotOf) /\ Head(box) \in DOMAIN SlotOf /\ Head(box) = box[1]
      /\ DOMAIN box = 1..Len(box) /\ Len(box) \in Nat
      /\ DOMAIN Tail(box) = 1..(Len(box) - 1)
      /\ \A i \in DOMAIN Tail(box) : Tail(box)[i] = box[i + 1]
  OBVIOUS
<1>2. ASSUME NEW i \in DOMAIN box, i # 1
      PROVE  i - 1 \in DOMAIN Tail(box) /\ Tail(box)[i - 1] = box[i]
  BY <1>1, <1>2
<1>3. ASSUME NEW n \in Grpc!Range(box), n # Head(box) PROVE n \in Grpc!Range(Tail(box))
  <2>1. PICK i \in DOMAIN box : n = box[i]
    BY DEF Grpc!Range
  <2>2. i - 1 \in DOMAIN Tail(box) /\ Tail(box)[i - 1] = n
    BY <1>1, <1>2, <1>3, <2>1
  <2> QED
    BY <2>2 DEF Grpc!Range
<1> QED
  BY <1>1, <1>3

\* The numbers of the model.
LEMMA GrpcNumbers ==
    ASSUME GrpcTypeOK
    PROVE  /\ \A n \in DOMAIN SlotOf : SlotOf[n] \in Nat \ {0}
           /\ Len(SlotOf) \in Nat /\ DOMAIN SlotOf = 1..Len(SlotOf)
           /\ commits \in Nat /\ notice.generation \in Nat /\ notice.slot \in Nat
           /\ \A s \in Streams : watcher[s].generation \in Nat /\ watcher[s].slot \in Nat
BY FeedAssumption DEF GrpcTypeOK, StreamStates

\* An end is a state.
LEMMA ClosedType == Grpc!Closed \in StreamStates
BY DEF Grpc!Closed, StreamStates

\* A step of one stream keeps the types.
LEMMA TurnTypes ==
    ASSUME GrpcTypeOK, NEW s \in Streams, NEW r \in StreamStates, Grpc!Becomes(s, r),
           UNCHANGED <<Grpc!listener, release>>,
           shared' \in {None} \cup [failed: BOOLEAN, slot: Nat, release: {None, 1, 2}],
           owed' = owed \/ \E o \in SUBSET owed[s] : owed' = [owed EXCEPT ![s] = o]
    PROVE  GrpcTypeOK'
<1>1. watcher' \in [Streams -> StreamStates]
  BY DEF Grpc!Becomes, GrpcTypeOK
<1>2. owed' \in [Streams -> SUBSET (DOMAIN SlotOf)]
  BY DEF GrpcTypeOK
<1> QED
  BY <1>1, <1>2 DEF GrpcTypeOK, Grpc!listener


\* A frame or an end: what the stream owes shrinks, and it waits or has closed.
LEMMA GrpcTold ==
    ASSUME GrpcTypeOK, NEW s \in Streams, NEW seen, Grpc!Tell(s, seen),
           seen.release \in {None, 1, 2}
    PROVE  \E r \in StreamStates :
              /\ Grpc!Becomes(s, r)
              /\ owed' = owed \/ \E o \in SUBSET owed[s] : owed' = [owed EXCEPT ![s] = o]
              /\ \/ /\ Grpc!Continues(s, seen)
                    /\ r = [watcher[s] EXCEPT !.at = "waiting", !.kind = None,
                                             !.identity = seen.release]
                    /\ owed' = [owed EXCEPT ![s] = @ \ Grpc!CoveredBy(s)]
                 \/ r = Grpc!Closed /\ owed' = [owed EXCEPT ![s] = {}]
<1>1. CASE Grpc!Continues(s, seen)
  <2> DEFINE r == [watcher[s] EXCEPT !.at = "waiting", !.kind = None, !.identity = seen.release]
  <2>1. r \in StreamStates
    <3>1. watcher[s] \in StreamStates
      BY DEF GrpcTypeOK
    <3> QED
      BY <3>1 DEF StreamStates
  <2>2. Grpc!Becomes(s, r) /\ owed' = [owed EXCEPT ![s] = owed[s] \ Grpc!CoveredBy(s)]
    BY <1>1 DEF Grpc!Tell
  <2>3. owed[s] \ Grpc!CoveredBy(s) \in SUBSET owed[s]
    OBVIOUS
  <2> HIDE DEF StreamStates
  <2> QED
    BY <1>1, <2>1, <2>2, <2>3
<1>2. CASE ~Grpc!Continues(s, seen)
  <2>1. Grpc!Becomes(s, Grpc!Closed) /\ owed' = [owed EXCEPT ![s] = {}] /\ {} \in SUBSET owed[s]
    BY <1>2 DEF Grpc!Tell
  <2> QED
    BY <2>1, ClosedType
<1> QED
  BY <1>1, <1>2

\* What an observation may be.
LEMMA Observed ==
    ASSUME GrpcTypeOK, NEW s \in Streams, NEW seen \in Grpc!Observations(watcher[s].slot)
    PROVE  /\ seen \in [failed: BOOLEAN, slot: Nat, release: {None, 1, 2}]
           /\ seen.failed \/ seen.slot >= watcher[s].slot
<1>1. watcher[s].slot \in Nat /\ release \in {1, 2}
  BY GrpcNumbers DEF GrpcTypeOK
<1>2. CASE seen = [failed |-> TRUE, slot |-> 0, release |-> None]
  BY <1>2
<1>3. ASSUME NEW n \in Grpc!Max({watcher[s].slot, 1})..Grpc!Max(Grpc!Range(SlotOf)),
             seen = [failed |-> FALSE, slot |-> n, release |-> release]
      PROVE  /\ seen \in [failed: BOOLEAN, slot: Nat, release: {None, 1, 2}]
             /\ seen.failed \/ seen.slot >= watcher[s].slot
  <2>1. n \in Int /\ n >= Grpc!Max({watcher[s].slot, 1})
    BY <1>3
  <2>2. Grpc!Max({watcher[s].slot, 1}) \in Nat /\ Grpc!Max({watcher[s].slot, 1}) >= watcher[s].slot
    BY <1>1, MaxOfTwo
  <2>3. n \in Nat /\ n >= watcher[s].slot
    BY <1>1, <2>1, <2>2
  <2> QED
    BY <1>1, <1>3, <2>3
<1> QED
  BY <1>2, <1>3 DEF Grpc!Observations

\* A value sent to the channel keeps the types.
LEMMA SendTypes ==
    ASSUME GrpcTypeOK, NEW ready \in BOOLEAN, NEW g \in Nat, NEW n \in Nat, Grpc!Send(ready, g,
    n),
           session' \in {"resting", "connecting", "listening", "dead"},
           unheard' \in Seq(DOMAIN SlotOf)
    PROVE  GrpcTypeOK'
<1>1. watcher' \in [Streams -> StreamStates]
  <2> SUFFICES ASSUME NEW s \in Streams
               PROVE  [watcher[s] EXCEPT !.unseen = TRUE] \in StreamStates
    BY DEF Grpc!Send
  <2>1. watcher[s] \in StreamStates
    BY DEF GrpcTypeOK
  <2> QED
    BY <2>1 DEF StreamStates
<1>2. notice' \in [ready: BOOLEAN, generation: Nat, slot: Nat]
  BY DEF Grpc!Send
<1> QED
  BY <1>1, <1>2 DEF Grpc!Send, GrpcTypeOK

\* What a stream's own steps make of its state.
Moved(s, r) ==
    \/ watcher[s].at = "new" /\ notice.ready /\ r = [watcher[s] EXCEPT !.at = "opened"]
    \/ watcher[s].at = "opened" /\ r = [watcher[s] EXCEPT !.at = "looked", !.kind = "resync",
                                                        !.generation = notice.generation]
    \/ watcher[s].at = "looking" /\ r = [watcher[s] EXCEPT
            !.at = "looked",
            !.kind = IF @ = "heartbeat" /\ watcher[s].unseen THEN "change" ELSE @]
    \/ watcher[s].at = "asking" /\ r = [watcher[s] EXCEPT !.at = "reading"]
    \/ watcher[s].at = "waiting" /\ watcher[s].unseen
       /\ r = [watcher[s] EXCEPT !.at = "batching", !.unseen = FALSE, !.kind = "change"]
    \/ watcher[s].at = "batching" /\ r = [watcher[s] EXCEPT !.at = "looked"]
    \/ watcher[s].at = "waiting" /\ r = [watcher[s] EXCEPT !.at = "looking", !.kind = "heartbeat"]

\* What such a step does to the stream's fields.
MovedFields(s, r) ==
    /\ r.slot = watcher[s].slot
    /\ \/ /\ watcher[s].at = "new" /\ r.at = "opened" /\ r.unseen = watcher[s].unseen
          /\ r.kind = watcher[s].kind /\ r.generation = watcher[s].generation
       \/ /\ watcher[s].at = "opened" /\ r.at = "looked" /\ r.unseen = watcher[s].unseen
          /\ r.kind = "resync" /\ r.generation = notice.generation
       \/ /\ watcher[s].at = "looking" /\ r.at = "looked" /\ r.unseen = watcher[s].unseen
          /\ r.kind = (IF watcher[s].kind = "heartbeat" /\ watcher[s].unseen THEN "change"
                       ELSE watcher[s].kind)
          /\ r.generation = watcher[s].generation
       \/ /\ watcher[s].at = "asking" /\ r.at = "reading" /\ r.unseen = watcher[s].unseen
          /\ r.kind = watcher[s].kind /\ r.generation = watcher[s].generation
       \/ /\ watcher[s].at = "waiting" /\ watcher[s].unseen /\ r.at = "batching" /\ ~r.unseen
          /\ r.kind = "change" /\ r.generation = watcher[s].generation
       \/ /\ watcher[s].at = "batching" /\ r.at = "looked" /\ r.unseen = watcher[s].unseen
          /\ r.kind = watcher[s].kind /\ r.generation = watcher[s].generation
       \/ /\ watcher[s].at = "waiting" /\ r.at = "looking" /\ r.unseen = watcher[s].unseen
          /\ r.kind = "heartbeat" /\ r.generation = watcher[s].generation

LEMMA MovesFields ==
    ASSUME NEW s, NEW r, watcher[s] \in StreamStates, Moved(s, r)
    PROVE  MovedFields(s, r)
<1>1. CASE watcher[s].at = "new"
  BY <1>1 DEF Moved, MovedFields, StreamStates
<1>2. CASE watcher[s].at = "opened"
  BY <1>2 DEF Moved, MovedFields, StreamStates
<1>3. CASE watcher[s].at = "looking"
  BY <1>3 DEF Moved, MovedFields, StreamStates
<1>4. CASE watcher[s].at \in {"asking", "batching"}
  BY <1>4 DEF Moved, MovedFields, StreamStates
<1>5. CASE watcher[s].at = "waiting"
  BY <1>5 DEF Moved, MovedFields, StreamStates
<1> QED BY <1>1, <1>2, <1>3, <1>4, <1>5 DEF Moved

\* What its look at the channel does.
Taken(s, r) ==
    /\ watcher[s].at = "looked" /\ Grpc!Continuous(watcher[s].generation)
    /\ r = [watcher[s] EXCEPT !.at = "asking", !.unseen = FALSE,
                             !.slot = IF watcher[s].kind = "change" THEN notice.slot ELSE 0]
    /\ owed' = IF Grpc!Hides(s) THEN [owed EXCEPT ![s] = @ \cap Grpc!Range(unheard)] ELSE owed

\* Its frame.
Sent(s, r, seen) ==
    /\ watcher[s].at \in {"asking", "reading"} /\ Grpc!Continues(s, seen)
    /\ r = [watcher[s] EXCEPT !.at = "waiting", !.kind = None, !.identity = seen.release]
    /\ owed' = [owed EXCEPT ![s] = @ \ Grpc!CoveredBy(s)]

\* The steps of a stream.
Turn(s) ==
    \/ Grpc!Subscribe(s) \/ Grpc!Start(s) \/ Grpc!Look(s) \/ Grpc!Take(s)
    \/ Grpc!Ask(s) \/ Grpc!Read(s)
    \/ Grpc!Notified(s) \/ Grpc!Batched(s) \/ Grpc!Tick(s) \/ Grpc!Leave(s)

\* They are sorted here by what they do to it.
LEMMA StreamSteps ==
    ASSUME GrpcTypeOK, NEW s \in Streams,
           Turn(s)
    PROVE  /\ UNCHANGED <<Grpc!listener, release>>
           /\ shared' \in {None} \cup [failed: BOOLEAN, slot: Nat, release: {None, 1, 2}]
           /\ owed' = owed \/ \E o \in SUBSET owed[s] : owed' = [owed EXCEPT ![s] = o]
           /\ \E r \in StreamStates :
                 /\ Grpc!Becomes(s, r)
                 /\ \/ Moved(s, r) /\ owed' = owed
                    \/ Taken(s, r)
                    \/ \E seen : Sent(s, r, seen)
                    \/ r = Grpc!Closed /\ owed' = [owed EXCEPT ![s] = {}]
<1>0. watcher[s] \in StreamStates /\ notice.generation \in Nat /\ notice.slot \in Nat
      /\ owed \in [Streams -> SUBSET (DOMAIN SlotOf)]
      /\ shared \in {None} \cup [failed: BOOLEAN, slot: Nat, release: {None, 1, 2}]
  BY GrpcNumbers DEF GrpcTypeOK
<1>1. CASE \/ Grpc!Subscribe(s) \/ Grpc!Start(s) \/ Grpc!Look(s)
           \/ Grpc!Notified(s) \/ Grpc!Batched(s) \/ Grpc!Tick(s)
  <2>1. PICK r : /\ Grpc!Becomes(s, r) /\ Moved(s, r)
                 /\ UNCHANGED <<Grpc!listener, release, shared, owed>>
    BY <1>1 DEF Grpc!Subscribe, Grpc!Start, Grpc!Look, Grpc!Notified, Grpc!Batched, Grpc!Tick,
                Moved
  <2>2. r \in StreamStates
    BY <1>0, <2>1 DEF Moved, StreamStates
  <2> HIDE DEF StreamStates
  <2> QED
    BY <1>0, <2>1, <2>2
<1>2. CASE Grpc!Take(s)
  <2>1. CASE Grpc!Continuous(watcher[s].generation)
    <3> DEFINE r == [watcher[s] EXCEPT !.at = "asking", !.unseen = FALSE,
                             !.slot = IF watcher[s].kind = "change" THEN notice.slot ELSE 0]
    <3>1. r \in StreamStates
      BY <1>0 DEF StreamStates
    <3>2. Grpc!Becomes(s, r) /\ Taken(s, r) /\ UNCHANGED <<Grpc!listener, release, shared>>
      BY <1>2, <2>1 DEF Grpc!Take, Taken
    <3>3. owed' = owed \/ \E o \in SUBSET owed[s] : owed' = [owed EXCEPT ![s] = o]
      BY <3>2 DEF Taken
    <3> HIDE DEF r, StreamStates
    <3> QED
      BY <1>0, <3>1, <3>2, <3>3
  <2>2. CASE ~Grpc!Continuous(watcher[s].generation)
    <3>1. Grpc!Becomes(s, Grpc!Closed) /\ owed' = [owed EXCEPT ![s] = {}] /\ {} \in SUBSET owed[s]
          /\ UNCHANGED <<Grpc!listener, release, shared>>
      BY <1>2, <2>2 DEF Grpc!Take
    <3> HIDE DEF StreamStates
    <3> QED
      BY <1>0, <3>1, ClosedType
  <2> QED
    BY <2>1, <2>2
<1>3. ASSUME NEW seen \in [failed: BOOLEAN, slot: Nat, release: {None, 1, 2}],
             watcher[s].at \in {"asking", "reading"}, Grpc!Tell(s, seen),
             UNCHANGED <<Grpc!listener, release>>, shared' \in {shared, seen}
      PROVE  /\ UNCHANGED <<Grpc!listener, release>>
             /\ shared' \in {None} \cup [failed: BOOLEAN, slot: Nat, release: {None, 1, 2}]
             /\ owed' = owed \/ \E o \in SUBSET owed[s] : owed' = [owed EXCEPT ![s] = o]
             /\ \E r \in StreamStates :
                   /\ Grpc!Becomes(s, r)
                   /\ \/ \E x : Sent(s, r, x)
                      \/ r = Grpc!Closed /\ owed' = [owed EXCEPT ![s] = {}]
  <2>1. PICK r \in StreamStates :
           /\ Grpc!Becomes(s, r)
           /\ owed' = owed \/ \E o \in SUBSET owed[s] : owed' = [owed EXCEPT ![s] = o]
           /\ \/ /\ Grpc!Continues(s, seen)
                 /\ r = [watcher[s] EXCEPT !.at = "waiting", !.kind = None,
                                          !.identity = seen.release]
                 /\ owed' = [owed EXCEPT ![s] = @ \ Grpc!CoveredBy(s)]
              \/ r = Grpc!Closed /\ owed' = [owed EXCEPT ![s] = {}]
    <3>1. seen.release \in {None, 1, 2}
      BY <1>3
    <3> QED
      BY <1>3, <3>1, GrpcTold
  <2>2. Sent(s, r, seen) \/ (r = Grpc!Closed /\ owed' = [owed EXCEPT ![s] = {}])
    BY <1>3, <2>1 DEF Sent
  <2> QED
    BY <1>0, <1>3, <2>1, <2>2
<1>4. CASE Grpc!Ask(s)
  <2>1. CASE Grpc!Usable(watcher[s].slot) /\ Grpc!Tell(s, shared)
    <3>1. shared \in [failed: BOOLEAN, slot: Nat, release: {None, 1, 2}]
      BY <1>0, <2>1 DEF Grpc!Usable
    <3> QED
      BY <1>3, <1>4, <2>1, <3>1 DEF Grpc!Ask
  <2>2. CASE Grpc!Becomes(s, [watcher[s] EXCEPT !.at = "reading"]) /\ owed' = owed
    <3>1. [watcher[s] EXCEPT !.at = "reading"] \in StreamStates
      BY <1>0 DEF StreamStates
    <3> HIDE DEF StreamStates
    <3> QED
      BY <1>0, <1>4, <2>2, <3>1 DEF Grpc!Ask, Moved
  <2> QED
    BY <1>4, <2>1, <2>2 DEF Grpc!Ask
<1>5. CASE Grpc!Read(s)
  <2>1. shared' \in [failed: BOOLEAN, slot: Nat, release: {None, 1, 2}]
    BY <1>5, Observed DEF Grpc!Read
  <2> QED
    BY <1>3, <1>5, <2>1 DEF Grpc!Read
<1>6. CASE Grpc!Leave(s)
  <2>1. Grpc!Becomes(s, Grpc!Closed) /\ owed' = [owed EXCEPT ![s] = {}] /\ {} \in SUBSET owed[s]
        /\ UNCHANGED <<Grpc!listener, release, shared>>
    BY <1>6 DEF Grpc!Leave
  <2> QED
    BY <1>0, <2>1, ClosedType
<1> QED
  BY <1>1, <1>2, <1>4, <1>5, <1>6 DEF Turn

\* Every operation keeps the types.
LEMMA GrpcTypes == GrpcTypeOK /\ [Grpc!Next]_Grpc!vars => GrpcTypeOK'
<1> SUFFICES ASSUME GrpcTypeOK, [Grpc!Next]_Grpc!vars PROVE GrpcTypeOK'
  OBVIOUS
<1>1. CASE Grpc!Commit
  <2>1. commits + 1 \in DOMAIN SlotOf /\ commits + 1 \in 0..Len(SlotOf)
    BY <1>1, GrpcNumbers DEF Grpc!Commit, GrpcTypeOK
  <2>2. unheard' \in Seq(DOMAIN SlotOf)
    BY <1>1, <2>1, Appended DEF Grpc!Commit, GrpcTypeOK
  <2>3. owed' \in [Streams -> SUBSET (DOMAIN SlotOf)]
    BY <1>1, <2>1 DEF Grpc!Commit, GrpcTypeOK
  <2> QED
    BY <1>1, <2>1, <2>2, <2>3 DEF Grpc!Commit, GrpcTypeOK
<1>2. CASE Grpc!Upgrade \/ Grpc!Expire \/ Grpc!Cut
  BY <1>2 DEF Grpc!Upgrade, Grpc!Expire, Grpc!Cut, GrpcTypeOK, Grpc!listener
<1>3. CASE Grpc!Connect \/ Grpc!Listen \/ Grpc!Refused \/ Grpc!Lose
  <2>1. <<>> \in Seq(DOMAIN SlotOf) /\ unheard \in Seq(DOMAIN SlotOf)
    BY DEF GrpcTypeOK
  <2>2. notice.generation \in Nat /\ notice.generation + 1 \in Nat /\ 0 \in Nat
    BY GrpcNumbers
  <2> QED
    BY <1>3, <2>1, <2>2, SendTypes DEF Grpc!Connect, Grpc!Listen, Grpc!Refused, Grpc!Lose
<1>4. CASE Grpc!Receive
  <2>1. Head(unheard) \in DOMAIN SlotOf /\ Tail(unheard) \in Seq(DOMAIN SlotOf)
    BY <1>4, Received DEF Grpc!Receive, GrpcTypeOK
  <2>2. Grpc!Max({notice.slot, SlotOf[Head(unheard)]}) \in Nat
    BY <2>1, GrpcNumbers, MaxOfTwo
  <2>3. notice.generation \in Nat
    BY GrpcNumbers
  <2> QED
    BY <1>4, <2>1, <2>2, <2>3, SendTypes DEF Grpc!Receive, GrpcTypeOK
<1>5. ASSUME NEW s \in Streams, Turn(s)
      PROVE  GrpcTypeOK'
  BY <1>5, StreamSteps, TurnTypes
<1>6. CASE UNCHANGED Grpc!vars
  BY <1>6 DEF Grpc!vars, Grpc!listener, GrpcTypeOK
<1> QED
  BY <1>1, <1>2, <1>3, <1>4, <1>5, <1>6 DEF Grpc!Next, Turn

\* NoticesReach, for one stream and commit.
Reaches(s, c) ==
    c \in Grpc!Range(unheard) \/ Grpc!Announces(s, c) \/ Grpc!Frames(s, c) \/ Grpc!Ends(s)

\* A step of one stream says nothing new of another.
LEMMA OtherStreams ==
    ASSUME GrpcInv, NEW s \in Streams, NEW r, Grpc!Becomes(s, r), UNCHANGED Grpc!listener,
           owed' = owed \/ \E o \in SUBSET owed[s] : owed' = [owed EXCEPT ![s] = o],
           NEW u \in Streams, u # s
    PROVE  TurnOK(u)' /\ \A c \in owed'[u] : Reaches(u, c)'
<1>1. watcher'[u] = watcher[u] /\ owed'[u] = owed[u]
  BY DEF Grpc!Becomes, GrpcInv, GrpcTypeOK
<1>2. TurnOK(u) /\ \A c \in owed[u] : Reaches(u, c)
  BY DEF GrpcInv, Grpc!NoticesReach, Reaches
<1> QED
  BY <1>1, <1>2 DEF TurnOK, Reaches, Grpc!Announces, Grpc!Frames, Grpc!Ends, Grpc!Continuous,
                    Grpc!listener

\* A stream's own step keeps the rest of the invariant.
LEMMA StreamReach ==
    ASSUME GrpcInv, NEW s \in Streams,
           Turn(s)
    PROVE  ChannelOK' /\ (\A u \in Streams : TurnOK(u)') /\ Grpc!NoticesReach'
<1>0. GrpcTypeOK /\ ChannelOK /\ TurnOK(s) /\ \A c \in owed[s] : Reaches(s, c)
  BY DEF GrpcInv, Grpc!NoticesReach, Reaches
<1>1. PICK r \in StreamStates :
         /\ Grpc!Becomes(s, r)
         /\ UNCHANGED Grpc!listener
         /\ owed' = owed \/ \E o \in SUBSET owed[s] : owed' = [owed EXCEPT ![s] = o]
         /\ \/ Moved(s, r) /\ owed' = owed
            \/ Taken(s, r)
            \/ \E seen : Sent(s, r, seen)
            \/ r = Grpc!Closed /\ owed' = [owed EXCEPT ![s] = {}]
  BY <1>0, StreamSteps
<1>2. watcher'[s] = r /\ UNCHANGED <<commits, session, unheard, notice>>
  BY <1>0, <1>1 DEF Grpc!Becomes, GrpcTypeOK, Grpc!listener
<1>3. watcher[s] \in StreamStates /\ notice.generation \in Nat
      /\ owed \in [Streams -> SUBSET (DOMAIN SlotOf)]
      /\ None \notin {"change", "resync", "heartbeat"}
      /\ \A c \in owed[s] : SlotOf[c] \in Nat
  BY <1>0, GrpcNumbers, FeedAssumption DEF GrpcTypeOK
<1>4. ChannelOK'
  BY <1>0, <1>2 DEF ChannelOK
<1>5. TurnOK(s)' /\ \A c \in owed'[s] : Reaches(s, c)'
  <2>1. ASSUME Moved(s, r), owed' = owed PROVE TurnOK(s)'
    <3>1. CASE watcher[s].at = "opened"
      <4>1. r.at = "looked" /\ r.kind = "resync" /\ r.generation = notice.generation
        BY <1>3, <2>1, <3>1 DEF Moved, StreamStates
      <4> QED
        BY <1>2, <1>3, <4>1 DEF TurnOK
    <3>2. CASE watcher[s].at # "opened"
      <4>1. MovedFields(s, r)
        BY <1>3, <2>1, MovesFields
      <4> QED
        BY <1>0, <1>2, <1>3, <2>1, <3>2, <4>1 DEF TurnOK, MovedFields
    <3> QED
      BY <3>1, <3>2
  <2>2. ASSUME Moved(s, r), owed' = owed, NEW c \in owed[s] PROVE Reaches(s, c)'
    <3>0. MovedFields(s, r)
      BY <1>3, <2>2, MovesFields
    <3>1. c \in Grpc!Range(unheard) \/ Grpc!Announces(s, c) \/ Grpc!Frames(s, c) \/ Grpc!Ends(s)
      BY <1>0, <2>2 DEF Reaches
    <3>2. CASE c \in Grpc!Range(unheard)
      BY <1>2, <3>2 DEF Reaches
    <3>3. CASE Grpc!Announces(s, c)
      BY <1>0, <1>2, <1>3, <2>2, <3>0, <3>3
         DEF Reaches, Grpc!Announces, Grpc!Frames, TurnOK, MovedFields
    <3>4. CASE Grpc!Frames(s, c)
      BY <1>0, <1>2, <1>3, <2>2, <3>0, <3>4
         DEF Reaches, Grpc!Announces, Grpc!Frames, TurnOK, MovedFields
    <3>5. CASE Grpc!Ends(s)
      BY <1>0, <1>2, <1>3, <2>2, <3>0, <3>5
         DEF Reaches, Grpc!Frames, Grpc!Ends, Grpc!Continuous, TurnOK, MovedFields
    <3> QED
      BY <3>1, <3>2, <3>3, <3>4, <3>5
  <2>3. ASSUME Taken(s, r) PROVE TurnOK(s)'
    BY <1>0, <1>2, <1>3, <2>3 DEF TurnOK, Taken, ChannelOK, Grpc!Continuous, StreamStates
  <2>4. ASSUME Taken(s, r), NEW c \in owed'[s] PROVE Reaches(s, c)'
    <3>0. c \in owed[s] /\ (Grpc!Hides(s) => c \in Grpc!Range(unheard))
      BY <1>3, <2>4 DEF Taken
    <3>1. c \in Grpc!Range(unheard) \/ Grpc!Announces(s, c) \/ Grpc!Frames(s, c) \/ Grpc!Ends(s)
      BY <1>0, <3>0 DEF Reaches
    <3>2. CASE c \in Grpc!Range(unheard)
      BY <1>2, <3>2 DEF Reaches
    <3>3. CASE Grpc!Announces(s, c)
      BY <1>0, <1>2, <1>3, <2>4, <3>0, <3>2, <3>3
         DEF Reaches, Grpc!Announces, Grpc!Frames, TurnOK, Taken, Grpc!Hides, StreamStates
    <3>4. CASE Grpc!Frames(s, c)
      BY <1>2, <1>3, <2>4, <3>4 DEF Reaches, Grpc!Frames, Taken, StreamStates
    <3>5. CASE Grpc!Ends(s)
      BY <1>2, <1>3, <2>4, <3>5 DEF Reaches, Grpc!Ends, Taken, Grpc!Continuous, StreamStates
    <3> QED
      BY <3>1, <3>2, <3>3, <3>4, <3>5
  <2>5. ASSUME NEW seen, Sent(s, r, seen) PROVE TurnOK(s)'
    BY <1>0, <1>2, <1>3, <2>5 DEF TurnOK, Sent, Grpc!Continues, Grpc!Continuous, ChannelOK,
                              StreamStates
  <2>6. ASSUME NEW seen, Sent(s, r, seen), NEW c \in owed'[s] PROVE Reaches(s, c)'
    <3>0. c \in owed[s] /\ c \notin Grpc!CoveredBy(s)
      BY <1>3, <2>6 DEF Sent
    <3>1. c \in Grpc!Range(unheard) \/ Grpc!Announces(s, c) \/ Grpc!Frames(s, c) \/ Grpc!Ends(s)
      BY <1>0, <3>0 DEF Reaches
    <3>2. CASE c \in Grpc!Range(unheard)
      BY <1>2, <3>2 DEF Reaches
    <3>3. CASE Grpc!Announces(s, c)
      BY <1>2, <1>3, <2>6, <3>3 DEF Reaches, Grpc!Announces, Sent, StreamStates
    <3>4. CASE Grpc!Frames(s, c)
      BY <1>3, <2>6, <3>0, <3>4 DEF Grpc!Frames, Sent, Grpc!CoveredBy
    <3>5. CASE Grpc!Ends(s)
      BY <1>2, <1>3, <2>6, <3>5
         DEF Reaches, Grpc!Ends, Sent, Grpc!Continues, Grpc!Continuous, StreamStates
    <3> QED
      BY <3>1, <3>2, <3>3, <3>4, <3>5
  <2>7. ASSUME r = Grpc!Closed, owed' = [owed EXCEPT ![s] = {}]
        PROVE  TurnOK(s)' /\ \A c \in owed'[s] : Reaches(s, c)'
    BY <1>2, <1>3, <2>7 DEF TurnOK, Grpc!Closed
  <2> QED
    BY <1>1, <2>1, <2>2, <2>3, <2>4, <2>5, <2>6, <2>7
<1>6. ASSUME NEW u \in Streams PROVE TurnOK(u)' /\ \A c \in owed'[u] : Reaches(u, c)'
  BY <1>1, <1>5, OtherStreams
<1> QED
  BY <1>4, <1>6 DEF Grpc!NoticesReach, Reaches

\* What the listener sends to the channel reaches every stream, or ends it.
LEMMA ListenerReach ==
    ASSUME GrpcInv, GrpcTypeOK',
    Grpc!Connect \/ Grpc!Listen \/ Grpc!Refused \/ Grpc!Cut \/ Grpc!Receive \/ Grpc!Lose
    PROVE  ChannelOK' /\ (\A u \in Streams : TurnOK(u)') /\ Grpc!NoticesReach'
<1>0. /\ GrpcTypeOK /\ ChannelOK /\ owed' = owed
      /\ notice.generation \in Nat /\ notice.slot \in Nat /\ notice.ready \in BOOLEAN
      /\ \A s \in Streams : watcher[s] \in StreamStates /\ TurnOK(s)
      /\ \A s \in Streams : \A c \in owed[s] : Reaches(s, c) /\ SlotOf[c] \in Nat
  <2>1. GrpcTypeOK /\ ChannelOK
    BY DEF GrpcInv
  <2>2. owed' = owed
    BY DEF Grpc!Connect, Grpc!Listen, Grpc!Refused, Grpc!Cut, Grpc!Receive, Grpc!Lose, Grpc!Send
  <2> QED
    BY <2>1, <2>2, GrpcNumbers DEF GrpcInv, GrpcTypeOK, Grpc!NoticesReach, Reaches
<1>1. CASE Grpc!Cut
  <2>1. /\ session = "listening" /\ session' = "dead"
        /\ UNCHANGED <<unheard, notice, watcher>>
    BY <1>1 DEF Grpc!Cut
  <2>2. ChannelOK'
    BY <1>0, <2>1 DEF ChannelOK
  <2>3. \A s \in Streams : TurnOK(s)'
    BY <1>0, <2>1 DEF TurnOK
  <2>4. Grpc!NoticesReach'
    BY <2>1 DEF Grpc!NoticesReach, Grpc!Ends
  <2> QED
    BY <2>2, <2>3, <2>4
<1>2. ASSUME notice'.generation \in Nat, notice'.generation >= notice.generation,
             notice'.ready <=> session' \in {"listening", "dead"},
             session' = "connecting" => notice'.generation = notice.generation + 1,
             watcher' = [s \in Streams |-> [watcher[s] EXCEPT !.unseen = TRUE]]
      PROVE  /\ ChannelOK' /\ \A s \in Streams : TurnOK(s)'
             /\ \A s \in Streams :
                   /\ watcher'[s].unseen = TRUE /\ watcher'[s].at = watcher[s].at
                   /\ watcher'[s].kind = watcher[s].kind /\ watcher'[s].slot = watcher[s].slot
                   /\ watcher'[s].generation = watcher[s].generation
  <2>1. \A s \in Streams :
           /\ watcher'[s].unseen = TRUE /\ watcher'[s].at = watcher[s].at
           /\ watcher'[s].kind = watcher[s].kind /\ watcher'[s].slot = watcher[s].slot
           /\ watcher'[s].generation = watcher[s].generation
    BY <1>0, <1>2 DEF StreamStates
  <2>2. \A s \in Streams : watcher[s].generation \in Nat
    BY <1>0, GrpcNumbers
  <2>3. ASSUME NEW s \in Streams PROVE TurnOK(s)'
    BY <1>0, <1>2, <2>1, <2>2 DEF TurnOK
  <2>4. ChannelOK'
    BY <1>2 DEF ChannelOK
  <2> QED
    BY <2>1, <2>3, <2>4
<1>3. CASE Grpc!Connect \/ Grpc!Refused \/ Grpc!Lose
  <2>1. /\ ~notice'.ready /\ session' \in {"resting", "connecting"}
        /\ notice'.generation \in Nat /\ notice'.generation >= notice.generation
        /\ session' = "connecting" => notice'.generation = notice.generation + 1
        /\ watcher' = [s \in Streams |-> [watcher[s] EXCEPT !.unseen = TRUE]]
    BY <1>0, <1>3 DEF Grpc!Connect, Grpc!Refused, Grpc!Lose, Grpc!Send
  <2>2. /\ ChannelOK' /\ \A s \in Streams : TurnOK(s)'
        /\ \A s \in Streams : watcher'[s].at = watcher[s].at
    BY <1>2, <2>1
  <2>3. ASSUME NEW s \in Streams, NEW c \in owed'[s] PROVE Reaches(s, c)'
    BY <2>1, <2>2 DEF Reaches, Grpc!Frames, Grpc!Ends, Grpc!Continuous
  <2> QED
    BY <2>2, <2>3 DEF Grpc!NoticesReach, Reaches
<1>4. CASE Grpc!Listen
  <2>1. /\ session = "connecting" /\ session' = "listening" /\ unheard' = unheard
        /\ notice'.ready /\ notice'.generation = notice.generation
        /\ watcher' = [s \in Streams |-> [watcher[s] EXCEPT !.unseen = TRUE]]
    BY <1>4 DEF Grpc!Listen, Grpc!Send
  <2>2. /\ ChannelOK' /\ \A s \in Streams : TurnOK(s)'
        /\ \A s \in Streams :
              /\ watcher'[s].at = watcher[s].at /\ watcher'[s].kind = watcher[s].kind
              /\ watcher'[s].generation = watcher[s].generation
    <3>1. notice'.generation \in Nat /\ notice'.generation >= notice.generation
      BY <1>0, <2>1
    <3>2. (notice'.ready <=> session' \in {"listening", "dead"}) /\ session' # "connecting"
      BY <2>1
    <3> QED
      BY <1>2, <2>1, <3>1, <3>2
  <2>3. ASSUME NEW s \in Streams, NEW c \in owed'[s] PROVE Reaches(s, c)'
    <3>1. watcher[s].at \notin {"new", "closed"}
      BY <1>0, <2>3 DEF TurnOK
    <3>2. CASE watcher[s].at = "opened" \/ watcher[s].kind = "resync"
      BY <2>2, <3>2 DEF Reaches, Grpc!Frames
    <3>3. CASE watcher[s].at # "opened" /\ watcher[s].generation # notice.generation
      BY <2>1, <2>2, <3>3 DEF Reaches, Grpc!Ends, Grpc!Continuous
    <3> QED
      BY <1>0, <2>1, <3>1, <3>2, <3>3 DEF TurnOK
  <2> QED
    BY <2>2, <2>3 DEF Grpc!NoticesReach, Reaches
<1>5. CASE Grpc!Receive
  <2> DEFINE n == Grpc!Max({notice.slot, SlotOf[Head(unheard)]})
  <2>1. /\ session \in {"listening", "dead"} /\ session' = session /\ unheard # <<>>
        /\ unheard' = Tail(unheard) /\ unheard \in Seq(DOMAIN SlotOf)
        /\ notice'.ready /\ notice'.generation = notice.generation /\ notice'.slot = n
        /\ watcher' = [s \in Streams |-> [watcher[s] EXCEPT !.unseen = TRUE]]
    BY <1>0, <1>5 DEF Grpc!Receive, Grpc!Send, GrpcTypeOK
  <2>2. /\ Head(unheard) \in DOMAIN SlotOf
        /\ \A c \in Grpc!Range(unheard) : c = Head(unheard) \/ c \in Grpc!Range(Tail(unheard))
    BY <2>1, Received
  <2>3. SlotOf[Head(unheard)] \in Nat
    BY <1>0, <2>2, GrpcNumbers
  <2>4. n \in Nat /\ n >= notice.slot /\ n >= SlotOf[Head(unheard)]
    BY <1>0, <2>3, MaxOfTwo
  <2> HIDE DEF n
  <2>5. /\ ChannelOK' /\ \A s \in Streams : TurnOK(s)'
        /\ \A s \in Streams :
                   /\ watcher'[s].unseen = TRUE /\ watcher'[s].at = watcher[s].at
                   /\ watcher'[s].kind = watcher[s].kind /\ watcher'[s].slot = watcher[s].slot
                   /\ watcher'[s].generation = watcher[s].generation
    <3>1. notice'.generation \in Nat /\ notice'.generation >= notice.generation
      BY <1>0, <2>1
    <3>2. (notice'.ready <=> session' \in {"listening", "dead"}) /\ session' # "connecting"
      BY <2>1
    <3> QED
      BY <1>2, <2>1, <3>1, <3>2
  <2>6. notice.ready
    BY <1>0, <2>1 DEF ChannelOK
  <2>7. ASSUME NEW s \in Streams, NEW c \in owed'[s] PROVE Reaches(s, c)'
    <3>1. /\ c \in Grpc!Range(unheard) \/ Grpc!Announces(s, c) \/ Grpc!Frames(s, c) \/ Grpc!Ends(s)
          /\ SlotOf[c] \in Nat
      BY <1>0, <2>7 DEF Reaches
    <3>2. CASE c \in Grpc!Range(unheard)
      BY <2>1, <2>2, <2>4, <2>5, <3>2 DEF Reaches, Grpc!Announces
    <3>3. CASE Grpc!Announces(s, c)
      <4>1. SlotOf[c] <= n
        BY <1>0, <2>4, <3>1, <3>3 DEF Grpc!Announces
      <4> QED
        BY <2>1, <2>5, <4>1 DEF Reaches, Grpc!Announces
    <3>4. CASE Grpc!Frames(s, c)
      BY <2>5, <3>4 DEF Reaches, Grpc!Frames
    <3>5. CASE Grpc!Ends(s)
      BY <2>1, <2>5, <2>6, <3>5 DEF Reaches, Grpc!Ends, Grpc!Continuous
    <3> QED
      BY <3>1, <3>2, <3>3, <3>4, <3>5
  <2> QED
    BY <2>5, <2>7 DEF Grpc!NoticesReach, Reaches
<1> QED
  BY <1>1, <1>3, <1>4, <1>5

\* A commit is notified to a session that listens; a stream that is past its
\* start while none does is to end.
LEMMA CommitReach ==
    ASSUME GrpcInv, Grpc!Commit
    PROVE  ChannelOK' /\ (\A u \in Streams : TurnOK(u)') /\ Grpc!NoticesReach'
<1>0. /\ GrpcTypeOK /\ ChannelOK /\ unheard \in Seq(DOMAIN SlotOf)
      /\ session \in {"resting", "connecting", "listening", "dead"}
      /\ commits + 1 \in DOMAIN SlotOf
  <2>1. GrpcTypeOK /\ ChannelOK
    BY DEF GrpcInv
  <2> QED
    BY <2>1, GrpcNumbers DEF Grpc!Commit, GrpcTypeOK
<1>1. /\ UNCHANGED <<session, notice, watcher>>
      /\ unheard' = IF session = "listening" THEN Append(unheard, commits + 1) ELSE unheard
      /\ owed' = [s \in Streams |-> IF s \in Grpc!Open THEN owed[s] \cup {commits + 1} ELSE {}]
  BY DEF Grpc!Commit
<1>2. ChannelOK'
  BY <1>0, <1>1 DEF ChannelOK
<1>3. \A s \in Streams : TurnOK(s)'
  BY <1>1 DEF GrpcInv, TurnOK, Grpc!Open
<1>4. /\ Grpc!Range(unheard) \subseteq Grpc!Range(unheard')
      /\ session = "listening" => commits + 1 \in Grpc!Range(unheard')
  BY <1>0, <1>1, Appended
<1>5. ASSUME NEW s \in Streams, NEW c \in owed'[s] PROVE Reaches(s, c)'
  <2>1. s \in Grpc!Open /\ (c \in owed[s] \/ c = commits + 1)
    BY <1>1, <1>5
  <2>2. CASE c \in owed[s]
    <3>1. c \in Grpc!Range(unheard) \/ Grpc!Announces(s, c) \/ Grpc!Frames(s, c) \/ Grpc!Ends(s)
      BY <2>2 DEF GrpcInv, Grpc!NoticesReach
    <3> QED
      BY <1>1, <1>4, <3>1 DEF Reaches, Grpc!Announces, Grpc!Frames, Grpc!Ends, Grpc!Continuous
  <2>3. CASE c = commits + 1 /\ session = "listening"
    BY <1>4, <2>3 DEF Reaches
  <2>4. CASE session # "listening"
    BY <1>0, <1>1, <2>4 DEF Reaches, Grpc!Frames, Grpc!Ends, Grpc!Continuous, ChannelOK
  <2> QED
    BY <2>1, <2>2, <2>3, <2>4
<1> QED
  BY <1>2, <1>3, <1>5 DEF Grpc!NoticesReach, Reaches

\* Nothing has happened at first.
LEMMA GrpcInit == Grpc!Init => GrpcInv
<1> SUFFICES ASSUME Grpc!Init PROVE GrpcInv
  OBVIOUS
<1>1. GrpcTypeOK
  <2>1. [Grpc!Closed EXCEPT !.at = "new"] \in StreamStates
    BY DEF Grpc!Closed, StreamStates
  <2>2. <<>> \in Seq(DOMAIN SlotOf) /\ 0 \in 0..Len(SlotOf)
    BY FeedAssumption
  <2> HIDE DEF StreamStates
  <2> QED
    BY <2>1, <2>2 DEF Grpc!Init, GrpcTypeOK
<1>2. ChannelOK
  BY DEF Grpc!Init, ChannelOK
<1>3. \A s \in Streams : TurnOK(s)
  BY DEF Grpc!Init, TurnOK, Grpc!Closed
<1>4. Grpc!NoticesReach
  BY DEF Grpc!Init, Grpc!NoticesReach
<1> QED
  BY <1>1, <1>2, <1>3, <1>4 DEF GrpcInv

\* Every step keeps the invariant.
LEMMA GrpcStep == GrpcInv /\ [Grpc!Next]_Grpc!vars => GrpcInv'
<1> SUFFICES ASSUME GrpcInv, [Grpc!Next]_Grpc!vars PROVE GrpcInv'
  OBVIOUS
<1>1. GrpcTypeOK'
  BY GrpcTypes DEF GrpcInv
<1>2. CASE Grpc!Commit
  BY <1>1, <1>2, CommitReach DEF GrpcInv
<1>3. CASE Grpc!Upgrade \/ Grpc!Expire \/ UNCHANGED Grpc!vars
  <2>1. UNCHANGED <<Grpc!listener, watcher, owed>>
    BY <1>3 DEF Grpc!Upgrade, Grpc!Expire, Grpc!vars
  <2> QED
    BY <1>1, <2>1 DEF GrpcInv, ChannelOK, TurnOK, Grpc!NoticesReach, Grpc!Announces,
                      Grpc!Frames, Grpc!Ends,
                      Grpc!Continuous, Grpc!listener
<1>4. CASE Grpc!Connect \/ Grpc!Listen \/ Grpc!Refused \/ Grpc!Cut \/ Grpc!Receive \/ Grpc!Lose
  BY <1>1, <1>4, ListenerReach DEF GrpcInv
<1>5. ASSUME NEW s \in Streams, Turn(s)
      PROVE  GrpcInv'
  BY <1>1, <1>5, StreamReach DEF GrpcInv
<1> QED
  BY <1>2, <1>3, <1>4, <1>5 DEF Grpc!Next, Turn


\* The observation of a frame is of its slot or later.
LEMMA FramesStep == GrpcInv /\ Grpc!FramesCover /\ [Grpc!Next]_Grpc!vars => Grpc!FramesCover'
<1> SUFFICES ASSUME GrpcInv, Grpc!FramesCover, [Grpc!Next]_Grpc!vars PROVE Grpc!FramesCover'
  OBVIOUS
<1>1. ASSUME behind' = behind PROVE Grpc!FramesCover'
  BY <1>1 DEF Grpc!FramesCover
<1>2. ASSUME NEW s \in Streams, NEW seen, Grpc!Tell(s, seen),
             seen \in [failed: BOOLEAN, slot: Nat, release: {None, 1, 2}],
             seen.failed \/ seen.slot >= watcher[s].slot
      PROVE  Grpc!FramesCover'
  <2>1. CASE Grpc!Continues(s, seen)
    <3>1. seen.slot >= watcher[s].slot /\ seen.slot \in Nat /\ watcher[s].slot \in Nat
      BY <1>2, <2>1, GrpcNumbers DEF Grpc!Continues, GrpcInv
    <3>2. ~(seen.slot < watcher[s].slot)
      BY <3>1
    <3>3. behind' = behind
      BY <1>2, <2>1, <3>2 DEF Grpc!Tell
    <3> QED
      BY <1>1, <3>3
  <2>2. CASE ~Grpc!Continues(s, seen)
    BY <1>1, <1>2, <2>2 DEF Grpc!Tell
  <2> QED
    BY <2>1, <2>2
<1>3. ASSUME NEW s \in Streams, Grpc!Ask(s) PROVE Grpc!FramesCover'
  <2>1. CASE Grpc!Usable(watcher[s].slot) /\ Grpc!Tell(s, shared)
    <3>1. shared \in [failed: BOOLEAN, slot: Nat, release: {None, 1, 2}]
      BY <2>1 DEF GrpcInv, GrpcTypeOK, Grpc!Usable
    <3> QED
      BY <1>2, <2>1, <3>1 DEF Grpc!Usable
  <2>2. CASE behind' = behind
    BY <1>1, <2>2
  <2> QED
    BY <1>3, <2>1, <2>2 DEF Grpc!Ask
<1>4. ASSUME NEW s \in Streams, Grpc!Read(s) PROVE Grpc!FramesCover'
  <2>1. GrpcTypeOK
    BY DEF GrpcInv
  <2> QED
    BY <1>2, <1>4, <2>1, Observed DEF Grpc!Read
<1>5. ASSUME NEW s \in Streams,
             \/ Grpc!Subscribe(s) \/ Grpc!Start(s) \/ Grpc!Look(s) \/ Grpc!Take(s)
             \/ Grpc!Notified(s) \/ Grpc!Batched(s) \/ Grpc!Tick(s) \/ Grpc!Leave(s)
      PROVE  Grpc!FramesCover'
  BY <1>1, <1>5 DEF Grpc!Subscribe, Grpc!Start, Grpc!Look, Grpc!Take, Grpc!Notified,
                    Grpc!Batched, Grpc!Tick, Grpc!Leave
<1>6. CASE \/ Grpc!Commit \/ Grpc!Upgrade \/ Grpc!Expire \/ UNCHANGED Grpc!vars
           \/ Grpc!Connect \/ Grpc!Listen \/ Grpc!Refused \/ Grpc!Cut \/ Grpc!Receive \/ Grpc!Lose
  BY <1>1, <1>6 DEF Grpc!Commit, Grpc!Upgrade, Grpc!Expire, Grpc!vars, Grpc!Connect,
                    Grpc!Listen, Grpc!Refused, Grpc!Cut, Grpc!Receive,
                    Grpc!Lose, Grpc!Send
<1> QED
  BY <1>3, <1>4, <1>5, <1>6 DEF Grpc!Next, Turn

\* A step of Surfaces is a step of the change stream or leaves it alone.
LEMMA GrpcSteps == [Next]_vars => [Grpc!Next]_Grpc!vars
BY DEF Next, HistoryStep, SurfaceStep, FeedStep, SwapStep, MarketStep, PortfolioStep, vars, feedVars, Grpc!vars,
       Grpc!listener

\* StreamDuskChanges keeps its types, whatever the order in which the listener,
\* the channel and the streams' tasks run.
THEOREM GrpcTypeCorrect == Spec => []GrpcTypeOK
<1>1. GrpcInv => GrpcTypeOK
  BY DEF GrpcInv
<1>2. Init => Grpc!Init
  BY DEF Init
<1> QED
  BY GrpcInit, GrpcStep, GrpcSteps, <1>1, <1>2, PTL DEF Spec

-----------------------------------------------------------------------------
(* The swap stream of the gRPC server.                                      *)

News == [swap : Swaps, op : {"INSERT", "UPDATE"}]
Inserting(s) == [swap |-> s, op |-> "INSERT"]
Updating(s) == [swap |-> s, op |-> "UPDATE"]

SwapShapes ==
    /\ announced \in Seq(News) /\ arriving \in Seq(News) /\ sent \in Seq(News)
    /\ buffer \in Seq(Swaps)

\* The database made notification m before n.
Before(ns, m, n) == \E p, q \in DOMAIN ns : p < q /\ ns[p] = m /\ ns[q] = n

Among(ns, m) == \E p \in DOMAIN ns : ns[p] = m

\* A swap is announced once and enriched once, after it.
AnnouncedOnce ==
    /\ \A p, q \in DOMAIN announced : announced[p] = announced[q] => p = q
    /\ \A q \in DOMAIN announced : announced[q].op = "UPDATE" =>
          \E p \in DOMAIN announced : p < q /\ announced[p] = Inserting(announced[q].swap)

\* Whatever is further on its way was announced before what is behind it.
InCommitOrder ==
    /\ \A i \in DOMAIN arriving : Among(announced, arriving[i])
    /\ \A k \in DOMAIN buffer : Among(announced, Inserting(buffer[k]))
    /\ \A j \in DOMAIN sent : Among(announced, sent[j])
    /\ \A i, j \in DOMAIN arriving : i < j => Before(announced, arriving[i], arriving[j])
    /\ \A k \in DOMAIN buffer, i \in DOMAIN arriving : Before(announced, Inserting(buffer[k]), arriving[i])
    /\ \A j \in DOMAIN sent, i \in DOMAIN arriving : Before(announced, sent[j], arriving[i])

\* The buffer holds what was not sent, and one swap of a transaction.
HeldBack ==
    /\ \A k, l \in DOMAIN buffer : k # l => TxOf[buffer[k]] # TxOf[buffer[l]]
    /\ \A k \in DOMAIN buffer, j \in DOMAIN sent : sent[j].swap # buffer[k]

\* Where a swap can be once it is announced.
Somewhere(s) ==
    \/ \E k \in DOMAIN buffer : buffer[k] = s
    \/ \E i \in DOMAIN arriving : arriving[i] = Inserting(s)
    \/ \E j \in DOMAIN sent : sent[j].swap = s
    \/ s \in missed
    \/ \E i, j \in DOMAIN announced :
          /\ i < j /\ announced[i].swap = s /\ announced[j].swap # s
          /\ TxOf[announced[j].swap] = TxOf[s]

NothingVanishes ==
    /\ \A s \in Swaps : Among(announced, Inserting(s)) => Somewhere(s)
    /\ \A c \in Viewers : \A s \in due[c] : s \in Swaps /\ Among(announced, Inserting(s))

\* A client's last frame is lag frames behind its place.
GapOK(v, g) ==
    /\ v.next \in Nat /\ v.lag \in Nat /\ g \in Seq(Nat)
    /\ v.open => v.lag <= MaxLag
    /\ v.next = 0 => g = <<>>
    /\ g # <<>> => g[Len(g)] + v.lag + 1 = v.next
    /\ \A i \in 2..Len(g) : g[i] - g[i - 1] <= MaxLag + 1

GapsOK == \A c \in Viewers : GapOK(viewer[c], given[c])

ClientShapes ==
    /\ viewer \in [Viewers -> [open : BOOLEAN, next : Nat, lag : Nat]]
    /\ given \in [Viewers -> Seq(Nat)] /\ due \in [Viewers -> SUBSET Swaps]

SwapInv ==
    /\ SwapShapes /\ ClientShapes
    /\ AnnouncedOnce /\ InCommitOrder /\ HeldBack
    /\ Swap!NewestLast /\ NothingVanishes /\ GapsOK

-----------------------------------------------------------------------------
(* Notifications.                                                           *)

\* One announcement more, received by the session or by nobody.
LEMMA NotifyKeepsOrder ==
    ASSUME SwapShapes, AnnouncedOnce, InCommitOrder, HeldBack, Swap!NewestLast,
           NEW n \in News, announced' = Append(announced, n),
           UNCHANGED <<buffer, sent>>,
           arriving' = Append(arriving, n) \/ arriving' = arriving,
           ~Among(announced, n),
           n.op = "UPDATE" => Among(announced, Inserting(n.swap))
    PROVE  SwapShapes' /\ AnnouncedOnce' /\ InCommitOrder' /\ HeldBack' /\ Swap!NewestLast'
<1> DEFINE last == Len(announced) + 1
<1>1. /\ Len(announced) \in Nat /\ DOMAIN announced = 1..Len(announced)
      /\ announced' \in Seq(News) /\ DOMAIN announced' = 1..last
      /\ announced'[last] = n
      /\ \A p \in 1..Len(announced) : announced'[p] = announced[p] /\ p \in 1..last /\ p < last
      /\ last \in 1..last
  BY DEF SwapShapes
<1>2. SwapShapes'
  <2>1. arriving' \in Seq(News)
    BY DEF SwapShapes
  <2> QED BY <1>1, <2>1 DEF SwapShapes
<1>3. \A p \in 1..last : p = last \/ p \in 1..Len(announced)
  BY <1>1
<1> HIDE DEF last
<1>4. AnnouncedOnce'
  <2>1. ASSUME NEW p \in DOMAIN announced', NEW q \in DOMAIN announced',
               announced'[p] = announced'[q]
        PROVE  p = q
    BY <1>1, <1>3, <2>1 DEF AnnouncedOnce, Among
  <2>2. ASSUME NEW q \in DOMAIN announced', announced'[q].op = "UPDATE"
        PROVE  \E p \in DOMAIN announced' : p < q /\ announced'[p] = Inserting(announced'[q].swap)
    BY <1>1, <1>3, <2>2 DEF AnnouncedOnce, Among
  <2> QED BY <2>1, <2>2 DEF AnnouncedOnce, Inserting
<1>5. \A m : Among(announced, m) => Among(announced', m) /\ Before(announced', m, n)
  BY <1>1 DEF Among, Before
<1>6. \A m, k : Before(announced, m, k) => Before(announced', m, k)
  BY <1>1 DEF Before
<1>7. Among(announced', n)
  BY <1>1 DEF Among
<1>8. InCommitOrder'
  <2>1. CASE arriving' = arriving
    BY <1>5, <1>6, <2>1 DEF InCommitOrder
  <2>2. CASE arriving' = Append(arriving, n)
    <3>1. /\ Len(arriving) \in Nat /\ DOMAIN arriving = 1..Len(arriving)
          /\ DOMAIN arriving' = 1..(Len(arriving) + 1) /\ arriving'[Len(arriving) + 1] = n
          /\ \A i \in 1..Len(arriving) : arriving'[i] = arriving[i]
      BY <2>2 DEF SwapShapes
    <3>2. ASSUME NEW i \in DOMAIN arriving'
          PROVE  \/ arriving'[i] = n /\ i = Len(arriving) + 1
                 \/ i \in DOMAIN arriving /\ arriving'[i] = arriving[i]
      BY <3>1
    <3>3. \A i \in DOMAIN arriving' : Among(announced', arriving'[i])
      BY <1>5, <1>7, <3>2 DEF InCommitOrder
    <3>4. ASSUME NEW i \in DOMAIN arriving', NEW j \in DOMAIN arriving', i < j
          PROVE  Before(announced', arriving'[i], arriving'[j])
      <4>1. i \in DOMAIN arriving /\ arriving'[i] = arriving[i]
        BY <3>1, <3>4
      <4>2. CASE arriving'[j] = n
        BY <1>5, <4>1, <4>2 DEF InCommitOrder
      <4>3. CASE j \in DOMAIN arriving /\ arriving'[j] = arriving[j]
        BY <1>6, <3>4, <4>1, <4>3 DEF InCommitOrder
      <4> QED BY <3>2, <4>2, <4>3
    <3>5. \A k \in DOMAIN buffer, i \in DOMAIN arriving' :
              Before(announced', Inserting(buffer[k]), arriving'[i])
      BY <1>5, <1>6, <3>2 DEF InCommitOrder
    <3>6. \A j \in DOMAIN sent, i \in DOMAIN arriving' : Before(announced', sent[j], arriving'[i])
      BY <1>5, <1>6, <3>2 DEF InCommitOrder
    <3> QED BY <1>5, <3>3, <3>4, <3>5, <3>6 DEF InCommitOrder
  <2> QED BY <2>1, <2>2
<1>9. HeldBack' /\ Swap!NewestLast'
  BY DEF HeldBack, Swap!NewestLast
<1> QED BY <1>2, <1>4, <1>8, <1>9

LEMMA InsertStep ==
    ASSUME SwapInv, NEW s \in Swaps, Swap!Insert(s)
    PROVE  SwapInv'
<1> DEFINE n == Inserting(s)
<1>1. /\ n \in News /\ n.op = "INSERT" /\ n.swap = s
      /\ announced' = Append(announced, n)
      /\ UNCHANGED <<buffer, sent, viewer, given>>
      /\ \/ arriving' = Append(arriving, n) /\ missed' = missed
         \/ arriving' = arriving /\ missed' = missed \cup {s}
  BY DEF Swap!Insert, Swap!Notify, Swap!Insertions, Inserting, News
<1>2. ~Among(announced, n)
  BY DEF Swap!Insert, Swap!Inserted, Swap!Insertions, Swap!Range, Among, Inserting
<1>3. SwapShapes' /\ AnnouncedOnce' /\ InCommitOrder' /\ HeldBack' /\ Swap!NewestLast'
  <2> HIDE DEF n
  <2> QED BY <1>1, <1>2, NotifyKeepsOrder DEF SwapInv
<1>4. /\ Len(announced) \in Nat /\ DOMAIN announced = 1..Len(announced)
      /\ DOMAIN announced' = 1..(Len(announced) + 1) /\ announced'[Len(announced) + 1] = n
      /\ \A p \in 1..Len(announced) : announced'[p] = announced[p]
  BY <1>1 DEF SwapInv, SwapShapes
<1>5. \A t \in Swaps : t # s => (Among(announced', Inserting(t)) => Among(announced, Inserting(t)))
  <2>1. \A t : t # s => Inserting(t) # n
    BY <1>1 DEF Inserting
  <2> QED BY <1>4, <2>1 DEF Among
<1>6. \A t : Among(announced, Inserting(t)) => Among(announced', Inserting(t))
  BY <1>4 DEF Among
<1>7. Among(announced', n)
  <2>1. Len(announced) + 1 \in DOMAIN announced'
    BY <1>4
  <2> QED BY <1>4, <2>1 DEF Among
<1>8. /\ Len(arriving) \in Nat /\ DOMAIN arriving = 1..Len(arriving)
      /\ DOMAIN arriving \subseteq DOMAIN arriving'
      /\ \A i \in DOMAIN arriving : arriving'[i] = arriving[i]
      /\ arriving' = Append(arriving, n) => \E i \in DOMAIN arriving' : arriving'[i] = n
  <2>1. arriving \in Seq(News) /\ Len(arriving) \in Nat
    BY DEF SwapInv, SwapShapes
  <2>2. CASE arriving' = Append(arriving, n)
    <3>1. /\ Len(arriving) + 1 \in DOMAIN arriving' /\ arriving'[Len(arriving) + 1] = n
      BY <1>1, <2>1, <2>2
    <3> QED BY <1>1, <2>1, <2>2, <3>1
  <2>3. CASE arriving' = arriving
    <3>1. Len(Append(arriving, n)) = Len(arriving) + 1
      BY <2>1, <1>1
    <3> QED BY <1>1, <2>1, <2>3, <3>1
  <2> QED BY <1>1, <2>2, <2>3
<1>9. ASSUME NEW t \in Swaps, Among(announced', Inserting(t)) PROVE Somewhere(t)'
  <2>1. CASE t = s
    <3>1. (\E i \in DOMAIN arriving' : arriving'[i] = Inserting(s)) \/ s \in missed'
      BY <1>1, <1>8
    <3> QED BY <2>1, <3>1 DEF Somewhere
  <2>2. CASE t # s
    <3>1. Somewhere(t)
      BY <1>5, <1>9, <2>2 DEF SwapInv, NothingVanishes
    <3>2. CASE \E i \in DOMAIN arriving : arriving[i] = Inserting(t)
      BY <1>8, <3>2 DEF Somewhere
    <3>3. CASE \E i, j \in DOMAIN announced :
                   /\ i < j /\ announced[i].swap = t /\ announced[j].swap # t
                   /\ TxOf[announced[j].swap] = TxOf[t]
      <4> HIDE DEF n
      <4>1. \E i, j \in DOMAIN announced' :
                   /\ i < j /\ announced'[i].swap = t /\ announced'[j].swap # t
                   /\ TxOf[announced'[j].swap] = TxOf[t]
        BY <1>4, <3>3
      <4> QED BY <4>1 DEF Somewhere
    <3>4. CASE (\E k \in DOMAIN buffer : buffer[k] = t) \/ (\E j \in DOMAIN sent : sent[j].swap = t)
      BY <1>1, <3>4 DEF Somewhere
    <3>5. CASE t \in missed
      BY <1>1, <3>5 DEF Somewhere
    <3> QED BY <3>1, <3>2, <3>3, <3>4, <3>5 DEF Somewhere
  <2> QED BY <2>1, <2>2
<1>10. due' = [c \in Viewers |-> IF viewer[c].open THEN due[c] \cup {s} ELSE due[c]]
  BY DEF Swap!Insert
<1>11. NothingVanishes'
  <2>1. \A c \in Viewers : \A t \in due'[c] : t \in Swaps /\ Among(announced', Inserting(t))
    BY <1>6, <1>7, <1>10 DEF SwapInv, NothingVanishes
  <2> QED BY <1>9, <2>1 DEF NothingVanishes
<1>12. ClientShapes' /\ GapsOK'
  BY <1>1, <1>10 DEF SwapInv, ClientShapes, GapsOK
<1> QED BY <1>3, <1>11, <1>12 DEF SwapInv

LEMMA UpdateStep ==
    ASSUME SwapInv, NEW s \in Swaps, Swap!Update(s)
    PROVE  SwapInv'
<1> DEFINE n == Updating(s)
<1>1. /\ n \in News /\ n.op = "UPDATE" /\ n.swap = s
      /\ announced' = Append(announced, n)
      /\ UNCHANGED <<buffer, sent, viewer, given, due>>
      /\ arriving' = Append(arriving, n) \/ arriving' = arriving
      /\ missed' = missed \/ missed' = missed \cup Swap!Insertions({n})
  BY DEF Swap!Update, Swap!Notify, Updating, News
<1>2. ~Among(announced, n)
  BY DEF Swap!Update, Swap!Updated, Swap!Range, Among, Updating
<1>3. Among(announced, Inserting(n.swap))
  <2>1. PICK p \in DOMAIN announced : announced[p].op = "INSERT" /\ announced[p].swap = s
    BY DEF Swap!Update, Swap!Inserted, Swap!Insertions, Swap!Range
  <2>2. announced[p] \in News
    BY <2>1 DEF SwapInv, SwapShapes
  <2>3. announced[p] = Inserting(s)
    BY <2>1, <2>2 DEF News, Inserting
  <2> QED BY <1>1, <2>3 DEF Among
<1>4. SwapShapes' /\ AnnouncedOnce' /\ InCommitOrder' /\ HeldBack' /\ Swap!NewestLast'
  <2> HIDE DEF n
  <2> QED BY <1>1, <1>2, <1>3, NotifyKeepsOrder DEF SwapInv
<1>5. /\ Len(announced) \in Nat /\ DOMAIN announced = 1..Len(announced)
      /\ DOMAIN announced' = 1..(Len(announced) + 1) /\ announced'[Len(announced) + 1] = n
      /\ \A p \in 1..Len(announced) : announced'[p] = announced[p]
  BY <1>1 DEF SwapInv, SwapShapes
<1>6. \A t \in Swaps : Among(announced', Inserting(t)) <=> Among(announced, Inserting(t))
  <2>1. \A t : Inserting(t) # n
    BY DEF Inserting, Updating
  <2> QED BY <1>5, <2>1 DEF Among
<1>7. /\ DOMAIN arriving \subseteq DOMAIN arriving'
      /\ \A i \in DOMAIN arriving : arriving'[i] = arriving[i]
  <2>1. arriving \in Seq(News)
    BY DEF SwapInv, SwapShapes
  <2> QED BY <1>1, <2>1
<1>8. missed \subseteq missed'
  BY <1>1
<1>9. ASSUME NEW t \in Swaps, Among(announced', Inserting(t)) PROVE Somewhere(t)'
  <2>1. Somewhere(t)
    BY <1>6, <1>9 DEF SwapInv, NothingVanishes
  <2>2. CASE \E i \in DOMAIN arriving : arriving[i] = Inserting(t)
    BY <1>7, <2>2 DEF Somewhere
  <2>3. CASE \E i, j \in DOMAIN announced :
                 /\ i < j /\ announced[i].swap = t /\ announced[j].swap # t
                 /\ TxOf[announced[j].swap] = TxOf[t]
    <3> HIDE DEF n
    <3>1. \E i, j \in DOMAIN announced' :
                 /\ i < j /\ announced'[i].swap = t /\ announced'[j].swap # t
                 /\ TxOf[announced'[j].swap] = TxOf[t]
      BY <1>5, <2>3
    <3> QED BY <3>1 DEF Somewhere
  <2>4. CASE (\E k \in DOMAIN buffer : buffer[k] = t) \/ (\E j \in DOMAIN sent : sent[j].swap = t)
    BY <1>1, <2>4 DEF Somewhere
  <2>5. CASE t \in missed
    BY <1>8, <2>5 DEF Somewhere
  <2> QED BY <2>1, <2>2, <2>3, <2>4, <2>5 DEF Somewhere
<1>10. NothingVanishes'
  BY <1>1, <1>6, <1>9 DEF SwapInv, NothingVanishes
<1>11. ClientShapes' /\ GapsOK'
  BY <1>1 DEF SwapInv, ClientShapes, GapsOK
<1> QED BY <1>4, <1>10, <1>11 DEF SwapInv

-----------------------------------------------------------------------------
(* The listener.                                                            *)

\* What is left once a transaction's entry is taken out.
LEMMA WithoutIs ==
    ASSUME buffer \in Seq(Swaps), HeldBack, NEW tx
    PROVE  /\ Swap!Without(tx) \in Seq(Swaps)
           /\ \A k \in DOMAIN Swap!Without(tx) :
                 /\ TxOf[Swap!Without(tx)[k]] # tx
                 /\ \E l \in DOMAIN buffer : buffer[l] = Swap!Without(tx)[k]
           /\ \A l \in DOMAIN buffer : TxOf[buffer[l]] # tx =>
                 \E k \in DOMAIN Swap!Without(tx) : Swap!Without(tx)[k] = buffer[l]
           /\ \A k, l \in DOMAIN Swap!Without(tx) : k # l =>
                 TxOf[Swap!Without(tx)[k]] # TxOf[Swap!Without(tx)[l]]
<1>1. CASE \E i \in DOMAIN buffer : TxOf[buffer[i]] = tx
  <2>1. PICK i \in DOMAIN buffer : /\ i = CHOOSE j \in DOMAIN buffer : TxOf[buffer[j]] = tx
                                   /\ TxOf[buffer[i]] = tx
    BY <1>1
  <2>2. PICK b : b = Swap!Without(tx)
    OBVIOUS
  <2>3. b = SubSeq(buffer, 1, i - 1) \o SubSeq(buffer, i + 1, Len(buffer))
    BY <1>1, <2>1, <2>2 DEF Swap!Without, Swap!RemoveAt
  <2>4. Len(buffer) \in Nat /\ DOMAIN buffer = 1..Len(buffer) /\ i \in 1..Len(buffer)
    BY <2>1
  <2>5. PICK low, high : low = SubSeq(buffer, 1, i - 1) /\ high = SubSeq(buffer, i + 1, Len(buffer))
    OBVIOUS
  <2>6. /\ low \in Seq(Swaps) /\ Len(low) = i - 1
        /\ \A k \in 1..(i - 1) : low[k] = buffer[k]
        /\ high \in Seq(Swaps) /\ Len(high) = Len(buffer) - i
        /\ \A k \in 1..(Len(buffer) - i) : high[k] = buffer[i + k]
        /\ b = low \o high
    <3>1. low \in Seq(Swaps) /\ Len(low) = i - 1 /\ \A k \in 1..(i - 1) : low[k] = buffer[k]
      BY <2>4, <2>5
    <3>2. high \in Seq(Swaps) /\ Len(high) = Len(buffer) - i
      BY <2>4, <2>5
    <3>3. \A k \in 1..(Len(buffer) - i) : high[k] = buffer[i + k]
      <4>1. SUFFICES ASSUME NEW k \in 1..(Len(buffer) - i) PROVE high[k] = buffer[i + k]
        OBVIOUS
      <4>2. high[k] = buffer[(i + 1) + k - 1]
        BY <2>4, <2>5
      <4> QED BY <2>4, <4>2
    <3> QED BY <2>3, <2>5, <3>1, <3>2, <3>3
  <2>7. /\ b \in Seq(Swaps) /\ Len(b) = Len(buffer) - 1 /\ DOMAIN b = 1..(Len(buffer) - 1)
        /\ \A k \in 1..(Len(buffer) - 1) : b[k] = IF k < i THEN buffer[k] ELSE buffer[k + 1]
    <3>1. b \in Seq(Swaps) /\ Len(b) = Len(buffer) - 1
      <4>1. b \in Seq(Swaps) /\ Len(b) = Len(low) + Len(high)
        BY <2>6, ConcatProperties
      <4> QED BY <2>4, <2>6, <4>1
    <3>2. ASSUME NEW k \in 1..(Len(buffer) - 1)
          PROVE  b[k] = IF k < i THEN buffer[k] ELSE buffer[k + 1]
      <4>1. CASE k < i
        <5>1. k \in 1..(i - 1)
          BY <2>4, <4>1
        <5> QED BY <2>4, <2>6, <4>1, <5>1
      <4>2. CASE k >= i
        <5>1. k - (i - 1) \in 1..(Len(buffer) - i) /\ i + (k - (i - 1)) = k + 1
          BY <2>4, <4>2
        <5>2. b[k] = high[k - (i - 1)]
          BY <2>4, <2>6, <4>2, <5>1, SMTT(20)
        <5>3. b[k] = buffer[k + 1]
          BY <2>6, <5>1, <5>2
        <5> QED BY <2>4, <4>2, <5>3
      <4> QED BY <2>4, <4>1, <4>2
    <3> QED BY <3>1, <3>2
  <2>8. \A l \in DOMAIN buffer : l # i => TxOf[buffer[l]] # tx
    BY <2>1 DEF HeldBack
  <2>9. \A k \in DOMAIN b : \E l \in DOMAIN buffer : l # i /\ b[k] = buffer[l]
    <3>1. SUFFICES ASSUME NEW k \in DOMAIN b
                   PROVE  \E l \in DOMAIN buffer : l # i /\ b[k] = buffer[l]
      OBVIOUS
    <3>2. k \in 1..(Len(buffer) - 1) /\ k \in DOMAIN buffer /\ k + 1 \in DOMAIN buffer
      BY <2>4, <2>7
    <3>3. (k < i => k # i /\ b[k] = buffer[k]) /\ (~(k < i) => k + 1 # i /\ b[k] = buffer[k + 1])
      BY <2>4, <2>7, <3>2
    <3> QED BY <3>2, <3>3
  <2>10. \A l \in DOMAIN buffer : l # i => \E k \in DOMAIN b : b[k] = buffer[l]
    <3>1. SUFFICES ASSUME NEW l \in DOMAIN buffer, l # i PROVE \E k \in DOMAIN b : b[k] = buffer[l]
      OBVIOUS
    <3>2. CASE l < i
      <4>1. l \in DOMAIN b /\ b[l] = buffer[l]
        BY <2>4, <2>7, <3>1, <3>2
      <4> QED BY <4>1
    <3>3. CASE l > i
      <4>1. l - 1 \in DOMAIN b /\ b[l - 1] = buffer[l]
        BY <2>4, <2>7, <3>1, <3>3
      <4> QED BY <4>1
    <3> QED BY <2>4, <3>1, <3>2, <3>3
  <2>11. \A k, l \in DOMAIN b : k # l => TxOf[b[k]] # TxOf[b[l]]
    <3>1. SUFFICES ASSUME NEW k \in DOMAIN b, NEW l \in DOMAIN b, k # l
                   PROVE  TxOf[b[k]] # TxOf[b[l]]
      OBVIOUS
    <3> DEFINE At(j) == IF j < i THEN j ELSE j + 1
    <3>2. At(k) \in DOMAIN buffer /\ At(l) \in DOMAIN buffer /\ At(k) # At(l)
      BY <2>4, <2>7, <3>1
    <3>3. b[k] = buffer[At(k)] /\ b[l] = buffer[At(l)]
      BY <2>4, <2>7
    <3> HIDE DEF At
    <3> QED BY <3>2, <3>3 DEF HeldBack
  <2> QED BY <2>1, <2>2, <2>7, <2>8, <2>9, <2>10, <2>11
<1>2. CASE ~ \E i \in DOMAIN buffer : TxOf[buffer[i]] = tx
  BY <1>2 DEF Swap!Without, HeldBack
<1> QED BY <1>1, <1>2

\* Any step of the listener that keeps the announcements and the clients.
LEMMA ListenerKeeps ==
    ASSUME SwapInv, UNCHANGED <<announced, viewer, given, due>>,
           SwapShapes', InCommitOrder', HeldBack', Swap!NewestLast',
           \A t \in Swaps : Somewhere(t) => Somewhere(t)'
    PROVE  SwapInv'
<1>1. AnnouncedOnce' /\ ClientShapes' /\ GapsOK'
  BY DEF SwapInv, AnnouncedOnce, ClientShapes, GapsOK
<1>2. NothingVanishes'
  BY DEF SwapInv, NothingVanishes
<1> QED BY <1>1, <1>2 DEF SwapInv

\* No notification comes before itself, and no enrichment before its swap.
LEMMA NoWayBack ==
    ASSUME SwapShapes, AnnouncedOnce
    PROVE  /\ \A m : ~Before(announced, m, m)
           /\ \A s : ~Before(announced, Updating(s), Inserting(s))
<1>0. Len(announced) \in Nat /\ DOMAIN announced = 1..Len(announced)
  BY DEF SwapShapes
<1>1. \A m : ~Before(announced, m, m)
  BY <1>0 DEF AnnouncedOnce, Before
<1>2. ASSUME NEW s, NEW p \in DOMAIN announced, NEW q \in DOMAIN announced,
             p < q, announced[p] = Updating(s), announced[q] = Inserting(s)
      PROVE  FALSE
  <2>1. announced[p].op = "UPDATE" /\ announced[p].swap = s
    BY <1>2 DEF Updating
  <2>2. PICK r \in DOMAIN announced : r < p /\ announced[r] = Inserting(s)
    BY <2>1 DEF AnnouncedOnce
  <2>3. r = q
    BY <1>2, <2>2 DEF AnnouncedOnce
  <2> QED BY <1>0, <1>2, <2>2, <2>3
<1> QED BY <1>1, <1>2 DEF Before

\* A notification is of the one kind or of the other.
LEMMA NewsIs ==
    ASSUME NEW m \in News
    PROVE  \/ m.op = "INSERT" /\ m = Inserting(m.swap)
           \/ m.op = "UPDATE" /\ m = Updating(m.swap)
BY DEF News, Inserting, Updating

LEMMA ReceiveStep == ASSUME SwapInv, Swap!Receive PROVE SwapInv'
<1> DEFINE n == Head(arriving)
           tx == TxOf[n.swap]
<1>1. /\ SwapShapes /\ AnnouncedOnce /\ InCommitOrder /\ HeldBack /\ Swap!NewestLast
  BY DEF SwapInv
<1>2. /\ arriving # <<>> /\ arriving' = Tail(arriving)
      /\ UNCHANGED <<announced, viewer, given, due, missed>>
      /\ n.op = "INSERT" => buffer' = Append(Swap!Without(tx), n.swap) /\ sent' = sent
      /\ n.op # "INSERT" => buffer' = Swap!Without(tx) /\ sent' = Append(sent, n)
  BY DEF Swap!Receive, Swap!Held
<1>3. /\ Len(arriving) \in Nat /\ DOMAIN arriving = 1..Len(arriving) /\ 1 \in DOMAIN arriving
      /\ n = arriving[1] /\ n \in News
      /\ arriving' \in Seq(News) /\ DOMAIN arriving' = 1..(Len(arriving) - 1)
      /\ \A i \in DOMAIN arriving' :
            arriving'[i] = arriving[i + 1] /\ i + 1 \in DOMAIN arriving /\ 1 < i + 1
      /\ \A i \in DOMAIN arriving : i # 1 => i - 1 \in DOMAIN arriving' /\ arriving'[i - 1] = arriving[i]
  BY <1>1, <1>2 DEF SwapShapes
<1>4. PICK b : b = Swap!Without(tx)
  OBVIOUS
<1>5. /\ b \in Seq(Swaps)
      /\ \A k \in DOMAIN b : TxOf[b[k]] # tx /\ \E l \in DOMAIN buffer : buffer[l] = b[k]
      /\ \A l \in DOMAIN buffer : TxOf[buffer[l]] # tx => \E k \in DOMAIN b : b[k] = buffer[l]
      /\ \A k, l \in DOMAIN b : k # l => TxOf[b[k]] # TxOf[b[l]]
  BY <1>1, <1>4, WithoutIs DEF SwapShapes
<1>6. \A i \in DOMAIN arriving' : Before(announced, n, arriving'[i]) /\ Among(announced, arriving'[i])
  BY <1>1, <1>3 DEF InCommitOrder
<1>7. (n.op = "INSERT" /\ n = Inserting(n.swap)) \/ (n.op = "UPDATE" /\ n = Updating(n.swap))
  BY <1>3, NewsIs
<1>8. Among(announced, n)
  BY <1>1, <1>3 DEF InCommitOrder
<1>9. \A j \in DOMAIN sent : Before(announced, sent[j], n)
  BY <1>1, <1>3 DEF InCommitOrder
<1>10. \A j \in DOMAIN sent : sent[j] = Inserting(sent[j].swap) \/ sent[j] = Updating(sent[j].swap)
  BY <1>1, NewsIs DEF SwapShapes
<1>11. n.op = "INSERT" => \A j \in DOMAIN sent : sent[j].swap # n.swap
  BY <1>1, <1>7, <1>9, <1>10, NoWayBack
<1>12. n.op = "UPDATE" =>
          \A j \in DOMAIN sent : sent[j].swap = n.swap => sent[j] = Inserting(n.swap)
  BY <1>1, <1>7, <1>9, <1>10, NoWayBack
<1>13. \A k \in DOMAIN b : /\ Among(announced, Inserting(b[k]))
                           /\ \A j \in DOMAIN sent : sent[j].swap # b[k]
                           /\ \A i \in DOMAIN arriving' : Before(announced, Inserting(b[k]), arriving'[i])
  BY <1>1, <1>3, <1>5 DEF InCommitOrder, HeldBack
<1>14. \A l \in DOMAIN buffer : Before(announced, Inserting(buffer[l]), n)
  BY <1>1, <1>3 DEF InCommitOrder
\* A swap that the transaction's newer notification takes the place of.
<1>15. ASSUME NEW t \in Swaps, t # n.swap, NEW l \in DOMAIN buffer, buffer[l] = t, TxOf[t] = tx
       PROVE  \E i, j \in DOMAIN announced :
                 /\ i < j /\ announced[i].swap = t /\ announced[j].swap # t
                 /\ TxOf[announced[j].swap] = TxOf[t]
  <2>1. PICK i \in DOMAIN announced, j \in DOMAIN announced :
            i < j /\ announced[i] = Inserting(t) /\ announced[j] = n
    BY <1>14, <1>15 DEF Before
  <2>2. announced[i].swap = t /\ announced[j].swap # t /\ TxOf[announced[j].swap] = TxOf[t]
    BY <1>15, <2>1 DEF Inserting
  <2> QED BY <2>1, <2>2
<1>16. n.swap \in Swaps /\ tx = TxOf[n.swap]
  BY <1>3 DEF News
<1> HIDE DEF n, tx
<1>17. CASE n.op = "INSERT"
  <2>1. buffer' = Append(b, n.swap) /\ sent' = sent
    BY <1>2, <1>4, <1>17
  <2>2. /\ buffer' \in Seq(Swaps) /\ Len(b) \in Nat /\ DOMAIN b = 1..Len(b)
        /\ DOMAIN buffer' = 1..(Len(b) + 1) /\ buffer'[Len(b) + 1] = n.swap
        /\ \A k \in 1..Len(b) : buffer'[k] = b[k]
    BY <1>5, <1>16, <2>1
  <2>3. \A k \in DOMAIN buffer' : \/ k \in DOMAIN b /\ buffer'[k] = b[k]
                                  \/ k = Len(b) + 1 /\ buffer'[k] = n.swap
    BY <2>2
  <2>4. SwapShapes'
    BY <1>1, <1>2, <1>3, <2>1, <2>2 DEF SwapShapes
  <2>5. InCommitOrder'
    <3>1. \A k \in DOMAIN buffer' : /\ Among(announced, Inserting(buffer'[k]))
                                    /\ \A i \in DOMAIN arriving' :
                                          Before(announced, Inserting(buffer'[k]), arriving'[i])
      BY <1>6, <1>7, <1>8, <1>13, <1>17, <2>3
    <3>2. \A i, j \in DOMAIN arriving' : i < j => Before(announced, arriving'[i], arriving'[j])
      BY <1>1, <1>3 DEF InCommitOrder
    <3>3. \A j \in DOMAIN sent, i \in DOMAIN arriving' : Before(announced, sent[j], arriving'[i])
      BY <1>1, <1>3 DEF InCommitOrder
    <3> QED BY <1>1, <1>2, <1>6, <2>1, <3>1, <3>2, <3>3 DEF InCommitOrder
  <2>6. HeldBack'
    <3>1. \A k, l \in DOMAIN buffer' : k # l => TxOf[buffer'[k]] # TxOf[buffer'[l]]
      BY <1>5, <1>16, <2>3
    <3>2. \A k \in DOMAIN buffer', j \in DOMAIN sent : sent[j].swap # buffer'[k]
      BY <1>11, <1>13, <1>17, <2>3
    <3> QED BY <2>1, <3>1, <3>2 DEF HeldBack
  <2>7. Swap!NewestLast'
    BY <1>1, <2>1 DEF Swap!NewestLast
  <2>8. ASSUME NEW t \in Swaps, Somewhere(t) PROVE Somewhere(t)'
    <3>1. CASE t = n.swap
      <4>1. Len(b) + 1 \in DOMAIN buffer' /\ buffer'[Len(b) + 1] = t
        BY <2>2, <3>1
      <4> QED BY <4>1 DEF Somewhere
    <3>2. CASE t # n.swap
      <4>1. CASE \E k \in DOMAIN buffer : buffer[k] = t
        <5>1. PICK l \in DOMAIN buffer : buffer[l] = t
          BY <4>1
        <5>2. CASE TxOf[t] = tx
          BY <1>2, <1>15, <3>2, <5>1, <5>2 DEF Somewhere
        <5>3. CASE TxOf[t] # tx
          <6>1. PICK k \in DOMAIN b : b[k] = t
            BY <1>5, <5>1, <5>3
          <6>2. k \in DOMAIN buffer' /\ buffer'[k] = t
            BY <2>2, <6>1
          <6> QED BY <6>2 DEF Somewhere
        <5> QED BY <5>2, <5>3
      <4>2. CASE \E i \in DOMAIN arriving : arriving[i] = Inserting(t)
        <5>1. PICK i \in DOMAIN arriving : arriving[i] = Inserting(t)
          BY <4>2
        <5>2. i # 1
          BY <1>3, <3>2, <5>1 DEF Inserting
        <5>3. i - 1 \in DOMAIN arriving' /\ arriving'[i - 1] = Inserting(t)
          BY <1>3, <5>1, <5>2
        <5> QED BY <5>3 DEF Somewhere
      <4>3. CASE \/ \E j \in DOMAIN sent : sent[j].swap = t
                 \/ t \in missed
                 \/ \E i, j \in DOMAIN announced :
                       /\ i < j /\ announced[i].swap = t /\ announced[j].swap # t
                       /\ TxOf[announced[j].swap] = TxOf[t]
        BY <1>2, <2>1, <4>3 DEF Somewhere
      <4> QED BY <2>8, <4>1, <4>2, <4>3 DEF Somewhere
    <3> QED BY <3>1, <3>2
  <2> QED BY <1>2, <2>4, <2>5, <2>6, <2>7, <2>8, ListenerKeeps
<1>18. CASE n.op = "UPDATE"
  <2>1. buffer' = b /\ sent' = Append(sent, n)
    BY <1>2, <1>4, <1>18
  <2>2. /\ sent' \in Seq(News) /\ Len(sent) \in Nat /\ DOMAIN sent = 1..Len(sent)
        /\ DOMAIN sent' = 1..(Len(sent) + 1) /\ sent'[Len(sent) + 1] = n
        /\ \A j \in 1..Len(sent) : sent'[j] = sent[j]
    BY <1>1, <1>3, <2>1 DEF SwapShapes
  <2>3. \A j \in DOMAIN sent' : \/ j \in DOMAIN sent /\ sent'[j] = sent[j]
                                \/ j = Len(sent) + 1 /\ sent'[j] = n
    BY <2>2
  <2>4. SwapShapes'
    BY <1>1, <1>2, <1>3, <1>5, <2>1, <2>2 DEF SwapShapes
  <2>5. InCommitOrder'
    <3>1. \A i, j \in DOMAIN arriving' : i < j => Before(announced, arriving'[i], arriving'[j])
      BY <1>1, <1>3 DEF InCommitOrder
    <3>2. \A j \in DOMAIN sent' : /\ Among(announced, sent'[j])
                                  /\ \A i \in DOMAIN arriving' : Before(announced, sent'[j], arriving'[i])
      BY <1>1, <1>3, <1>6, <1>8, <2>3 DEF InCommitOrder
    <3> QED BY <1>2, <1>6, <1>13, <2>1, <3>1, <3>2 DEF InCommitOrder
  <2>6. HeldBack'
    <3>1. \A k \in DOMAIN b : b[k] # n.swap
      BY <1>5, <1>16
    <3> QED BY <1>5, <1>13, <2>1, <2>3, <3>1 DEF HeldBack
  <2>7. Swap!NewestLast'
    <3>1. SUFFICES ASSUME NEW i \in DOMAIN sent', NEW j \in DOMAIN sent', i < j,
                          sent'[i].swap = sent'[j].swap
                   PROVE  sent'[i].op = "INSERT" /\ sent'[j].op = "UPDATE"
      BY DEF Swap!NewestLast
    <3>2. i \in DOMAIN sent /\ sent'[i] = sent[i]
      BY <2>2, <3>1
    <3>3. CASE j \in DOMAIN sent /\ sent'[j] = sent[j]
      BY <1>1, <3>1, <3>2, <3>3 DEF Swap!NewestLast
    <3>4. CASE sent'[j] = n
      BY <1>12, <1>18, <3>1, <3>2, <3>4 DEF Inserting
    <3> QED BY <2>3, <3>3, <3>4
  <2>8. ASSUME NEW t \in Swaps, Somewhere(t) PROVE Somewhere(t)'
    <3>1. CASE t = n.swap
      <4>1. Len(sent) + 1 \in DOMAIN sent' /\ sent'[Len(sent) + 1].swap = t
        BY <2>2, <3>1
      <4> QED BY <4>1 DEF Somewhere
    <3>2. CASE t # n.swap
      <4>1. CASE \E k \in DOMAIN buffer : buffer[k] = t
        <5>1. PICK l \in DOMAIN buffer : buffer[l] = t
          BY <4>1
        <5>2. CASE TxOf[t] = tx
          BY <1>2, <1>15, <3>2, <5>1, <5>2 DEF Somewhere
        <5>3. CASE TxOf[t] # tx
          BY <1>5, <2>1, <5>1, <5>3 DEF Somewhere
        <5> QED BY <5>2, <5>3
      <4>2. CASE \E i \in DOMAIN arriving : arriving[i] = Inserting(t)
        <5>1. PICK i \in DOMAIN arriving : arriving[i] = Inserting(t)
          BY <4>2
        <5>2. i # 1
          BY <1>3, <3>2, <5>1 DEF Inserting
        <5>3. i - 1 \in DOMAIN arriving' /\ arriving'[i - 1] = Inserting(t)
          BY <1>3, <5>1, <5>2
        <5> QED BY <5>3 DEF Somewhere
      <4>3. CASE \E j \in DOMAIN sent : sent[j].swap = t
        <5>1. PICK j \in DOMAIN sent : sent[j].swap = t
          BY <4>3
        <5>2. j \in DOMAIN sent' /\ sent'[j].swap = t
          BY <2>2, <5>1
        <5> QED BY <5>2 DEF Somewhere
      <4>4. CASE \/ t \in missed
                 \/ \E i, j \in DOMAIN announced :
                       /\ i < j /\ announced[i].swap = t /\ announced[j].swap # t
                       /\ TxOf[announced[j].swap] = TxOf[t]
        BY <1>2, <4>4 DEF Somewhere
      <4> QED BY <2>8, <4>1, <4>2, <4>3, <4>4 DEF Somewhere
    <3> QED BY <3>1, <3>2
  <2> QED BY <1>2, <2>4, <2>5, <2>6, <2>7, <2>8, ListenerKeeps
<1> QED BY <1>7, <1>17, <1>18

LEMMA SameCardinality == \A S : Swap!Cardinality(S) = Cardinality(S)
BY DEF Swap!Cardinality, Cardinality, Swap!IsFiniteSet, IsFiniteSet

\* The swaps that a tick sends, in whatever order: those of the buffer's head,
\* each of them once.
LEMMA OrderIs ==
    ASSUME buffer \in Seq(Swaps), HeldBack, NEW n \in 1..Len(buffer),
           NEW order \in Swap!SetToSeqs(Swap!Range(SubSeq(buffer, 1, n)))
    PROVE  /\ \A i \in 1..n : \E k \in 1..n : order[i] = buffer[k]
           /\ \A k \in 1..n : \E i \in 1..n : order[i] = buffer[k]
           /\ \A i, j \in 1..n : i # j => order[i] # order[j]
<1>1. /\ Len(buffer) \in Nat /\ n \in Nat /\ DOMAIN buffer = 1..Len(buffer)
      /\ 1..n \subseteq DOMAIN buffer
  OBVIOUS
<1>2. PICK S : S = {buffer[k] : k \in 1..n}
  OBVIOUS
<1>3. Swap!Range(SubSeq(buffer, 1, n)) = S
  <2>1. /\ Len(SubSeq(buffer, 1, n)) = n /\ DOMAIN SubSeq(buffer, 1, n) = 1..n
        /\ \A k \in 1..n : SubSeq(buffer, 1, n)[k] = buffer[k]
    BY <1>1
  <2> QED BY <1>2, <2>1 DEF Swap!Range
<1>4. Cardinality(1..n) = n /\ IsFiniteSet(1..n)
  BY <1>1, FS_Interval
<1>5. IsFiniteSet(S) /\ Cardinality(S) = n
  <2> DEFINE f == [k \in 1..n |-> buffer[k]]
  <2>1. f \in Bijection(1..n, S)
    <3>1. \A k, l \in 1..n : k # l => buffer[k] # buffer[l]
      BY <1>1 DEF HeldBack
    <3> QED BY <1>2, <3>1 DEF Bijection, Injection, Surjection, IsInjective
  <2>2. ExistsBijection(1..n, S)
    BY <2>1 DEF ExistsBijection
  <2> QED BY <1>4, <2>2, FS_Bijection
<1>6. order \in [1..n -> S] /\ \A i, j \in 1..n : i # j => order[i] # order[j]
  <2>1. Swap!SetToSeqs(S) = {f \in [1..n -> S] : \A i, j \in 1..n : i # j => f[i] # f[j]}
    BY <1>5, SameCardinality DEF Swap!SetToSeqs
  <2>2. order \in Swap!SetToSeqs(S)
    BY <1>3
  <2> QED BY <2>1, <2>2
<1>7. order \in Surjection(1..n, S)
  <2>1. order \in Injection(1..n, S)
    BY <1>6 DEF Injection, IsInjective
  <2> QED BY <1>4, <1>5, <2>1, FS_Injection
<1>8. \A i \in 1..n : order[i] \in S
  BY <1>6
<1>9. \A x \in S : \E i \in 1..n : order[i] = x
  BY <1>7 DEF Surjection
<1>10. \A k \in 1..n : buffer[k] \in S
  BY <1>2
<1>11. \A x \in S : \E k \in 1..n : x = buffer[k]
  BY <1>2
<1> QED BY <1>6, <1>8, <1>9, <1>10, <1>11

LEMMA TickStep == ASSUME SwapInv, Swap!Tick PROVE SwapInv'
<1>1. /\ SwapShapes /\ InCommitOrder /\ HeldBack /\ Swap!NewestLast
  BY DEF SwapInv
<1>2. UNCHANGED <<announced, arriving, viewer, given, due, missed>>
  BY DEF Swap!Tick
<1>3. PICK n \in 1..Len(buffer) :
          /\ \E order \in Swap!SetToSeqs(Swap!Range(SubSeq(buffer, 1, n))) :
                sent' = sent \o [i \in 1..n |-> Inserting(order[i])]
          /\ buffer' = SubSeq(buffer, n + 1, Len(buffer))
  BY DEF Swap!Tick, Inserting
<1>4. PICK order \in Swap!SetToSeqs(Swap!Range(SubSeq(buffer, 1, n))) :
          sent' = sent \o [i \in 1..n |-> Inserting(order[i])]
  BY <1>3
<1>5. /\ \A i \in 1..n : \E k \in 1..n : order[i] = buffer[k]
      /\ \A k \in 1..n : \E i \in 1..n : order[i] = buffer[k]
      /\ \A i, j \in 1..n : i # j => order[i] # order[j]
  BY <1>1, OrderIs DEF SwapShapes
<1>6. /\ Len(buffer) \in Nat /\ n \in Nat /\ n <= Len(buffer) /\ DOMAIN buffer = 1..Len(buffer)
      /\ 1..n \subseteq DOMAIN buffer /\ \A k \in DOMAIN buffer : buffer[k] \in Swaps
      /\ Len(sent) \in Nat /\ DOMAIN sent = 1..Len(sent) /\ sent \in Seq(News)
  BY <1>1 DEF SwapShapes
<1>7. PICK block : block = [i \in 1..n |-> Inserting(order[i])]
  OBVIOUS
<1>8. /\ block \in Seq(News) /\ Len(block) = n
      /\ \A i \in 1..n : block[i] = Inserting(order[i])
  <2>1. \A i \in 1..n : Inserting(order[i]) \in News
    BY <1>5, <1>6 DEF Inserting, News
  <2>2. block \in [1..n -> News]
    BY <1>7, <2>1
  <2>3. block \in Seq(News) /\ Len(block) = n
    BY <1>6, <2>2, IsASeq
  <2> QED BY <1>7, <2>3
<1>9. /\ sent' \in Seq(News) /\ DOMAIN sent' = 1..(Len(sent) + n)
      /\ \A j \in 1..(Len(sent) + n) :
            sent'[j] = IF j <= Len(sent) THEN sent[j] ELSE block[j - Len(sent)]
  <2>1. sent' = sent \o block
    BY <1>4, <1>7
  <2>2. /\ sent' \in Seq(News) /\ Len(sent') = Len(sent) + Len(block)
        /\ \A j \in 1..(Len(sent) + Len(block)) :
            sent'[j] = IF j <= Len(sent) THEN sent[j] ELSE block[j - Len(sent)]
    BY <1>6, <1>8, <2>1, ConcatProperties
  <2> QED BY <1>6, <1>8, <2>2
\* What is sent was sent before, or is one of those that are sent now.
<1>10. ASSUME NEW j \in DOMAIN sent'
       PROVE  \/ j \in DOMAIN sent /\ sent'[j] = sent[j]
              \/ j > Len(sent) /\ j - Len(sent) \in 1..n /\ sent'[j] = Inserting(order[j - Len(sent)])
  <2>1. CASE j <= Len(sent)
    BY <1>6, <1>9, <1>10, <2>1
  <2>2. CASE ~(j <= Len(sent))
    <3>1. j > Len(sent) /\ j - Len(sent) \in 1..n
      BY <1>6, <1>9, <1>10, <2>2
    <3>2. sent'[j] = block[j - Len(sent)]
      BY <1>9, <1>10, <2>2
    <3> QED BY <1>8, <3>1, <3>2
  <2> QED BY <2>1, <2>2
<1>11. \A j \in DOMAIN sent : j \in DOMAIN sent' /\ sent'[j] = sent[j]
  BY <1>6, <1>9
<1>12. \A i \in 1..n : Len(sent) + i \in DOMAIN sent' /\ sent'[Len(sent) + i] = Inserting(order[i])
  <2>1. SUFFICES ASSUME NEW i \in 1..n
                 PROVE  Len(sent) + i \in DOMAIN sent' /\ sent'[Len(sent) + i] = Inserting(order[i])
    OBVIOUS
  <2>2. /\ Len(sent) + i \in 1..(Len(sent) + n) /\ ~(Len(sent) + i <= Len(sent))
        /\ (Len(sent) + i) - Len(sent) = i
    BY <1>6
  <2> QED BY <1>8, <1>9, <2>2
<1>13. /\ buffer' \in Seq(Swaps) /\ DOMAIN buffer' = 1..(Len(buffer) - n)
       /\ \A k \in 1..(Len(buffer) - n) : buffer'[k] = buffer[n + k] /\ n + k \in DOMAIN buffer
  <2>0. buffer \in Seq(Swaps) /\ buffer' = SubSeq(buffer, n + 1, Len(buffer))
    BY <1>1, <1>3 DEF SwapShapes
  <2>1. buffer' \in Seq(Swaps) /\ Len(buffer') = Len(buffer) - n
    <3>1. \A i \in n + 1 .. Len(buffer) : buffer[i] \in Swaps
      BY <1>6
    <3>2. n + 1 \in Int /\ Len(buffer) \in Int
      BY <1>6
    <3>3. /\ buffer' \in Seq(Swaps)
          /\ Len(buffer') = IF n + 1 <= Len(buffer) THEN Len(buffer) - (n + 1) + 1 ELSE 0
      BY <2>0, <3>1, <3>2, SubSeqProperties
    <3>4. CASE n + 1 <= Len(buffer)
      BY <1>6, <3>3, <3>4
    <3>5. CASE n = Len(buffer)
      <4>1. ~(n + 1 <= Len(buffer)) /\ Len(buffer) - n = 0
        BY <1>6, <3>5
      <4> QED BY <3>3, <4>1
    <3>6. n + 1 <= Len(buffer) \/ n = Len(buffer)
      <4>1. n \in Int /\ Len(buffer) \in Int /\ n <= Len(buffer)
        BY <1>6
      <4> HIDE <1>6
      <4> QED BY <4>1, SMT
    <3> QED BY <3>4, <3>5, <3>6
  <2>2. ASSUME NEW k \in 1..(Len(buffer) - n) PROVE buffer'[k] = buffer[n + k] /\ n + k \in DOMAIN buffer
    <3>1. buffer'[k] = buffer[(n + 1) + k - 1]
      BY <1>6, <2>0
    <3> QED BY <1>6, <3>1
  <2> QED BY <1>6, <2>1, <2>2
<1>14. SwapShapes'
  BY <1>1, <1>2, <1>9, <1>13 DEF SwapShapes
<1>15. InCommitOrder'
  <2>1. \A j \in DOMAIN sent' : /\ Among(announced, sent'[j])
                                /\ \A i \in DOMAIN arriving : Before(announced, sent'[j], arriving[i])
    <3>1. SUFFICES ASSUME NEW j \in DOMAIN sent'
                   PROVE  /\ Among(announced, sent'[j])
                          /\ \A i \in DOMAIN arriving : Before(announced, sent'[j], arriving[i])
      OBVIOUS
    <3>2. CASE j \in DOMAIN sent /\ sent'[j] = sent[j]
      BY <1>1, <3>2 DEF InCommitOrder
    <3>3. CASE j - Len(sent) \in 1..n /\ sent'[j] = Inserting(order[j - Len(sent)])
      <4>1. PICK k \in DOMAIN buffer : order[j - Len(sent)] = buffer[k]
        BY <1>5, <1>6, <3>3
      <4> QED BY <1>1, <3>3, <4>1 DEF InCommitOrder
    <3> QED BY <1>10, <3>2, <3>3
  <2>2. \A k \in DOMAIN buffer' : /\ Among(announced, Inserting(buffer'[k]))
                                  /\ \A i \in DOMAIN arriving : Before(announced, Inserting(buffer'[k]), arriving[i])
    BY <1>1, <1>13 DEF InCommitOrder
  <2> QED BY <1>1, <1>2, <2>1, <2>2 DEF InCommitOrder
<1>16. HeldBack'
  <2>1. ASSUME NEW k \in DOMAIN buffer', NEW l \in DOMAIN buffer', k # l
        PROVE  TxOf[buffer'[k]] # TxOf[buffer'[l]]
    <3>1. n + k # n + l /\ n + k \in DOMAIN buffer /\ n + l \in DOMAIN buffer
      BY <1>6, <1>13, <2>1
    <3>2. buffer'[k] = buffer[n + k] /\ buffer'[l] = buffer[n + l]
      BY <1>13, <2>1
    <3>3. TxOf[buffer[n + k]] # TxOf[buffer[n + l]]
      BY <1>1, <3>1 DEF HeldBack
    <3> QED BY <3>2, <3>3
  <2>2. ASSUME NEW k \in DOMAIN buffer', NEW j \in DOMAIN sent'
        PROVE  sent'[j].swap # buffer'[k]
    <3>1. CASE j \in DOMAIN sent /\ sent'[j] = sent[j]
      BY <1>1, <1>13, <3>1 DEF HeldBack
    <3>2. CASE j - Len(sent) \in 1..n /\ sent'[j] = Inserting(order[j - Len(sent)])
      <4>1. PICK l \in 1..n : order[j - Len(sent)] = buffer[l]
        BY <1>5, <3>2
      <4>2. l # n + k /\ l \in DOMAIN buffer
        BY <1>6, <1>13
      <4>3. buffer[l] # buffer[n + k]
        BY <1>1, <1>13, <4>2 DEF HeldBack
      <4> QED BY <1>13, <3>2, <4>1, <4>3 DEF Inserting
    <3> QED BY <1>10, <3>1, <3>2
  <2> QED BY <2>1, <2>2 DEF HeldBack
<1>17. Swap!NewestLast'
  <2>1. SUFFICES ASSUME NEW i \in DOMAIN sent', NEW j \in DOMAIN sent', i < j,
                        sent'[i].swap = sent'[j].swap
                 PROVE  sent'[i].op = "INSERT" /\ sent'[j].op = "UPDATE"
    BY DEF Swap!NewestLast
  <2>2. CASE j \in DOMAIN sent
    <3>1. i \in DOMAIN sent
      BY <1>6, <1>9, <2>1, <2>2
    <3> QED BY <1>1, <1>11, <2>1, <2>2, <3>1 DEF Swap!NewestLast
  <2>3. CASE i \in DOMAIN sent /\ j \notin DOMAIN sent
    <3>1. j - Len(sent) \in 1..n /\ sent'[j] = Inserting(order[j - Len(sent)])
      BY <1>10, <2>3
    <3>2. PICK k \in DOMAIN buffer : order[j - Len(sent)] = buffer[k]
      BY <1>5, <1>6, <3>1
    <3>3. sent[i].swap # buffer[k] /\ sent'[i] = sent[i]
      BY <1>1, <1>11, <2>3 DEF HeldBack
    <3> QED BY <2>1, <3>1, <3>2, <3>3 DEF Inserting
  <2>4. CASE i \notin DOMAIN sent /\ j \notin DOMAIN sent
    <3>1. /\ i - Len(sent) \in 1..n /\ sent'[i] = Inserting(order[i - Len(sent)])
          /\ j - Len(sent) \in 1..n /\ sent'[j] = Inserting(order[j - Len(sent)])
      BY <1>10, <2>4
    <3>2. i - Len(sent) # j - Len(sent)
      BY <1>6, <1>9, <2>1
    <3>3. order[i - Len(sent)] # order[j - Len(sent)]
      BY <1>5, <3>1, <3>2
    <3> QED BY <2>1, <3>1, <3>3 DEF Inserting
  <2> QED BY <2>2, <2>3, <2>4
<1>18. ASSUME NEW t \in Swaps, Somewhere(t) PROVE Somewhere(t)'
  <2>1. CASE \E k \in DOMAIN buffer : buffer[k] = t
    <3>1. PICK k \in DOMAIN buffer : buffer[k] = t
      BY <2>1
    <3>2. CASE k <= n
      <4>0. k \in 1..n
        BY <1>6, <3>2
      <4>1. PICK i \in 1..n : order[i] = t
        BY <1>5, <3>1, <4>0
      <4>2. Len(sent) + i \in DOMAIN sent' /\ sent'[Len(sent) + i] = Inserting(t)
        BY <1>12, <4>1
      <4>3. sent'[Len(sent) + i].swap = t
        BY <4>2 DEF Inserting
      <4> QED BY <4>2, <4>3 DEF Somewhere
    <3>3. CASE k > n
      <4>1. k - n \in DOMAIN buffer' /\ n + (k - n) = k
        BY <1>6, <1>13, <3>3
      <4>2. buffer'[k - n] = t
        BY <1>13, <3>1, <4>1
      <4> QED BY <4>1, <4>2 DEF Somewhere
    <3> QED BY <1>6, <3>2, <3>3
  <2>2. CASE \E j \in DOMAIN sent : sent[j].swap = t
    <3>1. PICK j \in DOMAIN sent : sent[j].swap = t
      BY <2>2
    <3>2. j \in DOMAIN sent' /\ sent'[j].swap = t
      BY <1>11, <3>1
    <3> QED BY <3>2 DEF Somewhere
  <2>3. CASE \/ \E i \in DOMAIN arriving : arriving[i] = Inserting(t)
             \/ t \in missed
             \/ \E i, j \in DOMAIN announced :
                   /\ i < j /\ announced[i].swap = t /\ announced[j].swap # t
                   /\ TxOf[announced[j].swap] = TxOf[t]
    BY <1>2, <2>3 DEF Somewhere
  <2> QED BY <1>18, <2>1, <2>2, <2>3 DEF Somewhere
<1> QED BY <1>2, <1>14, <1>15, <1>16, <1>17, <1>18, ListenerKeeps

\* A connection fails, or a new session begins: what the old one had not
\* received is lost.
LEMMA SessionStep ==
    ASSUME SwapInv, Swap!Cut \/ Swap!Reconnect \/ Swap!ReconnectFails \/ Swap!Wake
    PROVE  SwapInv'
<1>1. UNCHANGED <<announced, buffer, sent, viewer, given, due>>
  BY DEF Swap!Cut, Swap!Reconnect, Swap!ReconnectFails, Swap!Wake
<1>2. \/ arriving' = arriving /\ missed' = missed
      \/ arriving' = <<>> /\ missed' = missed \cup Swap!Insertions(Swap!Range(arriving))
  BY DEF Swap!Cut, Swap!Reconnect, Swap!ReconnectFails, Swap!Wake
<1>3. arriving' \in Seq(News) /\ (arriving' = arriving \/ DOMAIN arriving' = {})
  <2>1. arriving \in Seq(News)
    BY DEF SwapInv, SwapShapes
  <2>2. <<>> \in Seq(News) /\ DOMAIN <<>> = {}
    OBVIOUS
  <2> QED BY <1>2, <2>1, <2>2
<1>4. SwapShapes'
  BY <1>1, <1>3 DEF SwapInv, SwapShapes
<1>5. InCommitOrder'
  BY <1>1, <1>3 DEF SwapInv, InCommitOrder
<1>6. HeldBack' /\ Swap!NewestLast'
  BY <1>1 DEF SwapInv, HeldBack, Swap!NewestLast
<1>7. ASSUME NEW t \in Swaps, Somewhere(t) PROVE Somewhere(t)'
  <2>1. CASE \E i \in DOMAIN arriving : arriving[i] = Inserting(t)
    <3>1. PICK i \in DOMAIN arriving : arriving[i] = Inserting(t)
      BY <2>1
    <3>2. CASE arriving' = arriving
      BY <2>1, <3>2 DEF Somewhere
    <3>3. CASE missed' = missed \cup Swap!Insertions(Swap!Range(arriving))
      <4>1. arriving[i].op = "INSERT" /\ arriving[i].swap = t
        BY <3>1 DEF Inserting
      <4>2. t \in Swap!Insertions(Swap!Range(arriving))
        BY <4>1 DEF Swap!Insertions, Swap!Range
      <4> QED BY <3>3, <4>2 DEF Somewhere
    <3> QED BY <1>2, <3>2, <3>3
  <2>2. CASE \/ \E k \in DOMAIN buffer : buffer[k] = t
             \/ \E j \in DOMAIN sent : sent[j].swap = t
             \/ t \in missed
             \/ \E i, j \in DOMAIN announced :
                   /\ i < j /\ announced[i].swap = t /\ announced[j].swap # t
                   /\ TxOf[announced[j].swap] = TxOf[t]
    BY <1>1, <1>2, <2>2 DEF Somewhere
  <2> QED BY <1>7, <2>1, <2>2 DEF Somewhere
<1> QED BY <1>1, <1>4, <1>5, <1>6, <1>7, ListenerKeeps

-----------------------------------------------------------------------------
(* A client's stream.                                                       *)

\* A step of one client, which keeps all that the listener has.
LEMMA ClientStep ==
    ASSUME SwapInv, NEW c \in Viewers,
           NEW v \in [open : BOOLEAN, next : Nat, lag : Nat], NEW g \in Seq(Nat),
           viewer' = [viewer EXCEPT ![c] = v],
           given' = [given EXCEPT ![c] = g],
           GapOK(v, g),
           UNCHANGED <<announced, arriving, buffer, sent, missed, due>>
    PROVE  SwapInv'
<1>1. ClientShapes'
  BY DEF SwapInv, ClientShapes
<1>2. GapsOK'
  <2>1. SUFFICES ASSUME NEW d \in Viewers PROVE GapOK(viewer'[d], given'[d])
    BY DEF GapsOK
  <2>2. CASE d = c
    BY <2>2 DEF SwapInv, ClientShapes
  <2>3. CASE d # c
    BY <2>3 DEF SwapInv, ClientShapes, GapsOK
  <2> QED BY <2>2, <2>3
<1>3. SwapShapes' /\ AnnouncedOnce' /\ InCommitOrder' /\ HeldBack' /\ Swap!NewestLast'
  BY DEF SwapInv, SwapShapes, AnnouncedOnce, InCommitOrder, HeldBack, Swap!NewestLast
<1>4. NothingVanishes'
  BY DEF SwapInv, NothingVanishes, Somewhere
<1> QED BY <1>1, <1>2, <1>3, <1>4 DEF SwapInv

LEMMA OldestIsPositive ==
    ASSUME SwapShapes, Capacity \in Nat
    PROVE  Swap!Oldest \in Nat /\ Swap!Oldest >= 1
BY DEF SwapShapes, Swap!Oldest

LEMMA SubscribeStep ==
    ASSUME SwapInv, MaxLag \in Nat, NEW c \in Viewers, Swap!Subscribe(c)
    PROVE  SwapInv'
<1>1. /\ GapOK(viewer[c], given[c]) /\ given[c] \in Seq(Nat) /\ Len(sent) \in Nat
      /\ given \in [Viewers -> Seq(Nat)] /\ viewer[c].next = 0
  BY DEF SwapInv, GapsOK, ClientShapes, SwapShapes, Swap!Subscribe
<1>2. PICK v : v = [open |-> TRUE, next |-> Len(sent) + 1, lag |-> 0]
  OBVIOUS
<1>3. /\ v \in [open : BOOLEAN, next : Nat, lag : Nat]
      /\ v.next = Len(sent) + 1 /\ v.lag = 0
  BY <1>1, <1>2
<1>4. given[c] = <<>>
  BY <1>1 DEF GapOK
<1>5. GapOK(v, given[c])
  BY <1>1, <1>3, <1>4 DEF GapOK
<1>6. given' = [given EXCEPT ![c] = given[c]]
  BY <1>1 DEF Swap!Subscribe
<1>7. viewer' = [viewer EXCEPT ![c] = v]
  BY <1>2 DEF Swap!Subscribe
<1> QED BY <1>1, <1>3, <1>5, <1>6, <1>7, ClientStep DEF Swap!Subscribe, Swap!listener

LEMMA GiveStep ==
    ASSUME SwapInv, MaxLag \in Nat, NEW c \in Viewers, Swap!Give(c)
    PROVE  SwapInv'
<1>1. /\ GapOK(viewer[c], given[c]) /\ given[c] \in Seq(Nat)
      /\ viewer[c] \in [open : BOOLEAN, next : Nat, lag : Nat] /\ viewer[c].open
  BY DEF SwapInv, GapsOK, ClientShapes, Swap!Give
<1>2. PICK w : w = [viewer[c] EXCEPT !.next = @ + 1]
  OBVIOUS
<1>22. PICK v : v = [w EXCEPT !.lag = 0]
  OBVIOUS
<1>23. /\ w \in [open : BOOLEAN, next : Nat, lag : Nat]
       /\ w.next = viewer[c].next + 1
  BY <1>1, <1>2
<1>3. PICK g : g = Append(given[c], viewer[c].next)
  OBVIOUS
<1>4. /\ v \in [open : BOOLEAN, next : Nat, lag : Nat]
      /\ v.next = viewer[c].next + 1 /\ v.lag = 0
  BY <1>22, <1>23
<1>5. /\ g \in Seq(Nat) /\ Len(given[c]) \in Nat /\ Len(g) = Len(given[c]) + 1
      /\ g[Len(g)] = viewer[c].next /\ \A i \in 1..Len(given[c]) : g[i] = given[c][i]
  BY <1>1, <1>3
<1>6. GapOK(v, g)
  <2>1. \A i \in 2..Len(g) : g[i] - g[i - 1] <= MaxLag + 1
    <3>1. SUFFICES ASSUME NEW i \in 2..Len(g) PROVE g[i] - g[i - 1] <= MaxLag + 1
      OBVIOUS
    <3>2. CASE i <= Len(given[c])
      <4>1. i \in 2..Len(given[c]) /\ g[i] = given[c][i] /\ g[i - 1] = given[c][i - 1]
        BY <1>5, <3>2
      <4> QED BY <1>1, <4>1 DEF GapOK
    <3>3. CASE i = Len(given[c]) + 1
      <4>3. i - 1 = Len(given[c]) /\ Len(given[c]) >= 1 /\ i = Len(g)
        BY <1>5, <3>3
      <4>4. g[i] = viewer[c].next /\ g[i - 1] = given[c][i - 1]
        BY <1>5, <4>3
      <4>5. given[c] # <<>>
        BY <4>3
      <4>6. Len(given[c]) \in DOMAIN given[c]
        BY <1>1, <1>5, <4>3
      <4>7. given[c][Len(given[c])] \in Nat
        BY <1>1, <4>6
      <4>1. /\ given[c] # <<>> /\ i - 1 = Len(given[c]) /\ g[i - 1] = given[c][Len(given[c])]
            /\ g[i] = viewer[c].next /\ given[c][Len(given[c])] \in Nat
        BY <4>3, <4>4, <4>5, <4>7
      <4>2. /\ given[c][Len(given[c])] + viewer[c].lag + 1 = viewer[c].next
            /\ viewer[c].lag <= MaxLag /\ viewer[c].lag \in Nat /\ viewer[c].next \in Nat
        BY <1>1, <4>1 DEF GapOK
      <4> QED BY <4>1, <4>2
    <3> QED BY <1>5, <3>2, <3>3
  <2>2. v.next \in Nat /\ v.lag \in Nat /\ v.lag <= MaxLag /\ v.next # 0
    <3>1. viewer[c].next \in Nat /\ 0 <= MaxLag
      BY <1>1
    <3> QED BY <1>4, <3>1
  <2>3. g[Len(g)] + v.lag + 1 = v.next
    <3>1. viewer[c].next \in Nat
      BY <1>1
    <3> QED BY <1>4, <1>5, <3>1
  <2> QED BY <1>5, <2>1, <2>2, <2>3 DEF GapOK
<1>7. viewer' = [viewer EXCEPT ![c] = v]
  <2>1. viewer' = [[viewer EXCEPT ![c].next = @ + 1] EXCEPT ![c].lag = 0]
    BY DEF Swap!Give
  <2>2. [viewer EXCEPT ![c].next = @ + 1] = [viewer EXCEPT ![c] = w]
    BY <1>1, <1>2 DEF SwapInv, ClientShapes
  <2>3. [[viewer EXCEPT ![c] = w] EXCEPT ![c].lag = 0] = [viewer EXCEPT ![c] = v]
    BY <1>1, <1>22 DEF SwapInv, ClientShapes
  <2> QED BY <2>1, <2>2, <2>3
<1>8. given' = [given EXCEPT ![c] = g]
  BY <1>3 DEF Swap!Give
<1> QED BY <1>4, <1>5, <1>6, <1>7, <1>8, ClientStep DEF Swap!Give, Swap!listener

LEMMA LaggedStep ==
    ASSUME SwapInv, MaxLag \in Nat, Capacity \in Nat, NEW c \in Viewers, Swap!Lagged(c)
    PROVE  SwapInv'
<1>1. /\ GapOK(viewer[c], given[c]) /\ given[c] \in Seq(Nat)
      /\ given \in [Viewers -> Seq(Nat)]
      /\ viewer[c] \in [open : BOOLEAN, next : Nat, lag : Nat]
      /\ viewer[c].next \in Nat /\ viewer[c].lag \in Nat
      /\ viewer[c].next < Swap!Oldest /\ Swap!Oldest \in Nat /\ Swap!Oldest >= 1
  BY OldestIsPositive DEF SwapInv, GapsOK, ClientShapes, Swap!Lagged
<1>2. PICK lag : lag = viewer[c].lag + Swap!Oldest - viewer[c].next
  OBVIOUS
<1>3. PICK v : v = [open |-> lag <= MaxLag, next |-> Swap!Oldest, lag |-> lag]
  OBVIOUS
<1>4. lag \in Nat
  BY <1>1, <1>2
<1>5. /\ v \in [open : BOOLEAN, next : Nat, lag : Nat]
      /\ v.open => lag <= MaxLag
      /\ v.next = Swap!Oldest /\ v.lag = lag
  <2>1. CASE lag <= MaxLag
    <3>1. v = [open |-> TRUE, next |-> Swap!Oldest, lag |-> lag]
      BY <1>3, <2>1
    <3> QED BY <1>1, <1>4, <2>1, <3>1
  <2>2. CASE ~(lag <= MaxLag)
    <3>3. (lag <= MaxLag) = FALSE
      BY <2>2
    <3>1. v = [open |-> FALSE, next |-> Swap!Oldest, lag |-> lag]
      BY <1>3, <3>3, Zenon
    <3>2. ~v.open /\ v.next = Swap!Oldest /\ v.lag = lag
      BY <3>1
    <3> QED BY <1>1, <1>4, <3>1, <3>2
  <2> QED BY <2>1, <2>2
<1>6. given[c] # <<>> => given[c][Len(given[c])] + lag + 1 = Swap!Oldest
  <2>1. SUFFICES ASSUME given[c] # <<>> PROVE given[c][Len(given[c])] + lag + 1 = Swap!Oldest
    OBVIOUS
  <2>2. given[c][Len(given[c])] \in Nat
    BY <1>1, <2>1
  <2>3. given[c][Len(given[c])] + viewer[c].lag + 1 = viewer[c].next
    BY <1>1, <2>1 DEF GapOK
  <2>4. ASSUME NEW x \in Nat, NEW l \in Nat, NEW n \in Nat, NEW o \in Nat,
               x + l + 1 = n
        PROVE  x + (l + o - n) + 1 = o
    BY <2>4
  <2>5. viewer[c].lag \in Nat /\ viewer[c].next \in Nat /\ Swap!Oldest \in Nat
    BY <1>1
  <2>6. given[c][Len(given[c])] + (viewer[c].lag + Swap!Oldest - viewer[c].next) + 1 = Swap!Oldest
    BY <2>2, <2>3, <2>4, <2>5, SMTT(20)
  <2> QED BY <1>2, <2>6
<1>7. GapOK(v, given[c])
  BY <1>1, <1>4, <1>5, <1>6 DEF GapOK
<1>8. viewer' = [viewer EXCEPT ![c] = v]
  BY <1>2, <1>3 DEF Swap!Lagged
<1>9. given' = [given EXCEPT ![c] = given[c]]
  BY <1>1 DEF Swap!Lagged
<1> QED BY <1>1, <1>5, <1>7, <1>8, <1>9, ClientStep DEF Swap!Lagged, Swap!listener

LEMMA LeaveStep ==
    ASSUME SwapInv, NEW c \in Viewers, Swap!Leave(c)
    PROVE  SwapInv'
<1>1. /\ GapOK(viewer[c], given[c]) /\ given[c] \in Seq(Nat)
      /\ given \in [Viewers -> Seq(Nat)]
      /\ viewer[c] \in [open : BOOLEAN, next : Nat, lag : Nat]
  BY DEF SwapInv, GapsOK, ClientShapes
<1>2. PICK v : v = [viewer[c] EXCEPT !.open = FALSE]
  OBVIOUS
<1>3. /\ v \in [open : BOOLEAN, next : Nat, lag : Nat] /\ ~v.open
      /\ v.next = viewer[c].next /\ v.lag = viewer[c].lag
  BY <1>1, <1>2
<1>4. GapOK(v, given[c])
  BY <1>1, <1>3 DEF GapOK
<1>5. viewer' = [viewer EXCEPT ![c] = v]
  BY <1>1, <1>2 DEF Swap!Leave, SwapInv, ClientShapes
<1>6. given' = [given EXCEPT ![c] = given[c]]
  BY <1>1 DEF Swap!Leave
<1> QED BY <1>1, <1>3, <1>4, <1>5, <1>6, ClientStep DEF Swap!Leave, Swap!listener

-----------------------------------------------------------------------------

LEMMA SwapInit == ASSUME MaxLag \in Nat, Swap!Init PROVE SwapInv
<1>1. /\ announced = <<>> /\ arriving = <<>> /\ buffer = <<>> /\ sent = <<>>
      /\ DOMAIN announced = {} /\ DOMAIN arriving = {} /\ DOMAIN buffer = {} /\ DOMAIN sent = {}
      /\ viewer = [c \in Viewers |-> [open |-> FALSE, next |-> 0, lag |-> 0]]
      /\ given = [c \in Viewers |-> <<>>] /\ due = [c \in Viewers |-> {}]
  BY DEF Swap!Init
<1>2. SwapShapes
  BY <1>1 DEF SwapShapes
<1>3. ClientShapes
  BY <1>1 DEF ClientShapes
<1>4. AnnouncedOnce /\ InCommitOrder /\ HeldBack /\ Swap!NewestLast
  BY <1>1 DEF AnnouncedOnce, InCommitOrder, HeldBack, Swap!NewestLast
<1>5. NothingVanishes
  BY <1>1 DEF NothingVanishes, Among
<1>6. GapsOK
  <2>1. SUFFICES ASSUME NEW c \in Viewers PROVE GapOK(viewer[c], given[c])
    BY DEF GapsOK
  <2>2. given[c] = <<>> /\ viewer[c].next = 0 /\ viewer[c].lag = 0
    BY <1>1
  <2> QED BY <2>2 DEF GapOK
<1> QED BY <1>2, <1>3, <1>4, <1>5, <1>6 DEF SwapInv

LEMMA SwapNext ==
    ASSUME MaxLag \in Nat, Capacity \in Nat, SwapInv, [Swap!Next]_Swap!vars
    PROVE  SwapInv'
<1>1. ASSUME NEW s \in Swaps, Swap!Insert(s) \/ Swap!Update(s) PROVE SwapInv'
  BY <1>1, InsertStep, UpdateStep
<1>2. ASSUME Swap!Receive \/ Swap!Tick PROVE SwapInv'
  BY <1>2, ReceiveStep, TickStep
<1>3. ASSUME Swap!Cut \/ Swap!Reconnect \/ Swap!ReconnectFails \/ Swap!Wake PROVE SwapInv'
  BY <1>3, SessionStep
<1>4. ASSUME NEW c \in Viewers,
             Swap!Subscribe(c) \/ Swap!Give(c) \/ Swap!Lagged(c) \/ Swap!Leave(c)
      PROVE  SwapInv'
  BY <1>4, SubscribeStep, GiveStep, LaggedStep, LeaveStep
<1>5. ASSUME UNCHANGED Swap!vars PROVE SwapInv'
  <2>1. UNCHANGED <<announced, arriving, buffer, sent, viewer, given, due, missed>>
    BY <1>5 DEF Swap!vars, Swap!listener
  <2>2. SwapShapes' /\ InCommitOrder' /\ HeldBack' /\ Swap!NewestLast'
    BY <2>1 DEF SwapInv, SwapShapes, InCommitOrder, HeldBack, Swap!NewestLast
  <2>3. \A t \in Swaps : Somewhere(t) => Somewhere(t)'
    BY <2>1 DEF Somewhere
  <2> QED BY <2>1, <2>2, <2>3, ListenerKeeps
<1> QED BY <1>1, <1>2, <1>3, <1>4, <1>5 DEF Swap!Next

LEMMA SwapsDoReach == ASSUME SwapInv PROVE Swap!SwapsReach
<1>1. SUFFICES ASSUME NEW c \in Viewers, viewer[c].open, NEW s \in due[c]
               PROVE  s \in Swap!Range(buffer) \cup {n.swap : n \in Swap!Range(arriving)}
                           \cup Swap!Ahead(c) \cup Swap!Given(c) \cup Swap!Skipped(c)
                           \cup missed \cup Swap!Displaced
  BY DEF Swap!SwapsReach
<1>2. s \in Swaps /\ Somewhere(s)
  BY <1>1 DEF SwapInv, NothingVanishes
<1>3. CASE \E k \in DOMAIN buffer : buffer[k] = s
  BY <1>3 DEF Swap!Range
<1>4. CASE \E i \in DOMAIN arriving : arriving[i] = Inserting(s)
  <2>1. PICK n \in Swap!Range(arriving) : n = Inserting(s)
    BY <1>4 DEF Swap!Range
  <2>2. n.swap = s
    BY <2>1 DEF Inserting
  <2> QED BY <2>1, <2>2
<1>5. CASE \E j \in DOMAIN sent : sent[j].swap = s
  <2>1. PICK j \in DOMAIN sent : sent[j].swap = s
    BY <1>5
  <2>2. /\ Len(sent) \in Nat /\ j \in 1..Len(sent) /\ viewer[c].next \in Nat
    BY <2>1 DEF SwapInv, SwapShapes, ClientShapes
  <2>3. CASE j >= viewer[c].next
    <3>1. j \in viewer[c].next..Len(sent)
      BY <2>2, <2>3
    <3> QED BY <2>1, <3>1 DEF Swap!Ahead
  <2>4. CASE \E i \in DOMAIN given[c] : given[c][i] = j
    BY <2>1, <2>4 DEF Swap!Given
  <2>5. CASE j < viewer[c].next /\ ~ \E i \in DOMAIN given[c] : given[c][i] = j
    <3>1. j \in 1..(viewer[c].next - 1) /\ j \notin Swap!Range(given[c])
      BY <2>2, <2>5 DEF Swap!Range
    <3> QED BY <2>1, <3>1 DEF Swap!Skipped
  <2> QED BY <2>2, <2>3, <2>4, <2>5
<1>6. CASE s \in missed
  BY <1>6
<1>7. CASE \E i, j \in DOMAIN announced :
              /\ i < j /\ announced[i].swap = s /\ announced[j].swap # s
              /\ TxOf[announced[j].swap] = TxOf[s]
  BY <1>2, <1>7 DEF Swap!Displaced
<1> QED BY <1>2, <1>3, <1>4, <1>5, <1>6, <1>7 DEF Somewhere

\* A step of Surfaces is a step of the swap stream or leaves it alone.
LEMMA SwapSteps == [Next]_vars => [Swap!Next]_Swap!vars
BY DEF Next, HistoryStep, SurfaceStep, FeedStep, SwapStep, MarketStep, PortfolioStep, vars, swapVars, Swap!vars,
       Swap!listener

\* dusk_stream.rs: a commit that an open stream has not told its client of is
\* on its way to it or the stream is about to end, and no frame's observation is
\* from before its slot, also where another stream asked for it.  Every swap that
\* was committed while a client is open is on its way to it, was given to it, was
\* skipped, was lost with a connection or gave its place to a later swap of its
\* transaction (db_listener.rs); an enriched swap is sent last; and what a client
\* misses between two frames is bounded by the lag it may have (grpc_server.rs).
THEOREM NoticesReachClients == Spec => []NoticesReach
<1>1. Init => GrpcInv /\ Grpc!FramesCover /\ SwapInv
  BY GrpcInit, SwapInit, SwapAssumption DEF Init, Grpc!Init, Grpc!FramesCover
<1>2. GrpcInv /\ Grpc!FramesCover /\ [Next]_vars => GrpcInv' /\ Grpc!FramesCover'
  BY GrpcStep, FramesStep, GrpcSteps
<1>3. SwapInv /\ [Next]_vars => SwapInv'
  BY SwapNext, SwapSteps, SwapAssumption
<1>4. GrpcInv /\ Grpc!FramesCover /\ SwapInv => NoticesReach
  <2>1. GrpcInv => Grpc!NoticesReach
    BY DEF GrpcInv
  <2>2. SwapInv => Swap!SwapsReach /\ Swap!NewestLast /\ Swap!GapsAreBounded
    BY SwapsDoReach, SwapAssumption DEF SwapInv, GapsOK, GapOK, Swap!GapsAreBounded
  <2> QED BY <2>1, <2>2 DEF NoticesReach
<1> QED BY <1>1, <1>2, <1>3, <1>4, PTL DEF Spec
-----------------------------------------------------------------------------
(* The readers of the history.                                              *)

\* Ids are drawn one after the other.
DrawnOK(ids) ==
    /\ ids \in [Logged -> Nat]
    /\ \A e, f \in Logged : ids[e] = ids[f] /\ ids[e] # 0 => e = f
    /\ \E top \in Nat : \A e \in Logged : ids[e] <= top

\* The committed versions: revisions count them, observations have the ids that
\* were drawn and keep them, and what is canonical was observed and stays so.
Version == [obs : [Logged -> Nat], canon : SUBSET Logged, revision : Nat]

NumberedOK(v, n, ids) ==
    /\ v.revision = n - 1
    /\ \A e \in Logged : v.obs[e] \in {0, ids[e]}
    /\ \A e \in v.canon : v.obs[e] # 0

Follows(u, v) ==
    /\ u.canon \subseteq v.canon
    /\ \A e \in Logged : u.obs[e] # 0 => v.obs[e] = u.obs[e]

VersionsOK(vs, ids) ==
    /\ vs \in Seq(Version) /\ Len(vs) >= 1
    /\ \A n \in 1..Len(vs) : NumberedOK(vs[n], n, ids)
    /\ \A m, n \in 1..Len(vs) : m <= n => Follows(vs[m], vs[n])

StoreOK == DrawnOK(drawn) /\ VersionsOK(versions, drawn)

\* An entry is what a read of some version computed.
EntryOK(entry) ==
    \E n \in 1..Len(versions) :
        /\ entry.key = History!KeyOf(n, entry.key.cursor)
        /\ entry.page = History!Page(n, entry.key.cursor)
        /\ entry.more = History!HasMore(n, entry.key.cursor)

Fields == {"at", "version", "key", "on", "cursor", "more", "seen", "from", "begun"}

\* x can take the page of its version: that of its first page, or a later one.
Ready(x) ==
    /\ x.more
    /\ x.version \in 1..Len(versions) /\ x.from \in 1..x.version
    /\ x.cursor = None => x.from = x.version

\* A walk has seen all of its first page's version down to its cursor, and of
\* the others only such as had drawn an id by then: the ids under the watermark
\* of that page were.
WalkOK(x) ==
    /\ DOMAIN x = Fields
    /\ x.from \in 0..Len(versions)
    /\ x.from = 0 => x.seen = {} /\ x.more
    /\ x.cursor # None =>
          /\ x.from # 0 /\ x.cursor.watermark = History!Watermark(x.from)
          /\ x.cursor.rank \in Nat
          /\ \A e \in History!Visible(x.from) : Rank[e] >= x.cursor.rank => e \in x.seen
    /\ x.cursor = None /\ x.more => x.seen = {}
    /\ ~x.more => History!Visible(x.from) \subseteq x.seen
    /\ x.seen \subseteq x.begun
    /\ x.from # 0 => \A e \in Logged :
          drawn[e] # 0 /\ drawn[e] <= History!Watermark(x.from) => e \in x.begun
    /\ x.at \in {"idle", "loading", "waiting"}
    /\ x.at # "idle" => Ready(x) /\ x.key = History!KeyOf(x.version, x.cursor)

WalksOK ==
    /\ DOMAIN walk = Walkers
    /\ \A w \in Walkers : WalkOK(walk[w])
    /\ \A w \in Walkers : walk[w].at = "waiting" =>
          /\ walk[w].on \in Walkers /\ walk[walk[w].on].at = "loading"
          /\ walk[walk[w].on].key = walk[w].key
    /\ \A p \in pending : p \in Walkers /\ walk[p].at = "loading"

\* A chart shows what some version had, but for samples that are late.
ChartOK(x) ==
    /\ x.missed \subseteq History!Late
    /\ x.until \in Nat
    /\ \E n \in 1..Len(versions) :
          /\ x.revision = History!QuoteRevision(n)
          /\ History!Candles(n, 1, x.until) \ x.shown \subseteq History!Late

ChartsOK == DOMAIN chart = Charts /\ \A c \in Charts : chart[c] # None => ChartOK(chart[c])

HistoryInv ==
    /\ StoreOK
    /\ \A entry \in entries : EntryOK(entry)
    /\ WalksOK /\ ChartsOK

-----------------------------------------------------------------------------
(* Lowest and highest numbers.                                              *)

LEMMA LowestOf ==
    ASSUME NEW S, S \subseteq Nat, S # {}
    PROVE  /\ History!Min(S) \in S /\ \A y \in S : History!Min(S) <= y
           /\ \E x \in S : \A y \in S : x <= y
<1>1. PICK x \in S : \A y \in S : <<y, x>> \notin OpToRel(<, Nat)
  BY WFMin, NatLessThanWellFounded
<1>2. \A y \in S : ~(y < x)
  BY <1>1 DEF OpToRel
<1>3. \A y \in S : x <= y
  <2>1. SUFFICES ASSUME NEW y \in S PROVE x <= y
    OBVIOUS
  <2>2. x \in Nat /\ y \in Nat /\ ~(y < x)
    BY <1>2
  <2> QED BY <2>2
<1> QED BY <1>3 DEF History!Min

LEMMA HighestOf ==
    ASSUME NEW n \in Nat, NEW S, S \subseteq 0..n, S # {}
    PROVE  History!Max(S) \in S /\ \A y \in S : y <= History!Max(S)
<1> DEFINE T == {n - x : x \in S}
<1>1. \A x \in S : x \in Nat /\ n - x \in Nat
  <2>1. SUFFICES ASSUME NEW x \in S PROVE x \in Nat /\ n - x \in Nat
    OBVIOUS
  <2>2. x \in 0..n
    OBVIOUS
  <2> QED BY <2>2, SMT
<1>2. T \subseteq Nat /\ T # {}
  BY <1>1
<1>3. PICK t \in T : \A y \in T : t <= y
  BY <1>2, LowestOf
<1>5. PICK x \in S : t = n - x
  BY <1>3
<1>6. \A y \in S : x >= y
  <2>1. SUFFICES ASSUME NEW y \in S PROVE x >= y
    OBVIOUS
  <2>2. n - y \in T
    OBVIOUS
  <2>3. n - x <= n - y
    BY <1>3, <1>5, <2>2
  <2> QED BY <1>1, <2>3
<1> HIDE DEF T
<1>7. History!Max(S) \in S /\ \A y \in S : History!Max(S) >= y
  BY <1>6 DEF History!Max
<1>8. \A y \in S : y \in Nat
  OBVIOUS
<1> QED BY <1>7, <1>8

LEMMA HistoryCardinality == \A S : History!Cardinality(S) = Cardinality(S)
BY DEF History!Cardinality, Cardinality, History!IsFiniteSet, IsFiniteSet

-----------------------------------------------------------------------------
(* Versions.                                                                *)

LEMMA VersionIs ==
    ASSUME StoreOK, NEW n \in 1..Len(versions)
    PROVE  /\ n \in Nat \ {0} /\ n - 1 \in Nat /\ Len(versions) \in Nat
           /\ versions[n] \in Version
           /\ versions[n].obs \in [Logged -> Nat] /\ versions[n].canon \subseteq Logged
           /\ versions[n].revision = n - 1
           /\ \A e \in Logged : versions[n].obs[e] \in {0, drawn[e]}
           /\ \A e \in versions[n].canon : versions[n].obs[e] # 0
           /\ \A e, f \in Logged :
                 versions[n].obs[e] = versions[n].obs[f] /\ versions[n].obs[e] # 0 => e = f
<1>0. versions \in Seq(Version) /\ NumberedOK(versions[n], n, drawn)
  BY DEF StoreOK, VersionsOK
<1>1. n \in Nat \ {0} /\ n - 1 \in Nat /\ Len(versions) \in Nat /\ versions[n] \in Version
  BY <1>0
<1>2. versions[n].obs \in [Logged -> Nat] /\ versions[n].canon \subseteq Logged
  BY <1>1 DEF Version
<1>3. /\ versions[n].revision = n - 1 /\ \A e \in Logged : versions[n].obs[e] \in {0, drawn[e]}
      /\ \A e \in versions[n].canon : versions[n].obs[e] # 0
  BY <1>0 DEF NumberedOK
<1>4. \A e, f \in Logged : drawn[e] = drawn[f] /\ drawn[e] # 0 => e = f
  BY DEF StoreOK, DrawnOK
<1>5. \A e, f \in Logged : versions[n].obs[e] = versions[n].obs[f] /\ versions[n].obs[e] # 0 => e = f
  BY <1>3, <1>4
<1> QED BY <1>1, <1>2, <1>3, <1>5

\* The highest of the ids of some events.
TopId(id, es) == History!Max({id[e] : e \in es} \cup {0})

LEMMA HighestId ==
    ASSUME StoreOK, NEW es \in SUBSET Logged, NEW id, \A e \in es : id[e] \in {0, drawn[e]}
    PROVE  /\ TopId(id, es) \in Nat
           /\ \A e \in es : id[e] <= TopId(id, es)
           /\ TopId(id, es) = 0 \/ \E e \in es : id[e] = TopId(id, es)
<1>1. PICK top \in Nat : \A e \in Logged : drawn[e] <= top
  BY DEF StoreOK, DrawnOK
<1>2. ASSUME NEW e \in es PROVE id[e] \in 0..top
  <2>1. drawn[e] \in Nat /\ drawn[e] <= top
    BY <1>1 DEF StoreOK, DrawnOK
  <2>2. id[e] = 0 \/ id[e] = drawn[e]
    OBVIOUS
  <2> QED BY <2>1, <2>2
<1>3. PICK ids : ids = {id[e] : e \in es} \cup {0}
  OBVIOUS
<1>4. ids \subseteq 0..top /\ ids # {}
  BY <1>2, <1>3
<1>5. History!Max(ids) \in ids /\ \A y \in ids : y <= History!Max(ids)
  BY <1>4, HighestOf
<1>6. History!Max(ids) \in Nat
  <2>1. PICK m : m = History!Max(ids)
    OBVIOUS
  <2>2. m \in 0..top
    BY <1>4, <1>5, <2>1
  <2> QED BY <2>1, <2>2
<1>7. TopId(id, es) = History!Max(ids)
  BY <1>3 DEF TopId
<1> QED BY <1>3, <1>5, <1>6, <1>7

LEMMA WatermarkIs ==
    ASSUME StoreOK, NEW n \in 1..Len(versions)
    PROVE  /\ History!Watermark(n) \in Nat
           /\ \A e \in Logged : versions[n].obs[e] <= History!Watermark(n)
           /\ \/ History!Watermark(n) = 0
              \/ \E e \in Logged : versions[n].obs[e] = History!Watermark(n)
<1>1. \A e \in Logged : versions[n].obs[e] \in {0, drawn[e]}
  BY VersionIs
<1>2. History!Watermark(n) = TopId(versions[n].obs, Logged)
  BY DEF History!Watermark, TopId
<1>3. PICK es : es = Logged
  OBVIOUS
<1>4. es \in SUBSET Logged /\ \A e \in es : versions[n].obs[e] \in {0, drawn[e]}
  BY <1>1, <1>3
<1>5. /\ TopId(versions[n].obs, es) \in Nat
      /\ \A e \in es : versions[n].obs[e] <= TopId(versions[n].obs, es)
      /\ TopId(versions[n].obs, es) = 0 \/ \E e \in es : versions[n].obs[e] = TopId(versions[n].obs, es)
  BY <1>4, HighestId
<1> QED BY <1>2, <1>3, <1>5

LEMMA RevisionIs ==
    ASSUME StoreOK, HistoryConstants, NEW n \in 1..Len(versions)
    PROVE  /\ History!QuoteRevision(n) \in Nat
           /\ \A e \in versions[n].canon \cap Charted : versions[n].obs[e] <= History!QuoteRevision(n)
           /\ \/ History!QuoteRevision(n) = 0
              \/ \E e \in versions[n].canon \cap Charted : versions[n].obs[e] = History!QuoteRevision(n)
<1>1. PICK es : es = versions[n].canon \cap Charted
  OBVIOUS
<1>2. es \in SUBSET Logged /\ \A e \in es : versions[n].obs[e] \in {0, drawn[e]}
  BY <1>1, VersionIs
<1>3. History!QuoteRevision(n) = TopId(versions[n].obs, es)
  BY <1>1 DEF History!QuoteRevision, History!Visible, TopId
<1> QED BY <1>1, <1>2, <1>3, HighestId

\* One key, one version.
LEMMA KeyTellsVersion ==
    ASSUME StoreOK, NEW m \in 1..Len(versions), NEW n \in 1..Len(versions),
           NEW c, NEW d, History!KeyOf(m, c) = History!KeyOf(n, d)
    PROVE  m = n /\ c = d
<1>1. versions[m].revision = versions[n].revision /\ c = d
  BY DEF History!KeyOf
<1>2. versions[m].revision = m - 1 /\ versions[n].revision = n - 1 /\ m \in Nat /\ n \in Nat
  BY VersionIs
<1> HIDE DEF History!KeyOf
<1>3. m - 1 = n - 1
  BY <1>1, <1>2
<1> QED BY <1>1, <1>2, <1>3

\* What a transaction sees of a version does not change.
LEMMA SameAt ==
    ASSUME NEW n, versions'[n] = versions[n], NEW c
    PROVE  /\ History!Visible(n)' = History!Visible(n)
           /\ History!Watermark(n)' = History!Watermark(n)
           /\ History!QuoteRevision(n)' = History!QuoteRevision(n)
           /\ History!KeyOf(n, c)' = History!KeyOf(n, c)
           /\ History!Page(n, c)' = History!Page(n, c)
           /\ History!HasMore(n, c)' = History!HasMore(n, c)
<1>1. History!Visible(n)' = History!Visible(n)
  BY DEF History!Visible
<1>2. History!Watermark(n)' = History!Watermark(n)
  BY DEF History!Watermark
<1>3. History!QuoteRevision(n)' = History!QuoteRevision(n)
  BY DEF History!QuoteRevision, History!Visible
<1>4. History!KeyOf(n, c)' = History!KeyOf(n, c)
  BY <1>2 DEF History!KeyOf
<1>5. History!PageWatermark(n, c)' = History!PageWatermark(n, c)
  BY <1>2 DEF History!PageWatermark
<1>6. \A m : History!Matching(n, m, c)' = History!Matching(n, m, c)
  BY <1>1 DEF History!Matching, History!Visible
<1>7. /\ History!Page(n, c)' = History!Page(n, c)
      /\ History!HasMore(n, c)' = History!HasMore(n, c)
  BY <1>5, <1>6 DEF History!Page, History!HasMore
<1> QED BY <1>1, <1>2, <1>3, <1>4, <1>7

LEMMA CandlesSame ==
    ASSUME NEW n, versions'[n] = versions[n], NEW from, NEW until
    PROVE  History!Candles(n, from, until)' = History!Candles(n, from, until)
BY DEF History!Candles, History!Visible

\* A version is appended that observes an event or publishes one.
LEMMA VersionAdded ==
    ASSUME StoreOK, NEW e \in Logged, NEW v,
           v.revision = Len(versions), versions' = Append(versions, v), drawn' = drawn,
           \/ /\ versions[Len(versions)].obs[e] = 0 /\ drawn[e] # 0
              /\ v = [versions[Len(versions)] EXCEPT !.obs[e] = drawn[e], !.revision = @ + 1]
           \/ /\ versions[Len(versions)].obs[e] # 0
              /\ v = [versions[Len(versions)] EXCEPT !.canon = @ \cup {e}, !.revision = @ + 1]
    PROVE  StoreOK'
<1> DEFINE N == Len(versions)
           u == versions[N]
<1>1. /\ N \in Nat /\ N >= 1 /\ N \in 1..N
      /\ u \in Version
      /\ u.obs \in [Logged -> Nat] /\ u.canon \subseteq Logged /\ u.revision = N - 1
      /\ \A f \in Logged : u.obs[f] \in {0, drawn[f]}
      /\ \A f \in u.canon : u.obs[f] # 0
  <2>1. N \in Nat /\ N >= 1 /\ N \in 1..N
    BY DEF StoreOK, VersionsOK
  <2> QED BY <2>1, VersionIs
<1>2. drawn[e] \in Nat
  BY DEF StoreOK, DrawnOK
<1> HIDE DEF u
<1>4. /\ v \in Version
      /\ \/ /\ u.obs[e] = 0 /\ drawn[e] # 0
            /\ v.obs = [u.obs EXCEPT ![e] = drawn[e]] /\ v.canon = u.canon
         \/ /\ u.obs[e] # 0 /\ v.obs = u.obs /\ v.canon = u.canon \cup {e}
  <2>1. CASE u.obs[e] = 0
    <3>1. v = [u EXCEPT !.obs[e] = drawn[e], !.revision = @ + 1] /\ drawn[e] # 0
      BY <2>1 DEF u
    <3>2. PICK t : t = [u EXCEPT !.obs[e] = drawn[e]]
      OBVIOUS
    <3>3. /\ t \in Version
          /\ t.obs = [u.obs EXCEPT ![e] = drawn[e]] /\ t.canon = u.canon /\ t.revision = u.revision
      <4>2. PICK o : o = [u.obs EXCEPT ![e] = drawn[e]]
        OBVIOUS
      <4>3. o \in [Logged -> Nat]
        BY <1>1, <1>2, <4>2
      <4>4. t = [u EXCEPT !.obs = o]
        BY <1>1, <3>2, <4>2
      <4> QED BY <1>1, <4>2, <4>3, <4>4 DEF Version
    <3>4. v = [t EXCEPT !.revision = @ + 1]
      BY <1>1, <3>1, <3>2 DEF Version
    <3>5. /\ v \in Version /\ v.obs = t.obs /\ v.canon = t.canon
      <4>1. PICK r \in Nat : r = t.revision + 1
        BY <1>1, <3>3
      <4>2. v = [t EXCEPT !.revision = r]
        BY <3>3, <3>4, <4>1 DEF Version
      <4> QED BY <3>3, <4>2 DEF Version
    <3> QED BY <2>1, <3>1, <3>3, <3>5
  <2>2. CASE u.obs[e] # 0
    <3>1. v = [u EXCEPT !.canon = @ \cup {e}, !.revision = @ + 1]
      BY <2>2 DEF u
    <3>2. PICK c, r : c = u.canon \cup {e} /\ r = u.revision + 1
      OBVIOUS
    <3>3. c \in SUBSET Logged /\ r \in Nat
      BY <1>1, <3>2
    <3>4. v = [[u EXCEPT !.canon = c] EXCEPT !.revision = r]
      BY <1>1, <3>1, <3>2 DEF Version
    <3>5. v \in Version /\ v.obs = u.obs /\ v.canon = c
      BY <1>1, <3>3, <3>4 DEF Version
    <3> QED BY <2>2, <3>2, <3>5
  <2> QED BY <2>1, <2>2
<1>5. /\ \A f \in Logged : v.obs[f] \in {0, drawn[f]}
      /\ \A f \in v.canon : v.obs[f] # 0
      /\ u.canon \subseteq v.canon
      /\ \A f \in Logged : u.obs[f] # 0 => v.obs[f] = u.obs[f]
  <2>1. CASE u.obs[e] # 0 /\ v.obs = u.obs /\ v.canon = u.canon \cup {e}
    BY <1>1, <2>1
  <2>2. CASE u.obs[e] = 0 /\ drawn[e] # 0 /\ v.obs = [u.obs EXCEPT ![e] = drawn[e]] /\ v.canon = u.canon
    <3>1. v.obs[e] = drawn[e] /\ \A f \in Logged : f # e => v.obs[f] = u.obs[f]
      BY <1>1, <2>2
    <3> QED BY <1>1, <2>2, <3>1
  <2> QED BY <1>4, <2>1, <2>2
<1>6. /\ versions' \in Seq(Version)
      /\ Len(versions') = N + 1 /\ versions'[N + 1] = v
      /\ \A n \in 1..N : versions'[n] = versions[n]
  BY <1>1, <1>4 DEF StoreOK, VersionsOK
<1>7. ASSUME NEW n \in 1..(N + 1) PROVE NumberedOK(versions'[n], n, drawn)
  <2>1. CASE n \in 1..N
    BY <1>6, <2>1 DEF StoreOK, VersionsOK
  <2>2. CASE n = N + 1
    <3>1. n - 1 = N /\ versions'[n] = v
      BY <1>1, <1>6, <2>2
    <3>2. v.revision = n - 1
      BY <3>1
    <3> QED BY <1>5, <3>1, <3>2 DEF NumberedOK
  <2> QED BY <1>1, <2>1, <2>2
<1>8. ASSUME NEW m \in 1..(N + 1), NEW n \in 1..(N + 1), m <= n
      PROVE  Follows(versions'[m], versions'[n])
  <2>1. CASE n \in 1..N
    <3>1. m \in 1..N
      BY <1>1, <1>8, <2>1
    <3> QED BY <1>6, <1>8, <2>1, <3>1 DEF StoreOK, VersionsOK
  <2>2. CASE n = N + 1 /\ m = N + 1
    BY <1>6, <2>2 DEF Follows
  <2>3. CASE n = N + 1 /\ m \in 1..N
    <3>1. versions'[n] = v /\ versions'[m] = versions[m]
      BY <1>6, <2>3
    <3>2. Follows(versions[m], u)
      <4>1. m <= N
        BY <1>1, <2>3
      <4> QED BY <1>1, <2>3, <4>1 DEF StoreOK, VersionsOK, u
    <3>3. ASSUME NEW f \in Logged, versions[m].obs[f] # 0 PROVE v.obs[f] = versions[m].obs[f]
      BY <1>5, <3>2, <3>3 DEF Follows
    <3>4. versions[m].canon \subseteq v.canon
      BY <1>5, <3>2 DEF Follows
    <3> QED BY <3>1, <3>3, <3>4 DEF Follows
  <2> QED BY <1>1, <2>1, <2>2, <2>3
<1>9. Len(versions') >= 1
  BY <1>1, <1>6
<1>10. VersionsOK(versions', drawn)
  BY <1>6, <1>7, <1>8, <1>9 DEF VersionsOK
<1> QED BY <1>10 DEF StoreOK

\* An INSERT draws the next id.
LEMMA IdDrawn ==
    ASSUME StoreOK, HistoryConstants, NEW e \in Logged, History!Draw(e)
    PROVE  /\ StoreOK' /\ DOMAIN drawn' = Logged
           /\ \A f \in Logged : f # e => drawn'[f] = drawn[f]
           /\ \A n \in 1..Len(versions) : History!Watermark(n) < drawn'[e]
           /\ drawn[e] = 0
<1>1. \A f \in Logged : drawn[f] \in {0, drawn[f]}
  OBVIOUS
<1>2. TopId(drawn, Logged) \in Nat /\ \A f \in Logged : drawn[f] <= TopId(drawn, Logged)
  BY <1>1, HighestId
<1>3. drawn[e] = 0 /\ UNCHANGED versions
  BY DEF History!Draw
<1>4. {drawn[f] : f \in Logged} \cup {0} = {drawn[f] : f \in Logged}
  BY <1>3
<1>5. PICK id \in Nat : id = TopId(drawn, Logged) + 1
  BY <1>2
<1>14. id = History!Max({drawn[f] : f \in Logged}) + 1
  BY <1>4, <1>5 DEF TopId
<1>6. drawn' = [drawn EXCEPT ![e] = id] /\ drawn \in [Logged -> Nat]
  BY <1>14 DEF History!Draw, StoreOK, DrawnOK
<1>7. /\ drawn' \in [Logged -> Nat] /\ drawn'[e] = id
      /\ \A f \in Logged : f # e => drawn'[f] = drawn[f]
  BY <1>6
<1>8. \A f \in Logged : drawn[f] \in Nat /\ drawn[f] < id /\ drawn'[f] <= id
  <2>1. SUFFICES ASSUME NEW f \in Logged PROVE drawn[f] \in Nat /\ drawn[f] < id /\ drawn'[f] <= id
    OBVIOUS
  <2>2. drawn[f] \in Nat /\ drawn[f] < id
    BY <1>2, <1>5, <1>6
  <2> QED BY <1>7, <2>2
<1>9. ASSUME NEW f \in Logged, NEW g \in Logged, drawn'[f] = drawn'[g], drawn'[f] # 0 PROVE f = g
  <2>1. CASE f # e /\ g # e
    BY <1>7, <1>9, <2>1 DEF StoreOK, DrawnOK
  <2>2. CASE f = e /\ g # e
    BY <1>7, <1>8, <1>9, <2>2
  <2>3. CASE f # e /\ g = e
    BY <1>7, <1>8, <1>9, <2>3
  <2> QED BY <2>1, <2>2, <2>3
<1>10. DrawnOK(drawn')
  BY <1>7, <1>8, <1>9 DEF DrawnOK
<1>11. ASSUME NEW n \in 1..Len(versions) PROVE NumberedOK(versions[n], n, drawn')
  <2>1. NumberedOK(versions[n], n, drawn)
    BY DEF StoreOK, VersionsOK
  <2>2. \A f \in Logged : drawn[f] # 0 => drawn'[f] = drawn[f]
    BY <1>3, <1>7
  <2> QED BY <2>1, <2>2 DEF NumberedOK
<1>12. VersionsOK(versions, drawn')
  BY <1>11 DEF StoreOK, VersionsOK
<1>13. ASSUME NEW n \in 1..Len(versions) PROVE History!Watermark(n) < drawn'[e]
  <2>1. CASE History!Watermark(n) = 0
    BY <1>5, <1>7, <1>8, <2>1
  <2>2. ASSUME NEW f \in Logged, versions[n].obs[f] = History!Watermark(n)
        PROVE  History!Watermark(n) < drawn'[e]
    <3>1. versions[n].obs[f] \in {0, drawn[f]}
      BY VersionIs
    <3>2. drawn[f] \in Nat /\ drawn[f] < id /\ id \in Nat
      BY <1>8
    <3> QED BY <1>7, <2>2, <3>1, <3>2
  <2> QED BY <2>1, <2>2, WatermarkIs
<1> QED BY <1>3, <1>7, <1>10, <1>12, <1>13 DEF StoreOK

-----------------------------------------------------------------------------
(* Pages.                                                                   *)

\* The page under a cursor holds the highest of what matches: with an event all
\* matching ones above it, and all of it if there is no more.
LEMMA PageIs ==
    ASSUME HistoryConstants, NEW M, M \subseteq Logged,
           NEW page, page = History!FirstOf(M, PageLimit)
    PROVE  /\ page \subseteq M
           /\ \A e \in page, f \in M : Rank[f] >= Rank[e] => f \in page
           /\ ~(Cardinality(M) > PageLimit) => page = M
           /\ Cardinality(M) > PageLimit => page # {}
<1> DEFINE Above(e) == {f \in M : Rank[f] > Rank[e]}
<1>1. IsFiniteSet(M) /\ Cardinality(M) \in Nat /\ PageLimit \in Nat \ {0}
  BY FS_Subset, FS_CardinalityType DEF HistoryConstants
<1>2. \A e \in M : Rank[e] \in Nat
  BY DEF HistoryConstants
<1>3. ASSUME NEW e \in M PROVE IsFiniteSet(Above(e)) /\ Cardinality(Above(e)) \in Nat
  <2>1. Above(e) \in SUBSET M
    OBVIOUS
  <2> HIDE DEF Above
  <2> QED BY <1>1, <2>1, FS_Subset, FS_CardinalityType
<1>4. page = {e \in M : Cardinality(Above(e)) < PageLimit}
  BY HistoryCardinality DEF History!FirstOf
<1>5. ASSUME NEW e \in M, NEW f \in M, Rank[f] >= Rank[e]
      PROVE  Cardinality(Above(f)) <= Cardinality(Above(e))
  <2>1. Above(f) \in SUBSET Above(e)
    <3>1. SUFFICES ASSUME NEW g \in Above(f) PROVE g \in Above(e)
      OBVIOUS
    <3>2. g \in M /\ Rank[g] > Rank[f] /\ Rank[g] \in Nat /\ Rank[e] \in Nat /\ Rank[f] \in Nat
      BY <1>2
    <3>3. Rank[g] > Rank[e]
      BY <1>5, <3>2
    <3> QED BY <3>2, <3>3
  <2> HIDE DEF Above
  <2> QED BY <1>3, <2>1, FS_Subset
<1>6. ASSUME NEW e \in M, NEW f \in M, Rank[f] > Rank[e]
      PROVE  Cardinality(Above(f)) < Cardinality(Above(e))
  <2>1. Rank[f] >= Rank[e] /\ ~(Rank[f] > Rank[f])
    BY <1>2, <1>6
  <2>2. f \in Above(e) /\ f \notin Above(f)
    BY <1>6, <2>1
  <2>3. Above(f) \in SUBSET Above(e)
    <3>1. SUFFICES ASSUME NEW g \in Above(f) PROVE g \in Above(e)
      OBVIOUS
    <3>2. g \in M /\ Rank[g] > Rank[f] /\ Rank[g] \in Nat /\ Rank[e] \in Nat /\ Rank[f] \in Nat
      BY <1>2
    <3>3. Rank[g] > Rank[e]
      BY <1>6, <3>2
    <3> QED BY <3>2, <3>3
  <2> HIDE DEF Above
  <2>4. Cardinality(Above(f)) <= Cardinality(Above(e)) /\ Cardinality(Above(f)) # Cardinality(Above(e))
    BY <1>3, <2>2, <2>3, FS_Subset
  <2> QED BY <1>3, <2>4
<1>7. ASSUME NEW e \in M PROVE Cardinality(Above(e)) < Cardinality(M)
  <2>1. Above(e) \in SUBSET M
    OBVIOUS
  <2>2. e \in M /\ e \notin Above(e)
    BY <1>2
  <2> HIDE DEF Above
  <2>3. Cardinality(Above(e)) <= Cardinality(M) /\ Cardinality(Above(e)) # Cardinality(M)
    BY <1>1, <2>1, <2>2, FS_Subset
  <2> QED BY <1>1, <1>3, <2>3
<1> HIDE DEF Above
<1>8. page \subseteq M
  BY <1>4
<1>9. ASSUME NEW e \in page, NEW f \in M, Rank[f] >= Rank[e] PROVE f \in page
  <2>1. Cardinality(Above(f)) <= Cardinality(Above(e)) /\ Cardinality(Above(e)) < PageLimit
        /\ Cardinality(Above(f)) \in Nat /\ Cardinality(Above(e)) \in Nat
    BY <1>3, <1>4, <1>5, <1>9
  <2>2. Cardinality(Above(f)) < PageLimit
    BY <1>1, <2>1
  <2> QED BY <1>4, <2>2
<1>10. ASSUME ~(Cardinality(M) > PageLimit) PROVE page = M
  <2>1. ASSUME NEW e \in M PROVE Cardinality(Above(e)) < PageLimit
    BY <1>1, <1>3, <1>7, <1>10
  <2> QED BY <1>4, <2>1
<1>11. ASSUME Cardinality(M) > PageLimit PROVE page # {}
  <2>1. M # {}
    BY <1>1, <1>11, FS_EmptySet
  <2>2. PICK counts : counts = {Cardinality(Above(e)) : e \in M}
    OBVIOUS
  <2>3. counts \subseteq Nat /\ counts # {}
    BY <1>3, <2>1, <2>2
  <2>4. PICK least \in counts : \A y \in counts : least <= y
    BY <2>3, LowestOf
  <2>5. PICK e \in M : least = Cardinality(Above(e))
    BY <2>2, <2>4
  <2>6. Above(e) = {}
    <3>1. SUFFICES ASSUME NEW f \in Above(e) PROVE FALSE
      OBVIOUS
    <3>2. f \in M /\ Rank[f] > Rank[e]
      BY DEF Above
    <3>3. Cardinality(Above(f)) < Cardinality(Above(e)) /\ Cardinality(Above(f)) \in counts
      BY <1>6, <2>2, <3>2
    <3>4. Cardinality(Above(e)) <= Cardinality(Above(f))
      BY <2>4, <2>5, <3>3
    <3> QED BY <1>3, <3>2, <3>3, <3>4
  <2>7. Cardinality(Above(e)) = 0
    BY <2>6, FS_EmptySet
  <2> QED BY <1>1, <1>4, <2>7
<1> QED BY <1>8, <1>9, <1>10, <1>11

-----------------------------------------------------------------------------
(* Walks.                                                                   *)

\* The next page of a walk: what it needs of it, and nothing newer.
LEMMA NextPage ==
    ASSUME StoreOK, HistoryConstants, NEW x, WalkOK(x), Ready(x),
           NEW page, page = History!Page(x.version, x.cursor)
    PROVE  /\ History!PageWatermark(x.version, x.cursor) = History!Watermark(x.from)
           /\ x.from \in 1..Len(versions)
           /\ page \subseteq Logged
           /\ page \subseteq x.begun
           /\ \A e \in History!Visible(x.from) :
                 e \in x.seen \/ \A f \in page : Rank[e] >= Rank[f] => e \in page
           /\ ~History!HasMore(x.version, x.cursor) =>
                 History!Visible(x.from) \subseteq x.seen \cup page
           /\ History!HasMore(x.version, x.cursor) => page # {}
<1>1. PICK n, k, c : n = x.version /\ k = x.from /\ c = x.cursor
  OBVIOUS
<1>2. n \in 1..Len(versions) /\ k \in 1..n /\ n \in Nat /\ Len(versions) \in Nat
  BY <1>1, VersionIs DEF Ready
<1>3. k \in 1..Len(versions) /\ k <= n
  BY <1>2
<1>4. PICK wm : wm = History!PageWatermark(n, c)
  OBVIOUS
<1>5. wm = History!Watermark(k)
  <2>1. CASE c = None
    BY <1>1, <1>4, <2>1 DEF Ready, History!PageWatermark
  <2>2. CASE c # None
    BY <1>1, <1>4, <2>2 DEF WalkOK, History!PageWatermark
  <2> QED BY <2>1, <2>2
<1>6. PICK M : M = History!Matching(n, wm, c)
  OBVIOUS
<1>7. page = History!FirstOf(M, PageLimit) /\ (History!HasMore(n, c) <=> Cardinality(M) > PageLimit)
  BY <1>1, <1>4, <1>6, HistoryCardinality DEF History!Page, History!HasMore
<1>8. M = {e \in versions[n].canon : versions[n].obs[e] <= wm /\ (c # None => Rank[e] < c.rank)}
  BY <1>6 DEF History!Matching, History!Visible
<1>9. versions[n].canon \subseteq Logged /\ \A e \in versions[n].canon : versions[n].obs[e] # 0
  BY <1>2, VersionIs
<1>10. M \subseteq Logged
  BY <1>8, <1>9
<1>11. /\ page \subseteq M
       /\ \A e \in page, f \in M : Rank[f] >= Rank[e] => f \in page
       /\ ~(Cardinality(M) > PageLimit) => page = M
       /\ Cardinality(M) > PageLimit => page # {}
  BY <1>7, <1>10, PageIs
<1>12. ASSUME NEW e \in page PROVE e \in x.begun
  <2>1. e \in Logged /\ versions[n].obs[e] <= wm /\ versions[n].obs[e] # 0
    BY <1>8, <1>9, <1>10, <1>11
  <2>2. versions[n].obs[e] = drawn[e]
    BY <1>2, <2>1, VersionIs
  <2>3. x.from # 0
    BY <1>1, <1>2
  <2> QED BY <1>1, <1>5, <2>1, <2>2, <2>3 DEF WalkOK
<1>13. ASSUME NEW e \in versions[k].canon PROVE e \in x.seen \/ e \in M
  <2>1. Follows(versions[k], versions[n])
    BY <1>2, <1>3 DEF StoreOK, VersionsOK
  <2>2. e \in Logged /\ versions[k].obs[e] # 0
    BY <1>3, VersionIs
  <2>3. e \in versions[n].canon /\ versions[n].obs[e] = versions[k].obs[e]
    BY <2>1, <2>2 DEF Follows
  <2>4. versions[n].obs[e] <= wm
    BY <1>3, <1>5, <2>2, <2>3, WatermarkIs
  <2>5. CASE c = None
    BY <1>8, <2>3, <2>4, <2>5
  <2>6. CASE c # None
    <3>1. c.rank \in Nat /\ Rank[e] \in Nat
      BY <1>1, <2>2, <2>6 DEF WalkOK, HistoryConstants
    <3>2. CASE Rank[e] < c.rank
      BY <1>8, <2>3, <2>4, <3>2
    <3>3. CASE Rank[e] >= c.rank
      BY <1>1, <2>6, <3>3 DEF WalkOK, History!Visible
    <3> QED BY <3>1, <3>2, <3>3
  <2> QED BY <2>5, <2>6
<1>14. ASSUME NEW e \in History!Visible(k), e \notin x.seen, NEW f \in page, Rank[e] >= Rank[f]
       PROVE  e \in page
  BY <1>11, <1>13, <1>14 DEF History!Visible
<1>15. ASSUME ~History!HasMore(n, c) PROVE History!Visible(k) \subseteq x.seen \cup page
  BY <1>7, <1>11, <1>13, <1>15 DEF History!Visible
<1>16. page \subseteq Logged
  BY <1>10, <1>11
<1> QED BY <1>1, <1>3, <1>4, <1>5, <1>7, <1>11, <1>12, <1>14, <1>15, <1>16

\* What accepting a page makes of a walk.
LEMMA AcceptFields ==
    ASSUME NEW x, DOMAIN x = Fields, NEW page, NEW more \in BOOLEAN,
           NEW y, y = History!Accept(x, page, more)
    PROVE  /\ DOMAIN y = Fields /\ y.at = "idle" /\ y.from = x.from /\ y.begun = x.begun
           /\ y.seen = x.seen \cup page
           /\ y.more = more
           /\ more => y.cursor = [watermark |-> History!PageWatermark(x.version, x.cursor),
                                  rank |-> History!Min({Rank[e] : e \in page})]
           /\ ~more => y.cursor = None
<1>1. PICK i : i = History!Idle(x)
  OBVIOUS
<1>2. /\ DOMAIN i = Fields /\ i.at = "idle" /\ i.from = x.from /\ i.seen = x.seen
      /\ i.begun = x.begun
  BY <1>1 DEF History!Idle, Fields
<1>3. PICK c : c = IF more THEN [watermark |-> History!PageWatermark(x.version, x.cursor),
                                 rank |-> History!Min({Rank[e] : e \in page})]
                   ELSE None
  OBVIOUS
<1>4. y = [i EXCEPT !.seen = i.seen \cup page, !.more = more, !.cursor = c]
  BY <1>1, <1>3 DEF History!Accept
<1>5. /\ DOMAIN y = Fields /\ y.at = i.at /\ y.from = i.from /\ y.seen = i.seen \cup page
      /\ y.begun = i.begun /\ y.more = more /\ y.cursor = c
  BY <1>2, <1>4 DEF Fields
<1> QED BY <1>2, <1>3, <1>5

LEMMA AcceptOK ==
    ASSUME StoreOK, HistoryConstants, NEW x, WalkOK(x), Ready(x),
           NEW y, y = History!Accept(x, History!Page(x.version, x.cursor),
                                     History!HasMore(x.version, x.cursor))
    PROVE  WalkOK(y) /\ y.at = "idle"
<1>1. PICK page, more : page = History!Page(x.version, x.cursor) /\ more = History!HasMore(x.version, x.cursor)
  OBVIOUS
<1>2. more \in BOOLEAN
  BY <1>1 DEF History!HasMore
<1>3. DOMAIN x = Fields
  BY DEF WalkOK
<1>4. /\ DOMAIN y = Fields /\ y.at = "idle" /\ y.from = x.from /\ y.begun = x.begun
      /\ y.seen = x.seen \cup page
      /\ y.more = more
      /\ more => y.cursor = [watermark |-> History!PageWatermark(x.version, x.cursor),
                             rank |-> History!Min({Rank[e] : e \in page})]
      /\ ~more => y.cursor = None
  BY <1>1, <1>2, <1>3, AcceptFields
<1>5. /\ History!PageWatermark(x.version, x.cursor) = History!Watermark(x.from)
      /\ x.from \in 1..Len(versions)
      /\ page \subseteq Logged
      /\ page \subseteq x.begun
      /\ \A e \in History!Visible(x.from) :
            e \in x.seen \/ \A f \in page : Rank[e] >= Rank[f] => e \in page
      /\ ~more => History!Visible(x.from) \subseteq x.seen \cup page
      /\ more => page # {}
  BY <1>1, NextPage
<1>6. x.from # 0 /\ x.from \in 0..Len(versions) /\ History!Watermark(x.from) \in Nat
  BY <1>5, VersionIs, WatermarkIs
<1>7. /\ y.seen \subseteq y.begun
      /\ \A e \in Logged : drawn[e] # 0 /\ drawn[e] <= History!Watermark(y.from) => e \in y.begun
  BY <1>4, <1>5, <1>6 DEF WalkOK
<1>8. CASE more
  <2>1. PICK rank : rank = History!Min({Rank[e] : e \in page})
    OBVIOUS
  <2>2. PICK ranks : ranks = {Rank[e] : e \in page}
    OBVIOUS
  <2>3. ranks \subseteq Nat /\ ranks # {}
    BY <1>5, <1>8, <2>2 DEF HistoryConstants
  <2>4. rank \in ranks /\ rank \in Nat
    BY <2>1, <2>2, <2>3, LowestOf
  <2>5. PICK f \in page : rank = Rank[f]
    BY <2>2, <2>4
  <2>6. y.cursor = [watermark |-> History!Watermark(x.from), rank |-> rank]
    BY <1>4, <1>5, <1>8, <2>1
  <2>7. y.cursor.watermark = History!Watermark(x.from) /\ y.cursor.rank = rank /\ y.cursor # None
    BY <1>6, <2>4, <2>6 DEF HistoryConstants
  <2>8. \A e \in History!Visible(x.from) : Rank[e] >= rank => e \in y.seen
    BY <1>4, <1>5, <2>5
  <2> QED BY <1>4, <1>6, <1>7, <1>8, <2>4, <2>7, <2>8 DEF WalkOK
<1>9. CASE ~more
  BY <1>4, <1>5, <1>6, <1>7, <1>9 DEF WalkOK
<1> QED BY <1>2, <1>8, <1>9

\* An id that is new is above every watermark so far.
IdsGrow ==
    \A e \in Logged : drawn'[e] = drawn[e] \/ \A n \in 1..Len(versions) : History!Watermark(n) < drawn'[e]

\* A later version or id changes nothing for a walk or an entry.
LEMMA WalkKept ==
    ASSUME StoreOK, IdsGrow, StoreOK', Len(versions') \in Nat, Len(versions) <= Len(versions'),
           \A n \in 1..Len(versions) : versions'[n] = versions[n],
           NEW x, WalkOK(x)
    PROVE  WalkOK(x)'
<1>1. Len(versions) \in Nat
  BY DEF StoreOK, VersionsOK
<1>2. x.from \in 0..Len(versions) /\ x.from \in 0..Len(versions')
  BY <1>1 DEF WalkOK
<1>3. x.from # 0 => /\ versions'[x.from] = versions[x.from]
                    /\ History!Visible(x.from)' = History!Visible(x.from)
                    /\ History!Watermark(x.from)' = History!Watermark(x.from)
  <2>1. SUFFICES ASSUME x.from # 0
                 PROVE  /\ versions'[x.from] = versions[x.from]
                        /\ History!Visible(x.from)' = History!Visible(x.from)
                        /\ History!Watermark(x.from)' = History!Watermark(x.from)
    OBVIOUS
  <2>2. PICK n : n = x.from
    OBVIOUS
  <2>3. versions'[n] = versions[n]
    BY <1>1, <1>2, <2>1, <2>2
  <2> QED BY <2>2, <2>3, SameAt
<1>4. Ready(x) => Ready(x)' /\ History!KeyOf(x.version, x.cursor)' = History!KeyOf(x.version, x.cursor)
  <2>1. SUFFICES ASSUME Ready(x)
                 PROVE  Ready(x)' /\ History!KeyOf(x.version, x.cursor)' = History!KeyOf(x.version, x.cursor)
    OBVIOUS
  <2>2. PICK n, c : n = x.version /\ c = x.cursor
    OBVIOUS
  <2>3. n \in 1..Len(versions) /\ n \in 1..Len(versions')
    BY <1>1, <2>1, <2>2 DEF Ready
  <2>4. History!KeyOf(n, c)' = History!KeyOf(n, c)
    BY <2>3, SameAt
  <2> QED BY <2>1, <2>2, <2>3, <2>4 DEF Ready
<1>5. ~x.more => x.from # 0
  BY DEF WalkOK
<1>7. ASSUME x.from # 0, NEW e \in Logged, drawn'[e] # 0, drawn'[e] <= History!Watermark(x.from)
      PROVE  e \in x.begun
  <2>1. x.from \in 1..Len(versions)
    BY <1>1, <1>2, <1>7
  <2>2. History!Watermark(x.from) \in Nat
    BY <2>1, WatermarkIs
  <2>3. ~(\A n \in 1..Len(versions) : History!Watermark(n) < drawn'[e])
    <3>1. SUFFICES ASSUME History!Watermark(x.from) < drawn'[e] PROVE FALSE
      BY <2>1
    <3>2. drawn'[e] \in Nat
      BY DEF StoreOK, DrawnOK
    <3> QED BY <1>7, <2>2, <3>1, <3>2
  <2>4. drawn'[e] = drawn[e]
    BY <2>3 DEF IdsGrow
  <2> QED BY <1>7, <2>4 DEF WalkOK
<1>6. WalkOK(x) => WalkOK(x)'
  BY <1>2, <1>3, <1>4, <1>5, <1>7 DEF WalkOK
<1> QED BY <1>6

LEMMA EntryKept ==
    ASSUME StoreOK, Len(versions') \in Nat, Len(versions) <= Len(versions'),
           \A n \in 1..Len(versions) : versions'[n] = versions[n],
           NEW entry, EntryOK(entry)
    PROVE  EntryOK(entry)'
<1>1. PICK n \in 1..Len(versions) :
        /\ entry.key = History!KeyOf(n, entry.key.cursor)
        /\ entry.page = History!Page(n, entry.key.cursor)
        /\ entry.more = History!HasMore(n, entry.key.cursor)
  BY DEF EntryOK
<1>2. n \in 1..Len(versions') /\ versions'[n] = versions[n]
  BY DEF StoreOK, VersionsOK
<1>3. PICK c : c = entry.key.cursor
  OBVIOUS
<1>4. /\ History!KeyOf(n, c)' = History!KeyOf(n, c)
      /\ History!Page(n, c)' = History!Page(n, c)
      /\ History!HasMore(n, c)' = History!HasMore(n, c)
  BY <1>2, SameAt
<1> QED BY <1>1, <1>2, <1>3, <1>4 DEF EntryOK

LEMMA LateKept ==
    ASSUME StoreOK, Len(versions') \in Nat, Len(versions) <= Len(versions'),
           \A n \in 1..Len(versions) : versions'[n] = versions[n]
    PROVE  History!Late \subseteq History!Late'
<1>1. SUFFICES ASSUME NEW e \in History!Late PROVE e \in History!Late'
  OBVIOUS
<1>2. Len(versions) \in Nat
  BY DEF StoreOK, VersionsOK
<1>3. e \in Charted /\ \E n \in 2..Len(versions) :
        /\ e \in History!Visible(n) \ History!Visible(n - 1)
        /\ versions[n].obs[e] < History!QuoteRevision(n - 1)
  BY DEF History!Late, History!Now
<1>4. PICK n \in 2..Len(versions) :
        /\ e \in History!Visible(n) \ History!Visible(n - 1)
        /\ versions[n].obs[e] < History!QuoteRevision(n - 1)
  BY <1>3
<1>5. PICK m : m = n - 1
  OBVIOUS
<1>6. n \in 1..Len(versions) /\ m \in 1..Len(versions) /\ n \in 2..Len(versions')
  BY <1>2, <1>5
<1>7. versions'[n] = versions[n] /\ versions'[m] = versions[m]
  BY <1>6
<1>8. /\ History!Visible(n)' = History!Visible(n)
      /\ History!Visible(m)' = History!Visible(m)
      /\ History!QuoteRevision(m)' = History!QuoteRevision(m)
  BY <1>7, SameAt
<1> QED BY <1>3, <1>4, <1>5, <1>6, <1>7, <1>8 DEF History!Late, History!Now

LEMMA ChartKept ==
    ASSUME StoreOK, Len(versions') \in Nat, Len(versions) <= Len(versions'),
           \A n \in 1..Len(versions) : versions'[n] = versions[n],
           NEW x, ChartOK(x)
    PROVE  ChartOK(x)'
<1>1. History!Late \subseteq History!Late'
  BY LateKept
<1>2. PICK n \in 1..Len(versions) :
          /\ x.revision = History!QuoteRevision(n)
          /\ History!Candles(n, 1, x.until) \ x.shown \subseteq History!Late
  BY DEF ChartOK
<1>3. n \in 1..Len(versions') /\ versions'[n] = versions[n]
  BY DEF StoreOK, VersionsOK
<1>4. PICK until : until = x.until
  OBVIOUS
<1>5. History!QuoteRevision(n)' = History!QuoteRevision(n)
      /\ History!Candles(n, 1, until)' = History!Candles(n, 1, until)
  BY <1>3, SameAt, CandlesSame
<1> QED BY <1>1, <1>2, <1>3, <1>4, <1>5 DEF ChartOK

\* The readers are as they should be over a longer history.
LEMMA ReadersKept ==
    ASSUME HistoryInv, Len(versions') \in Nat, Len(versions) <= Len(versions'),
           \A n \in 1..Len(versions) : versions'[n] = versions[n], StoreOK', IdsGrow,
           UNCHANGED <<entries, pending, walk, chart>>
    PROVE  HistoryInv'
<1>1. StoreOK
  BY DEF HistoryInv
<1>2. ASSUME NEW entry \in entries PROVE EntryOK(entry)'
  BY <1>1, EntryKept DEF HistoryInv
<1>3. ASSUME NEW w \in Walkers PROVE WalkOK(walk[w])'
  <2>1. PICK x : x = walk[w]
    OBVIOUS
  <2>2. WalkOK(x)
    BY <2>1 DEF HistoryInv, WalksOK
  <2>3. WalkOK(x)'
    BY <1>1, <2>2, WalkKept
  <2>4. x = walk'[w]
    BY <2>1
  <2> QED BY <2>3, <2>4
<1>4. ASSUME NEW c \in Charts, chart[c] # None PROVE ChartOK(chart[c])'
  <2>1. PICK x : x = chart[c]
    OBVIOUS
  <2>2. ChartOK(x)
    BY <1>4, <2>1 DEF HistoryInv, ChartsOK
  <2>3. ChartOK(x)'
    BY <1>1, <2>2, ChartKept
  <2>4. x = chart'[c]
    BY <2>1
  <2> QED BY <2>3, <2>4
<1> QED BY <1>2, <1>3, <1>4 DEF HistoryInv, WalksOK, ChartsOK

LEMMA VersionGrows ==
    ASSUME HistoryInv, NEW v, versions' = Append(versions, v), StoreOK', drawn' = drawn,
           UNCHANGED <<entries, pending, walk, chart>>
    PROVE  HistoryInv'
<1>1. versions \in Seq(Version) /\ Len(versions) \in Nat
  BY DEF HistoryInv, StoreOK, VersionsOK
<1>2. Len(versions') = Len(versions) + 1 /\ \A n \in 1..Len(versions) : versions'[n] = versions[n]
  BY <1>1
<1> QED BY <1>1, <1>2, ReadersKept DEF IdsGrow

\* The store moves on under its readers.
LEMMA VersionStep ==
    ASSUME HistoryInv, HistoryConstants, NEW e \in Logged, History!Observe(e) \/ History!Publish(e)
    PROVE  HistoryInv'
<1>1. PICK N : N = Len(versions)
  OBVIOUS
<1>2. StoreOK /\ N \in Nat /\ N \in 1..Len(versions)
  BY <1>1 DEF HistoryInv, StoreOK, VersionsOK
<1>3. versions[N].revision = N - 1 /\ versions[N] \in Version
  BY <1>2, VersionIs
<1>4. UNCHANGED <<drawn, entries, pending, walk, chart>>
  BY DEF History!Observe, History!Publish, History!readers
<1>5. CASE History!Observe(e)
  <2>1. PICK v : v = [versions[N] EXCEPT !.obs[e] = drawn[e], !.revision = @ + 1]
    OBVIOUS
  <2>2. versions[N].obs[e] = 0 /\ drawn[e] # 0 /\ versions' = Append(versions, v)
    BY <1>1, <1>5, <2>1 DEF History!Observe, History!Now, History!Bumped
  <2>3. v.revision = N
    <3>1. PICK t : t = [versions[N] EXCEPT !.obs[e] = drawn[e]]
      OBVIOUS
    <3>2. v = [t EXCEPT !.revision = @ + 1]
      BY <1>3, <2>1, <3>1 DEF Version
    <3>3. DOMAIN t = DOMAIN versions[N] /\ t.revision = versions[N].revision
      BY <1>3, <3>1 DEF Version
    <3>4. v.revision = versions[N].revision + 1
      BY <1>3, <3>2, <3>3 DEF Version
    <3> QED BY <1>2, <1>3, <3>4
  <2>4. StoreOK'
    BY <1>1, <1>2, <1>4, <2>1, <2>2, <2>3, VersionAdded
  <2> QED BY <1>4, <2>2, <2>4, VersionGrows
<1>6. CASE History!Publish(e)
  <2>1. PICK v : v = [versions[N] EXCEPT !.canon = @ \cup {e}, !.revision = @ + 1]
    OBVIOUS
  <2>2. versions[N].obs[e] # 0 /\ versions' = Append(versions, v)
    BY <1>1, <1>6, <2>1 DEF History!Publish, History!Now, History!Bumped
  <2>3. v.revision = N
    BY <1>2, <1>3, <2>1 DEF Version
  <2>4. StoreOK'
    BY <1>1, <1>2, <1>4, <2>1, <2>2, <2>3, VersionAdded
  <2> QED BY <1>4, <2>2, <2>4, VersionGrows
<1> QED BY <1>5, <1>6

LEMMA DrawStep ==
    ASSUME HistoryInv, HistoryConstants, NEW e \in Logged, History!Draw(e)
    PROVE  HistoryInv'
<1>1. UNCHANGED <<versions, entries, pending, walk, chart>>
  BY DEF History!Draw, History!readers
<1>2. StoreOK' /\ IdsGrow
  <2>1. StoreOK
    BY DEF HistoryInv
  <2> QED BY <2>1, IdDrawn DEF IdsGrow
<1>3. Len(versions') \in Nat /\ Len(versions) <= Len(versions')
      /\ \A n \in 1..Len(versions) : versions'[n] = versions[n]
  BY <1>1 DEF HistoryInv, StoreOK, VersionsOK
<1> QED BY <1>1, <1>2, <1>3, ReadersKept

\* A request that begins is at the present version.
Begun(o, N, key) ==
    [o EXCEPT !.version = N, !.key = key, !.from = IF o.cursor = None THEN N ELSE @,
              !.begun = IF o.cursor = None THEN History!Drawn ELSE @]

\* Such a request is well formed, whether its walk begins or goes on.
LEMMA RequestReady ==
    ASSUME HistoryInv, HistoryConstants, NEW w \in Walkers, walk[w].at = "idle", walk[w].more,
           NEW N, N = Len(versions), NEW key, key = History!KeyOf(N, walk[w].cursor),
           NEW x, x = Begun(walk[w], N, key)
    PROVE  /\ WalkOK(x) /\ Ready(x) /\ x.at = "idle" /\ x.key = History!KeyOf(x.version, x.cursor)
           /\ x.version = N /\ x.cursor = walk[w].cursor /\ x.key = key
<1>1. PICK o, c : o = walk[w] /\ c = walk[w].cursor
  OBVIOUS
<1>2. WalkOK(o) /\ o.at = "idle" /\ o.more /\ c = o.cursor /\ StoreOK
  BY <1>1 DEF HistoryInv, WalksOK
<1>3. DOMAIN o = Fields /\ o.from \in 0..Len(versions)
  BY <1>2 DEF WalkOK
<1>4. N \in Nat /\ N >= 1
  BY <1>2 DEF StoreOK, VersionsOK
<1>5. PICK from : from = IF c = None THEN N ELSE o.from
  OBVIOUS
<1>12. PICK begun : begun = IF c = None THEN History!Drawn ELSE o.begun
  OBVIOUS
<1>6. x = [o EXCEPT !.version = N, !.key = key, !.from = from, !.begun = begun]
  BY <1>1, <1>5, <1>12 DEF Begun
<1>7. /\ DOMAIN x = Fields /\ x.version = N /\ x.key = key /\ x.from = from /\ x.begun = begun
      /\ x.at = o.at /\ x.cursor = c /\ x.more = o.more /\ x.seen = o.seen
  BY <1>2, <1>3, <1>6 DEF Fields
<1>8. from \in 1..N /\ (c = None => from = N)
  BY <1>2, <1>3, <1>4, <1>5 DEF WalkOK
<1>9. Ready(x)
  BY <1>2, <1>4, <1>7, <1>8 DEF Ready
<1>10. CASE c = None
  <2>1. x.seen = {}
    BY <1>2, <1>7, <1>10 DEF WalkOK
  <2>2. from # 0 /\ from \in 0..Len(versions)
    BY <1>4, <1>8
  <2>4. \A e \in Logged : drawn[e] # 0 => e \in x.begun
    BY <1>7, <1>10, <1>12 DEF History!Drawn
  <2>3. WalkOK(x)
    BY <1>2, <1>7, <1>9, <1>10, <2>1, <2>2, <2>4 DEF WalkOK
  <2> QED BY <1>1, <1>2, <1>7, <1>9, <2>3
<1>11. CASE c # None
  <2>1. from = o.from /\ begun = o.begun
    BY <1>5, <1>11, <1>12
  <2>2. WalkOK(x)
    BY <1>2, <1>7, <1>11, <2>1 DEF WalkOK
  <2> QED BY <1>1, <1>2, <1>7, <1>9, <2>2
<1> QED BY <1>10, <1>11

\* A request that waits, for its own load or another's.
LEMMA Asks ==
    ASSUME NEW x, WalkOK(x), Ready(x), x.key = History!KeyOf(x.version, x.cursor),
           NEW y, \/ y = [x EXCEPT !.at = "loading"]
                  \/ \E p : y = [x EXCEPT !.at = "waiting", !.on = p]
    PROVE  WalkOK(y) /\ y.key = x.key
<1>1. DOMAIN x = Fields
  BY DEF WalkOK
<1>2. /\ DOMAIN y = Fields /\ y.at \in {"loading", "waiting"}
      /\ y.version = x.version /\ y.key = x.key /\ y.from = x.from /\ y.begun = x.begun
      /\ y.cursor = x.cursor /\ y.more = x.more /\ y.seen = x.seen
  <2>1. CASE y = [x EXCEPT !.at = "loading"]
    BY <1>1, <2>1 DEF Fields
  <2>2. ASSUME NEW p, y = [x EXCEPT !.at = "waiting", !.on = p]
        PROVE  /\ DOMAIN y = Fields /\ y.at \in {"loading", "waiting"}
               /\ y.version = x.version /\ y.key = x.key /\ y.from = x.from /\ y.begun = x.begun
               /\ y.cursor = x.cursor /\ y.more = x.more /\ y.seen = x.seen
    BY <1>1, <2>2 DEF Fields
  <2> QED BY <2>1, <2>2
<1>3. Ready(y)
  BY <1>2 DEF Ready
<1> QED BY <1>2, <1>3 DEF WalkOK

\* The versions stay; walks, entries and loads may change.
LEMMA ReadersStep ==
    ASSUME HistoryInv, UNCHANGED <<drawn, versions, chart>>,
           \A entry \in entries' : EntryOK(entry),
           DOMAIN walk' = Walkers, \A w \in Walkers : WalkOK(walk'[w]),
           \A w \in Walkers : walk'[w].at = "waiting" =>
              /\ walk'[w].on \in Walkers /\ walk'[walk'[w].on].at = "loading"
              /\ walk'[walk'[w].on].key = walk'[w].key,
           \A p \in pending' : p \in Walkers /\ walk'[p].at = "loading"
    PROVE  HistoryInv'
<1>1. /\ StoreOK /\ StoreOK' /\ IdsGrow
      /\ Len(versions') \in Nat /\ Len(versions) <= Len(versions')
      /\ \A n \in 1..Len(versions) : versions'[n] = versions[n]
  BY DEF HistoryInv, StoreOK, VersionsOK, IdsGrow
<1>2. ASSUME NEW entry \in entries' PROVE EntryOK(entry)'
  BY <1>1, EntryKept
<1>3. ASSUME NEW w \in Walkers PROVE WalkOK(walk[w])'
  <2>1. PICK x : x = walk'[w]
    OBVIOUS
  <2>2. WalkOK(x)
    BY <2>1
  <2>3. WalkOK(x)'
    BY <1>1, <2>2, WalkKept
  <2> QED BY <2>1, <2>3
<1>4. ASSUME NEW c \in Charts, chart'[c] # None PROVE ChartOK(chart[c])'
  <2>1. PICK x : x = chart[c]
    OBVIOUS
  <2>2. ChartOK(x)
    BY <1>4, <2>1 DEF HistoryInv, ChartsOK
  <2>3. ChartOK(x)'
    BY <1>1, <2>2, ChartKept
  <2>4. x = chart'[c]
    BY <2>1
  <2> QED BY <2>3, <2>4
<1>5. WalksOK'
  BY <1>3 DEF WalksOK
<1>6. ChartsOK'
  BY <1>4 DEF HistoryInv, ChartsOK
<1> QED BY <1>1, <1>2, <1>5, <1>6 DEF HistoryInv

LEMMA RequestStep ==
    ASSUME HistoryInv, HistoryConstants, NEW w \in Walkers, History!Request(w)
    PROVE  HistoryInv'
<1>1. PICK N, c, key : N = Len(versions) /\ c = walk[w].cursor /\ key = History!KeyOf(N, c)
  OBVIOUS
<1>2. PICK x : x = Begun(walk[w], N, key)
  OBVIOUS
<1>3. walk[w].at = "idle" /\ walk[w].more
  BY DEF History!Request
<1>4. /\ WalkOK(x) /\ Ready(x) /\ x.at = "idle" /\ x.key = History!KeyOf(x.version, x.cursor)
      /\ x.version = N /\ x.cursor = c /\ x.key = key
  <2>1. key = History!KeyOf(N, walk[w].cursor)
    BY <1>1
  <2> QED BY <1>1, <1>2, <1>3, <2>1, RequestReady
<1>5. StoreOK /\ WalksOK /\ N \in 1..Len(versions)
  BY <1>1 DEF HistoryInv, StoreOK, VersionsOK
<1>6. UNCHANGED <<drawn, versions, chart>>
  BY DEF History!Request
<1>7. \/ /\ \E entry \in entries :
               entry.key = key /\ walk' = [walk EXCEPT ![w] = History!Accept(x, entry.page, entry.more)]
         /\ UNCHANGED <<entries, pending>>
      \/ /\ entries' \subseteq entries
         /\ \E p \in pending :
               walk[p].key = key /\ walk' = [walk EXCEPT ![w] = [x EXCEPT !.at = "waiting", !.on = p]]
         /\ UNCHANGED pending
      \/ /\ entries' \subseteq entries
         /\ walk' = [walk EXCEPT ![w] = [x EXCEPT !.at = "loading"]]
         /\ pending' = pending \cup {w}
  BY <1>1, <1>2 DEF History!Request, History!Now, Begun
<1>8. \A entry \in entries' : EntryOK(entry)
  BY <1>7 DEF HistoryInv
<1>9. \A u \in Walkers : walk[u].at = "waiting" => walk[u].on # w
  BY <1>3, <1>5 DEF WalksOK
<1>10. \A p \in pending : p # w
  BY <1>3, <1>5 DEF WalksOK
<1>11. CASE \E entry \in entries :
              /\ entry.key = key /\ walk' = [walk EXCEPT ![w] = History!Accept(x, entry.page, entry.more)]
              /\ UNCHANGED pending
  <2>1. PICK entry \in entries :
              /\ entry.key = key /\ walk' = [walk EXCEPT ![w] = History!Accept(x, entry.page, entry.more)]
              /\ UNCHANGED pending
    BY <1>11
  <2>2. PICK n \in 1..Len(versions) :
          /\ entry.key = History!KeyOf(n, entry.key.cursor)
          /\ entry.page = History!Page(n, entry.key.cursor)
          /\ entry.more = History!HasMore(n, entry.key.cursor)
    BY DEF HistoryInv, EntryOK
  <2>3. n = N /\ entry.key.cursor = c
    BY <1>1, <1>5, <2>1, <2>2, KeyTellsVersion
  <2>4. PICK y : y = History!Accept(x, entry.page, entry.more)
    OBVIOUS
  <2>5. WalkOK(y) /\ y.at = "idle"
    <3>1. y = History!Accept(x, History!Page(x.version, x.cursor), History!HasMore(x.version, x.cursor))
      BY <1>4, <2>2, <2>3, <2>4
    <3> QED BY <1>4, <1>5, <3>1, AcceptOK
  <2>6. walk' = [walk EXCEPT ![w] = y]
    BY <2>1, <2>4
  <2>7. DOMAIN walk' = Walkers /\ walk'[w] = y /\ \A u \in Walkers : u # w => walk'[u] = walk[u]
    BY <1>5, <2>6 DEF WalksOK
  <2>8. \A u \in Walkers : WalkOK(walk'[u])
    BY <1>5, <2>5, <2>7 DEF WalksOK
  <2>9. \A u \in Walkers : walk'[u].at = "waiting" =>
              /\ walk'[u].on \in Walkers /\ walk'[walk'[u].on].at = "loading"
              /\ walk'[walk'[u].on].key = walk'[u].key
    BY <1>5, <1>9, <2>5, <2>7 DEF WalksOK
  <2>10. \A p \in pending' : p \in Walkers /\ walk'[p].at = "loading"
    BY <1>5, <1>10, <2>1, <2>7 DEF WalksOK
  <2> QED BY <1>6, <1>8, <2>7, <2>8, <2>9, <2>10, ReadersStep
<1>12. ASSUME NEW p \in pending, walk[p].key = key, UNCHANGED pending,
              walk' = [walk EXCEPT ![w] = [x EXCEPT !.at = "waiting", !.on = p]]
       PROVE  HistoryInv'
  <2>1. PICK y : y = [x EXCEPT !.at = "waiting", !.on = p]
    OBVIOUS
  <2>2. WalkOK(y) /\ y.key = x.key
    BY <1>4, <2>1, Asks
  <2>3. y.on = p /\ y.at = "waiting"
    <3>1. DOMAIN x = Fields
      BY <1>4 DEF WalkOK
    <3> QED BY <2>1, <3>1 DEF Fields
  <2>4. DOMAIN walk' = Walkers /\ walk'[w] = y /\ \A u \in Walkers : u # w => walk'[u] = walk[u]
    BY <1>5, <1>12, <2>1 DEF WalksOK
  <2>5. p \in Walkers /\ p # w /\ walk'[p] = walk[p] /\ walk[p].at = "loading"
    BY <1>5, <1>10, <2>4 DEF WalksOK
  <2>6. \A u \in Walkers : WalkOK(walk'[u])
    BY <1>5, <2>2, <2>4 DEF WalksOK
  <2>7. \A u \in Walkers : walk'[u].at = "waiting" =>
              /\ walk'[u].on \in Walkers /\ walk'[walk'[u].on].at = "loading"
              /\ walk'[walk'[u].on].key = walk'[u].key
    BY <1>4, <1>5, <1>9, <1>12, <2>2, <2>3, <2>4, <2>5 DEF WalksOK
  <2>8. \A q \in pending' : q \in Walkers /\ walk'[q].at = "loading"
    BY <1>5, <1>10, <1>12, <2>4 DEF WalksOK
  <2> QED BY <1>6, <1>8, <2>4, <2>6, <2>7, <2>8, ReadersStep
<1>13. ASSUME walk' = [walk EXCEPT ![w] = [x EXCEPT !.at = "loading"]], pending' = pending \cup {w}
       PROVE  HistoryInv'
  <2>1. PICK y : y = [x EXCEPT !.at = "loading"]
    OBVIOUS
  <2>2. WalkOK(y) /\ y.key = x.key
    BY <1>4, <2>1, Asks
  <2>3. y.at = "loading"
    <3>1. DOMAIN x = Fields
      BY <1>4 DEF WalkOK
    <3> QED BY <2>1, <3>1 DEF Fields
  <2>4. DOMAIN walk' = Walkers /\ walk'[w] = y /\ \A u \in Walkers : u # w => walk'[u] = walk[u]
    BY <1>5, <1>13, <2>1 DEF WalksOK
  <2>6. \A u \in Walkers : WalkOK(walk'[u])
    BY <1>5, <2>2, <2>4 DEF WalksOK
  <2>7. \A u \in Walkers : walk'[u].at = "waiting" =>
              /\ walk'[u].on \in Walkers /\ walk'[walk'[u].on].at = "loading"
              /\ walk'[walk'[u].on].key = walk'[u].key
    BY <1>5, <1>9, <2>3, <2>4 DEF WalksOK
  <2>8. \A q \in pending' : q \in Walkers /\ walk'[q].at = "loading"
    BY <1>5, <1>10, <1>13, <2>3, <2>4 DEF WalksOK
  <2> QED BY <1>6, <1>8, <2>4, <2>6, <2>7, <2>8, ReadersStep
<1> QED BY <1>7, <1>11, <1>12, <1>13

\* The requests that a load answers asked what it asked.
LEMMA AnsweredAsk ==
    ASSUME HistoryInv, NEW w \in Walkers, walk[w].at = "loading", NEW u \in History!Answered(w)
    PROVE  /\ u \in Walkers /\ WalkOK(walk[u]) /\ Ready(walk[u])
           /\ walk[u].version = walk[w].version /\ walk[u].cursor = walk[w].cursor
<1>1. u \in Walkers /\ (u = w \/ (walk[u].at = "waiting" /\ walk[u].on = w))
  BY DEF History!Answered
<1>2. walk[u].key = walk[w].key /\ walk[u].at # "idle"
  BY <1>1 DEF HistoryInv, WalksOK
<1>3. WalkOK(walk[u]) /\ WalkOK(walk[w]) /\ StoreOK
  BY <1>1 DEF HistoryInv, WalksOK
<1>4. /\ Ready(walk[u]) /\ walk[u].key = History!KeyOf(walk[u].version, walk[u].cursor)
      /\ Ready(walk[w]) /\ walk[w].key = History!KeyOf(walk[w].version, walk[w].cursor)
  BY <1>2, <1>3 DEF WalkOK
<1>5. PICK m, c, n, d : m = walk[u].version /\ c = walk[u].cursor /\ n = walk[w].version /\ d = walk[w].cursor
  OBVIOUS
<1>6. m \in 1..Len(versions) /\ n \in 1..Len(versions) /\ History!KeyOf(m, c) = History!KeyOf(n, d)
  BY <1>2, <1>4, <1>5 DEF Ready
<1>7. m = n /\ c = d
  BY <1>3, <1>6, KeyTellsVersion
<1> QED BY <1>1, <1>3, <1>4, <1>5, <1>7

\* What the end of w's load leaves alone, and what it makes of those it answers.
LEMMA LoadEnds ==
    ASSUME HistoryInv, NEW w \in Walkers, walk[w].at = "loading",
           UNCHANGED <<drawn, versions, chart>>, \A entry \in entries' : EntryOK(entry),
           pending' \subseteq pending \ {w},
           DOMAIN walk' = Walkers,
           \A u \in History!Answered(w) : WalkOK(walk'[u]) /\ walk'[u].at = "idle",
           \A u \in Walkers : u \notin History!Answered(w) => walk'[u] = walk[u]
    PROVE  HistoryInv'
<1>1. WalksOK
  BY DEF HistoryInv
<1>2. \A u \in Walkers : WalkOK(walk'[u])
  BY <1>1 DEF WalksOK
<1>3. ASSUME NEW u \in Walkers, walk[u].at = "loading", u # w PROVE walk'[u] = walk[u]
  BY <1>3 DEF History!Answered
<1>4. ASSUME NEW u \in Walkers, walk'[u].at = "waiting"
      PROVE  /\ walk'[u].on \in Walkers /\ walk'[walk'[u].on].at = "loading"
             /\ walk'[walk'[u].on].key = walk'[u].key
  <2>1. u \notin History!Answered(w)
    BY <1>4
  <2>2. walk'[u] = walk[u] /\ walk[u].on # w
    BY <1>4, <2>1 DEF History!Answered
  <2>3. /\ walk[u].on \in Walkers /\ walk[walk[u].on].at = "loading"
        /\ walk[walk[u].on].key = walk[u].key
    BY <1>1, <1>4, <2>2 DEF WalksOK
  <2>4. walk'[walk[u].on] = walk[walk[u].on]
    BY <1>3, <2>2, <2>3
  <2> QED BY <2>2, <2>3, <2>4
<1>5. \A p \in pending' : p \in Walkers /\ walk'[p].at = "loading"
  BY <1>1, <1>3 DEF WalksOK
<1> QED BY <1>2, <1>4, <1>5, ReadersStep

LEMMA LoadedStep ==
    ASSUME HistoryInv, HistoryConstants, NEW w \in Walkers, History!Loaded(w)
    PROVE  HistoryInv'
<1>1. PICK x : x = walk[w]
  OBVIOUS
<1>2. walk[w].at = "loading" /\ UNCHANGED <<drawn, versions, chart>> /\ pending' = pending \ {w}
  BY DEF History!Loaded
<1>3. PICK page, more : page = History!Page(x.version, x.cursor) /\ more = History!HasMore(x.version, x.cursor)
  OBVIOUS
<1>4. walk' = [u \in Walkers |-> IF u \in History!Answered(w) THEN History!Accept(walk[u], page, more)
                                 ELSE walk[u]]
  BY <1>1, <1>3 DEF History!Loaded
<1>5. entries' \subseteq entries \cup {[key |-> x.key, page |-> page, more |-> more]}
  BY <1>1, <1>3 DEF History!Loaded
<1>6. WalkOK(x) /\ Ready(x) /\ x.key = History!KeyOf(x.version, x.cursor)
  BY <1>1, <1>2 DEF HistoryInv, WalksOK, WalkOK
<1>7. ASSUME NEW entry \in entries' PROVE EntryOK(entry)
  <2>1. CASE entry \in entries
    BY <2>1 DEF HistoryInv
  <2>2. CASE entry = [key |-> x.key, page |-> page, more |-> more]
    <3>1. entry.key = x.key /\ entry.page = page /\ entry.more = more
      BY <2>2
    <3>2. entry.key.cursor = x.cursor
      BY <1>6, <3>1 DEF History!KeyOf
    <3> QED BY <1>3, <1>6, <3>1, <3>2 DEF EntryOK, Ready
  <2> QED BY <1>5, <2>1, <2>2
<1>8. ASSUME NEW u \in History!Answered(w) PROVE WalkOK(walk'[u]) /\ walk'[u].at = "idle"
  <2>1. /\ u \in Walkers /\ WalkOK(walk[u]) /\ Ready(walk[u])
        /\ walk[u].version = x.version /\ walk[u].cursor = x.cursor
    BY <1>1, <1>2, AnsweredAsk
  <2>2. PICK o, y : o = walk[u] /\ y = History!Accept(walk[u], page, more)
    OBVIOUS
  <2>3. y = History!Accept(o, History!Page(o.version, o.cursor), History!HasMore(o.version, o.cursor))
    BY <1>3, <2>1, <2>2
  <2>4. WalkOK(y) /\ y.at = "idle"
    BY <2>1, <2>2, <2>3, AcceptOK DEF HistoryInv
  <2> QED BY <1>4, <2>1, <2>2, <2>4
<1>9. DOMAIN walk' = Walkers /\ \A u \in Walkers : u \notin History!Answered(w) => walk'[u] = walk[u]
  BY <1>4
<1> QED BY <1>2, <1>7, <1>8, <1>9, LoadEnds

LEMMA LoadFailsStep ==
    ASSUME HistoryInv, NEW w \in Walkers, History!LoadFails(w)
    PROVE  HistoryInv'
<1>1. /\ walk[w].at = "loading" /\ UNCHANGED <<drawn, versions, chart>>
      /\ entries' = {} /\ pending' = {}
      /\ walk' = [u \in Walkers |-> IF u \in History!Answered(w) THEN History!Idle(walk[u]) ELSE walk[u]]
  BY DEF History!LoadFails, History!Cleared
<1>2. ASSUME NEW u \in History!Answered(w) PROVE WalkOK(walk'[u]) /\ walk'[u].at = "idle"
  <2>1. u \in Walkers /\ WalkOK(walk[u])
    BY <1>1, AnsweredAsk
  <2>2. PICK o, y : o = walk[u] /\ y = History!Idle(o)
    OBVIOUS
  <2>3. DOMAIN o = Fields
    BY <2>1, <2>2 DEF WalkOK
  <2>4. /\ DOMAIN y = Fields /\ y.at = "idle" /\ y.from = o.from /\ y.seen = o.seen /\ y.begun = o.begun
        /\ y.more = o.more /\ y.cursor = o.cursor
    BY <2>2, <2>3 DEF History!Idle, Fields
  <2>5. WalkOK(y)
    BY <2>1, <2>2, <2>4 DEF WalkOK
  <2> QED BY <1>1, <2>1, <2>2, <2>4, <2>5
<1>3. DOMAIN walk' = Walkers /\ \A u \in Walkers : u \notin History!Answered(w) => walk'[u] = walk[u]
  BY <1>1
<1> QED BY <1>1, <1>2, <1>3, LoadEnds

LEMMA ClearStep ==
    ASSUME HistoryInv, History!Clear
    PROVE  HistoryInv'
<1>1. UNCHANGED <<drawn, versions, walk, chart>> /\ entries' = {} /\ pending' = {}
  BY DEF History!Clear, History!Cleared
<1> QED BY <1>1, ReadersStep DEF HistoryInv, WalksOK

-----------------------------------------------------------------------------
(* Charts.                                                                  *)

\* A sample that is published after a version whose revision covers it is late.
LEMMA LateBetween ==
    ASSUME StoreOK, HistoryConstants, NEW k \in 1..Len(versions),
           NEW e \in Charted, e \notin versions[k].canon, e \in versions[Len(versions)].canon,
           versions[Len(versions)].obs[e] <= History!QuoteRevision(k)
    PROVE  e \in History!Late
<1>1. PICK N : N = Len(versions)
  OBVIOUS
<1>2. N \in Nat /\ N \in 1..Len(versions) /\ k \in Nat
  BY <1>1 DEF StoreOK, VersionsOK
<1>3. PICK having : having = {n \in 1..Len(versions) : e \in versions[n].canon}
  OBVIOUS
<1>4. having \subseteq Nat /\ N \in having
  BY <1>1, <1>2, <1>3
<1>5. PICK n \in having : \A m \in having : n <= m
  BY <1>4, LowestOf
<1>6. n \in 1..Len(versions) /\ e \in versions[n].canon
  BY <1>3
<1>7. k < n
  <2>1. n <= k => versions[n].canon \subseteq versions[k].canon
    BY <1>6 DEF StoreOK, VersionsOK, Follows
  <2> QED BY <1>2, <1>6, <2>1
<1>8. PICK m : m = n - 1
  OBVIOUS
<1>9. m \in 1..Len(versions) /\ n \in 2..Len(versions) /\ k <= m /\ m < n /\ m \in Nat /\ n \in Nat
  BY <1>1, <1>2, <1>6, <1>7, <1>8
<1>10. e \notin versions[m].canon
  BY <1>3, <1>5, <1>9
<1>11. e \in Logged /\ versions[n].obs[e] \in Nat /\ versions[n].obs[e] # 0
  <2>1. e \in Logged
    BY DEF HistoryConstants
  <2> QED BY <1>6, <2>1, VersionIs
<1>12. versions[N].obs[e] = versions[n].obs[e]
  <2>1. Follows(versions[n], versions[N])
    <3>1. n <= N
      BY <1>4, <1>5
    <3> QED BY <1>2, <1>6, <3>1 DEF StoreOK, VersionsOK
  <2> QED BY <1>11, <2>1 DEF Follows
<1>13. /\ History!QuoteRevision(k) \in Nat /\ History!QuoteRevision(m) \in Nat
       /\ versions[n].obs[e] <= History!QuoteRevision(k)
  BY <1>1, <1>9, <1>12, RevisionIs
<1>14. PICK f \in versions[k].canon \cap Charted : versions[k].obs[f] = History!QuoteRevision(k)
  <2>1. History!QuoteRevision(k) # 0
    BY <1>11, <1>13
  <2> QED BY <2>1, RevisionIs
<1>15. f \in Logged /\ versions[k].obs[f] # 0
  BY <1>14, VersionIs
<1>16. Follows(versions[k], versions[m]) /\ Follows(versions[m], versions[n])
  BY <1>9 DEF StoreOK, VersionsOK
<1>17. /\ f \in versions[m].canon /\ versions[m].obs[f] = versions[k].obs[f]
       /\ versions[n].obs[f] = versions[k].obs[f]
  BY <1>14, <1>15, <1>16 DEF Follows
<1>18. versions[m].obs[f] <= History!QuoteRevision(m)
  BY <1>9, <1>14, <1>17, RevisionIs
<1>19. f # e
  BY <1>10, <1>17
<1>20. versions[n].obs[e] # versions[n].obs[f]
  BY <1>6, <1>11, <1>15, <1>19, VersionIs
<1>21. versions[n].obs[e] < History!QuoteRevision(m)
  BY <1>11, <1>13, <1>14, <1>17, <1>18, <1>20
<1>22. e \in History!Visible(n) \ History!Visible(n - 1)
  BY <1>6, <1>8, <1>10 DEF History!Visible
<1> QED BY <1>8, <1>9, <1>21, <1>22 DEF History!Late, History!Now

LEMMA ChartStep ==
    ASSUME HistoryInv, HistoryConstants, NEW c \in Charts, NEW until \in History!Buckets, until \in Nat,
           History!OpenChart(c, until) \/ History!Refresh(c, until)
    PROVE  HistoryInv'
<1>1. PICK N : N = Len(versions)
  OBVIOUS
<1>2. StoreOK /\ N \in Nat /\ N \in 1..Len(versions) /\ ChartsOK /\ WalksOK
  BY <1>1 DEF HistoryInv, StoreOK, VersionsOK
<1>3. UNCHANGED <<drawn, versions, entries, pending, walk>>
  BY DEF History!OpenChart, History!Refresh
<1>4. ASSUME NEW shown, History!Candles(N, 1, until) \ shown \subseteq History!Late,
             NEW lost, lost \subseteq History!Late,
             NEW y, y = [shown |-> shown, until |-> until,
                         revision |-> History!QuoteRevision(N), missed |-> lost],
             chart' = [chart EXCEPT ![c] = y]
      PROVE  HistoryInv'
  <2>1. ChartOK(y)
    <3>1. y.shown = shown /\ y.until = until /\ y.revision = History!QuoteRevision(N) /\ y.missed = lost
      BY <1>4
    <3> QED BY <1>2, <1>4, <3>1 DEF ChartOK
  <2>2. Len(versions') \in Nat /\ Len(versions) <= Len(versions')
        /\ \A n \in 1..Len(versions) : versions'[n] = versions[n]
    BY <1>1, <1>2, <1>3
  <2>8. StoreOK' /\ IdsGrow
    BY <1>2, <1>3 DEF StoreOK, IdsGrow
  <2>3. ASSUME NEW d \in Charts, chart'[d] # None PROVE ChartOK(chart[d])'
    <3>1. PICK x : x = chart'[d]
      OBVIOUS
    <3>2. ChartOK(x)
      BY <1>2, <1>4, <2>1, <2>3, <3>1 DEF ChartsOK
    <3>3. ChartOK(x)'
      BY <1>2, <2>2, <3>2, ChartKept
    <3> QED BY <3>1, <3>3
  <2>4. ChartsOK'
    BY <1>2, <1>4, <2>3 DEF ChartsOK
  <2>5. ASSUME NEW entry \in entries PROVE EntryOK(entry)'
    BY <1>2, <2>2, EntryKept DEF HistoryInv
  <2>6. ASSUME NEW w \in Walkers PROVE WalkOK(walk[w])'
    <3>1. PICK x : x = walk[w]
      OBVIOUS
    <3>2. WalkOK(x)'
      BY <1>2, <2>2, <2>8, <3>1, WalkKept DEF WalksOK
    <3>3. x = walk'[w]
      BY <1>3, <3>1
    <3> QED BY <3>2, <3>3
  <2>7. WalksOK'
    BY <1>2, <1>3, <2>6 DEF WalksOK
  <2> QED BY <1>3, <2>4, <2>5, <2>7, <2>8 DEF HistoryInv
<1>5. CASE History!OpenChart(c, until)
  BY <1>1, <1>4, <1>5 DEF History!OpenChart, History!Now
<1>6. CASE History!Refresh(c, until)
  <2>1. PICK x : x = chart[c]
    OBVIOUS
  <2>2. PICK from : from = History!RefreshFrom(x)
    OBVIOUS
  <2>3. PICK shown : shown = {e \in x.shown : Bucket[e] < from} \cup History!Candles(N, from, until)
    OBVIOUS
  <2>4. /\ x # None /\ until >= x.until
        /\ chart' = [chart EXCEPT ![c] =
              [shown |-> shown, until |-> until, revision |-> History!QuoteRevision(N),
               missed |-> History!Candles(N, 1, until) \ shown]]
    BY <1>1, <1>6, <2>1, <2>2, <2>3 DEF History!Refresh, History!Now
  <2>5. ChartOK(x)
    BY <1>2, <2>1, <2>4 DEF ChartsOK
  <2>6. PICK k \in 1..Len(versions) :
          /\ x.revision = History!QuoteRevision(k)
          /\ History!Candles(k, 1, x.until) \ x.shown \subseteq History!Late
    BY <2>5 DEF ChartOK
  <2>7. PICK newer : newer = {e \in versions[N].canon \cap Charted : versions[N].obs[e] > x.revision}
    OBVIOUS
  <2>8. PICK starts : starts = {Bucket[e] : e \in newer} \cup {x.until}
    OBVIOUS
  <2>9. starts \subseteq Nat /\ starts # {} /\ x.until \in Nat
    BY <2>5, <2>7, <2>8 DEF ChartOK, HistoryConstants
  <2>10. from = History!Min(starts)
    BY <1>1, <2>2, <2>7, <2>8 DEF History!RefreshFrom, History!Now, History!Visible
  <2>11. from \in Nat /\ \A y \in starts : from <= y
    BY <2>9, <2>10, LowestOf
  <2>12. ASSUME NEW e \in History!Candles(N, 1, until) \ shown PROVE e \in History!Late
    <3>1. e \in versions[N].canon /\ e \in Charted /\ 1 <= Bucket[e] /\ Bucket[e] <= until /\ e \notin shown
      BY DEF History!Candles, History!Visible
    <3>2. Bucket[e] \in Nat /\ e \in Logged
      BY <3>1 DEF HistoryConstants
    <3>3. Bucket[e] < from
      <4>1. ~(from <= Bucket[e])
        BY <2>3, <3>1 DEF History!Candles, History!Visible
      <4> QED BY <2>11, <3>2, <4>1
    <3>4. e \notin x.shown
      BY <2>3, <3>1, <3>3
    <3>5. Bucket[e] <= x.until
      <4>1. from <= x.until
        BY <2>8, <2>11
      <4> QED BY <2>9, <2>11, <3>2, <3>3, <4>1
    <3>6. ~(versions[N].obs[e] > x.revision)
      <4>1. SUFFICES ASSUME versions[N].obs[e] > x.revision PROVE FALSE
        OBVIOUS
      <4>2. e \in newer
        BY <2>7, <3>1, <4>1
      <4>3. from <= Bucket[e]
        BY <2>8, <2>11, <4>2
      <4> QED BY <2>11, <3>2, <3>3, <4>3
    <3>7. versions[N].obs[e] <= History!QuoteRevision(k)
      <4>1. versions[N].obs[e] \in Nat /\ History!QuoteRevision(k) \in Nat
        BY <1>2, <3>2, VersionIs, RevisionIs
      <4> QED BY <2>6, <3>6, <4>1
    <3>8. CASE e \in versions[k].canon
      BY <2>6, <3>1, <3>4, <3>5, <3>8 DEF History!Candles, History!Visible
    <3>9. CASE e \notin versions[k].canon
      BY <1>1, <1>2, <3>1, <3>7, <3>9, LateBetween
    <3> QED BY <3>8, <3>9
  <2> QED BY <1>4, <2>4, <2>12
<1> QED BY <1>5, <1>6

-----------------------------------------------------------------------------

LEMMA HistoryInit == ASSUME HistoryConstants, History!Init PROVE HistoryInv
<1>1. PICK v : v = [obs |-> [e \in Logged |-> 0], canon |-> {}, revision |-> 0]
  OBVIOUS
<1>2. versions = <<v>> /\ v \in Version /\ v.canon = {} /\ v.revision = 0
      /\ \A e \in Logged : v.obs[e] = 0
  BY <1>1 DEF History!Init, Version
<1>3. Len(versions) = 1 /\ versions[1] = v /\ versions \in Seq(Version)
  BY <1>2
<1>4. NumberedOK(v, 1, drawn) /\ Follows(v, v)
  BY <1>2 DEF NumberedOK, Follows
<1>5. StoreOK
  <2>2. DrawnOK(drawn)
    BY DEF History!Init, DrawnOK
  <2>1. \A n \in 1..Len(versions) : n = 1
    BY <1>3
  <2> QED BY <1>3, <1>4, <2>1, <2>2 DEF StoreOK, VersionsOK
<1>6. ASSUME NEW w \in Walkers PROVE WalkOK(walk[w]) /\ walk[w].at = "idle"
  <2>1. PICK x : x = [at |-> "idle", version |-> 0, key |-> None, on |-> None,
                      cursor |-> None, more |-> TRUE, seen |-> {}, from |-> 0, begun |-> {}]
    OBVIOUS
  <2>2. walk[w] = x
    BY <2>1 DEF History!Init
  <2>3. /\ DOMAIN x = Fields /\ x.at = "idle" /\ x.from = 0 /\ x.seen = {} /\ x.more /\ x.cursor = None
        /\ x.begun = {}
    BY <2>1 DEF Fields
  <2>4. WalkOK(x)
    BY <1>3, <2>3 DEF WalkOK
  <2> QED BY <2>2, <2>3, <2>4
<1>7. WalksOK
  <2>1. DOMAIN walk = Walkers /\ pending = {}
    BY DEF History!Init
  <2> QED BY <1>6, <2>1 DEF WalksOK
<1>8. ChartsOK /\ entries = {}
  BY DEF History!Init, ChartsOK
<1> QED BY <1>5, <1>7, <1>8 DEF HistoryInv

LEMMA HistoryNext ==
    ASSUME HistoryConstants, HistoryInv, [History!Next]_History!vars
    PROVE  HistoryInv'
<1>1. ASSUME NEW e \in Logged, History!Draw(e) \/ History!Observe(e) \/ History!Publish(e)
      PROVE  HistoryInv'
  BY <1>1, DrawStep, VersionStep
<1>2. ASSUME NEW w \in Walkers, History!Request(w) \/ History!Loaded(w) \/ History!LoadFails(w)
      PROVE  HistoryInv'
  BY <1>2, RequestStep, LoadedStep, LoadFailsStep
<1>3. ASSUME NEW c \in Charts, NEW until \in History!Buckets,
             History!OpenChart(c, until) \/ History!Refresh(c, until)
      PROVE  HistoryInv'
  <2>1. until \in Nat
    BY DEF History!Buckets
  <2> QED BY <1>3, <2>1, ChartStep
<1>4. ASSUME UNCHANGED History!vars PROVE HistoryInv'
  <2>1. UNCHANGED <<drawn, versions, entries, pending, walk, chart>>
    BY <1>4 DEF History!vars
  <2>2. /\ Len(versions') \in Nat /\ Len(versions) <= Len(versions')
        /\ \A n \in 1..Len(versions) : versions'[n] = versions[n]
        /\ StoreOK' /\ IdsGrow
    BY <2>1 DEF HistoryInv, StoreOK, VersionsOK, IdsGrow
  <2> QED BY <2>1, <2>2, ReadersKept
<1> QED BY <1>1, <1>2, <1>3, <1>4, ClearStep DEF History!Next

LEMMA ReadersAreTrue == ASSUME HistoryInv PROVE History!WalksAreTrue
<1>1. History!CacheIsTruth
  <2>1. SUFFICES ASSUME NEW entry \in entries, NEW n \in 1..Len(versions),
                        History!KeyOf(n, entry.key.cursor) = entry.key
                 PROVE  /\ entry.page = History!Page(n, entry.key.cursor)
                        /\ entry.more = History!HasMore(n, entry.key.cursor)
    BY DEF History!CacheIsTruth, History!Now
  <2>2. PICK m \in 1..Len(versions) :
          /\ entry.key = History!KeyOf(m, entry.key.cursor)
          /\ entry.page = History!Page(m, entry.key.cursor)
          /\ entry.more = History!HasMore(m, entry.key.cursor)
    BY DEF HistoryInv, EntryOK
  <2>3. m = n
    BY <2>1, <2>2, KeyTellsVersion DEF HistoryInv
  <2> QED BY <2>2, <2>3
<1>2. History!WalkIsOfItsTime
  BY DEF HistoryInv, WalksOK, WalkOK, History!WalkIsOfItsTime
<1>3. History!RefreshSound
  BY DEF HistoryInv, ChartsOK, ChartOK, History!RefreshSound
<1> QED BY <1>1, <1>2, <1>3 DEF History!WalksAreTrue

\* A step of Surfaces is a step of the readers of the history or leaves it alone.
LEMMA HistorySteps == [Next]_vars => [History!Next]_History!vars
BY DEF Next, HistoryStep, SurfaceStep, FeedStep, SwapStep, MarketStep, PortfolioStep, vars, historyVars, History!vars

\* Whatever the process cache holds is what a read of its key's version computes; a
\* walk that has read its last page has all that its first page's version held and
\* nothing whose INSERT began later (duskEventHistory.ts, duskQuoteCache.ts); and a
\* chart that refreshes its suffix misses nothing but samples that became visible out
\* of the order of their ids (duskQuoteHistory.ts): for any events, walks and charts,
\* whatever the order in which the ids that were drawn commit.
THEOREM ReadersSeeTruth == Spec => []WalksAreTrue
<1>1. Init => HistoryInv
  BY HistoryInit, HistoryAssumption DEF Init
<1>2. HistoryInv /\ [Next]_vars => HistoryInv'
  BY HistorySteps, HistoryNext, HistoryAssumption
<1>3. HistoryInv => WalksAreTrue
  BY ReadersAreTrue, HistoryAssumption DEF WalksAreTrue
<1> QED BY <1>1, <1>2, <1>3, PTL DEF Spec

-----------------------------------------------------------------------------
(* Sums over finite sets, as the fold of the library computes them.         *)

LEMMA LeastNat ==
    ASSUME NEW T, T \subseteq Nat, T # {}
    PROVE  \E m \in T : \A n \in T : m <= n
<1>1. PICK m \in T : \A n \in T : <<n, m>> \notin OpToRel(<, Nat)
    BY WFMin, NatLessThanWellFounded
<1>2. \A n \in T : ~(n < m)
    BY <1>1 DEF OpToRel
<1> QED BY <1>2

LEMMA SmallestSet ==
    ASSUME NEW S, IsFiniteSet(S), NEW T, T \subseteq SUBSET S, T # {}
    PROVE  \E m \in T : \A n \in T : n \subseteq m => n = m
<1>1. PICK m \in T : \A n \in T : <<n, m>> \notin StrictSubsetOrdering(S)
    BY WFMin, FS_StrictSubsetOrderingWellFounded, FS_FiniteSubsetsOfFinite
<1> QED BY <1>1 DEF StrictSubsetOrdering

Picked(s) == CHOOSE x \in s : TRUE

\* What the fold computes for each of some sets.
SumLaw(f, sets, g) ==
    g = [s \in sets |-> IF s = {} THEN 0 ELSE f[Picked(s)] + g[s \ {Picked(s)}]]

Sum(f) == (CHOOSE g : SumLaw(f, SUBSET DOMAIN f, g))[DOMAIN f]

\* A finite function into the integers.
Summand(f) ==
    /\ f = [x \in DOMAIN f |-> f[x]]
    /\ IsFiniteSet(DOMAIN f)
    /\ \A x \in DOMAIN f : f[x] \in Int

On(f, s) == [x \in s |-> f[x]]

Alike(f, r, s) == \A x \in s : f[x] = r[x]

LEMMA PickedIs == ASSUME NEW s, s # {} PROVE Picked(s) \in s
BY DEF Picked

LEMMA LawExists ==
    ASSUME NEW f, NEW S, IsFiniteSet(S)
    PROVE  \E g : SumLaw(f, SUBSET S, g)
<1> DEFINE UpTo(k) == {s \in SUBSET S : Cardinality(s) <= k}
           Bad == {k \in Nat : ~ \E g : SumLaw(f, UpTo(k), g)}
<1>0. \A s \in SUBSET S : IsFiniteSet(s) /\ Cardinality(s) \in Nat
    BY FS_Subset, FS_CardinalityType
<1>1. \E g : SumLaw(f, UpTo(0), g)
    <2>1. UpTo(0) = {{}}
        BY <1>0, FS_EmptySet
    <2>2. SumLaw(f, {{}}, [s \in {{}} |-> 0])
        BY DEF SumLaw
    <2> QED BY <2>1, <2>2
<1>2. ASSUME NEW k \in Nat, NEW g, SumLaw(f, UpTo(k), g)
      PROVE  \E h : SumLaw(f, UpTo(k + 1), h)
    <2>1. PICK h : h = [s \in UpTo(k + 1) |-> IF s = {} THEN 0 ELSE f[Picked(s)] + g[s \ {Picked(s)}]]
        OBVIOUS
    <2>2. UpTo(k) \subseteq UpTo(k + 1)
        BY <1>0
    <2>3. \A s \in UpTo(k) : h[s] = g[s]
        BY <1>2, <2>1, <2>2 DEF SumLaw
    <2>4. ASSUME NEW s \in UpTo(k + 1), s # {}
          PROVE  g[s \ {Picked(s)}] = h[s \ {Picked(s)}]
        <3>1. Picked(s) \in s /\ s \in SUBSET S
            BY <2>4, PickedIs
        <3>2. IsFiniteSet(s) /\ Cardinality(s) \in Nat
            BY <3>1, <1>0
        <3>3. Cardinality(s \ {Picked(s)}) = Cardinality(s) - 1
            BY <3>1, <3>2, FS_RemoveElement
        <3>4. s \ {Picked(s)} \in UpTo(k)
            BY <2>4, <3>1, <3>2, <3>3
        <3> QED BY <2>3, <3>4
    <2>5. h = [s \in UpTo(k + 1) |-> IF s = {} THEN 0 ELSE f[Picked(s)] + h[s \ {Picked(s)}]]
        BY <2>1, <2>4
    <2> QED BY <2>5 DEF SumLaw
<1>3. Bad = {}
    <2>1. SUFFICES ASSUME Bad # {} PROVE FALSE
        OBVIOUS
    <2>2. PICK m \in Bad : \A n \in Bad : m <= n
        BY <2>1, LeastNat
    <2>3. m # 0 /\ m \in Nat
        BY <1>1
    <2>4. m - 1 \in Nat /\ m - 1 \notin Bad /\ (m - 1) + 1 = m
        BY <2>2, <2>3
    <2>5. \E g : SumLaw(f, UpTo(m - 1), g)
        BY <2>4
    <2>6. \E h : SumLaw(f, UpTo((m - 1) + 1), h)
        BY <1>2, <2>4, <2>5
    <2> QED BY <2>4, <2>6
<1>4. Cardinality(S) \in Nat /\ UpTo(Cardinality(S)) = SUBSET S
    BY <1>0, FS_Subset, FS_CardinalityType
<1>5. \E g : SumLaw(f, UpTo(Cardinality(S)), g)
    BY <1>3, <1>4
<1> QED BY <1>4, <1>5

\* The law has one answer for the sets that it is of.
LEMMA LawAgrees ==
    ASSUME NEW f, NEW r, NEW S, IsFiniteSet(S), NEW T \in SUBSET S, Alike(f, r, T),
           NEW g, NEW h, SumLaw(f, SUBSET S, g), SumLaw(r, SUBSET T, h)
    PROVE  \A s \in SUBSET T : g[s] = h[s]
<1> DEFINE Bad == {s \in SUBSET T : g[s] # h[s]}
<1>0. IsFiniteSet(T)
    BY FS_Subset
<1>1. SUFFICES ASSUME Bad # {} PROVE FALSE
    OBVIOUS
<1>2. PICK m \in Bad : \A n \in Bad : n \subseteq m => n = m
    <2>1. Bad \subseteq SUBSET T
        OBVIOUS
    <2> HIDE DEF Bad
    <2> QED BY <1>0, <1>1, <2>1, SmallestSet
<1>3. /\ g[m] = IF m = {} THEN 0 ELSE f[Picked(m)] + g[m \ {Picked(m)}]
      /\ h[m] = IF m = {} THEN 0 ELSE r[Picked(m)] + h[m \ {Picked(m)}]
    BY DEF SumLaw
<1>4. m # {} /\ Picked(m) \in m
    BY <1>3, PickedIs
<1>5. m \ {Picked(m)} \notin Bad
    BY <1>2, <1>4
<1>6. g[m \ {Picked(m)}] = h[m \ {Picked(m)}]
    BY <1>5
<1>7. f[Picked(m)] = r[Picked(m)]
    BY <1>4 DEF Alike
<1> QED BY <1>3, <1>4, <1>6, <1>7

\* Whichever element is taken first, the sum is the same.
LEMMA LawStep ==
    ASSUME NEW f, NEW S, IsFiniteSet(S), \A x \in S : f[x] \in Int, NEW g, SumLaw(f, SUBSET S, g)
    PROVE  /\ g[{}] = 0
           /\ \A s \in SUBSET S : g[s] \in Int /\ \A x \in s : g[s] = f[x] + g[s \ {x}]
<1> DEFINE Good(s) == g[s] \in Int /\ \A x \in s : g[s] = f[x] + g[s \ {x}]
           Bad == {s \in SUBSET S : ~Good(s)}
<1>1. \A s \in SUBSET S : g[s] = IF s = {} THEN 0 ELSE f[Picked(s)] + g[s \ {Picked(s)}]
    BY DEF SumLaw
<1>2. SUFFICES ASSUME Bad # {} PROVE FALSE
    BY <1>1
<1>3. PICK m \in Bad : \A n \in Bad : n \subseteq m => n = m
    <2>1. Bad \subseteq SUBSET S
        OBVIOUS
    <2> HIDE DEF Bad
    <2> QED BY <1>2, <2>1, SmallestSet
<1>4. \A n \in SUBSET m : n # m => Good(n)
    BY <1>3
<1>5. m # {} /\ Picked(m) \in m /\ g[m] = f[Picked(m)] + g[m \ {Picked(m)}] /\ m \in SUBSET S
    BY <1>1, PickedIs
<1>6. PICK y \in m : y = Picked(m)
    BY <1>5
<1>7. g[m] = f[y] + g[m \ {y}] /\ Good(m \ {y})
    BY <1>4, <1>5, <1>6
<1>8. f[y] \in Int /\ g[m] \in Int
    BY <1>5, <1>7
<1>9. ASSUME NEW x \in m PROVE g[m] = f[x] + g[m \ {x}]
    <2>1. CASE x = y
        BY <1>7, <2>1
    <2>2. CASE x # y
        <3>1. x \in m \ {y} /\ y \in m \ {x}
            BY <2>2
        <3>2. g[m \ {y}] = f[x] + g[(m \ {y}) \ {x}]
            BY <1>7, <3>1
        <3>3. Good(m \ {x})
            BY <1>4
        <3>4. g[m \ {x}] = f[y] + g[(m \ {x}) \ {y}]
            BY <3>1, <3>3
        <3>5. (m \ {y}) \ {x} = (m \ {x}) \ {y}
            OBVIOUS
        <3>6. Good((m \ {x}) \ {y})
            BY <1>4
        <3>7. PICK z : z = g[(m \ {x}) \ {y}]
            OBVIOUS
        <3>8. z \in Int /\ f[x] \in Int
            BY <1>5, <3>6, <3>7
        <3>9. g[m \ {y}] = f[x] + z /\ g[m \ {x}] = f[y] + z
            BY <3>2, <3>4, <3>5, <3>7
        <3>10. g[m] = f[y] + g[m \ {y}]
            BY <1>7
        <3> QED BY <1>8, <3>8, <3>9, <3>10
    <2> QED BY <2>1, <2>2
<1> QED BY <1>8, <1>9

LEMMA SumIsLaw ==
    ASSUME NEW f, IsFiniteSet(DOMAIN f)
    PROVE  \E g : SumLaw(f, SUBSET DOMAIN f, g) /\ Sum(f) = g[DOMAIN f]
<1>1. \E g : SumLaw(f, SUBSET DOMAIN f, g)
    BY LawExists
<1>2. SumLaw(f, SUBSET DOMAIN f, CHOOSE g : SumLaw(f, SUBSET DOMAIN f, g))
    BY <1>1
<1> QED BY <1>2 DEF Sum

LEMMA OnIs ==
    ASSUME NEW f, Summand(f), NEW s \in SUBSET DOMAIN f
    PROVE  /\ Summand(On(f, s)) /\ DOMAIN On(f, s) = s
           /\ \A x \in s : On(f, s)[x] = f[x]
           /\ s = DOMAIN f => On(f, s) = f
BY FS_Subset DEF Summand, On

\* One element's part of a sum.
LEMMA SumStep ==
    ASSUME NEW f, Summand(f)
    PROVE  /\ Sum(f) \in Int
           /\ DOMAIN f = {} => Sum(f) = 0
           /\ \A x \in DOMAIN f : Sum(f) = f[x] + Sum(On(f, DOMAIN f \ {x}))
<1>1. PICK g : SumLaw(f, SUBSET DOMAIN f, g) /\ Sum(f) = g[DOMAIN f]
    BY SumIsLaw DEF Summand
<1>0. IsFiniteSet(DOMAIN f) /\ \A x \in DOMAIN f : f[x] \in Int
    BY DEF Summand
<1>4. PICK S : S = DOMAIN f
    OBVIOUS
<1>5. IsFiniteSet(S) /\ (\A x \in S : f[x] \in Int) /\ SumLaw(f, SUBSET S, g)
    BY <1>0, <1>1, <1>4
<1>6. /\ g[{}] = 0
      /\ \A s \in SUBSET S : g[s] \in Int /\ \A x \in s : g[s] = f[x] + g[s \ {x}]
    <2>1. IsFiniteSet(S)
        BY <1>5
    <2>2. \A x \in S : f[x] \in Int
        BY <1>5
    <2>3. SumLaw(f, SUBSET S, g)
        BY <1>5
    <2>4. g[{}] = 0
        BY <2>1, <2>2, <2>3, LawStep
    <2>5. ASSUME NEW s \in SUBSET S PROVE g[s] \in Int
        BY <2>1, <2>2, <2>3, LawStep
    <2>6. ASSUME NEW s \in SUBSET S, NEW x \in s PROVE g[s] = f[x] + g[s \ {x}]
        BY <2>1, <2>2, <2>3, LawStep
    <2> QED BY <2>4, <2>5, <2>6
<1>2. /\ g[{}] = 0 /\ g[DOMAIN f] \in Int
      /\ \A x \in DOMAIN f : g[DOMAIN f] = f[x] + g[DOMAIN f \ {x}]
    BY <1>4, <1>6
<1>3. ASSUME NEW x \in DOMAIN f
      PROVE  Sum(On(f, DOMAIN f \ {x})) = g[DOMAIN f \ {x}]
    <2>1. PICK T : T = DOMAIN f \ {x}
        OBVIOUS
    <2>2. PICK r : r = On(f, T)
        OBVIOUS
    <2>3. T \in SUBSET DOMAIN f /\ DOMAIN r = T /\ Summand(r) /\ \A z \in T : f[z] = r[z]
        BY <2>1, <2>2, OnIs
    <2>4. PICK h : SumLaw(r, SUBSET T, h) /\ Sum(r) = h[T]
        BY <2>3, SumIsLaw DEF Summand
    <2>6. T \in SUBSET S /\ SumLaw(r, SUBSET T, h) /\ \A z \in T : f[z] = r[z]
        BY <1>4, <2>3, <2>4
    <2>5. \A s \in SUBSET T : g[s] = h[s]
        <3>1. IsFiniteSet(S)
            BY <1>5
        <3>2. SumLaw(f, SUBSET S, g)
            BY <1>5
        <3>3. Alike(f, r, T)
            BY <2>6 DEF Alike
        <3>4. T \in SUBSET S
            BY <2>6
        <3>5. SumLaw(r, SUBSET T, h)
            BY <2>6
        <3>6. ASSUME NEW s \in SUBSET T PROVE g[s] = h[s]
            BY <3>1, <3>2, <3>3, <3>4, <3>5, LawAgrees
        <3> QED BY <3>6
    <2> QED BY <2>1, <2>2, <2>4, <2>5
<1> QED BY <1>1, <1>2, <1>3

\* The partial sums of f.
LEMMA SumOn ==
    ASSUME NEW f, Summand(f), NEW s \in SUBSET DOMAIN f, NEW x \in s
    PROVE  /\ Sum(On(f, s)) = f[x] + Sum(On(f, s \ {x}))
           /\ Sum(On(f, s)) \in Int /\ Sum(On(f, s \ {x})) \in Int /\ f[x] \in Int
<1>1. /\ Summand(On(f, s)) /\ DOMAIN On(f, s) = s /\ On(f, s)[x] = f[x]
      /\ Summand(On(f, s \ {x})) /\ f[x] \in Int
    BY OnIs DEF Summand
<1>2. On(On(f, s), s \ {x}) = On(f, s \ {x})
    BY DEF On
<1>3. Sum(On(f, s)) = On(f, s)[x] + Sum(On(On(f, s), s \ {x}))
    BY <1>1, SumStep
<1> QED BY <1>1, <1>2, <1>3, SumStep

LEMMA SumOnNone ==
    ASSUME NEW f
    PROVE  Sum(On(f, {})) = 0
<1>1. Summand(On(f, {})) /\ DOMAIN On(f, {}) = {}
    BY FS_EmptySet DEF Summand, On
<1> QED BY <1>1, SumStep

\* More in each place is more in all.
LEMMA SumMonotonic ==
    ASSUME NEW f, NEW g, Summand(f), Summand(g), DOMAIN f = DOMAIN g,
           \A x \in DOMAIN f : f[x] <= g[x]
    PROVE  Sum(f) <= Sum(g)
<1> DEFINE Bad == {s \in SUBSET DOMAIN f : ~(Sum(On(f, s)) <= Sum(On(g, s)))}
<1>1. Bad = {}
    <2>1. SUFFICES ASSUME Bad # {} PROVE FALSE
        OBVIOUS
    <2>2. PICK m \in Bad : \A n \in Bad : n \subseteq m => n = m
        <3>1. Bad \subseteq SUBSET DOMAIN f
            OBVIOUS
        <3> HIDE DEF Bad
        <3> QED BY <2>1, <3>1, SmallestSet DEF Summand
    <2>3. m # {}
        <3>1. SUFFICES ASSUME m = {} PROVE FALSE
            OBVIOUS
        <3>2. Sum(On(f, m)) = 0 /\ Sum(On(g, m)) = 0
            BY <3>1, SumOnNone
        <3>3. Sum(On(f, m)) <= Sum(On(g, m))
            BY <3>2
        <3> QED BY <2>2, <3>3
    <2>4. PICK x \in m : TRUE
        BY <2>3
    <2>5. m \ {x} \notin Bad /\ m \in SUBSET DOMAIN f
        BY <2>2
    <2>6. Sum(On(f, m \ {x})) <= Sum(On(g, m \ {x}))
        BY <2>5
    <2>7. /\ Sum(On(f, m)) = f[x] + Sum(On(f, m \ {x}))
          /\ Sum(On(f, m)) \in Int /\ Sum(On(f, m \ {x})) \in Int /\ f[x] \in Int
        BY <2>5, SumOn
    <2>8. /\ Sum(On(g, m)) = g[x] + Sum(On(g, m \ {x}))
          /\ Sum(On(g, m)) \in Int /\ Sum(On(g, m \ {x})) \in Int /\ g[x] \in Int
        BY <2>5, SumOn
    <2>9. f[x] <= g[x]
        BY <2>5
    <2> QED BY <2>2, <2>6, <2>7, <2>8, <2>9
<1>2. DOMAIN f \notin Bad
    BY <1>1
<1> QED BY <1>2, OnIs

LEMMA SumOfZeros ==
    ASSUME NEW f, Summand(f), \A x \in DOMAIN f : f[x] = 0
    PROVE  Sum(f) = 0
<1> DEFINE Bad == {s \in SUBSET DOMAIN f : Sum(On(f, s)) # 0}
<1>1. Bad = {}
    <2>1. SUFFICES ASSUME Bad # {} PROVE FALSE
        OBVIOUS
    <2>2. PICK m \in Bad : \A n \in Bad : n \subseteq m => n = m
        <3>1. Bad \subseteq SUBSET DOMAIN f
            OBVIOUS
        <3> HIDE DEF Bad
        <3> QED BY <2>1, <3>1, SmallestSet DEF Summand
    <2>3. PICK x \in m : TRUE
        BY <2>2, SumOnNone
    <2>4. m \ {x} \notin Bad /\ m \in SUBSET DOMAIN f
        BY <2>2
    <2>5. Sum(On(f, m)) = f[x] + Sum(On(f, m \ {x}))
        BY <2>4, SumOn
    <2> QED BY <2>2, <2>4, <2>5
<1>2. DOMAIN f \notin Bad
    BY <1>1
<1> QED BY <1>2, OnIs

\* A sum by parts: what each place of h has together, and all of those.
Fiber(f, h, s, m) == On(f, {x \in s : h[x] = m})
Fibers(f, h, s, M) == [m \in M |-> Sum(Fiber(f, h, s, m))]

LEMMA FibersAre ==
    ASSUME NEW f, Summand(f), NEW h, NEW s \in SUBSET DOMAIN f, NEW M, IsFiniteSet(M)
    PROVE  Summand(Fibers(f, h, s, M)) /\ DOMAIN Fibers(f, h, s, M) = M
<1>1. ASSUME NEW m \in M PROVE Sum(Fiber(f, h, s, m)) \in Int
    <2>1. Summand(On(f, {x \in s : h[x] = m}))
        BY OnIs
    <2> QED BY <2>1, SumStep DEF Fiber
<1> QED BY <1>1 DEF Fibers, Summand

LEMMA SumByFibers ==
    ASSUME NEW f, Summand(f), NEW h, NEW M, IsFiniteSet(M), \A x \in DOMAIN f : h[x] \in M
    PROVE  Sum(f) = Sum(Fibers(f, h, DOMAIN f, M))
<1> DEFINE Bad == {s \in SUBSET DOMAIN f : Sum(On(f, s)) # Sum(Fibers(f, h, s, M))}
<1>1. Bad = {}
    <2>1. SUFFICES ASSUME Bad # {} PROVE FALSE
        OBVIOUS
    <2>2. PICK s \in Bad : \A n \in Bad : n \subseteq s => n = s
        <3>1. Bad \subseteq SUBSET DOMAIN f
            OBVIOUS
        <3> HIDE DEF Bad
        <3> QED BY <2>1, <3>1, SmallestSet DEF Summand
    <2>3. s # {}
        <3>1. SUFFICES ASSUME s = {} PROVE FALSE
            OBVIOUS
        <3>2. \A m \in M : Fibers(f, h, s, M)[m] = 0
            <4>1. \A m \in M : {x \in s : h[x] = m} = {}
                BY <3>1
            <4> QED BY <4>1, SumOnNone DEF Fibers, Fiber
        <3>3. Sum(Fibers(f, h, s, M)) = 0
            BY <3>1, <3>2, FibersAre, SumOfZeros
        <3> QED BY <2>2, <3>1, <3>3, SumOnNone
    <2>4. PICK x \in s : TRUE
        BY <2>3
    <2>5. PICK r : r = s \ {x}
        OBVIOUS
    <2>6. r \notin Bad /\ s \in SUBSET DOMAIN f /\ r \in SUBSET DOMAIN f /\ x \in DOMAIN f
        BY <2>2, <2>4, <2>5
    <2>7. Sum(On(f, r)) = Sum(Fibers(f, h, r, M))
        BY <2>6
    <2>8. Sum(On(f, s)) = f[x] + Sum(On(f, r)) /\ f[x] \in Int
        BY <2>4, <2>5, <2>6, SumOn
    <2>9. PICK k \in M : k = h[x]
        BY <2>6
    <2>10. PICK F : F = Fibers(f, h, s, M)
        OBVIOUS
    <2>11. PICK R : R = Fibers(f, h, r, M)
        OBVIOUS
    <2>12. Summand(F) /\ Summand(R) /\ DOMAIN F = M /\ DOMAIN R = M
        BY <2>6, <2>10, <2>11, FibersAre
    <2>13. F[k] = f[x] + R[k]
        <3>1. PICK t : t = {y \in s : h[y] = k}
            OBVIOUS
        <3>2. t \in SUBSET DOMAIN f /\ x \in t /\ t \ {x} = {y \in r : h[y] = k}
            BY <2>4, <2>5, <2>6, <2>9, <3>1
        <3>3. Sum(On(f, t)) = f[x] + Sum(On(f, t \ {x}))
            BY <3>2, SumOn
        <3> QED BY <2>10, <2>11, <3>1, <3>2, <3>3 DEF Fibers, Fiber
    <2>14. \A m \in M \ {k} : F[m] = R[m]
        <3>1. \A m \in M \ {k} : {y \in s : h[y] = m} = {y \in r : h[y] = m}
            BY <2>4, <2>5, <2>9
        <3> QED BY <2>10, <2>11, <3>1 DEF Fibers, Fiber
    <2>15. On(F, M \ {k}) = On(R, M \ {k})
        BY <2>14 DEF On
    <2>16. /\ Sum(F) = F[k] + Sum(On(F, M \ {k})) /\ Sum(R) = R[k] + Sum(On(R, M \ {k}))
           /\ F[k] \in Int /\ R[k] \in Int /\ Sum(F) \in Int /\ Sum(R) \in Int
        BY <2>12, SumStep DEF Summand
    <2>17. Sum(On(R, M \ {k})) \in Int
        BY <2>12, OnIs, SumStep
    <2>18. Sum(F) = f[x] + Sum(R)
        BY <2>8, <2>13, <2>15, <2>16, <2>17
    <2> QED BY <2>2, <2>7, <2>8, <2>10, <2>11, <2>18
<1>2. DOMAIN f \notin Bad
    BY <1>1
<1> QED BY <1>2, OnIs

-----------------------------------------------------------------------------
(* The value baselines.                                                     *)

\* What the queries of an answer may have seen.
SawOK(saw) ==
    \A q \in Market!Queries : saw[q] \subseteq {r \in Rows : r.kind \in Market!KindsOf(q)}

MarketInv ==
    /\ facts \subseteq Rows
    /\ asked # None => asked.listed \in {Shown, Pools}
    /\ totals # None =>
          \E listed \in {Shown, Pools} : \E saw : SawOK(saw) /\ totals = Market!Answer(listed, saw)

\* A value that is not missing is a number.
WorthOK(c) == c.quality # "missing" => c.usd \in Int

\* A metric of two sides: missing, or their sum.
BothOf(metric, c, d) ==
    IF "missing" \in {c.quality, d.quality} THEN metric = Market!Missing
    ELSE metric.value = c.usd + d.usd /\ metric.quality # "missing"

LEMMA TotalIsSum == \A f : Market!Total(f) = Sum(f)
BY DEF Market!Total, Market!MapThenSumSet, Market!MapThenFoldSet, Sum, SumLaw, Picked

\* Of finitely many rows one is the latest.
LEMMA LatestIs ==
    ASSUME MarketConstants, NEW S, S \subseteq Rows, S # {}
    PROVE  Market!Latest(S) \in S
<1> DEFINE Later(r) == {s \in S : s.at > r.at}
           All == {Later(r) : r \in S}
<1>1. IsFiniteSet(S) /\ \A r \in S : r.at \in Int
    BY FS_Subset DEF MarketConstants
<1>2. PICK m \in All : \A n \in All : n \subseteq m => n = m
    <2>1. All \subseteq SUBSET S /\ All # {}
        OBVIOUS
    <2> HIDE DEF All
    <2> QED BY <1>1, <2>1, SmallestSet
<1>3. PICK r \in S : m = Later(r)
    BY <1>2
<1>4. ASSUME NEW s \in S PROVE s.at <= r.at
    <2>1. SUFFICES ASSUME s.at > r.at PROVE FALSE
        BY <1>1
    <2>2. Later(s) \subseteq Later(r) /\ s \in Later(r) /\ s \notin Later(s)
        BY <1>1, <2>1
    <2>3. Later(s) \in All
        OBVIOUS
    <2> QED BY <1>2, <1>3, <2>2, <2>3
<1> QED BY <1>4 DEF Market!Latest

LEMMA AtLeastZero ==
    ASSUME NEW x \in Int
    PROVE  Market!Max({0, x}) \in Int /\ Market!Max({x, 0}) \in Int
<1>1. \E y \in {0, x} : \A z \in {0, x} : y >= z
    BY SMT
<1>2. Market!Max({0, x}) \in {0, x}
    BY <1>1 DEF Market!Max
<1>3. {0, x} = {x, 0}
    OBVIOUS
<1> QED BY <1>2, <1>3

\* The sum of numbers of finitely many rows.
LEMMA TotalOfRows ==
    ASSUME MarketConstants, NEW S, S \subseteq Rows, NEW f, f = [r \in S |-> f[r]],
           \A r \in S : f[r] \in Int
    PROVE  Market!Total(f) \in Int
<1>1. Summand(f)
    BY FS_Subset DEF Summand, MarketConstants
<1> QED BY <1>1, SumStep, TotalIsSum

\* Reserves and debts are numbers.
LEMMA AmountsAre ==
    ASSUME MarketConstants, NEW saw, SawOK(saw), NEW p, NEW i \in {1, 2}
    PROVE  /\ Market!Reserve(saw.reserves, p, i) \in Int
           /\ Market!Max({0, Market!Principal(saw.principal, p, i) + Market!Interest(saw.interest, p, i)}) \in Int
<1>1. /\ saw.reserves \subseteq {r \in Rows : r.kind \in {"swap", "update"}}
      /\ saw.principal \subseteq {r \in Rows : r.kind = "debt"}
      /\ saw.interest \subseteq {r \in Rows : r.kind = "update"}
    <2>1. {"reserves", "principal", "interest"} \subseteq Market!Queries
        BY DEF Market!Queries
    <2>2. /\ Market!KindsOf("reserves") = {"swap", "update"}
          /\ Market!KindsOf("principal") = {"debt"}
          /\ Market!KindsOf("interest") = {"update"}
        BY DEF Market!KindsOf
    <2> QED BY <2>1, <2>2 DEF SawOK
<1>2. Market!Reserve(saw.reserves, p, i) \in Int
    <2>1. PICK S : S = Market!Of(saw.reserves, p)
        OBVIOUS
    <2>2. S \subseteq Rows /\ \A r \in S : r.reserve[i] \in Int
        BY <1>1, <2>1 DEF Market!Of, MarketConstants
    <2>3. S # {} => Market!Latest(S) \in S
        BY <2>2, LatestIs
    <2> QED BY <2>1, <2>2, <2>3 DEF Market!Reserve, Market!LatestRow
<1>3. Market!Principal(saw.principal, p, i) \in Int
    <2>1. PICK S : S = Market!Of(saw.principal, p)
        OBVIOUS
    <2>2. S \subseteq Rows /\ \A r \in S : r.amount[i] \in Int
        BY <1>1, <2>1 DEF Market!Of, MarketConstants
    <2>3. PICK f : f = [r \in S |-> r.amount[i]]
        OBVIOUS
    <2>4. Market!Total(f) \in Int
        BY <2>2, <2>3, TotalOfRows
    <2> QED BY <2>1, <2>3, <2>4, AtLeastZero DEF Market!Principal
<1>4. Market!Interest(saw.interest, p, i) \in Int
    <2>1. PICK S : S = Market!Of(saw.interest, p)
        OBVIOUS
    <2>2. S \subseteq Rows /\ \A r \in S : r.interest[i] \in Int
        BY <1>1, <2>1 DEF Market!Of, MarketConstants
    <2>3. PICK f : f = [r \in S |-> r.interest[i]]
        OBVIOUS
    <2>4. Market!Total(f) \in Int
        BY <2>2, <2>3, TotalOfRows
    <2> QED BY <2>1, <2>3, <2>4 DEF Market!Interest
<1>5. PICK x \in Int : x = Market!Principal(saw.principal, p, i) + Market!Interest(saw.interest, p, i)
    BY <1>3, <1>4
<1> QED BY <1>2, <1>5, AtLeastZero

LEMMA PriceIs ==
    ASSUME MarketConstants, NEW saw, SawOK(saw), NEW m
    PROVE  LET price == Market!StoredPrice(saw.prices, m) IN price # None => price.usd \in Int
<1>1. "prices" \in Market!Queries /\ Market!KindsOf("prices") = {"price"}
    BY DEF Market!Queries, Market!KindsOf
<1>2. saw.prices \subseteq {r \in Rows : r.kind = "price"}
    BY <1>1 DEF SawOK
<1>3. PICK S : S = {r \in saw.prices : /\ r.mint = m /\ r.provider = "birdeye"
                                      /\ r.at <= (Baseline \div Hour) * Hour}
    OBVIOUS
<1>4. S \subseteq Rows /\ \A r \in S : r.usd \in Int
    BY <1>2, <1>3 DEF MarketConstants
<1>5. S # {} => Market!Latest(S) \in S
    BY <1>4, LatestIs
<1> QED BY <1>3, <1>4, <1>5 DEF Market!StoredPrice

LEMMA ConvertIs ==
    ASSUME NEW n \in Int, NEW price, price # None => price.usd \in Int
    PROVE  WorthOK(Market!Convert(n, price))
<1>1. CASE Market!Priced(price)
    <2>1. price.usd \in Int
        BY <1>1 DEF Market!Priced
    <2>2. n * price.usd \in Int
        BY <2>1
    <2> QED BY <1>1, <2>2 DEF Market!Convert, WorthOK
<1>2. CASE ~Market!Priced(price)
    BY <1>2 DEF Market!Convert, WorthOK
<1> QED BY <1>1, <1>2

\* A pool's metrics are of its sides'.
LEMMA PoolIs ==
    ASSUME MarketConstants, NEW saw, SawOK(saw), NEW p
    PROVE  \E held, lent :
              LET pool == Market!PoolBaseline(p, saw)
              IN  /\ \A i \in {1, 2} : WorthOK(held[i]) /\ WorthOK(lent[i])
                  /\ pool.reserves = [i \in {1, 2} |-> Market!AmountMetric(held[i])]
                  /\ pool.sideDebts = [i \in {1, 2} |-> Market!AmountMetric(lent[i])]
                  /\ BothOf(pool.liquidity, held[1], held[2])
                  /\ BothOf(pool.debt, lent[1], lent[2])
<1> DEFINE price == [i \in {1, 2} |-> Market!StoredPrice(saw.prices, TokensOf[p][i])]
           debts == [i \in {1, 2} |-> Market!Max({0, Market!Principal(saw.principal, p, i)
                                                   + Market!Interest(saw.interest, p, i)})]
           kept == [i \in {1, 2} |-> Market!Reserve(saw.reserves, p, i)]
           held == [i \in {1, 2} |-> Market!Convert(kept[i], price[i])]
           lent == [i \in {1, 2} |-> Market!Convert(debts[i], price[i])]
<1>1. ASSUME NEW i \in {1, 2} PROVE WorthOK(held[i]) /\ WorthOK(lent[i])
    <2>1. kept[i] \in Int /\ debts[i] \in Int
        BY AmountsAre
    <2>2. price[i] # None => price[i].usd \in Int
        BY PriceIs
    <2> HIDE DEF kept, debts, price
    <2> QED BY <2>1, <2>2, ConvertIs
<1>2. LET pool == Market!PoolBaseline(p, saw)
      IN  /\ pool.reserves = [i \in {1, 2} |-> Market!AmountMetric(held[i])]
          /\ pool.sideDebts = [i \in {1, 2} |-> Market!AmountMetric(lent[i])]
          /\ pool.liquidity = Market!UsdMetric(held, "")
          /\ pool.debt = Market!UsdMetric(lent, "estimated")
    BY DEF Market!PoolBaseline, Market!Sides
<1> HIDE DEF held, lent
<1>3. BothOf(Market!UsdMetric(held, ""), held[1], held[2])
    BY DEF Market!UsdMetric, Market!Sides, BothOf, Market!Summed, Market!Missing
<1>4. BothOf(Market!UsdMetric(lent, "estimated"), lent[1], lent[2])
    BY DEF Market!UsdMetric, Market!Sides, BothOf, Market!Summed, Market!Missing
<1> WITNESS held, lent
<1> QED BY <1>1, <1>2, <1>3, <1>4

\* What places hold, added up by pool or by token.
Places(listed) == listed \X {1, 2}
ByPool(listed) == [x \in Places(listed) |-> x[1]]
ByToken(listed) == [x \in Places(listed) |-> TokensOf[x[1]][x[2]]]
Holding(listed, m) == {x \in Places(listed) : TokensOf[x[1]][x[2]] = m}

LEMMA PlacesAre ==
    ASSUME NEW listed, IsFiniteSet(listed)
    PROVE  IsFiniteSet(Places(listed)) /\ IsFiniteSet({ByToken(listed)[x] : x \in Places(listed)})
<1>1. IsFiniteSet(Places(listed))
    <2>1. IsFiniteSet({1} \cup {2}) /\ {1} \cup {2} = {1, 2}
        BY FS_Singleton, FS_AddElement
    <2> QED BY <2>1, FS_Product DEF Places
<1>2. PICK T : T = {ByToken(listed)[x] : x \in Places(listed)}
    OBVIOUS
<1>3. ByToken(listed) \in Surjection(Places(listed), T)
    BY <1>2 DEF ByToken, Surjection
<1>4. IsFiniteSet(T)
    BY <1>1, <1>3, FS_Surjection
<1> QED BY <1>1, <1>2, <1>4

LEMMA SumOfTwo ==
    ASSUME NEW f, Summand(f), NEW a, NEW b, a # b, DOMAIN f = {a, b}
    PROVE  Sum(f) = f[a] + f[b]
<1>1. Sum(On(f, {a, b})) = f[a] + Sum(On(f, {b}))
    <2>1. {a, b} \ {a} = {b}
        OBVIOUS
    <2>2. Sum(On(f, {a, b})) = f[a] + Sum(On(f, {a, b} \ {a}))
        BY SumOn
    <2> QED BY <2>1, <2>2
<1>2. Sum(On(f, {b})) = f[b] + Sum(On(f, {}))
    <2>1. {b} \ {b} = {}
        OBVIOUS
    <2>2. Sum(On(f, {b})) = f[b] + Sum(On(f, {b} \ {b}))
        BY SumOn
    <2> QED BY <2>1, <2>2
<1>3. Sum(On(f, {})) = 0 /\ f[a] \in Int /\ f[b] \in Int
    BY SumOnNone DEF Summand
<1>4. On(f, {a, b}) = f
    BY OnIs
<1> QED BY <1>1, <1>2, <1>3, <1>4

\* Metrics of pools and of tokens that are of what places hold.
PoolsTell(listed, c, whole) ==
    /\ whole = [p \in listed |-> whole[p]]
    /\ \A x \in Places(listed) : WorthOK(c[x])
    /\ \A p \in listed : BothOf(whole[p], c[<<p, 1>>], c[<<p, 2>>])

Parts(listed, c, m) ==
    Market!AddUp([x \in Holding(listed, m) |-> Market!AmountMetric(c[x])], Holding(listed, m))

\* The pools' metrics and the tokens' add up to the same, or are missing together.
LEMMA TwoWays ==
    ASSUME NEW listed, IsFiniteSet(listed), NEW c, NEW whole,
           PoolsTell(listed, c, whole),
           NEW mints, mints = {ByToken(listed)[x] : x \in Places(listed)},
           NEW tokens, tokens = [m \in mints |-> Parts(listed, c, m)]
    PROVE  Market!AddUp(whole, listed) = Market!AddUp(tokens, mints)
<1> DEFINE D == Places(listed)
<1>0. /\ whole = [p \in listed |-> whole[p]]
      /\ \A x \in D : WorthOK(c[x])
      /\ \A p \in listed : BothOf(whole[p], c[<<p, 1>>], c[<<p, 2>>])
    BY DEF PoolsTell
<1>1. IsFiniteSet(D) /\ IsFiniteSet(mints)
    BY PlacesAre
<1>2. \A x \in D : x[1] \in listed /\ x[2] \in {1, 2} /\ x = <<x[1], x[2]>>
    BY DEF Places
<1>3. \A p \in listed : <<p, 1>> \in D /\ <<p, 2>> \in D
    BY DEF Places
<1>4. \A x \in D : Market!AmountMetric(c[x]) = Market!Missing <=> c[x].quality = "missing"
    BY DEF Market!AmountMetric, Market!Missing, Market!Summed
<1>5. \A m \in mints :
          tokens[m] = Market!Missing <=> \E x \in Holding(listed, m) : c[x].quality = "missing"
    <2>1. SUFFICES ASSUME NEW m \in mints
                   PROVE tokens[m] = Market!Missing <=> \E x \in Holding(listed, m) : c[x].quality = "missing"
        OBVIOUS
    <2>2. Holding(listed, m) \subseteq D
        BY DEF Holding
    <2>3. PICK part : part = [x \in Holding(listed, m) |-> Market!AmountMetric(c[x])]
        OBVIOUS
    <2>4. tokens[m] = Market!AddUp(part, Holding(listed, m))
        BY <2>1, <2>3 DEF Parts
    <2>5. tokens[m] = Market!Missing <=> \E x \in Holding(listed, m) : part[x] = Market!Missing
        BY <2>4 DEF Market!AddUp, Market!Summed, Market!Missing
    <2> QED BY <1>4, <2>2, <2>3, <2>5
<1>6. CASE \E x \in D : c[x].quality = "missing"
    <2>1. PICK x \in D : c[x].quality = "missing"
        BY <1>6
    <2>2. whole[x[1]] = Market!Missing /\ x[1] \in listed
        <3>1. PICK p \in listed : p = x[1] /\ (x = <<p, 1>> \/ x = <<p, 2>>)
            BY <1>2
        <3>2. BothOf(whole[p], c[<<p, 1>>], c[<<p, 2>>])
            BY <1>0
        <3>3. c[<<p, 1>>].quality = "missing" \/ c[<<p, 2>>].quality = "missing"
            BY <2>1, <3>1
        <3> QED BY <3>1, <3>2, <3>3 DEF BothOf
    <2>3. Market!AddUp(whole, listed) = Market!Missing
        BY <2>2 DEF Market!AddUp
    <2>4. PICK m \in mints : m = ByToken(listed)[x]
        BY <2>1
    <2>5. x \in Holding(listed, m)
        BY <2>1, <2>4 DEF Holding, ByToken
    <2>6. tokens[m] = Market!Missing
        BY <1>5, <2>1, <2>5
    <2>7. Market!AddUp(tokens, mints) = Market!Missing
        BY <2>6 DEF Market!AddUp
    <2> QED BY <2>3, <2>7
<1>7. CASE \A x \in D : c[x].quality # "missing"
    <2>1. PICK f : f = [x \in D |-> c[x].usd]
        OBVIOUS
    <2>2. Summand(f) /\ DOMAIN f = D
        BY <1>0, <1>1, <1>7, <2>1 DEF Summand, WorthOK
    <2>3. Market!AddUp(whole, listed) = Market!Summed(Sum(f), "estimated")
        <3>1. ASSUME NEW p \in listed
              PROVE  whole[p].value = f[<<p, 1>>] + f[<<p, 2>>] /\ whole[p] # Market!Missing
            <4>1. PICK x \in D : x = <<p, 1>>
                BY <1>3
            <4>2. PICK y \in D : y = <<p, 2>>
                BY <1>3
            <4>3. BothOf(whole[p], c[x], c[y]) /\ c[x].quality # "missing" /\ c[y].quality # "missing"
                BY <1>0, <1>7, <4>1, <4>2
            <4>4. whole[p].value = c[x].usd + c[y].usd /\ whole[p].quality # "missing"
                BY <4>3 DEF BothOf
            <4>5. f[x] = c[x].usd /\ f[y] = c[y].usd
                BY <2>1
            <4> QED BY <4>1, <4>2, <4>4, <4>5 DEF Market!Missing
        <3>2. PICK h : h = ByPool(listed)
            OBVIOUS
        <3>3. ASSUME NEW p \in listed PROVE Sum(Fiber(f, h, D, p)) = whole[p].value
            <4>1. {x \in D : h[x] = p} = {<<p, 1>>, <<p, 2>>}
                BY <1>2, <1>3, <3>2 DEF ByPool
            <4>2. PICK r : r = On(f, {<<p, 1>>, <<p, 2>>})
                OBVIOUS
            <4>3. /\ Summand(r) /\ DOMAIN r = {<<p, 1>>, <<p, 2>>}
                  /\ r[<<p, 1>>] = f[<<p, 1>>] /\ r[<<p, 2>>] = f[<<p, 2>>]
                BY <1>3, <2>2, <4>2, OnIs
            <4>4. Sum(r) = f[<<p, 1>>] + f[<<p, 2>>]
                BY <4>3, SumOfTwo
            <4> QED BY <3>1, <4>1, <4>2, <4>4 DEF Fiber
        <3>4. Fibers(f, h, D, listed) = [p \in listed |-> whole[p].value]
            BY <3>3 DEF Fibers
        <3>5. \A x \in DOMAIN f : h[x] \in listed
            BY <1>2, <2>2, <3>2 DEF ByPool
        <3>6. Sum(f) = Sum([p \in listed |-> whole[p].value])
            BY <2>2, <3>4, <3>5, SumByFibers
        <3> QED BY <1>0, <3>1, <3>6, TotalIsSum DEF Market!AddUp
    <2>4. Market!AddUp(tokens, mints) = Market!Summed(Sum(f), "estimated")
        <3>1. PICK h : h = ByToken(listed)
            OBVIOUS
        <3>2. ASSUME NEW m \in mints
              PROVE  tokens[m] # Market!Missing /\ tokens[m].value = Sum(Fiber(f, h, D, m))
            <4>1. PICK S : S = Holding(listed, m)
                OBVIOUS
            <4>2. S \subseteq D /\ S = {x \in D : h[x] = m}
                BY <3>1, <4>1 DEF Holding, ByToken
            <4>3. tokens[m] # Market!Missing
                BY <1>5, <1>7, <4>1, <4>2
            <4>4. PICK part : part = [x \in S |-> Market!AmountMetric(c[x])]
                OBVIOUS
            <4>5. tokens[m] = Market!AddUp(part, S)
                BY <4>1, <4>4 DEF Parts
            <4>6. \A x \in S : part[x] # Market!Missing
                BY <1>4, <1>7, <4>2, <4>4
            <4>7. tokens[m].value = Sum([x \in S |-> part[x].value])
                BY <4>5, <4>6, TotalIsSum DEF Market!AddUp, Market!Summed
            <4>8. \A x \in S : part[x].value = f[x]
                BY <1>7, <2>1, <4>2, <4>4 DEF Market!AmountMetric, Market!Summed
            <4>9. [x \in S |-> part[x].value] = On(f, S)
                BY <4>8 DEF On
            <4> QED BY <4>2, <4>3, <4>7, <4>9 DEF Fiber
        <3>3. Fibers(f, h, D, mints) = [m \in mints |-> tokens[m].value]
            BY <3>2 DEF Fibers
        <3>4. \A x \in DOMAIN f : h[x] \in mints
            BY <2>2, <3>1
        <3>5. Sum(f) = Sum([m \in mints |-> tokens[m].value])
            BY <1>1, <2>2, <3>3, <3>4, SumByFibers
        <3> QED BY <3>2, <3>5, TotalIsSum DEF Market!AddUp
    <2> QED BY <2>3, <2>4
<1> QED BY <1>6, <1>7

\* A token's metrics are of the sides that hold it.
LEMMA TokenIs ==
    ASSUME NEW m, NEW q, NEW price,
           NEW S, S = {x \in (DOMAIN q) \X Market!Sides : TokensOf[x[1]][x[2]] = m}
    PROVE  /\ Market!TokenBaseline(m, q, price).liquidity =
                  Market!AddUp([x \in S |-> q[x[1]].reserves[x[2]]], S)
           /\ Market!TokenBaseline(m, q, price).debt =
                  Market!AddUp([x \in S |-> q[x[1]].sideDebts[x[2]]], S)
<1> DEFINE T == {x \in (DOMAIN q) \X Market!Sides : TokensOf[x[1]][x[2]] = m}
           A == Market!AddUp([x \in T |-> q[x[1]].reserves[x[2]]], T)
           B == Market!AddUp([x \in T |-> q[x[1]].sideDebts[x[2]]], T)
<1>1. \E u, v, w : Market!TokenBaseline(m, q, price) =
          [price |-> u, liquidity |-> A, debt |-> B, borrowRate |-> v, utilization |-> w]
    BY Zenon DEF Market!TokenBaseline
<1> HIDE DEF A, B
<1>2. Market!TokenBaseline(m, q, price).liquidity = A /\ Market!TokenBaseline(m, q, price).debt = B
    BY <1>1
<1> HIDE DEF T
<1>3. S = T
    BY DEF T
<1> QED BY <1>2, <1>3 DEF A, B

\* The totals of an answer, whatever its queries saw.
LEMMA AnswerAddsUp ==
    ASSUME MarketConstants, NEW listed \in {Shown, Pools}, NEW saw, SawOK(saw),
           totals = Market!Answer(listed, saw)
    PROVE  Market!TotalsAreWhole
<1> DEFINE mints == {TokensOf[p][i] : p \in listed, i \in Market!Sides}
           pools == [p \in listed |-> Market!PoolBaseline(p, saw)]
           debts == [p \in listed |-> pools[p].debt]
           liquidity == [p \in listed |-> pools[p].liquidity]
           tokenDebts == [m \in mints |-> totals.tokens[m].debt]
           tokenLiquidity == [m \in mints |-> totals.tokens[m].liquidity]
           locked == [p \in listed |-> pools[p].collateral]
<1>1. IsFiniteSet(listed)
    BY FS_Subset DEF MarketConstants
<1>2. /\ totals.pools = pools /\ DOMAIN totals.tokens = mints
      /\ totals.borrowed = Market!AddUp(debts, listed)
      /\ totals.deposited =
            IF Market!Missing \in {Market!AddUp(liquidity, listed), Market!AddUp(locked, listed)}
            THEN Market!Missing
            ELSE Market!Summed(Market!AddUp(liquidity, listed).value
                               + Market!AddUp(locked, listed).value, "estimated")
    BY DEF Market!Answer
<1>3. mints = {ByToken(listed)[x] : x \in Places(listed)}
    <2>1. ASSUME NEW p \in listed, NEW i \in Market!Sides
          PROVE  TokensOf[p][i] \in {ByToken(listed)[x] : x \in Places(listed)}
        <3>1. PICK x \in Places(listed) : x = <<p, i>>
            BY DEF Places, Market!Sides
        <3>2. ByToken(listed)[x] = TokensOf[p][i]
            BY <3>1 DEF ByToken
        <3> QED BY <3>2
    <2>2. ASSUME NEW x \in Places(listed) PROVE ByToken(listed)[x] \in mints
        BY DEF Places, Market!Sides, ByToken
    <2> QED BY <2>1, <2>2
<1> HIDE DEF mints
<1>4. PICK held, lent :
          \A p \in listed :
              /\ \A i \in {1, 2} : WorthOK(held[p][i]) /\ WorthOK(lent[p][i])
              /\ pools[p].reserves = [i \in {1, 2} |-> Market!AmountMetric(held[p][i])]
              /\ pools[p].sideDebts = [i \in {1, 2} |-> Market!AmountMetric(lent[p][i])]
              /\ BothOf(pools[p].liquidity, held[p][1], held[p][2])
              /\ BothOf(pools[p].debt, lent[p][1], lent[p][2])
    <2> DEFINE Sound(p, h, d) ==
                  /\ \A i \in {1, 2} : WorthOK(h[i]) /\ WorthOK(d[i])
                  /\ pools[p].reserves = [i \in {1, 2} |-> Market!AmountMetric(h[i])]
                  /\ pools[p].sideDebts = [i \in {1, 2} |-> Market!AmountMetric(d[i])]
                  /\ BothOf(pools[p].liquidity, h[1], h[2])
                  /\ BothOf(pools[p].debt, d[1], d[2])
               both == [p \in listed |-> CHOOSE x : Sound(p, x[1], x[2])]
    <2>1. ASSUME NEW p \in listed PROVE Sound(p, both[p][1], both[p][2])
        <3>1. PICK h, d : Sound(p, h, d)
            BY PoolIs
        <3> HIDE DEF Sound
        <3>2. \E x : Sound(p, x[1], x[2])
            <4>1. <<h, d>>[1] = h /\ <<h, d>>[2] = d
                OBVIOUS
            <4> QED BY <3>1, <4>1
        <3> QED BY <3>2
    <2>2. PICK h : h = [p \in listed |-> both[p][1]]
        OBVIOUS
    <2>3. PICK d : d = [p \in listed |-> both[p][2]]
        OBVIOUS
    <2>4. \A p \in listed : Sound(p, h[p], d[p])
        <3> HIDE DEF Sound, both
        <3> QED BY <2>1, <2>2, <2>3
    <2> QED BY <2>4
<1>5. PICK heldAt : heldAt = [x \in Places(listed) |-> held[x[1]][x[2]]]
    OBVIOUS
<1>6. PICK lentAt : lentAt = [x \in Places(listed) |-> lent[x[1]][x[2]]]
    OBVIOUS
<1>7. \A x \in Places(listed) : x[1] \in listed /\ x[2] \in {1, 2}
    BY DEF Places
<1>8. ASSUME NEW p \in listed
      PROVE  /\ heldAt[<<p, 1>>] = held[p][1] /\ heldAt[<<p, 2>>] = held[p][2]
             /\ lentAt[<<p, 1>>] = lent[p][1] /\ lentAt[<<p, 2>>] = lent[p][2]
    BY <1>5, <1>6 DEF Places
<1>9. ASSUME NEW m \in mints
      PROVE  /\ totals.tokens[m].liquidity = Parts(listed, heldAt, m)
             /\ totals.tokens[m].debt = Parts(listed, lentAt, m)
    <2>1. PICK q : q = pools
        OBVIOUS
    <2>2. PICK S : S = {x \in (DOMAIN q) \X Market!Sides : TokensOf[x[1]][x[2]] = m}
        OBVIOUS
    <2>3. S = Holding(listed, m)
        BY <2>1, <2>2 DEF Holding, Places, Market!Sides
    <2>8. PICK price : price = Market!StoredPrice(saw.prices, m)
        OBVIOUS
    <2>4. totals.tokens[m] = Market!TokenBaseline(m, q, price)
        BY <1>9, <2>1, <2>8 DEF Market!Answer, mints
    <2>5. /\ totals.tokens[m].liquidity = Market!AddUp([x \in S |-> q[x[1]].reserves[x[2]]], S)
          /\ totals.tokens[m].debt = Market!AddUp([x \in S |-> q[x[1]].sideDebts[x[2]]], S)
        BY <2>2, <2>4, TokenIs
    <2>6. ASSUME NEW x \in S
          PROVE  /\ q[x[1]].reserves[x[2]] = Market!AmountMetric(heldAt[x])
                 /\ q[x[1]].sideDebts[x[2]] = Market!AmountMetric(lentAt[x])
        <3>1. x \in Places(listed)
            BY <2>3 DEF Holding
        <3>2. PICK p \in listed : p = x[1]
            BY <1>7, <3>1
        <3>3. PICK i \in {1, 2} : i = x[2]
            BY <1>7, <3>1
        <3>4. heldAt[x] = held[p][i] /\ lentAt[x] = lent[p][i]
            BY <1>5, <1>6, <3>1, <3>2, <3>3
        <3>5. /\ q[p].reserves = [j \in {1, 2} |-> Market!AmountMetric(held[p][j])]
              /\ q[p].sideDebts = [j \in {1, 2} |-> Market!AmountMetric(lent[p][j])]
            <4> HIDE DEF pools
            <4> QED BY <1>4, <2>1
        <3> QED BY <3>2, <3>3, <3>4, <3>5
    <2>7. /\ [x \in S |-> q[x[1]].reserves[x[2]]] = [x \in S |-> Market!AmountMetric(heldAt[x])]
          /\ [x \in S |-> q[x[1]].sideDebts[x[2]]] = [x \in S |-> Market!AmountMetric(lentAt[x])]
        BY <2>6
    <2> QED BY <2>3, <2>5, <2>7 DEF Parts
<1> HIDE DEF pools
<1>10. Market!AddUp(liquidity, listed) = Market!AddUp(tokenLiquidity, mints)
    <2>1. tokenLiquidity = [m \in mints |-> Parts(listed, heldAt, m)]
        BY <1>9
    <2>2. \A x \in Places(listed) : WorthOK(heldAt[x])
        BY <1>4, <1>5, <1>7
    <2>3. \A p \in listed : BothOf(liquidity[p], heldAt[<<p, 1>>], heldAt[<<p, 2>>])
        BY <1>4, <1>8
    <2>4. liquidity = [p \in listed |-> liquidity[p]]
        OBVIOUS
    <2> HIDE DEF liquidity, tokenLiquidity
    <2>5. PoolsTell(listed, heldAt, liquidity)
        BY <2>2, <2>3, <2>4 DEF PoolsTell
    <2> QED BY <1>1, <1>3, <2>1, <2>5, TwoWays
<1>11. Market!AddUp(debts, listed) = Market!AddUp(tokenDebts, mints)
    <2>1. tokenDebts = [m \in mints |-> Parts(listed, lentAt, m)]
        BY <1>9
    <2>2. \A x \in Places(listed) : WorthOK(lentAt[x])
        BY <1>4, <1>6, <1>7
    <2>3. \A p \in listed : BothOf(debts[p], lentAt[<<p, 1>>], lentAt[<<p, 2>>])
        BY <1>4, <1>8
    <2>4. debts = [p \in listed |-> debts[p]]
        OBVIOUS
    <2> HIDE DEF debts, tokenDebts
    <2>5. PoolsTell(listed, lentAt, debts)
        BY <2>2, <2>3, <2>4 DEF PoolsTell
    <2> QED BY <1>1, <1>3, <2>1, <2>5, TwoWays
<1>12. /\ DOMAIN totals.pools = listed
       /\ [p \in listed |-> totals.pools[p].collateral] = locked
    BY <1>2 DEF pools
<1> HIDE DEF debts, liquidity, locked
<1> QED BY <1>2, <1>10, <1>11, <1>12 DEF Market!TotalsAreWhole, Market!Summed

LEMMA MarketInit == ASSUME MarketConstants, Market!Init PROVE MarketInv
BY DEF Market!Init, MarketInv, MarketConstants

LEMMA MarketNext ==
    ASSUME MarketInv, [Market!Next]_Market!vars
    PROVE  MarketInv'
<1>1. ASSUME NEW r \in Rows, Market!Store(r) PROVE MarketInv'
    BY <1>1 DEF MarketInv, Market!Store
<1>2. ASSUME NEW listed \in {Shown, Pools}, Market!Ask(listed) PROVE MarketInv'
    BY <1>2 DEF MarketInv, Market!Ask
<1>3. CASE Market!Reply
    <2>1. PICK late \in SUBSET {x \in (facts \ asked.found) \X Market!Queries : x[1].kind \in Market!KindsOf(x[2])} :
              totals' = Market!Answer(asked.listed,
                  [q \in Market!Queries |->
                      {r \in facts : r.kind \in Market!KindsOf(q) /\ (r \in asked.found \/ <<r, q>> \in late)}])
        BY <1>3 DEF Market!Reply
    <2>2. PICK saw : saw = [q \in Market!Queries |->
                      {r \in facts : r.kind \in Market!KindsOf(q) /\ (r \in asked.found \/ <<r, q>> \in late)}]
        OBVIOUS
    <2>3. SawOK(saw)
        BY <2>2 DEF SawOK, MarketInv
    <2>4. asked # None /\ asked' = None /\ facts' = facts
        BY <1>3 DEF Market!Reply
    <2>5. totals' = Market!Answer(asked.listed, saw)
        BY <2>1, <2>2
    <2>6. asked.listed \in {Shown, Pools}
        BY <2>4 DEF MarketInv
    <2>7. \E listed \in {Shown, Pools} : \E seen : SawOK(seen) /\ totals' = Market!Answer(listed, seen)
        BY <2>3, <2>5, <2>6
    <2>8. facts' \subseteq Rows
        BY <2>4 DEF MarketInv
    <2> QED BY <2>4, <2>7, <2>8 DEF MarketInv
<1>4. CASE UNCHANGED Market!vars
    BY <1>4 DEF Market!vars, MarketInv
<1> QED BY <1>1, <1>2, <1>3, <1>4 DEF Market!Next

LEMMA MarketSteps == [Next]_vars => [Market!Next]_Market!vars
<1>1. CASE MarketStep
    BY <1>1 DEF MarketStep
<1>2. CASE HistoryStep \/ SurfaceStep \/ FeedStep \/ SwapStep \/ PortfolioStep \/ UNCHANGED vars
    BY <1>2 DEF HistoryStep, SurfaceStep, FeedStep, SwapStep, PortfolioStep, vars, valueVars,
                marketVars, Market!vars
<1> QED BY <1>1, <1>2 DEF Next

(***************************************************************************)
(* A protocol total is whole or missing, and is the sum of the tokens' and *)
(* of the pools' (marketValueBaselineService.ts), whatever rows commit      *)
(* between the eleven queries of an answer.                                 *)
(***************************************************************************)
THEOREM TotalsAddUp == Spec => []TotalsAreWhole
<1>1. Init => MarketInv
    BY MarketInit, MarketAssumption DEF Init
<1>2. MarketInv /\ [Next]_vars => MarketInv'
    BY MarketNext, MarketSteps
<1>3. MarketInv => TotalsAreWhole
    <2>1. SUFFICES ASSUME MarketInv PROVE Market!TotalsAreWhole
        BY DEF TotalsAreWhole
    <2>2. CASE totals = None
        BY <2>2 DEF Market!TotalsAreWhole
    <2>3. CASE totals # None
        <3>1. PICK listed \in {Shown, Pools} : \E saw : SawOK(saw) /\ totals = Market!Answer(listed, saw)
            BY <2>1, <2>3 DEF MarketInv
        <3>2. PICK saw : SawOK(saw) /\ totals = Market!Answer(listed, saw)
            BY <3>1
        <3> QED BY <3>2, MarketAssumption, AnswerAddsUp
    <2> QED BY <2>2, <2>3
<1> QED BY <1>1, <1>2, <1>3, PTL DEF Spec

-----------------------------------------------------------------------------
(* The portfolio snapshots.                                                 *)

LEMMA SumIsTotal == \A f : Portfolio!Total(f) = Sum(f)
BY DEF Portfolio!Total, Portfolio!MapThenSumSet, Portfolio!MapThenFoldSet, Sum, SumLaw, Picked

\* The least and the greatest of some hours.
LEMMA LeastHour ==
    ASSUME NEW S, S \subseteq Nat, S # {}
    PROVE  Portfolio!Min(S) \in S /\ \A y \in S : Portfolio!Min(S) <= y
<1>1. \E x \in S : \A y \in S : x <= y
    BY LowestOf
<1> QED BY <1>1 DEF Portfolio!Min

LEMMA GreatestHour ==
    ASSUME NEW n \in Nat, NEW S, S \subseteq 0..n, S # {}
    PROVE  Portfolio!Max(S) \in S /\ \A y \in S : y <= Portfolio!Max(S)
<1>1. Portfolio!Max(S) = History!Max(S)
    BY DEF Portfolio!Max, History!Max
<1> QED BY <1>1, HighestOf

\* A principal is no less than zero.
LEMMA PrincipalIs ==
    ASSUME PortfolioConstants, NEW u \in DOMAIN FirstHour, NEW pair, NEW side, NEW h
    PROVE  Portfolio!Principal(u, pair, side, h) \in Nat
<1>1. PICK events : events = {e \in DebtEvents[u] : e.pair = pair /\ e.side = side /\ e.hour <= h}
    OBVIOUS
<1>2. PICK f : f = [e \in events |-> e.amount]
    OBVIOUS
<1>3. events \subseteq DebtEvents[u] /\ IsFiniteSet(DebtEvents[u]) /\ \A e \in DebtEvents[u] : e.amount \in Int
    BY <1>1 DEF PortfolioConstants
<1>4. IsFiniteSet(events)
    BY <1>3, FS_Subset
<1>5. Summand(f)
    BY <1>2, <1>3, <1>4 DEF Summand
<1>6. PICK x \in Int : x = Portfolio!Total(f)
    BY <1>5, SumStep, SumIsTotal
<1>7. \E y \in {0, x} : \A z \in {0, x} : y >= z
    BY SMT
<1>8. Portfolio!Max({0, x}) \in {0, x} /\ \A z \in {0, x} : Portfolio!Max({0, x}) >= z
    BY <1>7 DEF Portfolio!Max
<1>9. Portfolio!Max({0, x}) \in Nat
    BY <1>8
<1> QED BY <1>1, <1>2, <1>6, <1>9 DEF Portfolio!Principal

\* What the loop over a user's positions has after some of them.
StepOf(u, positions, h, done, i) ==
    [counted |-> Portfolio!AfterPosition(done.counted, positions[i]),
     usd |-> done.usd + (IF positions[i].pair \in done.counted THEN 0
                         ELSE Portfolio!Reconstructed(u, positions[i], h))]

Order(positions) == [i \in DOMAIN positions |-> i]

LoopLaw(u, positions, h, sets, g) ==
    g = [s \in sets |->
            IF s = {} THEN [counted |-> {}, usd |-> 0]
            ELSE StepOf(u, positions, h, g[s \ {Portfolio!Max(s)}], Order(positions)[Portfolio!Max(s)])]

LEMMA DebtIsLoop ==
    ASSUME NEW u, NEW positions, NEW h
    PROVE  \E g : /\ (\E f : LoopLaw(u, positions, h, SUBSET DOMAIN positions, f))
                        => LoopLaw(u, positions, h, SUBSET DOMAIN positions, g)
                  /\ Portfolio!Debt(u, positions, h, {}) = g[DOMAIN positions].usd
<1> DEFINE sets == SUBSET DOMAIN Order(positions)
           loop == CHOOSE g : LoopLaw(u, positions, h, sets, g)
<1>1. Portfolio!Debt(u, positions, h, {}) = loop[DOMAIN Order(positions)].usd
    BY DEF Portfolio!Debt, Portfolio!FoldLeft, Portfolio!MapThenFoldSet, StepOf, LoopLaw, Order
<1>2. DOMAIN Order(positions) = DOMAIN positions
    BY DEF Order
<1>3. (\E f : LoopLaw(u, positions, h, sets, f)) => LoopLaw(u, positions, h, sets, loop)
    OBVIOUS
<1> HIDE DEF loop
<1> QED BY <1>1, <1>2, <1>3

LEMMA LoopExists ==
    ASSUME NEW u, NEW positions, NEW h, NEW n \in Nat, DOMAIN positions = 1..n
    PROVE  \E g : LoopLaw(u, positions, h, SUBSET DOMAIN positions, g)
<1> DEFINE S == DOMAIN positions
           UpTo(k) == {s \in SUBSET S : Cardinality(s) <= k}
           Bad == {k \in Nat : ~ \E g : LoopLaw(u, positions, h, UpTo(k), g)}
           Last(s) == Portfolio!Max(s)
           After(g, s) == IF s = {} THEN [counted |-> {}, usd |-> 0]
                          ELSE StepOf(u, positions, h, g[s \ {Last(s)}], Order(positions)[Last(s)])
<1>0. \A s \in SUBSET S : IsFiniteSet(s) /\ Cardinality(s) \in Nat
    <2>1. IsFiniteSet(1..n)
        BY FS_Interval
    <2> QED BY <2>1, FS_Subset, FS_CardinalityType
<1>1. \E g : LoopLaw(u, positions, h, UpTo(0), g)
    <2>1. UpTo(0) = {{}}
        BY <1>0, FS_EmptySet
    <2>2. LoopLaw(u, positions, h, {{}}, [s \in {{}} |-> [counted |-> {}, usd |-> 0]])
        BY DEF LoopLaw
    <2> QED BY <2>1, <2>2
<1>2. ASSUME NEW k \in Nat, NEW g, LoopLaw(u, positions, h, UpTo(k), g)
      PROVE  \E r : LoopLaw(u, positions, h, UpTo(k + 1), r)
    <2>1. PICK r : r = [s \in UpTo(k + 1) |-> After(g, s)]
        OBVIOUS
    <2>2. UpTo(k) \subseteq UpTo(k + 1)
        BY <1>0
    <2>3. \A s \in UpTo(k) : r[s] = g[s]
        BY <1>2, <2>1, <2>2 DEF LoopLaw
    <2>4. ASSUME NEW s \in UpTo(k + 1), s # {}
          PROVE  g[s \ {Last(s)}] = r[s \ {Last(s)}]
        <3>1. s \in SUBSET S /\ s \subseteq 0..n
            BY <2>4
        <3>2. Last(s) \in s
            BY <2>4, <3>1, GreatestHour
        <3>3. IsFiniteSet(s) /\ Cardinality(s) \in Nat
            BY <3>1, <1>0
        <3>4. Cardinality(s \ {Last(s)}) = Cardinality(s) - 1
            BY <3>2, <3>3, FS_RemoveElement
        <3>5. s \ {Last(s)} \in UpTo(k)
            BY <2>4, <3>1, <3>2, <3>3, <3>4
        <3> QED BY <2>3, <3>5
    <2>5. \A s \in UpTo(k + 1) : After(g, s) = After(r, s)
        BY <2>4
    <2>6. r = [s \in UpTo(k + 1) |-> After(r, s)]
        <3> HIDE DEF After
        <3> QED BY <2>1, <2>5
    <2> QED BY <2>6 DEF LoopLaw
<1>3. Bad = {}
    <2>1. SUFFICES ASSUME Bad # {} PROVE FALSE
        OBVIOUS
    <2>2. PICK m \in Bad : \A x \in Bad : m <= x
        BY <2>1, LeastNat
    <2>3. m # 0 /\ m \in Nat
        BY <1>1
    <2>7. m - 1 \in Nat /\ ~(m <= m - 1) /\ (m - 1) + 1 = m
        BY <2>3
    <2>4. m - 1 \in Nat /\ m - 1 \notin Bad /\ (m - 1) + 1 = m
        BY <2>2, <2>7
    <2>5. \E g : LoopLaw(u, positions, h, UpTo(m - 1), g)
        BY <2>4
    <2>6. \E r : LoopLaw(u, positions, h, UpTo((m - 1) + 1), r)
        BY <1>2, <2>4, <2>5
    <2> QED BY <2>4, <2>6
<1>4. Cardinality(S) \in Nat /\ UpTo(Cardinality(S)) = SUBSET S
    <2>1. IsFiniteSet(S)
        BY <1>0
    <2> QED BY <1>0, <2>1, FS_Subset, FS_CardinalityType
<1>5. \E g : LoopLaw(u, positions, h, UpTo(Cardinality(S)), g)
    BY <1>3, <1>4
<1> QED BY <1>4, <1>5

\* What is counted of some pairs, over all places.
PairsOf(positions) == {p.pair : p \in Portfolio!ToSet(positions)}
Halves(pairs) == pairs \X {0, 1}
Bound(u, h, pairs, counted) ==
    [x \in Halves(pairs) |-> IF x[1] \in counted THEN Portfolio!Principal(u, x[1], x[2], h) ELSE 0]

LEMMA BoundIs ==
    ASSUME PortfolioConstants, NEW u \in DOMAIN FirstHour, NEW h, NEW pairs, IsFiniteSet(pairs), NEW counted
    PROVE  Summand(Bound(u, h, pairs, counted)) /\ DOMAIN Bound(u, h, pairs, counted) = Halves(pairs)
<1>1. IsFiniteSet(Halves(pairs))
    <2>1. IsFiniteSet({0} \cup {1}) /\ {0} \cup {1} = {0, 1}
        BY FS_Singleton, FS_AddElement
    <2> QED BY <2>1, FS_Product DEF Halves
<1>2. ASSUME NEW x \in Halves(pairs) PROVE Bound(u, h, pairs, counted)[x] \in Int
    BY PrincipalIs DEF Bound
<1> QED BY <1>1, <1>2 DEF Summand, Bound

\* Counting one more pair adds what it has on both sides.
LEMMA BoundGrows ==
    ASSUME PortfolioConstants, NEW u \in DOMAIN FirstHour, NEW h, NEW pairs, IsFiniteSet(pairs), NEW counted,
           NEW q \in pairs, q \notin counted
    PROVE  Sum(Bound(u, h, pairs, counted \cup {q})) =
              Sum(Bound(u, h, pairs, counted)) + Portfolio!Principal(u, q, 0, h) + Portfolio!Principal(u, q, 1, h)
<1>1. PICK f : f = Bound(u, h, pairs, counted)
    OBVIOUS
<1>2. PICK g : g = Bound(u, h, pairs, counted \cup {q})
    OBVIOUS
<1>3. Summand(f) /\ Summand(g) /\ DOMAIN f = Halves(pairs) /\ DOMAIN g = Halves(pairs)
    <2>1. Summand(f) /\ DOMAIN f = Halves(pairs)
        BY <1>1, BoundIs
    <2>2. PICK more : more = counted \cup {q}
        OBVIOUS
    <2>3. Summand(g) /\ DOMAIN g = Halves(pairs)
        BY <1>2, <2>2, BoundIs
    <2> QED BY <2>1, <2>3
<1>4. PICK a \in Halves(pairs) : a = <<q, 0>>
    BY DEF Halves
<1>5. PICK b \in Halves(pairs) : b = <<q, 1>>
    BY DEF Halves
<1>6. PICK D : D = Halves(pairs)
    OBVIOUS
<1>7. a # b /\ b \in D \ {a} /\ D \ {a} \in SUBSET D
    BY <1>4, <1>5, <1>6
<1>8. /\ f[a] = 0 /\ f[b] = 0
      /\ g[a] = Portfolio!Principal(u, q, 0, h) /\ g[b] = Portfolio!Principal(u, q, 1, h)
    BY <1>1, <1>2, <1>4, <1>5 DEF Bound
<1>9. ASSUME NEW x \in D \ {a}, x # b PROVE f[x] = g[x]
    <2>1. x[1] # q
        BY <1>4, <1>5, <1>6, <1>9 DEF Halves
    <2> QED BY <1>1, <1>2, <1>6, <2>1 DEF Bound
<1>10. PICK R : R = (D \ {a}) \ {b}
    OBVIOUS
<1>11. On(f, R) = On(g, R)
    BY <1>9, <1>10 DEF On
<1>12. /\ Sum(f) = f[a] + Sum(On(f, D \ {a})) /\ Sum(g) = g[a] + Sum(On(g, D \ {a}))
    BY <1>3, <1>4, <1>6, SumStep
<1>17. PICK E : E = D \ {a}
    OBVIOUS
<1>18. E \in SUBSET DOMAIN f /\ E \in SUBSET DOMAIN g /\ b \in E /\ R = E \ {b}
    BY <1>3, <1>6, <1>7, <1>10, <1>17
<1>13. Sum(On(f, E)) = f[b] + Sum(On(f, R)) /\ Sum(On(f, R)) \in Int
    BY <1>3, <1>18, SumOn
<1>14. Sum(On(g, E)) = g[b] + Sum(On(g, R))
    BY <1>3, <1>18, SumOn
<1>15. g[a] \in Int /\ g[b] \in Int
    BY <1>3, <1>4, <1>5 DEF Summand
<1>16. Sum(g) = Sum(f) + g[a] + g[b]
    BY <1>8, <1>11, <1>12, <1>13, <1>14, <1>15, <1>17
<1> QED BY <1>1, <1>2, <1>8, <1>16

\* A pair's principal on some of its sides.
LEMMA ReconstructedIs ==
    ASSUME PortfolioConstants, NEW u \in DOMAIN FirstHour, NEW p, p.sides \subseteq {0, 1}, NEW h
    PROVE  /\ Portfolio!Reconstructed(u, p, h) \in Int
           /\ p.sides = {} => Portfolio!Reconstructed(u, p, h) = 0
           /\ Portfolio!Reconstructed(u, p, h) <=
                 Portfolio!Principal(u, p.pair, 0, h) + Portfolio!Principal(u, p.pair, 1, h)
<1>1. PICK f : f = [side \in p.sides |-> Portfolio!Principal(u, p.pair, side, h)]
    OBVIOUS
<1>2. IsFiniteSet({0} \cup {1}) /\ {0} \cup {1} = {0, 1}
    BY FS_Singleton, FS_AddElement
<1>3. IsFiniteSet(p.sides) /\ \A side : Portfolio!Principal(u, p.pair, side, h) \in Nat
    BY <1>2, FS_Subset, PrincipalIs
<1>4. Summand(f) /\ DOMAIN f = p.sides
    BY <1>1, <1>3 DEF Summand
<1>5. Portfolio!Reconstructed(u, p, h) = Sum(f)
    BY <1>1, SumIsTotal DEF Portfolio!Reconstructed
<1>7. CASE p.sides = {}
    BY <1>3, <1>4, <1>5, <1>7, SumStep
<1>8. CASE p.sides = {0, 1}
    <2>1. Sum(f) = f[0] + f[1]
        BY <1>4, <1>8, SumOfTwo
    <2> QED BY <1>1, <1>3, <1>4, <1>5, <1>8, <2>1
<1>9. ASSUME NEW side \in {0, 1}, p.sides = {side}
      PROVE  Sum(f) = f[side]
    <2>1. Sum(f) = f[side] + Sum(On(f, DOMAIN f \ {side}))
        BY <1>4, <1>9, SumStep
    <2>2. DOMAIN f \ {side} = {}
        BY <1>4, <1>9
    <2>3. f[side] \in Int
        BY <1>4, <1>9 DEF Summand
    <2> QED BY <2>1, <2>2, <2>3, SumOnNone
<1>10. CASE p.sides = {0}
    BY <1>1, <1>3, <1>5, <1>9, <1>10
<1>11. CASE p.sides = {1}
    BY <1>1, <1>3, <1>5, <1>9, <1>11
<1>12. p.sides = {} \/ p.sides = {0} \/ p.sides = {1} \/ p.sides = {0, 1}
    OBVIOUS
<1> QED BY <1>7, <1>8, <1>10, <1>11, <1>12

\* The loop's debt is at most what the pairs it counted have.
LEMMA DebtBound ==
    ASSUME PortfolioConstants, NEW u \in DOMAIN FirstHour, NEW h \in 1..MaxHour
    PROVE  Portfolio!Debt(u, PositionsAt[u][h], h, {}) <=
              Portfolio!Total([x \in PairsOf(PositionsAt[u][h]) \X {0, 1} |->
                                  Portfolio!Principal(u, x[1], x[2], h)])
<1>1. PICK positions : positions = PositionsAt[u][h]
    OBVIOUS
<1>2. PICK n \in Nat : DOMAIN positions = 1..n
    BY <1>1 DEF PortfolioConstants
<1>3. \A i \in 1..n : positions[i].sides \subseteq {0, 1}
    BY <1>1, <1>2 DEF PortfolioConstants
<1>4. PICK pairs : pairs = PairsOf(positions)
    OBVIOUS
<1>5. IsFiniteSet(pairs) /\ \A i \in 1..n : positions[i].pair \in pairs
    <2>1. pairs = {positions[i].pair : i \in 1..n}
        BY <1>2, <1>4 DEF PairsOf, Portfolio!ToSet
    <2>2. PICK f : f = [i \in 1..n |-> positions[i].pair]
        OBVIOUS
    <2>3. f \in Surjection(1..n, pairs)
        BY <2>1, <2>2 DEF Surjection
    <2>4. IsFiniteSet(1..n)
        BY FS_Interval
    <2>5. IsFiniteSet(pairs)
        BY <2>3, <2>4, FS_Surjection
    <2> QED BY <2>1, <2>5
<1>6. PICK g : /\ LoopLaw(u, positions, h, SUBSET DOMAIN positions, g)
               /\ Portfolio!Debt(u, positions, h, {}) = g[DOMAIN positions].usd
    BY <1>2, DebtIsLoop, LoopExists
<1> DEFINE done(k) == g[1..k]
           Whole(k) == /\ done(k).counted \subseteq pairs
                       /\ done(k).usd \in Int
                       /\ done(k).usd <= Sum(Bound(u, h, pairs, done(k).counted))
           Bad == {k \in 0..n : ~Whole(k)}
<1>7. \A s \in SUBSET (1..n) :
          g[s] = IF s = {} THEN [counted |-> {}, usd |-> 0]
                 ELSE StepOf(u, positions, h, g[s \ {Portfolio!Max(s)}], Order(positions)[Portfolio!Max(s)])
    BY <1>2, <1>6 DEF LoopLaw
<1>8. Whole(0)
    <2>1. 1..0 = {}
        OBVIOUS
    <2>2. done(0) = [counted |-> {}, usd |-> 0]
        BY <1>7, <2>1
    <2>3. PICK f : f = Bound(u, h, pairs, {})
        OBVIOUS
    <2>4. Summand(f) /\ \A x \in DOMAIN f : f[x] = 0
        <3>1. Summand(f)
            BY <1>5, <2>3, BoundIs
        <3> QED BY <2>3, <3>1 DEF Bound
    <2>5. Sum(f) = 0
        BY <2>4, SumOfZeros
    <2> QED BY <2>2, <2>3, <2>5
<1>9. ASSUME NEW k \in 0..(n - 1), Whole(k) PROVE Whole(k + 1)
    <2>1. k + 1 \in 1..n /\ k + 1 \in Nat
        BY SMT
    <2>16. 1..(k + 1) # {} /\ 1..(k + 1) \subseteq 0..(k + 1)
        BY <2>1
    <2>2. Portfolio!Max(1..(k + 1)) = k + 1
        <3>1. Portfolio!Max(1..(k + 1)) \in 1..(k + 1) /\ \A y \in 1..(k + 1) : y <= Portfolio!Max(1..(k + 1))
            BY <2>1, <2>16, GreatestHour
        <3>2. k + 1 \in 1..(k + 1)
            BY <2>1
        <3> QED BY <2>1, <3>1, <3>2
    <2>3. (1..(k + 1)) \ {k + 1} = 1..k
        BY SMT
    <2>4. PICK was : was = done(k)
        OBVIOUS
    <2>5. PICK is : is = done(k + 1)
        OBVIOUS
    <2>6. PICK p : p = positions[k + 1]
        OBVIOUS
    <2>7. is = StepOf(u, positions, h, was, k + 1)
        <3>1. 1..(k + 1) \in SUBSET (1..n)
            BY <2>1
        <3>2. Order(positions)[k + 1] = k + 1
            BY <1>2, <2>1 DEF Order
        <3> QED BY <1>7, <2>2, <2>3, <2>4, <2>5, <2>16, <3>1, <3>2
    <2>8. /\ is.counted = IF p.sides # {} THEN was.counted \cup {p.pair} ELSE was.counted
          /\ is.usd = was.usd + (IF p.pair \in was.counted THEN 0 ELSE Portfolio!Reconstructed(u, p, h))
        BY <2>6, <2>7 DEF StepOf, Portfolio!AfterPosition
    <2>9. p.sides \subseteq {0, 1} /\ p.pair \in pairs
        BY <1>3, <1>5, <2>1, <2>6
    <2>10. /\ was.counted \subseteq pairs /\ was.usd \in Int
           /\ was.usd <= Sum(Bound(u, h, pairs, was.counted))
        BY <1>9, <2>4
    <2>11. PICK b \in Int : b = Sum(Bound(u, h, pairs, was.counted))
        BY <1>5, BoundIs, SumStep
    <2>12. PICK a \in Int : a = Portfolio!Reconstructed(u, p, h)
        BY <2>9, ReconstructedIs
    <2>13. p.sides = {} => a = 0
        BY <2>9, <2>12, ReconstructedIs
    <2>14. is.counted \subseteq pairs /\ is.usd \in Int
        BY <2>8, <2>9, <2>10, <2>12
    <2>15. is.usd <= Sum(Bound(u, h, pairs, is.counted))
        <3>1. CASE p.pair \in was.counted
            <4>1. is.counted = was.counted /\ is.usd = was.usd
                <5>1. is.counted = was.counted
                    BY <2>8, <3>1
                <5>2. is.usd = was.usd + 0
                    BY <2>8, <3>1
                <5> QED BY <2>10, <5>1, <5>2
            <4> QED BY <2>10, <4>1
        <3>2. CASE p.pair \notin was.counted /\ p.sides = {}
            <4>1. is.counted = was.counted
                BY <2>8, <3>2
            <4>2. is.usd = was.usd + 0
                BY <2>8, <2>12, <2>13, <3>2
            <4>3. is.usd = was.usd
                BY <2>10, <4>2
            <4> QED BY <2>10, <4>1, <4>3
        <3>3. CASE p.pair \notin was.counted /\ p.sides # {}
            <4>1. PICK q \in pairs : q = p.pair
                BY <2>9
            <4>2. is.counted = was.counted \cup {q} /\ is.usd = was.usd + a
                BY <2>8, <2>12, <3>3, <4>1
            <4>3. PICK x \in Int : x = Portfolio!Principal(u, q, 0, h)
                BY PrincipalIs
            <4>4. PICK y \in Int : y = Portfolio!Principal(u, q, 1, h)
                BY PrincipalIs
            <4>5. a <= x + y
                BY <2>9, <2>12, <4>1, <4>3, <4>4, ReconstructedIs
            <4>6. PICK counted : counted = was.counted
                OBVIOUS
            <4>7. q \notin counted
                BY <3>3, <4>1, <4>6
            <4>8. Sum(Bound(u, h, pairs, counted \cup {q})) = Sum(Bound(u, h, pairs, counted)) + x + y
                BY <1>5, <4>3, <4>4, <4>7, BoundGrows
            <4>9. Sum(Bound(u, h, pairs, is.counted)) = b + x + y
                BY <2>11, <4>2, <4>6, <4>8
            <4> QED BY <2>10, <2>11, <4>2, <4>5, <4>9
        <3> QED BY <3>1, <3>2, <3>3
    <2> QED BY <2>5, <2>14, <2>15
<1>10. Whole(n)
    <2> HIDE DEF Whole
    <2>1. Bad = {}
        <3>1. SUFFICES ASSUME Bad # {} PROVE FALSE
            OBVIOUS
        <3>2. Bad \subseteq Nat
            OBVIOUS
        <3>3. PICK m \in Bad : \A x \in Bad : m <= x
            <4> HIDE DEF Bad
            <4> QED BY <3>1, <3>2, LeastNat
        <3>4. m # 0 /\ m \in 0..n
            BY <1>8
        <3>5. m - 1 \in 0..(n - 1) /\ m - 1 \in 0..n /\ ~(m <= m - 1) /\ (m - 1) + 1 = m
            BY <3>4
        <3>6. m - 1 \notin Bad
            BY <3>3, <3>5
        <3>7. Whole(m - 1)
            BY <3>5, <3>6
        <3>8. Whole((m - 1) + 1)
            BY <1>9, <3>5, <3>7
        <3> QED BY <3>5, <3>8
    <2>2. n \in 0..n
        OBVIOUS
    <2> QED BY <2>1, <2>2
<1>11. PICK f : f = [x \in Halves(pairs) |-> Portfolio!Principal(u, x[1], x[2], h)]
    OBVIOUS
<1>12. Summand(f) /\ DOMAIN f = Halves(pairs)
    <2>1. IsFiniteSet(Halves(pairs))
        BY <1>5, BoundIs DEF Summand
    <2>2. \A x \in Halves(pairs) : Portfolio!Principal(u, x[1], x[2], h) \in Int
        BY PrincipalIs
    <2> QED BY <1>11, <2>1, <2>2 DEF Summand
<1>13. PICK counted : counted = done(n).counted
    OBVIOUS
<1>14. PICK r : r = Bound(u, h, pairs, counted)
    OBVIOUS
<1>15. Summand(r) /\ DOMAIN r = DOMAIN f /\ \A x \in DOMAIN r : r[x] <= f[x]
    <2>1. Summand(r) /\ DOMAIN r = Halves(pairs)
        BY <1>5, <1>14, BoundIs
    <2>2. ASSUME NEW x \in Halves(pairs) PROVE r[x] <= f[x]
        <3>1. f[x] \in Nat
            BY <1>11, PrincipalIs
        <3>2. r[x] = f[x] \/ r[x] = 0
            BY <1>11, <1>14 DEF Bound
        <3> QED BY <3>1, <3>2
    <2> QED BY <1>12, <2>1, <2>2
<1>16. Sum(r) <= Sum(f) /\ Sum(r) \in Int /\ Sum(f) \in Int
    BY <1>12, <1>15, SumMonotonic, SumStep
<1>17. done(n).usd \in Int /\ done(n).usd <= Sum(r)
    BY <1>10, <1>13, <1>14
<1>18. done(n).usd <= Sum(f)
    BY <1>16, <1>17
<1>19. Portfolio!Debt(u, positions, h, {}) = done(n).usd
    BY <1>2, <1>6
<1> QED BY <1>1, <1>4, <1>11, <1>18, <1>19, SumIsTotal DEF Halves

\* Of this user each hour from its start to the backfill's end has a row.
RowsOf(u) == \A h \in Portfolio!StartOf(u)..job.to : <<u, h>> \in DOMAIN rows

\* While a lane has a user, the hours below its bucket have rows, and so have
\* those that it skips.
LaneOK(x) ==
    \/ x = Portfolio!Free
    \/ /\ job.state = "running"
       /\ x.user \in Portfolio!ToSet(Users)
       /\ x.bucket \in Nat /\ Portfolio!StartOf(x.user) <= x.bucket
       /\ x.existing = {None} => x.debt = None
       /\ x.existing = {None} \/ \A h \in x.existing : <<x.user, h>> \in DOMAIN rows
       /\ \A h \in Portfolio!StartOf(x.user)..job.to : h < x.bucket => <<x.user, h>> \in DOMAIN rows
       /\ x.debt # None => x.bucket <= job.to
       /\ x.debt # None /\ x.past =>
             x.debt = Portfolio!Debt(x.user, PositionsAt[x.user][x.bucket], x.bucket, {})

JobOK ==
    /\ job = [state |-> job.state, skip |-> job.skip, active |-> job.active,
              from |-> job.from, to |-> job.to, next |-> job.next]
    /\ job.next \in Nat \ {0}
    /\ Users # <<>> => hour \in 1..MaxHour
    /\ Users # <<>> /\ job.state # "idle" => job.from \in 1..MaxHour /\ job.to \in 1..MaxHour

PortfolioInv ==
    /\ JobOK
    /\ \A y \in DOMAIN rows : y = <<y[1], y[2]>>
    /\ lane = [l \in Lanes |-> lane[l]]
    /\ \A l \in Lanes : /\ LaneOK(lane[l])
                        /\ lane[l] = [user |-> lane[l].user, bucket |-> lane[l].bucket,
                                      existing |-> lane[l].existing, past |-> lane[l].past,
                                      debt |-> lane[l].debt]
    /\ job.state = "running" =>
          \A i \in DOMAIN Users :
              i < job.next => RowsOf(Users[i]) \/ \E l \in Lanes : lane[l].user = Users[i]
    /\ job.state = "done" => \A i \in DOMAIN Users : RowsOf(Users[i])

LEMMA UsersAre ==
    ASSUME PortfolioConstants
    PROVE  /\ Len(Users) \in Nat /\ DOMAIN Users = 1..Len(Users)
           /\ \A u \in Portfolio!ToSet(Users) :
                 u \in DOMAIN FirstHour /\ u # None /\ FirstHour[u] \in 1..MaxHour
           /\ \A i \in DOMAIN Users : Users[i] \in Portfolio!ToSet(Users)
           /\ Users # <<>> <=> Portfolio!ToSet(Users) # {}
<1>1. Users \in Seq(DOMAIN FirstHour)
    BY DEF PortfolioConstants
<1>2. \A i \in 1..Len(Users) : Users[i] \in DOMAIN FirstHour
    BY <1>1
<1>3. Users # <<>> <=> Len(Users) # 0
    BY <1>1, EmptySeq
<1> QED BY <1>1, <1>2, <1>3 DEF Portfolio!ToSet, PortfolioConstants

\* The hours of first activity have a least and a greatest.
LEMMA FirstHours ==
    ASSUME PortfolioConstants, Users # <<>>
    PROVE  LET hours == {FirstHour[u] : u \in Portfolio!ToSet(Users)}
           IN  Portfolio!Max(hours) \in 1..MaxHour /\ Portfolio!Min(hours) \in 1..MaxHour
<1>1. PICK S : S = {FirstHour[u] : u \in Portfolio!ToSet(Users)}
    OBVIOUS
<1>2. S # {} /\ S \subseteq 1..MaxHour
    BY <1>1, UsersAre
<1>3. MaxHour \in Nat /\ S \subseteq 0..MaxHour /\ S \subseteq Nat
    BY <1>2 DEF PortfolioConstants
<1>4. Portfolio!Max(S) \in S
    BY <1>2, <1>3, GreatestHour
<1>5. Portfolio!Min(S) \in S
    BY <1>2, <1>3, LeastHour
<1> QED BY <1>1, <1>2, <1>4, <1>5

LEMMA StartIs ==
    ASSUME PortfolioConstants, JobOK, job.state # "idle", NEW u \in Portfolio!ToSet(Users)
    PROVE  Portfolio!StartOf(u) \in 1..MaxHour /\ job.to \in 1..MaxHour
<1>1. Users # <<>>
    BY UsersAre
<1>2. job.from \in 1..MaxHour /\ job.to \in 1..MaxHour
    BY <1>1 DEF JobOK
<1>3. PICK S : S = {job.from, FirstHour[u]}
    OBVIOUS
<1>4. S # {} /\ S \subseteq 1..MaxHour
    BY <1>2, <1>3, UsersAre
<1>5. MaxHour \in Nat /\ S \subseteq 0..MaxHour
    BY <1>4 DEF PortfolioConstants
<1>6. Portfolio!Max(S) \in S
    BY <1>4, <1>5, GreatestHour
<1> QED BY <1>2, <1>3, <1>4, <1>6 DEF Portfolio!StartOf

LEMMA PortfolioInit == ASSUME PortfolioConstants, Portfolio!Init PROVE PortfolioInv
<1>1. Users # <<>> => hour \in 1..MaxHour
    BY FirstHours DEF Portfolio!Init
<1>2. JobOK
    BY <1>1 DEF Portfolio!Init, JobOK
<1>3. lane = [l \in Lanes |-> Portfolio!Free] /\ job.state = "idle"
    BY DEF Portfolio!Init
<1>4. \A l \in Lanes : lane[l] = Portfolio!Free /\ LaneOK(lane[l])
    BY <1>3 DEF LaneOK
<1>5. \A y \in DOMAIN rows : y = <<y[1], y[2]>>
    BY DEF Portfolio!Init
<1> QED BY <1>2, <1>3, <1>4, <1>5 DEF PortfolioInv, Portfolio!Free

\* Rows are only added: what has them keeps them.
LEMMA RowsStay ==
    ASSUME DOMAIN rows \subseteq DOMAIN rows', job'.from = job.from, job'.to = job.to,
           job'.active = job.active, NEW u, RowsOf(u)
    PROVE  RowsOf(u)'
BY DEF RowsOf, Portfolio!StartOf

LEMMA LaneStays ==
    ASSUME DOMAIN rows \subseteq DOMAIN rows', job'.from = job.from, job'.to = job.to,
           job'.active = job.active, job'.state = job.state,
           NEW l, lane'[l] = lane[l], LaneOK(lane[l])
    PROVE  LaneOK(lane[l])'
<1>1. PICK x : x = lane[l]
    OBVIOUS
<1>2. LaneOK(x)
    BY <1>1
<1>3. (/\ job'.state = "running"
       /\ x.user \in Portfolio!ToSet(Users)
       /\ x.bucket \in Nat /\ Portfolio!StartOf(x.user)' <= x.bucket
       /\ x.existing = {None} => x.debt = None
       /\ x.existing = {None} \/ \A h \in x.existing : <<x.user, h>> \in DOMAIN rows'
       /\ \A h \in Portfolio!StartOf(x.user)'..job'.to : h < x.bucket => <<x.user, h>> \in DOMAIN rows'
       /\ x.debt # None => x.bucket <= job'.to
       /\ x.debt # None /\ x.past =>
             x.debt = Portfolio!Debt(x.user, PositionsAt[x.user][x.bucket], x.bucket, {}))
      \/ x = Portfolio!Free
    BY <1>2 DEF LaneOK, Portfolio!StartOf
<1>4. lane'[l] = x
    BY <1>1
<1> QED BY <1>3, <1>4 DEF LaneOK

\* A lane whose user is none is free.
LEMMA FreeIs ==
    ASSUME PortfolioConstants, PortfolioInv, NEW l \in Lanes
    PROVE  /\ lane[l] = Portfolio!Free <=> lane[l].user = None
           /\ Portfolio!Free.existing # {None} /\ Portfolio!Free.debt = None
           /\ lane[l] # Portfolio!Free => job.state = "running" /\ lane[l].user \in Portfolio!ToSet(Users)
<1>1. Portfolio!Free.user = None /\ Portfolio!Free.existing = {} /\ Portfolio!Free.debt = None
    BY DEF Portfolio!Free
<1>2. LaneOK(lane[l])
    BY DEF PortfolioInv
<1> QED BY <1>1, <1>2, UsersAre DEF LaneOK

\* A step of one lane that neither starts nor ends a backfill.
LEMMA LaneMoves ==
    ASSUME PortfolioConstants, PortfolioInv, NEW l \in Lanes, NEW y,
           lane' = [lane EXCEPT ![l] = y], LaneOK(y)',
           y = [user |-> y.user, bucket |-> y.bucket, existing |-> y.existing,
                past |-> y.past, debt |-> y.debt],
           JobOK', DOMAIN rows \subseteq DOMAIN rows', \A z \in DOMAIN rows' : z = <<z[1], z[2]>>,
           job'.from = job.from, job'.to = job.to, job'.active = job.active,
           job'.state = job.state, job.state = "running",
           \A i \in DOMAIN Users : i < job'.next =>
               \/ RowsOf(Users[i])' \/ y.user = Users[i]
               \/ i < job.next /\ lane[l].user # Users[i]
    PROVE  PortfolioInv'
<1>1. lane = [k \in Lanes |-> lane[k]]
    BY DEF PortfolioInv
<1>2. /\ lane' = [k \in Lanes |-> lane'[k]] /\ lane'[l] = y
      /\ \A k \in Lanes : k # l => lane'[k] = lane[k]
    BY <1>1
<1>3. ASSUME NEW k \in Lanes
      PROVE  /\ LaneOK(lane[k])'
             /\ lane'[k] = [user |-> lane'[k].user, bucket |-> lane'[k].bucket,
                            existing |-> lane'[k].existing, past |-> lane'[k].past,
                            debt |-> lane'[k].debt]
    <2>1. CASE k = l
        BY <1>2, <2>1 DEF LaneOK
    <2>2. CASE k # l
        <3>1. lane'[k] = lane[k] /\ LaneOK(lane[k])
            BY <1>2, <2>2 DEF PortfolioInv
        <3>2. LaneOK(lane[k])'
            BY <3>1, LaneStays
        <3> QED BY <3>1, <3>2 DEF PortfolioInv
    <2> QED BY <2>1, <2>2
<1>4. ASSUME NEW i \in DOMAIN Users, i < job'.next
      PROVE  RowsOf(Users[i])' \/ \E k \in Lanes : lane'[k].user = Users[i]
    <2>1. CASE RowsOf(Users[i])' \/ y.user = Users[i]
        BY <1>2, <2>1
    <2>2. CASE i < job.next /\ lane[l].user # Users[i]
        <3>1. RowsOf(Users[i]) \/ \E k \in Lanes : lane[k].user = Users[i]
            BY <2>2 DEF PortfolioInv
        <3>2. CASE RowsOf(Users[i])
            BY <3>2, RowsStay
        <3>3. CASE \E k \in Lanes : lane[k].user = Users[i]
            BY <1>2, <2>2, <3>3
        <3> QED BY <3>1, <3>2, <3>3
    <2> QED BY <1>4, <2>1, <2>2
<1>5. job'.state # "done"
    OBVIOUS
<1> QED BY <1>2, <1>3, <1>4, <1>5 DEF PortfolioInv

\* A step that moves no lane and keeps the backfill.
LEMMA LanesStay ==
    ASSUME PortfolioConstants, PortfolioInv, JobOK',
           DOMAIN rows \subseteq DOMAIN rows', \A z \in DOMAIN rows' : z = <<z[1], z[2]>>,
           job' = job, lane' = lane
    PROVE  PortfolioInv'
<1>1. ASSUME NEW k \in Lanes PROVE LaneOK(lane[k])'
    <2>1. LaneOK(lane[k])
        BY DEF PortfolioInv
    <2> QED BY <2>1, LaneStays
<1>2. \A u : RowsOf(u) => RowsOf(u)'
    BY RowsStay
<1> QED BY <1>1, <1>2 DEF PortfolioInv

\* An upsert adds its row.
LEMMA UpsertAdds ==
    ASSUME NEW u, NEW h, NEW debt, NEW source, rows' = Portfolio!Upserted(u, h, debt, source)
    PROVE  DOMAIN rows' = DOMAIN rows \cup {<<u, h>>}
BY DEF Portfolio!Upserted

\* A lane's record with three of its fields changed.
LaneRecord(x) == x = [user |-> x.user, bucket |-> x.bucket, existing |-> x.existing,
                      past |-> x.past, debt |-> x.debt]
Computed(x, h, b, d) == [x EXCEPT !.bucket = h, !.past = b, !.debt = d]
LaneTaken(x, u, b, e) == [x EXCEPT !.user = u, !.bucket = b, !.existing = e]

LEMMA ComputedIs ==
    ASSUME NEW x, NEW h, NEW b, NEW d, LaneRecord(x)
    PROVE  Computed(x, h, b, d)
               = [user |-> x.user, bucket |-> h, existing |-> x.existing, past |-> b, debt |-> d]
<1>1. PICK y : y = [x EXCEPT !.bucket = h, !.past = b, !.debt = d]
    OBVIOUS
<1>2. DOMAIN y = {"user", "bucket", "existing", "past", "debt"}
    BY <1>1 DEF LaneRecord
<1>3. y = [k \in {"user", "bucket", "existing", "past", "debt"} |-> y[k]]
    BY <1>1, <1>2 DEF LaneRecord
<1>4. y.user = x.user /\ y.bucket = h /\ y.existing = x.existing /\ y.past = b /\ y.debt = d
    BY <1>1 DEF LaneRecord
<1>5. y = [user |-> x.user, bucket |-> h, existing |-> x.existing, past |-> b, debt |-> d]
    BY <1>2, <1>3, <1>4
<1> QED BY <1>1, <1>5 DEF Computed

LEMMA LaneTakenIs ==
    ASSUME NEW x, NEW u, NEW b, NEW e, LaneRecord(x)
    PROVE  LaneTaken(x, u, b, e)
               = [user |-> u, bucket |-> b, existing |-> e, past |-> x.past, debt |-> x.debt]
<1>1. PICK y : y = [x EXCEPT !.user = u, !.bucket = b, !.existing = e]
    OBVIOUS
<1>2. DOMAIN y = {"user", "bucket", "existing", "past", "debt"}
    BY <1>1 DEF LaneRecord
<1>3. y = [k \in {"user", "bucket", "existing", "past", "debt"} |-> y[k]]
    BY <1>1, <1>2 DEF LaneRecord
<1>4. y.user = u /\ y.bucket = b /\ y.existing = e /\ y.past = x.past /\ y.debt = x.debt
    BY <1>1 DEF LaneRecord
<1>5. y = [user |-> u, bucket |-> b, existing |-> e, past |-> x.past, debt |-> x.debt]
    BY <1>2, <1>3, <1>4
<1> QED BY <1>1, <1>5 DEF LaneTaken

LEMMA TakeKeeps ==
    ASSUME PortfolioConstants, PortfolioInv, NEW l \in Lanes, Portfolio!Take(l)
    PROVE  PortfolioInv'
<1>1. /\ job.state = "running" /\ lane[l].user = None /\ job.next <= Len(Users)
      /\ job' = [job EXCEPT !.next = @ + 1]
      /\ hour' = hour /\ rows' = rows
    BY DEF Portfolio!Take
<1>2. JobOK /\ job.next \in Nat
    BY DEF PortfolioInv, JobOK
<1>3. /\ job'.state = job.state /\ job'.active = job.active /\ job'.from = job.from
      /\ job'.to = job.to /\ job'.next = job.next + 1
    BY <1>1, <1>2 DEF JobOK
<1>4. JobOK'
    BY <1>1, <1>2, <1>3 DEF JobOK
<1>5. PICK u : u = Users[job.next]
    OBVIOUS
<1>6. PICK y : y = [user |-> u, bucket |-> Portfolio!StartOf(u), existing |-> {None},
                    past |-> FALSE, debt |-> None]
    OBVIOUS
<1>7. lane' = [lane EXCEPT ![l] = y]
    <2>1. PICK x : x = Portfolio!Free
        OBVIOUS
    <2>2. LaneRecord(x)
        BY <2>1 DEF Portfolio!Free, LaneRecord
    <2>5. x.past = FALSE /\ x.debt = None
        BY <2>1 DEF Portfolio!Free
    <2>6. LaneTaken(x, u, Portfolio!StartOf(u), {None})
             = [user |-> u, bucket |-> Portfolio!StartOf(u), existing |-> {None},
                past |-> x.past, debt |-> x.debt]
        BY <2>2, LaneTakenIs
    <2>3. LaneTaken(x, u, Portfolio!StartOf(u), {None}) = y
        BY <1>6, <2>5, <2>6
    <2>4. [x EXCEPT !.user = u, !.bucket = Portfolio!StartOf(u), !.existing = {None}] = y
        BY <2>3 DEF LaneTaken
    <2> QED BY <1>5, <2>1, <2>4 DEF Portfolio!Take
<1>8. ASSUME job.next \in DOMAIN Users
      PROVE  LaneOK(y)'
    <2>1. u \in Portfolio!ToSet(Users)
        BY <1>5, <1>8, UsersAre
    <2>2. Portfolio!StartOf(u) \in 1..MaxHour
        BY <1>1, <1>2, <2>1, StartIs
    <2>3. Portfolio!StartOf(u)' = Portfolio!StartOf(u) /\ job'.state = "running"
        BY <1>1, <1>3 DEF Portfolio!StartOf
    <2> QED BY <1>6, <2>1, <2>2, <2>3 DEF LaneOK
<1>9. job.next # 0
    BY DEF PortfolioInv, JobOK
<1>10. job.next \in DOMAIN Users
    BY <1>1, <1>2, <1>9, UsersAre
<1>11. ASSUME NEW i \in DOMAIN Users, i < job'.next
       PROVE  y.user = Users[i] \/ (i < job.next /\ lane[l].user # Users[i])
    <2>1. Users[i] # None /\ i \in Nat
        BY UsersAre
    <2>2. i = job.next \/ i < job.next
        BY <1>2, <1>3, <1>11, <2>1
    <2> QED BY <1>1, <1>5, <1>6, <2>1, <2>2
<1>12. \A z \in DOMAIN rows' : z = <<z[1], z[2]>>
    BY <1>1 DEF PortfolioInv
<1> QED BY <1>1, <1>3, <1>4, <1>6, <1>7, <1>8, <1>10, <1>11, <1>12, LaneMoves

\* What a step of a lane finds.
LEMMA LaneIs ==
    ASSUME PortfolioConstants, PortfolioInv, NEW l \in Lanes, lane[l] # Portfolio!Free
    PROVE  /\ job.state = "running" /\ lane[l].user \in Portfolio!ToSet(Users)
           /\ Portfolio!StartOf(lane[l].user) \in Nat /\ lane[l].bucket \in Nat
           /\ job.to \in 1..MaxHour
           /\ Portfolio!StartOf(lane[l].user) >= 1
           /\ Portfolio!StartOf(lane[l].user) <= lane[l].bucket
<1>1. LaneOK(lane[l]) /\ JobOK
    BY DEF PortfolioInv
<1>2. job.state = "running" /\ lane[l].user \in Portfolio!ToSet(Users)
    BY <1>1 DEF LaneOK
<1>3. Portfolio!StartOf(lane[l].user) \in 1..MaxHour /\ job.to \in 1..MaxHour
    BY <1>1, <1>2, StartIs
<1> QED BY <1>1, <1>2, <1>3 DEF LaneOK

\* A lane's own step that keeps its user: the other facts stay.
LEMMA LaneKeepsUser ==
    ASSUME PortfolioConstants, PortfolioInv, NEW l \in Lanes, NEW y,
           lane' = [lane EXCEPT ![l] = y], LaneOK(y)', y.user = lane[l].user,
           y = [user |-> y.user, bucket |-> y.bucket, existing |-> y.existing,
                past |-> y.past, debt |-> y.debt],
           DOMAIN rows \subseteq DOMAIN rows', \A z \in DOMAIN rows' : z = <<z[1], z[2]>>,
           job' = job, hour' = hour, job.state = "running"
    PROVE  PortfolioInv'
<1>1. JobOK'
    BY DEF PortfolioInv, JobOK
<1>2. \A i \in DOMAIN Users : i < job'.next =>
          \/ RowsOf(Users[i])' \/ y.user = Users[i]
          \/ i < job.next /\ lane[l].user # Users[i]
    OBVIOUS
<1> QED BY <1>1, <1>2, LaneMoves

LEMMA ListKeeps ==
    ASSUME PortfolioConstants, PortfolioInv, NEW l \in Lanes, Portfolio!List(l)
    PROVE  PortfolioInv'
<1>1. /\ lane[l].existing = {None} /\ hour' = hour /\ rows' = rows /\ job' = job
      /\ lane' = [lane EXCEPT ![l].existing = Portfolio!Existing(lane[l].user)]
    BY DEF Portfolio!List
<1>2. lane[l] # Portfolio!Free
    BY <1>1, FreeIs
<1>3. PICK x : x = lane[l]
    OBVIOUS
<1>4. LaneOK(x) /\ x = [user |-> x.user, bucket |-> x.bucket, existing |-> x.existing,
                        past |-> x.past, debt |-> x.debt]
    BY <1>3 DEF PortfolioInv
<1>5. PICK y : y = [user |-> x.user, bucket |-> x.bucket,
                    existing |-> Portfolio!Existing(x.user), past |-> x.past, debt |-> x.debt]
    OBVIOUS
<1>6. lane' = [lane EXCEPT ![l] = y]
    <2>1. [x EXCEPT !.existing = Portfolio!Existing(x.user)] = y
        BY <1>4, <1>5
    <2> QED BY <1>1, <1>3, <2>1
<1>7. \A h \in Portfolio!Existing(x.user) : <<x.user, h>> \in DOMAIN rows
    <2>1. \A z \in DOMAIN rows : z = <<z[1], z[2]>>
        BY DEF PortfolioInv
    <2> QED BY <2>1 DEF Portfolio!Existing
<1>8. x.debt = None
    BY <1>1, <1>2, <1>3, <1>4 DEF LaneOK
<1>9. Portfolio!StartOf(x.user)' = Portfolio!StartOf(x.user)
    BY <1>1 DEF Portfolio!StartOf
<1>10. LaneOK(y)'
    BY <1>1, <1>2, <1>3, <1>4, <1>5, <1>7, <1>8, <1>9 DEF LaneOK
<1>11. \A z \in DOMAIN rows' : z = <<z[1], z[2]>>
    BY <1>1 DEF PortfolioInv
<1>12. job.state = "running"
    BY <1>2, LaneIs
<1>13. y.user = lane[l].user
    BY <1>3, <1>5
<1>14. y = [user |-> y.user, bucket |-> y.bucket, existing |-> y.existing,
            past |-> y.past, debt |-> y.debt]
    BY <1>5
<1> QED BY <1>1, <1>6, <1>10, <1>11, <1>12, <1>13, <1>14, LaneKeepsUser

LEMMA ComputeKeeps ==
    ASSUME PortfolioConstants, PortfolioInv, NEW l \in Lanes, Portfolio!Compute(l)
    PROVE  PortfolioInv'
<1>1. /\ lane[l].user # None /\ lane[l].existing # {None} /\ lane[l].debt = None
      /\ hour' = hour /\ rows' = rows /\ job' = job
    BY DEF Portfolio!Compute
<1>2. lane[l] # Portfolio!Free
    BY <1>1, FreeIs
<1>3. PICK x : x = lane[l]
    OBVIOUS
<1>4. LaneOK(x) /\ x = [user |-> x.user, bucket |-> x.bucket, existing |-> x.existing,
                        past |-> x.past, debt |-> x.debt]
    BY <1>3 DEF PortfolioInv
<1>5. PICK start : start = Portfolio!StartOf(x.user)
    OBVIOUS
<1>6. /\ job.state = "running" /\ x.user \in Portfolio!ToSet(Users)
      /\ start \in Nat /\ x.bucket \in Nat /\ job.to \in Nat /\ start <= x.bucket
    BY <1>2, <1>3, <1>5, LaneIs
<1>7. /\ \A h \in x.existing : <<x.user, h>> \in DOMAIN rows
      /\ \A h \in start..job.to : h < x.bucket => <<x.user, h>> \in DOMAIN rows
    BY <1>1, <1>2, <1>3, <1>4, <1>5 DEF LaneOK
<1>8. Portfolio!StartOf(x.user)' = start
    BY <1>1, <1>5 DEF Portfolio!StartOf
<1>9. \A z \in DOMAIN rows' : z = <<z[1], z[2]>>
    BY <1>1 DEF PortfolioInv
<1>10. PICK left : left = Portfolio!Left(l)
    OBVIOUS
<1>11. left = {h \in x.bucket..job.to : h \notin x.existing}
    BY <1>3, <1>10 DEF Portfolio!Left
<1>12. CASE left = {}
    <2>1. lane' = [lane EXCEPT ![l] = Portfolio!Free]
        BY <1>10, <1>12 DEF Portfolio!Compute
    <2>2. \A h \in start..job.to : <<x.user, h>> \in DOMAIN rows
        <3>1. ASSUME NEW h \in start..job.to, ~(h < x.bucket) PROVE h \in x.existing
            BY <1>6, <1>11, <1>12, <3>1
        <3> QED BY <1>7, <3>1
    <2>3. RowsOf(x.user)'
        BY <1>1, <1>8, <2>2 DEF RowsOf
    <2>4. LaneOK(Portfolio!Free)'
        BY DEF LaneOK, Portfolio!Free
    <2>5. \A i \in DOMAIN Users : i < job'.next =>
              \/ RowsOf(Users[i])' \/ Portfolio!Free.user = Users[i]
              \/ i < job.next /\ lane[l].user # Users[i]
        BY <1>1, <1>3, <2>3
    <2>6. JobOK'
        BY <1>1 DEF PortfolioInv, JobOK
    <2>7. PICK y : y = Portfolio!Free
        OBVIOUS
    <2>8. y = [user |-> y.user, bucket |-> y.bucket, existing |-> y.existing,
               past |-> y.past, debt |-> y.debt]
        BY <2>7 DEF Portfolio!Free
    <2>9. lane' = [lane EXCEPT ![l] = y] /\ LaneOK(y)'
        BY <2>1, <2>4, <2>7 DEF LaneOK
    <2>10. \A i \in DOMAIN Users : i < job'.next =>
              \/ RowsOf(Users[i])' \/ y.user = Users[i]
              \/ i < job.next /\ lane[l].user # Users[i]
        BY <2>5, <2>7
    <2> QED BY <1>1, <1>6, <1>9, <2>6, <2>8, <2>9, <2>10, LaneMoves
<1>13. CASE left # {}
    <2>1. PICK h : h = Portfolio!Min(left)
        OBVIOUS
    <2>2. left \subseteq Nat
        BY <1>6, <1>11
    <2>3. h \in left /\ \A k \in left : h <= k
        BY <1>13, <2>1, <2>2, LeastHour
    <2>4. h \in Nat /\ x.bucket <= h /\ h <= job.to
        BY <1>6, <1>11, <2>3
    <2>5. PICK debt \in Portfolio!Values(x.user, h, h < hour) :
              lane' = [lane EXCEPT ![l].bucket = h, ![l].past = h < hour, ![l].debt = debt]
        BY <1>3, <1>10, <1>13, <2>1 DEF Portfolio!Compute
    <2>6. PICK y : y = [user |-> x.user, bucket |-> h, existing |-> x.existing,
                        past |-> h < hour, debt |-> debt]
        OBVIOUS
    <2>7. lane' = [lane EXCEPT ![l] = y]
        <3>0. LaneRecord(x)
            BY <1>4 DEF LaneRecord
        <3>1. Computed(x, h, h < hour, debt) = y
            BY <2>6, <3>0, ComputedIs
        <3>2. [lane EXCEPT ![l].bucket = h, ![l].past = h < hour, ![l].debt = debt]
                 = [lane EXCEPT ![l] = [x EXCEPT !.bucket = h, !.past = h < hour, !.debt = debt]]
            BY <1>3 DEF PortfolioInv
        <3>3. [x EXCEPT !.bucket = h, !.past = h < hour, !.debt = debt] = y
            BY <3>1 DEF Computed
        <3> QED BY <2>5, <3>2, <3>3
    <2>8. ASSUME NEW k \in start..job.to, k < h PROVE <<x.user, k>> \in DOMAIN rows
        <3>1. CASE k < x.bucket
            BY <1>7, <3>1
        <3>2. CASE ~(k < x.bucket)
            <4>1. k \in x.bucket..job.to
                BY <1>6, <3>2
            <4>2. k \notin left
                BY <1>6, <2>3, <2>4, <2>8
            <4> QED BY <1>7, <1>11, <4>1, <4>2
        <3> QED BY <3>1, <3>2
    <2>9. h < hour => debt = Portfolio!Debt(x.user, PositionsAt[x.user][h], h, {})
        BY <2>5 DEF Portfolio!Values
    <2>10. start <= h
        BY <1>6, <2>4
    <2>11. LaneOK(y)'
        BY <1>1, <1>3, <1>6, <1>7, <1>8, <2>4, <2>6, <2>8, <2>9, <2>10 DEF LaneOK
    <2>12. y.user = lane[l].user
        BY <1>3, <2>6
    <2>13. y = [user |-> y.user, bucket |-> y.bucket, existing |-> y.existing,
                past |-> y.past, debt |-> y.debt]
        BY <2>6
    <2> QED BY <1>1, <1>6, <1>9, <2>7, <2>11, <2>12, <2>13, LaneKeepsUser
<1> QED BY <1>12, <1>13

LEMMA WriteKeeps ==
    ASSUME PortfolioConstants, PortfolioInv, NEW l \in Lanes, Portfolio!Write(l)
    PROVE  PortfolioInv'
<1>1. /\ lane[l].debt # None /\ hour' = hour /\ job' = job
      /\ rows' = Portfolio!Upserted(lane[l].user, lane[l].bucket, lane[l].debt, "backfill")
      /\ lane' = [lane EXCEPT ![l].bucket = @ + 1, ![l].debt = None]
    BY DEF Portfolio!Write
<1>2. lane[l] # Portfolio!Free
    BY <1>1, FreeIs
<1>3. PICK x : x = lane[l]
    OBVIOUS
<1>4. LaneOK(x) /\ x = [user |-> x.user, bucket |-> x.bucket, existing |-> x.existing,
                        past |-> x.past, debt |-> x.debt]
    BY <1>3 DEF PortfolioInv
<1>5. PICK start : start = Portfolio!StartOf(x.user)
    OBVIOUS
<1>6. /\ job.state = "running" /\ x.user \in Portfolio!ToSet(Users)
      /\ start \in Nat /\ x.bucket \in Nat /\ job.to \in Nat /\ start <= x.bucket
    BY <1>2, <1>3, <1>5, LaneIs
<1>7. DOMAIN rows' = DOMAIN rows \cup {<<x.user, x.bucket>>}
    BY <1>1, <1>3, UpsertAdds
<1>8. \A z \in DOMAIN rows' : z = <<z[1], z[2]>>
    BY <1>7 DEF PortfolioInv
<1>9. PICK y : y = [user |-> x.user, bucket |-> x.bucket + 1, existing |-> x.existing,
                    past |-> x.past, debt |-> None]
    OBVIOUS
<1>10. lane' = [lane EXCEPT ![l] = y]
    <2>1. [x EXCEPT !.bucket = x.bucket + 1, !.debt = None] = y
        <3>1. PICK z : z = [x EXCEPT !.bucket = x.bucket + 1, !.debt = None]
            OBVIOUS
        <3>2. DOMAIN z = {"user", "bucket", "existing", "past", "debt"}
            BY <1>4, <3>1
        <3>3. z = [k \in {"user", "bucket", "existing", "past", "debt"} |-> z[k]]
            BY <1>4, <3>1, <3>2
        <3>4. /\ z.user = x.user /\ z.bucket = x.bucket + 1 /\ z.existing = x.existing
              /\ z.past = x.past /\ z.debt = None
            BY <1>4, <3>1
        <3>5. z = y
            BY <1>9, <3>2, <3>3, <3>4
        <3> QED BY <3>1, <3>5
    <2>2. lane' = [lane EXCEPT ![l] = [x EXCEPT !.bucket = x.bucket + 1, !.debt = None]]
        BY <1>1, <1>3 DEF PortfolioInv
    <2> QED BY <2>1, <2>2
<1>11. Portfolio!StartOf(x.user)' = start
    BY <1>1, <1>5 DEF Portfolio!StartOf
<1>12. x.existing = {None} \/ \A h \in x.existing : <<x.user, h>> \in DOMAIN rows'
    BY <1>2, <1>3, <1>4, <1>7 DEF LaneOK
<1>13. ASSUME NEW h \in start..job.to, h < x.bucket + 1
       PROVE  <<x.user, h>> \in DOMAIN rows'
    <2>1. h < x.bucket \/ h = x.bucket
        BY <1>6, <1>13
    <2>2. h < x.bucket => <<x.user, h>> \in DOMAIN rows
        BY <1>2, <1>3, <1>4, <1>5 DEF LaneOK
    <2> QED BY <1>7, <2>1, <2>2
<1>14. start <= x.bucket + 1 /\ x.bucket + 1 \in Nat
    BY <1>6
<1>15. LaneOK(y)'
    BY <1>1, <1>6, <1>9, <1>11, <1>12, <1>13, <1>14 DEF LaneOK
<1>16. y.user = lane[l].user
    BY <1>3, <1>9
<1>17. y = [user |-> y.user, bucket |-> y.bucket, existing |-> y.existing,
            past |-> y.past, debt |-> y.debt]
    BY <1>9
<1>18. DOMAIN rows \subseteq DOMAIN rows'
    BY <1>7
<1> QED BY <1>1, <1>6, <1>8, <1>10, <1>15, <1>16, <1>17, <1>18, LaneKeepsUser

\* When no backfill runs, or one stops, all lanes are free.
LEMMA LanesFree ==
    ASSUME PortfolioConstants, PortfolioInv, JobOK', rows' = rows,
           lane' = [k \in Lanes |-> Portfolio!Free],
           job'.state = "running" => job'.next = 1,
           job'.state = "done" => \A i \in DOMAIN Users : RowsOf(Users[i])'
    PROVE  PortfolioInv'
<1>1. \A k \in Lanes : lane'[k] = Portfolio!Free
    OBVIOUS
<1>2. lane' = [k \in Lanes |-> lane'[k]]
    OBVIOUS
<1>3. ASSUME NEW k \in Lanes
      PROVE  /\ LaneOK(lane[k])'
             /\ lane'[k] = [user |-> lane'[k].user, bucket |-> lane'[k].bucket,
                            existing |-> lane'[k].existing, past |-> lane'[k].past,
                            debt |-> lane'[k].debt]
    <2>1. lane'[k] = Portfolio!Free
        BY <1>1
    <2>2. LaneOK(lane[k])'
        BY <2>1 DEF LaneOK, Portfolio!Free
    <2> QED BY <2>1, <2>2 DEF Portfolio!Free
<1>4. job'.state = "running" => \A i \in DOMAIN Users : ~(i < job'.next)
    BY UsersAre
<1>5. \A y \in DOMAIN rows' : y = <<y[1], y[2]>>
    BY DEF PortfolioInv
<1> QED BY <1>2, <1>3, <1>4, <1>5 DEF PortfolioInv

LEMMA JobEndsKeeps ==
    ASSUME PortfolioConstants, PortfolioInv, Portfolio!JobEnds
    PROVE  PortfolioInv'
<1>1. /\ job.state = "running" /\ job.next > Len(Users)
      /\ \A l \in Lanes : lane[l] = Portfolio!Free
      /\ job' = [job EXCEPT !.state = "done"]
      /\ hour' = hour /\ rows' = rows /\ lane' = lane
    BY DEF Portfolio!JobEnds
<1>2. JobOK /\ job.next \in Nat
    BY DEF PortfolioInv, JobOK
<1>3. /\ job'.state = "done" /\ job'.active = job.active /\ job'.from = job.from
      /\ job'.to = job.to /\ job'.next = job.next
    BY <1>1, <1>2 DEF JobOK
<1>4. JobOK'
    BY <1>1, <1>2, <1>3 DEF JobOK
<1>5. lane = [k \in Lanes |-> lane[k]]
    BY DEF PortfolioInv
<1>6. lane' = [k \in Lanes |-> Portfolio!Free]
    BY <1>1, <1>5
<1>7. ASSUME NEW i \in DOMAIN Users PROVE RowsOf(Users[i])'
    <2>1. i < job.next
        BY <1>1, <1>2, UsersAre
    <2>2. RowsOf(Users[i]) \/ \E l \in Lanes : lane[l].user = Users[i]
        BY <1>1, <2>1 DEF PortfolioInv
    <2>3. Users[i] # None
        BY UsersAre
    <2>4. \A l \in Lanes : lane[l].user = None
        BY <1>1, FreeIs
    <2>5. RowsOf(Users[i])
        BY <2>2, <2>3, <2>4
    <2> QED BY <1>1, <1>3, <2>5, RowsStay
<1> QED BY <1>1, <1>3, <1>4, <1>6, <1>7, LanesFree

LEMMA JobFailsKeeps ==
    ASSUME PortfolioConstants, PortfolioInv, Portfolio!JobFails
    PROVE  PortfolioInv'
<1>1. /\ job.state = "running" /\ job' = [job EXCEPT !.state = "failed"]
      /\ hour' = hour /\ rows' = rows /\ lane' = [k \in Lanes |-> Portfolio!Free]
    BY DEF Portfolio!JobFails
<1>2. JobOK
    BY DEF PortfolioInv
<1>3. /\ job'.state = "failed" /\ job'.active = job.active /\ job'.from = job.from
      /\ job'.to = job.to /\ job'.next = job.next
    BY <1>1, <1>2 DEF JobOK
<1>4. JobOK'
    BY <1>1, <1>2, <1>3 DEF JobOK
<1> QED BY <1>1, <1>3, <1>4, LanesFree

\* A backfill begins at the first hour of any activity.
LEMMA StartKeeps ==
    ASSUME PortfolioConstants, PortfolioInv, NEW skip, NEW active, Portfolio!StartJob(skip, active)
    PROVE  PortfolioInv'
<1>1. PICK first : first = Portfolio!Min({FirstHour[u] : u \in Portfolio!ToSet(Users)})
    OBVIOUS
<1>2. /\ job.state # "running" /\ hour' = hour /\ rows' = rows /\ lane' = lane
      /\ job' = [state |-> "running", skip |-> skip, active |-> active, next |-> 1,
                 to |-> hour, from |-> first]
    BY <1>1 DEF Portfolio!StartJob
<1>3. JobOK
    BY DEF PortfolioInv
<1>4. Users # <<>> => first \in 1..MaxHour
    BY <1>1, FirstHours
<1>5. /\ job'.state = "running" /\ job'.active = active /\ job'.skip = skip /\ job'.from = first
      /\ job'.to = hour /\ job'.next = 1
    BY <1>2
<1>6. job' = [state |-> job'.state, skip |-> job'.skip, active |-> job'.active,
              from |-> job'.from, to |-> job'.to, next |-> job'.next]
    BY <1>2, <1>5
<1>7. Users # <<>> => hour' \in 1..MaxHour /\ job'.from \in 1..MaxHour /\ job'.to \in 1..MaxHour
    BY <1>2, <1>3, <1>4, <1>5 DEF JobOK
<1>8. JobOK'
    BY <1>5, <1>6, <1>7 DEF JobOK
<1>9. \A k \in Lanes : lane[k] = Portfolio!Free
    BY <1>2, FreeIs
<1>10. lane = [k \in Lanes |-> lane[k]]
    BY DEF PortfolioInv
<1>11. lane' = [k \in Lanes |-> Portfolio!Free]
    BY <1>2, <1>9, <1>10
<1> QED BY <1>2, <1>5, <1>8, <1>11, LanesFree

LEMMA OthersKeep ==
    ASSUME PortfolioConstants, PortfolioInv,
           \/ Portfolio!HourPasses \/ Portfolio!SnapStart \/ Portfolio!SnapCompute
           \/ Portfolio!SnapWrite \/ Portfolio!SnapFails \/ UNCHANGED Portfolio!vars
    PROVE  PortfolioInv'
<1>1. JobOK /\ \A z \in DOMAIN rows : z = <<z[1], z[2]>>
    BY DEF PortfolioInv
<1>2. CASE Portfolio!HourPasses
    <2>1. hour < MaxHour /\ hour' = hour + 1 /\ rows' = rows /\ job' = job /\ lane' = lane
        BY <1>2 DEF Portfolio!HourPasses
    <2>2. Users # <<>> => hour' \in 1..MaxHour
        BY <1>1, <2>1 DEF JobOK, PortfolioConstants
    <2>3. JobOK'
        BY <1>1, <2>1, <2>2 DEF JobOK
    <2> QED BY <1>1, <2>1, <2>3, LanesStay
<1>3. CASE Portfolio!SnapStart \/ Portfolio!SnapCompute \/ Portfolio!SnapFails \/ UNCHANGED Portfolio!vars
    <2>1. hour' = hour /\ rows' = rows /\ job' = job /\ lane' = lane
        BY <1>3 DEF Portfolio!SnapStart, Portfolio!SnapCompute, Portfolio!SnapFails, Portfolio!vars
    <2>2. JobOK'
        BY <1>1, <2>1 DEF JobOK
    <2> QED BY <1>1, <2>1, <2>2, LanesStay
<1>4. CASE Portfolio!SnapWrite
    <2>1. /\ hour' = hour /\ job' = job /\ lane' = lane
          /\ rows' = Portfolio!Upserted(Users[snap.next], snap.bucket, snap.debt, "snapshotter")
        BY <1>4 DEF Portfolio!SnapWrite
    <2>2. DOMAIN rows' = DOMAIN rows \cup {<<Users[snap.next], snap.bucket>>}
        BY <2>1, UpsertAdds
    <2>3. JobOK'
        BY <1>1, <2>1 DEF JobOK
    <2>4. DOMAIN rows \subseteq DOMAIN rows' /\ \A z \in DOMAIN rows' : z = <<z[1], z[2]>>
        BY <1>1, <2>2
    <2> QED BY <2>1, <2>3, <2>4, LanesStay
<1> QED BY <1>2, <1>3, <1>4

LEMMA PortfolioNext ==
    ASSUME PortfolioConstants, PortfolioInv, [Portfolio!Next]_Portfolio!vars
    PROVE  PortfolioInv'
<1>1. ASSUME NEW skip \in BOOLEAN, NEW active \in BOOLEAN, Portfolio!StartJob(skip, active)
      PROVE  PortfolioInv'
    BY <1>1, StartKeeps
<1>2. ASSUME NEW l \in Lanes,
             Portfolio!Take(l) \/ Portfolio!List(l) \/ Portfolio!Compute(l) \/ Portfolio!Write(l)
      PROVE  PortfolioInv'
    BY <1>2, TakeKeeps, ListKeeps, ComputeKeeps, WriteKeeps
<1>3. CASE Portfolio!JobEnds \/ Portfolio!JobFails
    BY <1>3, JobEndsKeeps, JobFailsKeeps
<1>4. CASE \/ Portfolio!HourPasses \/ Portfolio!SnapStart \/ Portfolio!SnapCompute
           \/ Portfolio!SnapWrite \/ Portfolio!SnapFails \/ UNCHANGED Portfolio!vars
    BY <1>4, OthersKeep
<1> QED BY <1>1, <1>2, <1>3, <1>4 DEF Portfolio!Next

LEMMA PortfolioSteps == [Next]_vars => [Portfolio!Next]_Portfolio!vars
<1>1. CASE PortfolioStep
    BY <1>1 DEF PortfolioStep
<1>2. CASE HistoryStep \/ SurfaceStep \/ FeedStep \/ SwapStep \/ MarketStep \/ UNCHANGED vars
    BY <1>2 DEF HistoryStep, SurfaceStep, FeedStep, SwapStep, MarketStep, vars, valueVars,
                portfolioVars, Portfolio!vars
<1> QED BY <1>1, <1>2 DEF Next

\* A computed debt is that of the loop over the positions, which counts the
\* principal of a pair once.
LEMMA SnapshotsAre ==
    ASSUME PortfolioConstants, PortfolioInv
    PROVE  Portfolio!BackfillComplete /\ Portfolio!DebtWithinPrincipal
<1>1. Portfolio!BackfillComplete
    BY DEF PortfolioInv, RowsOf, Portfolio!BackfillComplete
<1>2. ASSUME NEW l \in Lanes, lane[l].debt # None, lane[l].past
      PROVE  LET u == lane[l].user
                 h == lane[l].bucket
                 pairs == {p.pair : p \in Portfolio!ToSet(PositionsAt[u][h])}
             IN  lane[l].debt <= Portfolio!Total([x \in pairs \X Portfolio!Sides |->
                                                     Portfolio!Principal(u, x[1], x[2], h)])
    <2>1. PICK u : u = lane[l].user
        OBVIOUS
    <2>2. PICK h : h = lane[l].bucket
        OBVIOUS
    <2>3. lane[l] # Portfolio!Free
        BY <1>2, FreeIs
    <2>4. /\ u \in Portfolio!ToSet(Users) /\ h \in Nat /\ h >= 1 /\ job.to \in 1..MaxHour
        BY <2>1, <2>2, <2>3, LaneIs
    <2>5. /\ h <= job.to
          /\ lane[l].debt = Portfolio!Debt(u, PositionsAt[u][h], h, {})
        BY <1>2, <2>1, <2>2, <2>3 DEF PortfolioInv, LaneOK
    <2>6. h \in 1..MaxHour
        BY <2>4, <2>5 DEF PortfolioConstants
    <2>7. u \in DOMAIN FirstHour
        BY <2>4, UsersAre
    <2>8. Portfolio!Debt(u, PositionsAt[u][h], h, {}) <=
              Portfolio!Total([x \in PairsOf(PositionsAt[u][h]) \X {0, 1} |->
                                  Portfolio!Principal(u, x[1], x[2], h)])
        BY <2>6, <2>7, DebtBound
    <2>9. PairsOf(PositionsAt[u][h]) = {p.pair : p \in Portfolio!ToSet(PositionsAt[u][h])}
        BY DEF PairsOf, Portfolio!ToSet
    <2> QED BY <2>1, <2>2, <2>5, <2>8, <2>9 DEF Portfolio!Sides
<1> QED BY <1>1, <1>2 DEF Portfolio!DebtWithinPrincipal

(***************************************************************************)
(* A backfill that ends well left no hour of its users without a row,      *)
(* however its lanes shared them, what an earlier run did before it failed  *)
(* and what the snapshotter wrote meanwhile; and the debt of a past         *)
(* snapshot counts the principal of no pair twice                           *)
(* (portfolioSnapshotService.ts).                                           *)
(***************************************************************************)
THEOREM SnapshotsStayWhole == Spec => []SnapshotsAreWhole
<1>1. Init => PortfolioInv
    BY PortfolioInit, PortfolioAssumption DEF Init
<1>2. PortfolioInv /\ [Next]_vars => PortfolioInv'
    BY PortfolioNext, PortfolioSteps, PortfolioAssumption
<1>3. PortfolioInv => SnapshotsAreWhole
    BY SnapshotsAre, PortfolioAssumption DEF SnapshotsAreWhole
<1> QED BY <1>1, <1>2, <1>3, PTL DEF Spec
=============================================================================
