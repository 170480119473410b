----------------------------- MODULE YieldRates -----------------------------
(***************************************************************************)
(* The recorded yield of a market's senior shares: growth between two        *)
(* stored swaps that stand for the ends of a window (duskYieldRates.ts,      *)
(* duskYieldRateMath.ts), and the trailing rate that the market payload      *)
(* carries (duskHlpRates.ts).                                               *)
(*                                                                          *)
(* Swaps are numbered in the chain's order, so a swap's number is its        *)
(* growth index.  A row's time is that of its arrival, or its block's when   *)
(* catch-up reads it back: times do not follow slots.                       *)
(***************************************************************************)
EXTENDS Integers, FiniteSets

CONSTANTS
    None,
    Swaps,          \* 1..n, in the chain's order
    SlotOf,         \* [Swaps -> Nat]
    BlockTime,      \* [Swaps -> the time of its slot]
    Window,         \* seven days
    Cadence,        \* five minutes: how long a trailing rate is cached
    MaxTime

VARIABLES
    clock,
    stored,     \* [swap -> [time, id]]: the rows that have arrived
    rate        \* the trailing rate in the cache: [at, read], or None

vars == <<clock, stored, rate>>

Times == 0..MaxTime
Arrived == DOMAIN stored

-----------------------------------------------------------------------------

\* ORDER BY slot, observation_id.
Precedes(s, r) == SlotOf[s] < SlotOf[r] \/ (SlotOf[s] = SlotOf[r] /\ stored[s].id < stored[r].id)

Last(S) == IF S = {} THEN None ELSE CHOOSE s \in S : \A r \in S \ {s} : Precedes(r, s)
First(S) == IF S = {} THEN None ELSE CHOOSE s \in S : \A r \in S \ {s} : Precedes(s, r)

\* A boundary of readYieldRates: the last swap that was stored by then.
At(time) == Last({s \in Arrived : stored[s].time <= time})

\* observedPricesAt: the snapshot that prices a growth point.
PriceOf(s) == Last({r \in Arrived : SlotOf[r] <= SlotOf[s] /\ stored[r].time <= stored[s].time})

\* Missing brackets remain unmeasured.
Bracketed(start, end) == start # None /\ end # None /\ SlotOf[start] < SlotOf[end]

\* recordedSrlpRates refuses a window without time, or a growth that regressed.
Measures(start, end) == stored[start].time < stored[end].time /\ start <= end

-----------------------------------------------------------------------------

\* readTrailingSrlpRate: the window starts at the last swap before it, or at
\* the first one in it.
Start_first(since, until) == First({s \in Arrived : since < stored[s].time /\ stored[s].time <= until})
Start(since, until) == IF At(since) # None THEN At(since) ELSE Start_first(since, until)

Trailing(until) ==
    LET start == Start(until - Window, until) end == At(until)
    IN IF ~Bracketed(start, end) THEN [growth |-> "none", swaps |-> {}]
       ELSE IF Measures(start, end) THEN [growth |-> "recorded", swaps |-> (start + 1)..end]
       ELSE [growth |-> "unknown", swaps |-> {}]

-----------------------------------------------------------------------------

Init ==
    /\ clock = 1
    /\ stored = [s \in {} |-> 0]
    /\ rate = None

Tick ==
    /\ clock < MaxTime
    /\ clock' = clock + 1
    /\ rate' = IF rate # None /\ clock' >= rate.at + Cadence THEN None ELSE rate
    /\ UNCHANGED stored

\* The daemon stores a swap as it is streamed, or as catch-up reads it back.
Store(s, time) ==
    /\ s \notin Arrived /\ BlockTime[s] <= clock
    /\ stored' = [r \in Arrived \cup {s} |->
           IF r = s THEN [time |-> time, id |-> 1 + Cardinality(Arrived)] ELSE stored[r]]
    /\ UNCHANGED <<clock, rate>>

\* withHlpRates: one read for the vaults of a payload, and the tranches; one
\* that fails leaves the rates unknown, and is not cached.
Refresh ==
    /\ rate = None
    /\ Trailing(clock).growth # "unknown"
    /\ rate' = [at |-> clock, read |-> Trailing(clock)]
    /\ UNCHANGED <<clock, stored>>

Next ==
    \/ Tick
    \/ \E s \in Swaps, time \in Times : time \in {clock, BlockTime[s]} /\ Store(s, time)
    \/ Refresh

Spec == Init /\ [][Next]_vars

-----------------------------------------------------------------------------

\* A window's ends are ordered by slot and chosen by time, which disagree when
\* catch-up stores old swaps.  Still, whatever was stored in the window above
\* its start is between its ends, time passed between them, growth did not
\* regress, and each end is priced by its own snapshot (duskYieldRates.ts:17-18,
\* 43-55, 71; duskYieldRateMath.ts:75-79, 92).
WindowMeasures(since, until) ==
    LET start == At(since) end == At(until)
        inside == {s \in Arrived : since < stored[s].time /\ stored[s].time <= until}
    IN start # None =>
        /\ \A s \in inside : SlotOf[start] < SlotOf[s] =>
               Bracketed(start, end) /\ SlotOf[s] <= SlotOf[end]
        /\ Bracketed(start, end) =>
               Measures(start, end) /\ PriceOf(start) = start /\ PriceOf(end) = end

\* So a trailing rate is unknown only to a market that was first swapped inside
\* the window, whose first row may be later than its last (duskYieldRates.ts:
\* 112-114), and one in the cache counts what its window held.
RatesMeasure ==
    /\ \A since, until \in Times : since < until /\ until <= clock => WindowMeasures(since, until)
    /\ Trailing(clock).growth = "unknown" => At(clock - Window) = None
=============================================================================
