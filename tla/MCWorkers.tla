----------------------------- MODULE MCWorkers ------------------------------
(***************************************************************************)
(* Small instances of the API's workers, for what must happen in the end:   *)
(* EventDrain, PortfolioCapture and LpValuation.  They share no state; a    *)
(* behaviour is one of theirs, which `part` chooses.                        *)
(***************************************************************************)
EXTENDS Integers, TLC

CONSTANTS None, Parts, o1, a1, w1, w2, e1, e2, e3, m1, m2, p1

VARIABLES
    part,
    written, derived, status, link, wakeups, pending, pass, batch, retries, outages,
    ledger, final, observed, evidence, filed, cycle, failures,
    hour, earned, marked, worth, sums, price, earner, reconciler, misses

drainVars == <<written, derived, status, link, wakeups, pending, pass, batch, retries, outages>>
captureVars == <<ledger, final, observed, evidence, filed, cycle, failures>>
valuationVars == <<hour, earned, marked, worth, sums, price, earner, reconciler, misses>>
vars == <<part, drainVars, captureVars, valuationVars>>

\* Two replicas, and three events of which the last in order is malformed.
\* Neither need ever be stored.
Drain == INSTANCE EventDrain WITH
    Workers <- {w1, w2}, Events <- 1..3, Malformed <- {3},
    BatchSize <- 1, MaxRetries <- 1, MaxFaults <- 1,
    stored <- written, projected <- derived, notices <- wakeups, faults <- outages

\* One account that opens, and two replicas that capture it.
Capture == INSTANCE PortfolioCapture WITH
    Accounts <- {a1}, OwnerOf <- a1 :> o1, Groups <- {"m"}, GroupOf <- a1 :> "m",
    Workers <- {w1, w2}, ReplayLimit <- 1, MaxSlot <- 2, MaxCaptures <- 2, MaxFaults <- 1,
    banks <- ledger, seen <- observed, captures <- evidence, projected <- filed,
    worker <- cycle, faults <- failures

\* An event of two mints and two of one, in two hours, and batches of two.
Valuation == INSTANCE LpValuation WITH
    Events <- {e1, e2, e3}, HourOf <- e1 :> 1 @@ e2 :> 1 @@ e3 :> 2,
    MintsOf <- e1 :> {m1, m2} @@ e2 :> {m1} @@ e3 :> {m1},
    EarnersOf <- [e \in {e1, e2, e3} |-> {p1}],
    Limit <- 2, Lookback <- 2, MaxHour <- 3, MaxFaults <- 1,
    stored <- earned, value <- worth, total <- sums, worker <- earner, repair <- reconciler,
    faults <- misses

PartInit == part \in Parts /\ Drain!Init /\ Capture!Init /\ Valuation!Init

PartNext ==
    /\ UNCHANGED part
    /\ \/ part = "drain" /\ Drain!Next /\ UNCHANGED <<captureVars, valuationVars>>
       \/ part = "captures" /\ Capture!Next /\ UNCHANGED <<drainVars, valuationVars>>
       \/ part = "valuation" /\ Valuation!Next /\ UNCHANGED <<drainVars, captureVars>>

PartSpec == PartInit /\ [][PartNext]_vars

\* Event loops, the database's answers and the platform go on: what a process
\* owes is taken in the end.  No event need be stored, no fault need come, and
\* of a capture only what its loop begins with need be tried again.  Nothing is
\* assumed of the price providers: their failures are bounded, and their answers
\* about an hour that is over are prices.
FairParts ==
    /\ PartSpec
    /\ \A w \in {w1, w2} :
          /\ WF_drainVars(part = "drain" /\ Drain!Connects(w))
          /\ WF_drainVars(part = "drain" /\ Drain!Notified(w))
          /\ WF_drainVars(part = "drain" /\ Drain!Drains(w))
          /\ WF_drainVars(part = "drain" /\ Drain!Start(w))
          /\ WF_captureVars(part = "captures" /\ Capture!Replay(w))
          /\ WF_captureVars(part = "captures" /\ Capture!Project(w))
          /\ WF_captureVars(part = "captures" /\ Capture!Wake(w))
    /\ WF_valuationVars(part = "valuation" /\ Valuation!Tick)
    /\ WF_valuationVars(part = "valuation" /\ Valuation!WorkerStep)
    /\ WF_valuationVars(part = "valuation" /\ Valuation!RepairStep)

-----------------------------------------------------------------------------

\* A stored event is projected in the end, whatever is lost and whoever dies,
\* unless a malformed one is in the way (EventDrain).
EventsAreProjected == Drain!EventuallyProjected

\* Evidence is projected in the end, whoever dies between the two (PortfolioCapture).
EvidenceIsProjected == Capture!EventuallyProjected

\* Every event is allocated in the end, and its rows are valued at historical
\* prices unless the reconciler does not reach their hour (LpValuation).
EventuallyAllocated == Valuation!EventuallyAllocated
EventuallyHistorical == Valuation!EventuallyHistorical

\* Between two runs a position's total is the sum of its rows, which is what
\* lpPositionMetricsService shows beside their price quality (LpValuation).
TotalsFollow == Valuation!TotalsFollow
=============================================================================
