---------------------------- MODULE ServiceProofs ----------------------------
(***************************************************************************)
(* Proofs about what Services puts side by side, for any number of          *)
(* replicas, events, accounts, retries and faults: the event drain, the     *)
(* portfolio worker, the valuation of earnings, the answers for a window    *)
(* and the statistics, the trailing rate, the book beside its orders, and   *)
(* the leverage searches.  Each has its inductive invariant; every step of  *)
(* Services is one of theirs, or leaves their variables as they are.        *)
(***************************************************************************)
EXTENDS Services, SequenceTheorems, FunctionTheorems, FiniteSetTheorems,
        WellFoundedInduction, TLAPS

(* The event drain: types, replicas apart, and nothing forgotten at rest.   *)

\* Only a pass that has selected holds sources, only a pass is awaited by a
\* wake, and only a process that is up has a connection.
RestOK ==
    \A w \in Workers :
        /\ pass[w] # "selected" => batch[w] = {}
        /\ pass[w] = "none" => ~pending[w]
        /\ status[w] # "up" => link[w] = "none"

\* The advisory lock has one holder.
OneHolder == \A v, w \in Workers : Drain!Holds(v) /\ Drain!Holds(w) => v = w

\* No batch holds an event that has its row.
BatchFresh == \A w \in Workers : batch[w] \cap derived = {}

\* Something that is owed to w will look for e, or has e in hand.
Covered(w, e) ==
    \/ e \in wakeups[w] \/ pending[w]
    \/ pass[w] \in {"begin", "locked"}
    \/ pass[w] = "selected" /\ (e \in batch[w] \/ Drain!Full(batch[w]))

AllCovered ==
    \A w \in Workers : link[w] = "on" => \A e \in Drain!Sources : Covered(w, e)

\* The inductive invariant.
DrainInv == Drain!TypeOK /\ RestOK /\ OneHolder /\ BatchFresh /\ AllCovered

LEMMA DrainInitOK == Drain!Init => DrainInv
BY DrainAssumption
   DEF Drain!Init, DrainInv, Drain!TypeOK, RestOK, OneHolder, BatchFresh, AllCovered,
       Drain!Holds,
       Drain!Statuses, Drain!Links, Drain!Passes

\* The end of a process keeps the shape of the state and of every other worker.
LEMMA EndStep ==
    ASSUME DrainInv, NEW w \in Workers, NEW how \in Drain!Statuses \ {"up"}, Drain!Ends(w, how),
           written' = written,
           derived' = derived
             \/ (pass[w] = "selected" /\ derived' = derived \cup batch[w]),
           UNCHANGED retries, outages' \in 0..MaxOutages
    PROVE  DrainInv'
<1>1. Drain!TypeOK'
  BY DEF DrainInv, Drain!TypeOK, Drain!Ends, Drain!Links, Drain!Passes
<1>2. /\ status' = [status EXCEPT ![w] = how] /\ link' = [link EXCEPT ![w] = "none"]
      /\ wakeups' = [wakeups EXCEPT ![w] = {}] /\ pending' = [pending EXCEPT ![w] = FALSE]
      /\ pass' = [pass EXCEPT ![w] = "none"] /\ batch' = [batch EXCEPT ![w] = {}]
  BY DEF Drain!Ends
<1>3. \A v \in Workers \ {w} :
          /\ link'[v] = link[v] /\ wakeups'[v] = wakeups[v] /\ pending'[v] = pending[v]
          /\ pass'[v] = pass[v] /\ batch'[v] = batch[v] /\ status'[v] = status[v]
  BY <1>2 DEF DrainInv, Drain!TypeOK
<1>4. /\ link'[w] = "none" /\ pass'[w] = "none" /\ batch'[w] = {} /\ ~pending'[w]
  BY <1>2 DEF DrainInv, Drain!TypeOK
<1>5. RestOK'
  BY <1>3, <1>4 DEF DrainInv, RestOK
<1>6. OneHolder'
  BY <1>3, <1>4 DEF DrainInv, OneHolder, Drain!Holds
<1>7. BatchFresh'
  <2>1. CASE derived' = derived
    BY <2>1, <1>3, <1>4 DEF DrainInv, BatchFresh
  <2>2. CASE pass[w] = "selected" /\ derived' = derived \cup batch[w]
    <3>1. \A v \in Workers \ {w} : batch[v] = {}
      BY <2>2 DEF DrainInv, OneHolder, Drain!Holds, RestOK
    <3> QED
      BY <3>1, <1>3, <1>4 DEF BatchFresh
  <2> QED
    BY <2>1, <2>2
<1>8. AllCovered'
  <2>1. Drain!Sources' \subseteq Drain!Sources
    BY DEF Drain!Sources
  <2>2. \A v \in Workers \ {w}, e \in Drain!Sources : Covered(v, e) => Covered(v, e)'
    BY <1>3 DEF Covered, Drain!Full
  <2> QED
    BY <2>1, <2>2, <1>3, <1>4 DEF DrainInv, AllCovered
<1> QED
  BY <1>1, <1>5, <1>6, <1>7, <1>8 DEF DrainInv

\* What a failed process becomes.
LEMMA FailedStatus ==
    ASSUME NEW w \in Workers
    PROVE  (IF status[w] = "up" THEN "failed" ELSE "stopped") \in Drain!Statuses \ {"up"}
BY DEF Drain!Statuses

\* A fault that may still come leaves the count within its bound.
LEMMA FaultCount == ASSUME Drain!TypeOK, Drain!Fault PROVE outages' \in 0..MaxOutages
BY DrainAssumption DEF Drain!TypeOK, Drain!Fault

\* A wake leads to a pass that has not selected yet.
LEMMA WakeCovers ==
    ASSUME Drain!TypeOK, NEW w \in Workers, Drain!Wake(w)
    PROVE  /\ pass' \in [Workers -> Drain!Passes] /\ pending' \in [Workers -> BOOLEAN]
           /\ pass'[w] = "begin" \/ pending'[w]
           /\ pass'[w] # "none"
           /\ pass'[w] = "selected" <=> pass[w] = "selected"
           /\ pass'[w] = "locked" <=> pass[w] = "locked"
           /\ \A v \in Workers \ {w} : pass'[v] = pass[v] /\ pending'[v] = pending[v]
<1>1. CASE pass[w] = "none"
  BY <1>1 DEF Drain!Wake, Drain!TypeOK, Drain!Passes
<1>2. CASE pass[w] # "none"
  BY <1>2 DEF Drain!Wake, Drain!TypeOK, Drain!Passes
<1> QED
  BY <1>1, <1>2

\* A stored event is noticed wherever a worker listens.
LEMMA StoreStep == ASSUME DrainInv, NEW e \in Sourced, Drain!Store(e) PROVE DrainInv'
<1>1. Drain!TypeOK'
  BY DEF DrainInv, Drain!TypeOK, Drain!Store
<1>2. RestOK' /\ OneHolder' /\ BatchFresh'
  BY DEF Drain!Store, DrainInv, RestOK, OneHolder, BatchFresh, Drain!Holds
<1>3. AllCovered'
  <2> SUFFICES ASSUME NEW w \in Workers, link[w] = "on", NEW d \in Drain!Sources'
               PROVE  Covered(w, d)'
    BY DEF AllCovered, Drain!Store
  <2>1. wakeups'[w] = wakeups[w] \cup {e}
    BY DEF Drain!Store, Drain!Heard
  <2>2. CASE d = e
    BY <2>1, <2>2 DEF Covered
  <2>3. CASE d # e
    <3>1. d \in Drain!Sources
      BY <2>3 DEF Drain!Store, Drain!Sources
    <3>2. Covered(w, d)
      BY <3>1 DEF DrainInv, AllCovered
    <3> QED
      BY <3>2, <2>1 DEF Drain!Store, Covered, Drain!Full
  <2> QED
    BY <2>2, <2>3
<1> QED
  BY <1>1, <1>2, <1>3 DEF DrainInv

\* The connection's own steps take no pass and store nothing.
LEMMA LinkStep ==
    ASSUME DrainInv, NEW w \in Workers, Drain!Connect(w) \/ Drain!Hear(w) \/ Drain!Lost(w) \/ Drain!Cut(w)
    PROVE  DrainInv'
<1>1. /\ UNCHANGED <<written, derived, status, pending, pass, batch, retries>>
      /\ \E x \in {"asked", "heard", "none", "cut"} : link' = [link EXCEPT ![w] = x]
      /\ wakeups' = wakeups \/ wakeups' = [wakeups EXCEPT ![w] = {}]
  BY DEF Drain!Connect, Drain!Hear, Drain!Lost, Drain!Cut
<1>2. outages' \in 0..MaxOutages
  BY FaultCount DEF DrainInv, Drain!TypeOK, Drain!Connect, Drain!Hear, Drain!Lost, Drain!Cut
<1>3. Drain!TypeOK'
  BY <1>1, <1>2 DEF DrainInv, Drain!TypeOK, Drain!Links
<1>4. link'[w] # "on" /\ \A v \in Workers \ {w} : link'[v] = link[v] /\ wakeups'[v] = wakeups[v]
  BY <1>1 DEF DrainInv, Drain!TypeOK
<1>5. status[w] # "up" => link'[w] = "none"
  BY DEF Drain!Connect, Drain!Hear, Drain!Lost, Drain!Cut, DrainInv, Drain!TypeOK, RestOK
<1>6. RestOK' /\ OneHolder' /\ BatchFresh'
  BY <1>1, <1>4, <1>5 DEF DrainInv, RestOK, OneHolder, BatchFresh, Drain!Holds
<1>7. AllCovered'
  BY <1>1, <1>4 DEF DrainInv, AllCovered, Covered, Drain!Full, Drain!Sources
<1> QED
  BY <1>3, <1>6, <1>7 DEF DrainInv

\* A wake covers every event of the connection it comes from.
LEMMA WakeStep ==
    ASSUME DrainInv, NEW w \in Workers, Drain!Listening(w) \/ Drain!Notified(w)
    PROVE  DrainInv'
<1>1. /\ UNCHANGED <<written, derived, status, batch, retries, outages>>
      /\ Drain!Wake(w) /\ link[w] \in {"heard", "on"}
      /\ link' \in [Workers -> Drain!Links] /\ link'[w] \in {"heard", "on"}
      /\ wakeups' \in [Workers -> SUBSET Sourced]
      /\ \A v \in Workers \ {w} : link'[v] = link[v] /\ wakeups'[v] = wakeups[v]
  BY DEF Drain!Listening, Drain!Notified, Drain!Heard, DrainInv, Drain!TypeOK, Drain!Links
<1>2. /\ pass' \in [Workers -> Drain!Passes] /\ pending' \in [Workers -> BOOLEAN]
      /\ pass'[w] = "begin" \/ pending'[w]
      /\ pass'[w] # "none"
      /\ pass'[w] = "selected" <=> pass[w] = "selected"
      /\ pass'[w] = "locked" <=> pass[w] = "locked"
      /\ \A v \in Workers \ {w} : pass'[v] = pass[v] /\ pending'[v] = pending[v]
  BY <1>1, WakeCovers DEF DrainInv
<1>3. Drain!TypeOK'
  BY <1>1, <1>2 DEF DrainInv, Drain!TypeOK
<1>4. status[w] = "up"
  BY <1>1 DEF DrainInv, RestOK
<1>5. RestOK' /\ OneHolder' /\ BatchFresh'
  BY <1>1, <1>2, <1>4 DEF DrainInv, RestOK, OneHolder, BatchFresh, Drain!Holds
<1>6. AllCovered'
  BY <1>1, <1>2 DEF DrainInv, AllCovered, Covered, Drain!Full, Drain!Sources
<1> QED
  BY <1>3, <1>5, <1>6 DEF DrainInv

LEMMA LockStep == ASSUME DrainInv, NEW w \in Workers, Drain!Lock(w) PROVE DrainInv'
<1>1. /\ pass[w] = "begin" /\ pass' = [pass EXCEPT ![w] = "locked"]
      /\ \A v \in Workers \ {w} : ~Drain!Holds(v)
      /\ UNCHANGED <<written, derived, status, link, wakeups, pending, batch, retries, outages>>
  BY DEF Drain!Lock, Drain!LockWaits
<1>2. Drain!TypeOK'
  BY <1>1 DEF DrainInv, Drain!TypeOK, Drain!Passes
<1>3. pass'[w] = "locked" /\ \A v \in Workers \ {w} : pass'[v] = pass[v]
  BY <1>1 DEF DrainInv, Drain!TypeOK
<1>4. RestOK' /\ OneHolder' /\ BatchFresh'
  BY <1>1, <1>3 DEF DrainInv, RestOK, OneHolder, BatchFresh, Drain!Holds
<1>5. AllCovered'
  BY <1>1, <1>3 DEF DrainInv, AllCovered, Covered, Drain!Full, Drain!Sources
<1> QED
  BY <1>2, <1>4, <1>5 DEF DrainInv

\* A batch is all there is, or it is full.
LEMMA SelectStep == ASSUME DrainInv, NEW w \in Workers, Drain!Select(w) PROVE DrainInv'
<1>1. PICK b \in Drain!Batches(Drain!Sources) : batch' = [batch EXCEPT ![w] = b]
  BY DEF Drain!Select
<1>2. /\ pass[w] = "locked" /\ pass' = [pass EXCEPT ![w] = "selected"]
      /\ UNCHANGED <<written, derived, status, link, wakeups, pending, retries, outages>>
  BY DEF Drain!Select
<1>3. b \subseteq Drain!Sources /\ (b # Drain!Sources => Drain!Full(b))
  BY DEF Drain!Batches, Drain!Full
<1>4. Drain!TypeOK'
  BY <1>1, <1>2, <1>3 DEF DrainInv, Drain!TypeOK, Drain!Passes, Drain!Sources
<1>5. /\ pass'[w] = "selected" /\ batch'[w] = b
      /\ \A v \in Workers \ {w} : pass'[v] = pass[v] /\ batch'[v] = batch[v]
  BY <1>1, <1>2 DEF DrainInv, Drain!TypeOK
<1>6. RestOK' /\ OneHolder'
  BY <1>2, <1>5 DEF DrainInv, RestOK, OneHolder, Drain!Holds
<1>7. BatchFresh'
  BY <1>2, <1>3, <1>5 DEF DrainInv, BatchFresh, Drain!Sources
<1>8. AllCovered'
  BY <1>2, <1>3, <1>5 DEF DrainInv, AllCovered, Covered, Drain!Full, Drain!Sources
<1> QED
  BY <1>4, <1>6, <1>7, <1>8 DEF DrainInv

\* What a batch that was not full left behind has a notice, or a wake.
LEMMA CommitStep == ASSUME DrainInv, NEW w \in Workers, Drain!Commit(w) PROVE DrainInv'
<1>1. /\ pass[w] = "selected" /\ status[w] = "up"
      /\ derived' = derived \cup batch[w]
      /\ batch' = [batch EXCEPT ![w] = {}]
      /\ UNCHANGED <<written, status, link, wakeups, retries, outages>>
  BY DEF Drain!Commit
<1>2. /\ pass' \in [Workers -> Drain!Passes] /\ pending' \in [Workers -> BOOLEAN]
      /\ pass'[w] \in {"begin", "none"}
      /\ \A v \in Workers \ {w} : pass'[v] = pass[v] /\ pending'[v] = pending[v]
      /\ pass'[w] = "none" => ~pending'[w] /\ ~pending[w] /\ ~Drain!Full(batch[w])
  <2>1. CASE Drain!Full(batch[w])
    BY <2>1 DEF Drain!Commit, DrainInv, Drain!TypeOK, Drain!Passes
  <2>2. CASE ~Drain!Full(batch[w])
    BY <2>2 DEF Drain!Commit, DrainInv, Drain!TypeOK, Drain!Passes
  <2> QED
    BY <2>1, <2>2
<1>3. batch'[w] = {} /\ \A v \in Workers \ {w} : batch'[v] = batch[v] /\ batch[v] = {}
  BY <1>1 DEF DrainInv, Drain!TypeOK, OneHolder, Drain!Holds, RestOK
<1>4. Drain!TypeOK'
  BY <1>1, <1>2 DEF DrainInv, Drain!TypeOK
<1>5. RestOK' /\ OneHolder' /\ BatchFresh'
  BY <1>1, <1>2, <1>3 DEF DrainInv, RestOK, OneHolder, BatchFresh, Drain!Holds
<1>6. AllCovered'
  <2> SUFFICES ASSUME NEW v \in Workers, link[v] = "on", NEW e \in Drain!Sources'
               PROVE  Covered(v, e)'
    BY <1>1 DEF AllCovered
  <2>1. e \in Drain!Sources /\ e \notin batch[w]
    BY <1>1 DEF Drain!Sources
  <2>2. Covered(v, e)
    BY <2>1 DEF DrainInv, AllCovered
  <2>3. CASE v = w
    BY <2>1, <2>2, <2>3, <1>1, <1>2 DEF Covered
  <2>4. CASE v # w
    BY <2>2, <2>4, <1>1, <1>2, <1>3 DEF Covered, Drain!Full
  <2> QED
    BY <2>3, <2>4
<1> QED
  BY <1>4, <1>5, <1>6 DEF DrainInv

\* The steps that end a process.
LEMMA ExitStep ==
    ASSUME DrainInv, NEW w \in Workers,
           Drain!CommitLast(w) \/ Drain!Reject(w) \/ Drain!PassFails(w) \/ Drain!PoolEnded(w) \/ Drain!Crash(w)
    PROVE  DrainInv'
<1>1. "stopped" \in Drain!Statuses \ {"up"}
  BY DEF Drain!Statuses
<1>2. outages \in 0..MaxOutages
  BY DEF DrainInv, Drain!TypeOK
<1>3. CASE Drain!CommitLast(w)
  BY <1>1, <1>2, <1>3, EndStep DEF Drain!CommitLast
<1>4. CASE Drain!Reject(w)
  BY <1>2, <1>4, EndStep, FailedStatus DEF Drain!Reject, Drain!EndsFailed
<1>5. CASE Drain!PassFails(w)
  BY <1>5, EndStep, FailedStatus, FaultCount DEF Drain!PassFails, Drain!EndsFailed, DrainInv
<1>6. CASE Drain!PoolEnded(w)
  BY <1>1, <1>2, <1>6, EndStep DEF Drain!PoolEnded
<1>7. CASE Drain!Crash(w)
  BY <1>7, EndStep, FailedStatus, FaultCount DEF Drain!Crash, Drain!EndsFailed, DrainInv
<1> QED
  BY <1>3, <1>4, <1>5, <1>6, <1>7

\* SIGTERM leaves the pass as it is.
LEMMA StopStep == ASSUME DrainInv, NEW w \in Workers, Drain!Stop(w) PROVE DrainInv'
<1>1. /\ status' = [status EXCEPT ![w] = IF pass[w] = "none" THEN "stopped" ELSE "stopping"]
      /\ link' = [link EXCEPT ![w] = "none"] /\ wakeups' = [wakeups EXCEPT ![w] = {}]
      /\ pending' = [pending EXCEPT ![w] = FALSE]
      /\ UNCHANGED <<written, derived, pass, batch, retries>>
  BY DEF Drain!Stop
<1>2. outages' \in 0..MaxOutages
  BY FaultCount DEF DrainInv, Drain!Stop
<1>3. Drain!TypeOK'
  BY <1>1, <1>2 DEF DrainInv, Drain!TypeOK, Drain!Statuses, Drain!Links
<1>4. /\ link'[w] = "none" /\ ~pending'[w]
      /\ \A v \in Workers \ {w} : /\ link'[v] = link[v] /\ wakeups'[v] = wakeups[v]
                                  /\ pending'[v] = pending[v] /\ status'[v] = status[v]
  BY <1>1 DEF DrainInv, Drain!TypeOK
<1>5. RestOK' /\ OneHolder' /\ BatchFresh'
  BY <1>1, <1>4 DEF DrainInv, RestOK, OneHolder, BatchFresh, Drain!Holds
<1>6. AllCovered'
  BY <1>1, <1>4 DEF DrainInv, AllCovered, Covered, Drain!Full, Drain!Sources
<1> QED
  BY <1>3, <1>5, <1>6 DEF DrainInv

\* A started process has no connection yet.
LEMMA StartStep == ASSUME DrainInv, NEW w \in Workers, Drain!Start(w) PROVE DrainInv'
<1>1. /\ status' = [status EXCEPT ![w] = "up"]
      /\ UNCHANGED <<written, derived, link, wakeups, pending, pass, batch, outages>>
  BY DEF Drain!Start
<1>2. retries' \in [Workers -> 0..MaxRetries]
  <2>1. CASE retries' = retries
    BY <2>1 DEF DrainInv, Drain!TypeOK
  <2>2. CASE retries[w] < MaxRetries /\ retries' = [retries EXCEPT ![w] = @ + 1]
    BY <2>2, DrainAssumption DEF DrainInv, Drain!TypeOK
  <2> QED
    BY <2>1, <2>2 DEF Drain!Start
<1>3. Drain!TypeOK'
  BY <1>1, <1>2 DEF DrainInv, Drain!TypeOK, Drain!Statuses
<1>4. \A v \in Workers : status'[v] # "up" => status[v] # "up"
  BY <1>1 DEF DrainInv, Drain!TypeOK
<1>5. RestOK' /\ OneHolder' /\ BatchFresh' /\ AllCovered'
  BY <1>1, <1>4 DEF DrainInv, RestOK, OneHolder, BatchFresh, Drain!Holds, AllCovered,
                    Covered, Drain!Full, Drain!Sources
<1> QED
  BY <1>3, <1>5 DEF DrainInv

\* Every step keeps the invariant.
LEMMA DrainStepOK == DrainInv /\ [Drain!Next]_Drain!vars => DrainInv'
<1> SUFFICES ASSUME DrainInv, [Drain!Next]_Drain!vars PROVE DrainInv'
  OBVIOUS
<1>1. CASE UNCHANGED Drain!vars
  BY <1>1 DEF Drain!vars, Drain!workerVars, DrainInv, Drain!TypeOK, RestOK, OneHolder,
              BatchFresh, Drain!Holds,
              AllCovered, Covered, Drain!Full, Drain!Sources
<1>2. ASSUME NEW e \in Sourced, Drain!Store(e) PROVE DrainInv'
  BY <1>2, StoreStep
<1>3. ASSUME NEW w \in Workers, Drain!WorkerProgress(w) \/ Drain!WorkerFaults(w) PROVE DrainInv'
  BY <1>3, LinkStep, WakeStep, LockStep, SelectStep, CommitStep, ExitStep, StopStep, StartStep
     DEF Drain!WorkerProgress, Drain!Connects, Drain!Drains, Drain!WorkerFaults
<1> QED
  BY <1>1, <1>2, <1>3 DEF Drain!Next

\* A step of Services is a step of the drain or leaves it alone.
LEMMA DrainSteps == [Next]_vars => [Drain!Next]_Drain!vars
BY DEF Next, DrainStep, CaptureStep, ValuationStep, ActivityStep, RatesStep, BookStep,
       LeverageStep, WalletStep,
       vars, workerVars, valuationVars, drainVars, Drain!vars, Drain!workerVars

LEMMA DrainInductive == Spec => []DrainInv
<1>1. Init => DrainInv
  BY DrainInitOK DEF Init
<1> QED
  BY <1>1, DrainStepOK, DrainSteps, PTL DEF Spec

\* The state keeps its types, for any replicas, events and bounds.
THEOREM DrainTypes == Spec => []Drain!TypeOK
<1>1. DrainInv => Drain!TypeOK
  BY DEF DrainInv
<1> QED
  BY <1>1, DrainInductive, PTL

\* Any number of workers, passing the advisory lock among them in any order,
\* never select an event twice, nor one that has its row: projectYieldClaimBatch
\* cannot meet its own unique key.
THEOREM ReplicasApartHolds == Spec => []ReplicasApart
<1>1. DrainInv => ReplicasApart
  <2> SUFFICES ASSUME DrainInv, NEW w \in Workers
               PROVE  /\ batch[w] \cap derived = {}
                      /\ \A v \in Workers \ {w} : batch[w] \cap batch[v] = {}
    BY DEF ReplicasApart, Drain!ReplicasApart
  <2>1. batch[w] \cap derived = {}
    BY DEF DrainInv, BatchFresh
  <2>2. ASSUME NEW v \in Workers \ {w} PROVE batch[w] \cap batch[v] = {}
    BY DEF DrainInv, OneHolder, Drain!Holds, RestOK
  <2> QED
    BY <2>1, <2>2
<1> QED
  BY <1>1, DrainInductive, PTL

\* A listening worker at rest has no unprojected event without a notice on its
\* way: coalescedDrain and drainOnEvents lose no wake, whatever is cut, fails
\* or is restarted.
THEOREM NothingForgottenHolds == Spec => []NothingForgotten
<1>1. DrainInv => NothingForgotten
  BY DEF DrainInv, RestOK, AllCovered, Covered, NothingForgotten, Drain!NothingForgotten
<1> QED
  BY <1>1, DrainInductive, PTL

-----------------------------------------------------------------------------
(* The portfolio worker.                                                     *)

Catalogs ==
    [through : Nat, slot : [Accounts -> Nat], listed : SUBSET Accounts,
     owners : SUBSET Capture!Owners, after : SUBSET Nat]
Readings == [slot : Nat, outcome : Capture!Outcomes]
Evidence == [catalog : Catalogs, groups : [Groups -> Readings]]
Cycles ==
    [at : {"replay", "catalog", "capture", "project", "sleep", "fatal"},
     catalog : Catalogs, groups : [Groups -> Readings \cup {None}], capture : Nat]

CaptureShapes ==
    /\ ledger \in Seq(SUBSET Accounts) /\ Len(ledger) \in 1..LastBank
    /\ final \in 1..Len(ledger)
    /\ observed \subseteq Accounts \X (1..Len(ledger))
    /\ evidence \in Seq(Evidence) /\ filed \subseteq 1..Len(evidence)
    /\ cycle \in [Workers -> Cycles]
    /\ failures \in 0..MaxFailures

\* Between a bank that has an account and a later one without it, there is the
\* bank that closed it.
Closings ==
    \A a \in Accounts : \A p, q \in 1..Len(ledger) :
        p <= q /\ a \in ledger[p] /\ a \notin ledger[q] =>
            \E s \in p + 1 .. q : a \in ledger[s - 1] \ ledger[s]

\* What a catalog lists was open in a bank that it reaches, and its owners
\* include those of every capture that was projected before it.
CatalogOK(c) ==
    /\ c.through \in 1..Len(ledger)
    /\ \A a \in c.listed : c.slot[a] \in 1..c.through /\ a \in ledger[c.slot[a]]
    /\ \A i \in c.after : i \in 1..Len(evidence) /\ evidence[i].catalog.owners \subseteq c.owners

EvidenceOK(c) ==
    CatalogOK(c.catalog) /\ \A g \in Groups : c.groups[g].slot \in c.catalog.through..final

CycleOK(r) ==
    /\ r.at = "capture" =>
          /\ CatalogOK(r.catalog)
          /\ \A g \in Groups : r.groups[g] # None => r.groups[g].slot \in r.catalog.through..final
    /\ r.at # "capture" => \A g \in Groups : r.groups[g] = None
    /\ r.capture \in 0..Len(evidence) /\ (r.at = "project" => r.capture # 0)

CaptureInv ==
    /\ CaptureShapes /\ Closings
    /\ \A i \in 1..Len(evidence) : EvidenceOK(evidence[i])
    /\ \A w \in Workers : CycleOK(cycle[w])

\* The chain and the store only grow.
Grown ==
    /\ Len(ledger') >= Len(ledger) /\ \A s \in 1..Len(ledger) : ledger'[s] = ledger[s]
    /\ final' \in final..Len(ledger')
    /\ Len(evidence') >= Len(evidence) /\ \A i \in 1..Len(evidence) : evidence'[i] = evidence[i]
    /\ Len(ledger) \in Nat /\ Len(ledger') \in Nat /\ Len(evidence) \in Nat /\ Len(evidence') \in Nat

-----------------------------------------------------------------------------

\* A nonempty set of naturals up to n has its maximum.
LEMMA MaxExists ==
    ASSUME NEW n \in Nat, NEW S, S \subseteq 0..n, S # {}
    PROVE  Capture!Max(S) \in S /\ \A y \in S : Capture!Max(S) >= y
<1> DEFINE T == {n - x : x \in S}
<1>1. \A x \in S : n - x \in Nat
  <2>1. SUFFICES ASSUME NEW x \in S PROVE n - x \in Nat
    OBVIOUS
  <2>2. x \in 0..n
    OBVIOUS
  <2> QED BY <2>2, SMT
<1>2. T \subseteq Nat /\ T # {}
  BY <1>1
<1>3. PICK t \in T : \A y \in T : <<y, t>> \notin OpToRel(<, Nat)
  BY <1>2, WFMin, NatLessThanWellFounded
<1>4. \A y \in T : ~(y < t)
  BY <1>2, <1>3 DEF OpToRel
<1>5. PICK x \in S : t = n - x
  BY <1>3
<1>6. \A y \in S : x >= y
  <2>1. SUFFICES ASSUME NEW y \in S PROVE x >= y
    OBVIOUS
  <2>2. ~(n - y < n - x)
    BY <1>4, <1>5
  <2> QED BY <2>1, <2>2
<1> HIDE DEF T
<1> QED BY <1>6 DEF Capture!Max

\* A catalog, evidence and a cycle stay as they should be while all grows.
LEMMA CatalogStays ==
    ASSUME NEW c \in Catalogs, CatalogOK(c), Grown
    PROVE  CatalogOK(c)'
<1>1. c.through \in 1..Len(ledger')
  BY DEF CatalogOK, Grown
<1>2. \A a \in c.listed : c.slot[a] \in 1..c.through /\ a \in ledger'[c.slot[a]]
  BY DEF CatalogOK, Grown, Catalogs
<1>3. \A i \in c.after : i \in 1..Len(evidence') /\ evidence'[i].catalog.owners \subseteq c.owners
  BY DEF CatalogOK, Grown, Catalogs
<1> QED BY <1>1, <1>2, <1>3 DEF CatalogOK

LEMMA EvidenceStays ==
    ASSUME NEW c \in Evidence, EvidenceOK(c), Grown, final \in Nat
    PROVE  EvidenceOK(c)'
<1>1. c.catalog \in Catalogs /\ CatalogOK(c.catalog)'
  BY CatalogStays DEF Evidence, EvidenceOK
<1>2. ASSUME NEW g \in Groups PROVE c.groups[g].slot \in c.catalog.through..final'
  <2>1. c.groups[g].slot \in Nat /\ c.catalog.through \in Nat
    BY DEF Evidence, Readings, Catalogs
  <2> QED BY <2>1 DEF EvidenceOK, Grown
<1> QED BY <1>1, <1>2 DEF EvidenceOK

LEMMA CycleStays ==
    ASSUME NEW r \in Cycles, CycleOK(r), Grown, final \in Nat
    PROVE  CycleOK(r)'
<1>1. r.catalog \in Catalogs /\ r.capture \in Nat
  BY DEF Cycles
<1>2. ASSUME r.at = "capture", NEW g \in Groups, r.groups[g] # None
      PROVE  r.groups[g].slot \in r.catalog.through..final'
  <2>1. r.groups[g] \in Readings
    BY <1>2 DEF Cycles
  <2>2. r.groups[g].slot \in Nat /\ r.catalog.through \in Nat
    BY <1>1, <2>1 DEF Readings, Catalogs
  <2> QED BY <1>2, <2>2 DEF CycleOK, Grown
<1>3. r.at = "capture" => CatalogOK(r.catalog)'
  BY <1>1, CatalogStays DEF CycleOK
<1>4. r.capture \in 0..Len(evidence')
  BY <1>1 DEF CycleOK, Grown
<1> QED BY <1>2, <1>3, <1>4 DEF CycleOK

\* What one worker's step has to show: the shape of all, and its own cycle.
LEMMA CycleStep ==
    ASSUME CaptureInv, NEW w \in Workers, NEW r \in Cycles,
           cycle' = [cycle EXCEPT ![w] = r], CycleOK(r)',
           UNCHANGED Capture!chain, UNCHANGED evidence,
           filed' \subseteq 1..Len(evidence), failures' \in 0..MaxFailures
    PROVE  CaptureInv'
<1>1. CaptureShapes /\ final \in Nat /\ Len(ledger) \in Nat /\ Len(evidence) \in Nat
  BY DEF CaptureInv, CaptureShapes
<1>2. Grown
  BY <1>1 DEF Grown, Capture!chain, CaptureShapes
<1>3. CaptureShapes'
  BY <1>1 DEF CaptureShapes, Capture!chain
<1>4. Closings'
  BY DEF CaptureInv, Closings, Capture!chain
<1>5. ASSUME NEW i \in 1..Len(evidence) PROVE EvidenceOK(evidence[i])'
  <2>1. evidence[i] \in Evidence /\ EvidenceOK(evidence[i])
    BY <1>1 DEF CaptureInv, CaptureShapes
  <2> DEFINE c == evidence[i]
  <2>2. CatalogOK(c.catalog)'
    BY <2>1 DEF EvidenceOK, CatalogOK, Capture!chain
  <2> QED BY <2>1, <2>2 DEF EvidenceOK, Capture!chain
<1>6. ASSUME NEW v \in Workers PROVE CycleOK(cycle[v])'
  <2>1. CASE v = w
    <3>1. cycle'[v] = r
      BY <1>1, <2>1 DEF CaptureShapes
    <3> QED BY <3>1 DEF CycleOK, CatalogOK
  <2>2. CASE v # w
    <3>1. cycle'[v] = cycle[v] /\ CycleOK(cycle[v])
      BY <1>1, <2>2 DEF CaptureInv, CaptureShapes
    <3> QED BY <3>1 DEF CycleOK, CatalogOK, Capture!chain
  <2> QED BY <2>1, <2>2
<1>7. \A i \in 1..Len(evidence') : EvidenceOK(evidence[i])'
  BY <1>5
<1> QED BY <1>3, <1>4, <1>6, <1>7 DEF CaptureInv

\* The same for a step of the chain or of ingestion.
LEMMA ChainStep ==
    ASSUME CaptureInv, Grown, UNCHANGED <<Capture!store, cycle, failures>>,
           CaptureShapes', Closings'
    PROVE  CaptureInv'
<1>1. CaptureShapes /\ final \in Nat /\ evidence' = evidence /\ cycle' = cycle
  BY DEF CaptureInv, CaptureShapes, Capture!store
<1>2. ASSUME NEW i \in 1..Len(evidence) PROVE EvidenceOK(evidence[i])'
  <2>1. evidence[i] \in Evidence /\ EvidenceOK(evidence[i])
    BY <1>1 DEF CaptureInv, CaptureShapes
  <2>2. PICK c \in Evidence : c = evidence[i]
    BY <2>1
  <2>3. EvidenceOK(c)'
    BY <1>1, <2>1, <2>2, EvidenceStays
  <2> QED BY <1>1, <2>2, <2>3 DEF EvidenceOK, CatalogOK
<1>3. ASSUME NEW v \in Workers PROVE CycleOK(cycle[v])'
  <2>1. cycle[v] \in Cycles /\ CycleOK(cycle[v])
    BY <1>1 DEF CaptureInv, CaptureShapes
  <2>2. PICK r \in Cycles : r = cycle[v]
    BY <2>1
  <2>3. CycleOK(r)'
    BY <1>1, <2>1, <2>2, CycleStays
  <2> QED BY <1>1, <2>2, <2>3 DEF CycleOK, CatalogOK
<1> QED BY <1>1, <1>2, <1>3 DEF CaptureInv

LEMMA TransactStep ==
    ASSUME CaptureInv, CaptureConstants, NEW a \in Accounts, Capture!Transact(a)
    PROVE  CaptureInv'
<1>1. CaptureShapes /\ final \in Nat /\ Len(ledger) \in Nat /\ Len(evidence) \in Nat
  BY DEF CaptureInv, CaptureShapes
<1>2. PICK b \in SUBSET Accounts : ledger' = Append(ledger, b)
  <2>1. ledger[Len(ledger)] \in SUBSET Accounts
    BY <1>1 DEF CaptureShapes
  <2> QED BY <2>1 DEF Capture!Transact
<1>3. /\ Len(ledger') = Len(ledger) + 1 /\ ledger' \in Seq(SUBSET Accounts)
      /\ \A s \in 1..Len(ledger) : ledger'[s] = ledger[s]
  BY <1>1, <1>2 DEF CaptureShapes
<1>4. Len(ledger) < LastBank /\ UNCHANGED <<final, observed, evidence, filed, cycle, failures>>
  BY DEF Capture!Transact, Capture!store
<1>5. Grown
  BY <1>1, <1>3, <1>4 DEF Grown, CaptureShapes
<1>6. CaptureShapes'
  BY <1>1, <1>3, <1>4 DEF CaptureShapes, CaptureConstants
<1>7. Closings'
  <2>1. SUFFICES ASSUME NEW x \in Accounts, NEW p \in 1..Len(ledger'), NEW q \in 1..Len(ledger'),
                        p <= q, x \in ledger'[p], x \notin ledger'[q]
                 PROVE  \E s \in p + 1 .. q : x \in ledger'[s - 1] \ ledger'[s]
    BY DEF Closings
  <2>2. CASE q <= Len(ledger)
    <3>1. p \in 1..Len(ledger) /\ q \in 1..Len(ledger) /\ x \in ledger[p] /\ x \notin ledger[q]
      BY <1>1, <1>3, <2>1, <2>2
    <3>2. PICK s \in p + 1 .. q : x \in ledger[s - 1] \ ledger[s]
      BY <2>1, <3>1 DEF CaptureInv, Closings
    <3>3. ledger'[s - 1] = ledger[s - 1] /\ ledger'[s] = ledger[s]
      BY <1>3, <3>1, <3>2
    <3> QED BY <3>2, <3>3
  <2>3. CASE q = Len(ledger) + 1
    <3>1. p # q
      BY <2>1
    <3>2. p \in 1..Len(ledger) /\ Len(ledger) \in 1..Len(ledger)
      BY <1>1, <1>3, <2>1, <2>3, <3>1
    <3>3. x \in ledger[p]
      BY <1>3, <2>1, <3>2
    <3>4. CASE x \in ledger[Len(ledger)]
      <4>1. x \in ledger'[q - 1] \ ledger'[q] /\ q \in p + 1 .. q
        BY <1>1, <1>3, <2>1, <2>3, <3>2, <3>4
      <4> QED BY <4>1
    <3>5. CASE x \notin ledger[Len(ledger)]
      <4>1. PICK s \in p + 1 .. Len(ledger) : x \in ledger[s - 1] \ ledger[s]
        BY <3>2, <3>3, <3>5 DEF CaptureInv, Closings
      <4>2. ledger'[s - 1] = ledger[s - 1] /\ ledger'[s] = ledger[s] /\ s \in p + 1 .. q
        BY <1>1, <1>3, <2>3, <3>2, <4>1
      <4> QED BY <4>1, <4>2
    <3> QED BY <3>4, <3>5
  <2>4. q <= Len(ledger) \/ q = Len(ledger) + 1
    BY <1>1, <1>3, <2>1
  <2> QED BY <2>2, <2>3, <2>4
<1> QED BY <1>4, <1>5, <1>6, <1>7, ChainStep DEF Capture!store

LEMMA FinalizeStep ==
    ASSUME CaptureInv, CaptureConstants, Capture!Finalize
    PROVE  CaptureInv'
<1>1. CaptureShapes /\ final \in Nat /\ Len(ledger) \in Nat /\ Len(evidence) \in Nat
  BY DEF CaptureInv, CaptureShapes
<1>2. /\ final < Len(ledger) /\ final' = final + 1
      /\ UNCHANGED <<ledger, observed, evidence, filed, cycle, failures>>
  BY DEF Capture!Finalize, Capture!store
<1>3. Grown
  BY <1>1, <1>2 DEF Grown, CaptureShapes
<1>4. CaptureShapes'
  BY <1>1, <1>2 DEF CaptureShapes
<1>5. Closings'
  BY <1>2 DEF CaptureInv, Closings
<1> QED BY <1>2, <1>3, <1>4, <1>5, ChainStep DEF Capture!store

LEMMA StreamStep ==
    ASSUME CaptureInv, CaptureConstants,
           NEW a \in Accounts, NEW s \in Capture!Slots, Capture!Stream(a, s)
    PROVE  CaptureInv'
<1>1. CaptureShapes /\ final \in Nat /\ Len(ledger) \in Nat /\ Len(evidence) \in Nat
  BY DEF CaptureInv, CaptureShapes
<1>2. /\ observed' = observed \cup {<<a, s>>}
      /\ UNCHANGED <<ledger, final, evidence, filed, cycle, failures>>
  BY DEF Capture!Stream, Capture!store
<1>3. Grown
  BY <1>1, <1>2 DEF Grown, CaptureShapes
<1>4. CaptureShapes'
  BY <1>1, <1>2 DEF CaptureShapes, Capture!Slots
<1>5. Closings'
  BY <1>2 DEF CaptureInv, Closings
<1> QED BY <1>2, <1>3, <1>4, <1>5, ChainStep DEF Capture!store

-----------------------------------------------------------------------------

\* A cycle at rest, whatever it does next.
Rest(at, k) ==
    [at |-> at, catalog |-> Capture!NoCatalog, groups |-> [g \in Groups |-> None],
     capture |-> k]

LEMMA RestForms ==
    ASSUME NEW at, NEW k
    PROVE  /\ [Capture!AtRest EXCEPT !.at = at, !.capture = k] = Rest(at, k)
           /\ [Capture!AtRest EXCEPT !.at = at] = Rest(at, 0)
           /\ Capture!AtRest = Rest("replay", 0)
<1> DEFINE gs == [g \in Groups |-> None]
<1>1. Capture!AtRest = [at |-> "replay", catalog |-> Capture!NoCatalog, groups |-> gs, capture |-> 0]
  BY DEF Capture!AtRest
<1>2. Rest(at, k) = [at |-> at, catalog |-> Capture!NoCatalog, groups |-> gs, capture |-> k]
  BY DEF Rest
<1>3. Rest(at, 0) = [at |-> at, catalog |-> Capture!NoCatalog, groups |-> gs, capture |-> 0]
  BY DEF Rest
<1>4. Rest("replay", 0) = [at |-> "replay", catalog |-> Capture!NoCatalog, groups |-> gs, capture |-> 0]
  BY DEF Rest
<1> HIDE DEF gs
<1>5. [Capture!AtRest EXCEPT !.at = at] = Rest(at, 0)
  BY <1>1, <1>3
<1>6. [Rest(at, 0) EXCEPT !.capture = k] = Rest(at, k)
  BY <1>2, <1>3
<1>7. [Capture!AtRest EXCEPT !.at = at, !.capture = k] = Rest(at, k)
  BY <1>5, <1>6
<1> QED BY <1>1, <1>4, <1>5, <1>7

LEMMA RestIsOK ==
    ASSUME NEW k \in Nat,
           NEW at \in {"replay", "catalog", "project", "sleep", "fatal"}
    PROVE  /\ Rest(at, k) \in Cycles /\ Rest(at, k).at = at /\ Rest(at, k).capture = k
           /\ \A g \in Groups : Rest(at, k).groups[g] = None
<1>1. Capture!NoCatalog \in Catalogs
  BY DEF Capture!NoCatalog, Catalogs
<1>2. [g \in Groups |-> None] \in [Groups -> Readings \cup {None}]
  OBVIOUS
<1>3. Rest(at, k) \in Cycles
  BY <1>1, <1>2 DEF Cycles, Rest
<1> QED BY <1>3 DEF Rest

\* The last event of an account, and of all.
LEMMA LastSlots ==
    ASSUME CaptureShapes, NEW a
    PROVE  /\ Capture!Through \in 1..Len(ledger)
           /\ Capture!LastSlot(a) \in 0..Capture!Through
<1>1. Len(ledger) \in Nat /\ Len(ledger) >= 1 /\ \A x \in observed : x[2] \in 1..Len(ledger)
  BY DEF CaptureShapes
<1> DEFINE All == {x[2] : x \in observed} \cup {1}
           Own == {x[2] : x \in {y \in observed : y[1] = a}} \cup {0}
<1>2. All \subseteq 0..Len(ledger) /\ Own \subseteq 0..Len(ledger)
  BY <1>1
<1>3. Capture!Through \in All /\ \A y \in All : Capture!Through >= y
  BY <1>1, <1>2, MaxExists DEF Capture!Through
<1>4. Capture!LastSlot(a) \in Own
  BY <1>1, <1>2, MaxExists DEF Capture!LastSlot
<1>5. Capture!LastSlot(a) = 0 \/ Capture!LastSlot(a) \in All
  BY <1>4
<1>6. Capture!Through >= 1 /\ Capture!Through \in 0..Len(ledger)
  BY <1>2, <1>3
<1>7. Capture!LastSlot(a) \in 0..Len(ledger)
  BY <1>2, <1>4
<1> HIDE DEF All, Own
<1> QED BY <1>1, <1>3, <1>5, <1>6, <1>7

\* What a worker reads in one transaction is a catalog as it should be.
LEMMA CatalogIsOK ==
    ASSUME CaptureInv
    PROVE  Capture!Catalog \in Catalogs /\ CatalogOK(Capture!Catalog)
<1>1. CaptureShapes /\ Len(ledger) \in Nat /\ Len(evidence) \in Nat
  BY DEF CaptureInv, CaptureShapes
<1>2. Capture!Through \in 1..Len(ledger)
  BY <1>1, LastSlots
<1>3. \A a : Capture!LastSlot(a) \in 0..Capture!Through
  BY <1>1, LastSlots
<1>4. [a \in Accounts |-> Capture!LastSlot(a)] \in [Accounts -> Nat]
  BY <1>2, <1>3
<1>5. Capture!Listed \subseteq Accounts /\ Capture!Streamed \subseteq Accounts
  BY DEF Capture!Listed, Capture!Streamed
<1>6. \A i \in filed : evidence[i] \in Evidence
  BY <1>1 DEF CaptureShapes
<1>7. \A i \in filed : evidence[i].catalog.owners \subseteq Capture!Owners
  BY <1>6 DEF Evidence, Catalogs
<1>8. Capture!KnownOwners \subseteq Capture!Owners
  BY <1>5, <1>7 DEF Capture!KnownOwners, Capture!Owners
<1>9. filed \subseteq Nat
  BY <1>1 DEF CaptureShapes
<1>10. Capture!Catalog \in Catalogs
  BY <1>2, <1>4, <1>5, <1>8, <1>9 DEF Capture!Catalog, Catalogs
<1>11. ASSUME NEW a \in Capture!Catalog.listed
       PROVE  Capture!Catalog.slot[a] \in 1..Capture!Through /\ a \in ledger[Capture!Catalog.slot[a]]
  <2>1. a \in Capture!Listed /\ a \in Accounts /\ Capture!Catalog.slot[a] = Capture!LastSlot(a)
    BY <1>5, <1>11 DEF Capture!Catalog
  <2>2. Capture!LastSlot(a) # 0 /\ a \in ledger[Capture!LastSlot(a)]
    BY <2>1 DEF Capture!Listed, Capture!Streamed
  <2> QED BY <1>2, <1>3, <2>1, <2>2
<1>12. \A i \in filed : evidence[i].catalog.owners \subseteq Capture!KnownOwners
  BY DEF Capture!KnownOwners
<1>13. /\ Capture!Catalog.through = Capture!Through /\ Capture!Catalog.after = filed
       /\ Capture!Catalog.owners = Capture!KnownOwners
  BY DEF Capture!Catalog
<1>14. filed \subseteq 1..Len(evidence)
  BY <1>1 DEF CaptureShapes
<1>15. CatalogOK(Capture!Catalog)
  BY <1>2, <1>11, <1>12, <1>13, <1>14 DEF CatalogOK
<1> QED BY <1>10, <1>15

-----------------------------------------------------------------------------

\* A worker's step to rest, or on from it, whatever it projects.
LEMMA RestStep ==
    ASSUME CaptureInv, NEW w \in Workers, NEW k \in 0..Len(evidence),
           NEW at \in {"replay", "catalog", "project", "sleep", "fatal"},
           at = "project" => k # 0,
           cycle' = [cycle EXCEPT ![w] = Rest(at, k)],
           UNCHANGED Capture!chain, UNCHANGED evidence,
           filed' \subseteq 1..Len(evidence), failures' \in 0..MaxFailures
    PROVE  CaptureInv'
<1>1. k \in Nat
  BY DEF CaptureInv, CaptureShapes
<1>2. PICK r : r = Rest(at, k)
  OBVIOUS
<1>3. r \in Cycles /\ r.at = at /\ r.capture = k /\ \A g \in Groups : r.groups[g] = None
  BY <1>1, <1>2, RestIsOK
<1>4. CycleOK(r)'
  BY <1>3 DEF CycleOK
<1>5. cycle' = [cycle EXCEPT ![w] = r]
  BY <1>2
<1> QED BY <1>3, <1>4, <1>5, CycleStep

\* A worker that is not capturing goes on, and keeps all but its step.
LEMMA MoveStep ==
    ASSUME CaptureInv, NEW w \in Workers, cycle[w].at # "capture",
           NEW at \in {"replay", "catalog", "sleep", "fatal"},
           cycle' = [cycle EXCEPT ![w].at = at],
           UNCHANGED Capture!chain, UNCHANGED evidence,
           filed' \subseteq 1..Len(evidence), failures' \in 0..MaxFailures
    PROVE  CaptureInv'
<1>1. CaptureShapes /\ cycle[w] \in Cycles /\ CycleOK(cycle[w])
  BY DEF CaptureInv, CaptureShapes
<1>2. PICK r : r = [cycle[w] EXCEPT !.at = at]
  OBVIOUS
<1>3. /\ r \in Cycles /\ r.at = at /\ r.groups = cycle[w].groups
      /\ r.capture = cycle[w].capture
  BY <1>1, <1>2 DEF Cycles
<1>4. CycleOK(r)'
  BY <1>1, <1>3 DEF CycleOK
<1>5. cycle' = [cycle EXCEPT ![w] = r]
  BY <1>1, <1>2 DEF CaptureShapes
<1> QED BY <1>3, <1>4, <1>5, CycleStep

LEMMA BatchIsSaved == Capture!Batch \subseteq 1..Len(evidence)
BY DEF Capture!Batch, Capture!Pending

LEMMA ReplayStep ==
    ASSUME CaptureInv, NEW w \in Workers, Capture!Replay(w)
    PROVE  CaptureInv'
<1>1. CaptureShapes /\ failures' \in 0..MaxFailures /\ evidence' = evidence
  BY DEF CaptureInv, CaptureShapes, Capture!Replay
<1>2. PICK at \in {"replay", "catalog", "sleep", "fatal"} : cycle' = [cycle EXCEPT ![w].at = at]
  BY DEF Capture!Replay
<1>3. filed' \subseteq 1..Len(evidence)
  BY <1>1, BatchIsSaved DEF Capture!Replay, CaptureShapes
<1>4. cycle[w].at # "capture" /\ UNCHANGED Capture!chain
  BY DEF Capture!Replay
<1> QED BY <1>1, <1>2, <1>3, <1>4, MoveStep

LEMMA ReadCatalogStep ==
    ASSUME CaptureInv, NEW w \in Workers, Capture!ReadCatalog(w)
    PROVE  CaptureInv'
<1>1. CaptureShapes /\ cycle[w] \in Cycles /\ CycleOK(cycle[w])
  BY DEF CaptureInv, CaptureShapes
<1>2. /\ cycle[w].at = "catalog" /\ failures' = failures
      /\ cycle' = [cycle EXCEPT ![w].at = "capture", ![w].catalog = Capture!Catalog]
      /\ UNCHANGED Capture!chain /\ evidence' = evidence /\ filed' = filed
  BY DEF Capture!ReadCatalog, Capture!store
<1>3. PICK c \in Catalogs : c = Capture!Catalog /\ CatalogOK(c)
  BY CatalogIsOK
<1>4. PICK r : r = [cycle[w] EXCEPT !.at = "capture", !.catalog = c]
  OBVIOUS
<1>5. /\ r \in Cycles /\ r.at = "capture" /\ r.catalog = c /\ r.groups = cycle[w].groups
      /\ r.capture = cycle[w].capture
  BY <1>1, <1>4 DEF Cycles
<1>6. CatalogOK(c)'
  BY <1>2, <1>3 DEF CatalogOK, Capture!chain
<1>7. CycleOK(r)'
  BY <1>1, <1>2, <1>5, <1>6 DEF CycleOK
<1>8. cycle' = [cycle EXCEPT ![w] = r]
  BY <1>1, <1>2, <1>3, <1>4 DEF CaptureShapes
<1>9. filed' \subseteq 1..Len(evidence) /\ failures' \in 0..MaxFailures
  BY <1>1, <1>2 DEF CaptureShapes
<1> QED BY <1>2, <1>5, <1>7, <1>8, <1>9, CycleStep

LEMMA CaptureGroupStep ==
    ASSUME CaptureInv, CaptureConstants, NEW w \in Workers, NEW g \in Groups,
           Capture!CaptureGroup(w, g)
    PROVE  CaptureInv'
<1>1. CaptureShapes /\ cycle[w] \in Cycles /\ CycleOK(cycle[w])
  BY DEF CaptureInv, CaptureShapes
<1>2. PICK s \in cycle[w].catalog.through..final, outcome \in Capture!Outcomes :
          cycle' = [cycle EXCEPT ![w].groups[g] = [slot |-> s, outcome |-> outcome]]
  BY DEF Capture!CaptureGroup, Capture!ReadFloor
<1>3. /\ cycle[w].at = "capture" /\ UNCHANGED Capture!chain /\ evidence' = evidence
      /\ filed' = filed
  BY DEF Capture!CaptureGroup, Capture!store
<1>4. failures' \in 0..MaxFailures
  BY <1>1 DEF Capture!CaptureGroup, Capture!Fault, CaptureShapes, CaptureConstants
<1>5. PICK q \in Readings : q = [slot |-> s, outcome |-> outcome]
  <2>1. s \in Nat
    BY <1>1, <1>2 DEF CaptureShapes, Cycles, Catalogs
  <2> QED BY <2>1 DEF Readings
<1>6. PICK r : r = [cycle[w] EXCEPT !.groups = [cycle[w].groups EXCEPT ![g] = q]]
  OBVIOUS
<1>7. cycle[w].groups \in [Groups -> Readings \cup {None}]
  BY <1>1 DEF Cycles
<1>8. /\ r.at = "capture" /\ r.catalog = cycle[w].catalog /\ r.capture = cycle[w].capture
      /\ r.groups = [cycle[w].groups EXCEPT ![g] = q]
      /\ r \in Cycles
  BY <1>1, <1>3, <1>6, <1>7 DEF Cycles
<1>9. CatalogOK(r.catalog)'
  BY <1>1, <1>3, <1>8 DEF CycleOK, CatalogOK, Capture!chain
<1>10. ASSUME NEW h \in Groups, r.groups[h] # None
       PROVE  r.groups[h].slot \in r.catalog.through..final'
  <2>1. CASE h = g
    BY <1>2, <1>3, <1>5, <1>7, <1>8, <2>1 DEF Capture!chain
  <2>2. CASE h # g
    BY <1>1, <1>3, <1>7, <1>8, <1>10, <2>2 DEF CycleOK, Capture!chain
  <2> QED BY <2>1, <2>2
<1>11. CycleOK(r)'
  BY <1>1, <1>3, <1>8, <1>9, <1>10 DEF CycleOK
<1>12. cycle' = [cycle EXCEPT ![w] = r]
  BY <1>1, <1>2, <1>5, <1>6 DEF CaptureShapes
<1>13. filed' \subseteq 1..Len(evidence)
  BY <1>1, <1>3 DEF CaptureShapes
<1> QED BY <1>3, <1>4, <1>8, <1>11, <1>12, <1>13, CycleStep

LEMMA ProjectStep ==
    ASSUME CaptureInv, NEW w \in Workers, Capture!Project(w)
    PROVE  CaptureInv'
<1>1. CaptureShapes /\ cycle[w] \in Cycles /\ CycleOK(cycle[w]) /\ Len(evidence) \in Nat
  BY DEF CaptureInv, CaptureShapes
<1>2. /\ cycle[w].at = "project" /\ UNCHANGED Capture!chain /\ evidence' = evidence
      /\ failures' \in 0..MaxFailures
  BY <1>1 DEF Capture!Project, CaptureShapes
<1>3. cycle[w].capture \in 1..Len(evidence)
  BY <1>1, <1>2 DEF CycleOK
<1>4. filed' \subseteq 1..Len(evidence)
  BY <1>1, <1>3 DEF Capture!Project, CaptureShapes
<1>5. PICK at \in {"sleep", "fatal"} : cycle' = [cycle EXCEPT ![w] = Rest(at, 0)]
  BY RestForms DEF Capture!Project
<1>6. 0 \in 0..Len(evidence)
  BY <1>1
<1> QED BY <1>2, <1>4, <1>5, <1>6, RestStep

LEMMA NextCycleStep ==
    ASSUME CaptureInv, NEW w \in Workers, Capture!Wake(w)
    PROVE  CaptureInv'
<1>1. CaptureShapes /\ evidence' = evidence /\ cycle[w].at # "capture"
  BY DEF CaptureInv, Capture!Wake, Capture!store
<1>2. filed' \subseteq 1..Len(evidence) /\ failures' \in 0..MaxFailures
  BY <1>1 DEF CaptureShapes, Capture!Wake, Capture!store
<1> QED BY <1>1, <1>2, MoveStep DEF Capture!Wake

LEMMA FailureStep ==
    ASSUME CaptureInv, CaptureConstants, NEW w \in Workers,
           Capture!CycleFails(w) \/ Capture!Crash(w)
    PROVE  CaptureInv'
<1>1. CaptureShapes /\ evidence' = evidence /\ Len(evidence) \in Nat /\ UNCHANGED Capture!chain
  BY DEF CaptureInv, CaptureShapes, Capture!CycleFails, Capture!Crash, Capture!store
<1>2. filed' \subseteq 1..Len(evidence) /\ failures' \in 0..MaxFailures
  BY <1>1 DEF CaptureShapes, Capture!CycleFails, Capture!Crash, Capture!store, Capture!Fault,
              CaptureConstants
<1>3. PICK at \in {"sleep", "replay"} : cycle' = [cycle EXCEPT ![w] = Rest(at, 0)]
  BY RestForms DEF Capture!CycleFails, Capture!Crash, Capture!AfterFailure
<1>4. 0 \in 0..Len(evidence)
  BY <1>1
<1> QED BY <1>1, <1>2, <1>3, <1>4, RestStep

\* Evidence is committed: what it says was true when it was collected.
LEMMA StoreCaptureStep ==
    ASSUME CaptureInv, NEW w \in Workers, Capture!Store(w)
    PROVE  CaptureInv'
<1>1. /\ CaptureShapes /\ cycle[w] \in Cycles /\ CycleOK(cycle[w])
      /\ Len(evidence) \in Nat /\ final \in Nat /\ Len(ledger) \in Nat
  BY DEF CaptureInv, CaptureShapes
<1>2. /\ cycle[w].at = "capture" /\ \A g \in Groups : cycle[w].groups[g] # None
      /\ UNCHANGED <<ledger, final, observed, filed, failures>>
  BY DEF Capture!Store, Capture!chain
<1>3. PICK c : c = [catalog |-> cycle[w].catalog, groups |-> cycle[w].groups]
  OBVIOUS
<1>4. c.catalog = cycle[w].catalog /\ c.groups = cycle[w].groups
  BY <1>3
<1>5. c.catalog \in Catalogs /\ c.groups \in [Groups -> Readings]
  BY <1>1, <1>2, <1>4 DEF Cycles
<1>6. c \in Evidence
  BY <1>3, <1>4, <1>5 DEF Evidence
<1>7. EvidenceOK(c)
  BY <1>1, <1>2, <1>4 DEF CycleOK, EvidenceOK
<1> DEFINE same == {i \in 1..Len(evidence) :
                       /\ evidence[i].groups = c.groups
                       /\ [evidence[i].catalog EXCEPT !.after = {}]
                              = [c.catalog EXCEPT !.after = {}]}
<1>8. /\ evidence' = IF same = {} THEN Append(evidence, c) ELSE evidence
      /\ cycle' = [cycle EXCEPT ![w] =
             [Capture!AtRest EXCEPT !.at = "project",
                            !.capture = IF same = {} THEN Len(evidence) + 1
                                        ELSE CHOOSE i \in same : TRUE]]
  BY <1>3, <1>4 DEF Capture!Store
<1>9. CASE same = {}
  <2>1. evidence' = Append(evidence, c)
    BY <1>8, <1>9
  <2>2. cycle' = [cycle EXCEPT ![w] = Rest("project", Len(evidence) + 1)]
    BY <1>8, <1>9, RestForms
  <2> HIDE DEF same
  <2>3. PICK r \in Cycles : /\ r = Rest("project", Len(evidence) + 1)
                            /\ r.at = "project" /\ r.capture = Len(evidence) + 1
                            /\ \A g \in Groups : r.groups[g] = None
    BY <1>1, RestIsOK
  <2>4. /\ evidence' \in Seq(Evidence) /\ Len(evidence') = Len(evidence) + 1
        /\ evidence'[Len(evidence) + 1] = c
        /\ \A i \in 1..Len(evidence) : evidence'[i] = evidence[i]
    BY <1>1, <1>6, <2>1 DEF CaptureShapes
  <2>5. Grown
    BY <1>1, <1>2, <2>4 DEF Grown, CaptureShapes
  <2>6. CaptureShapes'
    BY <1>1, <1>2, <2>2, <2>3, <2>4 DEF CaptureShapes
  <2>7. Closings'
    BY <1>2 DEF CaptureInv, Closings
  <2>8. ASSUME NEW i \in 1..Len(evidence') PROVE EvidenceOK(evidence[i])'
    <3>1. PICK e \in Evidence : e = evidence'[i] /\ EvidenceOK(e)
      <4>1. CASE i \in 1..Len(evidence)
        BY <1>1, <2>4, <4>1 DEF CaptureInv, CaptureShapes
      <4>2. CASE i = Len(evidence) + 1
        BY <1>6, <1>7, <2>4, <4>2
      <4>3. i \in 1..Len(evidence) \/ i = Len(evidence) + 1
        BY <1>1, <2>4, <2>8
      <4> QED BY <4>1, <4>2, <4>3
    <3>2. EvidenceOK(e)'
      BY <1>1, <2>5, <3>1, EvidenceStays
    <3> QED BY <3>1, <3>2 DEF EvidenceOK, CatalogOK
  <2>9. ASSUME NEW v \in Workers PROVE CycleOK(cycle[v])'
    <3>1. CASE v = w
      <4>1. cycle'[v] = r
        BY <1>1, <2>2, <2>3, <3>1 DEF CaptureShapes
      <4>2. CycleOK(r)'
        BY <1>1, <2>3, <2>4 DEF CycleOK
      <4> QED BY <4>1, <4>2 DEF CycleOK
    <3>2. CASE v # w
      <4>1. PICK q \in Cycles : q = cycle[v] /\ CycleOK(q)
        BY <1>1 DEF CaptureInv, CaptureShapes
      <4>2. cycle'[v] = q
        BY <1>1, <2>2, <3>2, <4>1 DEF CaptureShapes
      <4>3. CycleOK(q)'
        BY <1>1, <2>5, <4>1, CycleStays
      <4> QED BY <4>2, <4>3 DEF CycleOK, CatalogOK
    <3> QED BY <3>1, <3>2
  <2> QED BY <2>6, <2>7, <2>8, <2>9 DEF CaptureInv
<1>10. CASE same # {}
  <2>1. (CHOOSE i \in same : TRUE) \in same
    BY <1>10
  <2>2. PICK k \in 1..Len(evidence) : k = CHOOSE i \in same : TRUE
    BY <2>1
  <2> HIDE DEF same
  <2>3. cycle' = [cycle EXCEPT ![w] = Rest("project", k)]
    BY <1>8, <1>10, <2>2, RestForms
  <2>4. evidence' = evidence /\ filed' \subseteq 1..Len(evidence) /\ failures' \in 0..MaxFailures
    BY <1>1, <1>2, <1>8, <1>10 DEF CaptureShapes
  <2>5. k \in 0..Len(evidence) /\ k # 0
    <3> HIDE <2>2
    <3> QED BY <1>1
  <2> QED BY <1>2, <2>3, <2>4, <2>5, RestStep DEF Capture!chain
<1> QED BY <1>9, <1>10

-----------------------------------------------------------------------------

LEMMA CaptureInit == ASSUME CaptureConstants, Capture!Init PROVE CaptureInv
<1>1. /\ ledger = <<{}>> /\ final = 1 /\ observed = {} /\ evidence = <<>> /\ filed = {}
      /\ failures = 0 /\ cycle = [w \in Workers |-> Rest("replay", 0)]
  BY RestForms DEF Capture!Init
<1>2. \A w \in Workers : /\ cycle[w] \in Cycles /\ cycle[w].at = "replay" /\ cycle[w].capture = 0
                         /\ \A g \in Groups : cycle[w].groups[g] = None
  BY <1>1, RestIsOK
<1>3. CaptureShapes
  BY <1>1, <1>2 DEF CaptureShapes, CaptureConstants
<1>4. Closings
  BY <1>1 DEF Closings
<1>5. \A w \in Workers : CycleOK(cycle[w])
  BY <1>1, <1>2 DEF CycleOK
<1> QED BY <1>1, <1>3, <1>4, <1>5 DEF CaptureInv

LEMMA CaptureNext ==
    ASSUME CaptureConstants, CaptureInv, [Capture!Next]_Capture!vars
    PROVE  CaptureInv'
<1>1. ASSUME NEW a \in Accounts, Capture!Transact(a) PROVE CaptureInv'
  BY <1>1, TransactStep
<1>2. ASSUME NEW a \in Accounts, NEW s \in Capture!Slots, Capture!Stream(a, s) PROVE CaptureInv'
  BY <1>2, StreamStep
<1>3. ASSUME Capture!Finalize PROVE CaptureInv'
  BY <1>3, FinalizeStep
<1>4. ASSUME NEW w \in Workers, Capture!Step(w) PROVE CaptureInv'
  BY <1>4, ReplayStep, ReadCatalogStep, StoreCaptureStep, ProjectStep, NextCycleStep,
      CaptureGroupStep
     DEF Capture!Step
<1>5. ASSUME NEW w \in Workers, Capture!CycleFails(w) \/ Capture!Crash(w) PROVE CaptureInv'
  BY <1>5, FailureStep
<1>6. ASSUME UNCHANGED Capture!vars PROVE CaptureInv'
  <2>1. UNCHANGED <<ledger, final, observed, evidence, filed, cycle, failures>>
    BY <1>6 DEF Capture!vars
  <2>2. CaptureShapes' /\ Closings'
    BY <2>1 DEF CaptureInv, CaptureShapes, Closings
  <2>3. Grown
    BY <2>1 DEF CaptureInv, CaptureShapes, Grown
  <2> QED BY <2>1, <2>2, <2>3, ChainStep DEF Capture!store
<1> QED BY <1>1, <1>2, <1>3, <1>4, <1>5, <1>6 DEF Capture!Next

\* A capture reports an account closed only if it was open when the stream saw
\* it and a later transaction closed it, and whoever has a checkpoint has one
\* in every capture that was begun later.
LEMMA InvariantIsTrue ==
    ASSUME CaptureConstants, CaptureInv
    PROVE  Capture!CapturesAreTrue
<1>1. CaptureShapes /\ Len(ledger) \in Nat /\ final \in 1..Len(ledger)
  BY DEF CaptureInv, CaptureShapes
<1>2. ASSUME NEW i \in 1..Len(evidence), NEW a \in Capture!Closed(evidence[i])
      PROVE  \E s \in evidence[i].catalog.slot[a] + 1 .. Capture!Bank(evidence[i], a) :
                 a \in ledger[s - 1] \ ledger[s]
  <2> DEFINE c == evidence[i]
             b == Capture!Bank(c, a)
  <2>1. c \in Evidence /\ EvidenceOK(c)
    BY <1>1 DEF CaptureInv, CaptureShapes
  <2>2. a \in c.catalog.listed /\ a \notin ledger[b]
    BY <1>2 DEF Capture!Closed
  <2>3. a \in Accounts /\ GroupOf[a] \in Groups
    BY <2>1, <2>2 DEF Evidence, Catalogs, CaptureConstants
  <2>4. /\ c.catalog.through \in 1..Len(ledger) /\ b \in c.catalog.through..final
        /\ c.catalog.slot[a] \in 1..c.catalog.through /\ a \in ledger[c.catalog.slot[a]]
    BY <2>1, <2>2, <2>3 DEF EvidenceOK, CatalogOK, Capture!Bank
  <2> HIDE DEF c, b
  <2>5. /\ c.catalog.slot[a] \in 1..Len(ledger) /\ b \in 1..Len(ledger)
        /\ c.catalog.slot[a] <= b
    BY <1>1, <2>4, SMTT(20)
  <2>6. \E s \in c.catalog.slot[a] + 1 .. b : a \in ledger[s - 1] \ ledger[s]
    BY <2>2, <2>3, <2>4, <2>5 DEF CaptureInv, Closings
  <2> QED BY <2>6 DEF c, b
<1>3. ASSUME NEW i \in filed, NEW j \in filed, i \in evidence[j].catalog.after
      PROVE  evidence[i].catalog.owners \subseteq evidence[j].catalog.owners
  <2>1. EvidenceOK(evidence[j])
    BY <1>1 DEF CaptureInv, CaptureShapes
  <2> QED BY <1>3, <2>1 DEF EvidenceOK, CatalogOK
<1> QED BY <1>2, <1>3 DEF Capture!CapturesAreTrue, Capture!ClosedWasClosed, Capture!OwnersStay

\* A step of Services is a step of the portfolio worker or leaves it alone.
LEMMA CaptureSteps == [Next]_vars => [Capture!Next]_Capture!vars
BY DEF Next, DrainStep, CaptureStep, ValuationStep, ActivityStep, RatesStep, BookStep,
       LeverageStep, WalletStep,
       vars, workerVars, valuationVars, captureVars, Capture!vars, Capture!chain, Capture!store

LEMMA CaptureInductive == Spec => []CaptureInv
<1>1. Init => CaptureInv
  BY CaptureInit, CaptureAssumption DEF Init
<1>2. CaptureInv /\ [Next]_vars => CaptureInv'
  BY CaptureNext, CaptureSteps, CaptureAssumption
<1> QED BY <1>1, <1>2, PTL DEF Spec

\* The portfolio worker's state has its types, however its cycles, its crashes and
\* the chain interleave.
THEOREM CaptureTypes == Spec => []Capture!TypeOK
<1>1. CaptureInv => Capture!TypeOK
  BY DEF CaptureInv, CaptureShapes, Capture!TypeOK, Capture!Slots, CycleOK, Cycles, Catalogs
<1> QED BY <1>1, CaptureInductive, PTL

\* A capture reports an account closed only if it was open when the stream saw it
\* and a later transaction closed it, whichever node answered (duskPortfolioSnapshots.ts
\* reads no bank below the catalog's floor); and an owner with a checkpoint has one in
\* every capture that was begun later.
THEOREM CapturesStayTrue == Spec => []CapturesAreTrue
<1>1. CaptureInv => CapturesAreTrue
  BY InvariantIsTrue, CaptureAssumption DEF CapturesAreTrue
<1> QED BY <1>1, CaptureInductive, PTL

-----------------------------------------------------------------------------

(* The values of the earnings: what stands once it is computed from a      *)
(* historical price.                                                       *)

\* A run in flight works on events that have no marker, and no row either.
Unallocated ==
    /\ earner.batch \cap marked = {}
    /\ \A e \in Earning : worth[e] # None => e \in marked

ValuationShapes ==
    /\ earner \in [at : {"idle", "price", "store"}, batch : SUBSET Earning,
                   left : SUBSET Valuation!Hours,
                   fetch : [hour : Valuation!Hours \cup {None}, mints : SUBSET Valuation!Mints]]
    /\ earner.at = "store" => earner.fetch.hour \in Valuation!Hours
    /\ reconciler \in [at : {"idle", "fetch", "refresh"}, from : Nat, to : Nat,
                   lacking : [Valuation!Mints -> SUBSET Valuation!Hours], positions : SUBSET Valuation!Positions]

ValuationInv == Valuation!TypeOK /\ ValuationShapes /\ Unallocated

Worths == Valuation!Qualities \cup {None}

-----------------------------------------------------------------------------

LEMMA WorstIsQuality ==
    ASSUME NEW qs
    PROVE  Valuation!Worst(qs) \in Valuation!Qualities
BY DEF Valuation!Worst, Valuation!Qualities

LEMMA ValuedIsQuality ==
    ASSUME NEW e
    PROVE  Valuation!Valued(e) \in Valuation!Qualities
BY WorstIsQuality DEF Valuation!Valued

\* Rows pairs each row of a position with its quality.
LEMMA RowsTyped ==
    ASSUME worth \in [Earning -> Worths], NEW p
    PROVE  Valuation!Rows(p) \subseteq Earning \X Valuation!Qualities
BY DEF Valuation!Rows, Worths

LEMMA RefreshedTyped ==
    ASSUME worth \in [Earning -> Worths], NEW ps,
           sums \in [Valuation!Positions -> SUBSET (Earning \X Valuation!Qualities)]
    PROVE  Valuation!Refreshed(ps) \in [Valuation!Positions -> SUBSET (Earning \X Valuation!Qualities)]
BY RowsTyped DEF Valuation!Refreshed

LEMMA HoursTyped ==
    /\ \A e \in Earning : HourOf[e] \in Valuation!Hours
    /\ Valuation!Hours \subseteq 1..MaxHour
BY ValuationAssumption DEF Valuation!Hours

-----------------------------------------------------------------------------

LEMMA ValuationInit == Valuation!Init => ValuationInv
<1> SUFFICES ASSUME Valuation!Init PROVE ValuationInv
    OBVIOUS
<1>1. Valuation!TypeOK
    BY ValuationAssumption DEF Valuation!Init, Valuation!TypeOK, Valuation!WorkerIdle,
                               Valuation!RepairIdle, Valuation!NoFetch, Valuation!Hours
<1>2. ValuationShapes
    BY DEF Valuation!Init, ValuationShapes, Valuation!WorkerIdle, Valuation!RepairIdle,
           Valuation!NoFetch
<1>3. Unallocated
    BY DEF Valuation!Init, Unallocated, Valuation!WorkerIdle
<1> QED BY <1>1, <1>2, <1>3 DEF ValuationInv

\* One step per action; each names what it changes.
LEMMA ValuationNext == ValuationInv /\ [Valuation!Next]_Valuation!vars => ValuationInv'
<1> SUFFICES ASSUME ValuationInv, [Valuation!Next]_Valuation!vars PROVE ValuationInv'
    OBVIOUS
<1> USE ValuationAssumption, HoursTyped DEF ValuationInv
<1>0. worth \in [Earning -> Worths] /\ MaxMisses \in Nat /\ misses \in Nat
    BY DEF Valuation!TypeOK, Worths
<1>1. CASE UNCHANGED Valuation!vars
    BY <1>1 DEF Valuation!vars, Valuation!TypeOK, ValuationShapes, Unallocated
<1>2. CASE Valuation!Tick
    BY <1>2 DEF Valuation!Tick, Valuation!TypeOK, ValuationShapes, Unallocated
<1>3. ASSUME NEW e \in Earning, Valuation!Arrive(e) PROVE ValuationInv'
    BY <1>3 DEF Valuation!Arrive, Valuation!TypeOK, ValuationShapes, Unallocated
<1>4. ASSUME NEW b \in SUBSET earned, Valuation!FetchEvents(b) PROVE ValuationInv'
    <2>1. /\ earner' = [at |-> "price", batch |-> b, left |-> {HourOf[e] : e \in b},
                        fetch |-> Valuation!NoFetch]
          /\ b \cap marked = {} /\ b \subseteq Earning
        BY <1>4 DEF Valuation!FetchEvents, Valuation!WorkerIdle, Valuation!IsBatch,
                    Valuation!Unmarked, Valuation!TypeOK
    <2>2. earner' \in [at : {"idle", "price", "store"}, batch : SUBSET Earning,
                       left : SUBSET Valuation!Hours,
                       fetch : [hour : Valuation!Hours \cup {None}, mints : SUBSET Valuation!Mints]]
        BY <2>1 DEF Valuation!NoFetch
    <2>3. earner'.at = "price" /\ earner'.batch = b /\ earner'.left \subseteq Valuation!Hours
        BY <2>1
    <2> QED BY <1>4, <2>1, <2>2, <2>3 DEF Valuation!FetchEvents, Valuation!TypeOK,
        ValuationShapes, Unallocated
<1>5. CASE Valuation!LoadPrices
    <2>1. PICK h \in earner.left :
             \E ms \in SUBSET Valuation!Mints :
                \/ earner' = [earner EXCEPT !.left = @ \ {h}]
                \/ earner' = [earner EXCEPT !.at = "store", !.fetch = [hour |-> h, mints |-> ms]]
        <3>1. \A h \in Valuation!Hours :
                 {m \in UNION {MintsOf[e] : e \in {f \in earner.batch : HourOf[f] = h}} :
                     price[m][h] \in Valuation!WorkerRefreshes \cup {None}} \in SUBSET Valuation!Mints
            BY DEF ValuationShapes, Valuation!Mints
        <3> QED BY <1>5, <3>1 DEF Valuation!LoadPrices, ValuationShapes
    <2>2. h \in Valuation!Hours
        BY DEF ValuationShapes
    <2>3. /\ earner' \in [at : {"idle", "price", "store"}, batch : SUBSET Earning,
                          left : SUBSET Valuation!Hours,
                          fetch : [hour : Valuation!Hours \cup {None}, mints : SUBSET Valuation!Mints]]
          /\ earner'.at = "store" => earner'.fetch.hour \in Valuation!Hours
          /\ earner'.batch = earner.batch
        <3>1. PICK ms \in SUBSET Valuation!Mints :
                 \/ earner' = [earner EXCEPT !.left = @ \ {h}]
                 \/ earner' = [earner EXCEPT !.at = "store", !.fetch = [hour |-> h, mints |-> ms]]
            BY <2>1
        <3>2. CASE earner' = [earner EXCEPT !.left = @ \ {h}]
            BY <1>5, <3>2 DEF Valuation!LoadPrices, ValuationShapes
        <3>3. CASE earner' = [earner EXCEPT !.at = "store", !.fetch = [hour |-> h, mints |-> ms]]
            BY <2>2, <3>3 DEF ValuationShapes
        <3> QED BY <3>1, <3>2, <3>3
    <2> QED BY <1>5, <2>3 DEF Valuation!LoadPrices, Valuation!TypeOK, ValuationShapes,
                              Unallocated
<1>6. CASE Valuation!StorePrices
    <2>1. price' \in [Valuation!Mints -> [Valuation!Hours -> Worths]]
        <3>1. PICK outcome \in [earner.fetch.mints -> Valuation!Qualities] :
                 price' = [m \in Valuation!Mints |->
                              IF m \in earner.fetch.mints
                              THEN [price[m] EXCEPT ![earner.fetch.hour] = outcome[m]] ELSE price[m]]
            BY <1>6 DEF Valuation!StorePrices
        <3>2. ASSUME NEW m \in Valuation!Mints
              PROVE  /\ price[m] \in [Valuation!Hours -> Worths]
                     /\ \A q \in Worths : [price[m] EXCEPT ![earner.fetch.hour] = q] \in [Valuation!Hours -> Worths]
            BY DEF Valuation!TypeOK, Worths
        <3> QED BY <3>1, <3>2 DEF Worths
    <2>2. earner' = [earner EXCEPT !.at = "price", !.left = @ \ {earner.fetch.hour}, !.fetch = Valuation!NoFetch]
        BY <1>6 DEF Valuation!StorePrices
    <2>3. misses' \in 0..MaxMisses
        BY <1>6, <1>0 DEF Valuation!StorePrices, Valuation!Fault, Valuation!TypeOK
    <2>4. /\ earner' \in [at : {"idle", "price", "store"}, batch : SUBSET Earning,
                          left : SUBSET Valuation!Hours,
                          fetch : [hour : Valuation!Hours \cup {None}, mints : SUBSET Valuation!Mints]]
          /\ earner'.at = "price" /\ earner'.batch = earner.batch
        BY <2>2 DEF ValuationShapes, Valuation!NoFetch
    <2> QED BY <1>6, <2>1, <2>3, <2>4 DEF Valuation!StorePrices, Valuation!TypeOK,
        ValuationShapes, Unallocated, Worths
<1>7. CASE Valuation!PersistBatch
    <2>1. worth' \in [Earning -> Worths]
        BY <1>7, <1>0, ValuedIsQuality DEF Valuation!PersistBatch, Worths
    <2>2. sums' \in [Valuation!Positions -> SUBSET (Earning \X Valuation!Qualities)]
        BY <1>7, <1>0, RefreshedTyped DEF Valuation!PersistBatch, Valuation!TypeOK
    <2>3. \A e \in Earning : worth'[e] # None => e \in marked'
        BY <1>7, <1>0 DEF Valuation!PersistBatch, Unallocated
    <2> QED BY <1>7, <2>1, <2>2, <2>3
            DEF Valuation!PersistBatch, Valuation!TypeOK, ValuationShapes, Unallocated,
                Valuation!WorkerIdle, Valuation!NoFetch, Worths
<1>8. CASE Valuation!WorkerFails
    BY <1>8, <1>0 DEF Valuation!WorkerFails, Valuation!Fault, Valuation!TypeOK,
                      ValuationShapes, Unallocated, Valuation!WorkerIdle, Valuation!NoFetch
<1>9. CASE Valuation!StartRepair
    <2>1. PICK from \in Nat, to \in Nat, lacking \in [Valuation!Mints -> SUBSET Valuation!Hours] :
             reconciler' = [at |-> "fetch", from |-> from, to |-> to, lacking |-> lacking,
                        positions |-> {}]
        <3> DEFINE from == IF hour > Lookback THEN hour - Lookback ELSE 0
                   mints == UNION {MintsOf[e] : e \in {f \in Earning : Valuation!Repairable(f, from, hour)}}
                   lacks(m) == {h \in Valuation!Hours : /\ from <= h /\ h <= hour
                                              /\ price[m][h] \in Valuation!RepairRefreshes \cup {None}}
                   lacking == [m \in Valuation!Mints |-> IF m \in mints THEN lacks(m) ELSE {}]
        <3>1. from \in Nat /\ hour \in Nat
            BY DEF Valuation!TypeOK
        <3>2. lacking \in [Valuation!Mints -> SUBSET Valuation!Hours]
            OBVIOUS
        <3>3. reconciler' = [at |-> "fetch", from |-> from, to |-> hour, lacking |-> lacking,
                         positions |-> {}]
            BY <1>9 DEF Valuation!StartRepair
        <3> HIDE DEF from, lacking
        <3> QED BY <3>1, <3>2, <3>3
    <2> QED BY <1>9, <2>1 DEF Valuation!StartRepair, Valuation!TypeOK, ValuationShapes,
                              Unallocated
<1>10. ASSUME NEW m \in Valuation!Mints, Valuation!FetchRange(m) PROVE ValuationInv'
    <2>1. price' \in [Valuation!Mints -> [Valuation!Hours -> Worths]]
        <3>1. PICK outcome \in [reconciler.lacking[m] -> Valuation!Qualities] :
                 price' = Valuation!Put(price, m, reconciler.lacking[m], outcome)
            BY <1>10 DEF Valuation!FetchRange
        <3>2. price[m] \in [Valuation!Hours -> Worths]
            BY DEF Valuation!TypeOK, Worths
        <3>3. [h \in Valuation!Hours |-> IF h \in reconciler.lacking[m] THEN outcome[h] ELSE price[m][h]]
                 \in [Valuation!Hours -> Worths]
            BY <3>2 DEF Worths
        <3> QED BY <3>1, <3>3 DEF Valuation!Put, Valuation!TypeOK, Worths
    <2>2. reconciler' = [reconciler EXCEPT !.lacking = [reconciler.lacking EXCEPT ![m] = {}]]
        BY <1>10 DEF Valuation!FetchRange, ValuationShapes
    <2>3. misses' \in 0..MaxMisses
        BY <1>10, <1>0 DEF Valuation!FetchRange, Valuation!Fault, Valuation!TypeOK
    <2>4. /\ reconciler' \in [at : {"idle", "fetch", "refresh"}, from : Nat, to : Nat,
                          lacking : [Valuation!Mints -> SUBSET Valuation!Hours], positions : SUBSET Valuation!Positions]
        BY <2>2 DEF ValuationShapes
    <2> QED BY <1>10, <2>1, <2>3, <2>4 DEF Valuation!FetchRange, Valuation!TypeOK,
        ValuationShapes, Unallocated, Worths
<1>11. CASE Valuation!Reprice
    <2>1. worth' \in [Earning -> Worths]
        BY <1>11, <1>0, ValuedIsQuality DEF Valuation!Reprice, Worths
    <2>2. \A e \in Earning : worth'[e] # None => e \in marked'
        BY <1>11, <1>0 DEF Valuation!Reprice, Unallocated, Valuation!Repairable
    <2>3. PICK ps \in SUBSET Valuation!Positions :
             reconciler' = [reconciler EXCEPT !.at = "refresh", !.positions = ps]
        BY <1>11 DEF Valuation!Reprice, Valuation!Positions
    <2> QED BY <1>11, <2>1, <2>2, <2>3 DEF Valuation!Reprice, Valuation!TypeOK,
        ValuationShapes, Unallocated, Worths
<1>12. CASE Valuation!RefreshTotals
    <2>1. sums' \in [Valuation!Positions -> SUBSET (Earning \X Valuation!Qualities)]
        BY <1>12, <1>0, RefreshedTyped DEF Valuation!RefreshTotals, Valuation!TypeOK
    <2> QED BY <1>12, <2>1 DEF Valuation!RefreshTotals, Valuation!TypeOK, ValuationShapes,
                               Unallocated, Valuation!RepairIdle
<1>13. CASE Valuation!RepairFails
    BY <1>13, <1>0 DEF Valuation!RepairFails, Valuation!Fault, Valuation!TypeOK,
                       ValuationShapes, Unallocated, Valuation!RepairIdle
<1> QED BY <1>1, <1>2, <1>3, <1>4, <1>5, <1>6, <1>7, <1>8, <1>9, <1>10, <1>11, <1>12, <1>13
        DEF Valuation!Next, Valuation!WorkerStep, Valuation!RepairStep

\* What TotalsLag needs of a step: no row loses a historical value.
LEMMA HistoricalStays ==
    ASSUME ValuationInv, [Valuation!Next]_Valuation!vars, NEW e \in Earning, worth[e] = "historical"
    PROVE  worth'[e] = "historical"
<1>1. CASE Valuation!PersistBatch
    <2>1. e \in marked
        BY ValuationAssumption DEF ValuationInv, Unallocated
    <2> QED BY <1>1, <2>1 DEF Valuation!PersistBatch, ValuationInv, Unallocated
<1>2. CASE Valuation!Reprice
    BY <1>2 DEF Valuation!Reprice, Valuation!Repairable
<1>3. CASE UNCHANGED worth
    BY <1>3
<1> QED BY <1>1, <1>2, <1>3 DEF Valuation!Next, Valuation!Tick, Valuation!Arrive,
                                Valuation!WorkerStep, Valuation!WorkerFails,
                                Valuation!RepairStep,
        Valuation!RepairFails, Valuation!FetchEvents, Valuation!LoadPrices,
        Valuation!StorePrices, Valuation!StartRepair, Valuation!FetchRange,
        Valuation!RefreshTotals, Valuation!vars

\* A total names allocated events only, and what it counts at a historical price
\* is what the event's row says, after every step.
LEMMA TotalsStep ==
    ASSUME ValuationInv, Valuation!TotalsLag, [Valuation!Next]_Valuation!vars
    PROVE  Valuation!TotalsLag'
<1> SUFFICES ASSUME NEW p \in Valuation!Positions, NEW r \in sums'[p]
             PROVE  r[1] \in marked' /\ (r[2] = "historical" => worth'[r[1]] = "historical")
    BY DEF Valuation!TotalsLag
<1>1. marked \subseteq marked'
    BY DEF Valuation!Next, Valuation!Tick, Valuation!Arrive, Valuation!WorkerStep,
           Valuation!WorkerFails, Valuation!RepairStep, Valuation!RepairFails,
           Valuation!FetchEvents,
           Valuation!LoadPrices, Valuation!StorePrices, Valuation!PersistBatch,
           Valuation!StartRepair, Valuation!FetchRange, Valuation!Reprice,
           Valuation!RefreshTotals, Valuation!vars
<1>2. r \in sums[p] \cup Valuation!Rows(p)
    <2>1. CASE UNCHANGED sums
        BY <2>1
    <2>2. CASE \E ps : sums' = Valuation!Refreshed(ps)
        BY <2>2 DEF Valuation!Refreshed
    <2> QED BY <2>1, <2>2 DEF Valuation!Next, Valuation!Tick, Valuation!Arrive,
                              Valuation!WorkerStep, Valuation!WorkerFails,
                              Valuation!RepairStep,
            Valuation!RepairFails, Valuation!FetchEvents, Valuation!LoadPrices,
            Valuation!StorePrices, Valuation!PersistBatch, Valuation!StartRepair,
            Valuation!FetchRange, Valuation!Reprice, Valuation!RefreshTotals, Valuation!vars
<1>3. r[1] \in marked /\ r[1] \in Earning /\ (r[2] = "historical" => worth[r[1]] = "historical")
    <2>1. CASE r \in sums[p]
        BY <2>1 DEF Valuation!TotalsLag, ValuationInv, Valuation!TypeOK
    <2>2. CASE r \in Valuation!Rows(p)
        BY <2>2 DEF Valuation!Rows, ValuationInv, Unallocated
    <2> QED BY <1>2, <2>1, <2>2
<1> QED BY <1>1, <1>3, HistoricalStays

\* A step of Services is a step of the valuation or leaves it alone.
LEMMA ValuationSteps == [Next]_vars => [Valuation!Next]_Valuation!vars
BY DEF Next, DrainStep, CaptureStep, ValuationStep, ActivityStep, RatesStep, BookStep,
       LeverageStep, WalletStep, vars, workerVars, valuationVars, Valuation!vars

LEMMA ValuationInductive == Spec => []ValuationInv
<1>1. Init => ValuationInv
  BY ValuationInit DEF Init
<1>2. ValuationInv /\ [Next]_vars => ValuationInv'
  BY ValuationNext, ValuationSteps
<1> QED BY <1>1, <1>2, PTL DEF Spec

\* Every variable keeps its type: lpEarningsBackfillService and
\* lpValuationRepairService write qualities only, and mark only what is stored.
THEOREM ValuationTypes == Spec => []Valuation!TypeOK
<1>1. ValuationInv => Valuation!TypeOK
  BY DEF ValuationInv
<1> QED BY <1>1, ValuationInductive, PTL

\* A value computed from a historical price never changes again, whichever of
\* the two processes writes and whatever has become of the price: the worker's
\* batch has no marker, so no row, and the reconciler's UPDATE leaves the row out.
THEOREM HistoricalHolds == Spec => HistoricalIsFinal
<1> DEFINE A == \A e \in Earning : worth[e] = "historical" => worth'[e] = "historical"
<1>1. ValuationInv /\ [Next]_vars => [A]_Valuation!vars
  BY HistoricalStays, ValuationSteps
<1> QED BY <1>1, ValuationInductive, PTL DEF Spec, HistoricalIsFinal,
    Valuation!HistoricalIsFinal

\* A total names allocated events only, and what it counts at a historical price
\* is what the event's row says: the batch statement sums the rows of before
\* itself, the reconciler the rows it has written, and neither loses such a value.
THEOREM TotalsLagBehind == Spec => []Valuation!TotalsLag
<1>1. Init => Valuation!TotalsLag
  BY DEF Init, Valuation!Init, Valuation!TotalsLag
<1>2. ValuationInv /\ Valuation!TotalsLag /\ [Next]_vars => Valuation!TotalsLag'
  BY TotalsStep, ValuationSteps
<1> QED BY <1>1, <1>2, ValuationInductive, PTL DEF Spec

-----------------------------------------------------------------------------
(* Activity and statistics: what a complete answer summed stays so.         *)

\* Rows follow each other through the tables, and the cursor's slot is ahead.
TablesOK ==
    /\ clock \in Nat /\ cursor.slot \in Nat /\ cursor.time \in Nat
    /\ cursor = [slot |-> cursor.slot, time |-> cursor.time]
    /\ projected \subseteq DOMAIN streamed /\ DOMAIN streamed \subseteq canonical
    /\ canonical \subseteq Economic /\ prices \subseteq ProviderQuotes
    /\ \A e \in DOMAIN streamed : streamed[e] \in Nat
    /\ \A e \in canonical : EventSlot[e] <= cursor.slot
    /\ writing # None =>
          /\ writing.event \in Economic /\ writing.event \notin DOMAIN streamed
          /\ writing.time \in Nat /\ EventSlot[writing.event] <= cursor.slot

\* What was not there when the answer was given is later than its window, or
\* was written behind the cursor.
Beyond(rows, until) ==
    /\ \A e \in DOMAIN streamed : e \in rows \/ e \in late \/ until < streamed[e]
    /\ \A q \in prices : q \in rows \/ q \in late \/ until < q.at

AnswerStands ==
    answer # None =>
        LET a == answer.activity
        IN  /\ a.until \in Int /\ a.until < cursor.time
            /\ answer.rows \subseteq projected \cup prices
            /\ Beyond(answer.rows, a.until)
            /\ late \subseteq answer.rows => a.sums = Activity!Sums(a.since, a.until)

\* An activity names no slot beyond its cursor's.
SumsCovered(activity) ==
    /\ activity.through.slot \in Nat
    /\ \A e \in DOMAIN activity.sums :
          EventSlot[e] \in Nat /\ EventSlot[e] <= activity.through.slot

PositionsCovered(positions, slot) ==
    \A e \in positions : EventSlot[e] \in Nat /\ EventSlot[e] <= slot

Reading(now, activity, positions, slot) ==
    [at |-> "reading", now |-> now, activity |-> activity, positions |-> positions, slot |-> slot]

StatsOK ==
    \/ stats.at = "idle"
    \/ /\ stats = Reading(stats.now, stats.activity, stats.positions, stats.slot)
       /\ stats.activity # None => SumsCovered(stats.activity)
       /\ stats.positions # None => PositionsCovered(stats.positions, cursor.slot)
       /\ stats.slot # None =>
             /\ stats.positions # None
             /\ stats.slot \in Nat /\ PositionsCovered(stats.positions, stats.slot)
    \/ stats.at = "shown" /\ Activity!StatisticsCovered

ActivityInv == TablesOK /\ AnswerStands /\ StatsOK

-----------------------------------------------------------------------------

\* Rows of events and of prices that come after an answer, and not behind the
\* cursor, change nothing in its window.
LEMMA WindowStands ==
    ASSUME ActivityConstants, TablesOK, TablesOK', NEW since, NEW until \in Int, NEW rows,
           rows \subseteq projected \cup prices,
           \A e \in DOMAIN streamed :
              e \in DOMAIN streamed' /\ streamed'[e] = streamed[e],
           \A e \in DOMAIN streamed' : e \in rows \/ until < streamed'[e],
           \A q \in prices' : q \in rows \/ until < q.at,
           projected \subseteq projected', prices \subseteq prices', canonical \subseteq canonical'
    PROVE  Activity!Sums(since, until)' = Activity!Sums(since, until)
<1>1. ASSUME NEW e \in DOMAIN streamed', streamed'[e] <= until
      PROVE  e \in projected /\ e \in DOMAIN streamed /\ streamed'[e] = streamed[e]
    <2>1. e \in rows /\ e \in Economic
        BY <1>1 DEF TablesOK
    <2> QED BY <2>1 DEF TablesOK, ActivityConstants
<1>2. Activity!InWindow(since, until)' = Activity!InWindow(since, until)
    <2>1. \A e \in projected : e \in DOMAIN streamed /\ e \in DOMAIN streamed' /\ e \in projected'
                               /\ streamed'[e] = streamed[e]
        BY DEF TablesOK
    <2>2. \A e \in projected' : e \in DOMAIN streamed'
        BY DEF TablesOK
    <2> QED BY <1>1, <2>1, <2>2 DEF Activity!InWindow
<1>3. ASSUME NEW e \in Activity!InWindow(since, until), NEW amount
      PROVE  Activity!Value(amount, e)' = Activity!Value(amount, e)
    <2>1. e \in DOMAIN streamed /\ streamed[e] \in Nat /\ streamed[e] <= until /\ streamed'[e] = streamed[e]
        BY <1>3 DEF Activity!InWindow, TablesOK
    <2>2. ASSUME NEW p \in DOMAIN streamed', streamed'[p] <= streamed[e]
          PROVE  p \in DOMAIN streamed /\ streamed'[p] = streamed[p]
        <3>1. streamed'[p] \in Nat
            BY <2>2 DEF TablesOK
        <3>2. streamed'[p] <= until
            BY <2>1, <2>2, <3>1
        <3> QED BY <1>1, <3>2
    <2>3. Activity!Captures(e)' = Activity!Captures(e)
        <3>1. canonical \cap DOMAIN streamed = DOMAIN streamed
            BY DEF TablesOK
        <3>2. canonical' \cap DOMAIN streamed' = DOMAIN streamed'
            BY DEF TablesOK
        <3> QED BY <2>1, <2>2, <3>1, <3>2 DEF Activity!Captures
    <2>4. Activity!Spot(e)' = Activity!Spot(e)
        BY <2>3 DEF Activity!Spot
    <2>5. ASSUME NEW q \in prices', q.at <= streamed[e] PROVE q \in prices
        <3>1. q \in ProviderQuotes /\ q.at \in Nat
            BY DEF TablesOK, ActivityConstants
        <3>2. q \in rows
            BY <2>1, <2>5, <3>1
        <3> QED BY <3>1, <3>2 DEF TablesOK, ActivityConstants
    <2>6. ASSUME NEW a PROVE Activity!Provided(a, e)' = Activity!Provided(a, e)
        <3>1. {q \in prices' : q.asset = a /\ q.at <= streamed'[e]}
                 = {q \in prices : q.asset = a /\ q.at <= streamed[e]}
            BY <2>1, <2>5
        <3> QED BY <3>1 DEF Activity!Provided
    <2>7. ASSUME NEW a PROVE Activity!Configured(a, e)' = Activity!Configured(a, e)
        BY <2>4 DEF Activity!Configured, Activity!Reference
    <2>8. ASSUME NEW a PROVE Activity!Price(a, e)' = Activity!Price(a, e)
        <3>1. PICK b : b = Activity!Other(a)
            OBVIOUS
        <3>2. /\ Activity!Provided(a, e)' = Activity!Provided(a, e)
              /\ Activity!Provided(b, e)' = Activity!Provided(b, e)
            BY <2>6
        <3>3. /\ Activity!Configured(a, e)' = Activity!Configured(a, e)
              /\ Activity!Configured(b, e)' = Activity!Configured(b, e)
            BY <2>7
        <3> QED BY <2>4, <3>1, <3>2, <3>3 DEF Activity!Price
    <2> QED BY <2>8 DEF Activity!Value
<1>4. ASSUME NEW e \in Activity!InWindow(since, until)
      PROVE  {[amount |-> a, value |-> Activity!Value(a, e)] : a \in Activity!Amounts(e)}'
                = {[amount |-> a, value |-> Activity!Value(a, e)] : a \in Activity!Amounts(e)}
    BY <1>3, <1>4
<1> QED BY <1>2, <1>4 DEF Activity!Sums

\* A step that only adds rows, and adds to the history what it writes behind
\* the cursor, takes nothing back.
LEMMA AnswerKeeps ==
    ASSUME ActivityConstants, ActivityInv, TablesOK', UNCHANGED answer,
           cursor.time <= cursor'.time, late \subseteq late',
           \A e \in DOMAIN streamed :
              e \in DOMAIN streamed' /\ streamed'[e] = streamed[e],
           \A e \in DOMAIN streamed' \ DOMAIN streamed :
              e \in late' \/ cursor.time <= streamed'[e],
           \A q \in prices' \ prices : q \in late' \/ cursor.time <= q.at,
           projected \subseteq projected', prices \subseteq prices', canonical \subseteq canonical'
    PROVE  AnswerStands'
<1> SUFFICES ASSUME answer # None
             PROVE  LET a == answer.activity
                    IN  /\ a.until \in Int /\ a.until < cursor'.time
                        /\ answer.rows \subseteq projected' \cup prices'
                        /\ \A e \in DOMAIN streamed' : e \in answer.rows \/ e \in late' \/ a.until < streamed'[e]
                        /\ \A q \in prices' : q \in answer.rows \/ q \in late' \/ a.until < q.at
                        /\ late' \subseteq answer.rows => a.sums = Activity!Sums(a.since, a.until)'
    BY DEF AnswerStands, Beyond
<1>0. PICK since, until, rows :
         since = answer.activity.since /\ until = answer.activity.until /\ rows = answer.rows
    OBVIOUS
<1>1. /\ until \in Int /\ until < cursor.time /\ rows \subseteq projected \cup prices
      /\ \A e \in DOMAIN streamed : e \in rows \/ e \in late \/ until < streamed[e]
      /\ \A q \in prices : q \in rows \/ q \in late \/ until < q.at
      /\ late \subseteq rows => answer.activity.sums = Activity!Sums(since, until)
    BY <1>0 DEF ActivityInv, AnswerStands, Beyond
<1>2. /\ cursor.time \in Nat /\ cursor'.time \in Nat
      /\ \A e \in DOMAIN streamed' : streamed'[e] \in Nat
      /\ \A q \in prices' : q.at \in Nat
    BY DEF ActivityInv, TablesOK, ActivityConstants
<1>3. \A e \in DOMAIN streamed' : e \in rows \/ e \in late' \/ until < streamed'[e]
    BY <1>1, <1>2
<1>4. \A q \in prices' : q \in rows \/ q \in late' \/ until < q.at
    BY <1>1, <1>2
<1>5. ASSUME late' \subseteq rows PROVE answer.activity.sums = Activity!Sums(since, until)'
    <2>1. Activity!Sums(since, until)' = Activity!Sums(since, until)
        <3>1. TablesOK
            BY DEF ActivityInv
        <3>2. \A e \in DOMAIN streamed' : e \in rows \/ until < streamed'[e]
            BY <1>3, <1>5
        <3>3. \A q \in prices' : q \in rows \/ until < q.at
            BY <1>4, <1>5
        <3> QED BY <1>1, <3>1, <3>2, <3>3, WindowStands
    <2> QED BY <1>1, <1>5, <2>1
<1>6. until < cursor'.time /\ rows \subseteq projected' \cup prices'
    BY <1>1, <1>2
<1> QED BY <1>0, <1>1, <1>3, <1>4, <1>5, <1>6

LEMMA StatsKeep ==
    ASSUME ActivityConstants, ActivityInv, UNCHANGED stats, cursor.slot \in Nat, cursor'.slot \in Nat,
           cursor.slot <= cursor'.slot
    PROVE  StatsOK'
<1>1. CASE stats.at = "idle"
    BY <1>1 DEF StatsOK
<1>2. CASE stats = Reading(stats.now, stats.activity, stats.positions, stats.slot)
    <2>1. \A positions : PositionsCovered(positions, cursor.slot) => PositionsCovered(positions, cursor'.slot)
        BY DEF PositionsCovered
    <2> QED BY <1>2, <2>1 DEF ActivityInv, StatsOK, Reading
<1>3. CASE stats.at = "shown" /\ Activity!StatisticsCovered
    BY <1>3 DEF StatsOK, Activity!StatisticsCovered
<1> QED BY <1>1, <1>2, <1>3 DEF ActivityInv, StatsOK

\* The slot of an activity is its cursor's.
LEMMA ActivityCovered ==
    ASSUME ActivityConstants, TablesOK, NEW since, NEW until
    PROVE  SumsCovered(Activity!Activity(since, until))
<1>1. DOMAIN Activity!Sums(since, until) \subseteq projected
    BY DEF Activity!Sums, Activity!InWindow
<1>2. \A e \in projected : EventSlot[e] \in Nat /\ EventSlot[e] <= cursor.slot
    BY DEF TablesOK, ActivityConstants
<1> QED BY <1>1, <1>2 DEF SumsCovered, Activity!Activity, TablesOK

LEMMA LargestIs ==
    ASSUME NEW S, S \subseteq Nat, NEW m \in S, \A x \in S : x <= m
    PROVE  Activity!Max(S) = m
<1>1. \A x \in S : (\A y \in S : x >= y) => x = m
    <2> SUFFICES ASSUME NEW x \in S, \A y \in S : x >= y PROVE x = m
        OBVIOUS
    <2>1. x >= m /\ x <= m /\ x \in Nat /\ m \in Nat
        OBVIOUS
    <2> QED BY <2>1
<1>2. \A y \in S : m >= y
    <2> SUFFICES ASSUME NEW y \in S PROVE m >= y
        OBVIOUS
    <2>1. y <= m /\ y \in Nat /\ m \in Nat
        OBVIOUS
    <2> QED BY <2>1
<1> QED BY <1>1, <1>2 DEF Activity!Max

LEMMA LargerIs ==
    ASSUME NEW x \in Nat, NEW y \in Nat
    PROVE  /\ Activity!Max({x, y}) \in Nat
           /\ x <= Activity!Max({x, y}) /\ y <= Activity!Max({x, y})
<1>1. CASE x <= y
    <2>1. Activity!Max({x, y}) = y
        BY <1>1, LargestIs
    <2> QED BY <1>1, <2>1
<1>2. CASE y <= x
    <2>1. Activity!Max({x, y}) = x
        BY <1>2, LargestIs
    <2> QED BY <1>2, <2>1
<1> QED BY <1>1, <1>2

-----------------------------------------------------------------------------
LEMMA ActivityInit == ASSUME ActivityConstants, Activity!Init PROVE ActivityInv
BY DEF Activity!Init, ActivityInv, TablesOK, AnswerStands, StatsOK

\* A step of the tables: no answer is given, and no statistics are read.
LEMMA TableStep ==
    ASSUME ActivityConstants, ActivityInv, UNCHANGED <<answer, stats>>,
           \/ Activity!Tick \/ Activity!WriteCanonical \/ Activity!WriteStream \/ Activity!Touch
           \/ Activity!ProjectBatch
           \/ \E e \in Economic : \E time \in {EventTime[e], clock} : Activity!Advance(e, time)
           \/ \E q \in ProviderQuotes : Activity!Quote(q)
    PROVE  ActivityInv'
<1> USE DEF ActivityInv
<1>0. TablesOK /\ cursor.slot \in Nat /\ cursor.time \in Nat
    BY DEF TablesOK
<1>1. CASE Activity!Tick
    <2>1. TablesOK'
        BY <1>1 DEF Activity!Tick, TablesOK
    <2> QED BY <1>0, <1>1, <2>1, AnswerKeeps, StatsKeep DEF Activity!Tick
<1>2. CASE Activity!WriteCanonical
    <2>1. TablesOK'
        BY <1>2 DEF Activity!WriteCanonical, TablesOK
    <2> QED BY <1>0, <1>2, <2>1, AnswerKeeps, StatsKeep DEF Activity!WriteCanonical
<1>3. CASE Activity!WriteStream
    <2>1. /\ writing.event \in canonical /\ writing.event \notin DOMAIN streamed
          /\ writing.time \in Nat
          /\ DOMAIN streamed' = DOMAIN streamed \cup {writing.event}
          /\ streamed'[writing.event] = writing.time
          /\ \A e \in DOMAIN streamed : streamed'[e] = streamed[e]
        BY <1>3 DEF Activity!WriteStream, TablesOK
    <2>2. writing' = None /\ UNCHANGED <<clock, cursor, canonical, projected, prices>>
        BY <1>3 DEF Activity!WriteStream
    <2>3. TablesOK'
        BY <2>1, <2>2 DEF TablesOK
    <2>4. /\ late \subseteq late'
          /\ writing.event \in late' \/ cursor.time <= writing.time
        <3>1. late' = IF writing.time < cursor.time THEN late \cup {writing.event} ELSE late
            BY <1>3 DEF Activity!WriteStream
        <3> QED BY <1>0, <2>1, <3>1
    <2>5. AnswerStands'
        BY <1>0, <2>1, <2>2, <2>3, <2>4, AnswerKeeps
    <2> QED BY <1>0, <2>2, <2>3, <2>5, StatsKeep
<1>4. CASE Activity!Touch
    <2>1. /\ cursor' = [cursor EXCEPT !.time = clock] /\ cursor.time < clock
          /\ UNCHANGED <<clock, writing, canonical, streamed, projected, prices, late>>
        BY <1>4 DEF Activity!Touch
    <2>2. cursor' = [slot |-> cursor.slot, time |-> clock] /\ clock \in Nat
        BY <2>1 DEF TablesOK
    <2>3. cursor'.slot = cursor.slot /\ cursor'.time = clock
        BY <2>2
    <2>4. TablesOK'
        BY <1>0, <2>1, <2>2, <2>3 DEF TablesOK
    <2>5. cursor.time <= cursor'.time
        BY <1>0, <2>1, <2>2, <2>3
    <2> QED BY <1>0, <2>1, <2>3, <2>4, <2>5, AnswerKeeps, StatsKeep
<1>5. CASE Activity!ProjectBatch
    <2>1. PICK b : b \subseteq DOMAIN streamed /\ projected' = projected \cup b
        BY <1>5 DEF Activity!ProjectBatch
    <2>2. UNCHANGED <<clock, cursor, writing, canonical, streamed, prices, late>>
        BY <1>5 DEF Activity!ProjectBatch
    <2>3. TablesOK'
        BY <2>1, <2>2 DEF TablesOK
    <2> QED BY <1>0, <2>1, <2>2, <2>3, AnswerKeeps, StatsKeep
<1>6. ASSUME NEW e \in Economic, NEW time \in {EventTime[e], clock}, Activity!Advance(e, time)
      PROVE  ActivityInv'
    <2> DEFINE slot == Activity!Max({cursor.slot, EventSlot[e]})
    <2>1. time \in Nat /\ EventSlot[e] \in Nat
        BY DEF TablesOK, ActivityConstants
    <2>2. slot \in Nat /\ cursor.slot <= slot /\ EventSlot[e] <= slot
        BY <1>0, <2>1, LargerIs
    <2>3. /\ cursor' = [slot |-> slot, time |-> cursor.time]
          /\ writing' = [event |-> e, time |-> time] /\ e \notin DOMAIN streamed
          /\ UNCHANGED <<clock, canonical, streamed, projected, prices, late>>
        BY <1>6 DEF Activity!Advance, TablesOK
    <2> HIDE DEF slot
    <2>4. cursor'.slot = slot /\ cursor'.time = cursor.time
        BY <2>3
    <2>5. \A f \in canonical : EventSlot[f] <= slot
        <3>1. \A f \in canonical : EventSlot[f] \in Nat /\ EventSlot[f] <= cursor.slot
            BY DEF TablesOK, ActivityConstants
        <3> QED BY <1>0, <2>2, <3>1
    <2>6. TablesOK'
        BY <1>0, <2>1, <2>2, <2>3, <2>4, <2>5 DEF TablesOK
    <2> QED BY <1>0, <2>2, <2>3, <2>4, <2>6, AnswerKeeps, StatsKeep
<1>7. ASSUME NEW q \in ProviderQuotes, Activity!Quote(q) PROVE ActivityInv'
    <2>1. /\ prices' = prices \cup {q} /\ q.at \in Nat
          /\ UNCHANGED <<clock, cursor, writing, canonical, streamed, projected>>
        BY <1>7 DEF Activity!Quote, ActivityConstants
    <2>2. late \subseteq late' /\ (q \in late' \/ cursor.time <= q.at)
        <3>1. late' = IF q.at < cursor.time THEN late \cup {q} ELSE late
            BY <1>7 DEF Activity!Quote
        <3> QED BY <1>0, <2>1, <3>1
    <2>3. TablesOK'
        BY <2>1 DEF TablesOK
    <2> QED BY <1>0, <2>1, <2>2, <2>3, AnswerKeeps, StatsKeep
<1> QED BY <1>1, <1>2, <1>3, <1>4, <1>5, <1>6, <1>7

\* A complete answer has all that there is, up to before the cursor's time.
LEMMA AnswerGiven ==
    ASSUME ActivityConstants, ActivityInv, NEW since \in Activity!Times,
           NEW until \in Activity!Times, Activity!Answer(since, until)
    PROVE  ActivityInv'
<1> DEFINE a == Activity!Activity(since, until)
<1>1. /\ answer' = [activity |-> a, rows |-> Activity!Rows] /\ a.complete
      /\ UNCHANGED <<stats, clock, cursor, writing, canonical, streamed, projected, prices, late>>
    BY DEF Activity!Answer, Activity!storeVars
<1>2. /\ a.since = since /\ a.until = until /\ a.sums = Activity!Sums(since, until)
      /\ canonical = projected /\ Activity!Covers(cursor, since, until)
    BY <1>1 DEF Activity!Activity
<1>3. until \in Int /\ until < cursor.time
    BY <1>2 DEF Activity!Times, Activity!Covers
<1>4. DOMAIN streamed \subseteq projected
    BY <1>2 DEF ActivityInv, TablesOK
<1>5. TablesOK'
    BY <1>1 DEF ActivityInv, TablesOK
<1>6. StatsOK'
    BY <1>1, StatsKeep DEF ActivityInv, TablesOK
<1>7. Activity!Sums(since, until)' = Activity!Sums(since, until)
    BY <1>1 DEF Activity!Sums, Activity!InWindow, Activity!Value, Activity!Price, Activity!Provided,
       Activity!Configured, Activity!Spot, Activity!Captures
<1>8. answer'.activity = a /\ answer'.rows = DOMAIN streamed \cup prices
    BY <1>1 DEF Activity!Rows
<1> HIDE DEF a
<1>9. AnswerStands'
    BY <1>1, <1>2, <1>3, <1>4, <1>7, <1>8 DEF AnswerStands, Beyond
<1> QED BY <1>5, <1>6, <1>9 DEF ActivityInv

\* A step of the statistics: the tables and the answer stay.
LEMMA StatsStep ==
    ASSUME ActivityConstants, ActivityInv,
           Activity!Begin \/ Activity!ReadActivity \/ Activity!ReadPositions \/ Activity!ReadCursor
             \/ Activity!Show
    PROVE  ActivityInv'
<1>1. UNCHANGED <<answer, clock, cursor, writing, canonical, streamed, projected, prices, late>>
    BY DEF Activity!Begin, Activity!ReadActivity, Activity!ReadPositions, Activity!ReadCursor,
       Activity!Show, Activity!storeVars
<1>2. TablesOK /\ TablesOK' /\ cursor.slot \in Nat
    BY <1>1 DEF ActivityInv, TablesOK
<1>3. AnswerStands'
    BY <1>1, <1>2, AnswerKeeps DEF TablesOK
<1>4. ASSUME stats.at = "reading"
      PROVE  /\ stats = Reading(stats.now, stats.activity, stats.positions, stats.slot)
             /\ stats.activity # None => SumsCovered(stats.activity)
             /\ stats.positions # None => PositionsCovered(stats.positions, cursor.slot)
             /\ stats.slot # None =>
                   /\ stats.positions # None
                   /\ stats.slot \in Nat /\ PositionsCovered(stats.positions, stats.slot)
    BY <1>4 DEF ActivityInv, StatsOK
<1>5. StatsOK'
    <2>1. CASE Activity!Begin
        <3>1. stats' = Reading(clock, None, None, None)
            BY <2>1 DEF Activity!Begin, Reading
        <3> QED BY <3>1 DEF StatsOK, Reading
    <2>2. CASE Activity!ReadActivity
        <3>1. PICK a : a = Activity!Activity(stats.now - StatsWindow, stats.now)
            OBVIOUS
        <3>2. SumsCovered(a)
            BY <1>2, <3>1, ActivityCovered
        <3>3. stats.at = "reading" /\ stats' = Reading(stats.now, a, stats.positions, stats.slot)
            BY <1>4, <2>2, <3>1 DEF Activity!ReadActivity, Reading
        <3>4. /\ stats'.now = stats.now /\ stats'.activity = a /\ stats'.positions = stats.positions
              /\ stats'.slot = stats.slot
            BY <3>3 DEF Reading
        <3> QED BY <1>1, <1>4, <3>2, <3>3, <3>4 DEF StatsOK
    <2>3. CASE Activity!ReadPositions
        <3>1. PICK s : s = {e \in canonical : Activity!Leverage(e)}
            OBVIOUS
        <3>2. PositionsCovered(s, cursor.slot)
            BY <1>2, <3>1 DEF PositionsCovered, TablesOK, ActivityConstants
        <3>3. /\ stats.at = "reading" /\ stats.positions = None
              /\ stats' = Reading(stats.now, stats.activity, s, stats.slot)
            BY <1>4, <2>3, <3>1 DEF Activity!ReadPositions, Reading
        <3>4. /\ stats'.now = stats.now /\ stats'.activity = stats.activity /\ stats'.positions = s
              /\ stats'.slot = stats.slot
            BY <3>3 DEF Reading
        <3>5. stats.slot = None
            BY <1>4, <3>3
        <3> QED BY <1>1, <1>4, <3>2, <3>3, <3>4, <3>5 DEF StatsOK
    <2>4. CASE Activity!ReadCursor
        <3>1. /\ stats.at = "reading" /\ stats.positions # None
              /\ stats' = Reading(stats.now, stats.activity, stats.positions, cursor.slot)
            BY <1>4, <2>4 DEF Activity!ReadCursor, Activity!CursorAfter, Reading
        <3>2. /\ stats'.now = stats.now /\ stats'.activity = stats.activity
              /\ stats'.positions = stats.positions /\ stats'.slot = cursor.slot
            BY <3>1 DEF Reading
        <3> QED BY <1>1, <1>2, <1>4, <3>1, <3>2 DEF StatsOK
    <2>5. CASE Activity!Show
        <3>1. PICK shown :
                 /\ SumsCovered(shown)
                 /\ stats' = [at |-> "shown", activity |-> shown, positions |-> stats.positions,
                              sourceSlot |-> Activity!Max({stats.slot, Activity!LastSlot(shown)})]
            <4>1. SumsCovered(stats.activity)
                BY <1>4, <2>5 DEF Activity!Show
            <4>2. \A since, until : SumsCovered(Activity!Activity(since, until))
                BY <1>2, ActivityCovered
            <4>3. PICK shown :
                     /\ shown = stats.activity \/ \E since, until : shown = Activity!Activity(since, until)
                     /\ stats' = [at |-> "shown", activity |-> shown, positions |-> stats.positions,
                                  sourceSlot |-> Activity!Max({stats.slot, Activity!LastSlot(shown)})]
                BY <2>5 DEF Activity!Show
            <4> QED BY <4>1, <4>2, <4>3
        <3>2. stats.slot \in Nat /\ PositionsCovered(stats.positions, stats.slot)
            BY <1>4, <2>5 DEF Activity!Show
        <3>3. Activity!LastSlot(shown) = shown.through.slot /\ shown.through.slot \in Nat
            <4> DEFINE S == {EventSlot[e] : e \in DOMAIN shown.sums} \cup {shown.through.slot}
            <4>1. S \subseteq Nat /\ shown.through.slot \in S /\ \A x \in S : x <= shown.through.slot
                BY <3>1 DEF SumsCovered
            <4> HIDE DEF S
            <4>2. Activity!Max(S) = shown.through.slot
                BY <4>1, LargestIs
            <4> QED BY <3>1, <4>2 DEF S, Activity!LastSlot, SumsCovered
        <3> DEFINE source == Activity!Max({stats.slot, Activity!LastSlot(shown)})
        <3>4. source \in Nat /\ stats.slot <= source /\ shown.through.slot <= source
            BY <3>2, <3>3, LargerIs
        <3> HIDE DEF source
        <3>5. /\ stats'.at = "shown" /\ stats'.activity = shown /\ stats'.positions = stats.positions
              /\ stats'.sourceSlot = source
            BY <3>1 DEF source
        <3>6. \A e \in stats.positions : EventSlot[e] <= source
            BY <3>2, <3>4 DEF PositionsCovered
        <3>7. \A e \in DOMAIN shown.sums : EventSlot[e] <= source
            BY <3>1, <3>3, <3>4 DEF SumsCovered
        <3> QED BY <3>5, <3>6, <3>7 DEF StatsOK, Activity!StatisticsCovered
    <2> QED BY <2>1, <2>2, <2>3, <2>4, <2>5
<1> QED BY <1>2, <1>3, <1>5 DEF ActivityInv

LEMMA ActivityNext ==
    ASSUME ActivityConstants, ActivityInv, [Activity!Next]_Activity!vars
    PROVE  ActivityInv'
<1>1. CASE UNCHANGED Activity!vars
    <2>1. UNCHANGED <<answer, stats, clock, cursor, writing, canonical, streamed, projected, prices, late>>
        BY <1>1 DEF Activity!vars, Activity!storeVars
    <2>2. TablesOK' /\ cursor.slot \in Nat /\ cursor.time \in Nat
        BY <2>1 DEF ActivityInv, TablesOK
    <2> QED BY <2>1, <2>2, AnswerKeeps, StatsKeep DEF ActivityInv
<1>2. CASE /\ UNCHANGED <<answer, stats>>
           /\ \/ Activity!Tick \/ Activity!Daemon \/ Activity!ProjectBatch
              \/ \E q \in ProviderQuotes : Activity!Quote(q)
    BY <1>2, TableStep DEF Activity!Daemon
<1>3. Activity!Tick \/ Activity!Daemon \/ Activity!ProjectBatch
         \/ (\E q \in ProviderQuotes : Activity!Quote(q)) => UNCHANGED <<answer, stats>>
    BY DEF Activity!Tick, Activity!Daemon, Activity!ProjectBatch, Activity!Quote, Activity!Advance,
       Activity!WriteCanonical, Activity!WriteStream, Activity!Touch
<1> QED BY <1>1, <1>2, <1>3, AnswerGiven, StatsStep DEF Activity!Next

LEMMA ActivitySteps == [Next]_vars => [Activity!Next]_Activity!vars
BY DEF Next, DrainStep, CaptureStep, ValuationStep, ActivityStep, RatesStep, BookStep,
       LeverageStep, WalletStep, vars, activityVars, Activity!vars, Activity!storeVars

\* What a complete answer summed, at the prices it found, is what its window gives
\* for good, however the daemon, its catch-up, the providers and the projection go
\* on, but for rows written behind the cursor's time (duskHistoryCoverage.ts); and
\* no event behind the statistics is of a slot beyond theirs
\* (duskStatisticsSnapshot.ts).
THEOREM CompleteStays == Spec => []CompleteIsFinal
<1>1. ActivityInv => CompleteIsFinal
    BY DEF ActivityInv, AnswerStands, StatsOK, Reading, CompleteIsFinal, Activity!CompleteIsFinal,
       Activity!StatisticsCovered
<1>2. Init => ActivityInv
    BY ActivityInit, ActivityAssumption DEF Init
<1>3. ActivityInv /\ [Next]_vars => ActivityInv'
    BY ActivityNext, ActivitySteps, ActivityAssumption
<1> QED BY <1>1, <1>2, <1>3, PTL DEF Spec

-----------------------------------------------------------------------------
(* The trailing rate: a window is measured from end to end.                 *)

\* Rows are numbered as they arrive.
RatesInv ==
    /\ ticks \in Nat
    /\ Rates!Arrived \subseteq Measured
    /\ \A s \in Rates!Arrived :
          stored[s].time \in Nat /\ stored[s].id \in 1..Cardinality(Rates!Arrived)
    /\ \A r, s \in Rates!Arrived : stored[r].id = stored[s].id => r = s

\* ORDER BY slot, observation_id is a strict order of the rows, and total.
LEMMA RowsAreOrdered ==
    ASSUME RatesConstants, RatesInv
    PROVE  \A r, s \in Rates!Arrived :
              /\ r # s => Rates!Precedes(r, s) \/ Rates!Precedes(s, r)
              /\ ~(Rates!Precedes(r, s) /\ Rates!Precedes(s, r))
<1> SUFFICES ASSUME NEW r \in Rates!Arrived, NEW s \in Rates!Arrived
             PROVE  /\ r # s => Rates!Precedes(r, s) \/ Rates!Precedes(s, r)
                    /\ ~(Rates!Precedes(r, s) /\ Rates!Precedes(s, r))
    OBVIOUS
<1>1. r \in Measured /\ s \in Measured
    BY DEF RatesInv
<1>2. MeasuredSlot[r] \in Nat /\ MeasuredSlot[s] \in Nat
    BY <1>1 DEF RatesConstants
<1>3. stored[r].id \in Int /\ stored[s].id \in Int
    BY DEF RatesInv
<1>4. r # s => stored[r].id # stored[s].id
    BY DEF RatesInv
<1> QED BY <1>2, <1>3, <1>4 DEF Rates!Precedes

LEMMA RatesCardinality == \A S : Rates!Cardinality(S) = Cardinality(S)
BY DEF Rates!Cardinality, Cardinality, Rates!IsFiniteSet, IsFiniteSet

LEMMA RowsAreFinite ==
    ASSUME RatesConstants, RatesInv
    PROVE  IsFiniteSet(Rates!Arrived) /\ Cardinality(Rates!Arrived) \in Nat
<1>1. PICK n \in Nat : Measured = 1..n
    BY FS_CardinalityType DEF RatesConstants
<1>2. IsFiniteSet(Measured)
    BY <1>1, FS_Interval
<1>3. Rates!Arrived \subseteq Measured
    BY DEF RatesInv
<1>4. IsFiniteSet(Rates!Arrived)
    BY <1>2, <1>3, FS_Subset
<1> QED BY <1>4, FS_CardinalityType

\* ORDER BY ... DESC LIMIT 1 finds the last of any rows.
LEMMA LastRow ==
    ASSUME RatesConstants, RatesInv, NEW S \in SUBSET Rates!Arrived, S # {}
    PROVE  /\ Rates!Last(S) \in S
           /\ \A s \in S \ {Rates!Last(S)} : Rates!Precedes(s, Rates!Last(S))
<1>1. PICK n \in Nat : Measured = 1..n
    BY FS_CardinalityType DEF RatesConstants
<1>2. S \subseteq 0..n
    BY <1>1 DEF RatesInv
<1>3. PICK m \in S : \A s \in S : s <= m
    BY <1>2, MaxExists
<1>4. \A s \in S : s \in Measured /\ MeasuredSlot[s] \in Nat /\ MeasuredSlot[s] <= MeasuredSlot[m]
    BY <1>3 DEF RatesInv, RatesConstants
<1> DEFINE T == {s \in S : MeasuredSlot[s] = MeasuredSlot[m]}
           I == {stored[s].id : s \in T}
<1>5. Cardinality(Rates!Arrived) \in Nat
    BY RowsAreFinite
<1>6. I \subseteq 0..Cardinality(Rates!Arrived) /\ I # {}
    <2>1. \A s \in T : stored[s].id \in 0..Cardinality(Rates!Arrived)
        BY <1>5 DEF RatesInv
    <2> QED BY <1>3, <2>1
<1>7. PICK i \in I : \A j \in I : j <= i
    <2> HIDE DEF I
    <2> QED BY <1>5, <1>6, MaxExists
<1>8. PICK top \in T : stored[top].id = i
    BY <1>7
<1>9. ASSUME NEW s \in S, s # top PROVE Rates!Precedes(s, top)
    <2>1. MeasuredSlot[top] = MeasuredSlot[m] /\ top \in Rates!Arrived /\ s \in Rates!Arrived
        BY <1>8
    <2>2. stored[s].id # stored[top].id /\ stored[s].id \in Int /\ stored[top].id \in Int
        BY <1>9, <2>1 DEF RatesInv
    <2>3. CASE s \in T
        <3>1. stored[s].id <= stored[top].id
            BY <1>7, <1>8, <2>3
        <3> QED BY <2>1, <2>2, <2>3, <3>1 DEF Rates!Precedes
    <2>4. CASE s \notin T
        BY <1>4, <1>3, <2>1, <2>4 DEF Rates!Precedes
    <2> QED BY <2>3, <2>4
<1>10. \E t \in S : \A s \in S \ {t} : Rates!Precedes(s, t)
    BY <1>8, <1>9
<1> QED BY <1>10 DEF Rates!Last

LEMMA RatesInit == ASSUME RatesConstants, Rates!Init PROVE RatesInv
BY DEF RatesInv, Rates!Init, Rates!Arrived

LEMMA RatesNext ==
    ASSUME RatesConstants, RatesInv, [Rates!Next]_Rates!vars
    PROVE  RatesInv'
<1>1. CASE Rates!Tick
    BY <1>1 DEF RatesInv, Rates!Tick, Rates!Arrived
<1>2. CASE Rates!Refresh \/ UNCHANGED Rates!vars
    BY <1>2 DEF RatesInv, Rates!Refresh, Rates!vars, Rates!Arrived
<1>3. ASSUME NEW s \in Measured, NEW time \in Rates!Times, time \in {ticks, MeasuredTime[s]},
             Rates!Store(s, time)
      PROVE  RatesInv'
    <2> DEFINE A == Rates!Arrived
               n == Cardinality(A)
    <2>1. s \notin A /\ A' = A \cup {s}
        BY <1>3 DEF Rates!Store, Rates!Arrived
    <2>2. n \in Nat /\ Cardinality(A') = n + 1
        <3>1. IsFiniteSet(A)
            BY RowsAreFinite
        <3> QED BY <2>1, <3>1, FS_AddElement, FS_CardinalityType
    <2>3. time \in Nat /\ ticks' = ticks
        BY <1>3 DEF RatesInv, RatesConstants, Rates!Store
    <2>4. \A r \in A : stored'[r] = stored[r] /\ stored[r].id \in 1..n /\ stored[r].time \in Nat
        BY <1>3, <2>1 DEF Rates!Store, RatesInv
    <2>5. stored'[s] = [time |-> time, id |-> 1 + n]
        <3> DEFINE row == [time |-> time, id |-> 1 + n]
        <3>1. stored' = [r \in A \cup {s} |-> IF r = s THEN row ELSE stored[r]]
            BY <1>3, RatesCardinality DEF Rates!Store
        <3> HIDE DEF row, A
        <3> QED BY <3>1 DEF row
    <2> HIDE DEF n
    <2>6. \A r \in A' : stored'[r].time \in Nat /\ stored'[r].id \in 1..(n + 1)
        BY <2>1, <2>2, <2>3, <2>4, <2>5
    <2>7. \A q, r \in A' : stored'[q].id = stored'[r].id => q = r
        <3> SUFFICES ASSUME NEW q \in A', NEW r \in A', stored'[q].id = stored'[r].id PROVE q = r
            OBVIOUS
        <3>1. \A t \in A : stored'[t].id # stored'[s].id
            BY <2>2, <2>4, <2>5
        <3>2. \A t, u \in A : stored'[t].id = stored'[u].id => t = u
            BY <2>4 DEF RatesInv
        <3> QED BY <2>1, <3>1, <3>2
    <2>8. A' \subseteq Measured
        BY <2>1 DEF RatesInv
    <2> QED BY <2>2, <2>3, <2>6, <2>7, <2>8 DEF RatesInv
<1> QED BY <1>1, <1>2, <1>3 DEF Rates!Next

\* A row chosen by time is among the rows of that time, and none is later.
LEMMA BoundaryRow ==
    ASSUME RatesConstants, RatesInv, NEW t \in Int, Rates!At(t) # None
    PROVE  /\ Rates!At(t) \in Rates!Arrived /\ stored[Rates!At(t)].time <= t
           /\ \A s \in Rates!Arrived : stored[s].time <= t =>
                 s = Rates!At(t) \/ Rates!Precedes(s, Rates!At(t))
<1> DEFINE S == {s \in Rates!Arrived : stored[s].time <= t}
<1>1. S # {}
    BY DEF Rates!At, Rates!Last
<1> QED BY <1>1, LastRow DEF Rates!At

\* A boundary is priced by its own snapshot.
LEMMA BoundaryPrice ==
    ASSUME RatesConstants, RatesInv, NEW t \in Int, Rates!At(t) # None
    PROVE  Rates!PriceOf(Rates!At(t)) = Rates!At(t)
<1> DEFINE s == Rates!At(t)
           P == {r \in Rates!Arrived : MeasuredSlot[r] <= MeasuredSlot[s] /\ stored[r].time <= stored[s].time}
           p == Rates!Last(P)
<1>1. s \in Rates!Arrived /\ stored[s].time <= t
    BY BoundaryRow
<1>2. MeasuredSlot[s] \in Nat /\ \A r \in Rates!Arrived : stored[r].time \in Nat
    BY <1>1 DEF RatesInv, RatesConstants
<1>3. s \in P /\ P \subseteq Rates!Arrived
    BY <1>1, <1>2
<1>4. p \in P /\ \A r \in P \ {p} : Rates!Precedes(r, p)
    <2> HIDE DEF P, s
    <2> QED BY <1>3, LastRow
<1>5. stored[p].time <= t /\ p \in Rates!Arrived
    BY <1>1, <1>2, <1>4
<1>6. p = s \/ Rates!Precedes(p, s)
    BY <1>5, BoundaryRow
<1>7. p = s \/ Rates!Precedes(s, p)
    BY <1>3, <1>4
<1> HIDE DEF p, s, P
<1>8. p = s
    BY <1>1, <1>5, <1>6, <1>7, RowsAreOrdered
<1> QED BY <1>8 DEF p, s, P, Rates!PriceOf

LEMMA WindowIsMeasured ==
    ASSUME RatesConstants, RatesInv, NEW since \in Int, NEW until \in Int, since < until
    PROVE  Rates!WindowMeasures(since, until)
<1> DEFINE start == Rates!At(since)
           end == Rates!At(until)
<1> SUFFICES ASSUME start # None
             PROVE  /\ \A s \in Rates!Arrived :
                          since < stored[s].time /\ stored[s].time <= until
                          /\ MeasuredSlot[start] < MeasuredSlot[s] =>
                             Rates!Bracketed(start, end) /\ MeasuredSlot[s] <= MeasuredSlot[end]
                    /\ Rates!Bracketed(start, end) =>
                          /\ Rates!Measures(start, end)
                          /\ Rates!PriceOf(start) = start /\ Rates!PriceOf(end) = end
    BY DEF Rates!WindowMeasures
<1>1. /\ start \in Rates!Arrived /\ stored[start].time <= since
      /\ \A s \in Rates!Arrived : stored[s].time <= since => s = start \/ Rates!Precedes(s, start)
    BY BoundaryRow
<1>2. \A s \in Rates!Arrived : s \in Measured /\ MeasuredSlot[s] \in Nat /\ stored[s].time \in Nat
    BY DEF RatesInv, RatesConstants
<1>3. end # None =>
        /\ end \in Rates!Arrived /\ stored[end].time <= until
        /\ \A s \in Rates!Arrived : stored[s].time <= until => s = end \/ Rates!Precedes(s, end)
    BY BoundaryRow
<1>4. ASSUME NEW s \in Rates!Arrived, stored[s].time <= until
      PROVE  end # None
    <2> DEFINE S == {r \in Rates!Arrived : stored[r].time <= until}
    <2>1. S # {}
        BY <1>4
    <2>2. Rates!Last(S) \in S
        BY <2>1, LastRow
    <2> QED BY <1>2, <2>2 DEF Rates!At, RatesConstants
<1>5. Rates!PriceOf(start) = start /\ (end # None => Rates!PriceOf(end) = end)
    BY BoundaryPrice
<1> HIDE DEF start, end
<1>6. ASSUME NEW s \in Rates!Arrived, stored[s].time <= until
      PROVE  MeasuredSlot[s] <= MeasuredSlot[end]
    BY <1>2, <1>3, <1>4, <1>6 DEF Rates!Precedes
<1>7. ASSUME Rates!Bracketed(start, end) PROVE Rates!Measures(start, end)
    <2>1. end \in Rates!Arrived /\ MeasuredSlot[start] < MeasuredSlot[end]
        BY <1>3, <1>7 DEF Rates!Bracketed
    <2>2. ~(stored[end].time <= since)
        <3>1. ~Rates!Precedes(end, start) /\ end # start
            BY <1>1, <1>2, <2>1 DEF Rates!Precedes
        <3> QED BY <1>1, <2>1, <3>1
    <2>3. stored[start].time < stored[end].time
        BY <1>1, <1>2, <2>1, <2>2
    <2>4. start <= end
        <3>1. end <= start => MeasuredSlot[end] <= MeasuredSlot[start]
            BY <1>1, <1>2, <2>1 DEF RatesConstants
        <3>2. start \in Int /\ end \in Int
            BY <1>1, <1>2, <2>1, FS_CardinalityType DEF RatesConstants
        <3> QED BY <1>1, <1>2, <2>1, <3>1, <3>2
    <2> QED BY <2>3, <2>4 DEF Rates!Measures
<1>8. ASSUME NEW s \in Rates!Arrived, stored[s].time <= until, MeasuredSlot[start] < MeasuredSlot[s]
      PROVE  Rates!Bracketed(start, end)
    <2>1. end \in Rates!Arrived
        BY <1>3, <1>4, <1>8
    <2> QED BY <1>1, <1>2, <1>4, <1>6, <1>8, <2>1 DEF Rates!Bracketed
<1> QED BY <1>2, <1>5, <1>6, <1>7, <1>8 DEF Rates!Bracketed

LEMMA RatesSteps == [Next]_vars => [Rates!Next]_Rates!vars
BY DEF Next, DrainStep, CaptureStep, ValuationStep, ActivityStep, RatesStep, BookStep,
       LeverageStep, WalletStep, vars, quoteVars, rateVars, Rates!vars

\* Whatever order the daemon and its catch-up store swaps in, a window's ends that
\* are bracketed measure it: what was stored in it lies between them, time passed,
\* growth did not regress, and each end is priced by its own snapshot
\* (duskYieldRates.ts); and a trailing rate is unknown only to a market that was
\* first swapped inside its window.
THEOREM RatesMeasureHolds == Spec => []RatesMeasure
<1>1. RatesInv => RatesMeasure
    <2> SUFFICES ASSUME RatesInv PROVE Rates!RatesMeasure
        BY DEF RatesMeasure
    <2>1. \A since, until \in Rates!Times : since < until => Rates!WindowMeasures(since, until)
        BY WindowIsMeasured, RatesAssumption DEF Rates!Times
    <2>2. ASSUME Rates!Trailing(ticks).growth = "unknown" PROVE Rates!At(ticks - RateWindow) = None
        <3> DEFINE since == ticks - RateWindow
                   start == Rates!Start(since, ticks)
                   end == Rates!At(ticks)
        <3>1. since \in Int /\ ticks \in Int /\ since < ticks
            BY RatesAssumption DEF RatesInv, RatesConstants
        <3>2. Rates!WindowMeasures(since, ticks)
            BY <3>1, WindowIsMeasured, RatesAssumption
        <3>3. Rates!Bracketed(start, end) /\ ~Rates!Measures(start, end)
            BY <2>2 DEF Rates!Trailing
        <3>4. Rates!At(since) # None => start = Rates!At(since)
            BY DEF Rates!Start
        <3> QED BY <3>2, <3>3, <3>4 DEF Rates!WindowMeasures
    <2> QED BY <2>1, <2>2 DEF Rates!RatesMeasure
<1>2. Init => RatesInv
    BY RatesInit, RatesAssumption DEF Init
<1>3. RatesInv /\ [Next]_vars => RatesInv'
    BY RatesNext, RatesSteps, RatesAssumption
<1> QED BY <1>1, <1>2, <1>3, PTL DEF Spec

-----------------------------------------------------------------------------
(* The depth of a market beside its orders.                                 *)

BookSlots == 1..MaxBookSlot

\* The levels of a batch, and what a bank makes of one.
IsPreviews(b) == b \in Seq(Nat) /\ Len(b) >= 1

Executes(slot) == Accepts[history.market[slot]]

\* Every level is asked for still, was quoted, or was refused on its own.
DepthOK(floor, todo, results) ==
    /\ \A b \in todo : IsPreviews(b)
    /\ \A q \in results : q.slot \in floor..MaxBookSlot /\ q.levels \subseteq Executes(q.slot)
    /\ \A l \in Levels :
          \/ \E b \in todo : l \in Book!Range(b)
          \/ \E q \in results : l \in q.levels
          \/ \E s \in floor..MaxBookSlot : l \notin Executes(s)

Working(at, slot, floor, todo, results) ==
    [at |-> at, slot |-> slot, floor |-> floor, todo |-> todo, results |-> results]

Holding(at, slot, snapshot) == [at |-> at, slot |-> slot, snapshot |-> snapshot]

\* What a snapshot is known for, so that an envelope can cover it.
SnapshotOK(snapshot) ==
    /\ Book!SnapshotIsWhole(snapshot)
    /\ snapshot.depth.last \in BookSlots
    /\ snapshot.orders # None => snapshot.orders.slot \in BookSlots

RequestWhole(b) ==
    \/ b = Book!Idle
    \/ \E slot \in BookSlots : b = [at |-> "asked", slot |-> slot]
    \/ \E slot, floor \in BookSlots : \E todo, results :
          /\ \/ /\ b = Working("market", slot, floor, todo, results)
                /\ todo = Book!Batches /\ results = {}
             \/ b = Working("quoting", slot, floor, todo, results)
          /\ DepthOK(floor, todo, results)
    \/ \E slot \in BookSlots : \E snapshot :
          /\ SnapshotOK(snapshot)
          /\ \/ b = Holding("computed", slot, snapshot)
             \/ b = Holding("delivered", slot, snapshot) /\ Book!Covered(slot, snapshot)

OffersWhole(o) == o # None => SnapshotOK(o)

BookInv == history \in Histories /\ OffersWhole(offered) /\ RequestWhole(book)

-----------------------------------------------------------------------------

\* The ends of a set of slots.
LEMMA Ends ==
    ASSUME NEW n \in Nat, NEW S, S \subseteq 0..n, S # {}
    PROVE  /\ Book!Max(S) \in S /\ \A x \in S : x <= Book!Max(S)
           /\ Book!Min(S) \in S /\ \A x \in S : Book!Min(S) <= x
<1>1. Book!Max(S) \in S /\ \A x \in S : x <= Book!Max(S)
    <2>1. PICK m \in S : \A x \in S : m >= x
        BY MaxExists
    <2> QED BY <2>1 DEF Book!Max
<1>2. Book!Min(S) \in S /\ \A x \in S : Book!Min(S) <= x
    <2>1. S \subseteq Nat
        OBVIOUS
    <2>2. PICK m \in S : \A x \in S : <<x, m>> \notin OpToRel(<, Nat)
        BY <2>1, WFMin, NatLessThanWellFounded
    <2>3. \A x \in S : ~(x < m)
        BY <2>1, <2>2 DEF OpToRel
    <2>4. \A x \in S : m <= x
        <3> SUFFICES ASSUME NEW x \in S PROVE m <= x
            OBVIOUS
        <3>1. x \in Nat /\ m \in Nat /\ ~(x < m)
            BY <2>1, <2>3
        <3> QED BY <3>1
    <2> QED BY <2>4 DEF Book!Min
<1> QED BY <1>1, <1>2

\* The last of two numbers.
LEMMA Later ==
    ASSUME NEW x \in Nat, NEW y \in Nat
    PROVE  Book!Max({x, y}) \in {x, y} /\ x <= Book!Max({x, y}) /\ y <= Book!Max({x, y})
<1>1. {x, y} \subseteq 0..(x + y) /\ x + y \in Nat
    OBVIOUS
<1> QED BY <1>1, Ends

\* Adding the divisor does not change a remainder.
LEMMA ModShift ==
    ASSUME NEW n \in Nat \ {0}, NEW j \in Nat
    PROVE  (j + n) % n = j % n
<1> DEFINE q == j \div n r == j % n
<1>1. q \in Int /\ r \in 0..(n - 1) /\ j = n * q + r
    BY SMTT(20)
<1>2. j + n = n * (q + 1) + r
    BY <1>1
<1> HIDE DEF q, r
<1>3. (n * (q + 1) + r) % n = r
    BY <1>1, SMTT(20)
<1> QED BY <1>2, <1>3 DEF r

LEMMA BookCardinality == \A S : Book!Cardinality(S) = Cardinality(S)
BY DEF Book!Cardinality, Cardinality, Book!IsFiniteSet, IsFiniteSet

\* The batches of the curve hold every level, and only levels.
LEMMA BatchesCover ==
    ASSUME BookConstants
    PROVE  /\ \A b \in Book!Batches : IsPreviews(b)
           /\ \A l \in Levels : \E b \in Book!Batches : l \in Book!Range(b)
<1>1. PICK n \in Nat : Levels = 1..n
    BY FS_CardinalityType DEF BookConstants
<1>2. Cardinality(Levels) = n
    BY <1>1, FS_Interval
<1> DEFINE seq == [i \in 1..n |-> i]
           end(i) == Book!Min({i + PerBatch - 1, n})
           starts == {j \in 1..n : j % PerBatch = 1 % PerBatch}
<1>3. Book!Batches = {SubSeq(seq, i, end(i)) : i \in starts}
    <2>1. Len(seq) = n
        BY <1>1
    <2> QED BY <1>2, <2>1, BookCardinality DEF Book!Batches, Book!Chunks
<1>4. PerBatch \in Nat \ {0}
    BY DEF BookConstants
<1>5. ASSUME NEW i \in starts
      PROVE  /\ end(i) \in Nat /\ i <= end(i) /\ end(i) <= n
             /\ \A l \in 1..n : l <= i + PerBatch - 1 => l <= end(i)
    <2>1. i + PerBatch - 1 \in Nat /\ i <= i + PerBatch - 1
        BY <1>4
    <2> DEFINE S == {i + PerBatch - 1, n}
    <2>2. S \subseteq 0..(i + PerBatch + n) /\ S # {} /\ i + PerBatch + n \in Nat
        BY <1>4, <2>1
    <2>3. end(i) \in S /\ end(i) <= n /\ end(i) <= i + PerBatch - 1
        BY <2>2, Ends
    <2> HIDE DEF end
    <2>4. i \in Nat /\ i <= n
        OBVIOUS
    <2> QED BY <2>1, <2>3, <2>4
<1>6. ASSUME NEW i \in starts
      PROVE  /\ IsPreviews(SubSeq(seq, i, end(i)))
             /\ \A l \in i..end(i) : l \in Book!Range(SubSeq(seq, i, end(i)))
    <2> DEFINE e == end(i) b == SubSeq(seq, i, e)
    <2>0. i \in Nat /\ 1 <= i
        OBVIOUS
    <2> HIDE DEF end, starts, b, seq
    <2>1. e \in Nat /\ i <= e /\ e <= n /\ i \in Nat /\ 1 <= i
        BY <1>5, <2>0
    <2> USE DEF seq, b
    <2> HIDE DEF e
    <2>2. \A k \in i..e : seq[k] \in Nat /\ seq[k] = k
        BY <2>1
    <2>3. /\ b \in Seq(Nat) /\ Len(b) = e - i + 1
          /\ \A k \in 1..(e - i + 1) : b[k] = seq[i + k - 1]
        <3> HIDE DEF seq
        <3> QED BY <2>1, <2>2, SubSeqProperties
    <2> HIDE DEF b, seq
    <2>4. ASSUME NEW l \in i..e PROVE l \in Book!Range(b)
        <3>1. l - i + 1 \in 1..(e - i + 1) /\ i + (l - i + 1) - 1 = l
            BY <2>1
        <3>2. b[l - i + 1] = l /\ l - i + 1 \in DOMAIN b
            BY <2>2, <2>3, <3>1
        <3> QED BY <3>2 DEF Book!Range
    <2>5. IsPreviews(b)
        BY <2>1, <2>3 DEF IsPreviews
    <2> QED BY <2>4, <2>5 DEF b, e
<1>7. ASSUME NEW l \in 1..n PROVE \E i \in starts : l \in i..end(i)
    <2> DEFINE J == {j \in 1..l : j % PerBatch = 1 % PerBatch}
    <2>1. J \subseteq 0..l /\ 1 \in J /\ l \in Nat
        OBVIOUS
    <2>2. PICK i \in J : \A j \in J : i >= j
        <3> HIDE DEF J
        <3> QED BY <2>1, MaxExists
    <2>3. i \in starts /\ i <= l /\ i \in Nat
        BY <2>2
    <2>4. l <= i + PerBatch - 1
        <3> SUFFICES ASSUME i + PerBatch <= l PROVE FALSE
            BY <1>4, <2>1, <2>3
        <3>1. (i + PerBatch) % PerBatch = i % PerBatch
            BY <1>4, <2>3, ModShift
        <3>2. i + PerBatch \in 1..l
            BY <1>4, <2>1, <2>3
        <3>3. i + PerBatch \in J
            BY <2>2, <3>1, <3>2
        <3>4. i >= i + PerBatch
            BY <2>2, <3>3
        <3> QED BY <1>4, <2>3, <3>4
    <2>5. l <= end(i) /\ end(i) \in Nat
        BY <1>5, <2>3, <2>4
    <2> HIDE DEF end, starts, J
    <2> QED BY <2>1, <2>3, <2>5
<1> HIDE DEF end, starts, seq
<1>8. \A l \in Levels : \E b \in Book!Batches : l \in Book!Range(b)
    BY <1>1, <1>3, <1>6, <1>7
<1> QED BY <1>3, <1>6, <1>8

-----------------------------------------------------------------------------

\* A batch that is quoted is executed; one that is refused alone is not.
LEMMA OutcomeIs ==
    ASSUME BookConstants, history \in Histories, NEW b, IsPreviews(b), NEW slot \in BookSlots
    PROVE  /\ Book!Outcome(b, slot) = "quoted" => Book!Range(b) \subseteq Executes(slot)
           /\ Book!Outcome(b, slot) = "unquotable" /\ ~(Len(b) > 1) =>
                 \A l \in Book!Range(b) : l \notin Executes(slot)
<1> DEFINE fits == Fits[history.market[slot]]
           refused == {i \in 1..Len(b) : b[i] \notin Executes(slot)}
<1>1. fits \in Nat
    BY DEF BookConstants, BookSlots
<1>2. Len(b) \in Nat /\ Len(b) >= 1 /\ DOMAIN b = 1..Len(b)
    BY DEF IsPreviews
<1>3. Book!Outcome(b, slot) = IF \E i \in refused : i <= fits THEN "unquotable"
                              ELSE IF Len(b) > fits THEN "exhausted" ELSE "quoted"
    BY DEF Book!Outcome, Executes
<1> HIDE DEF fits
<1>4. ASSUME Book!Outcome(b, slot) = "quoted" PROVE Book!Range(b) \subseteq Executes(slot)
    <2>1. ~(\E i \in refused : i <= fits) /\ ~(Len(b) > fits)
        BY <1>3, <1>4
    <2>2. ASSUME NEW i \in 1..Len(b) PROVE b[i] \in Executes(slot)
        BY <1>1, <1>2, <2>1
    <2> QED BY <1>2, <2>2 DEF Book!Range
<1>5. ASSUME Book!Outcome(b, slot) = "unquotable", ~(Len(b) > 1)
      PROVE  \A l \in Book!Range(b) : l \notin Executes(slot)
    <2>1. \E i \in refused : i <= fits
        BY <1>3, <1>5
    <2>2. Len(b) = 1
        BY <1>2, <1>5
    <2>3. b[1] \notin Executes(slot)
        BY <2>1, <2>2
    <2> QED BY <1>2, <2>2, <2>3 DEF Book!Range
<1> QED BY <1>4, <1>5

\* What a batch is divided into holds what it held.
LEMMA SinglesHold ==
    ASSUME NEW b, IsPreviews(b)
    PROVE  /\ \A c \in Book!Singles(b) : IsPreviews(c)
           /\ \A l \in Book!Range(b) : \E c \in Book!Singles(b) : l \in Book!Range(c)
<1>1. DOMAIN b = 1..Len(b) /\ \A i \in 1..Len(b) : b[i] \in Nat
    BY DEF IsPreviews
<1>2. \A i \in 1..Len(b) : IsPreviews(<<b[i]>>) /\ b[i] \in Book!Range(<<b[i]>>)
    BY <1>1 DEF IsPreviews, Book!Range
<1> QED BY <1>1, <1>2 DEF Book!Singles, Book!Range

LEMMA HalvesHold ==
    ASSUME NEW b, IsPreviews(b), Len(b) > 1
    PROVE  /\ \A c \in Book!Halves(b) : IsPreviews(c)
           /\ \A l \in Book!Range(b) : \E c \in Book!Halves(b) : l \in Book!Range(c)
<1> DEFINE n == Len(b)
           half == (n + 1) \div 2
           left == SubSeq(b, 1, half)
           right == SubSeq(b, half + 1, n)
<1>1. /\ DOMAIN b = 1..n /\ n \in Nat /\ \A i \in 1..n : b[i] \in Nat
    BY DEF IsPreviews
<1>2. half \in Nat /\ 1 <= half /\ half < n
    BY <1>1
<1> HIDE DEF n, half
<1>3. /\ left \in Seq(Nat) /\ Len(left) = half /\ \A i \in 1..half : left[i] = b[i]
    <2>1. \A i \in 1..half : b[i] \in Nat
        BY <1>1, <1>2
    <2>2. \A i \in 1..(half - 1 + 1) : left[i] = b[1 + i - 1]
        BY <1>2, <2>1, SubSeqProperties
    <2>3. left \in Seq(Nat) /\ Len(left) = half - 1 + 1
        BY <1>2, <2>1, SubSeqProperties
    <2> QED BY <1>2, <2>2, <2>3
<1>4. /\ right \in Seq(Nat) /\ Len(right) = n - half
      /\ \A i \in 1..(n - half) : right[i] = b[half + i]
    <2>1. \A i \in (half + 1)..n : b[i] \in Nat
        BY <1>1, <1>2
    <2>2. \A i \in 1..(n - (half + 1) + 1) : right[i] = b[(half + 1) + i - 1]
        BY <1>1, <1>2, <2>1, SubSeqProperties
    <2>3. right \in Seq(Nat) /\ Len(right) = n - (half + 1) + 1
        BY <1>1, <1>2, <2>1, SubSeqProperties
    <2> QED BY <1>1, <1>2, <2>2, <2>3
<1>5. Book!Halves(b) = {left, right}
    BY DEF Book!Halves, n, half
<1> HIDE DEF left, right
<1>6. IsPreviews(left) /\ IsPreviews(right)
    BY <1>1, <1>2, <1>3, <1>4 DEF IsPreviews
<1>7. ASSUME NEW i \in 1..n PROVE b[i] \in Book!Range(left) \/ b[i] \in Book!Range(right)
    <2>1. CASE i <= half
        <3>1. left[i] = b[i] /\ i \in DOMAIN left
            BY <1>2, <1>3, <2>1
        <3> QED BY <3>1 DEF Book!Range
    <2>2. CASE i > half
        <3>1. i - half \in 1..(n - half) /\ half + (i - half) = i
            BY <1>1, <1>2, <2>2
        <3>2. right[i - half] = b[i] /\ i - half \in DOMAIN right
            BY <1>4, <3>1
        <3> QED BY <3>2 DEF Book!Range
    <2> QED BY <1>1, <1>2, <2>1, <2>2
<1> QED BY <1>1, <1>5, <1>6, <1>7 DEF Book!Range
-----------------------------------------------------------------------------

\* A finite set can be listed, with nothing left out.
LEMMA Listing ==
    ASSUME NEW S, IsFiniteSet(S)
    PROVE  /\ Len(Book!SetToSeq(S)) \in Nat
           /\ Book!SetToSeq(S) \in [1..Len(Book!SetToSeq(S)) -> S]
           /\ \A o \in S : \E i \in 1..Len(Book!SetToSeq(S)) : Book!SetToSeq(S)[i] = o
<1> DEFINE n == Cardinality(S)
           keys == Book!SetToSeq(S)
<1>1. n \in Nat /\ ExistsBijection(1..n, S)
    BY FS_CardinalityType
<1> HIDE DEF n
<1>2. PICK g : g \in Bijection(1..n, S)
    BY <1>1 DEF ExistsBijection
<1>3. g \in [1..n -> S] /\ \A a, b \in 1..n : g[a] = g[b] => a = b
    BY <1>2, Fun_BijectionProperties
<1>4. g \in [1..n -> S] /\ Book!IsInjective(g)
    BY <1>3 DEF Book!IsInjective
<1>5. keys \in [1..n -> S] /\ Book!IsInjective(keys)
    BY <1>4, BookCardinality DEF Book!SetToSeq, n
<1> HIDE DEF keys
<1>6. keys \in Injection(1..n, S)
    <2>1. \A a, b \in 1..n : keys[a] = keys[b] => a = b
        BY <1>5 DEF Book!IsInjective
    <2> QED BY <1>5, <2>1, Fun_IsInj
<1>7. keys \in Surjection(1..n, S)
    <2>1. Cardinality(1..n) = n
        BY <1>1, FS_Interval
    <2>2. Cardinality(1..n) = Cardinality(S)
        BY <2>1 DEF n
    <2>3. Cardinality(1..n) = Cardinality(S) <=> keys \in Surjection(1..n, S)
        BY <1>6, FS_Injection, Zenon
    <2> QED BY <2>2, <2>3
<1>8. \A o \in S : \E i \in 1..n : keys[i] = o
    BY <1>7 DEF Surjection
<1>9. Len(keys) = n
    <2>1. keys \in Seq(S)
        BY <1>1, <1>5, SeqDef
    <2>2. Len(keys) \in Nat /\ DOMAIN keys = 1..Len(keys)
        BY <2>1, LenProperties
    <2> QED BY <1>1, <1>5, <2>2
<1> QED BY <1>1, <1>5, <1>8, <1>9 DEF keys

\* Every order of a list of m is in one of its reads.
LEMMA ReadOf ==
    ASSUME NEW m \in Nat, NEW p \in Nat \ {0}, NEW i \in 1..m
    PROVE  (i - 1) \div p + 1 \in 1..((m + p - 1) \div p) /\ (m + p - 1) \div p \in Nat
OBVIOUS

\* The orders read are each of its own bank, the last of which is the slot of
\* the read; one that is open at every bank of the read is listed.
LEMMA ReadsAreWhole ==
    ASSUME BookConstants, history \in Histories, NEW floor \in BookSlots,
           NEW addresses, IsFiniteSet(addresses),
           NEW orders \in Book!OrderReads(addresses, floor)
    PROVE  /\ orders.slot \in floor..MaxBookSlot
           /\ \A r \in orders.listed :
                 /\ r.slot \in floor..orders.slot /\ Book!Account(r.order, r.slot)
                 /\ r.slot <= history.orders[r.order].expires
           /\ \A o \in orders.heard :
                 (\A s \in floor..orders.slot : Book!Live(o, s)) => \E r \in orders.listed : r.order = o
<1> DEFINE keys == Book!SetToSeq(addresses)
           m == Len(keys)
           reads == (m + PerRead - 1) \div PerRead
           n == Book!Max({1, reads})
           Of(i) == (i - 1) \div PerRead + 1
           Listed(b) == {[order |-> keys[i], slot |-> b[Of(i)]] :
                            i \in {j \in 1..m : Book!Live(keys[j], b[Of(j)])}}
<1>1. MaxBookSlot \in Nat /\ PerRead \in Nat \ {0} /\ floor \in Nat
    BY DEF BookConstants, BookSlots
<1>2. /\ m \in Nat /\ keys \in [1..m -> addresses]
      /\ \A o \in addresses : \E i \in 1..m : keys[i] = o
    BY Listing
<1>3. PICK b \in [1..n -> floor..MaxBookSlot] :
          /\ \A i \in 1..(n - 1) : b[i] <= b[i + 1]
          /\ orders = [slot |-> b[n], heard |-> addresses, listed |-> Listed(b)]
    BY DEF Book!OrderReads, Book!Banks
<1> HIDE DEF keys, m
<1>4. reads \in Nat /\ \A i \in 1..m : Of(i) \in 1..reads
    <2>1. ASSUME NEW i \in 1..m PROVE Of(i) \in 1..reads
        BY <1>1, <1>2, ReadOf
    <2>2. reads \in Nat
        BY <1>1, <1>2
    <2> QED BY <2>1, <2>2
<1> HIDE DEF reads
<1>5. n \in Nat /\ 1 <= n /\ reads <= n
    BY <1>4, Later
<1> HIDE DEF n
<1>6. ASSUME NEW i \in 1..m PROVE Of(i) \in 1..n
    <2>1. Of(i) \in 1..reads
        BY <1>4
    <2> HIDE DEF Of
    <2> QED BY <1>4, <1>5, <2>1
<1> HIDE DEF Of
<1>7. n \in 1..n /\ \A k \in 1..n : b[k] \in Nat /\ floor <= b[k] /\ b[k] <= MaxBookSlot
    BY <1>1, <1>3, <1>5
<1>8. ASSUME NEW k \in 1..n PROVE b[k] <= b[n]
    <2> DEFINE J == {j \in 1..n : ~(b[j] <= b[n])}
    <2> SUFFICES ASSUME J # {} PROVE FALSE
        OBVIOUS
    <2>1. J \subseteq 0..n
        BY <1>5
    <2>2. PICK j \in J : \A i \in J : j >= i
        BY <1>5, <2>1, MaxExists
    <2>3. j \in 1..n /\ ~(b[j] <= b[n]) /\ j # n
        BY <1>7, <2>2
    <2>4. j \in 1..(n - 1) /\ j + 1 \in 1..n
        BY <1>5, <2>3
    <2>5. b[j] <= b[j + 1]
        BY <1>3, <2>4
    <2>6. b[j] \in Nat /\ b[j + 1] \in Nat /\ b[n] \in Nat
        BY <1>7, <2>3, <2>4
    <2>7. ~(b[j + 1] <= b[n])
        BY <2>3, <2>5, <2>6
    <2>8. j + 1 \in J
        BY <2>4, <2>7
    <2>9. j >= j + 1
        BY <2>2, <2>8
    <2> QED BY <2>3, <2>9
<1>9. orders.slot = b[n] /\ orders.heard = addresses /\ orders.listed = Listed(b)
    BY <1>3
<1>10. ASSUME NEW i \in 1..m PROVE b[Of(i)] \in floor..orders.slot
    BY <1>1, <1>6, <1>7, <1>8, <1>9
<1>11. ASSUME NEW r \in orders.listed
       PROVE  /\ r.slot \in floor..orders.slot /\ Book!Account(r.order, r.slot)
              /\ r.slot <= history.orders[r.order].expires
    <2>1. PICK i \in 1..m : r = [order |-> keys[i], slot |-> b[Of(i)]] /\ Book!Live(keys[i], b[Of(i)])
        BY <1>9
    <2>2. r.slot = b[Of(i)] /\ r.order = keys[i] /\ Book!Live(r.order, r.slot)
        BY <2>1
    <2> QED BY <1>10, <2>2 DEF Book!Live
<1>12. ASSUME NEW o \in addresses, \A s \in floor..orders.slot : Book!Live(o, s)
       PROVE  \E r \in orders.listed : r.order = o
    <2>1. PICK i \in 1..m : keys[i] = o
        BY <1>2
    <2>2. Book!Live(keys[i], b[Of(i)])
        BY <1>10, <1>12, <2>1
    <2>3. [order |-> keys[i], slot |-> b[Of(i)]] \in Listed(b)
        BY <2>2
    <2> QED BY <1>9, <2>1, <2>3
<1>13. orders.slot \in floor..MaxBookSlot
    BY <1>1, <1>7, <1>9
<1> QED BY <1>9, <1>11, <1>12, <1>13

\* The previews of one state of the market are a depth of it.
LEMMA DepthIsOne ==
    ASSUME BookConstants, history \in Histories, NEW floor \in BookSlots, NEW results,
           DepthOK(floor, {}, results), Book!Coherent(results), NEW depth,
           depth = Book!Combined(results, floor)
    PROVE  /\ depth.since = floor
           /\ depth.first \in floor..MaxBookSlot /\ depth.last \in depth.first..MaxBookSlot
           /\ depth.levels \subseteq Executes(depth.first)
           /\ history.market[depth.first] = history.market[depth.last]
           /\ \A l \in Levels \ depth.levels :
                 \E s \in Book!Banks(depth.since) : l \notin Accepts[history.market[s]]
<1> DEFINE S == {r.slot : r \in results}
<1>1. /\ depth.since = floor /\ depth.first = Book!Min(S) /\ depth.last = Book!Max(S)
      /\ depth.levels = UNION {r.levels : r \in results}
    BY DEF Book!Combined
<1>2. MaxBookSlot \in Nat /\ floor \in Nat
    BY DEF BookConstants, BookSlots
<1>3. \A q \in results : q.slot \in floor..MaxBookSlot /\ q.levels \subseteq Executes(q.slot)
    BY DEF DepthOK
<1>4. S \subseteq 0..MaxBookSlot /\ S # {}
    <2>1. S # {}
        BY DEF Book!Coherent
    <2>2. ASSUME NEW r \in results PROVE r.slot \in 0..MaxBookSlot
        BY <1>2, <1>3
    <2> QED BY <2>1, <2>2
<1>5. /\ depth.last \in S /\ depth.first \in S /\ depth.first <= depth.last
    <2> HIDE DEF S
    <2>1. /\ Book!Max(S) \in S /\ \A x \in S : x <= Book!Max(S)
          /\ Book!Min(S) \in S
        BY <1>2, <1>4, Ends
    <2> QED BY <1>1, <2>1
<1>6. PICK q \in results : q.slot = depth.first
    BY <1>5
<1>7. PICK r \in results : r.slot = depth.last
    BY <1>5
<1>8. \A x \in results : history.market[x.slot] = history.market[q.slot]
    BY DEF Book!Coherent
<1>9. depth.levels \subseteq Executes(depth.first)
    <2> SUFFICES ASSUME NEW x \in results, NEW l \in x.levels PROVE l \in Executes(depth.first)
        BY <1>1
    <2> QED BY <1>3, <1>6, <1>8 DEF Executes
<1>10. ASSUME NEW l \in Levels \ depth.levels
       PROVE  \E s \in Book!Banks(depth.since) : l \notin Accepts[history.market[s]]
    <2>1. ~(\E x \in results : l \in x.levels)
        BY <1>1
    <2>2. \E s \in floor..MaxBookSlot : l \notin Executes(s)
        BY <2>1 DEF DepthOK
    <2> QED BY <1>1, <2>2 DEF Executes, Book!Banks
<1>11. depth.first \in floor..MaxBookSlot /\ depth.last \in depth.first..MaxBookSlot
    BY <1>2, <1>3, <1>5, <1>6, <1>7
<1>12. history.market[depth.first] = history.market[depth.last]
    BY <1>6, <1>7, <1>8
<1> QED BY <1>1, <1>9, <1>10, <1>11, <1>12

\* What is computed from coherent previews is whole.
LEMMA ComputedIsWhole ==
    ASSUME BookConstants, history \in Histories, NEW floor \in BookSlots,
           NEW results, DepthOK(floor, {}, results),
           Book!Coherent(results), NEW depth, depth = Book!Combined(results, floor),
           NEW orders \in Book!EntryOrders(Book!OrdersFloor(depth)), NEW snapshot,
           snapshot = [depth |-> depth, orders |-> orders]
    PROVE  SnapshotOK(snapshot)
<1>1. /\ depth.since = floor
      /\ depth.first \in floor..MaxBookSlot /\ depth.last \in depth.first..MaxBookSlot
      /\ depth.levels \subseteq Executes(depth.first)
      /\ history.market[depth.first] = history.market[depth.last]
      /\ \A l \in Levels \ depth.levels :
            \E s \in Book!Banks(depth.since) : l \notin Accepts[history.market[s]]
    BY DepthIsOne
<1>2. MaxBookSlot \in Nat /\ floor \in Nat /\ 1 <= floor
    BY DEF BookConstants, BookSlots
<1>3. depth.last \in BookSlots /\ depth.first \in BookSlots /\ depth.last \in Nat
    BY <1>1, <1>2 DEF BookSlots
<1>4. ASSUME orders # None
      PROVE  /\ orders.slot \in depth.last..MaxBookSlot
             /\ \A r \in orders.listed :
                   /\ r.slot \in depth.last..orders.slot /\ Book!Account(r.order, r.slot)
                   /\ r.slot <= history.orders[r.order].expires
             /\ \A o \in orders.heard :
                   (\A s \in depth.last..orders.slot : Book!Live(o, s)) =>
                       \E r \in orders.listed : r.order = o
    <2>1. PICK through : orders \in Book!OrderReads(Book!Heard(through), depth.last)
        BY <1>4 DEF Book!EntryOrders, Book!OrdersFloor
    <2>2. Book!Heard(through) \subseteq DOMAIN history.orders
        BY DEF Book!Heard, Book!Orders
    <2>3. IsFiniteSet(DOMAIN history.orders)
        BY DEF BookConstants
    <2>4. IsFiniteSet(Book!Heard(through))
        BY <2>2, <2>3, FS_Subset
    <2> QED BY <1>3, <2>1, <2>4, ReadsAreWhole
<1>5. snapshot.depth = depth /\ snapshot.orders = orders
    OBVIOUS
<1>6. Book!SnapshotIsWhole(snapshot)
    BY <1>1, <1>4, <1>5 DEF Book!SnapshotIsWhole, Executes
<1>7. orders # None => orders.slot \in BookSlots
    BY <1>2, <1>3, <1>4 DEF BookSlots
<1> QED BY <1>3, <1>5, <1>6, <1>7 DEF SnapshotOK

-----------------------------------------------------------------------------

\* What is said of a snapshot or of a request is said of the history only.
LEMMA WholeStays ==
    ASSUME history' = history
    PROVE  /\ \A s : SnapshotOK(s) => SnapshotOK(s)'
           /\ Book!Batches' = Book!Batches
           /\ \A f, t, q : DepthOK(f, t, q) => DepthOK(f, t, q)'
<1>1. ASSUME NEW s, SnapshotOK(s) PROVE SnapshotOK(s)'
    <2>1. Book!SnapshotIsWhole(s)'
        BY <1>1 DEF SnapshotOK, Book!SnapshotIsWhole, Book!Account, Book!Live, Book!Banks
    <2> QED BY <1>1, <2>1 DEF SnapshotOK, BookSlots
<1>2. ASSUME NEW f, NEW t, NEW q, DepthOK(f, t, q) PROVE DepthOK(f, t, q)'
    BY <1>2 DEF DepthOK, Executes
<1>3. Book!Batches' = Book!Batches
    OBVIOUS
<1> QED BY <1>1, <1>2, <1>3

LEMMA BookStays ==
    ASSUME history' = history, history \in Histories,
           NEW b, book' = b, RequestWhole(b), NEW o, offered' = o, OffersWhole(o)
    PROVE  BookInv'
<1>1. OffersWhole(offered)'
    BY WholeStays DEF OffersWhole
<1>2. RequestWhole(book)'
    <2>1. CASE b = Book!Idle \/ \E slot \in BookSlots : b = [at |-> "asked", slot |-> slot]
        BY <2>1 DEF RequestWhole, Book!Idle, BookSlots
    <2>2. CASE \E slot, floor \in BookSlots : \E todo, results :
                  /\ \/ /\ b = Working("market", slot, floor, todo, results)
                        /\ todo = Book!Batches /\ results = {}
                     \/ b = Working("quoting", slot, floor, todo, results)
                  /\ DepthOK(floor, todo, results)
        <3>1. PICK slot \in BookSlots, floor \in BookSlots : \E todo, results :
                  /\ \/ /\ b = Working("market", slot, floor, todo, results)
                        /\ todo = Book!Batches /\ results = {}
                     \/ b = Working("quoting", slot, floor, todo, results)
                  /\ DepthOK(floor, todo, results)
            BY <2>2
        <3>2. PICK todo, results :
                  /\ \/ /\ b = Working("market", slot, floor, todo, results)
                        /\ todo = Book!Batches /\ results = {}
                     \/ b = Working("quoting", slot, floor, todo, results)
                  /\ DepthOK(floor, todo, results)
            BY <3>1
        <3>3. DepthOK(floor, todo, results)' /\ floor \in BookSlots' /\ slot \in BookSlots'
            BY <3>2, WholeStays DEF BookSlots
        <3>4. \/ /\ book' = Working("market", slot, floor, todo, results)
                 /\ todo = Book!Batches' /\ results = {}
              \/ book' = Working("quoting", slot, floor, todo, results)
            BY <3>2
        <3> QED BY <3>3, <3>4 DEF RequestWhole, Working
    <2>3. CASE \E slot \in BookSlots : \E snapshot :
                  /\ SnapshotOK(snapshot)
                  /\ \/ b = Holding("computed", slot, snapshot)
                     \/ b = Holding("delivered", slot, snapshot) /\ Book!Covered(slot, snapshot)
        <3>1. PICK slot \in BookSlots : \E snapshot :
                  /\ SnapshotOK(snapshot)
                  /\ \/ b = Holding("computed", slot, snapshot)
                     \/ b = Holding("delivered", slot, snapshot) /\ Book!Covered(slot, snapshot)
            BY <2>3
        <3>2. PICK snapshot :
                  /\ SnapshotOK(snapshot)
                  /\ \/ b = Holding("computed", slot, snapshot)
                     \/ b = Holding("delivered", slot, snapshot) /\ Book!Covered(slot, snapshot)
            BY <3>1
        <3>3. SnapshotOK(snapshot)' /\ slot \in BookSlots'
            BY <3>2, WholeStays DEF BookSlots
        <3>4. Book!Covered(slot, snapshot) => Book!Covered(slot, snapshot)'
            BY DEF Book!Covered
        <3>5. \/ book' = Holding("computed", slot, snapshot)
              \/ book' = Holding("delivered", slot, snapshot) /\ Book!Covered(slot, snapshot)
            BY <3>2
        <3> QED BY <3>3, <3>4, <3>5 DEF RequestWhole, Holding
    <2> QED BY <2>1, <2>2, <2>3 DEF RequestWhole
<1> QED BY <1>1, <1>2 DEF BookInv

-----------------------------------------------------------------------------

LEMMA BookInit == Book!Init => BookInv
BY DEF Book!Init, BookInv, RequestWhole, OffersWhole

\* The envelope of a delivery covers every bank that was read.
LEMMA EnvelopeCovers ==
    ASSUME BookConstants, NEW snapshot, SnapshotOK(snapshot),
           NEW stream \in BookSlots, NEW slot \in BookSlots, NEW envelope,
           envelope = Book!Max({stream, slot, Book!ConfirmFloor(snapshot)})
    PROVE  envelope \in BookSlots /\ Book!Covered(envelope, snapshot)
<1> DEFINE last == snapshot.depth.last
           S == {last} \cup {s.slot : s \in {snapshot.orders} \ {None}}
           top == Book!ConfirmFloor(snapshot)
<1>1. /\ MaxBookSlot \in Nat /\ last \in BookSlots
      /\ snapshot.orders # None => snapshot.orders.slot \in BookSlots
    BY DEF BookConstants, SnapshotOK
<1>2. BookSlots \subseteq 0..MaxBookSlot
    BY <1>1 DEF BookSlots
<1>3. S \subseteq BookSlots /\ last \in S /\ (snapshot.orders # None => snapshot.orders.slot \in S)
    BY <1>1
<1>4. top = Book!Max(S)
    BY DEF Book!ConfirmFloor
<1> HIDE DEF S, top
<1>5. top \in BookSlots /\ \A x \in S : x <= top
    BY <1>1, <1>2, <1>3, <1>4, Ends
<1> DEFINE T == {stream, slot, top}
<1>6. T \subseteq BookSlots /\ top \in T /\ T # {} /\ envelope = Book!Max(T)
    BY <1>5 DEF top
<1> HIDE DEF T
<1>7. envelope \in BookSlots /\ top <= envelope
    BY <1>1, <1>2, <1>6, Ends
<1>8. \A x \in S : x <= envelope
    <2> SUFFICES ASSUME NEW x \in S PROVE x <= envelope
        OBVIOUS
    <2>1. x \in 0..MaxBookSlot /\ top \in 0..MaxBookSlot /\ envelope \in 0..MaxBookSlot
        BY <1>2, <1>3, <1>5, <1>7
    <2> QED BY <1>1, <1>5, <1>7, <2>1
<1> QED BY <1>3, <1>7, <1>8 DEF Book!Covered

\* The request reads the deployment, joins what is shared, or gives up.
LEMMA RequestSteps ==
    ASSUME BookConstants, BookInv, NEW s \in Book!Slots,
           Book!Begin(s) \/ Book!Join \/ Book!ReadMarket(s) \/ Book!Deliver(s) \/ Book!End
    PROVE  BookInv'
<1>1. history' = history /\ offered' = offered /\ history \in Histories /\ OffersWhole(offered)
    BY DEF BookInv, Book!Begin, Book!Join, Book!ReadMarket, Book!Deliver, Book!End
<1>2. RequestWhole(book) /\ s \in BookSlots
    BY DEF BookInv, Book!Slots, BookSlots
<1>3. RequestWhole(book')
    <2>1. CASE Book!Begin(s)
        BY <1>2, <2>1 DEF Book!Begin, RequestWhole
    <2>2. CASE Book!Join
        <3>1. PICK slot \in BookSlots : book = [at |-> "asked", slot |-> slot]
            <4>1. book.at = "asked"
                BY <2>2 DEF Book!Join
            <4> QED BY <1>2, <4>1 DEF RequestWhole, Book!Idle, Working, Holding
        <3>2. offered # None /\ book' = Holding("computed", slot, offered)
            BY <2>2, <3>1 DEF Book!Join, Holding
        <3>3. SnapshotOK(offered)
            BY <1>1, <3>2 DEF OffersWhole
        <3> QED BY <3>2, <3>3 DEF RequestWhole
    <2>3. CASE Book!ReadMarket(s)
        <3>1. PICK slot \in BookSlots : book = [at |-> "asked", slot |-> slot]
            <4>1. book.at = "asked"
                BY <2>3 DEF Book!ReadMarket
            <4> QED BY <1>2, <4>1 DEF RequestWhole, Book!Idle, Working, Holding
        <3>2. book' = Working("market", slot, s, Book!Batches, {})
            BY <2>3, <3>1 DEF Book!ReadMarket, Working
        <3>3. DepthOK(s, Book!Batches, {})
            BY BatchesCover DEF DepthOK
        <3> QED BY <1>2, <3>2, <3>3 DEF RequestWhole
    <2>4. CASE Book!Deliver(s)
        <3>1. PICK slot \in BookSlots : \E snapshot :
                  SnapshotOK(snapshot) /\ book = Holding("computed", slot, snapshot)
            <4>1. book.at = "computed"
                BY <2>4 DEF Book!Deliver
            <4> QED BY <1>2, <4>1 DEF RequestWhole, Book!Idle, Working, Holding
        <3>2. PICK snapshot : SnapshotOK(snapshot) /\ book = Holding("computed", slot, snapshot)
            BY <3>1
        <3> DEFINE envelope == Book!Max({s, slot, Book!ConfirmFloor(snapshot)})
        <3>3. book' = Holding("delivered", envelope, snapshot)
            BY <2>4, <3>2 DEF Book!Deliver, Holding
        <3>4. envelope \in BookSlots /\ Book!Covered(envelope, snapshot)
            BY <1>2, <3>2, EnvelopeCovers
        <3> HIDE DEF envelope
        <3> QED BY <3>2, <3>3, <3>4 DEF RequestWhole
    <2>5. CASE Book!End
        BY <2>5 DEF Book!End, RequestWhole
    <2> QED BY <2>1, <2>2, <2>3, <2>4, <2>5
<1> QED BY <1>1, <1>3, BookStays

\* The previews, all at once or one after the other.
LEMMA PreviewsWhole ==
    ASSUME BookConstants, BookInv,
           \/ \E slots \in [Book!Batches -> Book!Slots] : Book!PreviewAll(slots)
           \/ \E b \in Book!Batches, s \in Book!Slots : Book!Recover(b, s)
    PROVE  BookInv'
<1>1. history' = history /\ offered' = offered /\ history \in Histories /\ OffersWhole(offered)
    BY DEF BookInv, Book!PreviewAll, Book!Recover
<1>2. PICK slot \in BookSlots, floor \in BookSlots :
          /\ book = Working("market", slot, floor, Book!Batches, {})
          /\ DepthOK(floor, Book!Batches, {})
    <2>1. RequestWhole(book) /\ book.at = "market"
        BY DEF BookInv, Book!PreviewAll, Book!Recover
    <2> QED BY <2>1 DEF RequestWhole, Book!Idle, Working, Holding
<1>3. RequestWhole(book')
    <2>1. ASSUME NEW slots \in [Book!Batches -> Book!Slots], Book!PreviewAll(slots)
          PROVE  RequestWhole(book')
        <3> DEFINE results == {Book!Quotes(b, slots[b]) : b \in Book!Batches}
        <3>1. book' = Working("quoting", slot, floor, {}, results)
            BY <1>2, <2>1 DEF Book!PreviewAll, Working
        <3>2. \A b \in Book!Batches :
                  slots[b] \in floor..MaxBookSlot /\ Book!Outcome(b, slots[b]) = "quoted"
            BY <1>2, <2>1 DEF Book!PreviewAll, Book!Banks, Working
        <3>3. \A b \in Book!Batches : Book!Range(b) \subseteq Executes(slots[b])
            <4> SUFFICES ASSUME NEW b \in Book!Batches PROVE Book!Range(b) \subseteq Executes(slots[b])
                OBVIOUS
            <4>1. IsPreviews(b) /\ slots[b] \in BookSlots
                BY BatchesCover DEF BookSlots, Book!Slots
            <4> QED BY <1>1, <3>2, <4>1, OutcomeIs
        <3>4. \A b \in Book!Batches : Book!Quotes(b, slots[b]) \in results
            OBVIOUS
        <3>5. \A b \in Book!Batches : Book!Quotes(b, slots[b]).levels = Book!Range(b)
            BY DEF Book!Quotes
        <3>6. \A l \in Levels : \E q \in results : l \in q.levels
            <4> HIDE DEF results
            <4> QED BY <3>4, <3>5, BatchesCover
        <3>7. \A q \in results : q.slot \in floor..MaxBookSlot /\ q.levels \subseteq Executes(q.slot)
            BY <3>2, <3>3 DEF Book!Quotes
        <3> HIDE DEF results
        <3>8. DepthOK(floor, {}, results)
            BY <3>6, <3>7 DEF DepthOK
        <3> QED BY <1>2, <3>1, <3>8 DEF RequestWhole
    <2>2. ASSUME NEW b \in Book!Batches, NEW s \in Book!Slots, Book!Recover(b, s)
          PROVE  RequestWhole(book')
        <3>1. book' = Working("quoting", slot, floor, Book!Batches, {})
            BY <1>2, <2>2 DEF Book!Recover, Working
        <3> QED BY <1>2, <3>1 DEF RequestWhole
    <2> QED BY <2>1, <2>2
<1> QED BY <1>1, <1>3, BookStays

\* A batch that is not quoted leaves its levels to smaller ones, or a level that
\* a bank refused.
LEMMA PreviewWhole ==
    ASSUME BookConstants, BookInv, NEW asked \in book.todo, NEW s \in Book!Slots,
           Book!Preview(asked, s)
    PROVE  BookInv'
<1>1. history' = history /\ offered' = offered /\ history \in Histories /\ OffersWhole(offered)
    BY DEF BookInv, Book!Preview
<1>a. PICK slot \in BookSlots, floor \in BookSlots : \E todo, results :
          /\ book = Working("quoting", slot, floor, todo, results)
          /\ DepthOK(floor, todo, results)
    <2>1. RequestWhole(book) /\ book.at = "quoting"
        BY DEF BookInv, Book!Preview
    <2> QED BY <2>1 DEF RequestWhole, Book!Idle, Working, Holding
<1>2. PICK todo, results :
          /\ book = Working("quoting", slot, floor, todo, results)
          /\ DepthOK(floor, todo, results)
    BY <1>a
<1> DEFINE outcome == Book!Outcome(asked, s)
           parts == CASE outcome = "exhausted" -> Book!Halves(asked)
                      [] outcome = "unquotable" /\ Len(asked) > 1 -> Book!Singles(asked)
                      [] OTHER -> {}
           quoted == IF outcome = "quoted" THEN {Book!Quotes(asked, s)} ELSE {}
           left == (todo \ {asked}) \cup parts
           found == results \cup quoted
<1>3. book' = Working("quoting", slot, floor, left, found)
    BY <1>2 DEF Book!Preview, Working
<1>4. asked \in todo /\ IsPreviews(asked) /\ s \in BookSlots /\ s \in floor..MaxBookSlot
    BY <1>2 DEF Book!Preview, Book!Banks, Book!Slots, BookSlots, Working, DepthOK
<1>5. outcome \in {"quoted", "exhausted", "unquotable"} /\ (outcome = "exhausted" => Len(asked) > 1)
    BY DEF Book!Preview, Book!Outcome
<1>6. /\ outcome = "quoted" => Book!Range(asked) \subseteq Executes(s)
      /\ outcome = "unquotable" /\ ~(Len(asked) > 1) =>
            \A l \in Book!Range(asked) : l \notin Executes(s)
    BY <1>1, <1>4, OutcomeIs
<1> HIDE DEF outcome
<1>7. /\ \A c \in parts : IsPreviews(c)
      /\ \A l \in Book!Range(asked) :
            \/ \E c \in parts : l \in Book!Range(c)
            \/ outcome = "quoted" \/ l \notin Executes(s)
    <2>1. CASE outcome = "exhausted"
        BY <1>4, <1>5, <2>1, HalvesHold
    <2>2. CASE outcome = "unquotable" /\ Len(asked) > 1
        BY <1>4, <2>2, SinglesHold
    <2>3. CASE outcome = "unquotable" /\ ~(Len(asked) > 1)
        BY <1>6, <2>3
    <2>4. CASE outcome = "quoted"
        BY <2>4
    <2> QED BY <1>5, <2>1, <2>2, <2>3, <2>4
<1>8. \A q \in quoted : q.slot \in floor..MaxBookSlot /\ q.levels \subseteq Executes(q.slot)
    BY <1>4, <1>6 DEF Book!Quotes
<1>9. outcome = "quoted" => \E q \in quoted : q.levels = Book!Range(asked)
    BY DEF Book!Quotes
<1> HIDE DEF parts, quoted
<1>10. DepthOK(floor, left, found)
    <2>1. \A b \in left : IsPreviews(b)
        BY <1>2, <1>7 DEF DepthOK
    <2>2. \A q \in found : q.slot \in floor..MaxBookSlot /\ q.levels \subseteq Executes(q.slot)
        BY <1>2, <1>8 DEF DepthOK
    <2>3. ASSUME NEW l \in Levels
          PROVE  \/ \E b \in left : l \in Book!Range(b)
                 \/ \E q \in found : l \in q.levels
                 \/ \E t \in floor..MaxBookSlot : l \notin Executes(t)
        <3>1. \/ \E b \in todo : l \in Book!Range(b)
              \/ \E q \in results : l \in q.levels
              \/ \E t \in floor..MaxBookSlot : l \notin Executes(t)
            BY <1>2 DEF DepthOK
        <3>2. CASE l \in Book!Range(asked)
            BY <1>4, <1>7, <1>9, <3>2
        <3>3. CASE l \notin Book!Range(asked)
            BY <3>1, <3>3
        <3> QED BY <3>2, <3>3
    <2> QED BY <2>1, <2>2, <2>3 DEF DepthOK
<1> HIDE DEF left, found
<1>11. RequestWhole(book')
    BY <1>2, <1>3, <1>10 DEF RequestWhole
<1> QED BY <1>1, <1>11, BookStays

\* What is stored for the replicas, and what is no longer.
LEMMA ComputeWhole ==
    ASSUME BookConstants, BookInv, NEW orders, Book!Compute(orders)
    PROVE  BookInv'
<1>1. history' = history /\ history \in Histories /\ OffersWhole(offered)
    BY DEF BookInv, Book!Compute
<1>2. PICK slot \in BookSlots, floor \in BookSlots : \E results :
          /\ book = Working("quoting", slot, floor, {}, results)
          /\ DepthOK(floor, {}, results)
    <2>1. RequestWhole(book) /\ book.at = "quoting" /\ book.todo = {}
        BY DEF BookInv, Book!Compute
    <2> QED BY <2>1 DEF RequestWhole, Book!Idle, Working, Holding
<1>3. PICK results :
          /\ book = Working("quoting", slot, floor, {}, results)
          /\ DepthOK(floor, {}, results)
    BY <1>2
<1> DEFINE depth == Book!Combined(results, floor)
           snapshot == [depth |-> depth, orders |-> orders]
<1>4. /\ Book!Coherent(results) /\ orders \in Book!EntryOrders(Book!OrdersFloor(depth))
      /\ offered' = snapshot
      /\ book' = Holding("computed", slot, snapshot)
    BY <1>3 DEF Book!Compute, Working, Holding
<1> HIDE DEF depth
<1>5. SnapshotOK(snapshot)
    BY <1>1, <1>3, <1>4, ComputedIsWhole DEF depth
<1> HIDE DEF snapshot
<1>6. OffersWhole(offered')
    BY <1>4, <1>5 DEF OffersWhole
<1>7. RequestWhole(book')
    BY <1>4, <1>5 DEF RequestWhole
<1> QED BY <1>1, <1>6, <1>7, BookStays

LEMMA ExpireWhole ==
    ASSUME BookInv, Book!Expire
    PROVE  BookInv'
<1>1. /\ history' = history /\ book' = book /\ offered' = None
      /\ history \in Histories /\ RequestWhole(book)
    BY DEF BookInv, Book!Expire
<1>2. OffersWhole(offered') /\ RequestWhole(book')
    BY <1>1 DEF OffersWhole
<1> QED BY <1>1, <1>2, BookStays

LEMMA BookNext ==
    ASSUME BookConstants, BookInv, Book!Next
    PROVE  BookInv'
<1>1. CASE \E s \in Book!Slots : Book!Begin(s) \/ Book!ReadMarket(s) \/ Book!Deliver(s)
    BY <1>1, RequestSteps
<1>2. ASSUME Book!Join \/ Book!End PROVE BookInv'
    <2>1. PICK s : s \in Book!Slots
        BY DEF BookInv, BookConstants, Book!Slots
    <2> QED BY <1>2, <2>1, RequestSteps
<1>3. CASE Book!Expire
    BY <1>3, ExpireWhole
<1>4. CASE \/ \E slots \in [Book!Batches -> Book!Slots] : Book!PreviewAll(slots)
           \/ \E b \in Book!Batches, s \in Book!Slots : Book!Recover(b, s)
    BY <1>4, PreviewsWhole
<1>5. CASE \E b \in book.todo, s \in Book!Slots : Book!Preview(b, s)
    BY <1>5, PreviewWhole
<1>6. CASE \E o : Book!Compute(o)
    BY <1>6, ComputeWhole
<1> QED BY <1>1, <1>2, <1>3, <1>4, <1>5, <1>6 DEF Book!Next

LEMMA BookSteps == BookConstants /\ BookInv /\ [Next]_vars => BookInv'
<1> SUFFICES ASSUME BookConstants, BookInv, [Next]_vars PROVE BookInv'
    OBVIOUS
<1>1. CASE BookStep
    BY <1>1, BookNext DEF BookStep
<1>2. CASE UNCHANGED bookVars
    <2>1. history' = history /\ offered' = offered /\ book' = book
        BY <1>2 DEF bookVars
    <2> QED BY <2>1, BookStays DEF BookInv
<1> QED BY <1>1, <1>2 DEF Next, vars, quoteVars, DrainStep, CaptureStep, ValuationStep,
        ActivityStep, RatesStep, LeverageStep, WalletStep

\* Every book delivered or shared among the replicas is of one state of its
\* market: its depth is what that executes, with a level missing only if a bank
\* refused it on its own, and its orders are no older than the depth, each open at
\* its own bank, with none missing that was open throughout the reads.  The
\* envelope that it is delivered in covers every bank it was read at
\* (duskVirtualBook.ts).
THEOREM BookHolds == Spec => []BookIsWhole
<1>1. Init => BookInv
    BY BookInit DEF Init
<1>2. BookInv /\ [Next]_vars => BookInv'
    BY BookSteps, BookAssumption
<1>3. BookInv => BookIsWhole
    <2> SUFFICES ASSUME BookInv PROVE BookIsWhole
        OBVIOUS
    <2>1. offered # None => Book!SnapshotIsWhole(offered)
        BY DEF BookInv, OffersWhole, SnapshotOK
    <2>2. ASSUME book.at = "delivered"
          PROVE  Book!SnapshotIsWhole(book.snapshot) /\ Book!Covered(book.slot, book.snapshot)
        <3>1. RequestWhole(book)
            BY DEF BookInv
        <3>2. PICK slot \in BookSlots : \E snapshot :
                  /\ SnapshotOK(snapshot) /\ Book!Covered(slot, snapshot)
                  /\ book = Holding("delivered", slot, snapshot)
            BY <2>2, <3>1 DEF RequestWhole, Book!Idle, Working, Holding
        <3> QED BY <3>2 DEF Holding, SnapshotOK
    <2> QED BY <2>1, <2>2 DEF BookIsWhole, Book!BookIsWhole
<1> QED BY <1>1, <1>2, <1>3, PTL DEF Spec

-----------------------------------------------------------------------------
(* The searches for a leverage and for a margin.                            *)

Begun(input, least, floor, left, keys) ==
    [at |-> "capture", input |-> input, least |-> least, floor |-> floor,
     left |-> left, keys |-> keys]

Seeking(at, input, least, slot, low, high) ==
    [at |-> at, input |-> input, least |-> least, slot |-> slot, bank |-> slot,
     low |-> low, high |-> high]

Answered(at, input, least, slot, found) ==
    [at |-> at, input |-> input, slot |-> slot, bank |-> slot, least |-> least,
     answer |-> found]

\* The slot that the client named is the floor or before.
Named(least, floor) == least \in Leverage!Slots /\ least <= floor

\* The margins from low to high hold the first that reaches the target: low
\* falls short of it.
Above(input, slot, low, high) ==
    /\ low < high /\ high <= MaxMargin
    /\ low = 0 \/ Leverage!Short(Leverage!Read(slot, low), input.target)

SearchOK(input, slot, low, high) ==
    IF input.kind = "maximum" THEN low = 0 /\ high = Grid
    ELSE Above(input, slot, low, high)

\* The bisection keeps an end that is taken and one that is not.
BisectOK(input, slot, low, high) ==
    IF input.kind = "maximum"
    THEN /\ low <= high /\ high <= Grid /\ Leverage!Takes(slot, low)
         /\ high = Grid \/ ~Leverage!Takes(slot, high + 1)
    ELSE /\ Above(input, slot, low, high)
         /\ ~Leverage!Short(Leverage!Read(slot, high), input.target)

AnswerOK(input, slot, found) ==
    \A at, least : Leverage!IsExecutable(Answered(at, input, least, slot, found))

QuoteOK(q) ==
    \/ q = Leverage!Idle
    \/ \E i, s, least, left, keys :
          /\ i \in Inputs /\ s \in Leverage!Slots /\ Named(least, s)
          /\ q = Begun(i, least, s, left, keys)
    \/ \E i, s, least, low, high :
          /\ i \in Inputs /\ s \in Leverage!Slots /\ low \in Nat /\ high \in Nat
          /\ Named(least, s)
          /\ \/ q = Seeking("search", i, least, s, low, high) /\ SearchOK(i, s, low, high)
             \/ q = Seeking("bisect", i, least, s, low, high) /\ BisectOK(i, s, low, high)
    \/ \E i, s, least, found :
          /\ i \in Inputs /\ s \in Leverage!Slots
          /\ Named(least, s) /\ AnswerOK(i, s, found)
          /\ \/ q = Answered("found", i, least, s, found)
             \/ q = Answered("answered", i, least, s, found)

Runs(q) == q.at \notin {"idle", "answered"}

LeverageInv ==
    /\ chain \in BankHistories
    /\ quote = [r \in Quoters |-> quote[r]]
    /\ \A r \in Quoters : QuoteOK(quote[r])
    /\ inFlight = Cardinality(Leverage!Running) /\ inFlight \in 0..MaxInFlight

\* The chain is what it is.
LEMMA SearchStays ==
    ASSUME chain' = chain
    PROVE  /\ Leverage!Slots' = Leverage!Slots
           /\ \A least, f : Named(least, f)' <=> Named(least, f)
           /\ \A i, s, low, high : SearchOK(i, s, low, high)' <=> SearchOK(i, s, low, high)
           /\ \A i, s, low, high : BisectOK(i, s, low, high)' <=> BisectOK(i, s, low, high)
           /\ \A i, s, found : AnswerOK(i, s, found)' <=> AnswerOK(i, s, found)
<1>1. Leverage!Slots' = Leverage!Slots
    BY DEF Leverage!Slots
<1>2. \A least, f : Named(least, f)' <=> Named(least, f)
    BY <1>1 DEF Named
<1>3. ASSUME NEW s, NEW m
      PROVE  /\ Leverage!Takes(s, m)' <=> Leverage!Takes(s, m)
             /\ Leverage!Read(s, m)' = Leverage!Read(s, m)
    BY DEF Leverage!Takes, Leverage!Read
<1>4. ASSUME NEW i, NEW s, NEW low, NEW high
      PROVE  Above(i, s, low, high)' <=> Above(i, s, low, high)
    BY DEF Above, Leverage!Read
<1>5. ASSUME NEW i, NEW s, NEW low, NEW high
      PROVE  /\ SearchOK(i, s, low, high)' <=> SearchOK(i, s, low, high)
             /\ BisectOK(i, s, low, high)' <=> BisectOK(i, s, low, high)
    <2>1. SearchOK(i, s, low, high)' <=> SearchOK(i, s, low, high)
        BY <1>4 DEF SearchOK
    <2>2. BisectOK(i, s, low, high)' <=> BisectOK(i, s, low, high)
        BY <1>4 DEF BisectOK, Leverage!Takes, Leverage!Read
    <2> QED BY <2>1, <2>2
<1>6. ASSUME NEW q PROVE Leverage!IsExecutable(q)' <=> Leverage!IsExecutable(q)
    BY DEF Leverage!IsExecutable, Leverage!Takes, Leverage!Read, Leverage!Ordered
<1>7. ASSUME NEW i, NEW s, NEW found PROVE AnswerOK(i, s, found)' <=> AnswerOK(i, s, found)
    BY <1>6 DEF AnswerOK
<1> QED BY <1>1, <1>2, <1>5, <1>7

LEMMA QuoteStays ==
    ASSUME NEW q, QuoteOK(q), chain' = chain
    PROVE  QuoteOK(q)'
BY SearchStays DEF QuoteOK

\* What a step of one request keeps: the others, and the count of places.
LEMMA LeverageCardinality == \A S : Leverage!Cardinality(S) = Cardinality(S)
BY DEF Leverage!Cardinality, Cardinality, Leverage!IsFiniteSet, IsFiniteSet

LEMMA BecomesOK ==
    ASSUME LeverageConstants, LeverageInv, NEW r \in Quoters, NEW q, QuoteOK(q),
           Leverage!Becomes(r, q), chain' = chain,
           \/ Runs(q) /\ Runs(quote[r]) /\ inFlight' = inFlight
           \/ ~Runs(q) /\ ~Runs(quote[r]) /\ inFlight' = inFlight
           \/ Runs(q) /\ ~Runs(quote[r]) /\ inFlight' = inFlight + 1 /\ inFlight < MaxInFlight
           \/ ~Runs(q) /\ Runs(quote[r]) /\ inFlight' = inFlight - 1
    PROVE  LeverageInv'
<1>1. /\ quote' = [x \in Quoters |-> quote'[x]] /\ quote'[r] = q
      /\ \A x \in Quoters \ {r} : quote'[x] = quote[x]
    BY DEF Leverage!Becomes, LeverageInv
<1>2. ASSUME NEW x \in Quoters PROVE QuoteOK(quote[x])'
    <2> DEFINE p == quote'[x]
    <2>1. QuoteOK(p)
        BY <1>1 DEF LeverageInv
    <2> QED BY <2>1, QuoteStays
<1>3. IsFiniteSet(Leverage!Running) /\ Cardinality(Leverage!Running) \in Nat
    BY FS_Subset, FS_CardinalityType DEF LeverageConstants, Leverage!Running
<1>4. CASE Runs(q) /\ Runs(quote[r])
    <2>1. Leverage!Running' = Leverage!Running
        BY <1>1, <1>4 DEF Leverage!Running, Runs
    <2> QED BY <1>1, <1>2, <1>4, <2>1 DEF LeverageInv
<1>5. CASE ~Runs(q) /\ ~Runs(quote[r])
    <2>1. Leverage!Running' = Leverage!Running
        BY <1>1, <1>5 DEF Leverage!Running, Runs
    <2> QED BY <1>1, <1>2, <1>5, <2>1 DEF LeverageInv
<1>6. CASE Runs(q) /\ ~Runs(quote[r])
    <2>1. Leverage!Running' = Leverage!Running \cup {r} /\ r \notin Leverage!Running
        BY <1>1, <1>6 DEF Leverage!Running, Runs
    <2>2. Cardinality(Leverage!Running') = Cardinality(Leverage!Running) + 1
        BY <1>3, <2>1, FS_AddElement
    <2>3. inFlight' \in 0..MaxInFlight
        BY <1>6 DEF LeverageInv, LeverageConstants
    <2> QED BY <1>1, <1>2, <1>6, <2>2, <2>3 DEF LeverageInv
<1>7. CASE ~Runs(q) /\ Runs(quote[r])
    <2>1. Leverage!Running' = Leverage!Running \ {r} /\ r \in Leverage!Running
        BY <1>1, <1>7 DEF Leverage!Running, Runs
    <2>2. /\ Cardinality(Leverage!Running') = Cardinality(Leverage!Running) - 1
          /\ Cardinality(Leverage!Running') \in Nat
        BY <1>3, <2>1, FS_RemoveElement, FS_CardinalityType
    <2>3. inFlight' \in 0..MaxInFlight
        BY <1>7, <2>2 DEF LeverageInv, LeverageConstants
    <2> QED BY <1>1, <1>2, <1>7, <2>2, <2>3 DEF LeverageInv
<1> QED BY <1>4, <1>5, <1>6, <1>7

LEMMA LeverageBegin ==
    ASSUME LeverageConstants, LeverageInv, NEW r \in Quoters, NEW i \in Inputs,
           NEW least \in Leverage!Slots, Leverage!Begin(r, i, least)
    PROVE  LeverageInv'
<1> DEFINE q == Begun(i, least, least, Attempts, known)
<1>1. Leverage!Becomes(r, q) /\ chain' = chain /\ quote[r].at = "idle"
      /\ inFlight' = inFlight + 1 /\ inFlight < MaxInFlight
    BY DEF Leverage!Begin, Begun
<1>2. least \in Nat
    BY DEF LeverageInv, LeverageConstants, Leverage!Slots
<1>3. QuoteOK(q)
    BY <1>2 DEF QuoteOK, Named
<1>4. Runs(q) /\ ~Runs(quote[r])
    BY <1>1 DEF Runs, Begun
<1> HIDE DEF q
<1> QED BY <1>1, <1>3, <1>4, BecomesOK

LEMMA LeverageEnd ==
    ASSUME LeverageConstants, LeverageInv, NEW r \in Quoters, Leverage!End(r)
    PROVE  LeverageInv'
<1> DEFINE q == Leverage!Idle
<1>1. Leverage!Becomes(r, q) /\ chain' = chain /\ QuoteOK(q) /\ ~Runs(q)
    BY DEF Leverage!End, QuoteOK, Runs, Leverage!Idle
<1>2. inFlight' = IF Runs(quote[r]) THEN inFlight - 1 ELSE inFlight
    BY DEF Leverage!End, Runs, Leverage!Running
<1> HIDE DEF q
<1> QED BY <1>1, <1>2, BecomesOK

LEMMA LeverageCapture ==
    ASSUME LeverageConstants, LeverageInv, NEW r \in Quoters, quote[r].at = "capture",
           NEW slot \in Leverage!Slots, NEW bank \in Leverage!Slots,
           Leverage!Capture(r, slot, bank)
    PROVE  LeverageInv'
<1>1. PICK i, f, least, left, keys :
         /\ i \in Inputs /\ f \in Leverage!Slots /\ Named(least, f)
         /\ quote[r] = Begun(i, least, f, left, keys)
    BY DEF LeverageInv, QuoteOK, Leverage!Idle, Seeking, Answered
<1>2. f \in Nat /\ slot \in Nat /\ Leverage!Slots \subseteq Nat /\ slot >= f /\ least \in Nat
    BY <1>1 DEF Named, LeverageInv, LeverageConstants, Leverage!Slots, Leverage!Capture, Begun
<1>3. Named(least, slot)
    BY <1>1, <1>2 DEF Named
<1>4. chain' = chain /\ inFlight' = inFlight /\ Runs(quote[r])
    BY <1>1 DEF Leverage!Capture, Runs, Begun
<1>5. CASE ~Leverage!OfSlot(slot, bank)
    <2> DEFINE q == Begun(i, least, f, left - 1, keys)
    <2>0. [quote[r] EXCEPT !.left = @ - 1] = q /\ quote[r].at = "capture"
        BY <1>1 DEF Begun
    <2>1. Leverage!Becomes(r, q)
        BY <1>5, <2>0 DEF Leverage!Capture
    <2>2. QuoteOK(q)
        BY <1>1 DEF QuoteOK
    <2>3. Runs(q)
        BY DEF Runs, Begun
    <2> HIDE DEF q
    <2> QED BY <1>4, <2>1, <2>2, <2>3, BecomesOK
<1>6. CASE Leverage!OfSlot(slot, bank) /\ Leverage!Extra(keys) # {}
    <2> DEFINE q == Begun(i, least, slot, Attempts, keys \cup Leverage!Extra(keys))
    <2> DEFINE more == keys \cup Leverage!Extra(keys)
    <2>a. quote[r].keys = keys
        BY <1>1 DEF Begun
    <2>b. [quote[r] EXCEPT !.floor = slot, !.left = Attempts, !.keys = more]
             = [[[quote[r] EXCEPT !.floor = slot] EXCEPT !.left = Attempts] EXCEPT !.keys = more]
        OBVIOUS
    <2>c. [quote[r] EXCEPT !.floor = slot] = Begun(i, least, slot, left, keys)
        BY <1>1 DEF Begun
    <2>d. [Begun(i, least, slot, left, keys) EXCEPT !.left = Attempts]
             = Begun(i, least, slot, Attempts, keys)
        BY DEF Begun
    <2> HIDE DEF more
    <2>e. [Begun(i, least, slot, Attempts, keys) EXCEPT !.keys = more]
             = Begun(i, least, slot, Attempts, more)
        BY DEF Begun
    <2>f. [quote[r] EXCEPT !.floor = slot, !.left = Attempts, !.keys = more]
             = Begun(i, least, slot, Attempts, more)
        BY <2>b, <2>c, <2>d, <2>e
    <2>0. /\ [quote[r] EXCEPT !.floor = slot, !.left = Attempts, !.keys = @ \cup Leverage!Extra(@)] = q
          /\ quote[r].keys = keys
        BY <2>a, <2>f DEF more
    <2>1. Leverage!Becomes(r, q)
        BY <1>6, <2>0 DEF Leverage!Capture
    <2>2. QuoteOK(q)
        BY <1>1, <1>3 DEF QuoteOK
    <2>3. Runs(q)
        BY DEF Runs, Begun
    <2> HIDE DEF q
    <2> QED BY <1>4, <2>1, <2>2, <2>3, BecomesOK
<1>7. CASE Leverage!OfSlot(slot, bank) /\ Leverage!Extra(keys) = {}
    <2> DEFINE high == IF i.kind = "maximum" THEN Grid ELSE i.margin
               q == Seeking("search", i, least, slot, 0, high)
    <2>1. Leverage!Becomes(r, q)
        BY <1>1, <1>7 DEF Leverage!Capture, Leverage!OfSlot, Begun, Seeking
    <2>2. /\ i.kind \in {"maximum", "size"} /\ i.margin \in 1..MaxMargin /\ Grid \in Nat
          /\ MaxMargin \in Nat
        BY <1>1 DEF LeverageConstants
    <2>3. high \in Nat /\ SearchOK(i, slot, 0, high)
        BY <2>2 DEF SearchOK, Above
    <2> HIDE DEF high
    <2>4. QuoteOK(q)
        BY <1>1, <1>3, <2>3 DEF QuoteOK
    <2>5. Runs(q)
        BY DEF Runs, Seeking
    <2> HIDE DEF q
    <2> QED BY <1>4, <2>1, <2>4, <2>5, BecomesOK
<1> QED BY <1>5, <1>6, <1>7

\* Where a search stands.
LEMMA Seeks ==
    ASSUME LeverageInv, NEW r \in Quoters, quote[r].at \in {"search", "bisect"}
    PROVE  \E i, s, least, low, high :
              /\ i \in Inputs /\ s \in Leverage!Slots /\ low \in Nat /\ high \in Nat
              /\ quote[r] = Seeking(quote[r].at, i, least, s, low, high)
              /\ Named(least, s)
              /\ quote[r].at = "search" => SearchOK(i, s, low, high)
              /\ quote[r].at = "bisect" => BisectOK(i, s, low, high)
<1>1. PICK i, s, least, low, high :
         /\ i \in Inputs /\ s \in Leverage!Slots /\ low \in Nat /\ high \in Nat
         /\ Named(least, s)
         /\ \/ quote[r] = Seeking("search", i, least, s, low, high) /\ SearchOK(i, s, low, high)
            \/ quote[r] = Seeking("bisect", i, least, s, low, high) /\ BisectOK(i, s, low, high)
    BY DEF LeverageInv, QuoteOK, Leverage!Idle, Begun, Answered
<1>2. CASE quote[r] = Seeking("search", i, least, s, low, high) /\ SearchOK(i, s, low, high)
    <2>1. quote[r].at = "search"
        BY <1>2 DEF Seeking
    <2> QED BY <1>1, <1>2, <2>1
<1>3. CASE quote[r] = Seeking("bisect", i, least, s, low, high) /\ BisectOK(i, s, low, high)
    <2>1. quote[r].at = "bisect"
        BY <1>3 DEF Seeking
    <2> QED BY <1>1, <1>3, <2>1
<1> QED BY <1>1, <1>2, <1>3

\* What the operators of the search make of one that stands so.
LEMMA Narrowing ==
    ASSUME NEW r, NEW at, NEW i, NEW s, NEW least, NEW low, NEW high, NEW l, NEW h,
           quote[r] = Seeking(at, i, least, s, low, high), Leverage!Narrow(r, l, h)
    PROVE  Leverage!Becomes(r, Seeking("bisect", i, least, s, l, h))
<1>1. [quote[r] EXCEPT !.at = "bisect", !.low = l, !.high = h]
         = [[[quote[r] EXCEPT !.at = "bisect"] EXCEPT !.low = l] EXCEPT !.high = h]
    OBVIOUS
<1>2. [quote[r] EXCEPT !.at = "bisect"] = Seeking("bisect", i, least, s, low, high)
    BY DEF Seeking
<1>3. [Seeking("bisect", i, least, s, low, high) EXCEPT !.low = l] = Seeking("bisect", i, least, s, l, high)
    BY DEF Seeking
<1>4. [Seeking("bisect", i, least, s, l, high) EXCEPT !.high = h] = Seeking("bisect", i, least, s, l, h)
    BY DEF Seeking
<1>5. [quote[r] EXCEPT !.at = "bisect", !.low = l, !.high = h] = Seeking("bisect", i, least, s, l, h)
    BY <1>1, <1>2, <1>3, <1>4
<1> QED BY <1>5 DEF Leverage!Narrow

LEMMA Finding ==
    ASSUME NEW r, NEW at, NEW i, NEW s, NEW least, NEW low, NEW high, NEW found,
           quote[r] = Seeking(at, i, least, s, low, high), Leverage!Found(r, found)
    PROVE  Leverage!Becomes(r, Answered("found", i, least, s, found))
BY DEF Leverage!Found, Answered, Seeking

LEMMA Standing ==
    ASSUME NEW r, NEW at, NEW i, NEW s, NEW least, NEW low, NEW high,
           quote[r] = Seeking(at, i, least, s, low, high)
    PROVE  /\ quote[r].at = at /\ quote[r].input = i /\ quote[r].bank = s
           /\ quote[r].low = low /\ quote[r].high = high
BY DEF Seeking

\* A search that goes on, and one that has its answer.
LEMMA SeekStep ==
    ASSUME LeverageConstants, LeverageInv, NEW r \in Quoters, NEW at \in {"search", "bisect"},
           NEW i \in Inputs, NEW s \in Leverage!Slots, NEW least, NEW low \in Nat, NEW high \in Nat,
           Named(least, s),
           at = "search" => SearchOK(i, s, low, high),
           at = "bisect" => BisectOK(i, s, low, high),
           Runs(quote[r]), Leverage!Becomes(r, Seeking(at, i, least, s, low, high)),
           chain' = chain, inFlight' = inFlight
    PROVE  LeverageInv'
<1> DEFINE q == Seeking(at, i, least, s, low, high)
<1>1. QuoteOK(q) /\ Runs(q)
    BY DEF QuoteOK, Runs, Seeking
<1> HIDE DEF q
<1> QED BY <1>1, BecomesOK DEF q

LEMMA FoundStep ==
    ASSUME LeverageConstants, LeverageInv, NEW r \in Quoters,
           NEW i \in Inputs, NEW s \in Leverage!Slots, NEW least, NEW found,
           Named(least, s), AnswerOK(i, s, found), Runs(quote[r]),
           Leverage!Becomes(r, Answered("found", i, least, s, found)),
           chain' = chain, inFlight' = inFlight
    PROVE  LeverageInv'
<1> DEFINE q == Answered("found", i, least, s, found)
<1>1. QuoteOK(q) /\ Runs(q)
    BY DEF QuoteOK, Runs, Answered
<1> HIDE DEF q
<1> QED BY <1>1, BecomesOK DEF q

LEMMA LowestStep ==
    ASSUME LeverageConstants, LeverageInv, NEW r \in Quoters, Leverage!Lowest(r)
    PROVE  LeverageInv'
<1>1. PICK i, s, least, low, high :
         /\ i \in Inputs /\ s \in Leverage!Slots /\ low \in Nat /\ high \in Nat
         /\ quote[r] = Seeking("search", i, least, s, low, high)
         /\ Named(least, s) /\ SearchOK(i, s, low, high)
    BY Seeks DEF Leverage!Lowest
<1>2. i.kind = "maximum" /\ low = 0 /\ high = Grid /\ Grid \in Nat
    BY <1>1 DEF Leverage!Lowest, Seeking, SearchOK, LeverageConstants
<1>3. chain' = chain /\ inFlight' = inFlight /\ Runs(quote[r])
    BY <1>1 DEF Leverage!Lowest, Seeking, Runs
<1>4. CASE Leverage!Takes(s, 0)
    <2>1. Leverage!Becomes(r, Seeking("bisect", i, least, s, 0, Grid))
        BY <1>1, <1>4, Standing, Narrowing DEF Leverage!Lowest
    <2>2. BisectOK(i, s, 0, Grid)
        BY <1>2, <1>4 DEF BisectOK
    <2> QED BY <1>1, <1>2, <1>3, <2>1, <2>2, SeekStep
<1>5. CASE ~Leverage!Takes(s, 0)
    <2>1. Leverage!Becomes(r, Answered("found", i, least, s, None))
        BY <1>1, <1>5, Standing, Finding DEF Leverage!Lowest
    <2>2. AnswerOK(i, s, None)
        BY <1>2, <1>5 DEF AnswerOK, Leverage!IsExecutable, Answered
    <2> QED BY <1>1, <1>3, <2>1, <2>2, FoundStep
<1> QED BY <1>4, <1>5

LEMMA MultiplierStep ==
    ASSUME LeverageConstants, LeverageInv, NEW r \in Quoters, Leverage!Multiplier(r)
    PROVE  LeverageInv'
<1>1. PICK i, s, least, low, high :
         /\ i \in Inputs /\ s \in Leverage!Slots /\ low \in Nat /\ high \in Nat
         /\ quote[r] = Seeking("bisect", i, least, s, low, high)
         /\ Named(least, s) /\ BisectOK(i, s, low, high)
    BY Seeks DEF Leverage!Multiplier
<1>2. i.kind = "maximum" /\ Grid \in Nat /\ None \notin Nat
    BY <1>1 DEF Leverage!Multiplier, Seeking, LeverageConstants
<1>3. chain' = chain /\ inFlight' = inFlight /\ Runs(quote[r])
    BY <1>1 DEF Leverage!Multiplier, Seeking, Runs
<1>4. /\ low <= high /\ high <= Grid /\ Leverage!Takes(s, low)
      /\ high = Grid \/ ~Leverage!Takes(s, high + 1)
    BY <1>1, <1>2 DEF BisectOK
<1> DEFINE m == Leverage!Middle(low, high)
<1>5. CASE low = high
    <2>1. Leverage!Becomes(r, Answered("found", i, least, s, low))
        BY <1>1, <1>5, Standing, Finding DEF Leverage!Multiplier
    <2>2. low # None
        BY <1>1, <1>2
    <2>3. AnswerOK(i, s, low)
        BY <1>2, <1>4, <1>5, <2>2 DEF AnswerOK, Leverage!IsExecutable, Answered
    <2> QED BY <1>1, <1>3, <2>1, <2>3, FoundStep
<1>6. ASSUME low # high PROVE m \in Nat /\ m - 1 \in Nat /\ low < m /\ m <= high
    BY <1>1, <1>4, <1>6 DEF Leverage!Middle
<1>7. CASE low # high /\ Leverage!Takes(s, m)
    <2>1. Leverage!Becomes(r, Seeking("bisect", i, least, s, m, high))
        BY <1>1, <1>7, Standing, Narrowing DEF Leverage!Multiplier
    <2>2. BisectOK(i, s, m, high)
        BY <1>2, <1>4, <1>6, <1>7 DEF BisectOK
    <2> HIDE DEF m
    <2> QED BY <1>1, <1>3, <1>6, <1>7, <2>1, <2>2, SeekStep
<1>8. CASE low # high /\ ~Leverage!Takes(s, m)
    <2>1. Leverage!Becomes(r, Seeking("bisect", i, least, s, low, m - 1))
        BY <1>1, <1>8, Standing, Narrowing DEF Leverage!Multiplier
    <2> HIDE DEF m
    <2>2. m - 1 + 1 = m /\ low <= m - 1 /\ m - 1 <= Grid
        BY <1>1, <1>2, <1>4, <1>6, <1>8
    <2>3. BisectOK(i, s, low, m - 1)
        BY <1>2, <1>4, <1>8, <2>2 DEF BisectOK
    <2> QED BY <1>1, <1>3, <1>6, <1>8, <2>1, <2>3, SeekStep
<1> QED BY <1>5, <1>7, <1>8

\* What a margin opens is a size or nothing.
LEMMA SizesTyped ==
    ASSUME LeverageConstants, LeverageInv, NEW s \in Leverage!Slots
    PROVE  \A m \in 1..MaxMargin : Leverage!Read(s, m) \in Nat \cup {None}
BY DEF LeverageConstants, LeverageInv, Leverage!Slots, Leverage!Read

\* Where margins are ordered, what is refused stays refused above, and what
\* falls short falls short below.
LEMMA Capacity ==
    ASSUME LeverageConstants, LeverageInv, NEW i \in Inputs, NEW s \in Leverage!Slots,
           i.kind = "size",
           NEW low \in 0..MaxMargin, low = 0 \/ Leverage!Short(Leverage!Read(s, low), i.target),
           \A m \in 1..MaxMargin : m <= low \/ (m = low + 1 /\ Leverage!Read(s, m) = None)
              \/ (low + 1 < m /\ Leverage!Read(s, low + 1) = None)
    PROVE  AnswerOK(i, s, None)
<1> SUFFICES ASSUME Leverage!Ordered(s), NEW m \in 1..MaxMargin
             PROVE  ~Leverage!Reaches(Leverage!Read(s, m), i.target)
    BY DEF AnswerOK, Leverage!IsExecutable, Answered, Leverage!Margins
<1>1. /\ MaxMargin \in Nat /\ i.target \in Nat /\ None \notin Nat
      /\ Leverage!Read(s, m) \in Nat \cup {None}
    BY SizesTyped DEF LeverageConstants
<1>2. \A k, n \in 1..MaxMargin : k < n /\ Leverage!Read(s, n) # None =>
         /\ Leverage!Read(s, k) # None
         /\ Leverage!Read(s, n) >= Leverage!Read(s, k)
    BY DEF Leverage!Ordered, Leverage!Margins, Leverage!Reaches
<1>3. CASE m <= low
    <2>1. low \in 1..MaxMargin /\ Leverage!Read(s, low) \in Nat /\ Leverage!Read(s, low) < i.target
        BY <1>1, <1>3, SizesTyped DEF Leverage!Short
    <2>2. m = low \/ (m < low /\ Leverage!Read(s, m) <= Leverage!Read(s, low))
        BY <1>1, <1>2, <1>3, <2>1
    <2> QED BY <1>1, <2>1, <2>2 DEF Leverage!Reaches
<1>4. CASE m = low + 1 /\ Leverage!Read(s, m) = None
    BY <1>4 DEF Leverage!Reaches
<1>5. CASE low + 1 < m /\ Leverage!Read(s, low + 1) = None
    <2>1. Leverage!Read(s, m) = None
        BY <1>1, <1>2, <1>5
    <2> QED BY <2>1 DEF Leverage!Reaches
<1> QED BY <1>3, <1>4, <1>5

LEMMA GrowStep ==
    ASSUME LeverageConstants, LeverageInv, NEW r \in Quoters, Leverage!Grow(r)
    PROVE  LeverageInv'
<1>1. PICK i, s, least, low, high :
         /\ i \in Inputs /\ s \in Leverage!Slots /\ low \in Nat /\ high \in Nat
         /\ quote[r] = Seeking("search", i, least, s, low, high)
         /\ Named(least, s) /\ SearchOK(i, s, low, high)
    BY Seeks DEF Leverage!Grow
<1>2. i.kind = "size" /\ MaxMargin \in Nat
    BY <1>1 DEF Leverage!Grow, Seeking, LeverageConstants
<1>3. chain' = chain /\ inFlight' = inFlight /\ Runs(quote[r])
    BY <1>1 DEF Leverage!Grow, Seeking, Runs
<1>4. Above(i, s, low, high) /\ low < high /\ high <= MaxMargin
    BY <1>1, <1>2 DEF SearchOK, Above
<1> DEFINE value == Leverage!Read(s, high)
<1>5. CASE ~Leverage!Short(value, i.target)
    <2>1. Leverage!Becomes(r, Seeking("bisect", i, least, s, low, high))
        BY <1>1, <1>5, Standing, Narrowing DEF Leverage!Grow
    <2>2. BisectOK(i, s, low, high)
        BY <1>2, <1>4, <1>5 DEF BisectOK
    <2> QED BY <1>1, <1>3, <2>1, <2>2, SeekStep
<1>6. CASE Leverage!Short(value, i.target) /\ high = MaxMargin
    <2>1. Leverage!Becomes(r, Answered("found", i, least, s, None))
        BY <1>1, <1>6, Standing, Finding DEF Leverage!Grow
    <2>2. AnswerOK(i, s, None)
        BY <1>1, <1>2, <1>6, Capacity
    <2> QED BY <1>1, <1>3, <2>1, <2>2, FoundStep
<1>7. CASE Leverage!Short(value, i.target) /\ high # MaxMargin
    <2> DEFINE more == Leverage!Doubled(high)
    <2>a. quote[r].high = high /\ quote[r].bank = s /\ quote[r].input = i
        BY <1>1, Standing
    <2>b. Leverage!Becomes(r, [quote[r] EXCEPT !.low = quote[r].high, !.high = Leverage!Doubled(quote[r].high)])
        BY <1>7, <2>a DEF Leverage!Grow
    <2>c. [quote[r] EXCEPT !.low = quote[r].high, !.high = Leverage!Doubled(quote[r].high)]
             = [[quote[r] EXCEPT !.low = quote[r].high] EXCEPT !.high = Leverage!Doubled(quote[r].high)]
        OBVIOUS
    <2>d. [quote[r] EXCEPT !.low = high] = Seeking("search", i, least, s, high, high)
        BY <1>1 DEF Seeking
    <2>e. [Seeking("search", i, least, s, high, high) EXCEPT !.high = Leverage!Doubled(high)]
             = Seeking("search", i, least, s, high, Leverage!Doubled(high))
        BY DEF Seeking
    <2>f. [quote[r] EXCEPT !.low = quote[r].high, !.high = Leverage!Doubled(quote[r].high)]
             = Seeking("search", i, least, s, high, more)
        BY <2>a, <2>c, <2>d, <2>e
    <2>1. Leverage!Becomes(r, Seeking("search", i, least, s, high, more))
        BY <2>b, <2>f
    <2>2. more \in Nat /\ high < more /\ more <= MaxMargin
        BY <1>1, <1>2, <1>4, <1>7 DEF Leverage!Doubled
    <2> HIDE DEF more
    <2>3. SearchOK(i, s, high, more)
        BY <1>2, <1>7, <2>2 DEF SearchOK, Above
    <2> QED BY <1>1, <1>3, <2>1, <2>2, <2>3, SeekStep
<1> QED BY <1>5, <1>6, <1>7

LEMMA MarginStep ==
    ASSUME LeverageConstants, LeverageInv, NEW r \in Quoters, Leverage!Margin(r)
    PROVE  LeverageInv'
<1>1. PICK i, s, least, low, high :
         /\ i \in Inputs /\ s \in Leverage!Slots /\ low \in Nat /\ high \in Nat
         /\ quote[r] = Seeking("bisect", i, least, s, low, high)
         /\ Named(least, s) /\ BisectOK(i, s, low, high)
    BY Seeks DEF Leverage!Margin
<1>2. i.kind = "size" /\ MaxMargin \in Nat /\ i.target \in Nat /\ None \notin Nat
    BY <1>1 DEF Leverage!Margin, Seeking, LeverageConstants
<1>3. chain' = chain /\ inFlight' = inFlight /\ Runs(quote[r])
    BY <1>1 DEF Leverage!Margin, Seeking, Runs
<1>4. /\ low < high /\ high <= MaxMargin
      /\ low = 0 \/ Leverage!Short(Leverage!Read(s, low), i.target)
      /\ ~Leverage!Short(Leverage!Read(s, high), i.target)
    BY <1>1, <1>2 DEF BisectOK, Above
<1> DEFINE m == (low + high) \div 2
           value == Leverage!Read(s, m)
<1>5. CASE high - low > 1
    <2>1. m \in Nat /\ low < m /\ m < high
        BY <1>1, <1>4, <1>5
    <2>2. CASE Leverage!Short(value, i.target)
        <3>1. Leverage!Becomes(r, Seeking("bisect", i, least, s, m, high))
            BY <1>1, <1>5, <2>2, Standing, Narrowing DEF Leverage!Margin, Leverage!Below
        <3> HIDE DEF m
        <3>2. BisectOK(i, s, m, high)
            BY <1>2, <1>4, <2>1, <2>2 DEF BisectOK, Above
        <3> QED BY <1>1, <1>3, <2>1, <3>1, <3>2, SeekStep
    <2>3. CASE ~Leverage!Short(value, i.target)
        <3>1. Leverage!Becomes(r, Seeking("bisect", i, least, s, low, m))
            BY <1>1, <1>5, <2>3, Standing, Narrowing DEF Leverage!Margin, Leverage!Below
        <3> HIDE DEF m
        <3>2. m <= MaxMargin
            BY <1>1, <1>2, <1>4, <2>1
        <3>3. BisectOK(i, s, low, m)
            BY <1>2, <1>4, <2>1, <2>3, <3>2 DEF BisectOK, Above
        <3> QED BY <1>1, <1>3, <2>1, <3>1, <3>3, SeekStep
    <2> QED BY <2>2, <2>3
<1>6. CASE ~(high - low > 1)
    <2>1. high = low + 1 /\ high - 1 = low /\ high \in 1..MaxMargin /\ low \in 0..MaxMargin
        BY <1>1, <1>2, <1>4, <1>6
    <2>2. Leverage!Read(s, high) \in Nat \cup {None}
        BY <1>1, <2>1, SizesTyped
    <2>3. CASE Leverage!Read(s, high) = None
        <3>1. Leverage!Becomes(r, Answered("found", i, least, s, None))
            BY <1>1, <1>6, <2>3, Standing, Finding DEF Leverage!Margin, Leverage!Reaches
        <3>2. AnswerOK(i, s, None)
            <4>1. \A k \in 1..MaxMargin : k <= low \/ k = low + 1 \/ low + 1 < k
                BY <2>1
            <4> QED BY <1>1, <1>2, <1>4, <2>1, <2>3, <4>1, Capacity
        <3> QED BY <1>1, <1>3, <3>1, <3>2, FoundStep
    <2>4. CASE Leverage!Read(s, high) # None
        <3>1. Leverage!Reaches(Leverage!Read(s, high), i.target)
            BY <1>2, <1>4, <2>2, <2>4 DEF Leverage!Short, Leverage!Reaches
        <3>2. Leverage!Becomes(r, Answered("found", i, least, s, high))
            BY <1>1, <1>6, <3>1, Standing, Finding DEF Leverage!Margin
        <3>3. high # None /\ high # 0 /\ (high = 1 \/ low # 0)
            BY <1>1, <1>2, <2>1
        <3>4. AnswerOK(i, s, high)
            BY <1>2, <1>4, <2>1, <3>1, <3>3 DEF AnswerOK, Leverage!IsExecutable, Answered
        <3> QED BY <1>1, <1>3, <3>2, <3>4, FoundStep
    <2> QED BY <2>3, <2>4
<1> QED BY <1>5, <1>6

LEMMA AnswerStep ==
    ASSUME LeverageConstants, LeverageInv, NEW r \in Quoters, Leverage!Answer(r)
    PROVE  LeverageInv'
<1>1. PICK i, s, least, found :
         /\ i \in Inputs /\ s \in Leverage!Slots
         /\ Named(least, s) /\ AnswerOK(i, s, found)
         /\ quote[r] = Answered("found", i, least, s, found)
    BY DEF LeverageInv, QuoteOK, Leverage!Idle, Begun, Seeking, Answered, Leverage!Answer
<1> DEFINE q == Answered("answered", i, least, s, found)
<1>2. Leverage!Becomes(r, q) /\ chain' = chain /\ inFlight' = inFlight - 1
    BY <1>1 DEF Leverage!Answer, Answered
<1>3. QuoteOK(q) /\ ~Runs(q) /\ Runs(quote[r])
    BY <1>1 DEF QuoteOK, Runs, Answered
<1> HIDE DEF q
<1> QED BY <1>2, <1>3, BecomesOK

LEMMA LeverageInit == ASSUME LeverageConstants, Leverage!Init PROVE LeverageInv
<1>1. Leverage!Running = {}
    BY DEF Leverage!Init, Leverage!Running, Leverage!Idle
<1> QED BY <1>1, FS_EmptySet DEF Leverage!Init, LeverageInv, LeverageConstants, QuoteOK

LEMMA LeverageNext ==
    ASSUME LeverageConstants, LeverageInv, [Leverage!Next]_Leverage!vars
    PROVE  LeverageInv'
<1>1. CASE UNCHANGED Leverage!vars
    <2>1. /\ chain' = chain /\ quote' = quote /\ inFlight' = inFlight
        BY <1>1 DEF Leverage!vars
    <2>2. \A q : QuoteOK(q) => QuoteOK(q)'
        BY <2>1, QuoteStays
    <2>3. ASSUME NEW r \in Quoters PROVE QuoteOK(quote[r])'
        BY <2>1, <2>2 DEF LeverageInv
    <2> QED BY <2>1, <2>3 DEF LeverageInv, Leverage!Running
<1>2. CASE Leverage!Next
    <2>1. PICK r \in Quoters :
              \/ \E i \in Inputs, least \in Leverage!Slots : Leverage!Begin(r, i, least)
              \/ quote[r].at = "capture" /\ \E slot, bank \in Leverage!Slots : Leverage!Capture(r, slot, bank)
              \/ Leverage!Lowest(r) \/ Leverage!Multiplier(r) \/ Leverage!Grow(r) \/ Leverage!Margin(r)
              \/ Leverage!Answer(r) \/ Leverage!End(r)
        BY <1>2 DEF Leverage!Next
    <2>2. CASE \E i \in Inputs, least \in Leverage!Slots : Leverage!Begin(r, i, least)
        BY <2>2, LeverageBegin
    <2>3. CASE quote[r].at = "capture" /\ \E slot, bank \in Leverage!Slots : Leverage!Capture(r, slot, bank)
        BY <2>3, LeverageCapture
    <2>4. CASE Leverage!Lowest(r) \/ Leverage!Multiplier(r) \/ Leverage!Grow(r) \/ Leverage!Margin(r)
        BY <2>4, LowestStep, MultiplierStep, GrowStep, MarginStep
    <2>5. CASE Leverage!Answer(r)
        BY <2>5, AnswerStep
    <2>6. CASE Leverage!End(r)
        BY <2>6, LeverageEnd
    <2> QED BY <2>1, <2>2, <2>3, <2>4, <2>5, <2>6
<1> QED BY <1>1, <1>2

LEMMA LeverageSteps == [Next]_vars => [Leverage!Next]_Leverage!vars
BY DEF Next, DrainStep, CaptureStep, ValuationStep, ActivityStep, RatesStep, BookStep,
       LeverageStep, WalletStep, vars, quoteVars, leverageVars, Leverage!vars

\* A leverage that is answered is taken by the one bank that was captured and the
\* next is not, and a margin reaches its size where one less falls short, whatever
\* the program refuses in between; the bank is no older than the client asked for;
\* and the places in the limit are those of the requests that run
\* (duskLeverageMaximum.ts).
THEOREM LeverageHolds == Spec => []LeverageIsExecutable
<1>1. LeverageInv => LeverageIsExecutable
    <2> SUFFICES ASSUME LeverageInv PROVE Leverage!LeverageIsExecutable
        BY DEF LeverageIsExecutable
    <2>1. ASSUME NEW r \in Quoters, quote[r].at \in {"found", "answered"}
          PROVE  /\ quote[r].bank = quote[r].slot /\ Leverage!IsExecutable(quote[r])
                 /\ quote[r].bank >= quote[r].least
        <3>1. PICK i, s, least, found :
                 /\ AnswerOK(i, s, found) /\ s \in Leverage!Slots /\ Named(least, s)
                 /\ \/ quote[r] = Answered("found", i, least, s, found)
                    \/ quote[r] = Answered("answered", i, least, s, found)
            BY <2>1 DEF LeverageInv, QuoteOK, Leverage!Idle, Begun, Seeking
        <3>2. Leverage!IsExecutable(quote[r])
            BY <3>1 DEF AnswerOK
        <3>3. s \in Nat /\ least \in Nat /\ least <= s
            BY <3>1, LeverageAssumption DEF Named, LeverageInv, LeverageConstants, Leverage!Slots
        <3> QED BY <3>1, <3>2, <3>3 DEF Answered
    <2>2. inFlight = Cardinality(Leverage!Running) /\ inFlight <= MaxInFlight
        BY LeverageAssumption DEF LeverageInv, LeverageConstants
    <2> QED BY <2>1, <2>2, LeverageCardinality DEF Leverage!LeverageIsExecutable
<1>2. Init => LeverageInv
    BY LeverageInit, LeverageAssumption DEF Init
<1>3. LeverageInv /\ [Next]_vars => LeverageInv'
    BY LeverageNext, LeverageSteps, LeverageAssumption
<1> QED BY <1>1, <1>2, <1>3, PTL DEF Spec

-----------------------------------------------------------------------------
(* A wallet's capture: what is read between its two lists.                   *)

WalletSlots == 1..LastState

\* The positions of a bank, of the markets that bank b has.
IsList(c, rows, slot, b) ==
    /\ DOMAIN rows = {p \in DOMAIN c.positions :
                        c.positions[p][slot] # None /\ c.positions[p][slot].market \in c.markets[b]}
    /\ \A p \in DOMAIN rows : rows[p] = c.positions[p][slot]

\* What a simulated close sold is what its position held.
SaleOK(c, low, p, sale) ==
    /\ sale.slot \in low..LastState /\ sale.checked \in 0..LastState
    /\ sale.status = "available" => c.positions[p][sale.slot].collateral = sale.position.collateral

\* A row is of its slot's bank, and its price of the same order.
RowOK(c, o, row, low, high) ==
    /\ row = [order |-> row.order, slot |-> row.slot, position |-> row.position,
              retired |-> row.retired, mark |-> row.mark]
    /\ o \in DOMAIN c.orders /\ row.slot \in low..high
    /\ row.order = c.orders[o][row.slot] /\ row.order # None
    /\ row.order.kind = "exit" => row.position = c.positions[row.order.position][row.slot]
    /\ row.order.kind = "entry" /\ row.mark # None =>
          row.mark.slot \in row.slot..high /\ c.orders[o][row.mark.slot] = row.order

\* An order that is in scope at the first list and open until now.
StaysOpen(c, o, low, high) ==
    /\ o \in DOMAIN c.orders
    /\ \A s \in low..high : c.orders[o][s] # None
    /\ c.orders[o][low].market \in c.markets[low]

OrderKinds == {"exit", "entry", "hlp"}
KindsRead(reads) ==
    {k \in OrderKinds : \/ reads \in {"marks", "triggers"}
                        \/ reads = "hlp" /\ k # "hlp"
                        \/ reads = "entry" /\ k = "exit"}

\* Of a kind that has been read, no order that stays open is left out; of the
\* kind being read, what is not among the rows is still to be read.
NoneLeftOut(c, low, reads, high, found, rows) ==
    \A o : StaysOpen(c, o, low, high) =>
        /\ c.orders[o][low].kind \in KindsRead(reads) => o \in DOMAIN rows
        /\ found # None /\ c.orders[o][low].kind = reads => o \in DOMAIN rows \cup found

OrdersOK(c, low, reads, scope, high, found, left, rows) ==
    /\ reads \in {"scope", "marks", "triggers"} \cup OrderKinds
    /\ reads = "scope" => high = 0 /\ rows = Wallet!Nothing
    /\ reads # "scope" => scope \in low..LastState /\ high \in low..LastState
    /\ found # None => reads \in OrderKinds /\ found \subseteq DOMAIN c.orders
    /\ \A o \in DOMAIN rows : RowOK(c, o, rows[o], low, high)
    /\ NoneLeftOut(c, low, reads, high, found, rows)
    /\ left \subseteq DOMAIN rows
    /\ reads = "triggers" => \A o \in left : rows[o].order.kind = "hlp"

-----------------------------------------------------------------------------
(* The reads of orders.                                                      *)

\* A function of a set grows by what is added.
LEMMA WithIs ==
    ASSUME NEW f, NEW x, NEW y, x \notin DOMAIN f
    PROVE  /\ DOMAIN Wallet!With(f, x, y) = DOMAIN f \cup {x}
           /\ \A z \in DOMAIN f : Wallet!With(f, x, y)[z] = f[z]
           /\ Wallet!With(f, x, y)[x] = y
BY DEF Wallet!With, Wallet!Joined

\* A row stays right while the floor rises.
LEMMA RowStays ==
    ASSUME NEW c, NEW o, NEW row, NEW low, NEW high \in Nat, NEW more \in Nat, high <= more,
           low \in Nat, LastState \in Nat, RowOK(c, o, row, low, high)
    PROVE  RowOK(c, o, row, low, more)
<1>1. row.slot \in low..more
    BY DEF RowOK
<1>2. row.order.kind = "entry" /\ row.mark # None => row.mark.slot \in row.slot..more
    BY DEF RowOK
<1> QED BY <1>1, <1>2 DEF RowOK

LEMMA OpenStays ==
    ASSUME NEW c, NEW o, NEW low \in Nat, NEW high \in Nat, NEW more \in Nat, high <= more,
           StaysOpen(c, o, low, more)
    PROVE  StaysOpen(c, o, low, high)
BY DEF StaysOpen

\* What an order in scope was at the first list it is later, while it is open.
LEMMA SameOrder ==
    ASSUME WalletConstants, NEW c \in WalletHistories, NEW o \in DOMAIN c.orders,
           NEW s \in WalletSlots, NEW t \in WalletSlots, c.orders[o][s] # None, c.orders[o][t] # None
    PROVE  /\ c.orders[o][s].market = c.orders[o][t].market
           /\ c.orders[o][s].kind = c.orders[o][t].kind /\ c.orders[o][s].kind \in OrderKinds
BY DEF WalletConstants, OrderKinds, WalletSlots

LEMMA ScopeGrows ==
    ASSUME WalletConstants, NEW c \in WalletHistories, NEW s \in WalletSlots, NEW t \in WalletSlots,
           s <= t
    PROVE  c.markets[s] \subseteq c.markets[t]
BY DEF WalletConstants, WalletSlots

\* The accounts of a kind, at a slot above the scope's.
LEMMA ScopeRead ==
    ASSUME WalletConstants, NEW c \in WalletHistories, NEW low \in WalletSlots, NEW s \in low..LastState
    PROVE  OrdersOK(c, low, "exit", s, s, None, {}, Wallet!Nothing)
<1>1. DOMAIN Wallet!Nothing = {}
    BY DEF Wallet!Nothing
<1>2. KindsRead("exit") = {}
    BY DEF KindsRead
<1>3. NoneLeftOut(c, low, "exit", s, None, Wallet!Nothing)
    BY <1>2 DEF NoneLeftOut
<1> QED BY <1>1, <1>3 DEF OrdersOK, OrderKinds

LEMMA DiscoverKeeps ==
    ASSUME WalletConstants, NEW c \in WalletHistories, NEW low \in WalletSlots,
           NEW k \in OrderKinds, NEW scope, NEW floor, NEW left, NEW rows,
           OrdersOK(c, low, k, scope, floor, None, left, rows),
           NEW s \in floor..LastState, NEW found,
           found = {o \in DOMAIN c.orders : /\ c.orders[o][s] # None
                                            /\ c.orders[o][s].market \in c.markets[scope]
                                            /\ c.orders[o][s].kind = k}
    PROVE  OrdersOK(c, low, k, scope, s, found, {}, rows)
<1>1. k \notin {"scope", "triggers"}
    BY DEF OrderKinds
<1>2. scope \in low..LastState /\ floor \in low..LastState
    BY <1>1 DEF OrdersOK
<1>3. LastState \in Nat /\ low \in Nat /\ floor \in Nat /\ s \in Nat /\ floor <= s /\ s \in low..LastState
      /\ scope \in WalletSlots /\ s \in WalletSlots /\ low <= scope
    BY <1>2 DEF WalletConstants, WalletSlots
<1>4. \A o \in DOMAIN rows : RowOK(c, o, rows[o], low, s)
    BY <1>3, RowStays DEF OrdersOK
<1>5. NoneLeftOut(c, low, k, s, found, rows)
    <2> SUFFICES ASSUME NEW o, StaysOpen(c, o, low, s)
                 PROVE  /\ c.orders[o][low].kind \in KindsRead(k) => o \in DOMAIN rows
                        /\ c.orders[o][low].kind = k => o \in DOMAIN rows \cup found
        BY DEF NoneLeftOut
    <2>1. StaysOpen(c, o, low, floor)
        BY <1>3, OpenStays
    <2>2. c.orders[o][low].kind \in KindsRead(k) => o \in DOMAIN rows
        BY <2>1 DEF OrdersOK, NoneLeftOut
    <2>3. ASSUME c.orders[o][low].kind = k PROVE o \in found
        <3>1. o \in DOMAIN c.orders /\ c.orders[o][low] # None /\ c.orders[o][s] # None
              /\ c.orders[o][low].market \in c.markets[low]
            BY <1>3 DEF StaysOpen
        <3>2. c.orders[o][s].market = c.orders[o][low].market /\ c.orders[o][s].kind = c.orders[o][low].kind
            BY <1>3, <3>1, SameOrder
        <3>3. c.markets[low] \subseteq c.markets[scope]
            BY <1>3, ScopeGrows
        <3> QED BY <2>3, <3>1, <3>2, <3>3
    <2> QED BY <2>2, <2>3
<1> QED BY <1>1, <1>2, <1>3, <1>4, <1>5 DEF OrdersOK

\* A batch that is read at one bank, and skips what is gone there.
LEMMA DetailKeeps ==
    ASSUME WalletConstants, NEW c \in WalletHistories, NEW low \in WalletSlots,
           NEW k, NEW scope, NEW floor, NEW found, NEW left, NEW rows, found # None,
           OrdersOK(c, low, k, scope, floor, found, left, rows),
           NEW s \in floor..LastState, NEW some, some \subseteq found, NEW read,
           found \ some # None,
           DOMAIN read = {o \in some : c.orders[o][s] # None},
           \A o \in DOMAIN read : RowOK(c, o, read[o], low, s)
    PROVE  OrdersOK(c, low, k, scope, s, found \ some, {}, Wallet!Joined(rows, read))
<1>1. k \in OrderKinds /\ k \notin {"scope", "triggers"}
    BY DEF OrderKinds, OrdersOK
<1>2. scope \in low..LastState /\ floor \in low..LastState
    BY <1>1 DEF OrdersOK
<1>3. LastState \in Nat /\ low \in Nat /\ floor \in Nat /\ s \in Nat /\ floor <= s /\ s \in low..LastState
    BY <1>2 DEF WalletConstants, WalletSlots
<1>4. \A o \in DOMAIN rows : RowOK(c, o, rows[o], low, s)
    BY <1>3, RowStays DEF OrdersOK
<1>9. PICK joined : joined = Wallet!Joined(rows, read)
    OBVIOUS
<1>5. /\ DOMAIN joined = DOMAIN rows \cup DOMAIN read
      /\ \A x \in DOMAIN rows : joined[x] = rows[x]
      /\ \A x \in DOMAIN read \ DOMAIN rows : joined[x] = read[x]
    BY <1>9 DEF Wallet!Joined
<1>6. \A o \in DOMAIN joined : RowOK(c, o, joined[o], low, s)
    <2> SUFFICES ASSUME NEW o \in DOMAIN joined PROVE RowOK(c, o, joined[o], low, s)
        OBVIOUS
    <2>1. CASE o \in DOMAIN rows
        BY <1>4, <1>5, <2>1
    <2>2. CASE o \in DOMAIN read \ DOMAIN rows
        BY <1>5, <2>2
    <2> QED BY <1>5, <2>1, <2>2
<1>7. NoneLeftOut(c, low, k, s, found \ some, joined)
    <2> SUFFICES ASSUME NEW o, StaysOpen(c, o, low, s)
                 PROVE  /\ c.orders[o][low].kind \in KindsRead(k) => o \in DOMAIN joined
                        /\ c.orders[o][low].kind = k => o \in DOMAIN joined \cup (found \ some)
        BY DEF NoneLeftOut
    <2>1. StaysOpen(c, o, low, floor)
        BY <1>3, OpenStays
    <2>2. /\ c.orders[o][low].kind \in KindsRead(k) => o \in DOMAIN rows
          /\ c.orders[o][low].kind = k => o \in DOMAIN rows \cup found
        BY <2>1 DEF OrdersOK, NoneLeftOut
    <2>3. c.orders[o][s] # None
        BY <1>3 DEF StaysOpen
    <2> QED BY <1>5, <2>2, <2>3
<1>8. OrdersOK(c, low, k, scope, s, found \ some, {}, joined)
    BY <1>1, <1>2, <1>3, <1>6, <1>7 DEF OrdersOK
<1> QED BY <1>8, <1>9

\* A row that was read at one bank.
LEMMA DetailRow ==
    ASSUME WalletConstants, NEW low \in WalletSlots, NEW s \in low..LastState, NEW o \in DOMAIN states.orders,
           states.orders[o][s] # None
    PROVE  RowOK(states, o, Wallet!OrderRow(o, s, s), low, s)
<1>1. s \in low..s
    BY DEF WalletConstants, WalletSlots
<1> QED BY <1>1 DEF RowOK, Wallet!OrderRow

\* A kind has been read when none of its accounts is left.
LEMMA KindDoneKeeps ==
    ASSUME NEW c, NEW low, NEW k, NEW scope, NEW floor, NEW found, NEW left, NEW rows, found = {},
           found # None, OrdersOK(c, low, k, scope, floor, found, left, rows),
           NEW rest, rest \subseteq DOMAIN rows
    PROVE  OrdersOK(c, low, Wallet!AfterKind(k), scope, floor, None, rest, rows)
<1>1. k \in OrderKinds
    BY DEF OrdersOK
<1> DEFINE next == Wallet!AfterKind(k)
<1>2. /\ next \in {"entry", "hlp", "marks"} /\ next # "triggers" /\ next # "scope"
      /\ KindsRead(next) \subseteq KindsRead(k) \cup {k}
      /\ k # "scope" /\ next \in {"scope", "marks", "triggers"} \cup OrderKinds
    BY <1>1 DEF Wallet!AfterKind, OrderKinds, KindsRead
<1> HIDE DEF next
<1>3. NoneLeftOut(c, low, next, floor, None, rows)
    BY <1>2 DEF NoneLeftOut, OrdersOK
<1>4. OrdersOK(c, low, next, scope, floor, None, rest, rows)
    BY <1>2, <1>3 DEF OrdersOK
<1> QED BY <1>4 DEF next

\* A row gets the mark that was read for it, from a bank that is not older.
LEMMA MarkedRow ==
    ASSUME NEW c, NEW o, NEW row, NEW low \in Nat, NEW high \in Nat, NEW more \in Nat, high <= more,
           LastState \in Nat, RowOK(c, o, row, low, high), NEW mark,
           row.order.kind = "entry" /\ mark # None =>
              mark.slot \in row.slot..more /\ c.orders[o][mark.slot] = row.order
    PROVE  RowOK(c, o, [row EXCEPT !.mark = mark], low, more)
<1>1. row = [order |-> row.order, slot |-> row.slot, position |-> row.position,
             retired |-> row.retired, mark |-> row.mark]
    BY DEF RowOK
<1>2. [row EXCEPT !.mark = mark] = [order |-> row.order, slot |-> row.slot, position |-> row.position,
                                    retired |-> row.retired, mark |-> mark]
    BY <1>1
<1>3. row.slot \in low..more
    BY DEF RowOK
<1> QED BY <1>2, <1>3 DEF RowOK

SameBut(f, g, o) == DOMAIN f = DOMAIN g /\ \A x \in DOMAIN f \ {o} : f[x] = g[x]

LEMMA MarkKeeps ==
    ASSUME WalletConstants, NEW c, NEW low \in WalletSlots,
           NEW reads \in {"marks", "triggers"}, NEW scope, NEW floor, NEW found, NEW left, NEW rows,
           OrdersOK(c, low, reads, scope, floor, found, left, rows),
           NEW o \in left, NEW s \in floor..LastState, NEW new, SameBut(new, rows, o),
           RowOK(c, o, new[o], low, s), new[o].order = rows[o].order
    PROVE  OrdersOK(c, low, reads, scope, s, None, left \ {o}, new)
<1>1. scope \in low..LastState /\ floor \in low..LastState /\ o \in DOMAIN rows
    BY DEF OrdersOK
<1>2. LastState \in Nat /\ low \in Nat /\ floor \in Nat /\ s \in Nat /\ floor <= s /\ s \in low..LastState
    BY <1>1 DEF WalletConstants, WalletSlots
<1>7. DOMAIN new = DOMAIN rows /\ \A x \in DOMAIN rows \ {o} : new[x] = rows[x]
    BY DEF SameBut
<1>3. ASSUME NEW x \in DOMAIN new PROVE RowOK(c, x, new[x], low, s)
    <2>1. CASE x # o
        <3>1. RowOK(c, x, rows[x], low, floor)
            BY <1>3, <1>7 DEF OrdersOK
        <3>2. RowOK(c, x, rows[x], low, s)
            BY <1>2, <3>1, RowStays
        <3> QED BY <1>3, <1>7, <2>1, <3>2
    <2> QED BY <2>1
<1>4. NoneLeftOut(c, low, reads, s, None, new)
    <2> SUFFICES ASSUME NEW x, StaysOpen(c, x, low, s), c.orders[x][low].kind \in KindsRead(reads)
                 PROVE  x \in DOMAIN new
        BY DEF NoneLeftOut
    <2>1. StaysOpen(c, x, low, floor)
        BY <1>2, OpenStays
    <2> QED BY <1>7, <2>1 DEF OrdersOK, NoneLeftOut
<1>5. left \ {o} \subseteq DOMAIN new
    BY <1>7 DEF OrdersOK
<1>6. reads = "triggers" => \A x \in left \ {o} : new[x].order.kind = "hlp"
    BY <1>5, <1>7 DEF OrdersOK
<1> QED BY <1>1, <1>2, <1>3, <1>4, <1>5, <1>6 DEF OrdersOK

LEMMA MarksDoneKeeps ==
    ASSUME NEW c, NEW low, NEW scope, NEW floor, NEW found, NEW left, NEW rows,
           OrdersOK(c, low, "marks", scope, floor, found, left, rows),
           NEW rest, rest \subseteq DOMAIN rows, \A o \in rest : rows[o].order.kind = "hlp"
    PROVE  OrdersOK(c, low, "triggers", scope, floor, None, rest, rows)
<1>1. KindsRead("triggers") = KindsRead("marks")
    BY DEF KindsRead
<1>2. NoneLeftOut(c, low, "triggers", floor, None, rows)
    BY <1>1 DEF OrdersOK, NoneLeftOut
<1> QED BY <1>2 DEF OrdersOK

-----------------------------------------------------------------------------
(* The capture as a whole.                                                   *)

ListOK(c, floor, list) ==
    \E b \in floor..LastState : list.slot \in b..LastState /\ IsList(c, list.rows, list.slot, b)

Coverage == [Wallet!Streams -> [rows : 0..LastState, slot : 0..LastState]]

ValuesOK(c, low, sold, priced, owing) ==
    /\ \A p \in DOMAIN sold : SaleOK(c, low, p, sold[p])
    /\ \A m \in DOMAIN priced : priced[m] \in low..LastState
    /\ \A a \in DOMAIN owing : owing[a].slot \in low..LastState

HoldingsOK(worths) == \A m \in DOMAIN worths : worths[m].slot \in 0..LastState

ReadingOK(c, low, r) == OrdersOK(c, low, r.at, r.scope, r.floor, r.found, r.left, r.rows)

\* The second list is the first, and nothing was read after it.
HeldOK(c, low, high, rows, sold, priced, owing, floor) ==
    /\ high \in low..LastState
    /\ \E b \in low..high : IsList(c, rows, high, b)
    /\ \A p \in DOMAIN sold : sold[p].slot <= high
    /\ \A m \in DOMAIN priced : priced[m] <= high
    /\ \A a \in DOMAIN owing : owing[a].slot <= high
    /\ floor <= high

\* A valuation that counts is of the position that was listed.
AvailableOK(rows, sold) ==
    \A p \in DOMAIN sold : sold[p].status = "available" => sold[p].position = rows[p]

\* The events that the stream has of a position since it was opened.
EventsOf(c, p, held, through, lacked) ==
    {e \in {x \in c.events : x.slot <= through} \ lacked : e.position = p /\ e.slot >= held.opened}

\* Flows that count are the sums of events that lead to what was listed.
FlowsOK(c, rows, flow, through, lacked) ==
    \A p \in DOMAIN flow :
        LET events == EventsOf(c, p, rows[p], through, lacked)
        IN  /\ p \in DOMAIN rows
            /\ flow[p].status = "available" =>
                  /\ \A e \in events : e.name \in {"opened", "updated", "liquidated"}
                  /\ Wallet!LeadsTo(events, rows[p])
                  /\ flow[p].contributed = Wallet!Sum("debit", events)
                  /\ flow[p].withdrawn = Wallet!Sum("credit", events)

\* Before the first list, nothing is read.
Untouched ==
    /\ covered = [k \in Wallet!Streams |-> [rows |-> 0, slot |-> 0]]
    /\ sales = Wallet!Nothing /\ marks = Wallet!Nothing /\ debts = Wallet!Nothing
    /\ standing = Wallet!Reading("scope", 0, 0, None, {}, Wallet!Nothing)
    /\ shareValues = Wallet!Nothing

Captured ==
    /\ ListOK(states, walletFloor, owned)
    /\ covered \in Coverage
    /\ ValuesOK(states, owned.slot, sales, marks, debts)
    /\ HoldingsOK(shareValues)
    /\ ReadingOK(states, owned.slot, standing)
    /\ stage \notin {"streams", "parts"} => standing.at = "triggers" /\ standing.left = {}

Listed == stage \in {"flows", "publish", "published"}

WalletInv ==
    /\ states \in WalletHistories /\ walletFloor \in WalletSlots /\ tip \in WalletSlots
    /\ stage = "accounts" => Untouched
    /\ stage \notin {"accounts", "failed"} => Captured
    /\ Listed => HeldOK(states, owned.slot, relisted, owned.rows, sales, marks, debts, standing.floor)
    /\ stage \in {"publish", "published"} => FlowsOK(states, owned.rows, cashFlows, tip, gaps)
    /\ stage = "published" => AvailableOK(owned.rows, sales)

\* The highest of some slots.
LEMMA HighestSlot ==
    ASSUME WalletConstants, NEW S, S \subseteq 0..LastState, S # {}
    PROVE  Wallet!Max(S) \in S /\ \A y \in S : y <= Wallet!Max(S)
<1>1. LastState \in Nat
    BY DEF WalletConstants
<1>2. PICK m \in S : \A y \in S : m >= y
    BY <1>1, MaxExists
<1>3. Wallet!Max(S) \in S /\ \A y \in S : Wallet!Max(S) >= y
    BY <1>2 DEF Wallet!Max
<1>4. \A y \in S : y \in Int
    BY <1>1
<1> QED BY <1>3, <1>4

LEMMA ListedSlot ==
    ASSUME WalletConstants, NEW c, NEW floor \in WalletSlots, NEW list, ListOK(c, floor, list)
    PROVE  list.slot \in WalletSlots /\ floor <= list.slot
BY DEF WalletConstants, WalletSlots, ListOK

\* What the node answers to a request for the owner's accounts.
LEMMA AccountsRead ==
    ASSUME WalletConstants, NEW floor \in WalletSlots, NEW list \in Wallet!OwnerAccounts(floor)
    PROVE  ListOK(states, floor, list)
<1>1. PICK b \in Wallet!Rising(2, floor) :
         list = [slot |-> b[2], rows |-> Wallet!InScope(states.positions, b[2], b[1])]
    BY DEF Wallet!OwnerAccounts
<1>2. LastState \in Nat /\ floor \in Nat
    BY DEF WalletConstants, WalletSlots
<1>3. b \in [1..2 -> floor..LastState] /\ (\A i \in 1..(2 - 1) : b[i] <= b[i + 1])
    BY <1>1 DEF Wallet!Rising
<1>4. b[1] \in floor..LastState /\ b[2] \in floor..LastState /\ b[1] <= b[1 + 1]
    BY <1>3
<1>5. b[2] \in b[1]..LastState
    BY <1>2, <1>4
<1>6. IsList(states, list.rows, list.slot, b[1])
    BY <1>1 DEF IsList, Wallet!InScope, Wallet!At, Wallet!Restrict, Wallet!Scope
<1>7. list.slot = b[2]
    BY <1>1
<1> QED BY <1>4, <1>5, <1>6, <1>7 DEF ListOK

\* The floor of what follows the list.
LEMMA FloorOfCapture ==
    ASSUME WalletConstants, WalletInv, Captured
    PROVE  Wallet!CaptureFloor \in owned.slot..LastState /\ owned.slot \in WalletSlots
<1>1. owned.slot \in WalletSlots /\ walletFloor \in WalletSlots
    BY ListedSlot DEF WalletInv, Captured
<1>2. {walletFloor, owned.slot} \subseteq 0..LastState
    BY <1>1 DEF WalletConstants, WalletSlots
<1>3. Wallet!CaptureFloor \in {walletFloor, owned.slot} /\ owned.slot <= Wallet!CaptureFloor
    BY <1>2, HighestSlot DEF Wallet!CaptureFloor
<1> QED BY <1>1, <1>3 DEF WalletConstants, WalletSlots

LEMMA SlotsCovered ==
    ASSUME covered \in Coverage, NEW k \in Wallet!Streams
    PROVE  covered[k].slot \in 0..LastState
BY DEF Coverage

LEMMA WalletInit ==
    ASSUME WalletConstants, Wallet!Init
    PROVE  WalletInv
BY DEF WalletConstants, WalletSlots, WalletInv, Wallet!Init, Untouched, Listed

\* The first list.
LEMMA AccountsKeep ==
    ASSUME WalletConstants, WalletInv, Wallet!ReadAccounts
    PROVE  WalletInv'
<1>1. /\ stage = "accounts" /\ stage' = "streams" /\ Untouched
      /\ owned' \in Wallet!OwnerAccounts(walletFloor) /\ walletFloor \in WalletSlots
      /\ UNCHANGED <<states, tip, gaps, walletFloor, covered, sales, marks, debts, standing, shareValues>>
    BY DEF WalletInv, Wallet!ReadAccounts, Wallet!given, Wallet!parts
<1>2. ListOK(states, walletFloor, owned')
    BY <1>1, AccountsRead
<1>3. owned'.slot \in WalletSlots
    BY <1>1, <1>2, ListedSlot
<1>4. covered \in Coverage
    BY <1>1 DEF Untouched, Coverage, WalletConstants
<1>5. DOMAIN Wallet!Nothing = {}
    BY DEF Wallet!Nothing
<1>6. ValuesOK(states, owned'.slot, sales, marks, debts) /\ HoldingsOK(shareValues)
    BY <1>1, <1>5 DEF Untouched, ValuesOK, HoldingsOK
<1>7. NoneLeftOut(states, owned'.slot, "scope", 0, None, Wallet!Nothing)
    BY DEF NoneLeftOut, KindsRead
<1>8. ReadingOK(states, owned'.slot, standing)
    BY <1>1, <1>5, <1>7 DEF Untouched, ReadingOK, OrdersOK, Wallet!Reading
<1> QED BY <1>1, <1>2, <1>4, <1>6, <1>8 DEF WalletInv, Captured, Listed

\* A step of the parts, that leaves the lists and the stages alone.
Fixed == UNCHANGED <<states, tip, gaps, walletFloor, owned, relisted, cashFlows>>

LEMMA CoveredStep ==
    ASSUME WalletConstants, WalletInv, NEW k \in Wallet!Streams, Wallet!ReadRows(k) \/ Wallet!ReadCursor(k)
    PROVE  WalletInv'
<1>1. /\ stage = "streams" /\ stage' \in {"streams", "parts"} /\ Captured
      /\ UNCHANGED <<states, walletFloor, tip, owned, sales, marks, debts, standing, shareValues>>
    BY DEF WalletInv, Wallet!ReadRows, Wallet!ReadCursor, Wallet!given, Wallet!parts
<1>2. tip \in 0..LastState
    BY DEF WalletInv, WalletSlots, WalletConstants
<1>3. covered' \in Coverage
    BY <1>1, <1>2 DEF Captured, Coverage, Wallet!ReadRows, Wallet!ReadCursor
<1> QED BY <1>1, <1>3 DEF WalletInv, Captured, Listed

LEMMA StreamKeeps ==
    ASSUME WalletConstants, WalletInv, Wallet!StreamMoves
    PROVE  WalletInv'
<1>1. /\ stage' = stage /\ stage \in {"streams", "flows"} /\ tip' \in WalletSlots
      /\ UNCHANGED <<states, walletFloor, owned, covered, sales, marks, debts, standing, shareValues, relisted>>
    BY DEF WalletInv, Wallet!StreamMoves, Wallet!parts, WalletSlots, WalletConstants
<1> QED BY <1>1 DEF WalletInv, Captured, Listed, Untouched

\* A step that ends the capture.
LEMMA FailKeeps ==
    ASSUME WalletInv, Wallet!Fail
    PROVE  WalletInv'
BY DEF WalletInv, Wallet!Fail, Wallet!given, Listed

\* Another close simulated.
LEMMA ValueKeeps ==
    ASSUME WalletConstants, WalletInv, NEW p, Wallet!Value(p)
    PROVE  WalletInv'
<1>1. /\ stage = "parts" /\ stage' = stage /\ Captured /\ p \notin DOMAIN sales
      /\ UNCHANGED <<states, walletFloor, tip, owned, covered, marks, debts, standing, shareValues>>
    BY DEF WalletInv, Wallet!Value, Wallet!given
<1>2. PICK v \in Wallet!Valuations(p, Wallet!CaptureFloor) : sales' = Wallet!With(sales, p, v)
    BY DEF Wallet!Value
<1>3. PICK floor : floor = Wallet!CaptureFloor
    OBVIOUS
<1>4. floor \in owned.slot..LastState /\ owned.slot \in WalletSlots
    BY <1>1, <1>3, FloorOfCapture
<1>5. PICK b \in Wallet!Rising(5, floor) :
         \/ /\ states.positions[p][b[4]].collateral = states.positions[p][b[1]].collateral
            /\ v = [status |-> "available", position |-> states.positions[p][b[1]], slot |-> b[4], checked |-> b[5]]
         \/ v = [status |-> "unavailable", slot |-> b[4], checked |-> b[4]]
    BY <1>2, <1>3 DEF Wallet!Valuations, Wallet!ReceiptMatches
<1>6. b[4] \in floor..LastState /\ b[5] \in floor..LastState
    BY <1>5 DEF Wallet!Rising
<1>7. b[4] \in owned.slot..LastState /\ b[4] \in 0..LastState /\ b[5] \in 0..LastState
    BY <1>4, <1>6 DEF WalletSlots, WalletConstants
<1>8. SaleOK(states, owned.slot, p, v)
    BY <1>5, <1>7 DEF SaleOK
<1>9. /\ DOMAIN sales' = DOMAIN sales \cup {p} /\ sales'[p] = v
      /\ \A z \in DOMAIN sales : sales'[z] = sales[z]
    BY <1>1, <1>2 DEF Wallet!With, Wallet!Joined
<1>10. ValuesOK(states, owned.slot, sales', marks, debts)
    BY <1>1, <1>8, <1>9 DEF Captured, ValuesOK
<1> QED BY <1>1, <1>10 DEF WalletInv, Captured, Listed

LEMMA OracleKeeps ==
    ASSUME WalletConstants, WalletInv, NEW m, Wallet!ValueByOracle(m)
    PROVE  WalletInv'
<1>1. /\ stage = "parts" /\ stage' = stage /\ Captured /\ m \notin DOMAIN marks
      /\ UNCHANGED <<states, walletFloor, tip, owned, covered, sales, debts, standing, shareValues>>
    BY DEF WalletInv, Wallet!ValueByOracle, Wallet!given
<1>2. PICK s \in Wallet!CaptureFloor..LastState : marks' = Wallet!With(marks, m, s)
    BY DEF Wallet!ValueByOracle, Wallet!OracleBanks
<1>3. s \in owned.slot..LastState
    BY <1>1, FloorOfCapture DEF WalletSlots, WalletConstants
<1>4. /\ DOMAIN marks' = DOMAIN marks \cup {m} /\ marks'[m] = s
      /\ \A z \in DOMAIN marks : marks'[z] = marks[z]
    BY <1>1, <1>2 DEF Wallet!With, Wallet!Joined
<1>5. ValuesOK(states, owned.slot, sales, marks', debts)
    BY <1>1, <1>3, <1>4 DEF Captured, ValuesOK
<1> QED BY <1>1, <1>5 DEF WalletInv, Captured, Listed

\* The floor of a value that the stream's cursor covers.
LEMMA FloorOfStream ==
    ASSUME WalletConstants, NEW low \in 0..LastState, covered \in Coverage, NEW k \in Wallet!Streams
    PROVE  LET high == Wallet!Max({low, covered[k].slot}) IN high \in low..LastState /\ high \in 0..LastState
<1>1. {low, covered[k].slot} \subseteq 0..LastState /\ LastState \in Nat
    BY SlotsCovered DEF WalletConstants
<1> QED BY <1>1, HighestSlot

LEMMA LoanKeeps ==
    ASSUME WalletConstants, WalletInv, NEW a, Wallet!ValueLoan(a)
    PROVE  WalletInv'
<1>1. /\ stage = "parts" /\ stage' = stage /\ Captured /\ a \notin DOMAIN debts
      /\ UNCHANGED <<states, walletFloor, tip, owned, covered, sales, marks, standing, shareValues>>
    BY DEF WalletInv, Wallet!ValueLoan, Wallet!given
<1>2. PICK floor : floor = Wallet!Max({Wallet!CaptureFloor, covered["borrow"].slot})
    OBVIOUS
<1>3. PICK v : v \in Wallet!LoanValues(a, floor) /\ debts' = Wallet!With(debts, a, v)
    BY <1>2 DEF Wallet!ValueLoan
<1>4. v.slot \in floor..LastState
    BY <1>3 DEF Wallet!LoanValues
<1>5. Wallet!CaptureFloor \in owned.slot..LastState /\ Wallet!CaptureFloor \in 0..LastState
    BY <1>1, FloorOfCapture DEF WalletSlots, WalletConstants
<1>6. "borrow" \in Wallet!Streams /\ covered \in Coverage
    BY <1>1 DEF Wallet!Streams, Captured
<1>7. floor \in Wallet!CaptureFloor..LastState
    BY <1>2, <1>5, <1>6, FloorOfStream
<1>8. v.slot \in owned.slot..LastState
    BY <1>1, <1>4, <1>5, <1>7, FloorOfCapture DEF WalletSlots, WalletConstants
<1>9. /\ DOMAIN debts' = DOMAIN debts \cup {a} /\ debts'[a] = v
      /\ \A z \in DOMAIN debts : debts'[z] = debts[z]
    BY <1>1, <1>3 DEF Wallet!With, Wallet!Joined
<1>10. ValuesOK(states, owned.slot, sales, marks, debts')
    BY <1>1, <1>8, <1>9 DEF Captured, ValuesOK
<1> QED BY <1>1, <1>10 DEF WalletInv, Captured, Listed

\* While orders are read, they are all that changes.
LEMMA OrderStep ==
    ASSUME WalletInv, UNCHANGED Wallet!notOrders,
           stage \in {"streams", "parts", "failed"},
           stage # "failed" => ReadingOK(states, owned.slot, standing')
    PROVE  WalletInv'
<1>1. UNCHANGED <<states, walletFloor, tip, stage, owned, covered, sales, marks, debts, shareValues>>
    BY DEF Wallet!notOrders, Wallet!given
<1> QED BY <1>1 DEF WalletInv, Captured, Listed

\* Orders are read in no other stage: before, nothing is there to read; later,
\* nothing is left.
LEMMA OrderStage ==
    ASSUME WalletInv, standing.at # "scope", \/ standing.found # None \/ standing.left # {}
                                             \/ standing.at \in OrderKinds \cup {"marks"}
    PROVE  stage \in {"streams", "parts", "failed"}
<1>1. stage # "accounts"
    BY DEF WalletInv, Untouched, Wallet!Reading
<1>2. ASSUME stage \notin {"streams", "parts", "failed"} PROVE FALSE
    <2>1. standing.at = "triggers" /\ standing.left = {}
        BY <1>1, <1>2 DEF WalletInv, Captured
    <2>2. standing.found # None
        BY <2>1 DEF OrderKinds
    <2>3. ReadingOK(states, owned.slot, standing)
        BY <1>1, <1>2 DEF WalletInv, Captured
    <2> QED BY <2>1, <2>2, <2>3 DEF ReadingOK, OrdersOK, OrderKinds
<1> QED BY <1>2

LEMMA ListOfCapture ==
    ASSUME WalletConstants, WalletInv, stage \in {"streams", "parts"}
    PROVE  /\ states \in WalletHistories /\ owned.slot \in WalletSlots
           /\ ReadingOK(states, owned.slot, standing)
BY ListedSlot DEF WalletInv, Captured

LEMMA ScopeKeeps ==
    ASSUME WalletConstants, WalletInv, Wallet!ReadScope
    PROVE  WalletInv'
<1>1. stage = "parts" /\ UNCHANGED Wallet!notOrders
    BY DEF Wallet!ReadScope, Wallet!OthersDone, Wallet!notOrders
<1>2. PICK s \in Wallet!CaptureFloor..LastState :
         standing' = Wallet!Reading("exit", s, s, None, {}, Wallet!Nothing)
    BY DEF Wallet!ReadScope
<1>3. s \in owned.slot..LastState
    BY <1>1, FloorOfCapture DEF WalletInv, WalletSlots, WalletConstants
<1>4. OrdersOK(states, owned.slot, "exit", s, s, None, {}, Wallet!Nothing)
    BY <1>1, <1>3, ScopeRead, ListOfCapture
<1>5. ReadingOK(states, owned.slot, standing')
    BY <1>2, <1>4 DEF ReadingOK, Wallet!Reading
<1> QED BY <1>1, <1>5, OrderStep

LEMMA DiscoverStep ==
    ASSUME WalletConstants, WalletInv, Wallet!Discover
    PROVE  WalletInv'
<1>1. /\ standing.at \in OrderKinds /\ standing.found = None /\ standing.at # "scope"
      /\ UNCHANGED Wallet!notOrders
    BY DEF Wallet!Discover, Wallet!notOrders, OrderKinds
<1>2. stage \in {"streams", "parts", "failed"}
    BY <1>1, OrderStage
<1>3. ASSUME stage # "failed" PROVE ReadingOK(states, owned.slot, standing')
    <2>1. PICK s \in standing.floor..LastState :
             standing' = Wallet!Reading(standing.at, standing.scope, s,
                                        Wallet!OrdersOf(standing.at, s, standing.scope), {}, standing.rows)
        BY DEF Wallet!Discover
    <2>2. PICK found : found = Wallet!OrdersOf(standing.at, s, standing.scope)
        OBVIOUS
    <2>3. found = {o \in DOMAIN states.orders : /\ states.orders[o][s] # None
                                                /\ states.orders[o][s].market \in states.markets[standing.scope]
                                                /\ states.orders[o][s].kind = standing.at}
        BY <2>2 DEF Wallet!OrdersOf, Wallet!InScope, Wallet!At, Wallet!Restrict, Wallet!Scope
    <2>4. OrdersOK(states, owned.slot, standing.at, standing.scope, standing.floor, None, standing.left,
                   standing.rows)
        BY <1>1, <1>2, <1>3, ListOfCapture DEF ReadingOK
    <2>5. OrdersOK(states, owned.slot, standing.at, standing.scope, s, found, {}, standing.rows)
        BY <1>1, <1>2, <1>3, <2>3, <2>4, ListOfCapture, DiscoverKeeps
    <2> QED BY <2>1, <2>2, <2>5 DEF ReadingOK, Wallet!Reading
<1> QED BY <1>1, <1>2, <1>3, OrderStep

LEMMA DetailStep ==
    ASSUME WalletConstants, WalletInv, Wallet!Detail
    PROVE  WalletInv'
<1>1. UNCHANGED Wallet!notOrders /\ standing.found # None
    BY DEF Wallet!Detail, Wallet!notOrders
<1>2. stage \in {"streams", "parts", "failed"}
    BY <1>1, OrderStage DEF WalletInv, Captured, Untouched, Wallet!Reading
<1>3. ASSUME stage # "failed" PROVE ReadingOK(states, owned.slot, standing')
    <2>1. PICK some \in SUBSET standing.found, s \in standing.floor..LastState :
             standing' = Wallet!Reading(standing.at, standing.scope, s, standing.found \ some, {},
                           Wallet!Joined(standing.rows,
                               [o \in {x \in some : states.orders[x][s] # None} |-> Wallet!OrderRow(o, s, s)]))
        BY DEF Wallet!Detail, Wallet!SameBank
    <2>2. PICK read : read = [o \in {x \in some : states.orders[x][s] # None} |-> Wallet!OrderRow(o, s, s)]
        OBVIOUS
    <2>3. /\ states \in WalletHistories /\ owned.slot \in WalletSlots
          /\ OrdersOK(states, owned.slot, standing.at, standing.scope, standing.floor, standing.found,
                      standing.left, standing.rows)
        BY <1>2, <1>3, ListOfCapture DEF ReadingOK
    <2>4. standing.floor \in owned.slot..LastState /\ standing.found \subseteq DOMAIN states.orders
        BY <1>1, <2>3 DEF OrdersOK, OrderKinds
    <2>5. s \in owned.slot..LastState /\ standing.found \ some \in SUBSET DOMAIN states.orders
        BY <2>3, <2>4 DEF WalletSlots, WalletConstants
    <2>6. standing.found \ some # None
        BY <2>3, <2>5 DEF WalletConstants
    <2>7. \A o \in DOMAIN read : RowOK(states, o, read[o], owned.slot, s)
        BY <2>1, <2>2, <2>3, <2>4, <2>5, DetailRow
    <2>8. OrdersOK(states, owned.slot, standing.at, standing.scope, s, standing.found \ some, {},
                   Wallet!Joined(standing.rows, read))
        <3>1. DOMAIN read = {o \in some : states.orders[o][s] # None}
            BY <2>2
        <3> QED BY <1>1, <2>1, <2>3, <2>6, <2>7, <3>1, DetailKeeps
    <2> QED BY <2>1, <2>2, <2>8 DEF ReadingOK, Wallet!Reading
<1> QED BY <1>1, <1>2, <1>3, OrderStep

LEMMA KindDoneStep ==
    ASSUME WalletConstants, WalletInv, Wallet!KindDone
    PROVE  WalletInv'
<1>1. UNCHANGED Wallet!notOrders /\ standing.found = {}
    BY DEF Wallet!KindDone, Wallet!notOrders
<1>2. standing.found # None
    BY <1>1 DEF WalletInv, WalletConstants
<1>3. stage \in {"streams", "parts", "failed"}
    BY <1>1, <1>2, OrderStage DEF WalletInv, Captured, Untouched, Wallet!Reading
<1>4. ASSUME stage # "failed" PROVE ReadingOK(states, owned.slot, standing')
    <2>1. PICK rest : /\ rest = IF standing.at = "hlp" THEN Wallet!RowsOf("entry") ELSE {}
                      /\ standing' = Wallet!Reading(Wallet!AfterKind(standing.at), standing.scope,
                                                    standing.floor, None, rest, standing.rows)
        BY DEF Wallet!KindDone
    <2>2. rest \subseteq DOMAIN standing.rows
        BY <2>1 DEF Wallet!RowsOf
    <2>3. OrdersOK(states, owned.slot, standing.at, standing.scope, standing.floor, standing.found,
                   standing.left, standing.rows)
        BY <1>3, <1>4, ListOfCapture DEF ReadingOK
    <2>4. OrdersOK(states, owned.slot, Wallet!AfterKind(standing.at), standing.scope, standing.floor, None,
                   rest, standing.rows)
        BY <1>1, <1>2, <2>2, <2>3, KindDoneKeeps
    <2> QED BY <2>1, <2>4 DEF ReadingOK, Wallet!Reading
<1> QED BY <1>1, <1>3, <1>4, OrderStep

\* A price or a trigger, from a bank at the floor or later, or none.
LEMMA MarkedKeeps ==
    ASSUME WalletConstants, WalletInv, UNCHANGED Wallet!notOrders,
           standing.at \in {"marks", "triggers"}, NEW o \in standing.left, NEW mark,
           standing' = Wallet!Marked(o, mark),
           mark # None => mark.slot \in standing.floor..LastState,
           standing.rows[o].order.kind = "entry" /\ mark # None =>
              states.orders[o][mark.slot] = standing.rows[o].order
    PROVE  WalletInv'
<1>1. stage \in {"streams", "parts", "failed"}
    BY OrderStage
<1>2. ASSUME stage # "failed" PROVE ReadingOK(states, owned.slot, standing')
    <2>1. PICK s : s = IF mark = None THEN standing.floor ELSE mark.slot
        OBVIOUS
    <2>2. /\ states \in WalletHistories /\ owned.slot \in WalletSlots
          /\ OrdersOK(states, owned.slot, standing.at, standing.scope, standing.floor, standing.found,
                      standing.left, standing.rows)
        BY <1>1, <1>2, ListOfCapture DEF ReadingOK
    <2>3. standing.floor \in owned.slot..LastState /\ o \in DOMAIN standing.rows
        BY <2>2 DEF OrdersOK
    <2>4. standing.floor \in Nat /\ s \in standing.floor..LastState
        BY <2>1, <2>2, <2>3 DEF WalletSlots, WalletConstants
    <2>5. standing.rows[o].slot \in owned.slot..standing.floor
        BY <2>2, <2>3 DEF OrdersOK, RowOK
    <2>6. mark # None => mark.slot \in standing.rows[o].slot..s
        BY <2>1, <2>2, <2>4, <2>5 DEF WalletSlots, WalletConstants
    <2>7. PICK row : row = [standing.rows[o] EXCEPT !.mark = mark]
        OBVIOUS
    <2>8. RowOK(states, o, standing.rows[o], owned.slot, standing.floor)
        BY <2>2, <2>3 DEF OrdersOK
    <2>9. RowOK(states, o, row, owned.slot, s)
        <3>1. owned.slot \in Nat /\ s \in Nat /\ standing.floor <= s /\ LastState \in Nat
            BY <2>2, <2>4 DEF WalletSlots, WalletConstants
        <3> QED BY <2>4, <2>6, <2>7, <2>8, <3>1, MarkedRow
    <2>10. row.order = standing.rows[o].order
        BY <2>7, <2>8 DEF RowOK
    <2>11. PICK new : new = [standing.rows EXCEPT ![o] = row]
        OBVIOUS
    <2>12. /\ DOMAIN new = DOMAIN standing.rows /\ new[o] = row
           /\ \A x \in DOMAIN standing.rows \ {o} : new[x] = standing.rows[x]
        BY <2>3, <2>11
    <2>13. OrdersOK(states, owned.slot, standing.at, standing.scope, s, None, standing.left \ {o}, new)
        <3>1. RowOK(states, o, new[o], owned.slot, s) /\ new[o].order = standing.rows[o].order
            BY <2>9, <2>10, <2>12
        <3>2. SameBut(new, standing.rows, o)
            BY <2>12 DEF SameBut
        <3> QED BY <2>2, <2>4, <3>1, <3>2, MarkKeeps
    <2> QED BY <2>1, <2>7, <2>11, <2>13 DEF ReadingOK, Wallet!Marked, Wallet!Reading
<1> QED BY <1>1, <1>2, OrderStep

LEMMA MarkStep ==
    ASSUME WalletConstants, WalletInv, Wallet!Mark \/ Wallet!Trigger
    PROVE  WalletInv'
<1>1. UNCHANGED Wallet!notOrders /\ standing.at \in {"marks", "triggers"}
    BY DEF Wallet!Mark, Wallet!Trigger, Wallet!notOrders
<1>2. CASE Wallet!Mark
    <2>1. PICK o \in standing.left :
             \E m \in Wallet!EntryMarks(o, standing.rows[o], standing.floor) : standing' = Wallet!Marked(o, m)
        BY <1>2 DEF Wallet!Mark
    <2>2. PICK m : /\ m \in Wallet!EntryMarks(o, standing.rows[o], standing.floor)
                   /\ standing' = Wallet!Marked(o, m)
        BY <2>1
    <2>3. m # None => m.slot \in standing.floor..LastState /\ states.orders[o][m.slot] = standing.rows[o].order
        BY <2>2 DEF Wallet!EntryMarks, Wallet!ReceiptOfOrder
    <2> QED BY <1>1, <2>2, <2>3, MarkedKeeps
<1>3. CASE Wallet!Trigger
    <2>1. PICK o \in standing.left, m \in Wallet!Triggers(standing.floor) : standing' = Wallet!Marked(o, m)
        BY <1>3 DEF Wallet!Trigger
    <2>2. m # None => m.slot \in standing.floor..LastState
        BY <2>1 DEF Wallet!Triggers
    <2>3. standing.at = "triggers"
        BY <1>3 DEF Wallet!Trigger
    <2>4. ASSUME stage # "failed" PROVE standing.rows[o].order.kind = "hlp"
        <3>1. stage \in {"streams", "parts", "failed"}
            BY <2>1, <2>3, OrderStage
        <3> QED BY <2>1, <2>3, <2>4, <3>1, ListOfCapture DEF ReadingOK, OrdersOK
    <2>5. CASE stage = "failed"
        BY <1>1, <2>5, OrderStep
    <2> QED BY <1>1, <2>1, <2>2, <2>4, <2>5, MarkedKeeps
<1> QED BY <1>2, <1>3

LEMMA MarksDoneStep ==
    ASSUME WalletConstants, WalletInv, Wallet!MarksDone
    PROVE  WalletInv'
<1>1. UNCHANGED Wallet!notOrders /\ standing.at = "marks"
    BY DEF Wallet!MarksDone, Wallet!notOrders
<1>2. stage \in {"streams", "parts", "failed"}
    BY <1>1, OrderStage
<1>3. ASSUME stage # "failed" PROVE ReadingOK(states, owned.slot, standing')
    <2>1. PICK rest : /\ rest = {o \in Wallet!RowsOf("hlp") : standing.rows[o].order.status = 0
                                                               /\ ~standing.rows[o].retired}
                      /\ standing' = Wallet!Reading("triggers", standing.scope, standing.floor, None, rest,
                                                    standing.rows)
        BY DEF Wallet!MarksDone
    <2>2. rest \subseteq DOMAIN standing.rows /\ \A o \in rest : standing.rows[o].order.kind = "hlp"
        BY <2>1 DEF Wallet!RowsOf
    <2>3. OrdersOK(states, owned.slot, "marks", standing.scope, standing.floor, standing.found,
                   standing.left, standing.rows)
        BY <1>1, <1>2, <1>3, ListOfCapture DEF ReadingOK
    <2>4. OrdersOK(states, owned.slot, "triggers", standing.scope, standing.floor, None, rest, standing.rows)
        BY <2>2, <2>3, MarksDoneKeeps
    <2> QED BY <2>1, <2>4 DEF ReadingOK, Wallet!Reading
<1> QED BY <1>1, <1>2, <1>3, OrderStep

\* The orders are read, and the parts done.
LEMMA PartsKeep ==
    ASSUME WalletInv, Wallet!PartsDone \/ Wallet!HoldingsDone
    PROVE  WalletInv'
<1>1. /\ stage \in {"parts", "holdings"} /\ stage' \in {"holdings", "verify"} /\ Captured
      /\ UNCHANGED <<states, walletFloor, tip, owned, covered, sales, marks, debts, standing, shareValues>>
    BY DEF WalletInv, Wallet!PartsDone, Wallet!HoldingsDone, Wallet!given, Wallet!parts
<1>2. standing.at = "triggers" /\ standing.left = {}
    BY <1>1 DEF Captured, Wallet!PartsDone, Wallet!HoldingsDone, Wallet!Ordered
<1> QED BY <1>1, <1>2 DEF WalletInv, Captured, Listed

\* The floor that the reads of orders have reached.
LEMMA FloorOfOrders ==
    ASSUME WalletConstants, WalletInv, Captured, stage \notin {"streams", "parts"}
    PROVE  /\ standing.floor \in owned.slot..LastState /\ owned.slot \in WalletSlots
           /\ \A o \in DOMAIN standing.rows : RowOK(states, o, standing.rows[o], owned.slot, standing.floor)
           /\ NoneLeftOut(states, owned.slot, "triggers", standing.floor, standing.found, standing.rows)
<1>1. standing.at = "triggers" /\ owned.slot \in WalletSlots
    BY ListedSlot DEF Captured, WalletInv
<1> QED BY <1>1 DEF Captured, ReadingOK, OrdersOK

LEMMA HoldingKeeps ==
    ASSUME WalletConstants, WalletInv, NEW m, Wallet!ValueHolding(m)
    PROVE  WalletInv'
<1>1. /\ stage = "holdings" /\ stage' = stage /\ Captured /\ m \notin DOMAIN shareValues
      /\ UNCHANGED <<states, walletFloor, tip, owned, covered, sales, marks, debts, standing>>
    BY DEF WalletInv, Wallet!ValueHolding, Wallet!given, Wallet!parts
<1>2. PICK floor : floor = Wallet!Max({standing.floor, covered["hlp"].slot})
    OBVIOUS
<1>3. PICK v : v \in Wallet!HoldingValues(m, Wallet!Held[m], floor)
               /\ shareValues' = Wallet!With(shareValues, m, v)
    BY <1>2 DEF Wallet!ValueHolding
<1>4. v.slot \in {floor} \cup (floor..LastState)
    BY <1>3 DEF Wallet!HoldingValues
<1>5. standing.floor \in 0..LastState /\ "hlp" \in Wallet!Streams /\ covered \in Coverage
    BY <1>1, FloorOfOrders DEF Wallet!Streams, Captured, WalletSlots, WalletConstants
<1>6. floor \in 0..LastState
    BY <1>2, <1>5, FloorOfStream
<1>7. v.slot \in 0..LastState
    BY <1>4, <1>6 DEF WalletConstants
<1>8. /\ DOMAIN shareValues' = DOMAIN shareValues \cup {m} /\ shareValues'[m] = v
      /\ \A z \in DOMAIN shareValues : shareValues'[z] = shareValues[z]
    BY <1>1, <1>3 DEF Wallet!With, Wallet!Joined
<1>9. HoldingsOK(shareValues')
    BY <1>1, <1>7, <1>8 DEF Captured, HoldingsOK
<1> QED BY <1>1, <1>9 DEF WalletInv, Captured, Listed

\* No part is newer than the bank from which the list is read again.
LEMMA SourcesBelow ==
    ASSUME WalletConstants, WalletInv, Captured, stage \notin {"streams", "parts"}
    PROVE  LET high == Wallet!VerifyFloor IN
           /\ high \in owned.slot..LastState /\ standing.floor <= high
           /\ \A p \in DOMAIN sales : sales[p].slot <= high
           /\ \A m \in DOMAIN marks : marks[m] <= high
           /\ \A a \in DOMAIN debts : debts[a].slot <= high
<1>1. owned.slot \in WalletSlots /\ owned.slot \in 0..LastState /\ standing.floor \in 0..LastState
    BY FloorOfOrders DEF WalletSlots, WalletConstants
<1>2. /\ \A k \in DOMAIN covered : covered[k].slot \in 0..LastState
      /\ \A p \in DOMAIN sales : sales[p].slot \in 0..LastState /\ sales[p].checked \in 0..LastState
      /\ \A m \in DOMAIN marks : marks[m] \in 0..LastState
      /\ \A a \in DOMAIN debts : debts[a].slot \in 0..LastState
      /\ \A m \in DOMAIN shareValues : shareValues[m].slot \in 0..LastState
    <2>1. \A x \in owned.slot..LastState : x \in 0..LastState
        BY <1>1 DEF WalletConstants
    <2>2. \A k \in DOMAIN covered : covered[k].slot \in 0..LastState
        BY SlotsCovered DEF Captured, Coverage
    <2>3. \A p \in DOMAIN sales : sales[p].slot \in 0..LastState /\ sales[p].checked \in 0..LastState
        BY <2>1 DEF Captured, ValuesOK, SaleOK
    <2>4. /\ \A m \in DOMAIN marks : marks[m] \in 0..LastState
          /\ \A a \in DOMAIN debts : debts[a].slot \in 0..LastState
          /\ \A m \in DOMAIN shareValues : shareValues[m].slot \in 0..LastState
        BY <2>1 DEF Captured, ValuesOK, HoldingsOK
    <2> QED BY <2>2, <2>3, <2>4
<1>3. PICK S : S = {owned.slot, standing.floor} \cup Wallet!SlotsOf(covered) \cup Wallet!SlotsOf(sales)
                   \cup {marks[m] : m \in DOMAIN marks} \cup Wallet!SlotsOf(debts) \cup Wallet!SlotsOf(shareValues)
    OBVIOUS
<1>4. S \subseteq 0..LastState /\ S # {}
    BY <1>1, <1>2, <1>3 DEF Wallet!SlotsOf
<1>5. PICK source : source = Wallet!SourceSlot
    OBVIOUS
<1>6. source \in S /\ \A x \in S : x <= source
    BY <1>3, <1>4, <1>5, HighestSlot DEF Wallet!SourceSlot
<1>7. PICK T : T = {source} \cup {sales[p].checked : p \in DOMAIN sales}
    OBVIOUS
<1>8. T \subseteq 0..LastState /\ T # {}
    BY <1>2, <1>4, <1>6, <1>7
<1>9. PICK high : high = Wallet!VerifyFloor
    OBVIOUS
<1>10. high \in T /\ \A x \in T : x <= high
    BY <1>5, <1>7, <1>8, <1>9, HighestSlot DEF Wallet!VerifyFloor
<1>11. \A x \in S : x <= high
    <2>1. \A x \in S : x <= source /\ source <= high /\ x \in Int /\ source \in Int /\ high \in Int
        BY <1>4, <1>6, <1>7, <1>8, <1>10 DEF WalletConstants
    <2> QED BY <2>1
<1>12. high \in owned.slot..LastState
    <2>1. owned.slot <= high /\ high \in 0..LastState
        BY <1>3, <1>8, <1>10, <1>11
    <2> QED BY <1>1, <2>1 DEF WalletConstants
<1> QED BY <1>3, <1>9, <1>11, <1>12 DEF Wallet!SlotsOf

LEMMA VerifyKeeps ==
    ASSUME WalletConstants, WalletInv, Wallet!Verify
    PROVE  WalletInv'
<1>1. /\ stage = "verify" /\ stage' = "flows" /\ Captured
      /\ UNCHANGED <<states, walletFloor, tip, owned, covered, sales, marks, debts, standing, shareValues>>
    BY DEF WalletInv, Wallet!Verify, Wallet!given, Wallet!parts
<1>2. PICK v \in Wallet!OwnerAccounts(Wallet!VerifyFloor) : v.rows = owned.rows /\ relisted' = v.slot
    BY DEF Wallet!Verify
<1>3. PICK high : high = Wallet!VerifyFloor
    OBVIOUS
<1>4. /\ high \in owned.slot..LastState /\ standing.floor <= high /\ owned.slot \in WalletSlots
      /\ \A p \in DOMAIN sales : sales[p].slot <= high
      /\ \A m \in DOMAIN marks : marks[m] <= high
      /\ \A a \in DOMAIN debts : debts[a].slot <= high
    BY <1>1, <1>3, SourcesBelow, FloorOfOrders
<1>5. high \in WalletSlots
    BY <1>4 DEF WalletSlots, WalletConstants
<1>6. PICK b \in high..LastState : v.slot \in b..LastState /\ IsList(states, v.rows, v.slot, b)
    BY <1>2, <1>3, <1>5, AccountsRead DEF ListOK
<1>7. /\ relisted' \in owned.slot..LastState /\ b \in owned.slot..relisted' /\ high <= relisted'
      /\ relisted' \in Nat /\ high \in Nat
    BY <1>2, <1>4, <1>5, <1>6 DEF WalletSlots, WalletConstants
<1>8. HeldOK(states, owned.slot, relisted', owned.rows, sales, marks, debts, standing.floor)
    <2>1. \A x : x \in owned.slot..LastState /\ x <= high => x <= relisted'
        BY <1>4, <1>7 DEF WalletSlots, WalletConstants
    <2>2. /\ \A p \in DOMAIN sales : sales[p].slot <= relisted'
          /\ \A m \in DOMAIN marks : marks[m] <= relisted'
          /\ \A a \in DOMAIN debts : debts[a].slot <= relisted'
        BY <1>1, <1>4, <2>1 DEF Captured, ValuesOK, SaleOK
    <2>3. standing.floor <= relisted'
        BY <1>1, <1>4, <2>1, FloorOfOrders
    <2> QED BY <1>2, <1>6, <1>7, <2>2, <2>3 DEF HeldOK
<1> QED BY <1>1, <1>8 DEF WalletInv, Captured, Listed

LEMMA FlowsKeep ==
    ASSUME WalletInv, Wallet!ReadFlows
    PROVE  WalletInv'
<1>1. /\ stage = "flows" /\ stage' = "publish"
      /\ UNCHANGED <<states, tip, gaps, walletFloor, owned, covered, sales, marks, debts, standing, shareValues,
                     relisted>>
    BY DEF Wallet!ReadFlows, Wallet!given, Wallet!parts
<1>2. \/ cashFlows' = [p \in {q \in DOMAIN owned.rows : owned.rows[q].collateral # 0} |->
                         IF tip < walletFloor THEN Wallet!NoFlows(walletFloor)
                         ELSE Wallet!Fold(p, owned.rows[p], Wallet!Streamed(tip), tip)]
      \/ cashFlows' = [p \in {q \in DOMAIN owned.rows : owned.rows[q].collateral # 0} |->
                         Wallet!NoFlows(relisted)]
    BY DEF Wallet!ReadFlows, Wallet!CashFlows
<1>3. ASSUME NEW p \in DOMAIN cashFlows'
      PROVE  /\ p \in DOMAIN owned.rows
             /\ \/ \E s : cashFlows'[p] = Wallet!NoFlows(s)
                \/ cashFlows'[p] = Wallet!Fold(p, owned.rows[p], Wallet!Streamed(tip), tip)
    BY <1>2, <1>3
<1>4. ASSUME NEW p \in DOMAIN cashFlows', cashFlows'[p].status = "available",
             NEW events, events = EventsOf(states, p, owned.rows[p], tip, gaps)
      PROVE  /\ \A e \in events : e.name \in {"opened", "updated", "liquidated"}
             /\ Wallet!LeadsTo(events, owned.rows[p])
             /\ cashFlows'[p].contributed = Wallet!Sum("debit", events)
             /\ cashFlows'[p].withdrawn = Wallet!Sum("credit", events)
    <2>1. cashFlows'[p] = Wallet!Fold(p, owned.rows[p], Wallet!Streamed(tip), tip)
        BY <1>3, <1>4 DEF Wallet!NoFlows
    <2>2. events = {e \in Wallet!Streamed(tip) : e.position = p /\ e.slot >= owned.rows[p].opened}
        BY <1>4 DEF EventsOf, Wallet!Streamed
    <2> QED BY <1>4, <2>1, <2>2 DEF Wallet!Fold, Wallet!NoFlows
<1>5. FlowsOK(states, owned.rows, cashFlows', tip, gaps)
    BY <1>3, <1>4 DEF FlowsOK
<1> QED BY <1>1, <1>5 DEF WalletInv, Captured, Listed

LEMMA PublishKeeps ==
    ASSUME WalletInv, Wallet!Publish
    PROVE  WalletInv'
<1>1. /\ stage = "publish" /\ stage' = "published"
      /\ UNCHANGED <<states, tip, gaps, walletFloor, owned, covered, sales, marks, debts, standing, shareValues,
                     relisted, cashFlows>>
    BY DEF Wallet!Publish, Wallet!given, Wallet!parts
<1>2. AvailableOK(owned.rows, sales)
    BY DEF AvailableOK, Wallet!Publish
<1> QED BY <1>1, <1>2 DEF WalletInv, Captured, Listed

LEMMA WalletNext ==
    ASSUME WalletConstants, WalletInv, [Wallet!Next]_Wallet!vars
    PROVE  WalletInv'
<1>1. CASE UNCHANGED Wallet!vars
    BY <1>1 DEF Wallet!vars, Wallet!given, Wallet!parts, WalletInv, Captured, Listed, Untouched
<1>2. CASE Wallet!Next
    <2>1. CASE \E k \in Wallet!Streams : Wallet!ReadRows(k) \/ Wallet!ReadCursor(k)
        BY <2>1, CoveredStep
    <2>2. CASE \E p \in Wallet!Positions : Wallet!Value(p)
        BY <2>2, ValueKeeps
    <2>3. CASE \E m \in UNION {states.markets[s] : s \in Wallet!Slots} : Wallet!ValueByOracle(m)
        BY <2>3, OracleKeeps
    <2>4. CASE \E a \in Wallet!Loans : Wallet!ValueLoan(a)
        BY <2>4, LoanKeeps
    <2>5. CASE \E m \in {states.vault[s] : s \in Wallet!Slots} : Wallet!ValueHolding(m)
        BY <2>5, HoldingKeeps
    <2> QED BY <1>2, <2>1, <2>2, <2>3, <2>4, <2>5, StreamKeeps, AccountsKeep, ScopeKeeps, DiscoverStep,
               DetailStep, KindDoneStep, MarkStep, MarksDoneStep, PartsKeep, VerifyKeeps, FlowsKeep,
               PublishKeeps, FailKeeps
            DEF Wallet!Next
<1> QED BY <1>1, <1>2

LEMMA WalletSteps == [Next]_vars => [Wallet!Next]_Wallet!vars
BY DEF Next, DrainStep, CaptureStep, ValuationStep, ActivityStep, RatesStep, BookStep,
       LeverageStep, WalletStep, vars, quoteVars, walletVars, Wallet!vars, Wallet!given, Wallet!parts

LEMMA WalletInductive == Spec => []WalletInv
<1>1. Init => WalletInv
    BY WalletInit, WalletAssumption DEF Init
<1>2. WalletInv /\ [Next]_vars => WalletInv'
    BY WalletNext, WalletSteps, WalletAssumption
<1> QED BY <1>1, <1>2, PTL DEF Spec

\* A position that is there all the while, of a market in scope, is listed.
LEMMA HeldIsListed ==
    ASSUME WalletConstants, WalletInv, Wallet!Published, NEW p \in DOMAIN states.positions,
           NEW s \in WalletSlots, s <= owned.slot, NEW market \in states.markets[s],
           states.positions[p][relisted] # None, states.positions[p][relisted].market = market
    PROVE  p \in DOMAIN owned.rows
<1>1. Captured /\ HeldOK(states, owned.slot, relisted, owned.rows, sales, marks, debts, standing.floor)
      /\ states \in WalletHistories /\ owned.slot \in WalletSlots
    BY ListedSlot DEF Wallet!Published, WalletInv, Listed, Captured
<1>2. PICK b \in owned.slot..relisted : IsList(states, owned.rows, relisted, b)
    BY <1>1 DEF HeldOK
<1>3. b \in WalletSlots /\ s <= b
    BY <1>1 DEF HeldOK, WalletSlots, WalletConstants
<1>4. market \in states.markets[b]
    BY <1>1, <1>3, ScopeGrows
<1> QED BY <1>2, <1>4 DEF IsList

\* What is listed was there at both ends.
LEMMA ListedAtEnds ==
    ASSUME WalletConstants, WalletInv, Wallet!Published
    PROVE  /\ relisted \in owned.slot..LastState /\ owned.slot \in WalletSlots /\ relisted \in WalletSlots
           /\ \A p \in DOMAIN owned.rows :
                 /\ p \in DOMAIN states.positions
                 /\ states.positions[p][owned.slot] # None /\ states.positions[p][owned.slot] = owned.rows[p]
                 /\ states.positions[p][relisted] # None /\ states.positions[p][relisted] = owned.rows[p]
<1>1. Captured /\ HeldOK(states, owned.slot, relisted, owned.rows, sales, marks, debts, standing.floor)
      /\ owned.slot \in WalletSlots
    BY ListedSlot DEF Wallet!Published, WalletInv, Listed, Captured
<1>2. PICK b : IsList(states, owned.rows, owned.slot, b)
    BY <1>1 DEF Captured, ListOK
<1>3. PICK d : IsList(states, owned.rows, relisted, d)
    BY <1>1 DEF HeldOK
<1>4. relisted \in owned.slot..LastState
    BY <1>1 DEF HeldOK
<1> QED BY <1>1, <1>2, <1>3, <1>4 DEF IsList, WalletSlots, WalletConstants

LEMMA SpanIs ==
    ASSUME WalletConstants, WalletInv, Wallet!Published, NEW x
    PROVE  /\ x \in Wallet!Span => x \in WalletSlots /\ owned.slot <= x /\ x <= relisted
           /\ x \in owned.slot..LastState /\ x <= relisted => x \in Wallet!Span
           /\ owned.slot \in Wallet!Span /\ relisted \in Wallet!Span
BY ListedAtEnds DEF Wallet!Span, WalletSlots, WalletConstants

LEMMA OrdersAreListed ==
    ASSUME WalletConstants, WalletInv, Wallet!Published
    PROVE  /\ \A o \in DOMAIN states.orders :
                 /\ \A s \in owned.slot..standing.floor : states.orders[o][s] # None
                 /\ states.orders[o][owned.slot].market \in states.markets[owned.slot]
                 => o \in DOMAIN standing.rows
           /\ \A o \in DOMAIN standing.rows : RowOK(states, o, standing.rows[o], owned.slot, standing.floor)
           /\ standing.floor \in owned.slot..LastState /\ standing.floor <= relisted
<1>0. Captured /\ stage \notin {"streams", "parts"}
    BY DEF Wallet!Published, WalletInv
<1>1. /\ states \in WalletHistories
      /\ HeldOK(states, owned.slot, relisted, owned.rows, sales, marks, debts, standing.floor)
    BY DEF Wallet!Published, WalletInv, Listed
<1>2. /\ standing.floor \in owned.slot..LastState /\ owned.slot \in WalletSlots
      /\ \A o \in DOMAIN standing.rows : RowOK(states, o, standing.rows[o], owned.slot, standing.floor)
      /\ NoneLeftOut(states, owned.slot, "triggers", standing.floor, standing.found, standing.rows)
    BY <1>0, FloorOfOrders
<1>3. ASSUME NEW o \in DOMAIN states.orders,
             \A s \in owned.slot..standing.floor : states.orders[o][s] # None,
             states.orders[o][owned.slot].market \in states.markets[owned.slot]
      PROVE  o \in DOMAIN standing.rows
    <2>1. StaysOpen(states, o, owned.slot, standing.floor)
        BY <1>3 DEF StaysOpen
    <2>2. states.orders[o][owned.slot] # None
        BY <1>2, <1>3 DEF WalletSlots, WalletConstants
    <2>3. states.orders[o][owned.slot].kind \in OrderKinds
        BY <1>1, <1>2, <2>2, SameOrder
    <2>4. states.orders[o][owned.slot].kind \in KindsRead("triggers")
        BY <2>3 DEF KindsRead
    <2> QED BY <1>2, <2>1, <2>4 DEF NoneLeftOut
<1> QED BY <1>1, <1>2, <1>3 DEF HeldOK

\* An order that is open from the first list until orders were read is shown; a
\* row is what its slot's bank held, of the order and of the position that it
\* closes; a price was had for the order as it is shown. Whatever banks the
\* nodes answer from (readDuskOrders, duskOrderCapture.ts).
THEOREM OrdersAreWhole == Spec => []OrdersListed
<1>1. ASSUME WalletInv, Wallet!Published, NEW o \in Wallet!Orders,
             \A s \in owned.slot..standing.floor : states.orders[o][s] # None,
             states.orders[o][owned.slot].market \in Wallet!Scope(owned.slot)
      PROVE  o \in DOMAIN standing.rows
    BY <1>1, OrdersAreListed, WalletAssumption DEF Wallet!Orders, Wallet!Scope
<1>2. ASSUME WalletInv, Wallet!Published, NEW o \in DOMAIN standing.rows
      PROVE  /\ standing.rows[o].order = states.orders[o][standing.rows[o].slot]
             /\ standing.rows[o].order.kind = "exit" =>
                   standing.rows[o].position = states.positions[standing.rows[o].order.position][standing.rows[o].slot]
             /\ standing.rows[o].order.kind = "entry" /\ standing.rows[o].mark # None =>
                   /\ standing.rows[o].mark.slot \in standing.rows[o].slot..standing.floor
                   /\ states.orders[o][standing.rows[o].mark.slot] = standing.rows[o].order
    <2>1. RowOK(states, o, standing.rows[o], owned.slot, standing.floor)
        BY <1>2, OrdersAreListed, WalletAssumption
    <2> QED BY <2>1 DEF RowOK
<1>3. WalletInv => Wallet!OrdersListed
    BY <1>1, <1>2 DEF Wallet!OrdersListed
<1>4. WalletInv => OrdersListed
    BY <1>3 DEF OrdersListed
<1> QED BY <1>4, WalletInductive, PTL

\* Every position that is there from the first list to the second is shown as it
\* is in both banks, all that was read from the node lies between the two, and a
\* simulated close sold what is listed (captureWalletSnapshot).
LEMMA HeldIsWhole ==
    ASSUME WalletConstants, WalletInv
    PROVE  Wallet!HeldThroughout
<1> SUFFICES ASSUME Wallet!Published
             PROVE  /\ \A p \in Wallet!Positions :
                          /\ \A s \in Wallet!Span : states.positions[p][s] # None
                          /\ states.positions[p][owned.slot].market \in Wallet!Scope(owned.slot)
                          => p \in DOMAIN owned.rows
                    /\ \A p \in DOMAIN owned.rows, s \in {owned.slot, relisted} :
                          states.positions[p][s] = owned.rows[p]
                    /\ Wallet!SlotsOf(sales) \cup Wallet!SlotsOf(debts) \cup Wallet!SlotsOf(standing.rows)
                          \cup {standing.floor} \cup {marks[m] : m \in DOMAIN marks} \subseteq Wallet!Span
                    /\ \A p \in DOMAIN sales : sales[p].status = "available" =>
                          states.positions[p][sales[p].slot].collateral = owned.rows[p].collateral
    BY DEF Wallet!HeldThroughout
<1>1. /\ states \in WalletHistories /\ ValuesOK(states, owned.slot, sales, marks, debts)
      /\ HeldOK(states, owned.slot, relisted, owned.rows, sales, marks, debts, standing.floor)
      /\ AvailableOK(owned.rows, sales)
    BY DEF Wallet!Published, WalletInv, Listed, Captured
<1>2. relisted \in owned.slot..LastState /\ owned.slot \in WalletSlots /\ relisted \in WalletSlots
    BY ListedAtEnds
<1>3. ASSUME NEW p \in Wallet!Positions, \A s \in Wallet!Span : states.positions[p][s] # None,
             states.positions[p][owned.slot].market \in Wallet!Scope(owned.slot)
      PROVE  p \in DOMAIN owned.rows
    <2>1. states.positions[p][owned.slot] # None /\ states.positions[p][relisted] # None
        BY <1>3, SpanIs
    <2>2. p \in DOMAIN states.positions
        BY DEF Wallet!Positions
    <2>3. states.positions[p][relisted].market = states.positions[p][owned.slot].market
        BY <1>1, <1>2, <2>1, <2>2 DEF WalletConstants, WalletSlots
    <2>4. owned.slot <= owned.slot
        BY <1>2 DEF WalletSlots, WalletConstants
    <2> QED BY <1>2, <1>3, <2>1, <2>2, <2>3, <2>4, HeldIsListed DEF Wallet!Scope
<1>4. \A p \in DOMAIN owned.rows, s \in {owned.slot, relisted} : states.positions[p][s] = owned.rows[p]
    BY ListedAtEnds
<1>5. Wallet!SlotsOf(sales) \cup Wallet!SlotsOf(debts) \cup {marks[m] : m \in DOMAIN marks} \subseteq Wallet!Span
    BY <1>1, SpanIs DEF ValuesOK, SaleOK, HeldOK, Wallet!SlotsOf
<1>6. Wallet!SlotsOf(standing.rows) \cup {standing.floor} \subseteq Wallet!Span
    <2>1. standing.floor \in Wallet!Span
        BY OrdersAreListed, SpanIs
    <2>2. ASSUME NEW o \in DOMAIN standing.rows PROVE standing.rows[o].slot \in Wallet!Span
        <3>1. standing.rows[o].slot \in owned.slot..standing.floor
            BY <2>2, OrdersAreListed DEF RowOK
        <3> QED BY <1>2, <2>1, <3>1, SpanIs DEF Wallet!Span, WalletSlots, WalletConstants
    <2> QED BY <2>1, <2>2 DEF Wallet!SlotsOf
<1>7. ASSUME NEW p \in DOMAIN sales, sales[p].status = "available"
      PROVE  states.positions[p][sales[p].slot].collateral = owned.rows[p].collateral
    BY <1>1, <1>7 DEF ValuesOK, SaleOK, AvailableOK
<1> QED BY <1>3, <1>4, <1>5, <1>6, <1>7

\* An entry order that becomes a position while a wallet is captured is shown
\* as the one or the other, for any chain and any banks: the orders are read
\* after the first list and before the second, and the lists agree.
THEOREM ExecutedIsShownOnce == Spec => []ExecutedOnce
<1>1. ASSUME WalletConstants, WalletInv, Wallet!Published,
             NEW o \in DOMAIN states.orders, NEW executed \in owned.slot..(relisted + 1), NEW first, NEW p,
             first = states.orders[o][1], p = first.position,
             first # None, first.kind = "entry", first.market \in states.markets[1],
             \A s \in Wallet!Span : /\ states.orders[o][s] # None <=> s < executed
                                    /\ states.positions[p][s] # None <=> s >= executed
      PROVE  (o \in DOMAIN standing.rows) # (p \in DOMAIN owned.rows)
    <2>1. /\ states \in WalletHistories /\ relisted \in owned.slot..LastState
          /\ owned.slot \in WalletSlots /\ relisted \in WalletSlots
        BY <1>1, ListedAtEnds DEF WalletInv
    <2>2. /\ LastState \in Nat /\ 1 \in WalletSlots /\ 1 <= owned.slot /\ owned.slot <= relisted
          /\ owned.slot \in Nat /\ relisted \in Nat /\ executed \in Nat
        BY <1>1, <2>1 DEF WalletSlots, WalletConstants
    <2>3. /\ p \in DOMAIN states.positions
          /\ \A s \in WalletSlots : states.positions[p][s] # None => states.positions[p][s].market = first.market
        BY <1>1, <2>1, <2>2 DEF WalletConstants, WalletSlots
    <2>4. states.positions[p][relisted] # None => p \in DOMAIN owned.rows
        BY <1>1, <2>1, <2>2, <2>3, HeldIsListed
    <2>5. p \in DOMAIN owned.rows => states.positions[p][owned.slot] # None /\ states.positions[p][relisted] # None
        BY <1>1, ListedAtEnds
    <2>6. /\ states.positions[p][owned.slot] # None <=> owned.slot >= executed
          /\ states.positions[p][relisted] # None <=> relisted >= executed
        BY <1>1, SpanIs
    <2>7. CASE executed <= relisted
        <3>1. p \in DOMAIN owned.rows /\ executed <= owned.slot
            BY <2>2, <2>4, <2>5, <2>6, <2>7
        <3>2. ASSUME o \in DOMAIN standing.rows PROVE FALSE
            <4>1. /\ states.orders[o][standing.rows[o].slot] # None
                  /\ standing.rows[o].slot \in owned.slot..standing.floor
                  /\ standing.floor <= relisted /\ standing.floor \in owned.slot..LastState
                BY <1>1, <3>2, OrdersAreListed DEF RowOK
            <4>2. standing.rows[o].slot \in Wallet!Span /\ standing.rows[o].slot >= executed
                BY <2>2, <3>1, <4>1 DEF Wallet!Span
            <4> QED BY <1>1, <2>2, <4>1, <4>2 DEF Wallet!Span
        <3> QED BY <3>1, <3>2
    <2>8. CASE executed = relisted + 1
        <3>1. p \notin DOMAIN owned.rows
            BY <2>2, <2>5, <2>6, <2>8
        <3>2. \A s \in Wallet!Span : states.orders[o][s] # None
            BY <1>1, <2>2, <2>8 DEF Wallet!Span
        <3>3. \A s \in owned.slot..standing.floor : s \in Wallet!Span
            BY <1>1, <2>2, OrdersAreListed DEF Wallet!Span
        <3>4. states.orders[o][owned.slot] # None
            BY <1>1, <3>2, SpanIs
        <3>5. states.orders[o][owned.slot].market = first.market
            BY <1>1, <2>1, <2>2, <3>4, SameOrder
        <3>6. first.market \in states.markets[owned.slot]
            BY <1>1, <2>1, <2>2, ScopeGrows
        <3>7. o \in DOMAIN standing.rows
            BY <1>1, <3>2, <3>3, <3>5, <3>6, OrdersAreListed
        <3> QED BY <3>1, <3>7
    <2> QED BY <1>1, <2>2, <2>7, <2>8
<1>2. WalletInv => ExecutedOnce
    BY <1>1, WalletAssumption DEF ExecutedOnce, Wallet!ExecutedOnce, Wallet!Orders, Wallet!Scope
<1> QED BY <1>2, WalletInductive, PTL

\* What an event of a position says that it holds, the bank after its slot has:
\* the position has no later event in that slot.
EventsTell ==
    \A c \in WalletHistories : \A e \in c.events :
        e.name \in {"opened", "updated", "liquidated"} =>
            /\ c.positions[e.position][e.slot] # None
            /\ c.positions[e.position][e.slot].collateral = e.collateral
            /\ c.positions[e.position][e.slot].shares = e.shares

\* Flows that count are all those up to the event that left what is listed.
LEMMA FlowsLead ==
    ASSUME WalletConstants, EventsTell, WalletInv, Wallet!Published
    PROVE  Wallet!FlowsAreWhole
<1>1. SUFFICES ASSUME NEW p \in DOMAIN cashFlows, cashFlows[p].status = "available",
                      \A e \in gaps, f \in states.events \ gaps :
                          e.position = p /\ f.position = p => f.slot < e.slot
               PROVE  Wallet!ShownTruly(p)
    BY DEF Wallet!FlowsAreWhole
<1>2. PICK events : events = EventsOf(states, p, owned.rows[p], tip, gaps)
    OBVIOUS
<1>3. /\ p \in DOMAIN owned.rows /\ Wallet!LeadsTo(events, owned.rows[p])
      /\ \A e \in events : e.name \in {"opened", "updated", "liquidated"}
      /\ cashFlows[p].contributed = Wallet!Sum("debit", events)
      /\ cashFlows[p].withdrawn = Wallet!Sum("credit", events)
    BY <1>1, <1>2 DEF Wallet!Published, WalletInv, FlowsOK
<1>4. PICK e \in events : /\ \A f \in events : f.slot <= e.slot
                          /\ e.collateral = owned.rows[p].collateral /\ e.shares = owned.rows[p].shares
    BY <1>3 DEF Wallet!LeadsTo
<1>5. /\ states \in WalletHistories /\ tip \in WalletSlots /\ owned.slot \in WalletSlots
      /\ p \in DOMAIN states.positions /\ states.positions[p][owned.slot] # None
      /\ states.positions[p][owned.slot] = owned.rows[p]
    BY <1>3, ListedAtEnds DEF WalletInv
<1>6. owned.rows[p].opened \in Nat
    BY <1>5 DEF WalletConstants, WalletSlots
<1>7. \A f \in states.events : f.slot \in 1..LastState
    BY <1>5 DEF WalletConstants
<1>8. /\ e \in states.events \ gaps /\ e.position = p /\ e.slot >= owned.rows[p].opened
      /\ e.slot <= tip /\ e.slot \in 1..LastState
    BY <1>2, <1>4, <1>7 DEF EventsOf
<1>9. events = {f \in states.events : f.position = p /\ f.slot \in owned.rows[p].opened..e.slot}
    <2>1. ASSUME NEW f \in events
          PROVE  f \in states.events /\ f.position = p /\ f.slot \in owned.rows[p].opened..e.slot
        BY <1>2, <1>4, <1>6, <1>7, <1>8 DEF EventsOf
    <2>2. ASSUME NEW f \in states.events, f.position = p, f.slot \in owned.rows[p].opened..e.slot
          PROVE  f \in events
        <3>1. f \notin gaps
            BY <1>1, <1>7, <1>8, <2>2
        <3>2. f.slot <= tip /\ f.slot >= owned.rows[p].opened
            BY <1>5, <1>6, <1>7, <1>8, <2>2 DEF WalletSlots, WalletConstants
        <3> QED BY <1>2, <2>2, <3>1, <3>2 DEF EventsOf
    <2> QED BY <2>1, <2>2
<1>10. /\ states.positions[p][e.slot] # None
       /\ states.positions[p][e.slot].collateral = owned.rows[p].collateral
       /\ states.positions[p][e.slot].shares = owned.rows[p].shares
    BY <1>3, <1>4, <1>5, <1>8 DEF EventsTell
<1>11. <<cashFlows[p].contributed, cashFlows[p].withdrawn>> = Wallet!TrueFlows(p, e.slot)
    BY <1>3, <1>9 DEF Wallet!TrueFlows
<1>12. e.slot \in owned.rows[p].opened..LastState
    BY <1>6, <1>8 DEF WalletConstants
<1> QED BY <1>10, <1>11, <1>12 DEF Wallet!ShownTruly

\* Positions are shown as they are held throughout the capture; and where the
\* last event of a slot tells what a position holds after it, a cost basis is
\* of the flows that led to the position as it is shown, however far the stream
\* lags and whichever of its last events the catch-up still lacks
\* (duskWalletSnapshot.ts, duskLeverageCashFlows.ts).
THEOREM PositionsStayWhole ==
    ASSUME EventsTell
    PROVE  Spec => []PositionsAreWhole
<1>1. WalletInv => PositionsAreWhole
    <2>1. WalletInv /\ ~Wallet!Published => Wallet!FlowsAreWhole
        BY DEF Wallet!FlowsAreWhole
    <2> QED BY <2>1, HeldIsWhole, FlowsLead, WalletAssumption DEF PositionsAreWhole
<1> QED BY <1>1, WalletInductive, PTL

\* The first half needs nothing of events.
THEOREM PositionsAreHeld == Spec => []Wallet!HeldThroughout
<1>1. WalletInv => Wallet!HeldThroughout
    BY HeldIsWhole, WalletAssumption
<1> QED BY <1>1, WalletInductive, PTL
=============================================================================
