----------------------------- MODULE EventDrain -----------------------------
(***************************************************************************)
(* The projection workers of src/api: drainOnEvents and coalescedDrain of   *)
(* duskEventDrain.ts over the batches of duskYieldClaims.ts (those of       *)
(* duskMarketActivity.ts have the same shape).                              *)
(*                                                                          *)
(* A worker finds its work by its absence: a batch is the first BatchSize   *)
(* stored events that have no projected row. It looks when it is woken, by  *)
(* the notice of a stored event or by a connection that begins to listen.   *)
(* Workers are replicas of one service and take turns on an advisory lock.  *)
(***************************************************************************)
EXTENDS Naturals, FiniteSets

CONSTANTS
    Workers,      \* the replicas, the one that replaces another included
    Events,       \* the events, numbered in (slot, event_key) order
    Malformed,    \* the events whose row a batch refuses
    BatchSize,    \* 500 in the code
    MaxRetries,   \* restartPolicyMaxRetries: 10 in the code
    MaxFaults     \* bound: losses, failures, crashes and stops in a behaviour

VARIABLES
    stored,      \* the events the daemon has committed
    projected,   \* the events with a committed projection row
    status,      \* of a worker's process
    link,        \* its listening connection
    notices,     \* sent on that connection and not delivered
    pending,     \* coalescedDrain's pending
    pass,        \* the batch of its current pass, by how far it is
    batch,       \* the sources that batch has selected
    retries,     \* restarts after a failure
    faults

workerVars == <<status, link, notices, pending, pass, batch, retries>>
vars == <<stored, projected, workerVars, faults>>

Statuses == {"up", "stopping", "stopped", "failed"}

\* none: no connection, its retry timer or pool.connect() under way;
\* asked: LISTEN is sent; heard: it holds, its answer is on the way;
\* on: the answer is taken; cut: lost, and the client has not been told.
Links == {"none", "asked", "heard", "on", "cut"}

\* begin: it waits for a connection, then for the lock.
Passes == {"none", "begin", "locked", "selected"}

Fault == faults < MaxFaults /\ faults' = faults + 1

\* The server sends notices on the connection.
Heard(w) == link[w] \in {"heard", "on"}

Holds(w) == pass[w] \in {"locked", "selected"}

\* The batch does not take the advisory lock.
LockWaits_never(w) == FALSE

LockWaits(w) == \E v \in Workers \ {w} : Holds(v)

\* Work behind a cursor: what is newer than every projected event.
Sources_cursor == {e \in stored : \A p \in projected : p < e}

\* NOT EXISTS: the stored events without a row, however old.
Sources == stored \ projected

\* ORDER BY slot, event_key LIMIT BatchSize.
Batches(S) ==
    {b \in SUBSET S :
        /\ Cardinality(b) <= BatchSize
        /\ b # S => Cardinality(b) = BatchSize
        /\ \A e \in b, d \in S \ b : e < d}

\* LIMIT was reached: there may be more.
Full(b) == Cardinality(b) = BatchSize

\* A wake during a pass is answered with that pass alone.
Wake_joins(w) ==
    /\ pass' = [pass EXCEPT ![w] = IF pass[w] = "none" THEN "begin" ELSE pass[w]]
    /\ UNCHANGED pending

\* coalescedDrain.wake: run() begins a pass at once, or a pass in progress
\* is followed by one more.
Wake(w) ==
    IF pass[w] = "none"
    THEN pass' = [pass EXCEPT ![w] = "begin"] /\ UNCHANGED pending
    ELSE pending' = [pending EXCEPT ![w] = TRUE] /\ UNCHANGED pass

\* The process ends: its transaction is rolled back, its connections closed.
Ends(w, how) ==
    /\ status' = [status EXCEPT ![w] = how]
    /\ link' = [link EXCEPT ![w] = "none"]
    /\ notices' = [notices EXCEPT ![w] = {}]
    /\ pending' = [pending EXCEPT ![w] = FALSE]
    /\ pass' = [pass EXCEPT ![w] = "none"]
    /\ batch' = [batch EXCEPT ![w] = {}]

\* finish(error): a failed pass rejects; after a stop it changes nothing.
EndsFailed(w) == Ends(w, IF status[w] = "up" THEN "failed" ELSE "stopped")

-----------------------------------------------------------------------------

Init ==
    /\ stored = {} /\ projected = {} /\ faults = 0
    /\ status = [w \in Workers |-> "up"]
    /\ link = [w \in Workers |-> "none"]
    /\ notices = [w \in Workers |-> {}]
    /\ pending = [w \in Workers |-> FALSE]
    /\ pass = [w \in Workers |-> "none"]
    /\ batch = [w \in Workers |-> {}]
    /\ retries = [w \in Workers |-> 0]

\* The daemon commits an event, late ones of an old slot included, and the
\* trigger of migration 045 notifies whoever listens.
Store(e) ==
    /\ e \notin stored
    /\ stored' = stored \cup {e}
    /\ notices' = [w \in Workers |-> IF Heard(w) THEN notices[w] \cup {e} ELSE notices[w]]
    /\ UNCHANGED <<projected, status, link, pending, pass, batch, retries, faults>>

-----------------------------------------------------------------------------
(* drainOnEvents: the listening connection.                                 *)

\* listen() gets a connection and sends LISTEN. When the pool has none it
\* sets its timer again, which changes nothing here.
Connect(w) ==
    /\ status[w] = "up" /\ link[w] = "none"
    /\ link' = [link EXCEPT ![w] = "asked"]
    /\ UNCHANGED <<stored, projected, status, notices, pending, pass, batch, retries, faults>>

Hear(w) ==
    /\ link[w] = "asked"
    /\ link' = [link EXCEPT ![w] = "heard"]
    /\ UNCHANGED <<stored, projected, status, notices, pending, pass, batch, retries, faults>>

\* LISTEN is answered: what was stored before it is drained.
Listening(w) ==
    /\ link[w] = "heard"
    /\ link' = [link EXCEPT ![w] = "on"]
    /\ Wake(w)
    /\ UNCHANGED <<stored, projected, status, notices, batch, retries, faults>>

Notified(w) ==
    /\ Heard(w)
    /\ \E e \in notices[w] : notices' = [notices EXCEPT ![w] = @ \ {e}]
    /\ Wake(w)
    /\ UNCHANGED <<stored, projected, status, link, batch, retries, faults>>

\* The connection is lost with the notices on it.
Cut(w) ==
    /\ Fault
    /\ link[w] \in {"asked", "heard", "on"}
    /\ link' = [link EXCEPT ![w] = "cut"]
    /\ notices' = [notices EXCEPT ![w] = {}]
    /\ UNCHANGED <<stored, projected, status, pending, pass, batch, retries>>

\* lost(): 'error', 'end' or the failed LISTEN, whichever is first.
Lost(w) ==
    /\ link[w] = "cut"
    /\ link' = [link EXCEPT ![w] = "none"]
    /\ UNCHANGED <<stored, projected, status, notices, pending, pass, batch, retries, faults>>

-----------------------------------------------------------------------------
(* projectFinalizedYieldClaims: one transaction for each batch.             *)

Lock(w) ==
    /\ pass[w] = "begin"
    /\ ~LockWaits(w)
    /\ pass' = [pass EXCEPT ![w] = "locked"]
    /\ UNCHANGED <<stored, projected, status, link, notices, pending, batch, retries, faults>>

Select(w) ==
    /\ pass[w] = "locked"
    /\ \E b \in Batches(Sources) : batch' = [batch EXCEPT ![w] = b]
    /\ pass' = [pass EXCEPT ![w] = "selected"]
    /\ UNCHANGED <<stored, projected, status, link, notices, pending, retries, faults>>

\* A source that is malformed, or has its row already.
Refused(w) == batch[w] \cap (Malformed \cup projected) # {}

\* The batch commits. A full one is followed by another, and so is the pass
\* when a wake came during it.
Commit(w) ==
    /\ pass[w] = "selected" /\ status[w] = "up"
    /\ ~Refused(w)
    /\ projected' = projected \cup batch[w]
    /\ batch' = [batch EXCEPT ![w] = {}]
    /\ IF Full(batch[w])
       THEN pass' = [pass EXCEPT ![w] = "begin"] /\ UNCHANGED pending
       ELSE /\ pass' = [pass EXCEPT ![w] = IF pending[w] THEN "begin" ELSE "none"]
            /\ pending' = [pending EXCEPT ![w] = FALSE]
    /\ UNCHANGED <<stored, status, link, notices, retries, faults>>

\* The last batch of a stopped worker: stopping() ends the loop, and the pool
\* is closed to a further pass.
CommitLast(w) ==
    /\ pass[w] = "selected" /\ status[w] = "stopping"
    /\ ~Refused(w)
    /\ projected' = projected \cup batch[w]
    /\ Ends(w, "stopped")
    /\ UNCHANGED <<stored, retries, faults>>

\* parseYieldClaim or the insert throws: the batch is rolled back whole.
Reject(w) ==
    /\ pass[w] = "selected" /\ Refused(w)
    /\ EndsFailed(w)
    /\ UNCHANGED <<stored, projected, retries, faults>>

\* The database fails a pass at any of its statements. When it fails at
\* COMMIT the rows may be there all the same.
PassFails(w) ==
    /\ Fault
    /\ pass[w] # "none"
    /\ \/ UNCHANGED projected
       \/ /\ pass[w] = "selected" /\ ~Refused(w)
          /\ projected' = projected \cup batch[w]
    /\ EndsFailed(w)
    /\ UNCHANGED <<stored, retries>>

\* The pool has ended before the pass got its connection.
PoolEnded(w) ==
    /\ status[w] = "stopping" /\ pass[w] = "begin"
    /\ Ends(w, "stopped")
    /\ UNCHANGED <<stored, projected, retries, faults>>

-----------------------------------------------------------------------------
(* The process.                                                             *)

\* SIGTERM: finish() drops the connection; the pass under way goes on.
Stop(w) ==
    /\ Fault
    /\ status[w] = "up"
    /\ status' = [status EXCEPT ![w] = IF pass[w] = "none" THEN "stopped" ELSE "stopping"]
    /\ link' = [link EXCEPT ![w] = "none"]
    /\ notices' = [notices EXCEPT ![w] = {}]
    /\ pending' = [pending EXCEPT ![w] = FALSE]
    /\ UNCHANGED <<stored, projected, pass, batch, retries>>

Crash(w) ==
    /\ Fault
    /\ status[w] \in {"up", "stopping"}
    /\ EndsFailed(w)
    /\ UNCHANGED <<stored, projected, retries>>

\* ON_FAILURE restarts a failed worker; a deployment replaces a stopped one.
Start(w) ==
    /\ \/ status[w] = "stopped" /\ UNCHANGED retries
       \/ /\ status[w] = "failed" /\ retries[w] < MaxRetries
          /\ retries' = [retries EXCEPT ![w] = @ + 1]
    /\ status' = [status EXCEPT ![w] = "up"]
    /\ UNCHANGED <<stored, projected, link, notices, pending, pass, batch, faults>>

-----------------------------------------------------------------------------

Connects(w) == Connect(w) \/ Hear(w) \/ Listening(w) \/ Lost(w)

Drains(w) ==
    \/ Lock(w) \/ Select(w) \/ Commit(w) \/ CommitLast(w) \/ Reject(w)
    \/ PoolEnded(w)

\* The steps a worker owes: its event loop, the database's answers and the
\* platform go on.
WorkerProgress(w) == Connects(w) \/ Notified(w) \/ Drains(w) \/ Start(w)

WorkerFaults(w) == Cut(w) \/ PassFails(w) \/ Stop(w) \/ Crash(w)

Next ==
    \/ \E e \in Events : Store(e)
    \/ \E w \in Workers : WorkerProgress(w) \/ WorkerFaults(w)

Spec == Init /\ [][Next]_vars

-----------------------------------------------------------------------------

\* The types of the state.
TypeOK ==
    /\ stored \subseteq Events /\ projected \subseteq Events
    /\ status \in [Workers -> Statuses]
    /\ link \in [Workers -> Links]
    /\ notices \in [Workers -> SUBSET Events]
    /\ pending \in [Workers -> BOOLEAN]
    /\ pass \in [Workers -> Passes]
    /\ batch \in [Workers -> SUBSET Events]
    /\ retries \in [Workers -> 0..MaxRetries]
    /\ faults \in 0..MaxFaults

\* A worker that listens and rests has left nothing behind: every stored event
\* without a row has a notice on its way to that worker. Malformed events are
\* no exception, so a worker that meets one is never at rest beside it
\* ("any malformed source stops the worker visibly").
NothingForgotten ==
    \A w \in Workers :
        status[w] = "up" /\ link[w] = "on" /\ pass[w] = "none"
            => Sources \subseteq notices[w]

\* Replicas never work on the same event, and none on one that has its row:
\* no insert of a batch can meet the unique key.
ReplicasApart ==
    \A w \in Workers :
        /\ batch[w] \cap projected = {}
        /\ \A v \in Workers \ {w} : batch[w] \cap batch[v] = {}

\* Every stored event is projected, whatever is lost, fails or is replaced,
\* unless a source is malformed: such a one holds up every batch it is in.
EventuallyProjected ==
    []<>(stored \subseteq projected \/ stored \cap Malformed # {})
=============================================================================
