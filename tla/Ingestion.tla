------------------------------ MODULE Ingestion ------------------------------
(***************************************************************************)
(* The ingestion daemon of the Dusk runtime: the Helius WebSocket and its   *)
(* two subscriptions, the bounded channel into the Carbon pipeline, the     *)
(* transaction processor, the cursor heartbeat, the catch-up watcher, and   *)
(* the two pieces of PostgreSQL state they share: the ingestion cursor and  *)
(* the rows of each transaction.                                            *)
(*                                                                          *)
(* A transaction decodes to a number of rows, its events in order and then  *)
(* its order instructions; writing one row is one step here (EventStore     *)
(* opens that step up). Wall-clock time appears only as what the code       *)
(* compares it with: the age class of the last Clock update, and, for the   *)
(* cursor's updated_at, the set of arrivals it is later than.               *)
(***************************************************************************)
EXTENDS Naturals, Sequences, FiniteSets

CONSTANTS
    Txs,          \* successful transactions that touch either pinned program
    SlotOf,       \* the slot each was confirmed in
    RowCount,     \* how many rows each decodes to
    FirstSlot,    \* first slot of the pinned release
    Before,       \* transactions confirmed before the daemon first ran
    Poison,       \* transactions whose RPC form cannot be converted
    QueueCap,     \* capacity of the pipeline's channel
    MaxAttempts,  \* attempts at a transaction's writes before it is dropped
    MaxFaults,    \* bound on the faults of one behaviour
    MaxMishaps,   \* bound on the kinds of mishaps of one behaviour
    NoTx, NoSlot, NoWriter

(***************************************************************************)
(* Timings the code does not defend against. Each may happen at any time;   *)
(* mishaps is the history of those that did:                                *)
(*   crash_in_catch_up   the process died after the stream or the replay    *)
(*                       moved the cursor and before the gap was closed     *)
(*   unnoticed_outage    the socket was back before the watcher had looked, *)
(*                       because the outage fell between two of its ticks   *)
(*                       or into a running catch-up                         *)
(*   reordered_push      a push of a higher slot was read before one of a   *)
(*                       lower slot                                         *)
(*   late_subscription   the catch-up listed signatures before the new      *)
(*                       transaction subscription was in place              *)
(*   lost_subscription   the transaction subscription alone was refused or  *)
(*                       ended, by the node or by a full channel            *)
(*   early_replay        an operator's replay raised the cursor past        *)
(*                       something else than transactions that a log line   *)
(*                       reported as dropped, or past pushes on their way   *)
(*   unreplayable        the catch-up met a transaction it cannot convert   *)
(***************************************************************************)
MishapNames ==
    {"crash_in_catch_up", "unnoticed_outage", "reordered_push", "late_subscription",
     "lost_subscription", "early_replay", "unreplayable"}

ASSUME IngestionAssumption ==
    /\ FirstSlot \in Nat
    /\ SlotOf \in [Txs -> Nat]
    /\ RowCount \in [Txs -> Nat]
    /\ Before \subseteq Txs
    /\ Poison \subseteq Txs
    /\ QueueCap \in Nat \ {0}
    /\ MaxAttempts \in Nat \ {0}
    /\ MaxFaults \in Nat /\ MaxMishaps \in Nat
    /\ NoTx \notin Txs
    /\ NoSlot \notin Nat

Writers == {"stream", "catch_up"}

ASSUME WriterAssumption == NoWriter \notin Writers

\* The stream starts after the release is deployed, so what it sees is newer.
ASSUME ReleaseAssumption == \A t \in Txs \ Before : SlotOf[t] >= FirstSlot

VARIABLES
    confirmed,  \* the chain: transactions confirmed so far
    socket,     \* "down", or "up" once the WebSocket is open
    sub,        \* transaction subscription: "none", "pending", "on", "dead"
    age,        \* last Clock update: 0 within GAP, 1 within STREAM_LIVENESS, 2 older
    wire,       \* pushed by the node, not yet read off the socket
    queue,      \* the channel between the datasource and the pipeline
    pc,         \* [Writers -> "idle", "lock", "advance", "rows"]
    tx,         \* [Writers -> the transaction in hand]
    done,       \* [Writers -> rows of it written in this attempt]
    attempt,    \* [Writers -> failed attempts at it]
    lock,       \* who holds the cursor mutex
    heartbeat,  \* "sleep", or "lock" after it saw a live stream
    watch,      \* catch-up watcher: "idle", "list" or "replay"
    gap,        \* slot the next catch-up starts from, or NoSlot
    todo,       \* transactions the running catch-up has still to replay
    last,       \* ingestion_cursors.last_observed_slot
    rows,       \* rows stored, as <<transaction, index>>
    arrived,    \* history: transactions this process put into the channel
    vouched,    \* ingestion_cursors.updated_at: the arrivals it is later than
    logged,     \* transactions some log line reported as dropped
    faults,     \* faults so far
    mishaps     \* history: which of MishapNames have happened

socketVars == <<socket, sub, age, wire>>
writerVars == <<pc, tx, done, attempt, lock>>
watchVars == <<watch, gap, todo>>
cursorVars == <<last, vouched>>

vars == <<confirmed, socket, sub, age, wire, queue, pc, tx, done, attempt, lock,
          heartbeat, watch, gap, todo, last, rows, arrived, vouched, logged, faults,
          mishaps>>

TypeOK ==
    /\ confirmed \subseteq Txs
    /\ socket \in {"down", "up"}
    /\ sub \in {"none", "pending", "on", "dead"}
    /\ age \in 0..2
    /\ wire \subseteq Txs
    /\ queue \in Seq(Txs) /\ Len(queue) <= QueueCap
    /\ pc \in [Writers -> {"idle", "lock", "advance", "rows"}]
    /\ tx \in [Writers -> Txs \cup {NoTx}]
    /\ done \in [Writers -> Nat]
    /\ attempt \in [Writers -> 0..(MaxAttempts - 1)]
    /\ lock \in Writers \cup {NoWriter}
    /\ heartbeat \in {"sleep", "lock"}
    /\ watch \in {"idle", "list", "replay"}
    /\ gap \in Nat \cup {NoSlot}
    /\ todo \subseteq Txs
    /\ last \in Nat \cup {NoSlot}
    /\ rows \subseteq (Txs \X Nat)
    /\ arrived \subseteq Txs
    /\ vouched \subseteq Txs
    /\ logged \subseteq Txs
    /\ faults \in 0..MaxFaults
    /\ mishaps \subseteq MishapNames

-----------------------------------------------------------------------------
(* Helpers.                                                                 *)

Queued == {queue[i] : i \in DOMAIN queue}

\* Pushed, queued or in the processor's hands: on its way to the database.
OnItsWay(t) == t \in wire \/ t \in Queued \/ tx["stream"] = t

RowsOf(t) == {<<t, i>> : i \in 1..RowCount[t]}
Written(t) == RowsOf(t) \subseteq rows

\* gap_start read off next_slot, the column beside it.
GapStart_next ==
    IF last # NoSlot /\ last >= FirstSlot THEN last + 1 ELSE FirstSlot

\* gap_start: the last slot written, or the release's first.
GapStart ==
    IF last # NoSlot /\ last >= FirstSlot THEN last ELSE FirstSlot

\* advance_cursor's upsert without GREATEST and its WHERE.
Raised_assigned(slot) == slot

\* advance_cursor's upsert: the slot never falls.
Raised(slot) == IF last # NoSlot /\ last > slot THEN last ELSE slot

\* The heartbeat without the cursor mutex.
TouchAllowed_unlocked == TRUE

\* The heartbeat touches under the cursor mutex.
TouchAllowed == lock = NoWriter

Fault == faults < MaxFaults /\ faults' = faults + 1

\* The step is this mishap, if it happened.
Mishap(name, happened) ==
    /\ mishaps' = IF happened THEN mishaps \cup {name} ELSE mishaps
    /\ Cardinality(mishaps') <= MaxMishaps

Release(w) ==
    /\ pc' = [pc EXCEPT ![w] = "idle"]
    /\ tx' = [tx EXCEPT ![w] = NoTx]
    /\ done' = [done EXCEPT ![w] = 0]
    /\ attempt' = [attempt EXCEPT ![w] = 0]
    /\ lock' = NoWriter

-----------------------------------------------------------------------------
(* A fresh database and a process about to start: record_deployment has     *)
(* inserted the cursor row without a last_observed_slot, and main has read  *)
(* gap_start before the stream exists.                                      *)

Init ==
    /\ confirmed = Before
    /\ socket = "down" /\ sub = "none" /\ age = 2 /\ wire = {}
    /\ queue = <<>>
    /\ pc = [w \in Writers |-> "idle"]
    /\ tx = [w \in Writers |-> NoTx]
    /\ done = [w \in Writers |-> 0]
    /\ attempt = [w \in Writers |-> 0]
    /\ lock = NoWriter
    /\ heartbeat = "sleep"
    /\ watch = "idle" /\ gap = FirstSlot /\ todo = {}
    /\ last = NoSlot
    /\ rows = {}
    /\ arrived = {} /\ vouched = {} /\ logged = {}
    /\ faults = 0 /\ mishaps = {}

-----------------------------------------------------------------------------
(* The chain and the WebSocket.                                             *)

\* A transaction is confirmed, at or above the tip. The node pushes it on a
\* subscription that is in place, and on no other.
Confirm(t) ==
    /\ t \notin confirmed
    /\ \A u \in confirmed : SlotOf[u] <= SlotOf[t]
    /\ confirmed' = confirmed \cup {t}
    /\ wire' = IF sub = "on" THEN wire \cup {t} ELSE wire
    /\ UNCHANGED <<mishaps, socket, sub, age, queue, writerVars, heartbeat, watchVars,
                   last, rows, arrived, vouched, logged, faults>>

\* A new iteration of the datasource's reconnect loop opens the socket, after
\* RECONNECTION_DELAY_MS (3 s) and the connection setup. The watcher needs GAP
\* (3 s) and a tick (1 s) to see the outage, and does not look while it catches up.
Connect ==
    /\ socket = "down"
    /\ socket' = "up"
    /\ sub' = "pending"
    /\ Mishap("unnoticed_outage", gap = NoSlot \/ watch # "idle")
    /\ UNCHANGED <<confirmed, age, wire, queue, writerVars, heartbeat, watchVars,
                   last, rows, arrived, vouched, logged, faults>>

\* transaction_subscribe succeeds.
Subscribe ==
    /\ sub = "pending"
    /\ sub' = "on"
    /\ UNCHANGED <<confirmed, mishaps, socket, age, wire, queue, writerVars, heartbeat,
                   watchVars, last, rows, arrived, vouched, logged, faults>>

\* transaction_subscribe fails, or its stream ends: the task returns and cancels
\* nothing, so the Clock task keeps the iteration alive.
SubscriptionLost ==
    /\ sub \in {"pending", "on"}
    /\ sub' = "dead"
    /\ wire' = {}
    /\ Mishap("lost_subscription", TRUE)
    /\ UNCHANGED <<confirmed, socket, age, queue, writerVars, heartbeat, watchVars,
                   last, rows, arrived, vouched, logged, faults>>

\* A verified Clock update: one histogram sample for StreamLiveness.
ClockUpdate ==
    /\ socket = "up"
    /\ age # 0
    /\ age' = 0
    /\ UNCHANGED <<confirmed, mishaps, socket, sub, wire, queue, writerVars, heartbeat,
                   watchVars, last, rows, arrived, vouched, logged, faults>>

\* Time passes without a Clock update. On an open socket that is a fault, and
\* the Clock task gives up (SocketLost) before the age passes 10 s.
ClockAges ==
    /\ \/ socket = "down" /\ age < 2 /\ faults' = faults
       \/ socket = "up" /\ age = 0 /\ Fault
    /\ age' = age + 1
    /\ UNCHANGED <<confirmed, mishaps, socket, sub, wire, queue, writerVars, heartbeat,
                   watchVars, last, rows, arrived, vouched, logged>>

\* The Clock stream closes, stays silent for 5 s or jumps more than
\* MAX_MISSED_BLOCKS slots: the iteration is cancelled, both tasks end, and
\* what the node had pushed is lost. The channel survives.
SocketLost ==
    /\ socket = "up"
    /\ Fault
    /\ socket' = "down" /\ sub' = "none" /\ wire' = {}
    /\ UNCHANGED <<confirmed, mishaps, age, queue, writerVars, heartbeat, watchVars, last,
                   rows, arrived, vouched, logged>>

HasRoom == Len(queue) < QueueCap

\* No push of a lower slot is left behind.
InSlotOrder(t) == \A u \in wire : SlotOf[t] <= SlotOf[u]

\* The transaction task reads a push, in whatever order the node sent them, and
\* try_sends it. A full channel ends the task, again without
\* cancelling the iteration.
Receive(t) ==
    /\ t \in wire
    /\ \/ /\ HasRoom
          /\ queue' = Append(queue, t)
          /\ arrived' = arrived \cup {t}
          /\ wire' = wire \ {t}
          /\ UNCHANGED sub
          /\ Mishap("reordered_push", ~InSlotOrder(t))
       \/ /\ ~HasRoom
          /\ sub' = "dead"
          /\ wire' = {}
          /\ UNCHANGED <<queue, arrived>>
          /\ Mishap("lost_subscription", TRUE)
    /\ UNCHANGED <<confirmed, socket, age, writerVars, heartbeat, watchVars, last,
                   rows, vouched, logged, faults>>

\* A push without meta, or one that does not decode, is named in a log line and
\* skipped.
Skip(t) ==
    /\ t \in wire
    /\ Fault
    /\ wire' = wire \ {t}
    /\ Mishap("reordered_push", ~InSlotOrder(t))
    /\ logged' = logged \cup {t}
    /\ UNCHANGED <<confirmed, socket, sub, age, queue, writerVars, heartbeat,
                   watchVars, last, rows, arrived, vouched>>

-----------------------------------------------------------------------------
(* Writing one transaction: the stream's process and the catch-up's replay  *)
(* share ingest and persist, each under the cursor mutex.                   *)

\* The pipeline's loop receives an update and calls process.
Take ==
    /\ pc["stream"] = "idle"
    /\ queue # <<>>
    /\ tx' = [tx EXCEPT !["stream"] = Head(queue)]
    /\ pc' = [pc EXCEPT !["stream"] = "lock"]
    /\ queue' = Tail(queue)
    /\ UNCHANGED <<confirmed, mishaps, socketVars, done, attempt, lock, heartbeat, watchVars,
                   last, rows, arrived, vouched, logged, faults>>

Acquire(w) ==
    /\ pc[w] = "lock"
    /\ lock = NoWriter
    /\ lock' = w
    /\ pc' = [pc EXCEPT ![w] = "advance"]
    /\ UNCHANGED <<confirmed, mishaps, socketVars, queue, tx, done, attempt, heartbeat,
                   watchVars, last, rows, arrived, vouched, logged, faults>>

\* advance_cursor, before any of the transaction's rows. require_release_slot
\* lets only the release's slots through.
Advance(w) ==
    /\ pc[w] = "advance"
    /\ SlotOf[tx[w]] >= FirstSlot
    /\ last' = Raised(SlotOf[tx[w]])
    /\ pc' = [pc EXCEPT ![w] = "rows"]
    /\ UNCHANGED <<confirmed, mishaps, socketVars, queue, tx, done, attempt, lock, heartbeat,
                   watchVars, rows, arrived, vouched, logged, faults>>

\* The next persist_event or orders::persist. A row already there is kept.
WriteRow(w) ==
    /\ pc[w] = "rows"
    /\ done[w] < RowCount[tx[w]]
    /\ rows' = rows \cup {<<tx[w], done[w] + 1>>}
    /\ done' = [done EXCEPT ![w] = done[w] + 1]
    /\ UNCHANGED <<confirmed, mishaps, socketVars, queue, pc, tx, attempt, lock, heartbeat,
                   watchVars, last, arrived, vouched, logged, faults>>

\* A database error with attempts left: the whole transaction again, from the
\* cursor. The mutex is held through the pause.
Retry(w) ==
    /\ pc[w] \in {"advance", "rows"}
    /\ attempt[w] + 1 < MaxAttempts
    /\ Fault
    /\ pc' = [pc EXCEPT ![w] = "advance"]
    /\ done' = [done EXCEPT ![w] = 0]
    /\ attempt' = [attempt EXCEPT ![w] = attempt[w] + 1]
    /\ UNCHANGED <<confirmed, mishaps, socketVars, queue, tx, lock, heartbeat, watchVars,
                   last, rows, arrived, vouched, logged>>

\* The error of the last attempt, or a transaction the decoder or the release
\* bound refuses: one log line, no retry, the cursor's time left alone.
Drop(w) ==
    /\ \/ pc[w] = "advance" /\ SlotOf[tx[w]] < FirstSlot /\ faults' = faults
       \/ pc[w] = "advance" /\ attempt[w] = 0 /\ Fault
       \/ pc[w] \in {"advance", "rows"} /\ attempt[w] + 1 = MaxAttempts /\ Fault
    /\ logged' = logged \cup {tx[w]}
    /\ todo' = IF w = "catch_up" THEN todo \ {tx[w]} ELSE todo
    /\ Release(w)
    /\ UNCHANGED <<confirmed, mishaps, socketVars, queue, heartbeat, watch, gap, last, rows,
                   arrived, vouched>>

\* process after a successful ingest: touch_cursor, whose failure is only
\* logged, and the mutex is released.
FinishStream ==
    /\ pc["stream"] = "rows"
    /\ done["stream"] = RowCount[tx["stream"]]
    /\ \/ vouched' = arrived /\ faults' = faults
       \/ vouched' = vouched /\ Fault
    /\ Release("stream")
    /\ UNCHANGED <<confirmed, mishaps, socketVars, queue, heartbeat, watchVars, last, rows,
                   arrived, logged>>

\* replay leaves the cursor's time to the stream.
FinishReplay ==
    /\ pc["catch_up"] = "rows"
    /\ done["catch_up"] = RowCount[tx["catch_up"]]
    /\ todo' = todo \ {tx["catch_up"]}
    /\ Release("catch_up")
    /\ UNCHANGED <<confirmed, mishaps, socketVars, queue, heartbeat, watch, gap, last, rows,
                   arrived, vouched, logged, faults>>

-----------------------------------------------------------------------------
(* The heartbeat: it reads liveness first and awaits the mutex after.       *)

HeartbeatSeesLive ==
    /\ heartbeat = "sleep"
    /\ age < 2
    /\ heartbeat' = "lock"
    /\ UNCHANGED <<confirmed, mishaps, socketVars, queue, writerVars, watchVars, last, rows,
                   arrived, vouched, logged, faults>>

HeartbeatTouches ==
    /\ heartbeat = "lock"
    /\ TouchAllowed
    /\ heartbeat' = "sleep"
    /\ \/ vouched' = arrived /\ faults' = faults
       \/ vouched' = vouched /\ Fault
    /\ UNCHANGED <<confirmed, mishaps, socketVars, queue, writerVars, watchVars, last, rows,
                   arrived, logged>>

-----------------------------------------------------------------------------
(* Catch-up.                                                                *)

\* A tick of the watcher finds the stream quiet and no gap open.
NoticeQuiet ==
    /\ watch = "idle"
    /\ age > 0
    /\ gap = NoSlot
    /\ gap' = GapStart
    /\ UNCHANGED <<confirmed, mishaps, socketVars, queue, writerVars, heartbeat, watch, todo,
                   last, rows, arrived, vouched, logged, faults>>

\* A tick finds the stream delivering and a gap open.
StartCatchUp ==
    /\ watch = "idle"
    /\ age = 0
    /\ gap # NoSlot
    /\ watch' = "list"
    /\ UNCHANGED <<confirmed, mishaps, socketVars, queue, writerVars, heartbeat, gap, todo,
                   last, rows, arrived, vouched, logged, faults>>

\* getSignaturesForAddress for both programs, and plan.
ListSignatures ==
    /\ watch = "list"
    /\ watch' = "replay"
    /\ Mishap("late_subscription", sub = "pending")
    /\ todo' = {t \in confirmed : SlotOf[t] >= gap}
    /\ UNCHANGED <<confirmed, socketVars, queue, writerVars, heartbeat, gap, last,
                   rows, arrived, vouched, logged, faults>>

\* A listing error that forgets the gap.
GapAfterError_forgotten == NoSlot

\* An RPC failure keeps the gap.
GapAfterError == gap

ListFails ==
    /\ watch = "list"
    /\ Fault
    /\ watch' = "idle"
    /\ gap' = GapAfterError
    /\ UNCHANGED <<confirmed, mishaps, socketVars, queue, writerVars, heartbeat, todo, last,
                   rows, arrived, vouched, logged>>

\* The next planned transaction, oldest slot first; signatures decide within a
\* slot, which is any order.
NextPlanned(t) ==
    /\ watch = "replay"
    /\ pc["catch_up"] = "idle"
    /\ t \in todo
    /\ \A u \in todo : SlotOf[t] <= SlotOf[u]

Fetch(t) ==
    /\ NextPlanned(t)
    /\ t \notin Poison
    /\ tx' = [tx EXCEPT !["catch_up"] = t]
    /\ pc' = [pc EXCEPT !["catch_up"] = "lock"]
    /\ UNCHANGED <<confirmed, mishaps, socketVars, queue, done, attempt, lock, heartbeat,
                   watchVars, last, rows, arrived, vouched, logged, faults>>

\* getTransaction fails: counted, logged, and the rest still replay.
FetchFails(t) ==
    /\ NextPlanned(t)
    /\ Fault
    /\ logged' = logged \cup {t}
    /\ todo' = todo \ {t}
    /\ UNCHANGED <<confirmed, mishaps, socketVars, queue, writerVars, heartbeat, watch, gap,
                   last, rows, arrived, vouched>>

\* metadata_from_rpc fails: its `?` leaves catch_up, which keeps the gap.
ConversionFails(t) ==
    /\ NextPlanned(t)
    /\ t \in Poison
    /\ watch' = "idle"
    /\ todo' = {}
    /\ Mishap("unreplayable", TRUE)
    /\ UNCHANGED <<confirmed, socketVars, queue, writerVars, heartbeat, gap, last,
                   rows, arrived, vouched, logged, faults>>

CloseGap ==
    /\ watch = "replay"
    /\ todo = {}
    /\ watch' = "idle"
    /\ gap' = NoSlot
    /\ UNCHANGED <<confirmed, mishaps, socketVars, queue, writerVars, heartbeat, todo, last,
                   rows, arrived, vouched, logged, faults>>

-----------------------------------------------------------------------------
\* Reported as dropped, with nothing below it on its way.
IsDue(t) == t \in logged /\ \A u \in Txs : OnItsWay(u) => SlotOf[t] <= SlotOf[u]

\* `--replay`: a process of its own, with a mutex of its own, ingests one
\* transaction over RPC and exits. One step here; EventStore interleaves it.
OperatorReplay(t) ==
    /\ t \in confirmed \ Poison
    /\ SlotOf[t] >= FirstSlot
    /\ last' = Raised(SlotOf[t])
    /\ Mishap("early_replay", last' # last /\ ~IsDue(t))
    /\ rows' = rows \cup RowsOf(t)
    /\ UNCHANGED <<confirmed, socketVars, queue, writerVars, heartbeat, watchVars,
                   arrived, vouched, logged, faults>>

\* The process dies and starts again: everything but the database is gone, and
\* main reads gap_start before the new stream exists.
Restart ==
    /\ Fault
    /\ socket' = "down" /\ sub' = "none" /\ age' = 2 /\ wire' = {}
    /\ queue' = <<>>
    /\ pc' = [w \in Writers |-> "idle"]
    /\ tx' = [w \in Writers |-> NoTx]
    /\ done' = [w \in Writers |-> 0]
    /\ attempt' = [w \in Writers |-> 0]
    /\ lock' = NoWriter
    /\ heartbeat' = "sleep"
    /\ watch' = "idle" /\ gap' = GapStart /\ todo' = {}
    /\ Mishap("crash_in_catch_up", gap # NoSlot /\ gap # GapStart)
    /\ arrived' = {} /\ vouched' = {}
    /\ UNCHANGED <<confirmed, last, rows, logged>>

-----------------------------------------------------------------------------

Next ==
    \/ \E t \in Txs : Confirm(t) \/ Receive(t) \/ Skip(t)
    \/ Connect \/ Subscribe \/ SubscriptionLost
    \/ ClockUpdate \/ ClockAges \/ SocketLost
    \/ Take \/ FinishStream \/ FinishReplay
    \/ \E w \in Writers : \/ Acquire(w) \/ Advance(w) \/ WriteRow(w)
                          \/ Retry(w) \/ Drop(w)
    \/ HeartbeatSeesLive \/ HeartbeatTouches
    \/ NoticeQuiet \/ StartCatchUp \/ ListSignatures \/ ListFails \/ CloseGap
    \/ \E t \in Txs : Fetch(t) \/ FetchFails(t) \/ ConversionFails(t)
    \/ \E t \in Txs : OperatorReplay(t)
    \/ Restart

Spec == Init /\ [][Next]_vars

(***************************************************************************)
(* What the code's scheduling gives: tokio runs every task that can run,    *)
(* its Mutex is first come, first served (so a waiter that finds the mutex  *)
(* free again and again gets it), time passes, and the node answers. That   *)
(* transactions are confirmed, and every fault, stay unfair.                *)
(***************************************************************************)
Fairness ==
    /\ WF_vars(Connect) /\ WF_vars(Subscribe) /\ WF_vars(ClockUpdate)
    /\ WF_vars(ClockAges /\ socket = "down")
    /\ WF_vars(\E t \in Txs : Receive(t))
    /\ WF_vars(Take) /\ WF_vars(FinishStream) /\ WF_vars(FinishReplay)
    /\ \A w \in Writers : /\ SF_vars(Acquire(w))
                          /\ WF_vars(Advance(w)) /\ WF_vars(WriteRow(w))
    /\ WF_vars(HeartbeatSeesLive) /\ SF_vars(HeartbeatTouches)
    /\ WF_vars(NoticeQuiet) /\ WF_vars(StartCatchUp)
    /\ WF_vars(ListSignatures) /\ WF_vars(CloseGap)
    /\ WF_vars(\E t \in Txs : Fetch(t) \/ ConversionFails(t))

FairSpec == Spec /\ Fairness

-----------------------------------------------------------------------------
(* Properties.                                                              *)

\* Where the next catch-up would start if the stream went quiet now.
CatchUpFrom == IF gap # NoSlot THEN gap ELSE GapStart

\* No transaction is lost in silence. Every confirmed transaction of the
\* release is stored in full, on its way, within reach of the catch-up that the
\* open gap (or else the cursor) will start, or named in a log line as dropped.
\* This is what docs/dusk-runtime.md and the head of catchup.rs say of a restart,
\* a deploy or a dropped connection. The daemon does not keep it: see the finding.
Recoverable ==
    \A t \in confirmed :
        SlotOf[t] >= FirstSlot =>
            \/ Written(t)
            \/ OnItsWay(t)
            \/ SlotOf[t] >= CatchUpFrom
            \/ t \in logged

\* The timings after which nothing confirmed is out of reach.
Harmless == {"lost_subscription", "unreplayable"}

\* What it does keep, by the cursor-first order of persist and the gap of watch:
\* nothing is lost in silence before one of the five other timings has happened,
\* whatever else fails, be it a full channel, a transaction subscription that ends
\* alone, restarts, RPC errors or failed writes.
LostOnlyByMishap == mishaps \subseteq Harmless => Recoverable

\* The cursor's slot is never below a stored row (persist: "The slot first"),
\* with the stream and an older replay raising it side by side.
CursorCoversRows ==
    \A r \in rows : last # NoSlot /\ SlotOf[r[1]] <= last

\* The cursor's time moves only between transactions: at a touch, by the stream
\* or by the heartbeat, every arrival is stored in full, dropped with a log
\* line, or has yet to get the mutex. DuskTransactionProcessor::cursor.
TouchSettles ==
    [][vouched' # vouched =>
        \A t \in arrived' :
            \/ Written(t)'
            \/ t \in logged'
            \/ t \in Queued'
            \/ tx["stream"] = t /\ pc["stream"] = "lock"]_vars

\* Once faults stop, every confirmed transaction of the release is stored or
\* named as dropped, unless some timing above happens: outages are noticed, gaps
\* are read back and closed.
EventuallyStored ==
    []<>(\/ mishaps # {}
         \/ \A t \in confirmed : SlotOf[t] >= FirstSlot => Written(t) \/ t \in logged)

=============================================================================
