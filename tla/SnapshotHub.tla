----------------------------- MODULE SnapshotHub -----------------------------
(***************************************************************************)
(* One selection of the live snapshots: the row that the replicas of a      *)
(* release share (sharedDuskSnapshot), each replica's topic that polls it    *)
(* (createDuskSnapshotHub), and the SSE and Socket.IO streams that the topic *)
(* serves. A replica of another release has another key and another row.     *)
(* A payload is its revision, numbered in the order in which the captures    *)
(* begin, and the time it was observed at.                                   *)
(***************************************************************************)
EXTENDS Naturals, FiniteSets, Sequences

CONSTANTS
    Replicas,     \* API processes of one release
    Topics,       \* pairs of a replica and a number: the topics it may create
    Readers,      \* streams that may be open at a time
    Sockets,      \* those of them that are Socket.IO subscriptions
    Interval,     \* intervalMs
    Lifetime,     \* payloadLifetime
    QueueCap,     \* frames a subscription queues behind the one in flight
    SseCap,       \* frames that fit MAX_PENDING_BYTES
    Oversized,    \* revisions larger than MAX_FRAME_BYTES
    MaxNow, MaxCaptures, MaxFailures,  \* bounds of the model
    None

HubConstants ==
    /\ Interval \in Nat /\ Lifetime \in Nat
    /\ QueueCap \in Nat /\ SseCap \in Nat
    /\ MaxNow \in Nat /\ MaxCaptures \in Nat /\ MaxFailures \in Nat
    /\ Sockets \subseteq Readers
    /\ Topics \subseteq Replicas \X Nat /\ None \notin Topics
    /\ None \notin [rev: Nat, at: Nat]
    /\ None \notin [rev: Nat, at: Nat, due: Nat]

Payloads == [rev: 1..MaxCaptures, at: 0..MaxNow]

\* A row whose first capture failed has no payload, which is revision 0 here.
Rows == [rev: 0..MaxCaptures, at: 0..MaxNow, due: Nat]

VARIABLES
    now,
    row,        \* the row of live_snapshots, or None
    holder,     \* the topic whose session holds the advisory lock, or None
    captures,   \* captures begun
    status,     \* [Topics -> "unused", "live", "stopped"]
    step,       \* [Topics -> the await its tick is at]
    mine,       \* [Topics -> what its tick has read or captures, or None]
    latest,     \* [Topics -> latest, or None]
    listeners,  \* [Topics -> listeners]
    open,       \* [Readers -> BOOLEAN], ~stopped of the stream
    wire,       \* [Readers -> frames written and not yet read or acknowledged]
    got,        \* history: [Readers -> the last revision the reader took]
    failures

dbVars == <<row, holder, captures>>
topicVars == <<status, step, mine, latest>>
streamVars == <<listeners, open, wire, got>>
hubVars == <<now, dbVars, topicVars, streamVars, failures>>

Steps == {"idle", "timer", "envelope", "capture", "after"}

HubTypeOK ==
    /\ now \in 0..MaxNow
    /\ row \in Rows \cup {None}
    /\ holder \in Topics \cup {None}
    /\ captures \in 0..MaxCaptures
    /\ status \in [Topics -> {"unused", "live", "stopped"}]
    /\ step \in [Topics -> Steps]
    /\ mine \in [Topics -> Payloads \cup {None}]
    /\ latest \in [Topics -> Payloads \cup {None}]
    /\ listeners \in [Topics -> SUBSET Readers]
    /\ open \in [Readers -> BOOLEAN]
    /\ wire \in [Readers -> Seq(Payloads)]
    /\ got \in [Readers -> 0..MaxCaptures]
    /\ failures \in 0..MaxFailures

-----------------------------------------------------------------------------

Expired(p) == now >= p.at + Lifetime

\* SELECT payload: the committed payload, if there is one.
Stored == IF row = None \/ row.rev = 0 THEN None ELSE [rev |-> row.rev, at |-> row.at]

\* current is absent or its refresh_after has passed. The bound on the captures
\* ends the cadence.
Due ==
    /\ captures < MaxCaptures
    /\ row # None => row.due <= now

\* A failed capture keeps the payload and moves refresh_after only.
Cooldown ==
    IF row = None
    THEN [rev |-> 0, at |-> 0, due |-> now + Interval]
    ELSE [row EXCEPT !.due = now + Interval]

Refreshed(p) == [rev |-> p.rev, at |-> p.at, due |-> now + Interval]

\* pg_try_advisory_xact_lock never waits.
Lock(t) == IF holder = None THEN t ELSE holder

Unlocked(t) == IF holder = t THEN None ELSE holder

LiveTopic(r) == {t \in Topics : t[1] = r /\ status[t] = "live"}
UnusedTopic(r) == {t \in Topics : t[1] = r /\ status[t] = "unused"}

\* send: an SSE stream closes once its backlog is past the limit; a
\* subscription fails when the frame is too large or its queue is full.
StaysOpen(c, p) ==
    IF c \in Sockets
    THEN p.rev \notin Oversized /\ Len(wire[c]) <= QueueCap
    ELSE Len(wire[c]) < SseCap

\* The subscribers that remain, and what the topic has to show to later ones.
\* An empty topic is stopped and forgotten.
Left(t, remaining, last) ==
    /\ listeners' = [listeners EXCEPT ![t] = remaining]
    /\ status' = [status EXCEPT ![t] = IF remaining = {} THEN "stopped" ELSE @]
    /\ latest' = [latest EXCEPT ![t] = IF remaining = {} THEN None ELSE last]

Rearmed_never(remaining) == "idle"

\* The tick's finally: only a live topic arms its timer again.
Rearmed(remaining) == IF remaining = {} THEN "idle" ELSE "timer"

\* close() of streams: what they have queued goes with them.
CloseStreams(cs) ==
    /\ open' = [c \in Readers |-> open[c] /\ c \notin cs]
    /\ wire' = [c \in Readers |-> IF c \in cs THEN <<>> ELSE wire[c]]
    /\ got' = [c \in Readers |-> IF c \in cs THEN 0 ELSE got[c]]

-----------------------------------------------------------------------------

HubInit ==
    /\ now = 0
    /\ row = None /\ holder = None /\ captures = 0
    /\ status = [t \in Topics |-> "unused"]
    /\ step = [t \in Topics |-> "idle"]
    /\ mine = [t \in Topics |-> None]
    /\ latest = [t \in Topics |-> None]
    /\ listeners = [t \in Topics |-> {}]
    /\ open = [c \in Readers |-> FALSE]
    /\ wire = [c \in Readers |-> <<>>]
    /\ got = [c \in Readers |-> 0]
    /\ failures = 0

Failure ==
    /\ failures < MaxFailures
    /\ failures' = failures + 1

Tick ==
    /\ now < MaxNow
    /\ now' = now + 1
    /\ UNCHANGED <<dbVars, topicVars, streamVars, failures>>

\* The first subscriber of a selection creates its topic and queues a tick,
\* whose first await is the envelope's.
Create(c, t) ==
    /\ ~open[c]
    /\ LiveTopic(t[1]) = {} /\ t \in UnusedTopic(t[1])
    /\ \A u \in UnusedTopic(t[1]) : t[2] <= u[2]
    /\ status' = [status EXCEPT ![t] = "live"]
    /\ step' = [step EXCEPT ![t] = "envelope"]
    /\ listeners' = [listeners EXCEPT ![t] = {c}]
    /\ open' = [open EXCEPT ![c] = TRUE]
    /\ UNCHANGED <<now, dbVars, mine, latest, wire, got, failures>>

\* A stream that its first frame closed stays subscribed.
JoinRefused_kept(c, t) ==
    /\ listeners' = [listeners EXCEPT ![t] = @ \cup {c}]
    /\ UNCHANGED <<open, wire>>

\* The frame is sent inside subscribe(). The stream that it closes has no
\* unsubscribe yet and calls it right afterwards.
JoinRefused(c, t) == UNCHANGED <<listeners, open, wire>>

JoinAccepted(c, t, frames) ==
    /\ listeners' = [listeners EXCEPT ![t] = @ \cup {c}]
    /\ open' = [open EXCEPT ![c] = TRUE]
    /\ wire' = [wire EXCEPT ![c] = frames]

\* A later subscriber gets the latest snapshot while it is current.
Join(c, t) ==
    /\ ~open[c] /\ status[t] = "live"
    /\ IF latest[t] = None \/ (latest[t] # None /\ Expired(latest[t]))
       THEN JoinAccepted(c, t, <<>>)
       ELSE IF StaysOpen(c, latest[t])
            THEN JoinAccepted(c, t, <<latest[t]>>)
            ELSE JoinRefused(c, t)
    /\ UNCHANGED <<now, dbVars, topicVars, got, failures>>

-----------------------------------------------------------------------------

\* The timer fires.
StartTick(t) ==
    /\ step[t] = "timer"
    /\ step' = [step EXCEPT ![t] = "envelope"]
    /\ UNCHANGED <<now, dbVars, status, mine, latest, streamVars, failures>>

\* The envelope is there; a session begins, tries the lock and reads the row.
\* Only the lock's holder writes the row, so the two statements are one step.
\* Not the holder, or not due: the stored payload will do, and the COMMIT
\* releases the lock.
ReadStored(t) ==
    /\ step[t] = "envelope"
    /\ ~(Lock(t) = t /\ Due)
    /\ mine' = [mine EXCEPT ![t] = Stored]
    /\ step' = [step EXCEPT ![t] = "after"]
    /\ UNCHANGED <<now, dbVars, status, latest, streamVars, failures>>

\* The holder of the lock finds the payload due: capturePayload begins.
BeginCapture(t) ==
    /\ step[t] = "envelope"
    /\ Lock(t) = t /\ Due
    /\ holder' = Lock(t)
    /\ captures' = captures + 1
    /\ mine' = [mine EXCEPT ![t] = [rev |-> captures + 1, at |-> now]]
    /\ step' = [step EXCEPT ![t] = "capture"]
    /\ UNCHANGED <<now, row, status, latest, streamVars, failures>>

\* The upsert runs in the session that took the lock, if it still lives.
CanCommit(t) == holder = t

Committed(t, stored) ==
    /\ row' = stored
    /\ holder' = Unlocked(t)
    /\ UNCHANGED captures

Captured(t) ==
    /\ step[t] = "capture"
    /\ ~Expired(mine[t])
    /\ CanCommit(t)
    /\ Committed(t, Refreshed(mine[t]))
    /\ step' = [step EXCEPT ![t] = "after"]
    /\ UNCHANGED <<now, status, mine, latest, streamVars, failures>>

\* tick()'s catch: every stream of the topic closes and leaves, which stops
\* the topic, so its finally arms nothing.
TickFails(t) ==
    /\ CloseStreams(listeners[t])
    /\ Left(t, {}, None)
    /\ step' = [step EXCEPT ![t] = "idle"]
    /\ mine' = [mine EXCEPT ![t] = None]
    /\ UNCHANGED now

\* The capture fails, or its payload has expired by its end: the attempt is
\* committed with the payload before it.
CaptureFails(t) ==
    /\ step[t] = "capture"
    /\ IF Expired(mine[t]) THEN UNCHANGED failures ELSE Failure
    /\ CanCommit(t)
    /\ Committed(t, Cooldown)
    /\ TickFails(t)

\* The answer to the COMMIT is lost: the row is written and the tick fails.
CommitUnanswered(t) ==
    /\ step[t] = "capture"
    /\ ~Expired(mine[t])
    /\ CanCommit(t)
    /\ Failure
    /\ Committed(t, Refreshed(mine[t]))
    /\ TickFails(t)

\* The session dies while the capture goes on, and the lock with it.
SessionLost(t) ==
    /\ step[t] = "capture" /\ holder = t
    /\ Failure
    /\ holder' = None
    /\ UNCHANGED <<now, row, captures, topicVars, streamVars>>

\* Its upsert then fails.
CommitRefused(t) ==
    /\ step[t] = "capture"
    /\ ~CanCommit(t)
    /\ TickFails(t)
    /\ UNCHANGED <<dbVars, failures>>

\* An envelope or a query fails; the transaction is rolled back.
AwaitFails(t) ==
    /\ step[t] \in {"envelope", "after"}
    /\ Failure
    /\ TickFails(t)
    /\ UNCHANGED dbVars

Deliverable_expired(t) == mine[t] # None

\* The envelope after the read is there, and the payload is still current.
Deliverable(t) == IF mine[t] = None THEN FALSE ELSE ~Expired(mine[t])

Changed_unchecked(t) == TRUE

Changed(t) == IF latest[t] = None THEN TRUE ELSE latest[t].rev # mine[t].rev

\* The tick's end: a new revision goes to every stream of a live topic.
Publish(t) ==
    /\ step[t] = "after"
    /\ status[t] = "live" /\ Deliverable(t) /\ Changed(t)
    /\ LET stay == {c \in listeners[t] : StaysOpen(c, mine[t])}
           gone == listeners[t] \ stay
       IN /\ Left(t, stay, mine[t])
          /\ step' = [step EXCEPT ![t] = Rearmed(stay)]
          /\ open' = [c \in Readers |-> open[c] /\ c \notin gone]
          /\ wire' = [c \in Readers |->
                         IF c \in stay THEN Append(wire[c], mine[t])
                         ELSE IF c \in gone THEN <<>> ELSE wire[c]]
          /\ got' = [c \in Readers |-> IF c \in gone THEN 0 ELSE got[c]]
    /\ mine' = [mine EXCEPT ![t] = None]
    /\ UNCHANGED <<now, dbVars, failures>>

NothingToPublish(t) ==
    /\ step[t] = "after"
    /\ ~(status[t] = "live" /\ Deliverable(t) /\ Changed(t))
    /\ step' = [step EXCEPT ![t] = Rearmed(listeners[t])]
    /\ mine' = [mine EXCEPT ![t] = None]
    /\ UNCHANGED <<now, dbVars, status, latest, streamVars, failures>>

-----------------------------------------------------------------------------

\* The last listener's leaving clears the topic's timer, while a tick that is
\* under way, or queued as a microtask, goes on.
Leaves(c) ==
    \E t \in Topics :
        /\ c \in listeners[t]
        /\ Left(t, listeners[t] \ {c}, latest[t])
        /\ step' = [step EXCEPT ![t] =
                       IF listeners[t] = {c} /\ @ = "timer" THEN "idle" ELSE @]
        /\ CloseStreams({c})
        /\ UNCHANGED <<now, dbVars, mine>>

\* The reader disconnects or unsubscribes.
Disconnect(c) ==
    /\ open[c]
    /\ Leaves(c)
    /\ UNCHANGED failures

\* 25 s without a frame end a stream.
InitialTimeout(c) ==
    /\ open[c] /\ got[c] = 0 /\ wire[c] = <<>>
    /\ Leaves(c)
    /\ UNCHANGED failures

\* A frame is not acknowledged within 5 s.
AckTimeout(c) ==
    /\ open[c] /\ c \in Sockets /\ wire[c] # <<>>
    /\ Failure
    /\ Leaves(c)

\* The reader takes a frame: the backlog drains, or the frame is acknowledged,
\* which sends the oldest one queued.
Take(c) ==
    /\ open[c] /\ wire[c] # <<>>
    /\ got' = [got EXCEPT ![c] = Head(wire[c]).rev]
    /\ wire' = [wire EXCEPT ![c] = Tail(@)]
    /\ UNCHANGED <<now, dbVars, topicVars, listeners, open, failures>>

\* A replica dies: its topics, streams and sessions end.
Crash(r) ==
    /\ \E t \in Topics : t[1] = r /\ (step[t] # "idle" \/ status[t] = "live")
    /\ Failure
    /\ LET own == {t \in Topics : t[1] = r}
       IN /\ status' = [t \in Topics |->
                           IF t \in own /\ status[t] = "live" THEN "stopped" ELSE status[t]]
          /\ step' = [t \in Topics |-> IF t \in own THEN "idle" ELSE step[t]]
          /\ mine' = [t \in Topics |-> IF t \in own THEN None ELSE mine[t]]
          /\ listeners' = [t \in Topics |-> IF t \in own THEN {} ELSE listeners[t]]
          /\ latest' = [t \in Topics |-> IF t \in own THEN None ELSE latest[t]]
          /\ holder' = IF holder \in own THEN None ELSE holder
          /\ CloseStreams(UNION {listeners[t] : t \in own})
    /\ UNCHANGED <<now, row, captures>>

-----------------------------------------------------------------------------

CaptureEnds(t) == Captured(t) \/ CaptureFails(t) \/ CommitRefused(t)

TickStep(t) ==
    \/ StartTick(t) \/ ReadStored(t) \/ BeginCapture(t)
    \/ CaptureEnds(t)
    \/ Publish(t) \/ NothingToPublish(t)

HubNext ==
    \/ Tick
    \/ \E c \in Readers, t \in Topics : Create(c, t) \/ Join(c, t)
    \/ \E t \in Topics :
          \/ TickStep(t)
          \/ CommitUnanswered(t) \/ SessionLost(t) \/ AwaitFails(t)
    \/ \E c \in Readers :
          \/ Disconnect(c) \/ InitialTimeout(c) \/ AckTimeout(c) \/ Take(c)
    \/ \E r \in Replicas : Crash(r)

HubSpec == HubInit /\ [][HubNext]_hubVars

-----------------------------------------------------------------------------

\* A stream's frames are captures in the order they were begun, each once,
\* whichever replicas captured them and however far its reader is behind.
InOrder ==
    \A c \in Readers :
        LET seen == <<got[c]>> \o [i \in DOMAIN wire[c] |-> wire[c][i].rev]
        IN \A i, j \in DOMAIN seen : i < j => seen[i] < seen[j]

\* The hub works for readers only: an open stream is listed in one live topic,
\* a live topic lists open streams only and at least one, and a stopped topic
\* has no timer that would read again.
NoOrphans ==
    /\ \A t \in Topics :
          /\ listeners[t] # {} <=> status[t] = "live"
          /\ \A c \in listeners[t] : open[c]
          /\ status[t] = "stopped" => step[t] # "timer"
    /\ \A c \in Readers : open[c] => \E t \in Topics : c \in listeners[t]

\* No stream is handed a snapshot that has expired: not the tick's, which may
\* have waited for an envelope, and not the topic's latest.
FreshFrames ==
    [][\A c \in Readers :
          Len(wire'[c]) > Len(wire[c]) => ~Expired(wire'[c][Len(wire'[c])])]_hubVars

UpToDate(t) ==
    \/ status[t] # "live"
    \/ Stored = None
    \/ Expired(row)
    \/ latest[t] # None /\ latest[t].rev >= row.rev

\* Every live topic catches up with the row, whichever replica writes it: a
\* topic that the row is ahead of is not left behind, unless the row expires.
Delivered == \A t \in Topics : []<>UpToDate(t)
=============================================================================
