------------------------------ MODULE ChangeFeed ------------------------------
(***************************************************************************)
(* The change feeds (openDuskChangeFeed) over the invalidation listener:    *)
(* each subscribes to the bus, waits for the listener and for a first       *)
(* observation of the deployment, then sends one frame at a time, merging   *)
(* what it hears meanwhile into one pending kind and slot.                  *)
(*                                                                          *)
(* An observation is the awaited envelope. It is good, or it ends the feed: *)
(* it fails, is later than its bound, carries another deployment identity   *)
(* or a slot below the one asked for. Sequence numbers are left out.        *)
(***************************************************************************)
EXTENDS InvalidationListener, FiniteSets

CONSTANTS
    Feeds,     \* places for a feed; a closed one may be opened again
    MaxActive  \* openDuskChangeFeed's cap on open feeds

Kinds == {"change", "resync", "heartbeat"}
Slots == {0} \cup {SlotOf[n] : n \in Commits}

ASSUME FeedAssumption ==
    /\ MaxActive \in Nat
    /\ Nil \notin Kinds \cup (Kinds \X Slots)

VARIABLES
    phase,   \* [Feeds -> "closed", "starting", "observing", "open"]; reopened at will
    waits,   \* [Feeds -> the connect() its start() awaits]
    kind,    \* [Feeds -> pendingKind]
    slot,    \* [Feeds -> pendingSlot]
    timer,   \* [Feeds -> is the batch timer set]
    taken,   \* [Feeds -> <<kind, slot>> being sent, or Nil]
    stale    \* history: [Feeds -> commits since its first frame that no frame covers]

feedVars == <<phase, waits, kind, slot, timer, taken, stale>>
vars == <<listenerVars, feedVars>>

TypeOK ==
    /\ ListenerTypeOK
    /\ phase \in [Feeds -> {"closed", "starting", "observing", "open"}]
    /\ waits \in [Feeds -> Clients \cup {Nil}]
    /\ kind \in [Feeds -> Kinds \cup {Nil}]
    /\ slot \in [Feeds -> Slots]
    /\ timer \in [Feeds -> BOOLEAN]
    /\ taken \in [Feeds -> (Kinds \X Slots) \cup {Nil}]
    /\ stale \in [Feeds -> SUBSET (1..db)]

Active == {f \in Feeds : phase[f] \in {"starting", "observing", "open"}}

-----------------------------------------------------------------------------
(* schedule, merged kind and slot; write; close.                            *)

\* The latest kind wins.
Merged_latest(f, k) == k

\* resync wins, then change, then heartbeat.
Merged(f, k) == IF k = "resync" \/ kind[f] \in {Nil, "heartbeat"} THEN k ELSE kind[f]

\* The highest slot wins.
MaxSlot(f, s) == IF s > slot[f] THEN s ELSE slot[f]

\* The timer is due once the feed is open and nothing is being sent.
TimerDue(f) == phase[f] = "open" /\ taken[f] = Nil

\* After a frame, a pending kind is left for the next schedule().
TimerAfter_none(f) == FALSE

\* After a frame, a pending kind is scheduled.
TimerAfter(f) == kind[f] # Nil

\* The feed's last check of the listener, missing.
MayOpen_unchecked == TRUE

MayOpen == Ready

\* The commits a frame covers: a resync all of them, a change those up to its slot.
Covered(k, s) ==
    {n \in 1..db : k = "resync" \/ (k = "change" /\ SlotOf[n] <= s)}

\* schedule(k, s) on every feed of H.
Hear(H, k, s) ==
    /\ kind' = [f \in Feeds |-> IF f \in H THEN Merged(f, k) ELSE kind[f]]
    /\ slot' = [f \in Feeds |-> IF f \in H THEN MaxSlot(f, s) ELSE slot[f]]
    /\ timer' = [f \in Feeds |-> timer[f] \/ (f \in H /\ TimerDue(f))]
    /\ UNCHANGED <<taken, stale>>

\* close() of every feed of C, which is also how a feed is forgotten.
CloseAll(C) ==
    /\ phase' = [f \in Feeds |-> IF f \in C THEN "closed" ELSE phase[f]]
    /\ waits' = [f \in Feeds |-> IF f \in C THEN Nil ELSE waits[f]]
    /\ kind' = [f \in Feeds |-> IF f \in C THEN Nil ELSE kind[f]]
    /\ slot' = [f \in Feeds |-> IF f \in C THEN 0 ELSE slot[f]]
    /\ timer' = [f \in Feeds |-> timer[f] /\ f \notin C]
    /\ taken' = [f \in Feeds |-> IF f \in C THEN Nil ELSE taken[f]]
    /\ stale' = [f \in Feeds |-> IF f \in C THEN {} ELSE stale[f]]

Close(f) == CloseAll({f}) /\ UNCHANGED listenerVars

\* The feeds whose start() awaits the connect() on c.
Waiting(c) == {f \in Feeds : waits[f] = c}

-----------------------------------------------------------------------------

Init ==
    /\ ListenerInit
    /\ phase = [f \in Feeds |-> "closed"]
    /\ waits = [f \in Feeds |-> Nil]
    /\ kind = [f \in Feeds |-> Nil]
    /\ slot = [f \in Feeds |-> 0]
    /\ timer = [f \in Feeds |-> FALSE]
    /\ taken = [f \in Feeds |-> Nil]
    /\ stale = [f \in Feeds |-> {}]

\* openDuskChangeFeed subscribes, then calls start(), which returns at once on
\* a connection, shares the promise of `starting`, or connects.
Open(f) ==
    /\ phase[f] = "closed"
    /\ Cardinality(Active) < MaxActive
    /\ \/ /\ Ready
          /\ phase' = [phase EXCEPT ![f] = "observing"]
          /\ UNCHANGED <<listenerVars, waits>>
       \/ /\ ~Ready /\ starting # Nil
          /\ phase' = [phase EXCEPT ![f] = "starting"]
          /\ waits' = [waits EXCEPT ![f] = starting]
          /\ UNCHANGED listenerVars
       \/ \E c \in Clients :
          /\ Start(c)
          /\ phase' = [phase EXCEPT ![f] = "starting"]
          /\ waits' = [waits EXCEPT ![f] = c]
    /\ UNCHANGED <<kind, slot, timer, taken, stale>>

\* The first observation: the feed opens with a resync frame, or fails for want
\* of a listener.
Initialized(f) ==
    /\ phase[f] = "observing"
    /\ MayOpen
    /\ phase' = [phase EXCEPT ![f] = "open"]
    /\ timer' = [timer EXCEPT ![f] = kind[f] # Nil]
    /\ UNCHANGED <<listenerVars, waits, kind, slot, taken, stale>>

NotInitialized(f) == phase[f] = "observing" /\ ~MayOpen /\ Close(f)

\* The heartbeat interval.
Heartbeat(f) ==
    /\ phase[f] = "open"
    /\ Hear({f}, "heartbeat", 0)
    /\ UNCHANGED <<listenerVars, phase, waits>>

\* The batch timer: send() takes what is pending and awaits its envelope.
Send(f) ==
    /\ timer[f] /\ taken[f] = Nil /\ kind[f] # Nil
    /\ timer' = [timer EXCEPT ![f] = FALSE]
    /\ taken' = [taken EXCEPT ![f] = <<kind[f], slot[f]>>]
    /\ kind' = [kind EXCEPT ![f] = Nil]
    /\ slot' = [slot EXCEPT ![f] = 0]
    /\ UNCHANGED <<listenerVars, phase, waits, stale>>

\* A good observation: the frame is written, and what came meanwhile is next.
Write(f) ==
    /\ taken[f] # Nil
    /\ Ready
    /\ stale' = [stale EXCEPT ![f] = @ \ Covered(taken[f][1], taken[f][2])]
    /\ taken' = [taken EXCEPT ![f] = Nil]
    /\ timer' = [timer EXCEPT ![f] = TimerAfter(f)]
    /\ UNCHANGED <<listenerVars, phase, waits, kind, slot>>

\* An observation that ends the feed, before or after the first frame.
ObservationFails(f) ==
    /\ phase[f] = "observing" \/ taken[f] # Nil
    /\ Close(f)

\* The reader leaves, or sink.write finds it behind; or start() takes too long.
ReaderGone(f) == f \in Active /\ Close(f)

-----------------------------------------------------------------------------
(* What the listener's steps do to the feeds.                               *)

CommitMade ==
    /\ Commit
    /\ stale' = [f \in Feeds |-> IF phase[f] = "open" THEN stale[f] \cup {db'} ELSE stale[f]]
    /\ UNCHANGED <<phase, waits, kind, slot, timer, taken>>

Notice(c) ==
    /\ Notified(c)
    /\ Hear(Active, "change", SlotOf[Head(inbox[c])])
    /\ UNCHANGED <<phase, waits>>

\* The feeds that wait for this connect() go on to their first observation.
ListenerUp(c) ==
    /\ Connected(c)
    /\ Hear(Active, "resync", 0)
    /\ phase' = [f \in Feeds |-> IF f \in Waiting(c) THEN "observing" ELSE phase[f]]
    /\ waits' = [f \in Feeds |-> IF f \in Waiting(c) THEN Nil ELSE waits[f]]

\* "unavailable" closes the feeds that are open; a start() that awaited this
\* connect() fails with it, at once or when the connect() settles.
ListenerDown(c) ==
    LET opened == {f \in Feeds : phase[f] = "open"} IN
    \/ ListenFails(c) /\ CloseAll(opened \cup Waiting(c))
    \/ (LostConnecting(c) \/ Disconnects(c)) /\ CloseAll(opened)

\* connect() fails before it has a client, which publishes nothing.
NoClient(c) == AcquireFails(c) /\ CloseAll(Waiting(c))

\* A lost connect() settles: its error fails the waiting start(), its return
\* lets the feed go on to find no listener.
Settled(c) ==
    /\ FailureSettles(c)
    /\ \/ CloseAll(Waiting(c))
       \/ /\ phase' = [f \in Feeds |-> IF f \in Waiting(c) THEN "observing" ELSE phase[f]]
          /\ waits' = [f \in Feeds |-> IF f \in Waiting(c) THEN Nil ELSE waits[f]]
          /\ UNCHANGED <<kind, slot, timer, taken, stale>>

Next ==
    \/ \E f \in Feeds : \/ Open(f) \/ Initialized(f) \/ NotInitialized(f)
                        \/ Heartbeat(f) \/ Send(f) \/ Write(f)
                        \/ ObservationFails(f) \/ ReaderGone(f)
    \/ CommitMade
    \/ \E c \in Clients : \/ Notice(c) \/ ListenerUp(c) \/ ListenerDown(c)
                          \/ NoClient(c) \/ Settled(c)
                          \/ Quiet(c) /\ UNCHANGED feedVars
                          \/ ReconnectFires(c) /\ UNCHANGED feedVars

Spec == Init /\ [][Next]_vars

-----------------------------------------------------------------------------
(* Properties.                                                              *)

\* A pending or taken kind and slot that will cover commit n.
Covers(k, s, n) == k = "resync" \/ (k = "change" /\ s >= SlotOf[n])

\* No commit is missed in silence. A commit that no frame of an open feed
\* covers yet is in the inbox of a listening session, or in what the feed has
\* pending or is sending; or a session is dead and its event will close the
\* feed. It joins the listener, the merge of schedule and the awaits of send.
NothingMissed ==
    \A f \in Feeds : phase[f] = "open" =>
        \A n \in stale[f] :
            \/ \E c \in Live : Contains(inbox[c], n)
            \/ \E c \in Clients : client[c] = "cut"
            \/ Covers(kind[f], slot[f], n)
            \/ /\ taken[f] # Nil
               /\ Covers(taken[f][1], taken[f][2], n)

\* "listener failure ends the stream instead of leaving a false healthy
\* subscription" (duskChangeStream.test.ts), whenever it comes: an open feed
\* has a listener.
NoFalseHealth == \A f \in Feeds : phase[f] = "open" => Ready

\* An open feed that has something pending will send it: the timer is set, or a
\* frame is being sent whose end sets it.
NeverStuck ==
    \A f \in Feeds :
        phase[f] = "open" /\ kind[f] # Nil => timer[f] \/ taken[f] # Nil

\* Every commit reaches each open feed in a frame, or the feed closes.
CommitReachesFeeds ==
    \A f \in Feeds, n \in Commits : []<>(n \notin stale[f])
=============================================================================
