----------------------------- MODULE GrpcStream -----------------------------
(***************************************************************************)
(* StreamDuskChanges of the gRPC server (dusk_stream.rs): one task listens   *)
(* to the database and keeps the latest notice in a watch channel, which     *)
(* every stream looks at in its own time.  A new connection of the listener  *)
(* is a new generation; whoever saw another one cannot know what it missed,  *)
(* and ends.  The streams share what the API last said of the deployment.    *)
(*                                                                          *)
(* The tasks run on several threads, so a notice may come between any two    *)
(* looks at the channel, also where nothing is awaited.                      *)
(***************************************************************************)
EXTENDS Naturals, Sequences, FiniteSetsExt, SequencesExt

CONSTANTS
    None,
    Streams,
    SlotOf,         \* the slots of the commits, in the order in which they are made
    MaxFaults       \* bound: connections that fail

VARIABLES
    commits,    \* commits made
    session,    \* the listener: "resting", "connecting", "listening", "dead"
    inbox,      \* commits whose notice the session has yet to receive
    notice,     \* the channel's value: [ready, generation, slot]
    release,    \* the deployed release
    shared,     \* the observation of the last 250 ms, or None
    stream,     \* [Streams -> [at, unseen, generation, kind, slot, identity]]
    owed,       \* history: [Streams -> the commits it is to be told of]
    behind,     \* history: the streams with a frame from before its slot
    faults

listener == <<commits, session, inbox, notice>>
vars == <<listener, release, shared, stream, owed, behind, faults>>

Open == {s \in Streams : stream[s].at \notin {"new", "closed"}}
Closed == [at |-> "closed", unseen |-> TRUE, generation |-> 0, kind |-> None, slot |-> 0,
           identity |-> None]

Init ==
    /\ commits = 0 /\ session = "resting" /\ inbox = <<>>
    /\ notice = [ready |-> FALSE, generation |-> 0, slot |-> 0]
    /\ release = 1 /\ shared = None
    /\ stream = [s \in Streams |-> [Closed EXCEPT !.at = "new"]]
    /\ owed = [s \in Streams |-> {}] /\ behind = {} /\ faults = 0

-----------------------------------------------------------------------------
(* The database, the API's deployment and the listener.                     *)

Commit ==
    /\ commits < Len(SlotOf)
    /\ commits' = commits + 1
    /\ inbox' = IF session = "listening" THEN Append(inbox, commits') ELSE inbox
    /\ owed' = [s \in Streams |-> IF s \in Open THEN owed[s] \cup {commits'} ELSE {}]
    /\ UNCHANGED <<session, notice, release, shared, stream, behind, faults>>

Upgrade ==
    /\ release = 1 /\ release' = 2
    /\ UNCHANGED <<listener, shared, stream, owed, behind, faults>>

Send(ready, generation, slot) ==
    /\ notice' = [ready |-> ready, generation |-> generation, slot |-> slot]
    /\ stream' = [s \in Streams |-> [stream[s] EXCEPT !.unseen = TRUE]]
    /\ UNCHANGED <<commits, release, shared, owed, behind>>

Connect ==
    /\ session = "resting" /\ session' = "connecting"
    /\ Send(FALSE, notice.generation + 1, 0)
    /\ UNCHANGED <<inbox, faults>>

Listen ==
    /\ session = "connecting" /\ session' = "listening"
    /\ Send(TRUE, notice.generation, 0)
    /\ UNCHANGED <<inbox, faults>>

Refused ==
    /\ session = "connecting" /\ faults < MaxFaults
    /\ session' = "resting" /\ faults' = faults + 1
    /\ Send(FALSE, notice.generation, 0)
    /\ UNCHANGED inbox

\* What the server had sent may still be received.
Cut ==
    /\ session = "listening" /\ faults < MaxFaults
    /\ session' = "dead" /\ faults' = faults + 1
    /\ UNCHANGED <<commits, inbox, notice, release, shared, stream, owed, behind>>

Receive ==
    /\ session \in {"listening", "dead"} /\ inbox # <<>>
    /\ inbox' = Tail(inbox)
    /\ Send(TRUE, notice.generation, Max({notice.slot, SlotOf[Head(inbox)]}))
    /\ UNCHANGED <<session, faults>>

Lose ==
    /\ session = "dead" /\ session' = "resting" /\ inbox' = <<>>
    /\ Send(FALSE, notice.generation, 0)
    /\ UNCHANGED faults

-----------------------------------------------------------------------------
(* A stream.                                                                *)

Becomes(s, r) == stream' = [stream EXCEPT ![s] = r]

Subscribe(s) ==
    /\ stream[s].at = "new" /\ notice.ready
    /\ Becomes(s, [stream[s] EXCEPT !.at = "opened"])
    /\ UNCHANGED <<listener, release, shared, owed, behind, faults>>

\* The first poll.
Start(s) ==
    /\ stream[s].at = "opened"
    /\ Becomes(s, [stream[s] EXCEPT !.at = "looked", !.kind = "resync",
                                    !.generation = notice.generation])
    /\ UNCHANGED <<listener, release, shared, owed, behind, faults>>

\* A heartbeat that finds a notice becomes a change.
Look(s) ==
    /\ stream[s].at = "looking"
    /\ Becomes(s, [stream[s] EXCEPT !.at = "looked",
                                    !.kind = IF @ = "heartbeat" /\ stream[s].unseen THEN "change" ELSE @])
    /\ UNCHANGED <<listener, release, shared, owed, behind, faults>>

\* !ready || generation != generation: the second part is for a listener that
\* is back before the stream looks.
Continuous_ready(generation) == notice.ready
Continuous(generation) == notice.ready /\ notice.generation = generation

\* A heartbeat that found no notice may still take one along: its client hears
\* of the slot with the next change.
Hides(s) == stream[s].kind = "heartbeat" /\ stream[s].unseen

\* borrow_and_update.
Take(s) ==
    /\ stream[s].at = "looked"
    /\ IF Continuous(stream[s].generation)
       THEN /\ Becomes(s, [stream[s] EXCEPT
                   !.at = "asking", !.unseen = FALSE,
                   !.slot = IF stream[s].kind = "change" THEN notice.slot ELSE 0])
            /\ owed' = IF Hides(s) THEN [owed EXCEPT ![s] = @ \cap Range(inbox)] ELSE owed
       ELSE Becomes(s, Closed) /\ owed' = [owed EXCEPT ![s] = {}]
    /\ UNCHANGED <<listener, release, shared, behind, faults>>

\* A failed observation is shared like a good one.
Usable(slot) == shared # None /\ (shared.failed \/ shared.slot >= slot)

\* /config answers from the slot asked for or a later one, or not at all.
Observations(slot) ==
    {[failed |-> FALSE, slot |-> n, release |-> release] :
        n \in Max({slot, 1})..Max(Range(SlotOf))} \cup
    {[failed |-> TRUE, slot |-> 0, release |-> None]}

\* The frame, or the end of the stream.
Continues(s, seen) ==
    /\ ~seen.failed /\ Continuous(stream[s].generation)
    /\ stream[s].identity \in {None, seen.release}

CoveredBy(s) ==
    CASE stream[s].kind = "resync" -> owed[s]
      [] stream[s].kind = "change" -> {c \in owed[s] : SlotOf[c] <= stream[s].slot}
      [] OTHER -> {}

Tell(s, seen) ==
    IF Continues(s, seen)
    THEN /\ Becomes(s, [stream[s] EXCEPT !.at = "waiting", !.kind = None, !.identity = seen.release])
         /\ owed' = [owed EXCEPT ![s] = @ \ CoveredBy(s)]
         /\ behind' = IF seen.slot < stream[s].slot THEN behind \cup {s} ELSE behind
    ELSE Becomes(s, Closed) /\ owed' = [owed EXCEPT ![s] = {}] /\ UNCHANGED behind

\* The stream's turn with the observation: the mutex is held over the read, so
\* those behind it are told what it reads.
Ask(s) ==
    /\ stream[s].at = "asking" /\ \A t \in Streams : stream[t].at # "reading"
    /\ \/ Usable(stream[s].slot) /\ Tell(s, shared)
       \/ /\ ~Usable(stream[s].slot)
          /\ Becomes(s, [stream[s] EXCEPT !.at = "reading"]) /\ UNCHANGED <<owed, behind>>
    /\ UNCHANGED <<listener, release, shared, faults>>

Read(s) ==
    /\ stream[s].at = "reading"
    /\ shared' \in Observations(stream[s].slot)
    /\ Tell(s, shared')
    /\ UNCHANGED <<listener, release, faults>>

Expire ==
    /\ shared # None /\ shared' = None
    /\ UNCHANGED <<listener, release, stream, owed, behind, faults>>

\* The client's turn comes before the next look.
Notified(s) ==
    /\ stream[s].at = "waiting" /\ stream[s].unseen
    /\ Becomes(s, [stream[s] EXCEPT !.at = "batching", !.unseen = FALSE, !.kind = "change"])
    /\ UNCHANGED <<listener, release, shared, owed, behind, faults>>

Batched(s) ==
    /\ stream[s].at = "batching"
    /\ Becomes(s, [stream[s] EXCEPT !.at = "looked"])
    /\ UNCHANGED <<listener, release, shared, owed, behind, faults>>

\* Also when a notice is there: select! takes either.
Tick(s) ==
    /\ stream[s].at = "waiting"
    /\ Becomes(s, [stream[s] EXCEPT !.at = "looking", !.kind = "heartbeat"])
    /\ UNCHANGED <<listener, release, shared, owed, behind, faults>>

\* The client leaves; a read is dropped with its mutex.
Leave(s) ==
    /\ s \in Open
    /\ Becomes(s, Closed) /\ owed' = [owed EXCEPT ![s] = {}]
    /\ UNCHANGED <<listener, release, shared, behind, faults>>

Next ==
    \/ Commit \/ Upgrade \/ Expire
    \/ Connect \/ Listen \/ Refused \/ Cut \/ Receive \/ Lose
    \/ \E s \in Streams :
        \/ Subscribe(s) \/ Start(s) \/ Look(s) \/ Take(s) \/ Ask(s) \/ Read(s)
        \/ Notified(s) \/ Batched(s) \/ Tick(s) \/ Leave(s)

Spec == Init /\ [][Next]_vars

-----------------------------------------------------------------------------

\* The channel has news of the commit that the stream has yet to take; it is
\* about to send a frame for it; or it is about to end.
Announces(s, c) ==
    /\ SlotOf[c] <= notice.slot
    /\ stream[s].unseen \/ (stream[s].kind = "change" /\ stream[s].at \in {"batching", "looked"})
Frames(s, c) ==
    \/ stream[s].at = "opened" \/ stream[s].kind = "resync"
    \/ stream[s].kind = "change" /\ stream[s].at \in {"asking", "reading"} /\ SlotOf[c] <= stream[s].slot
Ends(s) ==
    session = "dead" \/ (stream[s].at # "opened" /\ ~Continuous(stream[s].generation))

\* A commit that an open stream has told its client nothing of is on its way
\* to the channel, in it, or in the frame being made; or the stream is about to
\* end, because the listener has lost its connection since.  What a heartbeat
\* hides (Hides) is the exception.
NoticesReach ==
    \A s \in Streams : \A c \in owed[s] :
        c \in Range(inbox) \/ Announces(s, c) \/ Frames(s, c) \/ Ends(s)

\* A frame's observation is of its slot or later, also where another stream
\* asked for it.
FramesCover == behind = {}
=============================================================================
