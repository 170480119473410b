------------------------- MODULE InvalidationListener -------------------------
(***************************************************************************)
(* The API's PostgreSQL listener: how one connect() call gets a client and  *)
(* LISTENs on it, what a disconnect does, and the reconnect timer, beside   *)
(* the commits that notify. What the listener tells the rest of the process *)
(* is left to the modules that extend this one (ReadCache, ChangeFeed):     *)
(* they conjoin it to Notified ("change"), Connected ("resync") and the     *)
(* three ways to be Unavailable.                                            *)
(*                                                                          *)
(* Node runs one callback at a time, so what happens between two awaits is  *)
(* one step. The end of the process (stopDuskInvalidationListener) is not   *)
(* modelled: stopped stays false once index.ts has started the listener.    *)
(***************************************************************************)
EXTENDS Naturals, Sequences, SequencesExt

CONSTANTS
    Clients,    \* pool clients; each connect() takes one that is free
    SlotOf,     \* sequence: the source slot of each commit, in commit order
    MaxFaults,  \* bound on the connection faults of one behaviour
    Nil

Commits == DOMAIN SlotOf

ASSUME ListenerAssumption ==
    /\ SlotOf \in Seq(Nat \ {0})
    /\ MaxFaults \in Nat
    /\ Clients # {}
    /\ Nil \notin Clients

VARIABLES
    db,          \* how many commits the database holds
    client,      \* [Clients -> how far connect() is with it; see ClientStates]
    inbox,       \* [Clients -> commits notified to its session, not yet handled]
    connection,  \* the module's `connection`
    reconnect,   \* is the reconnect timer set
    starting,    \* the connect() whose promise `starting` holds
    faults       \* faults so far

listenerVars == <<db, client, inbox, connection, reconnect, starting, faults>>

(***************************************************************************)
(* "acquiring": awaits pool.connect(); "listening": awaits the LISTEN       *)
(* query; "listened": the server has run it, the await has not resumed;     *)
(* "on": past connect(); "cut": its session is dead, no event has said so;  *)
(* "failed": released, but connect() still awaits the LISTEN query.         *)
(***************************************************************************)
ClientStates ==
    {"free", "acquiring", "listening", "listened", "on", "cut", "failed"}

ListenerTypeOK ==
    /\ db \in 0..Len(SlotOf)
    /\ client \in [Clients -> ClientStates]
    /\ inbox \in [Clients -> Seq(Commits)]
    /\ connection \in Clients \cup {Nil}
    /\ reconnect \in BOOLEAN
    /\ starting \in Clients \cup {Nil}
    /\ faults \in 0..MaxFaults

\* Sessions the server notifies.
Live == {c \in Clients : client[c] \in {"listened", "on"}}

\* duskInvalidationListenerReady.
Ready == connection # Nil

\* scheduleReconnect: one timer at a time.
Scheduled == TRUE

Fault == faults < MaxFaults /\ faults' = faults + 1

\* The client the pool hands out next; the clients are interchangeable.
NextFree == CHOOSE c \in Clients : client[c] = "free"

\* index.ts has called startDuskInvalidationListener, before the first request.
ListenerInit ==
    /\ db = 0
    /\ starting = CHOOSE c \in Clients : TRUE
    /\ client = [c \in Clients |-> IF c = starting THEN "acquiring" ELSE "free"]
    /\ inbox = [c \in Clients |-> <<>>]
    /\ connection = Nil
    /\ reconnect = FALSE
    /\ faults = 0

-----------------------------------------------------------------------------

\* A trigger's NOTIFY reaches every listening session, after the commit and in
\* the order of the commits.
Commit ==
    /\ db < Len(SlotOf)
    /\ db' = db + 1
    /\ inbox' = [c \in Clients |-> IF c \in Live THEN Append(inbox[c], db') ELSE inbox[c]]
    /\ UNCHANGED <<client, connection, reconnect, starting, faults>>

\* startDuskInvalidationListener with no connection and no promise to share. A
\* timer that is already set stays set.
Start(c) ==
    /\ ~Ready /\ starting = Nil
    /\ client[c] = "free" /\ c = NextFree
    /\ client' = [client EXCEPT ![c] = "acquiring"]
    /\ starting' = c
    /\ UNCHANGED <<db, inbox, connection, reconnect, faults>>

\* The timer calls connect() whatever `connection` and `starting` hold by now.
ReconnectFires(c) ==
    /\ reconnect
    /\ client[c] = "free" /\ c = NextFree
    /\ client' = [client EXCEPT ![c] = "acquiring"]
    /\ reconnect' = FALSE
    /\ starting' = c
    /\ UNCHANGED <<db, inbox, connection, faults>>

\* pool.connect() answers; the handlers are set and LISTEN is sent.
Acquired(c) ==
    /\ client[c] = "acquiring"
    /\ client' = [client EXCEPT ![c] = "listening"]
    /\ UNCHANGED <<db, inbox, connection, reconnect, starting, faults>>

\* The server runs LISTEN: from here on the session is notified.
Listens(c) ==
    /\ client[c] = "listening"
    /\ client' = [client EXCEPT ![c] = "listened"]
    /\ UNCHANGED <<db, inbox, connection, reconnect, starting, faults>>

\* connect() resumes after LISTEN. Its promise settles, and the finally clears
\* `starting` even if a later connect() has put its own promise there.
Connected(c) ==
    /\ client[c] = "listened"
    /\ client' = [client EXCEPT ![c] = "on"]
    /\ connection' = c
    /\ starting' = Nil
    /\ UNCHANGED <<db, inbox, reconnect, faults>>

\* pool.connect() fails: no client, nothing to disconnect.
AcquireFails(c) ==
    /\ client[c] = "acquiring"
    /\ Fault
    /\ client' = [client EXCEPT ![c] = "free"]
    /\ reconnect' = Scheduled
    /\ starting' = Nil
    /\ UNCHANGED <<db, inbox, connection>>

\* The LISTEN query fails: connect()'s catch disconnects.
ListenFails(c) ==
    /\ client[c] = "listening"
    /\ Fault
    /\ client' = [client EXCEPT ![c] = "free"]
    /\ reconnect' = Scheduled
    /\ starting' = Nil
    /\ UNCHANGED <<db, inbox, connection>>

\* 'error' or 'end' while connect() awaits LISTEN: released already.
LostConnecting(c) ==
    /\ client[c] \in {"listening", "listened"}
    /\ Fault
    /\ client' = [client EXCEPT ![c] = "failed"]
    /\ inbox' = [inbox EXCEPT ![c] = <<>>]
    /\ reconnect' = Scheduled
    /\ UNCHANGED <<db, connection, starting>>

\* That connect() ends, by its error or by finding `released`.
FailureSettles(c) ==
    /\ client[c] = "failed"
    /\ client' = [client EXCEPT ![c] = "free"]
    /\ starting' = Nil
    /\ UNCHANGED <<db, inbox, connection, reconnect, faults>>

\* The session dies; the commits from here on do not reach it, nor do those
\* still under way.
SessionDies(c) ==
    /\ client[c] = "on"
    /\ Fault
    /\ client' = [client EXCEPT ![c] = "cut"]
    /\ inbox' = [inbox EXCEPT ![c] = <<>>]
    /\ UNCHANGED <<db, connection, reconnect, starting>>

\* 'error' or 'end' on a client past connect().
Disconnects(c) ==
    /\ client[c] = "cut"
    /\ client' = [client EXCEPT ![c] = "free"]
    /\ connection' = IF connection = c THEN Nil ELSE connection
    /\ reconnect' = Scheduled
    /\ UNCHANGED <<db, inbox, starting, faults>>

\* The 'notification' event with the next notice of its session.
Notified(c) ==
    /\ c \in Live
    /\ inbox[c] # <<>>
    /\ inbox' = [inbox EXCEPT ![c] = Tail(inbox[c])]
    /\ UNCHANGED <<db, client, connection, reconnect, starting, faults>>

\* disconnect() of a client: it publishes "unavailable".
Unavailable(c) == ListenFails(c) \/ LostConnecting(c) \/ Disconnects(c)

\* Steps that publish nothing and reach nobody else.
Quiet(c) == Acquired(c) \/ Listens(c) \/ SessionDies(c)
=============================================================================
