----------------------------- MODULE SwapStream -----------------------------
(***************************************************************************)
(* StreamSwapsUpdates of the gRPC server: a task that listens to            *)
(* swap_updates, holds a new swap back for its enriched update              *)
(* (db_listener.rs), and a bounded broadcast to the clients, each of which   *)
(* reads in its own time and is cut off when it misses too much              *)
(* (grpc_server.rs).                                                        *)
(*                                                                          *)
(* The buffer is kept in the order of its timestamps; how long an entry      *)
(* waits is left open.                                                      *)
(***************************************************************************)
EXTENDS Naturals, Sequences, SequencesExt

CONSTANTS
    Swaps,      \* 1..n, in the order of their commits
    TxOf,       \* [Swaps -> transaction]
    Enriched,   \* those that an UPDATE follows, as the first-generation table has
    Clients,
    Capacity,   \* of the broadcast: 100 is rounded up to 128
    MaxLag,     \* MAX_LAG_THRESHOLD
    MaxFaults   \* bound: connections that fail

VARIABLES
    notices,    \* notifications made: a sequence of [swap, op]
    link,       \* the listener: "up", "down", "asleep"
    inbox,      \* notifications that it has yet to receive
    buffer,     \* swaps held back, one of a transaction, oldest first
    sent,       \* the broadcast, as a sequence of [swap, op]
    client,     \* [Clients -> [open, next, lag]]
    got,        \* history: [Clients -> positions in `sent` that it was given]
    owed,       \* history: [Clients -> swaps whose commits it has been open for]
    lost,       \* history: swaps of which no session received the INSERT
    faults

listener == <<notices, link, inbox, buffer, sent>>
vars == <<listener, client, got, owed, lost, faults>>

Init ==
    /\ notices = <<>> /\ link = "up" /\ inbox = <<>> /\ buffer = <<>> /\ sent = <<>>
    /\ client = [c \in Clients |-> [open |-> FALSE, next |-> 0, lag |-> 0]]
    /\ got = [c \in Clients |-> <<>>] /\ owed = [c \in Clients |-> {}]
    /\ lost = {} /\ faults = 0

-----------------------------------------------------------------------------
(* The database.                                                            *)

Insertions(ns) == {n.swap : n \in {m \in ns : m.op = "INSERT"}}

Notify(s, op) ==
    LET n == [swap |-> s, op |-> op]
    IN /\ notices' = Append(notices, n)
       /\ IF link = "up" THEN inbox' = Append(inbox, n) /\ UNCHANGED lost
          ELSE lost' = lost \cup Insertions({n}) /\ UNCHANGED inbox
       /\ UNCHANGED <<link, buffer, sent, client, got, faults>>

Inserted == Insertions(Range(notices))
Updated == {n.swap : n \in {m \in Range(notices) : m.op = "UPDATE"}}

Insert(s) ==
    /\ s \notin Inserted /\ \A t \in Swaps : t < s => t \in Inserted
    /\ Notify(s, "INSERT")
    /\ owed' = [c \in Clients |-> IF client[c].open THEN owed[c] \cup {s} ELSE owed[c]]

Update(s) ==
    /\ s \in (Inserted \cap Enriched) \ Updated
    /\ Notify(s, "UPDATE") /\ UNCHANGED owed

-----------------------------------------------------------------------------
(* The listener.                                                            *)

\* buffer.remove(&tx_sig): a transaction has one entry at most.
Without(tx) ==
    LET Of(i) == TxOf[buffer[i]] = tx
    IN IF \E i \in DOMAIN buffer : Of(i) THEN RemoveAt(buffer, CHOOSE i \in DOMAIN buffer : Of(i))
       ELSE buffer

\* What is in the buffer then: the transaction's entry gives way to the new one,
\* and goes when its update is sent.
Held(n) ==
    IF n.op = "INSERT" THEN Append(Without(TxOf[n.swap]), n.swap) ELSE Without(TxOf[n.swap])

Receive ==
    /\ link # "asleep" /\ inbox # <<>>
    /\ inbox' = Tail(inbox)
    /\ buffer' = Held(Head(inbox))
    /\ sent' = IF Head(inbox).op = "INSERT" THEN sent ELSE Append(sent, Head(inbox))
    /\ UNCHANGED <<notices, link, client, got, owed, lost, faults>>

\* A tick sends what has waited too long, in the order of a hash map.
Tick ==
    /\ link # "asleep"
    /\ \E n \in 1..Len(buffer) :
          /\ \E order \in SetToSeqs(Range(SubSeq(buffer, 1, n))) :
                sent' = sent \o [i \in 1..n |-> [swap |-> order[i], op |-> "INSERT"]]
          /\ buffer' = SubSeq(buffer, n + 1, Len(buffer))
    /\ UNCHANGED <<notices, link, inbox, client, got, owed, lost, faults>>

\* What the server had sent may still be received.
Cut ==
    /\ link = "up" /\ faults < MaxFaults
    /\ link' = "down" /\ faults' = faults + 1
    /\ UNCHANGED <<notices, inbox, buffer, sent, client, got, owed, lost>>

\* A new session, by recv() itself or by the handler of its error.
Reconnect ==
    /\ link = "down"
    /\ link' = "up" /\ inbox' = <<>>
    /\ lost' = lost \cup Insertions(Range(inbox))
    /\ UNCHANGED <<notices, buffer, sent, client, got, owed, faults>>

\* The handler sleeps: the task neither receives nor ticks.
ReconnectFails ==
    /\ link = "down" /\ inbox = <<>> /\ faults < MaxFaults
    /\ link' = "asleep" /\ faults' = faults + 1
    /\ UNCHANGED <<notices, inbox, buffer, sent, client, got, owed, lost>>

Wake ==
    /\ link = "asleep" /\ link' = "down"
    /\ UNCHANGED <<notices, inbox, buffer, sent, client, got, owed, lost, faults>>

-----------------------------------------------------------------------------
(* A client's stream.                                                       *)

Subscribe(c) ==
    /\ ~client[c].open /\ client[c].next = 0
    /\ client' = [client EXCEPT ![c] = [open |-> TRUE, next |-> Len(sent) + 1, lag |-> 0]]
    /\ UNCHANGED <<listener, got, owed, lost, faults>>

Oldest == IF Len(sent) > Capacity THEN Len(sent) - Capacity + 1 ELSE 1

Give(c) ==
    /\ client[c].open /\ client[c].next \in Oldest..Len(sent)
    /\ client' = [client EXCEPT ![c].next = @ + 1, ![c].lag = 0]
    /\ got' = [got EXCEPT ![c] = Append(@, client[c].next)]
    /\ UNCHANGED <<listener, owed, lost, faults>>

\* What the broadcast has overwritten is skipped, or ends the stream.
Lagged(c) ==
    /\ client[c].open /\ client[c].next < Oldest
    /\ LET lag == client[c].lag + Oldest - client[c].next
       IN client' = [client EXCEPT ![c] = [open |-> lag <= MaxLag, next |-> Oldest, lag |-> lag]]
    /\ UNCHANGED <<listener, got, owed, lost, faults>>

Leave(c) ==
    /\ client[c].open
    /\ client' = [client EXCEPT ![c].open = FALSE]
    /\ UNCHANGED <<listener, got, owed, lost, faults>>

Next ==
    \/ \E s \in Swaps : Insert(s) \/ Update(s)
    \/ Receive \/ Tick \/ Cut \/ Reconnect \/ ReconnectFails \/ Wake
    \/ \E c \in Clients : Subscribe(c) \/ Give(c) \/ Lagged(c) \/ Leave(c)

Spec == Init /\ [][Next]_vars

-----------------------------------------------------------------------------

Ahead(c) == {sent[i].swap : i \in client[c].next..Len(sent)}
Given(c) == {sent[got[c][i]].swap : i \in DOMAIN got[c]}

\* Swaps that a client lagged behind.
Skipped(c) == {sent[i].swap : i \in (1..(client[c].next - 1)) \ Range(got[c])}

\* The buffer holds one swap of a transaction, so a later notification of
\* another takes its place.
Displaced ==
    {s \in Swaps : \E i, j \in DOMAIN notices :
        i < j /\ notices[i].swap = s /\ notices[j].swap # s /\ TxOf[notices[j].swap] = TxOf[s]}

\* A swap committed while a client is open is on its way to it, was given to
\* it, was skipped, or was lost with a connection; or a later swap of its
\* transaction displaced it.
SwapsReach ==
    \A c \in Clients : client[c].open =>
        owed[c] \subseteq Range(buffer) \cup {n.swap : n \in Range(inbox)}
                          \cup Ahead(c) \cup Given(c) \cup Skipped(c) \cup lost \cup Displaced

\* A swap is sent at most twice, and enriched the second time.
NewestLast ==
    \A i, j \in DOMAIN sent : i < j /\ sent[i].swap = sent[j].swap =>
        sent[i].op = "INSERT" /\ sent[j].op = "UPDATE"

\* Between two swaps that it was given, a client has missed no more than MaxLag.
GapsAreBounded ==
    \A c \in Clients : \A i \in 2..Len(got[c]) : got[c][i] - got[c][i - 1] <= MaxLag + 1
=============================================================================
