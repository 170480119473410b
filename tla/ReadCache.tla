------------------------------ MODULE ReadCache ------------------------------
(***************************************************************************)
(* One key of SimpleCache under the invalidation listener: what getOrSet    *)
(* shares and stores while commits, their notices and the listener's        *)
(* reconnects run beside the reads. A value is the number of commits the    *)
(* database held when the fetcher read it.                                  *)
(***************************************************************************)
EXTENDS InvalidationListener

CONSTANT Reads  \* fetches that may run at a time

VARIABLES
    cached,    \* the entry's value, or Nil
    fetch,     \* [Reads -> "idle", "reading", "read"]
    value,     \* [Reads -> what it has read]
    inflight,  \* the fetch whose promise is registered, or Nil
    settled    \* history: the last commit a lookup must reflect

cacheVars == <<cached, fetch, value, inflight, settled>>
lookupVars == <<listenerVars, cacheVars>>

Values == 0..Len(SlotOf)

CacheTypeOK ==
    /\ ListenerTypeOK
    /\ cached \in Values \cup {Nil}
    /\ fetch \in [Reads -> {"idle", "reading", "read"}]
    /\ value \in [Reads -> Values]
    /\ inflight \in Reads \cup {Nil}
    /\ settled \in Values
    /\ inflight # Nil => fetch[inflight] # "idle"

ReadConstants == Nil \notin Reads \cup Nat

-----------------------------------------------------------------------------

CacheInit ==
    /\ ListenerInit
    /\ cached = Nil
    /\ fetch = [r \in Reads |-> "idle"]
    /\ value = [r \in Reads |-> 0]
    /\ inflight = Nil
    /\ settled = 0

\* A miss with nothing to share: the fetcher starts and its promise is
\* registered. A hit or a shared promise changes nothing.
Miss(r) ==
    /\ cached = Nil /\ inflight = Nil
    /\ fetch[r] = "idle"
    /\ fetch' = [fetch EXCEPT ![r] = "reading"]
    /\ inflight' = r
    /\ UNCHANGED <<listenerVars, cached, value, settled>>

\* The fetcher's query sees the commits so far.
Read(r) ==
    /\ fetch[r] = "reading"
    /\ fetch' = [fetch EXCEPT ![r] = "read"]
    /\ value' = [value EXCEPT ![r] = db]
    /\ UNCHANGED <<listenerVars, cached, inflight, settled>>

\* Any answer is stored.
MayStore_any(r) == TRUE

\* Only the registered promise may store its answer.
MayStore(r) == inflight = r

\* The finally deletes the registration if it is still its own.
Unregistered(r) == IF inflight = r THEN Nil ELSE inflight

Idle(r) ==
    /\ fetch' = [fetch EXCEPT ![r] = "idle"]
    /\ value' = [value EXCEPT ![r] = 0]
    /\ inflight' = Unregistered(r)

\* The promise resolves within its time to live.
Resolves(r) ==
    /\ fetch[r] = "read"
    /\ cached' = IF MayStore(r) THEN value[r] ELSE cached
    /\ Idle(r)
    /\ UNCHANGED <<listenerVars, settled>>

\* It rejects, answers null or too late to be stored.
Unstored(r) ==
    /\ fetch[r] # "idle"
    /\ Idle(r)
    /\ UNCHANGED <<listenerVars, cached, settled>>

\* The entry's time to live ends, or evictOldest takes it.
Expires ==
    /\ cached # Nil
    /\ cached' = Nil
    /\ UNCHANGED <<listenerVars, fetch, value, inflight, settled>>

\* deleteByPrefix forgets the pending promise with the entry.
Detached == Nil

\* deleteByPrefix for commits up to n.
Invalidate(n) ==
    /\ cached' = Nil
    /\ inflight' = Detached
    /\ settled' = n
    /\ UNCHANGED <<fetch, value>>

\* A notice: everything up to its commit must be seen from here on. A second
\* session may bring it late.
Notice(c) ==
    /\ Notified(c)
    /\ Invalidate(IF Head(inbox[c]) > settled THEN Head(inbox[c]) ELSE settled)

\* A reconnect that trusts what is cached.
Cleared_not(n) == UNCHANGED cacheVars

\* "Notifications missed during downtime cannot be replayed."
Cleared(n) == Invalidate(n)

ListenerUp(c) == Connected(c) /\ Cleared(db)

CacheNext ==
    \/ \E r \in Reads : Miss(r) \/ Read(r) \/ Resolves(r) \/ Unstored(r)
    \/ Expires
    \/ \E c \in Clients :
           \/ Notice(c) \/ ListenerUp(c)
           \/ /\ \/ Quiet(c) \/ Unavailable(c)
                 \/ Start(c) \/ ReconnectFires(c) \/ AcquireFails(c) \/ FailureSettles(c)
              /\ UNCHANGED cacheVars
    \/ Commit /\ UNCHANGED cacheVars

CacheSpec == CacheInit /\ [][CacheNext]_lookupVars

-----------------------------------------------------------------------------
(* Properties.                                                              *)

\* The value a lookup would share or be given, in both its forms.
Answers == (IF cached = Nil THEN {} ELSE {cached})
           \cup (IF inflight # Nil /\ fetch[inflight] = "read" THEN {value[inflight]} ELSE {})

\* "An older response must never repopulate the cache after a committed database
\* notification": what a lookup is given, from the entry or from the promise it
\* shares, is never older than a notice already handled or a reconnect.
NeverOlder == \A v \in Answers : v >= settled

\* While the listener stands, staleness is only delay: a commit the entry does
\* not reflect is on its way to a handler, or the session is dead and its
\* reconnect will clear the entry. No read, however long it ran, outlives that.
StaleIsOnItsWay ==
    Ready /\ client[connection] = "on" =>
        \A v \in Answers : \A n \in (v + 1)..db : \E c \in Live : Contains(inbox[c], n)
=============================================================================
