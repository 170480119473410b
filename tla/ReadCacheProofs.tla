--------------------------- MODULE ReadCacheProofs ---------------------------
(***************************************************************************)
(* Proofs about ReadCache for any number of clients, reads and commits and  *)
(* without a bound on the faults that matters: what a lookup is given is    *)
(* never older than a commit already announced, and what it lacks is on its *)
(* way.                                                                     *)
(***************************************************************************)
EXTENDS ReadCache, ListenerProofs

\* What is settled is committed, and what can be answered is not older. With
\* the types this is inductive: a read started before an announcement may end
\* after it, but is no longer registered.
AnswersOK ==
    /\ settled <= db
    /\ cached # Nil => cached >= settled
    /\ \A r \in Reads : fetch[r] = "read" => (value[r] >= settled \/ inflight # r)

IInv == ReadConstants /\ CacheTypeOK /\ InboxOK /\ AnswersOK

\* The first state is typed and answers nothing.
LEMMA InitOK == ASSUME ReadConstants PROVE CacheInit => IInv
BY ListenerInitOK, ListenerAssumption
   DEF CacheInit, ListenerInit, IInv, CacheTypeOK, AnswersOK, ListenerOK, Values

\* The steps of the reads alone keep the invariant.
LEMMA ReadStep ==
    ASSUME IInv, NEW r \in Reads, Miss(r) \/ Read(r) \/ Resolves(r) \/ Unstored(r) \/ Expires
    PROVE  IInv'
<1>1. UNCHANGED listenerVars
  BY DEF Miss, Read, Resolves, Unstored, Expires
<1>2. ListenerOK'
  BY <1>1, ListenerStutterOK DEF IInv, CacheTypeOK, ListenerOK
<1>3. db' = db /\ settled' = settled /\ db \in Nat /\ db \in Values /\ settled \in Nat
  BY <1>1, ListenerAssumption
     DEF listenerVars, Miss, Read, Resolves, Unstored, Expires, IInv, CacheTypeOK, ListenerTypeOK, Values
<1>4. /\ cached \in Values \cup {Nil} /\ Nil \notin Reads \cup Nat
      /\ fetch \in [Reads -> {"idle", "reading", "read"}] /\ value \in [Reads -> Values]
      /\ inflight \in Reads \cup {Nil} /\ (inflight # Nil => fetch[inflight] # "idle")
      /\ 0 \in Values /\ Values \subseteq Nat
  BY ListenerAssumption DEF IInv, ReadConstants, CacheTypeOK, Values
<1>5. AnswersOK
  BY DEF IInv
<1>6. CASE Miss(r)
  BY <1>2, <1>3, <1>4, <1>5, <1>6 DEF Miss, IInv, CacheTypeOK, AnswersOK, ListenerOK
<1>7. CASE Read(r)
  BY <1>2, <1>3, <1>4, <1>5, <1>7 DEF Read, IInv, CacheTypeOK, AnswersOK, ListenerOK
<1>8. CASE Resolves(r)
  BY <1>2, <1>3, <1>4, <1>5, <1>8
     DEF Resolves, MayStore, Idle, Unregistered, IInv, CacheTypeOK, AnswersOK, ListenerOK
<1>9. CASE Unstored(r)
  BY <1>2, <1>3, <1>4, <1>5, <1>9
     DEF Unstored, Idle, Unregistered, IInv, CacheTypeOK, AnswersOK, ListenerOK
<1>10. CASE Expires
  BY <1>2, <1>3, <1>4, <1>5, <1>10 DEF Expires, IInv, CacheTypeOK, AnswersOK, ListenerOK
<1> QED
  BY <1>6, <1>7, <1>8, <1>9, <1>10

\* An invalidation up to a committed n that is not below settled keeps it: no
\* answer is left.
LEMMA InvalidateStep ==
    ASSUME IInv, ListenerOK', db' = db, NEW n \in 0..db, n >= settled, Invalidate(n)
    PROVE  IInv'
<1>1. n \in Values /\ n \in Nat
  BY ListenerAssumption DEF IInv, CacheTypeOK, ListenerTypeOK, Values
<1>2. \A r \in Reads : inflight' # r
  BY DEF Invalidate, Detached, IInv, ReadConstants
<1>3. CacheTypeOK'
  BY <1>1 DEF Invalidate, Detached, IInv, CacheTypeOK, ListenerOK
<1>4. AnswersOK'
  BY <1>1, <1>2 DEF Invalidate, AnswersOK
<1> QED
  BY <1>3, <1>4 DEF IInv, ListenerOK

\* A step of the listener that reaches no cache keeps it.
LEMMA BesideStep ==
    ASSUME IInv, ListenerOK', db' \in Nat, db' >= db, UNCHANGED cacheVars
    PROVE  IInv'
<1>1. db \in Nat /\ settled \in Nat
  BY ListenerAssumption DEF IInv, CacheTypeOK, ListenerTypeOK, Values
<1> QED
  BY <1>1 DEF IInv, CacheTypeOK, AnswersOK, cacheVars, ListenerOK

\* Every step keeps the invariant.
LEMMA NextOK == IInv /\ [CacheNext]_lookupVars => IInv'
<1> SUFFICES ASSUME IInv, [CacheNext]_lookupVars PROVE IInv'
  OBVIOUS
<1>0. ListenerOK /\ db \in Nat /\ settled \in 0..db
  BY ListenerAssumption DEF IInv, CacheTypeOK, ListenerOK, ListenerTypeOK, AnswersOK, Values
<1>1. CASE \E r \in Reads : Miss(r) \/ Read(r) \/ Resolves(r) \/ Unstored(r)
  BY <1>1, ReadStep
<1>2. CASE Expires
  <2>1. ListenerOK' /\ db' = db
    BY <1>0, <1>2, ListenerStutterOK DEF Expires, listenerVars
  <2>2. Nil \notin Nat
    BY DEF IInv, ReadConstants
  <2> QED
    BY <1>2, <2>1, <2>2 DEF Expires, IInv, CacheTypeOK, AnswersOK, ListenerOK
<1>3. ASSUME NEW c \in Clients, Notice(c) PROVE IInv'
  <2>1. ListenerStep /\ db' = db
    BY <1>3 DEF Notice, Notified, ListenerStep
  <2>2. ListenerOK'
    BY <1>0, <2>1, ListenerStepOK
  <2>3. inbox[c] # <<>> /\ inbox[c] \in Seq(Commits)
    BY <1>3 DEF Notice, Notified, IInv, CacheTypeOK, ListenerTypeOK
  <2>4. 1 \in DOMAIN inbox[c] /\ Head(inbox[c]) = inbox[c][1] /\ inbox[c][1] \in Commits
    BY <2>3
  <2>5. Head(inbox[c]) \in 0..db
    BY <1>0, <2>4, ListenerAssumption DEF ListenerOK, InboxOK, Commits
  <2> DEFINE n == IF Head(inbox[c]) > settled THEN Head(inbox[c]) ELSE settled
  <2>6. n \in 0..db /\ n >= settled
    BY <1>0, <2>5
  <2>7. Invalidate(n)
    BY <1>3 DEF Notice
  <2> HIDE DEF n
  <2> QED
    BY <2>1, <2>2, <2>6, <2>7, InvalidateStep
<1>4. ASSUME NEW c \in Clients, ListenerUp(c) PROVE IInv'
  <2>1. ListenerStep /\ db' = db
    BY <1>4 DEF ListenerUp, Connected, ListenerStep
  <2>2. ListenerOK'
    BY <1>0, <2>1, ListenerStepOK
  <2>3. Invalidate(db) /\ db \in 0..db /\ db >= settled
    BY <1>0, <1>4 DEF ListenerUp, Cleared
  <2> QED
    BY <2>1, <2>2, <2>3, InvalidateStep
<1>5. ASSUME NEW c \in Clients,
             \/ Quiet(c) \/ Unavailable(c) \/ Start(c) \/ ReconnectFires(c)
             \/ AcquireFails(c) \/ FailureSettles(c),
             UNCHANGED cacheVars
      PROVE  IInv'
  <2>1. ListenerStep
    BY <1>5 DEF ListenerStep, Quiet, Unavailable
  <2>2. db' = db
    BY <1>5 DEF Quiet, Unavailable, Start, ReconnectFires, AcquireFails, FailureSettles,
                Acquired, Listens, SessionDies, ListenFails, LostConnecting, Disconnects
  <2> QED
    BY <1>0, <1>5, <2>1, <2>2, ListenerStepOK, BesideStep
<1>6. CASE Commit /\ UNCHANGED cacheVars
  <2>1. ListenerStep /\ db' = db + 1
    BY <1>6 DEF ListenerStep, Commit
  <2> QED
    BY <1>0, <1>6, <2>1, ListenerStepOK, BesideStep
<1>7. CASE UNCHANGED lookupVars
  <2>1. UNCHANGED listenerVars /\ UNCHANGED cacheVars /\ db' = db
    BY <1>7 DEF lookupVars, listenerVars, cacheVars
  <2> QED
    BY <1>0, <2>1, ListenerStutterOK, BesideStep
<1> QED
  BY <1>1, <1>2, <1>3, <1>4, <1>5, <1>6, <1>7 DEF CacheNext

\* The variables of the cache and of the listener keep their types, whatever
\* the interleaving of reads, notices and reconnects.
THEOREM CacheTypeCorrect == ReadConstants => (CacheSpec => []CacheTypeOK)
<1> SUFFICES ASSUME ReadConstants PROVE CacheSpec => []CacheTypeOK
  OBVIOUS
<1>1. IInv => CacheTypeOK
  BY DEF IInv
<1> QED
  BY InitOK, NextOK, <1>1, PTL DEF CacheSpec

\* getOrSet and deleteByPrefix: no lookup, hit or shared, is given a value
\* older than a notice handled before or than the last reconnect.
THEOREM NeverOlderHolds == ReadConstants => (CacheSpec => []NeverOlder)
<1> SUFFICES ASSUME ReadConstants PROVE CacheSpec => []NeverOlder
  OBVIOUS
<1>1. IInv => NeverOlder
  BY DEF IInv, ReadConstants, CacheTypeOK, AnswersOK, NeverOlder, Answers
<1> QED
  BY InitOK, NextOK, <1>1, PTL DEF CacheSpec

-----------------------------------------------------------------------------
(* Staleness is only delay.                                                 *)

\* A session past connect() has made the cache reflect every commit but those
\* its inbox still holds: connect() cleared at the commits of its time, and
\* each notice since was handled or is queued.
Heard == \A c \in Clients : client[c] = "on" => settled >= db - Len(inbox[c])

DelayInv == IInv /\ InboxIsSuffix /\ Heard

\* No session is past connect() at first.
LEMMA DelayInit == ASSUME ReadConstants PROVE CacheInit => DelayInv
<1> SUFFICES ASSUME CacheInit PROVE Heard
  BY InitOK, InboxInit DEF DelayInv, CacheInit
<1> QED
  BY DEF CacheInit, ListenerInit, Heard

\* A step that leaves the sessions past connect() and their inboxes alone.
LEMMA HeardKept ==
    ASSUME Heard, settled' = settled, db' = db,
           \A c \in Clients : client'[c] = "on" =>
               client[c] = "on" /\ inbox'[c] = inbox[c]
    PROVE  Heard'
BY DEF Heard

\* Every step keeps it: a commit lengthens each such inbox by one, a notice
\* takes from it the next commit and settles it.
LEMMA DelayStep == DelayInv /\ [CacheNext]_lookupVars => DelayInv'
<1> SUFFICES ASSUME DelayInv, [CacheNext]_lookupVars PROVE InboxIsSuffix' /\ Heard'
  BY NextOK DEF DelayInv
<1>0. /\ db \in Nat /\ settled \in Nat /\ IInv /\ ListenerTypeOK /\ InboxIsSuffix /\ Heard
      /\ inbox \in [Clients -> Seq(Commits)] /\ client \in [Clients -> ClientStates]
  BY ListenerAssumption
     DEF DelayInv, IInv, CacheTypeOK, ListenerOK, ListenerTypeOK, AnswersOK, Values
<1>1. ASSUME UNCHANGED listenerVars, settled' = settled PROVE InboxIsSuffix' /\ Heard'
  BY <1>0, <1>1, InboxStutter, HeardKept DEF listenerVars
<1>2. CASE \E r \in Reads : Miss(r) \/ Read(r) \/ Resolves(r) \/ Unstored(r)
  BY <1>1, <1>2 DEF Miss, Read, Resolves, Unstored
<1>3. CASE Expires
  BY <1>1, <1>3 DEF Expires
<1>4. ASSUME NEW c \in Clients, Notice(c) PROVE InboxIsSuffix' /\ Heard'
  <2>1. ListenerStep
    BY <1>4 DEF Notice, ListenerStep
  <2>2. /\ db' = db /\ client' = client /\ inbox[c] # <<>>
        /\ inbox' = [inbox EXCEPT ![c] = Tail(inbox[c])]
        /\ settled' = IF Head(inbox[c]) > settled THEN Head(inbox[c]) ELSE settled
    BY <1>4 DEF Notice, Notified, Invalidate
  <2>3. inbox[c] \in Seq(Commits)
    BY <1>0
  <2>4. /\ Len(inbox[c]) \in Nat /\ Len(Tail(inbox[c])) = Len(inbox[c]) - 1
        /\ 1 \in DOMAIN inbox[c] /\ Head(inbox[c]) = inbox[c][1]
    BY <2>2, <2>3
  <2>5. Head(inbox[c]) = db - Len(inbox[c]) + 1
    BY <1>0, <2>4 DEF InboxIsSuffix
  <2>6. settled' >= settled /\ settled' >= db - Len(Tail(inbox[c])) /\ settled' \in Int
    BY <1>0, <2>2, <2>4, <2>5
  <2>7. Heard'
    <3> SUFFICES ASSUME NEW d \in Clients, client[d] = "on"
                 PROVE  settled' >= db - Len(inbox'[d])
      BY <2>2 DEF Heard
    <3>1. CASE d = c
      BY <1>0, <2>2, <2>6, <3>1
    <3>2. CASE d # c
      <4>1. inbox'[d] = inbox[d] /\ Len(inbox[d]) \in Nat /\ settled >= db - Len(inbox[d])
        BY <1>0, <2>2, <3>2 DEF Heard
      <4> QED BY <1>0, <2>6, <4>1
    <3> QED BY <3>1, <3>2
  <2> QED BY <1>0, <2>1, <2>7, InboxStep
<1>5. ASSUME NEW c \in Clients, ListenerUp(c) PROVE InboxIsSuffix' /\ Heard'
  <2>1. ListenerStep
    BY <1>5 DEF ListenerUp, ListenerStep
  <2>2. db' = db /\ settled' = db /\ inbox' = inbox
    BY <1>5 DEF ListenerUp, Connected, Cleared, Invalidate
  <2>3. \A d \in Clients : Len(inbox[d]) \in Nat
    BY <1>0
  <2> QED BY <1>0, <2>1, <2>2, <2>3, InboxStep DEF Heard
<1>6. ASSUME NEW c \in Clients,
             \/ Quiet(c) \/ Unavailable(c) \/ Start(c) \/ ReconnectFires(c)
             \/ AcquireFails(c) \/ FailureSettles(c),
             UNCHANGED cacheVars
      PROVE  InboxIsSuffix' /\ Heard'
  <2>1. ListenerStep
    BY <1>6 DEF ListenerStep, Quiet, Unavailable
  <2>2. db' = db /\ settled' = settled
    BY <1>6 DEF Quiet, Unavailable, Start, ReconnectFires, AcquireFails, FailureSettles,
                Acquired, Listens, SessionDies, ListenFails, LostConnecting, Disconnects,
                cacheVars
  <2>3. \A d \in Clients : client'[d] = "on" => client[d] = "on" /\ inbox'[d] = inbox[d]
    BY <1>0, <1>6 DEF Quiet, Unavailable, Start, ReconnectFires, AcquireFails, FailureSettles,
                Acquired, Listens, SessionDies, ListenFails, LostConnecting, Disconnects
  <2> QED BY <1>0, <2>1, <2>2, <2>3, InboxStep, HeardKept
<1>7. CASE Commit /\ UNCHANGED cacheVars
  <2>1. ListenerStep /\ db' = db + 1 /\ settled' = settled /\ client' = client
    BY <1>7 DEF ListenerStep, Commit, cacheVars
  <2>2. \A d \in Clients : client[d] = "on" =>
            inbox[d] \in Seq(Commits) /\ inbox'[d] = Append(inbox[d], db')
    BY <1>0, <1>7 DEF Commit, Live
  <2>3. \A d \in Clients : client[d] = "on" =>
            Len(inbox'[d]) = Len(inbox[d]) + 1 /\ Len(inbox[d]) \in Nat
    BY <2>2
  <2>4. Heard'
    BY <1>0, <2>1, <2>3 DEF Heard
  <2> QED BY <1>0, <2>1, <2>4, InboxStep
<1>8. CASE UNCHANGED lookupVars
  BY <1>1, <1>8 DEF lookupVars, cacheVars
<1> QED
  BY <1>2, <1>3, <1>4, <1>5, <1>6, <1>7, <1>8 DEF CacheNext

\* What an answer lacks is in the inbox of the session that `connection` names.
LEMMA Delayed == DelayInv => StaleIsOnItsWay
<1> SUFFICES ASSUME DelayInv, Ready, client[connection] = "on",
                    NEW v \in Answers, NEW n \in (v + 1)..db
             PROVE  \E c \in Live : Contains(inbox[c], n)
  BY DEF StaleIsOnItsWay
<1> DEFINE box == inbox[connection]
           i == n - (db - Len(box))
<1>1. /\ connection \in Clients /\ connection \in Live /\ box \in Seq(Commits)
      /\ db \in Nat /\ settled \in Nat
  BY ListenerAssumption
     DEF DelayInv, IInv, CacheTypeOK, ListenerTypeOK, Ready, Live, Values
<1>2. v >= settled /\ v \in Nat
  BY ListenerAssumption DEF DelayInv, IInv, ReadConstants, CacheTypeOK, AnswersOK, Answers, Values
<1>3. settled >= db - Len(box) /\ Len(box) <= db /\ Len(box) \in Nat
  BY <1>1 DEF DelayInv, Heard, InboxIsSuffix
<1>4. i \in 1..Len(box)
  BY <1>1, <1>2, <1>3
<1>5. box[i] = n
  BY <1>1, <1>3, <1>4 DEF DelayInv, InboxIsSuffix
<1> HIDE DEF i
<1>6. Contains(box, n)
  BY <1>4, <1>5 DEF Contains
<1> QED BY <1>1, <1>6

\* simpleCache and the listener together: while the connection that is named
\* stands, a commit that an answer does not reflect is in the inbox of a live
\* session, however reads, commits, deaths and second sessions interleave.
THEOREM StaleIsOnlyDelayed == ReadConstants => (CacheSpec => []StaleIsOnItsWay)
<1> SUFFICES ASSUME ReadConstants PROVE CacheSpec => []StaleIsOnItsWay
  OBVIOUS
<1> QED
  BY DelayInit, DelayStep, Delayed, PTL DEF CacheSpec
=============================================================================
