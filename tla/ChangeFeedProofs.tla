--------------------------- MODULE ChangeFeedProofs ---------------------------
(***************************************************************************)
(* Proofs about ChangeFeed for any number of feeds, clients, commits and    *)
(* faults: types, no false health, nothing pending forgotten and no commit  *)
(* missed in silence.                                                       *)
(***************************************************************************)
EXTENDS ChangeFeed, ListenerProofs

\* The connection is a client past connect().
ConnectionOK == Ready => client[connection] \in {"on", "cut"}

\* Only an open feed has frames behind it, only a starting one waits.
HistoryOK ==
    \A f \in Feeds : /\ phase[f] # "open" => stale[f] = {}
                     /\ phase[f] # "starting" => waits[f] = Nil

\* The inductive invariant: the properties need each other, and these two.
IInv ==
    /\ TypeOK /\ InboxOK
    /\ ConnectionOK /\ HistoryOK
    /\ NoFalseHealth /\ NeverStuck /\ NothingMissed

FeedTypeOK ==
    /\ phase \in [Feeds -> {"closed", "starting", "observing", "open"}]
    /\ waits \in [Feeds -> Clients \cup {Nil}]
    /\ kind \in [Feeds -> Kinds \cup {Nil}]
    /\ slot \in [Feeds -> Slots]
    /\ timer \in [Feeds -> BOOLEAN]
    /\ taken \in [Feeds -> (Kinds \X Slots) \cup {Nil}]
    /\ stale \in [Feeds -> SUBSET (1..db)]

\* TypeOK and InboxOK, cut along the listener.
LEMMA TypeSplit == (TypeOK /\ InboxOK) <=> (ListenerOK /\ FeedTypeOK)
BY DEF TypeOK, ListenerOK, FeedTypeOK

\* Slots are numbers, 0 among them.
LEMMA SlotNumbers == 0 \in Slots /\ Slots \subseteq Nat /\ \A n \in Commits : SlotOf[n] \in Slots
BY ListenerAssumption DEF Slots, Commits

\* The constants of the kinds.
LEMMA KindNames ==
    /\ "change" \in Kinds /\ "resync" \in Kinds /\ "heartbeat" \in Kinds
BY DEF Kinds

\* The steps of the listener keep ConnectionOK.
LEMMA ConnectionStep ==
    ASSUME ListenerOK, ConnectionOK, ListenerStep
    PROVE  ConnectionOK'
<1>1. client \in [Clients -> ClientStates] /\ connection \in Clients \cup {Nil}
      /\ Nil \notin Clients
  BY ListenerAssumption DEF ListenerOK, ListenerTypeOK
<1>2. CASE Commit
  BY <1>1, <1>2 DEF Commit, ConnectionOK, Ready
<1>3. ASSUME NEW c \in Clients,
             \/ Start(c) \/ ReconnectFires(c) \/ Acquired(c) \/ Listens(c) \/ Connected(c)
             \/ AcquireFails(c) \/ ListenFails(c) \/ LostConnecting(c) \/ FailureSettles(c)
             \/ SessionDies(c) \/ Disconnects(c) \/ Notified(c)
      PROVE  ConnectionOK'
  BY <1>1, <1>3 DEF Start, ReconnectFires, Acquired, Listens, Connected, AcquireFails,
                    ListenFails, LostConnecting, FailureSettles, SessionDies, Disconnects,
                    Notified, ConnectionOK, Ready
<1> QED
  BY <1>2, <1>3 DEF ListenerStep

\* Closing feeds keeps the feeds' types and leaves nothing in a closed one.
LEMMA ClosingFeeds ==
    ASSUME FeedTypeOK, HistoryOK, NeverStuck, NEW C, CloseAll(C), db' = db
    PROVE  /\ FeedTypeOK' /\ HistoryOK' /\ NeverStuck'
           /\ \A f \in Feeds : phase'[f] = "open" =>
                  /\ phase[f] = "open" /\ f \notin C
                  /\ kind'[f] = kind[f] /\ slot'[f] = slot[f]
                  /\ taken'[f] = taken[f] /\ stale'[f] = stale[f]
<1>1. FeedTypeOK'
  BY SlotNumbers DEF CloseAll, FeedTypeOK
<1>2. HistoryOK'
  BY DEF CloseAll, HistoryOK, FeedTypeOK
<1>3. \A f \in Feeds : phase'[f] = "open" =>
          /\ phase[f] = "open" /\ f \notin C
          /\ kind'[f] = kind[f] /\ slot'[f] = slot[f] /\ timer'[f] = timer[f]
          /\ taken'[f] = taken[f] /\ stale'[f] = stale[f]
  BY DEF CloseAll, FeedTypeOK
<1>4. NeverStuck'
  BY <1>3 DEF NeverStuck
<1> QED
  BY <1>1, <1>2, <1>3, <1>4

\* schedule() on some feeds: the types hold, what covered a commit still does,
\* and a change or a resync now covers what it is about.
LEMMA HearingFeeds ==
    ASSUME FeedTypeOK, NeverStuck, NEW H \in SUBSET Feeds, NEW k \in Kinds, NEW s \in Slots,
           Hear(H, k, s), db' = db, phase' \in [Feeds -> {"closed", "starting", "observing", "open"}],
           waits' \in [Feeds -> Clients \cup {Nil}],
           \A f \in Feeds : phase'[f] = "open" <=> phase[f] = "open"
    PROVE  /\ FeedTypeOK' /\ NeverStuck'
           /\ stale' = stale /\ taken' = taken
           /\ \A f \in Feeds, n \in Commits :
                  Covers(kind[f], slot[f], n) => Covers(kind'[f], slot'[f], n)
           /\ \A f \in H, n \in Commits :
                  k # "heartbeat" /\ s >= SlotOf[n] => Covers(kind'[f], slot'[f], n)
<1>1. \A f \in Feeds : kind[f] \in Kinds \cup {Nil} /\ slot[f] \in Slots /\ slot[f] \in Nat
  BY SlotNumbers DEF FeedTypeOK
<1>2. s \in Nat /\ \A n \in Commits : SlotOf[n] \in Nat
  BY SlotNumbers
<1>3. \A f \in Feeds : /\ kind'[f] = IF f \in H THEN Merged(f, k) ELSE kind[f]
                       /\ slot'[f] = IF f \in H THEN MaxSlot(f, s) ELSE slot[f]
                       /\ timer'[f] = (timer[f] \/ (f \in H /\ TimerDue(f)))
  BY DEF Hear
<1>4. \A f \in Feeds : Merged(f, k) \in Kinds \cup {Nil} /\ MaxSlot(f, s) \in Slots
  BY <1>1 DEF Merged, MaxSlot
<1>5. kind' \in [Feeds -> Kinds \cup {Nil}] /\ slot' \in [Feeds -> Slots]
  BY <1>1, <1>4 DEF Hear
<1>6. timer' \in [Feeds -> BOOLEAN]
  BY DEF Hear
<1>7. FeedTypeOK'
  BY <1>5, <1>6 DEF Hear, FeedTypeOK
<1>8. NeverStuck'
  BY <1>3 DEF NeverStuck, TimerDue, Hear
<1>9. \A f \in Feeds, n \in Commits :
          Covers(kind[f], slot[f], n) => Covers(kind'[f], slot'[f], n)
  BY <1>1, <1>2, <1>3, FeedAssumption DEF Covers, Merged, MaxSlot, Kinds
<1>10. \A f \in H, n \in Commits :
           k # "heartbeat" /\ s >= SlotOf[n] => Covers(kind'[f], slot'[f], n)
  BY <1>1, <1>2, <1>3 DEF Covers, Merged, MaxSlot, Kinds
<1> QED
  BY <1>7, <1>8, <1>9, <1>10 DEF Hear

\* A commit's notice is safe: with a session, or a dead session is about to say so.
Carried(n) == \/ \E c \in Live : Contains(inbox[c], n)
              \/ \E c \in Clients : client[c] = "cut"

\* What the feed itself holds for a commit.
Held(f, n) == \/ Covers(kind[f], slot[f], n)
              \/ taken[f] # Nil /\ Covers(taken[f][1], taken[f][2], n)

\* NothingMissed, by those names.
LEMMA NothingMissedSplit ==
    NothingMissed <=> \A f \in Feeds : phase[f] = "open" =>
                          \A n \in stale[f] : Carried(n) \/ Held(f, n)
BY DEF NothingMissed, Carried, Held

\* A step of the listener beside its notices that loses no session keeps what
\* is carried.
LEMMA CarriedStep ==
    ASSUME ListenerOK, NEW n, Carried(n),
           NEW c \in Clients,
           \/ Start(c) \/ ReconnectFires(c) \/ Acquired(c) \/ Listens(c) \/ Connected(c)
           \/ AcquireFails(c) \/ FailureSettles(c) \/ SessionDies(c)
    PROVE  Carried(n)'
<1>1. client \in [Clients -> ClientStates] /\ inbox \in [Clients -> Seq(Commits)]
  BY DEF ListenerOK, ListenerTypeOK
<1>2. CASE SessionDies(c)
  BY <1>1, <1>2 DEF SessionDies, Carried
<1>3. CASE ~SessionDies(c)
  <2>1. inbox' = inbox
    BY <1>3 DEF Start, ReconnectFires, Acquired, Listens, Connected, AcquireFails, FailureSettles
  <2>2. client[c] \in {"free", "acquiring", "listening", "listened", "failed"}
    BY <1>3 DEF Start, ReconnectFires, Acquired, Listens, Connected, AcquireFails, FailureSettles
  <2>3. \A d \in Clients : d # c => client'[d] = client[d]
    BY <1>1, <1>3 DEF Start, ReconnectFires, Acquired, Listens, Connected, AcquireFails, FailureSettles
  <2>4. client[c] = "listened" => client'[c] = "on"
    BY <1>1, <1>3 DEF Start, ReconnectFires, Acquired, Listens, Connected, AcquireFails, FailureSettles
  <2>5. \A d \in Live : d \in Live'
    BY <2>2, <2>3, <2>4 DEF Live
  <2>6. \A d \in Clients : client[d] = "cut" => client'[d] = "cut"
    BY <2>2, <2>3
  <2> QED
    BY <2>1, <2>5, <2>6 DEF Carried
<1> QED
  BY <1>2, <1>3

\* A commit is carried from the moment it is made, if there is a connection.
LEMMA CommitCarried ==
    ASSUME ListenerOK, ConnectionOK, Ready, Commit, NEW m, m = db'
    PROVE  /\ Carried(m)'
           /\ \A n \in 1..db : Carried(n) => Carried(n)'
<1>1. /\ client \in [Clients -> ClientStates] /\ inbox \in [Clients -> Seq(Commits)]
      /\ connection \in Clients /\ client[connection] \in {"on", "cut"}
      /\ client' = client /\ Live' = Live
  BY DEF ListenerOK, ListenerTypeOK, ConnectionOK, Ready, Commit, Live
<1>2. \A c \in Live : c \in Clients /\ inbox[c] \in Seq(Commits)
                       /\ inbox'[c] = Append(inbox[c], db')
  BY <1>1 DEF Commit, Live
<1>3. db' \in Commits
  BY ListenerAssumption DEF Commit, ListenerOK, ListenerTypeOK, Commits
<1>4. \A c \in Live : /\ Contains(inbox'[c], m)
                       /\ \A n \in 1..db : Contains(inbox[c], n) => Contains(inbox'[c], n)
  BY <1>2, <1>3 DEF Contains
<1>5. CASE connection \in Live
  BY <1>1, <1>4, <1>5 DEF Carried
<1>6. CASE client[connection] = "cut"
  BY <1>1, <1>4, <1>6 DEF Carried
<1> QED
  BY <1>1, <1>5, <1>6 DEF Live

\* Handling a notice takes that commit alone out of what is carried.
LEMMA NoticeCarried ==
    ASSUME ListenerOK, NEW c \in Clients, Notified(c), NEW n, Carried(n)
    PROVE  Carried(n)' \/ n = Head(inbox[c])
<1>1. /\ inbox \in [Clients -> Seq(Commits)] /\ inbox[c] \in Seq(Commits) /\ inbox[c] # <<>>
      /\ inbox' = [inbox EXCEPT ![c] = Tail(inbox[c])] /\ client' = client /\ Live' = Live
  BY DEF ListenerOK, ListenerTypeOK, Notified, Live
<1>2. Contains(inbox[c], n) => n = Head(inbox[c]) \/ Contains(Tail(inbox[c]), n)
  <2> SUFFICES ASSUME NEW i \in 1..Len(inbox[c]), inbox[c][i] = n, i # 1
               PROVE  Contains(Tail(inbox[c]), n)
    BY <1>1 DEF Contains
  <2>1. i - 1 \in 1..Len(Tail(inbox[c])) /\ Tail(inbox[c])[i - 1] = n
    BY <1>1
  <2> QED
    BY <2>1 DEF Contains
<1>3. \A d \in Clients : d # c => inbox'[d] = inbox[d]
  BY <1>1
<1>4. inbox'[c] = Tail(inbox[c])
  BY <1>1
<1> QED
  BY <1>1, <1>2, <1>3, <1>4 DEF Carried, Live

\* A fresh process holds the invariant: no feed is open.
LEMMA InitOK == Init => IInv
<1> SUFFICES ASSUME Init PROVE IInv
  OBVIOUS
<1>1. ListenerOK
  BY ListenerInitOK DEF Init
<1>2. FeedTypeOK
  BY SlotNumbers DEF Init, FeedTypeOK
<1>3. TypeOK /\ InboxOK
  BY <1>1, <1>2, TypeSplit
<1>4. ConnectionOK
  BY DEF Init, ListenerInit, ConnectionOK, Ready
<1>5. HistoryOK /\ NoFalseHealth /\ NeverStuck /\ NothingMissed
  BY DEF Init, HistoryOK, NoFalseHealth, NeverStuck, NothingMissed
<1> QED
  BY <1>3, <1>4, <1>5 DEF IInv

\* What a step that leaves the listener alone has to keep.
LEMMA FeedSide ==
    ASSUME IInv, UNCHANGED listenerVars, FeedTypeOK', HistoryOK', NeverStuck',
           \A f \in Feeds : phase'[f] = "open" => Ready,
           \A f \in Feeds : phase'[f] = "open" =>
               \A n \in stale'[f] :
                   \/ phase[f] = "open" /\ n \in stale[f] /\ ~Held(f, n)
                   \/ Held(f, n)'
    PROVE  IInv'
<1>1. ListenerOK' /\ ConnectionOK'
  BY ListenerStutterOK, TypeSplit DEF IInv, listenerVars, ConnectionOK, Ready
<1>2. NoFalseHealth'
  BY DEF NoFalseHealth, Ready, listenerVars
<1>3. \A n : Carried(n) => Carried(n)'
  BY DEF Carried, Live, listenerVars
<1>4. NothingMissed'
  BY <1>3, NothingMissedSplit DEF IInv, NothingMissed, Carried, Held
<1>5. (TypeOK /\ InboxOK)'
  BY <1>1 DEF TypeOK, ListenerOK, FeedTypeOK
<1> QED
  BY <1>1, <1>2, <1>4, <1>5 DEF IInv

\* close() of any feeds, by themselves.
LEMMA CloseStep == ASSUME IInv, NEW C, CloseAll(C), UNCHANGED listenerVars PROVE IInv'
<1>1. FeedTypeOK /\ HistoryOK /\ NeverStuck /\ NoFalseHealth /\ db' = db
  BY TypeSplit DEF IInv, listenerVars
<1> QED
  BY <1>1, ClosingFeeds, FeedSide DEF NoFalseHealth, Held

\* The steps of one feed that leave the listener alone.
LEMMA FeedStep ==
    ASSUME IInv, NEW f \in Feeds, UNCHANGED listenerVars,
           \/ Open(f) \/ Initialized(f) \/ NotInitialized(f) \/ Heartbeat(f)
           \/ Send(f) \/ Write(f) \/ ObservationFails(f) \/ ReaderGone(f)
    PROVE  IInv'
<1>1. /\ FeedTypeOK /\ HistoryOK /\ NeverStuck /\ NoFalseHealth /\ db' = db
      /\ starting \in Clients \cup {Nil}
  BY TypeSplit DEF IInv, listenerVars, ListenerOK, ListenerTypeOK
<1>2. CASE Open(f)
  <2>1. /\ UNCHANGED <<kind, slot, timer, taken, stale>>
        /\ phase[f] = "closed"
        /\ \A g \in Feeds : g # f => phase'[g] = phase[g]
        /\ phase'[f] \in {"starting", "observing"}
        /\ phase' = [phase EXCEPT ![f] = phase'[f]]
        /\ waits' \in [Feeds -> Clients \cup {Nil}]
        /\ \A g \in Feeds : g # f => waits'[g] = waits[g]
        /\ phase'[f] = "observing" => waits'[f] = waits[f]
    BY <1>1, <1>2 DEF Open, FeedTypeOK
  <2>2. FeedTypeOK'
    BY <1>1, <2>1 DEF FeedTypeOK
  <2>3. HistoryOK' /\ NeverStuck' /\ \A g \in Feeds : phase'[g] = "open" => Ready
    BY <1>1, <2>1 DEF HistoryOK, NeverStuck, NoFalseHealth
  <2> QED
    BY <2>1, <2>2, <2>3, FeedSide DEF Held
<1>3. CASE Initialized(f)
  <2>1. FeedTypeOK'
    BY <1>1, <1>3 DEF Initialized, FeedTypeOK
  <2>2. HistoryOK' /\ stale[f] = {}
    BY <1>1, <1>3 DEF Initialized, FeedTypeOK, HistoryOK
  <2>3. NeverStuck'
    BY <1>1, <1>3 DEF Initialized, FeedTypeOK, NeverStuck
  <2>4. \A g \in Feeds : phase'[g] = "open" => Ready
    BY <1>3 DEF Initialized, MayOpen
  <2>5. \A g \in Feeds : g # f => phase'[g] = phase[g]
    BY <1>1, <1>3 DEF Initialized, FeedTypeOK
  <2> QED
    BY <1>3, <2>1, <2>2, <2>3, <2>4, <2>5, FeedSide DEF Initialized, Held
<1>4. CASE NotInitialized(f) \/ ObservationFails(f) \/ ReaderGone(f)
  BY <1>4, CloseStep DEF NotInitialized, ObservationFails, ReaderGone, Close
<1>5. CASE Heartbeat(f)
  <2>1. Hear({f}, "heartbeat", 0) /\ phase' = phase /\ waits' = waits
    BY <1>5 DEF Heartbeat
  <2>2. /\ FeedTypeOK' /\ NeverStuck' /\ stale' = stale /\ taken' = taken
        /\ \A g \in Feeds, n \in Commits :
               Covers(kind[g], slot[g], n) => Covers(kind'[g], slot'[g], n)
    BY <1>1, <2>1, HearingFeeds, KindNames, SlotNumbers DEF FeedTypeOK
  <2>3. \A g \in Feeds : stale[g] \subseteq Commits
    BY <1>1, TypeSplit, ListenerAssumption
       DEF IInv, ListenerOK, ListenerTypeOK, FeedTypeOK, Commits
  <2>4. HistoryOK'
    BY <1>1, <2>1, <2>2 DEF HistoryOK
  <2> QED
    BY <1>1, <2>1, <2>2, <2>3, <2>4, FeedSide DEF NoFalseHealth, Held
<1>6. CASE Send(f)
  <2>1. /\ kind[f] \in Kinds /\ slot[f] \in Slots /\ taken[f] = Nil
        /\ taken' = [taken EXCEPT ![f] = <<kind[f], slot[f]>>]
        /\ UNCHANGED <<phase, waits, stale>>
    BY <1>1, <1>6 DEF Send, FeedTypeOK
  <2>2. FeedTypeOK'
    BY <1>1, <1>6, <2>1, SlotNumbers DEF Send, FeedTypeOK
  <2>3. /\ taken'[f] = <<kind[f], slot[f]>> /\ taken'[f] # Nil
        /\ \A g \in Feeds : g # f => /\ taken'[g] = taken[g] /\ kind'[g] = kind[g]
                                     /\ slot'[g] = slot[g] /\ timer'[g] = timer[g]
    BY <1>1, <1>6, <2>1, FeedAssumption DEF Send, FeedTypeOK
  <2>4. NeverStuck' /\ HistoryOK'
    BY <1>1, <2>1, <2>3 DEF NeverStuck, HistoryOK
  <2>5. \A g \in Feeds : \A n : Held(g, n) => Held(g, n)'
    BY <2>1, <2>3 DEF Held
  <2> QED
    BY <1>1, <2>1, <2>2, <2>4, <2>5, FeedSide DEF NoFalseHealth
<1>7. CASE Write(f)
  <2>1. /\ taken[f] \in Kinds \X Slots /\ taken[f] # Nil
        /\ taken' = [taken EXCEPT ![f] = Nil]
        /\ stale' = [stale EXCEPT ![f] = stale[f] \ Covered(taken[f][1], taken[f][2])]
        /\ timer' = [timer EXCEPT ![f] = kind[f] # Nil]
        /\ UNCHANGED <<phase, waits, kind, slot>>
    BY <1>1, <1>7 DEF Write, TimerAfter, FeedTypeOK
  <2>2. FeedTypeOK'
    BY <1>1, <2>1 DEF FeedTypeOK
  <2>3. /\ taken'[f] = Nil /\ timer'[f] = (kind[f] # Nil)
        /\ stale'[f] = stale[f] \ Covered(taken[f][1], taken[f][2])
        /\ \A g \in Feeds : g # f => /\ taken'[g] = taken[g] /\ timer'[g] = timer[g]
                                     /\ stale'[g] = stale[g]
    BY <1>1, <2>1 DEF FeedTypeOK
  <2>4. NeverStuck' /\ HistoryOK'
    BY <1>1, <2>1, <2>3 DEF NeverStuck, HistoryOK
  <2>5. \A n \in stale'[f] : ~Covers(taken[f][1], taken[f][2], n)
    <3>1. taken[f][2] \in Nat /\ stale[f] \subseteq 1..db
      BY <1>1, <2>1, SlotNumbers DEF FeedTypeOK
    <3>2. \A n \in stale[f] : SlotOf[n] \in Nat
      BY <3>1, TypeSplit, ListenerAssumption, SlotNumbers
         DEF IInv, ListenerOK, ListenerTypeOK, Commits
    <3> QED
      BY <2>3, <3>1, <3>2 DEF Covered, Covers
  <2>6. \A g \in Feeds : \A n \in stale'[g] :
            n \in stale[g] /\ (Held(g, n) => Held(g, n)')
    BY <2>1, <2>3, <2>5 DEF Held
  <2> QED
    BY <1>1, <2>1, <2>2, <2>4, <2>6, FeedSide DEF NoFalseHealth
<1> QED
  BY <1>2, <1>3, <1>4, <1>5, <1>6, <1>7

\* What a step of the listener has to keep.
LEMMA ListenerSide ==
    ASSUME IInv, ListenerStep, FeedTypeOK', HistoryOK', NeverStuck', NoFalseHealth',
           \A f \in Feeds : phase'[f] = "open" =>
               \A n \in stale'[f] : Carried(n)' \/ Held(f, n)'
    PROVE  IInv'
<1>1. ListenerOK' /\ ConnectionOK'
  BY ListenerStepOK, ConnectionStep, TypeSplit DEF IInv
<1>2. NothingMissed'
  BY DEF NothingMissed, Carried, Held
<1>3. (TypeOK /\ InboxOK)'
  BY <1>1 DEF TypeOK, ListenerOK, FeedTypeOK
<1> QED
  BY <1>1, <1>2, <1>3 DEF IInv

\* The steps of a client that tell the feeds nothing.
LEMMA BesideStep ==
    ASSUME IInv, UNCHANGED feedVars, NEW c \in Clients,
           \/ Start(c) \/ ReconnectFires(c) \/ Acquired(c) \/ Listens(c)
           \/ AcquireFails(c) \/ FailureSettles(c) \/ SessionDies(c)
    PROVE  IInv'
<1>1. ListenerOK /\ FeedTypeOK /\ NothingMissed
  BY TypeSplit DEF IInv
<1>2. ListenerStep
  BY DEF ListenerStep
<1>3. db' = db /\ connection' = connection
  BY DEF Start, ReconnectFires, Acquired, Listens, AcquireFails, FailureSettles, SessionDies
<1>4. FeedTypeOK' /\ HistoryOK' /\ NeverStuck' /\ NoFalseHealth'
  BY <1>1, <1>3 DEF IInv, FeedTypeOK, HistoryOK, NeverStuck, NoFalseHealth, Ready, feedVars
<1>5. \A n : Carried(n) => Carried(n)'
  BY <1>1, CarriedStep
<1>6. \A f \in Feeds : phase'[f] = "open" =>
          \A n \in stale'[f] : Carried(n)' \/ Held(f, n)'
  BY <1>1, <1>5, NothingMissedSplit DEF feedVars, Held
<1> QED
  BY <1>2, <1>4, <1>6, ListenerSide

\* The steps of a client that close feeds, all the open ones if it tells them.
LEMMA ClosingStep ==
    ASSUME IInv, NEW c \in Clients, NEW C, CloseAll(C),
           \/ AcquireFails(c) \/ FailureSettles(c)
           \/ /\ Unavailable(c)
              /\ {f \in Feeds : phase[f] = "open"} \subseteq C
    PROVE  IInv'
<1>1. ListenerOK /\ FeedTypeOK /\ HistoryOK /\ NeverStuck /\ NoFalseHealth /\ NothingMissed
  BY TypeSplit DEF IInv
<1>2. ListenerStep
  BY DEF ListenerStep, Unavailable
<1>3. db' = db
  BY DEF AcquireFails, FailureSettles, Unavailable, ListenFails, LostConnecting, Disconnects
<1>4. /\ FeedTypeOK' /\ HistoryOK' /\ NeverStuck'
      /\ \A f \in Feeds : phase'[f] = "open" =>
             /\ phase[f] = "open" /\ f \notin C
             /\ kind'[f] = kind[f] /\ slot'[f] = slot[f]
             /\ taken'[f] = taken[f] /\ stale'[f] = stale[f]
  BY <1>1, <1>3, ClosingFeeds
<1>5. CASE AcquireFails(c) \/ FailureSettles(c)
  <2>1. connection' = connection
    BY <1>5 DEF AcquireFails, FailureSettles
  <2>2. NoFalseHealth'
    BY <1>1, <1>4, <2>1 DEF NoFalseHealth, Ready
  <2>3. \A n : Carried(n) => Carried(n)'
    BY <1>1, <1>5, CarriedStep
  <2>4. \A f \in Feeds : phase'[f] = "open" =>
            \A n \in stale'[f] : Carried(n)' \/ Held(f, n)'
    BY <1>1, <1>4, <2>3, NothingMissedSplit DEF Held
  <2> QED
    BY <1>2, <1>4, <2>2, <2>4, ListenerSide
<1>6. CASE {f \in Feeds : phase[f] = "open"} \subseteq C
  <2>1. \A f \in Feeds : phase'[f] # "open"
    BY <1>4, <1>6
  <2>2. NoFalseHealth'
    BY <2>1 DEF NoFalseHealth
  <2> QED
    BY <1>2, <1>4, <2>1, <2>2, ListenerSide
<1> QED
  BY <1>5, <1>6

\* A commit's notice is on a session, or a session is dead.
LEMMA CommitStep == ASSUME IInv, CommitMade PROVE IInv'
<1>1. ListenerOK /\ FeedTypeOK /\ HistoryOK /\ NoFalseHealth /\ NothingMissed /\ ConnectionOK
  BY TypeSplit DEF IInv
<1>2. ListenerStep /\ Commit /\ db \in Nat /\ db' = db + 1 /\ connection' = connection
  BY <1>1, ListenerAssumption
     DEF CommitMade, ListenerStep, Commit, ListenerOK, ListenerTypeOK
<1>3. /\ UNCHANGED <<phase, waits, kind, slot, timer, taken>>
      /\ stale' = [f \in Feeds |-> IF phase[f] = "open" THEN stale[f] \cup {db'} ELSE stale[f]]
  BY DEF CommitMade
<1>4. FeedTypeOK'
  <2>1. stale' \in [Feeds -> SUBSET (1..db')]
    BY <1>1, <1>2, <1>3 DEF FeedTypeOK
  <2> QED
    BY <1>1, <1>3, <2>1 DEF FeedTypeOK
<1>5. HistoryOK' /\ NeverStuck' /\ NoFalseHealth'
  BY <1>1, <1>2, <1>3 DEF IInv, HistoryOK, NeverStuck, NoFalseHealth, Ready
<1>6. ASSUME NEW f \in Feeds, phase'[f] = "open", NEW n \in stale'[f]
      PROVE  Carried(n)' \/ Held(f, n)'
  <2>1. phase[f] = "open" /\ Ready
    BY <1>1, <1>3, <1>6 DEF NoFalseHealth
  <2>2. n = db' \/ n \in stale[f]
    BY <1>3, <1>6, <2>1
  <2>3. CASE n = db'
    <3>1. Carried(n)'
      BY <1>1, <1>2, <2>1, <2>3, CommitCarried, Zenon
    <3> QED
      BY <3>1
  <2>4. CASE n \in stale[f]
    <3>1. n \in 1..db
      BY <1>1, <2>4 DEF FeedTypeOK
    <3>2. Carried(n) \/ Held(f, n)
      BY <1>1, <2>1, <2>4, NothingMissedSplit
    <3>3. Held(f, n) => Held(f, n)'
      BY <1>3 DEF Held
    <3>4. Carried(n) => Carried(n)'
      BY <1>1, <1>2, <2>1, <3>1, CommitCarried
    <3> QED
      BY <3>2, <3>3, <3>4
  <2> QED
    BY <2>2, <2>3, <2>4
<1> QED
  BY <1>2, <1>4, <1>5, <1>6, ListenerSide

\* A notice moves its commit from the inbox into what every feed has pending.
LEMMA NoticeStep == ASSUME IInv, NEW c \in Clients, Notice(c) PROVE IInv'
<1>1. ListenerOK /\ FeedTypeOK /\ HistoryOK /\ NeverStuck /\ NoFalseHealth /\ NothingMissed
  BY TypeSplit DEF IInv
<1>2. Notified(c) /\ ListenerStep /\ db' = db /\ connection' = connection
  BY DEF Notice, Notified, ListenerStep
<1> DEFINE m == Head(inbox[c])
<1>3. m \in Commits
  BY <1>1, <1>2 DEF Notified, ListenerOK, ListenerTypeOK
<1>4. Hear(Active, "change", SlotOf[m]) /\ phase' = phase /\ waits' = waits
  BY DEF Notice
<1> HIDE DEF m
<1>5. /\ FeedTypeOK' /\ NeverStuck' /\ stale' = stale /\ taken' = taken
      /\ \A f \in Feeds, n \in Commits :
             Covers(kind[f], slot[f], n) => Covers(kind'[f], slot'[f], n)
      /\ \A f \in Active, n \in Commits :
             SlotOf[m] >= SlotOf[n] => Covers(kind'[f], slot'[f], n)
  <2>1. Active \in SUBSET Feeds /\ SlotOf[m] \in Slots
    BY <1>3, SlotNumbers DEF Active
  <2>2. phase' \in [Feeds -> {"closed", "starting", "observing", "open"}]
        /\ waits' \in [Feeds -> Clients \cup {Nil}]
    BY <1>1, <1>4 DEF FeedTypeOK
  <2> QED
    BY <1>1, <1>2, <1>4, <2>1, <2>2, HearingFeeds, KindNames
<1>6. HistoryOK' /\ NoFalseHealth'
  BY <1>1, <1>2, <1>4, <1>5 DEF HistoryOK, NoFalseHealth, Ready
<1>7. ASSUME NEW f \in Feeds, phase'[f] = "open", NEW n \in stale'[f]
      PROVE  Carried(n)' \/ Held(f, n)'
  <2>1. phase[f] = "open" /\ f \in Active /\ n \in stale[f]
    BY <1>4, <1>5, <1>7 DEF Active
  <2>2. n \in Commits
    BY <1>1, <2>1, ListenerAssumption DEF FeedTypeOK, ListenerOK, ListenerTypeOK, Commits
  <2>3. Held(f, n) => Held(f, n)'
    BY <1>5, <2>2 DEF Held
  <2>4. Carried(n) => Carried(n)' \/ n = m
    BY <1>1, <1>2, NoticeCarried DEF m
  <2>5. ASSUME n = m PROVE Held(f, n)'
    <3>1. SlotOf[m] \in Nat /\ SlotOf[n] = SlotOf[m]
      BY <1>3, <2>5, SlotNumbers
    <3>2. Covers(kind'[f], slot'[f], n)
      BY <1>5, <2>1, <2>2, <3>1
    <3> QED
      BY <3>2 DEF Held, Covers
  <2> QED
    BY <1>1, <2>1, <2>3, <2>4, <2>5, NothingMissedSplit
<1> QED
  BY <1>2, <1>5, <1>6, <1>7, ListenerSide

\* A connection: the waiting feeds go on, a resync is pending in every feed.
LEMMA UpStep == ASSUME IInv, NEW c \in Clients, ListenerUp(c) PROVE IInv'
<1>1. ListenerOK /\ FeedTypeOK /\ HistoryOK /\ NeverStuck /\ NothingMissed
  BY TypeSplit DEF IInv
<1>2. Connected(c) /\ ListenerStep /\ db' = db /\ connection' = c
  BY DEF ListenerUp, Connected, ListenerStep
<1>3. /\ Hear(Active, "resync", 0)
      /\ phase' \in [Feeds -> {"closed", "starting", "observing", "open"}]
      /\ waits' \in [Feeds -> Clients \cup {Nil}]
  BY <1>1 DEF ListenerUp, FeedTypeOK
<1>4. \A f \in Feeds : phase'[f] = "open" => phase[f] = "open"
  BY <1>1 DEF ListenerUp, FeedTypeOK
<1>5. \A f \in Feeds : f \in Waiting(c) => phase[f] = "starting" /\ waits'[f] = Nil
  BY <1>1, ListenerAssumption DEF ListenerUp, FeedTypeOK, HistoryOK, Waiting
<1>6. \A f \in Feeds : f \notin Waiting(c) => phase'[f] = phase[f] /\ waits'[f] = waits[f]
  BY <1>1 DEF ListenerUp, FeedTypeOK
<1>7. \A f \in Feeds : f \in Waiting(c) => phase'[f] = "observing"
  BY <1>1 DEF ListenerUp, FeedTypeOK
<1>8. \A f \in Feeds : phase'[f] = "open" <=> phase[f] = "open"
  BY <1>5, <1>6, <1>7
<1>9. /\ FeedTypeOK' /\ NeverStuck' /\ stale' = stale /\ taken' = taken
      /\ \A f \in Feeds, n \in Commits :
             Covers(kind[f], slot[f], n) => Covers(kind'[f], slot'[f], n)
  <2>1. Active \in SUBSET Feeds
    BY DEF Active
  <2> QED
    BY <1>1, <1>2, <1>3, <1>8, <2>1, HearingFeeds, KindNames, SlotNumbers
<1>10. HistoryOK'
  BY <1>1, <1>5, <1>6, <1>7, <1>8, <1>9 DEF HistoryOK
<1>11. NoFalseHealth'
  BY <1>2, ListenerAssumption DEF NoFalseHealth, Ready
<1>12. \A n : Carried(n) => Carried(n)'
  BY <1>1, <1>2, CarriedStep
<1>13. \A f \in Feeds : stale[f] \subseteq Commits
  BY <1>1, ListenerAssumption DEF FeedTypeOK, ListenerOK, ListenerTypeOK, Commits
<1>14. \A f \in Feeds : phase'[f] = "open" =>
           \A n \in stale'[f] : Carried(n)' \/ Held(f, n)'
  BY <1>1, <1>8, <1>9, <1>12, <1>13, NothingMissedSplit DEF Held
<1> QED
  BY <1>2, <1>9, <1>10, <1>11, <1>14, ListenerSide

\* A new feed that connects by itself.
LEMMA OpenStep == ASSUME IInv, NEW f \in Feeds, Open(f) PROVE IInv'
<1>1. CASE UNCHANGED listenerVars
  BY <1>1, FeedStep
<1>2. ASSUME NEW c \in Clients, Start(c), phase[f] = "closed",
             phase' = [phase EXCEPT ![f] = "starting"], waits' = [waits EXCEPT ![f] = c],
             UNCHANGED <<kind, slot, timer, taken, stale>>
      PROVE  IInv'
  <2>1. ListenerOK /\ FeedTypeOK /\ HistoryOK /\ NeverStuck /\ NoFalseHealth /\ NothingMissed
    BY TypeSplit DEF IInv
  <2>2. ListenerStep /\ db' = db /\ connection' = connection
    BY <1>2 DEF Start, ListenerStep
  <2>3. /\ phase'[f] = "starting"
        /\ \A g \in Feeds : g # f => phase'[g] = phase[g] /\ waits'[g] = waits[g]
    BY <1>2, <2>1 DEF FeedTypeOK
  <2>4. FeedTypeOK'
    BY <1>2, <2>1, <2>2 DEF FeedTypeOK
  <2>5. HistoryOK' /\ NeverStuck' /\ NoFalseHealth'
    BY <1>2, <2>1, <2>2, <2>3 DEF HistoryOK, NeverStuck, NoFalseHealth, Ready
  <2>6. \A n : Carried(n) => Carried(n)'
    BY <1>2, <2>1, CarriedStep
  <2>7. \A g \in Feeds : phase'[g] = "open" =>
            \A n \in stale'[g] : Carried(n)' \/ Held(g, n)'
    BY <1>2, <2>1, <2>3, <2>6, NothingMissedSplit DEF Held
  <2> QED
    BY <2>2, <2>4, <2>5, <2>7, ListenerSide
<1> QED
  BY <1>1, <1>2 DEF Open

\* A lost connect() settles: the waiting feeds fail, or go on to find out.
LEMMA SettledStep == ASSUME IInv, NEW c \in Clients, Settled(c) PROVE IInv'
<1>1. CASE CloseAll(Waiting(c))
  BY <1>1, ClosingStep DEF Settled
<1>2. ASSUME /\ phase' = [f \in Feeds |-> IF f \in Waiting(c) THEN "observing" ELSE phase[f]]
             /\ waits' = [f \in Feeds |-> IF f \in Waiting(c) THEN Nil ELSE waits[f]]
             /\ UNCHANGED <<kind, slot, timer, taken, stale>>
      PROVE  IInv'
  <2>1. ListenerOK /\ FeedTypeOK /\ HistoryOK /\ NeverStuck /\ NoFalseHealth /\ NothingMissed
    BY TypeSplit DEF IInv
  <2>2. FailureSettles(c) /\ ListenerStep /\ db' = db /\ connection' = connection
    BY DEF Settled, FailureSettles, ListenerStep
  <2>3. FeedTypeOK'
    BY <1>2, <2>1, <2>2 DEF FeedTypeOK
  <2>4. \A f \in Feeds :
            \/ f \in Waiting(c) /\ phase[f] = "starting" /\ phase'[f] = "observing" /\ waits'[f] = Nil
            \/ phase'[f] = phase[f] /\ waits'[f] = waits[f]
    <3>1. \A f \in Feeds : f \in Waiting(c) => phase[f] = "starting"
      BY <2>1, ListenerAssumption DEF HistoryOK, Waiting
    <3>2. \A f \in Feeds : phase'[f] = IF f \in Waiting(c) THEN "observing" ELSE phase[f]
      BY <1>2, Zenon
    <3>3. \A f \in Feeds : waits'[f] = IF f \in Waiting(c) THEN Nil ELSE waits[f]
      BY <1>2, Zenon
    <3> TAKE f \in Feeds
    <3>4. CASE f \in Waiting(c)
      BY <3>1, <3>2, <3>3, <3>4, Zenon
    <3>5. CASE f \notin Waiting(c)
      BY <3>2, <3>3, <3>5, Zenon
    <3> QED
      BY <3>4, <3>5
  <2>5. HistoryOK' /\ NeverStuck' /\ NoFalseHealth'
    BY <1>2, <2>1, <2>2, <2>4 DEF HistoryOK, NeverStuck, NoFalseHealth, Ready
  <2>6. \A n : Carried(n) => Carried(n)'
    BY <2>1, <2>2, CarriedStep
  <2>7. \A f \in Feeds : phase'[f] = "open" =>
            \A n \in stale'[f] : Carried(n)' \/ Held(f, n)'
    BY <1>2, <2>1, <2>4, <2>6, NothingMissedSplit DEF Held
  <2> QED
    BY <2>2, <2>3, <2>5, <2>7, ListenerSide
<1> QED
  BY <1>1, <1>2 DEF Settled

\* Every step keeps the invariant.
LEMMA NextOK == IInv /\ [Next]_vars => IInv'
<1> SUFFICES ASSUME IInv, [Next]_vars PROVE IInv'
  OBVIOUS
<1>1. ASSUME NEW f \in Feeds, Open(f) PROVE IInv'
  BY <1>1, OpenStep
<1>2. ASSUME NEW f \in Feeds,
             \/ Initialized(f) \/ NotInitialized(f) \/ Heartbeat(f) \/ Send(f)
             \/ Write(f) \/ ObservationFails(f) \/ ReaderGone(f)
      PROVE  IInv'
  <2>1. UNCHANGED listenerVars
    BY <1>2 DEF Initialized, NotInitialized, Heartbeat, Send, Write, ObservationFails,
                ReaderGone, Close
  <2> QED
    BY <1>2, <2>1, FeedStep
<1>3. CASE CommitMade
  BY <1>3, CommitStep
<1>4. ASSUME NEW c \in Clients, Notice(c) \/ ListenerUp(c) \/ Settled(c) PROVE IInv'
  BY <1>4, NoticeStep, UpStep, SettledStep
<1>5. ASSUME NEW c \in Clients, ListenerDown(c) \/ NoClient(c) PROVE IInv'
  <2> DEFINE opened == {f \in Feeds : phase[f] = "open"}
  <2>1. \/ ListenFails(c) /\ CloseAll(opened \cup Waiting(c))
        \/ (LostConnecting(c) \/ Disconnects(c)) /\ CloseAll(opened)
        \/ AcquireFails(c) /\ CloseAll(Waiting(c))
    BY <1>5 DEF ListenerDown, NoClient
  <2> QED
    BY <2>1, ClosingStep DEF Unavailable
<1>6. ASSUME NEW c \in Clients, Quiet(c) \/ ReconnectFires(c), UNCHANGED feedVars PROVE IInv'
  BY <1>6, BesideStep DEF Quiet
<1>7. CASE UNCHANGED vars
  <2>1. UNCHANGED listenerVars /\ UNCHANGED feedVars
    BY <1>7 DEF vars
  <2>2. /\ FeedTypeOK' /\ HistoryOK' /\ NeverStuck' /\ \A f \in Feeds : phase'[f] = "open" => Ready
    BY <2>1, TypeSplit
       DEF IInv, FeedTypeOK, HistoryOK, NeverStuck, NoFalseHealth, listenerVars, feedVars
  <2> QED
    BY <2>1, <2>2, FeedSide DEF feedVars, Held
<1> QED
  BY <1>1, <1>2, <1>3, <1>4, <1>5, <1>6, <1>7 DEF Next

\* Feeds and listener keep their types.
THEOREM FeedTypeCorrect == Spec => []TypeOK
<1>1. IInv => TypeOK
  BY DEF IInv
<1> QED
  BY InitOK, NextOK, <1>1, PTL DEF Spec

\* No open feed is without a listener, whatever connects, fails and disconnects
\* while it waits for its first observation.
THEOREM NoFalseHealthHolds == Spec => []NoFalseHealth
<1>1. IInv => NoFalseHealth
  BY DEF IInv
<1> QED
  BY InitOK, NextOK, <1>1, PTL DEF Spec

\* What a feed has pending has a timer or a send that will take it on.
THEOREM NeverStuckHolds == Spec => []NeverStuck
<1>1. IInv => NeverStuck
  BY DEF IInv
<1> QED
  BY InitOK, NextOK, <1>1, PTL DEF Spec

\* No commit is missed in silence by a feed that is open: it is with a session,
\* with the feed, or the feed is about to be closed.
THEOREM NothingMissedHolds == Spec => []NothingMissed
<1>1. IInv => NothingMissed
  BY DEF IInv
<1> QED
  BY InitOK, NextOK, <1>1, PTL DEF Spec
=============================================================================
