---------------------------- MODULE ListenerProofs ----------------------------
(***************************************************************************)
(* Facts about the listener's steps, for the proofs of the modules that     *)
(* extend it: its variables keep their types, and an inbox holds nothing    *)
(* the database has not committed.                                          *)
(***************************************************************************)
EXTENDS InvalidationListener, TLAPS

InboxOK == \A c \in Clients : \A i \in DOMAIN inbox[c] : inbox[c][i] <= db

ListenerOK == ListenerTypeOK /\ InboxOK

ListenerStep ==
    \/ Commit
    \/ \E c \in Clients :
           \/ Start(c) \/ ReconnectFires(c) \/ Acquired(c) \/ Listens(c) \/ Connected(c)
           \/ AcquireFails(c) \/ ListenFails(c) \/ LostConnecting(c) \/ FailureSettles(c)
           \/ SessionDies(c) \/ Disconnects(c) \/ Notified(c)

\* The listener index.ts starts with is typed and its inboxes are empty.
LEMMA ListenerInitOK == ListenerInit => ListenerOK
<1>1. (CHOOSE c \in Clients : TRUE) \in Clients
  BY ListenerAssumption
<1> SUFFICES ASSUME ListenerInit PROVE ListenerOK
  OBVIOUS
<1>2. db \in 0..Len(SlotOf) /\ faults \in 0..MaxFaults
  BY ListenerAssumption DEF ListenerInit
<1>3. inbox \in [Clients -> Seq(Commits)] /\ InboxOK
  <2>1. <<>> \in Seq(Commits)
    OBVIOUS
  <2>2. \A c \in Clients : inbox[c] = <<>>
    BY DEF ListenerInit
  <2>3. InboxOK
    BY <2>2 DEF InboxOK
  <2> QED
    BY <2>1, <2>3 DEF ListenerInit
<1>4. client \in [Clients -> ClientStates]
  BY DEF ListenerInit, ClientStates
<1> QED
  BY <1>1, <1>2, <1>3, <1>4 DEF ListenerInit, ListenerOK, ListenerTypeOK

\* A fault keeps the fault counter within its bound.
LEMMA FaultStep == ASSUME ListenerTypeOK, Fault PROVE faults' \in 0..MaxFaults
BY ListenerAssumption DEF ListenerTypeOK, Fault

\* Every step of the listener keeps ListenerOK.
LEMMA ListenerStepOK == ASSUME ListenerOK, ListenerStep PROVE ListenerOK'
<1> USE DEF ListenerOK
<1>1. CASE Commit
  <2>1. db' \in Commits /\ db' \in 0..Len(SlotOf) /\ db' = db + 1 /\ db \in Nat
    BY <1>1, ListenerAssumption DEF Commit, ListenerTypeOK, Commits
  <2>2. \A c \in Clients : inbox'[c] \in Seq(Commits)
    BY <1>1, <2>1 DEF Commit, ListenerTypeOK
  <2>3. inbox' = [c \in Clients |-> inbox'[c]]
    BY <1>1 DEF Commit
  <2>4. ListenerTypeOK'
    BY <1>1, <2>1, <2>2, <2>3, Zenon DEF Commit, ListenerTypeOK
  <2>5. ASSUME NEW c \in Clients, NEW i \in DOMAIN inbox'[c] PROVE inbox'[c][i] <= db'
    <3>1. inbox[c] \in Seq(Commits) /\ \A j \in DOMAIN inbox[c] : inbox[c][j] <= db
      BY DEF ListenerTypeOK, InboxOK
    <3>2. inbox'[c] = IF c \in Live THEN Append(inbox[c], db') ELSE inbox[c]
      BY <1>1 DEF Commit
    <3>3. \A j \in DOMAIN inbox[c] : inbox[c][j] \in Nat
      BY <3>1, ListenerAssumption DEF Commits
    <3>4. CASE c \in Live
      BY <2>1, <2>5, <3>1, <3>2, <3>3, <3>4
    <3>5. CASE c \notin Live
      BY <2>1, <2>5, <3>1, <3>2, <3>3, <3>5
    <3> QED BY <3>4, <3>5
  <2> QED BY <2>4, <2>5 DEF InboxOK
<1>2. ASSUME NEW c \in Clients, Start(c) \/ ReconnectFires(c) \/ Acquired(c) \/ Listens(c)
                                \/ Connected(c) \/ FailureSettles(c)
      PROVE ListenerOK'
  BY <1>2 DEF Start, ReconnectFires, Acquired, Listens, Connected, FailureSettles,
              ListenerTypeOK, ClientStates, InboxOK
<1>3. ASSUME NEW c \in Clients, AcquireFails(c) \/ ListenFails(c) PROVE ListenerOK'
  BY <1>3, FaultStep DEF AcquireFails, ListenFails, Scheduled, ListenerTypeOK, ClientStates, InboxOK
<1>4. ASSUME NEW c \in Clients, LostConnecting(c) \/ SessionDies(c) PROVE ListenerOK'
  <2>1. faults' \in 0..MaxFaults
    BY <1>4, FaultStep DEF LostConnecting, SessionDies
  <2>2. inbox' = [inbox EXCEPT ![c] = <<>>] /\ db' = db
    BY <1>4 DEF LostConnecting, SessionDies
  <2>a. inbox' \in [Clients -> Seq(Commits)]
    BY <2>2 DEF ListenerTypeOK
  <2>b. client' \in [Clients -> ClientStates] /\ reconnect' \in BOOLEAN
    BY <1>4 DEF LostConnecting, SessionDies, Scheduled, ListenerTypeOK, ClientStates
  <2>c. UNCHANGED <<db, connection, starting>>
    BY <1>4 DEF LostConnecting, SessionDies
  <2>3. ListenerTypeOK'
    BY <2>1, <2>a, <2>b, <2>c DEF ListenerTypeOK
  <2>4. InboxOK'
    BY <2>2 DEF InboxOK, ListenerTypeOK
  <2> QED BY <2>3, <2>4
<1>5. ASSUME NEW c \in Clients, Disconnects(c) PROVE ListenerOK'
  BY <1>5 DEF Disconnects, Scheduled, ListenerTypeOK, ClientStates, InboxOK
<1>6. ASSUME NEW c \in Clients, Notified(c) PROVE ListenerOK'
  <2>1. inbox' = [inbox EXCEPT ![c] = Tail(inbox[c])] /\ inbox[c] # <<>>
        /\ UNCHANGED <<db, client, connection, reconnect, starting, faults>>
    BY <1>6 DEF Notified
  <2>2. inbox[c] \in Seq(Commits) /\ inbox \in [Clients -> Seq(Commits)]
    BY DEF ListenerTypeOK
  <2>3. Tail(inbox[c]) \in Seq(Commits)
        /\ \A i \in DOMAIN Tail(inbox[c]) : i + 1 \in DOMAIN inbox[c]
                                             /\ Tail(inbox[c])[i] = inbox[c][i + 1]
    BY <2>1, <2>2
  <2>4. ListenerTypeOK'
    BY <2>1, <2>2, <2>3 DEF ListenerTypeOK
  <2>5. InboxOK'
    BY <2>1, <2>2, <2>3 DEF InboxOK
  <2> QED BY <2>4, <2>5
<1> QED
  BY <1>1, <1>2, <1>3, <1>4, <1>5, <1>6 DEF ListenerStep

\* A step that leaves the listener alone keeps ListenerOK.
LEMMA ListenerStutterOK == ASSUME ListenerOK, UNCHANGED listenerVars PROVE ListenerOK'
BY DEF ListenerOK, ListenerTypeOK, InboxOK, listenerVars

\* An inbox holds the last commits, all of them and in their order, and only a
\* session that is notified has one.
InboxIsSuffix ==
    \A c \in Clients :
        /\ c \notin Live => inbox[c] = <<>>
        /\ Len(inbox[c]) <= db
        /\ \A i \in DOMAIN inbox[c] : inbox[c][i] = db - Len(inbox[c]) + i

\* The inboxes start empty.
LEMMA InboxInit == ListenerInit => InboxIsSuffix
BY DEF ListenerInit, InboxIsSuffix

\* A session listens from an empty inbox, gets every commit, hands them on in
\* order and loses what is left when it dies.
LEMMA InboxStep ==
    ASSUME ListenerTypeOK, InboxIsSuffix, ListenerStep
    PROVE  InboxIsSuffix'
<1>0. db \in Nat /\ inbox \in [Clients -> Seq(Commits)] /\ client \in [Clients -> ClientStates]
  BY ListenerAssumption DEF ListenerTypeOK
<1>1. CASE Commit
  <2> SUFFICES ASSUME NEW c \in Clients
               PROVE  /\ c \notin Live' => inbox'[c] = <<>>
                      /\ Len(inbox'[c]) <= db'
                      /\ \A i \in DOMAIN inbox'[c] : inbox'[c][i] = db' - Len(inbox'[c]) + i
    BY DEF InboxIsSuffix
  <2>1. /\ db' = db + 1 /\ Live' = Live
        /\ inbox'[c] = IF c \in Live THEN Append(inbox[c], db') ELSE inbox[c]
    BY <1>1 DEF Commit, Live
  <2>2. /\ inbox[c] \in Seq(Commits) /\ Len(inbox[c]) <= db /\ Len(inbox[c]) \in Nat
        /\ \A i \in DOMAIN inbox[c] : inbox[c][i] = db - Len(inbox[c]) + i
        /\ c \notin Live => inbox[c] = <<>>
    BY <1>0 DEF InboxIsSuffix
  <2>3. CASE c \in Live
    <3> DEFINE box == Append(inbox[c], db')
    <3>1. /\ Len(box) = Len(inbox[c]) + 1 /\ DOMAIN box = 1..(Len(inbox[c]) + 1)
          /\ box[Len(inbox[c]) + 1] = db' /\ DOMAIN inbox[c] = 1..Len(inbox[c])
          /\ \A i \in DOMAIN inbox[c] : box[i] = inbox[c][i]
      BY <2>2
    <3>2. ASSUME NEW i \in DOMAIN box PROVE box[i] = db' - Len(box) + i
      <4>1. CASE i = Len(inbox[c]) + 1
        BY <1>0, <2>1, <2>2, <3>1, <4>1
      <4>2. CASE i \in DOMAIN inbox[c]
        BY <1>0, <2>1, <2>2, <3>1, <4>2
      <4> QED BY <2>2, <3>1, <4>1, <4>2
    <3>3. Len(box) <= db'
      BY <1>0, <2>1, <2>2, <3>1
    <3>4. inbox'[c] = box
      BY <2>1, <2>3
    <3> HIDE DEF box
    <3> QED BY <2>1, <2>3, <3>2, <3>3, <3>4
  <2>4. CASE c \notin Live
    BY <1>0, <2>1, <2>2, <2>4
  <2> QED BY <2>3, <2>4
<1>2. ASSUME NEW c \in Clients, Start(c) \/ ReconnectFires(c) \/ Acquired(c) \/ Listens(c)
                                \/ Connected(c) \/ AcquireFails(c) \/ ListenFails(c)
                                \/ FailureSettles(c) \/ Disconnects(c)
      PROVE  InboxIsSuffix'
  <2>1. UNCHANGED <<db, inbox>>
    BY <1>2 DEF Start, ReconnectFires, Acquired, Listens, Connected, AcquireFails,
                ListenFails, FailureSettles, Disconnects
  <2>2. \A d \in Clients : d \notin Live' => d \notin Live
    BY <1>0, <1>2 DEF Start, ReconnectFires, Acquired, Listens, Connected, AcquireFails,
                ListenFails, FailureSettles, Disconnects, Live
  <2> QED BY <2>1, <2>2 DEF InboxIsSuffix
<1>3. ASSUME NEW c \in Clients, LostConnecting(c) \/ SessionDies(c) PROVE InboxIsSuffix'
  <2>1. inbox' = [inbox EXCEPT ![c] = <<>>] /\ db' = db
        /\ \A d \in Clients \ {c} : d \notin Live' => d \notin Live
    BY <1>0, <1>3 DEF LostConnecting, SessionDies, Live
  <2> QED BY <1>0, <2>1 DEF InboxIsSuffix
<1>4. ASSUME NEW c \in Clients, Notified(c) PROVE InboxIsSuffix'
  <2>1. /\ inbox' = [inbox EXCEPT ![c] = Tail(inbox[c])] /\ inbox[c] # <<>> /\ db' = db
        /\ Live' = Live /\ c \in Live
    BY <1>4 DEF Notified, Live
  <2>2. inbox[c] \in Seq(Commits) /\ Len(inbox[c]) \in Nat
    BY <1>0
  <2>3. /\ Len(Tail(inbox[c])) = Len(inbox[c]) - 1 /\ Len(inbox[c]) > 0
        /\ \A i \in DOMAIN Tail(inbox[c]) :
               i + 1 \in DOMAIN inbox[c] /\ Tail(inbox[c])[i] = inbox[c][i + 1] /\ i \in Nat
    BY <2>1, <2>2
  <2>4. \A i \in DOMAIN Tail(inbox[c]) :
            Tail(inbox[c])[i] = db - Len(Tail(inbox[c])) + i
    BY <1>0, <2>2, <2>3 DEF InboxIsSuffix
  <2>5. Len(Tail(inbox[c])) <= db
    BY <1>0, <2>2, <2>3 DEF InboxIsSuffix
  <2>6. \A d \in Clients : inbox'[d] = IF d = c THEN Tail(inbox[c]) ELSE inbox[d]
    BY <1>0, <2>1
  <2> QED BY <2>1, <2>4, <2>5, <2>6 DEF InboxIsSuffix
<1> QED
  BY <1>1, <1>2, <1>3, <1>4 DEF ListenerStep

\* A step that leaves the listener alone leaves the inboxes alone.
LEMMA InboxStutter ==
    ASSUME InboxIsSuffix, UNCHANGED listenerVars PROVE InboxIsSuffix'
BY DEF InboxIsSuffix, listenerVars, Live
=============================================================================
