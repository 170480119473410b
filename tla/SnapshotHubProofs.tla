-------------------------- MODULE SnapshotHubProofs --------------------------
(***************************************************************************)
(* Proofs about SnapshotHub for any number of replicas, topics and streams  *)
(* and whatever the bounds on time, captures and failures.  The argument has   *)
(* two halves.  The row only moves forward, because the session that holds   *)
(* the advisory lock captured after every capture in the row, and nobody     *)
(* else writes; so a topic that reads or commits the row after its tick      *)
(* never has less than it published before.  And a stream is listed in one   *)
(* topic alone, so what the topic published last bounds what it was sent.    *)
(***************************************************************************)
EXTENDS SnapshotHub, TLAPS

-----------------------------------------------------------------------------
(* The inductive invariant.                                                 *)

\* A capture that is under way has a payload to commit, and a topic that was
\* never created has no tick.
Typed ==
    /\ HubConstants
    /\ HubTypeOK
    /\ \A t \in Topics : step[t] = "capture" => mine[t] # None
    /\ \A t \in Topics : status[t] = "unused" => step[t] = "idle"

\* The revision of the row, 0 before the first payload.
RowRev == IF row = None THEN 0 ELSE row.rev

\* The lock's holder is in a capture that began after what the row has.
OneWriter == holder # None => step[holder] = "capture" /\ RowRev < mine[holder].rev

\* What was published is in the row or behind it, and so is what a tick is
\* about to publish, which is never behind what its topic published.
RowLeads ==
    /\ RowRev <= captures
    /\ \A t \in Topics :
          /\ mine[t] # None => mine[t].rev <= captures
          /\ latest[t] # None => latest[t].rev <= RowRev
          /\ step[t] = "after" /\ mine[t] # None =>
                /\ mine[t].rev <= RowRev
                /\ latest[t] # None => latest[t].rev <= mine[t].rev

RowOK == OneWriter /\ RowLeads

\* A stream is in one topic.
Apart == \A t, u \in Topics : \A c \in listeners[t] : c \in listeners[u] => t = u

\* The latest revision of a topic, 0 before its first.
LatestRev(t) == IF latest[t] = None THEN 0 ELSE latest[t].rev

\* A closed stream has nothing; what an open one was sent is not newer than its
\* topic's latest.
Bounded ==
    /\ \A c \in Readers : ~open[c] => got[c] = 0 /\ wire[c] = <<>>
    /\ \A t \in Topics : \A c \in listeners[t] :
          /\ got[c] <= LatestRev(t)
          /\ \A i \in DOMAIN wire[c] : wire[c][i].rev <= LatestRev(t)

\* InOrder without the concatenation.
Increasing(c) ==
    /\ \A i \in DOMAIN wire[c] : got[c] < wire[c][i].rev
    /\ \A i, j \in DOMAIN wire[c] : i < j => wire[c][i].rev < wire[c][j].rev

StreamsOK == NoOrphans /\ Apart /\ Bounded /\ \A c \in Readers : Increasing(c)

HubInv == Typed /\ RowOK /\ StreamsOK

-----------------------------------------------------------------------------
(* Types.                                                                   *)

\* What the bounds and the types say of the numbers.
LEMMA Numbers ==
    ASSUME HubConstants, HubTypeOK
    PROVE  /\ now \in Nat /\ captures \in Nat /\ MaxNow \in Nat /\ MaxCaptures \in Nat
           /\ MaxFailures \in Nat /\ Interval \in Nat /\ Lifetime \in Nat /\ failures \in Nat
           /\ None \notin Payloads /\ None \notin Rows /\ None \notin Topics
           /\ RowRev \in 0..MaxCaptures
           /\ Stored \in Payloads \cup {None}
           /\ Stored # None => row # None /\ Stored.rev = RowRev
<1>1. /\ None \notin Payloads /\ None \notin Rows /\ None \notin Topics
      /\ MaxNow \in Nat /\ MaxCaptures \in Nat
  BY DEF HubConstants, Payloads, Rows
<1>2. CASE row = None
  BY <1>1, <1>2 DEF HubConstants, HubTypeOK, RowRev, Stored
<1>3. CASE row # None
  <2>1. /\ row.rev \in 0..MaxCaptures /\ row.at \in 0..MaxNow
    BY <1>3 DEF HubTypeOK, Rows
  <2> QED
    BY <1>1, <1>3, <2>1 DEF HubConstants, HubTypeOK, RowRev, Stored, Payloads
<1> QED
  BY <1>2, <1>3

\* What a commit writes is a row.
LEMMA Writes ==
    ASSUME HubConstants, HubTypeOK
    PROVE  /\ Cooldown \in Rows
           /\ \A p \in Payloads : Refreshed(p) \in Rows
<1>1. now + Interval \in Nat /\ 0 \in 0..MaxCaptures /\ 0 \in 0..MaxNow
  BY Numbers
<1>2. ASSUME row = None PROVE Cooldown \in Rows
  BY <1>1, <1>2 DEF Cooldown, Rows
<1>3. ASSUME row # None PROVE Cooldown \in Rows
  <2>1. row \in Rows
    BY <1>3 DEF HubTypeOK
  <2> QED
    BY <1>1, <1>3, <2>1 DEF Cooldown, Rows
<1>4. \A p \in Payloads : Refreshed(p) \in Rows
  <2> SUFFICES ASSUME NEW p \in Payloads PROVE Refreshed(p) \in Rows
    OBVIOUS
  <2>1. p.rev \in 0..MaxCaptures /\ p.at \in 0..MaxNow
    BY Numbers DEF Payloads
  <2> QED
    BY <1>1, <2>1 DEF Refreshed, Rows
<1> QED
  BY <1>2, <1>3, <1>4

\* Closing streams keeps their types.
LEMMA CloseTypes ==
    ASSUME HubConstants, HubTypeOK, NEW cs, CloseStreams(cs)
    PROVE  /\ open' \in [Readers -> BOOLEAN]
           /\ wire' \in [Readers -> Seq(Payloads)]
           /\ got' \in [Readers -> 0..MaxCaptures]
<1>1. open' \in [Readers -> BOOLEAN]
  BY DEF CloseStreams
<1>2. wire' \in [Readers -> Seq(Payloads)]
  BY DEF CloseStreams, HubTypeOK
<1>3. got' \in [Readers -> 0..MaxCaptures]
  BY Numbers DEF CloseStreams, HubTypeOK
<1> QED
  BY <1>1, <1>2, <1>3

\* So does leaving a topic.
LEMMA LeftTypes ==
    ASSUME HubConstants, HubTypeOK, NEW t \in Topics, NEW remaining \in SUBSET Readers,
           NEW last \in Payloads \cup {None}, Left(t, remaining, last)
    PROVE  /\ listeners' \in [Topics -> SUBSET Readers]
           /\ status' \in [Topics -> {"unused", "live", "stopped"}]
           /\ latest' \in [Topics -> Payloads \cup {None}]
           /\ \A u \in Topics : status'[u] = "unused" => status[u] = "unused"
<1>1. listeners' \in [Topics -> SUBSET Readers]
  BY DEF Left, HubTypeOK
<1>2. status' \in [Topics -> {"unused", "live", "stopped"}]
  BY DEF Left, HubTypeOK
<1>3. latest' \in [Topics -> Payloads \cup {None}]
  BY DEF Left, HubTypeOK
<1>4. \A u \in Topics : status'[u] = "unused" => status[u] = "unused"
  BY DEF Left, HubTypeOK
<1> QED
  BY <1>1, <1>2, <1>3, <1>4

\* A tick that fails keeps the types of all that it changes.
LEMMA FailTypes ==
    ASSUME HubConstants, HubTypeOK, NEW t \in Topics, TickFails(t)
    PROVE  /\ listeners' \in [Topics -> SUBSET Readers]
           /\ status' \in [Topics -> {"unused", "live", "stopped"}]
           /\ latest' \in [Topics -> Payloads \cup {None}]
           /\ open' \in [Readers -> BOOLEAN]
           /\ wire' \in [Readers -> Seq(Payloads)]
           /\ got' \in [Readers -> 0..MaxCaptures]
           /\ step' = [step EXCEPT ![t] = "idle"]
           /\ mine' = [mine EXCEPT ![t] = None]
           /\ now' = now
           /\ \A u \in Topics : status'[u] = "unused" => status[u] = "unused"
<1>1. {} \in SUBSET Readers /\ None \in Payloads \cup {None}
  OBVIOUS
<1> QED
  BY <1>1, CloseTypes, LeftTypes DEF TickFails

\* Every operation keeps the types.
LEMMA TypesStep == Typed /\ [HubNext]_hubVars => Typed'
<1> SUFFICES ASSUME Typed, [HubNext]_hubVars PROVE Typed'
  OBVIOUS
<1>0. HubConstants /\ HubTypeOK
  BY DEF Typed
<1>1. CASE Tick
  BY <1>1, Numbers DEF Tick, Typed, HubTypeOK, dbVars, topicVars, streamVars
<1>2. ASSUME NEW c \in Readers, NEW t \in Topics, Create(c, t) PROVE Typed'
  <2>1. open' \in [Readers -> BOOLEAN]
    BY <1>0, <1>2 DEF Create, HubTypeOK
  <2>2. /\ status' \in [Topics -> {"unused", "live", "stopped"}]
        /\ step' \in [Topics -> Steps]
        /\ listeners' \in [Topics -> SUBSET Readers]
    BY <1>0, <1>2 DEF Create, HubTypeOK, Steps
  <2> QED
    BY <1>2, <2>1, <2>2 DEF Create, Typed, HubTypeOK, dbVars
<1>3. ASSUME NEW c \in Readers, NEW t \in Topics, Join(c, t) PROVE Typed'
  <2>1. ASSUME NEW frames \in Seq(Payloads), JoinAccepted(c, t, frames)
        PROVE  /\ open' \in [Readers -> BOOLEAN]
               /\ listeners' \in [Topics -> SUBSET Readers]
               /\ wire' \in [Readers -> Seq(Payloads)]
    <3>1. open' \in [Readers -> BOOLEAN]
      BY <1>0, <2>1 DEF JoinAccepted, HubTypeOK
    <3> QED
      BY <1>0, <2>1, <3>1 DEF JoinAccepted, HubTypeOK
  <2>2. CASE JoinRefused(c, t)
    BY <1>3, <2>2 DEF Join, JoinRefused, Typed, HubTypeOK, dbVars, topicVars
  <2>3. CASE JoinAccepted(c, t, <<>>)
    <3>1. <<>> \in Seq(Payloads)
      OBVIOUS
    <3> QED
      BY <1>3, <2>1, <2>3, <3>1 DEF Join, Typed, HubTypeOK, dbVars, topicVars
  <2>4. CASE latest[t] # None /\ JoinAccepted(c, t, <<latest[t]>>)
    <3>1. <<latest[t]>> \in Seq(Payloads)
      BY <1>0, <2>4 DEF HubTypeOK
    <3> QED
      BY <1>3, <2>1, <2>4, <3>1 DEF Join, Typed, HubTypeOK, dbVars, topicVars
  <2> QED
    BY <1>3, <2>2, <2>3, <2>4 DEF Join
<1>4. ASSUME NEW t \in Topics, StartTick(t) PROVE Typed'
  BY <1>4 DEF StartTick, Typed, HubTypeOK, Steps, dbVars, streamVars
<1>5. ASSUME NEW t \in Topics, ReadStored(t) PROVE Typed'
  BY <1>0, <1>5, Numbers DEF ReadStored, Typed, HubTypeOK, Steps, dbVars, streamVars
<1>6. ASSUME NEW t \in Topics, BeginCapture(t) PROVE Typed'
  <2>0. captures < MaxCaptures /\ now \in 0..MaxNow
    BY <1>0, <1>6 DEF BeginCapture, Due, HubTypeOK
  <2>1. [rev |-> captures + 1, at |-> now] \in Payloads /\ captures + 1 \in 0..MaxCaptures
    <3>1. captures + 1 \in 1..MaxCaptures /\ captures + 1 \in 0..MaxCaptures
      BY <1>0, <2>0, Numbers
    <3> QED
      BY <2>0, <3>1 DEF Payloads
  <2>2. [rev |-> captures + 1, at |-> now] # None
    BY <1>0, <2>1, Numbers
  <2> HIDE DEF Payloads
  <2>3. holder' = t
    BY <1>6 DEF BeginCapture
  <2> QED
    BY <1>6, <2>1, <2>2, <2>3 DEF BeginCapture, Typed, HubTypeOK, Steps, streamVars
<1>7. ASSUME NEW t \in Topics, Captured(t) PROVE Typed'
  <2>1. mine[t] \in Payloads /\ Refreshed(mine[t]) \in Rows
    BY <1>0, <1>7, Writes DEF Captured, Typed, HubTypeOK
  <2> QED
    BY <1>7, <2>1 DEF Captured, Committed, Unlocked, Typed, HubTypeOK, Steps, streamVars
<1>8. ASSUME NEW t \in Topics, CaptureFails(t) PROVE Typed'
  <2>1. Cooldown \in Rows /\ failures' \in 0..MaxFailures
    BY <1>0, <1>8, Writes, Numbers DEF CaptureFails, Failure, HubTypeOK
  <2>2. TickFails(t)
    BY <1>8 DEF CaptureFails
  <2> QED
    BY <1>0, <1>8, <2>1, <2>2, FailTypes
       DEF CaptureFails, Committed, Unlocked, Typed, HubTypeOK, Steps
<1>9. ASSUME NEW t \in Topics, CommitUnanswered(t) PROVE Typed'
  <2>1. mine[t] \in Payloads /\ Refreshed(mine[t]) \in Rows /\ failures' \in 0..MaxFailures
    BY <1>0, <1>9, Writes, Numbers DEF CommitUnanswered, Failure, Typed, HubTypeOK
  <2>2. TickFails(t)
    BY <1>9 DEF CommitUnanswered
  <2> QED
    BY <1>0, <1>9, <2>1, <2>2, FailTypes
       DEF CommitUnanswered, Committed, Unlocked, Typed, HubTypeOK, Steps
<1>10. ASSUME NEW t \in Topics, SessionLost(t) PROVE Typed'
  BY <1>0, <1>10, Numbers DEF SessionLost, Failure, Typed, HubTypeOK, topicVars, streamVars
<1>11. ASSUME NEW t \in Topics, CommitRefused(t) PROVE Typed'
  <2>1. TickFails(t)
    BY <1>11 DEF CommitRefused
  <2> QED
    BY <1>0, <1>11, <2>1, FailTypes DEF CommitRefused, Typed, HubTypeOK, Steps, dbVars
<1>12. ASSUME NEW t \in Topics, AwaitFails(t) PROVE Typed'
  <2>1. TickFails(t) /\ failures' \in 0..MaxFailures
    BY <1>0, <1>12, Numbers DEF AwaitFails, Failure, HubTypeOK
  <2> QED
    BY <1>0, <1>12, <2>1, FailTypes DEF AwaitFails, Typed, HubTypeOK, Steps, dbVars
<1>13. ASSUME NEW t \in Topics, Publish(t) PROVE Typed'
  <2> DEFINE stay == {c \in listeners[t] : StaysOpen(c, mine[t])}
             gone == listeners[t] \ stay
  <2>1. mine[t] \in Payloads /\ mine[t] \in Payloads \cup {None}
    BY <1>0, <1>13 DEF Publish, Deliverable, HubTypeOK
  <2>2. stay \in SUBSET Readers
    BY <1>0 DEF HubTypeOK
  <2>3. /\ Left(t, stay, mine[t])
        /\ step' = [step EXCEPT ![t] = Rearmed(stay)]
        /\ open' = [c \in Readers |-> open[c] /\ c \notin gone]
        /\ wire' = [c \in Readers |-> IF c \in stay THEN Append(wire[c], mine[t])
                                      ELSE IF c \in gone THEN <<>> ELSE wire[c]]
        /\ got' = [c \in Readers |-> IF c \in gone THEN 0 ELSE got[c]]
        /\ mine' = [mine EXCEPT ![t] = None]
        /\ UNCHANGED <<now, dbVars, failures>>
    BY <1>13 DEF Publish
  <2> HIDE DEF stay, gone
  <2>4. /\ listeners' \in [Topics -> SUBSET Readers]
        /\ status' \in [Topics -> {"unused", "live", "stopped"}]
        /\ latest' \in [Topics -> Payloads \cup {None}]
    BY <1>0, <2>1, <2>2, <2>3, LeftTypes
  <2>5. open' \in [Readers -> BOOLEAN]
    BY <2>3
  <2>6. wire' \in [Readers -> Seq(Payloads)]
    BY <1>0, <2>1, <2>3 DEF HubTypeOK
  <2>7. got' \in [Readers -> 0..MaxCaptures]
    BY <1>0, <2>3, Numbers DEF HubTypeOK
  <2>8. /\ step' \in [Topics -> Steps] /\ mine' \in [Topics -> Payloads \cup {None}]
        /\ \A u \in Topics : step'[u] = "capture" => mine'[u] # None
    BY <2>3 DEF Typed, HubTypeOK, Steps, Rearmed
  <2>9. \A u \in Topics : status'[u] = "unused" => step'[u] = "idle"
    <3>1. step[t] = "after" /\ status[t] # "unused"
      BY <1>13 DEF Publish
    <3>2. \A u \in Topics : status'[u] = "unused" => status[u] = "unused"
      BY <1>0, <2>1, <2>2, <2>3, LeftTypes
    <3> QED
      BY <1>0, <2>3, <3>1, <3>2 DEF Typed, HubTypeOK
  <2> QED
    BY <1>0, <2>3, <2>4, <2>5, <2>6, <2>7, <2>8, <2>9 DEF Typed, HubTypeOK, dbVars
<1>14. ASSUME NEW t \in Topics, NothingToPublish(t) PROVE Typed'
  BY <1>14 DEF NothingToPublish, Rearmed, Typed, HubTypeOK, Steps, dbVars, streamVars
<1>15. ASSUME NEW c \in Readers, Leaves(c), failures' \in 0..MaxFailures PROVE Typed'
  <2>1. PICK t \in Topics :
          /\ Left(t, listeners[t] \ {c}, latest[t])
          /\ step' = [step EXCEPT ![t] =
                         IF listeners[t] = {c} /\ @ = "timer" THEN "idle" ELSE @]
          /\ CloseStreams({c})
          /\ UNCHANGED <<now, dbVars, mine>>
    BY <1>15 DEF Leaves
  <2>2. listeners[t] \ {c} \in SUBSET Readers /\ latest[t] \in Payloads \cup {None}
    BY <1>0 DEF HubTypeOK
  <2>3. step' \in [Topics -> Steps]
    BY <1>0, <2>1 DEF HubTypeOK, Steps
  <2>4. \A u \in Topics : /\ step'[u] = "capture" => step[u] = "capture"
                          /\ step[u] = "idle" => step'[u] = "idle"
    BY <1>0, <2>1 DEF HubTypeOK
  <2> QED
    BY <1>0, <1>15, <2>1, <2>2, <2>3, <2>4, LeftTypes, CloseTypes DEF Typed, HubTypeOK, dbVars
<1>16. ASSUME NEW c \in Readers, Disconnect(c) \/ InitialTimeout(c) \/ AckTimeout(c)
       PROVE  Typed'
  <2>1. Leaves(c) /\ failures' \in 0..MaxFailures
    BY <1>0, <1>16, Numbers DEF Disconnect, InitialTimeout, AckTimeout, Failure, HubTypeOK
  <2> QED
    BY <1>15, <2>1
<1>17. ASSUME NEW c \in Readers, Take(c) PROVE Typed'
  <2>1. wire[c] \in Seq(Payloads) /\ wire[c] # <<>>
    BY <1>0, <1>17 DEF Take, HubTypeOK
  <2>2. Head(wire[c]) \in Payloads /\ Tail(wire[c]) \in Seq(Payloads)
    BY <2>1
  <2>3. Head(wire[c]).rev \in 0..MaxCaptures
    BY <1>0, <2>2, Numbers DEF Payloads
  <2> QED
    BY <1>17, <2>2, <2>3 DEF Take, Typed, HubTypeOK, dbVars, topicVars
<1>18. ASSUME NEW r \in Replicas, Crash(r) PROVE Typed'
  <2> DEFINE own == {t \in Topics : t[1] = r}
  <2>1. /\ status' = [t \in Topics |->
                         IF t \in own /\ status[t] = "live" THEN "stopped" ELSE status[t]]
        /\ step' = [t \in Topics |-> IF t \in own THEN "idle" ELSE step[t]]
        /\ mine' = [t \in Topics |-> IF t \in own THEN None ELSE mine[t]]
        /\ listeners' = [t \in Topics |-> IF t \in own THEN {} ELSE listeners[t]]
        /\ latest' = [t \in Topics |-> IF t \in own THEN None ELSE latest[t]]
        /\ holder' = IF holder \in own THEN None ELSE holder
        /\ CloseStreams(UNION {listeners[t] : t \in own})
        /\ UNCHANGED <<now, row, captures>>
    BY <1>18 DEF Crash
  <2>2. failures' \in 0..MaxFailures
    BY <1>0, <1>18, Numbers DEF Crash, Failure, HubTypeOK
  <2> HIDE DEF own
  <2>3. /\ open' \in [Readers -> BOOLEAN]
        /\ wire' \in [Readers -> Seq(Payloads)]
        /\ got' \in [Readers -> 0..MaxCaptures]
    BY <1>0, <2>1, CloseTypes
  <2>4. /\ status' \in [Topics -> {"unused", "live", "stopped"}]
        /\ step' \in [Topics -> Steps]
        /\ mine' \in [Topics -> Payloads \cup {None}]
        /\ listeners' \in [Topics -> SUBSET Readers]
        /\ latest' \in [Topics -> Payloads \cup {None}]
        /\ holder' \in Topics \cup {None}
    BY <1>0, <2>1 DEF HubTypeOK, Steps
  <2>5. \A t \in Topics : step'[t] = "capture" => mine'[t] # None
    BY <2>1 DEF Typed
  <2> QED
    BY <1>0, <2>1, <2>2, <2>3, <2>4, <2>5 DEF Typed, HubTypeOK
<1>19. CASE UNCHANGED hubVars
  BY <1>19 DEF hubVars, Typed, HubTypeOK, dbVars, topicVars, streamVars
<1> QED
  BY <1>1, <1>2, <1>3, <1>4, <1>5, <1>6, <1>7, <1>8, <1>9, <1>10, <1>11, <1>12, <1>13,
     <1>14, <1>16, <1>17, <1>18, <1>19 DEF HubNext, TickStep, CaptureEnds

-----------------------------------------------------------------------------
(* The row.                                                                 *)

\* What the steps of one topic say of the others.
LEMMA RowFacts ==
    ASSUME Typed
    PROVE  /\ captures \in Nat /\ RowRev \in Nat /\ None \notin Topics
           /\ \A t \in Topics : /\ latest[t] # None => latest[t].rev \in Nat
                                /\ mine[t] # None => mine[t].rev \in Nat
           /\ holder # None => holder \in Topics
<1>1. HubConstants /\ HubTypeOK
  BY DEF Typed
<1>2. \A p \in Payloads : p.rev \in Nat
  BY <1>1, Numbers DEF Payloads
<1> HIDE DEF Payloads
<1> QED
  BY <1>1, <1>2, Numbers DEF HubTypeOK

\* A step that writes no row, takes no lock and only lets ticks forget.
LEMMA RowForget ==
    ASSUME Typed, RowOK, row' = row, captures' = captures,
           holder' = holder \/ holder' = None,
           holder' # None => step'[holder] = step[holder] /\ mine'[holder] = mine[holder],
           \A t \in Topics :
              /\ latest'[t] # None => latest'[t] = latest[t]
              /\ mine'[t] # None => mine'[t] = mine[t]
              /\ step'[t] = "after" /\ mine'[t] # None =>
                     step[t] = "after" /\ mine'[t] = mine[t]
    PROVE  RowOK'
<1>1. RowRev' = RowRev
  BY DEF RowRev
<1>2. OneWriter'
  BY <1>1 DEF RowOK, OneWriter
<1>3. RowLeads'
  BY <1>1 DEF RowOK, RowLeads
<1> QED
  BY <1>2, <1>3 DEF RowOK

\* A commit of the lock's holder writes what it captured or keeps the revision,
\* and its own tick goes on with what it captured or ends.
LEMMA RowCommit ==
    ASSUME Typed, RowOK, NEW t \in Topics, step[t] = "capture", holder = t,
           \/ row' = Refreshed(mine[t]) /\ Refreshed(mine[t]) # None
           \/ row' = Cooldown /\ Cooldown # None,
           holder' = None, captures' = captures,
           \A u \in Topics \ {t} :
              step'[u] = step[u] /\ mine'[u] = mine[u] /\ latest'[u] = latest[u],
           \/ row' = Refreshed(mine[t]) /\ mine'[t] = mine[t] /\ latest'[t] = latest[t]
           \/ mine'[t] = None /\ latest'[t] = None
    PROVE  RowOK'
<1>1. /\ RowRev \in Nat /\ captures \in Nat /\ mine[t] # None /\ mine[t].rev \in Nat
      /\ RowRev < mine[t].rev /\ mine[t].rev <= captures
  BY RowFacts DEF Typed, RowOK, OneWriter, RowLeads
<1>2. \/ RowRev' = mine[t].rev /\ row' = Refreshed(mine[t])
      \/ RowRev' = RowRev /\ row' = Cooldown
  <2>1. Refreshed(mine[t]).rev = mine[t].rev
    BY DEF Refreshed
  <2>2. Cooldown.rev = RowRev
    <3>1. CASE row = None
      BY <3>1 DEF Cooldown, RowRev
    <3>2. CASE row # None
      <4>1. row \in Rows
        BY <3>2 DEF Typed, HubTypeOK
      <4> QED
        BY <3>2, <4>1 DEF Cooldown, RowRev, Rows
    <3> QED
      BY <3>1, <3>2
  <2> QED
    BY <2>1, <2>2 DEF RowRev
<1>3. RowRev <= RowRev' /\ RowRev' <= captures' /\ RowRev' \in Nat
  BY <1>1, <1>2
<1>4. OneWriter'
  BY DEF OneWriter
<1>5. ASSUME NEW u \in Topics
      PROVE  /\ mine'[u] # None => mine'[u].rev <= captures'
             /\ latest'[u] # None => latest'[u].rev <= RowRev'
             /\ step'[u] = "after" /\ mine'[u] # None =>
                   /\ mine'[u].rev <= RowRev'
                   /\ latest'[u] # None => latest'[u].rev <= mine'[u].rev
  <2>1. CASE u # t
    BY <1>1, <1>3, <2>1, RowFacts DEF RowOK, RowLeads
  <2>2. CASE u = t /\ mine'[t] = None /\ latest'[t] = None
    BY <2>2
  <2>3. CASE u = t /\ row' = Refreshed(mine[t]) /\ mine'[t] = mine[t] /\ latest'[t] = latest[t]
    <3>1. RowRev' = mine[t].rev
      BY <2>3 DEF RowRev, Refreshed
    <3>2. latest[t] # None => latest[t].rev <= RowRev /\ latest[t].rev \in Nat
      BY RowFacts DEF RowOK, RowLeads
    <3> QED
      BY <1>1, <2>3, <3>1, <3>2
  <2> QED
    BY <2>1, <2>2, <2>3
<1>6. RowLeads'
  BY <1>3, <1>5 DEF RowLeads
<1> QED
  BY <1>4, <1>6 DEF RowOK

\* Every operation keeps what the row has.
LEMMA RowStep == Typed /\ RowOK /\ [HubNext]_hubVars => RowOK'
<1> SUFFICES ASSUME Typed, RowOK, [HubNext]_hubVars PROVE RowOK'
  OBVIOUS
<1>0. /\ HubConstants /\ HubTypeOK /\ None \notin Topics
      /\ holder # None => holder \in Topics /\ step[holder] = "capture"
      /\ step \in [Topics -> Steps] /\ mine \in [Topics -> Payloads \cup {None}]
      /\ latest \in [Topics -> Payloads \cup {None}]
  BY RowFacts DEF Typed, HubTypeOK, RowOK, OneWriter
<1>1. ASSUME UNCHANGED dbVars, UNCHANGED topicVars PROVE RowOK'
  BY <1>1, RowForget DEF dbVars, topicVars
<1>2. CASE Tick
  BY <1>1, <1>2 DEF Tick
<1>3. ASSUME NEW c \in Readers, NEW t \in Topics, Create(c, t) PROVE RowOK'
  <2>1. /\ step[t] = "idle" /\ step' = [step EXCEPT ![t] = "envelope"]
        /\ UNCHANGED <<row, holder, captures, mine, latest>>
    BY <1>3 DEF Create, UnusedTopic, Typed, dbVars
  <2>2. holder # t
    BY <1>0, <2>1
  <2> QED
    BY <1>0, <2>1, <2>2, RowForget
<1>4. ASSUME NEW c \in Readers, NEW t \in Topics, Join(c, t) PROVE RowOK'
  BY <1>1, <1>4 DEF Join
<1>5. ASSUME NEW t \in Topics, StartTick(t) PROVE RowOK'
  <2>1. holder # t
    BY <1>0, <1>5 DEF StartTick
  <2> QED
    BY <1>0, <1>5, <2>1, RowForget DEF StartTick, dbVars
<1>6. ASSUME NEW t \in Topics, ReadStored(t) PROVE RowOK'
  <2>1. /\ step[t] = "envelope" /\ mine' = [mine EXCEPT ![t] = Stored]
        /\ step' = [step EXCEPT ![t] = "after"]
        /\ UNCHANGED <<row, holder, captures, latest>>
    BY <1>6 DEF ReadStored, dbVars
  <2>2. RowRev' = RowRev /\ RowRev <= captures
    BY <2>1 DEF RowRev, RowOK, RowLeads
  <2>3. OneWriter'
    BY <1>0, <2>1, <2>2 DEF RowOK, OneWriter
  <2>4. Stored # None => Stored.rev = RowRev
    BY <1>0, Numbers
  <2>5. ASSUME NEW u \in Topics
        PROVE  /\ mine'[u] # None => mine'[u].rev <= captures'
               /\ latest'[u] # None => latest'[u].rev <= RowRev'
               /\ step'[u] = "after" /\ mine'[u] # None =>
                     /\ mine'[u].rev <= RowRev'
                     /\ latest'[u] # None => latest'[u].rev <= mine'[u].rev
    <3>1. CASE u = t
      <4>1. mine'[u] = Stored /\ latest'[u] = latest[u]
        BY <1>0, <2>1, <3>1
      <4> QED
        BY <1>0, <2>1, <2>2, <2>4, <4>1, RowFacts DEF RowOK, RowLeads
    <3>2. CASE u # t
      <4>1. mine'[u] = mine[u] /\ latest'[u] = latest[u] /\ step'[u] = step[u]
        BY <1>0, <2>1, <3>2
      <4> QED
        BY <2>1, <2>2, <4>1 DEF RowOK, RowLeads
    <3> QED
      BY <3>1, <3>2
  <2>6. RowLeads'
    BY <2>1, <2>2, <2>5 DEF RowLeads
  <2> QED
    BY <2>3, <2>6 DEF RowOK
<1>7. ASSUME NEW t \in Topics, BeginCapture(t) PROVE RowOK'
  <2> DEFINE begun == [rev |-> captures + 1, at |-> now]
  <2>1. /\ step[t] = "envelope" /\ mine' = [mine EXCEPT ![t] = begun]
        /\ step' = [step EXCEPT ![t] = "capture"] /\ holder' = t
        /\ captures' = captures + 1
        /\ UNCHANGED <<row, latest>>
    BY <1>7 DEF BeginCapture
  <2>2. RowRev' = RowRev /\ RowRev <= captures /\ RowRev \in Nat /\ captures \in Nat
    BY <2>1, RowFacts DEF RowRev, RowOK, RowLeads
  <2>3. begun.rev = captures + 1
    OBVIOUS
  <2> HIDE DEF begun
  <2>4. OneWriter'
    BY <1>0, <2>1, <2>2, <2>3 DEF OneWriter
  <2>5. \A u \in Topics : mine'[u] # None => mine'[u].rev <= captures'
    BY <1>0, <2>1, <2>2, <2>3, RowFacts DEF RowOK, RowLeads
  <2>6. RowLeads'
    BY <1>0, <2>1, <2>2, <2>5 DEF RowOK, RowLeads
  <2> QED
    BY <2>4, <2>6 DEF RowOK
<1>8. ASSUME NEW t \in Topics, Captured(t) PROVE RowOK'
  <2>1. mine[t] \in Payloads
    BY <1>0, <1>8 DEF Captured, Typed
  <2>2. /\ step[t] = "capture" /\ holder = t /\ row' = Refreshed(mine[t]) /\ holder' = None
        /\ captures' = captures /\ step' = [step EXCEPT ![t] = "after"]
        /\ UNCHANGED <<mine, latest>>
    BY <1>8 DEF Captured, CanCommit, Committed, Unlocked
  <2>3. Refreshed(mine[t]) # None
    BY <1>0, <2>1, Writes, Numbers
  <2> QED
    BY <1>0, <2>2, <2>3, RowCommit
<1>9. ASSUME NEW t \in Topics, TickFails(t)
      PROVE  /\ step' = [step EXCEPT ![t] = "idle"] /\ mine' = [mine EXCEPT ![t] = None]
             /\ latest' = [latest EXCEPT ![t] = None]
  BY <1>9 DEF TickFails, Left
<1>10. ASSUME NEW t \in Topics, CaptureFails(t) \/ CommitUnanswered(t) PROVE RowOK'
  <2>1. mine[t] \in Payloads
    BY <1>0, <1>10 DEF CaptureFails, CommitUnanswered, Typed
  <2>2. /\ step[t] = "capture" /\ holder = t /\ holder' = None
        /\ row' \in {Refreshed(mine[t]), Cooldown}
        /\ captures' = captures /\ TickFails(t)
    BY <1>10 DEF CaptureFails, CommitUnanswered, CanCommit, Committed, Unlocked
  <2>3. Refreshed(mine[t]) # None /\ Cooldown # None
    BY <1>0, <2>1, Writes, Numbers
  <2> QED
    BY <1>0, <1>9, <2>2, <2>3, RowCommit
<1>11. ASSUME NEW t \in Topics, SessionLost(t) PROVE RowOK'
  BY <1>0, <1>11, RowForget DEF SessionLost, topicVars
<1>12. ASSUME NEW t \in Topics, CommitRefused(t) \/ AwaitFails(t) PROVE RowOK'
  <2>1. TickFails(t) /\ UNCHANGED dbVars /\ holder # t
    BY <1>0, <1>12 DEF CommitRefused, AwaitFails, CanCommit
  <2> QED
    BY <1>0, <1>9, <2>1, RowForget DEF dbVars
<1>13. ASSUME NEW t \in Topics, Publish(t) PROVE RowOK'
  <2>1. /\ step[t] = "after" /\ mine[t] # None /\ mine' = [mine EXCEPT ![t] = None]
        /\ \E x : step' = [step EXCEPT ![t] = x]
        /\ \E x \in {None, mine[t]} : latest' = [latest EXCEPT ![t] = x]
        /\ UNCHANGED <<row, holder, captures>>
    BY <1>13 DEF Publish, Deliverable, Left, dbVars
  <2>2. RowRev' = RowRev /\ holder # t
    BY <1>0, <2>1 DEF RowRev
  <2>3. OneWriter'
    BY <1>0, <2>1, <2>2 DEF RowOK, OneWriter
  <2>4. RowLeads'
    BY <1>0, <2>1, <2>2 DEF RowOK, RowLeads
  <2> QED
    BY <2>3, <2>4 DEF RowOK
<1>14. ASSUME NEW t \in Topics, NothingToPublish(t) PROVE RowOK'
  <2>1. /\ step[t] = "after" /\ mine' = [mine EXCEPT ![t] = None]
        /\ \E x : step' = [step EXCEPT ![t] = x]
        /\ UNCHANGED <<row, holder, captures, latest>>
    BY <1>14 DEF NothingToPublish, dbVars
  <2>2. holder # t
    BY <1>0, <2>1
  <2> QED
    BY <1>0, <2>1, <2>2, RowForget
<1>15. ASSUME NEW c \in Readers, Leaves(c) PROVE RowOK'
  <2>1. PICK t \in Topics :
          /\ Left(t, listeners[t] \ {c}, latest[t])
          /\ step' = [step EXCEPT ![t] =
                         IF listeners[t] = {c} /\ @ = "timer" THEN "idle" ELSE @]
          /\ UNCHANGED <<dbVars, mine>>
    BY <1>15 DEF Leaves
  <2>2. \A u \in Topics : latest'[u] # None => latest'[u] = latest[u]
    BY <1>0, <2>1 DEF Left
  <2>3. \A u \in Topics : /\ step'[u] = "after" => step[u] = "after"
                          /\ step[u] = "capture" => step'[u] = step[u]
    BY <1>0, <2>1
  <2> QED
    BY <1>0, <2>1, <2>2, <2>3, RowForget DEF dbVars
<1>16. ASSUME NEW c \in Readers,
              Disconnect(c) \/ InitialTimeout(c) \/ AckTimeout(c) \/ Take(c)
       PROVE  RowOK'
  BY <1>1, <1>15, <1>16 DEF Disconnect, InitialTimeout, AckTimeout, Take
<1>17. ASSUME NEW r \in Replicas, Crash(r) PROVE RowOK'
  <2> DEFINE own == {t \in Topics : t[1] = r}
  <2>1. /\ step' = [t \in Topics |-> IF t \in own THEN "idle" ELSE step[t]]
        /\ mine' = [t \in Topics |-> IF t \in own THEN None ELSE mine[t]]
        /\ latest' = [t \in Topics |-> IF t \in own THEN None ELSE latest[t]]
        /\ holder' = IF holder \in own THEN None ELSE holder
        /\ UNCHANGED <<row, captures>>
    BY <1>17 DEF Crash
  <2> HIDE DEF own
  <2> QED
    BY <1>0, <2>1, RowForget
<1>18. CASE UNCHANGED hubVars
  BY <1>1, <1>18 DEF hubVars
<1> QED
  BY <1>2, <1>3, <1>4, <1>5, <1>6, <1>7, <1>8, <1>10, <1>11, <1>12, <1>13,
     <1>14, <1>16, <1>17, <1>18 DEF HubNext, TickStep, CaptureEnds

-----------------------------------------------------------------------------
(* The streams.                                                             *)

\* What the types say of a stream and a topic.
LEMMA StreamFacts ==
    ASSUME Typed
    PROVE  /\ \A c \in Readers : /\ wire[c] \in Seq(Payloads) /\ got[c] \in Nat
                                 /\ open[c] \in BOOLEAN
                                 /\ \A i \in DOMAIN wire[c] : wire[c][i].rev \in Nat \ {0}
           /\ \A t \in Topics : /\ LatestRev(t) \in Nat
                                /\ listeners[t] \subseteq Readers
                                /\ latest[t] # None =>
                                      latest[t] \in Payloads /\ latest[t].rev \in Nat \ {0}
                                /\ mine[t] # None =>
                                      mine[t] \in Payloads /\ mine[t].rev \in Nat \ {0}
<1>1. HubConstants /\ HubTypeOK
  BY DEF Typed
<1>2. \A p \in Payloads : p.rev \in Nat \ {0}
  BY <1>1, Numbers DEF Payloads
<1>3. \A c \in Readers : got[c] \in Nat
  BY <1>1, Numbers DEF HubTypeOK
<1> HIDE DEF Payloads
<1>4. \A c \in Readers : wire[c] \in Seq(Payloads) /\ open[c] \in BOOLEAN
  BY <1>1 DEF HubTypeOK
<1>5. \A c \in Readers : \A i \in DOMAIN wire[c] : wire[c][i] \in Payloads
  BY <1>4
<1> QED
  BY <1>1, <1>2, <1>3, <1>4, <1>5, Numbers DEF HubTypeOK, LatestRev

\* A step that reaches no stream and arms the timer of no stopped topic.
LEMMA StreamsKept ==
    ASSUME StreamsOK, UNCHANGED <<status, latest, listeners, open, wire, got>>,
           \A t \in Topics : status[t] = "stopped" => step'[t] # "timer"
    PROVE  StreamsOK'
BY DEF StreamsOK, NoOrphans, Apart, Bounded, LatestRev, Increasing

\* Streams are closed and leave their topics, of which the emptied ones stop.
LEMMA StreamsClose ==
    ASSUME Typed, StreamsOK, NEW cs, CloseStreams(cs),
           \A t \in Topics : listeners'[t] = listeners[t] \ cs,
           \A t \in Topics : listeners'[t] # {} <=> status'[t] = "live",
           \A t \in Topics : status'[t] = "stopped" => step'[t] # "timer",
           \A t \in Topics : listeners'[t] # {} => latest'[t] = latest[t]
    PROVE  StreamsOK'
<1>1. \A c \in Readers :
          /\ c \in cs => ~open'[c] /\ wire'[c] = <<>> /\ got'[c] = 0
          /\ c \notin cs => (open'[c] <=> open[c]) /\ wire'[c] = wire[c] /\ got'[c] = got[c]
  BY DEF CloseStreams
<1>2. \A t \in Topics : listeners[t] \subseteq Readers
  BY StreamFacts
<1>3. NoOrphans'
  BY <1>1, <1>2 DEF StreamsOK, NoOrphans
<1>4. Apart'
  BY DEF StreamsOK, Apart
<1>5. Bounded'
  <2>1. \A c \in Readers : ~open'[c] => got'[c] = 0 /\ wire'[c] = <<>>
    BY <1>1 DEF StreamsOK, Bounded
  <2>2. ASSUME NEW t \in Topics, NEW c \in listeners'[t]
        PROVE  /\ got'[c] <= LatestRev(t)'
               /\ \A i \in DOMAIN wire'[c] : wire'[c][i].rev <= LatestRev(t)'
    <3>1. c \in listeners[t] /\ wire'[c] = wire[c] /\ got'[c] = got[c]
      BY <1>1, <1>2, <2>2
    <3>2. LatestRev(t)' = LatestRev(t)
      BY <2>2 DEF LatestRev
    <3> QED
      BY <3>1, <3>2 DEF StreamsOK, Bounded
  <2> QED
    BY <2>1, <2>2 DEF Bounded
<1>6. \A c \in Readers : Increasing(c)'
  BY <1>1 DEF StreamsOK, Increasing
<1> QED
  BY <1>3, <1>4, <1>5, <1>6 DEF StreamsOK

\* A tick that fails closes the streams of its topic, which are in no other.
LEMMA StreamsFail ==
    ASSUME Typed, StreamsOK, NEW t \in Topics, TickFails(t)
    PROVE  StreamsOK'
<1>1. /\ listeners' = [listeners EXCEPT ![t] = {}]
      /\ status' = [status EXCEPT ![t] = "stopped"]
      /\ latest' = [latest EXCEPT ![t] = None]
      /\ step' = [step EXCEPT ![t] = "idle"]
      /\ CloseStreams(listeners[t])
  BY DEF TickFails, Left
<1>2. /\ listeners \in [Topics -> SUBSET Readers] /\ step \in [Topics -> Steps]
      /\ status \in [Topics -> {"unused", "live", "stopped"}]
      /\ latest \in [Topics -> Payloads \cup {None}]
  BY DEF Typed, HubTypeOK
<1>3. \A u \in Topics : listeners'[u] = listeners[u] \ listeners[t]
  BY <1>1, <1>2 DEF StreamsOK, Apart
<1>4. \A u \in Topics : /\ listeners'[u] # {} <=> status'[u] = "live"
                        /\ status'[u] = "stopped" => step'[u] # "timer"
                        /\ listeners'[u] # {} => latest'[u] = latest[u]
  BY <1>1, <1>2 DEF StreamsOK, NoOrphans
<1> QED
  BY <1>1, <1>3, <1>4, StreamsClose

\* A stream that leaves is in no other topic either.
LEMMA StreamsLeave ==
    ASSUME Typed, StreamsOK, NEW c \in Readers, Leaves(c)
    PROVE  StreamsOK'
<1>1. PICK t \in Topics :
        /\ c \in listeners[t]
        /\ Left(t, listeners[t] \ {c}, latest[t])
        /\ step' = [step EXCEPT ![t] =
                       IF listeners[t] = {c} /\ @ = "timer" THEN "idle" ELSE @]
        /\ CloseStreams({c})
  BY DEF Leaves
<1>2. /\ listeners \in [Topics -> SUBSET Readers] /\ step \in [Topics -> Steps]
      /\ status \in [Topics -> {"unused", "live", "stopped"}]
      /\ latest \in [Topics -> Payloads \cup {None}]
  BY DEF Typed, HubTypeOK
<1>3. \A u \in Topics : listeners'[u] = listeners[u] \ {c}
  BY <1>1, <1>2 DEF StreamsOK, Apart, Left
<1>4. ASSUME NEW u \in Topics
      PROVE  /\ listeners'[u] # {} <=> status'[u] = "live"
             /\ status'[u] = "stopped" => step'[u] # "timer"
             /\ listeners'[u] # {} => latest'[u] = latest[u]
  <2>1. CASE u # t
    BY <1>1, <1>2, <2>1 DEF StreamsOK, NoOrphans, Left
  <2>2. CASE u = t
    <3>1. status[t] = "live" /\ listeners'[t] = listeners[t] \ {c}
      BY <1>1, <1>2 DEF StreamsOK, NoOrphans, Left
    <3>2. CASE listeners[t] = {c}
      <4>1. status'[t] = "stopped" /\ step'[t] # "timer" /\ listeners'[t] = {}
        BY <1>1, <1>2, <3>1, <3>2 DEF Left
      <4> QED
        BY <2>2, <4>1
    <3>3. CASE listeners[t] # {c}
      <4>1. listeners'[t] # {} /\ status'[t] = "live" /\ latest'[t] = latest[t]
        BY <1>1, <1>2, <3>1, <3>3 DEF Left
      <4> QED
        BY <2>2, <4>1
    <3> QED
      BY <3>2, <3>3
  <2> QED
    BY <2>1, <2>2
<1> QED
  BY <1>1, <1>3, <1>4, StreamsClose

\* The replica that dies closes its own streams alone.
LEMMA StreamsCrash ==
    ASSUME Typed, StreamsOK, NEW r \in Replicas, Crash(r)
    PROVE  StreamsOK'
<1> DEFINE own == {t \in Topics : t[1] = r}
           cs == UNION {listeners[t] : t \in own}
<1>1. /\ status' = [t \in Topics |->
                       IF t \in own /\ status[t] = "live" THEN "stopped" ELSE status[t]]
      /\ step' = [t \in Topics |-> IF t \in own THEN "idle" ELSE step[t]]
      /\ listeners' = [t \in Topics |-> IF t \in own THEN {} ELSE listeners[t]]
      /\ latest' = [t \in Topics |-> IF t \in own THEN None ELSE latest[t]]
      /\ CloseStreams(cs)
  BY DEF Crash
<1>2. own \subseteq Topics
  OBVIOUS
<1> HIDE DEF own
<1>3. \A t \in Topics : listeners'[t] = listeners[t] \ cs
  BY <1>1, <1>2 DEF StreamsOK, Apart
<1>4. \A t \in Topics : /\ listeners'[t] # {} <=> status'[t] = "live"
                        /\ status'[t] = "stopped" => step'[t] # "timer"
                        /\ listeners'[t] # {} => latest'[t] = latest[t]
  BY <1>1 DEF StreamsOK, NoOrphans
<1> HIDE DEF cs
<1> QED
  BY <1>1, <1>3, <1>4, StreamsClose

\* The first subscriber of a topic that nobody was in.
LEMMA StreamsCreate ==
    ASSUME Typed, StreamsOK, NEW c \in Readers, NEW t \in Topics, Create(c, t)
    PROVE  StreamsOK'
<1>1. /\ ~open[c] /\ status[t] = "unused"
      /\ status' = [status EXCEPT ![t] = "live"]
      /\ step' = [step EXCEPT ![t] = "envelope"]
      /\ listeners' = [listeners EXCEPT ![t] = {c}]
      /\ open' = [open EXCEPT ![c] = TRUE]
      /\ UNCHANGED <<latest, wire, got>>
  BY DEF Create, UnusedTopic
<1>2. /\ listeners \in [Topics -> SUBSET Readers] /\ step \in [Topics -> Steps]
      /\ status \in [Topics -> {"unused", "live", "stopped"}]
      /\ open \in [Readers -> BOOLEAN]
  BY DEF Typed, HubTypeOK
<1>3. /\ listeners[t] = {} /\ wire[c] = <<>> /\ got[c] = 0
      /\ \A u \in Topics : c \notin listeners[u]
  BY <1>1 DEF StreamsOK, NoOrphans, Bounded
<1>4. \A d \in Readers : open'[d] <=> d = c \/ open[d]
  BY <1>1, <1>2
<1>5. NoOrphans'
  BY <1>1, <1>2, <1>3, <1>4 DEF StreamsOK, NoOrphans
<1>6. Apart'
  BY <1>1, <1>2, <1>3 DEF StreamsOK, Apart
<1>7. Bounded'
  <2>1. \A d \in Readers : ~open'[d] => got'[d] = 0 /\ wire'[d] = <<>>
    BY <1>1, <1>4 DEF StreamsOK, Bounded
  <2>2. ASSUME NEW u \in Topics, NEW d \in listeners'[u]
        PROVE  /\ got'[d] <= LatestRev(u)'
               /\ \A i \in DOMAIN wire'[d] : wire'[d][i].rev <= LatestRev(u)'
    <3>1. LatestRev(u)' = LatestRev(u) /\ LatestRev(u) \in Nat
      BY <1>1, StreamFacts DEF LatestRev
    <3>2. CASE d = c
      BY <1>1, <1>3, <3>1, <3>2
    <3>3. CASE d # c
      <4>1. d \in listeners[u]
        BY <1>1, <1>2, <2>2, <3>3
      <4> QED
        BY <1>1, <3>1, <4>1 DEF StreamsOK, Bounded
    <3> QED
      BY <3>2, <3>3
  <2> QED
    BY <2>1, <2>2 DEF Bounded
<1>8. \A d \in Readers : Increasing(d)'
  BY <1>1 DEF StreamsOK, Increasing
<1> QED
  BY <1>5, <1>6, <1>7, <1>8 DEF StreamsOK

\* A later subscriber starts with the topic's latest or with nothing.
LEMMA StreamsJoin ==
    ASSUME Typed, StreamsOK, NEW c \in Readers, NEW t \in Topics, Join(c, t)
    PROVE  StreamsOK'
<1>1. CASE JoinRefused(c, t)
  BY <1>1, StreamsKept DEF Join, JoinRefused, topicVars, StreamsOK, NoOrphans
<1>2. ASSUME NEW frames, JoinAccepted(c, t, frames),
             frames = <<>> \/ (latest[t] # None /\ frames = <<latest[t]>>)
      PROVE  StreamsOK'
  <2>1. /\ ~open[c] /\ status[t] = "live"
        /\ listeners' = [listeners EXCEPT ![t] = @ \cup {c}]
        /\ open' = [open EXCEPT ![c] = TRUE]
        /\ wire' = [wire EXCEPT ![c] = frames]
        /\ UNCHANGED <<status, step, latest, got>>
    BY <1>2 DEF Join, JoinAccepted, topicVars
  <2>2. /\ listeners \in [Topics -> SUBSET Readers] /\ open \in [Readers -> BOOLEAN]
        /\ wire \in [Readers -> Seq(Payloads)]
    BY DEF Typed, HubTypeOK
  <2>3. /\ got[c] = 0 /\ \A u \in Topics : c \notin listeners[u]
    BY <2>1 DEF StreamsOK, NoOrphans, Bounded
  <2>4. \A d \in Readers : open'[d] <=> d = c \/ open[d]
    BY <2>1, <2>2
  <2>5. \A u \in Topics : listeners'[u] = IF u = t THEN listeners[t] \cup {c} ELSE listeners[u]
    BY <2>1, <2>2
  <2>6. \A d \in Readers : wire'[d] = IF d = c THEN frames ELSE wire[d]
    BY <2>1, <2>2
  <2>7. \A i \in DOMAIN frames : /\ i = 1 /\ frames[i].rev = LatestRev(t)
                                 /\ frames[i].rev \in Nat \ {0}
    BY <1>2, StreamFacts DEF LatestRev
  <2>8. NoOrphans'
    BY <2>1, <2>4, <2>5 DEF StreamsOK, NoOrphans
  <2>9. Apart'
    BY <2>3, <2>5 DEF StreamsOK, Apart
  <2>10. Bounded'
    <3>1. \A d \in Readers : ~open'[d] => got'[d] = 0 /\ wire'[d] = <<>>
      BY <2>1, <2>4, <2>6 DEF StreamsOK, Bounded
    <3>2. ASSUME NEW u \in Topics, NEW d \in listeners'[u]
          PROVE  /\ got'[d] <= LatestRev(u)'
                 /\ \A i \in DOMAIN wire'[d] : wire'[d][i].rev <= LatestRev(u)'
      <4>1. LatestRev(u)' = LatestRev(u) /\ LatestRev(u) \in Nat
        BY <2>1, StreamFacts DEF LatestRev
      <4>2. CASE d = c
        <5>1. u = t /\ wire'[d] = frames /\ got'[d] = 0
          BY <2>1, <2>3, <2>5, <2>6, <4>2
        <5> QED
          BY <2>7, <4>1, <5>1
      <4>3. CASE d # c
        <5>1. d \in listeners[u] /\ d \in Readers
          BY <2>5, <3>2, <4>3, StreamFacts
        <5>2. wire'[d] = wire[d] /\ got'[d] = got[d]
          BY <2>1, <2>6, <4>3, <5>1
        <5> QED
          BY <4>1, <5>1, <5>2 DEF StreamsOK, Bounded
      <4> QED
        BY <4>2, <4>3
    <3> QED
      BY <3>1, <3>2 DEF Bounded
  <2>11. ASSUME NEW d \in Readers PROVE Increasing(d)'
    <3>1. CASE d = c
      <4>1. wire'[d] = frames /\ got'[d] = 0
        BY <2>1, <2>3, <2>6, <3>1
      <4> QED
        BY <2>7, <4>1 DEF Increasing
    <3>2. CASE d # c
      BY <2>1, <2>6, <3>2 DEF StreamsOK, Increasing
    <3> QED
      BY <3>1, <3>2
  <2> QED
    BY <2>8, <2>9, <2>10, <2>11 DEF StreamsOK
<1> QED
  BY <1>1, <1>2 DEF Join

\* A new revision is newer than all that its topic's streams were sent.
LEMMA StreamsPublish ==
    ASSUME Typed, RowOK, StreamsOK, NEW t \in Topics, Publish(t)
    PROVE  StreamsOK'
<1> DEFINE stay == {c \in listeners[t] : StaysOpen(c, mine[t])}
           gone == listeners[t] \ stay
<1>1. /\ step[t] = "after" /\ status[t] = "live" /\ mine[t] # None
      /\ latest[t] # None => latest[t].rev # mine[t].rev
      /\ Left(t, stay, mine[t])
      /\ step' = [step EXCEPT ![t] = Rearmed(stay)]
      /\ open' = [c \in Readers |-> open[c] /\ c \notin gone]
      /\ wire' = [c \in Readers |-> IF c \in stay THEN Append(wire[c], mine[t])
                                    ELSE IF c \in gone THEN <<>> ELSE wire[c]]
      /\ got' = [c \in Readers |-> IF c \in gone THEN 0 ELSE got[c]]
  BY DEF Publish, Deliverable, Changed
<1>2. stay \subseteq listeners[t] /\ listeners[t] \subseteq Readers
  BY StreamFacts
<1>3. gone = listeners[t] \ stay
  OBVIOUS
<1> HIDE DEF stay, gone
<1>4. /\ listeners \in [Topics -> SUBSET Readers] /\ step \in [Topics -> Steps]
      /\ status \in [Topics -> {"unused", "live", "stopped"}]
      /\ latest \in [Topics -> Payloads \cup {None}]
  BY DEF Typed, HubTypeOK
<1>5. \A u \in Topics : /\ listeners'[u] = IF u = t THEN stay ELSE listeners[u]
                        /\ status'[u] = IF u = t /\ stay = {} THEN "stopped" ELSE status[u]
                        /\ u # t => latest'[u] = latest[u] /\ step'[u] = step[u]
                        /\ u = t /\ stay # {} => latest'[u] = mine[t]
                        /\ u = t /\ stay = {} => step'[u] = "idle"
  BY <1>1, <1>4 DEF Left, Rearmed
<1>6. \A c \in Readers : c \in listeners[t] => \A u \in Topics : c \in listeners[u] => u = t
  BY DEF StreamsOK, Apart
<1>7. LatestRev(t) < mine[t].rev /\ LatestRev(t) \in Nat /\ mine[t].rev \in Nat \ {0}
  <2>1. CASE latest[t] = None
    BY <1>1, <2>1, StreamFacts DEF LatestRev
  <2>2. CASE latest[t] # None
    <3>1. latest[t].rev <= mine[t].rev
      BY <1>1, <2>2 DEF RowOK, RowLeads
    <3> QED
      BY <1>1, <2>2, <3>1, StreamFacts DEF LatestRev
  <2> QED
    BY <2>1, <2>2
<1>8. NoOrphans'
  <2>1. \A u \in Topics : /\ listeners'[u] # {} <=> status'[u] = "live"
                          /\ status'[u] = "stopped" => step'[u] # "timer"
    BY <1>1, <1>5 DEF StreamsOK, NoOrphans
  <2>2. \A u \in Topics : \A c \in listeners'[u] : open'[c]
    <3> SUFFICES ASSUME NEW u \in Topics, NEW c \in listeners'[u] PROVE open'[c]
      OBVIOUS
    <3>1. c \in listeners[u] /\ c \in Readers /\ (u = t => c \in stay)
      BY <1>2, <1>5, StreamFacts
    <3>2. open[c] /\ c \notin gone
      BY <1>3, <1>6, <3>1 DEF StreamsOK, NoOrphans
    <3> QED
      BY <1>1, <3>1, <3>2
  <2>3. \A c \in Readers : open'[c] => \E u \in Topics : c \in listeners'[u]
    <3> SUFFICES ASSUME NEW c \in Readers, open'[c] PROVE \E u \in Topics : c \in listeners'[u]
      OBVIOUS
    <3>1. open[c] /\ c \notin gone
      BY <1>1
    <3>2. PICK u \in Topics : c \in listeners[u]
      BY <3>1 DEF StreamsOK, NoOrphans
    <3> QED
      BY <1>3, <1>5, <3>1, <3>2
  <2> QED
    BY <2>1, <2>2, <2>3 DEF NoOrphans
<1>9. Apart'
  BY <1>2, <1>5 DEF StreamsOK, Apart
<1>10. ASSUME NEW c \in stay
       PROVE  /\ wire'[c] = Append(wire[c], mine[t]) /\ got'[c] = got[c] /\ c \in Readers
              /\ DOMAIN wire'[c] = 1..(Len(wire[c]) + 1)
              /\ DOMAIN wire[c] = 1..Len(wire[c]) /\ Len(wire[c]) \in Nat
              /\ \A i \in DOMAIN wire[c] : wire'[c][i] = wire[c][i]
              /\ wire'[c][Len(wire[c]) + 1] = mine[t]
              /\ got[c] < mine[t].rev
              /\ \A i \in DOMAIN wire[c] : wire[c][i].rev < mine[t].rev
  <2>1. c \in listeners[t] /\ c \in Readers /\ c \notin gone
    BY <1>2, <1>3, <1>10
  <2>2. wire'[c] = Append(wire[c], mine[t]) /\ got'[c] = got[c]
    BY <1>1, <1>10, <2>1
  <2>3. wire[c] \in Seq(Payloads) /\ got[c] \in Nat
        /\ \A i \in DOMAIN wire[c] : wire[c][i].rev \in Nat \ {0}
    BY <2>1, StreamFacts
  <2>4. got[c] <= LatestRev(t) /\ \A i \in DOMAIN wire[c] : wire[c][i].rev <= LatestRev(t)
    BY <2>1 DEF StreamsOK, Bounded
  <2>5. got[c] < mine[t].rev /\ \A i \in DOMAIN wire[c] : wire[c][i].rev < mine[t].rev
    BY <1>7, <2>3, <2>4
  <2>6. mine[t] \in Payloads
    BY <1>1, StreamFacts
  <2> HIDE DEF Payloads
  <2> QED
    BY <2>1, <2>2, <2>3, <2>5, <2>6
<1>11. \A c \in Readers \ stay :
          \/ c \in gone /\ ~open'[c] /\ wire'[c] = <<>> /\ got'[c] = 0
          \/ c \notin gone /\ (open'[c] <=> open[c]) /\ wire'[c] = wire[c] /\ got'[c] = got[c]
  BY <1>1
<1>12. Bounded'
  <2>1. \A c \in Readers : ~open'[c] => got'[c] = 0 /\ wire'[c] = <<>>
    <3> SUFFICES ASSUME NEW c \in Readers, ~open'[c] PROVE got'[c] = 0 /\ wire'[c] = <<>>
      OBVIOUS
    <3>1. c \notin stay
      BY <1>2, <1>5, <1>8 DEF NoOrphans
    <3> QED
      BY <1>11, <3>1 DEF StreamsOK, Bounded
  <2>2. ASSUME NEW u \in Topics, NEW c \in listeners'[u]
        PROVE  /\ got'[c] <= LatestRev(u)'
               /\ \A i \in DOMAIN wire'[c] : wire'[c][i].rev <= LatestRev(u)'
    <3>1. CASE u = t
      <4>1. c \in stay /\ LatestRev(u)' = mine[t].rev
        BY <1>1, <1>5, <2>2, <3>1 DEF LatestRev
      <4>2. got[c] \in Nat /\ \A i \in DOMAIN wire[c] : wire[c][i].rev \in Nat
        BY <1>10, <4>1, StreamFacts
      <4>3. ASSUME NEW i \in DOMAIN wire'[c] PROVE wire'[c][i].rev <= mine[t].rev
        <5>1. CASE i \in DOMAIN wire[c]
          BY <1>7, <1>10, <4>1, <4>2, <5>1
        <5>2. CASE i = Len(wire[c]) + 1
          BY <1>7, <1>10, <4>1, <5>2
        <5> QED
          BY <1>10, <4>1, <5>1, <5>2
      <4> QED
        BY <1>7, <1>10, <4>1, <4>2, <4>3
    <3>2. CASE u # t
      <4>1. c \in listeners[u] /\ c \in Readers /\ LatestRev(u)' = LatestRev(u)
        BY <1>5, <2>2, <3>2, StreamFacts DEF LatestRev
      <4>2. c \notin stay /\ c \notin gone
        BY <1>2, <1>3, <1>6, <3>2, <4>1
      <4> QED
        BY <1>11, <4>1, <4>2 DEF StreamsOK, Bounded
    <3> QED
      BY <3>1, <3>2
  <2> QED
    BY <2>1, <2>2 DEF Bounded
<1>13. ASSUME NEW c \in Readers PROVE Increasing(c)'
  <2>1. CASE c \in stay
    <3>1. Increasing(c)
      BY DEF StreamsOK
    <3>2. ASSUME NEW i \in DOMAIN wire'[c] PROVE got'[c] < wire'[c][i].rev
      BY <1>10, <2>1, <3>1 DEF Increasing
    <3>3. ASSUME NEW i \in DOMAIN wire'[c], NEW j \in DOMAIN wire'[c], i < j
          PROVE  wire'[c][i].rev < wire'[c][j].rev
      <4>1. i \in DOMAIN wire[c]
        BY <1>10, <2>1, <3>3
      <4>2. CASE j \in DOMAIN wire[c]
        BY <1>10, <2>1, <3>1, <3>3, <4>1, <4>2 DEF Increasing
      <4>3. CASE j = Len(wire[c]) + 1
        BY <1>10, <2>1, <4>1, <4>3
      <4> QED
        BY <1>10, <2>1, <3>3, <4>2, <4>3
    <3> QED
      BY <3>2, <3>3 DEF Increasing
  <2>2. CASE c \notin stay
    BY <1>11, <2>2 DEF StreamsOK, Increasing
  <2> QED
    BY <2>1, <2>2
<1> QED
  BY <1>8, <1>9, <1>12, <1>13 DEF StreamsOK

\* The frame that a reader takes was the oldest of its stream.
LEMMA StreamsTake ==
    ASSUME Typed, StreamsOK, NEW c \in Readers, Take(c)
    PROVE  StreamsOK'
<1>1. /\ open[c] /\ wire[c] # <<>> /\ got' = [got EXCEPT ![c] = Head(wire[c]).rev]
      /\ wire' = [wire EXCEPT ![c] = Tail(@)]
      /\ UNCHANGED <<status, step, latest, listeners, open>>
  BY DEF Take, topicVars
<1>2. /\ wire \in [Readers -> Seq(Payloads)] /\ got \in [Readers -> 0..MaxCaptures]
  BY DEF Typed, HubTypeOK
<1> HIDE DEF Payloads
<1>3. /\ \A d \in Readers \ {c} : wire'[d] = wire[d] /\ got'[d] = got[d]
      /\ wire'[c] = Tail(wire[c]) /\ got'[c] = wire[c][1].rev
      /\ wire[c] \in Seq(Payloads)
  BY <1>1, <1>2
<1>4. /\ 1 \in DOMAIN wire[c]
      /\ \A i \in DOMAIN wire'[c] : /\ i + 1 \in DOMAIN wire[c] /\ i \in Nat \ {0}
                                    /\ wire'[c][i] = wire[c][i + 1]
  <2> DEFINE queue == wire[c]
  <2>1. queue \in Seq(Payloads) /\ queue # <<>>
    BY <1>1, <1>3
  <2> HIDE DEF queue
  <2>2. /\ 1 \in DOMAIN queue
        /\ \A i \in DOMAIN Tail(queue) : /\ i + 1 \in DOMAIN queue /\ i \in Nat \ {0}
                                         /\ Tail(queue)[i] = queue[i + 1]
    BY <2>1
  <2> QED
    BY <1>3, <2>2 DEF queue
<1>5. NoOrphans' /\ Apart'
  BY <1>1 DEF StreamsOK, NoOrphans, Apart
<1>6. Bounded'
  <2>1. \A d \in Readers : ~open'[d] => got'[d] = 0 /\ wire'[d] = <<>>
    BY <1>1, <1>3 DEF StreamsOK, Bounded
  <2>2. ASSUME NEW u \in Topics, NEW d \in listeners'[u]
        PROVE  /\ got'[d] <= LatestRev(u)'
               /\ \A i \in DOMAIN wire'[d] : wire'[d][i].rev <= LatestRev(u)'
    <3>1. LatestRev(u)' = LatestRev(u) /\ d \in listeners[u] /\ d \in Readers
      BY <1>1, <2>2, StreamFacts DEF LatestRev
    <3>2. /\ got[d] <= LatestRev(u)
          /\ \A i \in DOMAIN wire[d] : wire[d][i].rev <= LatestRev(u)
      BY <3>1 DEF StreamsOK, Bounded
    <3>3. CASE d = c
      BY <1>3, <1>4, <3>1, <3>2, <3>3
    <3>4. CASE d # c
      BY <1>3, <3>1, <3>2, <3>4
    <3> QED
      BY <3>3, <3>4
  <2> QED
    BY <2>1, <2>2 DEF Bounded
<1>7. ASSUME NEW d \in Readers PROVE Increasing(d)'
  <2>0. Increasing(d)
    BY DEF StreamsOK
  <2>1. CASE d = c
    <3>1. \A i \in DOMAIN wire'[c] : got'[c] < wire'[c][i].rev
      BY <1>3, <1>4, <2>0, <2>1 DEF Increasing
    <3>2. \A i, j \in DOMAIN wire'[c] : i < j => wire'[c][i].rev < wire'[c][j].rev
      BY <1>4, <2>0, <2>1 DEF Increasing
    <3> QED
      BY <2>1, <3>1, <3>2 DEF Increasing
  <2>2. CASE d # c
    BY <1>3, <2>0, <2>2 DEF Increasing
  <2> QED
    BY <2>1, <2>2
<1> QED
  BY <1>5, <1>6, <1>7 DEF StreamsOK

\* Every operation keeps the streams apart and in order.
LEMMA StreamsStep == Typed /\ RowOK /\ StreamsOK /\ [HubNext]_hubVars => StreamsOK'
<1> SUFFICES ASSUME Typed, RowOK, StreamsOK, [HubNext]_hubVars PROVE StreamsOK'
  OBVIOUS
<1>0. /\ step \in [Topics -> Steps]
      /\ \A t \in Topics : /\ status[t] = "stopped" => step[t] # "timer"
                           /\ status[t] = "stopped" => listeners[t] = {}
  BY DEF Typed, HubTypeOK, StreamsOK, NoOrphans
<1>1. CASE Tick
  BY <1>0, <1>1, StreamsKept DEF Tick, topicVars, streamVars
<1>2. ASSUME NEW c \in Readers, NEW t \in Topics, Create(c, t) \/ Join(c, t) PROVE StreamsOK'
  BY <1>2, StreamsCreate, StreamsJoin
<1>3. ASSUME NEW t \in Topics,
             \/ StartTick(t) \/ ReadStored(t) \/ BeginCapture(t) \/ Captured(t)
             \/ SessionLost(t) \/ NothingToPublish(t)
      PROVE  StreamsOK'
  <2>1. UNCHANGED <<status, latest, listeners, open, wire, got>>
    BY <1>3 DEF StartTick, ReadStored, BeginCapture, Captured, SessionLost, NothingToPublish,
                topicVars, streamVars
  <2>2. \/ step' = step \/ step' = [step EXCEPT ![t] = "envelope"]
        \/ step' = [step EXCEPT ![t] = "after"] \/ step' = [step EXCEPT ![t] = "capture"]
        \/ step' = [step EXCEPT ![t] = IF listeners[t] = {} THEN "idle" ELSE "timer"]
    BY <1>3 DEF StartTick, ReadStored, BeginCapture, Captured, SessionLost, NothingToPublish,
                topicVars, Rearmed
  <2>3. \A u \in Topics : status[u] = "stopped" => step'[u] # "timer"
    BY <1>0, <2>2
  <2> QED
    BY <2>1, <2>3, StreamsKept
<1>4. ASSUME NEW t \in Topics,
             CaptureFails(t) \/ CommitUnanswered(t) \/ CommitRefused(t) \/ AwaitFails(t)
      PROVE  StreamsOK'
  BY <1>4, StreamsFail DEF CaptureFails, CommitUnanswered, CommitRefused, AwaitFails
<1>5. ASSUME NEW t \in Topics, Publish(t) PROVE StreamsOK'
  BY <1>5, StreamsPublish
<1>6. ASSUME NEW c \in Readers, Disconnect(c) \/ InitialTimeout(c) \/ AckTimeout(c)
      PROVE  StreamsOK'
  BY <1>6, StreamsLeave DEF Disconnect, InitialTimeout, AckTimeout
<1>7. ASSUME NEW c \in Readers, Take(c) PROVE StreamsOK'
  BY <1>7, StreamsTake
<1>8. ASSUME NEW r \in Replicas, Crash(r) PROVE StreamsOK'
  BY <1>8, StreamsCrash
<1>9. CASE UNCHANGED hubVars
  BY <1>0, <1>9, StreamsKept DEF hubVars, topicVars, streamVars
<1> QED
  BY <1>1, <1>2, <1>3, <1>4, <1>5, <1>6, <1>7, <1>8, <1>9 DEF HubNext, TickStep, CaptureEnds

-----------------------------------------------------------------------------
(* Theorems.                                                                *)

\* At first there is no row, no topic and no stream.
LEMMA HubStart == ASSUME HubConstants PROVE HubInit => HubInv
<1> SUFFICES ASSUME HubInit PROVE HubInv
  OBVIOUS
<1>1. Typed
  <2>1. <<>> \in Seq(Payloads)
    OBVIOUS
  <2> QED
    BY <2>1 DEF HubConstants, HubInit, Typed, HubTypeOK, Steps
<1>2. RowOK
  BY DEF HubInit, RowOK, OneWriter, RowLeads, RowRev
<1>3. StreamsOK
  BY DEF HubConstants, HubInit, StreamsOK, NoOrphans, Apart, Bounded, Increasing, LatestRev
<1> QED
  BY <1>1, <1>2, <1>3 DEF HubInv

\* Every step keeps the invariant.
LEMMA HubStep == HubInv /\ [HubNext]_hubVars => HubInv'
BY TypesStep, RowStep, StreamsStep DEF HubInv

\* The variables keep their types whatever the readers, replicas and sessions do.
THEOREM HubTypes == HubConstants => (HubSpec => []HubTypeOK)
<1> SUFFICES ASSUME HubConstants PROVE HubSpec => []HubTypeOK
  OBVIOUS
<1>1. HubInv => HubTypeOK
  BY DEF HubInv, Typed
<1> QED
  BY HubStart, HubStep, <1>1, PTL DEF HubSpec

\* subscribe, unsubscribe, close and stop: no interleaving of joining, leaving,
\* failing and dying leaves a stream without a topic, a topic without streams,
\* or a timer to a topic that has stopped.
THEOREM NobodyIsOrphaned == HubConstants => (HubSpec => []NoOrphans)
<1> SUFFICES ASSUME HubConstants PROVE HubSpec => []NoOrphans
  OBVIOUS
<1>1. HubInv => NoOrphans
  BY DEF HubInv, StreamsOK
<1> QED
  BY HubStart, HubStep, <1>1, PTL DEF HubSpec

\* What a stream has taken and has yet to take, as one increasing sequence.
LEMMA Ordered == HubInv => InOrder
<1> SUFFICES ASSUME HubInv, NEW c \in Readers
             PROVE  LET seen == <<got[c]>> \o [i \in DOMAIN wire[c] |-> wire[c][i].rev]
                    IN \A i, j \in DOMAIN seen : i < j => seen[i] < seen[j]
  BY DEF InOrder
<1> DEFINE revs == [i \in DOMAIN wire[c] |-> wire[c][i].rev]
           seen == <<got[c]>> \o revs
<1>1. /\ wire[c] \in Seq(Payloads) /\ got[c] \in Nat
      /\ \A i \in DOMAIN wire[c] : wire[c][i].rev \in Nat
  BY StreamFacts DEF HubInv
<1>2. revs \in Seq(Nat) /\ Len(revs) = Len(wire[c]) /\ Len(revs) \in Nat
  BY <1>1
<1>3. /\ DOMAIN seen = 1..(Len(revs) + 1) /\ seen[1] = got[c]
      /\ \A i \in 1..Len(revs) : seen[i + 1] = wire[c][i].rev
  BY <1>1, <1>2
<1>4. Increasing(c) /\ DOMAIN wire[c] = 1..Len(revs)
  BY <1>1, <1>2 DEF HubInv, StreamsOK
<1> HIDE DEF seen, revs
<1>5. ASSUME NEW i \in DOMAIN seen, NEW j \in DOMAIN seen, i < j PROVE seen[i] < seen[j]
  <2>1. j - 1 \in DOMAIN wire[c] /\ seen[j] = wire[c][j - 1].rev
    BY <1>2, <1>3, <1>4, <1>5
  <2>2. CASE i = 1
    BY <1>3, <1>4, <2>1, <2>2 DEF Increasing
  <2>3. CASE i # 1
    <3>1. i - 1 \in DOMAIN wire[c] /\ seen[i] = wire[c][i - 1].rev /\ i - 1 < j - 1
      BY <1>2, <1>3, <1>4, <1>5, <2>3
    <3> QED
      BY <1>4, <2>1, <3>1 DEF Increasing
  <2> QED
    BY <2>2, <2>3
<1> QED
  BY <1>5 DEF seen, revs

\* sharedDuskSnapshot and createDuskSnapshotHub together: a stream's frames are
\* captures in the order they were begun, each once, whichever replica's session
\* captured them, lost its lock or had its COMMIT unanswered.
THEOREM FramesAreInOrder == HubConstants => (HubSpec => []InOrder)
<1> SUFFICES ASSUME HubConstants PROVE HubSpec => []InOrder
  OBVIOUS
<1> QED
  BY HubStart, HubStep, Ordered, PTL DEF HubSpec

\* tick's second envelope and subscribe's first frame: what is written to a
\* stream has not expired when it is written.
THEOREM FramesAreFresh == HubConstants => (HubSpec => FreshFrames)
<1> SUFFICES ASSUME HubConstants PROVE HubSpec => FreshFrames
  OBVIOUS
<1> DEFINE Fresh == \A c \in Readers :
              Len(wire'[c]) > Len(wire[c]) => ~Expired(wire'[c][Len(wire'[c])])
<1>1. HubInv /\ [HubNext]_hubVars => [Fresh]_hubVars
  <2> SUFFICES ASSUME HubInv, HubNext, NEW c \in Readers, Len(wire'[c]) > Len(wire[c])
               PROVE  ~Expired(wire'[c][Len(wire'[c])])
    OBVIOUS
  <2>0. Typed /\ wire \in [Readers -> Seq(Payloads)] /\ wire[c] \in Seq(Payloads)
    BY DEF HubInv, Typed, HubTypeOK
  <2> HIDE DEF Payloads
  <2>1. Len(wire[c]) \in Nat /\ Len(<<>>) = 0 /\ wire'[c] # wire[c] /\ wire'[c] # <<>>
    BY <2>0
  <2>2. ASSUME NEW cs, CloseStreams(cs) PROVE FALSE
    BY <2>1, <2>2 DEF CloseStreams
  <2>3. ASSUME NEW t \in Topics, TickFails(t) PROVE FALSE
    BY <2>2, <2>3 DEF TickFails
  <2>4. ASSUME NEW d \in Readers, Leaves(d) PROVE FALSE
    BY <2>2, <2>4 DEF Leaves
  <2>5. ASSUME wire' = wire PROVE FALSE
    BY <2>1, <2>5
  <2>6. ASSUME NEW d \in Readers, Take(d) PROVE FALSE
    <3>1. wire[d] \in Seq(Payloads) /\ wire[d] # <<>> /\ wire' = [wire EXCEPT ![d] = Tail(@)]
      BY <2>0, <2>6 DEF Take
    <3>2. Len(Tail(wire[d])) = Len(wire[d]) - 1
      BY <3>1
    <3>3. wire'[c] = IF c = d THEN Tail(wire[d]) ELSE wire[c]
      BY <2>0, <3>1
    <3> QED
      BY <2>1, <3>2, <3>3
  <2>7. ASSUME NEW d \in Readers, NEW t \in Topics, Join(d, t)
        PROVE  ~Expired(wire'[c][Len(wire'[c])])
    <3>1. ASSUME NEW frames, JoinAccepted(d, t, frames) PROVE wire'[c] = frames
      BY <2>0, <2>1, <3>1 DEF JoinAccepted
    <3>2. ~JoinRefused(d, t) /\ ~JoinAccepted(d, t, <<>>)
      BY <2>1, <2>5, <3>1 DEF JoinRefused
    <3>3. ~Expired(latest[t]) /\ JoinAccepted(d, t, <<latest[t]>>)
      BY <2>7, <3>2 DEF Join
    <3>4. wire'[c] = <<latest[t]>>
      BY <3>1, <3>3
    <3> QED
      BY <3>3, <3>4
  <2>8. ASSUME NEW t \in Topics, Publish(t) PROVE ~Expired(wire'[c][Len(wire'[c])])
    <3>1. mine[t] # None /\ ~Expired(mine[t])
      BY <2>8 DEF Publish, Deliverable
    <3>2. wire'[c] = Append(wire[c], mine[t])
      BY <2>1, <2>8 DEF Publish
    <3>3. mine[t] \in Payloads
      BY <2>0, <3>1, StreamFacts
    <3>4. wire'[c][Len(wire'[c])] = mine[t]
      BY <2>0, <3>2, <3>3
    <3> QED
      BY <3>1, <3>4
  <2>9. ASSUME NEW t \in Topics,
               \/ StartTick(t) \/ ReadStored(t) \/ BeginCapture(t) \/ Captured(t)
               \/ SessionLost(t) \/ NothingToPublish(t)
        PROVE  FALSE
    BY <2>5, <2>9 DEF StartTick, ReadStored, BeginCapture, Captured, SessionLost,
                      NothingToPublish, streamVars
  <2>10. ASSUME NEW t \in Topics,
                CaptureFails(t) \/ CommitUnanswered(t) \/ CommitRefused(t) \/ AwaitFails(t)
         PROVE  FALSE
    BY <2>3, <2>10 DEF CaptureFails, CommitUnanswered, CommitRefused, AwaitFails
  <2>11. ASSUME NEW d \in Readers, Disconnect(d) \/ InitialTimeout(d) \/ AckTimeout(d)
         PROVE  FALSE
    BY <2>4, <2>11 DEF Disconnect, InitialTimeout, AckTimeout
  <2>12. ASSUME NEW d \in Readers, NEW t \in Topics, Create(d, t) PROVE FALSE
    BY <2>5, <2>12 DEF Create
  <2>13. ASSUME NEW r \in Replicas, Crash(r) PROVE FALSE
    BY <2>2, <2>13 DEF Crash
  <2>14. ASSUME Tick PROVE FALSE
    BY <2>5, <2>14 DEF Tick, streamVars
  <2> QED
    BY <2>6, <2>7, <2>8, <2>9, <2>10, <2>11, <2>12, <2>13, <2>14
       DEF HubNext, TickStep, CaptureEnds
<1> QED
  BY HubStart, HubStep, <1>1, PTL DEF HubSpec, FreshFrames
=============================================================================
