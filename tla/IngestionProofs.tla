--------------------------- MODULE IngestionProofs ---------------------------
(***************************************************************************)
(* Proofs about Ingestion, for any number of transactions, rows, attempts, *)
(* faults and mishaps, any channel capacity and any transactions that      *)
(* cannot be converted.                                                    *)
(*                                                                          *)
(* Typing and the mutex are proved together (a transaction in hand is one   *)
(* of Txs because of the program counters). From there the arguments are    *)
(* separate: the cursor is raised before a row is written, so a writer      *)
(* past Advance is below it; and an arrival stays in the channel or in the  *)
(* stream's hands until its rows are complete or a log line names it, which *)
(* whoever holds the mutex with the stream at rest can rely on.  The third  *)
(* says, phase by phase of the watcher, where a transaction without its     *)
(* rows can be, and that a gap's listing reaches back to it.                *)
(***************************************************************************)
EXTENDS Ingestion, TLAPS

\* The program counters, the transactions in hand and the mutex agree.
WriterOK ==
    \A w \in Writers :
        /\ pc[w] = "idle" <=> tx[w] = NoTx
        /\ pc[w] \in {"advance", "rows"} <=> lock = w

\* A writer past Advance is covered by the cursor.
CursorOK ==
    \A w \in Writers :
        pc[w] = "rows" => last # NoSlot /\ SlotOf[tx[w]] <= last

\* A writer's count is a count of stored rows, from none.
ProgressOK ==
    \A w \in Writers :
        IF pc[w] = "rows" THEN \A i \in 1..done[w] : <<tx[w], i>> \in rows
                          ELSE done[w] = 0

\* An arrival is stored, named in the log, queued or in the stream's hands.
ArrivalOK ==
    \A t \in arrived :
        Written(t) \/ t \in logged \/ t \in Queued \/ tx["stream"] = t

-----------------------------------------------------------------------------
(* Typing and the mutex.                                                    *)

\* A fresh process is typed, its mutex free and its writers idle.
LEMMA InitTyped == Init => TypeOK /\ WriterOK
<1> SUFFICES ASSUME Init PROVE TypeOK /\ WriterOK
  OBVIOUS
<1> USE IngestionAssumption, WriterAssumption DEF Init
<1>1. 0 \in 0..(MaxAttempts - 1) /\ 0 \in 0..MaxFaults
  OBVIOUS
<1>2. queue \in Seq(Txs) /\ Len(queue) <= QueueCap
  OBVIOUS
<1>3. TypeOK
  BY <1>1, <1>2 DEF TypeOK
<1>4. WriterOK
  BY DEF WriterOK
<1> QED BY <1>3, <1>4

\* A writer that holds the mutex leaves everything in order when it returns.
LEMMA ReleaseStep ==
    ASSUME TypeOK, WriterOK, NEW w \in Writers, lock = w, Release(w)
    PROVE  /\ pc' \in [Writers -> {"idle", "lock", "advance", "rows"}]
           /\ tx' \in [Writers -> Txs \cup {NoTx}]
           /\ done' \in [Writers -> Nat]
           /\ attempt' \in [Writers -> 0..(MaxAttempts - 1)]
           /\ lock' \in Writers \cup {NoWriter}
           /\ WriterOK'
<1> USE IngestionAssumption, WriterAssumption DEF TypeOK, Release
<1>1. /\ pc' \in [Writers -> {"idle", "lock", "advance", "rows"}]
      /\ tx' \in [Writers -> Txs \cup {NoTx}]
      /\ done' \in [Writers -> Nat]
      /\ lock' \in Writers \cup {NoWriter}
  OBVIOUS
<1>2. attempt' \in [Writers -> 0..(MaxAttempts - 1)]
  <2>1. 0 \in 0..(MaxAttempts - 1)
    OBVIOUS
  <2> QED BY <2>1
<1>3. WriterOK'
  BY DEF WriterOK
<1> QED BY <1>1, <1>2, <1>3

\* Every step keeps the types and the agreement of mutex and writers.
LEMMA NextTyped ==
    ASSUME TypeOK, WriterOK, [Next]_vars
    PROVE  TypeOK' /\ WriterOK'
<1> USE IngestionAssumption, WriterAssumption
        DEF TypeOK, WriterOK, socketVars, writerVars, watchVars
<1>1. ASSUME NEW t \in Txs, Confirm(t) PROVE TypeOK' /\ WriterOK'
  BY <1>1 DEF Confirm
<1>2. ASSUME NEW t \in Txs, Receive(t) PROVE TypeOK' /\ WriterOK'
  <2>1. queue' \in Seq(Txs) /\ Len(queue') <= QueueCap
    <3>1. CASE HasRoom
      <4>1. CASE queue' = Append(queue, t)
        <5>1. Len(queue) + 1 <= QueueCap
          BY <3>1 DEF HasRoom
        <5>2. /\ Append(queue, t) \in Seq(Txs)
              /\ Len(Append(queue, t)) = Len(queue) + 1
          OBVIOUS
        <5> QED BY <4>1, <5>1, <5>2
      <4> QED BY <1>2, <3>1, <4>1 DEF Receive
    <3>2. CASE ~HasRoom
      BY <1>2, <3>2 DEF Receive
    <3> QED BY <3>1, <3>2
  <2>2. WriterOK'
    BY <1>2 DEF Receive
  <2> QED BY <1>2, <2>1, <2>2 DEF Receive, Mishap, MishapNames
<1>2a. ASSUME NEW t \in Txs, Skip(t) PROVE TypeOK' /\ WriterOK'
  BY <1>2a DEF Skip, Fault, Mishap, MishapNames
<1>3. CASE Connect
  BY <1>3 DEF Connect, Mishap, MishapNames
<1>4. CASE Subscribe
  BY <1>4 DEF Subscribe
<1>5. CASE SubscriptionLost
  BY <1>5 DEF SubscriptionLost, Mishap, MishapNames
<1>6. CASE ClockUpdate
  BY <1>6 DEF ClockUpdate
<1>7. CASE ClockAges
  BY <1>7 DEF ClockAges, Fault
<1>8. CASE SocketLost
  BY <1>8 DEF SocketLost, Fault
<1>9. CASE Take
  <2>1. queue' \in Seq(Txs) /\ Len(queue') <= QueueCap /\ Head(queue) \in Txs
    BY <1>9 DEF Take
  <2>2. WriterOK'
    BY <1>9, <2>1 DEF Take, Writers
  <2> QED BY <1>9, <2>1, <2>2 DEF Take, Writers
<1>10. CASE FinishStream
  <2>1. lock = "stream" /\ "stream" \in Writers
    BY <1>10 DEF FinishStream, Writers
  <2>2. faults' \in 0..MaxFaults
    BY <1>10 DEF FinishStream, Fault
  <2> QED BY <1>10, <2>1, <2>2, ReleaseStep DEF FinishStream
<1>11. CASE FinishReplay
  <2>1. lock = "catch_up" /\ "catch_up" \in Writers
    BY <1>11 DEF FinishReplay, Writers
  <2> QED BY <1>11, <2>1, ReleaseStep DEF FinishReplay
<1>12. ASSUME NEW w \in Writers, Acquire(w) PROVE TypeOK' /\ WriterOK'
  BY <1>12 DEF Acquire
<1>13. ASSUME NEW w \in Writers, Advance(w) PROVE TypeOK' /\ WriterOK'
  BY <1>13 DEF Advance, Raised
<1>14. ASSUME NEW w \in Writers, WriteRow(w) PROVE TypeOK' /\ WriterOK'
  BY <1>14 DEF WriteRow
<1>15. ASSUME NEW w \in Writers, Retry(w) PROVE TypeOK' /\ WriterOK'
  <2>1. attempt' \in [Writers -> 0..(MaxAttempts - 1)]
    <3>1. attempt[w] + 1 \in 0..(MaxAttempts - 1)
      BY <1>15 DEF Retry
    <3> QED BY <1>15, <3>1 DEF Retry
  <2>2. faults' \in 0..MaxFaults
    BY <1>15 DEF Retry, Fault
  <2>3. WriterOK'
    BY <1>15 DEF Retry
  <2> QED BY <1>15, <2>1, <2>2, <2>3 DEF Retry
<1>16. ASSUME NEW w \in Writers, Drop(w) PROVE TypeOK' /\ WriterOK'
  <2>1. lock = w /\ tx[w] \in Txs
    BY <1>16 DEF Drop
  <2>2. faults' \in 0..MaxFaults
    BY <1>16 DEF Drop, Fault
  <2> QED BY <1>16, <2>1, <2>2, ReleaseStep DEF Drop
<1>17. CASE HeartbeatSeesLive
  BY <1>17 DEF HeartbeatSeesLive
<1>18. CASE HeartbeatTouches
  BY <1>18 DEF HeartbeatTouches, Fault
<1>19. CASE NoticeQuiet
  BY <1>19 DEF NoticeQuiet, GapStart
<1>20. CASE StartCatchUp
  BY <1>20 DEF StartCatchUp
<1>21. CASE ListSignatures
  BY <1>21 DEF ListSignatures, Mishap, MishapNames
<1>22. CASE ListFails
  BY <1>22 DEF ListFails, Fault, GapAfterError
<1>23. CASE CloseGap
  BY <1>23 DEF CloseGap
<1>24. ASSUME NEW t \in Txs, Fetch(t) PROVE TypeOK' /\ WriterOK'
  BY <1>24 DEF Fetch, NextPlanned, Writers
<1>25. ASSUME NEW t \in Txs, FetchFails(t) PROVE TypeOK' /\ WriterOK'
  BY <1>25 DEF FetchFails, NextPlanned, Fault
<1>26. ASSUME NEW t \in Txs, ConversionFails(t) PROVE TypeOK' /\ WriterOK'
  BY <1>26 DEF ConversionFails, NextPlanned, Mishap, MishapNames
<1>27. CASE Restart
  BY <1>27 DEF Restart, Fault, GapStart, Mishap, MishapNames
<1>28. ASSUME NEW t \in Txs, OperatorReplay(t) PROVE TypeOK' /\ WriterOK'
  <2>1. rows' \subseteq Txs \X Nat
    BY <1>28 DEF OperatorReplay, RowsOf
  <2>2. last' \in Nat \cup {NoSlot}
    BY <1>28 DEF OperatorReplay, Raised
  <2> QED BY <1>28, <2>1, <2>2 DEF OperatorReplay, Mishap, MishapNames
<1>29. CASE UNCHANGED vars
  BY <1>29 DEF vars
<1> QED
  BY <1>1, <1>2, <1>2a, <1>3, <1>4, <1>5, <1>6, <1>7, <1>8, <1>9, <1>10, <1>11, <1>12,
     <1>13, <1>14, <1>15, <1>16, <1>17, <1>18, <1>19, <1>20, <1>21, <1>22,
     <1>23, <1>24, <1>25, <1>26, <1>27, <1>28, <1>29 DEF Next

\* Every variable keeps its type: the channel never exceeds its capacity, an
\* attempt count its maximum, and the slots stay slots.
THEOREM TypeCorrect == Spec => []TypeOK
<1>1. Init => TypeOK /\ WriterOK
  BY InitTyped
<1>2. TypeOK /\ WriterOK /\ [Next]_vars => (TypeOK /\ WriterOK)'
  BY NextTyped
<1> QED BY <1>1, <1>2, PTL DEF Spec

\* So both hold in every state.
LEMMA WriterCorrect == Spec => [](TypeOK /\ WriterOK)
<1>1. Init => TypeOK /\ WriterOK
  BY InitTyped
<1>2. TypeOK /\ WriterOK /\ [Next]_vars => (TypeOK /\ WriterOK)'
  BY NextTyped
<1> QED BY <1>1, <1>2, PTL DEF Spec

-----------------------------------------------------------------------------
(* The cursor covers every row.                                             *)

\* Every step keeps the cursor at or above the rows and the writers' slots.
LEMMA CursorStep ==
    ASSUME TypeOK, TypeOK', WriterOK, CursorOK, CursorCoversRows, [Next]_vars
    PROVE  CursorOK' /\ CursorCoversRows'
<1> USE IngestionAssumption, WriterAssumption DEF CursorOK, CursorCoversRows
<1>1. CASE UNCHANGED <<pc, tx, last, rows>>
  BY <1>1
<1>2. ASSUME NEW w \in Writers, Advance(w) PROVE CursorOK' /\ CursorCoversRows'
  <2>1. tx[w] \in Txs /\ SlotOf[tx[w]] \in Nat
    BY <1>2 DEF Advance, WriterOK, TypeOK
  <2>2. last' # NoSlot /\ SlotOf[tx[w]] <= last'
    BY <1>2, <2>1 DEF Advance, Raised, TypeOK
  <2>3. last # NoSlot => last <= last'
    BY <1>2, <2>1 DEF Advance, Raised, TypeOK
  <2>4. CursorCoversRows'
    <3> SUFFICES ASSUME NEW r \in rows' PROVE last' # NoSlot /\ SlotOf[r[1]] <= last'
      OBVIOUS
    <3>1. r \in rows /\ SlotOf[r[1]] \in Nat
      BY <1>2 DEF Advance, TypeOK
    <3>2. last # NoSlot /\ SlotOf[r[1]] <= last
      BY <3>1
    <3>3. last \in Nat /\ last' \in Nat
      BY <2>2, <3>2 DEF TypeOK
    <3> QED BY <2>2, <2>3, <3>1, <3>2, <3>3
  <2>5. CursorOK'
    <3> SUFFICES ASSUME NEW v \in Writers, pc'[v] = "rows"
                 PROVE  last' # NoSlot /\ SlotOf[tx'[v]] <= last'
      OBVIOUS
    <3>1. v = w
      BY <1>2 DEF Advance, WriterOK, TypeOK
    <3> QED BY <1>2, <2>2, <3>1 DEF Advance
  <2> QED BY <2>4, <2>5
<1>3. ASSUME NEW w \in Writers, WriteRow(w) PROVE CursorOK' /\ CursorCoversRows'
  <2>1. tx[w] \in Txs /\ last # NoSlot /\ SlotOf[tx[w]] <= last
    BY <1>3 DEF WriteRow, WriterOK, TypeOK
  <2> QED BY <1>3, <2>1 DEF WriteRow
<1>4. ASSUME NEW w \in Writers, Acquire(w) PROVE CursorOK' /\ CursorCoversRows'
  BY <1>4 DEF Acquire, TypeOK
<1>5. ASSUME NEW w \in Writers, Retry(w) PROVE CursorOK' /\ CursorCoversRows'
  BY <1>5 DEF Retry, TypeOK
<1>6. ASSUME NEW w \in Writers, Release(w), UNCHANGED <<last, rows>>
      PROVE  CursorOK' /\ CursorCoversRows'
  BY <1>6 DEF Release, TypeOK
<1>7. CASE Take
  BY <1>7 DEF Take, TypeOK, Writers
<1>8. ASSUME NEW t \in Txs, Fetch(t) PROVE CursorOK' /\ CursorCoversRows'
  BY <1>8 DEF Fetch, TypeOK, Writers
<1>9. CASE Restart
  BY <1>9 DEF Restart
<1>10. ASSUME NEW w \in Writers, Drop(w) PROVE CursorOK' /\ CursorCoversRows'
  BY <1>6, <1>10 DEF Drop
<1>11. CASE FinishStream
  BY <1>6, <1>11 DEF FinishStream, Writers
<1>12. CASE FinishReplay
  BY <1>6, <1>12 DEF FinishReplay, Writers
<1>13. ASSUME NEW t \in Txs, OperatorReplay(t) PROVE CursorOK' /\ CursorCoversRows'
  <2>1. SlotOf[t] \in Nat
    OBVIOUS
  <2>2. last' # NoSlot /\ last' \in Nat /\ SlotOf[t] <= last'
    BY <1>13, <2>1 DEF OperatorReplay, Raised, TypeOK
  <2>3. last # NoSlot => last \in Nat /\ last <= last'
    BY <1>13, <2>1 DEF OperatorReplay, Raised, TypeOK
  <2>4. CursorCoversRows'
    <3> SUFFICES ASSUME NEW r \in rows' PROVE SlotOf[r[1]] <= last'
      BY <2>2
    <3>1. CASE r \in RowsOf(t)
      BY <2>2, <3>1 DEF RowsOf
    <3>2. CASE r \in rows
      <4>1. SlotOf[r[1]] \in Nat /\ last # NoSlot /\ SlotOf[r[1]] <= last
        BY <3>2 DEF TypeOK
      <4> QED BY <2>2, <2>3, <4>1
    <3> QED BY <1>13, <3>1, <3>2 DEF OperatorReplay
  <2>5. CursorOK'
    <3> SUFFICES ASSUME NEW v \in Writers, pc[v] = "rows"
                 PROVE  SlotOf[tx[v]] <= last'
      BY <1>13, <2>2 DEF OperatorReplay, writerVars
    <3>1. SlotOf[tx[v]] \in Nat /\ last # NoSlot /\ SlotOf[tx[v]] <= last
      BY DEF WriterOK, TypeOK
    <3> QED BY <2>2, <2>3, <3>1
  <2> QED BY <2>4, <2>5
<1> QED
  BY <1>1, <1>2, <1>3, <1>4, <1>5, <1>7, <1>8, <1>9, <1>10, <1>11, <1>12, <1>13
  DEF Next, vars, writerVars, Confirm, Receive, Skip, Connect, Subscribe,
      SubscriptionLost, ClockUpdate, ClockAges, SocketLost, HeartbeatSeesLive,
      HeartbeatTouches, NoticeQuiet, StartCatchUp, ListSignatures, ListFails,
      CloseGap, FetchFails, ConversionFails

\* The cursor's slot is never below a stored row, whoever raised it and
\* whatever failed between the raise and the row.
THEOREM CursorCovers == Spec => []CursorCoversRows
<1>1. Init => CursorOK /\ CursorCoversRows
  BY DEF Init, CursorOK, CursorCoversRows
<1>2. /\ TypeOK /\ TypeOK' /\ WriterOK /\ CursorOK /\ CursorCoversRows
      /\ [Next]_vars
      => (CursorOK /\ CursorCoversRows)'
  BY CursorStep
<1> QED BY <1>1, <1>2, WriterCorrect, PTL DEF Spec

-----------------------------------------------------------------------------
(* The cursor's time.                                                       *)

\* What Take moves: the head of a queue is queued, its tail adds nothing.
LEMMA HeadAndTail ==
    ASSUME NEW S, NEW q \in Seq(S), q # <<>>, NEW i \in DOMAIN q
    PROVE  q[i] = Head(q) \/ \E j \in DOMAIN Tail(q) : Tail(q)[j] = q[i]
<1>1. CASE i = 1
  BY <1>1
<1>2. CASE i # 1
  <2>1. i - 1 \in 1..Len(Tail(q))
    BY <1>2
  <2>2. Tail(q)[i - 1] = q[i]
    BY <1>2
  <2> QED BY <2>1, <2>2
<1> QED BY <1>1, <1>2

\* The rows a writer counts as done in this attempt are stored.
LEMMA ProgressStep ==
    ASSUME TypeOK, WriterOK, ProgressOK, [Next]_vars
    PROVE  ProgressOK'
<1> USE IngestionAssumption, WriterAssumption DEF ProgressOK
<1>1. CASE UNCHANGED <<pc, tx, done, rows>>
  BY <1>1
<1>2. ASSUME NEW w \in Writers, WriteRow(w) PROVE ProgressOK'
  <2>1. done[w] \in Nat /\ done'[w] = done[w] + 1 /\ tx' = tx
    BY <1>2 DEF WriteRow, TypeOK
  <2>2. \A i \in 1..done'[w] : <<tx[w], i>> \in rows'
    <3> SUFFICES ASSUME NEW i \in 1..(done[w] + 1) PROVE <<tx[w], i>> \in rows'
      BY <2>1
    <3>1. CASE i = done[w] + 1
      BY <1>2, <3>1 DEF WriteRow
    <3>2. CASE i # done[w] + 1
      <4>1. i \in 1..done[w]
        BY <2>1, <3>2
      <4> QED BY <1>2, <4>1 DEF WriteRow
    <3> QED BY <3>1, <3>2
  <2>3. \A v \in Writers : v # w => done'[v] = done[v]
    BY <1>2 DEF WriteRow, TypeOK
  <2> QED BY <1>2, <2>1, <2>2, <2>3 DEF WriteRow
<1>3. ASSUME NEW w \in Writers, Advance(w) PROVE ProgressOK'
  BY <1>3 DEF Advance, TypeOK
<1>4. ASSUME NEW w \in Writers, Acquire(w) PROVE ProgressOK'
  BY <1>4 DEF Acquire, TypeOK
<1>5. ASSUME NEW w \in Writers, Retry(w) PROVE ProgressOK'
  BY <1>5 DEF Retry, TypeOK
<1>6. ASSUME NEW w \in Writers, Release(w), rows' = rows PROVE ProgressOK'
  BY <1>6 DEF Release, TypeOK
<1>7. CASE Take
  BY <1>7 DEF Take, TypeOK, Writers
<1>8. ASSUME NEW t \in Txs, Fetch(t) PROVE ProgressOK'
  BY <1>8 DEF Fetch, NextPlanned, TypeOK, Writers
<1>9. CASE Restart
  BY <1>9 DEF Restart
<1>10. ASSUME NEW w \in Writers, Drop(w) PROVE ProgressOK'
  BY <1>6, <1>10 DEF Drop
<1>11. CASE FinishStream
  BY <1>6, <1>11 DEF FinishStream, Writers
<1>12. CASE FinishReplay
  BY <1>6, <1>12 DEF FinishReplay, Writers
<1>13. ASSUME NEW t \in Txs, OperatorReplay(t) PROVE ProgressOK'
  BY <1>13 DEF OperatorReplay, writerVars
<1> QED
  BY <1>1, <1>2, <1>3, <1>4, <1>5, <1>7, <1>8, <1>9, <1>10, <1>11, <1>12, <1>13
  DEF Next, vars, writerVars, Confirm, Receive, Skip, Connect, Subscribe,
      SubscriptionLost, ClockUpdate, ClockAges, SocketLost, HeartbeatSeesLive,
      HeartbeatTouches, NoticeQuiet, StartCatchUp, ListSignatures, ListFails,
      CloseGap, FetchFails, ConversionFails

\* Whatever the step, only a restart takes a row, a log line or a process's
\* arrivals away from what an arrival can rest on.
LEMMA ArrivalStep ==
    ASSUME TypeOK, WriterOK, ProgressOK, ArrivalOK, [Next]_vars
    PROVE  ArrivalOK'
<1> USE IngestionAssumption, WriterAssumption DEF ArrivalOK, Written, RowsOf, Queued
<1>1. CASE /\ UNCHANGED <<arrived, queue>> /\ tx'["stream"] = tx["stream"]
           /\ rows \subseteq rows' /\ logged \subseteq logged'
  BY <1>1
<1>2. ASSUME NEW t \in Txs, Receive(t) PROVE ArrivalOK'
  <2>1. CASE UNCHANGED <<arrived, queue>>
    BY <1>2, <2>1 DEF Receive, writerVars
  <2>2. CASE queue' = Append(queue, t) /\ arrived' = arrived \cup {t}
    <3>1. t \in Queued' /\ Queued \subseteq Queued'
      <4>1. queue \in Seq(Txs)
        BY DEF TypeOK
      <4>2. /\ Len(queue) + 1 \in DOMAIN Append(queue, t)
            /\ Append(queue, t)[Len(queue) + 1] = t
        BY <4>1
      <4>3. \A i \in DOMAIN queue : /\ i \in DOMAIN Append(queue, t)
                                    /\ Append(queue, t)[i] = queue[i]
        BY <4>1
      <4> QED BY <2>2, <4>2, <4>3
    <3> QED BY <1>2, <2>2, <3>1 DEF Receive, writerVars
  <2> QED BY <1>2, <2>1, <2>2 DEF Receive
<1>3. CASE Take
  <2>1. \A t \in Queued : t = Head(queue) \/ t \in Queued'
    <3> SUFFICES ASSUME NEW i \in DOMAIN queue
                 PROVE  queue[i] = Head(queue) \/ queue[i] \in Queued'
      OBVIOUS
    <3>1. queue \in Seq(Txs) /\ queue # <<>> /\ queue' = Tail(queue)
      BY <1>3 DEF Take, TypeOK
    <3> QED BY <3>1, HeadAndTail
  <2>2. tx'["stream"] = Head(queue)
    BY <1>3 DEF Take, TypeOK, Writers
  <2>3. \A t \in arrived : tx["stream"] # t
    BY <1>3 DEF Take, TypeOK, WriterOK, Writers
  <2> QED BY <1>3, <2>1, <2>2, <2>3 DEF Take
<1>4. CASE FinishStream
  <2>1. \A i \in 1..RowCount[tx["stream"]] : <<tx["stream"], i>> \in rows
    BY <1>4 DEF FinishStream, ProgressOK, Writers
  <2> QED BY <1>4, <2>1 DEF FinishStream
<1>5. ASSUME NEW w \in Writers, Drop(w) PROVE ArrivalOK'
  <2>1. CASE w = "stream"
    BY <1>5, <2>1 DEF Drop
  <2>2. CASE w # "stream"
    <3>1. tx'["stream"] = tx["stream"]
      BY <1>5, <2>2 DEF Drop, Release, TypeOK, Writers
    <3> QED BY <1>1, <1>5, <3>1 DEF Drop
  <2> QED BY <2>1, <2>2
<1>6. CASE FinishReplay
  <2>1. tx'["stream"] = tx["stream"]
    BY <1>6 DEF FinishReplay, Release, TypeOK, Writers
  <2> QED BY <1>1, <1>6, <2>1 DEF FinishReplay
<1>7. ASSUME NEW t \in Txs, Fetch(t) PROVE ArrivalOK'
  <2>1. tx'["stream"] = tx["stream"]
    BY <1>7 DEF Fetch, TypeOK, Writers
  <2> QED BY <1>1, <1>7, <2>1 DEF Fetch
<1>8. ASSUME NEW w \in Writers, Acquire(w) \/ Advance(w) \/ WriteRow(w) \/ Retry(w)
      PROVE  ArrivalOK'
  BY <1>1, <1>8 DEF Acquire, Advance, WriteRow, Retry
<1>9. CASE Restart
  BY <1>9 DEF Restart
<1>10. ASSUME NEW t \in Txs, OperatorReplay(t) PROVE ArrivalOK'
  BY <1>1, <1>10 DEF OperatorReplay, writerVars
<1> QED
  BY <1>1, <1>2, <1>3, <1>4, <1>5, <1>6, <1>7, <1>8, <1>9, <1>10
  DEF Next, vars, writerVars, Confirm, Skip, Connect, Subscribe,
      SubscriptionLost, ClockUpdate, ClockAges, SocketLost, HeartbeatSeesLive,
      HeartbeatTouches, NoticeQuiet, StartCatchUp, ListSignatures, ListFails,
      CloseGap, FetchFails, ConversionFails

\* A step that moves the cursor's time finds every arrival settled.
LEMMA TouchStep ==
    ASSUME TypeOK, WriterOK, ProgressOK, ArrivalOK, [Next]_vars,
           vouched' # vouched, NEW t \in arrived'
    PROVE  \/ Written(t)'
           \/ t \in logged'
           \/ t \in Queued'
           \/ tx["stream"] = t /\ pc["stream"] = "lock"
<1> USE IngestionAssumption, WriterAssumption DEF ArrivalOK, Written, RowsOf, Queued
<1>1. CASE FinishStream
  <2>1. \A i \in 1..RowCount[tx["stream"]] : <<tx["stream"], i>> \in rows
    BY <1>1 DEF FinishStream, ProgressOK, Writers
  <2> QED BY <1>1, <2>1 DEF FinishStream
<1>2. CASE HeartbeatTouches
  <2>1. pc["stream"] \in {"idle", "lock"}
    BY <1>2 DEF HeartbeatTouches, TouchAllowed, WriterOK, TypeOK, Writers
  <2>2. tx["stream"] = t => pc["stream"] # "idle"
    BY <1>2 DEF HeartbeatTouches, WriterOK, TypeOK, Writers
  <2> QED BY <1>2, <2>1, <2>2 DEF HeartbeatTouches
<1>3. CASE Restart
  BY <1>3 DEF Restart
<1> QED
  BY <1>1, <1>2, <1>3
  DEF Next, vars, Confirm, Receive, Skip, Connect, Subscribe, SubscriptionLost,
      ClockUpdate, ClockAges, SocketLost, Take, FinishReplay, Acquire, Advance,
      WriteRow, Retry, Drop, HeartbeatSeesLive, NoticeQuiet, StartCatchUp,
      ListSignatures, ListFails, CloseGap, Fetch, FetchFails, ConversionFails,
      OperatorReplay

\* The stream and the heartbeat move the cursor's time only where it hides no
\* arrival half written: each is stored, named as dropped, or has yet to get
\* the mutex.
THEOREM TouchIsSettled == Spec => TouchSettles
<1>1. Init => ProgressOK /\ ArrivalOK
  BY DEF Init, ProgressOK, ArrivalOK
<1>2. /\ TypeOK /\ WriterOK /\ ProgressOK /\ ArrivalOK /\ [Next]_vars
      => (ProgressOK /\ ArrivalOK)'
  BY ProgressStep, ArrivalStep
<1>3. /\ TypeOK /\ WriterOK /\ ProgressOK /\ ArrivalOK /\ [Next]_vars
      => [vouched' # vouched =>
            \A t \in arrived' :
                \/ Written(t)'
                \/ t \in logged'
                \/ t \in Queued'
                \/ tx["stream"] = t /\ pc["stream"] = "lock"]_vars
  BY TouchStep
<1> QED BY <1>1, <1>2, <1>3, WriterCorrect, PTL DEF Spec, TouchSettles

-----------------------------------------------------------------------------
(***************************************************************************)
(* Nothing is lost in silence before a mishap that is not harmless. A      *)
(* transaction that is neither stored nor named is then at or above the    *)
(* open gap; and once the gap is listed or closed, one the listing did not *)
(* bring is newer than everything that can still raise the cursor, because *)
(* pushes have been read in slot order and a stream that lost one pushes   *)
(* nothing until the next gap is open.                                     *)
(***************************************************************************)

\* The stored and the named.
Settled(t) == Written(t) \/ t \in logged

\* Neither, and not waiting for the running catch-up.
Missing(t) == t \in confirmed /\ SlotOf[t] >= FirstSlot /\ ~Settled(t) /\ t \notin todo

\* What the stream has read off the socket and not finished.
Ahead == Queued \cup ({tx["stream"]} \ {NoTx})

\* The gap is closed, or its catch-up has its list.
Closing == gap = NoSlot \/ watch = "replay"

Phases ==
    /\ watch # "replay" => todo = {}
    /\ watch # "idle" => gap # NoSlot
    /\ tx["catch_up"] # NoTx => watch = "replay" /\ tx["catch_up"] \in todo
    /\ sub = "pending" => ~Closing
    /\ wire # {} => sub = "on"
    /\ socket = "down" => sub = "none"

\* Everything in flight was confirmed, and so was something at the
\* cursor and at the gap.
InFlight ==
    /\ wire \cup Ahead \cup todo \cup logged \subseteq confirmed
    /\ last # NoSlot => \E t \in confirmed : last <= SlotOf[t]
    /\ gap # NoSlot => gap <= FirstSlot \/ \E t \in confirmed : gap <= SlotOf[t]

\* The stream keeps slot order.
InOrder ==
    /\ \A i, j \in DOMAIN queue : i < j => SlotOf[queue[i]] <= SlotOf[queue[j]]
    /\ \A t \in Ahead, u \in wire : SlotOf[t] <= SlotOf[u]
    /\ tx["stream"] # NoTx => \A t \in Queued : SlotOf[tx["stream"]] <= SlotOf[t]

\* The open gap reaches back to everything that is not settled.
GapReaches ==
    gap # NoSlot => \A t \in confirmed :
        SlotOf[t] >= FirstSlot /\ ~Settled(t) => SlotOf[t] >= gap

\* What a listing did not bring is newer than what moves the cursor.
MissingIsNewer ==
    Closing => \A t \in confirmed : Missing(t) =>
        /\ SlotOf[t] >= GapStart
        /\ \A u \in todo : SlotOf[u] <= SlotOf[t]
        /\ t \notin Ahead => \A u \in Ahead \cup logged : SlotOf[u] <= SlotOf[t]
        /\ sub = "on" => OnItsWay(t)

FlowOK == Phases /\ InFlight /\ InOrder /\ GapReaches /\ MissingIsNewer

\* No mishap so far after which something can be out of reach.
Defended == mishaps \subseteq Harmless

\* A push read joins what is ahead.
LEMMA AheadReceives ==
    ASSUME TypeOK, NEW t \in Txs, queue' = Append(queue, t), UNCHANGED tx
    PROVE  Queued' = Queued \cup {t} /\ Ahead' = Ahead \cup {t}
<1>1. queue \in Seq(Txs)
  BY DEF TypeOK
<1>2. /\ Len(Append(queue, t)) = Len(queue) + 1
      /\ Append(queue, t)[Len(queue) + 1] = t
      /\ \A i \in DOMAIN queue : Append(queue, t)[i] = queue[i]
      /\ DOMAIN Append(queue, t) = DOMAIN queue \cup {Len(queue) + 1}
  BY <1>1
<1>3. Queued' = Queued \cup {t}
  BY <1>2 DEF Queued
<1> QED BY <1>3 DEF Ahead

\* Take moves the head from the channel to the stream's hands.
LEMMA AheadTakes ==
    ASSUME TypeOK, WriterOK, Take
    PROVE  /\ Head(queue) \in Queued /\ tx["stream"] = NoTx /\ tx'["stream"] = Head(queue)
           /\ tx'["catch_up"] = tx["catch_up"]
           /\ Queued' \subseteq Queued /\ Queued = Queued' \cup {Head(queue)} /\ Ahead' = Ahead
<1>1. /\ queue \in Seq(Txs) /\ queue # <<>> /\ queue' = Tail(queue) /\ Head(queue) \in Txs
      /\ tx'["stream"] = Head(queue) /\ tx["stream"] = NoTx /\ tx'["catch_up"] = tx["catch_up"]
  BY DEF Take, TypeOK, WriterOK, Writers
<1>2. Head(queue) = queue[1] /\ 1 \in DOMAIN queue
  BY <1>1
<1>3. \A j \in DOMAIN Tail(queue) : j + 1 \in DOMAIN queue /\ Tail(queue)[j] = queue[j + 1]
  BY <1>1
<1>4. \A i \in DOMAIN queue : queue[i] = Head(queue)
                              \/ \E j \in DOMAIN Tail(queue) : Tail(queue)[j] = queue[i]
  BY <1>1, HeadAndTail
<1>5. Head(queue) \in Queued /\ Queued' \subseteq Queued /\ Queued = Queued' \cup {Head(queue)}
  BY <1>1, <1>2, <1>3, <1>4 DEF Queued
<1>6. Ahead' = Ahead
  BY <1>1, <1>5, IngestionAssumption DEF Ahead
<1> QED BY <1>1, <1>5, <1>6

\* A writer that returns leaves the other's transaction alone.
LEMMA ReleaseLeaves ==
    ASSUME TypeOK, NEW w \in Writers, Release(w)
    PROVE  tx'[w] = NoTx /\ \A v \in Writers \ {w} : tx'[v] = tx[v]
BY DEF TypeOK, Release

\* The stream's return empties its hands.
LEMMA AheadReleases ==
    ASSUME TypeOK, Release("stream"), UNCHANGED queue
    PROVE  /\ Queued' = Queued /\ Ahead' = Queued /\ Ahead' \subseteq Ahead
           /\ Ahead \subseteq Ahead' \cup {tx["stream"]}
           /\ tx'["stream"] = NoTx /\ tx'["catch_up"] = tx["catch_up"]
<1>1. tx'["stream"] = NoTx /\ tx'["catch_up"] = tx["catch_up"]
  BY ReleaseLeaves DEF Writers
<1> QED BY <1>1 DEF Ahead, Queued

\* Whatever leaves the channel and the stream's hands alone leaves Ahead alone.
LEMMA AheadStays ==
    ASSUME UNCHANGED queue, tx'["stream"] = tx["stream"]
    PROVE  Queued' = Queued /\ Ahead' = Ahead
BY DEF Ahead, Queued

\* Settled stays settled.
LEMMA SettledStays ==
    ASSUME [Next]_vars, NEW t, Settled(t)
    PROVE  Settled(t)'
<1>1. rows \subseteq rows' /\ logged \subseteq logged'
  BY DEF Next, vars, Confirm, Receive, Skip, Connect, Subscribe, SubscriptionLost,
      ClockUpdate, ClockAges, SocketLost, Take, FinishStream, FinishReplay, Acquire, Advance,
      WriteRow, Retry, Drop, HeartbeatSeesLive, HeartbeatTouches, NoticeQuiet, StartCatchUp,
      ListSignatures, ListFails, CloseGap, Fetch, FetchFails, ConversionFails,
      OperatorReplay, Restart
<1> QED BY <1>1 DEF Settled, Written, RowsOf

\* A writer done with its rows has its transaction written.
LEMMA FinishedIsWritten ==
    ASSUME ProgressOK, NEW w \in Writers, pc[w] = "rows", done[w] = RowCount[tx[w]]
    PROVE  Written(tx[w])
BY DEF ProgressOK, Written, RowsOf

\* Every transaction's slot is a number, whatever is in hand among them.
LEMMA SlotsAreNumbers ==
    /\ FirstSlot \in Nat /\ NoSlot \notin Nat
    /\ \A t \in Txs : SlotOf[t] \in Nat
    /\ TypeOK => confirmed \subseteq Txs /\ wire \subseteq Txs /\ todo \subseteq Txs
                 /\ logged \subseteq Txs /\ Queued \subseteq Txs /\ Ahead \subseteq Txs
<1>1. TypeOK => Queued \subseteq Txs /\ tx["stream"] \in Txs \cup {NoTx}
  BY DEF TypeOK, Queued, Writers
<1> QED BY <1>1, IngestionAssumption DEF TypeOK, Ahead

\* The steps that leave the chain, the stream and the watcher where they are.
Still == UNCHANGED <<confirmed, socket, sub, wire, queue, tx, watch, gap, todo, last, logged>>

\* What each step that is not still can be.
LEMMA FlowSteps ==
    ASSUME [Next]_vars
    PROVE  \/ Still
           \/ \E t \in Txs : \/ Confirm(t) \/ Receive(t) \/ Skip(t)
                             \/ Fetch(t) \/ FetchFails(t) \/ ConversionFails(t)
                             \/ OperatorReplay(t)
           \/ Connect \/ Subscribe \/ SubscriptionLost \/ SocketLost
           \/ Take \/ FinishStream \/ FinishReplay
           \/ \E w \in Writers : Advance(w) \/ Drop(w)
           \/ NoticeQuiet \/ StartCatchUp \/ ListSignatures \/ ListFails \/ CloseGap
           \/ Restart
BY DEF Next, vars, Still, ClockUpdate, ClockAges, Acquire, WriteRow, Retry,
       HeartbeatSeesLive, HeartbeatTouches, socketVars, writerVars, watchVars

\* The watcher's phases agree with its list, the gap and the subscription.
LEMMA PhasesStep ==
    ASSUME Defended', TypeOK, WriterOK, Phases, [Next]_vars
    PROVE  Phases'
<1> USE IngestionAssumption DEF Phases, Closing, socketVars, writerVars, watchVars
<1>1. CASE Still
  BY <1>1 DEF Still
<1>2. ASSUME NEW t \in Txs, Confirm(t) \/ Receive(t) \/ Skip(t) \/ OperatorReplay(t)
      PROVE  Phases'
  BY <1>2 DEF Confirm, Receive, Skip, OperatorReplay
<1>3. ASSUME NEW t \in Txs, Fetch(t) PROVE Phases'
  <2>1. tx'["catch_up"] = t
    BY <1>3 DEF Fetch, TypeOK, Writers
  <2> QED BY <1>3, <2>1 DEF Fetch, NextPlanned
<1>4. ASSUME NEW t \in Txs, FetchFails(t) \/ ConversionFails(t) PROVE Phases'
  <2>1. tx["catch_up"] = NoTx
    BY <1>4 DEF FetchFails, ConversionFails, NextPlanned, WriterOK, Writers
  <2> QED BY <1>4, <2>1 DEF FetchFails, ConversionFails, NextPlanned
<1>5. CASE Connect
  BY <1>5 DEF Connect, Defended, Mishap, Harmless
<1>6. CASE Subscribe \/ SubscriptionLost \/ SocketLost
  BY <1>6 DEF Subscribe, SubscriptionLost, SocketLost
<1>7. CASE Take
  BY <1>7, AheadTakes DEF Take
<1>8. CASE FinishStream
  BY <1>8, AheadReleases DEF FinishStream
<1>9. CASE FinishReplay
  <2>1. tx'["catch_up"] = NoTx /\ tx["catch_up"] # NoTx
    BY <1>9, ReleaseLeaves DEF FinishReplay, WriterOK, Writers
  <2> QED BY <1>9, <2>1 DEF FinishReplay
<1>10. ASSUME NEW w \in Writers, Advance(w) PROVE Phases'
  BY <1>10 DEF Advance
<1>11. ASSUME NEW w \in Writers, Drop(w) PROVE Phases'
  <2>1. tx'[w] = NoTx /\ \A v \in Writers \ {w} : tx'[v] = tx[v]
    BY <1>11, ReleaseLeaves DEF Drop
  <2>2. CASE w = "catch_up"
    BY <1>11, <2>1, <2>2 DEF Drop
  <2>3. CASE w = "stream"
    BY <1>11, <2>1, <2>3 DEF Drop, Writers
  <2> QED BY <2>2, <2>3 DEF Writers
<1>12. CASE NoticeQuiet
  BY <1>12 DEF NoticeQuiet
<1>13. CASE StartCatchUp \/ ListFails
  BY <1>13 DEF StartCatchUp, ListFails, GapAfterError
<1>14. CASE ListSignatures
  BY <1>14 DEF ListSignatures, Defended, Mishap, Harmless
<1>15. CASE CloseGap
  BY <1>15 DEF CloseGap
<1>16. CASE Restart
  <2>1. GapStart \in Nat
    BY DEF GapStart, TypeOK
  <2>2. tx'["catch_up"] = NoTx
    BY <1>16 DEF Restart, Writers
  <2> QED BY <1>16, <2>1, <2>2 DEF Restart
<1> QED
  BY FlowSteps, <1>1, <1>2, <1>3, <1>4, <1>5, <1>6, <1>7, <1>8, <1>9, <1>10, <1>11, <1>12,
     <1>13, <1>14, <1>15, <1>16

\* A gap opened now starts at the release or at something confirmed.
LEMMA GapBounded ==
    ASSUME TypeOK, InFlight
    PROVE  /\ GapStart \in Nat
           /\ GapStart <= FirstSlot \/ \E t \in confirmed : GapStart <= SlotOf[t]
BY SlotsAreNumbers DEF GapStart, TypeOK, InFlight

\* What is in flight has been confirmed.
LEMMA InFlightStep ==
    ASSUME Defended', TypeOK, TypeOK', WriterOK, Phases, InFlight, [Next]_vars
    PROVE  InFlight'
<1> USE SlotsAreNumbers DEF InFlight, socketVars, writerVars, watchVars
<1>1. CASE Still
  BY <1>1, AheadStays DEF Still
<1>2. ASSUME NEW t \in Txs, Confirm(t) PROVE InFlight'
  BY <1>2, AheadStays DEF Confirm
<1>3. ASSUME NEW t \in Txs, Receive(t) PROVE InFlight'
  <2>1. t \in wire /\ wire' \subseteq wire
        /\ UNCHANGED <<confirmed, todo, logged, last, gap>>
    BY <1>3 DEF Receive
  <2>2. Ahead' \subseteq Ahead \cup {t}
    BY <1>3, AheadReceives, AheadStays DEF Receive
  <2> QED BY <2>1, <2>2
<1>4. ASSUME NEW t \in Txs, Skip(t) PROVE InFlight'
  BY <1>4, AheadStays DEF Skip
<1>5. ASSUME NEW t \in Txs, Fetch(t) PROVE InFlight'
  <2>1. tx'["stream"] = tx["stream"]
    BY <1>5 DEF Fetch, TypeOK, Writers
  <2> QED BY <1>5, <2>1, AheadStays DEF Fetch
<1>6. ASSUME NEW t \in Txs, FetchFails(t) \/ ConversionFails(t) PROVE InFlight'
  BY <1>6, AheadStays DEF FetchFails, ConversionFails, NextPlanned
<1>7. CASE Connect \/ Subscribe \/ SubscriptionLost \/ SocketLost
  BY <1>7, AheadStays DEF Connect, Subscribe, SubscriptionLost, SocketLost
<1>8. CASE Take
  BY <1>8, AheadTakes DEF Take
<1>9. CASE FinishStream
  BY <1>9, AheadReleases DEF FinishStream
<1>10. CASE FinishReplay
  <2>1. tx'["stream"] = tx["stream"]
    BY <1>10, ReleaseLeaves DEF FinishReplay, Writers
  <2> QED BY <1>10, <2>1, AheadStays DEF FinishReplay
<1>11. ASSUME NEW w \in Writers, Advance(w) PROVE InFlight'
  <2>1. tx[w] \in confirmed
    <3>1. tx[w] # NoTx
      BY <1>11 DEF Advance, WriterOK
    <3>2. CASE w = "stream"
      BY <3>1, <3>2 DEF Ahead
    <3>3. CASE w = "catch_up"
      BY <3>1, <3>3 DEF Phases
    <3> QED BY <3>2, <3>3 DEF Writers
  <2>2. SlotOf[tx[w]] \in Nat /\ (last' = last \/ last' = SlotOf[tx[w]])
    BY <1>11, <2>1 DEF Advance, Raised
  <2>3. Ahead' = Ahead /\ UNCHANGED <<wire, confirmed, todo, logged, gap>>
    BY <1>11, AheadStays DEF Advance
  <2> QED BY <2>1, <2>2, <2>3
<1>12. ASSUME NEW w \in Writers, Drop(w) PROVE InFlight'
  <2>1. tx[w] # NoTx
    BY <1>12 DEF Drop, WriterOK
  <2>2. CASE w = "stream"
    BY <1>12, <2>1, <2>2, AheadReleases DEF Drop, Ahead
  <2>3. CASE w = "catch_up"
    <3>1. tx'["stream"] = tx["stream"]
      BY <1>12, <2>3, ReleaseLeaves DEF Drop, Writers
    <3> QED BY <1>12, <2>1, <2>3, <3>1, AheadStays DEF Drop, Phases
  <2> QED BY <2>2, <2>3 DEF Writers
<1>13. CASE NoticeQuiet \/ StartCatchUp \/ ListFails \/ ListSignatures \/ CloseGap
  BY <1>13, AheadStays, GapBounded
     DEF NoticeQuiet, StartCatchUp, ListFails, GapAfterError, ListSignatures, CloseGap
<1>14. ASSUME NEW t \in Txs, OperatorReplay(t) PROVE InFlight'
  <2>1. t \in confirmed /\ (last' = last \/ last' = SlotOf[t])
    BY <1>14 DEF OperatorReplay, Raised
  <2> QED BY <1>14, <2>1, AheadStays DEF OperatorReplay
<1>15. CASE Restart
  <2>1. Ahead' = {}
    BY <1>15 DEF Restart, Ahead, Queued, Writers
  <2> QED BY <1>15, <2>1, GapBounded DEF Restart
<1> QED
  BY FlowSteps, <1>1, <1>2, <1>3, <1>4, <1>5, <1>6, <1>7, <1>8, <1>9, <1>10, <1>11, <1>12,
     <1>13, <1>14, <1>15

\* The stream keeps the order the node pushed in.
LEMMA InOrderStep ==
    ASSUME Defended', TypeOK, WriterOK, Phases, InFlight, InOrder, [Next]_vars
    PROVE  InOrder'
<1> USE SlotsAreNumbers DEF socketVars, writerVars, watchVars
<1>1. ASSUME UNCHANGED queue, tx'["stream"] = tx["stream"], wire' \subseteq wire
      PROVE  InOrder'
  BY <1>1, AheadStays DEF InOrder
<1>2. ASSUME NEW t \in Txs, Confirm(t) PROVE InOrder'
  <2>1. Ahead' = Ahead /\ Queued' = Queued /\ wire' \subseteq wire \cup {t}
        /\ UNCHANGED <<queue, tx>> /\ \A u \in confirmed : SlotOf[u] <= SlotOf[t]
    BY <1>2, AheadStays DEF Confirm
  <2> QED BY <2>1 DEF InOrder, InFlight
<1>3. ASSUME NEW t \in Txs, Receive(t) PROVE InOrder'
  <2>1. CASE ~HasRoom
    BY <1>1, <1>3, <2>1 DEF Receive
  <2>2. CASE HasRoom
    <3>0. queue' = Append(queue, t) /\ wire' = wire \ {t}
      BY <1>3, <2>2 DEF Receive
    <3>1. t \in wire /\ (\A u \in wire : SlotOf[t] <= SlotOf[u]) /\ UNCHANGED tx
      BY <1>3, <2>2 DEF Receive, InSlotOrder, Defended, Mishap, Harmless
    <3>2. Queued' = Queued \cup {t} /\ Ahead' = Ahead \cup {t}
      BY <3>0, <3>1, AheadReceives
    <3>3. \A u \in Ahead : SlotOf[u] <= SlotOf[t]
      BY <3>1 DEF InOrder
    <3>4. \A i, j \in DOMAIN queue' : i < j => SlotOf[queue'[i]] <= SlotOf[queue'[j]]
      <4>1. queue \in Seq(Txs)
        BY DEF TypeOK
      <4>2. /\ DOMAIN queue' = 1..(Len(queue) + 1) /\ DOMAIN queue = 1..Len(queue)
            /\ Len(queue) \in Nat
            /\ queue'[Len(queue) + 1] = t /\ \A i \in DOMAIN queue : queue'[i] = queue[i]
        BY <3>0, <4>1
      <4>3. \A i \in DOMAIN queue : SlotOf[queue[i]] <= SlotOf[t]
        BY <3>3 DEF Ahead, Queued
      <4> SUFFICES ASSUME NEW i \in DOMAIN queue', NEW j \in DOMAIN queue', i < j
                   PROVE  SlotOf[queue'[i]] <= SlotOf[queue'[j]]
        OBVIOUS
      <4>4. i \in DOMAIN queue
        BY <4>2
      <4>5. j \in DOMAIN queue \/ j = Len(queue) + 1
        BY <4>2
      <4> QED BY <4>2, <4>3, <4>4, <4>5 DEF InOrder
    <3>5. tx["stream"] # NoTx => SlotOf[tx["stream"]] <= SlotOf[t]
      BY <3>3 DEF Ahead
    <3> QED BY <3>0, <3>1, <3>2, <3>3, <3>4, <3>5 DEF InOrder
  <2> QED BY <2>1, <2>2
<1>4. CASE Take
  <2>1. /\ Head(queue) \in Queued /\ tx'["stream"] = Head(queue)
        /\ Queued' \subseteq Queued /\ Ahead' = Ahead /\ UNCHANGED wire
    BY <1>4, AheadTakes DEF Take
  <2>2. /\ queue' = Tail(queue) /\ queue # <<>> /\ queue \in Seq(Txs)
    BY <1>4 DEF Take, TypeOK
  <2>3. /\ DOMAIN queue = 1..Len(queue) /\ Len(queue) \in Nat /\ 1 \in DOMAIN queue
        /\ DOMAIN queue' = 1..(Len(queue) - 1) /\ Head(queue) = queue[1]
        /\ \A i \in DOMAIN queue' : queue'[i] = queue[i + 1] /\ i + 1 \in DOMAIN queue
    BY <2>2
  <2>4. \A i, j \in DOMAIN queue' : i < j => SlotOf[queue'[i]] <= SlotOf[queue'[j]]
    BY <2>3 DEF InOrder
  <2>5. \A t \in Queued' : SlotOf[Head(queue)] <= SlotOf[t]
    <3> SUFFICES ASSUME NEW i \in DOMAIN queue' PROVE SlotOf[Head(queue)] <= SlotOf[queue'[i]]
      BY DEF Queued
    <3>1. 1 < i + 1 /\ i + 1 \in DOMAIN queue /\ queue'[i] = queue[i + 1]
      BY <2>3
    <3> QED BY <2>3, <3>1 DEF InOrder
  <2> QED BY <2>1, <2>4, <2>5 DEF InOrder
<1>5. ASSUME Release("stream"), UNCHANGED <<queue, wire>> PROVE InOrder'
  BY <1>5, AheadReleases DEF InOrder
<1>6. ASSUME NEW w \in Writers, Drop(w) PROVE InOrder'
  <2>1. CASE w = "stream"
    BY <1>5, <1>6, <2>1 DEF Drop
  <2>2. CASE w = "catch_up"
    <3>1. tx'["stream"] = tx["stream"]
      BY <1>6, <2>2, ReleaseLeaves DEF Drop, Writers
    <3> QED BY <1>1, <1>6, <3>1 DEF Drop
  <2> QED BY <2>1, <2>2 DEF Writers
<1>7. CASE FinishReplay
  <2>1. tx'["stream"] = tx["stream"]
    BY <1>7, ReleaseLeaves DEF FinishReplay, Writers
  <2> QED BY <1>1, <1>7, <2>1 DEF FinishReplay
<1>8. CASE FinishStream
  BY <1>5, <1>8 DEF FinishStream
<1>9. CASE Restart
  <2>1. Ahead' = {} /\ queue' = <<>> /\ tx'["stream"] = NoTx
    BY <1>9 DEF Restart, Ahead, Queued, Writers
  <2> QED BY <2>1 DEF InOrder
<1>10. ASSUME NEW t \in Txs, Fetch(t) PROVE InOrder'
  <2>1. tx'["stream"] = tx["stream"]
    BY <1>10 DEF Fetch, TypeOK, Writers
  <2> QED BY <1>1, <1>10, <2>1 DEF Fetch
<1>11. ASSUME NEW t \in Txs, Skip(t) \/ FetchFails(t) \/ ConversionFails(t) \/ OperatorReplay(t)
       PROVE  InOrder'
  BY <1>1, <1>11 DEF Skip, FetchFails, ConversionFails, OperatorReplay
<1>12. CASE \/ Still \/ Connect \/ Subscribe \/ SubscriptionLost \/ SocketLost
            \/ NoticeQuiet \/ StartCatchUp \/ ListSignatures \/ ListFails \/ CloseGap
  BY <1>1, <1>12 DEF Still, Connect, Subscribe, SubscriptionLost, SocketLost, NoticeQuiet,
                    StartCatchUp, ListSignatures, ListFails, CloseGap
<1>13. ASSUME NEW w \in Writers, Advance(w) PROVE InOrder'
  BY <1>1, <1>13 DEF Advance
<1> QED
  BY FlowSteps, <1>2, <1>3, <1>4, <1>6, <1>7, <1>8, <1>9, <1>10, <1>11, <1>12, <1>13

\* While the gap is closed, what is not settled is at or above the cursor.
LEMMA ClosedGapReaches ==
    ASSUME Phases, MissingIsNewer, gap = NoSlot,
           NEW t \in confirmed, SlotOf[t] >= FirstSlot, ~Settled(t)
    PROVE  SlotOf[t] >= GapStart
BY DEF Phases, MissingIsNewer, Closing, Missing

\* The gap is opened at the cursor and kept until its catch-up has ended.
LEMMA GapReachesStep ==
    ASSUME Defended', TypeOK, WriterOK, Phases, InFlight, GapReaches, MissingIsNewer,
           [Next]_vars
    PROVE  GapReaches'
<1> USE SlotsAreNumbers DEF socketVars, writerVars, watchVars
<1>1. CASE UNCHANGED <<gap, confirmed>>
  BY <1>1, SettledStays DEF GapReaches
<1>2. ASSUME NEW t \in Txs, Confirm(t) PROVE GapReaches'
  <2> SUFFICES ASSUME gap # NoSlot, NEW u \in confirmed', SlotOf[u] >= FirstSlot, ~Settled(u)'
               PROVE  SlotOf[u] >= gap
    BY <1>2 DEF GapReaches, Confirm
  <2>1. CASE u \in confirmed
    BY <2>1, SettledStays DEF GapReaches
  <2>2. CASE u = t
    <3>1. \A v \in confirmed : SlotOf[v] <= SlotOf[t] /\ SlotOf[v] \in Nat
      BY <1>2 DEF Confirm
    <3>2. gap \in Nat /\ SlotOf[t] \in Nat
      BY DEF TypeOK
    <3> QED BY <2>2, <3>1, <3>2 DEF InFlight
  <2> QED BY <1>2, <2>1, <2>2 DEF Confirm
<1>3. ASSUME gap' = GapStart, gap = NoSlot, UNCHANGED confirmed PROVE GapReaches'
  BY <1>3, ClosedGapReaches, SettledStays DEF GapReaches
<1>4. CASE Restart
  BY <1>3, <1>4, SettledStays DEF Restart, Defended, Mishap, Harmless, GapReaches
<1>5. CASE ListFails
  BY <1>1, <1>5 DEF ListFails, GapAfterError
<1>6. CASE CloseGap
  BY <1>6 DEF CloseGap, GapReaches
<1> QED
  BY <1>1, <1>2, <1>3, <1>4, <1>5, <1>6 DEF Next, vars, Receive, Skip, Connect, Subscribe,
      SubscriptionLost, ClockUpdate, ClockAges, SocketLost, Take, FinishStream, FinishReplay,
      Acquire, Advance, WriteRow, Retry, Drop, HeartbeatSeesLive, HeartbeatTouches,
      NoticeQuiet, StartCatchUp, ListSignatures, Fetch, FetchFails, ConversionFails,
      OperatorReplay

\* What goes on counting as missing did so before.
LEMMA StillMissing ==
    ASSUME [Next]_vars, NEW t \in confirmed, Missing(t)', t \notin todo
    PROVE  Missing(t)
BY SettledStays DEF Missing

\* No step lets the cursor pass a transaction that a listing did not bring and
\* that is not settled.
LEMMA MissingStep ==
    ASSUME Defended', TypeOK, TypeOK', WriterOK, ProgressOK, FlowOK, [Next]_vars
    PROVE  MissingIsNewer'
<1> USE SlotsAreNumbers DEF FlowOK, socketVars, writerVars, watchVars
<1>1. ASSUME ~Closing' PROVE MissingIsNewer'
  BY <1>1 DEF MissingIsNewer
<1>2. ASSUME UNCHANGED <<confirmed, last>>, Closing,
             todo' \subseteq todo, \A u \in todo : u \in todo' \/ Settled(u)',
             Ahead' \subseteq Ahead, \A u \in Ahead : u \in Ahead' \/ Settled(u)',
             logged' \subseteq logged \cup Ahead \cup todo,
             sub' = "on" => sub = "on" /\ wire' = wire
      PROVE  MissingIsNewer'
  <2> SUFFICES ASSUME NEW t \in confirmed, Missing(t)'
               PROVE  /\ SlotOf[t] >= GapStart'
                      /\ \A u \in todo' : SlotOf[u] <= SlotOf[t]
                      /\ t \notin Ahead' => \A u \in Ahead' \cup logged' : SlotOf[u] <= SlotOf[t]
                      /\ sub' = "on" => OnItsWay(t)'
    BY <1>2 DEF MissingIsNewer
  <2>1. Missing(t)
    BY <1>2, StillMissing DEF Missing
  <2>2. t \in Ahead => t \in Ahead'
    BY <1>2 DEF Missing
  <2>3. GapStart' = GapStart
    BY <1>2 DEF GapStart
  <2>4. sub' = "on" => OnItsWay(t)'
    <3>1. t # NoTx
      BY IngestionAssumption DEF Missing
    <3>2. sub' = "on" => t \in wire \/ t \in Ahead'
      BY <1>2, <2>1, <2>2, <3>1 DEF MissingIsNewer, OnItsWay, Ahead
    <3> QED BY <1>2, <3>1, <3>2 DEF OnItsWay, Ahead
  <2> QED BY <1>2, <2>1, <2>2, <2>3, <2>4 DEF MissingIsNewer
<1>3. ASSUME UNCHANGED <<queue, wire, confirmed, todo, logged, sub>>,
             tx'["stream"] = tx["stream"], Closing,
             NEW u \in Txs, GapStart' \in {GapStart, FirstSlot, SlotOf[u]},
             \A t \in confirmed : Missing(t) => SlotOf[u] <= SlotOf[t]
      PROVE  MissingIsNewer'
  <2>1. Ahead' = Ahead /\ Queued' = Queued /\ \A t : OnItsWay(t)' = OnItsWay(t)
    BY <1>3, AheadStays DEF OnItsWay
  <2>2. ASSUME NEW t \in confirmed, Missing(t)' PROVE Missing(t) /\ SlotOf[t] >= GapStart'
    <3>1. Missing(t)
      BY <1>3, <2>2, StillMissing DEF Missing
    <3> QED BY <1>3, <3>1 DEF MissingIsNewer, Missing
  <2> QED BY <1>3, <2>1, <2>2 DEF MissingIsNewer
<1>4. ASSUME NEW t \in Txs, Confirm(t), Closing PROVE MissingIsNewer'
  <2>1. /\ UNCHANGED <<queue, tx, todo, last, logged, sub>> /\ Ahead' = Ahead
        /\ confirmed' = confirmed \cup {t}
        /\ wire \subseteq wire' /\ (sub = "on" => t \in wire')
        /\ GapStart' = GapStart /\ Queued' = Queued
        /\ \A u \in confirmed : SlotOf[u] <= SlotOf[t]
    BY <1>4, AheadStays DEF Confirm, GapStart
  <2>2. SlotOf[t] >= FirstSlot => SlotOf[t] >= GapStart
    BY <2>1, GapBounded
  <2>3. \A u : OnItsWay(u) => OnItsWay(u)'
    BY <2>1 DEF OnItsWay
  <2>4. \A u \in confirmed : Missing(u)' => Missing(u)
    BY <2>1, StillMissing DEF Missing
  <2>5. sub = "on" => OnItsWay(t)'
    BY <2>1 DEF OnItsWay
  <2>6. \A u \in todo \cup Ahead \cup logged : SlotOf[u] <= SlotOf[t]
    BY <2>1 DEF InFlight
  <2> QED BY <1>4, <2>1, <2>2, <2>3, <2>4, <2>5, <2>6 DEF MissingIsNewer, Missing
<1>5. ASSUME NEW u \in wire, \A t \in wire : SlotOf[u] <= SlotOf[t], Closing,
             wire' = wire \ {u}, UNCHANGED <<confirmed, todo, last, tx, sub>>,
             \/ queue' = Append(queue, u) /\ logged' = logged
             \/ queue' = queue /\ logged' = logged \cup {u}
      PROVE  MissingIsNewer'
  <2> SUFFICES ASSUME NEW t \in confirmed, Missing(t)'
               PROVE  /\ SlotOf[t] >= GapStart'
                      /\ \A v \in todo' : SlotOf[v] <= SlotOf[t]
                      /\ t \notin Ahead' => \A v \in Ahead' \cup logged' : SlotOf[v] <= SlotOf[t]
                      /\ OnItsWay(t)'
    BY <1>5 DEF MissingIsNewer
  <2>1. Missing(t) /\ GapStart' = GapStart /\ u \in Txs /\ sub = "on"
    BY <1>5, StillMissing DEF Missing, GapStart, Phases
  <2>2. OnItsWay(t)
    BY <1>5, <2>1 DEF MissingIsNewer
  <2>3. \/ Ahead' = Ahead \cup {u} /\ Queued' = Queued \cup {u} /\ logged' = logged
        \/ Ahead' = Ahead /\ Queued' = Queued /\ logged' = logged \cup {u}
    BY <1>5, <2>1, AheadReceives, AheadStays
  <2>4. OnItsWay(t)'
    BY <1>5, <2>2, <2>3 DEF OnItsWay, Missing, Settled
  <2>5. t \notin Ahead => t \in wire
    BY <2>2, IngestionAssumption DEF OnItsWay, Ahead
  <2>6. t \notin Ahead' => \A v \in Ahead' \cup logged' : SlotOf[v] <= SlotOf[t]
    <3>1. Ahead \subseteq Ahead' /\ Ahead' \cup logged' = (Ahead \cup logged) \cup {u}
      BY <2>3
    <3> QED BY <1>5, <2>1, <2>5, <3>1 DEF MissingIsNewer
  <2> QED BY <1>5, <2>1, <2>4, <2>6 DEF MissingIsNewer
<1>6. ASSUME Closing' PROVE Closing \/ ListSignatures
  <2>1. CASE Restart
    BY <1>6, <2>1, GapBounded DEF Restart, Closing
  <2>2. CASE NoticeQuiet
    BY <1>6, <2>2, GapBounded DEF NoticeQuiet, Closing
  <2> QED
    BY <1>6, <2>1, <2>2 DEF Closing, Next, vars, Confirm, Receive, Skip, Connect, Subscribe,
        SubscriptionLost, ClockUpdate, ClockAges, SocketLost, Take, FinishStream,
        FinishReplay, Acquire, Advance, WriteRow, Retry, Drop, HeartbeatSeesLive,
        HeartbeatTouches, StartCatchUp, ListFails, GapAfterError, CloseGap, Fetch,
        FetchFails, ConversionFails, OperatorReplay
<1>7. CASE ListSignatures
  <2>1. gap # NoSlot /\ todo' = {t \in confirmed : SlotOf[t] >= gap} /\ UNCHANGED confirmed
    BY <1>7 DEF ListSignatures, Phases
  <2>2. \A t \in confirmed : ~Missing(t)'
    BY <2>1, SettledStays DEF Missing, GapReaches
  <2> QED BY <2>1, <2>2 DEF MissingIsNewer
<1> SUFFICES ASSUME Closing, Closing' PROVE MissingIsNewer'
  BY <1>1, <1>6, <1>7
<1>8. CASE Still
  BY <1>2, <1>8, AheadStays DEF Still
<1>9. ASSUME NEW t \in Txs, Receive(t) PROVE MissingIsNewer'
  <2>1. CASE HasRoom
    BY <1>5, <1>9, <2>1 DEF Receive, InSlotOrder, Defended, Mishap, Harmless
  <2>2. CASE ~HasRoom
    BY <1>2, <1>9, <2>2, AheadStays DEF Receive
  <2> QED BY <2>1, <2>2
<1>10. ASSUME NEW t \in Txs, Skip(t) PROVE MissingIsNewer'
  BY <1>5, <1>10 DEF Skip, InSlotOrder, Defended, Mishap, Harmless
<1>11. ASSUME NEW t \in Txs, Fetch(t) PROVE MissingIsNewer'
  <2>1. tx'["stream"] = tx["stream"]
    BY <1>11 DEF Fetch, TypeOK, Writers
  <2> QED BY <1>2, <1>11, <2>1, AheadStays DEF Fetch
<1>12. ASSUME NEW t \in Txs, FetchFails(t) PROVE MissingIsNewer'
  <2>1. t \in todo /\ Settled(t)'
    BY <1>12 DEF FetchFails, NextPlanned, Settled
  <2>2. Ahead' = Ahead /\ UNCHANGED <<confirmed, last, sub, wire>>
        /\ todo' = todo \ {t} /\ logged' = logged \cup {t}
    BY <1>12, AheadStays DEF FetchFails
  <2> QED BY <1>2, <2>1, <2>2
<1>13. ASSUME NEW t \in Txs, ConversionFails(t) PROVE FALSE
  BY <1>13 DEF ConversionFails, NextPlanned, Phases, Closing
<1>14. ASSUME NEW t \in Txs, OperatorReplay(t) PROVE MissingIsNewer'
  <2>0. CASE last' = last
    BY <1>2, <1>14, <2>0, AheadStays DEF OperatorReplay
  <2> SUFFICES ASSUME last' # last PROVE MissingIsNewer'
    BY <2>0
  <2>1. /\ t \in logged /\ \A u \in Txs : OnItsWay(u) => SlotOf[t] <= SlotOf[u]
        /\ last' \in {last, SlotOf[t]}
        /\ UNCHANGED <<queue, tx, wire, confirmed, todo, logged, sub>>
    BY <1>14 DEF OperatorReplay, IsDue, Raised, Defended, Mishap, Harmless
  <2>2. GapStart' \in {GapStart, FirstSlot, SlotOf[t]}
    BY <2>1 DEF GapStart
  <2>3. ASSUME NEW u \in confirmed, Missing(u) PROVE SlotOf[t] <= SlotOf[u]
    <3>1. CASE u \in Ahead
      BY <2>1, <3>1 DEF OnItsWay, Ahead
    <3>2. CASE u \notin Ahead
      BY <2>1, <2>3, <3>2 DEF MissingIsNewer
    <3> QED BY <3>1, <3>2
  <2> QED BY <1>3, <2>1, <2>2, <2>3
<1>15. CASE Connect \/ Subscribe
  BY <1>15 DEF Connect, Subscribe, Defended, Mishap, Harmless, Phases, Closing
<1>16. CASE SubscriptionLost \/ SocketLost
  BY <1>2, <1>16, AheadStays DEF SubscriptionLost, SocketLost
<1>17. CASE Take
  BY <1>2, <1>17, AheadTakes DEF Take
<1>18. CASE FinishStream
  <2>1. Written(tx["stream"]) /\ rows' = rows
    BY <1>18, FinishedIsWritten DEF FinishStream, Writers
  <2>2. Settled(tx["stream"])
    BY <2>1 DEF Settled
  <2>3. Ahead' \subseteq Ahead /\ \A u \in Ahead : u \in Ahead' \/ Settled(u)'
    BY <1>18, <2>2, AheadReleases, SettledStays DEF FinishStream
  <2> QED BY <1>2, <1>18, <2>3 DEF FinishStream
<1>19. CASE FinishReplay
  <2>1. Settled(tx["catch_up"])
    BY <1>19, FinishedIsWritten DEF FinishReplay, Writers, Settled
  <2>2. tx'["stream"] = tx["stream"]
    BY <1>19, ReleaseLeaves DEF FinishReplay, Writers
  <2>3. \A u \in todo : u \in todo' \/ Settled(u)'
    BY <1>19, <2>1, SettledStays DEF FinishReplay
  <2> QED BY <1>2, <1>19, <2>2, <2>3, AheadStays DEF FinishReplay
<1>20. ASSUME NEW w \in Writers, Drop(w) PROVE MissingIsNewer'
  <2>1. PICK u \in Txs : u = tx[w]
    BY <1>20 DEF Drop, WriterOK, TypeOK
  <2>2. /\ u # NoTx /\ logged' = logged \cup {u} /\ UNCHANGED <<confirmed, last, sub, wire, queue>>
    BY <1>20, <2>1, IngestionAssumption DEF Drop
  <2>3. Settled(u)'
    BY <2>2 DEF Settled
  <2>4. CASE w = "stream"
    <3>1. u \in Ahead /\ Ahead' \subseteq Ahead /\ Ahead \subseteq Ahead' \cup {u}
      BY <1>20, <2>1, <2>2, <2>4, AheadReleases DEF Drop, Ahead
    <3> QED BY <1>2, <1>20, <2>2, <2>3, <2>4, <3>1 DEF Drop
  <2>5. CASE w = "catch_up"
    <3>1. tx'["stream"] = tx["stream"] /\ u \in todo /\ todo' = todo \ {u}
      BY <1>20, <2>1, <2>2, <2>5, ReleaseLeaves DEF Drop, Writers, Phases
    <3> QED BY <1>2, <2>2, <2>3, <3>1, AheadStays
  <2> QED BY <2>4, <2>5 DEF Writers
<1>21. ASSUME NEW w \in Writers, Advance(w) PROVE MissingIsNewer'
  <2>1. /\ tx[w] # NoTx /\ tx[w] \in Txs /\ last' \in {last, SlotOf[tx[w]]}
        /\ UNCHANGED <<queue, tx, wire, confirmed, todo, logged, sub>>
    BY <1>21 DEF Advance, Raised, WriterOK, TypeOK
  <2>2. GapStart' \in {GapStart, FirstSlot, SlotOf[tx[w]]}
    BY <2>1 DEF GapStart
  <2>3. ASSUME NEW u \in confirmed, Missing(u) PROVE SlotOf[tx[w]] <= SlotOf[u]
    <3>1. CASE w = "catch_up"
      BY <2>1, <2>3, <3>1 DEF Phases, MissingIsNewer
    <3>2. CASE w = "stream" /\ u \in Ahead
      BY <2>1, <3>2 DEF InOrder, Ahead
    <3>3. CASE w = "stream" /\ u \notin Ahead
      BY <2>1, <2>3, <3>3 DEF MissingIsNewer, Ahead
    <3> QED BY <3>1, <3>2, <3>3 DEF Writers
  <2> QED BY <1>3, <2>1, <2>2, <2>3
<1>22. CASE NoticeQuiet \/ StartCatchUp \/ ListFails \/ Restart
  <2>1. CASE NoticeQuiet \/ Restart
    BY <2>1, GapBounded DEF NoticeQuiet, Restart, Closing
  <2>2. CASE StartCatchUp \/ ListFails
    BY <2>2 DEF StartCatchUp, ListFails, GapAfterError, Closing, Phases
  <2> QED BY <1>22, <2>1, <2>2
<1>23. CASE CloseGap
  BY <1>2, <1>23, AheadStays DEF CloseGap
<1> QED
  BY FlowSteps, <1>4, <1>7, <1>8, <1>9, <1>10, <1>11, <1>12, <1>13, <1>14, <1>15, <1>16,
     <1>17, <1>18, <1>19, <1>20, <1>21, <1>22, <1>23

\* The daemon starts with nothing in flight and the gap open at the release.
LEMMA InitFlows == Init => FlowOK
<1> SUFFICES ASSUME Init PROVE FlowOK
  OBVIOUS
<1>1. tx["stream"] = NoTx /\ tx["catch_up"] = NoTx /\ Ahead = {} /\ Queued = {}
  BY DEF Init, Ahead, Queued, Writers
<1>2. gap = FirstSlot /\ gap # NoSlot /\ gap \in Nat
  BY SlotsAreNumbers DEF Init
<1> QED
  BY <1>1, <1>2, IngestionAssumption, SlotsAreNumbers DEF Init, FlowOK, Phases, InFlight, InOrder,
      GapReaches, MissingIsNewer, Closing

\* Until one of five timings has happened (a crash while a gap is open that the
\* cursor has passed, an outage the watcher did not see, a push read out of slot
\* order, a list fetched before the subscription was in place, a replay out of
\* turn), no confirmed transaction of the release is lost in silence, whatever
\* else fails: restarts, outages, a full channel, refused lists, RPC errors,
\* dropped writes (catchup.rs, processors.rs, persist.rs, the datasource's lib.rs).
THEOREM NothingIsLost == Spec => []LostOnlyByMishap
<1>1. Init => ProgressOK /\ (Defended => FlowOK)
  BY InitFlows DEF Init, ProgressOK
<1>2. ASSUME [Next]_vars PROVE Defended' => Defended
  <2>1. mishaps \subseteq mishaps'
    BY <1>2 DEF Next, vars, Mishap, Confirm, Receive, Skip, Connect, Subscribe,
        SubscriptionLost, ClockUpdate, ClockAges, SocketLost, Take, FinishStream,
        FinishReplay, Acquire, Advance, WriteRow, Retry, Drop, HeartbeatSeesLive,
        HeartbeatTouches, NoticeQuiet, StartCatchUp, ListSignatures, ListFails, CloseGap,
        Fetch, FetchFails, ConversionFails, OperatorReplay, Restart
  <2> QED BY <2>1 DEF Defended
<1>3. ASSUME TypeOK, TypeOK', WriterOK, ProgressOK, Defended => FlowOK, [Next]_vars
      PROVE  ProgressOK' /\ (Defended => FlowOK)'
  <2>1. ASSUME Defended' PROVE FlowOK'
    <3>1. FlowOK
      BY <1>2, <1>3, <2>1
    <3> QED
      BY <1>3, <2>1, <3>1, PhasesStep, InFlightStep, InOrderStep, GapReachesStep, MissingStep
      DEF FlowOK
  <2> QED BY <1>3, <2>1, ProgressStep
<1>4. ASSUME FlowOK PROVE Recoverable
  <2> SUFFICES ASSUME NEW t \in confirmed, SlotOf[t] >= FirstSlot, ~Settled(t)
               PROVE  SlotOf[t] >= CatchUpFrom
    BY DEF Recoverable, Settled
  <2> QED BY <1>4, ClosedGapReaches DEF FlowOK, GapReaches, CatchUpFrom
<1>5. TypeOK /\ TypeOK' /\ WriterOK /\ ProgressOK /\ (Defended => FlowOK) /\ [Next]_vars
          => (ProgressOK /\ (Defended => FlowOK))'
  BY <1>3
<1>6. (Defended => FlowOK) => LostOnlyByMishap
  BY <1>4 DEF LostOnlyByMishap, Defended
<1> QED BY <1>1, <1>5, <1>6, WriterCorrect, PTL DEF Spec
=============================================================================
