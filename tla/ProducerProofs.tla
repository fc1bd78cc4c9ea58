--------------------------- MODULE ProducerProofs ---------------------------
(***************************************************************************)
(* Theorems about Producer, for any set of row ids, any number of tasks,   *)
(* routes, crashes and failures, and their proofs.                         *)
(*                                                                         *)
(* The inductive invariant is IInv.  Its parts say, from the lock outwards:*)
(* one task at a time is inside handle (LockInv), with a row of the table  *)
(* that is not recorded yet (BatchInv), behind which nothing unrecorded is *)
(* left (PrefixInv); an open entry is a copy of that row (OpenInv,         *)
(* CommitInv); and after the commit a copy of it is visible (RecordInv).   *)
(***************************************************************************)
EXTENDS Producer, BrokerProofs, FiniteSetTheorems, SequenceTheorems, TLAPS

\* A task that is inside handle holds the lock, and the holder is inside.
LockInv == \A h \in Tasks : pc[h] \in Held <=> lock = h

\* What the step of a task says of its route and of the route's client.
RouteInv ==
  \A h \in Tasks :
    /\ pc[h] # "idle" => route[h] \in Routes
    /\ pc[h] \in {"begin", "commit"} => route[h] \in TxnRoutes
    /\ pc[h] = "create" => client[route[h]] = "absent"
    /\ pc[h] = "commit" => client[route[h]] = "txn"
    /\ pc[h] = "record" /\ IsTxn(h) => client[route[h]] = "ready"

\* The rows in hand are rows of the table that nobody has recorded, but for
\* an update whose outcome was lost with the connection.
BatchInv ==
  \A h \in Tasks :
    /\ batch[h] \subseteq rows
    /\ \A i \in batch[h] :
         Recorded(i) => pc[h] = "record" /\ pg = "broken"

\* A task that can still publish has every earlier unrecorded row in hand.
PrefixInv ==
  \A h \in Tasks :
    ~IsTxn(h) \/ client[route[h]] # "failed" =>
      \A i \in batch[h], j \in rows : j < i => Recorded(j) \/ j \in batch[h]

\* Only rows of the table are published.
LoggedInv ==
  \A t \in Topics : \A k \in Offsets(t) : log[t][k].id \in rows

\* Before the commit, the current row has an open copy unless the
\* transaction is gone.
CommitInv ==
  \A h \in Tasks : \A i \in Ids :
    pc[h] = "commit" /\ NotFenced(h) /\ Current(h, i) =>
      \E k \in Offsets("bankEO") :
        log["bankEO"][k] = [id |-> i, status |-> "open"]

\* After it, the current row has a visible copy.
RecordInv ==
  \A h \in Tasks : \A i \in Ids :
    pc[h] = "record" /\ Current(h, i) =>
      Committed(TopicOf(route[h]), i) # {}

\* The transaction of a client that works has at most one open entry, a copy
\* of the current row of the task that is about to commit.
OpenInv ==
  txnOwner \in TxnRoutes /\ client[txnOwner] \in {"ready", "txn"} =>
    \A t \in Topics : \A k \in Offsets(t) : IsOpen(t, k) =>
      /\ \A l \in Offsets(t) : IsOpen(t, l) => l = k
      /\ \E h \in Tasks : /\ pc[h] = "commit" /\ route[h] = txnOwner
                          /\ Current(h, log[t][k].id)

\* Visible copies beyond one for each restart: one, and only of a row that is
\* recorded or about to be.
CopiesInv ==
  \A i \in Ids :
    /\ IsFiniteSet(Committed("bankEO", i))
    /\ Cardinality(Committed("bankEO", i)) <= 1 + crashes
    /\ \/ Recorded(i)
       \/ \E h \in Tasks : pc[h] = "record" /\ Current(h, i)
       \/ Cardinality(Committed("bankEO", i)) <= crashes

IInv ==
  /\ TypeOK
  /\ LockInv
  /\ RouteInv
  /\ BatchInv
  /\ PrefixInv
  /\ LoggedInv
  /\ CommitInv
  /\ RecordInv
  /\ OpenInv
  /\ CopiesInv
  /\ ProducedIsPublished
  /\ NoRowOvertaken
  /\ TopicsAscending

-----------------------------------------------------------------------------
(* The operators of the model                                              *)

USE DEF Topics, Offsets

\* LIMIT n of an ascending ORDER BY returns a prefix of the unproduced rows.
LEMMA OldestIsPrefix ==
  ASSUME NEW S \in SUBSET Ids, NEW n \in Nat,
         NEW i \in Oldest(S, n), NEW j \in S, j < i
  PROVE  j \in Oldest(S, n)
<1> DEFINE Below(x) == {k \in S : k < x}
<1>1. S \subseteq Nat /\ i \in Nat /\ j \in Nat
  BY IdsAssumption DEF Oldest
<1>2. IsFiniteSet(Below(i))
  <2>1. \A k \in S : k \in Nat /\ (k < i => k \in 0 .. i)
    BY <1>1
  <2>2. IsFiniteSet(0 .. i)
    BY <1>1, FS_Interval
  <2>3. Below(i) \subseteq 0 .. i
    BY <2>1
  <2> QED BY <2>2, <2>3, FS_Subset
<1>3. Below(j) \subseteq Below(i)
  <2>1. \A k \in S : k \in Nat /\ (k < j => k < i)
    BY <1>1
  <2> QED BY <2>1
<1>4. /\ Cardinality(Below(j)) <= Cardinality(Below(i))
      /\ Cardinality(Below(j)) \in Nat
      /\ Cardinality(Below(i)) \in Nat
  BY <1>2, <1>3, FS_Subset, FS_CardinalityType
<1>5. Cardinality(Below(i)) < n
  BY DEF Oldest
<1>6. Cardinality(Below(j)) < n
  BY <1>4, <1>5
<1> QED BY <1>6 DEF Oldest

\* A set with one more element is at most one larger.
LEMMA AddOne ==
  ASSUME NEW S, IsFiniteSet(S), NEW x
  PROVE  /\ IsFiniteSet(S \cup {x})
         /\ Cardinality(S \cup {x}) \in Nat
         /\ Cardinality(S \cup {x}) <= Cardinality(S) + 1
<1>1. Cardinality(S) \in Nat
  BY FS_CardinalityType
<1>2. /\ IsFiniteSet(S \cup {x})
      /\ \/ Cardinality(S \cup {x}) = Cardinality(S)
         \/ Cardinality(S \cup {x}) = Cardinality(S) + 1
  BY FS_AddElement
<1> QED BY <1>1, <1>2
-----------------------------------------------------------------------------
(* Types                                                                   *)

USE DEF At, Goto, IsTxn, SetClient, NotFenced, Sending, Panic,
        tracker, service, task, budget, vars, RowSteps, Held, Steps

\* After a row, the task leaves handle with nothing in hand, or starts on what
\* is left of its rows.
LEMMA NextRowFacts ==
  ASSUME TypeOK, NEW h \in Tasks, NEW i \in batch[h], NextRow(h, i)
  PROVE  /\ pc' \in [Tasks -> Steps]
         /\ batch' \in [Tasks -> SUBSET Ids]
         /\ lock' \in {lock, NoTask}
         /\ \A g \in Tasks \ {h} : pc'[g] = pc[g] /\ batch'[g] = batch[g]
         /\ batch'[h] = batch[h] \ {i}
         /\ \/ pc'[h] = "idle" /\ lock' = NoTask /\ batch'[h] = {}
            \/ pc'[h] = FirstStep(h) /\ lock' = lock /\ batch'[h] # {}
<1> FirstStep(h) \in Steps
  BY DEF FirstStep
<1>1. CASE batch[h] = {i}
  BY <1>1 DEF TypeOK, NextRow, Leave
<1>2. CASE batch[h] # {i}
  BY <1>2 DEF TypeOK, NextRow
<1> QED BY <1>1, <1>2

\* A step of any actor keeps the state well typed (TypeOK of Producer).
LEMMA TypeStep ==
  ASSUME TypeOK, [Next]_vars
  PROVE  TypeOK'
<1> USE DEF TypeOK
<1>1. ASSUME NEW h \in Tasks, Request(h) PROVE TypeOK'
  BY <1>1 DEF Request, LogType
<1>2. ASSUME NEW h \in Tasks, Acquire(h) PROVE TypeOK'
  BY <1>2 DEF Acquire, LogType
<1>3. ASSUME NEW h \in Tasks, CreateProducer(h) PROVE TypeOK'
  <2>1. LogType'
    BY <1>3, SettledFacts DEF CreateProducer, InitTransactions, LogType
  <2> QED BY <1>3, <2>1 DEF CreateProducer, InitTransactions
<1>4. ASSUME NEW h \in Tasks, CreateFails(h) PROVE TypeOK'
  <2>1. LogType'
    BY <1>4, SettledFacts DEF CreateFails, LogType
  <2> QED BY <1>4, <2>1, BoundAssumption DEF CreateFails, Leave, Fault
<1>5. ASSUME NEW h \in Tasks, Connect(h) PROVE TypeOK'
  BY <1>5 DEF Connect, LogType
<1>6. ASSUME NEW h \in Tasks, ConnectFails(h) PROVE TypeOK'
  BY <1>6, BoundAssumption DEF ConnectFails, Leave, Fault, LogType
<1>7. ASSUME NEW h \in Tasks, Query(h) PROVE TypeOK'
  <2>1. \A n \in 1 .. MaxLimit : Oldest(Unproduced, n) \subseteq Ids
    BY DEF Oldest, Unproduced
  <2> QED BY <1>7, <2>1 DEF Query, Leave, FirstStep, LogType
<1>8. ASSUME NEW h \in Tasks, Begin(h) PROVE TypeOK'
  BY <1>8 DEF Begin, LogType
<1>9. ASSUME NEW h \in Tasks, SendTxn(h) PROVE TypeOK'
  <2>1. LogType'
    BY <1>9, AppendedFacts DEF SendTxn, TopicOf
  <2> QED BY <1>9, <2>1 DEF SendTxn
<1>10. ASSUME NEW h \in Tasks, SendTimesOut(h) PROVE TypeOK'
  <2>1. LogType'
    BY <1>10, AppendedFacts DEF SendTimesOut, TopicOf, LogType
  <2>2. faults' \in 0 .. MaxFaults /\ crashes' = crashes
    BY <1>10, BoundAssumption DEF SendTimesOut, Fault
  <2> QED BY <1>10, <2>1, <2>2 DEF SendTimesOut
<1>11. ASSUME NEW h \in Tasks, SendFenced(h) PROVE TypeOK'
  BY <1>11 DEF SendFenced, LogType
<1>12. ASSUME NEW h \in Tasks, Commit(h) PROVE TypeOK'
  <2>1. LogType'
    BY <1>12, SettledFacts DEF Commit
  <2> QED BY <1>12, <2>1 DEF Commit
<1>13. ASSUME NEW h \in Tasks, CommitFatal(h) PROVE TypeOK'
  <2> PICK i \in batch[h] : NextRow(h, i)
    BY <1>13 DEF CommitFatal
  <2> QED BY <1>13, NextRowFacts DEF CommitFatal, FirstStep, LogType
<1>14. ASSUME NEW h \in Tasks, SendPlain(h) PROVE TypeOK'
  <2>1. LogType'
    BY <1>14, AppendedFacts DEF SendPlain, TopicOf
  <2> QED BY <1>14, <2>1 DEF SendPlain
<1>15. ASSUME NEW h \in Tasks, SendPlainTimesOut(h) PROVE TypeOK'
  <2>1. LogType'
    BY <1>15, AppendedFacts DEF SendPlainTimesOut, TopicOf
  <2> QED BY <1>15, <2>1, BoundAssumption DEF SendPlainTimesOut, Fault
<1>16. ASSUME NEW h \in Tasks, Record(h) PROVE TypeOK'
  <2> PICK i \in batch[h] : Mark(h, i) /\ NextRow(h, i)
    BY <1>16 DEF Record
  <2> QED BY <1>16, NextRowFacts DEF Record, Mark, FirstStep, LogType
<1>17. ASSUME NEW h \in Tasks, RecordLost(h) PROVE TypeOK'
  BY <1>17, BoundAssumption DEF RecordLost, Mark, Fault, LogType
<1>18. CASE Insert
  BY <1>18 DEF Insert, LogType
<1>19. CASE BreakPg
  BY <1>19, BoundAssumption DEF BreakPg, Fault, LogType
<1>20. CASE ExpireAbandoned
  <2>1. LogType'
    BY <1>20, SettledFacts DEF ExpireAbandoned, Expire
  <2> QED BY <1>20, <2>1 DEF ExpireAbandoned, Expire
<1>21. CASE ExpireSlow
  <2>1. LogType'
    BY <1>21, SettledFacts DEF ExpireSlow, Expire
  <2> QED BY <1>21, <2>1, BoundAssumption DEF ExpireSlow, Expire, Fault
<1>22. CASE Crash
  BY <1>22, BoundAssumption DEF Crash, LogType
<1>23. CASE UNCHANGED vars
  BY <1>23 DEF LogType
<1> QED
  BY <1>1, <1>2, <1>3, <1>4, <1>5, <1>6, <1>7, <1>8, <1>9, <1>10, <1>11,
     <1>12, <1>13, <1>14, <1>15, <1>16, <1>17, <1>18, <1>19, <1>20, <1>21,
     <1>22, <1>23 DEF Next, Work, Failure, Environment
-----------------------------------------------------------------------------
(* The lock, and what a task inside handle knows                           *)

\* A step keeps the lock with the one task that is inside handle.
LEMMA LockStep ==
  ASSUME TypeOK, LockInv, [Next]_vars
  PROVE  LockInv'
<1> USE DEF TypeOK, LockInv
<1>1. ASSUME NEW h \in Tasks, Request(h) PROVE LockInv'
  BY <1>1 DEF Request
<1>2. ASSUME NEW h \in Tasks, Acquire(h) PROVE LockInv'
  BY <1>2, SentinelAssumption DEF Acquire, LockFree
<1>3. ASSUME NEW h \in Tasks, CreateProducer(h) \/ Connect(h) PROVE LockInv'
  BY <1>3 DEF CreateProducer, Connect
<1>4. ASSUME NEW h \in Tasks, CreateFails(h) \/ ConnectFails(h)
      PROVE  LockInv'
  BY <1>4, SentinelAssumption DEF CreateFails, ConnectFails, Leave
<1>5. ASSUME NEW h \in Tasks, Query(h) PROVE LockInv'
  BY <1>5, SentinelAssumption DEF Query, Leave, FirstStep
<1>6. ASSUME NEW h \in Tasks,
             Begin(h) \/ SendTxn(h) \/ SendTimesOut(h) \/ SendFenced(h)
      PROVE  LockInv'
  BY <1>6 DEF Begin, SendTxn, SendTimesOut, SendFenced
<1>7. ASSUME NEW h \in Tasks, Commit(h) \/ SendPlain(h)
      PROVE  LockInv'
  BY <1>7 DEF Commit, SendPlain
<1>8. ASSUME NEW h \in Tasks, NEW i \in batch[h], NextRow(h, i), pc[h] \in Held
      PROVE  LockInv'
  BY <1>8, NextRowFacts, SentinelAssumption DEF FirstStep
<1>9. ASSUME NEW h \in Tasks, CommitFatal(h) \/ Record(h) PROVE LockInv'
  BY <1>8, <1>9 DEF CommitFatal, Record
<1>10. ASSUME NEW h \in Tasks, SendPlainTimesOut(h) \/ RecordLost(h)
       PROVE  LockInv'
  BY <1>10 DEF SendPlainTimesOut, RecordLost
<1>11. CASE Insert \/ BreakPg \/ ExpireAbandoned \/ ExpireSlow
  BY <1>11 DEF Insert, BreakPg, ExpireAbandoned, ExpireSlow
<1>12. CASE Crash
  BY <1>12, SentinelAssumption DEF Crash
<1>13. CASE UNCHANGED vars
  BY <1>13
<1> QED
  BY <1>1, <1>2, <1>3, <1>4, <1>5, <1>6, <1>7, <1>9, <1>10, <1>11, <1>12,
     <1>13 DEF Next, Work, Failure, Environment

\* A step keeps what a task's place in handle says of its route's client.
LEMMA RouteStep ==
  ASSUME TypeOK, LockInv, RouteInv, [Next]_vars
  PROVE  RouteInv'
<1> USE DEF TypeOK, LockInv, RouteInv
<1>1. ASSUME NEW h \in Tasks, Request(h) PROVE RouteInv'
  BY <1>1 DEF Request
<1>2. ASSUME NEW h \in Tasks, Acquire(h) PROVE RouteInv'
  BY <1>2 DEF Acquire
<1>3. ASSUME NEW h \in Tasks, CreateProducer(h) \/ Connect(h) PROVE RouteInv'
  BY <1>3 DEF CreateProducer, Connect
<1>4. ASSUME NEW h \in Tasks, CreateFails(h) \/ ConnectFails(h)
      PROVE  RouteInv'
  BY <1>4 DEF CreateFails, ConnectFails, Leave
<1>5. ASSUME NEW h \in Tasks, Query(h) PROVE RouteInv'
  BY <1>5 DEF Query, Leave, FirstStep
<1>6. ASSUME NEW h \in Tasks,
             Begin(h) \/ SendTxn(h) \/ SendTimesOut(h) \/ SendFenced(h)
      PROVE  RouteInv'
  BY <1>6 DEF Begin, SendTxn, SendTimesOut, SendFenced, Routes
<1>7. ASSUME NEW h \in Tasks, Commit(h) \/ SendPlain(h)
      PROVE  RouteInv'
  BY <1>7 DEF Commit, SendPlain, Routes
<1>8. ASSUME NEW h \in Tasks, NEW i \in batch[h], NextRow(h, i),
             pc[h] \in RowSteps, UNCHANGED route,
             \A r \in Routes \ {route[h]} : client'[r] = client[r]
      PROVE  RouteInv'
  <2>1. pc'[h] \in {"idle", "begin", "send"} /\ (pc'[h] = "begin" => IsTxn(h))
    BY <1>8, NextRowFacts DEF FirstStep
  <2>2. \A g \in Tasks \ {h} : pc[g] \notin Held /\ pc'[g] = pc[g]
    BY <1>8, NextRowFacts
  <2> QED BY <1>8, <2>1, <2>2
<1>9. ASSUME NEW h \in Tasks, CommitFatal(h) \/ Record(h) PROVE RouteInv'
  BY <1>8, <1>9 DEF CommitFatal, Record
<1>10. ASSUME NEW h \in Tasks, SendPlainTimesOut(h) \/ RecordLost(h)
       PROVE  RouteInv'
  BY <1>10 DEF SendPlainTimesOut, RecordLost
<1>11. CASE Insert \/ BreakPg \/ ExpireAbandoned \/ ExpireSlow
  BY <1>11 DEF Insert, BreakPg, ExpireAbandoned, ExpireSlow
<1>12. CASE Crash
  BY <1>12 DEF Crash
<1>13. CASE UNCHANGED vars
  BY <1>13
<1> QED
  BY <1>1, <1>2, <1>3, <1>4, <1>5, <1>6, <1>7, <1>9, <1>10, <1>11, <1>12,
     <1>13 DEF Next, Work, Failure, Environment
-----------------------------------------------------------------------------
(* The rows in hand                                                        *)

\* While a task is inside handle, no other task has a row in hand.
LEMMA OthersEmpty ==
  ASSUME TypeOK, LockInv, NEW h \in Tasks, pc[h] \in Held,
         NEW g \in Tasks \ {h}
  PROVE  pc[g] \notin Held /\ batch[g] = {}
BY DEF TypeOK, LockInv

\* A step leaves in hand only rows of the table that nobody has recorded:
\* no other task can record one, for the lock.
LEMMA BatchStep ==
  ASSUME TypeOK, LockInv, BatchInv, [Next]_vars
  PROVE  BatchInv'
<1> USE DEF TypeOK, BatchInv, Recorded
<1>1. ASSUME NEW h \in Tasks, Request(h) \/ Acquire(h) PROVE BatchInv'
  BY <1>1 DEF Request, Acquire
<1>2. ASSUME NEW h \in Tasks, CreateProducer(h) \/ Connect(h) PROVE BatchInv'
  BY <1>2, OthersEmpty DEF CreateProducer, Connect
<1>3. ASSUME NEW h \in Tasks, CreateFails(h) \/ ConnectFails(h)
      PROVE  BatchInv'
  BY <1>3 DEF CreateFails, ConnectFails, Leave
<1>4. ASSUME NEW h \in Tasks, Query(h) PROVE BatchInv'
  <2>1. \A n \in 1 .. MaxLimit : Oldest(Unproduced, n) \subseteq Unproduced
    BY DEF Oldest
  <2> QED BY <1>4, <2>1 DEF Query, Leave, Unproduced
<1>5. ASSUME NEW h \in Tasks,
             Begin(h) \/ SendTxn(h) \/ SendTimesOut(h) \/ SendFenced(h)
      PROVE  BatchInv'
  BY <1>5 DEF Begin, SendTxn, SendTimesOut, SendFenced
<1>6. ASSUME NEW h \in Tasks,
             Commit(h) \/ SendPlain(h) \/ SendPlainTimesOut(h)
      PROVE  BatchInv'
  BY <1>6 DEF Commit, SendPlain, SendPlainTimesOut
<1>7. ASSUME NEW h \in Tasks, CommitFatal(h) PROVE BatchInv'
  <2> PICK i \in batch[h] : NextRow(h, i)
    BY <1>7 DEF CommitFatal
  <2> QED BY <1>7, NextRowFacts DEF CommitFatal
<1>8. ASSUME NEW h \in Tasks, Record(h) PROVE BatchInv'
  <2> PICK i \in batch[h] : Mark(h, i) /\ NextRow(h, i)
    BY <1>8 DEF Record
  <2>1. \A g \in Tasks \ {h} : batch'[g] = {}
    BY <1>8, OthersEmpty, NextRowFacts DEF Record
  <2>2. /\ rows' = rows
        /\ batch'[h] = batch[h] \ {i}
        /\ \A j \in batch[h] \ {i} : producerType'[j] = NoRoute
    BY <1>8, NextRowFacts DEF Record, Mark
  <2> QED BY <2>1, <2>2
<1>9. ASSUME NEW h \in Tasks, RecordLost(h) PROVE BatchInv'
  BY <1>9, OthersEmpty DEF RecordLost, Mark
<1>10. CASE Insert \/ BreakPg \/ ExpireAbandoned \/ ExpireSlow
  BY <1>10 DEF Insert, BreakPg, ExpireAbandoned, ExpireSlow
<1>11. CASE Crash
  BY <1>11 DEF Crash
<1>12. CASE UNCHANGED vars
  BY <1>12
<1> QED
  BY <1>1, <1>2, <1>3, <1>4, <1>5, <1>6, <1>7, <1>8, <1>9, <1>10, <1>11,
     <1>12 DEF Next, Work, Failure, Environment

\* A step leaves no unrecorded row behind a task that can still publish: a
\* row is skipped only by a failed client, which publishes no more.
LEMMA PrefixStep ==
  ASSUME TypeOK, LockInv, RouteInv, BatchInv, PrefixInv, [Next]_vars
  PROVE  PrefixInv'
<1> USE DEF TypeOK, PrefixInv, Recorded
<1>1. ASSUME NEW h \in Tasks, Request(h) \/ Acquire(h) PROVE PrefixInv'
  BY <1>1 DEF Request, Acquire
<1>2. ASSUME NEW h \in Tasks, CreateProducer(h) \/ Connect(h) PROVE PrefixInv'
  BY <1>2, OthersEmpty DEF CreateProducer, Connect
<1>3. ASSUME NEW h \in Tasks, CreateFails(h) \/ ConnectFails(h)
      PROVE  PrefixInv'
  BY <1>3 DEF CreateFails, ConnectFails, Leave
<1>4. ASSUME NEW h \in Tasks, Query(h) PROVE PrefixInv'
  <2>1. Unproduced \in SUBSET Ids
    BY DEF Unproduced
  <2>2. \A n \in 1 .. MaxLimit : \A i \in Oldest(Unproduced, n) :
          \A j \in Unproduced : j < i => j \in Oldest(Unproduced, n)
    BY <2>1, OldestIsPrefix, BoundAssumption
  <2>3. \A g \in Tasks \ {h} : batch'[g] = {}
    BY <1>4, OthersEmpty DEF Query, Leave
  <2>4. UNCHANGED <<rows, producerType>>
    BY <1>4 DEF Query
  <2>5. \A i \in batch'[h], j \in rows : j < i => Recorded(j) \/ j \in batch'[h]
    BY <1>4, <2>2 DEF Query, Leave, Unproduced
  <2> QED BY <2>3, <2>4, <2>5
<1>5. ASSUME NEW h \in Tasks,
             Begin(h) \/ SendTxn(h) \/ SendTimesOut(h) \/ SendFenced(h)
      PROVE  PrefixInv'
  BY <1>5, OthersEmpty DEF Begin, SendTxn, SendTimesOut, SendFenced, Routes
<1>6. ASSUME NEW h \in Tasks,
             Commit(h) \/ SendPlain(h) \/ SendPlainTimesOut(h)
      PROVE  PrefixInv'
  BY <1>6, OthersEmpty DEF Commit, SendPlain, SendPlainTimesOut, RouteInv
<1>7. ASSUME NEW h \in Tasks, CommitFatal(h) PROVE PrefixInv'
  <2> PICK i \in batch[h] : NextRow(h, i)
    BY <1>7 DEF CommitFatal
  <2>1. \A g \in Tasks \ {h} : batch'[g] = {}
    BY <1>7, OthersEmpty, NextRowFacts DEF CommitFatal
  <2>2. (IsTxn(h) /\ client[route[h]] = "failed")'
    BY <1>7 DEF CommitFatal, RouteInv, Routes
  <2> QED BY <2>1, <2>2
<1>8. ASSUME NEW h \in Tasks, Record(h) PROVE PrefixInv'
  <2> PICK i \in batch[h] : Mark(h, i) /\ NextRow(h, i)
    BY <1>8 DEF Record
  <2>1. \A g \in Tasks \ {h} : batch'[g] = {}
    BY <1>8, OthersEmpty, NextRowFacts DEF Record
  <2>2. /\ UNCHANGED <<rows, client, route>>
        /\ batch'[h] = batch[h] \ {i}
        /\ \A j \in Ids : j # i => producerType'[j] = producerType[j]
    BY <1>8, NextRowFacts DEF Record, Mark
  <2>3. pc[h] = "record"
    BY <1>8 DEF Record
  <2>4. producerType'[i] # NoRoute
    BY <2>3, SentinelAssumption DEF Mark, RouteInv
  <2> QED BY <2>1, <2>2, <2>4
<1>9. ASSUME NEW h \in Tasks, RecordLost(h) PROVE PrefixInv'
  <2>1. \A g \in Tasks \ {h} : batch[g] = {}
    BY <1>9, OthersEmpty DEF RecordLost
  <2>2. UNCHANGED <<rows, client, route, batch>>
    BY <1>9 DEF RecordLost
  <2>3. \A j \in Ids : producerType[j] # NoRoute => producerType'[j] # NoRoute
    BY <1>9, SentinelAssumption DEF RecordLost, Mark, RouteInv
  <2> QED BY <2>1, <2>2, <2>3
<1>10. CASE Insert
  BY <1>10, IdsAssumption DEF Insert, BatchInv
<1>11. CASE BreakPg \/ ExpireAbandoned \/ ExpireSlow
  BY <1>11 DEF BreakPg, ExpireAbandoned, ExpireSlow
<1>12. CASE Crash
  BY <1>12 DEF Crash
<1>13. CASE UNCHANGED vars
  BY <1>13
<1> QED
  BY <1>1, <1>2, <1>3, <1>4, <1>5, <1>6, <1>7, <1>8, <1>9, <1>10, <1>11,
     <1>12, <1>13 DEF Next, Work, Failure, Environment
-----------------------------------------------------------------------------
(* How one step changes the log and the table                              *)

TaskInv == TypeOK /\ LockInv /\ RouteInv /\ BatchInv /\ PrefixInv

\* The current row of a task that is about to send is unrecorded, and every
\* row before it is recorded.
CanPublish(h, i) ==
  /\ h \in Tasks /\ i \in rows
  /\ pc[h] = "send" /\ Current(h, i)
  /\ ~Recorded(i)
  /\ \A j \in rows : j < i => Recorded(j)

Published(h, i, s) ==
  CanPublish(h, i) /\ log' = Appended(TopicOf(route[h]), i, s)

\* A task that is about to send may publish the current one of its rows.
LEMMA SendPublishes ==
  ASSUME TaskInv, NEW h \in Tasks, pc[h] = "send",
         ~IsTxn(h) \/ client[route[h]] # "failed",
         NEW i \in batch[h], Current(h, i)
  PROVE  CanPublish(h, i)
<1>1. i \in rows /\ ~Recorded(i)
  BY DEF TaskInv, BatchInv
<1>2. \A j \in rows : j < i => Recorded(j) \/ j \in batch[h]
  BY DEF TaskInv, PrefixInv
<1>3. \A j \in batch[h] : ~(j < i)
  BY IdsAssumption DEF TaskInv, TypeOK, Current
<1> QED BY <1>1, <1>2, <1>3 DEF CanPublish

\* A step leaves the log, aborts what is open, commits what is open, or
\* appends a copy of a row that can be published.
LEMMA LogChange ==
  ASSUME TaskInv, [Next]_vars
  PROVE  \/ log' = log
         \/ log' = Settled("aborted")
         \/ \E h \in Tasks : Commit(h)
         \/ \E h \in Tasks, i \in Ids, s \in {"open", "committed"} :
              /\ Published(h, i, s)
              /\ UNCHANGED tracker
              /\ s = "committed" <=> ~IsTxn(h)
              /\ IsTxn(h) => client[route[h]] = "txn" /\ NotFenced(h)
<1>1. ASSUME NEW h \in Tasks,
             SendTxn(h) \/ SendPlain(h) \/ SendTimesOut(h)
                        \/ SendPlainTimesOut(h)
      PROVE  \/ log' = log
             \/ \E i \in Ids, s \in {"open", "committed"} :
                  /\ Published(h, i, s)
                  /\ UNCHANGED tracker
                  /\ s = "committed" <=> ~IsTxn(h)
                  /\ IsTxn(h) => client[route[h]] = "txn" /\ NotFenced(h)
  <2>1. /\ pc[h] = "send" /\ UNCHANGED tracker
        /\ ~IsTxn(h) \/ client[route[h]] # "failed"
    BY <1>1 DEF SendTxn, SendPlain, SendTimesOut, SendPlainTimesOut
  <2>2. \/ log' = log
        \/ \E i \in batch[h], s \in {"open", "committed"} :
             /\ Current(h, i) /\ log' = Appended(TopicOf(route[h]), i, s)
             /\ s = "committed" <=> ~IsTxn(h)
             /\ IsTxn(h) => client[route[h]] = "txn" /\ NotFenced(h)
    BY <1>1 DEF SendTxn, SendPlain, SendTimesOut, SendPlainTimesOut
  <2>3. batch[h] \subseteq Ids
    BY DEF TaskInv, TypeOK
  <2> QED BY <2>1, <2>2, <2>3, SendPublishes DEF Published
<1>2. ASSUME NEW h \in Tasks,
             Request(h) \/ Acquire(h) \/ CreateProducer(h) \/ CreateFails(h)
                        \/ Connect(h) \/ ConnectFails(h) \/ Query(h)
      PROVE  log' = log \/ log' = Settled("aborted")
  BY <1>2 DEF Request, Acquire, CreateProducer, InitTransactions, CreateFails,
              Connect, ConnectFails, Query
<1>3. ASSUME NEW h \in Tasks,
             Begin(h) \/ SendFenced(h) \/ CommitFatal(h) \/ Record(h)
                      \/ RecordLost(h)
      PROVE  log' = log
  BY <1>3 DEF Begin, SendFenced, CommitFatal, Record, RecordLost
<1>4. ASSUME Environment \/ UNCHANGED vars
      PROVE  log' = log \/ log' = Settled("aborted")
  BY <1>4 DEF Environment, Insert, BreakPg, ExpireAbandoned, ExpireSlow,
              Expire, Crash
<1> QED BY <1>1, <1>2, <1>3, <1>4 DEF Next, Work, Failure

\* A step adds rows above all others, or leaves the table; it marks a row
\* that is not recorded, the current one of the task that records it, or
\* leaves the marks.
LEMMA TrackerChange ==
  ASSUME TaskInv, [Next]_vars
  PROVE  /\ rows \subseteq rows'
         /\ \A i \in rows' \ rows, j \in rows : j < i
         /\ \/ producerType' = producerType
            \/ \E h \in Tasks, i \in Ids :
                 /\ pc[h] = "record" /\ Current(h, i) /\ ~Recorded(i)
                 /\ Mark(h, i) /\ UNCHANGED <<log, rows>>
<1>1. ASSUME NEW h \in Tasks, Record(h) \/ RecordLost(h)
      PROVE  \E i \in Ids :
               /\ pc[h] = "record" /\ Current(h, i) /\ ~Recorded(i)
               /\ Mark(h, i) /\ UNCHANGED <<log, rows>>
  <2> PICK i \in batch[h] : Current(h, i) /\ Mark(h, i)
    BY <1>1 DEF Record, RecordLost
  <2>1. i \in Ids
    BY DEF TaskInv, TypeOK
  <2>2. pc[h] = "record" /\ pg = "up" /\ UNCHANGED <<log, rows>>
    BY <1>1 DEF Record, RecordLost
  <2>3. ~Recorded(i)
    BY <2>2 DEF TaskInv, BatchInv
  <2> QED BY <2>1, <2>2, <2>3
<1>2. ASSUME NEW h \in Tasks,
             Request(h) \/ Acquire(h) \/ CreateProducer(h) \/ CreateFails(h)
                        \/ Connect(h) \/ ConnectFails(h) \/ Query(h)
                        \/ Begin(h)
      PROVE  UNCHANGED tracker
  BY <1>2 DEF Request, Acquire, CreateProducer, CreateFails,
              Connect, ConnectFails, Query, Begin
<1>3. ASSUME NEW h \in Tasks,
             SendTxn(h) \/ SendPlain(h) \/ SendTimesOut(h)
                        \/ SendPlainTimesOut(h) \/ SendFenced(h)
                        \/ Commit(h) \/ CommitFatal(h)
      PROVE  UNCHANGED tracker
  BY <1>3 DEF SendTxn, SendPlain, SendTimesOut, SendPlainTimesOut,
              SendFenced, Commit, CommitFatal
<1>4. CASE Insert
  BY <1>4 DEF Insert
<1>5. ASSUME BreakPg \/ ExpireAbandoned \/ ExpireSlow \/ Crash
             \/ UNCHANGED vars
      PROVE  UNCHANGED tracker
  BY <1>5 DEF BreakPg, ExpireAbandoned, ExpireSlow, Crash
<1> QED
  BY <1>1, <1>2, <1>3, <1>4, <1>5 DEF Next, Work, Failure, Environment

\* A mark is never taken back, and it names a route.
LEMMA RecordedStays ==
  ASSUME TaskInv, [Next]_vars, NEW i \in Ids, Recorded(i)
  PROVE  Recorded(i)' /\ producerType'[i] = producerType[i]
BY TrackerChange DEF Recorded, Mark, TaskInv, TypeOK

\* Entries stay where they are, with their id, and a visible one stays
\* visible; a new one is the last, and a copy of a row that can be published.
LEMMA EntriesStay ==
  ASSUME TaskInv, [Next]_vars, NEW t \in Topics
  PROVE  /\ DOMAIN log[t] \subseteq Nat /\ DOMAIN log'[t] \subseteq Nat
         /\ \A k \in DOMAIN log[t] :
              /\ k \in DOMAIN log'[t]
              /\ log'[t][k].id = log[t][k].id
              /\ log[t][k].status = "committed" =>
                   log'[t][k].status = "committed"
         /\ \A k \in DOMAIN log'[t] \ DOMAIN log[t] :
              /\ \A l \in DOMAIN log[t] : l < k
              /\ \A l \in DOMAIN log'[t] : l <= k
              /\ UNCHANGED tracker
              /\ \E h \in Tasks : CanPublish(h, log'[t][k].id)
<1>1. LogType
  BY DEF TaskInv, TypeOK
<1>2. DOMAIN log[t] = 1 .. Len(log[t]) /\ Len(log[t]) \in Nat
  BY <1>1 DEF LogType
<1>3. CASE log' = log
  BY <1>2, <1>3
<1>4. CASE log' = Settled("aborted") \/ \E h \in Tasks : Commit(h)
  <2>1. PICK o \in {"committed", "aborted"} : log' = Settled(o)
    BY <1>4 DEF Commit
  <2> QED BY <1>1, <1>2, <2>1, SettledFacts
<1>5. ASSUME NEW h \in Tasks, NEW i \in Ids, NEW s \in {"open", "committed"},
             Published(h, i, s), UNCHANGED tracker
      PROVE  /\ DOMAIN log[t] \subseteq Nat /\ DOMAIN log'[t] \subseteq Nat
             /\ \A k \in DOMAIN log[t] :
                  k \in DOMAIN log'[t] /\ log'[t][k] = log[t][k]
             /\ \A k \in DOMAIN log'[t] \ DOMAIN log[t] :
                  /\ \A l \in DOMAIN log[t] : l < k
                  /\ \A l \in DOMAIN log'[t] : l <= k
                  /\ log'[t][k].id = i
  <2> DEFINE u == TopicOf(route[h])
  <2>1. u \in Topics
    BY DEF TopicOf
  <2>2. log' = Appended(u, i, s)
    BY <1>5 DEF Published
  <2> HIDE DEF u
  <2> s \in {"open", "committed", "aborted"}
    OBVIOUS
  <2>3. CASE t # u
    <3>1. log'[t] = log[t]
      BY <1>1, <2>1, <2>2, <2>3, AppendedFacts
    <3> QED BY <1>2, <3>1
  <2>4. CASE t = u
    <3>1. log' = Appended(t, i, s)
      BY <2>2, <2>4
    <3>2. /\ DOMAIN log'[t] = 1 .. Len(log[t]) + 1
          /\ \A k \in DOMAIN log[t] : log'[t][k] = log[t][k]
          /\ log'[t][Len(log[t]) + 1] = [id |-> i, status |-> s]
      BY <1>1, <3>1, AppendedFacts
    <3>3. log'[t][Len(log[t]) + 1].id = i
      BY <3>2
    <3> QED BY <1>2, <3>2, <3>3
  <2> QED BY <2>3, <2>4
<1>6. ASSUME NEW h \in Tasks, NEW i \in Ids, NEW s \in {"open", "committed"},
             Published(h, i, s)
      PROVE  CanPublish(h, i)
  BY <1>6 DEF Published
<1> QED BY <1>3, <1>4, <1>5, <1>6, LogChange
-----------------------------------------------------------------------------
(* The order of publication                                                *)

OrderInv == LoggedInv /\ NoRowOvertaken /\ TopicsAscending

\* A step keeps the topics in the order of the ids, and ahead of no row that
\* is not recorded.
LEMMA OrderStep ==
  ASSUME TaskInv, OrderInv, [Next]_vars
  PROVE  OrderInv'
<1>1. rows \subseteq rows' /\ \A i \in rows' \ rows, j \in rows : j < i
  BY TrackerChange
<1>2. \A i \in Ids : Recorded(i) => Recorded(i)'
  BY RecordedStays
<1>3. rows' \subseteq Nat /\ rows' \subseteq Ids
  <2> TypeOK'
    BY TypeStep DEF TaskInv
  <2> QED BY IdsAssumption DEF TypeOK
<1>4. LoggedInv'
  BY <1>1, EntriesStay DEF OrderInv, LoggedInv, CanPublish
<1>5. NoRowOvertaken'
  <2> SUFFICES ASSUME NEW t \in Topics, NEW k \in DOMAIN log'[t],
                      NEW i \in rows', i < log'[t][k].id
               PROVE  Recorded(i)'
    BY DEF NoRowOvertaken
  <2>1. CASE k \in DOMAIN log[t]
    <3>1. log'[t][k].id = log[t][k].id /\ log[t][k].id \in rows
      BY <2>1, EntriesStay DEF OrderInv, LoggedInv
    <3> DEFINE j == log[t][k].id
    <3>2. j \in Nat /\ i \in Nat /\ i < j /\ (i \notin rows => j < i)
      BY <1>1, <1>3, <3>1
    <3> HIDE DEF j
    <3>3. i \in rows
      BY <3>2
    <3> USE DEF j
    <3> QED BY <1>2, <1>3, <2>1, <3>1, <3>3 DEF OrderInv, NoRowOvertaken
  <2>2. CASE k \notin DOMAIN log[t]
    <3>1. UNCHANGED tracker /\ \E h \in Tasks : CanPublish(h, log'[t][k].id)
      BY <2>2, EntriesStay
    <3> QED BY <1>2, <1>3, <3>1 DEF CanPublish
  <2> QED BY <2>1, <2>2
<1>6. TopicsAscending'
  <2> SUFFICES ASSUME NEW t \in Topics, NEW k \in DOMAIN log'[t],
                      NEW l \in DOMAIN log'[t], k < l
               PROVE  log'[t][k].id <= log'[t][l].id
    BY DEF TopicsAscending
  <2>1. k \in DOMAIN log[t] /\ k \in Nat /\ l \in Nat
    BY EntriesStay
  <2>2. log'[t][k].id = log[t][k].id /\ log[t][k].id \in rows
    BY <2>1, EntriesStay DEF OrderInv, LoggedInv
  <2>3. CASE l \in DOMAIN log[t]
    BY <2>1, <2>2, <2>3, EntriesStay DEF OrderInv, TopicsAscending
  <2>4. CASE l \notin DOMAIN log[t]
    <3>1. PICK h \in Tasks : CanPublish(h, log'[t][l].id)
      BY <2>4, EntriesStay
    <3>2. log'[t][l].id \in rows /\ ~Recorded(log'[t][l].id)
      BY <3>1 DEF CanPublish
    <3>3. ~(log'[t][l].id < log[t][k].id)
      BY <2>1, <3>2 DEF OrderInv, NoRowOvertaken
    <3> DEFINE i == log'[t][l].id
               j == log[t][k].id
    <3>4. i \in Nat /\ j \in Nat /\ ~(i < j)
      BY <1>1, <1>3, <2>2, <3>2, <3>3
    <3> HIDE DEF i, j
    <3>5. j <= i
      BY <3>4
    <3> QED BY <2>2, <3>5 DEF i, j
  <2> QED BY <2>3, <2>4
<1> QED BY <1>4, <1>5, <1>6 DEF OrderInv
-----------------------------------------------------------------------------
(* What a row in hand, and a recorded row, have in the log                 *)

\* A visible copy stays visible.
LEMMA CommittedStays ==
  ASSUME TaskInv, [Next]_vars, NEW t \in Topics, NEW i \in Ids
  PROVE  Committed(t, i) \subseteq Committed(t, i)'
BY EntriesStay DEF Committed

\* The current row is unique.
LEMMA OneCurrent ==
  ASSUME TypeOK, NEW h \in Tasks, NEW i \in batch[h], NEW j \in batch[h],
         Current(h, i), Current(h, j)
  PROVE  i = j
<1>1. i \in Nat /\ j \in Nat
  BY IdsAssumption DEF TypeOK
<1>2. i <= j /\ j <= i
  BY DEF Current
<1> QED BY <1>1, <1>2

\* A step keeps an open copy of the current row until its transaction is
\* committed or gone.
LEMMA CommitStep ==
  ASSUME TaskInv, CommitInv, [Next]_vars
  PROVE  CommitInv'
<1> USE DEF TaskInv, TypeOK, CommitInv, Current
<1>1. ASSUME NEW h \in Tasks, Request(h) \/ Acquire(h) PROVE CommitInv'
  BY <1>1 DEF Request, Acquire
<1>2. ASSUME NEW h \in Tasks, SendTxn(h) PROVE CommitInv'
  <2>1. PICK i \in batch[h] :
          Current(h, i) /\ log' = Appended(TopicOf(route[h]), i, "open")
    BY <1>2 DEF SendTxn
  <2>2. log' = Appended("bankEO", i, "open") /\ i \in Ids
    BY <1>2, <2>1 DEF SendTxn, TopicOf
  <2>3. \E k \in DOMAIN log'["bankEO"] :
          log'["bankEO"][k] = [id |-> i, status |-> "open"]
    BY <2>2, AppendedIsThere
  <2>4. \A j \in batch[h] : Current(h, j) => j = i
    BY <2>1, OneCurrent
  <2>5. \A g \in Tasks \ {h} : pc[g] # "commit"
    BY <1>2, OthersEmpty DEF SendTxn
  <2> QED BY <1>2, <2>3, <2>4, <2>5 DEF SendTxn
<1>3. ASSUME NEW h \in Tasks, pc[h] \in Held, pc'[h] # "commit",
             \A g \in Tasks \ {h} : pc'[g] = pc[g]
      PROVE  CommitInv'
  <2> \A g \in Tasks : pc'[g] # "commit"
    BY <1>3, OthersEmpty
  <2> QED OBVIOUS
<1>4. ASSUME NEW h \in Tasks,
             CreateProducer(h) \/ CreateFails(h) \/ Connect(h)
               \/ ConnectFails(h) \/ Query(h) \/ Begin(h) \/ SendPlain(h)
      PROVE  CommitInv'
  BY <1>3, <1>4 DEF CreateProducer, CreateFails, Connect, ConnectFails, Query,
                    Begin, SendPlain, Leave, FirstStep
<1>5. ASSUME NEW h \in Tasks,
             SendTimesOut(h) \/ SendFenced(h) \/ SendPlainTimesOut(h)
               \/ Commit(h) \/ RecordLost(h)
      PROVE  CommitInv'
  BY <1>3, <1>5 DEF SendTimesOut, SendFenced, SendPlainTimesOut, Commit,
                    RecordLost
<1>6. ASSUME NEW h \in Tasks, CommitFatal(h) \/ Record(h) PROVE CommitInv'
  <2> PICK i \in batch[h] : NextRow(h, i)
    BY <1>6 DEF CommitFatal, Record
  <2> QED BY <1>3, <1>6, NextRowFacts DEF CommitFatal, Record, FirstStep
<1>7. CASE Insert \/ BreakPg
  BY <1>7 DEF Insert, BreakPg
<1>8. CASE ExpireAbandoned \/ ExpireSlow
  BY <1>8, SentinelAssumption
     DEF ExpireAbandoned, ExpireSlow, Expire, RouteInv
<1>9. CASE Crash
  BY <1>9 DEF Crash
<1>10. CASE UNCHANGED vars
  BY <1>10
<1> QED
  BY <1>1, <1>2, <1>4, <1>5, <1>6, <1>7, <1>8, <1>9, <1>10
     DEF Next, Work, Failure, Environment

\* A step keeps a visible copy of the row that is about to be recorded.
LEMMA RecordStep ==
  ASSUME TaskInv, CommitInv, RecordInv, [Next]_vars
  PROVE  RecordInv'
<1> USE DEF TaskInv, TypeOK, RecordInv, Current
<1>1. ASSUME NEW h \in Tasks, Commit(h) PROVE RecordInv'
  <2>1. TopicOf(route[h]) = "bankEO"
    BY <1>1 DEF Commit, RouteInv, TopicOf
  <2>2. ASSUME NEW i \in Ids, Current(h, i)
        PROVE  Committed("bankEO", i)' # {}
    <3>1. PICK k \in DOMAIN log["bankEO"] :
            log["bankEO"][k] = [id |-> i, status |-> "open"]
      BY <1>1, <2>2 DEF Commit, CommitInv
    <3>2. /\ k \in DOMAIN log'["bankEO"]
          /\ log'["bankEO"][k].id = i
          /\ log'["bankEO"][k].status = "committed"
      BY <1>1, <3>1, SettledFacts DEF Commit
    <3> QED BY <3>2 DEF Committed
  <2>3. \A g \in Tasks \ {h} : pc[g] # "record"
    BY <1>1, OthersEmpty DEF Commit
  <2> QED BY <1>1, <2>1, <2>2, <2>3 DEF Commit
<1>2. ASSUME NEW h \in Tasks, SendPlain(h) PROVE RecordInv'
  <2>1. PICK i \in batch[h] :
          /\ Current(h, i)
          /\ log' = Appended(TopicOf(route[h]), i, "committed")
    BY <1>2 DEF SendPlain
  <2>2. PICK t \in Topics : t = TopicOf(route[h])
    BY DEF TopicOf
  <2>3. log' = Appended(t, i, "committed") /\ i \in Ids
    BY <2>1, <2>2
  <2>4. \E k \in DOMAIN log'[t] :
          log'[t][k] = [id |-> i, status |-> "committed"]
    BY <2>2, <2>3, AppendedIsThere
  <2>5. Committed(t, i)' # {}
    <3> PICK k \in DOMAIN log'[t] :
          log'[t][k] = [id |-> i, status |-> "committed"]
      BY <2>4
    <3> k \in Committed(t, i)'
      BY DEF Committed
    <3> QED OBVIOUS
  <2>6. \A j \in batch[h] : Current(h, j) => j = i
    BY <2>1, OneCurrent
  <2>7. \A g \in Tasks \ {h} : pc[g] # "record"
    BY <1>2, OthersEmpty DEF SendPlain
  <2>8. TopicOf(route[h])' = t
    BY <1>2, <2>2 DEF SendPlain, TopicOf
  <2> QED BY <1>2, <2>5, <2>6, <2>7, <2>8 DEF SendPlain
<1>3. ASSUME \A g \in Tasks : pc'[g] = "record" =>
               /\ pc[g] = "record"
               /\ batch'[g] = batch[g] /\ route'[g] = route[g]
      PROVE  RecordInv'
  <2> SUFFICES ASSUME NEW g \in Tasks, NEW i \in Ids, pc'[g] = "record",
                      Current(g, i)'
               PROVE  Committed(TopicOf(route[g]), i)' # {}
    OBVIOUS
  <2>1. Current(g, i) /\ pc[g] = "record" /\ route'[g] = route[g]
    BY <1>3
  <2>2. Committed(TopicOf(route[g]), i) # {}
    BY <2>1
  <2>3. TopicOf(route[g]) \in Topics
    BY DEF TopicOf
  <2>4. \A t \in Topics : Committed(t, i) # {} => Committed(t, i)' # {}
    BY CommittedStays
  <2>5. TopicOf(route[g])' = TopicOf(route[g])
    BY <2>1 DEF TopicOf
  <2> DEFINE t == TopicOf(route[g])
  <2>6. \E k \in DOMAIN log'[t] :
          log'[t][k].id = i /\ log'[t][k].status = "committed"
    BY <2>2, <2>3, <2>4 DEF Committed
  <2> QED BY <2>5, <2>6 DEF Committed
<1>4. ASSUME NEW h \in Tasks,
             Request(h) \/ Acquire(h) \/ CreateProducer(h) \/ CreateFails(h)
               \/ Connect(h) \/ ConnectFails(h) \/ Query(h)
      PROVE  RecordInv'
  BY <1>3, <1>4 DEF Request, Acquire, CreateProducer, CreateFails, Connect,
                    ConnectFails, Query, Leave, FirstStep
<1>5. ASSUME NEW h \in Tasks,
             Begin(h) \/ SendTxn(h) \/ SendTimesOut(h) \/ SendFenced(h)
               \/ SendPlainTimesOut(h) \/ RecordLost(h)
      PROVE  RecordInv'
  BY <1>3, <1>5 DEF Begin, SendTxn, SendTimesOut, SendFenced,
                    SendPlainTimesOut, RecordLost
<1>6. ASSUME NEW h \in Tasks, CommitFatal(h) \/ Record(h) PROVE RecordInv'
  <2> PICK i \in batch[h] : NextRow(h, i)
    BY <1>6 DEF CommitFatal, Record
  <2>1. UNCHANGED route
    BY <1>6 DEF CommitFatal, Record
  <2>2. pc'[h] # "record"
    BY NextRowFacts DEF FirstStep
  <2>3. \A g \in Tasks \ {h} : pc'[g] = pc[g] /\ batch'[g] = batch[g]
    BY NextRowFacts
  <2> QED BY <1>3, <2>1, <2>2, <2>3
<1>7. ASSUME Environment \/ UNCHANGED vars PROVE RecordInv'
  BY <1>3, <1>7 DEF Environment, Insert, BreakPg, ExpireAbandoned, ExpireSlow,
                    Crash
<1> QED
  BY <1>1, <1>2, <1>4, <1>5, <1>6, <1>7 DEF Next, Work, Failure

\* No entry is open while a task inside handle is not about to commit the
\* transaction, unless the client that owns it is lost.
LEMMA NoneOpen ==
  ASSUME TaskInv, OpenInv, NEW h \in Tasks, pc[h] \in Held,
         ~(pc[h] = "commit" /\ route[h] = txnOwner),
         txnOwner \in TxnRoutes, client[txnOwner] \in {"ready", "txn"},
         NEW t \in Topics, NEW k \in DOMAIN log[t]
  PROVE  ~IsOpen(t, k)
<1> SUFFICES ASSUME IsOpen(t, k) PROVE FALSE
  OBVIOUS
<1>1. PICK g \in Tasks : pc[g] = "commit" /\ route[g] = txnOwner
  BY DEF OpenInv
<1>2. g = h
  BY <1>1, OthersEmpty DEF TaskInv
<1> QED BY <1>1, <1>2

\* A step keeps the open entries of a working client to the one its task is
\* about to commit.
LEMMA OpenStep ==
  ASSUME TaskInv, OpenInv, [Next]_vars
  PROVE  OpenInv'
<1> USE DEF TaskInv, TypeOK
<1>1. ASSUME NEW h \in Tasks, Request(h) \/ Acquire(h) PROVE OpenInv'
  BY <1>1 DEF Request, Acquire, OpenInv, IsOpen, Current
<1>2. ASSUME NEW h \in Tasks, pc[h] \in Held,
             ~(pc[h] = "commit" /\ route[h] = txnOwner),
             log' = log, txnOwner' = txnOwner,
             \A r \in TxnRoutes : client'[r] \in {"ready", "txn"} =>
                                    client[r] \in {"ready", "txn"}
      PROVE  OpenInv'
  <2> SUFFICES ASSUME txnOwner \in TxnRoutes,
                      client'[txnOwner] \in {"ready", "txn"},
                      NEW t \in Topics, NEW k \in DOMAIN log[t]
               PROVE  ~IsOpen(t, k)
    BY <1>2 DEF OpenInv, IsOpen
  <2> QED BY <1>2, NoneOpen
<1>3. ASSUME NEW o \in {"committed", "aborted"}, log' = Settled(o)
      PROVE  OpenInv'
  BY <1>3, SettledFacts DEF OpenInv, IsOpen
<1>4. ASSUME NEW h \in Tasks,
             CreateProducer(h) \/ Connect(h) \/ Query(h) \/ Begin(h)
               \/ SendFenced(h)
      PROVE  OpenInv'
  BY <1>2, <1>3, <1>4, RoutesAssumption
     DEF CreateProducer, InitTransactions, Connect, Query, Begin, SendFenced,
         Routes
<1>5. ASSUME NEW h \in Tasks, CreateFails(h) \/ ConnectFails(h)
      PROVE  OpenInv'
  BY <1>2, <1>3, <1>5 DEF CreateFails, ConnectFails
<1>6. ASSUME NEW h \in Tasks, Record(h) \/ RecordLost(h) \/ CommitFatal(h)
      PROVE  OpenInv'
  BY <1>2, <1>6 DEF Record, RecordLost, CommitFatal, Routes
<1>7. ASSUME NEW h \in Tasks, SendTimesOut(h) PROVE OpenInv'
  BY <1>7 DEF SendTimesOut, OpenInv, Routes
<1>8. ASSUME NEW h \in Tasks, NEW i \in Ids, NEW s \in {"open", "committed"},
             pc[h] = "send", UNCHANGED <<client, txnOwner>>,
             log' = Appended(TopicOf(route[h]), i, s),
             txnOwner \in TxnRoutes, client[txnOwner] \in {"ready", "txn"},
             NEW t \in Topics, NEW k \in DOMAIN log'[t],
             log'[t][k].status = "open"
      PROVE  /\ k \notin DOMAIN log[t]
             /\ log'[t][k] = [id |-> i, status |-> s]
             /\ \A l \in DOMAIN log'[t] : log'[t][l].status = "open" => l = k
  <2> PICK u \in Topics : u = TopicOf(route[h])
    BY DEF TopicOf
  <2>1. s \in {"open", "committed", "aborted"} /\ log' = Appended(u, i, s)
    BY <1>8
  <2>2. \A v \in Topics : \A l \in DOMAIN log[v] : ~IsOpen(v, l)
    BY <1>8, NoneOpen
  <2>3. t = u
    <3> SUFFICES ASSUME t # u PROVE FALSE
      OBVIOUS
    <3>1. log'[t] = log[t]
      BY <2>1, AppendedFacts
    <3>2. k \in DOMAIN log[t] /\ IsOpen(t, k)
      BY <1>8, <3>1 DEF IsOpen
    <3> QED BY <2>2, <3>2
  <2>4. log' = Appended(t, i, s)
    BY <2>1, <2>3
  <2>5. /\ Len(log[t]) \in Nat
        /\ DOMAIN log[t] = 1 .. Len(log[t])
        /\ DOMAIN log'[t] = 1 .. Len(log[t]) + 1
        /\ \A l \in DOMAIN log[t] : log'[t][l] = log[t][l]
        /\ log'[t][Len(log[t]) + 1] = [id |-> i, status |-> s]
    BY <2>1, <2>4, AppendedFacts
  <2>6. \A l \in DOMAIN log'[t] :
          log'[t][l].status = "open" => l \notin DOMAIN log[t]
    BY <2>2, <2>5 DEF IsOpen
  <2>7. \A l \in DOMAIN log'[t] :
          l \notin DOMAIN log[t] => l = Len(log[t]) + 1
    BY <2>5
  <2> QED BY <1>8, <2>5, <2>6, <2>7
<1>9. ASSUME NEW h \in Tasks, SendTxn(h) PROVE OpenInv'
  <2> PICK i \in batch[h] :
        Current(h, i) /\ log' = Appended(TopicOf(route[h]), i, "open")
    BY <1>9 DEF SendTxn
  <2> SUFFICES ASSUME txnOwner \in TxnRoutes,
                      client[txnOwner] \in {"ready", "txn"},
                      NEW t \in Topics, NEW k \in DOMAIN log'[t],
                      log'[t][k].status = "open"
               PROVE  /\ \A l \in DOMAIN log'[t] : log'[t][l].status = "open" => l = k
                      /\ \E g \in Tasks :
                           /\ pc'[g] = "commit" /\ route'[g] = txnOwner
                           /\ Current(g, log[t][k].id)'
    BY <1>9 DEF SendTxn, OpenInv, IsOpen
  <2>0. pc[h] = "send" /\ UNCHANGED <<client, txnOwner>> /\ i \in Ids
    BY <1>9 DEF SendTxn
  <2>1. /\ log'[t][k] = [id |-> i, status |-> "open"]
        /\ \A l \in DOMAIN log'[t] : log'[t][l].status = "open" => l = k
    BY <1>8, <2>0, ZenonT(60)
  <2>2. pc'[h] = "commit" /\ route'[h] = txnOwner /\ Current(h, i)'
    BY <1>9 DEF SendTxn, Current
  <2>3. log'[t][k].id = i
    BY <2>1
  <2> QED BY <2>1, <2>2, <2>3
<1>10. ASSUME NEW h \in Tasks, SendPlain(h) \/ SendPlainTimesOut(h)
       PROVE  OpenInv'
  <2> PICK i \in batch[h] : log' = Appended(TopicOf(route[h]), i, "committed")
    BY <1>10 DEF SendPlain, SendPlainTimesOut
  <2>1. pc[h] = "send" /\ UNCHANGED <<client, txnOwner>> /\ i \in Ids
    BY <1>10 DEF SendPlain, SendPlainTimesOut
  <2>2. ASSUME txnOwner \in TxnRoutes, client[txnOwner] \in {"ready", "txn"},
               NEW t \in Topics, NEW k \in DOMAIN log'[t],
             log'[t][k].status = "open"
        PROVE  FALSE
    <3>1. log'[t][k] = [id |-> i, status |-> "committed"]
      BY <1>8, <2>1, <2>2
    <3> QED BY <2>2, <3>1
  <2> QED BY <2>1, <2>2 DEF OpenInv, IsOpen
<1>11. ASSUME NEW h \in Tasks, Commit(h) PROVE OpenInv'
  BY <1>3, <1>11 DEF Commit
<1>12. CASE Insert \/ BreakPg
  BY <1>12 DEF Insert, BreakPg, OpenInv, IsOpen, Current
<1>13. CASE ExpireAbandoned \/ ExpireSlow
  BY <1>3, <1>13 DEF ExpireAbandoned, ExpireSlow, Expire
<1>14. CASE Crash
  BY <1>14 DEF Crash, OpenInv, Routes
<1>15. CASE UNCHANGED vars
  BY <1>15 DEF OpenInv, IsOpen, Current
<1> QED
  BY <1>1, <1>4, <1>5, <1>6, <1>7, <1>9, <1>10, <1>11, <1>12, <1>13, <1>14,
     <1>15 DEF Next, Work, Failure, Environment
-----------------------------------------------------------------------------
(* Recorded rows and their copies                                          *)

\* A step keeps a visible copy of every recorded row.
LEMMA ProducedStep ==
  ASSUME TaskInv, RecordInv, ProducedIsPublished, [Next]_vars
  PROVE  ProducedIsPublished'
<1> SUFFICES ASSUME NEW i \in Ids, Recorded(i)', NEW t \in Topics,
                    t = TopicOf(producerType[i])'
             PROVE  Committed(t, i)' # {}
  BY DEF ProducedIsPublished, TopicOf
<1>1. CASE Recorded(i)
  <2>1. t = TopicOf(producerType[i])
    BY <1>1, RecordedStays DEF TopicOf
  <2>2. Committed(t, i) # {}
    BY <1>1, <2>1 DEF ProducedIsPublished
  <2> QED BY <2>2, CommittedStays
<1>2. CASE ~Recorded(i)
  <2>1. PICK h \in Tasks : /\ pc[h] = "record" /\ Current(h, i)
                           /\ Mark(h, i) /\ log' = log
    BY <1>2, TrackerChange DEF Recorded, Mark, TaskInv, TypeOK
  <2>2. t = TopicOf(route[h])
    BY <2>1 DEF Mark, TopicOf, TaskInv, TypeOK
  <2>3. Committed(t, i) # {}
    BY <2>1, <2>2 DEF RecordInv
  <2> QED BY <2>3, CommittedStays
<1> QED BY <1>1, <1>2

\* A step makes at most one more copy of a row visible in a topic, and only
\* of a row that is not recorded: the one a transaction is committed for, or
\* the one a plain send appends.
LEMMA CommittedGrows ==
  ASSUME TaskInv, OpenInv, [Next]_vars, NEW t \in Topics, NEW i \in Ids
  PROVE  \/ Committed(t, i)' = Committed(t, i)
         \/ /\ ~Recorded(i)
            /\ \E k : Committed(t, i)' = Committed(t, i) \cup {k}
            /\ \/ t = "bankAO"
               \/ \E h \in Tasks : Commit(h) /\ Current(h, i)
<1> USE DEF TaskInv, TypeOK
<1>1. CASE log' = log
  BY <1>1 DEF Committed
<1>2. CASE log' = Settled("aborted")
  BY <1>2, SettledFacts DEF Committed
<1>3. ASSUME NEW h \in Tasks, Commit(h)
      PROVE  \/ Committed(t, i)' = Committed(t, i)
             \/ /\ ~Recorded(i) /\ Current(h, i)
                /\ \E k : Committed(t, i)' = Committed(t, i) \cup {k}
  <2> DEFINE Open == {k \in DOMAIN log[t] :
                        log[t][k].id = i /\ log[t][k].status = "open"}
  <2>1. Committed(t, i)' = Committed(t, i) \cup Open
    <3>1. log' = Settled("committed")
      BY <1>3 DEF Commit
    <3>2. /\ DOMAIN log'[t] = DOMAIN log[t]
          /\ \A k \in DOMAIN log[t] :
               /\ log'[t][k].id = log[t][k].id
               /\ log'[t][k].status = "committed" <=>
                    log[t][k].status \in {"open", "committed"}
      BY <3>1, SettledFacts
    <3> QED BY <3>2 DEF Committed
  <2>2. CASE Open = {}
    BY <2>1, <2>2
  <2>3. ASSUME NEW k \in Open
        PROVE  Open = {k} /\ Current(h, i) /\ ~Recorded(i)
    <3>1. /\ txnOwner \in TxnRoutes /\ client[txnOwner] \in {"ready", "txn"}
          /\ pc[h] = "commit"
      BY <1>3 DEF Commit, RouteInv
    <3>2. /\ \A l \in DOMAIN log[t] : IsOpen(t, l) => l = k
          /\ \E g \in Tasks : pc[g] = "commit" /\ Current(g, log[t][k].id)
      BY <2>3, <3>1 DEF OpenInv, IsOpen
    <3>3. Open = {k}
      BY <3>2 DEF IsOpen
    <3>4. Current(h, i)
      BY <3>1, <3>2, OthersEmpty
    <3>5. ~Recorded(i)
      BY <3>1, <3>4 DEF BatchInv, Current
    <3> QED BY <3>3, <3>4, <3>5
  <2> QED BY <2>1, <2>2, <2>3
<1>4. ASSUME NEW h \in Tasks, NEW j \in Ids, NEW s \in {"open", "committed"},
             Published(h, j, s), s = "committed" => ~IsTxn(h)
      PROVE  \/ Committed(t, i)' = Committed(t, i)
             \/ /\ ~Recorded(i) /\ t = "bankAO"
                /\ \E k : Committed(t, i)' = Committed(t, i) \cup {k}
  <2> PICK u \in Topics : u = TopicOf(route[h])
    BY DEF TopicOf
  <2>1. s \in {"open", "committed", "aborted"} /\ log' = Appended(u, j, s)
    BY <1>4 DEF Published
  <2>2. CASE t # u
    <3>1. log'[t] = log[t]
      BY <2>1, <2>2, AppendedFacts
    <3> QED BY <3>1 DEF Committed
  <2>3. CASE t = u
    <3> DEFINE n == Len(log[t]) + 1
    <3>1. log' = Appended(t, j, s)
      BY <2>1, <2>3
    <3>2. /\ DOMAIN log'[t] = DOMAIN log[t] \cup {n}
          /\ n \notin DOMAIN log[t]
          /\ \A k \in DOMAIN log[t] : log'[t][k] = log[t][k]
          /\ log'[t][n].id = j /\ log'[t][n].status = s
      <4>1. /\ Len(log[t]) \in Nat
            /\ DOMAIN log[t] = 1 .. Len(log[t])
            /\ DOMAIN log'[t] = 1 .. n
            /\ \A k \in DOMAIN log[t] : log'[t][k] = log[t][k]
            /\ log'[t][n] = [id |-> j, status |-> s]
        BY <2>1, <3>1, AppendedFacts
      <4> QED BY <4>1
    <3> HIDE DEF n
    <3>3. CASE s = "committed" /\ j = i
      <4>1. Committed(t, i)' = Committed(t, i) \cup {n}
        BY <3>2, <3>3 DEF Committed
      <4>2. ~Recorded(i) /\ t = "bankAO"
        BY <1>4, <2>3, <3>3 DEF Published, CanPublish, TopicOf
      <4> QED BY <4>1, <4>2
    <3>4. CASE ~(s = "committed" /\ j = i)
      BY <3>2, <3>4 DEF Committed
    <3> QED BY <3>3, <3>4
  <2> QED BY <2>2, <2>3
<1> QED BY <1>1, <1>2, <1>3, <1>4, LogChange

\* A step adds a visible copy of a row only where the row had none since the
\* last restart.
LEMMA CopiesStep ==
  ASSUME TaskInv, OpenInv, CopiesInv, [Next]_vars
  PROVE  CopiesInv'
<1> USE DEF TaskInv, TypeOK
<1>1. crashes \in Nat /\ crashes' \in Nat /\ crashes <= crashes'
  <2>1. crashes' = crashes \/ crashes' = crashes + 1
    BY DEF Next, Work, Failure, Environment, Request, Acquire, CreateProducer,
           CreateFails, Connect, ConnectFails, Query, Begin, SendTxn,
           SendTimesOut, SendFenced, Commit, CommitFatal, SendPlain,
           SendPlainTimesOut, Record, RecordLost, Insert, BreakPg,
           ExpireAbandoned, ExpireSlow, Crash, Fault
  <2> QED BY <2>1, BoundAssumption
<1>2. ASSUME NEW h \in Tasks, NEW i \in Ids, pc[h] = "record", Current(h, i)
      PROVE  \/ pc'[h] = "record" /\ Current(h, i)'
             \/ Recorded(i)'
             \/ crashes' = crashes + 1
  <2>1. ASSUME Record(h) \/ RecordLost(h) PROVE Recorded(i)'
    <3> PICK j \in batch[h] : Current(h, j) /\ Mark(h, j)
      BY <2>1 DEF Record, RecordLost
    <3>1. j = i
      BY <1>2, OneCurrent DEF Current
    <3> QED BY <1>2, <3>1, SentinelAssumption DEF Mark, Recorded, RouteInv
  <2>2. ASSUME NEW g \in Tasks, Request(g) \/ Acquire(g)
        PROVE  pc'[h] = "record" /\ Current(h, i)'
    BY <1>2, <2>2 DEF Request, Acquire, Current
  <2>3. ASSUME NEW g \in Tasks, Work(g) \/ Failure(g)
        PROVE  Record(h) \/ RecordLost(h)
    <3>1. pc[g] \in Held
      BY <2>3 DEF Work, Failure, CreateProducer, CreateFails, Connect,
                  ConnectFails, Query, Begin, SendTxn, SendTimesOut,
                  SendFenced, Commit, CommitFatal, SendPlain,
                  SendPlainTimesOut, Record, RecordLost
    <3>2. g = h
      BY <1>2, <3>1, OthersEmpty
    <3> QED
      BY <1>2, <2>3, <3>2
      DEF Work, Failure, CreateProducer, CreateFails, Connect, ConnectFails,
          Query, Begin, SendTxn, SendTimesOut, SendFenced, Commit,
          CommitFatal, SendPlain, SendPlainTimesOut
  <2>4. ASSUME Insert \/ BreakPg \/ ExpireAbandoned \/ ExpireSlow
               \/ UNCHANGED vars
        PROVE  pc'[h] = "record" /\ Current(h, i)'
    BY <1>2, <2>4 DEF Insert, BreakPg, ExpireAbandoned, ExpireSlow, Current
  <2>5. CASE Crash
    BY <2>5 DEF Crash
  <2> QED BY <2>1, <2>2, <2>3, <2>4, <2>5 DEF Next, Environment
<1> SUFFICES ASSUME NEW i \in Ids
             PROVE  /\ IsFiniteSet(Committed("bankEO", i)')
                    /\ Cardinality(Committed("bankEO", i)') <= 1 + crashes'
                    /\ \/ Recorded(i)'
                       \/ \E h \in Tasks : pc'[h] = "record" /\ Current(h, i)'
                       \/ Cardinality(Committed("bankEO", i)') <= crashes'
  BY DEF CopiesInv
<1> DEFINE C == Committed("bankEO", i)
<1>3. /\ IsFiniteSet(C) /\ Cardinality(C) \in Nat
      /\ Cardinality(C) <= 1 + crashes
  BY FS_CardinalityType DEF CopiesInv
<1>4. ASSUME C' = C
      PROVE  \/ Recorded(i)'
             \/ \E h \in Tasks : pc'[h] = "record" /\ Current(h, i)'
             \/ Cardinality(C) <= crashes'
  <2>1. CASE Recorded(i)
    BY <2>1, RecordedStays
  <2>2. ASSUME NEW h \in Tasks, pc[h] = "record", Current(h, i)
        PROVE  \/ Recorded(i)'
               \/ \E g \in Tasks : pc'[g] = "record" /\ Current(g, i)'
               \/ Cardinality(C) <= crashes'
    BY <1>1, <1>2, <1>3, <2>2
  <2>3. CASE Cardinality(C) <= crashes
    BY <1>1, <1>3, <2>3
  <2> QED BY <2>1, <2>2, <2>3 DEF CopiesInv
<1>5. ASSUME NEW h \in Tasks, Commit(h), Current(h, i), ~Recorded(i),
             NEW k, C' = C \cup {k}
      PROVE  /\ IsFiniteSet(C') /\ Cardinality(C') <= 1 + crashes'
             /\ pc'[h] = "record" /\ Current(h, i)'
  <2>1. \A g \in Tasks : pc[g] # "record"
    BY <1>5, OthersEmpty DEF Commit
  <2>2. Cardinality(C) <= crashes
    BY <1>5, <2>1 DEF CopiesInv
  <2>3. IsFiniteSet(C \cup {k}) /\ Cardinality(C \cup {k}) <= Cardinality(C) + 1
                                /\ Cardinality(C \cup {k}) \in Nat
    BY <1>3, AddOne
  <2>4. pc'[h] = "record" /\ Current(h, i)'
    BY <1>5 DEF Commit, Current
  <2> QED BY <1>1, <1>3, <1>5, <2>2, <2>3, <2>4
<1>6. CASE C' = C
  BY <1>1, <1>3, <1>4, <1>6
<1>7. CASE C' # C
  <2>1. /\ ~Recorded(i)
        /\ \E k : C' = C \cup {k}
        /\ \E h \in Tasks : Commit(h) /\ Current(h, i)
    BY <1>7, CommittedGrows
  <2> QED BY <1>5, <2>1
<1> QED BY <1>6, <1>7
-----------------------------------------------------------------------------
(* The theorems                                                            *)

\* The service starts in a state of the inductive invariant.
LEMMA InitIInv == Init => IInv
<1> SUFFICES ASSUME Init PROVE IInv
  OBVIOUS
<1> USE DEF Init
<1>1. \A t \in Topics : log[t] = << >> /\ DOMAIN log[t] = {}
  OBVIOUS
<1>2. TypeOK
  BY BoundAssumption DEF TypeOK, LogType
<1>3. LockInv /\ RouteInv /\ BatchInv /\ PrefixInv
  BY SentinelAssumption DEF LockInv, RouteInv, BatchInv, PrefixInv
<1>4. LoggedInv /\ NoRowOvertaken /\ TopicsAscending
  BY <1>1 DEF LoggedInv, NoRowOvertaken, TopicsAscending
<1>5. CommitInv /\ RecordInv /\ OpenInv /\ ProducedIsPublished
  BY <1>1 DEF CommitInv, RecordInv, OpenInv, ProducedIsPublished, Recorded
<1>6. CopiesInv
  <2>1. \A i \in Ids : Committed("bankEO", i) = {}
    BY <1>1 DEF Committed
  <2>2. IsFiniteSet({}) /\ Cardinality({}) = 0 /\ crashes = 0
    BY FS_EmptySet
  <2>3. \A i \in Ids : /\ IsFiniteSet(Committed("bankEO", i))
                      /\ Cardinality(Committed("bankEO", i)) = 0
    BY <2>1, <2>2
  <2> QED BY <2>2, <2>3 DEF CopiesInv
<1> QED BY <1>2, <1>3, <1>4, <1>5, <1>6 DEF IInv

\* The inductive invariant is inductive: one lemma for each part.
LEMMA IInvStep == IInv /\ [Next]_vars => IInv'
<1> SUFFICES ASSUME IInv, [Next]_vars PROVE IInv'
  OBVIOUS
<1> USE DEF IInv, TaskInv
<1>1. TypeOK' /\ LockInv' /\ RouteInv' /\ BatchInv' /\ PrefixInv'
  BY TypeStep, LockStep, RouteStep, BatchStep, PrefixStep
<1>2. LoggedInv' /\ NoRowOvertaken' /\ TopicsAscending'
  BY OrderStep DEF OrderInv
<1>3. CommitInv' /\ RecordInv' /\ OpenInv' /\ ProducedIsPublished'
  BY CommitStep, RecordStep, OpenStep, ProducedStep
<1>4. CopiesInv'
  BY CopiesStep
<1> QED BY <1>1, <1>2, <1>3, <1>4

\* Every reachable state of the producer service satisfies the inductive
\* invariant.
THEOREM Invariance == Spec => []IInv
BY InitIInv, IInvStep, PTL DEF Spec

\* The service keeps its state well typed, and publishes only while it has a
\* row in hand.
THEOREM TypeCorrect == Spec => []TypeOK
<1>1. IInv => TypeOK
  BY DEF IInv
<1> QED BY <1>1, Invariance, PTL

\* A row that the state-tracker shows as produced has a visible copy in the
\* topic of its producer_type, whatever crashes and fails.
THEOREM ProducedIsPublishedAlways == Spec => []ProducedIsPublished
<1>1. IInv => ProducedIsPublished
  BY DEF IInv
<1> QED BY <1>1, Invariance, PTL

\* The copies of a topic are in the order of the ids, whichever routes, tasks
\* and restarts they come from.
THEOREM TopicsAscendingAlways == Spec => []TopicsAscending
<1>1. IInv => TopicsAscending
  BY DEF IInv
<1> QED BY <1>1, Invariance, PTL

\* Across the topics too: a row is published when every earlier one is
\* recorded as produced.
THEOREM PublishedInOrder == Spec => []NoRowOvertaken
<1>1. IInv => NoRowOvertaken
  BY DEF IInv
<1> QED BY <1>1, Invariance, PTL

\* A row has at most one visible copy in bankEO, and one more per restart.
THEOREM ExactlyOnceUpToCrashes == Spec => []ExtraCopiesNeedCrash
<1>1. IInv => ExtraCopiesNeedCrash
  BY DEF IInv, CopiesInv, ExtraCopiesNeedCrash
<1> QED BY <1>1, Invariance, PTL

\* Once recorded, a row keeps its producer_type and gains no visible copy.
THEOREM RecordedStaysFinal == Spec => RecordedIsFinal
<1>1. IInv /\ [Next]_vars =>
        [\A i \in Ids : Recorded(i) =>
           /\ producerType'[i] = producerType[i]
           /\ \A t \in Topics : Committed(t, i)' = Committed(t, i)]_vars
  <2> SUFFICES ASSUME IInv, [Next]_vars, NEW i \in Ids, Recorded(i)
               PROVE  /\ producerType'[i] = producerType[i]
                      /\ \A t \in Topics : Committed(t, i)' = Committed(t, i)
    OBVIOUS
  <2> QED BY RecordedStays, CommittedGrows DEF IInv, TaskInv
<1> QED BY <1>1, Invariance, PTL DEF Spec, RecordedIsFinal

\* What is done to the topics: a copy is written, or the transaction settled.
TopicStep == (\E t \in Topics, i \in Ids : Write(t, i)) \/ SettleOpen

\* A step of the service does nothing else to the topics.
LEMMA LogStep ==
  ASSUME IInv, [Next]_vars
  PROVE  TopicStep \/ log' = log
<1>0. /\ LogType /\ TaskInv /\ OpenInv /\ NoRowOvertaken
      /\ \A t \in Topics : log[t] \in Seq(Entry)
      /\ log = [t \in Topics |-> log[t]]
  <2>1. TypeOK /\ TaskInv /\ OpenInv /\ NoRowOvertaken
    BY DEF IInv, TaskInv
  <2>2. LogType
    BY <2>1 DEF TypeOK
  <2> QED BY <2>1, <2>2 DEF LogType
<1>1. CASE HasOpen /\ \E o \in {"committed", "aborted"} : log' = Settled(o)
  BY <1>1 DEF TopicStep, SettleOpen
<1>2. ASSUME ~HasOpen, NEW o \in {"committed", "aborted"}, log' = Settled(o)
      PROVE  log' = log
  <2>1. \A t \in Topics : log'[t] = log[t]
    <3> SUFFICES ASSUME NEW t \in Topics PROVE log'[t] = log[t]
      OBVIOUS
    <3>1. log'[t] = [k \in 1 .. Len(log[t]) |-> Closed(log[t][k], o)]
      BY <1>2 DEF Settled
    <3>2. \A k \in DOMAIN log[t] : Closed(log[t][k], o) = log[t][k]
      BY <1>2 DEF Closed, HasOpen, IsOpen
    <3>3. log[t] \in Seq(Entry)
      BY <1>0
    <3>4. DOMAIN log[t] = 1 .. Len(log[t])
          /\ log[t] = [k \in 1 .. Len(log[t]) |-> log[t][k]]
      BY <3>3
    <3> QED BY <3>1, <3>2, <3>4
  <2>2. log' = [t \in Topics |-> log'[t]]
    BY <1>2 DEF Settled
  <2> QED BY <1>0, <2>1, <2>2
<1>3. ASSUME NEW h \in Tasks, NEW i \in Ids, NEW s \in {"open", "committed"},
             Published(h, i, s), s = "committed" <=> ~IsTxn(h),
             IsTxn(h) => client[route[h]] = "txn" /\ NotFenced(h)
      PROVE  TopicStep
  <2> PICK t \in Topics : t = TopicOf(route[h])
    BY DEF TopicOf
  <2>1. /\ CanPublish(h, i) /\ log' = Appended(t, i, s)
        /\ s = "open" <=> t = "bankEO"
        /\ s = "open" \/ s = "committed"
    BY <1>3 DEF Published, TopicOf
  <2>2. \A k \in DOMAIN log[t] : log[t][k].id <= i
    <3> SUFFICES ASSUME NEW k \in DOMAIN log[t] PROVE log[t][k].id <= i
      OBVIOUS
    <3>1. log[t] \in Seq(Entry) /\ k \in 1 .. Len(log[t])
      BY <1>0
    <3>2. log[t][k] \in Entry
      BY <3>1
    <3>3. log[t][k].id \in Nat /\ i \in Nat
      BY <3>2, IdsAssumption DEF Entry
    <3>4. ~(i < log[t][k].id)
      BY <1>0, <2>1 DEF CanPublish, NoRowOvertaken
    <3> QED BY <3>3, <3>4
  <2>3. t = "bankEO" => ~HasOpen
    <3> SUFFICES ASSUME t = "bankEO" PROVE ~HasOpen
      OBVIOUS
    <3>1. /\ pc[h] = "send" /\ txnOwner = route[h] /\ route[h] \in TxnRoutes
          /\ client[txnOwner] = "txn"
      BY <1>3 DEF TopicOf, Published, CanPublish
    <3>2. pc[h] \in Held /\ pc[h] # "commit"
      BY <3>1
    <3> QED BY <1>0, <3>1, <3>2, NoneOpen DEF HasOpen
  <2>4. Write(t, i)
    BY <2>1, <2>2, <2>3 DEF Write
  <2> QED BY <2>4 DEF TopicStep
<1>4. ASSUME NEW h \in Tasks, Commit(h)
      PROVE  log' = Settled("committed")
  BY <1>4 DEF Commit
<1>5. ASSUME NEW o \in {"committed", "aborted"}, log' = Settled(o)
      PROVE  TopicStep \/ log' = log
  BY <1>1, <1>2, <1>5
<1>6. \A h \in Tasks : Commit(h) => TopicStep \/ log' = log
  BY <1>4, <1>5
<1>7. \A h \in Tasks, i \in Ids, s \in {"open", "committed"} :
        /\ Published(h, i, s)
        /\ s = "committed" <=> ~IsTxn(h)
        /\ IsTxn(h) => client[route[h]] = "txn" /\ NotFenced(h)
        => TopicStep
  BY <1>3
<1> QED BY <1>0, <1>5, <1>6, <1>7, LogChange

\* Hence a reader finds what it has found before.
LEMMA LogStaysVisible ==
  ASSUME IInv, [Next]_vars
  PROVE  LogGrows
<1>1. LogType
  BY DEF IInv, TypeOK
<1>2. CASE TopicStep
  BY <1>1, <1>2, WriteGrows, SettleGrows DEF TopicStep
<1>3. CASE log' = log
  BY <1>1, <1>3 DEF LogGrows, LogType
<1> QED BY <1>2, <1>3, LogStep

\* All that the service does to the topics is what Consumer assumes of its
\* environment (Publish, Settle): copies are written one at a time, never of a
\* row before the last one and never into an open transaction, and a
\* transaction is settled as a whole.
THEOREM TopicsWritten == Spec => [][TopicStep]_log
<1>1. IInv /\ [Next]_vars => [TopicStep]_log
  BY LogStep
<1> QED BY <1>1, Invariance, PTL DEF Spec

\* Only topics that a route feeds have entries.
FedInv ==
  \A t \in Topics : \A k \in DOMAIN log[t] : \E r \in Routes : TopicOf(r) = t

\* A step of the service keeps that.
LEMMA FedStep ==
  ASSUME IInv, FedInv, [Next]_vars
  PROVE  FedInv'
<1>0. LogType /\ TaskInv
  BY DEF IInv, TaskInv, TypeOK
<1>1. CASE \A t \in Topics : DOMAIN log'[t] = DOMAIN log[t]
  BY <1>1 DEF FedInv, TopicOf
<1>2. ASSUME NEW o \in {"committed", "aborted"}, log' = Settled(o)
      PROVE  FedInv'
  BY <1>0, <1>1, <1>2, SettledFacts
<1>3. ASSUME NEW h \in Tasks, NEW i \in Ids, NEW s \in {"open", "committed"},
             Published(h, i, s)
      PROVE  FedInv'
  <2>1. /\ route[h] \in Routes /\ TopicOf(route[h]) \in Topics
        /\ log' = Appended(TopicOf(route[h]), i, s)
    BY <1>0, <1>3 DEF Published, CanPublish, TaskInv, RouteInv, TopicOf
  <2>2. \A t \in Topics \ {TopicOf(route[h])} : log'[t] = log[t]
    BY <1>0, <2>1, AppendedFacts
  <2> QED BY <2>1, <2>2 DEF FedInv
<1>4. ASSUME NEW h \in Tasks, Commit(h) PROVE FedInv'
  BY <1>2, <1>4 DEF Commit
<1> QED BY <1>0, <1>1, <1>2, <1>3, <1>4, LogChange
-----------------------------------------------------------------------------
(***************************************************************************)
(* Producer implements Publication: the initial states map to initial      *)
(* states, and every step maps to a step of Publication or to a stutter.   *)
(* The mapping counts the visible copies of a row (Copies of Producer).    *)
(***************************************************************************)

\* Nothing is open in the topic of the plain routes.
PlainInv ==
  \A k \in Offsets("bankAO") : log["bankAO"][k].status # "open"

\* A send of a plain route is visible at once.
LEMMA PlainStep ==
  ASSUME TaskInv, PlainInv, [Next]_vars
  PROVE  PlainInv'
<1> USE DEF PlainInv
<1>1. LogType
  BY DEF TaskInv, TypeOK
<1>2. CASE log' = log
  BY <1>2
<1>3. CASE log' = Settled("aborted") \/ \E h \in Tasks : Commit(h)
  <2>1. PICK o \in {"committed", "aborted"} : log' = Settled(o)
    BY <1>3 DEF Commit
  <2> QED BY <1>1, <2>1, SettledFacts
<1>4. ASSUME NEW h \in Tasks, NEW i \in Ids, NEW s \in {"open", "committed"},
             Published(h, i, s), s = "committed" <=> ~IsTxn(h)
      PROVE  PlainInv'
  <2>1. log' = Appended(TopicOf(route[h]), i, s)
    BY <1>4 DEF Published
  <2>2. CASE TopicOf(route[h]) = "bankEO"
    <3>1. log'["bankAO"] = log["bankAO"]
      <4>1. "bankAO" \in Topics \ {"bankEO"} /\ "bankEO" \in Topics
            /\ s \in {"open", "committed", "aborted"}
            /\ log' = Appended("bankEO", i, s)
        BY <2>1, <2>2
      <4> QED BY <1>1, <4>1, AppendedFacts
    <3> QED BY <3>1
  <2>3. CASE TopicOf(route[h]) = "bankAO"
    <3>1. s = "committed"
      BY <1>4, <2>3 DEF TopicOf
    <3>2. /\ Len(log["bankAO"]) \in Nat
          /\ DOMAIN log["bankAO"] = 1 .. Len(log["bankAO"])
          /\ DOMAIN log'["bankAO"] = 1 .. Len(log["bankAO"]) + 1
          /\ \A k \in DOMAIN log["bankAO"] :
               log'["bankAO"][k] = log["bankAO"][k]
          /\ log'["bankAO"][Len(log["bankAO"]) + 1].status = "committed"
      <4>1. "bankAO" \in Topics /\ "committed" \in {"open", "committed", "aborted"}
            /\ log' = Appended("bankAO", i, "committed")
        BY <2>1, <2>3, <3>1
      <4>2. /\ Len(log["bankAO"]) \in Nat
            /\ DOMAIN log["bankAO"] = 1 .. Len(log["bankAO"])
            /\ DOMAIN log'["bankAO"] = 1 .. Len(log["bankAO"]) + 1
            /\ \A k \in DOMAIN log["bankAO"] :
                 log'["bankAO"][k] = log["bankAO"][k]
            /\ log'["bankAO"][Len(log["bankAO"]) + 1]
                 = [id |-> i, status |-> "committed"]
        BY <1>1, <4>1, AppendedFacts
      <4> QED BY <4>2
    <3> QED BY <3>2
  <2> QED BY <2>2, <2>3 DEF TopicOf
<1> QED BY <1>2, <1>3, <1>4, LogChange

\* The visible copies of a row can be counted.
LEMMA CommittedFinite ==
  ASSUME LogType, NEW t \in Topics, NEW i \in Ids
  PROVE  IsFiniteSet(Committed(t, i)) /\ Cardinality(Committed(t, i)) \in Nat
<1>1. Committed(t, i) \subseteq 1 .. Len(log[t]) /\ Len(log[t]) \in Nat
  BY DEF Committed, LogType
<1>2. IsFiniteSet(1 .. Len(log[t]))
  BY <1>1, FS_Interval
<1> QED BY <1>1, <1>2, FS_Subset, FS_CardinalityType

SameCopies ==
  \A t \in Topics, i \in Ids : Committed(t, i)' = Committed(t, i)

\* Exactly one row gets a visible copy, in one topic, and it is its turn.
NewCopy(t, i) ==
  /\ Abstract!ItsTurn(i)
  /\ t = "bankEO" => Cardinality(Committed(t, i)) <= crashes
  /\ \E k : k \notin Committed(t, i)
            /\ Committed(t, i)' = Committed(t, i) \cup {k}
  /\ \A u \in Topics, j \in Ids :
       u # t \/ j # i => Committed(u, j)' = Committed(u, j)
  /\ UNCHANGED <<tracker, crashes>>

\* The commit of a transaction shows its one open entry, if there is one.
LEMMA CommitShows ==
  ASSUME IInv, PlainInv, NEW h \in Tasks, Commit(h)
  PROVE  SameCopies \/ \E i \in Ids : NewCopy("bankEO", i)
<1> USE DEF IInv, TypeOK
<1>1. /\ log' = Settled("committed")
      /\ txnOwner \in TxnRoutes /\ client[txnOwner] \in {"ready", "txn"}
      /\ pc[h] = "commit" /\ route[h] \in TxnRoutes
      /\ client[route[h]] = "txn"
      /\ UNCHANGED <<tracker, crashes>>
  BY DEF Commit, RouteInv
<1>2. \A t \in Topics :
        /\ DOMAIN log'[t] = DOMAIN log[t]
        /\ \A k \in DOMAIN log[t] :
             /\ log'[t][k].id = log[t][k].id
             /\ log'[t][k].status = "committed" <=>
                  log[t][k].status \in {"open", "committed"}
  BY <1>1, SettledFacts
<1>3. \A j \in Ids : Committed("bankAO", j)' = Committed("bankAO", j)
  BY <1>2 DEF Committed, PlainInv
<1>4. CASE \A k \in DOMAIN log["bankEO"] : log["bankEO"][k].status # "open"
  <2>1. \A j \in Ids : Committed("bankEO", j)' = Committed("bankEO", j)
    BY <1>2, <1>4 DEF Committed
  <2> QED BY <1>3, <2>1 DEF SameCopies
<1>5. ASSUME NEW k \in DOMAIN log["bankEO"],
             log["bankEO"][k].status = "open"
      PROVE  \E i \in Ids : NewCopy("bankEO", i)
  <2> DEFINE i == log["bankEO"][k].id
  <2>1. /\ \A l \in DOMAIN log["bankEO"] :
             log["bankEO"][l].status = "open" => l = k
        /\ \E g \in Tasks : pc[g] = "commit" /\ Current(g, i)
    BY <1>1, <1>5 DEF OpenInv, IsOpen
  <2>2. Current(h, i)
    BY <1>1, <2>1, OthersEmpty DEF TaskInv
  <2>3. i \in rows /\ i \in Ids /\ ~Recorded(i)
    BY <1>1, <2>2 DEF Current, BatchInv
  <2>4. \A j \in rows : j < i => Recorded(j)
    <3>1. \A j \in rows : j < i => Recorded(j) \/ j \in batch[h]
      BY <1>1, <2>2 DEF PrefixInv, Current
    <3>2. \A j \in batch[h] : ~(j < i)
      <4>1. batch[h] \subseteq Nat /\ i \in Nat
        BY <2>3, IdsAssumption
      <4>2. \A j \in batch[h] : i <= j
        BY <2>2 DEF Current
      <4> QED BY <4>1, <4>2
    <3> QED BY <3>1, <3>2
  <2>5. Abstract!ItsTurn(i)
    BY <2>3, <2>4 DEF Abstract!ItsTurn, Abstract!Recorded, Recorded
  <2>6. \A g \in Tasks : pc[g] # "record"
    BY <1>1, OthersEmpty DEF TaskInv
  <2>7. Cardinality(Committed("bankEO", i)) <= crashes
    BY <2>3, <2>6 DEF CopiesInv
  <2>8. /\ k \notin Committed("bankEO", i)
        /\ Committed("bankEO", i)' = Committed("bankEO", i) \cup {k}
    BY <1>2, <1>5, <2>1 DEF Committed
  <2>9. \A j \in Ids : j # i => Committed("bankEO", j)' = Committed("bankEO", j)
    BY <1>2, <2>1 DEF Committed
  <2> HIDE DEF i
  <2>10. NewCopy("bankEO", i)
    BY <1>1, <1>3, <2>5, <2>7, <2>8, <2>9 DEF NewCopy
  <2> QED BY <2>3, <2>10
<1> QED BY <1>4, <1>5

\* A send adds one entry, visible if it is one of a plain route.
LEMMA SendShows ==
  ASSUME TypeOK, NEW h \in Tasks, NEW i \in Ids,
         NEW s \in {"open", "committed"}, Published(h, i, s),
         s = "committed" <=> ~IsTxn(h), UNCHANGED <<tracker, crashes>>
  PROVE  SameCopies \/ NewCopy("bankAO", i)
<1> USE DEF TypeOK
<1> PICK u \in Topics : u = TopicOf(route[h])
  BY DEF TopicOf
<1> DEFINE n == Len(log[u]) + 1
<1>1. /\ DOMAIN log'[u] = DOMAIN log[u] \cup {n}
      /\ n \notin DOMAIN log[u]
      /\ \A k \in DOMAIN log[u] : log'[u][k] = log[u][k]
      /\ log'[u][n].id = i /\ log'[u][n].status = s
      /\ \A t \in Topics \ {u} : log'[t] = log[t]
  <2>1. /\ LogType /\ log' = Appended(u, i, s)
        /\ s \in {"open", "committed", "aborted"}
    BY DEF Published
  <2>2. \A t \in Topics \ {u} : log'[t] = log[t]
    <3> HIDE DEF TypeOK, n
    <3> QED BY <2>1, AppendedFacts
  <2>3. /\ Len(log[u]) \in Nat
        /\ DOMAIN log[u] = 1 .. Len(log[u])
        /\ DOMAIN log'[u] = 1 .. Len(log[u]) + 1
        /\ \A k \in DOMAIN log[u] : log'[u][k] = log[u][k]
        /\ log'[u][Len(log[u]) + 1] = [id |-> i, status |-> s]
    <3> HIDE DEF TypeOK, n
    <3> QED BY <2>1, AppendedFacts
  <2> QED BY <2>2, <2>3
<1> HIDE DEF n
<1>2. \A t \in Topics, j \in Ids :
        t # u \/ j # i => Committed(t, j)' = Committed(t, j)
  BY <1>1 DEF Committed
<1>3. CASE s = "open"
  <2>1. Committed(u, i)' = Committed(u, i)
    BY <1>1, <1>3 DEF Committed
  <2> QED BY <1>2, <2>1 DEF SameCopies
<1>4. CASE s = "committed"
  <2>1. u = "bankAO"
    BY <1>4 DEF TopicOf
  <2>2. n \notin Committed(u, i) /\ Committed(u, i)' = Committed(u, i) \cup {n}
    BY <1>1, <1>4 DEF Committed
  <2>3. Abstract!ItsTurn(i)
    BY DEF Published, CanPublish, Abstract!ItsTurn, Abstract!Recorded, Recorded
  <2> QED BY <1>2, <2>1, <2>2, <2>3 DEF NewCopy
<1> QED BY <1>3, <1>4

\* A restart of the service is the only step that counts one, and it touches
\* neither the topics nor the state-tracker.
LEMMA CrashesChange ==
  ASSUME TypeOK, [Next]_vars
  PROVE  \/ crashes' = crashes
         \/ crashes' = crashes + 1 /\ UNCHANGED <<log, tracker>>
<1>1. ASSUME NEW h \in Tasks, Request(h) \/ Acquire(h) \/ Work(h)
      PROVE  crashes' = crashes
  BY <1>1 DEF Request, Acquire, Work, CreateProducer, Connect, Query, Begin,
              SendTxn, SendFenced, Commit, CommitFatal, SendPlain, Record
<1>2. ASSUME NEW h \in Tasks, Failure(h)
      PROVE  crashes' = crashes
  BY <1>2 DEF Failure, CreateFails, ConnectFails, RecordLost, SendTimesOut,
              SendPlainTimesOut, Fault
<1>3. ASSUME Insert \/ BreakPg \/ ExpireAbandoned \/ ExpireSlow
             \/ UNCHANGED vars
      PROVE  crashes' = crashes
  BY <1>3 DEF Insert, BreakPg, ExpireAbandoned, ExpireSlow, Fault
<1>4. CASE Crash
  BY <1>4 DEF Crash
<1> QED BY <1>1, <1>2, <1>3, <1>4 DEF Next, Environment

\* A step that publishes leaves the state-tracker and the restarts alone; at
\* most one row gets a copy.
LEMMA CopiesChange ==
  ASSUME IInv, PlainInv, [Next]_vars, crashes' = crashes
  PROVE  SameCopies \/ \E t \in Topics, i \in Ids : NewCopy(t, i)
<1> USE DEF IInv, TypeOK
<1>1. CASE log' = log
  BY <1>1 DEF SameCopies, Committed
<1>2. CASE log' = Settled("aborted")
  BY <1>2, SettledFacts DEF SameCopies, Committed
<1>3. ASSUME NEW h \in Tasks, Commit(h)
      PROVE  SameCopies \/ \E i \in Ids : NewCopy("bankEO", i)
  BY <1>3, CommitShows
<1>4. ASSUME NEW h \in Tasks, NEW i \in Ids, NEW s \in {"open", "committed"},
             Published(h, i, s), s = "committed" <=> ~IsTxn(h),
             UNCHANGED tracker
      PROVE  SameCopies \/ NewCopy("bankAO", i)
  BY <1>4, SendShows
<1> QED BY <1>1, <1>2, <1>3, <1>4, LogChange DEF TaskInv

\* The initial states of Producer are initial states of Publication.
LEMMA InitMaps == Init => Abstract!Init
<1> SUFFICES ASSUME Init PROVE Abstract!Init
  OBVIOUS
<1>1. \A t \in Topics, i \in Ids : Committed(t, i) = {}
  BY DEF Init, Committed
<1>2. Cardinality({}) = 0
  BY FS_EmptySet
<1>3. Copies = [t \in Topics |-> [i \in Ids |-> 0]]
  BY <1>1, <1>2 DEF Copies
<1> QED BY <1>3 DEF Init, Abstract!Init, Abstract!Topics

\* A new copy is a step of Publication.
LEMMA CopyMaps ==
  ASSUME LogType, LogType', NEW t \in Topics, NEW i \in Ids, NewCopy(t, i)
  PROVE  Abstract!Publish(t, i)
<1> DEFINE C == Committed(t, i)
<1> PICK k : k \notin C /\ C' = C \cup {k}
  BY DEF NewCopy
<1>1. IsFiniteSet(C) /\ Cardinality(C) \in Nat
  BY CommittedFinite
<1>2. Cardinality(C') = Cardinality(C) + 1
  BY <1>1, FS_AddElement
<1>3. \A u \in Topics, j \in Ids :
        Cardinality(Committed(u, j)') =
          IF u = t /\ j = i THEN Cardinality(C) + 1
                            ELSE Cardinality(Committed(u, j))
  BY <1>2 DEF NewCopy
<1>4. Copies[t][i] = Cardinality(C)
  BY DEF Copies
<1>5. Copies' = [Copies EXCEPT ![t][i] = @ + 1]
  <2>1. Copies' = [u \in Topics |-> [j \in Ids |->
                     IF u = t /\ j = i THEN Cardinality(C) + 1
                                       ELSE Cardinality(Committed(u, j))]]
    BY <1>3 DEF Copies
  <2> QED BY <2>1 DEF Copies
<1> QED BY <1>4, <1>5 DEF NewCopy, Abstract!Publish

\* A row that a task is about to record is the first that is not recorded.
LEMMA MarkedInTurn ==
  ASSUME IInv, NEW h \in Tasks, NEW i \in Ids,
         pc[h] = "record", Current(h, i), ~Recorded(i)
  PROVE  /\ route[h] \in Routes /\ i \in rows
         /\ \A j \in rows : j < i => Recorded(j)
<1> USE DEF IInv, TypeOK
<1>1. route[h] \in Routes /\ i \in rows
  BY DEF RouteInv, BatchInv, Current
<1>2. ~IsTxn(h) \/ client[route[h]] # "failed"
  BY DEF RouteInv
<1>3. \A j \in rows : j < i => Recorded(j) \/ j \in batch[h]
  BY <1>2 DEF PrefixInv, Current
<1>4. \A j \in batch[h] : ~(j < i)
  BY IdsAssumption DEF Current
<1> QED BY <1>1, <1>3, <1>4

\* A mark is a step of Publication: it is the turn of the row, and it has a
\* visible copy in the topic of the route.
LEMMA MarkMaps ==
  ASSUME IInv, NEW h \in Tasks, NEW i \in Ids,
         pc[h] = "record", Current(h, i), ~Recorded(i), Mark(h, i),
         UNCHANGED <<log, rows, crashes>>
  PROVE  Abstract!Mark(route[h], i) /\ route[h] \in Routes
<1> USE DEF IInv, TypeOK
<1>1. /\ route[h] \in Routes /\ i \in rows
      /\ \A j \in rows : j < i => Recorded(j)
  BY MarkedInTurn
<1>2. Abstract!ItsTurn(i)
  BY <1>1 DEF Abstract!ItsTurn, Abstract!Recorded, Recorded
<1>3. Copies[TopicOf(route[h])][i] > 0
  <2> PICK t \in Topics : t = TopicOf(route[h])
    BY DEF TopicOf
  <2>1. Committed(t, i) # {}
    BY DEF RecordInv
  <2>2. IsFiniteSet(Committed(t, i)) /\ Cardinality(Committed(t, i)) \in Nat
    BY CommittedFinite
  <2>3. Cardinality(Committed(t, i)) # 0
    BY <2>1, <2>2, FS_EmptySet
  <2>4. Copies[t][i] = Cardinality(Committed(t, i))
    BY DEF Copies
  <2> QED BY <2>2, <2>3, <2>4
<1>4. UNCHANGED Copies
  BY DEF Copies, Committed
<1> QED
  BY <1>1, <1>2, <1>3, <1>4 DEF Mark, Abstract!Mark, Abstract!TopicOf, TopicOf

\* Every step of Producer is a step of Publication, or none.
LEMMA StepMaps ==
  ASSUME IInv, PlainInv, [Next]_vars
  PROVE  [Abstract!Next]_(Abstract!vars)
<1> USE DEF IInv
<1>0. TypeOK' /\ LogType /\ LogType'
  BY TypeStep DEF TypeOK
<1>1. CASE crashes' # crashes
  <2>1. crashes' = crashes + 1 /\ UNCHANGED <<log, tracker>>
    BY <1>1, CrashesChange
  <2>2. UNCHANGED Copies
    BY <2>1 DEF Copies, Committed
  <2>3. Abstract!Restart
    BY <2>1, <2>2 DEF Abstract!Restart
  <2> QED BY <2>3 DEF Abstract!Next
<1>2. ASSUME crashes' = crashes,
             NEW t \in Topics, NEW i \in Ids, NewCopy(t, i)
      PROVE  Abstract!Next
  BY <1>0, <1>2, CopyMaps DEF Abstract!Next, Abstract!Topics
<1>3. CASE crashes' = crashes /\ SameCopies
  <2>1. UNCHANGED Copies
    BY <1>3 DEF Copies, SameCopies
  <2>2. CASE producerType' = producerType
    <3>1. /\ rows' = rows \cup (rows' \ rows)
          /\ \A i \in rows' \ rows, j \in rows : j < i
          /\ rows' \ rows \in SUBSET Ids
      BY <1>0, TrackerChange DEF TaskInv, TypeOK
    <3>2. Abstract!Generate(rows' \ rows)
      BY <1>3, <2>1, <2>2, <3>1 DEF Abstract!Generate
    <3> QED BY <3>1, <3>2 DEF Abstract!Next
  <2>3. ASSUME NEW h \in Tasks, NEW i \in Ids,
               pc[h] = "record", Current(h, i), ~Recorded(i), Mark(h, i),
               UNCHANGED <<log, rows>>
        PROVE  Abstract!Next
    <3>1. Abstract!Mark(route[h], i) /\ route[h] \in Routes
      BY <1>3, <2>3, MarkMaps
    <3> QED BY <3>1 DEF Abstract!Next, Routes
  <2> QED BY <2>2, <2>3, TrackerChange DEF TaskInv
<1> QED BY <1>1, <1>2, <1>3, CopiesChange
-----------------------------------------------------------------------------
(* The theorem                                                             *)

\* Producer implements Publication: a reader of the state-tracker and of the
\* topics sees rows dealt with one after the other, each published while it
\* is its turn and then recorded for good.
THEOREM ProducerImplementsPublication == Spec => PublicationSpec
<1>1. Init => PlainInv
  BY DEF Init, PlainInv
<1>2. IInv /\ PlainInv /\ [Next]_vars => PlainInv'
  BY PlainStep DEF IInv, TaskInv
<1>3. Init => Abstract!Init
  BY InitMaps
<1>4. IInv /\ PlainInv /\ [Next]_vars => [Abstract!Next]_(Abstract!vars)
  BY StepMaps
<1> QED
  BY <1>1, <1>2, <1>3, <1>4, Invariance, PTL
  DEF Spec, PublicationSpec, Abstract!Spec
=============================================================================
