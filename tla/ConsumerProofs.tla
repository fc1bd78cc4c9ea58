--------------------------- MODULE ConsumerProofs ---------------------------
(***************************************************************************)
(* Theorems about Consumer, for any set of row ids and what they carry,    *)
(* any number of tasks, restarts and failures, and their proofs.           *)
(*                                                                         *)
(* The inductive invariant is IInv.  One task at a time is inside handle   *)
(* (LockInv); the message it has in hand is visible in the topic of its    *)
(* route (HandInv); the exactly-once consumer is given nothing at or       *)
(* before the offset its group has committed (GroupInv), so that the       *)
(* counts of a row stay within the visible copies the group has passed     *)
(* (CountInv); and what reaches the accounts has been counted (AppliedInv).*)
(*                                                                         *)
(* FlowInv, in a later part, is for runs without a restart and without a   *)
(* failed commit (Uninterrupted).  Then a consumer is never before its     *)
(* group's offset (ReadInv); what it has passed is counted, but for the    *)
(* message about to be (SeenInv); so a consumed row has a copy in its      *)
(* topic before which nothing visible is left uncounted (OrderInv).        *)
(*                                                                         *)
(* CostInv, the last section, needs no such condition: it says how many    *)
(* messages and how many fundings restarts and failures have cost.         *)
(***************************************************************************)
EXTENDS Consumer, BrokerProofs, AccountsProofs, FiniteSetTheorems,
        SequenceTheorems, TLAPS

EO == "exactly_once"

\* A task that is inside handle holds the lock.
LockInv == \A h \in Tasks : pc[h] \in Held => lock = h

\* The message in hand is a visible entry of the topic of the route.
HandInv ==
  \A h \in Tasks : pc[h] \in InHand =>
    /\ hand[h] \in DOMAIN log[TopicOf(route[h])]
    /\ log[TopicOf(route[h])][hand[h]].status = "committed"

\* The route's consumer exists while a task works with it.  The exactly-once
\* consumer is not before the offset of its group, and a message it is about
\* to commit is after it.
GroupInv ==
  /\ \A h \in Tasks : pc[h] \in Held => consumer[route[h]]
  /\ EO \in Routes /\ consumer[EO] => committed[EO] <= position[EO]
  /\ \A h \in Tasks : pc[h] = "commit" =>
       route[h] = EO /\ hand[h] = position[EO] /\ committed[EO] < hand[h]

\* The visible copies of row i that the exactly-once group has passed.
Passed(i) ==
  {k \in Committed("bankEO", i) : EO \in Routes /\ k <= committed[EO]}

\* A row that is in bankEO only has not been counted more often than a copy
\* of it has been passed, and less often when it is about to be counted.
CountInv ==
  \A i \in Ids : Committed("bankAO", i) = {} =>
    /\ consumedCount[i] <= Cardinality(Passed(i))
    /\ \A h \in Tasks :
         pc[h] = "write" /\ pg = "up" /\ Row(h) = i
           => consumedCount[i] + 1 <= Cardinality(Passed(i))

\* Accounts come from rows that are counted, as is the row that is about to
\* be applied.
AppliedInv ==
  /\ ItemsAreConsumed
  /\ \A h \in Tasks : pc[h] = "apply" => consumedCount[Row(h)] > 0

IInv ==
  /\ TypeOK
  /\ LockInv
  /\ HandInv
  /\ GroupInv
  /\ CountInv
  /\ AppliedInv

USE DEF Topics, Offsets, At, Goto, Take, InHand, Held, Steps,
        tracker, group, accounts, service, task, budget, vars
-----------------------------------------------------------------------------
(* Types                                                                   *)

\* The end of an iteration: the task leaves, or receives the next message.
LEMMA NextMessageFacts ==
  ASSUME TypeOK, NEW h \in Tasks, pc[h] # "idle", NextMessage(h)
  PROVE  /\ pc' \in [Tasks -> Steps] /\ hand' \in [Tasks -> Nat]
         /\ left' \in [Tasks -> 0 .. MaxRequest]
         /\ route' \in [Tasks -> Routes \cup {NoRoute}]
         /\ lock' \in {lock, NoTask}
         /\ \A g \in Tasks \ {h} :
              /\ pc'[g] = pc[g] /\ hand'[g] = hand[g] /\ left'[g] = left[g]
              /\ route'[g] = route[g]
         /\ hand'[h] = 0
         /\ \/ /\ pc'[h] = "idle" /\ left'[h] = 0
               /\ route'[h] = NoRoute /\ lock' = NoTask
            \/ /\ pc'[h] = "recv" /\ left'[h] # 0
               /\ route'[h] = route[h] /\ lock' = lock
         /\ lock' \in Tasks \cup {NoTask}
         /\ \A g \in Tasks : /\ (pc'[g] \in InHand <=> hand'[g] # 0)
                             /\ (pc'[g] = "idle" <=> left'[g] = 0)
                             /\ (pc'[g] = "idle" <=> route'[g] = NoRoute)
<1>1. left[h] \in 0 .. MaxRequest /\ left[h] # 0 /\ MaxRequest \in Nat
  BY ConsumerAssumption DEF TypeOK
<1>2. CASE left[h] = 1
  BY <1>1, <1>2, ConsumerAssumption DEF NextMessage, Leave, TypeOK
<1>3. CASE left[h] # 1
  <2>1. left[h] - 1 \in 0 .. MaxRequest /\ left[h] - 1 # 0
    BY <1>1, <1>3
  <2> QED BY <1>3, <2>1 DEF NextMessage, TypeOK
<1> QED BY <1>2, <1>3

\* A write to the accounts keeps their types.
LEMMA ApplyType ==
  ASSUME AccountsType, NEW tx \in Transactions, Apply(tx)
  PROVE  AccountsType'
<1> USE DEF AccountsType
<1>1. CASE tx.kind = "fund"
  <2>1. tx.iban \in Accounts
    BY <1>1 DEF Transactions
  <2> QED BY <1>1, <2>1, AccountsAssumption DEF Apply, Fund, Unchanged
<1>2. CASE tx.kind = "transfer"
  <2>1. tx.from \in Accounts /\ tx.to \in Accounts /\ tx.amount \in Nat
    BY <1>2 DEF Transactions
  <2> QED BY <1>2, <2>1 DEF Apply, Transfer, Unchanged
<1>3. CASE tx.kind # "fund" /\ tx.kind # "transfer"
  BY <1>3 DEF Apply, Unchanged
<1> QED BY <1>1, <1>2, <1>3

\* The row of a message in hand is a row.
LEMMA RowType ==
  ASSUME TypeOK, HandInv, NEW h \in Tasks, pc[h] \in InHand
  PROVE  Row(h) \in Ids /\ Tx[Row(h)] \in Transactions
<1> DEFINE t == TopicOf(route[h])
<1>1. t \in Topics
  BY DEF TopicOf
<1>2. log[t] \in Seq(Entry) /\ hand[h] \in DOMAIN log[t]
  BY <1>1 DEF TypeOK, LogType, HandInv
<1>3. log[t][hand[h]] \in Entry
  BY <1>2
<1> QED BY <1>3, ConsumerAssumption DEF Row, Entry

\* A failure is counted within its bound.
LEMMA FaultType ==
  ASSUME TypeOK, NEW kind, Fault(kind)
  PROVE  crashes' \in 0 .. MaxCrashes /\ faults' \in 0 .. MaxFaults
BY ConsumerAssumption DEF TypeOK, Fault

\* A step of the service keeps the state well typed (TypeOK of Consumer).
LEMMA TypeStep ==
  ASSUME TypeOK, HandInv, Serve
  PROVE  TypeOK'
<1> USE DEF TypeOK
<1>1. ASSUME NEW h \in Tasks, Request(h) PROVE TypeOK'
  BY <1>1, ConsumerAssumption DEF Request, LogType, AccountsType
<1>2. ASSUME NEW h \in Tasks, Acquire(h) PROVE TypeOK'
  <2>1. route[h] \in Routes
    BY <1>2 DEF Acquire
  <2>2. StartOffset(route[h]) \in Nat
    BY <2>1 DEF StartOffset
  <2> QED BY <1>2, <2>1, <2>2 DEF Acquire, LogType, AccountsType
<1>3. ASSUME NEW h \in Tasks, Connect(h) PROVE TypeOK'
  BY <1>3 DEF Connect, LogType, AccountsType
<1>4. ASSUME NEW h \in Tasks, ConnectFails(h) PROVE TypeOK'
  BY <1>4, FaultType, ConsumerAssumption
     DEF ConnectFails, Leave, LogType, AccountsType
<1>5. ASSUME NEW h \in Tasks, CreateTable(h) PROVE TypeOK'
  BY <1>5 DEF CreateTable, LogType, AccountsType
<1>6. ASSUME NEW h \in Tasks, CreateTableLost(h) PROVE TypeOK'
  BY <1>6, FaultType DEF CreateTableLost, LogType, AccountsType
<1>7. ASSUME NEW h \in Tasks, Subscribe(h) PROVE TypeOK'
  BY <1>7 DEF Subscribe, LogType, AccountsType
<1>8. ASSUME NEW h \in Tasks, Recv(h) PROVE TypeOK'
  <2> DEFINE t == TopicOf(route[h])
  <2>1. PICK k \in DOMAIN log[t] :
          /\ position' = [position EXCEPT ![route[h]] = k]
          /\ Take(h, k)
    BY <1>8 DEF Recv
  <2>2. k \in Nat /\ k # 0
    BY OffsetsFinite DEF TopicOf
  <2>3. AfterRecv(h) \in InHand
    BY DEF AfterRecv
  <2> HIDE DEF t
  <2> QED BY <1>8, <2>1, <2>2, <2>3 DEF Recv, LogType, AccountsType
<1>9. ASSUME NEW h \in Tasks, RecvError(h) PROVE TypeOK'
  <2>1. crashes' \in 0 .. MaxCrashes /\ faults' \in 0 .. MaxFaults
    BY <1>9, FaultType DEF RecvError
  <2> QED BY <1>9, <2>1, NextMessageFacts DEF RecvError, LogType, AccountsType
<1>10. ASSUME NEW h \in Tasks, Rebalance(h) PROVE TypeOK'
  BY <1>10, FaultType DEF Rebalance, LogType, AccountsType
<1>11. ASSUME NEW h \in Tasks, CommitOffset(h) PROVE TypeOK'
  BY <1>11 DEF CommitOffset, CommitHand, LogType, AccountsType
<1>12. ASSUME NEW h \in Tasks, CommitOffsetFails(h) PROVE TypeOK'
  <2>1. committed' \in [Routes -> Nat]
    BY <1>12 DEF CommitOffsetFails, CommitHand
  <2> QED BY <1>12, <2>1, FaultType, NextMessageFacts
          DEF CommitOffsetFails, LogType, AccountsType
<1>13. CASE AutoCommit
  BY <1>13 DEF AutoCommit, LogType, AccountsType
<1>14. ASSUME NEW h \in Tasks, pc[h] = "write", Count(h)
       PROVE  /\ consumedCount' \in [Ids -> Nat]
              /\ consumerType' \in [Ids -> Routes \cup {NoRoute}]
  BY <1>14, RowType DEF Count
<1>15. ASSUME NEW h \in Tasks, WriteConsumed(h) PROVE TypeOK'
  BY <1>14, <1>15 DEF WriteConsumed, LogType, AccountsType
<1>16. ASSUME NEW h \in Tasks, WriteLost(h) PROVE TypeOK'
  BY <1>14, <1>16, FaultType DEF WriteLost, LogType, AccountsType
<1>17. CASE BreakPg
  BY <1>17, FaultType DEF BreakPg, LogType, AccountsType
<1>18. ASSUME NEW h \in Tasks, pc[h] = "apply",
              Apply(Tx[Row(h)]) \/ Unchanged
       PROVE  AccountsType'
  BY <1>18, RowType, ApplyType DEF Unchanged, AccountsType
<1>19. ASSUME NEW h \in Tasks, ApplyRow(h) PROVE TypeOK'
  BY <1>18, <1>19, NextMessageFacts DEF ApplyRow, LogType
<1>20. ASSUME NEW h \in Tasks, ApplyFatal(h) PROVE TypeOK'
  BY <1>18, <1>20, FaultType, NextMessageFacts DEF ApplyFatal, LogType
<1>21. ASSUME NEW h \in Tasks, ApplyAgain(h) PROVE TypeOK'
  BY <1>18, <1>21, FaultType DEF ApplyAgain, LogType
<1>22. CASE Crash
  <2>1. crashes' \in 0 .. MaxCrashes /\ faults' \in 0 .. MaxFaults
    BY <1>22, ConsumerAssumption DEF Crash
  <2>2. 0 \in 0 .. MaxRequest
    BY ConsumerAssumption
  <2> QED BY <1>22, <2>1, <2>2 DEF Crash, LogType, AccountsType
<1> QED
  BY <1>1, <1>2, <1>3, <1>4, <1>5, <1>6, <1>7, <1>8, <1>9, <1>10, <1>11,
     <1>12, <1>13, <1>15, <1>16, <1>17, <1>19, <1>20, <1>21, <1>22
     DEF Serve, Work, Failure
-----------------------------------------------------------------------------
(* The lock, the message in hand and the offsets                           *)

\* The service writes nothing to the topics.
LEMMA ServeLog == Serve => log' = log
BY DEF Serve, Work, Failure, Request, Acquire, Connect, ConnectFails,
       CreateTable, CreateTableLost, Subscribe, Recv, RecvError, Rebalance,
       CommitOffset, CommitOffsetFails, AutoCommit, WriteConsumed, WriteLost,
       BreakPg, ApplyRow, ApplyFatal, ApplyAgain, Crash

\* A step keeps the lock with the one task that is inside handle.
LEMMA LockStep ==
  ASSUME TypeOK, LockInv, Serve
  PROVE  LockInv'
<1> USE DEF TypeOK, LockInv
<1>1. ASSUME NEW h \in Tasks, Request(h) PROVE LockInv'
  BY <1>1 DEF Request
<1>2. ASSUME NEW h \in Tasks, Acquire(h) PROVE LockInv'
  BY <1>2, ConsumerAssumption DEF Acquire
<1>3. ASSUME NEW h \in Tasks,
             Connect(h) \/ CreateTable(h) \/ CreateTableLost(h) \/ Subscribe(h)
      PROVE  LockInv'
  BY <1>3 DEF Connect, CreateTable, CreateTableLost, Subscribe
<1>4. ASSUME NEW h \in Tasks, ConnectFails(h) PROVE LockInv'
  BY <1>4, ConsumerAssumption DEF ConnectFails, Leave
<1>5. ASSUME NEW h \in Tasks,
             Recv(h) \/ Rebalance(h) \/ CommitOffset(h) \/ WriteConsumed(h)
               \/ WriteLost(h) \/ ApplyAgain(h)
      PROVE  LockInv'
  BY <1>5 DEF Recv, Rebalance, CommitOffset, WriteConsumed, WriteLost,
              ApplyAgain, AfterRecv
<1>6. ASSUME NEW h \in Tasks, pc[h] \in Held, NextMessage(h) PROVE LockInv'
  BY <1>6, NextMessageFacts, ConsumerAssumption
<1>7. ASSUME NEW h \in Tasks,
             RecvError(h) \/ CommitOffsetFails(h) \/ ApplyRow(h)
               \/ ApplyFatal(h)
      PROVE  LockInv'
  BY <1>6, <1>7 DEF RecvError, CommitOffsetFails, ApplyRow, ApplyFatal
<1>8. CASE AutoCommit \/ BreakPg
  BY <1>8 DEF AutoCommit, BreakPg
<1>9. CASE Crash
  BY <1>9 DEF Crash
<1> QED
  BY <1>1, <1>2, <1>3, <1>4, <1>5, <1>7, <1>8, <1>9 DEF Serve, Work, Failure

\* A step keeps the message in hand a visible one.
LEMMA HandStep ==
  ASSUME TypeOK, LockInv, HandInv, Serve
  PROVE  HandInv'
<1> USE DEF TypeOK, HandInv
<1>0. log' = log
  BY ServeLog
<1>1. ASSUME NEW h \in Tasks, Request(h) PROVE HandInv'
  BY <1>0, <1>1 DEF Request
<1>2. ASSUME NEW h \in Tasks,
             Acquire(h) \/ Connect(h) \/ CreateTable(h) \/ CreateTableLost(h)
               \/ Subscribe(h)
      PROVE  HandInv'
  BY <1>0, <1>2 DEF Acquire, Connect, CreateTable, CreateTableLost, Subscribe
<1>3. ASSUME NEW h \in Tasks, ConnectFails(h) PROVE HandInv'
  BY <1>0, <1>3 DEF ConnectFails, Leave
<1>4. ASSUME NEW h \in Tasks, Recv(h) PROVE HandInv'
  <2> PICK k \in DOMAIN log[TopicOf(route[h])] :
        IsNext(TopicOf(route[h]), position[route[h]], k) /\ Take(h, k)
    BY <1>4 DEF Recv
  <2>1. log[TopicOf(route[h])][k].status = "committed"
    BY DEF IsNext
  <2> QED BY <1>0, <1>4, <2>1 DEF Recv
<1>5. ASSUME NEW h \in Tasks,
             Rebalance(h) \/ CommitOffset(h) \/ WriteConsumed(h)
               \/ WriteLost(h) \/ ApplyAgain(h)
      PROVE  HandInv'
  BY <1>0, <1>5 DEF Rebalance, CommitOffset, WriteConsumed, WriteLost,
                    ApplyAgain
<1>6. ASSUME NEW h \in Tasks, pc[h] \in Held, NextMessage(h) PROVE HandInv'
  BY <1>0, <1>6, NextMessageFacts
<1>7. ASSUME NEW h \in Tasks,
             RecvError(h) \/ CommitOffsetFails(h) \/ ApplyRow(h)
               \/ ApplyFatal(h)
      PROVE  HandInv'
  BY <1>6, <1>7 DEF RecvError, CommitOffsetFails, ApplyRow, ApplyFatal
<1>8. CASE AutoCommit \/ BreakPg
  BY <1>0, <1>8 DEF AutoCommit, BreakPg
<1>9. CASE Crash
  BY <1>0, <1>9 DEF Crash
<1> QED
  BY <1>1, <1>2, <1>3, <1>4, <1>5, <1>7, <1>8, <1>9 DEF Serve, Work, Failure

\* A step keeps the exactly-once consumer at or after its group's offset.
LEMMA GroupStep ==
  ASSUME TypeOK, LockInv, GroupInv, Serve
  PROVE  GroupInv'
<1> USE DEF TypeOK, LockInv, GroupInv, EO
<1>1. ASSUME NEW h \in Tasks, Request(h) PROVE GroupInv'
  BY <1>1 DEF Request
<1>2. ASSUME NEW h \in Tasks, Acquire(h) PROVE GroupInv'
  BY <1>2, ConsumerAssumption DEF Acquire, StartOffset
<1>3. ASSUME NEW h \in Tasks,
             Connect(h) \/ CreateTable(h) \/ CreateTableLost(h)
      PROVE  GroupInv'
  BY <1>3 DEF Connect, CreateTable, CreateTableLost
<1>4. ASSUME NEW h \in Tasks, ConnectFails(h) PROVE GroupInv'
  BY <1>4 DEF ConnectFails, Leave
<1>5. ASSUME NEW h \in Tasks, Subscribe(h) PROVE GroupInv'
  BY <1>5 DEF Subscribe
<1>6. ASSUME NEW h \in Tasks, Recv(h) PROVE GroupInv'
  <2> PICK k \in DOMAIN log[TopicOf(route[h])] :
        /\ IsNext(TopicOf(route[h]), position[route[h]], k) /\ Take(h, k)
        /\ position' = [position EXCEPT ![route[h]] = k]
    BY <1>6 DEF Recv
  <2>1. k \in Nat /\ k > position[route[h]]
    BY OffsetsFinite DEF TopicOf, IsNext
  <2>2. route[h] \in Routes /\ consumer[route[h]]
    BY <1>6 DEF Recv
  <2>3. /\ pc' = [pc EXCEPT ![h] = AfterRecv(h)]
        /\ hand' = [hand EXCEPT ![h] = k]
        /\ UNCHANGED <<committed, consumer, route>>
        /\ \A g \in Tasks \ {h} : pc[g] \notin Held
    BY <1>6 DEF Recv
  <2>4. CASE route[h] = "exactly_once"
    <3>1. pc'[h] = "commit" /\ committed[EO] < k
      BY <2>1, <2>2, <2>3, <2>4 DEF AfterRecv
    <3>2. position'[EO] = k /\ committed[EO] <= k
      BY <2>1, <2>2, <2>4, <3>1
    <3> QED BY <2>2, <2>3, <2>4, <3>1, <3>2
  <2>5. CASE route[h] # "exactly_once"
    BY <2>2, <2>3, <2>5 DEF AfterRecv
  <2> QED BY <2>4, <2>5
<1>7. ASSUME NEW h \in Tasks, Rebalance(h) PROVE GroupInv'
  BY <1>7 DEF Rebalance
<1>8. ASSUME NEW h \in Tasks, CommitOffset(h) PROVE GroupInv'
  BY <1>8 DEF CommitOffset, CommitHand
<1>9. ASSUME NEW h \in Tasks, WriteConsumed(h) \/ WriteLost(h) \/ ApplyAgain(h)
      PROVE  GroupInv'
  BY <1>9 DEF WriteConsumed, WriteLost, ApplyAgain
<1>10. ASSUME NEW h \in Tasks, pc[h] \in Held, NextMessage(h),
              UNCHANGED <<group, consumer>>
       PROVE  GroupInv'
  BY <1>10, NextMessageFacts
<1>11. ASSUME NEW h \in Tasks, RecvError(h) \/ ApplyRow(h) \/ ApplyFatal(h)
       PROVE  GroupInv'
  BY <1>10, <1>11 DEF RecvError, ApplyRow, ApplyFatal
<1>12. ASSUME NEW h \in Tasks, CommitOffsetFails(h) PROVE GroupInv'
  <2>1. /\ UNCHANGED position /\ UNCHANGED consumer
        /\ committed' = [committed EXCEPT ![route[h]] = hand[h]]
             \/ committed' = committed
        /\ pc[h] = "commit" /\ NextMessage(h)
    BY <1>12 DEF CommitOffsetFails, CommitHand
  <2>2. /\ \A g \in Tasks \ {h} : pc[g] \notin Held /\ pc'[g] = pc[g]
        /\ pc'[h] \in {"idle", "recv"}
        /\ pc'[h] = "recv" => route'[h] = route[h]
    BY <2>1, NextMessageFacts
  <2> QED BY <2>1, <2>2
<1>13. CASE AutoCommit
  BY <1>13 DEF AutoCommit
<1>14. CASE BreakPg
  BY <1>14 DEF BreakPg
<1>15. CASE Crash
  BY <1>15 DEF Crash
<1> QED
  BY <1>1, <1>2, <1>3, <1>4, <1>5, <1>6, <1>7, <1>8, <1>9, <1>11, <1>12,
     <1>13, <1>14, <1>15 DEF Serve, Work, Failure
-----------------------------------------------------------------------------
(* The counts                                                              *)

\* The copies that are passed are finitely many.
LEMMA PassedFinite ==
  ASSUME LogType, NEW i
  PROVE  /\ IsFiniteSet(Passed(i)) /\ Cardinality(Passed(i)) \in Nat
         /\ Passed(i) \subseteq DOMAIN log["bankEO"]
<1>1. IsFiniteSet(DOMAIN log["bankEO"])
  BY OffsetsFinite
<1>2. Passed(i) \subseteq DOMAIN log["bankEO"]
  BY DEF Passed, Committed
<1>3. IsFiniteSet(Passed(i))
  BY <1>1, <1>2, FS_Subset
<1> QED BY <1>2, <1>3, FS_CardinalityType

\* A topic that grows, and a group that goes forward, lose no passed copy, and
\* a row that is not visible in bankAO was not.
LEMMA PassedGrows ==
  ASSUME TypeOK, log' = log \/ LogGrows, NEW i \in Ids,
         committed' \in [Routes -> Nat],
         EO \in Routes => committed[EO] <= committed'[EO]
  PROVE  /\ Passed(i) \subseteq Passed(i)'
         /\ Cardinality(Passed(i)) <= Cardinality(Passed(i)')
         /\ Cardinality(Passed(i)') \in Nat
         /\ Committed("bankAO", i) \subseteq Committed("bankAO", i)'
<1>0. LogType /\ LogType'
  BY DEF TypeOK, LogGrows, LogType
<1>1. \A t \in Topics : \A k \in DOMAIN log[t] :
        /\ k \in DOMAIN log'[t]
        /\ log'[t][k].id = log[t][k].id
        /\ log[t][k].status = "committed" => log'[t][k].status = "committed"
  BY DEF LogGrows
<1>2. \A t \in Topics : Committed(t, i) \subseteq Committed(t, i)'
  BY <1>1 DEF Committed
<1>3. \A k \in DOMAIN log["bankEO"] : k \in Nat
  BY <1>0, OffsetsFinite
<1>4. ASSUME NEW k \in Passed(i) PROVE k \in Passed(i)'
  <2>1. k \in Committed("bankEO", i)' /\ EO \in Routes /\ k <= committed[EO]
    BY <1>2, <1>4 DEF Passed
  <2>2. k \in Nat
    BY <1>3, <1>4 DEF Passed, Committed
  <2>3. k <= committed'[EO]
    BY <2>1, <2>2 DEF TypeOK
  <2> QED BY <2>1, <2>3 DEF Passed
<1>5. Passed(i) \subseteq Passed(i)'
  BY <1>4
<1>6. IsFiniteSet(Passed(i)') /\ Cardinality(Passed(i)') \in Nat
  <2>1. IsFiniteSet(DOMAIN log'["bankEO"])
    <3>1. log'["bankEO"] \in Seq(Entry)
      BY <1>0 DEF LogType
    <3>2. /\ Len(log'["bankEO"]) \in Nat
          /\ DOMAIN log'["bankEO"] = 1 .. Len(log'["bankEO"])
      BY <3>1
    <3> QED BY <3>2, FS_Interval
  <2>2. Passed(i)' \subseteq DOMAIN log'["bankEO"]
    BY DEF Passed, Committed
  <2>3. IsFiniteSet(Passed(i)')
    BY <2>1, <2>2, FS_Subset
  <2> QED BY <2>3, FS_CardinalityType
<1>7. Cardinality(Passed(i)) <= Cardinality(Passed(i)')
  BY <1>5, <1>6, FS_Subset
<1> QED BY <1>2, <1>5, <1>6, <1>7

\* The row in hand stays the same where the offset in hand does.
LEMMA RowStays ==
  ASSUME HandInv, log' = log \/ LogGrows, NEW h \in Tasks, pc[h] \in InHand,
         hand'[h] = hand[h], route'[h] = route[h]
  PROVE  Row(h)' = Row(h)
<1>1. hand[h] \in DOMAIN log[TopicOf(route[h])] /\ TopicOf(route[h]) \in Topics
  BY DEF HandInv, TopicOf
<1>2. Row(h)' = log'[TopicOf(route[h])][hand[h]].id
  BY DEF Row, TopicOf
<1> QED BY <1>1, <1>2 DEF LogGrows, Row

\* CountInv is kept by a step that counts nothing, takes no group back and
\* brings no task to a count.
LEMMA CountKept ==
  ASSUME TypeOK, HandInv, CountInv, log' = log \/ LogGrows,
         committed' \in [Routes -> Nat],
         EO \in Routes => committed[EO] <= committed'[EO],
         consumedCount' = consumedCount,
         \A h \in Tasks : pc'[h] = "write" /\ pg' = "up" =>
           /\ pc[h] = "write" /\ pg = "up"
           /\ hand'[h] = hand[h] /\ route'[h] = route[h]
  PROVE  CountInv'
<1> SUFFICES ASSUME NEW i \in Ids, Committed("bankAO", i)' = {}
             PROVE  /\ consumedCount'[i] <= Cardinality(Passed(i)')
                    /\ \A h \in Tasks :
                         pc'[h] = "write" /\ pg' = "up" /\ Row(h)' = i
                           => consumedCount'[i] + 1 <= Cardinality(Passed(i)')
  BY DEF CountInv
<1>1. /\ Cardinality(Passed(i)) <= Cardinality(Passed(i)')
      /\ Cardinality(Passed(i)') \in Nat
      /\ Committed("bankAO", i) = {}
  BY PassedGrows
<1>2. Cardinality(Passed(i)) \in Nat /\ consumedCount[i] \in Nat
  BY PassedFinite DEF TypeOK
<1>3. consumedCount[i] <= Cardinality(Passed(i))
  BY <1>1 DEF CountInv
<1>4. ASSUME NEW h \in Tasks, pc'[h] = "write", pg' = "up", Row(h)' = i
      PROVE  consumedCount[i] + 1 <= Cardinality(Passed(i))
  <2>1. Row(h) = i
    BY <1>4, RowStays
  <2> QED BY <1>1, <1>4, <2>1 DEF CountInv
<1> QED BY <1>1, <1>2, <1>3, <1>4

\* A step of the service keeps the counts within the passed copies.
LEMMA CountStep ==
  ASSUME TypeOK, TypeOK', LockInv, HandInv, GroupInv, CountInv, Serve
  PROVE  CountInv'
<1>0. /\ log' = log
      /\ committed' \in [Routes -> Nat] /\ committed \in [Routes -> Nat]
      /\ pc \in [Tasks -> Steps] /\ pc' \in [Tasks -> Steps]
  BY ServeLog DEF TypeOK
<1>a. ASSUME committed' = committed, consumedCount' = consumedCount,
             \A h \in Tasks : pc'[h] = "write" /\ pg' = "up" =>
               /\ pc[h] = "write" /\ pg = "up"
               /\ hand'[h] = hand[h] /\ route'[h] = route[h]
      PROVE  CountInv'
  BY <1>0, <1>a, CountKept
<1>1. ASSUME NEW h \in Tasks,
             Request(h) \/ Acquire(h) \/ Connect(h) \/ CreateTable(h)
               \/ CreateTableLost(h) \/ Rebalance(h) \/ ApplyAgain(h)
      PROVE  CountInv'
  <2>1. \A g \in Tasks : pc'[g] = "write" /\ pg' = "up" =>
               /\ pc[g] = "write" /\ pg = "up"
               /\ hand'[g] = hand[g] /\ route'[g] = route[g]
    BY <1>0, <1>1 DEF Request, Acquire, Connect, CreateTable, CreateTableLost,
       Rebalance, ApplyAgain, LockInv, TypeOK
  <2>2. committed' = committed /\ consumedCount' = consumedCount
    BY <1>1 DEF Request, Acquire, Connect, CreateTable, CreateTableLost,
       Rebalance, ApplyAgain
  <2> QED BY <1>a, <2>1, <2>2
<1>2. ASSUME NEW h \in Tasks, ConnectFails(h) PROVE CountInv'
  BY <1>0, <1>a, <1>2 DEF ConnectFails, Leave, TypeOK
<1>3. ASSUME NEW h \in Tasks, Subscribe(h) PROVE CountInv'
  <2>1. /\ \A g \in Tasks : pc'[g] = "write" =>
             pc[g] = "write" /\ hand'[g] = hand[g] /\ route'[g] = route[g]
        /\ pg' = pg /\ consumedCount' = consumedCount
    BY <1>0, <1>3 DEF Subscribe
  <2>2. EO \in Routes => committed'[EO] = committed[EO]
    BY <1>0, <1>3 DEF Subscribe, EO
  <2> QED BY <1>0, <2>1, <2>2, CountKept
<1>4. ASSUME NEW h \in Tasks, Recv(h) PROVE CountInv'
  <2>1. /\ committed' = committed /\ consumedCount' = consumedCount /\ pg' = pg
        /\ \A g \in Tasks \ {h} : pc'[g] = pc[g] /\ hand'[g] = hand[g]
        /\ route' = route
    BY <1>0, <1>4 DEF Recv, TypeOK
  <2>2. CASE pc'[h] # "write"
    BY <1>a, <2>1, <2>2
  <2>3. CASE pc'[h] = "write"
    <3> PICK k \in DOMAIN log["bankAO"] :
          IsNext("bankAO", position[route[h]], k) /\ Take(h, k)
      BY <1>0, <1>4, <2>3 DEF Recv, AfterRecv, TopicOf
    <3>1. hand'[h] = k /\ route[h] # "exactly_once"
      BY <1>0, <1>4, <2>3 DEF Recv, AfterRecv, TypeOK
    <3>2. Row(h)' = log["bankAO"][k].id
      BY <1>0, <2>1, <3>1 DEF Row, TopicOf
    <3>3. k \in Committed("bankAO", log["bankAO"][k].id)
      BY DEF IsNext, Committed
    <3>4. \A i \in Ids : /\ Passed(i)' = Passed(i)
                         /\ Committed("bankAO", i)' = Committed("bankAO", i)
      BY <1>0, <2>1 DEF Passed, Committed
    <3>5. \A g \in Tasks \ {h} : pc[g] # "write"
      BY <1>4 DEF Recv, LockInv
    <3>6. \A g \in Tasks : pc'[g] = "write" => g = h
      BY <2>1, <3>5
    <3>7. ASSUME NEW i \in Ids, Committed("bankAO", i)' = {}
          PROVE  /\ consumedCount'[i] <= Cardinality(Passed(i)')
                 /\ Row(h)' # i
      BY <2>1, <3>2, <3>3, <3>4, <3>7 DEF CountInv
    <3> QED BY <3>6, <3>7 DEF CountInv
  <2> QED BY <2>2, <2>3
<1>5. ASSUME NEW h \in Tasks, CommitOffset(h) PROVE CountInv'
  <2>1. /\ route[h] = EO /\ EO \in Routes /\ committed[EO] < hand[h]
        /\ hand[h] \in Nat
        /\ hand[h] \in DOMAIN log["bankEO"]
        /\ log["bankEO"][hand[h]].status = "committed"
    BY <1>5 DEF CommitOffset, GroupInv, HandInv, TopicOf, EO, TypeOK
  <2>2. /\ committed'[EO] = hand[h] /\ consumedCount' = consumedCount
        /\ pc'[h] = "write" /\ \A g \in Tasks \ {h} : pc'[g] = pc[g]
        /\ hand' = hand /\ route' = route
    BY <1>0, <1>5, <2>1 DEF CommitOffset, CommitHand
  <2>3. \A g \in Tasks \ {h} : pc[g] # "write"
    BY <1>5 DEF CommitOffset, LockInv
  <2> SUFFICES ASSUME NEW i \in Ids, Committed("bankAO", i)' = {}
               PROVE  /\ consumedCount'[i] <= Cardinality(Passed(i)')
                      /\ \A g \in Tasks :
                           pc'[g] = "write" /\ pg' = "up" /\ Row(g)' = i
                             => consumedCount'[i] + 1 <= Cardinality(Passed(i)')
    BY DEF CountInv
  <2>4. EO \in Routes => committed[EO] <= committed'[EO]
    BY <1>0, <2>1, <2>2
  <2>5. /\ Passed(i) \subseteq Passed(i)'
        /\ Cardinality(Passed(i)) <= Cardinality(Passed(i)')
        /\ Cardinality(Passed(i)') \in Nat
        /\ Committed("bankAO", i) = {}
    BY <1>0, <2>4, PassedGrows
  <2>6. /\ Cardinality(Passed(i)) \in Nat /\ consumedCount[i] \in Nat
        /\ consumedCount[i] <= Cardinality(Passed(i))
        /\ IsFiniteSet(Passed(i))
    BY <2>5, PassedFinite DEF TypeOK, CountInv
  <2>7. ASSUME Row(h)' = i
        PROVE  consumedCount[i] + 1 <= Cardinality(Passed(i)')
    <3>1. log["bankEO"][hand[h]].id = i
      BY <1>0, <2>1, <2>2, <2>7 DEF Row, TopicOf, EO
    <3>2. hand[h] \in Passed(i)' /\ hand[h] \notin Passed(i)
      BY <1>0, <2>1, <2>2, <3>1 DEF Passed, Committed
    <3>3. /\ IsFiniteSet(Passed(i) \cup {hand[h]})
          /\ Cardinality(Passed(i) \cup {hand[h]}) = Cardinality(Passed(i)) + 1
      BY <2>6, <3>2, FS_AddElement
    <3>4. IsFiniteSet(Passed(i)')
      <4>1. IsFiniteSet(DOMAIN log["bankEO"])
        BY OffsetsFinite DEF TypeOK
      <4>2. Passed(i)' \subseteq DOMAIN log["bankEO"]
        BY <1>0 DEF Passed, Committed
      <4> QED BY <4>1, <4>2, FS_Subset
    <3>5. Cardinality(Passed(i) \cup {hand[h]}) <= Cardinality(Passed(i)')
      BY <2>5, <3>2, <3>4, FS_Subset
    <3> QED BY <2>5, <2>6, <3>3, <3>5
  <2> QED BY <2>2, <2>3, <2>5, <2>6, <2>7
<1>6. ASSUME NEW h \in Tasks, CommitOffsetFails(h) PROVE CountInv'
  <2>1. /\ pc[h] = "commit" /\ NextMessage(h)
        /\ consumedCount' = consumedCount /\ pg' = pg
        /\ committed' = committed
             \/ committed' = [committed EXCEPT ![route[h]] = hand[h]]
    BY <1>6 DEF CommitOffsetFails, CommitHand
  <2>2. \A g \in Tasks : pc'[g] = "write" =>
          pc[g] = "write" /\ hand'[g] = hand[g] /\ route'[g] = route[g]
    BY <2>1, NextMessageFacts
  <2>3. EO \in Routes => committed[EO] <= committed'[EO]
    BY <1>0, <2>1 DEF GroupInv, TypeOK
  <2> QED BY <1>0, <2>1, <2>2, <2>3, CountKept
<1>7. CASE AutoCommit
  <2>1. /\ UNCHANGED <<consumedCount, pc, pg, hand, route>>
        /\ EO \in Routes => committed'[EO] = committed[EO]
    BY <1>0, <1>7 DEF AutoCommit, EO
  <2> QED BY <1>0, <2>1, CountKept
<1>8. ASSUME NEW h \in Tasks, WriteConsumed(h) \/ WriteLost(h) PROVE CountInv'
  <2>1. /\ pc[h] = "write" /\ pg = "up" /\ committed' = committed
        /\ consumedCount' = [consumedCount EXCEPT ![Row(h)] = @ + 1]
        /\ pg' # "up" \/ pc'[h] = "apply"
        /\ \A g \in Tasks \ {h} : pc'[g] = pc[g] /\ pc[g] # "write"
    BY <1>0, <1>8 DEF WriteConsumed, WriteLost, Count, LockInv
  <2>2. \A g \in Tasks : ~(pc'[g] = "write" /\ pg' = "up")
    BY <2>1
  <2> SUFFICES ASSUME NEW i \in Ids, Committed("bankAO", i)' = {}
               PROVE  consumedCount'[i] <= Cardinality(Passed(i)')
    BY <2>2 DEF CountInv
  <2>3. Passed(i)' = Passed(i) /\ Committed("bankAO", i) = {}
    BY <1>0, <2>1 DEF Passed, Committed
  <2>4. CASE Row(h) = i
    BY <2>1, <2>3, <2>4 DEF CountInv, TypeOK
  <2>5. CASE Row(h) # i
    BY <2>1, <2>3, <2>5 DEF CountInv, TypeOK
  <2> QED BY <2>4, <2>5
<1>9. ASSUME NEW h \in Tasks, RecvError(h) \/ ApplyRow(h) \/ ApplyFatal(h)
      PROVE  CountInv'
  <2>1. /\ pc[h] \in {"recv", "apply"} /\ NextMessage(h)
        /\ UNCHANGED <<consumedCount, committed, pg>>
    BY <1>9 DEF RecvError, ApplyRow, ApplyFatal
  <2>2. \A g \in Tasks : pc'[g] = "write" =>
          pc[g] = "write" /\ hand'[g] = hand[g] /\ route'[g] = route[g]
    BY <2>1, NextMessageFacts
  <2> QED BY <1>a, <2>1, <2>2
<1>10. CASE BreakPg
  BY <1>a, <1>10 DEF BreakPg
<1>11. CASE Crash
  BY <1>a, <1>11 DEF Crash
<1> QED
  BY <1>1, <1>2, <1>3, <1>4, <1>5, <1>6, <1>7, <1>8, <1>9, <1>10, <1>11
     DEF Serve, Work, Failure
-----------------------------------------------------------------------------
(* The accounts                                                            *)

\* A write to DynamoDB adds no account but those of the row it applies.
LEMMA ApplyItems ==
  ASSUME NEW tx \in Transactions, Apply(tx)
  PROVE  items' \subseteq items \cup Ibans(tx)
BY DEF Apply, Fund, Transfer, Unchanged, Ibans

\* AppliedInv is kept by a step that applies nothing and uncounts nothing.
LEMMA AppliedKept ==
  ASSUME TypeOK, HandInv, AppliedInv, log' = log \/ LogGrows,
         consumedCount' \in [Ids -> Nat],
         \A i \in Ids : consumedCount[i] > 0 => consumedCount'[i] > 0,
         items' \subseteq items,
         \A h \in Tasks : pc'[h] = "apply" =>
           pc[h] = "apply" /\ hand'[h] = hand[h] /\ route'[h] = route[h]
  PROVE  AppliedInv'
<1>1. ItemsAreConsumed'
  BY DEF AppliedInv, ItemsAreConsumed
<1>2. ASSUME NEW h \in Tasks, pc'[h] = "apply"
      PROVE  consumedCount'[Row(h)'] > 0
  <2>1. Row(h)' = Row(h) /\ Row(h) \in Ids
    BY <1>2, RowStays, RowType
  <2> QED BY <1>2, <2>1 DEF AppliedInv
<1> QED BY <1>1, <1>2 DEF AppliedInv

\* The same for a step that applies the row in hand.
LEMMA AppliedNow ==
  ASSUME TypeOK, HandInv, AppliedInv, NEW h \in Tasks, pc[h] = "apply",
         Apply(Tx[Row(h)]) \/ Unchanged,
         log' = log, consumedCount' = consumedCount,
         \A g \in Tasks : pc'[g] = "apply" =>
           pc[g] = "apply" /\ hand'[g] = hand[g] /\ route'[g] = route[g]
  PROVE  AppliedInv'
<1>1. Row(h) \in Ids /\ Tx[Row(h)] \in Transactions
  BY RowType
<1>2. consumedCount[Row(h)] > 0
  BY DEF AppliedInv
<1>3. items' \subseteq items \cup Ibans(Tx[Row(h)])
  BY <1>1, ApplyItems DEF Unchanged
<1>4. ItemsAreConsumed'
  BY <1>1, <1>2, <1>3 DEF AppliedInv, ItemsAreConsumed
<1>5. ASSUME NEW g \in Tasks, pc'[g] = "apply"
      PROVE  consumedCount'[Row(g)'] > 0
  <2>1. Row(g)' = Row(g)
    BY <1>5, RowStays
  <2> QED BY <1>5, <2>1 DEF AppliedInv
<1> QED BY <1>4, <1>5 DEF AppliedInv

\* A step of the service applies to the accounts only what is counted.
LEMMA AppliedStep ==
  ASSUME TypeOK, TypeOK', LockInv, HandInv, AppliedInv, Serve
  PROVE  AppliedInv'
<1>0. /\ log' = log
      /\ consumedCount' \in [Ids -> Nat] /\ consumedCount \in [Ids -> Nat]
      /\ pc \in [Tasks -> Steps] /\ pc' \in [Tasks -> Steps]
  BY ServeLog DEF TypeOK
<1>a. ASSUME consumedCount' = consumedCount, items' = items,
             \A h \in Tasks : pc'[h] = "apply" =>
               pc[h] = "apply" /\ hand'[h] = hand[h] /\ route'[h] = route[h]
      PROVE  AppliedInv'
  BY <1>0, <1>a, AppliedKept
<1>1. ASSUME NEW h \in Tasks,
             Request(h) \/ Acquire(h) \/ Connect(h) \/ CreateTable(h)
               \/ CreateTableLost(h) \/ Subscribe(h) \/ Recv(h)
               \/ Rebalance(h) \/ CommitOffset(h)
      PROVE  AppliedInv'
  <2>1. \A g \in Tasks : pc'[g] = "apply" =>
          pc[g] = "apply" /\ hand'[g] = hand[g] /\ route'[g] = route[g]
    BY <1>0, <1>1 DEF Request, Acquire, Connect, CreateTable,
       CreateTableLost, Subscribe, Recv, AfterRecv, Rebalance, CommitOffset,
       TypeOK
  <2>2. consumedCount' = consumedCount /\ items' = items
    BY <1>1 DEF Request, Acquire, Connect, CreateTable, CreateTableLost,
       Subscribe, Recv, Rebalance, CommitOffset
  <2> QED BY <1>a, <2>1, <2>2
<1>2. ASSUME NEW h \in Tasks, ConnectFails(h) PROVE AppliedInv'
  BY <1>0, <1>a, <1>2 DEF ConnectFails, Leave, TypeOK
<1>3. CASE AutoCommit \/ BreakPg
  BY <1>a, <1>3 DEF AutoCommit, BreakPg
<1>4. CASE Crash
  BY <1>a, <1>4 DEF Crash
<1>5. ASSUME NEW h \in Tasks, pc[h] # "idle", NextMessage(h)
      PROVE  \A g \in Tasks : pc'[g] = "apply" =>
               pc[g] = "apply" /\ hand'[g] = hand[g] /\ route'[g] = route[g]
  BY <1>5, NextMessageFacts
<1>6. ASSUME NEW h \in Tasks, RecvError(h) \/ CommitOffsetFails(h)
      PROVE  AppliedInv'
  <2>1. /\ pc[h] # "idle" /\ NextMessage(h)
        /\ consumedCount' = consumedCount /\ items' = items
    BY <1>6 DEF RecvError, CommitOffsetFails
  <2> QED BY <1>a, <1>5, <2>1
<1>7. ASSUME NEW h \in Tasks, ApplyRow(h) \/ ApplyFatal(h) PROVE AppliedInv'
  <2>1. /\ pc[h] = "apply" /\ NextMessage(h) /\ consumedCount' = consumedCount
        /\ Apply(Tx[Row(h)]) \/ Unchanged
    BY <1>7 DEF ApplyRow, ApplyFatal
  <2>2. \A g \in Tasks : pc'[g] = "apply" =>
          pc[g] = "apply" /\ hand'[g] = hand[g] /\ route'[g] = route[g]
    BY <1>5, <2>1
  <2> QED BY <1>0, <2>1, <2>2, AppliedNow
<1>8. ASSUME NEW h \in Tasks, ApplyAgain(h) PROVE AppliedInv'
  BY <1>0, <1>8, AppliedNow DEF ApplyAgain
<1>9. ASSUME NEW h \in Tasks, WriteConsumed(h) \/ WriteLost(h)
      PROVE  AppliedInv'
  <2>1. /\ pc[h] = "write" /\ items' = items
        /\ consumedCount' = [consumedCount EXCEPT ![Row(h)] = @ + 1]
        /\ \A g \in Tasks \ {h} : pc'[g] = pc[g] /\ pc[g] # "apply"
        /\ hand' = hand /\ route' = route
    BY <1>0, <1>9 DEF WriteConsumed, WriteLost, Count, LockInv
  <2>2. Row(h) \in Ids /\ Row(h)' = Row(h)
    BY <1>0, <2>1, RowType, RowStays
  <2>3. \A i \in Ids : consumedCount[i] > 0 => consumedCount'[i] > 0
    BY <1>0, <2>1, <2>2
  <2>4. ItemsAreConsumed'
    BY <2>1, <2>3 DEF AppliedInv, ItemsAreConsumed
  <2>5. consumedCount'[Row(h)'] > 0
    BY <1>0, <2>1, <2>2
  <2> QED BY <2>1, <2>4, <2>5 DEF AppliedInv
<1> QED
  BY <1>1, <1>2, <1>3, <1>4, <1>6, <1>7, <1>8, <1>9 DEF Serve, Work, Failure
-----------------------------------------------------------------------------
(* The invariant                                                           *)

\* What the producer does to the topics keeps all of it.
LEMMA GrowStep ==
  ASSUME IInv, LogGrows,
         UNCHANGED <<tracker, group, accounts, service, task, budget>>
  PROVE  IInv'
<1>1. TypeOK'
  BY DEF IInv, TypeOK, LogGrows, AccountsType
<1>2. LockInv'
  BY DEF IInv, LockInv
<1>3. HandInv'
  <2> SUFFICES ASSUME NEW h \in Tasks, pc[h] \in InHand
               PROVE  /\ hand[h] \in DOMAIN log'[TopicOf(route[h])]
                      /\ log'[TopicOf(route[h])][hand[h]].status = "committed"
    BY DEF HandInv, TopicOf
  <2>1. TopicOf(route[h]) \in Topics
    BY DEF TopicOf
  <2> QED BY <2>1 DEF IInv, HandInv, LogGrows
<1>4. GroupInv'
  BY DEF IInv, GroupInv
<1>5. CountInv'
  <2>1. committed' \in [Routes -> Nat] /\ committed' = committed
    BY DEF IInv, TypeOK
  <2>2. EO \in Routes => committed[EO] <= committed'[EO]
    BY <2>1
  <2> QED BY <2>1, <2>2, CountKept DEF IInv
<1>6. AppliedInv'
  <2>1. consumedCount' \in [Ids -> Nat] /\ consumedCount' = consumedCount
    BY DEF IInv, TypeOK
  <2> QED BY <2>1, AppliedKept DEF IInv
<1> QED BY <1>1, <1>2, <1>3, <1>4, <1>5, <1>6 DEF IInv

\* A step of the service keeps all of it.
LEMMA ServeStep ==
  ASSUME IInv, Serve
  PROVE  IInv'
<1>1. TypeOK'
  BY TypeStep DEF IInv
<1> QED BY <1>1, LockStep, HandStep, GroupStep, CountStep, AppliedStep DEF IInv

\* The state before anything is published or requested.
LEMMA InitIInv == Init => IInv
<1> SUFFICES ASSUME Init PROVE IInv
  OBVIOUS
<1>1. TypeOK
  <2>1. LogType /\ AccountsType
    <3>1. << >> \in Seq(Entry)
      OBVIOUS
    <3> QED BY <3>1 DEF Init, LogType, AccountsInit, AccountsType
  <2>2. 0 \in 0 .. MaxRequest /\ 0 \in 0 .. MaxCrashes /\ 0 \in 0 .. MaxFaults
    BY ConsumerAssumption
  <2>3. \A h \in Tasks : pc[h] = "idle" /\ hand[h] = 0 /\ left[h] = 0
                         /\ route[h] = NoRoute
    BY DEF Init
  <2> QED BY <2>1, <2>2, <2>3 DEF Init, TypeOK
<1>2. LockInv /\ HandInv /\ GroupInv /\ AppliedInv
  BY DEF Init, LockInv, HandInv, GroupInv, AppliedInv, ItemsAreConsumed,
         AccountsInit
<1>3. CountInv
  <2>1. ASSUME NEW i \in Ids PROVE consumedCount[i] <= Cardinality(Passed(i))
    BY <1>1, PassedFinite DEF Init, TypeOK
  <2>2. \A h \in Tasks : pc[h] # "write"
    BY DEF Init
  <2> QED BY <2>1, <2>2 DEF CountInv
<1> QED BY <1>1, <1>2, <1>3 DEF IInv

\* Every step keeps the invariant.
LEMMA IInvStep == IInv /\ [Next]_vars => IInv'
<1> SUFFICES ASSUME IInv, [Next]_vars PROVE IInv'
  OBVIOUS
<1>0. LogType
  BY DEF IInv, TypeOK
<1>1. CASE Serve
  BY <1>1, ServeStep
<1>2. CASE Publish
  <2>1. LogGrows
    BY <1>0, <1>2, WriteGrows DEF Publish
  <2> QED BY <1>2, <2>1, GrowStep DEF Publish
<1>3. CASE Settle
  <2>1. LogGrows
    BY <1>0, <1>3, SettleGrows DEF Settle
  <2> QED BY <1>3, <2>1, GrowStep DEF Settle
<1>4. CASE UNCHANGED vars
  <2>1. LogGrows
    BY <1>0, <1>4 DEF LogGrows, LogType
  <2> QED BY <1>4, <2>1, GrowStep
<1> QED BY <1>1, <1>2, <1>3, <1>4 DEF Next

\* The inductive invariant holds of every reachable state.
THEOREM ConsumerInvariant == Spec => []IInv
BY InitIInv, IInvStep, PTL DEF Spec
-----------------------------------------------------------------------------
(* What follows                                                            *)

\* The types of Consumer, for any tasks, routes, failures and restarts.
THEOREM ConsumerTypeCorrect == Spec => []TypeOK
<1>1. IInv => TypeOK
  BY DEF IInv
<1> QED BY <1>1, ConsumerInvariant, PTL

\* The copies that are passed are among the visible ones.
LEMMA CountedWithinCopies == IInv => CountedOncePerCopy
<1> SUFFICES ASSUME IInv, NEW i \in Ids, Committed("bankAO", i) = {}
             PROVE  consumedCount[i] <= Cardinality(Committed("bankEO", i))
  BY DEF CountedOncePerCopy
<1>1. LogType /\ consumedCount[i] \in Nat
  BY DEF IInv, TypeOK
<1>2. IsFiniteSet(DOMAIN log["bankEO"])
  BY <1>1, OffsetsFinite
<1>3. IsFiniteSet(Committed("bankEO", i))
  BY <1>2, FS_Subset DEF Committed
<1>4. /\ Cardinality(Passed(i)) <= Cardinality(Committed("bankEO", i))
      /\ Cardinality(Committed("bankEO", i)) \in Nat
  BY <1>3, FS_Subset, FS_CardinalityType DEF Passed
<1>5. Cardinality(Passed(i)) \in Nat
  BY <1>1, PassedFinite
<1> QED BY <1>1, <1>4, <1>5 DEF IInv, CountInv

\* README, property 3, the consumer's half: a row that is in bankEO only is
\* not counted more often than it has visible copies there, for any number of
\* restarts, rebalances, failed commits and lost updates.
THEOREM CountedOncePerCopyAlways == Spec => []CountedOncePerCopy
BY CountedWithinCopies, ConsumerInvariant, PTL

\* README, property 7: an account is in DynamoDB only if a row that names it
\* is recorded as consumed, whatever is retried, lost or written twice.
THEOREM ItemsAreConsumedAlways == Spec => []ItemsAreConsumed
<1>1. IInv => ItemsAreConsumed
  BY DEF IInv, AppliedInv
<1> QED BY <1>1, ConsumerInvariant, PTL
-----------------------------------------------------------------------------
(* Money                                                                   *)

\* What a write does to the money: nothing, or it funds one more account.
LEMMA ApplyMoney ==
  ASSUME AccountsType, NoItemNoMoney, NEW tx \in Transactions,
         Apply(tx) \/ Unchanged
  PROVE  /\ AccountsType' /\ NoItemNoMoney'
         /\ SumOf(balance', Accounts) # SumOf(balance, Accounts) =>
              /\ tx.kind = "fund" /\ tx.iban \in Accounts \ items
              /\ items' = items \cup {tx.iban}
              /\ SumOf(balance', Accounts) = SumOf(balance, Accounts) + Funding
<1>1. CASE Unchanged
  BY <1>1 DEF Unchanged, AccountsType, NoItemNoMoney
<1>2. CASE tx.kind = "fund" /\ Apply(tx)
  <2>1. tx.iban \in Accounts /\ Fund(tx)
    BY <1>2 DEF Transactions, Apply
  <2>2. SumOf(balance, Accounts) \in Int
    BY SumType, AccountsAssumption DEF AccountsType
  <2>3. /\ AccountsType' /\ NoItemNoMoney'
        /\ items' = items \cup {tx.iban}
        /\ SumOf(balance', Accounts) =
             SumOf(balance, Accounts)
               + (IF tx.iban \in items THEN 0 ELSE Funding)
    BY <2>1, FundEffect
  <2> QED BY <1>2, <2>1, <2>2, <2>3
<1>3. CASE tx.kind = "transfer" /\ Apply(tx)
  <2>1. /\ tx.from \in Accounts /\ tx.to \in Accounts /\ tx.amount \in Nat
        /\ Transfer(tx)
    BY <1>3 DEF Transactions, Apply
  <2> QED BY <2>1, TransferEffect
<1>4. CASE tx.kind # "fund" /\ tx.kind # "transfer" /\ Apply(tx)
  BY <1>1, <1>4 DEF Apply
<1> QED BY <1>1, <1>2, <1>3, <1>4

\* A step writes the row in hand, or leaves the accounts alone.
LEMMA AccountsChange ==
  ASSUME IInv, [Next]_vars
  PROVE  \/ UNCHANGED <<items, balance>>
         \/ \E h \in Tasks : pc[h] = "apply"
                             /\ (Apply(Tx[Row(h)]) \/ Unchanged)
<1>1. CASE Publish \/ Settle
  BY <1>1 DEF Publish, Settle
<1>2. CASE Serve
  <2>1. ASSUME NEW h \in Tasks,
               ApplyRow(h) \/ ApplyFatal(h) \/ ApplyAgain(h)
        PROVE  pc[h] = "apply" /\ (Apply(Tx[Row(h)]) \/ Unchanged)
    BY <2>1 DEF ApplyRow, ApplyFatal, ApplyAgain
  <2>2. ASSUME NEW h \in Tasks,
               Request(h) \/ Acquire(h) \/ Connect(h) \/ ConnectFails(h)
                 \/ CreateTable(h) \/ CreateTableLost(h) \/ Subscribe(h)
                 \/ Recv(h) \/ RecvError(h) \/ Rebalance(h)
                 \/ CommitOffset(h) \/ CommitOffsetFails(h)
                 \/ WriteConsumed(h) \/ WriteLost(h)
        PROVE  UNCHANGED <<items, balance>>
    BY <2>2 DEF Request, Acquire, Connect, ConnectFails, CreateTable,
       CreateTableLost, Subscribe, Recv, RecvError, Rebalance, CommitOffset,
       CommitOffsetFails, WriteConsumed, WriteLost
  <2>3. ASSUME AutoCommit \/ BreakPg \/ Crash
        PROVE  UNCHANGED <<items, balance>>
    BY <2>3 DEF AutoCommit, BreakPg, Crash
  <2> QED BY <1>2, <2>1, <2>2, <2>3 DEF Serve, Work, Failure
<1>3. CASE UNCHANGED vars
  BY <1>3
<1> QED BY <1>1, <1>2, <1>3 DEF Next

\* Every step but the funding of a new account keeps the sum.
LEMMA MoneyStep ==
  ASSUME IInv, NoItemNoMoney, [Next]_vars
  PROVE  /\ NoItemNoMoney'
         /\ Total' # Total =>
              /\ Total' = Total + Funding
              /\ Cardinality(items') = Cardinality(items) + 1
<1>0. AccountsType /\ AccountsType' /\ IsFiniteSet(items)
  <2>1. AccountsType /\ AccountsType'
    BY IInvStep DEF IInv, TypeOK
  <2> QED BY <2>1, AccountsAssumption, FS_Subset DEF AccountsType
<1>1. CASE UNCHANGED <<items, balance>>
  BY <1>1 DEF NoItemNoMoney, Total
<1>2. CASE \E h \in Tasks : pc[h] = "apply"
                            /\ (Apply(Tx[Row(h)]) \/ Unchanged)
  <2>1. PICK h \in Tasks :
          pc[h] = "apply" /\ (Apply(Tx[Row(h)]) \/ Unchanged)
    BY <1>2
  <2>2. Tx[Row(h)] \in Transactions
    BY <2>1, RowType DEF IInv
  <2> DEFINE tx == Tx[Row(h)]
  <2>3. /\ NoItemNoMoney'
        /\ SumOf(balance', Accounts) # SumOf(balance, Accounts) =>
             /\ tx.iban \in Accounts \ items /\ items' = items \cup {tx.iban}
             /\ SumOf(balance', Accounts) = SumOf(balance, Accounts) + Funding
    BY <1>0, <2>1, <2>2, ApplyMoney
  <2>4. /\ Total = SumOf(balance, Accounts)
        /\ Total' = SumOf(balance', Accounts)
    BY <1>0, <2>3, TotalIsMoney DEF Total, AccountsType, NoItemNoMoney
  <2>5. tx.iban \notin items => Cardinality(items \cup {tx.iban})
                                  = Cardinality(items) + 1
    BY <1>0, FS_AddElement
  <2> HIDE DEF tx
  <2> QED BY <2>3, <2>4, <2>5
<1> QED BY <1>1, <1>2, AccountsChange

\* README, property 6: money comes from the funding of a new account only,
\* also when a write is made twice, reported as failed or made out of turn,
\* for any accounts, amounts, failures and restarts.
THEOREM MoneyOnlyFromFundingAlways == Spec => MoneyOnlyFromFunding
<1>1. Init => NoItemNoMoney
  BY DEF Init, AccountsInit, NoItemNoMoney
<1>2. IInv /\ IInv' /\ NoItemNoMoney /\ [Next]_vars
        => NoItemNoMoney'
           /\ [Total' # Total =>
                 /\ Total' = Total + Funding
                 /\ Cardinality(items') = Cardinality(items) + 1]_vars
  BY MoneyStep
<1> QED BY <1>1, <1>2, ConsumerInvariant, PTL DEF Spec, MoneyOnlyFromFunding
-----------------------------------------------------------------------------
(* Nothing skipped, nothing overtaken                                      *)

\* No restart and no failed commit: with either, both properties are false.
Uninterrupted == MaxCrashes = 0 /\ "commit" \notin Failures

\* The copies in a topic are in the order of their rows.
AscendingInv ==
  \A t \in Topics : \A k \in DOMAIN log[t], m \in DOMAIN log[t] :
    k < m => log[t][k].id <= log[t][m].id

\* A consumer is never before its group's offset, and has passed settled
\* entries only; the message in hand is the last one delivered.
ReadInv ==
  /\ \A r \in Routes :
       /\ committed[r] <= position[r]
       /\ position[r] <= Len(log[TopicOf(r)])
       /\ \A k \in DOMAIN log[TopicOf(r)] :
            k <= position[r] => log[TopicOf(r)][k].status # "open"
  /\ \A h \in Tasks : pc[h] \in InHand => hand[h] = position[route[h]]

\* The visible copies of row i that the consumers have passed.
Seen(i) ==
  {m \in Routes \X Nat :
     m[2] \in Committed(TopicOf(m[1]), i) /\ m[2] <= position[m[1]]}

\* Each of them is counted, but for the one a task is about to count.
SeenInv ==
  \A i \in Ids :
    Cardinality(Seen(i)) <= consumedCount[i] + Cardinality(Uncounted(i))

\* Topic t has a visible copy of row i before which everything is settled, and
\* counted if it is visible.
Served(i, t) ==
  \E k \in DOMAIN log[t] :
    /\ log[t][k].id = i /\ log[t][k].status = "committed"
    /\ \A m \in DOMAIN log[t] : m < k =>
         log[t][m].status = "aborted" \/ consumedCount[log[t][m].id] > 0

\* A consumed row has a visible copy in its turn in the topic of its route.
OrderInv ==
  \A i \in Ids :
    /\ consumedCount[i] > 0 => consumerType[i] # NoRoute
    /\ consumerType[i] # NoRoute => Served(i, TopicOf(consumerType[i]))

\* What the producer does leaves settled entries as they are, and new ones
\* come after what is there.
LogExtends ==
  \A t \in Topics :
    /\ Len(log[t]) <= Len(log'[t])
    /\ \A k \in DOMAIN log[t] :
         /\ k \in DOMAIN log'[t]
         /\ log'[t][k].id = log[t][k].id
         /\ log[t][k].status # "open" => log'[t][k].status = log[t][k].status
    /\ \A k \in DOMAIN log'[t] : k <= Len(log[t]) => k \in DOMAIN log[t]

\* The offsets of a topic are those up to its length.
LEMMA TopicFacts ==
  ASSUME LogType, NEW t \in Topics
  PROVE  /\ Len(log[t]) \in Nat /\ DOMAIN log[t] = 1 .. Len(log[t])
         /\ \A k \in DOMAIN log[t] : log[t][k] \in Entry
<1>1. log[t] \in Seq(Entry)
  BY DEF LogType
<1> QED BY <1>1

\* A write extends the topic, in the order of the rows.
LEMMA WriteExtends ==
  ASSUME LogType, AscendingInv, NEW t \in Topics, NEW i \in Ids, Write(t, i)
  PROVE  LogExtends /\ AscendingInv'
<1> PICK s \in {"open", "committed"} : log' = Appended(t, i, s)
  BY DEF Write
<1>1. /\ \A u \in Topics \ {t} : log'[u] = log[u]
      /\ Len(log[t]) \in Nat
      /\ DOMAIN log[t] = 1 .. Len(log[t])
      /\ DOMAIN log'[t] = 1 .. Len(log[t]) + 1
      /\ \A k \in DOMAIN log[t] : log'[t][k] = log[t][k]
      /\ log'[t][Len(log[t]) + 1] = [id |-> i, status |-> s]
      /\ LogType'
  BY AppendedFacts
<1>2. \A u \in Topics : /\ Len(log[u]) \in Nat /\ Len(log'[u]) \in Nat
                        /\ DOMAIN log[u] = 1 .. Len(log[u])
                        /\ DOMAIN log'[u] = 1 .. Len(log'[u])
  BY <1>1, TopicFacts DEF LogType
<1>3. Len(log[t]) <= Len(log'[t])
  BY <1>1, <1>2
<1>4. LogExtends
  <2> SUFFICES ASSUME NEW u \in Topics
               PROVE  /\ Len(log[u]) <= Len(log'[u])
                      /\ \A k \in DOMAIN log[u] :
                           k \in DOMAIN log'[u] /\ log'[u][k] = log[u][k]
                      /\ \A k \in DOMAIN log'[u] :
                           k <= Len(log[u]) => k \in DOMAIN log[u]
    BY DEF LogExtends
  <2> QED BY <1>1, <1>2, <1>3
<1>5. \A k \in DOMAIN log[t] : log[t][k].id <= i
  BY DEF Write
<1>6. AscendingInv'
  <2> SUFFICES ASSUME NEW u \in Topics, NEW k \in DOMAIN log'[u],
                      NEW m \in DOMAIN log'[u], k < m
               PROVE  log'[u][k].id <= log'[u][m].id
    BY DEF AscendingInv
  <2>1. CASE u # t
    BY <1>1, <2>1 DEF AscendingInv
  <2>2. CASE u = t /\ m \in DOMAIN log[t]
    BY <1>1, <2>2 DEF AscendingInv
  <2>3. CASE u = t /\ m \notin DOMAIN log[t]
    <3>1. m = Len(log[t]) + 1 /\ k \in DOMAIN log[t]
      BY <1>1, <2>3
    <3>2. log'[t][m].id = i
      BY <1>1, <3>1
    <3> QED BY <1>1, <1>5, <2>3, <3>1, <3>2
  <2> QED BY <2>1, <2>2, <2>3
<1> QED BY <1>4, <1>6

\* So does the outcome of the open transaction.
LEMMA SettleExtends ==
  ASSUME LogType, AscendingInv, SettleOpen
  PROVE  LogExtends /\ AscendingInv'
<1> PICK o \in {"committed", "aborted"} : log' = Settled(o)
  BY DEF SettleOpen
<1>1. /\ LogType'
      /\ \A t \in Topics : DOMAIN log'[t] = DOMAIN log[t]
      /\ \A t \in Topics : \A k \in DOMAIN log[t] :
           /\ log'[t][k].id = log[t][k].id
           /\ log'[t][k].status =
                IF log[t][k].status = "open" THEN o ELSE log[t][k].status
  BY SettledFacts
<1>2. \A t \in Topics : Len(log'[t]) = Len(log[t]) /\ Len(log[t]) \in Nat
  <2> TAKE t \in Topics
  <2>1. /\ Len(log[t]) \in Nat /\ DOMAIN log[t] = 1 .. Len(log[t])
        /\ Len(log'[t]) \in Nat /\ DOMAIN log'[t] = 1 .. Len(log'[t])
    BY <1>1, TopicFacts DEF LogType
  <2> QED BY <1>1, <2>1
<1>3. AscendingInv'
  BY <1>1 DEF AscendingInv
<1>4. LogExtends
  BY <1>1, <1>2 DEF LogExtends
<1> QED BY <1>3, <1>4

\* And so does a step that leaves the topics as they are.
LEMMA NothingExtends ==
  ASSUME LogType, AscendingInv, log' = log
  PROVE  LogExtends /\ AscendingInv'
BY TopicFacts DEF LogExtends, AscendingInv

\* ReadInv is kept where no consumer goes forward.
LEMMA ReadKept ==
  ASSUME TypeOK, ReadInv, log' = log,
         position' \in [Routes -> Nat], committed' \in [Routes -> Nat],
         \A r \in Routes : committed'[r] <= position'[r]
                             /\ position'[r] <= position[r],
         \A h \in Tasks : pc'[h] \in InHand =>
           hand'[h] = position'[route'[h]]
  PROVE  ReadInv'
<1> SUFFICES ASSUME NEW r \in Routes
             PROVE  /\ position'[r] <= Len(log[TopicOf(r)])
                    /\ \A k \in DOMAIN log[TopicOf(r)] :
                         k <= position'[r] =>
                           log[TopicOf(r)][k].status # "open"
  BY DEF ReadInv
<1>1. TopicOf(r) \in Topics
  BY DEF TopicOf
<1>2. /\ Len(log[TopicOf(r)]) \in Nat
      /\ \A k \in DOMAIN log[TopicOf(r)] : k \in Nat
  BY <1>1, TopicFacts DEF TypeOK
<1>3. position[r] \in Nat /\ position'[r] \in Nat
  BY DEF TypeOK
<1> QED BY <1>2, <1>3 DEF ReadInv

\* A step of the service keeps ReadInv.
LEMMA ReadStep ==
  ASSUME Uninterrupted, IInv, ReadInv, Serve
  PROVE  ReadInv'
<1>0. log' = log /\ TypeOK /\ LockInv /\ TypeOK'
  BY ServeLog, ServeStep DEF IInv
<1>1. /\ position' \in [Routes -> Nat] /\ committed' \in [Routes -> Nat]
      /\ position \in [Routes -> Nat] /\ committed \in [Routes -> Nat]
      /\ \A r \in Routes : committed[r] <= position[r]
      /\ \A h \in Tasks : pc[h] \in InHand => hand[h] = position[route[h]]
      /\ pc \in [Tasks -> Steps] /\ hand \in [Tasks -> Nat]
      /\ \A h \in Tasks : pc[h] # "idle" => route[h] \in Routes
  BY <1>0 DEF TypeOK, ReadInv
<1>a. ASSUME UNCHANGED group,
             \A h \in Tasks : pc'[h] \in InHand =>
               pc[h] \in InHand /\ hand'[h] = hand[h] /\ route'[h] = route[h]
      PROVE  ReadInv'
  BY <1>0, <1>1, <1>a, ReadKept
<1>b. ASSUME NEW h \in Tasks, pc[h] \in Held, NextMessage(h), UNCHANGED group
      PROVE  ReadInv'
  <2>1. \A g \in Tasks : pc'[g] \in InHand =>
          pc[g] \in InHand /\ hand'[g] = hand[g] /\ route'[g] = route[g]
    BY <1>0, <1>b, NextMessageFacts
  <2> QED BY <1>a, <1>b, <2>1
<1>c. \A h \in Tasks, g \in Tasks :
        pc[h] \in Held /\ pc[g] \in Held => g = h
  BY <1>0 DEF LockInv
<1>2. ASSUME NEW h \in Tasks,
             Request(h) \/ Connect(h) \/ CreateTable(h) \/ CreateTableLost(h)
               \/ WriteConsumed(h) \/ WriteLost(h) \/ ApplyAgain(h)
      PROVE  ReadInv'
  <2>1. UNCHANGED group
    BY <1>2 DEF Request, Connect, CreateTable, CreateTableLost,
       WriteConsumed, WriteLost, ApplyAgain
  <2>2. \A g \in Tasks : pc'[g] \in InHand =>
          pc[g] \in InHand /\ hand'[g] = hand[g] /\ route'[g] = route[g]
    BY <1>0, <1>2 DEF Request, Connect, CreateTable, CreateTableLost,
       WriteConsumed, WriteLost, ApplyAgain, TypeOK
  <2> QED BY <1>a, <2>1, <2>2
<1>3. ASSUME NEW h \in Tasks, Acquire(h) PROVE ReadInv'
  <2>1. /\ UNCHANGED <<committed, hand, route>>
        /\ \A r \in Routes : position'[r] \in {position[r], committed[r]}
        /\ \A g \in Tasks : pc[g] \notin Held /\ pc'[g] \notin InHand
    BY <1>0, <1>1, <1>3, ConsumerAssumption
       DEF Acquire, StartOffset, LockInv
  <2>2. \A r \in Routes : committed'[r] <= position'[r]
                            /\ position'[r] <= position[r]
    BY <1>1, <2>1
  <2> QED BY <1>0, <1>1, <2>1, <2>2, ReadKept
<1>4. ASSUME NEW h \in Tasks, Subscribe(h) \/ Rebalance(h) PROVE ReadInv'
  <2>1. /\ UNCHANGED <<hand, route>>
        /\ \A g \in Tasks : pc'[g] \notin InHand
    BY <1>1, <1>c, <1>4 DEF Subscribe, Rebalance
  <2>2. \A r \in Routes :
          \/ position'[r] = position[r] /\ committed'[r] = committed[r]
          \/ position'[r] = position[r] /\ committed'[r] = position[r]
          \/ position'[r] = committed[r] /\ committed'[r] = committed[r]
    BY <1>1, <1>4 DEF Subscribe, Rebalance
  <2>3. \A r \in Routes : committed'[r] <= position'[r]
                            /\ position'[r] <= position[r]
    BY <1>1, <2>2
  <2> QED BY <1>0, <1>1, <2>1, <2>3, ReadKept
<1>5. ASSUME NEW h \in Tasks, Recv(h) PROVE ReadInv'
  <2> DEFINE q == route[h]
  <2> DEFINE t == TopicOf(q)
  <2>1. PICK k \in DOMAIN log[t] :
          /\ IsNext(t, position[q], k)
          /\ position' = [position EXCEPT ![q] = k]
          /\ hand' = [hand EXCEPT ![h] = k]
    BY <1>5 DEF Recv
  <2>2. /\ q \in Routes /\ UNCHANGED <<committed, route>>
        /\ pc' = [pc EXCEPT ![h] = AfterRecv(h)]
        /\ \A g \in Tasks \ {h} : pc'[g] \notin InHand
    BY <1>1, <1>c, <1>5 DEF Recv
  <2>3. t \in Topics
    BY DEF TopicOf
  <2> HIDE DEF t
  <2>4. /\ Len(log[t]) \in Nat /\ DOMAIN log[t] = 1 .. Len(log[t])
        /\ k > position[q] /\ log[t][k].status = "committed"
        /\ \A j \in DOMAIN log[t] : position[q] < j /\ j < k =>
             log[t][j].status = "aborted"
    BY <1>0, <2>1, <2>3, TopicFacts DEF TypeOK, IsNext
  <2>5. \A j \in DOMAIN log[t] : j <= k => log[t][j].status # "open"
    <3> SUFFICES ASSUME NEW j \in DOMAIN log[t], j <= k
                 PROVE  log[t][j].status # "open"
      OBVIOUS
    <3>1. j \in Nat /\ k \in Nat /\ position[q] \in Nat
      BY <1>1, <2>2, <2>4
    <3>2. CASE j <= position[q]
      BY <2>2, <3>2 DEF ReadInv, t
    <3>3. CASE position[q] < j /\ j < k
      BY <2>4, <3>3
    <3>4. CASE j = k
      BY <2>4, <3>4
    <3> QED BY <3>1, <3>2, <3>3, <3>4
  <2>6. ASSUME NEW r \in Routes
        PROVE  /\ committed'[r] <= position'[r]
               /\ position'[r] <= Len(log'[TopicOf(r)])
               /\ \A j \in DOMAIN log'[TopicOf(r)] :
                    j <= position'[r] => log'[TopicOf(r)][j].status # "open"
    <3>1. CASE r = q
      <4>1. /\ position'[r] = k /\ committed'[r] = committed[r]
            /\ committed[r] <= position[r]
            /\ committed[r] \in Nat /\ position[r] \in Nat /\ k \in Nat
        BY <1>1, <2>1, <2>2, <2>4, <3>1
      <4>2. k <= Len(log[t])
        BY <2>4
      <4>3. committed[r] <= k
        BY <2>4, <3>1, <4>1
      <4> QED BY <1>0, <2>5, <3>1, <4>1, <4>2, <4>3 DEF t
    <3>2. CASE r # q
      <4>1. position'[r] = position[r] /\ committed'[r] = committed[r]
        BY <1>1, <2>1, <2>2, <3>2
      <4> QED BY <1>0, <4>1 DEF ReadInv
    <3> QED BY <3>1, <3>2
  <2>7. \A g \in Tasks : pc'[g] \in InHand => hand'[g] = position'[route'[g]]
    BY <1>1, <2>1, <2>2
  <2> QED BY <2>6, <2>7 DEF ReadInv
<1>6. ASSUME NEW h \in Tasks, CommitOffset(h) PROVE ReadInv'
  <2>1. /\ hand[h] = position[route[h]] /\ route[h] \in Routes
        /\ committed' = [committed EXCEPT ![route[h]] = hand[h]]
        /\ UNCHANGED <<position, hand, route>>
        /\ pc' = [pc EXCEPT ![h] = "write"]
    BY <1>1, <1>6 DEF CommitOffset, CommitHand
  <2>2. \A g \in Tasks : pc'[g] \in InHand => pc[g] \in InHand
    BY <1>1, <1>6, <2>1 DEF CommitOffset
  <2>3. \A r \in Routes : committed'[r] <= position'[r]
                            /\ position'[r] <= position[r]
    BY <1>1, <2>1
  <2> QED BY <1>0, <1>1, <2>1, <2>2, <2>3, ReadKept
<1>7. CASE AutoCommit
  <2>1. /\ UNCHANGED <<position, hand, route, pc>>
        /\ \A r \in Routes : committed'[r] \in {committed[r], position[r]}
    BY <1>1, <1>7 DEF AutoCommit
  <2>2. \A r \in Routes : committed'[r] <= position'[r]
                            /\ position'[r] <= position[r]
    BY <1>1, <2>1
  <2> QED BY <1>0, <1>1, <2>1, <2>2, ReadKept
<1>8. ASSUME NEW h \in Tasks, RecvError(h) \/ ApplyRow(h) \/ ApplyFatal(h)
      PROVE  ReadInv'
  BY <1>b, <1>8 DEF RecvError, ApplyRow, ApplyFatal
<1>9. ASSUME NEW h \in Tasks, ConnectFails(h) PROVE ReadInv'
  <2>1. UNCHANGED group /\ pc' = [pc EXCEPT ![h] = "idle"]
    BY <1>9 DEF ConnectFails, Leave
  <2>2. \A g \in Tasks : pc'[g] \in InHand =>
          pc[g] \in InHand /\ hand'[g] = hand[g] /\ route'[g] = route[g]
    BY <1>0, <1>9 DEF ConnectFails, Leave, TypeOK
  <2> QED BY <1>a, <2>1, <2>2
<1>10. CASE BreakPg
  BY <1>a, <1>10 DEF BreakPg
<1>11. ASSUME NEW h \in Tasks, CommitOffsetFails(h) PROVE FALSE
  BY <1>11 DEF CommitOffsetFails, Fault, Uninterrupted
<1>12. ASSUME Crash PROVE FALSE
  BY <1>0, <1>12 DEF Crash, Uninterrupted, TypeOK
<1> QED
  BY <1>2, <1>3, <1>4, <1>5, <1>6, <1>7, <1>8, <1>9, <1>10, <1>11, <1>12
     DEF Serve, Work, Failure

\* The copies that are passed, and the tasks about to count, are finitely many.
LEMMA SeenFinite ==
  ASSUME TypeOK, NEW i
  PROVE  IsFiniteSet(Seen(i)) /\ Cardinality(Seen(i)) \in Nat
<1> DEFINE K == DOMAIN log["bankEO"] \cup DOMAIN log["bankAO"]
<1>1. IsFiniteSet(K)
  BY OffsetsFinite, FS_Union DEF TypeOK
<1>2. IsFiniteSet({"exactly_once", "atleast_once"})
  <2>1. {"exactly_once", "atleast_once"} =
          {"exactly_once"} \cup {"atleast_once"}
    OBVIOUS
  <2>2. IsFiniteSet({"exactly_once"}) /\ IsFiniteSet({"atleast_once"})
    BY FS_Singleton
  <2> QED BY <2>1, <2>2, FS_Union
<1>3. IsFiniteSet(Routes)
  BY <1>2, FS_Subset, ConsumerAssumption DEF ConsumerRoutes
<1>4. IsFiniteSet(Routes \X K)
  BY <1>1, <1>3, FS_Product
<1>5. Seen(i) \subseteq Routes \X K
  BY DEF Seen, Committed, TopicOf
<1>6. IsFiniteSet(Seen(i))
  BY <1>4, <1>5, FS_Subset
<1> QED BY <1>6, FS_CardinalityType

\* Only the holder of the lock is about to count.
LEMMA UncountedFinite ==
  ASSUME LockInv, NEW i
  PROVE  /\ IsFiniteSet(Uncounted(i)) /\ Cardinality(Uncounted(i)) \in Nat
         /\ Uncounted(i) \subseteq {lock}
<1>1. Uncounted(i) \subseteq {lock}
  BY DEF Uncounted, LockInv
<1>2. IsFiniteSet({lock})
  BY FS_Singleton
<1>3. IsFiniteSet(Uncounted(i))
  BY <1>1, <1>2, FS_Subset
<1> QED BY <1>1, <1>3, FS_CardinalityType

\* SeenInv is kept where nothing more is passed and no task stops counting.
LEMMA SeenKept ==
  ASSUME TypeOK, LockInv, LockInv', SeenInv, consumedCount' = consumedCount,
         \A i \in Ids : Seen(i)' \subseteq Seen(i),
         \A i \in Ids : Uncounted(i) \subseteq Uncounted(i)'
  PROVE  SeenInv'
<1> SUFFICES ASSUME NEW i \in Ids
             PROVE  Cardinality(Seen(i)')
                      <= consumedCount[i] + Cardinality(Uncounted(i)')
  BY DEF SeenInv
<1>1. /\ Cardinality(Seen(i)') <= Cardinality(Seen(i))
      /\ Cardinality(Seen(i)') \in Nat /\ Cardinality(Seen(i)) \in Nat
  BY SeenFinite, FS_Subset, FS_CardinalityType
<1>2. LockInv' => IsFiniteSet(Uncounted(i)')
  <2>1. LockInv' => Uncounted(i)' \subseteq {lock'}
    BY DEF Uncounted, LockInv
  <2>2. IsFiniteSet({lock'})
    BY FS_Singleton
  <2> QED BY <2>1, <2>2, FS_Subset
<1>3. /\ Cardinality(Uncounted(i)) <= Cardinality(Uncounted(i)')
      /\ Cardinality(Uncounted(i)') \in Nat /\ Cardinality(Uncounted(i)) \in Nat
  BY <1>2, UncountedFinite, FS_Subset, FS_CardinalityType
<1>4. consumedCount[i] \in Nat
  BY DEF TypeOK
<1> QED BY <1>1, <1>3, <1>4 DEF SeenInv

\* The same for a step of the service after which no consumer is further.
LEMMA SeenKeptByServe ==
  ASSUME TypeOK, TypeOK', LockInv, LockInv', SeenInv, log' = log,
         consumedCount' = consumedCount,
         \A r \in Routes : position'[r] <= position[r],
         \A h \in Tasks : pc[h] \in {"commit", "write"} =>
           /\ pc'[h] \in {"commit", "write"}
           /\ hand'[h] = hand[h] /\ route'[h] = route[h]
  PROVE  SeenInv'
<1>1. ASSUME NEW i \in Ids PROVE Seen(i)' \subseteq Seen(i)
  <2>1. \A r \in Routes : position[r] \in Nat /\ position'[r] \in Nat
    BY DEF TypeOK
  <2>2. \A t : Committed(t, i)' = Committed(t, i)
    BY DEF Committed
  <2> QED BY <2>1, <2>2 DEF Seen
<1>2. ASSUME NEW i \in Ids PROVE Uncounted(i) \subseteq Uncounted(i)'
  BY DEF Uncounted, Row
<1> QED BY <1>1, <1>2, SeenKept

\* A step of the service keeps SeenInv.
LEMMA SeenStep ==
  ASSUME Uninterrupted, IInv, ReadInv, SeenInv, Serve
  PROVE  SeenInv'
<1>0. log' = log /\ TypeOK /\ LockInv /\ TypeOK' /\ LockInv' /\ HandInv
  BY ServeLog, ServeStep DEF IInv
<1>1. /\ position' \in [Routes -> Nat] /\ position \in [Routes -> Nat]
      /\ \A r \in Routes : committed[r] <= position[r]
      /\ committed \in [Routes -> Nat]
      /\ consumedCount \in [Ids -> Nat]
      /\ pc \in [Tasks -> Steps] /\ hand \in [Tasks -> Nat]
      /\ route \in [Tasks -> Routes \cup {NoRoute}]
      /\ \A h \in Tasks : pc[h] # "idle" => route[h] \in Routes
  BY <1>0 DEF TypeOK, ReadInv
<1>c. \A h \in Tasks, g \in Tasks :
        pc[h] \in Held /\ pc[g] \in Held => g = h
  BY <1>0 DEF LockInv
<1>a. ASSUME consumedCount' = consumedCount,
             \A r \in Routes : position'[r] <= position[r],
             \A h \in Tasks : pc[h] \in {"commit", "write"} =>
               /\ pc'[h] \in {"commit", "write"}
               /\ hand'[h] = hand[h] /\ route'[h] = route[h]
      PROVE  SeenInv'
  BY <1>0, <1>a, SeenKeptByServe
<1>b. \A r \in Routes : position[r] <= position[r]
  BY <1>1
<1>2. ASSUME NEW h \in Tasks,
             Request(h) \/ Connect(h) \/ CreateTable(h) \/ CreateTableLost(h)
               \/ CommitOffset(h) \/ ApplyAgain(h) \/ ConnectFails(h)
      PROVE  SeenInv'
  <2>1. position' = position /\ consumedCount' = consumedCount
    BY <1>2 DEF Request, Connect, CreateTable, CreateTableLost,
       CommitOffset, ApplyAgain, ConnectFails
  <2>2. \A g \in Tasks : pc[g] \in {"commit", "write"} =>
          /\ pc'[g] \in {"commit", "write"}
          /\ hand'[g] = hand[g] /\ route'[g] = route[g]
    BY <1>1, <1>2 DEF Request, Connect, CreateTable, CreateTableLost,
       CommitOffset, ApplyAgain, ConnectFails, Leave
  <2> QED BY <1>a, <1>b, <2>1, <2>2
<1>3. ASSUME NEW h \in Tasks, Acquire(h) \/ Subscribe(h) \/ Rebalance(h)
      PROVE  SeenInv'
  <2>1. /\ UNCHANGED <<hand, route, consumedCount>>
        /\ \A r \in Routes : position'[r] \in {position[r], committed[r]}
        /\ \A g \in Tasks : pc[g] \notin {"commit", "write"}
    BY <1>0, <1>1, <1>c, <1>3, ConsumerAssumption
       DEF Acquire, StartOffset, Subscribe, Rebalance, LockInv
  <2>2. \A r \in Routes : position'[r] <= position[r]
    BY <1>1, <2>1
  <2> QED BY <1>a, <2>1, <2>2
<1>4. ASSUME NEW h \in Tasks, Recv(h) PROVE SeenInv'
  <2> DEFINE q == route[h]
  <2> DEFINE t == TopicOf(q)
  <2>1. PICK k \in DOMAIN log[t] :
          /\ IsNext(t, position[q], k)
          /\ position' = [position EXCEPT ![q] = k]
          /\ hand' = [hand EXCEPT ![h] = k]
    BY <1>4 DEF Recv
  <2>2. /\ q \in Routes /\ UNCHANGED <<consumedCount, route>>
        /\ pc' = [pc EXCEPT ![h] = AfterRecv(h)]
        /\ pc[h] = "recv"
        /\ \A g \in Tasks \ {h} : pc[g] \notin Held
    BY <1>1, <1>c, <1>4 DEF Recv
  <2>3. t \in Topics
    BY DEF TopicOf
  <2> HIDE DEF t
  <2>4. /\ DOMAIN log[t] = 1 .. Len(log[t]) /\ Len(log[t]) \in Nat
        /\ \A j \in DOMAIN log[t] : position[q] < j /\ j < k =>
             log[t][j].status = "aborted"
    BY <1>0, <2>1, <2>3, TopicFacts DEF TypeOK, IsNext
  <2> SUFFICES ASSUME NEW i \in Ids
               PROVE  Cardinality(Seen(i)')
                        <= consumedCount[i] + Cardinality(Uncounted(i)')
    BY <2>2 DEF SeenInv
  <2>5. Uncounted(i) = {}
    BY <2>2 DEF Uncounted
  <2>6. /\ Cardinality(Seen(i)) <= consumedCount[i]
        /\ Cardinality(Seen(i)) \in Nat /\ IsFiniteSet(Seen(i))
        /\ consumedCount[i] \in Nat
    <3>1. Cardinality(Uncounted(i)) = 0
      BY <2>5, FS_EmptySet
    <3>2. /\ Cardinality(Seen(i)) \in Nat /\ IsFiniteSet(Seen(i))
          /\ consumedCount[i] \in Nat
      BY <1>0, <1>1, SeenFinite
    <3> QED BY <3>1, <3>2 DEF SeenInv
  <2>7. Seen(i)' \subseteq Seen(i) \cup {<<q, k>>}
    <3> SUFFICES ASSUME NEW r \in Routes, NEW m \in Nat,
                        m \in Committed(TopicOf(r), i), m <= position'[r],
                        <<r, m>> # <<q, k>>
                 PROVE  m <= position[r]
      BY <1>0 DEF Seen, Committed
    <3>1. CASE r # q
      BY <1>1, <2>1, <3>1
    <3>2. CASE r = q
      <4>1. m \in DOMAIN log[t] /\ log[t][m].status = "committed" /\ m < k
        BY <1>1, <2>1, <2>2, <2>4, <3>2 DEF Committed, t
      <4>2. log[t][m].status # "aborted"
        BY <4>1
      <4>3. ~(position[q] < m)
        BY <2>4, <4>1, <4>2
      <4>4. position[q] \in Nat
        BY <1>1, <2>2
      <4> HIDE DEF q
      <4> QED BY <3>2, <4>3, <4>4
    <3> QED BY <3>1, <3>2
  <2>8. CASE log[t][k].id = i
    <3>1. /\ IsFiniteSet(Seen(i) \cup {<<q, k>>})
          /\ Cardinality(Seen(i) \cup {<<q, k>>}) <= Cardinality(Seen(i)) + 1
          /\ Cardinality(Seen(i) \cup {<<q, k>>}) \in Nat
      <4> DEFINE p == <<q, k>>
      <4> HIDE DEF p
      <4>1. /\ IsFiniteSet(Seen(i) \cup {p})
            /\ Cardinality(Seen(i) \cup {p}) =
                 IF p \in Seen(i) THEN Cardinality(Seen(i))
                                  ELSE Cardinality(Seen(i)) + 1
        BY <2>6, FS_AddElement
      <4>2. /\ Cardinality(Seen(i) \cup {p}) <= Cardinality(Seen(i)) + 1
            /\ Cardinality(Seen(i) \cup {p}) \in Nat
        BY <2>6, <4>1
      <4> QED BY <4>1, <4>2 DEF p
    <3>2. /\ Cardinality(Seen(i)') <= Cardinality(Seen(i) \cup {<<q, k>>})
          /\ Cardinality(Seen(i)') \in Nat
      BY <2>7, <3>1, FS_Subset, FS_CardinalityType
    <3>3. h \in Uncounted(i)'
      BY <1>0, <1>1, <2>1, <2>2, <2>8
         DEF Uncounted, Row, AfterRecv, t
    <3>4. Uncounted(i)' = {h}
      BY <1>1, <2>2, <3>3 DEF Uncounted
    <3>5. Cardinality(Uncounted(i)') = 1
      BY <3>4, FS_Singleton
    <3> QED BY <2>6, <3>1, <3>2, <3>5
  <2>9. CASE log[t][k].id # i
    <3>1. <<q, k>> \notin Seen(i)'
      BY <1>0, <2>9 DEF Seen, Committed, t
    <3>2. /\ Cardinality(Seen(i)') <= Cardinality(Seen(i))
          /\ Cardinality(Seen(i)') \in Nat
      BY <2>6, <2>7, <3>1, FS_Subset, FS_CardinalityType
    <3>3. Uncounted(i)' = {}
      BY <1>0, <1>1, <2>1, <2>2, <2>9 DEF Uncounted, Row, t
    <3>4. Cardinality(Uncounted(i)') = 0
      BY <3>3, FS_EmptySet
    <3> QED BY <2>6, <3>2, <3>4
  <2> QED BY <2>8, <2>9
<1>5. ASSUME NEW h \in Tasks, WriteConsumed(h) \/ WriteLost(h)
      PROVE  SeenInv'
  <2>1. /\ pc[h] = "write" /\ UNCHANGED <<position, hand, route>>
        /\ consumedCount' = [consumedCount EXCEPT ![Row(h)] = @ + 1]
        /\ \A g \in Tasks \ {h} : pc'[g] = pc[g] /\ pc[g] \notin Held
    BY <1>1, <1>c, <1>5 DEF WriteConsumed, WriteLost, Count
  <2> SUFFICES ASSUME NEW i \in Ids
               PROVE  Cardinality(Seen(i)')
                        <= consumedCount'[i] + Cardinality(Uncounted(i)')
    BY DEF SeenInv
  <2>2. Seen(i)' = Seen(i)
    BY <1>0, <2>1 DEF Seen, Committed
  <2>3. /\ Cardinality(Seen(i))
             <= consumedCount[i] + Cardinality(Uncounted(i))
        /\ Cardinality(Seen(i)) \in Nat /\ consumedCount[i] \in Nat
    BY <1>0, <1>1, SeenFinite DEF SeenInv
  <2>4. Uncounted(i) \subseteq {h} /\ Uncounted(i)' \subseteq {h}
    BY <2>1 DEF Uncounted
  <2>5. /\ Cardinality(Uncounted(i)) \in 0 .. 1
        /\ Cardinality(Uncounted(i)') \in Nat
    <3>1. \A S : S \subseteq {h} => S = {} \/ S = {h}
      OBVIOUS
    <3>2. Cardinality({}) = 0 /\ Cardinality({h}) = 1
      BY FS_EmptySet, FS_Singleton
    <3>3. Cardinality(Uncounted(i)) \in {0, 1}
      BY <2>4, <3>1, <3>2
    <3>4. Cardinality(Uncounted(i)') \in {0, 1}
      BY <2>4, <3>1, <3>2
    <3> QED BY <3>3, <3>4
  <2>6. CASE i = Row(h)
    <3>1. consumedCount'[i] = consumedCount[i] + 1
      BY <1>1, <2>1, <2>6
    <3> QED BY <2>2, <2>3, <2>5, <3>1
  <2>7. CASE i # Row(h)
    <3>1. consumedCount'[i] = consumedCount[i]
      BY <1>1, <2>1, <2>7
    <3>2. Uncounted(i) = {}
      BY <2>4, <2>7 DEF Uncounted
    <3>3. Cardinality(Uncounted(i)) = 0
      BY <3>2, FS_EmptySet
    <3> QED BY <2>2, <2>3, <2>5, <3>1, <3>3
  <2> QED BY <2>6, <2>7
<1>6. ASSUME NEW h \in Tasks, RecvError(h) \/ ApplyRow(h) \/ ApplyFatal(h)
      PROVE  SeenInv'
  <2>1. /\ pc[h] \in {"recv", "apply"} /\ NextMessage(h)
        /\ position' = position /\ consumedCount' = consumedCount
    BY <1>6 DEF RecvError, ApplyRow, ApplyFatal
  <2>2. \A g \in Tasks : pc[g] \in {"commit", "write"} =>
          /\ pc'[g] \in {"commit", "write"}
          /\ hand'[g] = hand[g] /\ route'[g] = route[g]
    BY <1>0, <2>1, NextMessageFacts
  <2> QED BY <1>a, <1>b, <2>1, <2>2
<1>7. CASE AutoCommit \/ BreakPg
  BY <1>a, <1>b, <1>7 DEF AutoCommit, BreakPg
<1>8. ASSUME NEW h \in Tasks, CommitOffsetFails(h) PROVE FALSE
  BY <1>8 DEF CommitOffsetFails, Fault, Uninterrupted
<1>9. ASSUME Crash PROVE FALSE
  BY <1>0, <1>9 DEF Crash, Uninterrupted, TypeOK
<1> QED
  BY <1>2, <1>3, <1>4, <1>5, <1>6, <1>7, <1>8, <1>9 DEF Serve, Work, Failure

\* A finite set with two different elements has at least two.
LEMMA TwoOrMore ==
  ASSUME NEW S, IsFiniteSet(S), NEW x \in S, NEW y \in S, x # y
  PROVE  Cardinality(S) >= 2
<1>1. /\ IsFiniteSet(S \ {x}) /\ IsFiniteSet((S \ {x}) \ {y})
      /\ Cardinality(S \ {x}) = Cardinality(S) - 1
      /\ Cardinality((S \ {x}) \ {y}) = Cardinality(S \ {x}) - 1
  BY FS_RemoveElement
<1>2. Cardinality(S) \in Nat /\ Cardinality((S \ {x}) \ {y}) \in Nat
  BY <1>1, FS_CardinalityType
<1> QED BY <1>1, <1>2

\* When a row is about to be counted, what is visible before it is counted.
LEMMA CaughtUp ==
  ASSUME IInv, ReadInv, SeenInv, NEW h \in Tasks, pc[h] = "write",
         NEW m \in DOMAIN log[TopicOf(route[h])], m < hand[h],
         log[TopicOf(route[h])][m].status = "committed"
  PROVE  consumedCount[log[TopicOf(route[h])][m].id] > 0
<1> DEFINE q == route[h]
<1> DEFINE t == TopicOf(q)
<1> DEFINE j == log[t][m].id
<1> DEFINE now == <<q, hand[h]>>
<1> DEFINE before == <<q, m>>
<1>1. TypeOK /\ LockInv /\ HandInv /\ t \in Topics /\ q \in Routes
  BY DEF IInv, TypeOK, TopicOf
<1>2. /\ j \in Ids /\ consumedCount[j] \in Nat /\ m \in Nat
      /\ position[q] \in Nat /\ hand[h] = position[q]
  <2>1. log[t][m] \in Entry /\ m \in Nat
    BY <1>1, TopicFacts DEF TypeOK
  <2> QED BY <1>1, <2>1 DEF Entry, TypeOK, ReadInv
<1>3. /\ hand[h] \in DOMAIN log[t]
      /\ log[t][hand[h]].status = "committed"
  BY <1>1 DEF HandInv
<1> HIDE DEF t
<1>4. before \in Seen(j) /\ before # now
  BY <1>1, <1>2 DEF Seen, Committed, t
<1>5. Row(h) = j => now \in Seen(j)
  BY <1>1, <1>2, <1>3 DEF Seen, Committed, t, Row
<1>6. Uncounted(j) \subseteq {h} /\ (Row(h) # j => Uncounted(j) = {})
  BY <1>1 DEF Uncounted, LockInv
<1>7. /\ IsFiniteSet(Seen(j)) /\ Cardinality(Seen(j)) \in Nat
      /\ Cardinality(Seen(j)) <= consumedCount[j] + Cardinality(Uncounted(j))
  BY <1>1, <1>2, SeenFinite DEF SeenInv
<1> HIDE DEF j, now, before
<1>8. CASE Row(h) # j
  <2>1. Cardinality(Uncounted(j)) = 0
    BY <1>6, <1>8, FS_EmptySet
  <2>2. Cardinality(Seen(j)) # 0
    BY <1>4, <1>7, FS_EmptySet
  <2>3. consumedCount[j] > 0
    BY <1>2, <1>7, <2>1, <2>2
  <2> QED BY <2>3 DEF j, t
<1>9. CASE Row(h) = j
  <2>1. Cardinality(Uncounted(j)) \in {0, 1}
    <3>1. Uncounted(j) = {} \/ Uncounted(j) = {h}
      BY <1>6
    <3>2. Cardinality({}) = 0 /\ Cardinality({h}) = 1
      BY FS_EmptySet, FS_Singleton
    <3> QED BY <3>1, <3>2
  <2>2. Cardinality(Seen(j)) >= 2
    BY <1>4, <1>5, <1>7, <1>9, TwoOrMore
  <2>3. consumedCount[j] > 0
    BY <1>2, <1>7, <2>1, <2>2
  <2> QED BY <2>3 DEF j, t
<1> QED BY <1>8, <1>9

\* OrderInv is kept where nothing is counted.
LEMMA OrderKept ==
  ASSUME OrderInv, log' = log, UNCHANGED tracker
  PROVE  OrderInv'
BY DEF OrderInv, Served

\* A step of the service keeps OrderInv.
LEMMA OrderStep ==
  ASSUME IInv, ReadInv, SeenInv, OrderInv, Serve
  PROVE  OrderInv'
<1>0. log' = log /\ TypeOK /\ HandInv
  BY ServeLog DEF IInv
<1>1. CASE UNCHANGED tracker
  BY <1>0, <1>1, OrderKept
<1>2. CASE ~ UNCHANGED tracker
  <2>1. PICK h \in Tasks : pc[h] = "write" /\ Count(h)
    BY <1>2 DEF Serve, Work, Failure, Request, Acquire, Connect, ConnectFails,
       CreateTable, CreateTableLost, Subscribe, Recv, RecvError, Rebalance,
       CommitOffset, CommitOffsetFails, AutoCommit, WriteConsumed, WriteLost,
       BreakPg, ApplyRow, ApplyFatal, ApplyAgain, Crash
  <2> DEFINE q == route[h]
  <2>2. /\ Row(h) \in Ids /\ q \in Routes
        /\ hand[h] \in DOMAIN log[TopicOf(q)]
        /\ log[TopicOf(q)][hand[h]].id = Row(h)
        /\ log[TopicOf(q)][hand[h]].status = "committed"
        /\ position[q] = hand[h]
    BY <1>0, <2>1, RowType DEF HandInv, Row, TypeOK, ReadInv
  <2>3. /\ consumerType' = [consumerType EXCEPT ![Row(h)] = q]
        /\ consumedCount' = [consumedCount EXCEPT ![Row(h)] = @ + 1]
        /\ consumedCount \in [Ids -> Nat]
        /\ consumerType \in [Ids -> Routes \cup {NoRoute}]
    BY <1>0, <2>1 DEF Count, TypeOK
  <2>4. \A i \in Ids : consumedCount[i] > 0 => consumedCount'[i] > 0
    BY <2>2, <2>3
  <2>5. \A t \in Topics : \A m \in DOMAIN log[t] : log[t][m].id \in Ids
    BY <1>0, TopicFacts DEF TypeOK, Entry
  <2> SUFFICES ASSUME NEW i \in Ids
               PROVE  /\ consumedCount'[i] > 0 => consumerType'[i] # NoRoute
                      /\ consumerType'[i] # NoRoute =>
                           Served(i, TopicOf(consumerType[i]))'
    BY DEF OrderInv
  <2>6. CASE i = Row(h)
    <3>1. consumerType'[i] = q
      BY <2>2, <2>3, <2>6
    <3>2. TopicOf(q) \in Topics
      BY DEF TopicOf
    <3>3. ASSUME NEW m \in DOMAIN log[TopicOf(q)], m < hand[h],
                 log[TopicOf(q)][m].status # "aborted"
          PROVE  consumedCount'[log[TopicOf(q)][m].id] > 0
      <4>1. log[TopicOf(q)][m] \in Entry /\ m \in Nat /\ hand[h] \in Nat
        BY <1>0, <2>2, <3>2, TopicFacts DEF TypeOK
      <4>2. log[TopicOf(q)][m].status # "open"
        BY <2>2, <3>3, <4>1 DEF ReadInv
      <4>3. log[TopicOf(q)][m].status = "committed"
        BY <3>3, <4>1, <4>2 DEF Entry
      <4>4. consumedCount[log[TopicOf(q)][m].id] > 0
        BY <2>1, <3>3, <4>3, CaughtUp
      <4> QED BY <2>4, <2>5, <3>2, <4>4
    <3>4. Served(i, TopicOf(consumerType[i]))'
      <4>1. TopicOf(consumerType[i])' = TopicOf(q)
        BY <3>1 DEF TopicOf
      <4> QED BY <1>0, <2>2, <2>6, <3>3, <4>1 DEF Served
    <3> QED BY <2>2, <3>1, <3>4, ConsumerAssumption
  <2>7. CASE i # Row(h)
    <3> DEFINE t == TopicOf(consumerType[i])
    <3>1. /\ consumerType'[i] = consumerType[i]
          /\ consumedCount'[i] = consumedCount[i]
      BY <2>2, <2>3, <2>7
    <3>2. t \in Topics
      BY DEF TopicOf
    <3> HIDE DEF t
    <3>3. t' = t
      BY <3>1 DEF t, TopicOf
    <3>4. ASSUME NEW u \in Topics, Served(i, u) PROVE Served(i, u)'
      <4>1. PICK k \in DOMAIN log[u] :
              /\ log[u][k].id = i /\ log[u][k].status = "committed"
              /\ \A m \in DOMAIN log[u] : m < k =>
                   \/ log[u][m].status = "aborted"
                   \/ consumedCount[log[u][m].id] > 0
        BY <3>4 DEF Served
      <4>2. \A m \in DOMAIN log[u] : m < k =>
              \/ log[u][m].status = "aborted"
              \/ consumedCount'[log[u][m].id] > 0
        BY <2>4, <2>5, <4>1
      <4> QED BY <1>0, <4>1, <4>2 DEF Served
    <3>5. consumerType[i] # NoRoute => Served(i, t)
      BY DEF OrderInv, t
    <3>6. consumerType'[i] # NoRoute => Served(i, t)'
      BY <3>1, <3>2, <3>4, <3>5, <3>3
    <3> QED BY <3>1, <3>6 DEF OrderInv, t
  <2> QED BY <2>6, <2>7
<1> QED BY <1>1, <1>2

\* The parts of the invariant together.
FlowInv == IInv /\ AscendingInv /\ ReadInv /\ SeenInv /\ OrderInv

\* What the producer does to the topics keeps them.
LEMMA ExtendStep ==
  ASSUME FlowInv, LogExtends, AscendingInv', IInv',
         UNCHANGED <<tracker, group, accounts, service, task, budget>>
  PROVE  FlowInv'
<1>0. /\ TypeOK /\ TypeOK' /\ LockInv /\ LockInv' /\ HandInv
      /\ ReadInv /\ SeenInv /\ OrderInv
  BY DEF FlowInv, IInv
<1>1. \A t \in Topics :
        /\ Len(log[t]) \in Nat /\ DOMAIN log[t] = 1 .. Len(log[t])
        /\ Len(log'[t]) \in Nat /\ DOMAIN log'[t] = 1 .. Len(log'[t])
  BY <1>0, TopicFacts DEF TypeOK, LogType
<1>2. /\ position \in [Routes -> Nat] /\ position' = position
      /\ committed' = committed /\ \A r : TopicOf(r) \in Topics
  BY <1>0 DEF TypeOK, TopicOf
<1>3. \A r \in Routes : \A k \in DOMAIN log'[TopicOf(r)] :
        k <= position[r] =>
          /\ k \in DOMAIN log[TopicOf(r)]
          /\ log[TopicOf(r)][k].status # "open"
          /\ log'[TopicOf(r)][k].status = log[TopicOf(r)][k].status
          /\ log'[TopicOf(r)][k].id = log[TopicOf(r)][k].id
  <2> TAKE r \in Routes
  <2> TAKE k \in DOMAIN log'[TopicOf(r)]
  <2> HAVE k <= position[r]
  <2>1. position[r] <= Len(log[TopicOf(r)])
    BY <1>0 DEF ReadInv
  <2>2. k <= Len(log[TopicOf(r)])
    BY <1>1, <1>2, <2>1
  <2>3. k \in DOMAIN log[TopicOf(r)]
    BY <1>2, <2>2 DEF LogExtends
  <2>4. log[TopicOf(r)][k].status # "open"
    BY <1>0, <2>3 DEF ReadInv
  <2> QED BY <1>2, <2>3, <2>4 DEF LogExtends
<1>4. ReadInv'
  <2>1. \A r \in Routes : position[r] <= Len(log'[TopicOf(r)])
    <3> TAKE r \in Routes
    <3>1. /\ position[r] <= Len(log[TopicOf(r)])
          /\ Len(log[TopicOf(r)]) <= Len(log'[TopicOf(r)])
      BY <1>0, <1>2 DEF ReadInv, LogExtends
    <3> QED BY <1>1, <1>2, <3>1
  <2> QED BY <1>0, <1>2, <1>3, <2>1 DEF ReadInv
<1>5. SeenInv'
  <2>1. ASSUME NEW i \in Ids PROVE Seen(i)' \subseteq Seen(i)
    BY <1>2, <1>3 DEF Seen, Committed
  <2>2. ASSUME NEW h \in Tasks, pc[h] \in {"commit", "write"}
        PROVE  Row(h)' = Row(h)
    BY <1>0, <1>2, <2>2 DEF Row, HandInv, LogExtends
  <2>3. ASSUME NEW i \in Ids PROVE Uncounted(i) \subseteq Uncounted(i)'
    BY <2>2 DEF Uncounted
  <2> QED BY <1>0, <2>1, <2>3, SeenKept
<1>6. OrderInv'
  <2> SUFFICES ASSUME NEW i \in Ids, NEW t \in Topics, Served(i, t)
               PROVE  Served(i, t)'
    BY <1>0 DEF OrderInv, TopicOf
  <2>1. PICK k \in DOMAIN log[t] :
          /\ log[t][k].id = i /\ log[t][k].status = "committed"
          /\ \A m \in DOMAIN log[t] : m < k =>
               log[t][m].status = "aborted" \/ consumedCount[log[t][m].id] > 0
    BY DEF Served
  <2>2. /\ k \in DOMAIN log'[t] /\ log'[t][k].id = i
        /\ log'[t][k].status = "committed"
    BY <2>1 DEF LogExtends
  <2>3. ASSUME NEW m \in DOMAIN log'[t], m < k
        PROVE  log'[t][m].status = "aborted" \/ consumedCount[log'[t][m].id] > 0
    <3>1. m \in DOMAIN log[t]
      BY <1>1, <2>1, <2>3
    <3> QED BY <2>1, <2>3, <3>1 DEF LogExtends
  <2> QED BY <2>2, <2>3 DEF Served
<1> QED BY <1>4, <1>5, <1>6 DEF FlowInv

\* Every step keeps the invariant, where nothing intervenes.
LEMMA FlowStep ==
  ASSUME Uninterrupted, FlowInv, [Next]_vars
  PROVE  FlowInv'
<1>0. IInv' /\ LogType /\ AscendingInv
  BY IInvStep DEF FlowInv, IInv, TypeOK
<1>1. CASE Serve
  <2>1. AscendingInv'
    BY <1>0, <1>1, ServeLog DEF AscendingInv
  <2> QED BY <1>0, <1>1, <2>1, ReadStep, SeenStep, OrderStep DEF FlowInv
<1>2. CASE Publish
  BY <1>0, <1>2, WriteExtends, ExtendStep DEF Publish
<1>3. CASE Settle
  BY <1>0, <1>3, SettleExtends, ExtendStep DEF Settle
<1>4. CASE UNCHANGED vars
  BY <1>0, <1>4, NothingExtends, ExtendStep
<1> QED BY <1>1, <1>2, <1>3, <1>4 DEF Next

\* It holds when nothing has been published yet.
LEMMA InitFlow == Init => FlowInv
<1> SUFFICES ASSUME Init PROVE FlowInv
  OBVIOUS
<1>1. IInv /\ AscendingInv /\ ReadInv /\ OrderInv
  BY InitIInv DEF Init, AscendingInv, ReadInv, OrderInv, TopicOf
<1>2. ASSUME NEW i \in Ids
      PROVE  Cardinality(Seen(i))
               <= consumedCount[i] + Cardinality(Uncounted(i))
  <2>1. Seen(i) = {} /\ Uncounted(i) = {} /\ consumedCount[i] = 0
    BY DEF Init, Seen, Uncounted, Committed, TopicOf
  <2>2. Cardinality({}) = 0
    BY FS_EmptySet
  <2> QED BY <2>1, <2>2
<1> QED BY <1>1, <1>2 DEF FlowInv, SeenInv

\* The invariant holds of every reachable state of such a run.
THEOREM FlowInvariant ==
  ASSUME Uninterrupted
  PROVE  Spec => []FlowInv
<1>1. FlowInv /\ [Next]_vars => FlowInv'
  BY FlowStep
<1> QED BY InitFlow, <1>1, PTL DEF Spec

\* README, property 4: without a restart and without a failed commit, no group
\* commits past a message that is not counted, whatever is rebalanced,
\* subscribed again or disconnected.
THEOREM NothingSkippedUninterrupted ==
  ASSUME Uninterrupted
  PROVE  Spec => []NothingSkipped
<1>1. FlowInv => NothingSkipped
  <2> SUFFICES ASSUME FlowInv, NEW i \in Ids
               PROVE  Cardinality(Delivered(i))
                        <= consumedCount[i] + Cardinality(Uncounted(i))
    BY DEF NothingSkipped
  <2>0. TypeOK /\ LockInv /\ ReadInv /\ SeenInv
    BY DEF FlowInv, IInv
  <2>1. Delivered(i) \subseteq Seen(i)
    <3> SUFFICES ASSUME NEW r \in Routes, NEW k \in Committed(TopicOf(r), i),
                        k <= committed[r]
                 PROVE  k \in Nat /\ k <= position[r]
      BY DEF Delivered, Seen
    <3>1. /\ committed[r] \in Nat /\ position[r] \in Nat
          /\ committed[r] <= position[r]
      BY <2>0 DEF TypeOK, ReadInv
    <3>2. k \in Nat
      BY <2>0, TopicFacts DEF Committed, TopicOf, TypeOK
    <3> QED BY <3>1, <3>2
  <2>2. /\ Cardinality(Delivered(i)) <= Cardinality(Seen(i))
        /\ Cardinality(Delivered(i)) \in Nat /\ Cardinality(Seen(i)) \in Nat
    BY <2>0, <2>1, SeenFinite, FS_Subset, FS_CardinalityType
  <2>3. /\ consumedCount[i] \in Nat
        /\ Cardinality(Uncounted(i)) \in Nat
        /\ Cardinality(Seen(i)) <= consumedCount[i] + Cardinality(Uncounted(i))
    BY <2>0, UncountedFinite DEF TypeOK, SeenInv
  <2> QED BY <2>2, <2>3
<1> QED BY <1>1, FlowInvariant, PTL

\* A row that precedes the copy of a consumed one has been counted.
LEMMA ServedInOrder == FlowInv => ConsumedInTopicOrder
<1> SUFFICES ASSUME FlowInv, NEW i \in Ids, NEW j \in Ids,
                    consumerType[i] # NoRoute, j < i,
                    NEW n \in Committed(TopicOf(consumerType[i]), j)
             PROVE  consumedCount[j] > 0
  BY DEF ConsumedInTopicOrder
<1> DEFINE t == TopicOf(consumerType[i])
<1>1. TypeOK /\ AscendingInv /\ OrderInv /\ t \in Topics
  BY DEF FlowInv, IInv, TopicOf
<1>2. PICK k \in DOMAIN log[t] :
        /\ log[t][k].id = i
        /\ \A m \in DOMAIN log[t] : m < k =>
             log[t][m].status = "aborted" \/ consumedCount[log[t][m].id] > 0
  BY <1>1 DEF OrderInv, Served
<1>3. n \in DOMAIN log[t] /\ log[t][n].id = j /\ log[t][n].status = "committed"
  BY DEF Committed
<1> HIDE DEF t
<1>4. n \in Nat /\ k \in Nat /\ i \in Nat /\ j \in Nat
  BY <1>1, <1>2, <1>3, TopicFacts, IdsAssumption DEF TypeOK
<1>5. ~(k < n)
  BY <1>1, <1>2, <1>3, <1>4 DEF AscendingInv
<1>6. n # k
  BY <1>2, <1>3, <1>4
<1>7. n < k
  BY <1>4, <1>5, <1>6
<1> QED BY <1>2, <1>3, <1>7

\* README, property 5, within a topic and under the same condition: no row is
\* consumed before an earlier one that is visible in the topic of its route.
THEOREM ConsumedInTopicOrderUninterrupted ==
  ASSUME Uninterrupted
  PROVE  Spec => []ConsumedInTopicOrder
BY ServedInOrder, FlowInvariant, PTL
-----------------------------------------------------------------------------
(* The balances add up                                                     *)

\* Row i is counted and not applied: it will be, unless the connection to the
\* state-tracker broke, in which case nothing else will be either.
OnItsWay(i) ==
  \E h \in Tasks :
    Row(h) = i /\ (pc[h] = "apply" \/ (pc[h] = "write" /\ pg = "broken"))

\* The account of a counted funding is there, but for the funding in hand.
FundedInv ==
  \A i \in Ids : consumedCount[i] > 0 /\ Tx[i].kind = "fund" =>
    Tx[i].iban \in items \/ OnItsWay(i)

\* What the consumer needs of the order in which it is given the rows: the
\* accounts of a transfer it is about to apply were funded by other rows.
TransfersFounded ==
  \A h \in Tasks : pc[h] = "apply" /\ Tx[Row(h)].kind = "transfer" =>
    \A a \in {Tx[Row(h)].from, Tx[Row(h)].to} :
      \E j \in Ids \ {Row(h)} :
        consumedCount[j] > 0 /\ Tx[j].kind = "fund" /\ Tx[j].iban = a

\* Then the sum of the balances is the initial funding of the accounts there.
BalanceInv ==
  /\ NoItemNoMoney
  /\ FundedInv
  /\ Total = Cardinality(items) * Funding

\* Accounts are never removed.
LEMMA ItemsStay ==
  ASSUME NEW tx, Apply(tx) \/ Unchanged
  PROVE  items \subseteq items'
BY DEF Apply, Fund, Transfer, Unchanged

\* A step of the service keeps FundedInv, if no write is given up.
LEMMA FundedStep ==
  ASSUME Uninterrupted, "fatal" \notin Failures, IInv, FundedInv, Serve
  PROVE  FundedInv'
<1>0. /\ TypeOK /\ LockInv /\ HandInv /\ log' = log
      /\ consumedCount \in [Ids -> Nat]
  BY ServeLog DEF IInv, TypeOK
<1>1. ASSUME items \subseteq items', consumedCount' = consumedCount,
             \A i \in Ids : OnItsWay(i) => OnItsWay(i)'
      PROVE  FundedInv'
  BY <1>1 DEF FundedInv
<1>2. ASSUME NEW h \in Tasks,
             Request(h) \/ Acquire(h) \/ Connect(h) \/ CreateTable(h)
               \/ CreateTableLost(h) \/ Subscribe(h) \/ Recv(h)
               \/ Rebalance(h) \/ CommitOffset(h)
      PROVE  FundedInv'
  <2>1. /\ \A g \in Tasks : pc[g] \in {"apply", "write"} =>
             pc'[g] = pc[g] /\ hand'[g] = hand[g] /\ route'[g] = route[g]
        /\ UNCHANGED <<items, consumedCount>>
        /\ pg = "broken" => pg' = "broken"
    BY <1>0, <1>2 DEF Request, Acquire, Connect, CreateTable, CreateTableLost,
       Subscribe, Recv, Rebalance, CommitOffset, TypeOK
  <2> QED BY <1>0, <1>1, <2>1 DEF OnItsWay, Row
<1>3. ASSUME NEW h \in Tasks, ConnectFails(h) \/ RecvError(h)
      PROVE  FundedInv'
  <2>1. /\ \A g \in Tasks : pc[g] \in {"apply", "write"} =>
             pc'[g] = pc[g] /\ hand'[g] = hand[g] /\ route'[g] = route[g]
        /\ UNCHANGED <<items, consumedCount, pg>>
    BY <1>0, <1>3, NextMessageFacts
       DEF ConnectFails, Leave, RecvError, TypeOK
  <2> QED BY <1>0, <1>1, <2>1 DEF OnItsWay, Row
<1>4. CASE AutoCommit \/ BreakPg
  BY <1>0, <1>1, <1>4 DEF AutoCommit, BreakPg, OnItsWay, Row
<1>5. ASSUME NEW h \in Tasks, WriteConsumed(h) \/ WriteLost(h)
      PROVE  FundedInv'
  <2>1. /\ pc[h] = "write" /\ pg = "up" /\ Row(h) \in Ids
        /\ consumedCount' = [consumedCount EXCEPT ![Row(h)] = @ + 1]
        /\ UNCHANGED <<items, hand, route>>
        /\ \/ pc' = [pc EXCEPT ![h] = "apply"]
           \/ pc' = pc /\ pg' = "broken"
        /\ pc \in [Tasks -> Steps]
    BY <1>0, <1>5, RowType DEF WriteConsumed, WriteLost, Count, TypeOK
  <2>2. OnItsWay(Row(h))'
    BY <1>0, <2>1 DEF OnItsWay, Row
  <2>3. \A i \in Ids : OnItsWay(i) => OnItsWay(i)'
    BY <1>0, <2>1 DEF OnItsWay, Row
  <2>4. Row(h)' = Row(h)
    BY <1>0, <2>1 DEF Row
  <2> SUFFICES ASSUME NEW i \in Ids, consumedCount'[i] > 0, Tx[i].kind = "fund"
               PROVE  Tx[i].iban \in items \/ OnItsWay(i)'
    BY <2>1 DEF FundedInv
  <2>5. CASE i = Row(h)
    BY <2>2, <2>4, <2>5 DEF OnItsWay
  <2>6. CASE i # Row(h)
    BY <1>0, <2>1, <2>3, <2>6 DEF FundedInv
  <2> QED BY <2>5, <2>6
<1>6. ASSUME NEW h \in Tasks, ApplyAgain(h) PROVE FundedInv'
  <2>1. /\ items \subseteq items'
        /\ UNCHANGED <<consumedCount, pc, hand, route, pg>>
    BY <1>6, ItemsStay DEF ApplyAgain
  <2> QED BY <1>0, <1>1, <2>1 DEF OnItsWay, Row
<1>7. ASSUME NEW h \in Tasks, ApplyRow(h) PROVE FundedInv'
  <2>1. /\ pc[h] = "apply" /\ Apply(Tx[Row(h)]) /\ items \subseteq items'
        /\ consumedCount' = consumedCount
    BY <1>7, ItemsStay DEF ApplyRow
  <2>2. Tx[Row(h)].kind = "fund" => Tx[Row(h)].iban \in items'
    BY <2>1 DEF Apply, Fund, Unchanged
  <2>3. \A i \in Ids : OnItsWay(i) => i = Row(h)
    BY <1>0, <2>1 DEF OnItsWay, LockInv
  <2> QED BY <2>1, <2>2, <2>3 DEF FundedInv
<1>8. ASSUME NEW h \in Tasks, CommitOffsetFails(h) \/ ApplyFatal(h)
      PROVE  FALSE
  BY <1>8 DEF CommitOffsetFails, ApplyFatal, Fault, Uninterrupted
<1>9. ASSUME Crash PROVE FALSE
  BY <1>0, <1>9 DEF Crash, Uninterrupted, TypeOK
<1> QED
  BY <1>2, <1>3, <1>4, <1>5, <1>6, <1>7, <1>8, <1>9 DEF Serve, Work, Failure

\* The accounts of a transfer that is applied in turn are there.
LEMMA FoundedIsThere ==
  ASSUME IInv, FundedInv, TransfersFounded, NEW h \in Tasks, pc[h] = "apply",
         Tx[Row(h)].kind = "transfer"
  PROVE  {Tx[Row(h)].from, Tx[Row(h)].to} \subseteq items
<1> SUFFICES ASSUME NEW a \in {Tx[Row(h)].from, Tx[Row(h)].to}
             PROVE  a \in items
  OBVIOUS
<1>1. PICK j \in Ids \ {Row(h)} :
        consumedCount[j] > 0 /\ Tx[j].kind = "fund" /\ Tx[j].iban = a
  BY DEF TransfersFounded
<1>2. ~ OnItsWay(j)
  BY <1>1 DEF OnItsWay, IInv, LockInv
<1> QED BY <1>1, <1>2 DEF FundedInv

\* A write to the accounts keeps the sum in step with the number of accounts.
LEMMA ApplyBalanced ==
  ASSUME AccountsType, NoItemNoMoney, NEW tx \in Transactions,
         Apply(tx) \/ Unchanged,
         tx.kind = "transfer" => {tx.from, tx.to} \subseteq items,
         Total = Cardinality(items) * Funding
  PROVE  NoItemNoMoney' /\ Total' = Cardinality(items') * Funding
<1>0. /\ IsFiniteSet(items) /\ Cardinality(items) \in Nat /\ Funding \in Int
      /\ Total = SumOf(balance, Accounts)
      /\ SumOf(balance, Accounts) \in Int
  <2>1. IsFiniteSet(items)
    BY AccountsAssumption, FS_Subset DEF AccountsType
  <2>2. Total = SumOf(balance, Accounts)
    BY TotalIsMoney DEF Total, AccountsType, NoItemNoMoney
  <2> QED BY <2>1, <2>2, FS_CardinalityType, SumType, AccountsAssumption
          DEF AccountsType
<1>1. ASSUME AccountsType', NoItemNoMoney'
      PROVE  Total' = SumOf(balance', Accounts)
  BY <1>1, TotalIsMoney DEF Total, AccountsType, NoItemNoMoney
<1>2. CASE Unchanged
  BY <1>2 DEF Unchanged, NoItemNoMoney, Total
<1>3. CASE tx.kind = "fund" /\ Apply(tx)
  <2>1. tx.iban \in Accounts /\ Fund(tx)
    BY <1>3 DEF Transactions, Apply
  <2>2. /\ AccountsType' /\ NoItemNoMoney'
        /\ items' = items \cup {tx.iban}
        /\ SumOf(balance', Accounts) =
             SumOf(balance, Accounts)
               + (IF tx.iban \in items THEN 0 ELSE Funding)
    BY <2>1, FundEffect
  <2>3. CASE tx.iban \in items
    <3>1. items' = items
      BY <2>2, <2>3
    <3>2. SumOf(balance', Accounts) = SumOf(balance, Accounts)
      BY <1>0, <2>2, <2>3
    <3> QED BY <1>0, <1>1, <2>2, <3>1, <3>2
  <2>4. CASE tx.iban \notin items
    <3>1. Cardinality(items') = Cardinality(items) + 1
      BY <1>0, <2>2, <2>4, FS_AddElement
    <3>2. SumOf(balance', Accounts) = SumOf(balance, Accounts) + Funding
      BY <2>2, <2>4
    <3>3. (Cardinality(items) + 1) * Funding
            = Cardinality(items) * Funding + Funding
      BY <1>0
    <3> QED BY <1>0, <1>1, <2>2, <3>1, <3>2, <3>3
  <2> QED BY <2>3, <2>4
<1>4. CASE tx.kind = "transfer" /\ Apply(tx)
  <2>1. /\ tx.from \in Accounts /\ tx.to \in Accounts /\ tx.amount \in Nat
        /\ Transfer(tx) /\ {tx.from, tx.to} \subseteq items
    BY <1>4 DEF Transactions, Apply
  <2>2. /\ AccountsType' /\ NoItemNoMoney'
        /\ items' = items
        /\ SumOf(balance', Accounts) = SumOf(balance, Accounts)
    BY <2>1, TransferEffect
  <2> QED BY <1>0, <1>1, <2>2
<1>5. CASE tx.kind # "fund" /\ tx.kind # "transfer" /\ Apply(tx)
  BY <1>2, <1>5 DEF Apply
<1> QED BY <1>2, <1>3, <1>4, <1>5

\* A step of the service keeps the balances in step with the accounts, where
\* rows come in their turn and no write is given up.
LEMMA BalanceStep ==
  ASSUME Uninterrupted, "fatal" \notin Failures, IInv, BalanceInv,
         TransfersFounded, Serve
  PROVE  BalanceInv'
<1>1. FundedInv'
  BY FundedStep DEF BalanceInv
<1>2. CASE UNCHANGED <<items, balance>>
  BY <1>1, <1>2 DEF BalanceInv, NoItemNoMoney, Total
<1>3. ASSUME NEW h \in Tasks, pc[h] = "apply", Apply(Tx[Row(h)]) \/ Unchanged
      PROVE  BalanceInv'
  <2>1. Tx[Row(h)] \in Transactions /\ AccountsType
    BY <1>3, RowType DEF IInv, TypeOK
  <2>2. Tx[Row(h)].kind = "transfer" =>
          {Tx[Row(h)].from, Tx[Row(h)].to} \subseteq items
    BY <1>3, FoundedIsThere DEF BalanceInv
  <2>3. NoItemNoMoney' /\ Total' = Cardinality(items') * Funding
    BY <1>3, <2>1, <2>2, ApplyBalanced DEF BalanceInv
  <2> QED BY <1>1, <2>3 DEF BalanceInv
<1>4. \/ UNCHANGED <<items, balance>>
      \/ \E h \in Tasks : pc[h] = "apply" /\ (Apply(Tx[Row(h)]) \/ Unchanged)
  BY AccountsChange DEF Next
<1> QED BY <1>2, <1>3, <1>4

\* So does a step of the producer.
LEMMA BalanceKept ==
  ASSUME IInv, BalanceInv, LogExtends,
         UNCHANGED <<tracker, group, accounts, service, task, budget>>
  PROVE  BalanceInv'
<1>1. /\ UNCHANGED <<consumedCount, items, balance, pc, hand, route, pg>>
      /\ \A r : TopicOf(r) \in Topics
  BY DEF TopicOf
<1>2. ASSUME NEW i \in Ids, OnItsWay(i) PROVE OnItsWay(i)'
  BY <1>1, <1>2 DEF OnItsWay, Row, IInv, HandInv, LogExtends
<1>3. FundedInv'
  BY <1>1, <1>2 DEF BalanceInv, FundedInv
<1> QED BY <1>1, <1>3 DEF BalanceInv, NoItemNoMoney, Total

\* It holds at the start.
LEMMA InitBalance == Init => BalanceInv
<1> SUFFICES ASSUME Init PROVE BalanceInv
  OBVIOUS
<1>1. items = {} /\ \A a \in Accounts : balance[a] = 0
  BY DEF Init, AccountsInit
<1>2. Cardinality(items) = 0 /\ Total = 0
  BY <1>1, FS_EmptySet, SumEmpty DEF Total
<1>3. Cardinality(items) * Funding = 0
  BY <1>2, AccountsAssumption
<1> QED BY <1>1, <1>2, <1>3 DEF BalanceInv, NoItemNoMoney, FundedInv, Init
-----------------------------------------------------------------------------
(* What a reader of the state-tracker and of the accounts sees             *)

\* A message of bankEO that is about to be counted is the last one taken.
TakenInv ==
  \A h \in Tasks : pc[h] = "write" /\ route[h] = EO => committed[EO] = hand[h]

\* The task that holds the lock is the only one with a message to count.
LEMMA PendingOfHolder ==
  ASSUME LockInv, NEW h \in Tasks, pc[h] \in Held
  PROVE  /\ \A g \in Tasks \ {h} : pc[g] \notin Held
         /\ Pending <=> pc[h] = "write" /\ pg = "up" /\ route[h] = EO
BY DEF LockInv, Pending, EO

\* Only commit_message moves the committed offset of bankEO.
LEMMA OffsetOfBankEO ==
  ASSUME TypeOK, EO \in Routes,
         \/ AutoCommit
         \/ \E h \in Tasks : Subscribe(h) \/ UNCHANGED committed
  PROVE  committed'[EO] = committed[EO]
<1>1. committed \in [Routes -> Nat]
  BY DEF TypeOK
<1>2. ASSUME NEW r, r # EO,
             committed' = [committed EXCEPT ![r] = position[r]]
      PROVE  committed'[EO] = committed[EO]
  BY <1>1, <1>2
<1>3. CASE AutoCommit
  <2>1. PICK r \in Routes \ {"exactly_once"} :
          committed' = [committed EXCEPT ![r] = position[r]]
    BY <1>3 DEF AutoCommit
  <2> QED BY <1>2, <2>1 DEF EO
<1>4. ASSUME NEW h \in Tasks, Subscribe(h)
      PROVE  committed'[EO] = committed[EO]
  <2>1. CASE route[h] = EO
    BY <1>4, <2>1 DEF Subscribe, EO
  <2>2. CASE route[h] # EO
    <3>1. committed' = [committed EXCEPT ![route[h]] = position[route[h]]]
      BY <1>4, <2>2 DEF Subscribe, EO
    <3> QED BY <1>2, <2>2, <3>1
  <2> QED BY <2>1, <2>2
<1> QED BY <1>3, <1>4

\* A task that counts a message of bankEO has the route.
LEMMA WriteRoute ==
  ASSUME TypeOK, NEW h \in Tasks, pc[h] = "write"
  PROVE  route[h] \in Routes
BY DEF TypeOK

\* A step of the service keeps TakenInv.
LEMMA TakenStep ==
  ASSUME IInv, TakenInv, Serve
  PROVE  TakenInv'
<1>0. /\ TypeOK /\ LockInv /\ GroupInv
      /\ committed \in [Routes -> Nat]
  BY DEF IInv, TypeOK
<1>1. ASSUME NEW h \in Tasks,
             Request(h) \/ Acquire(h) \/ Connect(h) \/ CreateTable(h)
               \/ CreateTableLost(h) \/ Subscribe(h) \/ Rebalance(h)
               \/ WriteConsumed(h) \/ WriteLost(h) \/ ApplyAgain(h)
      PROVE  TakenInv'
  <2>1. \A g \in Tasks : pc'[g] = "write" =>
          pc[g] = "write" /\ hand'[g] = hand[g] /\ route'[g] = route[g]
    BY <1>0, <1>1 DEF Request, Acquire, Connect, CreateTable, CreateTableLost,
       Subscribe, Rebalance, WriteConsumed, WriteLost, ApplyAgain, TypeOK
  <2>2. Subscribe(h) \/ UNCHANGED committed
    BY <1>1 DEF Request, Acquire, Connect, CreateTable, CreateTableLost,
       Rebalance, WriteConsumed, WriteLost, ApplyAgain
  <2>3. EO \in Routes => committed'[EO] = committed[EO]
    BY <1>0, <2>2, OffsetOfBankEO
  <2> QED BY <1>0, <2>1, <2>3, WriteRoute DEF TakenInv
<1>2. ASSUME NEW h \in Tasks, pc[h] \in Held, NextMessage(h) \/ Leave(h)
      PROVE  \A g \in Tasks : pc'[g] # "write"
  BY <1>0, <1>2, NextMessageFacts DEF LockInv, Leave, TypeOK
<1>3. ASSUME NEW h \in Tasks,
             ConnectFails(h) \/ RecvError(h) \/ CommitOffsetFails(h)
               \/ ApplyRow(h) \/ ApplyFatal(h)
      PROVE  TakenInv'
  <2>1. pc[h] \in Held /\ (NextMessage(h) \/ Leave(h))
    BY <1>3 DEF ConnectFails, RecvError, CommitOffsetFails, ApplyRow,
                ApplyFatal
  <2> QED BY <1>2, <2>1 DEF TakenInv
<1>4. ASSUME NEW h \in Tasks, Recv(h) PROVE TakenInv'
  <2>1. /\ pc' = [pc EXCEPT ![h] = AfterRecv(h)] /\ pc[h] \in Held
        /\ route' = route
    BY <1>4 DEF Recv
  <2>2. \A g \in Tasks \ {h} : pc[g] \notin Held
    BY <1>0, <2>1, PendingOfHolder
  <2> QED BY <1>0, <2>1, <2>2 DEF TakenInv, AfterRecv, TypeOK, EO
<1>5. ASSUME NEW h \in Tasks, CommitOffset(h) PROVE TakenInv'
  <2>1. /\ pc' = [pc EXCEPT ![h] = "write"] /\ pc[h] = "commit"
        /\ committed' = [committed EXCEPT ![route[h]] = hand[h]]
        /\ hand' = hand /\ route' = route /\ route[h] \in Routes
    BY <1>0, <1>5 DEF CommitOffset, CommitHand, TypeOK
  <2>2. \A g \in Tasks \ {h} : pc[g] \notin Held
    BY <1>0, <2>1, PendingOfHolder
  <2> QED BY <1>0, <2>1, <2>2 DEF TakenInv, TypeOK
<1>6. CASE AutoCommit \/ BreakPg
  <2>1. UNCHANGED <<pc, hand, route>> /\ (AutoCommit \/ UNCHANGED committed)
    BY <1>6 DEF AutoCommit, BreakPg
  <2>2. EO \in Routes => committed'[EO] = committed[EO]
    <3>1. CASE AutoCommit
      BY <1>0, <3>1, OffsetOfBankEO
    <3>2. CASE UNCHANGED committed
      BY <3>2
    <3> QED BY <2>1, <3>1, <3>2
  <2> QED BY <1>0, <2>1, <2>2, WriteRoute DEF TakenInv
<1>7. CASE Crash
  BY <1>7 DEF Crash, TakenInv
<1> QED
  BY <1>1, <1>3, <1>4, <1>5, <1>6, <1>7 DEF Serve, Work, Failure

\* Consumption writes the accounts and the topics as Consumer does.
LEMMA SameWrites ==
  /\ \A tx : Apply(tx) => Abstract!Apply(tx)
  /\ \A t \in Topics, i \in Ids : Write(t, i) => Abstract!Write(t, i)
  /\ SettleOpen => Abstract!SettleOpen
  /\ Abstract!Topics = Topics
<1>1. \A tx : Apply(tx) => Abstract!Apply(tx)
  BY Zenon DEF Apply, Fund, Transfer, Unchanged, Abstract!Apply,
     Abstract!Fund, Abstract!Transfer, Abstract!Unchanged
<1>2. \A t \in Topics, i \in Ids : Write(t, i) => Abstract!Write(t, i)
  BY DEF Write, Appended, HasOpen, IsOpen, Abstract!Write, Abstract!Appended,
         Abstract!HasOpen, Abstract!IsOpen, Abstract!Offsets, Abstract!Topics
<1>3. SettleOpen => Abstract!SettleOpen
  BY DEF SettleOpen, Settled, Closed, HasOpen, IsOpen, Abstract!SettleOpen,
         Abstract!Settled, Abstract!Closed, Abstract!HasOpen, Abstract!IsOpen,
         Abstract!Offsets, Abstract!Topics
<1> QED BY <1>1, <1>2, <1>3 DEF Abstract!Topics

\* A step that such a reader does not see, or only that a message taken will
\* not be counted.
LEMMA UnseenMaps ==
  ASSUME UNCHANGED <<log, tracker, items, balance>>, Taken' = Taken,
         Pending' => Pending
  PROVE  [Abstract!Next]_(Abstract!vars)
<1>1. Pending \in BOOLEAN /\ Pending' \in BOOLEAN
  BY DEF Pending
<1>2. CASE Pending /\ ~Pending'
  BY <1>1, <1>2 DEF Abstract!Next, Abstract!Forget, Abstract!counts
<1>3. CASE Pending' = Pending
  BY <1>3 DEF Abstract!vars, Abstract!counts
<1> QED BY <1>1, <1>2, <1>3

\* The commit of the offset takes the message.
LEMMA CommitMaps ==
  ASSUME IInv, NEW h \in Tasks, CommitOffset(h) \/ CommitOffsetFails(h)
  PROVE  [Abstract!Next]_(Abstract!vars)
<1>0. TypeOK /\ LockInv /\ HandInv /\ GroupInv
  BY DEF IInv
<1>1. /\ pc[h] = "commit" /\ route[h] = EO /\ EO \in Routes
      /\ committed[EO] < hand[h] /\ committed \in [Routes -> Nat]
      /\ UNCHANGED <<log, tracker, items, balance>>
      /\ CommitHand(h) \/ committed' = committed
      /\ NextMessage(h) \/ CommitHand(h)
  BY <1>0 DEF CommitOffset, CommitOffsetFails, GroupInv, TypeOK
<1>2. ~Pending
  BY <1>0, <1>1, PendingOfHolder
<1>3. /\ hand[h] \in Abstract!Visible("bankEO")
      /\ Taken = committed[EO]
  BY <1>0, <1>1
     DEF HandInv, TopicOf, Abstract!Visible, Abstract!Offsets, Taken, EO
<1>4. CASE CommitHand(h)
  <2>1. Taken' = hand[h]
    BY <1>1, <1>4 DEF Taken, CommitHand, EO
  <2>2. Pending' \in BOOLEAN
    BY DEF Pending
  <2>3. Abstract!Take(hand[h])
    BY <1>1, <1>3, <2>1, <2>2, <1>0 DEF Abstract!Take, Abstract!counts, TypeOK
  <2> QED BY <1>3, <2>3 DEF Abstract!Next
<1>5. CASE committed' = committed /\ NextMessage(h)
  <2>1. \A g \in Tasks : pc'[g] # "write"
    BY <1>0, <1>1, <1>5, NextMessageFacts DEF LockInv
  <2>2. ~Pending' /\ Taken' = Taken
    BY <1>5, <2>1 DEF Pending, Taken
  <2> QED BY <1>1, <2>2, UnseenMaps
<1> QED BY <1>1, <1>4, <1>5

\* The update of the state-tracker counts a message taken, or a visible one of
\* the at-least-once topic.
LEMMA CountMaps ==
  ASSUME IInv, TakenInv, NEW h \in Tasks, WriteConsumed(h) \/ WriteLost(h)
  PROVE  [Abstract!Next]_(Abstract!vars)
<1>0. TypeOK /\ LockInv /\ HandInv
  BY DEF IInv
<1>1. /\ pc[h] = "write" /\ pg = "up" /\ Count(h)
      /\ UNCHANGED <<log, committed, items, balance, route>>
      /\ \A g \in Tasks \ {h} : pc'[g] = pc[g]
      /\ pc'[h] = "apply" \/ pg' = "broken"
  BY <1>0 DEF WriteConsumed, WriteLost, TypeOK
<1>2. /\ ~Pending' /\ Taken' = Taken
      /\ Pending <=> route[h] = EO
  <2>1. /\ \A g \in Tasks \ {h} : pc[g] \notin Held
        /\ Pending <=> route[h] = EO
    BY <1>0, <1>1, PendingOfHolder
  <2>2. ~Pending'
    BY <1>1, <2>1 DEF Pending
  <2> QED BY <1>1, <2>1, <2>2 DEF Taken
<1>3. Pending \in BOOLEAN /\ Pending' \in BOOLEAN
  BY DEF Pending
<1>4. route[h] \in Routes
  BY <1>0, <1>1 DEF TypeOK
<1>5. CASE route[h] = EO
  <2>1. /\ Taken = hand[h] /\ TopicOf(route[h]) = "bankEO"
    BY <1>1, <1>4, <1>5 DEF TakenInv, Taken, TopicOf, EO
  <2>2. Abstract!Count("bankEO", Taken, "exactly_once")
    BY <1>1, <1>5, <2>1 DEF Count, Row, Abstract!Count, EO
  <2>3. Abstract!CountTaken
    BY <1>1, <1>2, <1>3, <1>5, <2>2 DEF Abstract!CountTaken
  <2> QED BY <2>3 DEF Abstract!Next
<1>6. CASE route[h] # EO
  <2>1. route[h] = "atleast_once" /\ TopicOf(route[h]) = "bankAO"
    BY <1>4, <1>6, ConsumerAssumption DEF ConsumerRoutes, EO, TopicOf
  <2>2. hand[h] \in Abstract!Visible("bankAO")
    BY <1>0, <1>1, <2>1 DEF HandInv, Abstract!Visible, Abstract!Offsets
  <2>3. Abstract!Count("bankAO", hand[h], "atleast_once")
    BY <1>1, <2>1 DEF Count, Row, Abstract!Count
  <2>4. Pending' = Pending
    BY <1>2, <1>3, <1>6
  <2>5. Abstract!CountPlain(hand[h])
    BY <1>1, <1>2, <2>3, <2>4 DEF Abstract!CountPlain
  <2> QED BY <2>2, <2>5 DEF Abstract!Next
<1> QED BY <1>5, <1>6

\* A write to the accounts is one of a counted row.
LEMMA BookMaps ==
  ASSUME IInv, NEW h \in Tasks, ApplyRow(h) \/ ApplyFatal(h) \/ ApplyAgain(h)
  PROVE  [Abstract!Next]_(Abstract!vars)
<1>0. TypeOK /\ LockInv /\ HandInv /\ AppliedInv
  BY DEF IInv
<1>1. /\ pc[h] = "apply"
      /\ Apply(Tx[Row(h)]) \/ Unchanged
      /\ UNCHANGED <<log, tracker, committed>>
      /\ NextMessage(h) \/ UNCHANGED pc
  BY DEF ApplyRow, ApplyFatal, ApplyAgain
<1>2. ~Pending /\ ~Pending' /\ Taken' = Taken
  <2>1. ~Pending /\ \A g \in Tasks \ {h} : pc[g] \notin Held
    BY <1>0, <1>1, PendingOfHolder
  <2>2. \A g \in Tasks : pc'[g] # "write"
    BY <1>0, <1>1, <2>1, NextMessageFacts
  <2> QED BY <1>1, <2>1, <2>2 DEF Pending, Taken
<1>3. CASE Unchanged
  BY <1>1, <1>2, <1>3, UnseenMaps DEF Unchanged
<1>4. CASE Apply(Tx[Row(h)])
  <2>1. Row(h) \in Ids /\ consumedCount[Row(h)] > 0
    BY <1>0, <1>1, RowType DEF AppliedInv
  <2>2. Abstract!Apply(Tx[Row(h)])
    BY <1>4, SameWrites
  <2>3. Pending' = Pending
    <3>1. Pending \in BOOLEAN /\ Pending' \in BOOLEAN
      BY DEF Pending
    <3> QED BY <1>2, <3>1
  <2>4. Abstract!Book(Row(h))
    BY <1>1, <1>2, <2>1, <2>2, <2>3 DEF Abstract!Book, Abstract!counts
  <2> QED BY <2>1, <2>4 DEF Abstract!Next
<1> QED BY <1>1, <1>3, <1>4

\* Every other step of the service is not seen.
LEMMA OtherMaps ==
  ASSUME IInv, Serve,
         \A h \in Tasks : ~(\/ CommitOffset(h) \/ CommitOffsetFails(h)
                            \/ WriteConsumed(h) \/ WriteLost(h)
                            \/ ApplyRow(h) \/ ApplyFatal(h) \/ ApplyAgain(h))
  PROVE  [Abstract!Next]_(Abstract!vars)
<1>0. TypeOK /\ LockInv
  BY DEF IInv
<1>1. ASSUME NEW h \in Tasks,
             Request(h) \/ Acquire(h) \/ Connect(h) \/ CreateTable(h)
               \/ CreateTableLost(h) \/ Subscribe(h) \/ Recv(h)
               \/ Rebalance(h)
      PROVE  /\ UNCHANGED <<log, tracker, items, balance>>
             /\ Taken' = Taken /\ (Pending' => Pending)
  <2>1. UNCHANGED <<log, tracker, items, balance>>
    BY <1>1 DEF Request, Acquire, Connect, CreateTable, CreateTableLost,
                Subscribe, Recv, Rebalance
  <2>2. EO \in Routes => committed'[EO] = committed[EO]
    <3>1. Subscribe(h) \/ UNCHANGED committed
      BY <1>1 DEF Request, Acquire, Connect, CreateTable, CreateTableLost,
                  Recv, Rebalance
    <3> QED BY <1>0, <3>1, OffsetOfBankEO
  <2>3. ASSUME NEW g \in Tasks, pc'[g] = "write", pg' = "up", route'[g] = EO
        PROVE  pc[g] = "write" /\ pg = "up" /\ route[g] = EO
    BY <1>0, <1>1, <2>3 DEF Request, Acquire, Connect, CreateTable,
       CreateTableLost, Subscribe, Recv, Rebalance, AfterRecv, LockInv, TypeOK,
       EO
  <2> QED BY <2>1, <2>2, <2>3 DEF Taken, Pending, EO
<1>2. ASSUME NEW h \in Tasks, ConnectFails(h) \/ RecvError(h)
      PROVE  /\ UNCHANGED <<log, tracker, items, balance>>
             /\ Taken' = Taken /\ (Pending' => Pending)
  <2>1. /\ UNCHANGED <<log, tracker, items, balance, committed>>
        /\ pc[h] \in Held /\ (NextMessage(h) \/ Leave(h))
    BY <1>2 DEF ConnectFails, RecvError
  <2>2. \A g \in Tasks : pc'[g] # "write"
    BY <1>0, <2>1, NextMessageFacts DEF LockInv, Leave, TypeOK
  <2> QED BY <2>1, <2>2 DEF Taken, Pending
<1>3. ASSUME AutoCommit \/ BreakPg \/ Crash
      PROVE  /\ UNCHANGED <<log, tracker, items, balance>>
             /\ Taken' = Taken /\ (Pending' => Pending)
  <2>1. /\ UNCHANGED <<log, tracker, items, balance>>
        /\ AutoCommit \/ UNCHANGED committed
        /\ Pending' => Pending
    BY <1>3 DEF AutoCommit, BreakPg, Crash, Pending
  <2>2. EO \in Routes => committed'[EO] = committed[EO]
    <3>1. CASE AutoCommit
      BY <1>0, <3>1, OffsetOfBankEO
    <3>2. CASE UNCHANGED committed
      BY <3>2
    <3> QED BY <2>1, <3>1, <3>2
  <2> QED BY <2>1, <2>2 DEF Taken, EO
<1> QED BY <1>1, <1>2, <1>3, UnseenMaps DEF Serve, Work, Failure

\* A step of the consumer keeps TakenInv and is one of Consumption.
LEMMA ConsumptionStep ==
  ASSUME IInv, TakenInv, [Next]_vars
  PROVE  TakenInv' /\ [Abstract!Next]_(Abstract!vars)
<1>1. CASE Serve
  <2>1. TakenInv'
    BY <1>1, TakenStep
  <2>2. [Abstract!Next]_(Abstract!vars)
    BY <1>1, CommitMaps, CountMaps, BookMaps, OtherMaps
  <2> QED BY <2>1, <2>2
<1>2. CASE Publish \/ Settle
  <2>1. /\ (\E t \in Topics, i \in Ids : Write(t, i)) \/ SettleOpen
        /\ UNCHANGED <<tracker, group, accounts, service, task>>
    BY <1>2 DEF Publish, Settle
  <2>2. Taken' = Taken /\ Pending' = Pending
    BY <2>1 DEF Taken, Pending
  <2>3. Abstract!Publish
    BY <2>1, <2>2, SameWrites DEF Abstract!Publish, Abstract!counts
  <2>4. TakenInv'
    BY <2>1 DEF TakenInv
  <2> QED BY <2>3, <2>4 DEF Abstract!Next
<1>3. CASE UNCHANGED vars
  <2>1. Taken' = Taken /\ Pending' = Pending
    BY <1>3 DEF Taken, Pending
  <2> QED BY <1>3, <2>1 DEF TakenInv, Abstract!vars, Abstract!counts
<1> QED BY <1>1, <1>2, <1>3 DEF Next

\* Nothing has been taken at the start.
LEMMA InitConsumption == Init => TakenInv /\ Abstract!Init
<1> SUFFICES ASSUME Init PROVE TakenInv /\ Abstract!Init
  OBVIOUS
<1>1. Pending = FALSE
  BY DEF Init, Pending
<1>2. Taken = 0
  BY DEF Init, Taken
<1> QED BY <1>1, <1>2 DEF Init, TakenInv, AccountsInit, Abstract!Init,
        Abstract!AccountsInit, Abstract!Topics

\* The consumer implements Consumption: whatever is restarted, rebalanced,
\* retried or disconnected, a message of the exactly-once topic is taken once
\* and counted at most once, and only counted rows are written to the
\* accounts, each time as a whole.
THEOREM ConsumerImplementsConsumption == Spec => ConsumptionSpec
<1>1. IInv /\ TakenInv /\ [Next]_vars
        => TakenInv' /\ [Abstract!Next]_(Abstract!vars)
  BY ConsumptionStep
<1> QED
  BY <1>1, InitConsumption, ConsumerInvariant, PTL
  DEF Spec, ConsumptionSpec, Abstract!Spec
-----------------------------------------------------------------------------
(* What follows from Consumption about the order                           *)

\* A row counted on the exactly-once route has a copy that is taken.
CountedTaken ==
  \A i \in Ids : EO \in Routes /\ consumerType[i] = EO =>
    \E k \in Offsets("bankEO") : k <= Taken /\ log["bankEO"][k].id = i

\* The topics only grow, whichever service makes the step.
LEMMA TopicsGrow ==
  ASSUME IInv, AscendingInv, [Next]_vars
  PROVE  LogExtends /\ AscendingInv'
<1>0. LogType
  BY DEF IInv, TypeOK
<1>1. CASE Serve \/ UNCHANGED vars
  BY <1>0, <1>1, ServeLog, NothingExtends DEF vars
<1>2. CASE Publish
  BY <1>0, <1>2, WriteExtends DEF Publish
<1>3. CASE Settle
  BY <1>0, <1>3, SettleExtends DEF Settle
<1> QED BY <1>1, <1>2, <1>3 DEF Next

\* The message that may still be counted is one of the topic.
LEMMA PendingIsThere ==
  ASSUME IInv, TakenInv, Pending
  PROVE  /\ EO \in Routes
         /\ Taken \in Offsets("bankEO") /\ log["bankEO"][Taken].id \in Ids
<1>1. PICK h \in Tasks : pc[h] = "write" /\ route[h] = EO
  BY DEF Pending, EO
<1>2. EO \in Routes /\ Taken = hand[h]
  BY <1>1, WriteRoute DEF IInv, TakenInv, Taken, EO
<1>3. hand[h] \in DOMAIN log["bankEO"]
  BY <1>1 DEF IInv, HandInv, TopicOf, EO, InHand
<1> QED BY <1>2, <1>3, TopicFacts DEF IInv, TypeOK, Offsets, Entry

\* A step of Consumption that counts a row on the exactly-once route counts
\* the message taken last, which is no earlier row than those counted before.
LEMMA OrderOfCounts ==
  ASSUME IInv, TakenInv, AscendingInv, CountedTaken, [Next]_vars
  PROVE  /\ CountedTaken'
         /\ \A i, j \in Ids :
              /\ j < i /\ consumerType[i] = EO
              /\ consumedCount'[j] # consumedCount[j]
              => consumerType'[j] # EO
<1>0. /\ Taken \in Nat /\ LogExtends /\ [Abstract!Next]_(Abstract!vars)
      /\ consumerType \in [Ids -> Routes \cup {NoRoute}]
      /\ consumedCount \in [Ids -> Nat]
  BY TopicsGrow, ConsumptionStep DEF IInv, TypeOK, Taken
<1>1. ASSUME Taken' \in Nat, Taken' >= Taken, UNCHANGED tracker
      PROVE  /\ CountedTaken'
             /\ \A j \in Ids : consumedCount'[j] = consumedCount[j]
  <2> SUFFICES ASSUME EO \in Routes, NEW i \in Ids, consumerType[i] = EO
               PROVE  \E k \in DOMAIN log'["bankEO"] :
                        k <= Taken' /\ log'["bankEO"][k].id = i
    BY <1>1 DEF CountedTaken, tracker, Offsets
  <2>1. PICK k \in DOMAIN log["bankEO"] :
          k <= Taken /\ log["bankEO"][k].id = i
    BY DEF CountedTaken, Offsets
  <2>2. /\ k \in DOMAIN log'["bankEO"] /\ log'["bankEO"][k].id = i
        /\ k \in Nat
    BY <1>0, <2>1, TopicFacts DEF LogExtends, Topics, IInv, TypeOK
  <2>3. k <= Taken'
    BY <1>0, <1>1, <2>1, <2>2
  <2> QED BY <2>2, <2>3
<1>2. CASE Abstract!CountTaken
  <2> DEFINE n == log["bankEO"][Taken].id
  <2>1. /\ Taken \in DOMAIN log["bankEO"] /\ n \in Ids /\ EO \in Routes
        /\ UNCHANGED log /\ Taken' = Taken
        /\ consumerType' = [consumerType EXCEPT ![n] = EO]
        /\ consumedCount' = [consumedCount EXCEPT ![n] = @ + 1]
    BY <1>2, PendingIsThere
       DEF Abstract!CountTaken, Abstract!Count, Offsets, EO
  <2>2. CountedTaken'
    <3> SUFFICES ASSUME EO \in Routes, NEW i \in Ids, consumerType'[i] = EO
                 PROVE  \E k \in DOMAIN log["bankEO"] :
                          k <= Taken /\ log["bankEO"][k].id = i
      BY <2>1 DEF CountedTaken, Offsets
    <3>1. CASE i = n
      BY <1>0, <2>1, <3>1
    <3>2. CASE i # n
      BY <1>0, <2>1, <3>2 DEF CountedTaken, Offsets
    <3> QED BY <3>1, <3>2
  <2>3. ASSUME NEW i \in Ids, NEW j \in Ids, j < i, consumerType[i] = EO,
               consumedCount'[j] # consumedCount[j]
        PROVE  FALSE
    <3>1. j = n
      BY <1>0, <2>1, <2>3
    <3>2. PICK k \in DOMAIN log["bankEO"] :
            k <= Taken /\ log["bankEO"][k].id = i
      BY <2>1, <2>3 DEF CountedTaken, Offsets
    <3>3. k \in Nat /\ (k < Taken => i <= n) /\ (k = Taken => i = n)
      BY <2>1, <3>2, TopicFacts DEF AscendingInv, Topics, IInv, TypeOK
    <3> QED BY <1>0, <2>1, <2>3, <3>1, <3>2, <3>3, IdsAssumption
  <2> QED BY <2>2, <2>3
<1>3. ASSUME NEW k \in Abstract!Visible("bankAO"), Abstract!CountPlain(k)
      PROVE  /\ CountedTaken'
             /\ \A j \in Ids : consumedCount'[j] # consumedCount[j]
                                 => consumerType'[j] # EO
  <2> DEFINE n == log["bankAO"][k].id
  <2>1. /\ UNCHANGED log /\ Taken' = Taken
        /\ consumerType' = [consumerType EXCEPT ![n] = "atleast_once"]
        /\ consumedCount' = [consumedCount EXCEPT ![n] = @ + 1]
    BY <1>3 DEF Abstract!CountPlain, Abstract!Count
  <2>2. \A i \in Ids : consumerType'[i] = EO => consumerType[i] = EO
    BY <1>0, <2>1 DEF EO
  <2>3. CountedTaken'
    BY <2>1, <2>2 DEF CountedTaken, Offsets
  <2>4. \A j \in Ids : consumedCount'[j] # consumedCount[j]
                         => consumerType'[j] # EO
    BY <1>0, <2>1 DEF EO
  <2> QED BY <2>3, <2>4
<1>4. \/ Taken' \in Nat /\ Taken' >= Taken /\ UNCHANGED tracker
      \/ Abstract!CountTaken
      \/ \E k \in Abstract!Visible("bankAO") : Abstract!CountPlain(k)
  <2>1. CASE \E k \in Abstract!Visible("bankEO") : Abstract!Take(k)
    <3>1. PICK k \in Abstract!Visible("bankEO") : Abstract!Take(k)
      BY <2>1
    <3>2. k \in Nat
      BY TopicFacts
         DEF Abstract!Visible, Abstract!Offsets, IInv, TypeOK, Topics
    <3> QED BY <1>0, <3>1, <3>2 DEF Abstract!Take, Abstract!counts, tracker
  <2>2. CASE \/ Abstract!Publish \/ Abstract!Forget
             \/ \E i \in Ids : Abstract!Book(i)
             \/ UNCHANGED Abstract!vars
    BY <1>0, <2>2 DEF Abstract!Publish, Abstract!Forget, Abstract!Book,
                      Abstract!vars, Abstract!counts, tracker
  <2> QED BY <1>0, <2>1, <2>2 DEF Abstract!Next
<1> QED BY <1>1, <1>2, <1>3, <1>4

\* README, property 5, for the exactly-once route, through any restarts,
\* rebalances and failed commits: it may lose rows, but never goes back.
THEOREM NeverGoesBack == Spec => NeverBack
<1>1. Init => AscendingInv /\ CountedTaken
  BY ConsumerAssumption
     DEF Init, AscendingInv, CountedTaken, EO
<1>2. /\ IInv /\ TakenInv /\ AscendingInv /\ CountedTaken /\ [Next]_vars
      => /\ TakenInv' /\ AscendingInv' /\ CountedTaken'
         /\ [\A i, j \in Ids :
               /\ j < i /\ consumerType[i] = "exactly_once"
               /\ consumedCount'[j] # consumedCount[j]
               => consumerType'[j] # "exactly_once"]_vars
  BY ConsumptionStep, TopicsGrow, OrderOfCounts DEF EO
<1> QED
  BY <1>1, <1>2, InitConsumption, ConsumerInvariant, PTL DEF Spec, NeverBack
-----------------------------------------------------------------------------
(* What a restart or a failure costs                                       *)

\* Offset k has been given to the consumer of route r, or committed for it.
Reached(r, k) == k <= committed[r] \/ k <= position[r]

\* Only settled entries are, also where a restart or a rebalance takes the
\* consumer back; the message in hand is the last one delivered.
ReachInv ==
  /\ \A r \in Routes :
       /\ committed[r] <= Len(log[TopicOf(r)])
       /\ position[r] <= Len(log[TopicOf(r)])
       /\ \A k \in DOMAIN log[TopicOf(r)] :
            Reached(r, k) => log[TopicOf(r)][k].status # "open"
  /\ \A h \in Tasks : pc[h] \in InHand => hand[h] = position[route[h]]

\* The rows that are reached and not counted, and those about to be counted.
Missed ==
  {i \in Ids :
     /\ consumedCount[i] = 0
     /\ \E r \in Routes : \E k \in Committed(TopicOf(r), i) : Reached(r, k)}

Carried == RowsInHand({"commit", "write"})

LossInv ==
  /\ IsFiniteSet(Missed \ Carried)
  /\ Cardinality(Missed \ Carried) <= Spent("commit")

\* A step after which nothing more is reached, and no more is in hand.
Quiet ==
  /\ \A r \in Routes : /\ position'[r] \in {0, position[r], committed[r]}
                       /\ committed'[r] \in {committed[r], position[r]}
  /\ \A h \in Tasks : pc'[h] \in InHand =>
       /\ pc[h] \in InHand /\ hand'[h] = hand[h] /\ route'[h] = route[h]
       /\ position'[route[h]] = position[route[h]]

\* Every step of the service but the receipt of a message is one.
LEMMA QuietStep ==
  ASSUME IInv, ReachInv, Serve, \A h \in Tasks : ~ Recv(h)
  PROVE  Quiet
<1>0. /\ TypeOK /\ LockInv
      /\ position \in [Routes -> Nat] /\ committed \in [Routes -> Nat]
      /\ pc \in [Tasks -> Steps]
      /\ \A h \in Tasks : pc[h] \in InHand => hand[h] = position[route[h]]
      /\ \A h \in Tasks : pc[h] # "idle" => route[h] \in Routes
  BY DEF IInv, TypeOK, ReachInv
<1>a. \A h \in Tasks, g \in Tasks :
        pc[h] \in Held /\ pc[g] \in Held => g = h
  BY <1>0 DEF LockInv
<1>b. ASSUME UNCHANGED group,
             \A h \in Tasks : pc'[h] \in InHand =>
               pc[h] \in InHand /\ hand'[h] = hand[h] /\ route'[h] = route[h]
      PROVE  Quiet
  BY <1>b DEF Quiet
<1>c. ASSUME NEW h \in Tasks, pc[h] \in Held, NextMessage(h)
      PROVE  \A g \in Tasks : pc'[g] \notin InHand
  BY <1>0, <1>a, <1>c, NextMessageFacts
<1>1. ASSUME NEW h \in Tasks,
             Request(h) \/ Connect(h) \/ CreateTable(h) \/ CreateTableLost(h)
               \/ WriteConsumed(h) \/ WriteLost(h) \/ ApplyAgain(h)
      PROVE  Quiet
  <2>1. UNCHANGED group
    BY <1>1 DEF Request, Connect, CreateTable, CreateTableLost,
       WriteConsumed, WriteLost, ApplyAgain
  <2>2. \A g \in Tasks : pc'[g] \in InHand =>
          pc[g] \in InHand /\ hand'[g] = hand[g] /\ route'[g] = route[g]
    BY <1>0, <1>1 DEF Request, Connect, CreateTable, CreateTableLost,
       WriteConsumed, WriteLost, ApplyAgain, TypeOK
  <2> QED BY <1>b, <2>1, <2>2
<1>2. ASSUME NEW h \in Tasks, RecvError(h) \/ ApplyRow(h) \/ ApplyFatal(h)
      PROVE  Quiet
  <2>1. UNCHANGED group /\ pc[h] \in Held /\ NextMessage(h)
    BY <1>2 DEF RecvError, ApplyRow, ApplyFatal
  <2> QED BY <1>b, <1>c, <2>1
<1>3. ASSUME NEW h \in Tasks, ConnectFails(h) PROVE Quiet
  <2>1. UNCHANGED group
    BY <1>3 DEF ConnectFails
  <2>2. \A g \in Tasks : pc'[g] \in InHand =>
          pc[g] \in InHand /\ hand'[g] = hand[g] /\ route'[g] = route[g]
    BY <1>0, <1>3 DEF ConnectFails, Leave, TypeOK
  <2> QED BY <1>b, <2>1, <2>2
<1>4. ASSUME NEW h \in Tasks, Acquire(h) PROVE Quiet
  <2>1. /\ UNCHANGED committed
        /\ \A r \in Routes : position'[r] \in {position[r], committed[r]}
    BY <1>0, <1>4 DEF Acquire, StartOffset
  <2>2. \A g \in Tasks : pc'[g] \notin InHand
    BY <1>0, <1>4, ConsumerAssumption DEF Acquire, LockInv
  <2> QED BY <2>1, <2>2 DEF Quiet
<1>5. ASSUME NEW h \in Tasks, Subscribe(h) \/ Rebalance(h) PROVE Quiet
  <2>1. \A g \in Tasks : pc'[g] \notin InHand
    BY <1>0, <1>a, <1>5 DEF Subscribe, Rebalance
  <2>2. \A r \in Routes : /\ position'[r] \in {position[r], committed[r]}
                          /\ committed'[r] \in {committed[r], position[r]}
    BY <1>0, <1>5 DEF Subscribe, Rebalance
  <2> QED BY <2>1, <2>2 DEF Quiet
<1>6. ASSUME NEW h \in Tasks, CommitOffset(h) PROVE Quiet
  <2>1. /\ committed' = [committed EXCEPT ![route[h]] = position[route[h]]]
        /\ UNCHANGED <<position, hand, route>> /\ pc[h] = "commit"
        /\ pc' = [pc EXCEPT ![h] = "write"]
    BY <1>0, <1>6 DEF CommitOffset, CommitHand
  <2>2. \A r \in Routes : committed'[r] \in {committed[r], position[r]}
    BY <1>0, <2>1
  <2>3. \A g \in Tasks : pc'[g] \in InHand => pc[g] \in InHand
    BY <1>0, <2>1
  <2> QED BY <2>1, <2>2, <2>3 DEF Quiet
<1>7. ASSUME NEW h \in Tasks, CommitOffsetFails(h) PROVE Quiet
  <2>1. /\ \/ committed' = [committed EXCEPT ![route[h]] = position[route[h]]]
           \/ committed' = committed
        /\ UNCHANGED position /\ pc[h] \in Held /\ NextMessage(h)
    BY <1>0, <1>7 DEF CommitOffsetFails, CommitHand
  <2>2. \A r \in Routes : committed'[r] \in {committed[r], position[r]}
    BY <1>0, <2>1
  <2>3. \A g \in Tasks : pc'[g] \notin InHand
    BY <1>c, <2>1
  <2> QED BY <2>1, <2>2, <2>3 DEF Quiet
<1>8. CASE AutoCommit
  <2>1. /\ UNCHANGED <<position, pc, hand, route>>
        /\ \A r \in Routes : committed'[r] \in {committed[r], position[r]}
    BY <1>0, <1>8 DEF AutoCommit
  <2> QED BY <2>1 DEF Quiet
<1>9. CASE BreakPg
  BY <1>b, <1>9 DEF BreakPg
<1>10. CASE Crash
  <2>1. /\ UNCHANGED committed /\ \A r \in Routes : position'[r] = 0
        /\ \A g \in Tasks : pc'[g] \notin InHand
    BY <1>10 DEF Crash
  <2> QED BY <2>1 DEF Quiet
<1> QED
  BY <1>1, <1>2, <1>3, <1>4, <1>5, <1>6, <1>7, <1>8, <1>9, <1>10
     DEF Serve, Work, Failure

\* What is received is the next settled message of the topic.
LEMMA RecvMoves ==
  ASSUME IInv, ReachInv, NEW h \in Tasks, Recv(h)
  PROVE  /\ route[h] \in Routes /\ UNCHANGED <<log, committed, consumedCount>>
         /\ UNCHANGED <<route, items, crashes, faults>>
         /\ \A r \in Routes \ {route[h]} : position'[r] = position[r]
         /\ \A g \in Tasks \ {h} : pc[g] \notin Held /\ pc'[g] \notin Held
         /\ pc[h] = "recv" /\ pc'[h] \in {"commit", "write"}
         /\ position'[route[h]] = hand'[h]
         /\ hand'[h] \in DOMAIN log[TopicOf(route[h])]
         /\ position[route[h]] < hand'[h]
         /\ log[TopicOf(route[h])][hand'[h]].status = "committed"
         /\ \A j \in DOMAIN log[TopicOf(route[h])] :
              position[route[h]] < j /\ j < hand'[h]
                => log[TopicOf(route[h])][j].status = "aborted"
<1>0. /\ TypeOK /\ LockInv
      /\ position \in [Routes -> Nat] /\ pc \in [Tasks -> Steps]
      /\ hand \in [Tasks -> Nat] /\ TopicOf(route[h]) \in Topics
  BY DEF IInv, TypeOK, TopicOf
<1>1. PICK k \in DOMAIN log[TopicOf(route[h])] :
        /\ IsNext(TopicOf(route[h]), position[route[h]], k)
        /\ position' = [position EXCEPT ![route[h]] = k]
        /\ hand' = [hand EXCEPT ![h] = k]
  BY DEF Recv
<1>2. hand'[h] = k /\ route[h] \in Routes /\ pc[h] = "recv"
  BY <1>0, <1>1 DEF Recv, TypeOK
<1>3. /\ position'[route[h]] = k
      /\ \A r \in Routes \ {route[h]} : position'[r] = position[r]
  BY <1>0, <1>1, <1>2
<1>4. /\ \A g \in Tasks \ {h} : pc[g] \notin Held /\ pc'[g] \notin Held
      /\ pc'[h] \in {"commit", "write"}
  <2>1. \A g \in Tasks \ {h} : pc[g] \notin Held
    BY <1>0, <1>2, PendingOfHolder
  <2> QED BY <1>0, <2>1 DEF Recv, AfterRecv
<1>5. /\ UNCHANGED <<log, committed, consumedCount>>
      /\ UNCHANGED <<route, items, crashes, faults>>
  BY DEF Recv
<1> QED BY <1>1, <1>2, <1>3, <1>4, <1>5 DEF IsNext

\* A step of the service reaches settled entries only.
LEMMA ReachStep ==
  ASSUME IInv, ReachInv, Serve
  PROVE  ReachInv'
<1>0. /\ log' = log
      /\ position \in [Routes -> Nat] /\ committed \in [Routes -> Nat]
      /\ \A t \in Topics : /\ Len(log[t]) \in Nat
                           /\ DOMAIN log[t] = 1 .. Len(log[t])
      /\ \A r : TopicOf(r) \in Topics
  BY ServeLog, TopicFacts DEF IInv, TypeOK, TopicOf
<1>1. CASE \A h \in Tasks : ~ Recv(h)
  <2>1. Quiet
    BY <1>1, QuietStep
  <2>2. ASSUME NEW r \in Routes
        PROVE  /\ committed'[r] <= Len(log[TopicOf(r)])
               /\ position'[r] <= Len(log[TopicOf(r)])
               /\ \A k \in DOMAIN log[TopicOf(r)] :
                    k <= committed'[r] \/ k <= position'[r]
                      => log[TopicOf(r)][k].status # "open"
    <3>1. /\ position'[r] \in {0, position[r], committed[r]}
          /\ committed'[r] \in {committed[r], position[r]}
      BY <2>1 DEF Quiet
    <3>2. /\ committed[r] <= Len(log[TopicOf(r)])
          /\ position[r] <= Len(log[TopicOf(r)])
          /\ \A k \in DOMAIN log[TopicOf(r)] :
               k <= committed[r] \/ k <= position[r]
                 => log[TopicOf(r)][k].status # "open"
      BY DEF ReachInv, Reached
    <3>3. /\ position[r] \in Nat /\ committed[r] \in Nat
          /\ Len(log[TopicOf(r)]) \in Nat
          /\ \A k \in DOMAIN log[TopicOf(r)] : k \in Nat /\ ~(k <= 0)
      BY <1>0
    <3> QED BY <3>1, <3>2, <3>3
  <2>3. \A h \in Tasks : pc'[h] \in InHand => hand'[h] = position'[route'[h]]
    BY <2>1 DEF Quiet, ReachInv
  <2> QED BY <1>0, <2>2, <2>3 DEF ReachInv, Reached
<1>2. ASSUME NEW h \in Tasks, Recv(h) PROVE ReachInv'
  <2> DEFINE q == route[h]
  <2> DEFINE t == TopicOf(q)
  <2> DEFINE k == hand'[h]
  <2>1. /\ q \in Routes /\ UNCHANGED <<committed, route>>
        /\ \A r \in Routes \ {q} : position'[r] = position[r]
        /\ \A g \in Tasks \ {h} : pc'[g] \notin Held
        /\ position'[q] = k /\ k \in DOMAIN log[t]
        /\ log[t][k].status = "committed"
        /\ \A j \in DOMAIN log[t] :
             position[q] < j /\ j < k => log[t][j].status = "aborted"
    BY <1>2, RecvMoves
  <2>2. t \in Topics /\ Len(log[t]) \in Nat /\ DOMAIN log[t] = 1 .. Len(log[t])
    BY <1>0
  <2>3. /\ committed[q] <= Len(log[t])
        /\ \A j \in DOMAIN log[t] :
             j <= committed[q] \/ j <= position[q] => log[t][j].status # "open"
    BY <2>1 DEF ReachInv, Reached
  <2>4. position[q] \in Nat /\ committed[q] \in Nat
    BY <1>0, <2>1
  <2> HIDE DEF t, k, q
  <2>5. k \in Nat /\ k <= Len(log[t])
    BY <2>1, <2>2
  <2>6. \A j \in DOMAIN log[t] :
          j <= committed[q] \/ j <= k => log[t][j].status # "open"
    <3> SUFFICES ASSUME NEW j \in DOMAIN log[t], j <= k
                 PROVE  log[t][j].status # "open"
      BY <2>3
    <3>1. j \in Nat
      BY <2>2
    <3>2. CASE j <= position[q]
      BY <2>3, <3>2
    <3>3. CASE position[q] < j /\ j < k
      BY <2>1, <3>3
    <3>4. CASE j = k
      BY <2>1, <3>4
    <3> QED BY <2>4, <2>5, <3>1, <3>2, <3>3, <3>4
  <2>7. ASSUME NEW r \in Routes
        PROVE  /\ committed'[r] <= Len(log'[TopicOf(r)])
               /\ position'[r] <= Len(log'[TopicOf(r)])
               /\ \A j \in DOMAIN log'[TopicOf(r)] :
                    j <= committed'[r] \/ j <= position'[r]
                      => log'[TopicOf(r)][j].status # "open"
    <3>1. CASE r = q
      BY <1>0, <2>1, <2>3, <2>5, <2>6, <3>1 DEF t
    <3>2. CASE r # q
      BY <1>0, <2>1, <3>2 DEF ReachInv, Reached
    <3> QED BY <3>1, <3>2
  <2>8. \A g \in Tasks : pc'[g] \in InHand => hand'[g] = position'[route'[g]]
    BY <2>1 DEF q, k
  <2> QED BY <2>7, <2>8 DEF ReachInv, Reached
<1> QED BY <1>1, <1>2

\* What is reached is there and settled, and stays as it is.
LEMMA ReachedStays ==
  ASSUME IInv, ReachInv, LogExtends, LogType', UNCHANGED group
  PROVE  \A r \in Routes : \A k \in DOMAIN log'[TopicOf(r)] :
           Reached(r, k) =>
             /\ k \in DOMAIN log[TopicOf(r)]
             /\ log[TopicOf(r)][k].status # "open"
             /\ log'[TopicOf(r)][k].status = log[TopicOf(r)][k].status
             /\ log'[TopicOf(r)][k].id = log[TopicOf(r)][k].id
<1> TAKE r \in Routes
<1> TAKE k \in DOMAIN log'[TopicOf(r)]
<1> HAVE Reached(r, k)
<1>1. TopicOf(r) \in Topics
  BY DEF TopicOf
<1>2. /\ Len(log[TopicOf(r)]) \in Nat /\ k \in Nat
      /\ position[r] \in Nat /\ committed[r] \in Nat
  <2>1. Len(log[TopicOf(r)]) \in Nat
    BY <1>1, TopicFacts DEF IInv, TypeOK
  <2>2. log'[TopicOf(r)] \in Seq(Entry)
    BY <1>1 DEF LogType
  <2>3. k \in Nat
    BY <2>2
  <2> QED BY <2>1, <2>3 DEF IInv, TypeOK
<1>3. k <= Len(log[TopicOf(r)])
  BY <1>2 DEF Reached, ReachInv
<1>4. k \in DOMAIN log[TopicOf(r)]
  BY <1>1, <1>3 DEF LogExtends
<1>5. log[TopicOf(r)][k].status # "open"
  BY <1>4 DEF ReachInv
<1> QED BY <1>1, <1>4, <1>5 DEF LogExtends

\* What the producer does to the topics does not change that.
LEMMA ReachExtends ==
  ASSUME IInv, ReachInv, LogExtends, LogType', UNCHANGED <<group, task>>
  PROVE  ReachInv'
<1>1. \A r \in Routes : \A k \in DOMAIN log'[TopicOf(r)] :
        Reached(r, k)' => log'[TopicOf(r)][k].status # "open"
  BY ReachedStays DEF Reached
<1>2. ASSUME NEW r \in Routes
      PROVE  /\ committed'[r] <= Len(log'[TopicOf(r)])
             /\ position'[r] <= Len(log'[TopicOf(r)])
  <2>1. /\ TopicOf(r) \in Topics
        /\ committed[r] <= Len(log[TopicOf(r)])
        /\ position[r] <= Len(log[TopicOf(r)])
    BY DEF TopicOf, ReachInv
  <2>2. Len(log[TopicOf(r)]) <= Len(log'[TopicOf(r)])
    BY <2>1 DEF LogExtends
  <2>3. /\ position[r] \in Nat /\ committed[r] \in Nat
        /\ Len(log[TopicOf(r)]) \in Nat
    BY <2>1, TopicFacts DEF IInv, TypeOK
  <2>4. log'[TopicOf(r)] \in Seq(Entry)
    BY <2>1 DEF LogType
  <2>5. Len(log'[TopicOf(r)]) \in Nat
    BY <2>4
  <2> QED BY <2>1, <2>2, <2>3, <2>5
<1>3. \A h \in Tasks : pc'[h] \in InHand => hand'[h] = position'[route'[h]]
  BY DEF ReachInv
<1> QED BY <1>1, <1>2, <1>3 DEF ReachInv

\* A bound on a set that loses elements is kept.
LEMMA BoundKept ==
  ASSUME NEW A, NEW B, NEW m \in Nat, NEW n \in Nat,
         IsFiniteSet(A) /\ Cardinality(A) <= m, B \subseteq A, m <= n
  PROVE  IsFiniteSet(B) /\ Cardinality(B) <= n
<1>1. /\ IsFiniteSet(B) /\ Cardinality(B) <= Cardinality(A)
      /\ Cardinality(A) \in Nat
  BY FS_Subset, FS_CardinalityType
<1>2. Cardinality(B) \in Nat
  BY <1>1, FS_CardinalityType
<1> QED BY <1>1, <1>2

\* One more element is within the bound plus one.
LEMMA BoundPlusOne ==
  ASSUME NEW A, NEW B, NEW x, NEW m \in Nat, NEW n \in Nat,
         IsFiniteSet(A) /\ Cardinality(A) <= m, B \subseteq A \cup {x},
         m + 1 <= n
  PROVE  IsFiniteSet(B) /\ Cardinality(B) <= n
<1>1. Cardinality(A) \in Nat
  BY FS_CardinalityType
<1>2. /\ IsFiniteSet(A \cup {x})
      /\ Cardinality(A \cup {x}) <= Cardinality(A) + 1
      /\ Cardinality(A \cup {x}) \in Nat
  <2>1. CASE x \in A
    <3>1. A \cup {x} = A
      BY <2>1
    <3> QED BY <1>1, <3>1
  <2>2. CASE x \notin A
    <3>1. /\ IsFiniteSet(A \cup {x})
          /\ Cardinality(A \cup {x}) = Cardinality(A) + 1
      BY <2>2, FS_AddElement
    <3> QED BY <1>1, <3>1
  <2> QED BY <2>1, <2>2
<1>3. Cardinality(A \cup {x}) <= m + 1 /\ m + 1 \in Nat
  BY <1>1, <1>2
<1> QED BY <1>2, <1>3, BoundKept

\* The restarts and the failures are counted.
LEMMA SpentGrows ==
  ASSUME IInv, IInv', Serve \/ UNCHANGED budget, NEW kind
  PROVE  /\ Spent(kind) \in Nat /\ Spent(kind)' \in Nat
         /\ Spent(kind) <= Spent(kind)'
         /\ Crash => Spent(kind) + 1 <= Spent(kind)'
         /\ Fault(kind) => Spent(kind) + 1 <= Spent(kind)'
<1>1. /\ crashes \in Nat /\ faults \in Nat /\ crashes' \in Nat /\ faults' \in Nat
  BY ConsumerAssumption DEF IInv, TypeOK
<1>2. crashes' \in {crashes, crashes + 1} /\ faults' \in {faults, faults + 1}
  BY DEF Serve, Work, Failure, Request, Acquire, Connect, ConnectFails,
         CreateTable, CreateTableLost, Subscribe, Recv, RecvError, Rebalance,
         CommitOffset, CommitOffsetFails, AutoCommit, WriteConsumed,
         WriteLost, BreakPg, ApplyRow, ApplyFatal, ApplyAgain, Crash, Fault
<1>3. Crash => crashes' = crashes + 1
  BY DEF Crash
<1>4. Fault(kind) => kind \in Failures /\ faults' = faults + 1
  BY DEF Fault
<1> DEFINE c == IF kind \in Failures THEN faults ELSE 0
<1>5. c \in Nat /\ c' \in Nat /\ c <= c'
  BY <1>1, <1>2
<1>6. Fault(kind) => c + 1 <= c'
  BY <1>1, <1>4
<1>7. crashes <= crashes' /\ (Crash => crashes + 1 <= crashes')
  BY <1>1, <1>2, <1>3
<1>8. Spent(kind) = crashes + c /\ Spent(kind)' = crashes' + c'
  BY DEF Spent
<1> HIDE DEF c
<1>9. \A x, y, u, v \in Nat : x <= y /\ u <= v =>
        /\ x + u \in Nat /\ y + v \in Nat /\ x + u <= y + v
        /\ x + 1 <= y => x + u + 1 <= y + v
        /\ u + 1 <= v => x + u + 1 <= y + v
  OBVIOUS
<1>10. /\ crashes + c \in Nat /\ crashes' + c' \in Nat
       /\ crashes + c <= crashes' + c'
       /\ crashes + 1 <= crashes' => crashes + c + 1 <= crashes' + c'
       /\ c + 1 <= c' => crashes + c + 1 <= crashes' + c'
  BY <1>1, <1>5, <1>7, <1>9, Zenon
<1> QED BY <1>6, <1>7, <1>8, <1>10, Zenon

\* No step takes a count back.
LEMMA CountsGrow ==
  ASSUME IInv, Serve
  PROVE  \A i \in Ids : /\ consumedCount[i] \in Nat
                        /\ consumedCount'[i] \in {consumedCount[i],
                                                  consumedCount[i] + 1}
<1>1. consumedCount \in [Ids -> Nat] /\ TypeOK /\ HandInv
  BY DEF IInv, TypeOK
<1>2. ASSUME NEW h \in Tasks, WriteConsumed(h) \/ WriteLost(h)
      PROVE  consumedCount' = [consumedCount EXCEPT ![Row(h)] = @ + 1]
               /\ Row(h) \in Ids
  BY <1>1, <1>2, RowType DEF WriteConsumed, WriteLost, Count
<1>3. \/ consumedCount' = consumedCount
      \/ \E h \in Tasks : WriteConsumed(h) \/ WriteLost(h)
  BY DEF Serve, Work, Failure, Request, Acquire, Connect, ConnectFails,
         CreateTable, CreateTableLost, Subscribe, Recv, RecvError, Rebalance,
         CommitOffset, CommitOffsetFails, AutoCommit, BreakPg, ApplyRow,
         ApplyFatal, ApplyAgain, Crash
<1>4. CASE consumedCount' = consumedCount
  BY <1>1, <1>4
<1>5. ASSUME NEW h \in Tasks, WriteConsumed(h) \/ WriteLost(h)
      PROVE  \A i \in Ids : consumedCount'[i] \in {consumedCount[i],
                                                   consumedCount[i] + 1}
  BY <1>1, <1>2, <1>5
<1> QED BY <1>1, <1>3, <1>4, <1>5

\* One message at most is in hand: that of the holder of the lock.
LEMMA InHandOfHolder ==
  ASSUME IInv, NEW steps \in SUBSET InHand
  PROVE  RowsInHand(steps) \subseteq {Row(lock)}
BY DEF RowsInHand, IInv, LockInv

\* It stays in hand where the task goes on with it.
LEMMA InHandStays ==
  ASSUME IInv, log' = log \/ LogGrows, NEW steps \in SUBSET InHand,
         \A h \in Tasks : pc[h] \in steps =>
           pc'[h] \in steps /\ hand'[h] = hand[h] /\ route'[h] = route[h]
  PROVE  RowsInHand(steps) \subseteq RowsInHand(steps)'
<1>1. ASSUME NEW h \in Tasks, pc[h] \in steps
      PROVE  pc'[h] \in steps /\ Row(h)' = Row(h)
  BY <1>1, RowStays DEF IInv
<1> QED BY <1>1 DEF RowsInHand

\* Where nothing more is reached, nothing more is missed.
LEMMA QuietMisses ==
  ASSUME IInv, ReachInv, Serve, \A h \in Tasks : ~ Recv(h)
  PROVE  Missed' \subseteq Missed
<1> SUFFICES ASSUME NEW i \in Ids, consumedCount'[i] = 0, NEW r \in Routes,
                    NEW k \in Committed(TopicOf(r), i)', Reached(r, k)'
             PROVE  i \in Missed
  BY DEF Missed, TopicOf
<1>1. consumedCount[i] = 0
  BY CountsGrow
<1>2. k \in Committed(TopicOf(r), i) /\ k \in DOMAIN log[TopicOf(r)]
  BY ServeLog DEF Committed
<1>3. k \in Nat /\ ~(k <= 0)
  BY <1>2, OffsetsFinite DEF IInv, TypeOK, TopicOf
<1>4. /\ position'[r] \in {0, position[r], committed[r]}
      /\ committed'[r] \in {committed[r], position[r]}
  BY QuietStep DEF Quiet
<1>5. Reached(r, k)
  BY <1>3, <1>4 DEF Reached
<1> QED BY <1>1, <1>2, <1>5 DEF Missed

\* A message that is received is in hand.
LEMMA RecvMisses ==
  ASSUME IInv, IInv', ReachInv, NEW h \in Tasks, Recv(h)
  PROVE  /\ Missed' \subseteq Missed \cup {Row(h)'}
         /\ Carried = {} /\ Row(h)' \in Carried'
<1> DEFINE q == route[h]
<1> DEFINE t == TopicOf(q)
<1> DEFINE m == hand'[h]
<1>1. /\ q \in Routes /\ UNCHANGED <<log, committed, consumedCount>>
      /\ UNCHANGED route
      /\ \A r \in Routes \ {q} : position'[r] = position[r]
      /\ \A g \in Tasks \ {h} : pc[g] \notin Held
      /\ pc[h] = "recv" /\ pc'[h] \in {"commit", "write"}
      /\ position'[q] = m /\ m \in DOMAIN log[t]
      /\ \A j \in DOMAIN log[t] :
           position[q] < j /\ j < m => log[t][j].status = "aborted"
  BY RecvMoves
<1>2. /\ Row(h)' = log[t][m].id
      /\ \A j \in DOMAIN log[t] : j \in Nat
      /\ position[q] \in Nat
  BY <1>1, OffsetsFinite DEF Row, TopicOf, IInv, TypeOK
<1>3. Carried = {} /\ Row(h)' \in Carried'
  BY <1>1 DEF Carried, RowsInHand
<1>4. ASSUME NEW i \in Ids, consumedCount'[i] = 0, NEW r \in Routes,
             NEW k \in Committed(TopicOf(r), i)', Reached(r, k)',
             i # Row(h)'
      PROVE  i \in Missed
  <2>1. /\ consumedCount[i] = 0 /\ k \in Committed(TopicOf(r), i)
        /\ k \in DOMAIN log[TopicOf(r)]
        /\ log[TopicOf(r)][k].id = i /\ log[TopicOf(r)][k].status = "committed"
        /\ k <= committed[r] \/ k <= position'[r]
    BY <1>1, <1>4 DEF Committed, Reached
  <2>2. CASE r # q
    BY <1>1, <2>1, <2>2 DEF Missed, Reached
  <2>3. CASE r = q
    <3>1. k # m /\ k \in Nat /\ m \in Nat
      BY <1>1, <1>2, <1>4, <2>1, <2>3
    <3>2. k <= committed[r] \/ k <= position[r]
      <4> SUFFICES ASSUME k <= m, ~ (k <= position[r]) PROVE FALSE
        BY <1>1, <2>1, <2>3
      <4>1. position[q] < k /\ k < m
        BY <1>2, <2>3, <3>1
      <4>2. log[t][k].status = "aborted"
        BY <1>1, <2>1, <2>3, <4>1
      <4> QED BY <2>1, <2>3, <4>2
    <3> QED BY <2>1, <3>2 DEF Missed, Reached
  <2> QED BY <2>2, <2>3
<1>5. Missed' \subseteq Missed \cup {Row(h)'}
  BY <1>4 DEF Missed, TopicOf
<1> QED BY <1>3, <1>5

\* A step of the service adds to the messages missed and not in hand only at
\* the price of a failed commit or a restart.
LEMMA LossStep ==
  ASSUME IInv, IInv', ReachInv, LossInv, Serve
  PROVE  LossInv'
<1> DEFINE S == Spent("commit")
<1>0. /\ S \in Nat /\ S' \in Nat /\ S <= S'
      /\ Crash => S + 1 <= S'
      /\ Fault("commit") => S + 1 <= S'
      /\ log' = log
      /\ TypeOK /\ LockInv /\ pc \in [Tasks -> Steps]
  BY SpentGrows, ServeLog DEF IInv, TypeOK
<1>a. ASSUME Missed' \ Carried' \subseteq Missed \ Carried
      PROVE  LossInv'
  BY <1>0, <1>a, BoundKept DEF LossInv
<1>b. ASSUME Missed' \subseteq Missed, S + 1 <= S'
      PROVE  LossInv'
  <2>1. Carried \subseteq {Row(lock)}
    BY InHandOfHolder DEF Carried
  <2>2. Missed' \ Carried' \subseteq (Missed \ Carried) \cup {Row(lock)}
    BY <1>b, <2>1
  <2> QED BY <1>0, <1>b, <2>2, BoundPlusOne DEF LossInv
<1>c. ASSUME Missed' \subseteq Missed,
             \A h \in Tasks : pc[h] \in {"commit", "write"} =>
               /\ pc'[h] \in {"commit", "write"}
               /\ hand'[h] = hand[h] /\ route'[h] = route[h]
      PROVE  LossInv'
  <2>1. Carried \subseteq Carried'
    BY <1>0, <1>c, InHandStays DEF Carried
  <2> QED BY <1>a, <1>c, <2>1
<1>1. ASSUME NEW h \in Tasks, Recv(h) PROVE LossInv'
  <2>1. /\ Missed' \subseteq Missed \cup {Row(h)'}
        /\ Carried = {} /\ Row(h)' \in Carried'
    BY <1>1, RecvMisses
  <2> QED BY <1>a, <2>1
<1>2. CASE \A h \in Tasks : ~ Recv(h)
  <2>0. Missed' \subseteq Missed
    BY <1>2, QuietMisses
  <2>1. ASSUME NEW h \in Tasks, CommitOffsetFails(h) PROVE LossInv'
    BY <1>0, <1>b, <2>0, <2>1 DEF CommitOffsetFails
  <2>2. CASE Crash
    BY <1>0, <1>b, <2>0, <2>2
  <2>3. ASSUME NEW h \in Tasks, WriteConsumed(h) \/ WriteLost(h)
        PROVE  LossInv'
    <3>1. /\ pc[h] = "write" /\ Row(h) \in Ids
          /\ consumedCount' = [consumedCount EXCEPT ![Row(h)] = @ + 1]
      BY <1>0, <2>3, RowType DEF IInv, WriteConsumed, WriteLost, Count
    <3>2. lock = h
      BY <1>0, <3>1 DEF LockInv
    <3>3. consumedCount'[Row(h)] # 0
      BY <1>0, <3>1 DEF TypeOK
    <3>4. Row(h) \notin Missed'
      BY <3>3 DEF Missed
    <3>5. Carried \subseteq {Row(h)}
      BY <3>2, InHandOfHolder DEF Carried
    <3> QED BY <1>a, <2>0, <3>4, <3>5
  <2>4. ASSUME NEW h \in Tasks,
               Request(h) \/ Acquire(h) \/ Connect(h) \/ CreateTable(h)
                 \/ CreateTableLost(h) \/ Subscribe(h) \/ Rebalance(h)
                 \/ CommitOffset(h) \/ ApplyAgain(h)
        PROVE  LossInv'
    <3>1. \A g \in Tasks : pc[g] \in {"commit", "write"} =>
            /\ pc'[g] \in {"commit", "write"}
            /\ hand'[g] = hand[g] /\ route'[g] = route[g]
      BY <1>0, <2>4 DEF Request, Acquire, Connect, CreateTable,
         CreateTableLost, Subscribe, Rebalance, CommitOffset, ApplyAgain,
         TypeOK
    <3> QED BY <1>c, <2>0, <3>1
  <2>5. ASSUME NEW h \in Tasks,
               ConnectFails(h) \/ RecvError(h) \/ ApplyRow(h) \/ ApplyFatal(h)
        PROVE  LossInv'
    <3>1. /\ pc[h] \notin {"idle", "commit", "write"}
          /\ NextMessage(h) \/ Leave(h)
      BY <2>5 DEF ConnectFails, RecvError, ApplyRow, ApplyFatal
    <3>2. \A g \in Tasks : pc[g] \in {"commit", "write"} =>
            /\ pc'[g] \in {"commit", "write"}
            /\ hand'[g] = hand[g] /\ route'[g] = route[g]
      BY <1>0, <3>1, NextMessageFacts DEF Leave, TypeOK
    <3> QED BY <1>c, <2>0, <3>2
  <2>6. CASE AutoCommit \/ BreakPg
    <3>1. UNCHANGED <<pc, hand, route>>
      BY <2>6 DEF AutoCommit, BreakPg
    <3> QED BY <1>c, <2>0, <3>1
  <2> QED
    BY <1>2, <2>1, <2>2, <2>3, <2>4, <2>5, <2>6 DEF Serve, Work, Failure
<1> QED BY <1>1, <1>2

\* What the producer does to the topics adds to them nothing.
LEMMA LossExtends ==
  ASSUME IInv, IInv', ReachInv, LossInv, LogExtends,
         UNCHANGED <<tracker, group, accounts, service, task, budget>>
  PROVE  LossInv'
<1>1. LogType' /\ LogGrows
  BY DEF IInv, TypeOK, LogExtends, LogGrows
<1>2. Missed' \subseteq Missed
  <2> SUFFICES ASSUME NEW i \in Ids, consumedCount[i] = 0, NEW r \in Routes,
                      NEW k \in Committed(TopicOf(r), i)', Reached(r, k)
               PROVE  i \in Missed
    BY DEF Missed, TopicOf, Reached
  <2>1. /\ k \in DOMAIN log'[TopicOf(r)] /\ log'[TopicOf(r)][k].id = i
        /\ log'[TopicOf(r)][k].status = "committed"
    BY DEF Committed, TopicOf
  <2>2. k \in Committed(TopicOf(r), i)
    BY <1>1, <2>1, ReachedStays DEF Committed
  <2> QED BY <2>2 DEF Missed
<1>3. Carried \subseteq Carried'
  BY <1>1, InHandStays DEF Carried
<1>4. Spent("commit") \in Nat /\ Spent("commit")' = Spent("commit")
  BY SpentGrows DEF Spent
<1>5. Missed' \ Carried' \subseteq Missed \ Carried
  BY <1>2, <1>3
<1> QED BY <1>4, <1>5, BoundKept DEF LossInv

\* The fundings about to be made, and the same for those that are not.
Waiting == RowsInHand({"write", "apply"})

FundingLossInv ==
  /\ IsFiniteSet(Unfunded \ Waiting)
  /\ Cardinality(Unfunded \ Waiting) <= Spent("fatal")

\* A step of the service adds to the fundings counted, not made and not in
\* hand only at the price of an error that is not retried or a restart.
LEMMA FundingLossStep ==
  ASSUME IInv, IInv', FundingLossInv, Serve
  PROVE  FundingLossInv'
<1> DEFINE S == Spent("fatal")
<1>0. /\ S \in Nat /\ S' \in Nat /\ S <= S'
      /\ Crash => S + 1 <= S'
      /\ Fault("fatal") => S + 1 <= S'
      /\ log' = log
      /\ TypeOK /\ LockInv /\ HandInv /\ pc \in [Tasks -> Steps]
  BY SpentGrows, ServeLog DEF IInv, TypeOK
<1>a. ASSUME Unfunded' \ Waiting' \subseteq Unfunded \ Waiting
      PROVE  FundingLossInv'
  BY <1>0, <1>a, BoundKept DEF FundingLossInv
<1>b. ASSUME Unfunded' \subseteq Unfunded, S + 1 <= S'
      PROVE  FundingLossInv'
  <2>1. Waiting \subseteq {Row(lock)}
    BY InHandOfHolder DEF Waiting
  <2>2. Unfunded' \ Waiting' \subseteq (Unfunded \ Waiting) \cup {Row(lock)}
    BY <1>b, <2>1
  <2> QED BY <1>0, <1>b, <2>2, BoundPlusOne DEF FundingLossInv
<1>c. ASSUME \A h \in Tasks : pc[h] \in {"write", "apply"} =>
               /\ pc'[h] \in {"write", "apply"}
               /\ hand'[h] = hand[h] /\ route'[h] = route[h]
      PROVE  Waiting \subseteq Waiting'
  BY <1>0, <1>c, InHandStays DEF Waiting
<1>d. ASSUME items \subseteq items', consumedCount' = consumedCount
      PROVE  Unfunded' \subseteq Unfunded
  BY <1>d DEF Unfunded
<1>1. ASSUME NEW h \in Tasks,
             Request(h) \/ Acquire(h) \/ Connect(h) \/ CreateTable(h)
               \/ CreateTableLost(h) \/ Subscribe(h) \/ Recv(h)
               \/ Rebalance(h) \/ CommitOffset(h)
      PROVE  FundingLossInv'
  <2>1. /\ \A g \in Tasks : pc[g] \in {"write", "apply"} =>
             /\ pc'[g] \in {"write", "apply"}
             /\ hand'[g] = hand[g] /\ route'[g] = route[g]
        /\ UNCHANGED <<items, consumedCount>>
    BY <1>0, <1>1 DEF Request, Acquire, Connect, CreateTable, CreateTableLost,
       Subscribe, Recv, Rebalance, CommitOffset, TypeOK
  <2> QED BY <1>a, <1>c, <1>d, <2>1
<1>2. ASSUME NEW h \in Tasks,
             ConnectFails(h) \/ RecvError(h) \/ CommitOffsetFails(h)
      PROVE  FundingLossInv'
  <2>1. /\ pc[h] \notin {"idle", "write", "apply"}
        /\ NextMessage(h) \/ Leave(h)
        /\ UNCHANGED <<items, consumedCount>>
    BY <1>2 DEF ConnectFails, RecvError, CommitOffsetFails
  <2>2. \A g \in Tasks : pc[g] \in {"write", "apply"} =>
          /\ pc'[g] \in {"write", "apply"}
          /\ hand'[g] = hand[g] /\ route'[g] = route[g]
    BY <1>0, <2>1, NextMessageFacts DEF Leave, TypeOK
  <2> QED BY <1>a, <1>c, <1>d, <2>1, <2>2
<1>3. CASE AutoCommit \/ BreakPg
  <2>1. UNCHANGED <<pc, hand, route, items, consumedCount>>
    BY <1>3 DEF AutoCommit, BreakPg
  <2> QED BY <1>a, <1>c, <1>d, <2>1
<1>4. ASSUME NEW h \in Tasks, ApplyAgain(h) PROVE FundingLossInv'
  <2>1. UNCHANGED <<pc, hand, route, consumedCount>> /\ items \subseteq items'
    BY <1>4, ItemsStay DEF ApplyAgain
  <2> QED BY <1>a, <1>c, <1>d, <2>1
<1>5. ASSUME NEW h \in Tasks, WriteConsumed(h) \/ WriteLost(h)
      PROVE  FundingLossInv'
  <2>1. /\ pc[h] = "write" /\ Row(h) \in Ids
        /\ consumedCount' = [consumedCount EXCEPT ![Row(h)] = @ + 1]
        /\ UNCHANGED <<items, hand, route>>
        /\ pc' \in {pc, [pc EXCEPT ![h] = "apply"]}
    BY <1>0, <1>5, RowType DEF WriteConsumed, WriteLost, Count
  <2>2. Row(h)' = Row(h) /\ Row(h)' \in Waiting'
    BY <1>0, <2>1 DEF Row, Waiting, RowsInHand
  <2>3. Waiting \subseteq Waiting'
    BY <1>0, <1>c, <2>1
  <2>4. Unfunded' \subseteq Unfunded \cup {Row(h)}
    BY <1>0, <2>1 DEF Unfunded, TypeOK
  <2> QED BY <1>a, <2>2, <2>3, <2>4
<1>6. ASSUME NEW h \in Tasks, ApplyRow(h) PROVE FundingLossInv'
  <2>1. /\ pc[h] = "apply" /\ Apply(Tx[Row(h)]) /\ items \subseteq items'
        /\ consumedCount' = consumedCount
    BY <1>6, ItemsStay DEF ApplyRow
  <2>2. Tx[Row(h)].kind = "fund" => Tx[Row(h)].iban \in items'
    BY <2>1 DEF Apply, Fund, Unchanged
  <2>3. lock = h
    BY <1>0, <2>1 DEF LockInv
  <2>4. Waiting \subseteq {Row(h)}
    BY <2>3, InHandOfHolder DEF Waiting
  <2>5. Unfunded' \subseteq Unfunded /\ Row(h) \notin Unfunded'
    BY <1>d, <2>1, <2>2 DEF Unfunded
  <2> QED BY <1>a, <2>4, <2>5
<1>7. ASSUME NEW h \in Tasks, ApplyFatal(h) PROVE FundingLossInv'
  <2>1. /\ consumedCount' = consumedCount /\ items \subseteq items'
        /\ Fault("fatal")
    BY <1>7, ItemsStay DEF ApplyFatal
  <2> QED BY <1>0, <1>b, <1>d, <2>1
<1>8. CASE Crash
  <2>1. consumedCount' = consumedCount /\ items \subseteq items'
    BY <1>8 DEF Crash
  <2> QED BY <1>0, <1>b, <1>d, <1>8, <2>1
<1> QED
  BY <1>1, <1>2, <1>3, <1>4, <1>5, <1>6, <1>7, <1>8 DEF Serve, Work, Failure

CostInv == ReachInv /\ LossInv /\ FundingLossInv

\* Every step keeps all of it.
LEMMA CostStep ==
  ASSUME IInv, IInv', AscendingInv, CostInv, [Next]_vars
  PROVE  CostInv'
<1>1. CASE Serve
  BY <1>1, ReachStep, LossStep, FundingLossStep DEF CostInv
<1>2. CASE Publish \/ Settle \/ UNCHANGED vars
  <2>1. LogExtends /\ LogType' /\ LogGrows
    BY TopicsGrow DEF IInv, TypeOK, LogExtends, LogGrows
  <2>2. UNCHANGED <<tracker, group, accounts, service, task, budget>>
    BY <1>2 DEF Publish, Settle
  <2>3. Waiting \subseteq Waiting'
    BY <2>1, <2>2, InHandStays DEF Waiting
  <2>4. Unfunded' = Unfunded
    BY <2>2 DEF Unfunded
  <2>5. Spent("fatal") \in Nat /\ Spent("fatal")' = Spent("fatal")
    BY <2>2, SpentGrows DEF Spent
  <2>6. Unfunded' \ Waiting' \subseteq Unfunded \ Waiting
    BY <2>3, <2>4
  <2>7. FundingLossInv'
    BY <2>5, <2>6, BoundKept DEF FundingLossInv, CostInv
  <2> QED BY <2>1, <2>2, <2>7, ReachExtends, LossExtends DEF CostInv
<1> QED BY <1>1, <1>2 DEF Next

\* It holds when nothing has been published yet.
LEMMA InitCost == Init => CostInv
<1> SUFFICES ASSUME Init PROVE CostInv
  OBVIOUS
<1>1. IInv
  BY InitIInv
<1>2. ReachInv
  BY DEF Init, ReachInv, Reached, TopicOf
<1>3. Missed \ Carried = {} /\ Unfunded \ Waiting = {}
  BY DEF Init, Missed, Unfunded, Committed, TopicOf
<1>4. IsFiniteSet({}) /\ Cardinality({}) = 0
  BY FS_EmptySet
<1>5. Spent("commit") = 0 /\ Spent("fatal") = 0
  BY DEF Init, Spent
<1> QED BY <1>2, <1>3, <1>4, <1>5 DEF CostInv, LossInv, FundingLossInv

\* What a step is started from, and leaves behind.
LEMMA CostInvariant == Spec => [](IInv /\ AscendingInv /\ CostInv)
<1>1. Init => AscendingInv
  BY DEF Init, AscendingInv
<1>2. ASSUME IInv, AscendingInv, CostInv, [Next]_vars
      PROVE  IInv' /\ AscendingInv' /\ CostInv'
  <2>1. IInv' /\ AscendingInv'
    BY <1>2, IInvStep, TopicsGrow
  <2> QED BY <1>2, <2>1, CostStep
<1>3. IInv /\ AscendingInv /\ CostInv /\ [Next]_vars
        => IInv' /\ AscendingInv' /\ CostInv'
  BY <1>2
<1> QED BY <1>1, <1>3, InitIInv, InitCost, PTL DEF Spec

\* README, property 4: whatever crashes, is rebalanced, subscribed again or
\* disconnected, the messages passed and not counted, but for the one in hand,
\* are no more than the restarts and the failed commits.
THEOREM LossBoundedAlways == Spec => []LossBounded
<1>1. ASSUME IInv, CostInv PROVE LossBounded
  <2>1. Lost \ Carried \subseteq Missed \ Carried
    BY DEF Lost, Missed, Reached
  <2>2. Spent("commit") \in Nat
    BY <1>1, ConsumerAssumption DEF Spent, IInv, TypeOK
  <2> QED BY <1>1, <2>1, <2>2, BoundKept
          DEF CostInv, LossInv, LossBounded, Carried
<1>2. IInv /\ AscendingInv /\ CostInv => LossBounded
  BY <1>1
<1> QED BY <1>2, CostInvariant, PTL

\* README, property 6: the fundings counted and not made, but for the one in
\* hand, are no more than the restarts and the errors that are not retried.
THEOREM FundingLossBoundedAlways == Spec => []FundingLossBounded
<1>1. IInv /\ AscendingInv /\ CostInv => FundingLossBounded
  BY DEF CostInv, FundingLossInv, FundingLossBounded, Waiting
<1> QED BY <1>1, CostInvariant, PTL
=============================================================================
