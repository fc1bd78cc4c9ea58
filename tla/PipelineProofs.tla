--------------------------- MODULE PipelineProofs ---------------------------
(***************************************************************************)
(* What the two services guarantee together, for any rows, requests,       *)
(* routes, restarts and failures of either of them.                        *)
(*                                                                         *)
(* The inductive invariant is that of Producer and that of Consumer: a     *)
(* step of the producer keeps the consumer's because all it does to the    *)
(* shared log is let it grow (LogStaysVisible, GrowStep), and a step of    *)
(* the consumer leaves all that the producer's speaks of unchanged.        *)
(*                                                                         *)
(* With one topic and a consumer that is not interrupted, the order of     *)
(* publication (NoRowOvertaken of Producer) and the order of consumption   *)
(* in a topic (FlowInv of ConsumerProofs) give that of the whole pipeline. *)
(***************************************************************************)
EXTENDS Pipeline, FiniteSetTheorems, TLAPS

PP == INSTANCE ProducerProofs WITH
  Tasks <- PTasks, MaxCrashes <- PMaxCrashes, Failures <- PFailures,
  MaxFaults <- PMaxFaults, pg <- pPg, lock <- pLock, pc <- pPc,
  route <- pRoute, crashes <- pCrashes, faults <- pFaults

CP == INSTANCE ConsumerProofs WITH
  Tasks <- CTasks, Routes <- CRoutes, MaxCrashes <- CMaxCrashes,
  Failures <- CFailures, MaxFaults <- CMaxFaults, pg <- cPg, lock <- cLock,
  pc <- cPc, route <- cRoute, crashes <- cCrashes, faults <- cFaults

\* The assumptions of the two modules hold of their parameters here.
LEMMA Assumptions ==
  /\ PP!RoutesAssumption /\ PP!SentinelAssumption /\ PP!BoundAssumption
  /\ PP!IdsAssumption
  /\ CP!ConsumerAssumption /\ CP!AccountsAssumption /\ CP!IdsAssumption
BY PipelineAssumption, IdsAssumption, AccountsAssumption
   DEF PP!Routes, PP!FailureKinds, CP!ConsumerRoutes, CP!FailureKinds,
       CP!Transactions, Transactions, CP!IsFiniteSet, IsFiniteSet

\* Pipeline and the two modules of proofs instantiate the same definitions:
\* the initial states are the same ...
LEMMA SameInit == (P!Init <=> PP!Init) /\ (C!Init <=> CP!Init)
BY DEF P!Init, PP!Init, C!Init, CP!Init, C!AccountsInit, CP!AccountsInit,
       P!Topics, PP!Topics, C!Topics, CP!Topics, P!Routes, PP!Routes

\* ... and so are the steps of the producer ...
LEMMA SameNext == P!Next <=> PP!Next
BY DEF P!Next, PP!Next, P!Request, PP!Request, P!Acquire, PP!Acquire,
       P!LockFree, PP!LockFree, P!Work, PP!Work, P!CreateProducer,
       PP!CreateProducer, P!InitTransactions, PP!InitTransactions, P!Connect,
       PP!Connect, P!Query, PP!Query, P!Begin, PP!Begin, P!Sending,
       PP!Sending, P!SendTxn, PP!SendTxn, P!SendFenced, PP!SendFenced,
       P!Commit, PP!Commit, P!CommitFatal, PP!CommitFatal, P!SendPlain,
       PP!SendPlain, P!Record, PP!Record, P!Failure, PP!Failure,
       P!CreateFails, PP!CreateFails, P!ConnectFails, PP!ConnectFails,
       P!RecordLost, PP!RecordLost, P!SendTimesOut, PP!SendTimesOut,
       P!SendPlainTimesOut, PP!SendPlainTimesOut, P!Environment,
       PP!Environment, P!Insert, PP!Insert, P!BreakPg, PP!BreakPg, P!Expire,
       PP!Expire, P!InTransaction, PP!InTransaction, P!ExpireAbandoned,
       PP!ExpireAbandoned, P!ExpireSlow, PP!ExpireSlow, P!Crash, PP!Crash,
       P!Recorded, PP!Recorded, P!Unproduced, PP!Unproduced, P!Oldest,
       PP!Oldest, P!TopicOf, PP!TopicOf, P!Current, PP!Current, P!At, PP!At,
       P!Goto, PP!Goto, P!IsTxn, PP!IsTxn, P!SetClient, PP!SetClient,
       P!NotFenced, PP!NotFenced, P!Fault, PP!Fault, P!Leave, PP!Leave,
       P!Panic, PP!Panic, P!FirstStep, PP!FirstStep, P!NextRow, PP!NextRow,
       P!Mark, PP!Mark, P!Routes, PP!Routes, P!Appended, PP!Appended,
       P!Closed, PP!Closed, P!Settled, PP!Settled, P!IsOpen, PP!IsOpen,
       P!HasOpen, PP!HasOpen, P!Topics, PP!Topics, P!Offsets, PP!Offsets,
       P!tracker, PP!tracker, P!service, PP!service, P!task, PP!task,
       P!budget, PP!budget, P!Cardinality, PP!Cardinality

\* ... and those of the consumer.
LEMMA SameServe == C!Serve <=> CP!Serve
BY DEF C!Serve, CP!Serve, C!Request, CP!Request, C!Acquire, CP!Acquire,
       C!Connect, CP!Connect, C!ConnectFails, CP!ConnectFails, C!CreateTable,
       CP!CreateTable, C!CreateTableLost, CP!CreateTableLost, C!Subscribe,
       CP!Subscribe, C!AfterRecv, CP!AfterRecv, C!Recv, CP!Recv, C!RecvError,
       CP!RecvError, C!Rebalance, CP!Rebalance, C!CommitHand, CP!CommitHand,
       C!CommitOffset, CP!CommitOffset, C!CommitOffsetFails,
       CP!CommitOffsetFails, C!AutoCommit, CP!AutoCommit, C!Count, CP!Count,
       C!WriteConsumed, CP!WriteConsumed, C!WriteLost, CP!WriteLost,
       C!BreakPg, CP!BreakPg, C!ApplyRow, CP!ApplyRow, C!ApplyFatal,
       CP!ApplyFatal, C!ApplyAgain, CP!ApplyAgain, C!Crash, CP!Crash, C!Work,
       CP!Work, C!Failure, CP!Failure, C!TopicOf, CP!TopicOf, C!At, CP!At,
       C!Goto, CP!Goto, C!Take, CP!Take, C!StartOffset, CP!StartOffset,
       C!Row, CP!Row, C!Fault, CP!Fault, C!Leave, CP!Leave, C!NextMessage,
       CP!NextMessage, C!IsNext, CP!IsNext, C!Offsets, CP!Offsets, C!Apply,
       CP!Apply, C!Fund, CP!Fund, C!Transfer, CP!Transfer, C!Unchanged,
       CP!Unchanged, C!tracker, CP!tracker, C!group, CP!group, C!accounts,
       CP!accounts, C!service, CP!service, C!task, CP!task, C!budget,
       CP!budget

\* Both speak of the same log.
LEMMA SameGrows == PP!LogGrows <=> CP!LogGrows
BY DEF PP!LogGrows, CP!LogGrows, PP!LogType, CP!LogType, PP!Topics,
       CP!Topics, PP!Entry, CP!Entry

\* And of the same copies.
LEMMA SameCopies ==
  \A i : /\ CP!Committed("bankAO", i) = Committed("bankAO", i)
         /\ CP!Cardinality(CP!Committed("bankEO", i))
              = PP!Cardinality(PP!Committed("bankEO", i))
BY DEF PP!Committed, CP!Committed, Committed, PP!Offsets, CP!Offsets, Offsets,
       PP!Cardinality, CP!Cardinality
-----------------------------------------------------------------------------
(* The invariant                                                           *)

\* The producer's and the consumer's.
IInv == PP!IInv /\ CP!IInv

\* The inductive invariant holds at the start.
LEMMA InitIInv == Init => IInv
<1>1. Init => PP!Init /\ CP!Init
  BY SameInit DEF Init
<1> QED BY <1>1, Assumptions, PP!InitIInv, CP!InitIInv DEF IInv

\* A step of either service keeps it.
LEMMA IInvStep == IInv /\ [Next]_vars => IInv'
<1> SUFFICES ASSUME IInv, [Next]_vars PROVE IInv'
  OBVIOUS
<1>1. PP!IInv /\ CP!IInv
  BY DEF IInv
<1>2. ASSUME [PP!Next]_(PP!vars), UNCHANGED consuming
      PROVE  IInv'
  <2>1. PP!IInv'
    BY <1>1, <1>2, Assumptions, PP!IInvStep
  <2>2. CP!LogGrows
    BY <1>1, <1>2, Assumptions, PP!LogStaysVisible, SameGrows
  <2>3. UNCHANGED <<CP!tracker, CP!group, CP!accounts, CP!service, CP!task,
                    CP!budget>>
    BY <1>2 DEF consuming, CP!tracker, CP!group, CP!accounts, CP!service,
                CP!task, CP!budget
  <2>4. CP!IInv'
    BY <1>1, <2>2, <2>3, Assumptions, CP!GrowStep
  <2> QED BY <2>1, <2>4 DEF IInv
<1>3. CASE Produce
  <2>1. PP!Next /\ UNCHANGED consuming
    BY <1>3, SameNext DEF Produce
  <2> QED BY <1>2, <2>1
<1>4. CASE Consume
  <2>1. CP!Serve /\ UNCHANGED producing
    BY <1>4, SameServe DEF Consume
  <2>2. CP!IInv'
    BY <1>1, <2>1, Assumptions, CP!ServeStep
  <2>3. log' = log
    BY <2>1, Assumptions, CP!ServeLog
  <2>4. UNCHANGED PP!vars
    BY <2>1, <2>3 DEF producing, PP!vars, PP!tracker, PP!service, PP!task,
                      PP!budget
  <2>5. PP!IInv'
    BY <1>1, <2>4, Assumptions, PP!IInvStep
  <2> QED BY <2>2, <2>5 DEF IInv
<1>5. CASE UNCHANGED vars
  <2>1. UNCHANGED PP!vars /\ UNCHANGED consuming
    BY <1>5 DEF vars, producing, PP!vars, PP!tracker, PP!service, PP!task,
                PP!budget
  <2> QED BY <1>2, <2>1
<1> QED BY <1>3, <1>4, <1>5 DEF Next

\* The invariants of both services hold of every reachable state of the
\* pipeline.
THEOREM PipelineInvariant == Spec => []IInv
BY InitIInv, IInvStep, PTL DEF Spec

\* README, property 3, of the whole pipeline: a row that went to bankEO only
\* is counted once, and once more for each restart of the producer, whatever
\* happens to the consumer.
THEOREM CountedOnceUpToRestarts == Spec => []ExtraCountsNeedRestart
<1>1. IInv => ExtraCountsNeedRestart
  <2> SUFFICES ASSUME PP!IInv, CP!IInv, NEW i \in Ids,
                      Committed("bankAO", i) = {}
               PROVE  consumedCount[i] <= 1 + pCrashes
    BY DEF IInv, ExtraCountsNeedRestart
  <2>1. consumedCount[i] <= CP!Cardinality(CP!Committed("bankEO", i))
    BY SameCopies, Assumptions, CP!CountedWithinCopies DEF CP!CountedOncePerCopy
  <2>2. PP!Cardinality(PP!Committed("bankEO", i)) <= 1 + pCrashes
    BY DEF PP!IInv, PP!CopiesInv
  <2>3. /\ consumedCount[i] \in Nat /\ pCrashes \in Nat
        /\ PP!Cardinality(PP!Committed("bankEO", i)) \in Nat
    <3>1. PP!IsFiniteSet(PP!Committed("bankEO", i))
      BY DEF PP!IInv, PP!CopiesInv
    <3>2. PP!Cardinality(PP!Committed("bankEO", i)) \in Nat
      BY <3>1, Assumptions, PP!FS_CardinalityType
    <3>3. consumedCount[i] \in Nat
      BY DEF CP!IInv, CP!TypeOK
    <3>4. pCrashes \in Nat
      BY PipelineAssumption DEF PP!IInv, PP!TypeOK
    <3> QED BY <3>2, <3>3, <3>4
  <2> QED BY <2>1, <2>2, <2>3, SameCopies
<1> QED BY <1>1, PipelineInvariant, PTL
-----------------------------------------------------------------------------
(* The consumer in the pipeline                                            *)

\* What the producer does to the log is what Consumer, run alone, lets its
\* environment do.
LEMMA SameEnvironment ==
  PP!TopicStep =>
    (\E t \in C!Topics, i \in Ids : C!Write(t, i)) \/ C!SettleOpen
BY DEF PP!TopicStep, PP!Write, C!Write, PP!SettleOpen, C!SettleOpen,
       PP!Settled, C!Settled, PP!Closed, C!Closed, PP!Appended, C!Appended,
       PP!HasOpen, C!HasOpen, PP!IsOpen, C!IsOpen, PP!Offsets, C!Offsets,
       PP!Topics, C!Topics

\* The pipeline implements the specification of the consumer on its own, whose
\* environment writes and settles as it likes: every step of the producer,
\* crashes, fencing, time-outs and repeated sends included, is one of that
\* environment or is not seen by the consumer.  What the runs and the theorems
\* show of Consumer thereby holds of the consumer in the pipeline.
THEOREM PipelineImplementsConsumer ==
  ASSUME Lengths = Nat
  PROVE  Spec => ConsumerSpec
<1>1. Init => C!Init
  BY DEF Init
<1>2. ASSUME IInv, [Next]_vars
      PROVE  [C!Next]_(C!vars)
  <2>0. PP!IInv /\ CP!LogType
    BY <1>2 DEF IInv, CP!IInv, CP!TypeOK
  <2>1. CASE Produce
    <3>1. [PP!Next]_(PP!vars) /\ UNCHANGED consuming
      BY <2>1, SameNext DEF Produce
    <3>2. UNCHANGED <<C!tracker, C!group, C!accounts, C!service, C!task,
                      C!budget>>
      BY <3>1 DEF consuming, C!tracker, C!group, C!accounts, C!service,
                  C!task, C!budget
    <3>3. PP!TopicStep \/ log' = log
      BY <2>0, <3>1, Assumptions, PP!LogStep
    <3>4. ASSUME NEW t \in C!Topics, NEW i \in Ids, C!Write(t, i)
          PROVE  C!Publish
      <4>1. Len(log[t]) + 1 \in Lengths
        <5>1. Len(log[t]) \in Nat
          BY <2>0, <3>4 DEF CP!LogType, CP!Topics, C!Topics
        <5> QED BY <5>1
      <4> QED BY <3>2, <3>4, <4>1 DEF C!Publish
    <3>5. CASE C!SettleOpen
      BY <3>2, <3>5 DEF C!Settle, C!Next
    <3>6. CASE log' = log
      BY <3>2, <3>6 DEF C!vars
    <3> QED BY <3>3, <3>4, <3>5, <3>6, SameEnvironment DEF C!Next
  <2>2. CASE Consume
    BY <2>2 DEF Consume, C!Next
  <2>3. CASE UNCHANGED vars
    BY <2>3 DEF vars, consuming, C!vars, C!tracker, C!group, C!accounts,
                C!service, C!task, C!budget
  <2> QED BY <1>2, <2>1, <2>2, <2>3 DEF Next
<1>3. IInv /\ [Next]_vars => [C!Next]_(C!vars)
  BY <1>2
<1> QED BY <1>1, <1>3, PipelineInvariant, PTL DEF Spec, ConsumerSpec, C!Spec
-----------------------------------------------------------------------------
(* The validator's view of the pipeline                                    *)

\* What a step of the producer does to its columns.
LEMMA ProducerTracker ==
  ASSUME PP!IInv, [PP!Next]_(PP!vars), consumedCount' = consumedCount
  PROVE  TrackerStep
<1>1. PP!TaskInv
  BY DEF PP!IInv, PP!TaskInv
<1>2. /\ rows \subseteq rows'
      /\ \A i \in rows' \ rows, j \in rows : j < i
      /\ \/ producerType' = producerType
         \/ \E h \in PTasks, i \in Ids :
              /\ pPc[h] = "record" /\ PP!Current(h, i) /\ ~PP!Recorded(i)
              /\ PP!Mark(h, i) /\ UNCHANGED <<log, rows>>
  BY <1>1, Assumptions, PP!TrackerChange
<1>3. ASSUME NEW h \in PTasks, NEW i \in Ids,
             pPc[h] = "record", PP!Current(h, i), ~PP!Recorded(i),
             PP!Mark(h, i), UNCHANGED <<log, rows>>
      PROVE  TrackerStep
  <2>1. /\ pRoute[h] \in PP!Routes /\ i \in rows
        /\ \A j \in rows : j < i => PP!Recorded(j)
    BY <1>3, Assumptions, PP!MarkedInTurn
  <2>2. ItsTurn(i) /\ pRoute[h] \in TxnRoutes \cup PlainRoutes
    BY <1>3, <2>1 DEF ItsTurn, P!Unproduced, P!Recorded, PP!Recorded, PP!Routes
  <2> QED BY <1>3, <2>2 DEF TrackerStep, PP!Mark
<1> QED BY <1>2, <1>3 DEF TrackerStep

\* What a step of the consumer does to its columns.
LEMMA ConsumerTracker ==
  ASSUME IInv, CP!Serve, UNCHANGED producing
  PROVE  TrackerStep \/ UNCHANGED <<rows, producerType, consumedCount>>
<1>0. /\ PP!IInv /\ CP!IInv /\ CP!TypeOK /\ CP!HandInv
      /\ UNCHANGED <<rows, producerType>>
  BY DEF IInv, CP!IInv, producing
<1>1. CASE consumedCount' # consumedCount
  <2>1. PICK h \in CTasks : cPc[h] = "write" /\ CP!Count(h)
    BY <1>1 DEF CP!Serve, CP!Work, CP!Failure, CP!Request, CP!Acquire,
       CP!Connect, CP!ConnectFails, CP!CreateTable, CP!CreateTableLost,
       CP!Subscribe, CP!Recv, CP!RecvError, CP!Rebalance, CP!CommitOffset,
       CP!CommitOffsetFails, CP!AutoCommit, CP!WriteConsumed, CP!WriteLost,
       CP!BreakPg, CP!ApplyRow, CP!ApplyFatal, CP!ApplyAgain, CP!Crash,
       CP!At, CP!tracker
  <2> DEFINE t == CP!TopicOf(cRoute[h])
  <2> DEFINE i == CP!Row(h)
  <2>2. /\ t \in PP!Topics /\ hand[h] \in PP!Offsets(t)
        /\ log[t][hand[h]].id = i
    BY <1>0, <2>1 DEF CP!HandInv, CP!InHand, CP!Row, CP!TopicOf, PP!Topics,
                      PP!Offsets
  <2> HIDE DEF i, t
  <2>3. i \in rows /\ \A j \in rows : j < i => PP!Recorded(j)
    BY <1>0, <2>2 DEF PP!IInv, PP!LoggedInv, PP!NoRowOvertaken
  <2>4. P!Recorded(i) \/ ItsTurn(i)
    BY <2>3 DEF ItsTurn, P!Unproduced, P!Recorded, PP!Recorded
  <2>5. consumedCount' = [consumedCount EXCEPT ![i] = @ + 1]
    BY <2>1 DEF CP!Count, i
  <2> QED BY <1>0, <2>3, <2>4, <2>5 DEF TrackerStep
<1> QED BY <1>0, <1>1

\* All that the validator can see of the pipeline is what Validator lets its
\* environment do, whatever crashes, is fenced, rebalanced or sent again, and
\* on whatever topics: rows are recorded in the order of their ids, and a row
\* is never counted as consumed before its turn.
THEOREM TrackerWritesInTurn == Spec => TrackerWrites
<1>1. ASSUME IInv, [Next]_vars
      PROVE  [TrackerStep]_<<rows, producerType, consumedCount>>
  <2>1. CASE Produce
    <3>1. [PP!Next]_(PP!vars) /\ consumedCount' = consumedCount
      BY <2>1, SameNext DEF Produce, consuming
    <3> QED BY <1>1, <3>1, ProducerTracker DEF IInv
  <2>2. CASE Consume
    BY <1>1, <2>2, SameServe, ConsumerTracker DEF Consume
  <2>3. CASE UNCHANGED vars
    BY <2>3 DEF vars, producing, consuming
  <2> QED BY <1>1, <2>1, <2>2, <2>3 DEF Next
<1>2. IInv /\ [Next]_vars
        => [TrackerStep]_<<rows, producerType, consumedCount>>
  BY <1>1
<1> QED BY <1>2, PipelineInvariant, PTL DEF Spec, TrackerWrites
-----------------------------------------------------------------------------
(* One topic                                                               *)

\* The producer's routes all feed one topic.
OneTopic == TxnRoutes = {} \/ PlainRoutes = {}

\* What holds while the consumer is neither restarted nor fails to commit.
FlowInv == IInv /\ CP!FlowInv /\ PP!FedInv /\ FundedFirst(rows)

\* Both modules of proofs mean the same by a write, and by an outcome.
LEMMA SameWrites ==
  /\ PP!TopicStep <=>
       (\E t \in CP!Topics, i \in Ids : CP!Write(t, i)) \/ CP!SettleOpen
  /\ PP!Topics = CP!Topics
BY DEF PP!TopicStep, PP!Write, CP!Write, PP!SettleOpen, CP!SettleOpen,
       PP!Settled, CP!Settled, PP!Closed, CP!Closed, PP!Appended,
       CP!Appended, PP!HasOpen, CP!HasOpen, PP!IsOpen, CP!IsOpen, PP!Offsets,
       CP!Offsets, PP!Topics, CP!Topics

\* What a step of the producer does to the log extends it.
LEMMA ProducerExtends ==
  ASSUME PP!IInv, CP!FlowInv, [PP!Next]_(PP!vars)
  PROVE  CP!LogExtends /\ CP!AscendingInv'
<1>1. CP!LogType /\ CP!AscendingInv
  BY DEF CP!FlowInv, CP!IInv, CP!TypeOK
<1>2. PP!TopicStep \/ log' = log
  BY Assumptions, PP!LogStep
<1>3. ASSUME NEW t \in CP!Topics, NEW i \in Ids, CP!Write(t, i)
      PROVE  CP!LogExtends /\ CP!AscendingInv'
  BY <1>1, <1>3, Assumptions, CP!WriteExtends
<1>4. CASE CP!SettleOpen
  BY <1>1, <1>4, Assumptions, CP!SettleExtends
<1>5. CASE log' = log
  BY <1>1, <1>5, Assumptions, CP!NothingExtends
<1> QED BY <1>2, <1>3, <1>4, <1>5, SameWrites

\* It holds at the start.
LEMMA InitFlow == Init => FlowInv
<1> SUFFICES ASSUME Init PROVE FlowInv
  OBVIOUS
<1>1. PP!Init /\ CP!Init
  BY SameInit DEF Init
<1>2. CP!FlowInv
  BY <1>1, Assumptions, CP!InitFlow
<1>3. PP!FedInv /\ FundedFirst(rows)
  BY <1>1 DEF PP!Init, PP!FedInv, PP!Topics, FundedFirst
<1> QED BY <1>2, <1>3, InitIInv DEF FlowInv

\* A step of either service keeps it.
LEMMA FlowStep ==
  ASSUME CP!Uninterrupted, FlowInv, [Next]_vars
  PROVE  FlowInv'
<1>0. /\ IInv /\ PP!IInv /\ CP!FlowInv /\ PP!FedInv /\ FundedFirst(rows)
      /\ IInv' /\ CP!IInv'
  BY IInvStep DEF FlowInv, IInv
<1>1. ASSUME [PP!Next]_(PP!vars), UNCHANGED consuming
      PROVE  CP!FlowInv' /\ PP!FedInv'
  <2>1. CP!LogExtends /\ CP!AscendingInv'
    BY <1>0, <1>1, ProducerExtends
  <2>2. UNCHANGED <<CP!tracker, CP!group, CP!accounts, CP!service, CP!task,
                    CP!budget>>
    BY <1>1 DEF consuming, CP!tracker, CP!group, CP!accounts, CP!service,
                CP!task, CP!budget
  <2>3. CP!FlowInv'
    BY <1>0, <2>1, <2>2, Assumptions, CP!ExtendStep
  <2>4. PP!FedInv'
    BY <1>0, <1>1, Assumptions, PP!FedStep
  <2> QED BY <2>3, <2>4
<1>2. CASE Produce
  <2>1. PP!Next /\ UNCHANGED consuming /\ FundedFirst(rows)'
    BY <1>2, SameNext DEF Produce, FundedFirst, FundedIbans
  <2> QED BY <1>0, <1>1, <2>1 DEF FlowInv
<1>3. CASE Consume
  <2>1. CP!Serve /\ UNCHANGED producing
    BY <1>3, SameServe DEF Consume
  <2>2. CP!FlowInv'
    BY <1>0, <2>1, Assumptions, CP!FlowStep DEF CP!Next
  <2>3. log' = log /\ rows' = rows
    BY <2>1, Assumptions, CP!ServeLog DEF producing
  <2>4. PP!FedInv'
    BY <1>0, <2>3 DEF PP!FedInv, PP!TopicOf
  <2>5. FundedFirst(rows)'
    BY <1>0, <2>3 DEF FundedFirst, FundedIbans
  <2> QED BY <1>0, <2>2, <2>4, <2>5 DEF FlowInv
<1>4. CASE UNCHANGED vars
  <2>1. UNCHANGED PP!vars /\ UNCHANGED consuming
    BY <1>4 DEF vars, producing, PP!vars, PP!tracker, PP!service, PP!task,
                PP!budget
  <2>2. FundedFirst(rows)'
    BY <1>0, <1>4 DEF vars, producing, FundedFirst, FundedIbans
  <2> QED BY <1>0, <1>1, <2>1, <2>2 DEF FlowInv
<1> QED BY <1>2, <1>3, <1>4 DEF Next

\* The invariant holds of every reachable state of such a run.
THEOREM PipelineFlow ==
  ASSUME CP!Uninterrupted
  PROVE  Spec => []FlowInv
<1>1. FlowInv /\ [Next]_vars => FlowInv'
  BY FlowStep
<1> QED BY InitFlow, <1>1, PTL DEF Spec

\* A consumed row is a row of the table with a visible copy; every earlier row
\* of the table has a visible copy in the same topic.
LEMMA EarlierVisible ==
  ASSUME OneTopic, FlowInv, NEW i \in Ids, Consumed(i)
  PROVE  /\ i \in rows
         /\ consumerType[i] # NoRoute
         /\ \A j \in rows : j < i =>
              CP!Committed(CP!TopicOf(consumerType[i]), j) # {}
<1> DEFINE t == CP!TopicOf(consumerType[i])
<1>1. PP!IInv /\ CP!OrderInv /\ PP!FedInv
  BY DEF FlowInv, IInv, CP!FlowInv
<1>2. consumerType[i] # NoRoute /\ CP!Served(i, t)
  BY <1>1 DEF CP!OrderInv, Consumed
<1>3. PICK k \in DOMAIN log[t] : log[t][k].id = i
  BY <1>2 DEF CP!Served
<1>4. t \in PP!Topics
  BY DEF CP!TopicOf, PP!Topics
<1> HIDE DEF t
<1>5. i \in rows
  BY <1>1, <1>3, <1>4 DEF PP!IInv, PP!LoggedInv, PP!Offsets
<1>6. PICK r \in PP!Routes : PP!TopicOf(r) = t
  BY <1>1, <1>3, <1>4 DEF PP!FedInv
<1>7. ASSUME NEW j \in rows, j < i
      PROVE  CP!Committed(t, j) # {}
  <2>1. j \in Ids /\ PP!Recorded(j)
    BY <1>1, <1>3, <1>4, <1>7
       DEF PP!IInv, PP!TypeOK, PP!NoRowOvertaken, PP!Offsets
  <2>2. producerType[j] \in PP!Routes
    BY <1>1, <2>1 DEF PP!IInv, PP!TypeOK, PP!Recorded
  <2>3. PP!Committed(PP!TopicOf(producerType[j]), j) # {}
    BY <1>1, <2>1 DEF PP!IInv, PP!ProducedIsPublished
  <2>4. PP!TopicOf(producerType[j]) = t
    BY <1>6, <2>2, PipelineAssumption DEF OneTopic, PP!TopicOf, PP!Routes
  <2> QED BY <2>3, <2>4 DEF PP!Committed, CP!Committed, PP!Offsets, CP!Offsets
<1> QED BY <1>2, <1>5, <1>7 DEF t

\* Hence the earlier rows are consumed.
LEMMA FlowIsOrder == ASSUME OneTopic, FlowInv PROVE ConsumedInOrder
<1> SUFFICES ASSUME NEW i \in Ids, NEW j \in rows, Consumed(i), j < i
             PROVE  Consumed(j)
  BY DEF ConsumedInOrder
<1>1. /\ consumerType[i] # NoRoute
      /\ CP!Committed(CP!TopicOf(consumerType[i]), j) # {}
  BY EarlierVisible
<1>2. CP!ConsumedInTopicOrder
  BY Assumptions, CP!ServedInOrder DEF FlowInv
<1>3. j \in Ids
  BY DEF FlowInv, IInv, PP!IInv, PP!TypeOK
<1> QED BY <1>1, <1>2, <1>3 DEF CP!ConsumedInTopicOrder, Consumed

\* README, property 5, of the whole pipeline: with one topic, and a consumer
\* that is not restarted and does not fail to commit, rows are consumed in the
\* order in which they were generated, whatever happens to the producer.
THEOREM ConsumedInOrderOneTopic ==
  ASSUME OneTopic, CP!Uninterrupted
  PROVE  Spec => []ConsumedInOrder
<1>1. FlowInv => ConsumedInOrder
  BY FlowIsOrder
<1> QED BY <1>1, PipelineFlow, PTL

\* README, property 7, under the same conditions: an account in the table is
\* one that a consumed row funds, because the funding row precedes, in the
\* table and therefore at the consumer, every transfer that names it.
THEOREM IbansMatchOneTopic ==
  ASSUME OneTopic, CP!Uninterrupted
  PROVE  Spec => []IbansMatch
<1>1. ASSUME FlowInv PROVE IbansMatch
  <2> SUFFICES ASSUME NEW a \in items
               PROVE  \E j \in Ids : /\ Consumed(j) /\ Tx[j].kind = "fund"
                                     /\ Tx[j].iban = a
    BY DEF IbansMatch, FundedIbans
  <2>1. PICK i \in Ids : consumedCount[i] > 0 /\ a \in CP!Ibans(Tx[i])
    BY <1>1 DEF FlowInv, IInv, CP!IInv, CP!AppliedInv, CP!ItemsAreConsumed
  <2>2. CASE Tx[i].kind = "fund"
    BY <2>1, <2>2 DEF CP!Ibans, Consumed
  <2>3. CASE Tx[i].kind = "transfer"
    <3>1. i \in rows /\ a \in {Tx[i].from, Tx[i].to}
      BY <1>1, <2>1, <2>3, EarlierVisible DEF CP!Ibans, Consumed
    <3>2. PICK j \in rows : j < i /\ Tx[j].kind = "fund" /\ Tx[j].iban = a
      BY <1>1, <2>3, <3>1 DEF FlowInv, FundedFirst, FundedIbans
    <3>3. Consumed(j) /\ j \in Ids
      BY <1>1, <2>1, <3>2, FlowIsOrder
         DEF ConsumedInOrder, Consumed, FlowInv, IInv, PP!IInv, PP!TypeOK
    <3> QED BY <3>2, <3>3
  <2> QED BY <2>1, <2>2, <2>3 DEF CP!Ibans
<1> QED BY <1>1, PipelineFlow, PTL

\* Both speak of the same sum.
LEMMA SameBalances ==
  /\ Total = CP!Total
  /\ Cardinality(items) = CP!Cardinality(items)
<1>1. \A b, S : SumOf(b, S) = CP!SumOf(b, S)
  BY Zenon DEF SumOf, CP!SumOf, MapThenSumSet, CP!MapThenSumSet,
     MapThenFoldSet, CP!MapThenFoldSet
<1> QED BY <1>1 DEF Total, CP!Total, Cardinality, CP!Cardinality

\* A transfer that is about to be applied follows the fundings it needs: they
\* are consumed, because it is.
LEMMA FlowIsFounded ==
  ASSUME OneTopic, FlowInv
  PROVE  CP!TransfersFounded
<1> SUFFICES ASSUME NEW h \in CTasks, cPc[h] = "apply",
                    Tx[CP!Row(h)].kind = "transfer",
                    NEW a \in {Tx[CP!Row(h)].from, Tx[CP!Row(h)].to}
             PROVE  \E j \in Ids \ {CP!Row(h)} :
                      consumedCount[j] > 0 /\ Tx[j].kind = "fund"
                        /\ Tx[j].iban = a
  BY DEF CP!TransfersFounded
<1> DEFINE i == CP!Row(h)
<1>1. i \in Ids /\ Consumed(i)
  <2>1. CP!TypeOK /\ CP!HandInv /\ CP!AppliedInv
    BY DEF FlowInv, IInv, CP!IInv
  <2>2. cPc[h] \in CP!InHand
    BY DEF CP!InHand
  <2> QED BY <2>1, <2>2, Assumptions, CP!RowType DEF CP!AppliedInv, Consumed
<1> HIDE DEF i
<1>2. i \in rows
  BY <1>1, EarlierVisible
<1>3. PICK j \in rows : j < i /\ Tx[j].kind = "fund" /\ Tx[j].iban = a
  BY <1>2 DEF FlowInv, FundedFirst, FundedIbans, i
<1>4. Consumed(j) /\ j \in Ids /\ j # i
  BY <1>1, <1>3, FlowIsOrder, IdsAssumption
     DEF ConsumedInOrder, FlowInv, IInv, PP!IInv, PP!TypeOK
<1> QED BY <1>3, <1>4 DEF Consumed, i

\* README, property 6, under the same conditions and when DynamoDB reports no
\* error that is not retried: the sum of the balances is the initial funding
\* of the accounts that are there.
THEOREM BalancesMatchOneTopic ==
  ASSUME OneTopic, CP!Uninterrupted, "fatal" \notin CFailures
  PROVE  Spec => []BalancesMatch
<1>1. Init => CP!BalanceInv
  <2>1. Init => CP!Init
    BY SameInit DEF Init
  <2> QED BY <2>1, Assumptions, CP!InitBalance
<1>2. ASSUME FlowInv, CP!BalanceInv, [Next]_vars
      PROVE  CP!BalanceInv'
  <2>0. CP!IInv /\ PP!IInv /\ CP!FlowInv
    BY <1>2 DEF FlowInv, IInv
  <2>1. ASSUME [PP!Next]_(PP!vars), UNCHANGED consuming
        PROVE  CP!BalanceInv'
    <3>1. CP!LogExtends
      BY <2>0, <2>1, ProducerExtends
    <3>2. UNCHANGED <<CP!tracker, CP!group, CP!accounts, CP!service, CP!task,
                      CP!budget>>
      BY <2>1 DEF consuming, CP!tracker, CP!group, CP!accounts, CP!service,
                  CP!task, CP!budget
    <3> QED BY <1>2, <2>0, <3>1, <3>2, Assumptions, CP!BalanceKept
  <2>2. CASE Produce
    BY <2>1, <2>2, SameNext DEF Produce
  <2>3. CASE Consume
    <3>1. CP!Serve
      BY <2>3, SameServe DEF Consume
    <3> QED BY <1>2, <2>0, <3>1, FlowIsFounded, Assumptions, CP!BalanceStep
  <2>4. CASE UNCHANGED vars
    <3>1. UNCHANGED PP!vars /\ UNCHANGED consuming
      BY <2>4 DEF vars, producing, PP!vars, PP!tracker, PP!service, PP!task,
                  PP!budget
    <3> QED BY <2>1, <3>1
  <2> QED BY <1>2, <2>2, <2>3, <2>4 DEF Next
<1>3. CP!BalanceInv => BalancesMatch
  BY SameBalances DEF CP!BalanceInv, BalancesMatch
<1>4. FlowInv /\ CP!BalanceInv /\ [Next]_vars => CP!BalanceInv'
  BY <1>2
<1> QED BY <1>1, <1>3, <1>4, PipelineFlow, PTL DEF Spec
=============================================================================
