------------------------------ MODULE Consumer ------------------------------
(***************************************************************************)
(* The passthrough consumer (src/workload/consumer/consumer/src/main.rs).  *)
(*                                                                         *)
(* A request POST <route>/<topic>/<num_records> is served by a task that   *)
(* runs handle: it takes the lock of the consumers map and keeps it to the *)
(* end, creates the route's Kafka consumer on first use, opens the shared  *)
(* connections to the state-tracker and to DynamoDB on first use,          *)
(* subscribes, and then num_records times receives a message, records on   *)
(* the state-tracker that it did (safe_write_consumed) and applies it to   *)
(* the accounts (safe_transaction).                                        *)
(*                                                                         *)
(* As in Producer, a step is what happens between two points at which      *)
(* another process can interfere, and a failed attempt without effect is   *)
(* no step.                                                                *)
(***************************************************************************)
EXTENDS Broker, Accounts

CONSTANTS
  Tasks,        \* request handlers in flight
  Routes,       \* the routes that are called, of ConsumerRoutes
  Tx,           \* Tx[i]: the transaction in the data of row i
  MaxRequest,   \* bound on num_records
  Lengths,      \* the lengths a topic may reach, where this module writes it
  ErrorsNamed,  \* whether the text of an SDK error carries the error's name
  MaxCrashes,   \* bound on restarts of the service
  Failures,     \* the kinds of failure that may happen, of FailureKinds
  MaxFaults,    \* bound on their number
  NoTask,       \* the lock is free
  NoRoute       \* not set (consumer_type IS NULL)

ConsumerRoutes == {"exactly_once", "atleast_once"}

FailureKinds == {
  "connect",    \* the state-tracker refuses the connection
  "tracker",    \* the established connection breaks
  "recv",       \* recv reports an error
  "rebalance",  \* the group takes the partition away and gives it back
  "commit",     \* the synchronous commit of an offset reports an error
  "transient",  \* a DynamoDB call reports an error that is retried
  "fatal"}      \* a DynamoDB call reports an error that is not retried

ASSUME ConsumerAssumption ==
  /\ Routes \subseteq ConsumerRoutes /\ Failures \subseteq FailureKinds
  /\ NoTask \notin Tasks /\ NoRoute \notin Routes
  /\ MaxRequest \in Nat \ {0} /\ Lengths \subseteq Nat
  /\ MaxCrashes \in Nat /\ MaxFaults \in Nat
  /\ ErrorsNamed \in BOOLEAN /\ Tx \in [Ids -> Transactions]

VARIABLES
  consumedCount,  \* state-tracker: consumed_count of a row
  consumerType,   \* state-tracker: consumer_type of a row
  committed,      \* Kafka: offset the group of a route has committed
  position,       \* service: offset last delivered to the route's consumer
  consumer,       \* service: the Kafka consumer of a route
  pg,             \* service: the shared state-tracker connection
  ddb,            \* service: whether the DynamoDB client is stored
  table,          \* DynamoDB: whether the accounts table exists
  lock,           \* service: holder of the lock of the consumers map
  pc,             \* task: where it stands in handle
  route,          \* task: the route of its request
  left,           \* task: iterations left, the one under way included
  hand,           \* task: offset of the message in hand, 0 for none
  crashes,        \* restarts so far
  faults          \* failures so far

tracker  == <<consumedCount, consumerType>>
group    == <<committed, position>>
accounts == <<items, balance, table>>
service  == <<consumer, pg, ddb, lock>>
task     == <<pc, route, left, hand>>
budget   == <<crashes, faults>>
vars     == <<log, tracker, group, accounts, service, task, budget>>

InHand == {"commit", "write", "apply"}
Held   == {"connect", "table", "subscribe", "recv"} \cup InHand
Steps  == {"idle", "waiting"} \cup Held

Init ==
  /\ log = [t \in Topics |-> << >>]
  /\ AccountsInit /\ table = FALSE
  /\ consumedCount = [i \in Ids |-> 0]
  /\ consumerType = [i \in Ids |-> NoRoute]
  /\ committed = [r \in Routes |-> 0]
  /\ position = [r \in Routes |-> 0]
  /\ consumer = [r \in Routes |-> FALSE]
  /\ pg = "none" /\ ddb = FALSE
  /\ lock = NoTask
  /\ pc = [h \in Tasks |-> "idle"]
  /\ route = [h \in Tasks |-> NoRoute]
  /\ left = [h \in Tasks |-> 0]
  /\ hand = [h \in Tasks |-> 0]
  /\ crashes = 0 /\ faults = 0
-----------------------------------------------------------------------------
(* Helpers                                                                 *)

\* The drivers pair the routes with the topics; each route has its group.
TopicOf(r) == IF r = "exactly_once" THEN "bankEO" ELSE "bankAO"

At(h, step)   == pc[h] = step
Goto(h, step) == pc' = [pc EXCEPT ![h] = step]
Take(h, k)    == hand' = [hand EXCEPT ![h] = k]

\* Mutant of StartOffset: auto.offset.reset keeps its default, the end.
FromTheEnd(r) ==
  IF committed[r] = 0 THEN Len(log[TopicOf(r)]) ELSE committed[r]

\* Where a new consumer starts: after what its group has committed, else at
\* the beginning (auto.offset.reset is earliest).
StartOffset(r) == committed[r]

\* The row whose message task h has in hand.
Row(h) == log[TopicOf(route[h])][hand[h]].id

Fault(kind) ==
  /\ kind \in Failures /\ faults < MaxFaults
  /\ faults' = faults + 1
  /\ UNCHANGED crashes

\* The request ends, by return or by panic: the guards are dropped.
Leave(h) ==
  /\ Goto(h, "idle")
  /\ lock' = NoTask
  /\ route' = [route EXCEPT ![h] = NoRoute]
  /\ left' = [left EXCEPT ![h] = 0]
  /\ Take(h, 0)

\* Mutant of NextMessage: while count <= num_records.
OneTooMany(h) ==
  IF left[h] = 0
  THEN Leave(h)
  ELSE /\ left' = [left EXCEPT ![h] = @ - 1]
       /\ Goto(h, "recv")
       /\ Take(h, 0)
       /\ UNCHANGED <<lock, route>>

\* count += 1, and the condition of the while loop.
NextMessage(h) ==
  IF left[h] = 1
  THEN Leave(h)
  ELSE /\ left' = [left EXCEPT ![h] = @ - 1]
       /\ Goto(h, "recv")
       /\ Take(h, 0)
       /\ UNCHANGED <<lock, route>>
-----------------------------------------------------------------------------
(* The producer's side, as far as a reader of the topics can tell          *)

\* That the producer does nothing else is TopicsWritten of ProducerProofs.
Publish ==
  /\ \E t \in Topics, i \in Ids : Len(log[t]) + 1 \in Lengths /\ Write(t, i)
  /\ UNCHANGED <<tracker, group, accounts, service, task, budget>>

Settle ==
  /\ SettleOpen
  /\ UNCHANGED <<tracker, group, accounts, service, task, budget>>
-----------------------------------------------------------------------------
(* handle, up to the loop                                                  *)

Request(h) ==
  /\ At(h, "idle")
  /\ \E r \in Routes, n \in 1 .. MaxRequest :
       /\ route' = [route EXCEPT ![h] = r]
       /\ left' = [left EXCEPT ![h] = n]
  /\ Goto(h, "waiting")
  /\ UNCHANGED <<log, tracker, group, accounts, service, hand, budget>>

\* state.consumers.lock().await, and create_config on first use.
Acquire(h) ==
  /\ At(h, "waiting") /\ lock = NoTask
  /\ lock' = h
  /\ LET r == route[h] IN
       /\ consumer' = [consumer EXCEPT ![r] = TRUE]
       /\ position' = IF consumer[r] THEN position
                      ELSE [position EXCEPT ![r] = StartOffset(r)]
  /\ Goto(h, "connect")
  /\ UNCHANGED <<log, tracker, committed, accounts, pg, ddb, route, left,
                 hand, budget>>

\* The connection is opened once; it is not looked at again, broken or not.
Connect(h) ==
  /\ At(h, "connect")
  /\ pg' = IF pg = "none" THEN "up" ELSE pg
  /\ Goto(h, IF ddb THEN "subscribe" ELSE "table")
  /\ UNCHANGED <<log, tracker, group, accounts, consumer, ddb, lock, route,
                 left, hand, budget>>

\* Postgres::new fails: unwrap panics.
ConnectFails(h) ==
  /\ At(h, "connect") /\ pg = "none"
  /\ Leave(h)
  /\ Fault("connect")
  /\ UNCHANGED <<log, tracker, group, accounts, consumer, pg, ddb>>

\* safe_create_table: the loop ends when the table is created, or when the
\* error says that it exists; the client is stored after it.
CreateTable(h) ==
  /\ At(h, "table")
  /\ table => ErrorsNamed
  /\ table' = TRUE
  /\ ddb' = TRUE
  /\ Goto(h, "subscribe")
  /\ UNCHANGED <<log, tracker, group, items, balance, consumer, pg, lock,
                 route, left, hand, budget>>

\* The table is created and the call reports an error: it is made again.
CreateTableLost(h) ==
  /\ At(h, "table")
  /\ table' = TRUE
  /\ Fault("transient")
  /\ UNCHANGED <<log, tracker, group, items, balance, service, task>>

\* safe_subscribe joins the group anew.  The automatic commit of the
\* at-least-once consumer is made when it gives the partition up; the
\* exactly-once consumer may find itself back at the committed offset.
Subscribe(h) ==
  /\ At(h, "subscribe")
  /\ LET r == route[h] IN
       IF r = "exactly_once"
       THEN /\ position' \in {position, [position EXCEPT ![r] = committed[r]]}
            /\ UNCHANGED committed
       ELSE /\ committed' = [committed EXCEPT ![r] = position[r]]
            /\ UNCHANGED position
  /\ Goto(h, "recv")
  /\ UNCHANGED <<log, tracker, accounts, service, route, left, hand, budget>>
-----------------------------------------------------------------------------
(* safe_get_consumed                                                       *)

\* Mutant of AfterRecv: DynamoDB is written before the state-tracker.
ApplyFirst(h) == IF route[h] = "exactly_once" THEN "commit" ELSE "apply"

\* Mutant of AfterRecv: the exactly-once consumer does not commit.
NeverCommit(h) == "write"

\* The exactly-once consumer commits the offset before anything else.
AfterRecv(h) == IF route[h] = "exactly_once" THEN "commit" ELSE "write"

Recv(h) ==
  /\ At(h, "recv")
  /\ \E k \in Offsets(TopicOf(route[h])) :
       /\ IsNext(TopicOf(route[h]), position[route[h]], k)
       /\ position' = [position EXCEPT ![route[h]] = k]
       /\ Take(h, k)
  /\ Goto(h, AfterRecv(h))
  /\ UNCHANGED <<log, tracker, committed, accounts, service, route, left,
                 budget>>

\* recv reports an error, as it does for a topic that does not exist yet:
\* one iteration has passed without a message.
RecvError(h) ==
  /\ At(h, "recv")
  /\ IF log[TopicOf(route[h])] = << >> THEN UNCHANGED budget ELSE Fault("recv")
  /\ NextMessage(h)
  /\ UNCHANGED <<log, tracker, group, accounts, consumer, pg, ddb>>

\* The partition is taken away and given back; recv serves that, and goes on
\* from the committed offset.
Rebalance(h) ==
  /\ At(h, "recv")
  /\ position' = [position EXCEPT ![route[h]] = committed[route[h]]]
  /\ Fault("rebalance")
  /\ UNCHANGED <<log, tracker, committed, accounts, service, task>>

\* Mutant of CommitHand: the offset after the next message.
CommitBeyond(h) == committed' = [committed EXCEPT ![route[h]] = hand[h] + 1]

CommitHand(h) == committed' = [committed EXCEPT ![route[h]] = hand[h]]

CommitOffset(h) ==
  /\ At(h, "commit")
  /\ CommitHand(h)
  /\ Goto(h, "write")
  /\ UNCHANGED <<log, tracker, position, accounts, service, route, left, hand,
                 budget>>

\* The commit reports an error, made or not: safe_get_consumed returns Err
\* and the message is dropped.
CommitOffsetFails(h) ==
  /\ At(h, "commit")
  /\ CommitHand(h) \/ UNCHANGED committed
  /\ NextMessage(h)
  /\ Fault("commit")
  /\ UNCHANGED <<log, tracker, position, accounts, consumer, pg, ddb>>

\* enable.auto.commit: from time to time, what has been delivered.
AutoCommit ==
  /\ \E r \in Routes \ {"exactly_once"} :
       /\ consumer[r] /\ committed[r] # position[r]
       /\ committed' = [committed EXCEPT ![r] = position[r]]
  /\ UNCHANGED <<log, tracker, position, accounts, service, task, budget>>
-----------------------------------------------------------------------------
(* safe_write_consumed                                                     *)

Count(h) ==
  /\ consumedCount' = [consumedCount EXCEPT ![Row(h)] = @ + 1]
  /\ consumerType' = [consumerType EXCEPT ![Row(h)] = route[h]]

WriteConsumed(h) ==
  /\ At(h, "write") /\ pg = "up"
  /\ Count(h)
  /\ Goto(h, "apply")
  /\ UNCHANGED <<log, group, accounts, service, route, left, hand, budget>>

\* The connection breaks during the update, which is applied nevertheless;
\* the task never learns and retries on the dead connection for ever.
WriteLost(h) ==
  /\ At(h, "write") /\ pg = "up"
  /\ Count(h)
  /\ pg' = "broken"
  /\ Fault("tracker")
  /\ UNCHANGED <<log, group, accounts, consumer, ddb, lock, task>>

\* The connection task ends; nothing ever replaces the client.
BreakPg ==
  /\ pg = "up"
  /\ pg' = "broken"
  /\ Fault("tracker")
  /\ UNCHANGED <<log, tracker, group, accounts, consumer, ddb, lock, task>>
-----------------------------------------------------------------------------
(* safe_transaction                                                        *)

ApplyRow(h) ==
  /\ At(h, "apply")
  /\ Apply(Tx[Row(h)])
  /\ NextMessage(h)
  /\ UNCHANGED <<log, tracker, group, table, consumer, pg, ddb, budget>>

\* An error that is_retryable_error does not know, after the write or instead
\* of it: the function returns, and so the message is done with.
ApplyFatal(h) ==
  /\ At(h, "apply")
  /\ Apply(Tx[Row(h)]) \/ Unchanged
  /\ NextMessage(h)
  /\ Fault("fatal")
  /\ UNCHANGED <<log, tracker, group, table, consumer, pg, ddb>>

\* A retryable error reported after the write: the write is made again, as a
\* new request.
ApplyAgain(h) ==
  /\ At(h, "apply") /\ ErrorsNamed
  /\ Apply(Tx[Row(h)])
  /\ Fault("transient")
  /\ UNCHANGED <<log, tracker, group, table, service, task>>
-----------------------------------------------------------------------------
(* The container is killed and started again; the requests are lost        *)

Crash ==
  /\ crashes < MaxCrashes
  /\ crashes' = crashes + 1
  /\ consumer' = [r \in Routes |-> FALSE]
  /\ position' = [r \in Routes |-> 0]
  /\ pg' = "none" /\ ddb' = FALSE /\ lock' = NoTask
  /\ pc' = [h \in Tasks |-> "idle"]
  /\ route' = [h \in Tasks |-> NoRoute]
  /\ left' = [h \in Tasks |-> 0]
  /\ hand' = [h \in Tasks |-> 0]
  /\ UNCHANGED <<log, tracker, committed, accounts, faults>>
-----------------------------------------------------------------------------
(* The specification                                                       *)

\* Steps of a task that need no failure.
Work(h) ==
  \/ Connect(h) \/ CreateTable(h) \/ Subscribe(h) \/ Recv(h)
  \/ CommitOffset(h) \/ WriteConsumed(h) \/ ApplyRow(h)

Failure(h) ==
  \/ ConnectFails(h) \/ CreateTableLost(h) \/ RecvError(h) \/ Rebalance(h)
  \/ CommitOffsetFails(h) \/ WriteLost(h) \/ ApplyFatal(h) \/ ApplyAgain(h)

\* The steps of the service and of its own faults.
Serve ==
  \/ \E h \in Tasks : Request(h) \/ Acquire(h) \/ Work(h) \/ Failure(h)
  \/ AutoCommit \/ BreakPg \/ Crash

Next == Serve \/ Publish \/ Settle

\* tokio runs a task that can run; its mutex is first in, first out.
Running == \A h \in Tasks : SF_vars(Acquire(h)) /\ WF_vars(Work(h))

\* Moreover, the drivers keep sending requests.
Scheduling == Running /\ \A h \in Tasks : WF_vars(Request(h))

\* A transaction does not stay open for ever.
Fairness == Scheduling /\ WF_vars(Settle)

Spec == Init /\ [][Next]_vars
FairSpec == Spec /\ Fairness
-----------------------------------------------------------------------------
(* Properties                                                              *)

\* Types, and that a task has a message in hand exactly from recv to the end
\* of the iteration, and iterations left exactly while it serves a request.
TypeOK ==
  /\ LogType /\ AccountsType
  /\ consumedCount \in [Ids -> Nat]
  /\ consumerType \in [Ids -> Routes \cup {NoRoute}]
  /\ committed \in [Routes -> Nat] /\ position \in [Routes -> Nat]
  /\ consumer \in [Routes -> BOOLEAN]
  /\ pg \in {"none", "up", "broken"}
  /\ ddb \in BOOLEAN /\ table \in BOOLEAN
  /\ lock \in Tasks \cup {NoTask}
  /\ pc \in [Tasks -> Steps]
  /\ route \in [Tasks -> Routes \cup {NoRoute}]
  /\ left \in [Tasks -> 0 .. MaxRequest]
  /\ hand \in [Tasks -> Nat]
  /\ crashes \in 0 .. MaxCrashes /\ faults \in 0 .. MaxFaults
  /\ \A h \in Tasks : /\ (pc[h] \in InHand <=> hand[h] # 0)
                       /\ (pc[h] = "idle" <=> left[h] = 0)
                       /\ (pc[h] = "idle" <=> route[h] = NoRoute)

\* README, property 3, on the side of the consumer, and commit_message before
\* everything else in safe_get_consumed: a row that is in bankEO only is not
\* counted more often than it has visible copies there, whatever crashes,
\* rebalances, retries or failed commits do.
CountedOncePerCopy ==
  \A i \in Ids :
    Committed("bankAO", i) = {} =>
      consumedCount[i] <= Cardinality(Committed("bankEO", i))

\* README, property 7: the accounts table has items only for ibans that occur
\* in a row recorded as consumed, because the state-tracker is written before
\* DynamoDB.  (eventually_ibans_match.py asks for a row that funds the iban; a
\* transfer may be consumed before that one.)
Ibans(tx) ==
  CASE tx.kind = "fund" -> {tx.iban}
    [] tx.kind = "transfer" -> {tx.from, tx.to}
    [] OTHER -> {}

ItemsAreConsumed ==
  \A a \in items : \E i \in Ids : consumedCount[i] > 0 /\ a \in Ibans(Tx[i])

\* README, property 6: no step but the funding of a new account changes the
\* sum of the balances, also when a write is made twice or reported as failed.
MoneyOnlyFromFunding ==
  [][Total' # Total =>
       /\ Total' = Total + Funding
       /\ Cardinality(items') = Cardinality(items) + 1]_vars

\* README, property 5, where a restart, a rebalance or a failed commit loses
\* messages: the exactly-once route never goes back, no row is counted there
\* when a later row already was.
NeverBack ==
  [][\A i, j \in Ids :
       /\ j < i /\ consumerType[i] = "exactly_once"
       /\ consumedCount'[j] # consumedCount[j]
       => consumerType'[j] # "exactly_once"]_vars

RowsInHand(steps) == {Row(h) : h \in {g \in Tasks : pc[g] \in steps}}

\* What a failure of the given kind, and a restart, may cost.
Spent(kind) == crashes + IF kind \in Failures THEN faults ELSE 0

\* README, property 4, where a restart or a failed commit comes between the
\* commit of an offset and the count: each costs at most the one message in
\* hand, on whichever route, and nothing else is ever passed and not counted.
Lost ==
  {i \in Ids :
     /\ consumedCount[i] = 0
     /\ \E r \in Routes : \E k \in Committed(TopicOf(r), i) : k <= committed[r]}

LossBounded ==
  Cardinality(Lost \ RowsInHand({"commit", "write"})) <= Spent("commit")

\* README, property 6, where a restart or an error that is not retried comes
\* between the count and the write to the accounts: each costs at most one
\* funding; every other funding that is counted is made or in hand.
Unfunded ==
  {i \in Ids : /\ consumedCount[i] > 0 /\ Tx[i].kind = "fund"
               /\ Tx[i].iban \notin items}

FundingLossBounded ==
  Cardinality(Unfunded \ RowsInHand({"write", "apply"})) <= Spent("fatal")

\* The consumer implements Consumption, where a message of bankEO is taken once,
\* by the commit of its offset, and counted at most once, and where the accounts
\* change by whole writes of counted rows: the tasks and their lock, the
\* connections, rebalances, retries and restarts add nothing a reader of the
\* state-tracker and of the accounts could see.
Taken == IF "exactly_once" \in Routes THEN committed["exactly_once"] ELSE 0

Pending ==
  \E h \in Tasks : pc[h] = "write" /\ pg = "up" /\ route[h] = "exactly_once"

Abstract == INSTANCE Consumption WITH taken <- Taken, pending <- Pending

ConsumptionSpec == Abstract!Spec

\* README, property 4: the offsets a group has committed are covered by
\* counts on the state-tracker, but for the message a task is about to count.
\* (Not so once a restart or a failed commit intervenes.)
Delivered(i) ==
  UNION {{r} \X {k \in Committed(TopicOf(r), i) : k <= committed[r]} :
           r \in Routes}

Uncounted(i) == {h \in Tasks : pc[h] \in {"commit", "write"} /\ Row(h) = i}

NothingSkipped ==
  \A i \in Ids :
    Cardinality(Delivered(i)) <= consumedCount[i] + Cardinality(Uncounted(i))

\* README, property 5, within a topic: once a row has been consumed on a
\* route, every earlier row that is visible in the topic of the route has been
\* consumed, also after rebalances, lost connections and fatal errors.
ConsumedInTopicOrder ==
  \A i \in Ids, j \in Ids :
    consumerType[i] # NoRoute /\ j < i
      /\ Committed(TopicOf(consumerType[i]), j) # {} => consumedCount[j] > 0

\* README, properties 2 and 4: every visible message of a route that is
\* called is consumed.
EveryMessageConsumed ==
  \A r \in Routes, i \in Ids :
    Committed(TopicOf(r), i) # {} ~> consumedCount[i] > 0
=============================================================================
