# Verification of the data streaming demo

TLA+ specifications of the pipeline of this repository: the loader, the
producer service, the Kafka cluster as the services see it, the consumer
service, the accounts in DynamoDB, the validator and the test-composer scripts,
each on its own and the services together; their TLC configurations; and
machine-checked proofs about each of them, about the services together, and
that the two services implement the abstract specifications of what they promise. All references below
are to files under `src/`; *producer*, *consumer* and *validator* stand for
`workload/<name>/<name>/src/main.rs`.

    tlc -workers 2 -config ProducerSafety.cfg MCProducer      # one of the runs
    tlapm ProducerProofs.tla                                  # the proofs

## 1. Inventory

| Component | Code | State it keeps | Operations | Talks to |
|---|---|---|---|---|
| data generator | `data-generator/base.py`, `custom_providers.py` | none between requests | random records, `/batch/<n>` | loader (HTTP) |
| loader | `data-generator/pgsql_client.py`, `pgsql_ep.sh` | its Postgres connection | `create_schema`, `fetch_and_save` (a batch per transaction), `get_bank_accounts` | data generator, state-tracker |
| state-tracker | table `producer` (`pgsql_client.py:43-52`) | one row per record: id, data, produced/consumed columns, `consumed_count` | SQL of the others | |
| producer | producer | Kafka client per route, one Postgres client, the lock of the map | `POST /<route>/<topic>/<n>`, four routes | state-tracker, Kafka |
| Kafka | `kafka/` and rdkafka | logs, transactions, epoch of the transactional id, group offsets | external | |
| consumer | consumer | Kafka consumer per route, one Postgres and one DynamoDB client, the lock of the map | `POST /<route>/<topic>/<n>`, two routes | Kafka, state-tracker, DynamoDB |
| accounts | table `accounts` (consumer:89-264) | an item with a balance per iban | `safe_create_table`, `safe_fund`, `safe_transfer` | |
| validator | validator | none | three read-only checks | state-tracker |
| test-composer | `workload/validator/test-composer/` | none | drivers that call the services, two checks in Python | all |
| deployment | compose files, Makefile, workflows | containers | start, kill, restart | all |

What makes the system right is the table of properties in the repository's
README (lines 125-134): generated data is produced (1) and consumed (2, 4, 8),
exactly once on the exactly-once route (3), in order (5), money is conserved
(6), accounts come from consumed records (7).

What is hard:

* *Interleaving.* Each request is a tokio task. A task holds the lock of the
  clients' map from its first line to its last, across every `await`. That lock
  keeps the read-publish-mark cycle of the producer atomic with respect to
  other requests, and is the only thing that does. It also lets one task that
  never ends stop the service.
* *Failure between two steps.* There is no transaction across Kafka and
  Postgres, or across Postgres and DynamoDB: publish then mark, commit the
  offset then count then apply. A restart falls between any two of them.
* *Retries.* Almost every call is in a loop. Some loops repeat what has
  happened (a plain send whose acknowledgement is lost, a DynamoDB write
  reported as failed), and some can never succeed (a send of a fenced client, a
  query on a closed connection).
* *Protocol.* Both transactional clients use one `transactional.id`
  (producer:161, 176); a client in an abortable or fatal state accepts neither
  begin nor send.
* *Ordering.* One table feeds two topics and two consumer groups feed one
  table of accounts.

The hazards, each at its line and with the properties that answer to it, are
listed in `PROJECT.json`.

## 2. Modules

| Module | Contents |
|---|---|
| `Broker` | the log of the two topics, transactions, the read_committed view. External: modelled from how the services use it |
| `BrokerProofs` | what the operators of `Broker` do to the topics |
| `Producer` | the producer service and, as its environment, the loader and the coordinator's timer |
| `MCProducer` | symmetry for TLC |
| `ProducerProofs` | inductive invariant and theorems about `Producer`, which implements `Publication` |
| `Publication` | abstract: rows become visible one after the other and are then recorded |
| `Accounts` | the table of accounts and the two writes made to it |
| `AccountsProofs` | sums over a finite set, and what the two writes do to the sum of the balances |
| `Consumer` | the consumer service and, as its environment, whoever writes the topics |
| `MCConsumer` | the data of the rows and symmetry for TLC |
| `Consumption` | abstract: messages are taken, counted once or not at all, and counted rows are written to the accounts |
| `ConsumerProofs` | inductive invariant and theorems about `Consumer`, which implements `Consumption` |
| `Pipeline`, `MCPipeline` | `Producer` and `Consumer` on one `Broker`; the checks of validator and scripts as predicates |
| `PipelineProofs` | what the two guarantee together |
| `Drain`, `MCDrain` | `Pipeline` when production stops and `eventually_producer_consumer_matches_test.sh` runs; the rows of `MCPipeline` |
| `Loader`, `MCLoader` | the loader and its script |
| `LoaderProofs` | inductive invariant and theorems about `Loader` |
| `Validator`, `MCValidator` | the validator, over a state-tracker that goes on changing |
| `ValidatorProofs` | inductive invariant and theorems about `Validator` |
| `Scripts`, `MCScripts` | `eventually_ibans_match.py`, over accounts that go on changing |
| `ScriptsProofs` | invariant and theorems about `Scripts` |

    Broker   Accounts                       Loader   Validator   Accounts
      |  \     /                                                     |
      |   Consumer   Producer                                    Scripts
      |        \      /                  Consumer refines Consumption
      +------- Pipeline                  Producer refines Publication
                  |                      Pipeline refines Consumer
                Drain

`Producer` extends `Broker`; `Consumer` extends `Broker` and `Accounts`.
`Pipeline` has an instance of each, which share `log`; a step of the pipeline is
a step of one service. `Consumer` has an environment of its own for the topics
(`Publish`, `Settle`), so that it can be checked alone: the run
`PipelineExactlyOnce` checks, and `PipelineImplementsConsumer` proves, that
`Pipeline` implements `Consumer!Spec`, that is that the producer does nothing
that environment does not. `Validator` likewise has an environment of its own,
the pipeline as the state-tracker shows it; `TrackerWrites` of `Pipeline` says
what that assumes, is checked by the same run and proved (`TrackerWritesInTurn`).

### Steps

A step is what happens between two points at which another process can
interfere: one call to Kafka, Postgres or DynamoDB with the local work around
it. A retry loop is the *absence* of a step: an attempt that fails and has no
effect changes nothing, so it is not an action; an attempt that has an effect
and is reported as failed is one (`SendPlainTimesOut`, `RecordLost`,
`WriteLost`, `ApplyAgain`, `CreateTableLost`, `CommitOffsetFails`). A loop that
can never end is a task that has no enabled step.

A panic (`unwrap` on a refused connection or a fatal `init_transactions`) ends
only the spawned task (producer:458) and drops its guards; tokio's mutex is not
poisoned. The 30-second limit of the drivers' `curl` does not end the task
either: it is spawned apart from the connection.

### Producer

| Variable | Code |
|---|---|
| `rows`, `producerType` | table `producer`; `producer_type` and `produced_timestamp` are written together (producer:399-404), so one variable stands for both |
| `log`, `txnOwner` | Kafka: the partitions; the client whose epoch of the one transactional id is current |
| `client` | `producers: HashMap` (producer:64): absent, ready, inside a transaction (`txn`), or `failed`, a state librdkafka leaves only by an abort, which `safe_send` never calls with success |
| `pg`, `lock` | `pg_client`, the guard of `producers`; the guard of `pg_client` is only taken inside the other |
| `pc`, `route`, `batch` | a request: where it is in `handle`, its route, the rows of its query not yet dealt with |

| Actions | Code |
|---|---|
| `Request`, `Acquire` | middleware and the lock (451-481) |
| `CreateProducer`, `CreateFails` | `create_config`, `safe_init_transaction` (96-217) |
| `Connect`, `ConnectFails`, `Query` | 483-500, `safe_get_unproduced_data` (363-395) |
| `Begin`, `SendTxn`, `SendTimesOut`, `SendFenced`, `Commit`, `CommitFatal` | `safe_send` on a transactional route (225-291) |
| `SendPlain`, `SendPlainTimesOut` | `safe_send` on a plain route (292-315) |
| `Record`, `RecordLost` | `safe_write_produced` (397-424) |
| `Insert` | `insert_records` of the loader |
| `BreakPg`, `ExpireAbandoned`, `ExpireSlow`, `Crash` | the environment |

### Consumer

| Variable | Code |
|---|---|
| `consumedCount`, `consumerType` | columns of `producer`; `consumed_timestamp` is written with them |
| `committed`, `position` | offset of the group, offset last delivered. Each route has a group of its own (419, 435) |
| `consumer`, `pg`, `ddb`, `lock` | `AppState` (636-643) |
| `items`, `balance`, `table` | the table `accounts` |
| `pc`, `route`, `left`, `hand` | a request: place in `handle`, iterations left, message in hand |

| Actions | Code |
|---|---|
| `Request`, `Acquire` | middleware, lock, `create_config` (415-451, 552-584) |
| `Connect`, `ConnectFails`, `CreateTable`, `CreateTableLost` | 586-606, `safe_create_table` (109-149) |
| `Subscribe`, `Recv`, `RecvError`, `Rebalance` | `safe_subscribe`, `recv` (453-476) |
| `CommitOffset`, `CommitOffsetFails`, `AutoCommit` | 497-512, `enable.auto.commit` (423, 436) |
| `WriteConsumed`, `WriteLost`, `BreakPg` | `safe_write_consumed` (279-314) |
| `ApplyRow`, `ApplyFatal`, `ApplyAgain` | `safe_transaction`, `safe_fund`, `safe_transfer` (151-264) |
| `Publish`, `Settle` | the other side of the topics: copies in the order of the ids, which `TopicsAscendingAlways` proves of `Producer` |
| `Crash` | restart |

`ErrorsNamed` says whether the text of an SDK error contains the name of the
error, which consumer:73-81 and :139 look for. The `Display` of the SDK's
`SdkError` is "service error" without it, so FALSE is the program as built.
TRUE only adds behaviour (the guards of `CreateTable` and `ApplyAgain` get
weaker), so the safety runs use TRUE and cover both; the runs about liveness
use FALSE.

### Pipeline and Drain

The state is that of the two services. `Produce` is a step of `Producer`, its
insertions restricted to tables in which a transfer follows the funding of both
its accounts (`FundedFirst`; `TransferAfterFunding` of `Loader` is the reason).
`Consume` is a step of `Consumer` without its environment.

`Drain` adds `phase`, the line the script is at. While the drivers work
(`Drive`), any step of `Pipeline` may be made, but the drivers' requests are not
the script's and call `DriverRoutes` only. `Stop` needs a producer with no
request under way. Then the script asks (`AskEO`, `AskAO`; its lines 3 and 4)
and goes on after 30 seconds, answered or not; the requests stay. `Settling` is
what the services do with what they have been asked; nothing fails any more.
`MaxRequest` stands for the 10000 of the script: more than there are messages.

### Loader

| Variable | Code |
|---|---|
| `table`, `rows`, `nextId` | table `producer`, its committed rows by id, the identity column |
| `open`, `orphan` | rows of a transaction that is open, and of a COMMIT under way whose client is gone |
| `pc`, `turn`, `pending` | place in `pgsql_ep.sh` and in the process it runs, `DATA_TYPE`, records not inserted yet |

| Actions | Code |
|---|---|
| `CreateTable`, `TableExists`, `CreateTableFails` | `create_schema` (`pgsql_client.py:39-59`): every database error is caught |
| `ConnectFails` | the constructor (25, 32) |
| `FetchAccounts`, `FetchTransfers`, `FetchFails` | `get_faker_data`, `get_bank_accounts` (75-128) |
| `InsertRecord`, `InsertNowhere`, `InsertFails`, `Commit`, `CommitFails` | `insert_records` (61-73); without a table there is nothing to insert into |
| `Crash`, `ApplyLate` | a restart of the container; the server's end of a lost COMMIT |

### Validator

| Variable | Code |
|---|---|
| `rows`, `producer`, `history` | the state-tracker: ids, `producer_type`, and the updates of `safe_write_consumed` in their order; `consumed_count` and `consumed_timestamp` are what can be read off `history` |
| `stopped`, `late` | the drivers are stopped; rows recorded since by requests in flight |
| `pg`, `pc`, `test`, `elapsed`, `last`, `verdict` | the program: connection, place, argument, `start_time`, `last_result`, the assertion made |

`Generate`, `Produce`, `Consume`, `Stop` are the pipeline as the state-tracker
shows it. `Connect` .. `CheckMatches` are `main` (210-272) and
`run_check_for_30s` (187-208), whose time runs in units of the 5 seconds it
sleeps; a round takes one or two.

### Scripts

`Record` and `ApplyRow` are the consumer: the row is recorded as consumed and
then applied, the rows of the two topics in any order. `Read` is the next read
of `eventually_ibans_match.py`, of the accounts and then of the state-tracker
(`Reads`), and after the second its assertion. A read of the accounts sees the
table at one instant, and one page of it (`Pages`). `anytime_validate_balance.py`
makes one read and one comparison; it is the predicate `BalancesMatch` of
`Pipeline`, which is about the whole table.

### Publication

`Generate`, `Publish`, `Mark`, `Restart`: a row is there; while it is the first
that is not recorded it becomes visible in a topic, in bankEO at most once more
than there were restarts, and is then recorded. `Producer` maps `copies` to the
number of visible copies in its log (`Copies`) and `restarts` to `crashes`; its
other variables have no counterpart.

### Consumption

`Publish`, `Take`, `CountTaken`, `Forget`, `CountPlain`, `Book`: copies are
written and settled by others; a visible message of bankEO after the last one
taken is taken; the one taken last may be counted, once, or is forgotten; a
visible message of bankAO is counted, at any time and any number of times; a
counted row is written to the accounts. `Consumer` maps `taken` to the committed
offset of the exactly-once group (`Taken`), `pending` to whether a task on a
working connection is about to count (`Pending`); tasks, lock, positions,
connections, requests and restarts have no counterpart. What it does not promise
is as much part of it: `Take` may jump over messages, which a restart between
`recv` and the count makes the service do.

### Abstractions

A row is its id; its payload is left out of `Producer` and is `Tx[i]` in
`Consumer`. Amounts are integers (the code's are `f64`, sent as decimal text).
In `Loader` a record is its topic and its ibans. Each topic has one partition:
`safe_send` names partition 0 and the topics are created by the broker. Replication inside the cluster, time stamps, payloads
that do not decode and the HTTP layer are left out. The topic of a request is
the one the drivers pair with its route.

## 3. Runs

| Run | Instance | Shows |
|---|---|---|
| `ProducerSafety` | 3 rows, 2 tasks, both transactional routes and a plain one, batches of up to 2, 1 restart, 1 failure of any of the six kinds | `TypeOK`, `ProducedIsPublished`, `TopicsAscending`, `NoRowOvertaken`, `ExtraCopiesNeedCrash`, `RecordedIsFinal`, and that `Producer` implements `Publication` (`PublicationSpec`) |
| `ProducerLiveness` | one transactional and one plain route, 2 rows, 1 restart, 1 of init/connect/ack | `EveryRowProduced` |
| `ProducerFenced` | both transactional routes, no failure | `EveryRowProduced` **fails** |
| `ConsumerSafety` | 2 rows (a funding, a transfer), both routes, 1 task, requests for up to 2 messages, 1 restart, 2 failures of any of the seven kinds | `TypeOK`, `CountedOncePerCopy`, `ItemsAreConsumed`, `MoneyOnlyFromFunding`, `NeverBack`, `LossBounded`, `FundingLossBounded`, and that `Consumer` implements `Consumption` (`ConsumptionSpec`) |
| `ConsumerNoLoss` | 2 rows, both routes, 2 tasks, no restart, 2 failures of any kind but "commit" | `NothingSkipped`, `ConsumedInTopicOrder` |
| `ConsumerLiveness` | the exactly-once route, 2 tasks, 2 failures of connect/recv/rebalance/fatal | `EveryMessageConsumed` |
| `PipelineExactlyOnce` | exactly-once topic, 2 rows, 1 restart and 1 failure of each service | `ExtraCountsNeedRestart`, and that the services stay within the environments of `Consumer` (`ConsumerSpec`) and of `Validator` (`TrackerWrites`) |
| `PipelineTwoTopicsBalance` | both topics, 3 rows, no failure | `BalancesMatch` **fails** |
| `DrainOneTopic` | drivers on the exactly-once topic, 3 rows (two fundings, a transfer), 1 restart of the producer, 1 failure of each | `ConsumedInOrder`, `BalancesMatch`, `IbansMatch`, `Drained` |
| `LoaderSafety` | 6 ids, batches of 2, 2 accounts, 2 restarts, 1 failure of any of the seven kinds | `TypeOK`, `TransferAfterFunding`, `RowsGrowUpwards`, `LoadingGoesOn` |
| `ValidatorSafety` | 3 ids, any of which may be left out, 4 updates, two requests in flight, a connection that breaks | `TypeOK`, `PassMeansConsumed`, `FailMeansOvertaken`, `RunEnds` |
| `ScriptsSafety` | 5 rows, 3 accounts, pages of 2 | `TypeOK`, `IbansFailIsReal` |

*Bounds.* `Ids`, `MaxLimit`/`MaxRequest`, `Lengths` (the lengths the
environment of `Consumer` may write a topic to; `Nat` when there is no bound),
`MaxCrashes` and `MaxFaults`. In the producer, three rows and batches of two give a batch that is
not the whole table and one that ends early; two tasks give a holder and a
waiter of the lock; two transactional routes give fencing; a restart and a failure in one
run give each failure before and after the restart. In `ConsumerSafety` one
task is enough: a task that waits for the lock has only its route and its count,
so the requests it would interleave are those one task sends one after the
other; `ConsumerNoLoss` and `ConsumerLiveness` have two. Two entries in a topic
give a first and a next message, two copies of one row, and a copy that is
aborted before one that is not. Two rows are enough for the accounts: the transfer
can reach the consumer before the funding of the account it takes from.
In `Pipeline` one task of each service is enough for the same reason as in
`ConsumerSafety`. In `Drain` three rows give a batch that ends early and a
transfer that follows two fundings, the requests of the drivers and both of the
script compete for the lock, and `MaxRequest` exceeds the number of messages.
In `Loader` six ids give a batch of accounts, one of transfers, and a third that
a rolled back one can displace. In `Validator` six units of 5 seconds are the
program's own 30, three rows and four updates give a row consumed out of order
and one counted twice. In `Scripts` three accounts and five rows give a transfer
ahead of either funding, and a page smaller than the table.

*What a run leaves out* is as telling as what it has.

* `ConsumerNoLoss` has no restart and no failed commit, `DrainOneTopic` also no
  second topic with messages: with any of them the properties are false (below).
* `ProducerLiveness` has one transactional route and only failures after which
  the service can go on; so has `ConsumerLiveness`, with one route.
* `RowsGrowUpwards` excepts rows whose COMMIT outlives its client
  (`ApplyLate`). When the server executes it after the next loader has inserted,
  rows with smaller ids appear after larger ones. `Producer`, whose `Insert`
  only adds larger ids, assumes that this does not happen: `NoRowOvertaken`
  would not hold otherwise. `TransferAfterFunding` needs no such exception.
* `LoadingGoesOn` is about a loader none of whose calls has failed.
* Every call to Kafka is one step. A plain send has no idempotence and is given
  up after `message.timeout.ms` (5 seconds, producer:190-213); the models have it
  executed by then or not at all. One that the broker executes only after its
  retry, or after later rows, is not modelled: it would put a copy into bankAO
  behind later ones, and `TopicsAscending`, `RecordedIsFinal`, `Publication` and
  what rests on the order of bankAO would not hold of it. bankEO is not
  concerned: transactional sends carry sequence numbers.
* A query of the validator has no time limit (validator:193). A round is assumed
  to take at most 10 seconds (`Rounds`); the bound on `elapsed` in `TypeOK` and
  `RunEnds` depend on it, `PassMeansConsumed` does not.
* A fatal commit is left out of `ProducerLiveness`: nothing is produced after it.
  `NoRowOvertaken`, which `ProducerSafety` checks with it, says only that no
  later row is published past the row it skips.

*Deadlock* is not checked: a service whose requests are all stuck, or a finished
table, really stops.

*Fairness.* Drivers keep sending requests (weak fairness of `Request`); a task
that can run is run (weak fairness of its steps); tokio's mutex is first in,
first out (strong fairness of `Acquire`); the coordinator aborts abandoned
transactions and open ones are settled (weak fairness). No failure, no
insertion and no publication is assumed to happen. `Pipeline` assumes what each
service does. `Drain` makes no request but the script's two, each line of which
is run (weak fairness of `AskEO`, `AskAO`), and `InTurn` has the mutex serve the
two in their order. `Loader`: a process that can go on does (weak fairness of
`Work`). `Validator`: the same (`Run`); the pipeline is under no obligation.

### Where the code and the repository's claims part

Two runs fail, and `PROJECT.json` quotes the lines they contradict:

* `ProducerFenced`: the two transactional clients share a `transactional.id`.
  Once both routes are used, one of them is fenced, its send is retried for ever
  under the lock, and nothing is produced any more (README:127).
* `PipelineTwoTopicsBalance`: a transfer on one topic overtakes the funding of
  its account on the other and creates the account with its own amount alone
  (README:132, `anytime_validate_balance.py:22`). The counterexample ends there;
  the funding, when it comes, is refused because the item exists.

The models show the following as well; each needs only the change of a constant
in a configuration above.

* `ProducerLiveness` with `Failures = {"tracker"}`: the connection to the
  state-tracker is never reopened, so one that breaks ends production; with
  `{"delivery"}`: after a transactional send that is not acknowledged in time
  the transaction must be aborted, the code sends again instead, for ever.
* `ConsumerNoLoss` with `MaxCrashes = 1`: a restart between the commit of an
  offset (explicit or automatic) and the count loses the message; with "commit"
  among the failures: so does a commit that is reported as failed and took
  effect. `ConsumedInTopicOrder` fails in the same way. `LossBounded`, which
  `ConsumerSafety` checks with all of these, bounds the damage: one message for
  each restart or failure, on whichever route. `FundingLossBounded` does the
  same for a row that is counted and, after a restart or a fatal DynamoDB error,
  not applied: at most one funding each. A transfer that is not made changes no
  sum, and nothing in the table shows it.
* `ConsumerLiveness` with both routes: a request on a topic without messages
  keeps the lock in `recv`, and the other route is never served. `DrainOneTopic`
  with a plain producer route next to the transactional one: the script's first
  request empties one topic and then waits in it for ever, with the lock that
  its second request needs.
* `ConsumerLiveness` with a restart: the table of accounts exists, the code
  looks for the name of the error in a text that does not contain it
  (`ErrorsNamed = FALSE`), and `safe_create_table` never returns.
* `PipelineExactlyOnce` with a property that says "counted at most once"
  (validator:136-156): false after a restart of the producer, which is why
  `ExtraCountsNeedRestart` counts the restarts.
* `PipelineTwoTopicsBalance` with `ConsumedInOrder` or `IbansMatch`: false for
  the same reason, one topic overtakes the other.
* `LoaderSafety`: after the first failed request the script is over
  (`set -e`), and nothing starts it again.
* `Validator`: `ConsumptionOrder` sorts the rows by id before it looks at their
  order (validator:113), so that its passing says nothing; its failing may be a
  gap left by a rolled back batch (`Missing` in `FailMeansOvertaken`). The
  verdict of the others is up to 5 seconds old.
* `Scripts`: on a first page of the accounts the sum of the balances proves
  nothing about the table.

## 4. Proofs

For any set of row ids, any tasks, routes and numbers of restarts and failures:

| Module | Theorem | Statement |
|---|---|---|
| `ProducerProofs` | `TypeCorrect` | `Spec => []TypeOK` |
| | `ProducedIsPublishedAlways` | `Spec => []ProducedIsPublished` |
| | `TopicsAscendingAlways` | `Spec => []TopicsAscending` |
| | `PublishedInOrder` | `Spec => []NoRowOvertaken` |
| | `ExactlyOnceUpToCrashes` | `Spec => []ExtraCopiesNeedCrash` |
| | `RecordedStaysFinal` | `Spec => RecordedIsFinal` |
| | `TopicsWritten` | `Spec => [][TopicStep]_log` |
| | `ProducerImplementsPublication` | `Spec => PublicationSpec` |
| `ConsumerProofs` | `ConsumerTypeCorrect` | `Spec => []TypeOK` |
| | `CountedOncePerCopyAlways` | `Spec => []CountedOncePerCopy` |
| | `ItemsAreConsumedAlways` | `Spec => []ItemsAreConsumed` |
| | `MoneyOnlyFromFundingAlways` | `Spec => MoneyOnlyFromFunding` |
| | `ConsumerImplementsConsumption` | `Spec => ConsumptionSpec` |
| | `NeverGoesBack` | `Spec => NeverBack` |
| | `LossBoundedAlways` | `Spec => []LossBounded` |
| | `FundingLossBoundedAlways` | `Spec => []FundingLossBounded` |
| | `NothingSkippedUninterrupted` | `Uninterrupted` implies `Spec => []NothingSkipped` |
| | `ConsumedInTopicOrderUninterrupted` | `Uninterrupted` implies `Spec => []ConsumedInTopicOrder` |
| `PipelineProofs` | `CountedOnceUpToRestarts` | `Spec => []ExtraCountsNeedRestart` |
| | `PipelineImplementsConsumer` | `Lengths = Nat` implies `Spec => ConsumerSpec` |
| | `TrackerWritesInTurn` | `Spec => TrackerWrites` |
| | `ConsumedInOrderOneTopic` | `OneTopic` and `Uninterrupted` imply `Spec => []ConsumedInOrder` |
| | `IbansMatchOneTopic` | the same for `[]IbansMatch` |
| | `BalancesMatchOneTopic` | the same, without "fatal" failures, for `[]BalancesMatch` |
| `LoaderProofs` | `LoaderTypeCorrect` | `Spec => []TypeOK` |
| | `TransferAfterFundingAlways` | `Spec => []TransferAfterFunding` |
| | `RowsGrowUpwardsAlways` | `Spec => RowsGrowUpwards` |
| `ValidatorProofs` | `ValidatorTypeCorrect` | `Spec => []TypeOK` |
| | `PassMeansConsumedAlways` | `Spec => []PassMeansConsumed` |
| | `FailMeansOvertakenAlways` | `Spec => []FailMeansOvertaken` |
| `ScriptsProofs` | `ScriptTypeCorrect` | `Spec => []TypeOK` |
| | `IbansFailIsRealAlways` | `Spec => IbansFailIsReal` |

*Assumptions* are those of the modules: ids are natural numbers, transactional
and plain routes differ, the sentinels are not tasks or routes, bounds are
natural numbers, the rows carry transactions. `Uninterrupted` is `MaxCrashes = 0`
and no "commit" among the `Failures` of the consumer; `OneTopic` that the
producer has no plain routes, or no transactional ones. Without them the
theorems that name them are false, as section 3 says. `Lengths = Nat` takes away
a bound that exists for TLC only. "fatal", a DynamoDB error after which the
row is given up, leaves a funding unmade whose account a transfer then creates
without it. `BrokerProofs` has the facts about the log that the others rest on. The inductive invariants are theorems of
their own: `Invariance` of the producer, `ConsumerInvariant` of the consumer.

*Producer.* None of the properties is inductive. `IInv` adds, from the lock
outwards: whoever is inside `handle` holds the lock (`LockInv`), so there is one
such task; it has in hand rows of the table that nobody has recorded
(`BatchInv`), and every unrecorded row before them (`PrefixInv`), unless its
client has failed and can publish no more: that is why a row skipped by
`if let Ok(_)` is never overtaken. Hence a copy is never published before an
earlier row is recorded. An open entry belongs to the one task about to commit
(`OpenInv`, `CommitInv`), so that a commit makes exactly one copy of the current
row visible (`RecordInv`), and a row that is not recorded, and not about to be,
has no more visible copies than there were restarts (`CopiesInv`). There is one
lemma for each part; each goes through the actions that can disturb it. Two
lemmas carry most of the work: `LogChange` and `EntriesStay` reduce the 22
actions to the four things a step can do to the log.

*Publication.* The refinement uses the same invariant: a step that makes a
copy visible is made by the task whose current row is the first unrecorded one
(`PrefixInv`), it makes one copy of it visible (`OpenInv`), and in bankEO only
while the row has at most `crashes` copies (`CopiesInv`). All other steps but
insertions, updates of `producer_type` and restarts leave the mapped state
unchanged.

*Consumer.* `CountedOncePerCopy` is not inductive: a row whose offset is
committed may still have to be counted. `GroupInv` says that the exactly-once
consumer is never before its group's offset, and that a message about to be
committed is after it. So each commit adds a copy to those the group has passed
(`Passed`), and `CountInv` can say that a row is counted at most that often, and
less often while a task is about to count it on a connection that is up. A count
that is applied when the connection breaks (`WriteLost`) is not made again,
because nothing replaces the connection. `HandInv` keeps the message in hand a
visible entry of its topic, `LockInv` keeps one task inside `handle`, and
`AppliedInv` has the row that is about to be applied counted, from which
`ItemsAreConsumed` follows.

*Consumption.* The commit of the offset is `Take`, the update of the
state-tracker `CountTaken` or `CountPlain`, a write to the accounts `Book`; a
crash or a broken connection before the update is `Forget`. `TakenInv` adds to
`IInv` that a message of bankEO about to be counted is the last one committed:
only `CommitOffset` moves that offset (`OffsetOfBankEO`), and the lock keeps
another task from doing so in between. That the counting task is the only one
(`PendingOfHolder`) is what makes `pending` a Boolean and not a number.

*Order through restarts.* `NeverBack` follows from `Consumption` and the order
of the topic: a row counted on the exactly-once route has a copy at or before
the last message taken (`CountedTaken`), the next one counted is that message,
and copies ascend (`AscendingInv`). Nothing is needed of what `Consumer` has more
than `Consumption`, which is why no failure has to be excluded.

*Money.* `Total` is a fold over the accounts. `AccountsProofs` proves what it
needs of such a sum by the smallest counterexample: a set for which a statement
fails and that has the least number of members (`SmallestSet`, `LeastElement`)
is not empty, and the set without one of them is no counterexample. So a change
of one balance changes the sum by as much (`SumUpdate`); a transfer changes two,
by amounts that cancel, and `Fund` adds an item and the funding
(`TransferEffect`, `FundEffect`). That is `MoneyOnlyFromFunding`, the repeated
write included, whose condition then fails or which moves the amount again.

*Balances.* `MoneyOnlyFromFunding` does not say that every item was funded; a
transfer that comes first makes one that was not. `BalanceInv` has the sum, and
that an account without an item has balance 0 (`NoItemNoMoney`) and that the
fundings of a consumed row have reached the table or are on their way to it
(`FundedInv`). So the accounts of a transfer are there when it is applied,
provided its fundings are consumed before it (`TransfersFounded`), which
`FlowIsFounded` has from the order of consumption in `Pipeline`. A "fatal"
failure is what would let a funding be consumed and not be on its way.

*Nothing skipped, nothing overtaken.* For `Uninterrupted` runs, `FlowInv` adds
that no consumer is before its group's offset and none has passed an open entry
(`ReadInv`). `NothingSkipped` counts up to the committed offset, which jumps
when offsets are committed; `SeenInv` counts up to the position instead, which
goes up one visible message at a time and otherwise only down, and contains
what `NothingSkipped` says. When a row is about to be counted, `SeenInv` leaves
no room for an uncounted one before it (`CaughtUp`); so a consumed row has a copy
before which everything visible is counted, for good, since settled entries do
not change and new ones come later (`OrderInv`, `LogExtends`). Copies ascend with
their rows, which gives `ConsumedInTopicOrder`.

*Losses.* Without `Uninterrupted`, a group may commit past rows that are never
counted; `CostInv` says how many. A message is reached when it is not after the
group's offset or not after the consumer's position; only settled ones are, and
the message in hand is the last delivered (`ReachInv`). The rows reached and not
counted (`Missed`) contain those of `Lost`, and grow only by the
message `recv` delivers (`RecvMisses`), which is the one in hand (`LockInv` leaves
no second); it stays in hand (`InHandStays`) until it is counted, or until a
restart or a failed commit drops it, which is paid for in `Spent` (`LossInv`). All
other steps miss nothing new (`QuietMisses`). For fundings, a row enters `Unfunded`
when it is counted, with its task about to apply it, and leaves it when `Fund`
finds no item or finds one already there (`FundingLossInv`).

*Pipeline.* The invariant is both. A step of the producer only lets the log grow
(`LogStaysVisible` of `ProducerProofs`), which keeps the consumer's (`GrowStep`
of `ConsumerProofs`); a step of the consumer leaves everything the producer's
speaks of unchanged (`ServeLog`). Then a row in bankEO only is counted at most
as often as it has visible copies, and has at most one more than there were
restarts of the producer. `SameInit`, `SameNext` and `SameServe` identify the
definitions of the two services as `Pipeline` and as the proofs instantiate
them. With `OneTopic`, a visible copy of a row proves every earlier row of the
table recorded (`NoRowOvertaken`), hence visible (`ProducedIsPublished`), hence
in the same topic (`FedInv`), hence consumed before it (`ConsumedInTopicOrder`):
`ConsumedInOrder`. A transfer has its fundings before it in the table
(`FundedFirst`), so they are consumed before it, and every account that is
there has been funded by a consumed row: `IbansMatch`.

*Environments.* `PipelineImplementsConsumer` maps a step of the producer to
`Publish`, `Settle` or a stutter: `TopicStep` of `ProducerProofs` is what the
environment of `Consumer` may do (`SameEnvironment`). For the validator,
`ProducerTracker` has from `PrefixInv` that a row is recorded when it is the
first that is not, and `ConsumerTracker` that a message in hand is a visible copy
of a row in the table, before which every row is recorded (`NoRowOvertaken`).

*Loader.* A record is checked against the table when it is fetched and is seen
by readers two transactions later; `PendingFunded` and `Funded` carry the
funding rows through what waits, what is open and what a lost COMMIT may still
make visible. They stay funded because rows are never taken away, which rests on
`TypeOK`: no two transactions have an id in common. `OpenAbove` gives the order.

*Validator.* The result that is judged may be of an earlier round, kept over
queries that failed. `MatchInv` says what it is still worth: of the rows it does
not name no more are unconsumed (`Unnamed`) than were recorded since the drivers
were stopped, because consumed rows stay so and `late` goes up with each that is
recorded. A pass is a result that names none. `ClockInv` bounds the time, `StoppedInv` ties the test to
the drivers' end. For `ConsumptionOrder`, the rows are sorted: `ConsumedData` is
the ascending enumeration of the consumed rows, which exists because the number
of smaller ones (`Rank`) numbers them (`EnumeratesAll`). Two neighbours that are
not consecutive enclose an id that is missing, or that of a row not consumed
(`BrokenMeansGap`), and the later neighbour was consumed before it
(`BrokenMeansOvertaken`); that does not go away (`OvertakenStays`).

*Scripts.* What the script has read of the accounts is still there when it reads
the state-tracker (`ScriptInv`).

*Only model-checked*: liveness (`EveryRowProduced`, `EveryMessageConsumed`,
`Drained`, `LoadingGoesOn`, `RunEnds`), which is out of the prover's reach. Every
invariant and action property and every refinement that a passing run checks is
also a theorem. The proofs about sums do not use the induction theorems of the
library, whose operator parameters no prover here can instantiate: a claim by
induction is stated as a set of counterexamples that has a least element.

## 5. Plan

1. Done: all modules of section 2, the runs of section 3, the proofs of
   section 4.
2. Done: abstract specifications of both services, and the environments of
   `Consumer` and `Validator` shown to be those the services provide; the order of
   the exactly-once route after a restart of the consumer (`NeverBack`).
3. What follows from `Publication` and `Consumption` alone: the counts of the
   exactly-once topic without the details of either service.

## 6. Not modelled

The data generator (random values, no state), `check_data_store` and the loops
with which `pgsql_ep.sh` waits for the other services (they change nothing),
replication inside Kafka, isolation of a DynamoDB Scan from transactions under
way, the worker threads of tokio, the web framework, container builds, CI
workflows and the Makefile. `consumer/src/temp` is not part of the build.
