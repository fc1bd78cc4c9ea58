------------------------------ MODULE Producer ------------------------------
(***************************************************************************)
(* The producer service (src/workload/producer/producer/src/main.rs).      *)
(*                                                                         *)
(* An HTTP request POST <route>/<topic>/<num_records> is served by a task  *)
(* that runs handle: it takes the lock of the producers map and keeps it   *)
(* to the end, creates the route's Kafka client on first use, opens the    *)
(* one shared connection to the state-tracker on first use, reads the      *)
(* oldest rows not yet produced, and for each of them publishes the row    *)
(* (safe_send) and then records on the state-tracker that it did           *)
(* (safe_write_produced).                                                  *)
(*                                                                         *)
(* One task is one request in flight.  A step is what happens between two  *)
(* points at which another process can interfere: a call to Kafka or to    *)
(* the state-tracker.  A retry loop is the absence of a step: an attempt   *)
(* that fails without effect leaves the state as it is.                    *)
(***************************************************************************)
EXTENDS Broker

CONSTANTS
  Tasks,        \* request handlers in flight
  TxnRoutes,    \* exactly_once_single, exactly_once_batch
  PlainRoutes,  \* atleast_once_single, atleast_once_batch
  MaxLimit,     \* bound on num_records
  MaxCrashes,   \* bound on restarts of the service
  Failures,     \* the kinds of failure that may happen, of FailureKinds
  MaxFaults,    \* bound on their number
  NoTask,       \* the lock is free
  NoRoute       \* not set (producer_type IS NULL; no transactional client)

FailureKinds == {
  "init",      \* init_transactions fails with a fatal error
  "connect",   \* the state-tracker refuses the connection
  "tracker",   \* the established connection breaks
  "delivery",  \* a transactional send is not acknowledged in time
  "expiry",    \* a transaction in use reaches transaction.timeout.ms
  "ack"}       \* the acknowledgement of a plain send is lost

Routes == TxnRoutes \cup PlainRoutes

ASSUME RoutesAssumption == TxnRoutes \cap PlainRoutes = {}
ASSUME SentinelAssumption == NoTask \notin Tasks /\ NoRoute \notin Routes
ASSUME BoundAssumption ==
  /\ MaxLimit \in Nat \ {0} /\ MaxCrashes \in Nat /\ MaxFaults \in Nat
  /\ Failures \subseteq FailureKinds

VARIABLES
  rows,          \* state-tracker: ids present in table "producer"
  producerType,  \* state-tracker: producer_type of a row
  txnOwner,      \* Kafka: route whose client holds the current producer epoch
  client,        \* service: the Kafka client of a route
  pg,            \* service: the shared state-tracker connection
  lock,          \* service: holder of the lock of the producers map
  pc,            \* task: where it stands in handle
  route,         \* task: the route of its request
  batch,         \* task: rows of the query still to be published
  crashes,       \* restarts so far
  faults         \* failures so far

tracker == <<rows, producerType>>
service == <<client, pg, lock>>
task    == <<pc, route, batch>>
budget  == <<crashes, faults>>
vars    == <<log, tracker, txnOwner, service, task, budget>>

\* The steps of handle at which a row is being published.
RowSteps == {"begin", "send", "commit", "record"}
Held     == {"create", "connect", "query"} \cup RowSteps
Steps    == {"idle", "waiting"} \cup Held

Init ==
  /\ rows = {}
  /\ producerType = [i \in Ids |-> NoRoute]
  /\ log = [t \in Topics |-> << >>]
  /\ txnOwner = NoRoute
  /\ client = [r \in Routes |-> "absent"]
  /\ pg = "none"
  /\ lock = NoTask
  /\ pc = [h \in Tasks |-> "idle"]
  /\ route = [h \in Tasks |-> NoRoute]
  /\ batch = [h \in Tasks |-> {}]
  /\ crashes = 0
  /\ faults = 0

-----------------------------------------------------------------------------
(* Helpers                                                                 *)

Recorded(i) == producerType[i] # NoRoute

\* Mutant of Unproduced: the query has no WHERE.
AnyRow == rows

\* WHERE produced_timestamp IS NULL
Unproduced == {i \in rows : ~Recorded(i)}

\* Mutant of Oldest: ORDER BY id DESC.
Newest(S, n) == {i \in S : Cardinality({j \in S : i < j}) < n}

\* ORDER BY id ASC LIMIT n
Oldest(S, n) == {i \in S : Cardinality({j \in S : j < i}) < n}

\* The drivers send the exactly-once routes to bankEO, the others to bankAO.
TopicOf(r) == IF r \in TxnRoutes THEN "bankEO" ELSE "bankAO"

\* Mutant of Current: the rows of the query come in no order.
Unordered(h, i) == i \in batch[h]

\* Row i is the one task h is publishing: the rows come in ascending order.
Current(h, i) == i \in batch[h] /\ \A j \in batch[h] : i <= j

At(h, step)   == pc[h] = step
Goto(h, step) == pc' = [pc EXCEPT ![h] = step]
IsTxn(h)      == route[h] \in TxnRoutes
SetClient(h, state) == client' = [client EXCEPT ![route[h]] = state]

\* The client of the task's route still holds the epoch of the
\* transactional id: no other client has called init_transactions since and
\* the coordinator has not aborted its transaction.
NotFenced(h) == txnOwner = route[h]

Fault(kind) ==
  /\ kind \in Failures /\ faults < MaxFaults
  /\ faults' = faults + 1
  /\ UNCHANGED crashes

\* The request ends: the guards are dropped.
Leave(h) ==
  /\ Goto(h, "idle")
  /\ lock' = NoTask
  /\ batch' = [batch EXCEPT ![h] = {}]

\* Mutant of Panic: the lock is left unusable, as a std::sync::Mutex would be.
PanicPoisons(h) ==
  Goto(h, "idle") /\ batch' = [batch EXCEPT ![h] = {}] /\ UNCHANGED lock

\* A panic ends the spawned task only, and a tokio Mutex is not poisoned.
Panic(h) == Leave(h)

\* safe_send starts with begin_transaction on a transactional route only.
FirstStep(h) == IF IsTxn(h) THEN "begin" ELSE "send"

\* Mutant of NextRow: the last row is not seen to be the last.
NextRowAlways(h, i) ==
  /\ batch' = [batch EXCEPT ![h] = @ \ {i}]
  /\ Goto(h, FirstStep(h))
  /\ UNCHANGED lock

\* The end of one iteration of the for loop of handle.
NextRow(h, i) ==
  IF batch[h] = {i}
  THEN Leave(h)
  ELSE /\ batch' = [batch EXCEPT ![h] = @ \ {i}]
       /\ Goto(h, FirstStep(h))
       /\ UNCHANGED lock
-----------------------------------------------------------------------------
(* The loader, which fills the table while the service runs                *)

\* One committed batch of insert_records.  Ids come from an identity column
\* and there is one loader: they are above all present ones, with a gap
\* where a batch was rolled back.
Insert ==
  /\ \E S \in SUBSET (Ids \ rows) :
       /\ S # {}
       /\ \A i \in S, j \in rows : j < i
       /\ rows' = rows \cup S
  /\ UNCHANGED <<log, producerType, txnOwner, service, task, budget>>
-----------------------------------------------------------------------------
(* handle, up to the query                                                 *)

Request(h) ==
  /\ At(h, "idle")
  /\ \E r \in Routes : route' = [route EXCEPT ![h] = r]
  /\ Goto(h, "waiting")
  /\ UNCHANGED <<log, tracker, txnOwner, service, batch, budget>>

\* Mutant of LockFree: the guard is dropped before the end of handle.
NoLock == TRUE

LockFree == lock = NoTask

\* state.producers.lock().await, then the lookup of the route's client.
Acquire(h) ==
  /\ At(h, "waiting")
  /\ LockFree
  /\ lock' = h
  /\ Goto(h, IF client[route[h]] = "absent" THEN "create" ELSE "connect")
  /\ UNCHANGED <<log, tracker, txnOwner, client, pg, route, batch, budget>>

\* The effect of init_transactions on the cluster: every transactional
\* client has the same transactional.id, so the new one takes the epoch over
\* and what the former one left open is aborted.
InitTransactions(h) == txnOwner' = route[h] /\ log' = Settled("aborted")

\* create_config, with safe_init_transaction on a transactional route.
CreateProducer(h) ==
  /\ At(h, "create")
  /\ SetClient(h, "ready")
  /\ IF IsTxn(h) THEN InitTransactions(h) ELSE UNCHANGED <<log, txnOwner>>
  /\ Goto(h, "connect")
  /\ UNCHANGED <<tracker, pg, lock, route, batch, budget>>

\* init_transactions fails with a fatal error, before or after it took the
\* epoch over: unwrap panics and no client is stored.
CreateFails(h) ==
  /\ At(h, "create") /\ IsTxn(h)
  /\ \/ UNCHANGED <<log, txnOwner>>
     \/ txnOwner' = NoRoute /\ log' = Settled("aborted")
  /\ Panic(h)
  /\ Fault("init")
  /\ UNCHANGED <<tracker, client, pg, route>>

\* The connection is opened once; it is not looked at again, broken or not.
Connect(h) ==
  /\ At(h, "connect")
  /\ pg' = IF pg = "none" THEN "up" ELSE pg
  /\ Goto(h, "query")
  /\ UNCHANGED <<log, tracker, txnOwner, client, lock, route, batch, budget>>

\* Postgres::new fails: unwrap panics.
ConnectFails(h) ==
  /\ At(h, "connect") /\ pg = "none"
  /\ Panic(h)
  /\ Fault("connect")
  /\ UNCHANGED <<log, tracker, txnOwner, client, pg, route>>

\* safe_get_unproduced_data.  On a broken connection it retries for ever.
Query(h) ==
  /\ At(h, "query") /\ pg = "up"
  /\ \E n \in 1 .. MaxLimit :
       LET found == Oldest(Unproduced, n) IN
       IF found = {}
       THEN Leave(h)
       ELSE /\ batch' = [batch EXCEPT ![h] = found]
            /\ Goto(h, FirstStep(h))
            /\ UNCHANGED lock
  /\ UNCHANGED <<log, tracker, txnOwner, client, pg, route, budget>>
-----------------------------------------------------------------------------
(* safe_send on a transactional route                                      *)

\* begin_transaction is local to the client: a client that has been fenced
\* and does not know yet begins.  A failed client never begins again, and
\* the loop has no exit.
Begin(h) ==
  /\ At(h, "begin") /\ client[route[h]] = "ready"
  /\ SetClient(h, "txn")
  /\ Goto(h, "send")
  /\ UNCHANGED <<log, tracker, txnOwner, pg, lock, route, batch, budget>>

Sending(h) == At(h, "send") /\ IsTxn(h) /\ client[route[h]] = "txn"

SendTxn(h) ==
  /\ Sending(h) /\ NotFenced(h)
  /\ \E i \in batch[h] :
       Current(h, i) /\ log' = Appended(TopicOf(route[h]), i, "open")
  /\ Goto(h, "commit")
  /\ UNCHANGED <<tracker, txnOwner, service, route, batch, budget>>

\* The message is not acknowledged within message.timeout.ms, in the log or
\* not.  librdkafka then wants the transaction aborted; the loop sends again
\* and again instead, so the client is lost.
SendTimesOut(h) ==
  /\ Sending(h) /\ NotFenced(h)
  /\ \/ UNCHANGED log
     \/ \E i \in batch[h] :
          Current(h, i) /\ log' = Appended(TopicOf(route[h]), i, "open")
  /\ SetClient(h, "failed")
  /\ Fault("delivery")
  /\ UNCHANGED <<tracker, txnOwner, pg, lock, task>>

\* The send of a fenced client is refused with a fatal error, which the loop
\* does not tell from any other.
SendFenced(h) ==
  /\ Sending(h) /\ ~NotFenced(h)
  /\ SetClient(h, "failed")
  /\ UNCHANGED <<log, tracker, txnOwner, pg, lock, task, budget>>

Commit(h) ==
  /\ At(h, "commit") /\ NotFenced(h)
  /\ log' = Settled("committed")
  /\ SetClient(h, "ready")
  /\ Goto(h, "record")
  /\ UNCHANGED <<tracker, txnOwner, pg, lock, route, batch, budget>>

\* Mutant of CommitFatal: the Err of safe_send is not looked at.
CommitFatalIgnored(h) ==
  /\ At(h, "commit") /\ ~NotFenced(h)
  /\ SetClient(h, "failed")
  /\ Goto(h, "record")
  /\ UNCHANGED <<log, tracker, txnOwner, pg, lock, route, batch, budget>>

\* commit_transaction fails with a fatal error: safe_send returns Err and
\* handle goes on with the next row.
CommitFatal(h) ==
  /\ At(h, "commit") /\ ~NotFenced(h)
  /\ SetClient(h, "failed")
  /\ \E i \in batch[h] : Current(h, i) /\ NextRow(h, i)
  /\ UNCHANGED <<log, tracker, txnOwner, pg, route, budget>>
-----------------------------------------------------------------------------
(* safe_send on a plain route                                              *)

SendPlain(h) ==
  /\ At(h, "send") /\ ~IsTxn(h)
  /\ \E i \in batch[h] :
       Current(h, i) /\ log' = Appended(TopicOf(route[h]), i, "committed")
  /\ Goto(h, "record")
  /\ UNCHANGED <<tracker, txnOwner, service, route, batch, budget>>

\* The acknowledgement is lost (a timeout that left nothing in the log
\* changes nothing): the message is sent again.  The broker is assumed to
\* have executed a send, or never to, when it is given up.
SendPlainTimesOut(h) ==
  /\ At(h, "send") /\ ~IsTxn(h)
  /\ \E i \in batch[h] :
       Current(h, i) /\ log' = Appended(TopicOf(route[h]), i, "committed")
  /\ Fault("ack")
  /\ UNCHANGED <<tracker, txnOwner, service, task>>
-----------------------------------------------------------------------------
(* safe_write_produced                                                     *)

Mark(h, i) == producerType' = [producerType EXCEPT ![i] = route[h]]

Record(h) ==
  /\ At(h, "record") /\ pg = "up"
  /\ \E i \in batch[h] : Current(h, i) /\ Mark(h, i) /\ NextRow(h, i)
  /\ UNCHANGED <<log, rows, txnOwner, client, pg, route, budget>>

\* The connection breaks during the update, which is applied nevertheless;
\* the task never learns and retries on the dead connection for ever.
RecordLost(h) ==
  /\ At(h, "record") /\ pg = "up"
  /\ \E i \in batch[h] : Current(h, i) /\ Mark(h, i)
  /\ pg' = "broken"
  /\ Fault("tracker")
  /\ UNCHANGED <<log, rows, txnOwner, client, lock, task>>
-----------------------------------------------------------------------------
(* The environment                                                         *)

\* The connection task ends; nothing ever replaces the client.
BreakPg ==
  /\ pg = "up"
  /\ pg' = "broken"
  /\ Fault("tracker")
  /\ UNCHANGED <<log, tracker, txnOwner, client, lock, task>>

\* The coordinator aborts the transaction at transaction.timeout.ms and bumps
\* the epoch.
Expire == HasOpen /\ txnOwner' = NoRoute /\ log' = Settled("aborted")

InTransaction == \E h \in Tasks : At(h, "commit") /\ NotFenced(h)

\* The transaction was left by a client that crashed or failed.
ExpireAbandoned ==
  /\ ~InTransaction
  /\ Expire
  /\ UNCHANGED <<tracker, service, task, budget>>

\* The transaction is in use, and slow.
ExpireSlow ==
  /\ InTransaction
  /\ Expire
  /\ Fault("expiry")
  /\ UNCHANGED <<tracker, service, task>>

\* The container is killed and started again; the requests are lost.
Crash ==
  /\ crashes < MaxCrashes
  /\ crashes' = crashes + 1
  /\ client' = [r \in Routes |-> "absent"]
  /\ pg' = "none"
  /\ lock' = NoTask
  /\ pc' = [h \in Tasks |-> "idle"]
  /\ route' = [h \in Tasks |-> NoRoute]
  /\ batch' = [h \in Tasks |-> {}]
  /\ UNCHANGED <<log, tracker, txnOwner, faults>>
-----------------------------------------------------------------------------
(* The specification                                                       *)

\* Steps of a task that need no failure.
Work(h) ==
  \/ CreateProducer(h) \/ Connect(h) \/ Query(h)
  \/ Begin(h) \/ SendTxn(h) \/ SendFenced(h) \/ Commit(h) \/ CommitFatal(h)
  \/ SendPlain(h) \/ Record(h)

Failure(h) ==
  \/ CreateFails(h) \/ ConnectFails(h) \/ RecordLost(h)
  \/ SendTimesOut(h) \/ SendPlainTimesOut(h)

Environment == Insert \/ BreakPg \/ ExpireAbandoned \/ ExpireSlow \/ Crash

Next ==
  \/ \E h \in Tasks : Request(h) \/ Acquire(h) \/ Work(h) \/ Failure(h)
  \/ Environment

\* The coordinator's timer runs.
Expiring == WF_vars(ExpireAbandoned)

\* Drivers keep sending requests; tokio runs a task that can run; its mutex
\* is first in, first out, so a task that waits is not overtaken for ever.
Fairness ==
  /\ \A h \in Tasks :
       WF_vars(Request(h)) /\ SF_vars(Acquire(h)) /\ WF_vars(Work(h))
  /\ Expiring

Spec == Init /\ [][Next]_vars
FairSpec == Spec /\ Fairness
-----------------------------------------------------------------------------
(* Properties                                                              *)

\* Types, and that a task publishes if and only if it has a row to publish:
\* the for loop of handle ends with its last row.
TypeOK ==
  /\ LogType
  /\ rows \subseteq Ids
  /\ producerType \in [Ids -> Routes \cup {NoRoute}]
  /\ txnOwner \in TxnRoutes \cup {NoRoute}
  /\ client \in [Routes -> {"absent", "ready", "txn", "failed"}]
  /\ pg \in {"none", "up", "broken"}
  /\ lock \in Tasks \cup {NoTask}
  /\ pc \in [Tasks -> Steps]
  /\ route \in [Tasks -> Routes \cup {NoRoute}]
  /\ batch \in [Tasks -> SUBSET Ids]
  /\ crashes \in 0 .. MaxCrashes
  /\ faults \in 0 .. MaxFaults
  /\ \A h \in Tasks : pc[h] \in RowSteps <=> batch[h] # {}

\* README, property 1 read backwards, and safe_send before
\* safe_write_produced in handle: a row the state-tracker shows as produced
\* has a copy that a reader of the topic of its producer_type can see.
ProducedIsPublished ==
  \A i \in Ids :
    Recorded(i) => Committed(TopicOf(producerType[i]), i) # {}

\* README, property 5, on the side of the producer, and ORDER BY id ASC in
\* safe_get_unproduced_data: within a topic the copies never go back to an
\* earlier row, whatever was retried, skipped or published again after a
\* restart.
TopicsAscending ==
  \A t \in Topics : \A k, l \in Offsets(t) :
    k < l => log[t][k].id <= log[t][l].id

\* The same across the routes, which share one table: when a copy of a row
\* has reached a topic, every earlier row has been produced and recorded.  A
\* row that handle skips because safe_send failed is not overtaken.
NoRowOvertaken ==
  \A t \in Topics : \A k \in Offsets(t) : \A i \in rows :
    i < log[t][k].id => Recorded(i)

\* README, property 3 (test-composer: exactly once): what retries, time-outs,
\* fencing and aborted transactions do, a row has at most one visible copy in
\* bankEO, and one more for each restart between the commit of its
\* transaction and the update of the state-tracker.
ExtraCopiesNeedCrash ==
  \A i \in Ids : Cardinality(Committed("bankEO", i)) <= 1 + crashes

\* safe_get_unproduced_data reads only rows without a produced_timestamp:
\* once a row is recorded its producer_type stays, and no copy of it, sent
\* again or left open by a crash, becomes visible any more.
RecordedIsFinal ==
  [][\A i \in Ids : Recorded(i) =>
       /\ producerType'[i] = producerType[i]
       /\ \A t \in Topics : Committed(t, i)' = Committed(t, i)]_vars

\* The producer implements Publication, where a row is published while it is
\* its turn, at most once more than there were restarts, and then recorded:
\* the lock, the batches, the clients, their fencing and the transactions add
\* nothing a reader of the topics and of the state-tracker could see.
Copies == [t \in Topics |-> [i \in Ids |-> Cardinality(Committed(t, i))]]

Abstract ==
  INSTANCE Publication WITH copies <- Copies, restarts <- crashes

PublicationSpec == Abstract!Spec

\* README, property 1: every row that is generated is produced.
EveryRowProduced == \A i \in Ids : i \in rows ~> Recorded(i)
=============================================================================
