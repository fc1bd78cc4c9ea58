------------------------------ MODULE Pipeline ------------------------------
(***************************************************************************)
(* The pipeline: the loader and the producer service (Producer), the       *)
(* consumer service (Consumer), and between them the topics (Broker), the  *)
(* state-tracker and the accounts.  Each service runs as its module says;  *)
(* they share the log.  A row of the state-tracker is split over the       *)
(* variables of the two modules: the producer reads and writes its columns *)
(* (rows, producerType), the consumer its own (consumedCount,              *)
(* consumerType).                                                          *)
(*                                                                         *)
(* The properties are those of README.md, lines 125-134, that neither      *)
(* service decides alone: the checks of the validator and of the           *)
(* test-composer scripts, as predicates of the state they read.            *)
(***************************************************************************)
EXTENDS Broker, Accounts

CONSTANTS
  PTasks, CTasks,          \* requests in flight, of each service
  TxnRoutes, PlainRoutes,  \* the routes of the producer
  CRoutes,                 \* the routes of the consumer
  Tx,                      \* Tx[i]: the transaction in the data of row i
  MaxLimit, MaxRequest,    \* bounds on num_records
  Lengths,                 \* the lengths a topic may reach (ConsumerSpec)
  ErrorsNamed,             \* see Consumer
  PMaxCrashes, CMaxCrashes, PFailures, CFailures, PMaxFaults, CMaxFaults,
  NoTask, NoRoute

ASSUME PipelineAssumption ==
  /\ TxnRoutes \cap PlainRoutes = {}
  /\ NoTask \notin PTasks \cup CTasks
  /\ NoRoute \notin TxnRoutes \cup PlainRoutes \cup CRoutes
  /\ CRoutes \subseteq {"exactly_once", "atleast_once"}
  /\ MaxLimit \in Nat \ {0} /\ MaxRequest \in Nat \ {0} /\ Lengths \subseteq Nat
  /\ PMaxCrashes \in Nat /\ CMaxCrashes \in Nat
  /\ PMaxFaults \in Nat /\ CMaxFaults \in Nat
  /\ PFailures \subseteq
       {"init", "connect", "tracker", "delivery", "expiry", "ack"}
  /\ CFailures \subseteq
       {"connect", "tracker", "recv", "rebalance", "commit", "transient",
        "fatal"}
  /\ ErrorsNamed \in BOOLEAN /\ Tx \in [Ids -> Transactions]

VARIABLES
  rows, producerType, txnOwner, client, batch,       \* see Producer
  pPg, pLock, pPc, pRoute, pCrashes, pFaults,
  consumedCount, consumerType, committed, position,  \* see Consumer
  consumer, ddb, table, left, hand,
  cPg, cLock, cPc, cRoute, cCrashes, cFaults

P == INSTANCE Producer WITH
  Tasks <- PTasks, MaxCrashes <- PMaxCrashes, Failures <- PFailures,
  MaxFaults <- PMaxFaults, pg <- pPg, lock <- pLock, pc <- pPc,
  route <- pRoute, crashes <- pCrashes, faults <- pFaults

C == INSTANCE Consumer WITH
  Tasks <- CTasks, Routes <- CRoutes, MaxCrashes <- CMaxCrashes,
  Failures <- CFailures, MaxFaults <- CMaxFaults, pg <- cPg, lock <- cLock,
  pc <- cPc, route <- cRoute, crashes <- cCrashes, faults <- cFaults

producing == <<rows, producerType, txnOwner, client, batch, pPg, pLock, pPc,
               pRoute, pCrashes, pFaults>>
consuming == <<consumedCount, consumerType, committed, position, items,
               balance, table, consumer, ddb, left, hand, cPg, cLock, cPc,
               cRoute, cCrashes, cFaults>>
vars == <<log, producing, consuming>>

Init == P!Init /\ C!Init

\* The accounts a row speaks of.
FundedIbans(S) == {Tx[i].iban : i \in {j \in S : Tx[j].kind = "fund"}}

\* get_faker_data of the loader: a transfer is generated between accounts
\* that earlier rows of the table fund (TransferAfterFunding of Loader).
FundedFirst(S) ==
  \A i \in S : Tx[i].kind = "transfer" =>
    {Tx[i].from, Tx[i].to} \subseteq FundedIbans({j \in S : j < i})

Produce == P!Next /\ FundedFirst(rows') /\ UNCHANGED consuming

Consume == C!Serve /\ UNCHANGED producing

Next == Produce \/ Consume

\* The scheduling each service can count on.
Fairness == P!Fairness /\ C!Scheduling

Spec == Init /\ [][Next]_vars
FairSpec == Spec /\ Fairness
-----------------------------------------------------------------------------
(* Properties                                                              *)

Consumed(i) == consumedCount[i] > 0

\* README, property 3 (validator, ExactlyOnceGuarantee), for what the services
\* do guarantee: a row that went to the exactly-once topic only is counted
\* once, and once more for each restart of the PRODUCER; restarts of the
\* consumer, rebalances and failed commits add nothing.
ExtraCountsNeedRestart ==
  \A i \in Ids :
    Committed("bankAO", i) = {} => consumedCount[i] <= 1 + pCrashes

\* README, property 5 (validator, ConsumptionOrder): no row is consumed while
\* an earlier row of the table has not been.
ConsumedInOrder ==
  \A i \in Ids, j \in rows : Consumed(i) /\ j < i => Consumed(j)

\* README, property 6 (anytime_validate_balance.py): at any time the sum of
\* the balances is the initial funding of the accounts that are there.
BalancesMatch == Total = Cardinality(items) * Funding

\* README, property 7 (eventually_ibans_match.py): every account in the table
\* is one that a consumed row of topic _banktest_fund_account funds.
IbansMatch == items \subseteq FundedIbans({i \in Ids : Consumed(i)})

\* What Validator assumes of the pipeline, which it sees through the columns of
\* the state-tracker (Generate, Produce, Consume of Validator): new rows have
\* higher ids than those there; rows are recorded as produced one by one in
\* the order of their ids, on whatever routes; and a row is counted as consumed
\* when it is recorded as produced or the next to be, never earlier.
ItsTurn(i) ==
  i \in P!Unproduced /\ \A j \in rows : j < i => P!Recorded(j)

TrackerStep ==
  \/ /\ rows \subseteq rows' /\ \A i \in rows' \ rows, j \in rows : j < i
     /\ UNCHANGED <<producerType, consumedCount>>
  \/ /\ \E i \in Ids, r \in TxnRoutes \cup PlainRoutes :
          ItsTurn(i) /\ producerType' = [producerType EXCEPT ![i] = r]
     /\ UNCHANGED <<rows, consumedCount>>
  \/ /\ \E i \in rows :
          /\ P!Recorded(i) \/ ItsTurn(i)
          /\ consumedCount' = [consumedCount EXCEPT ![i] = @ + 1]
     /\ UNCHANGED <<rows, producerType>>

TrackerWrites == [][TrackerStep]_<<rows, producerType, consumedCount>>

\* Consumer was checked in an environment of its own (Publish, Settle): what
\* the producer really does to the topics is within it, also when it crashes,
\* is fenced or sends again.
ConsumerSpec == C!Spec
=============================================================================
