---------------------------- MODULE Consumption ----------------------------
(***************************************************************************)
(* What the consumer promises to who reads the state-tracker and the       *)
(* accounts, whatever locks, connections, subscriptions and retries it     *)
(* does it with (README.md, lines 125-134, properties 3, 6 and 7): a       *)
(* message of the exactly-once topic is taken at most once, in the order   *)
(* of the topic, and counted at most once after it is taken; one of the    *)
(* at-least-once topic is counted any number of times, once it is visible; *)
(* the accounts change by writes of rows that are counted, as a whole, and *)
(* any number of times.  Nothing is promised about a message that is taken *)
(* and not counted: commit_message comes first.                            *)
(*                                                                         *)
(* Consumer implements this specification (ConsumptionSpec of Consumer,    *)
(* ConsumerProofs).                                                        *)
(***************************************************************************)
EXTENDS Broker, Accounts

CONSTANTS Tx, NoRoute

VARIABLES
  consumedCount,  \* how often a row is counted
  consumerType,   \* the route it was counted on last
  taken,          \* offset of the last message taken from bankEO
  pending         \* that message may still be counted

counts == <<consumedCount, consumerType>>
vars   == <<log, counts, items, balance, taken, pending>>

Init ==
  /\ log = [t \in Topics |-> << >>]
  /\ AccountsInit
  /\ consumedCount = [i \in Ids |-> 0]
  /\ consumerType = [i \in Ids |-> NoRoute]
  /\ taken = 0 /\ pending = FALSE

Visible(t) == {k \in Offsets(t) : log[t][k].status = "committed"}

Count(t, k, r) ==
  LET i == log[t][k].id IN
    /\ consumedCount' = [consumedCount EXCEPT ![i] = @ + 1]
    /\ consumerType' = [consumerType EXCEPT ![i] = r]

\* Copies are written and given their outcome by others.
Publish ==
  /\ (\E t \in Topics, i \in Ids : Write(t, i)) \/ SettleOpen
  /\ UNCHANGED <<counts, items, balance, taken, pending>>

Take(k) ==
  /\ k > taken
  /\ taken' = k /\ pending' \in BOOLEAN
  /\ UNCHANGED <<log, counts, items, balance>>

CountTaken ==
  /\ pending /\ pending' = FALSE
  /\ Count("bankEO", taken, "exactly_once")
  /\ UNCHANGED <<log, items, balance, taken>>

\* A crash or a broken connection: the message is never counted.
Forget ==
  /\ pending /\ pending' = FALSE
  /\ UNCHANGED <<log, counts, items, balance, taken>>

CountPlain(k) ==
  /\ Count("bankAO", k, "atleast_once")
  /\ UNCHANGED <<log, items, balance, taken, pending>>

Book(i) ==
  /\ consumedCount[i] > 0
  /\ Apply(Tx[i])
  /\ UNCHANGED <<log, counts, taken, pending>>

Next ==
  \/ Publish \/ CountTaken \/ Forget
  \/ \E k \in Visible("bankEO") : Take(k)
  \/ \E k \in Visible("bankAO") : CountPlain(k)
  \/ \E i \in Ids : Book(i)

Spec == Init /\ [][Next]_vars
=============================================================================
