---------------------------- MODULE Publication ----------------------------
(***************************************************************************)
(* What the producer promises to who reads the state-tracker and the       *)
(* topics, whatever locks, batches, clients and transactions it does it    *)
(* with (README.md, lines 125-134, properties 1, 3 and 5): rows are dealt  *)
(* with one after the other; the row whose turn it is becomes visible in a *)
(* topic, as a rule once, and is then recorded; a recorded row is not      *)
(* published any more.  In the exactly-once topic each restart of the      *)
(* service can add one copy, in the other a copy can be repeated at will.  *)
(*                                                                         *)
(* Producer implements this specification (PublicationSpec of Producer,    *)
(* ProducerProofs).                                                        *)
(***************************************************************************)
EXTENDS Integers

CONSTANTS Ids, TxnRoutes, PlainRoutes, NoRoute

VARIABLES
  rows,          \* ids of the rows that are there
  producerType,  \* the route a row is recorded with
  copies,        \* copies[t][i]: visible copies of row i in topic t
  restarts       \* restarts of the service so far

vars == <<rows, producerType, copies, restarts>>

Topics == {"bankEO", "bankAO"}

Init ==
  /\ rows = {}
  /\ producerType = [i \in Ids |-> NoRoute]
  /\ copies = [t \in Topics |-> [i \in Ids |-> 0]]
  /\ restarts = 0

Recorded(i) == producerType[i] # NoRoute

\* Row i is the first that is not recorded.
ItsTurn(i) == i \in rows /\ ~Recorded(i) /\ \A j \in rows : j < i => Recorded(j)

TopicOf(r) == IF r \in TxnRoutes THEN "bankEO" ELSE "bankAO"

Generate(S) ==
  /\ \A i \in S, j \in rows : j < i
  /\ rows' = rows \cup S
  /\ UNCHANGED <<producerType, copies, restarts>>

Publish(t, i) ==
  /\ ItsTurn(i)
  /\ t = "bankEO" => copies[t][i] <= restarts
  /\ copies' = [copies EXCEPT ![t][i] = @ + 1]
  /\ UNCHANGED <<rows, producerType, restarts>>

Mark(r, i) ==
  /\ ItsTurn(i) /\ copies[TopicOf(r)][i] > 0
  /\ producerType' = [producerType EXCEPT ![i] = r]
  /\ UNCHANGED <<rows, copies, restarts>>

Restart ==
  /\ restarts' = restarts + 1
  /\ UNCHANGED <<rows, producerType, copies>>

Next ==
  \/ \E S \in SUBSET Ids : Generate(S)
  \/ \E i \in Ids : \E t \in Topics : Publish(t, i)
  \/ \E i \in Ids : \E r \in TxnRoutes \cup PlainRoutes : Mark(r, i)
  \/ Restart

Spec == Init /\ [][Next]_vars
=============================================================================
