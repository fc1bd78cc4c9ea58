------------------------------- MODULE Broker -------------------------------
(***************************************************************************)
(* The Kafka cluster, as the producer and the consumer of this repository  *)
(* use it.  Kafka itself is not part of the repository: what is modelled   *)
(* is what the calls made in producer/src/main.rs and consumer/src/main.rs *)
(* can observe.                                                            *)
(*                                                                         *)
(*  - There are two topics, the ones the test drivers name.  A topic has   *)
(*    one partition (safe_send names partition 0; the plain producer       *)
(*    leaves the choice to a topic that the broker auto-creates with one   *)
(*    partition).                                                          *)
(*  - A log entry carries the id of a state-tracker row (the message key)  *)
(*    and a status: "open" while its transaction is, then "committed" or   *)
(*    "aborted".  A message sent outside a transaction is "committed" from *)
(*    the start: every reader may see it.                                  *)
(*  - There is ONE transactional id, so at most one transaction is open    *)
(*    and settling it settles every open entry.                            *)
(***************************************************************************)
EXTENDS Integers, Sequences, FiniteSets

CONSTANT Ids    \* the ids a row of the state-tracker may have

ASSUME IdsAssumption == Ids \subseteq Nat

VARIABLE log    \* log[t]: the partition of topic t, in offset order

Topics == {"bankEO", "bankAO"}

Entry == [id : Ids, status : {"open", "committed", "aborted"}]

LogType == log \in [Topics -> Seq(Entry)]

Offsets(t) == DOMAIN log[t]

Appended(t, i, s) == [log EXCEPT ![t] = Append(@, [id |-> i, status |-> s])]

Closed(entry, outcome) ==
  IF entry.status = "open" THEN [entry EXCEPT !.status = outcome] ELSE entry

\* The log once the open transaction, if any, has been given its outcome.
Settled(outcome) ==
  [t \in Topics |-> [k \in 1 .. Len(log[t]) |-> Closed(log[t][k], outcome)]]

IsOpen(t, k) == log[t][k].status = "open"

HasOpen == \E t \in Topics : \E k \in Offsets(t) : IsOpen(t, k)

\* The offsets at which a committed copy of row i is found in topic t.
Committed(t, i) ==
  {k \in Offsets(t) : log[t][k].id = i /\ log[t][k].status = "committed"}

\* Offset k is the next one a reader of topic t at position pos is given.
\* Readers are read_committed (the default of librdkafka, set explicitly by
\* the exactly-once consumer): aborted entries are skipped and nothing at or
\* after an open entry is delivered.
IsNext(t, pos, k) ==
  /\ k \in Offsets(t)
  /\ k > pos
  /\ log[t][k].status = "committed"
  /\ \A j \in Offsets(t) : pos < j /\ j < k => log[t][j].status = "aborted"

\* What the producer does to the topics, as far as a reader can tell.  A copy
\* of a row is appended: in a transaction to bankEO, one transaction at a
\* time, outside any to bankAO; never of a row before the last one.
Write(t, i) ==
  /\ \A k \in Offsets(t) : log[t][k].id <= i
  /\ IF t = "bankEO"
     THEN ~HasOpen /\ log' = Appended(t, i, "open")
     ELSE log' = Appended(t, i, "committed")

\* The open transaction is given its outcome.
SettleOpen ==
  HasOpen /\ \E outcome \in {"committed", "aborted"} : log' = Settled(outcome)
=============================================================================
