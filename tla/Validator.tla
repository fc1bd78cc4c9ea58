----------------------------- MODULE Validator -----------------------------
(***************************************************************************)
(* The validator (src/workload/validator/validator/src/main.rs): one call  *)
(* of the command line program, which makes one of three tests of the      *)
(* state-tracker, while the pipeline goes on.  The pipeline is what the    *)
(* columns of the state-tracker show of it: rows are generated, recorded   *)
(* as produced in the order of their ids, and recorded as consumed in any  *)
(* order and any number of times, at the earliest when they are published  *)
(* and so about to be recorded as produced.                                *)
(***************************************************************************)
EXTENDS Integers, Sequences, FiniteSets, SequencesExt

CONSTANTS
  MaxId,         \* bound on the ids of the rows
  MaxCounts,     \* bound on the updates of safe_write_consumed
  InFlight,      \* rows recorded as produced after the drivers are stopped
  Tests,         \* the tests that are called, of AllTests
  Disconnected,  \* whether the connection may be refused or break
  NoRoute,       \* not set (producer_type IS NULL)
  NoResult       \* last_result is None

AllTests ==
  {"ExactlyOnceGuarantee", "ConsumptionOrder", "ProducerConsumerMatches"}

ASSUME ValidatorAssumption ==
  /\ MaxId \in Nat /\ MaxCounts \in Nat /\ InFlight \in Nat
  /\ Disconnected \in BOOLEAN
  /\ Tests \subseteq AllTests
  /\ NoRoute \notin {"exactly_once", "atleast_once"}

Ids == 1 .. MaxId

\* run_check_for_30s, in units of the 5 seconds it sleeps.
Duration == 6

VARIABLES
  rows,      \* state-tracker: the ids of its rows
  producer,  \* state-tracker: producer_type of a row
  history,   \* state-tracker: the rows of the updates safe_write_consumed made
  stopped,   \* the drivers of the producer are stopped
  late,      \* rows recorded as produced since then
  pg,        \* validator: the connection is up
  pc,        \* validator: where it stands
  test,      \* validator: its argument
  elapsed,   \* validator: since start_time
  last,      \* validator: last_result
  verdict    \* of the assert_always: "pass" or "fail"; "none" as yet,
             \* "silent" if the validator ended without it

tracker  == <<rows, producer, history>>
drivers  == <<stopped, late>>
process  == <<pg, pc, test, elapsed, last, verdict>>
vars     == <<tracker, drivers, process>>

Init ==
  /\ rows = {} /\ producer = [i \in Ids |-> NoRoute] /\ history = << >>
  /\ stopped = FALSE /\ late = 0
  /\ pg = FALSE /\ pc = "idle" /\ elapsed = 0 /\ last = NoResult
  /\ test \in Tests /\ verdict = "none"
-----------------------------------------------------------------------------
(* The pipeline, as the state-tracker shows it                             *)

Produced == {i \in Ids : producer[i] # NoRoute}
Consumed == ToSet(history)
Count(i) == Cardinality({k \in DOMAIN history : history[k] = i})

\* Row i is the next the producer deals with.
ItsTurn(i) ==
  i \in rows \ Produced /\ \A j \in rows : j < i => j \in Produced

\* A batch of the loader; one that was rolled back has left out ids.
Generate ==
  /\ \E i \in Ids \ rows :
       /\ \A j \in rows : j < i
       /\ rows' = rows \cup {i}
  /\ UNCHANGED <<producer, history, drivers, process>>

\* safe_write_produced; after the drivers are stopped, of a request that was
\* in flight.
Produce ==
  /\ \E i \in Ids, t \in {"exactly_once", "atleast_once"} :
       ItsTurn(i) /\ producer' = [producer EXCEPT ![i] = t]
  /\ IF stopped THEN late < InFlight /\ late' = late + 1 ELSE UNCHANGED late
  /\ UNCHANGED <<rows, history, stopped, process>>

\* safe_write_consumed.
Consume ==
  /\ Len(history) < MaxCounts
  /\ \E i \in Ids :
       /\ i \in Produced \/ (ItsTurn(i) /\ (stopped => late < InFlight))
       /\ history' = Append(history, i)
  /\ UNCHANGED <<rows, producer, drivers, process>>

Stop ==
  /\ ~stopped /\ stopped' = TRUE
  /\ UNCHANGED <<tracker, late, process>>
-----------------------------------------------------------------------------
(* The queries, and what is looked for in their results                    *)

\* Mutant of ConsumedData: no ORDER BY, and Postgres stores a row that is
\* updated behind the others.
AsStored ==
  LET latest == SetToSortSeq({k \in DOMAIN history : \A n \in DOMAIN history :
                                n > k => history[n] # history[k]}, <)
  IN [n \in DOMAIN latest |-> history[latest[n]]]

\* get_consumed_data: ORDER BY id ASC.
ConsumedData ==
  CHOOSE s \in [1 .. Cardinality(Consumed) -> Consumed] :
    \A k, l \in DOMAIN s : k < l => s[k] < s[l]

\* find_broken_id_sequence: the second of two neighbours whose ids do not
\* follow one another.
BrokenIdSequence(ids) ==
  {ids[k + 1] : k \in {n \in 1 .. Len(ids) - 1 : ids[n] + 1 # ids[n + 1]}}

\* check_exactly_once_producer_guarantee.
CountedTwice == {i \in Produced : producer[i] = "exactly_once" /\ Count(i) > 1}

\* Mutant of NotConsumedYet: a row passes that is produced or consumed.
NeitherNor(ids) == {i \in ids : i \notin Produced /\ i \notin Consumed}

\* find_produced_data_thats_not_consumed_yet.
NotConsumedYet(ids) == {i \in ids : ~(i \in Produced /\ i \in Consumed)}
-----------------------------------------------------------------------------
(* main                                                                    *)

\* assert_always!(found.len() == 0, ...), and the end of the program.
AssertEmpty(found) ==
  /\ verdict' = IF found = {} THEN "pass" ELSE "fail"
  /\ pc' = "ended"

Silent == verdict' = "silent" /\ pc' = "ended"

\* The composer's eventually_ script runs when the drivers are stopped.
Connect ==
  /\ pc = "idle"
  /\ test = "ProducerConsumerMatches" => stopped
  /\ pg' = TRUE
  /\ pc' = "query"
  /\ UNCHANGED <<tracker, drivers, test, elapsed, last, verdict>>

\* An error of Postgres::new is logged, and that is all.
ConnectFails ==
  /\ pc = "idle" /\ Disconnected
  /\ Silent
  /\ UNCHANGED <<tracker, drivers, pg, test, elapsed, last>>

Check(t, found) ==
  /\ pc = "query" /\ pg /\ test = t
  /\ AssertEmpty(found)
  /\ UNCHANGED <<tracker, drivers, pg, test, elapsed, last>>

CheckExactlyOnce == Check("ExactlyOnceGuarantee", CountedTwice)

CheckOrder == Check("ConsumptionOrder", BrokenIdSequence(ConsumedData))

\* An error of the only query is logged, and that is all.
CheckFails ==
  /\ pc = "query" /\ ~pg /\ test # "ProducerConsumerMatches"
  /\ Silent
  /\ UNCHANGED <<tracker, drivers, pg, test, elapsed, last>>

\* One round of run_check_for_30s: a query, which on a broken connection
\* leaves last_result as it is.
Poll ==
  /\ pc = "query" /\ test = "ProducerConsumerMatches"
  /\ last' = IF pg THEN NotConsumedYet(Produced) ELSE last
  /\ pc' = "sleep"
  /\ UNCHANGED <<tracker, drivers, pg, test, elapsed, verdict>>

\* Mutant of Rounds: a round whose query failed is made again.
WithoutFailures == IF pg THEN {elapsed + 1, elapsed + 2} ELSE {elapsed}

\* A round takes 5 seconds and the time of its query, at most 5 more; the code
\* sets no limit to it.
Rounds == {elapsed + 1, elapsed + 2}

\* Mutant of Sleep: while the duration is not exceeded.
SleepOnceMore ==
  /\ pc = "sleep"
  /\ elapsed' \in Rounds
  /\ pc' = IF elapsed' <= Duration THEN "query" ELSE "assert"
  /\ UNCHANGED <<tracker, drivers, pg, test, last, verdict>>

Sleep ==
  /\ pc = "sleep"
  /\ elapsed' \in Rounds
  /\ pc' = IF elapsed' < Duration THEN "query" ELSE "assert"
  /\ UNCHANGED <<tracker, drivers, pg, test, last, verdict>>

\* The assertion on what run_check_for_30s returns; none on None.
CheckMatches ==
  /\ pc = "assert"
  /\ IF last = NoResult THEN Silent ELSE AssertEmpty(last)
  /\ UNCHANGED <<tracker, drivers, pg, test, elapsed, last>>

\* The connection task ends; nothing ever replaces the client.
BreakPg ==
  /\ Disconnected /\ pg
  /\ pg' = FALSE
  /\ UNCHANGED <<tracker, drivers, pc, test, elapsed, last, verdict>>
-----------------------------------------------------------------------------
(* The specification                                                       *)

Pipeline == Generate \/ Produce \/ Consume \/ Stop

Run == Connect \/ CheckExactlyOnce \/ CheckOrder \/ CheckFails \/ Poll
         \/ Sleep \/ CheckMatches

Next == Pipeline \/ Run \/ ConnectFails \/ BreakPg

Spec == Init /\ [][Next]_vars
FairSpec == Spec /\ WF_vars(Run)
-----------------------------------------------------------------------------
(* Properties                                                              *)

\* Types, and that the validator speaks at its end only.
TypeOK ==
  /\ rows \subseteq Ids /\ Produced \subseteq rows
  /\ producer \in [Ids -> {"exactly_once", "atleast_once", NoRoute}]
  /\ history \in Seq(rows) /\ Len(history) <= MaxCounts
  /\ stopped \in BOOLEAN /\ late \in 0 .. InFlight
  /\ pg \in BOOLEAN /\ test \in Tests
  /\ pc \in {"idle", "query", "sleep", "assert", "ended"}
  /\ elapsed \in 0 .. Duration + 1
  /\ last = NoResult \/ last \subseteq rows
  /\ verdict \in {"none", "pass", "fail", "silent"}
  /\ pc = "ended" <=> verdict # "none"

\* README, property 8: when ProducerConsumerMatches passes, also on a result
\* it had to keep from an earlier round, every row is consumed but as many as
\* requests in flight recorded since the drivers were stopped.
PassMeansConsumed ==
  test = "ProducerConsumerMatches" /\ verdict = "pass"
    => Cardinality(Produced \ Consumed) <= late

\* Row history[k] has been consumed before an earlier row was.
Overtakes(k) ==
  \E j \in rows : j < history[k] /\ \A n \in 1 .. k : history[n] # j

\* An id below that of a row is no row's.
Missing == \E i \in rows : \E j \in 1 .. i : j \notin rows

\* README, property 5: when ConsumptionOrder fails, a row has been consumed
\* before an earlier one, or, which find_broken_id_sequence cannot tell from
\* that, a batch was rolled back.
FailMeansOvertaken ==
  test = "ConsumptionOrder" /\ verdict = "fail"
    => (\E k \in DOMAIN history : Overtakes(k)) \/ Missing

\* run_check_for_30s and the tests come to an end, whatever becomes of the
\* connection.
RunEnds == pc = "query" ~> pc = "ended"
=============================================================================
