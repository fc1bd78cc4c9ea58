-------------------------- MODULE ValidatorProofs --------------------------
(***************************************************************************)
(* Theorems about Validator, for any number of rows, updates and requests  *)
(* in flight.                                                              *)
(*                                                                         *)
(* The inductive invariant is IInv.  The assertion of                      *)
(* ProducerConsumerMatches is made on a result that may be old, kept over  *)
(* queries that failed; MatchInv says what such a result is still worth:   *)
(* of the rows it does not name, no more are unconsumed than have been     *)
(* recorded as produced since the drivers were stopped.                    *)
(*                                                                         *)
(* ConsumptionOrder judges the consumed ids in ascending order.  That      *)
(* there is such an order of a finite set of ids (Enumeration), and that   *)
(* it leaves out none of them (EnumeratesAll), is what makes a gap in it   *)
(* an id that is not consumed.                                             *)
(***************************************************************************)
EXTENDS Validator, FiniteSetTheorems, SequenceTheorems, TLAPS

\* run_check_for_30s ends at the first round that is over after 30 seconds.
ClockInv == pc \in {"idle", "query", "sleep"} => elapsed < Duration

\* The script runs when the drivers are stopped.
StoppedInv ==
  test = "ProducerConsumerMatches" /\ pc \in {"query", "sleep", "assert"}
    => stopped

\* The produced rows that last_result does not name and that are not consumed.
Unnamed == (Produced \ last) \ Consumed

MatchInv ==
  /\ pc = "idle" => last = NoResult
  /\ test = "ProducerConsumerMatches" /\ last # NoResult =>
       stopped /\ Cardinality(Unnamed) <= late

\* A verdict of pass was made on a result, and found nothing in it.
VerdictInv ==
  test = "ProducerConsumerMatches" /\ verdict = "pass"
    => last # NoResult /\ last = {}

IInv == TypeOK /\ ClockInv /\ StoppedInv /\ MatchInv /\ VerdictInv

\* Only ProducerConsumerMatches asks more than once.
PollInv == pc \in {"sleep", "assert"} => test = "ProducerConsumerMatches"

USE DEF tracker, drivers, process, vars, Duration
-----------------------------------------------------------------------------
(* The updates of consumed_count                                           *)

\* What has been consumed stays so after one more update.
LEMMA HistoryGrows ==
  ASSUME NEW S, NEW s \in Seq(S), NEW i
  PROVE  ToSet(s) \subseteq ToSet(Append(s, i))
BY DEF ToSet

\* There are finitely many such rows.
LEMMA UnnamedFinite ==
  ASSUME TypeOK
  PROVE  /\ IsFiniteSet(Unnamed) /\ Cardinality(Unnamed) \in Nat
         /\ IsFiniteSet(Produced)
<1>1. IsFiniteSet(Ids)
  BY ValidatorAssumption, FS_Interval DEF Ids
<1>2. Unnamed \subseteq Produced /\ Produced \subseteq Ids
  BY DEF Unnamed, Produced
<1> QED BY <1>1, <1>2, FS_Subset, FS_CardinalityType

\* The invariant holds at the start.
LEMMA InitInv == Init => IInv
<1> SUFFICES ASSUME Init PROVE IInv
  OBVIOUS
<1>1. Produced = {} /\ rows = {}
  BY DEF Init, Produced
<1>2. history \in Seq(rows) /\ Len(history) = 0
  BY EmptySeq DEF Init
<1>3. stopped \in BOOLEAN /\ pg \in BOOLEAN
  BY DEF Init
<1>4. TypeOK
  BY <1>1, <1>2, <1>3, ValidatorAssumption DEF Init, TypeOK
<1> QED BY <1>4
       DEF Init, IInv, ClockInv, StoppedInv, MatchInv, VerdictInv

\* A step of the pipeline.
LEMMA PipelineStep ==
  ASSUME IInv, Pipeline
  PROVE  IInv'
<1> USE ValidatorAssumption
<1>1. CASE Generate
  <2>1. /\ rows \subseteq rows' /\ rows' \subseteq Ids
        /\ UNCHANGED <<producer, history, stopped, late, pg, pc, test,
                       elapsed, last, verdict>>
    BY <1>1 DEF Generate, IInv, TypeOK
  <2>2. history' \in Seq(rows')
    BY <2>1, SeqMonotonic DEF IInv, TypeOK
  <2> QED BY <2>1, <2>2
         DEF IInv, TypeOK, ClockInv, StoppedInv, MatchInv, VerdictInv,
             Produced, Consumed, Unnamed
<1>2. CASE Produce
  <2>1. PICK i \in Ids, t \in {"exactly_once", "atleast_once"} :
          ItsTurn(i) /\ producer' = [producer EXCEPT ![i] = t]
    BY <1>2 DEF Produce
  <2>2. /\ producer' \in [Ids -> {"exactly_once", "atleast_once", NoRoute}]
        /\ Produced' = Produced \cup {i} /\ i \in rows
    BY <2>1 DEF IInv, TypeOK, ItsTurn, Produced
  <2>3. /\ late' \in 0 .. InFlight /\ (stopped => late' = late + 1)
        /\ UNCHANGED <<rows, history, stopped, pg, pc, test, elapsed, last,
                       verdict>>
    BY <1>2 DEF Produce, IInv, TypeOK
  <2>4. /\ Unnamed' \subseteq Unnamed \cup {i}
        /\ IsFiniteSet(Unnamed \cup {i})
        /\ Cardinality(Unnamed \cup {i}) <= Cardinality(Unnamed) + 1
        /\ Cardinality(Unnamed) \in Nat
    <3>1. Unnamed' \subseteq Unnamed \cup {i}
      BY <2>2, <2>3 DEF Unnamed, Consumed
    <3>2. IsFiniteSet(Unnamed) /\ Cardinality(Unnamed) \in Nat
      BY UnnamedFinite DEF IInv
    <3> QED BY <3>1, <3>2, FS_AddElement
  <2>5. /\ Cardinality(Unnamed') <= Cardinality(Unnamed) + 1
        /\ Cardinality(Unnamed') \in Nat
    BY <2>4, FS_Subset, FS_CardinalityType
  <2>6. MatchInv'
    BY <2>3, <2>4, <2>5 DEF MatchInv, IInv, TypeOK
  <2> QED BY <2>2, <2>3, <2>6
         DEF IInv, TypeOK, ClockInv, StoppedInv, VerdictInv
<1>3. CASE Consume
  <2>1. PICK i \in Ids :
          /\ i \in Produced \/ ItsTurn(i)
          /\ history' = Append(history, i)
    BY <1>3 DEF Consume
  <2>2. i \in rows
    BY <2>1 DEF IInv, TypeOK, ItsTurn
  <2>3. /\ history' \in Seq(rows) /\ Len(history') = Len(history) + 1
        /\ Len(history) < MaxCounts
    BY <1>3, <2>1, <2>2 DEF Consume, IInv, TypeOK
  <2>4. Consumed \subseteq Consumed'
    BY <2>1, HistoryGrows DEF IInv, TypeOK, Consumed
  <2>5. UNCHANGED <<rows, producer, stopped, late, pg, pc, test, elapsed,
                    last, verdict>>
    BY <1>3 DEF Consume
  <2>6. /\ Unnamed' \subseteq Unnamed
        /\ IsFiniteSet(Unnamed) /\ Cardinality(Unnamed) \in Nat
    BY <2>4, <2>5, UnnamedFinite DEF Unnamed, Produced, IInv
  <2>7. /\ Cardinality(Unnamed') <= Cardinality(Unnamed)
        /\ Cardinality(Unnamed') \in Nat
    BY <2>6, FS_Subset, FS_CardinalityType
  <2>8. MatchInv'
    BY <2>5, <2>6, <2>7 DEF MatchInv, IInv, TypeOK
  <2> QED BY <2>3, <2>5, <2>8
         DEF IInv, TypeOK, ClockInv, StoppedInv, VerdictInv, Produced
<1>4. CASE Stop
  BY <1>4 DEF Stop, IInv, TypeOK, ClockInv, StoppedInv, MatchInv, VerdictInv,
              Produced, Consumed, Unnamed
<1> QED BY <1>1, <1>2, <1>3, <1>4 DEF Pipeline

\* A step of the validator.
LEMMA RunStep ==
  ASSUME IInv, Run \/ ConnectFails \/ BreakPg
  PROVE  IInv'
<1> USE ValidatorAssumption
<1>0. UNCHANGED <<rows, producer, history, stopped, late, test>>
  BY DEF Run, Connect, Check, CheckExactlyOnce, CheckOrder, CheckFails, Poll,
         Sleep, CheckMatches, ConnectFails, BreakPg
<1>1. CASE Connect
  <2>1. pg' \in BOOLEAN
    BY <1>1 DEF Connect
  <2> QED BY <1>0, <1>1, <2>1
         DEF Connect, IInv, TypeOK, ClockInv, StoppedInv, MatchInv, VerdictInv,
             Produced, Consumed, Unnamed
<1>2. CASE CheckExactlyOnce \/ CheckOrder \/ CheckFails
  <2>1. /\ test # "ProducerConsumerMatches"
        /\ pc' = "ended" /\ verdict' \in {"pass", "fail", "silent"}
        /\ UNCHANGED <<pg, elapsed, last>>
    BY <1>2 DEF CheckExactlyOnce, CheckOrder, Check, CheckFails, AssertEmpty,
                Silent
  <2> QED BY <1>0, <2>1 DEF IInv, TypeOK, ClockInv, StoppedInv, MatchInv,
                            VerdictInv, Produced, Consumed, Unnamed
<1>3. CASE Poll
  <2>1. /\ pc = "query" /\ test = "ProducerConsumerMatches" /\ pc' = "sleep"
        /\ last' = last \/ last' = Produced \ Consumed
        /\ UNCHANGED <<pg, elapsed, verdict>>
    BY <1>3 DEF Poll, NotConsumedYet
  <2>2. /\ Produced' = Produced /\ Consumed' = Consumed
        /\ (last' = last /\ Unnamed' = Unnamed) \/ Unnamed' = {}
    BY <1>0, <2>1 DEF Produced, Consumed, Unnamed
  <2>3. Cardinality({}) = 0
    BY FS_EmptySet
  <2>4. MatchInv'
    <3>1. stopped' /\ late' = late /\ late \in Nat /\ pc' # "idle"
      BY <1>0, <2>1 DEF StoppedInv, IInv, TypeOK
    <3>2. last' # NoResult => Cardinality(Unnamed') <= late'
      <4>1. CASE last' = last /\ Unnamed' = Unnamed
        BY <2>1, <3>1, <4>1 DEF MatchInv, IInv
      <4>2. CASE Unnamed' = {}
        BY <2>3, <3>1, <4>2
      <4> QED BY <2>2, <4>1, <4>2
    <3> QED BY <3>1, <3>2 DEF MatchInv
  <2> QED BY <1>0, <2>1, <2>4 DEF IInv, TypeOK, ClockInv, StoppedInv,
                                  VerdictInv, Produced, Consumed
<1>4. CASE Sleep
  BY <1>0, <1>4 DEF Sleep, Rounds, IInv, TypeOK, ClockInv, StoppedInv,
                    MatchInv, VerdictInv, Produced, Consumed, Unnamed
<1>5. CASE CheckMatches
  BY <1>0, <1>5 DEF CheckMatches, Silent, AssertEmpty, IInv, TypeOK, ClockInv,
                    StoppedInv, MatchInv, VerdictInv, Produced, Consumed, Unnamed
<1>6. CASE ConnectFails
  BY <1>0, <1>6 DEF ConnectFails, Silent, IInv, TypeOK, ClockInv, StoppedInv,
                    MatchInv, VerdictInv, Produced, Consumed, Unnamed
<1>7. CASE BreakPg
  <2>1. pg' \in BOOLEAN
    BY <1>7 DEF BreakPg
  <2>2. UNCHANGED <<pc, elapsed, last, verdict>>
    BY <1>7 DEF BreakPg
  <2> QED BY <1>0, <2>1, <2>2
         DEF IInv, TypeOK, ClockInv, StoppedInv, MatchInv, VerdictInv,
             Produced, Consumed, Unnamed
<1> QED BY <1>1, <1>2, <1>3, <1>4, <1>5, <1>6, <1>7 DEF Run

\* The inductive invariant holds in every reachable state.
THEOREM ValidatorInvariant == Spec => []IInv
<1>1. IInv /\ [Next]_vars => IInv'
  <2> SUFFICES ASSUME IInv, [Next]_vars PROVE IInv'
    OBVIOUS
  <2>1. CASE UNCHANGED vars
    BY <2>1 DEF IInv, TypeOK, ClockInv, StoppedInv, MatchInv, VerdictInv,
                Produced, Consumed, Unnamed
  <2> QED BY <2>1, PipelineStep, RunStep DEF Next
<1> QED BY <1>1, InitInv, PTL DEF Spec
-----------------------------------------------------------------------------
(* Ids in ascending order                                                  *)

Ascending(s) == \A k, l \in DOMAIN s : k < l => s[k] < s[l]

\* The number of elements of S up to x.
Rank(S, x) == Cardinality({y \in S : y <= x})

\* A finite set of numbers can be put in ascending order: the rank of an
\* element is its place.
LEMMA Enumeration ==
  ASSUME NEW S \in SUBSET Nat, IsFiniteSet(S)
  PROVE  \E s \in [1 .. Cardinality(S) -> S] : Ascending(s)
<1> DEFINE n == Cardinality(S)
<1> DEFINE r == [x \in S |-> Rank(S, x)]
<1> DEFINE upTo(x) == {y \in S : y <= x}
<1>1. n \in Nat /\ IsFiniteSet(1 .. n) /\ Cardinality(1 .. n) = n
  BY FS_CardinalityType, FS_Interval
<1>2. ASSUME NEW x \in S
      PROVE  /\ IsFiniteSet(upTo(x)) /\ r[x] = Cardinality(upTo(x))
             /\ r[x] \in 1 .. n
  <2>1. /\ IsFiniteSet(upTo(x)) /\ Cardinality(upTo(x)) <= n
        /\ Cardinality(upTo(x)) \in Nat
    BY FS_Subset, FS_CardinalityType
  <2>2. Cardinality(upTo(x)) # 0
    BY <2>1, FS_EmptySet
  <2> QED BY <1>1, <2>1, <2>2 DEF Rank
<1>3. ASSUME NEW x \in S, NEW y \in S, x < y
      PROVE  r[x] < r[y]
  <2>1. upTo(x) \subseteq upTo(y) /\ y \in upTo(y) /\ y \notin upTo(x)
    <3>1. \A z \in S : z <= x => z <= y
      BY <1>3
    <3>2. y <= y /\ ~(y <= x)
      BY <1>3
    <3> QED BY <3>1, <3>2, Zenon
  <2>2. /\ Cardinality(upTo(x)) <= Cardinality(upTo(y))
        /\ Cardinality(upTo(x)) # Cardinality(upTo(y))
    BY <1>2, <2>1, FS_Subset
  <2> HIDE DEF upTo, r
  <2> QED BY <1>2, <2>2
<1> HIDE DEF upTo
<1>4. r \in Surjection(S, 1 .. n)
  <2>1. r \in [S -> 1 .. n]
    BY <1>2
  <2> HIDE DEF r
  <2>2. \A x, y \in S : r[x] = r[y] => x = y
    <3> SUFFICES ASSUME NEW x \in S, NEW y \in S, r[x] = r[y], x # y
                 PROVE  FALSE
      OBVIOUS
    <3>1. x < y \/ y < x
      OBVIOUS
    <3> QED BY <1>1, <1>2, <1>3, <3>1
  <2>3. r \in Injection(S, 1 .. n)
    BY <2>1, <2>2 DEF Injection, IsInjective
  <2> QED BY <1>1, <2>3, FS_Injection
<1> DEFINE s == [k \in 1 .. n |-> CHOOSE x \in S : r[x] = k]
<1>5. \A k \in 1 .. n : s[k] \in S /\ r[s[k]] = k
  <2>1. \A k \in 1 .. n : \E x \in S : r[x] = k
    BY <1>4 DEF Surjection
  <2> HIDE DEF r
  <2> QED BY <2>1
<1>6. s \in [1 .. n -> S]
  BY <1>5
<1> HIDE DEF r, s
<1>7. ASSUME NEW k \in 1 .. n, NEW l \in 1 .. n, k < l
      PROVE  s[k] < s[l]
  <2>1. /\ s[k] \in S /\ s[l] \in S /\ s[k] \in Nat /\ s[l] \in Nat
        /\ k \in Nat /\ l \in Nat
    <3>1. s[k] \in S /\ s[l] \in S
      BY <1>5
    <3>2. k \in Nat /\ l \in Nat
      BY <1>1
    <3> QED BY <3>1, <3>2
  <2>2. s[k] # s[l]
    BY <1>5, <1>7, <2>1
  <2>3. ~(s[l] < s[k])
    BY <1>3, <1>5, <1>7, <2>1
  <2> QED BY <2>1, <2>2, <2>3
<1>8. Ascending(s)
  BY <1>6, <1>7 DEF Ascending
<1> QED BY <1>6, <1>8

\* Such an order leaves nothing out.
LEMMA EnumeratesAll ==
  ASSUME NEW S \in SUBSET Nat, IsFiniteSet(S),
         NEW s \in [1 .. Cardinality(S) -> S], Ascending(s), NEW x \in S
  PROVE  \E k \in 1 .. Cardinality(S) : s[k] = x
<1> DEFINE n == Cardinality(S)
<1>1. n \in Nat /\ IsFiniteSet(1 .. n) /\ Cardinality(1 .. n) = n
  BY FS_CardinalityType, FS_Interval
<1>2. \A k, l \in 1 .. n : s[k] = s[l] => k = l
  <2> SUFFICES ASSUME NEW k \in 1 .. n, NEW l \in 1 .. n, s[k] = s[l], k # l
               PROVE  FALSE
    OBVIOUS
  <2>1. s[k] \in S /\ s[l] \in S /\ k \in DOMAIN s /\ l \in DOMAIN s
    OBVIOUS
  <2>2. k \in Nat /\ l \in Nat /\ s[k] \in Nat /\ s[l] \in Nat
    <3>1. k \in Nat /\ l \in Nat
      BY <1>1
    <3> QED BY <2>1, <3>1
  <2>3. k < l \/ l < k
    BY <2>2
  <2>4. s[k] < s[l] \/ s[l] < s[k]
    BY <2>1, <2>3 DEF Ascending
  <2> QED BY <2>2, <2>4
<1>3. s \in Injection(1 .. n, S)
  BY <1>2 DEF Injection, IsInjective
<1> HIDE DEF n
<1>4. s \in Surjection(1 .. n, S)
  BY <1>1, <1>3, FS_Injection DEF n
<1> QED BY <1>4 DEF Surjection, n

\* Two neighbours whose ids do not follow one another leave out one that is
\* not consumed.
LEMMA BrokenMeansGap ==
  ASSUME TypeOK, BrokenIdSequence(ConsumedData) # {}
  PROVE  \E i \in Consumed : \E j \in 1 .. i : j < i /\ j \notin Consumed
<1> DEFINE s == ConsumedData
<1> DEFINE n == Cardinality(Consumed)
<1>1. Consumed \in SUBSET Nat /\ Consumed \subseteq Ids /\ IsFiniteSet(Consumed)
  <2>1. Consumed \subseteq rows
    BY DEF TypeOK, Consumed, ToSet
  <2>2. Ids \subseteq Nat /\ IsFiniteSet(Ids)
    BY ValidatorAssumption, FS_Interval DEF Ids
  <2> QED BY <2>1, <2>2, FS_Subset DEF TypeOK
<1>2. n \in Nat
  BY <1>1, FS_CardinalityType
<1>3. s \in [1 .. n -> Consumed] /\ Ascending(s)
  BY <1>1, Enumeration, Zenon DEF ConsumedData, Ascending
<1> HIDE DEF s, n
<1>4. Len(s) = n
  <2>1. s \in Seq(Consumed)
    BY <1>2, <1>3, SeqDef
  <2>2. DOMAIN s = 1 .. Len(s) /\ DOMAIN s = 1 .. n /\ Len(s) \in Nat
    BY <1>3, <2>1, LenProperties
  <2>3. 1 .. Len(s) = 1 .. n
    BY <2>2
  <2>4. \A m \in Nat : Cardinality(1 .. m) = m
    BY FS_Interval
  <2> QED BY <1>2, <2>2, <2>3, <2>4
<1>5. PICK k \in 1 .. n - 1 : s[k] + 1 # s[k + 1]
  BY <1>2, <1>4 DEF BrokenIdSequence, s
<1>6. /\ k \in 1 .. n /\ k + 1 \in 1 .. n /\ k < k + 1
      /\ s[k] \in Consumed /\ s[k + 1] \in Consumed
      /\ s[k] \in Nat /\ s[k + 1] \in Nat
  <2>1. k \in 1 .. n /\ k + 1 \in 1 .. n /\ k < k + 1
    BY <1>2
  <2>2. s[k] \in Consumed /\ s[k + 1] \in Consumed
    BY <1>3, <2>1
  <2> QED BY <1>1, <2>1, <2>2
<1>7. s[k] + 1 < s[k + 1]
  <2>1. s[k] < s[k + 1]
    BY <1>3, <1>6 DEF Ascending
  <2> QED BY <1>5, <1>6, <2>1
<1>8. s[k] + 1 \notin Consumed
  <2> SUFFICES ASSUME s[k] + 1 \in Consumed PROVE FALSE
    OBVIOUS
  <2>1. PICK m \in 1 .. n : s[m] = s[k] + 1
    BY <1>1, <1>3, EnumeratesAll DEF n
  <2>2. ~(m < k) /\ m # k /\ ~(k + 1 < m) /\ m # k + 1
    <3>1. m < k => s[m] < s[k]
      BY <1>3, <1>6 DEF Ascending
    <3>2. k + 1 < m => s[k + 1] < s[m]
      BY <1>3, <1>6 DEF Ascending
    <3> QED BY <1>6, <1>7, <2>1, <3>1, <3>2
  <2> QED BY <1>2, <1>6, <2>2
<1> QED BY <1>6, <1>7, <1>8

\* A consumed row below which an id is not consumed has overtaken the row of
\* that id, or there is none.
LEMMA BrokenMeansOvertaken ==
  ASSUME TypeOK, BrokenIdSequence(ConsumedData) # {}
  PROVE  (\E k \in DOMAIN history : Overtakes(k)) \/ Missing
<1>0. PICK i \in Consumed : \E j \in 1 .. i : j < i /\ j \notin Consumed
  BY BrokenMeansGap
<1>1. PICK j \in 1 .. i : j < i /\ j \notin Consumed
  BY <1>0
<1>2. PICK k \in DOMAIN history : history[k] = i
  BY DEF Consumed, ToSet
<1>3. i \in rows
  BY <1>2 DEF TypeOK
<1>4. CASE j \notin rows
  BY <1>3, <1>4 DEF Missing
<1>5. CASE j \in rows
  <2>1. \A n \in 1 .. k : history[n] # j
    <3>1. 1 .. k \subseteq DOMAIN history
      BY DEF TypeOK
    <3> QED BY <1>1, <3>1 DEF Consumed, ToSet
  <2> QED BY <1>1, <1>2, <1>5, <2>1 DEF Overtakes
<1> QED BY <1>4, <1>5

\* What a failed ConsumptionOrder tells stays true while the pipeline goes on:
\* new rows have higher ids, and what was consumed too early has been.
LEMMA OvertakenStays ==
  ASSUME TypeOK, TypeOK', Pipeline
  PROVE  /\ (\E k \in DOMAIN history : Overtakes(k))
               => (\E k \in DOMAIN history : Overtakes(k))'
         /\ Missing => Missing'
<1>1. /\ rows \subseteq rows' /\ rows \subseteq Ids
      /\ \A i \in rows, j \in rows' \ rows : i < j
  BY DEF TypeOK, Pipeline, Generate, Produce, Consume, Stop
<1>2. /\ Len(history) <= Len(history')
      /\ Len(history) \in Nat /\ Len(history') \in Nat
      /\ DOMAIN history = 1 .. Len(history)
      /\ DOMAIN history' = 1 .. Len(history')
      /\ \A k \in DOMAIN history : history'[k] = history[k]
  <2>1. CASE Consume
    BY <2>1 DEF TypeOK, Consume
  <2>2. CASE Generate \/ Produce \/ Stop
    BY <2>2 DEF TypeOK, Generate, Produce, Stop
  <2> QED BY <2>1, <2>2 DEF Pipeline
<1>3. ASSUME NEW k \in DOMAIN history, Overtakes(k)
      PROVE  k \in DOMAIN history' /\ Overtakes(k)'
  BY <1>1, <1>2, <1>3 DEF Overtakes
<1>4. Missing => Missing'
  <2> SUFFICES ASSUME NEW i \in rows, NEW j \in 1 .. i, j \notin rows
               PROVE  j \notin rows'
    BY <1>1 DEF Missing
  <2>1. i \in Nat /\ j \in Nat /\ j <= i
    BY <1>1 DEF Ids
  <2> QED BY <1>1, <2>1
<1> QED BY <1>3, <1>4
-----------------------------------------------------------------------------
(* The theorems                                                            *)

\* Every reachable state of the validator is well typed; run_check_for_30s
\* is over after at most one round more than 30 seconds.
THEOREM ValidatorTypeCorrect == Spec => []TypeOK
<1>1. IInv => TypeOK
  BY DEF IInv
<1> QED BY <1>1, ValidatorInvariant, PTL

\* When ProducerConsumerMatches passes, at most as many produced rows are not
\* consumed as have been recorded since the drivers were stopped, however old
\* the result it judges.
THEOREM PassMeansConsumedAlways == Spec => []PassMeansConsumed
<1>1. IInv => PassMeansConsumed
  <2> SUFFICES ASSUME IInv PROVE PassMeansConsumed
    OBVIOUS
  <2>1. last = {} => Unnamed = Produced \ Consumed
    BY DEF Unnamed
  <2> QED BY <2>1 DEF IInv, MatchInv, VerdictInv, PassMeansConsumed
<1> QED BY <1>1, ValidatorInvariant, PTL

\* When ConsumptionOrder fails, a row has been consumed before an earlier one,
\* or an id below that of a row is missing from the table.
THEOREM FailMeansOvertakenAlways == Spec => []FailMeansOvertaken
<1>1. Init => PollInv /\ FailMeansOvertaken
  BY DEF Init, PollInv, FailMeansOvertaken
<1>2. ASSUME IInv, IInv', PollInv, FailMeansOvertaken, [Next]_vars
      PROVE  PollInv' /\ FailMeansOvertaken'
  <2>0. TypeOK /\ TypeOK'
    BY <1>2 DEF IInv
  <2>1. CASE Pipeline
    <3>1. UNCHANGED <<test, verdict, pc>>
      BY <2>1 DEF Pipeline, Generate, Produce, Consume, Stop
    <3> QED BY <1>2, <2>0, <2>1, <3>1, OvertakenStays
            DEF PollInv, FailMeansOvertaken
  <2>2. CASE CheckOrder
    <3>1. /\ verdict' = "fail" => BrokenIdSequence(ConsumedData) # {}
          /\ UNCHANGED <<rows, history>> /\ pc' = "ended"
      BY <2>2 DEF CheckOrder, Check, AssertEmpty
    <3> QED BY <2>0, <3>1, BrokenMeansOvertaken
            DEF PollInv, FailMeansOvertaken, Overtakes, Missing
  <2>3. CASE Poll \/ Sleep \/ CheckMatches \/ CheckExactlyOnce
    <3>1. /\ test # "ConsumptionOrder" /\ test' = test
          /\ PollInv'
      BY <1>2, <2>3 DEF PollInv, Poll, Sleep, CheckMatches, CheckExactlyOnce,
                        Check, AssertEmpty, Silent
    <3> QED BY <3>1 DEF FailMeansOvertaken
  <2>4. CASE Connect \/ CheckFails \/ ConnectFails \/ BreakPg
    <3>1. /\ UNCHANGED <<rows, history, test>>
          /\ verdict' = verdict \/ verdict' = "silent"
          /\ pc' = pc \/ pc' \in {"query", "ended"}
      BY <2>4 DEF Connect, CheckFails, ConnectFails, BreakPg, Silent
    <3> QED BY <1>2, <3>1 DEF PollInv, FailMeansOvertaken, Overtakes, Missing
  <2>5. CASE UNCHANGED vars
    BY <1>2, <2>5 DEF PollInv, FailMeansOvertaken, Overtakes, Missing
  <2> QED BY <1>2, <2>1, <2>2, <2>3, <2>4, <2>5 DEF Next, Run
<1>3. IInv /\ IInv' /\ PollInv /\ FailMeansOvertaken /\ [Next]_vars
        => PollInv' /\ FailMeansOvertaken'
  BY <1>2
<1> QED BY <1>1, <1>3, ValidatorInvariant, PTL DEF Spec
=============================================================================
