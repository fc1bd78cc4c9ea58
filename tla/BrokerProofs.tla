---------------------------- MODULE BrokerProofs ----------------------------
(***************************************************************************)
(* What the operators of Broker do to the topics.                          *)
(***************************************************************************)
EXTENDS Broker, FiniteSetTheorems, SequenceTheorems, TLAPS

USE DEF Topics, Offsets

\* A send appends one entry to one topic and leaves the offsets before it.
LEMMA AppendedFacts ==
  ASSUME LogType, NEW t \in Topics, NEW i \in Ids,
         NEW s \in {"open", "committed", "aborted"}, log' = Appended(t, i, s)
  PROVE  /\ LogType'
         /\ \A u \in Topics \ {t} : log'[u] = log[u]
         /\ Len(log[t]) \in Nat
         /\ DOMAIN log[t] = 1 .. Len(log[t])
         /\ DOMAIN log'[t] = 1 .. Len(log[t]) + 1
         /\ \A k \in DOMAIN log[t] : log'[t][k] = log[t][k]
         /\ log'[t][Len(log[t]) + 1] = [id |-> i, status |-> s]
<1> DEFINE e == [id |-> i, status |-> s]
<1>1. e \in Entry /\ log[t] \in Seq(Entry)
  BY DEF Entry, LogType
<1>2. log' = [log EXCEPT ![t] = Append(@, e)]
  BY DEF Appended
<1>3. log'[t] = Append(log[t], e)
  BY <1>2 DEF LogType
<1>4. LogType'
  BY <1>1, <1>2 DEF LogType
<1>5. \A u \in Topics \ {t} : log'[u] = log[u]
  BY <1>2 DEF LogType
<1> HIDE DEF e
<1>6. /\ Len(log[t]) \in Nat
      /\ DOMAIN log[t] = 1 .. Len(log[t])
      /\ DOMAIN Append(log[t], e) = 1 .. Len(log[t]) + 1
      /\ \A k \in DOMAIN log[t] : Append(log[t], e)[k] = log[t][k]
      /\ Append(log[t], e)[Len(log[t]) + 1] = e
  BY <1>1
<1> QED BY <1>3, <1>4, <1>5, <1>6 DEF e

\* After a send the topic has the entry that was sent.
LEMMA AppendedIsThere ==
  ASSUME LogType, NEW t \in Topics, NEW i \in Ids,
         NEW s \in {"open", "committed", "aborted"}, log' = Appended(t, i, s)
  PROVE  \E k \in DOMAIN log'[t] : log'[t][k] = [id |-> i, status |-> s]
<1>1. /\ Len(log[t]) \in Nat
      /\ DOMAIN log'[t] = 1 .. Len(log[t]) + 1
      /\ log'[t][Len(log[t]) + 1] = [id |-> i, status |-> s]
  BY AppendedFacts
<1>2. Len(log[t]) + 1 \in DOMAIN log'[t]
  BY <1>1
<1> QED BY <1>1, <1>2

\* Settling keeps every offset and every id; it leaves nothing open and
\* changes the status of open entries only.
LEMMA SettledFacts ==
  ASSUME LogType, NEW o \in {"committed", "aborted"}, log' = Settled(o)
  PROVE  /\ LogType'
         /\ \A t \in Topics : DOMAIN log'[t] = DOMAIN log[t]
         /\ \A t \in Topics : \A k \in DOMAIN log[t] :
              /\ log'[t][k].id = log[t][k].id
              /\ log'[t][k].status =
                   IF log[t][k].status = "open" THEN o ELSE log[t][k].status
<1>1. \A t \in Topics : log[t] \in Seq(Entry)
  BY DEF LogType
<1>2. \A t \in Topics :
        /\ Len(log[t]) \in Nat
        /\ DOMAIN log[t] = 1 .. Len(log[t])
        /\ \A k \in 1 .. Len(log[t]) : log[t][k] \in Entry
  BY <1>1
<1>3. \A e \in Entry :
        /\ Closed(e, o) \in Entry
        /\ Closed(e, o).id = e.id
        /\ Closed(e, o).status = IF e.status = "open" THEN o ELSE e.status
  BY DEF Closed, Entry
<1>4. \A t \in Topics :
        log'[t] = [k \in 1 .. Len(log[t]) |-> Closed(log[t][k], o)]
  BY DEF Settled
<1>5. \A t \in Topics : log'[t] \in Seq(Entry)
  BY <1>2, <1>3, <1>4
<1>6. LogType'
  BY <1>5 DEF LogType, Settled
<1> QED BY <1>2, <1>3, <1>4, <1>6

\* No entry is lost or moved, and what is visible stays.
LogGrows ==
  /\ LogType'
  /\ \A t \in Topics : \A k \in DOMAIN log[t] :
       /\ k \in DOMAIN log'[t]
       /\ log'[t][k].id = log[t][k].id
       /\ log[t][k].status = "committed" => log'[t][k].status = "committed"

\* After a write, a reader finds what it has found before.
LEMMA WriteGrows ==
  ASSUME LogType, NEW t \in Topics, NEW i \in Ids, Write(t, i)
  PROVE  LogGrows
<1> PICK s \in {"open", "committed"} : log' = Appended(t, i, s)
  BY DEF Write
<1>1. /\ LogType'
      /\ \A u \in Topics \ {t} : log'[u] = log[u]
      /\ DOMAIN log[t] = 1 .. Len(log[t])
      /\ DOMAIN log'[t] = 1 .. Len(log[t]) + 1
      /\ Len(log[t]) \in Nat
      /\ \A k \in DOMAIN log[t] : log'[t][k] = log[t][k]
  BY AppendedFacts
<1>2. DOMAIN log[t] \subseteq DOMAIN log'[t]
  BY <1>1
<1> QED BY <1>1, <1>2 DEF LogGrows

\* The same when the open transaction is given its outcome.
LEMMA SettleGrows ==
  ASSUME LogType, SettleOpen
  PROVE  LogGrows
BY SettledFacts DEF SettleOpen, LogGrows

\* The offsets of a topic are finitely many natural numbers.
LEMMA OffsetsFinite ==
  ASSUME LogType, NEW t \in Topics
  PROVE  IsFiniteSet(DOMAIN log[t]) /\ DOMAIN log[t] \subseteq Nat \ {0}
<1>1. log[t] \in Seq(Entry)
  BY DEF LogType
<1>2. Len(log[t]) \in Nat /\ DOMAIN log[t] = 1 .. Len(log[t])
  BY <1>1
<1>3. IsFiniteSet(1 .. Len(log[t]))
  BY <1>2, FS_Interval
<1>4. 1 .. Len(log[t]) \subseteq Nat \ {0}
  BY <1>2
<1> QED BY <1>2, <1>3, <1>4
=============================================================================
