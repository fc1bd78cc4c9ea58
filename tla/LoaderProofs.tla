---------------------------- MODULE LoaderProofs ----------------------------
(***************************************************************************)
(* Theorems about Loader, for any number of ids, accounts, records in a    *)
(* batch, restarts and failures of any kind.                               *)
(*                                                                         *)
(* The inductive invariant is IInv.  What waits to be inserted, what a     *)
(* transaction has inserted and what is in the table speaks of funded      *)
(* accounts only (PendingFunded, Funded); a funding in the table stays     *)
(* there, because no two transactions have an id in common (TypeOK); and   *)
(* the ids of the open transaction are above all others (OpenAbove).       *)
(***************************************************************************)
EXTENDS Loader, SequenceTheorems, TLAPS

\* The row that funds account a.
FundRow(a) == [topic |-> "_banktest_fund_account", iban |-> a]

\* The transfers of t come behind the funding rows of their accounts.
Funded(t) ==
  \A i \in Present(t) :
    t[i].topic = "_banktest_transaction" =>
      \A a \in {t[i].from, t[i].to} :
        \E j \in Present(rows) : j < i /\ rows[j] = FundRow(a)

\* The transfers that wait to be inserted are between accounts of the table.
PendingFunded ==
  \A n \in 1 .. Len(pending) :
    pending[n].topic = "_banktest_transaction" =>
      \A a \in {pending[n].from, pending[n].to} :
        \E j \in Present(rows) : rows[j] = FundRow(a)

OpenAbove ==
  \A i \in Present(open) : \A j \in Present(rows) \cup Present(orphan) : j < i

Tables == [Ids -> Records \cup {NoRow}]

\* The part of TypeOK that is about the state-tracker ...
Typed ==
  /\ rows \in Tables /\ open \in Tables /\ orphan \in Tables
  /\ \A i \in Present(rows) \cup Present(open) \cup Present(orphan) : i < nextId
  /\ Present(rows) \cap Present(open) = {}
  /\ Present(orphan) \cap (Present(rows) \cup Present(open)) = {}
  /\ nextId \in 1 .. MaxId + 1

\* ... and all that IInv says of it.
Tracker ==
  /\ Typed
  /\ Funded(rows) /\ Funded(open) /\ Funded(orphan)
  /\ OpenAbove

\* The part of TypeOK that is about the script.
Script ==
  /\ pc \in {"schema", "fetch", "insert", "exited"}
  /\ turn \in {"_banktest_fund_account", "_banktest_transaction"}
  /\ pending \in Seq(Records) /\ Len(pending) <= BatchSize
  /\ PendingFunded

Budget == crashes \in 0 .. MaxCrashes /\ faults \in 0 .. MaxFaults

IInv == table \in BOOLEAN /\ Tracker /\ Script /\ Budget
-----------------------------------------------------------------------------
(* Records, and transactions                                               *)

\* No record is taken for the absence of one.
LEMMA RecordFacts ==
  \A r \in Records :
    /\ r # NoRow
    /\ r.topic \in {"_banktest_fund_account", "_banktest_transaction"}
    /\ r.topic = "_banktest_fund_account" =>
         r.iban \in Accounts /\ r = FundRow(r.iban)
BY DEF Records, NoRow, FundRow

\* The known accounts are those of funding rows.
LEMMA KnownFacts ==
  ASSUME Typed, NEW a \in KnownAccounts
  PROVE  a \in Accounts /\ \E j \in Present(rows) : rows[j] = FundRow(a)
<1> PICK i \in Present(rows) :
      rows[i].topic = "_banktest_fund_account" /\ a = rows[i].iban
  BY DEF KnownAccounts, Ibans
<1>1. rows[i] \in Records
  BY DEF Typed, Tables, Present
<1> QED BY <1>1, RecordFacts

\* A table, and the same once the rows of a transaction are in it.
LEMMA MergeFacts ==
  ASSUME NEW t \in Tables, NEW s \in Tables, Present(t) \cap Present(s) = {}
  PROVE  /\ Merged(t, s) \in Tables
         /\ Present(Merged(t, s)) = Present(t) \cup Present(s)
         /\ \A i \in Present(t) : Merged(t, s)[i] = t[i]
         /\ \A i \in Present(s) : Merged(t, s)[i] = s[i]
BY DEF Tables, Merged, Present

\* A transaction without rows is a table without rows.
LEMMA NothingFacts == Nothing \in Tables /\ Present(Nothing) = {}
BY DEF Nothing, Tables, Present
-----------------------------------------------------------------------------
(* What the server does with an open transaction                           *)

\* A funding in the table stays where it is.
RowsStay ==
  \A j \in Present(rows) : j \in Present(rows') /\ rows'[j] = rows[j]

\* While the rows of the table stay, so does what is behind them.
LEMMA FundedStays ==
  ASSUME RowsStay, NEW t, Funded(t)
  PROVE  \A i \in Present(t) :
           t[i].topic = "_banktest_transaction" =>
             \A a \in {t[i].from, t[i].to} :
               \E j \in Present(rows') : j < i /\ rows'[j] = FundRow(a)
BY DEF Funded, RowsStay

\* When the rows of the late or of the open transaction get into the table.
LEMMA MergeStep ==
  ASSUME Tracker, NEW s \in Tables, Present(rows) \cap Present(s) = {},
         Funded(s), rows' = Merged(rows, s)
  PROVE  /\ rows' \in Tables /\ RowsStay
         /\ Present(rows') = Present(rows) \cup Present(s)
         /\ Funded(rows)'
<1>1. /\ rows' \in Tables
      /\ Present(rows') = Present(rows) \cup Present(s)
      /\ \A i \in Present(rows) : rows'[i] = rows[i]
      /\ \A i \in Present(s) : rows'[i] = s[i]
  BY MergeFacts DEF Tracker, Typed
<1>2. RowsStay
  BY <1>1 DEF RowsStay
<1>3. Funded(rows)'
  <2> SUFFICES ASSUME NEW i \in Present(rows'),
                      rows'[i].topic = "_banktest_transaction",
                      NEW a \in {rows'[i].from, rows'[i].to}
               PROVE  \E j \in Present(rows') : j < i /\ rows'[j] = FundRow(a)
    BY DEF Funded, Present
  <2>1. CASE i \in Present(rows)
    BY <1>1, <1>2, <2>1, FundedStays DEF Tracker
  <2>2. CASE i \in Present(s)
    BY <1>1, <1>2, <2>2, FundedStays
  <2> QED BY <1>1, <2>1, <2>2
<1> QED BY <1>1, <1>2, <1>3

\* The open transaction ends, in one way or another.
LEMMA EndStep ==
  ASSUME Tracker, RolledBack \/ Applied \/ Hanging,
         nextId' \in {nextId, nextId + 1} \cap (1 .. MaxId + 1)
  PROVE  Tracker' /\ RowsStay
<1> USE NothingFacts, LoaderAssumption
<1>1. CASE RolledBack
  <2>1. open' = Nothing /\ rows' = rows /\ orphan' = orphan
    BY <1>1 DEF RolledBack
  <2>2. Typed'
    BY <2>1 DEF Tracker, Typed, Present, Ids
  <2>3. Funded(rows)' /\ Funded(open)' /\ Funded(orphan)' /\ OpenAbove'
    BY <2>1 DEF Tracker, Funded, OpenAbove, Present
  <2> QED BY <2>1, <2>2, <2>3 DEF Tracker, RowsStay
<1>2. CASE Applied
  <2>1. open' = Nothing /\ rows' = Merged(rows, open) /\ orphan' = orphan
    BY <1>2 DEF Applied
  <2>2. /\ rows' \in Tables /\ RowsStay
        /\ Present(rows') = Present(rows) \cup Present(open)
        /\ Funded(rows)'
    BY <2>1, MergeStep DEF Tracker, Typed
  <2>3. Present(open') = {} /\ Present(orphan') = Present(orphan)
    BY <2>1
  <2>4. Typed'
    <3>1. \A i \in Present(rows') \cup Present(open') \cup Present(orphan') :
            i < nextId /\ i \in Ids
      BY <2>2, <2>3 DEF Tracker, Typed, Present
    <3>2. /\ nextId \in 1 .. MaxId + 1 /\ nextId' \in 1 .. MaxId + 1
          /\ nextId <= nextId'
      BY DEF Tracker, Typed
    <3> QED BY <2>1, <2>2, <2>3, <3>1, <3>2
           DEF Tracker, Typed, Present, Ids
  <2>5. Funded(open)' /\ OpenAbove'
    BY <2>3 DEF Funded, OpenAbove, Present
  <2>6. Funded(orphan)'
    BY <2>1, <2>2, FundedStays DEF Tracker, Funded, Present
  <2> QED BY <2>2, <2>4, <2>5, <2>6 DEF Tracker
<1>3. CASE Hanging
  <2>1. /\ open' = Nothing /\ rows' = rows
        /\ orphan' = open /\ Present(orphan) = {}
    BY <1>3 DEF Hanging
  <2>2. Typed'
    BY <2>1 DEF Tracker, Typed, Present, Ids
  <2>3. Funded(rows)' /\ Funded(open)' /\ Funded(orphan)' /\ OpenAbove'
    BY <2>1 DEF Tracker, Funded, OpenAbove, Present
  <2> QED BY <2>1, <2>2, <2>3 DEF Tracker, RowsStay
<1> QED BY <1>1, <1>2, <1>3

\* The late transaction gets into the table.
LEMMA LateStep ==
  ASSUME Tracker, ApplyLate
  PROVE  Tracker' /\ RowsStay
<1> USE NothingFacts, LoaderAssumption
<1>1. /\ orphan' = Nothing /\ rows' = Merged(rows, orphan)
      /\ open' = open /\ nextId' = nextId
  BY DEF ApplyLate
<1>2. /\ rows' \in Tables /\ RowsStay
      /\ Present(rows') = Present(rows) \cup Present(orphan)
      /\ Funded(rows)'
  BY <1>1, MergeStep DEF Tracker, Typed
<1>3. Present(orphan') = {} /\ Present(open') = Present(open)
  BY <1>1
<1>4. Typed'
  BY <1>1, <1>2, <1>3 DEF Tracker, Typed, Present
<1>5. OpenAbove'
  BY <1>2, <1>3 DEF Tracker, OpenAbove, Present
<1>6. Funded(orphan)'
  BY <1>3 DEF Funded, Present
<1>7. Funded(open)'
  BY <1>1, <1>2, FundedStays DEF Tracker, Funded, Present
<1> QED BY <1>2, <1>4, <1>5, <1>6, <1>7 DEF Tracker
-----------------------------------------------------------------------------
(* The steps of the script                                                 *)

\* A step that leaves the rows alone.
LEMMA SameStep ==
  ASSUME Tracker, UNCHANGED <<rows, nextId, open, orphan>>
  PROVE  Tracker' /\ RowsStay
BY DEF Tracker, Typed, Funded, OpenAbove, RowsStay, Present

\* The process ends: nothing waits to be inserted any more.
LEMMA EmptyPending ==
  ASSUME pending' = << >>
  PROVE  /\ pending' \in Seq(Records) /\ Len(pending') <= BatchSize
         /\ PendingFunded'
BY LoaderAssumption DEF PendingFunded

\* The accounts of what waits to be inserted stay in the table.
LEMMA SamePending ==
  ASSUME PendingFunded, RowsStay, pending' = pending
  PROVE  PendingFunded'
BY DEF PendingFunded, RowsStay

\* The script starts over, or goes on, after what EndStep says of.
LEMMA EndsStep ==
  ASSUME IInv, RolledBack \/ Applied \/ Hanging,
         nextId' \in {nextId, nextId + 1} \cap (1 .. MaxId + 1),
         pending' = << >>, table' = table,
         pc' \in {"schema", "fetch", "exited"},
         turn' \in {"_banktest_fund_account", "_banktest_transaction"},
         Budget'
  PROVE  IInv'
BY EndStep, EmptyPending DEF IInv, Script

\* A failure is counted within its bound.
LEMMA FaultFacts ==
  ASSUME Budget, NEW kind, Fault(kind)
  PROVE  Budget'
BY LoaderAssumption DEF Budget, Fault

\* Before the first record of a process is inserted, only the table may
\* change, and not its rows.
LEMMA FetchedStep ==
  ASSUME IInv, UNCHANGED <<rows, nextId, open, orphan>>,
         table' \in BOOLEAN, Budget', turn' = turn,
         pc' \in {"schema", "fetch", "insert", "exited"},
         pending' = pending \/ pending' = << >>
  PROVE  IInv'
<1>1. Tracker' /\ RowsStay
  BY SameStep DEF IInv
<1>2. PendingFunded' /\ pending' \in Seq(Records) /\ Len(pending') <= BatchSize
  BY <1>1, SamePending, EmptyPending DEF IInv, Script
<1> QED BY <1>1, <1>2 DEF IInv, Script

\* A batch that is fetched is of records, and its transfers are between
\* accounts the table funds.
LEMMA FetchStep ==
  ASSUME IInv, FetchAccounts \/ FetchTransfers
  PROVE  IInv'
<1>1. Tracker' /\ RowsStay /\ rows' = rows
  BY SameStep DEF IInv, FetchAccounts, FetchTransfers, tracker
<1>2. CASE FetchAccounts
  <2>1. PICK ibans \in Batch(Accounts) :
          pending' = [n \in 1 .. BatchSize |->
                        [topic |-> turn, iban |-> ibans[n]]]
    BY <1>2 DEF FetchAccounts
  <2>2. \A n \in 1 .. BatchSize :
          [topic |-> turn, iban |-> ibans[n]] \in Records
    BY <1>2 DEF FetchAccounts, Batch, Records
  <2>3. pending' \in Seq(Records) /\ Len(pending') = BatchSize
    BY <2>1, <2>2, LoaderAssumption
  <2>4. PendingFunded'
    BY <1>2, <2>1, <2>3 DEF PendingFunded, FetchAccounts
  <2> QED BY <1>1, <1>2, <2>3, <2>4, LoaderAssumption
         DEF IInv, Script, FetchAccounts, tracker, Budget, budget
<1>3. CASE FetchTransfers
  <2>1. PICK ends \in Batch(KnownAccounts \X KnownAccounts) :
          pending' = [n \in 1 .. BatchSize |->
                        [topic |-> turn,
                         from |-> ends[n][1], to |-> ends[n][2]]]
    BY <1>3 DEF FetchTransfers
  <2>2. \A n \in 1 .. BatchSize :
          ends[n][1] \in KnownAccounts /\ ends[n][2] \in KnownAccounts
    BY DEF Batch
  <2>3. \A n \in 1 .. BatchSize :
          [topic |-> turn, from |-> ends[n][1], to |-> ends[n][2]] \in Records
    BY <1>3, <2>2, KnownFacts DEF FetchTransfers, Records, IInv, Tracker
  <2>4. pending' \in Seq(Records) /\ Len(pending') = BatchSize
    BY <2>1, <2>3, LoaderAssumption
  <2>5. PendingFunded'
    <3> SUFFICES ASSUME NEW n \in 1 .. BatchSize,
                        NEW a \in {pending'[n].from, pending'[n].to}
                 PROVE  \E j \in Present(rows') : rows'[j] = FundRow(a)
      BY <2>4 DEF PendingFunded
    <3>1. a \in KnownAccounts
      BY <2>1, <2>2
    <3> QED BY <1>1, <3>1, KnownFacts DEF IInv, Tracker
  <2> QED BY <1>1, <1>3, <2>4, <2>5, LoaderAssumption
         DEF IInv, Script, FetchTransfers, tracker, Budget, budget
<1> QED BY <1>2, <1>3

\* The record that is inserted is the first that waits; its accounts are
\* funded by rows of the table, all of which have smaller ids.
LEMMA InsertStep ==
  ASSUME IInv, InsertRecord
  PROVE  IInv'
<1> DEFINE r == Head(pending)
<1>1. /\ rows' = rows /\ orphan' = orphan /\ nextId' = nextId + 1
      /\ nextId \in Ids /\ pending' = Tail(pending)
      /\ open' = [open EXCEPT ![nextId] = r]
  BY DEF InsertRecord
<1>2. /\ r \in Records /\ r = pending[1] /\ Len(pending) > 0
      /\ pending' \in Seq(Records) /\ Len(pending') = Len(pending) - 1
      /\ \A n \in 1 .. Len(pending') :
           pending'[n] = pending[n + 1] /\ n + 1 \in 1 .. Len(pending)
  BY <1>1 DEF InsertRecord, IInv, Script
<1>3. /\ open' \in Tables /\ open'[nextId] = r
      /\ Present(open') = Present(open) \cup {nextId}
      /\ \A i \in Present(open) : i < nextId /\ open'[i] = open[i]
  BY <1>1, <1>2, RecordFacts DEF IInv, Tracker, Typed, Tables, Present, Ids
<1>4. Typed'
  BY <1>1, <1>3, LoaderAssumption DEF IInv, Tracker, Typed, Present, Ids
<1>5. Funded(rows)' /\ Funded(orphan)'
  BY <1>1 DEF IInv, Tracker, Funded, Present
<1>6. Funded(open)'
  <2> SUFFICES ASSUME NEW i \in Present(open'),
                      open'[i].topic = "_banktest_transaction",
                      NEW a \in {open'[i].from, open'[i].to}
               PROVE  \E j \in Present(rows) : j < i /\ rows[j] = FundRow(a)
    BY <1>1 DEF Funded, Present
  <2>1. CASE i = nextId
    <3>1. \E j \in Present(rows) : rows[j] = FundRow(a)
      BY <1>2, <1>3, <2>1 DEF IInv, Script, PendingFunded
    <3> QED BY <2>1, <3>1 DEF IInv, Tracker, Typed
  <2>2. CASE i \in Present(open)
    BY <1>3, <2>2 DEF IInv, Tracker, Funded
  <2> QED BY <1>3, <2>1, <2>2
<1>7. OpenAbove'
  BY <1>1, <1>3 DEF IInv, Tracker, Typed, OpenAbove, Present
<1>8. PendingFunded'
  BY <1>1, <1>2 DEF IInv, Script, PendingFunded
<1> QED BY <1>1, <1>2, <1>4, <1>5, <1>6, <1>7, <1>8, LoaderAssumption
       DEF IInv, Tracker, Script, InsertRecord, Budget, budget
-----------------------------------------------------------------------------
(* The inductive invariant                                                 *)

\* The invariant holds of the empty table.
LEMMA InitInv == Init => IInv
<1> SUFFICES ASSUME Init PROVE IInv
  OBVIOUS
<1>1. Tracker
  BY NothingFacts, LoaderAssumption
     DEF Init, Tracker, Typed, Funded, OpenAbove, Present
<1>2. Script /\ Budget
  BY LoaderAssumption DEF Init, Script, PendingFunded, Budget
<1> QED BY <1>1, <1>2 DEF Init, IInv

\* Every step keeps it.
LEMMA StepInv ==
  ASSUME IInv, [Next]_vars
  PROVE  IInv'
<1> USE DEF tracker, script, budget, Exit
<1>0. Typed /\ Script /\ Budget /\ table \in BOOLEAN
  BY DEF IInv, Tracker
<1>1. CASE TableExists
  BY <1>1, FetchedStep, <1>0 DEF TableExists, Budget
<1>2. CASE CreateTable
  BY <1>2, FetchedStep, <1>0 DEF CreateTable, Budget
<1>3. CASE FetchAccounts \/ FetchTransfers
  BY <1>3, FetchStep
<1>4. CASE InsertRecord
  BY <1>4, InsertStep
<1>5. CASE InsertNowhere
  BY <1>5, EndsStep, <1>0 DEF InsertNowhere, Typed, Script, Budget
<1>6. CASE Commit
  BY <1>6, EndsStep, <1>0 DEF Commit, Typed, Following, Budget
<1>7. CASE CreateTableFails
  BY <1>7, FetchedStep, FaultFacts, <1>0 DEF CreateTableFails
<1>8. CASE ConnectFails
  BY <1>8, FetchedStep, FaultFacts, <1>0 DEF ConnectFails
<1>9. CASE FetchFails
  BY <1>9, FetchedStep, FaultFacts, <1>0 DEF FetchFails
<1>10. CASE InsertFails
  BY <1>10, EndsStep, FaultFacts, <1>0, LoaderAssumption
     DEF InsertFails, Typed, Script, Ids
<1>11. CASE CommitFails
  BY <1>11, EndsStep, FaultFacts, <1>0 DEF CommitFails, Typed, Script
<1>12. CASE Crash
  <2>1. Budget'
    BY <1>12, <1>0, LoaderAssumption DEF Crash, Budget
  <2> QED BY <1>12, <2>1, EndsStep, <1>0 DEF Crash, Typed
<1>13. CASE ApplyLate
  <2>1. Tracker' /\ RowsStay
    BY <1>13, LateStep DEF IInv
  <2> QED BY <1>13, <2>1, SamePending, <1>0 DEF ApplyLate, IInv, Script, Budget
<1>14. CASE UNCHANGED vars
  BY <1>14, FetchedStep, <1>0 DEF vars, Script, Budget
<1> QED BY <1>1, <1>2, <1>3, <1>4, <1>5, <1>6, <1>7, <1>8, <1>9, <1>10,
           <1>11, <1>12, <1>13, <1>14 DEF Next, Work, Failure

\* The inductive invariant holds in every reachable state of the loader.
THEOREM LoaderInvariant == Spec => []IInv
<1>1. IInv /\ [Next]_vars => IInv'
  BY StepInv
<1> QED BY <1>1, InitInv, PTL DEF Spec
-----------------------------------------------------------------------------
(* The theorems                                                            *)

\* Every reachable state of the loader is well typed, and no id belongs to
\* two transactions, whatever fails and whenever the script starts over.
THEOREM LoaderTypeCorrect == Spec => []TypeOK
<1>1. IInv => TypeOK
  BY DEF IInv, Tracker, Typed, Script, Budget, TypeOK, Tables, Present
<1> QED BY <1>1, LoaderInvariant, PTL

\* Whoever reads the table finds the accounts of a transfer funded by rows
\* with smaller ids, for any number of ids, accounts, failures and restarts.
THEOREM TransferAfterFundingAlways == Spec => []TransferAfterFunding
<1>1. IInv => TransferAfterFunding
  BY DEF IInv, Tracker, Funded, TransferAfterFunding, FundRow
<1> QED BY <1>1, LoaderInvariant, PTL

\* A step makes no row visible below another, but for a late COMMIT.
LEMMA UpwardsStep ==
  ASSUME IInv, [Next]_vars
  PROVE  \A i \in Present(rows') \ (Present(rows) \cup Present(orphan)),
            j \in Present(rows) : j < i
<1>1. CASE rows' = rows
  BY <1>1
<1>2. CASE rows' = Merged(rows, open)
  <2>1. Present(rows') = Present(rows) \cup Present(open)
    BY <1>2, MergeFacts DEF IInv, Tracker, Typed
  <2> QED BY <2>1 DEF IInv, Tracker, OpenAbove
<1>3. CASE rows' = Merged(rows, orphan)
  <2>1. Present(rows') = Present(rows) \cup Present(orphan)
    BY <1>3, MergeFacts DEF IInv, Tracker, Typed
  <2> QED BY <2>1
<1>4. \/ rows' = rows \/ rows' = Merged(rows, open)
      \/ rows' = Merged(rows, orphan)
  BY DEF Next, Work, Failure, vars, tracker, CreateTable, TableExists,
         FetchAccounts, FetchTransfers, InsertRecord, InsertNowhere, Commit,
         CreateTableFails, ConnectFails, FetchFails, InsertFails, CommitFails,
         Crash, ApplyLate, RolledBack, Applied, Hanging
<1> QED BY <1>1, <1>2, <1>3, <1>4

\* Rows become visible in the order of their ids, but for a COMMIT that
\* outlives its client: what the producer reads as the order of generation.
THEOREM RowsGrowUpwardsAlways == Spec => RowsGrowUpwards
<1>1. IInv /\ [Next]_vars =>
        [\A i \in Present(rows') \ (Present(rows) \cup Present(orphan)),
            j \in Present(rows) : j < i]_vars
  BY UpwardsStep
<1> QED BY <1>1, LoaderInvariant, PTL DEF Spec, RowsGrowUpwards
=============================================================================
