------------------------------- MODULE Loader -------------------------------
(***************************************************************************)
(* The loader (src/data-generator/pgsql_client.py), and the script that    *)
(* calls it (pgsql_ep.sh) with DATA_TYPE = _banktest_transaction.          *)
(*                                                                         *)
(* The script creates the table, loads a batch of funded accounts, and     *)
(* then alternates between a batch of transfers and a batch of accounts.   *)
(* Each of these is a process of its own, with its own connection and one  *)
(* database transaction.  An exception ends the process, and set -e then   *)
(* ends the script.  The script runs again when its container is started   *)
(* again.                                                                  *)
(***************************************************************************)
EXTENDS Integers, Sequences

CONSTANTS
  MaxId,      \* bound on the ids of the identity column
  Accounts,   \* the ibans the data generator comes up with
  BatchSize,  \* records in a batch
  Failures,   \* the kinds of failure that may happen, of FailureKinds
  MaxFaults,  \* bound on their number
  MaxCrashes  \* bound on restarts of the container

FailureKinds == {
  "connect",  \* the state-tracker refuses the connection of a process
  "schema",   \* CREATE TABLE fails for another reason than the table
  "request",  \* the data generator does not answer, or not with 200
  "accounts", \* the query of get_bank_accounts fails
  "insert",   \* an INSERT fails
  "commit",   \* the COMMIT of a batch reports an error, applied or not
  "late"}     \* the server applies a COMMIT after its client is gone

ASSUME LoaderAssumption ==
  /\ MaxId \in Nat /\ BatchSize \in Nat \ {0}
  /\ MaxFaults \in Nat /\ MaxCrashes \in Nat
  /\ Failures \subseteq FailureKinds

Ids == 1 .. MaxId

\* What is in the columns topic and data of a row.
Records ==
  [topic : {"_banktest_fund_account"}, iban : Accounts]
    \cup [topic : {"_banktest_transaction"}, from : Accounts, to : Accounts]

NoRow == [topic |-> "none"]

VARIABLES
  table,    \* state-tracker: the table exists
  rows,     \* state-tracker: the committed row of an id, or NoRow
  nextId,   \* state-tracker: the identity column's next value
  open,     \* state-tracker: the rows inserted by the open transaction
  orphan,   \* state-tracker: the same, of a COMMIT whose client is gone
  pc,       \* where the script stands, in its loop and in the process it runs
  turn,     \* the DATA_TYPE of the process
  pending,  \* the records of the process that are not inserted yet
  crashes,  \* restarts so far
  faults    \* failures so far

tracker == <<table, rows, nextId, open, orphan>>
script  == <<pc, turn, pending>>
budget  == <<crashes, faults>>
vars    == <<tracker, script, budget>>

Nothing == [i \in Ids |-> NoRow]

Init ==
  /\ table = FALSE /\ nextId = 1
  /\ rows = Nothing /\ open = Nothing /\ orphan = Nothing
  /\ pc = "schema" /\ turn = "_banktest_fund_account" /\ pending = << >>
  /\ crashes = 0 /\ faults = 0
-----------------------------------------------------------------------------
(* Helpers                                                                 *)

Fault(kind) ==
  /\ kind \in Failures /\ faults < MaxFaults
  /\ faults' = faults + 1
  /\ UNCHANGED crashes

Present(t) == {i \in Ids : t[i] # NoRow}

\* The table t once the rows of transaction s are in it.
Merged(t, s) == [i \in Ids |-> IF s[i] # NoRow THEN s[i] ELSE t[i]]

\* The accounts funded by rows of table t.
Ibans(t) == {t[i].iban : i \in
               {j \in Present(t) : t[j].topic = "_banktest_fund_account"}}

\* Mutant of KnownAccounts: the generator comes up with accounts of its own,
\* as in the lines of base.py that are commented out.
AnyAccounts == Accounts

\* get_bank_accounts: what other transactions have not committed is not seen.
KnownAccounts == Ibans(rows)

Following(t) == IF t = "_banktest_fund_account"
                THEN "_banktest_transaction" ELSE "_banktest_fund_account"

\* Mutant of Applied: the transaction goes on after its COMMIT.
StillOpen == rows' = Merged(rows, open) /\ UNCHANGED <<open, orphan>>

\* What the server does with an open transaction at its COMMIT or when its
\* client is gone.
RolledBack == open' = Nothing /\ UNCHANGED <<rows, orphan>>

Applied == open' = Nothing /\ rows' = Merged(rows, open) /\ UNCHANGED orphan

Hanging ==
  /\ "late" \in Failures /\ Present(orphan) = {}
  /\ open' = Nothing /\ orphan' = open /\ UNCHANGED rows

\* An exception is not caught: the process ends, and the script with it.
Exit == pc' = "exited" /\ pending' = << >> /\ UNCHANGED turn
-----------------------------------------------------------------------------
(* create_schema                                                           *)

\* Mutant of TableExists: the error is not caught.
TableExistsRaises ==
  /\ pc = "schema" /\ table
  /\ Exit
  /\ UNCHANGED <<tracker, budget>>

\* The table exists since an earlier start: the error is caught and printed.
TableExists ==
  /\ pc = "schema" /\ table
  /\ pc' = "fetch"
  /\ UNCHANGED <<tracker, turn, pending, budget>>

CreateTable ==
  /\ pc = "schema" /\ ~table
  /\ table' = TRUE
  /\ pc' = "fetch"
  /\ UNCHANGED <<rows, nextId, open, orphan, turn, pending, budget>>

\* Any other error of the database is caught as well.
CreateTableFails ==
  /\ pc = "schema" /\ ~table
  /\ pc' = "fetch"
  /\ Fault("schema")
  /\ UNCHANGED <<tracker, turn, pending>>

\* psycopg2.connect raises, in the constructor of faker_pgsql.
ConnectFails ==
  /\ pc \in {"schema", "fetch"}
  /\ Exit
  /\ Fault("connect")
  /\ UNCHANGED tracker
-----------------------------------------------------------------------------
(* fetch_and_save                                                          *)

Batch(S) == [1 .. BatchSize -> S]

\* get_faker_data for accounts.
FetchAccounts ==
  /\ pc = "fetch" /\ turn = "_banktest_fund_account"
  /\ \E ibans \in Batch(Accounts) :
       pending' = [n \in 1 .. BatchSize |-> [topic |-> turn, iban |-> ibans[n]]]
  /\ pc' = "insert"
  /\ UNCHANGED <<tracker, turn, budget>>

\* get_faker_data for transfers: both ends are drawn from the known accounts.
FetchTransfers ==
  /\ pc = "fetch" /\ turn = "_banktest_transaction"
  /\ table /\ KnownAccounts # {}
  /\ \E ends \in Batch(KnownAccounts \X KnownAccounts) :
       pending' = [n \in 1 .. BatchSize |->
                     [topic |-> turn, from |-> ends[n][1], to |-> ends[n][2]]]
  /\ pc' = "insert"
  /\ UNCHANGED <<tracker, turn, budget>>

\* The request of either fails; or get_bank_accounts finds nothing because
\* its query failed, and get_faker_data raises.
FetchFails ==
  /\ pc = "fetch"
  /\ Exit
  /\ Fault("request") \/ (turn = "_banktest_transaction" /\ Fault("accounts"))
  /\ UNCHANGED tracker

\* Mutant of InsertRecord: the ids come with the records.
InsertWithId ==
  /\ pc = "insert" /\ pending # << >>
  /\ table /\ nextId \in Ids
  /\ \E i \in Ids \ (Present(rows) \cup Present(open) \cup Present(orphan)) :
       open' = [open EXCEPT ![i] = Head(pending)]
  /\ nextId' = nextId + 1
  /\ pending' = Tail(pending)
  /\ UNCHANGED <<table, rows, orphan, pc, turn, budget>>

\* _insert_record: the id is drawn whether or not the row is ever committed.
InsertRecord ==
  /\ pc = "insert" /\ pending # << >>
  /\ table /\ nextId \in Ids
  /\ open' = [open EXCEPT ![nextId] = Head(pending)]
  /\ nextId' = nextId + 1
  /\ pending' = Tail(pending)
  /\ UNCHANGED <<table, rows, orphan, pc, turn, budget>>

\* The table is missing, as CREATE TABLE failed: the INSERT raises.
InsertNowhere ==
  /\ pc = "insert" /\ pending # << >>
  /\ ~table
  /\ RolledBack
  /\ Exit
  /\ UNCHANGED <<table, nextId, budget>>

\* An INSERT raises, before or after the id is drawn: the connection is
\* closed and the server rolls the batch back.
InsertFails ==
  /\ pc = "insert" /\ pending # << >>
  /\ table /\ nextId \in Ids
  /\ nextId' \in {nextId, nextId + 1}
  /\ RolledBack
  /\ Exit
  /\ Fault("insert")
  /\ UNCHANGED table

Commit ==
  /\ pc = "insert" /\ pending = << >>
  /\ Applied
  /\ pc' = "fetch" /\ turn' = Following(turn)
  /\ UNCHANGED <<table, nextId, pending, budget>>

CommitFails ==
  /\ pc = "insert" /\ pending = << >>
  /\ RolledBack \/ Applied \/ Hanging
  /\ Exit
  /\ Fault("commit")
  /\ UNCHANGED <<table, nextId>>
-----------------------------------------------------------------------------
(* The environment                                                         *)

\* The container is killed and started again; pgsql_ep.sh starts over.
Crash ==
  /\ crashes < MaxCrashes
  /\ crashes' = crashes + 1
  /\ \/ RolledBack
     \/ pc = "insert" /\ pending = << >> /\ (Applied \/ Hanging)
  /\ pc' = "schema" /\ turn' = "_banktest_fund_account" /\ pending' = << >>
  /\ UNCHANGED <<table, nextId, faults>>

\* The server is done with the COMMIT whose client is gone.
ApplyLate ==
  /\ Present(orphan) # {}
  /\ orphan' = Nothing
  /\ rows' = Merged(rows, orphan)
  /\ UNCHANGED <<table, nextId, open, script, budget>>
-----------------------------------------------------------------------------
(* The specification                                                       *)

\* Steps of the script that need no failure.
Work ==
  \/ CreateTable \/ TableExists \/ FetchAccounts \/ FetchTransfers
  \/ InsertRecord \/ InsertNowhere \/ Commit

Failure ==
  \/ CreateTableFails \/ ConnectFails \/ FetchFails \/ InsertFails
  \/ CommitFails

Next == Work \/ Failure \/ Crash \/ ApplyLate

Spec == Init /\ [][Next]_vars
FairSpec == Spec /\ WF_vars(Work)
-----------------------------------------------------------------------------
(* Properties                                                              *)

\* Types, and that the open transaction, the late one and the table have
\* no id in common and none that has not been drawn.
TypeOK ==
  /\ table \in BOOLEAN
  /\ \A t \in {rows, open, orphan} :
       /\ t \in [Ids -> Records \cup {NoRow}]
       /\ \A i \in Present(t) : i < nextId
  /\ Present(rows) \cap Present(open) = {}
  /\ Present(orphan) \cap (Present(rows) \cup Present(open)) = {}
  /\ nextId \in 1 .. MaxId + 1
  /\ pc \in {"schema", "fetch", "insert", "exited"}
  /\ turn \in {"_banktest_fund_account", "_banktest_transaction"}
  /\ pending \in Seq(Records) /\ Len(pending) <= BatchSize
  /\ crashes \in 0 .. MaxCrashes /\ faults \in 0 .. MaxFaults

\* get_faker_data, "search for accounts first in the state tracker": whoever
\* reads the table finds the accounts of a transfer funded by rows with
\* smaller ids, also after failures, restarts and late commits.
TransferAfterFunding ==
  \A i \in Present(rows) :
    rows[i].topic = "_banktest_transaction" =>
      \A a \in {rows[i].from, rows[i].to} :
        \E j \in Present(rows) : j < i /\ rows[j] =
          [topic |-> "_banktest_fund_account", iban |-> a]

\* README, property 5, on the side of the loader: the order of the ids, which
\* safe_get_unproduced_data (ORDER BY id ASC) takes for the order of
\* generation, is the order in which rows become visible, failures and
\* restarts included.  The one exception is a COMMIT that outlives its client.
RowsGrowUpwards ==
  [][\A i \in Present(rows') \ (Present(rows) \cup Present(orphan)),
       j \in Present(rows) : j < i]_vars

\* README, "continuously requests batches from the data generator and saves
\* them": the table is filled up, whatever an earlier start left behind,
\* unless a call has failed and ended the script.
LoadingGoesOn == <>(nextId > MaxId \/ (pc = "exited" /\ faults > 0))
=============================================================================
