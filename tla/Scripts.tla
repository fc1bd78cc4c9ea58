------------------------------ MODULE Scripts ------------------------------
(***************************************************************************)
(* eventually_ibans_match.py of the test composer, which compares the      *)
(* accounts in DynamoDB with the state-tracker.  It reads one after the    *)
(* other, and the consumer goes on meanwhile: it records a row on the      *)
(* state-tracker and then applies it (Consumer), the rows of the two       *)
(* topics in any order.                                                    *)
(***************************************************************************)
EXTENDS Accounts, Sequences

CONSTANTS
  Ids,        \* the rows
  Tx,         \* Tx[i]: the transaction in the data of row i
  PageSize    \* items that one response to a Scan has room for (1 MB)

ASSUME ScriptsAssumption == Tx \in [Ids -> Transactions] /\ PageSize \in Nat

VARIABLES
  counted,    \* rows with a consumed_timestamp
  applied,    \* rows applied to the accounts
  ddb_ibans,  \* script: the accounts it has read
  dg_ibans,   \* script: the ibans of the state-tracker it has read
  pc,         \* script: the number of its next read
  verdict     \* script: the outcome of its assertion

consumer == <<items, balance, counted, applied>>
script   == <<ddb_ibans, dg_ibans, pc, verdict>>
vars     == <<consumer, script>>

Init ==
  /\ AccountsInit
  /\ counted = {} /\ applied = {}
  /\ ddb_ibans = {} /\ dg_ibans = {} /\ pc = 1 /\ verdict = "none"
-----------------------------------------------------------------------------
(* The consumer                                                            *)

Record(i) ==
  /\ i \notin counted
  /\ counted' = counted \cup {i}
  /\ UNCHANGED <<items, balance, applied, script>>

\* Mutant of ApplyRow: DynamoDB is written before the state-tracker.
ApplyUnrecorded(i) ==
  /\ i \notin applied
  /\ Apply(Tx[i])
  /\ applied' = applied \cup {i}
  /\ UNCHANGED <<counted, script>>

ApplyRow(i) ==
  /\ i \in counted \ applied
  /\ Apply(Tx[i])
  /\ applied' = applied \cup {i}
  /\ UNCHANGED <<counted, script>>
-----------------------------------------------------------------------------
(* The script, which is called again and again                             *)

\* table.scan(), once: LastEvaluatedKey is not looked at.
Pages ==
  IF Cardinality(items) <= PageSize THEN {items} ELSE kSubset(PageSize, items)

\* consumed_timestamp IS NOT NULL AND topic = '_banktest_fund_account'
Funds(S) == {Tx[i].iban : i \in {j \in S : Tx[j].kind = "fund"}}

\* Mutant of Reads: the state-tracker is read before the accounts.
TrackerFirst == <<"state-tracker", "accounts">>

\* What the script reads, in this order.
Reads == <<"accounts", "state-tracker">>

\* A read; after the last, the assertion that the difference is empty.
Read ==
  /\ IF Reads[pc] = "accounts"
     THEN ddb_ibans' \in Pages /\ UNCHANGED dg_ibans
     ELSE dg_ibans' = Funds(counted) /\ UNCHANGED ddb_ibans
  /\ IF pc = Len(Reads)
     THEN /\ verdict' = IF ddb_ibans' \subseteq dg_ibans'
                        THEN "pass" ELSE "fail"
          /\ pc' = 1
     ELSE verdict' = "none" /\ pc' = pc + 1
  /\ UNCHANGED consumer

Next == Read \/ \E i \in Ids : Record(i) \/ ApplyRow(i)

Spec == Init /\ [][Next]_vars
-----------------------------------------------------------------------------
(* Properties                                                              *)

\* Types, and that the consumer is never ahead of what it has recorded.
TypeOK ==
  /\ AccountsType
  /\ applied \subseteq counted /\ counted \subseteq Ids
  /\ ddb_ibans \subseteq Accounts /\ dg_ibans \subseteq Accounts
  /\ pc \in DOMAIN Reads
  /\ verdict \in {"none", "pass", "fail"}

\* README, property 7: when the ibans do not match, there is an account that
\* no consumed row funds; what the consumer does between the two reads cannot
\* make it look so.
IbansFailIsReal ==
  [][verdict = "none" /\ verdict' = "fail"
       => ~(items \subseteq Funds(counted))]_vars
=============================================================================
