--------------------------- MODULE ScriptsProofs ---------------------------
(***************************************************************************)
(* What a failure of eventually_ibans_match.py means, for any rows, any    *)
(* accounts and any size of a page.                                        *)
(*                                                                         *)
(* The accounts and the state-tracker only grow.  So the accounts the      *)
(* script has read first are still there when it reads the state-tracker   *)
(* (ScriptInv); one of them that no consumed row funds then is an account  *)
(* that no consumed row funds.                                             *)
(***************************************************************************)
EXTENDS Scripts, TLAPS

\* What the script has read of the accounts is there, and the consumer has
\* recorded what it applies.
ScriptInv ==
  /\ AccountsType
  /\ applied \subseteq counted /\ counted \subseteq Ids
  /\ ddb_ibans \subseteq items /\ dg_ibans \subseteq Accounts
  /\ pc \in {1, 2}
  /\ verdict \in {"none", "pass", "fail"}

\* The accounts of a transaction are accounts, and its amount is a number.
LEMMA TransactionFacts ==
  ASSUME NEW tx \in Transactions
  PROVE  /\ tx.kind = "fund" => tx.iban \in Accounts
         /\ tx.kind = "transfer" =>
              tx.from \in Accounts /\ tx.to \in Accounts /\ tx.amount \in Nat
BY DEF Transactions

\* A write keeps the type of the table and takes no account out of it.
LEMMA ApplyGrows ==
  ASSUME NEW tx \in Transactions, AccountsType, Apply(tx)
  PROVE  AccountsType' /\ items \subseteq items'
<1> USE AccountsAssumption DEF AccountsType
<1>1. CASE tx.kind = "fund"
  BY <1>1, TransactionFacts DEF Apply, Fund, Unchanged
<1>2. CASE tx.kind = "transfer"
  <2>1. /\ tx.from \in Accounts /\ tx.to \in Accounts /\ tx.amount \in Nat
    BY <1>2, TransactionFacts
  <2>2. Transfer(tx)
    BY <1>2 DEF Apply
  <2>3. CASE tx.from = tx.to
    BY <2>2, <2>3 DEF Transfer, Unchanged
  <2>4. CASE tx.from # tx.to
    BY <2>1, <2>2, <2>4 DEF Transfer
  <2> QED BY <2>3, <2>4
<1>3. CASE tx.kind \notin {"fund", "transfer"}
  BY <1>3 DEF Apply, Unchanged
<1> QED BY <1>1, <1>2, <1>3

\* What the state-tracker tells the script is a set of accounts.
LEMMA FundsAreAccounts ==
  ASSUME NEW S, S \subseteq Ids
  PROVE  Funds(S) \subseteq Accounts
BY ScriptsAssumption, TransactionFacts DEF Funds

\* A page has items of the table only.
LEMMA PageOfItems == ASSUME NEW p \in Pages PROVE p \subseteq items
BY DEF Pages, kSubset

\* One step of the consumer or of the script.
LEMMA ScriptStep == ScriptInv /\ [Next]_vars => ScriptInv'
<1> SUFFICES ASSUME ScriptInv, [Next]_vars PROVE ScriptInv'
  OBVIOUS
<1> USE DEF ScriptInv
<1>1. ASSUME NEW i \in Ids, Record(i) PROVE ScriptInv'
  BY <1>1 DEF Record, script, AccountsType
<1>2. ASSUME NEW i \in Ids, ApplyRow(i) PROVE ScriptInv'
  <2>1. AccountsType' /\ items \subseteq items'
    BY <1>2, ApplyGrows, ScriptsAssumption DEF ApplyRow
  <2> QED BY <1>2, <2>1 DEF ApplyRow, script
<1>3. CASE Read
  <2>1. /\ UNCHANGED consumer
        /\ AccountsType'
    BY <1>3 DEF Read, consumer, AccountsType
  <2>2. ddb_ibans' \subseteq items /\ dg_ibans' \subseteq Accounts
    BY <1>3, PageOfItems, FundsAreAccounts DEF Read
  <2>3. pc' \in {1, 2} /\ verdict' \in {"none", "pass", "fail"}
    BY <1>3 DEF Read, Reads
  <2> QED BY <2>1, <2>2, <2>3 DEF consumer
<1>4. CASE UNCHANGED vars
  BY <1>4 DEF vars, consumer, script, AccountsType
<1> QED BY <1>1, <1>2, <1>3, <1>4 DEF Next

\* The invariant holds in every state.
THEOREM ScriptInvariant == Spec => []ScriptInv
<1>1. Init => ScriptInv
  BY AccountsAssumption
  DEF Init, AccountsInit, ScriptInv, AccountsType
<1> QED BY <1>1, ScriptStep, PTL DEF Spec

\* Type correctness of the accounts, the state-tracker and the script.
THEOREM ScriptTypeCorrect == Spec => []TypeOK
<1>1. ScriptInv => TypeOK
  BY DEF ScriptInv, TypeOK, AccountsType, Reads
<1> QED BY <1>1, ScriptInvariant, PTL

\* README, property 7: a failure of the script proves an account that no
\* consumed row funds, wherever the consumer is between its two reads.
THEOREM IbansFailIsRealAlways == Spec => IbansFailIsReal
<1>1. ASSUME ScriptInv, [Next]_vars, verdict = "none", verdict' = "fail"
      PROVE  ~(items \subseteq Funds(counted))
  <2>1. Read
    BY <1>1 DEF Next, vars, script, Record, ApplyRow
  <2>2. pc = 2 /\ Reads[pc] = "state-tracker"
    BY <1>1, <2>1 DEF Read, Reads, ScriptInv
  <2>3. /\ ddb_ibans' = ddb_ibans /\ dg_ibans' = Funds(counted)
        /\ ~(ddb_ibans' \subseteq dg_ibans')
    BY <1>1, <2>1, <2>2 DEF Read, Reads
  <2> QED BY <1>1, <2>3 DEF ScriptInv
<1> QED BY <1>1, ScriptInvariant, PTL DEF Spec, IbansFailIsReal
=============================================================================
