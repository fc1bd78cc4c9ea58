------------------------------ MODULE Accounts ------------------------------
(***************************************************************************)
(* The accounts table of DynamoDB and the two transactional writes that    *)
(* the consumer makes to it (impl DynamoDb in consumer/src/main.rs).       *)
(*                                                                         *)
(* A write is one transact_write_items call: all of it happens, or none.   *)
(***************************************************************************)
EXTENDS Integers, FiniteSets, FiniteSetsExt

CONSTANTS
  Accounts,  \* the ibans
  Funding    \* initial funding of an account

\* What the data of a row deserializes to (the untagged BankTransaction).
Transactions ==
  [kind : {"fund"}, iban : Accounts]
    \cup [kind : {"transfer"}, from : Accounts, to : Accounts, amount : Nat]
    \cup [kind : {"other"}]

ASSUME AccountsAssumption ==
  IsFiniteSet(Accounts) /\ Funding \in Int

VARIABLES
  items,   \* the ibans the table has an item for
  balance  \* their balances; 0 where there is no item

AccountsType ==
  items \subseteq Accounts /\ balance \in [Accounts -> Int]

AccountsInit == items = {} /\ balance = [a \in Accounts |-> 0]

SumOf(b, S) == MapThenSumSet(LAMBDA a : b[a], S)

Total == SumOf(balance, items)

Unchanged == UNCHANGED <<items, balance>>

\* Mutant of Fund: the condition is attribute_exists(iban).
FundExisting(tx) ==
  IF tx.iban \notin items
  THEN Unchanged
  ELSE /\ balance' = [balance EXCEPT ![tx.iban] = Funding]
       /\ UNCHANGED items

\* Put on condition attribute_not_exists(iban); the condition fails for an
\* account that is there, funded before or created by a transfer.
Fund(tx) ==
  IF tx.iban \in items
  THEN Unchanged
  ELSE /\ items' = items \cup {tx.iban}
       /\ balance' = [balance EXCEPT ![tx.iban] = Funding]

\* Mutant of Transfer: two writes, of which the second is not made.
TransferHalf(tx) ==
  /\ items' = items \cup {tx.from}
  /\ balance' = [balance EXCEPT ![tx.from] = @ - tx.amount]

\* Two ADD updates, each of which creates the item it does not find.  The
\* table refuses two updates of one item in a transaction.
Transfer(tx) ==
  IF tx.from = tx.to
  THEN Unchanged
  ELSE /\ items' = items \cup {tx.from, tx.to}
       /\ balance' = [balance EXCEPT ![tx.from] = @ - tx.amount,
                                     ![tx.to] = @ + tx.amount]

\* safe_transaction, when the table answers: data that is neither is dropped.
Apply(tx) ==
  CASE tx.kind = "fund"     -> Fund(tx)
    [] tx.kind = "transfer" -> Transfer(tx)
    [] OTHER                -> Unchanged
=============================================================================
