----------------------------- MODULE MCScripts -----------------------------
(***************************************************************************)
(* Instances of Scripts for TLC.                                           *)
(***************************************************************************)
EXTENDS Scripts

CONSTANTS a, b, c  \* three accounts

\* Two accounts are funded, money moves between them, and on to a third.
MCTx == [i \in Ids |->
  CASE i = 1 -> [kind |-> "fund", iban |-> a]
    [] i = 2 -> [kind |-> "fund", iban |-> b]
    [] i = 3 -> [kind |-> "transfer", from |-> a, to |-> b, amount |-> 3]
    [] i = 4 -> [kind |-> "fund", iban |-> c]
    [] i = 5 -> [kind |-> "transfer", from |-> b, to |-> c, amount |-> 2]]
=============================================================================
