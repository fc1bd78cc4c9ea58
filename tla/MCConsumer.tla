----------------------------- MODULE MCConsumer -----------------------------
(***************************************************************************)
(* Instances of Consumer for TLC.                                          *)
(***************************************************************************)
EXTENDS Consumer, TLC

CONSTANTS a, b  \* two accounts

\* What the rows carry: the funding of one account, and a transfer from it to
\* one that is not there yet.  On two topics the transfer can come first.
MCTx == [i \in Ids |->
  CASE i = 1 -> [kind |-> "fund", iban |-> a]
    [] i = 2 -> [kind |-> "transfer", from |-> a, to |-> b, amount |-> 3]]

\* Tasks differ by name only.
Symmetry == Permutations(Tasks)
=============================================================================
