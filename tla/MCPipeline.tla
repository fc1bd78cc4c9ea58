----------------------------- MODULE MCPipeline -----------------------------
(***************************************************************************)
(* Instances of Pipeline for TLC.                                          *)
(***************************************************************************)
EXTENDS Pipeline

CONSTANTS a, b  \* two accounts

\* Two accounts are funded, then money moves between them.
MCTx == [i \in Ids |->
  CASE i = 1 -> [kind |-> "fund", iban |-> a]
    [] i = 2 -> [kind |-> "fund", iban |-> b]
    [] i = 3 -> [kind |-> "transfer", from |-> a, to |-> b, amount |-> 3]]
=============================================================================
