------------------------------ MODULE MCLoader ------------------------------
(***************************************************************************)
(* Instances of Loader for TLC.                                            *)
(***************************************************************************)
EXTENDS Loader

CONSTANTS a, b  \* two accounts
=============================================================================
