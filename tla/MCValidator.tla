---------------------------- MODULE MCValidator ----------------------------
(***************************************************************************)
(* Instances of Validator for TLC.  One id more than updates, or one       *)
(* update more than ids, is enough for a row that is left out and one that *)
(* is consumed twice.                                                      *)
(***************************************************************************)
EXTENDS Validator
=============================================================================
