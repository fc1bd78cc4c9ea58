----------------------------- MODULE MCProducer -----------------------------
(***************************************************************************)
(* Instances of Producer for TLC.                                          *)
(***************************************************************************)
EXTENDS Producer, TLC

\* Tasks differ by name only.
Symmetry == Permutations(Tasks)
=============================================================================
