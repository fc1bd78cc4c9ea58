------------------------------ MODULE MCDrain ------------------------------
(***************************************************************************)
(* Instances of Drain for TLC; what the rows carry is that of MCPipeline.  *)
(***************************************************************************)
EXTENDS Drain, MCPipeline
=============================================================================
