----------------------------- MODULE MCPipeline -----------------------------
(***************************************************************************)
(* Instances of Pipeline for TLC: the pollers, workers and deliveries are  *)
(* model values given in the configurations.                               *)
(***************************************************************************)
EXTENDS Pipeline

=============================================================================
