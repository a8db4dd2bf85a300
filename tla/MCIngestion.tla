---------------------------- MODULE MCIngestion ----------------------------
(* The SEC feed: a loop and the goroutine of the first check.  A feed that *)
(* shows two items while three are published makes the cursor leave it.     *)
EXTENDS Ingestion
=============================================================================
