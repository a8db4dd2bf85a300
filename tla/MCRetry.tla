------------------------------ MODULE MCRetry ------------------------------
(* The instance that is model-checked: DefaultConfig's 3 retries and factor *)
(* 2, with delays small enough to enumerate, the third of which is capped.  *)
EXTENDS Retry
=============================================================================
