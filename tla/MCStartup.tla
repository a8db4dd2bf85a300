----------------------------- MODULE MCStartup -----------------------------
(* The instance that is model-checked: a key of 32 bytes, and one of the 29 *)
(* that .env.example has; two outages.                                      *)
EXTENDS Startup
=============================================================================
