------------------------------ MODULE MCSystem ------------------------------
(* The SEC feed with its first check and the table both wait for, a buffer   *)
(* of one, two lives.                                                        *)
EXTENDS System
=============================================================================
