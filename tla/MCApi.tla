------------------------------- MODULE MCApi -------------------------------
(***************************************************************************)
(* Instances of Api for TLC.  Requests carry no identity and users and     *)
(* passwords are interchangeable, and what is checked is safety, so they   *)
(* may be permuted.                                                        *)
(***************************************************************************)
EXTENDS Api, TLC

Symmetry == Permutations(Requests) \cup Permutations(Users) \cup Permutations(Alerts)
            \cup Permutations(Passwords)

=============================================================================
