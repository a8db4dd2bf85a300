------------------------------ MODULE MCBroker ------------------------------
(***************************************************************************)
(* Instances of Broker for TLC: two connections (tabs) of one user and one *)
(* of another, and alerts for the first user.                              *)
(***************************************************************************)
EXTENDS Broker

CONSTANTS alice, bob, a1, a2, b1, m1, m2

MCOwner == [c \in Clients |-> IF c = b1 THEN bob ELSE alice]
MCTo == [m \in Messages |-> alice]

=============================================================================
