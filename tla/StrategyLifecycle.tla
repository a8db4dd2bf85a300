------------------------- MODULE StrategyLifecycle -------------------------
(***************************************************************************)
(* What the life of a strategy's row looks like to the rest of the system: *)
(* created active or paused, switched between the two, deleted for good.   *)
(* The alerter is modelled against these steps, and the API's handlers are *)
(* shown to take no others.                                                *)
(***************************************************************************)
CONSTANT Strategies

VARIABLE strat

Init == strat \in [Strategies -> {"absent", "active", "paused"}]

Exists(s) == strat[s] \in {"active", "paused"}

\* The create handler; is_active is the user's choice.
Create(s) ==
  /\ strat[s] = "absent"
  /\ \E v \in {"active", "paused"} : strat' = [strat EXCEPT ![s] = v]

\* The toggle handler: pause or resume.
Toggle(s) ==
  /\ Exists(s)
  /\ strat' = [strat EXCEPT ![s] = IF @ = "active" THEN "paused" ELSE "active"]

\* DELETE FROM strategies; alerts of the strategy stay, without its id.
Delete(s) ==
  /\ Exists(s)
  /\ strat' = [strat EXCEPT ![s] = "deleted"]

Next == \E s \in Strategies : Create(s) \/ Toggle(s) \/ Delete(s)

Spec == Init /\ [][Next]_strat

=============================================================================
