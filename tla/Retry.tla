------------------------------- MODULE Retry -------------------------------
(***************************************************************************)
(* retry.Do: one call of it, with the context of its caller and the        *)
(* operation it repeats.  Every call to OpenAI and Qdrant made by the      *)
(* workers goes through it.                                                *)
(***************************************************************************)
EXTENDS Naturals, Sequences

CONSTANTS
  MaxRetries,
  BaseDelay,  \* in a unit of the model's choice
  MaxDelay,
  Multiplier

ASSUME RetryAssumption ==
  /\ MaxRetries \in Nat
  /\ BaseDelay \in Nat
  /\ MaxDelay \in Nat
  /\ Multiplier \in Nat \ {0}

VARIABLES
  pc,         \* "check" the context, "call" fn, "backoff" or "returned"
  attempt,
  outcomes,   \* what the calls of fn returned so far, "ok" or "error"
  wait,       \* how long the latest backoff lasts
  done,       \* the context is cancelled or past its deadline
  late,       \* how many calls of fn returned after that
  result      \* what Do returned

vars == <<pc, attempt, outcomes, wait, done, late, result>>

TypeOK ==
  /\ pc \in {"check", "call", "backoff", "returned"}
  /\ attempt \in 0..MaxRetries
  /\ outcomes \in Seq({"ok", "error"})
  /\ Len(outcomes) = attempt + (IF pc \in {"check", "call"} \/ result = "cancelled early"
                                THEN 0 ELSE 1)
  /\ wait \in 0..MaxDelay
  /\ done \in BOOLEAN
  /\ late \in Nat
  /\ result \in {"none", "ok", "exhausted", "cancelled", "cancelled early"}
  /\ pc = "returned" <=> result # "none"

Init ==
  /\ pc = "check"
  /\ attempt = 0
  /\ outcomes = <<>>
  /\ wait = 0
  /\ done \in BOOLEAN
  /\ late = 0
  /\ result = "none"

\* The deadline passes, or the program is told to stop.
ContextDone ==
  /\ ~done
  /\ pc # "returned"
  /\ done' = TRUE
  /\ UNCHANGED <<pc, attempt, outcomes, wait, late, result>>

Return(r) ==
  /\ pc' = "returned"
  /\ result' = r

\* Variant: the context is looked at before the first attempt only.
CheckFirst ==
  /\ pc = "check"
  /\ IF done /\ attempt = 0
     THEN Return("cancelled early")
     ELSE pc' = "call" /\ UNCHANGED result
  /\ UNCHANGED <<attempt, outcomes, wait, done, late>>

\* ctx.Err() at the head of the loop.
Check ==
  /\ pc = "check"
  /\ IF done
     THEN Return("cancelled early")
     ELSE pc' = "call" /\ UNCHANGED result
  /\ UNCHANGED <<attempt, outcomes, wait, done, late>>

\* Variant: the cap on the delay is forgotten.
UncappedDelay(n) == BaseDelay * Multiplier^n

\* The delay after attempt n, before jitter.
Delay(n) ==
  LET delay == BaseDelay * Multiplier^n
  IN IF delay > MaxDelay THEN MaxDelay ELSE delay

\* Variant: a jitter between nothing and the whole delay.
FullJitter(delay) == 0..delay

\* Between 50% and 100% of the delay.
Jitter(delay) == {j \in 0..delay : 2 * j >= delay}

\* fn was called and returns: on success so does Do.
CallOK ==
  /\ pc = "call"
  /\ outcomes' = Append(outcomes, "ok")
  /\ late' = late + (IF done THEN 1 ELSE 0)
  /\ Return("ok")
  /\ UNCHANGED <<attempt, wait, done>>

\* Variant: the test for the last attempt is off by one.
CallFailsOneMore ==
  /\ pc = "call"
  /\ outcomes' = Append(outcomes, "error")
  /\ late' = late + (IF done THEN 1 ELSE 0)
  /\ IF attempt > MaxRetries
     THEN Return("exhausted") /\ UNCHANGED wait
     ELSE /\ pc' = "backoff"
          /\ wait' \in Jitter(Delay(attempt))
          /\ UNCHANGED result
  /\ UNCHANGED <<attempt, done>>

\* fn fails: Do gives up after the last attempt, or backs off.
CallFails ==
  /\ pc = "call"
  /\ outcomes' = Append(outcomes, "error")
  /\ late' = late + (IF done THEN 1 ELSE 0)
  /\ IF attempt = MaxRetries
     THEN Return("exhausted") /\ UNCHANGED wait
     ELSE /\ pc' = "backoff"
          /\ wait' \in Jitter(Delay(attempt))
          /\ UNCHANGED result
  /\ UNCHANGED <<attempt, done>>

\* Variant: the timer is stopped by mistake, and only the context ends the wait.
WokenByContext ==
  /\ pc = "backoff"
  /\ done
  /\ pc' = "check"
  /\ attempt' = attempt + 1
  /\ UNCHANGED <<outcomes, wait, done, late, result>>

\* The timer of the select fires.  When the context is done as well, select
\* may choose either.
Woken ==
  /\ pc = "backoff"
  /\ pc' = "check"
  /\ attempt' = attempt + 1
  /\ UNCHANGED <<outcomes, wait, done, late, result>>

Interrupted ==
  /\ pc = "backoff"
  /\ done
  /\ Return("cancelled")
  /\ UNCHANGED <<attempt, outcomes, wait, done, late>>

Step == Check \/ CallOK \/ CallFails \/ Woken \/ Interrupted

Next == Step \/ ContextDone

Spec == Init /\ [][Next]_vars

\* Every call of fn returns: HTTP and gRPC calls are given the context, and the
\* contexts the program passes have a deadline.
FairSpec == Spec /\ WF_vars(Step)

-----------------------------------------------------------------------------
(* Properties *)

Errors == \A i \in DOMAIN outcomes : outcomes[i] = "error"

\* Do returns nil exactly when a call of fn succeeded, and then that call was
\* the last: nothing that succeeded is repeated.  It gives up only after
\* MaxRetries + 1 failures, or when the context is done.
HonestResult ==
  /\ result = "ok" => /\ outcomes[Len(outcomes)] = "ok"
                      /\ \A i \in 1..(Len(outcomes) - 1) : outcomes[i] = "error"
  /\ result # "ok" => Errors
  /\ result = "exhausted" => Len(outcomes) = MaxRetries + 1
  /\ result \in {"cancelled", "cancelled early"} => done

\* However the deadline falls between the steps of the loop and whatever the
\* select chooses, at most one call of fn ends after the context is done: the
\* one that was under way, or whose check came just before.
AtMostOneLate == late <= 1

\* A backoff is as long as the one before it at least, until the cap is
\* reached: half of the next delay is no less than the whole of this one.
BackoffGrows ==
  [][pc = "call" /\ pc' = "backoff" => wait' >= wait \/ 2 * wait' >= MaxDelay]_vars

\* Do returns.
Returns == <>(pc = "returned")

\* README: "exponential backoff (3 attempts, jitter, context-aware)".
ThreeAttempts == Len(outcomes) <= 3

=============================================================================
