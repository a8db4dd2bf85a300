---------------------------- MODULE RetryProofs ----------------------------
(* retry.Do is type-correct, honest about its result, starts at most one    *)
(* call too late, and backs off for longer and longer, for any number of    *)
(* retries, base delay and cap.                                             *)
EXTENDS Retry, Integers, FiniteSetTheorems, FunctionTheorems, TLAPS

\* A jittered delay stays below the cap, whatever the attempt.
LEMMA JitterBounded ==
  ASSUME NEW n \in Nat, NEW j \in Jitter(Delay(n))
  PROVE  j \in 0..MaxDelay
<1> DEFINE delay == BaseDelay * Multiplier^n
<1>1. MaxDelay \in Nat
  BY RetryAssumption
<1>2. CASE delay > MaxDelay
  <2>1. Delay(n) = MaxDelay
    BY <1>2 DEF Delay
  <2> QED
    BY <2>1 DEF Jitter
<1>3. CASE ~(delay > MaxDelay)
  <2>1. Delay(n) = delay
    BY <1>3 DEF Delay
  <2>2. delay \in Int
    BY RetryAssumption
  <2> HIDE DEF delay
  <2>3. j \in 0..delay
    BY <2>1 DEF Jitter
  <2> QED
    BY <1>1, <1>3, <2>2, <2>3
<1> QED
  BY <1>2, <1>3

-----------------------------------------------------------------------------
(* The invariant: a backoff is never begun after the last attempt; what has *)
(* been returned fits what the calls returned; and a call that ended late   *)
(* leaves the context done, so that no check lets another one begin.        *)

Reported ==
  /\ pc # "returned" => Errors
  /\ HonestResult

Punctual ==
  /\ late <= 1
  /\ late > 0 => done
  /\ pc = "call" => late = 0

Inv ==
  /\ TypeOK
  /\ pc = "backoff" => attempt < MaxRetries
  /\ Reported
  /\ Punctual

THEOREM InitInv == Init => Inv
BY RetryAssumption DEF Init, Inv, TypeOK, Reported, Punctual, HonestResult, Errors

LEMMA CheckInv == Inv /\ Check => Inv'
<1> SUFFICES ASSUME Inv, Check PROVE Inv'
  OBVIOUS
<1>1. pc = "check" /\ UNCHANGED <<attempt, outcomes, wait, done, late>>
  BY DEF Check
<1>2. CASE done
  <2>1. pc' = "returned" /\ result' = "cancelled early"
    BY <1>2 DEF Check, Return
  <2>2. TypeOK'
    BY <1>1, <2>1 DEF Inv, TypeOK
  <2>3. Reported' /\ Punctual'
    BY <1>1, <1>2, <2>1 DEF Inv, Reported, Punctual, HonestResult, Errors
  <2> QED
    BY <2>1, <2>2, <2>3 DEF Inv
<1>3. CASE ~done
  <2>1. pc' = "call" /\ result' = result
    BY <1>3 DEF Check
  <2>2. TypeOK'
    BY <1>1, <2>1 DEF Inv, TypeOK
  <2>3. Reported' /\ Punctual'
    BY <1>1, <1>3, <2>1 DEF Inv, TypeOK, Reported, Punctual, HonestResult, Errors
  <2> QED
    BY <2>1, <2>2, <2>3 DEF Inv
<1> QED
  BY <1>2, <1>3

\* A failure is appended to failures.
LEMMA CallFailsInv == Inv /\ CallFails => Inv'
<1> SUFFICES ASSUME Inv, CallFails PROVE Inv'
  OBVIOUS
<1> USE RetryAssumption
<1>1. outcomes \in Seq({"ok", "error"}) /\ outcomes' = Append(outcomes, "error")
  BY DEF Inv, TypeOK, CallFails
<1>2. outcomes' \in Seq({"ok", "error"}) /\ Len(outcomes') = Len(outcomes) + 1
  BY <1>1
<1>3. wait' \in 0..MaxDelay
  BY JitterBounded DEF Inv, TypeOK, CallFails
<1>4. /\ late' \in Nat
      /\ UNCHANGED <<attempt, done>>
      /\ \/ pc' = "returned" /\ result' = "exhausted" /\ attempt = MaxRetries
         \/ pc' = "backoff" /\ result' = result /\ attempt < MaxRetries
  BY DEF Inv, TypeOK, CallFails, Return
<1>5. Errors'
  BY <1>1 DEF Inv, Reported, CallFails, Errors
<1>6. Len(outcomes') = attempt + 1
  BY <1>2 DEF Inv, TypeOK, CallFails
<1>10. TypeOK'
  <2>1. pc' \notin {"check", "call"} /\ result' # "cancelled early"
    BY <1>4 DEF Inv, TypeOK, CallFails
  <2>2. Len(outcomes') = attempt' + (IF pc' \in {"check", "call"} \/ result' = "cancelled early"
                                     THEN 0 ELSE 1)
    BY <2>1, <1>4, <1>6
  <2>3. pc' = "returned" <=> result' # "none"
    BY <1>4 DEF Inv, TypeOK, CallFails
  <2> QED
    BY <1>2, <1>3, <1>4, <2>2, <2>3 DEF Inv, TypeOK
<1>7. Reported'
  BY <1>5, <1>6 DEF Inv, TypeOK, Reported, HonestResult, CallFails, Return
<1>8. Punctual'
  BY <1>4 DEF Inv, TypeOK, Punctual, CallFails
<1>9. pc' = "backoff" => attempt' < MaxRetries
  BY DEF Inv, TypeOK, CallFails, Return
<1> QED
  BY <1>7, <1>8, <1>9, <1>10 DEF Inv

\* A success is appended to failures and ends the loop.
LEMMA CallOKInv == Inv /\ CallOK => Inv'
<1> SUFFICES ASSUME Inv, CallOK PROVE Inv'
  OBVIOUS
<1> USE RetryAssumption
<1>1. outcomes \in Seq({"ok", "error"}) /\ outcomes' = Append(outcomes, "ok")
  BY DEF Inv, TypeOK, CallOK
<1>2. /\ outcomes' \in Seq({"ok", "error"})
      /\ Len(outcomes') = Len(outcomes) + 1
      /\ outcomes'[Len(outcomes')] = "ok"
      /\ \A i \in 1..(Len(outcomes') - 1) : outcomes'[i] = outcomes[i]
  BY <1>1
<1>3. TypeOK'
  BY <1>2 DEF Inv, TypeOK, CallOK, Return
<1>4. \A i \in 1..(Len(outcomes') - 1) : outcomes'[i] = "error"
  <2>1. Errors
    BY DEF Inv, Reported, CallOK
  <2>2. \A i \in 1..Len(outcomes) : outcomes[i] = "error"
    BY <1>1, <2>1 DEF Errors
  <2>3. Len(outcomes') - 1 = Len(outcomes)
    BY <1>1, <1>2
  <2> QED
    BY <1>2, <2>2, <2>3
<1>5. Reported'
  BY <1>2, <1>4 DEF Inv, Reported, HonestResult, CallOK, Return
<1>6. Punctual'
  BY DEF Inv, TypeOK, Punctual, CallOK, Return
<1> QED
  BY <1>3, <1>5, <1>6 DEF Inv, CallOK, Return

\* The other steps leave the outcomes alone.
LEMMA OthersInv == Inv /\ (Woken \/ Interrupted \/ ContextDone \/ UNCHANGED vars) => Inv'
<1> SUFFICES ASSUME Inv, Woken \/ Interrupted \/ ContextDone \/ UNCHANGED vars
             PROVE  Inv'
  OBVIOUS
<1> USE RetryAssumption DEF Inv, TypeOK, Reported, Punctual, HonestResult, Errors
<1>1. CASE Woken
  BY <1>1 DEF Woken
<1>2. CASE Interrupted
  BY <1>2 DEF Interrupted, Return
<1>3. CASE ContextDone
  BY <1>3 DEF ContextDone
<1>4. CASE UNCHANGED vars
  BY <1>4 DEF vars
<1> QED
  BY <1>1, <1>2, <1>3, <1>4

THEOREM Invariance == Spec => []Inv
<1>1. Inv /\ [Next]_vars => Inv'
  BY CheckInv, CallFailsInv, CallOKInv, OthersInv DEF Next, Step
<1> QED
  BY InitInv, <1>1, PTL DEF Spec

-----------------------------------------------------------------------------
\* TypeOK, with the length of the outcomes tied to the attempt.
THEOREM TypeCorrect == Spec => []TypeOK
<1>1. Inv => TypeOK
  BY DEF Inv
<1> QED
  BY Invariance, <1>1, PTL

\* HonestResult: nil exactly after a success, which is never repeated.
THEOREM HonestResultHolds == Spec => []HonestResult
<1>1. Inv => HonestResult
  BY DEF Inv, Reported
<1> QED
  BY Invariance, <1>1, PTL

\* AtMostOneLate: no second call of fn after the context is done.
THEOREM AtMostOneLateHolds == Spec => []AtMostOneLate
<1>1. Inv => AtMostOneLate
  BY DEF Inv, Punctual, AtMostOneLate
<1> QED
  BY Invariance, <1>1, PTL

-----------------------------------------------------------------------------
(* Powers of two.  The provers have no laws of powers, but the library has  *)
(* the number of subsets of a finite set.                                   *)

\* One more element doubles the number of subsets.
LEMMA Doubling ==
  ASSUME NEW n \in Nat
  PROVE  2^n \in Nat /\ 2^(n + 1) = 2 * 2^n
<1> DEFINE S == 1..n
           x == n + 1
           A == SUBSET S
           B == (SUBSET (S \cup {x})) \ A
           f == [X \in A |-> X \cup {x}]
<1>1. /\ IsFiniteSet(S) /\ Cardinality(S) = n
      /\ IsFiniteSet(S \cup {x}) /\ Cardinality(S \cup {x}) = n + 1
  <2>1. IsFiniteSet(S) /\ Cardinality(S) = n
    BY FS_Interval
  <2>2. x \notin S
    OBVIOUS
  <2> QED
    BY <2>1, <2>2, FS_AddElement
<1>2. x \notin S
  OBVIOUS
<1> HIDE DEF S, x
<1>3. f \in Bijection(A, B)
  <2>1. ASSUME NEW X \in A PROVE X \cup {x} \in B
    <3>1. X \cup {x} \in SUBSET (S \cup {x})
      OBVIOUS
    <3>2. x \in X \cup {x}
      OBVIOUS
    <3>3. X \cup {x} \notin A
      BY <1>2, <3>2
    <3> QED
      BY <3>1, <3>3
  <2>2. \A X, Y \in A : f[X] = f[Y] => X = Y
    BY <1>2
  <2>3. \A Y \in B : \E X \in A : f[X] = Y
    <3> SUFFICES ASSUME NEW Y \in B PROVE \E X \in A : f[X] = Y
      OBVIOUS
    <3>1. Y \ {x} \in A
      OBVIOUS
    <3>2. x \in Y
      BY <3>1
    <3>3. (Y \ {x}) \cup {x} = Y
      BY <3>2
    <3> QED
      BY <3>1, <3>3
  <2>4. f \in [A -> B]
    BY <2>1
  <2> HIDE DEF f, A, B
  <2> QED
    BY <2>2, <2>3, <2>4, Fun_IsBij
<1>4. A \cup B = SUBSET (S \cup {x}) /\ A \cap B = {}
  <2>1. A \subseteq SUBSET (S \cup {x})
    OBVIOUS
  <2> HIDE DEF A
  <2> QED
    BY <2>1
<1>5. IsFiniteSet(A) /\ Cardinality(A) = 2^n
  BY <1>1, FS_SUBSET
<1>6. Cardinality(A \cup B) = 2^(n + 1)
  <2>1. Cardinality(SUBSET (S \cup {x})) = 2^(n + 1)
    BY <1>1, FS_SUBSET
  <2> QED
    BY <1>4, <2>1
<1> HIDE DEF A, B, f
<1>7. IsFiniteSet(B) /\ Cardinality(B) = Cardinality(A)
  <2>1. ExistsBijection(A, B)
    BY <1>3 DEF ExistsBijection
  <2> QED
    BY <1>5, <2>1, FS_Bijection
<1>8. Cardinality(A \cup B) = Cardinality(A) + Cardinality(B) - Cardinality(A \cap B)
  BY <1>5, <1>7, FS_Union
<1>9. Cardinality(A) \in Nat /\ Cardinality(A \cap B) = 0
  BY <1>4, <1>5, FS_CardinalityType, FS_EmptySet
<1> QED
  BY <1>5, <1>6, <1>7, <1>8, <1>9

\* With factor 2 an uncapped delay is twice the one before it at least.
LEMMA DelayDoubles ==
  ASSUME Multiplier = 2, NEW n \in Nat
  PROVE  /\ Delay(n) \in Nat
         /\ Delay(n + 1) = MaxDelay \/ Delay(n + 1) >= 2 * Delay(n)
<1> DEFINE power == 2^n
           twice == 2^(n + 1)
<1>1. power \in Nat /\ twice = 2 * power
  BY Doubling
<1>2. BaseDelay \in Nat /\ MaxDelay \in Nat
  BY RetryAssumption
<1>3. /\ Delay(n) = IF BaseDelay * power > MaxDelay THEN MaxDelay ELSE BaseDelay * power
      /\ Delay(n + 1) = IF BaseDelay * twice > MaxDelay THEN MaxDelay ELSE BaseDelay * twice
  BY DEF Delay
<1> HIDE DEF power, twice
<1> DEFINE delay == BaseDelay * power
<1>4. delay \in Nat /\ BaseDelay * twice = 2 * delay
  <2>1. BaseDelay * (2 * power) = 2 * (BaseDelay * power)
    BY <1>1, <1>2
  <2> QED
    BY <1>1, <1>2, <2>1
<1>5. /\ Delay(n) = IF delay > MaxDelay THEN MaxDelay ELSE delay
      /\ Delay(n + 1) = IF 2 * delay > MaxDelay THEN MaxDelay ELSE 2 * delay
  BY <1>3, <1>4
<1> HIDE DEF delay
<1> QED
  BY <1>2, <1>4, <1>5

\* A jittered delay is between half of the delay and the whole.
LEMMA JitterHalf ==
  ASSUME NEW delay \in Nat, NEW j \in Jitter(delay)
  PROVE  j \in Nat /\ j <= delay /\ 2 * j >= delay
BY DEF Jitter

\* Half of a delay that doubled is no less than the delay before.
LEMMA HalfOfDouble ==
  ASSUME NEW delay \in Nat, NEW before \in Nat, NEW old \in Nat, NEW new \in Nat,
         delay >= 2 * before, old <= before, 2 * new >= delay
  PROVE  new >= old
OBVIOUS

\* The latest backoff was no longer than the delay of its attempt.
Waited ==
  /\ pc \in {"check", "call"} =>
       IF attempt = 0 THEN wait = 0 ELSE wait <= Delay(attempt - 1)
  /\ pc = "backoff" => wait <= Delay(attempt)

LEMMA WaitedKept ==
  ASSUME Multiplier = 2
  PROVE  Inv /\ Waited /\ [Next]_vars => Waited'
<1> SUFFICES ASSUME Inv, Waited, [Next]_vars PROVE Waited'
  OBVIOUS
<1> USE RetryAssumption
<1>1. CASE CallFails
  <2>1. CASE attempt = MaxRetries
    BY <1>1, <2>1 DEF CallFails, Return, Waited
  <2>2. CASE attempt # MaxRetries
    <3> DEFINE delay == Delay(attempt)
    <3>1. pc' = "backoff" /\ attempt' = attempt /\ wait' \in Jitter(delay)
      BY <1>1, <2>2 DEF CallFails
    <3>2. delay \in Nat
      <4>1. attempt \in 0..MaxRetries
        BY DEF Inv, TypeOK
      <4> QED
        BY <4>1, DelayDoubles
    <3> HIDE DEF delay
    <3>3. wait' <= delay
      BY <3>1, <3>2, JitterHalf
    <3> QED
      BY <3>1, <3>3 DEF Waited, delay
  <2> QED
    BY <2>1, <2>2
<1>2. CASE Woken
  <2>1. /\ pc = "backoff" /\ pc' = "check" /\ attempt' = attempt + 1 /\ wait' = wait
        /\ attempt \in Nat
    BY <1>2 DEF Woken, Inv, TypeOK
  <2>2. wait <= Delay(attempt)
    BY <2>1 DEF Waited
  <2>3. attempt' # 0 /\ attempt' - 1 = attempt
    BY <2>1
  <2> QED
    BY <2>1, <2>2, <2>3 DEF Waited
<1>3. CASE Check \/ CallOK \/ Interrupted \/ ContextDone \/ UNCHANGED vars
  <2>1. /\ wait' = wait /\ attempt' = attempt
        /\ \/ pc' = pc
           \/ pc' = "returned"
           \/ pc = "check" /\ pc' = "call"
    BY <1>3 DEF Check, CallOK, Interrupted, ContextDone, Return, vars
  <2> QED
    BY <2>1 DEF Waited
<1> QED
  BY <1>1, <1>2, <1>3 DEF Next, Step

\* BackoffGrows: with the factor of DefaultConfig, which every caller of Do
\* uses, and for any number of retries, base delay and cap, half of the next
\* delay is no less than the whole of this one until the cap is reached.
THEOREM BackoffGrowsHolds ==
  ASSUME Multiplier = 2
  PROVE  Spec => BackoffGrows
<1>1. Init => Waited
  BY DEF Init, Waited
<1>2. Inv /\ Waited /\ [Next]_vars
        => [pc = "call" /\ pc' = "backoff" => wait' >= wait \/ 2 * wait' >= MaxDelay]_vars
  <2> SUFFICES ASSUME Inv, Waited, [Next]_vars, pc = "call", pc' = "backoff"
               PROVE  wait' >= wait \/ 2 * wait' >= MaxDelay
    OBVIOUS
  <2> USE RetryAssumption
  <2> DEFINE delay == Delay(attempt)
  <2>1. wait' \in Jitter(delay) /\ attempt \in Nat
    BY DEF Next, Step, Check, CallOK, CallFails, Woken, Interrupted, ContextDone, Return,
           vars, Inv, TypeOK
  <2>2. delay \in Nat
    BY <2>1, DelayDoubles
  <2> HIDE DEF delay
  <2>3. wait' \in Nat /\ 2 * wait' >= delay
    BY <2>1, <2>2, JitterHalf
  <2>4. wait \in Nat /\ MaxDelay \in Nat
    BY DEF Inv, TypeOK
  <2>5. CASE attempt = 0
    <3>1. wait' >= wait
      BY <2>3, <2>5 DEF Waited
    <3> QED
      BY <3>1, Zenon
  <2>6. CASE attempt # 0
    <3> DEFINE before == Delay(attempt - 1)
    <3>1. attempt - 1 \in Nat /\ (attempt - 1) + 1 = attempt
      BY <2>1, <2>6
    <3>2. before \in Nat /\ (delay = MaxDelay \/ delay >= 2 * before)
      BY <3>1, DelayDoubles DEF delay
    <3>3. wait <= before
      BY <2>6 DEF Waited
    <3> HIDE DEF before
    <3>4. CASE delay = MaxDelay
      BY <2>3, <3>4
    <3>5. CASE delay >= 2 * before
      <4>1. wait' >= wait
        BY <2>2, <2>3, <2>4, <3>2, <3>3, <3>5, HalfOfDouble
      <4> QED
        BY <4>1, Zenon
    <3> QED
      BY <3>2, <3>4, <3>5
  <2> QED
    BY <2>5, <2>6
<1> QED
  BY <1>1, <1>2, WaitedKept, Invariance, PTL DEF Spec, BackoffGrows

=============================================================================
