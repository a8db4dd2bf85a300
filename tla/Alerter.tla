------------------------------ MODULE Alerter ------------------------------
(***************************************************************************)
(* What a pipeline worker does with one delivery: ProcessEvent of          *)
(* internal/enrichment, CheckEventAgainstStrategies of internal/alerter    *)
(* and the notifiers of internal/notification, while users pause, resume   *)
(* and delete strategies and the process may be killed and restarted.      *)
(* PostgreSQL and Qdrant survive a restart, the workers do not.            *)
(*                                                                         *)
(* An event is what its point in Qdrant is: its UUID is computed from the  *)
(* event's ID, so the deliveries of one event share a point.  They may     *)
(* still differ: each start loads the CIK table anew, and with it the      *)
(* tickers of a filing, and each enrichment fetches the article anew.  A   *)
(* copy is an event as it was received once, with the text fetched then;   *)
(* a point holds the payload and the vector of the copy upserted last.     *)
(* Embeddings are abstracted to the score of a copy for a strategy.        *)
(***************************************************************************)
EXTENDS Filters, FiniteSets

CONSTANTS
  Workers,
  Copies,     \* events as received, in this or in an earlier run of the program
  Deliveries, \* the copies that the workers take from the channel
  Events,     \* points a search may see
  EventOf,    \* the event of a copy
  Strategies,
  Sources,
  Tickers,
  Article,    \* source and tickers of a copy
  Wants,      \* sources and tickers a strategy is restricted to
  Score,      \* cosine similarity of a copy's text and the query of a strategy
  Threshold,  \* similarity_threshold of a strategy, on the same scale; a float64,
              \* so it may lie between two neighbouring float32 scores
  Limit,      \* results a search asks for (10 in the program)
  Stored,     \* the copies that points hold from earlier runs of the program
  MaxCrashes, \* bound: how often the process is killed
  None

ASSUME AlerterAssumption ==
  /\ Deliveries \subseteq Copies
  /\ IsFiniteSet(Events)
  /\ EventOf \in [Copies -> Events]
  /\ Article \in [Copies -> [source : Sources, tickers : Seq(Tickers)]]
  /\ Wants \in [Strategies -> [source : Seq(Sources), tickers : Seq(Tickers)]]
  /\ Score \in [Copies -> [Strategies -> Nat]]
  /\ Threshold \in [Strategies -> Nat]
  /\ Limit \in Nat \ {0}
  /\ Stored \subseteq Copies
  /\ \A b, c \in Stored : EventOf[b] = EventOf[c] => b = c
  /\ MaxCrashes \in Nat
  /\ None \notin Copies \cup Strategies

VARIABLES
  strat,      \* the row of a strategy: "absent", "active", "paused" or "deleted"
  points,     \* the copy whose payload and vector an event's point holds, or None
  written,    \* copies whose points were upserted, in this or in an earlier run
  rows,       \* how many alerts the table holds for a delivery and a strategy
  shown,      \* <<d, s>> whose alert was handed to the SSE broker
  unshown,    \* <<d, s>> stored, but cut off before the broadcast
  taken,      \* deliveries a worker has received
  wpc,        \* control point of a worker
  cur,        \* the delivery it works on
  live,       \* its processCtx is not done
  snap,       \* the strategies its query returned
  todo,       \* those its loop has not come to yet
  at,         \* the one it raises an alert for
  outcome,    \* how the evaluation of d against s ended, as logged
  crashes

dbVars == <<strat, points, written, rows>>
workVars == <<wpc, cur, live, snap, todo, at>>
logVars == <<shown, unshown, outcome>>
vars == <<strat, points, written, rows, shown, unshown, taken, wpc, cur, live, snap,
          todo, at, outcome, crashes>>

WorkStates == {"idle", "enrich", "load", "evaluate", "store", "broadcast"}

TypeOK ==
  /\ strat \in [Strategies -> {"absent", "active", "paused", "deleted"}]
  /\ written \subseteq Copies
  /\ points \in [Events -> written \cup {None}]
  /\ \A e \in Events : points[e] # None => EventOf[points[e]] = e
  /\ rows \in [Deliveries \X Strategies -> Nat]
  /\ shown \subseteq Deliveries \X Strategies
  /\ unshown \subseteq Deliveries \X Strategies
  /\ taken \subseteq Deliveries
  /\ wpc \in [Workers -> WorkStates]
  /\ cur \in [Workers -> Deliveries \cup {None}]
  /\ live \in [Workers -> BOOLEAN]
  /\ snap \in [Workers -> SUBSET Strategies]
  /\ todo \in [Workers -> SUBSET Strategies]
  /\ at \in [Workers -> Strategies \cup {None}]
  /\ outcome \in [Deliveries \X Strategies -> {"none", "nomatch", "error", "alerted"}]
  /\ crashes \in 0..MaxCrashes
  /\ \A w \in Workers : cur[w] = None <=> wpc[w] = "idle"
  /\ \A w \in Workers : at[w] # None <=> wpc[w] \in {"store", "broadcast"}

\* What users do to the strategies.
Users == INSTANCE StrategyLifecycle

Init ==
  /\ Users!Init
  /\ points = [e \in Events |-> IF \E c \in Stored : EventOf[c] = e
                                THEN CHOOSE c \in Stored : EventOf[c] = e ELSE None]
  /\ written = Stored
  /\ rows = [x \in Deliveries \X Strategies |-> 0]
  /\ shown = {}
  /\ unshown = {}
  /\ taken = {}
  /\ wpc = [w \in Workers |-> "idle"]
  /\ cur = [w \in Workers |-> None]
  /\ live = [w \in Workers |-> FALSE]
  /\ snap = [w \in Workers |-> {}]
  /\ todo = [w \in Workers |-> {}]
  /\ at = [w \in Workers |-> None]
  /\ outcome = [x \in Deliveries \X Strategies |-> "none"]
  /\ crashes = 0

-----------------------------------------------------------------------------
(* Users *)

\* Strategies are created, toggled and deleted through the API.
UserStep ==
  /\ \E s \in Strategies : Users!Create(s) \/ Users!Toggle(s) \/ Users!Delete(s)
  /\ UNCHANGED <<points, written, rows, taken, workVars, logVars, crashes>>

-----------------------------------------------------------------------------
(* Enrichment *)

\* A worker receives a delivery and derives its context.  The application
\* context may be done already.
Take(w) ==
  /\ wpc[w] = "idle"
  /\ \E d \in Deliveries \ taken :
       /\ taken' = taken \cup {d}
       /\ cur' = [cur EXCEPT ![w] = d]
  /\ \E b \in BOOLEAN : live' = [live EXCEPT ![w] = b]
  /\ wpc' = [wpc EXCEPT ![w] = "enrich"]
  /\ UNCHANGED <<dbVars, logVars, snap, todo, at, crashes>>

\* processCtx times out or is cancelled.
Expire(w) ==
  /\ wpc[w] # "idle"
  /\ live[w]
  /\ live' = [live EXCEPT ![w] = FALSE]
  /\ UNCHANGED <<dbVars, logVars, taken, wpc, cur, snap, todo, at, crashes>>

\* The point of the event gets the payload and the vector of this copy, and
\* loses those of an earlier one.
Upsert(c) ==
  /\ points' = [points EXCEPT ![EventOf[c]] = c]
  /\ written' = written \cup {c}

\* The article is embedded and its point upserted.
EnrichOK(w) ==
  /\ wpc[w] = "enrich"
  /\ live[w]
  /\ Upsert(cur[w])
  /\ wpc' = [wpc EXCEPT ![w] = "load"]
  /\ UNCHANGED <<strat, rows, logVars, taken, cur, live, snap, todo, at, crashes>>

\* The article cannot be fetched or is too short: not an error.  A point that
\* an earlier delivery of the event left is as it was.
EnrichSkip(w) ==
  /\ wpc[w] = "enrich"
  /\ wpc' = [wpc EXCEPT ![w] = "load"]
  /\ UNCHANGED <<dbVars, logVars, taken, cur, live, snap, todo, at, crashes>>

Release(w) ==
  /\ wpc' = [wpc EXCEPT ![w] = "idle"]
  /\ cur' = [cur EXCEPT ![w] = None]
  /\ live' = [live EXCEPT ![w] = FALSE]
  /\ snap' = [snap EXCEPT ![w] = {}]
  /\ todo' = [todo EXCEPT ![w] = {}]
  /\ at' = [at EXCEPT ![w] = None]

\* Embedding or upsert fails, the latter perhaps after Qdrant has stored the
\* point: the delivery is abandoned without a check.
EnrichFails(w) ==
  /\ wpc[w] = "enrich"
  /\ \/ UNCHANGED <<points, written>>
     \/ live[w] /\ Upsert(cur[w])
  /\ Release(w)
  /\ UNCHANGED <<strat, rows, logVars, taken, crashes>>

-----------------------------------------------------------------------------
(* Evaluation *)

Active == {s \in Strategies : strat[s] = "active"}

\* GetAllActiveStrategies; rows.Err is not looked at, so when the connection or
\* the context ends while rows are read the result is a part of them.
Load(w) ==
  /\ wpc[w] = "load"
  /\ live[w]
  /\ \E found \in SUBSET Active :
       /\ snap' = [snap EXCEPT ![w] = found]
       /\ todo' = [todo EXCEPT ![w] = found]
  /\ wpc' = [wpc EXCEPT ![w] = "evaluate"]
  /\ UNCHANGED <<dbVars, logVars, taken, cur, live, at, crashes>>

\* The query fails: no strategy is checked, the delivery counts as processed.
LoadFails(w) ==
  /\ wpc[w] = "load"
  /\ Release(w)
  /\ UNCHANGED <<dbVars, logVars, taken, crashes>>

\* The copies and strategies that evaluateStrategy does not reject at once.
Matches ==
  {x \in Copies \X Strategies : MatchesSimpleFilters(Article[x[1]], Wants[x[2]])}

\* What a search for s may return: the Limit nearest of the points that pass
\* the filter built for s.  A point passes by the payload it was stored with.
Results(s) ==
  LET found == {e \in Events :
                  /\ points[e] # None
                  /\ Searched(Payload(Article[points[e]]), buildQdrantFilter(Wants[s]))}
  IN {R \in SUBSET found :
        /\ Cardinality(R) <= Limit
        /\ R # found => Cardinality(R) = Limit
        /\ \A e \in R, f \in found \ R : Score[points[e]][s] >= Score[points[f]][s]}

\* Variant: the threshold is narrowed to a float32, as the log and the alert do;
\* here those are the even numbers.
FindEventMatchNarrow(e, R, s) ==
  e \in R /\ Score[points[e]][s] >= 2 * (Threshold[s] \div 2)

\* FindEventMatch: the event is among the results, at or above the threshold.
\* Both are compared as float64, which holds either of them exactly.
FindEventMatch(e, R, s) == e \in R /\ Score[points[e]][s] >= Threshold[s]

Evaluating(w, s) ==
  /\ wpc[w] = "evaluate"
  /\ s \in todo[w]
  /\ todo' = [todo EXCEPT ![w] = @ \ {s}]

\* The filters reject the event, or the search finds no match.
NoMatch(w, s) ==
  /\ Evaluating(w, s)
  /\ \/ <<cur[w], s>> \notin Matches
     \/ /\ live[w]
        /\ \E R \in Results(s) : ~ FindEventMatch(EventOf[cur[w]], R, s)
  /\ outcome' = [outcome EXCEPT ![<<cur[w], s>>] = "nomatch"]
  /\ UNCHANGED <<dbVars, shown, unshown, taken, wpc, cur, live, snap, at, crashes>>

\* Variant: an error ends the loop over the strategies.
EvaluateFailsStops(w, s) ==
  /\ wpc[w] = "evaluate"
  /\ s \in todo[w]
  /\ <<cur[w], s>> \in Matches
  /\ todo' = [todo EXCEPT ![w] = {}]
  /\ outcome' = [outcome EXCEPT ![<<cur[w], s>>] = "error"]
  /\ UNCHANGED <<dbVars, shown, unshown, taken, wpc, cur, live, snap, at, crashes>>

\* Variant: an error makes the loop come to the strategy again.
EvaluateFailsRetries(w, s) ==
  /\ wpc[w] = "evaluate"
  /\ s \in todo[w]
  /\ <<cur[w], s>> \in Matches
  /\ outcome' = [outcome EXCEPT ![<<cur[w], s>>] = "error"]
  /\ UNCHANGED <<dbVars, shown, unshown, taken, workVars, crashes>>

\* Embedding the query or searching fails, as it must when the context is done.
EvaluateFails(w, s) ==
  /\ Evaluating(w, s)
  /\ <<cur[w], s>> \in Matches
  /\ outcome' = [outcome EXCEPT ![<<cur[w], s>>] = "error"]
  /\ UNCHANGED <<dbVars, shown, unshown, taken, wpc, cur, live, snap, at, crashes>>

\* The event matches: the notifiers are called.
Match(w, s) ==
  /\ Evaluating(w, s)
  /\ live[w]
  /\ <<cur[w], s>> \in Matches
  /\ \E R \in Results(s) : FindEventMatch(EventOf[cur[w]], R, s)
  /\ at' = [at EXCEPT ![w] = s]
  /\ wpc' = [wpc EXCEPT ![w] = "store"]
  /\ UNCHANGED <<dbVars, logVars, taken, cur, live, snap, crashes>>

\* The loop is over.
Finish(w) ==
  /\ wpc[w] = "evaluate"
  /\ todo[w] = {}
  /\ Release(w)
  /\ UNCHANGED <<dbVars, logVars, taken, crashes>>

-----------------------------------------------------------------------------
(* Notification *)

\* CreateAlert under context.Background(): a row is inserted, if the foreign
\* key still refers to a strategy, and Send goes on.
Store(w) ==
  /\ wpc[w] = "store"
  /\ strat[at[w]] # "deleted"
  /\ rows' = [rows EXCEPT ![<<cur[w], at[w]>>] = @ + 1]
  /\ wpc' = [wpc EXCEPT ![w] = "broadcast"]
  /\ UNCHANGED <<strat, points, written, logVars, taken, cur, live, snap, todo, at, crashes>>

\* Variant: the error is logged and Send goes on to the broadcast.
StoreFailsOn(w) ==
  /\ wpc[w] = "store"
  /\ wpc' = [wpc EXCEPT ![w] = "broadcast"]
  /\ UNCHANGED <<dbVars, logVars, taken, cur, live, snap, todo, at, crashes>>

\* CreateAlert returns an error, perhaps after the row was inserted: Send
\* returns it and nothing is broadcast.
StoreFails(w) ==
  LET x == <<cur[w], at[w]>> IN
  /\ wpc[w] = "store"
  /\ \/ UNCHANGED <<rows, unshown>>
     \/ /\ strat[at[w]] # "deleted"
        /\ rows' = [rows EXCEPT ![x] = @ + 1]
        /\ unshown' = unshown \cup {x}
  /\ outcome' = [outcome EXCEPT ![x] = "error"]
  /\ at' = [at EXCEPT ![w] = None]
  /\ wpc' = [wpc EXCEPT ![w] = "evaluate"]
  /\ UNCHANGED <<strat, points, written, shown, taken, cur, live, snap, todo, crashes>>

\* Variant: the alert stays in the loop's hands.
BroadcastKeeps(w) ==
  LET x == <<cur[w], at[w]>> IN
  /\ wpc[w] = "broadcast"
  /\ shown' = shown \cup {x}
  /\ outcome' = [outcome EXCEPT ![x] = "alerted"]
  /\ wpc' = [wpc EXCEPT ![w] = "evaluate"]
  /\ UNCHANGED <<dbVars, unshown, taken, cur, live, snap, todo, at, crashes>>

\* Broadcast to the user's browsers; AlertsTriggered.Add(1).
Broadcast(w) ==
  LET x == <<cur[w], at[w]>> IN
  /\ wpc[w] = "broadcast"
  /\ shown' = shown \cup {x}
  /\ outcome' = [outcome EXCEPT ![x] = "alerted"]
  /\ at' = [at EXCEPT ![w] = None]
  /\ wpc' = [wpc EXCEPT ![w] = "evaluate"]
  /\ UNCHANGED <<dbVars, unshown, taken, cur, live, snap, todo, crashes>>

-----------------------------------------------------------------------------
\* The process is killed and started again: what the workers had in hand is
\* lost, what the databases hold is kept.
Crash ==
  /\ crashes < MaxCrashes
  /\ crashes' = crashes + 1
  /\ unshown' = unshown \cup
                {<<cur[w], at[w]>> : w \in {v \in Workers : wpc[v] = "broadcast"}}
  /\ wpc' = [w \in Workers |-> "idle"]
  /\ cur' = [w \in Workers |-> None]
  /\ live' = [w \in Workers |-> FALSE]
  /\ snap' = [w \in Workers |-> {}]
  /\ todo' = [w \in Workers |-> {}]
  /\ at' = [w \in Workers |-> None]
  /\ UNCHANGED <<dbVars, shown, outcome, taken>>

WorkerStep(w) ==
  \/ EnrichOK(w)
  \/ EnrichSkip(w)
  \/ EnrichFails(w)
  \/ Load(w)
  \/ LoadFails(w)
  \/ \E s \in Strategies : NoMatch(w, s) \/ EvaluateFails(w, s) \/ Match(w, s)
  \/ Finish(w)
  \/ Store(w)
  \/ StoreFails(w)
  \/ Broadcast(w)

Next ==
  \/ UserStep
  \/ \E w \in Workers : Take(w) \/ Expire(w) \/ WorkerStep(w)
  \/ Crash

Spec == Init /\ [][Next]_vars

(***************************************************************************)
(* Fairness: a worker that has a delivery goes on, so every call it makes  *)
(* returns.  Calls to OpenAI and Qdrant are bound to processCtx; CreateAlert *)
(* has no deadline, and its answer is an assumption about PostgreSQL.      *)
(***************************************************************************)
FairSpec == Spec /\ \A w \in Workers : WF_vars(WorkerStep(w))

-----------------------------------------------------------------------------
(* Properties *)

HasRow(x) == rows[x] > 0

\* Whatever raced with it, an alert in the table is about a delivery that passes
\* the filters of its strategy, and about an event some copy of which was
\* embedded, passes them as well and reaches the threshold.  So there is none for
\* a delivery whose article could not be fetched, unless an earlier copy of the
\* same event justifies it.
AlertsJustified ==
  \A d \in Deliveries, s \in Strategies :
    HasRow(<<d, s>>) =>
      /\ <<d, s>> \in Matches
      /\ \E c \in written : /\ EventOf[c] = EventOf[d]
                            /\ <<c, s>> \in Matches
                            /\ Score[c][s] >= Threshold[s]

\* Other events whose points compete with that of e in a search for s: those that
\* MatchesSimpleFilters lets pass, as near as e or nearer.
Nearer(e, s) ==
  {f \in Events \ {e} : /\ points[f] # None
                        /\ <<points[f], s>> \in Matches
                        /\ Score[points[f]][s] >= Score[points[e]][s]}

\* A delivery is found not to match for one of five reasons: it does not pass the
\* filters; its event has no point; the copy that the point holds, perhaps one of
\* an earlier run with other tickers, does not pass them; it scores too low; or
\* the results are full of points that pass the same filters and are as near.
\* In particular the search filter never hides an event that passed the first
\* one, nor do events that the first one rejects crowd it out.
UnmatchedForCause ==
  [][\A d \in Deliveries, s \in Strategies :
       outcome[<<d, s>>] = "none" /\ outcome'[<<d, s>>] = "nomatch" =>
         LET e == EventOf[d] IN
         \/ <<d, s>> \notin Matches
         \/ points[e] = None
         \/ <<points[e], s>> \notin Matches
         \/ Score[points[e]][s] < Threshold[s]
         \/ Cardinality(Nearer(e, s)) >= Limit]_vars

InFlight == {<<cur[w], at[w]>> : w \in {v \in Workers : wpc[v] = "broadcast"}}

\* An alert is broadcast only after it is stored, and a stored one is broadcast
\* unless its acknowledgement was lost or the process died in between.  One
\* delivery never raises two alerts for a strategy.
StoredThenShown ==
  /\ {x \in Deliveries \X Strategies : HasRow(x)} = shown \cup unshown \cup InFlight
  /\ shown \cap (unshown \cup InFlight) = {}
  /\ unshown \cap InFlight = {}
  /\ \A x \in Deliveries \X Strategies : rows[x] <= 1

\* A worker that finishes its loop has settled every strategy it loaded: an
\* error with one, or the end of its context, never hides the others.
EverySettled ==
  [][\A w \in Workers :
       wpc[w] = "evaluate" /\ wpc'[w] = "idle" /\ crashes' = crashes =>
         \A s \in snap[w] : outcome[<<cur[w], s>>] # "none"]_vars

\* A worker is through with any delivery in the end.
CheckEnds == \A w \in Workers : wpc[w] # "idle" ~> wpc[w] = "idle"

\* README: the system "alerts users when content semantically matches their
\* strategies above a configurable similarity threshold".  An event found not
\* to match is one that has no point, fails the filters or scores too low.
SemanticMatchAlerts ==
  \A d \in Deliveries, s \in Strategies :
    outcome[d, s] = "nomatch" =>
      LET c == points[EventOf[d]] IN
      \/ <<d, s>> \notin Matches
      \/ c = None
      \/ <<c, s>> \notin Matches
      \/ Score[c][s] < Threshold[s]

\* "evaluates a single event against all active strategies": the strategies
\* that are evaluated are those that are active when they are loaded.
AllActiveEvaluated ==
  [][\A w \in Workers :
       wpc[w] = "load" /\ wpc'[w] = "evaluate" => snap'[w] = Active]_vars

=============================================================================
