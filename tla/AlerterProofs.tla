---------------------------- MODULE AlerterProofs ----------------------------
(***************************************************************************)
(* The two filters agree for all sources, tickers and lists of any length; *)
(* and what Alerter promises about the alerts table and the log, for any   *)
(* workers, copies, strategies, limit and number of crashes.               *)
(***************************************************************************)
EXTENDS Alerter, FiniteSetTheorems, TLAPS

(* The filters of Filters. *)

\* A condition built from a list holds of a payload exactly when the payload
\* has the key and shares a value with the list.
LEMMA ConditionMeans ==
  ASSUME NEW payload, NEW key, NEW n \in Nat \ {0}, NEW S, NEW values \in [1..n -> S]
  PROVE  Searched(payload, {Condition(key, values)})
           <=> \E i \in 1..Len(values) : Keyword(payload, key, values[i])
<1>1. Len(values) \in Nat \ {0}
  OBVIOUS
<1>2. Searched(payload, {Condition(key, values)})
        <=> IF Len(values) = 1
            THEN \A i \in 1..Len(values) : Keyword(payload, key, values[i])
            ELSE \E i \in 1..Len(values) : Keyword(payload, key, values[i])
  <2> DEFINE c == Condition(key, values)
  <2>1. c.key = key /\ c.values = values /\ (c.all <=> Len(values) = 1)
    BY DEF Condition
  <2>2. Searched(payload, {c})
          <=> IF c.all THEN \A i \in 1..Len(c.values) : Keyword(payload, c.key, c.values[i])
                       ELSE \E i \in 1..Len(c.values) : Keyword(payload, c.key, c.values[i])
    BY Zenon DEF Searched
  <2> HIDE DEF c
  <2>3. Searched(payload, {c})
          <=> IF Len(values) = 1
              THEN \A i \in 1..Len(values) : Keyword(payload, key, values[i])
              ELSE \E i \in 1..Len(values) : Keyword(payload, key, values[i])
    BY <2>1, <2>2, Zenon
  <2> QED
    BY <2>3 DEF c
<1>3. CASE Len(values) = 1
  BY <1>2, <1>3
<1>4. CASE Len(values) # 1
  BY <1>2, <1>4
<1> QED
  BY <1>3, <1>4

\* A filter with the conditions of two filters holds when both do.
LEMMA ConjunctionOfFilters ==
  ASSUME NEW payload, NEW A, NEW B
  PROVE  Searched(payload, A \cup B) <=> Searched(payload, A) /\ Searched(payload, B)
BY DEF Searched

\* The source filter and its condition agree.
LEMMA SourcesAgree ==
  ASSUME NEW SourceSet, NEW TickerSet,
         NEW e \in [source : SourceSet, tickers : Seq(TickerSet)],
         NEW s \in [source : Seq(SourceSet), tickers : Seq(TickerSet)]
  PROVE  SourceMatches(e, s)
           <=> Searched(Payload(e), IF s.source # <<>> THEN {Condition("source", s.source)}
                                                        ELSE {})
<1>1. PICK n \in Nat : s.source \in [1..n -> SourceSet]
  OBVIOUS
<1>2. CASE s.source = <<>>
  BY <1>2 DEF SourceMatches, Searched
<1>3. CASE s.source # <<>>
  <2>1. n \in Nat \ {0}
    BY <1>1, <1>3
  <2>2. Searched(Payload(e), {Condition("source", s.source)})
          <=> \E i \in 1..Len(s.source) : Keyword(Payload(e), "source", s.source[i])
    BY <1>1, <2>1, ConditionMeans
  <2>3. "source" \in DOMAIN Payload(e) /\ Payload(e)["source"] = <<e.source>>
    BY DEF Payload
  <2>4. ASSUME NEW x PROVE Keyword(Payload(e), "source", x) <=> x = e.source
    BY <2>3 DEF Keyword, Holds
  <2> QED
    BY <1>3, <2>2, <2>4 DEF SourceMatches, Holds
<1> QED
  BY <1>2, <1>3

\* The ticker filter and its condition agree, also for an event without tickers.
LEMMA TickersAgree ==
  ASSUME NEW SourceSet, NEW TickerSet,
         NEW e \in [source : SourceSet, tickers : Seq(TickerSet)],
         NEW s \in [source : Seq(SourceSet), tickers : Seq(TickerSet)]
  PROVE  TickerMatches(e, s)
           <=> Searched(Payload(e), IF s.tickers # <<>> THEN {Condition("tickers", s.tickers)}
                                                         ELSE {})
<1>1. PICK n \in Nat : s.tickers \in [1..n -> TickerSet]
  OBVIOUS
<1>2. CASE s.tickers = <<>>
  BY <1>2 DEF TickerMatches, Searched
<1>3. CASE s.tickers # <<>>
  <2>1. n \in Nat \ {0}
    BY <1>1, <1>3
  <2>2. Searched(Payload(e), {Condition("tickers", s.tickers)})
          <=> \E i \in 1..Len(s.tickers) : Keyword(Payload(e), "tickers", s.tickers[i])
    BY <1>1, <2>1, ConditionMeans
  <2>3. PICK k \in Nat : e.tickers \in [1..k -> TickerSet]
    OBVIOUS
  <2>4. e.tickers # <<>> <=> Len(e.tickers) > 0
    BY <2>3
  <2>5. "tickers" \in DOMAIN Payload(e) <=> Len(e.tickers) > 0
    BY DEF Payload
  <2>6. Len(e.tickers) > 0 => Payload(e)["tickers"] = e.tickers
    BY DEF Payload
  <2>7. ASSUME NEW x
        PROVE  Keyword(Payload(e), "tickers", x) <=> e.tickers # <<>> /\ Holds(e.tickers, x)
    BY <2>4, <2>5, <2>6 DEF Keyword
  <2> QED
    BY <1>3, <2>2, <2>7 DEF TickerMatches, Holds
<1> QED
  BY <1>2, <1>3

\* Whatever lists an event and a strategy have, the search made for the strategy
\* sees the event's point exactly when MatchesSimpleFilters lets the event pass.
THEOREM SameCriterion ==
  ASSUME NEW SourceSet, NEW TickerSet,
         NEW e \in [source : SourceSet, tickers : Seq(TickerSet)],
         NEW s \in [source : Seq(SourceSet), tickers : Seq(TickerSet)]
  PROVE  MatchesSimpleFilters(e, s) <=> Searched(Payload(e), buildQdrantFilter(s))
<1> DEFINE A == IF s.source # <<>> THEN {Condition("source", s.source)} ELSE {}
           B == IF s.tickers # <<>> THEN {Condition("tickers", s.tickers)} ELSE {}
<1>1. SourceMatches(e, s) <=> Searched(Payload(e), A)
  BY SourcesAgree
<1>2. TickerMatches(e, s) <=> Searched(Payload(e), B)
  BY TickersAgree
<1>3. Searched(Payload(e), A \cup B) <=> Searched(Payload(e), A) /\ Searched(Payload(e), B)
  BY ConjunctionOfFilters
<1>4. buildQdrantFilter(s) = A \cup B
  BY DEF buildQdrantFilter
<1> HIDE DEF A, B
<1> QED
  BY <1>1, <1>2, <1>3, <1>4 DEF MatchesSimpleFilters

-----------------------------------------------------------------------------
(* The alerter *)

LEMMA Constants ==
  /\ Deliveries \subseteq Copies
  /\ EventOf \in [Copies -> Events]
  /\ MaxCrashes \in Nat
  /\ None \notin Copies
  /\ None \notin Deliveries
  /\ None \notin Strategies
  /\ Stored \subseteq Copies
BY AlerterAssumption

\* The point of a copy that passes the filters is found by the search, and no
\* other copy's point is.
LEMMA SearchAgrees ==
  ASSUME NEW c \in Copies, NEW s \in Strategies
  PROVE  <<c, s>> \in Matches <=> Searched(Payload(Article[c]), buildQdrantFilter(Wants[s]))
<1>1. /\ Article[c] \in [source : Sources, tickers : Seq(Tickers)]
      /\ Wants[s] \in [source : Seq(Sources), tickers : Seq(Tickers)]
  BY AlerterAssumption
<1>2. <<c, s>> \in Matches <=> MatchesSimpleFilters(Article[c], Wants[s])
  BY DEF Matches
<1> QED
  BY <1>1, <1>2, SameCriterion

-----------------------------------------------------------------------------
(* The inductive invariant.  A worker that goes to the notifiers has seen   *)
(* the event in a search (Hits); no two workers have one delivery (Owned);  *)
(* and whatever a worker may still store has no row yet (Fresh).            *)

Raising(w) == wpc[w] \in {"store", "broadcast"}

Justified(d, s) ==
  /\ <<d, s>> \in Matches
  /\ \E c \in written : /\ EventOf[c] = EventOf[d]
                        /\ <<c, s>> \in Matches
                        /\ Score[c][s] >= Threshold[s]

Hits == \A w \in Workers : Raising(w) => Justified(cur[w], at[w])

LEMMA JustifiedKept ==
  ASSUME NEW d, NEW s, Justified(d, s), written \subseteq written'
  PROVE  Justified(d, s)'
BY DEF Justified

Owned ==
  /\ \A w \in Workers : wpc[w] # "idle" => cur[w] \in taken
  /\ \A v, w \in Workers : cur[v] = cur[w] /\ wpc[v] # "idle" => v = w

\* What worker w has not come to yet.
Ahead(w) ==
  CASE wpc[w] \in {"enrich", "load"} -> Strategies
    [] wpc[w] = "store" -> todo[w] \cup {at[w]}
    [] wpc[w] \in {"evaluate", "broadcast"} -> todo[w]
    [] OTHER -> {}

Fresh ==
  /\ \A d \in Deliveries \ taken : \A s \in Strategies : ~HasRow(<<d, s>>)
  /\ \A w \in Workers : \A s \in Ahead(w) : ~HasRow(<<cur[w], s>>)
  /\ \A w \in Workers : Raising(w) => at[w] \notin todo[w]

Inv == TypeOK /\ Hits /\ Owned /\ Fresh /\ AlertsJustified /\ StoredThenShown

\* Most steps touch neither the alerts nor a worker that is about to broadcast.
Quiet ==
  /\ rows' = rows
  /\ shown' = shown
  /\ unshown' = unshown
  /\ written \subseteq written'
  /\ InFlight' = InFlight

LEMMA QuietKeeps ==
  ASSUME AlertsJustified, StoredThenShown, Quiet
  PROVE  AlertsJustified' /\ StoredThenShown'
<1>1. AlertsJustified'
  BY DEF AlertsJustified, Quiet, HasRow
<1>2. StoredThenShown'
  BY DEF StoredThenShown, Quiet, HasRow
<1> QED
  BY <1>1, <1>2

\* Nor do they touch what the point of an event holds, unless they upsert it.
PointsOK ==
  /\ written \subseteq Copies
  /\ points \in [Events -> written \cup {None}]
  /\ \A e \in Events : points[e] # None => EventOf[points[e]] = e

LEMMA UpsertKeeps ==
  ASSUME PointsOK, NEW c \in Copies, Upsert(c)
  PROVE  PointsOK' /\ written \subseteq written'
<1>1. EventOf[c] \in Events
  BY Constants
<1> QED
  BY <1>1 DEF PointsOK, Upsert

LEMMA InitInv == Init => Inv
<1> SUFFICES ASSUME Init
             PROVE  Inv
  OBVIOUS
<1> USE Constants DEF Init
<1>1. TypeOK
  <2>1. PointsOK
    <3>1. ASSUME NEW e \in Events, points[e] # None
          PROVE  points[e] \in Stored /\ EventOf[points[e]] = e
      <4>1. \E c \in Stored : EventOf[c] = e
        BY <3>1
      <4> QED
        BY <3>1, <4>1
    <3> QED
      BY <3>1 DEF PointsOK
  <2> QED
    BY <2>1 DEF PointsOK, Users!Init, TypeOK, WorkStates
<1>2. Hits /\ Owned
  BY DEF Hits, Owned, Raising
<1>3. \A x \in Deliveries \X Strategies : ~HasRow(x)
  BY DEF HasRow
<1>4. Fresh
  BY <1>3 DEF Fresh, Ahead, Raising
<1>5. AlertsJustified
  BY <1>3 DEF AlertsJustified
<1>6. InFlight = {}
  BY DEF InFlight
<1>7. StoredThenShown
  BY <1>3, <1>6 DEF StoredThenShown
<1> QED
  BY <1>1, <1>2, <1>4, <1>5, <1>7 DEF Inv

LEMMA TakeInv ==
  ASSUME NEW w \in Workers, Inv, Take(w)
  PROVE  Inv'
<1> USE Constants
<1>1. TypeOK'
  BY DEF Inv, TypeOK, WorkStates, Take, dbVars, workVars, logVars
<1>2. Hits'
  BY DEF Inv, TypeOK, WorkStates, Hits, Justified, Raising, Take, dbVars, workVars, logVars
<1>3. Owned'
  BY DEF Inv, TypeOK, WorkStates, Owned, Take, dbVars, workVars, logVars
<1>4. Fresh'
  BY DEF Inv, TypeOK, WorkStates, Owned, Fresh, Ahead, Raising, HasRow, Take, dbVars, workVars, logVars
<1>5. Quiet
  BY DEF Inv, TypeOK, WorkStates, Quiet, InFlight, Take, dbVars, workVars, logVars
<1> QED
  BY <1>1, <1>2, <1>3, <1>4, <1>5, QuietKeeps DEF Inv

LEMMA ExpireInv ==
  ASSUME NEW w \in Workers, Inv, Expire(w)
  PROVE  Inv'
<1> USE Constants
<1>1. TypeOK'
  BY DEF Inv, TypeOK, WorkStates, Expire, dbVars, workVars, logVars
<1>2. Hits'
  BY DEF Inv, TypeOK, WorkStates, Hits, Justified, Raising, Expire, dbVars, workVars, logVars
<1>3. Owned'
  BY DEF Inv, TypeOK, WorkStates, Owned, Expire, dbVars, workVars, logVars
<1>4. Fresh'
  BY DEF Inv, TypeOK, WorkStates, Owned, Fresh, Ahead, Raising, HasRow, Expire, dbVars, workVars, logVars
<1>5. Quiet
  BY DEF Inv, TypeOK, WorkStates, Quiet, InFlight, Expire, dbVars, workVars, logVars
<1> QED
  BY <1>1, <1>2, <1>3, <1>4, <1>5, QuietKeeps DEF Inv

LEMMA EnrichOKInv ==
  ASSUME NEW w \in Workers, Inv, EnrichOK(w)
  PROVE  Inv'
<1> USE Constants
<1>0. PointsOK' /\ written \subseteq written'
  <2>1. PointsOK /\ cur[w] \in Copies
    BY DEF Inv, TypeOK, PointsOK, EnrichOK
  <2> QED
    BY <2>1, UpsertKeeps DEF EnrichOK
<1>1. TypeOK'
  BY <1>0 DEF PointsOK, Inv, TypeOK, WorkStates, EnrichOK, dbVars, workVars, logVars
<1>2. Hits'
  <2>1. \A v \in Workers : Raising(v)' => Raising(v) /\ cur'[v] = cur[v] /\ at'[v] = at[v]
    BY DEF Inv, TypeOK, WorkStates, Raising, EnrichOK
  <2> QED
    BY <1>0, <2>1 DEF Inv, Hits, Justified
<1>3. Owned'
  BY DEF Inv, TypeOK, WorkStates, Owned, EnrichOK, dbVars, workVars, logVars
<1>4. Fresh'
  BY DEF Inv, TypeOK, WorkStates, Owned, Fresh, Ahead, Raising, HasRow, EnrichOK, dbVars, workVars, logVars
<1>5. Quiet
  BY <1>0 DEF Inv, TypeOK, WorkStates, Quiet, InFlight, EnrichOK, dbVars, workVars, logVars
<1> QED
  BY <1>1, <1>2, <1>3, <1>4, <1>5, QuietKeeps DEF Inv

LEMMA EnrichSkipInv ==
  ASSUME NEW w \in Workers, Inv, EnrichSkip(w)
  PROVE  Inv'
<1> USE Constants
<1>1. TypeOK'
  BY DEF Inv, TypeOK, WorkStates, EnrichSkip, dbVars, workVars, logVars
<1>2. Hits'
  BY DEF Inv, TypeOK, WorkStates, Hits, Justified, Raising, EnrichSkip, dbVars, workVars, logVars
<1>3. Owned'
  BY DEF Inv, TypeOK, WorkStates, Owned, EnrichSkip, dbVars, workVars, logVars
<1>4. Fresh'
  BY DEF Inv, TypeOK, WorkStates, Owned, Fresh, Ahead, Raising, HasRow, EnrichSkip, dbVars, workVars, logVars
<1>5. Quiet
  BY DEF Inv, TypeOK, WorkStates, Quiet, InFlight, EnrichSkip, dbVars, workVars, logVars
<1> QED
  BY <1>1, <1>2, <1>3, <1>4, <1>5, QuietKeeps DEF Inv

LEMMA EnrichFailsInv ==
  ASSUME NEW w \in Workers, Inv, EnrichFails(w)
  PROVE  Inv'
<1> USE Constants
<1>0. PointsOK' /\ written \subseteq written'
  <2>1. PointsOK /\ cur[w] \in Copies
    BY DEF Inv, TypeOK, PointsOK, EnrichFails
  <2>2. CASE UNCHANGED <<points, written>>
    BY <2>1, <2>2 DEF PointsOK
  <2>3. CASE Upsert(cur[w])
    BY <2>1, <2>3, UpsertKeeps
  <2> QED
    BY <2>2, <2>3 DEF EnrichFails
<1>1. TypeOK'
  BY <1>0 DEF PointsOK, Inv, TypeOK, WorkStates, EnrichFails, Release, dbVars, workVars, logVars
<1>2. Hits'
  <2>1. \A v \in Workers : Raising(v)' => Raising(v) /\ cur'[v] = cur[v] /\ at'[v] = at[v]
    BY DEF Inv, TypeOK, WorkStates, Raising, EnrichFails, Release
  <2> QED
    BY <1>0, <2>1 DEF Inv, Hits, Justified
<1>3. Owned'
  BY DEF Inv, TypeOK, WorkStates, Owned, EnrichFails, Release, dbVars, workVars, logVars
<1>4. Fresh'
  BY DEF Inv, TypeOK, WorkStates, Owned, Fresh, Ahead, Raising, HasRow, EnrichFails, Release, dbVars, workVars, logVars
<1>5. Quiet
  BY <1>0 DEF Inv, TypeOK, WorkStates, Quiet, InFlight, EnrichFails, Release, dbVars, workVars, logVars
<1> QED
  BY <1>1, <1>2, <1>3, <1>4, <1>5, QuietKeeps DEF Inv

LEMMA LoadInv ==
  ASSUME NEW w \in Workers, Inv, Load(w)
  PROVE  Inv'
<1> USE Constants
<1>1. TypeOK'
  BY DEF Inv, TypeOK, WorkStates, Load, Active, dbVars, workVars, logVars
<1>2. Hits'
  BY DEF Inv, TypeOK, WorkStates, Hits, Justified, Raising, Load, Active, dbVars, workVars, logVars
<1>3. Owned'
  BY DEF Inv, TypeOK, WorkStates, Owned, Load, Active, dbVars, workVars, logVars
<1>4. Fresh'
  BY DEF Inv, TypeOK, WorkStates, Owned, Fresh, Ahead, Raising, HasRow, Load, Active, dbVars, workVars, logVars
<1>5. Quiet
  BY DEF Inv, TypeOK, WorkStates, Quiet, InFlight, Load, Active, dbVars, workVars, logVars
<1> QED
  BY <1>1, <1>2, <1>3, <1>4, <1>5, QuietKeeps DEF Inv

LEMMA LoadFailsInv ==
  ASSUME NEW w \in Workers, Inv, LoadFails(w)
  PROVE  Inv'
<1> USE Constants
<1>1. TypeOK'
  BY DEF Inv, TypeOK, WorkStates, LoadFails, Release, dbVars, workVars, logVars
<1>2. Hits'
  BY DEF Inv, TypeOK, WorkStates, Hits, Justified, Raising, LoadFails, Release, dbVars, workVars, logVars
<1>3. Owned'
  BY DEF Inv, TypeOK, WorkStates, Owned, LoadFails, Release, dbVars, workVars, logVars
<1>4. Fresh'
  BY DEF Inv, TypeOK, WorkStates, Owned, Fresh, Ahead, Raising, HasRow, LoadFails, Release, dbVars, workVars, logVars
<1>5. Quiet
  BY DEF Inv, TypeOK, WorkStates, Quiet, InFlight, LoadFails, Release, dbVars, workVars, logVars
<1> QED
  BY <1>1, <1>2, <1>3, <1>4, <1>5, QuietKeeps DEF Inv

LEMMA FinishInv ==
  ASSUME NEW w \in Workers, Inv, Finish(w)
  PROVE  Inv'
<1> USE Constants
<1>1. TypeOK'
  BY DEF Inv, TypeOK, WorkStates, Finish, Release, dbVars, workVars, logVars
<1>2. Hits'
  BY DEF Inv, TypeOK, WorkStates, Hits, Justified, Raising, Finish, Release, dbVars, workVars, logVars
<1>3. Owned'
  BY DEF Inv, TypeOK, WorkStates, Owned, Finish, Release, dbVars, workVars, logVars
<1>4. Fresh'
  BY DEF Inv, TypeOK, WorkStates, Owned, Fresh, Ahead, Raising, HasRow, Finish, Release, dbVars, workVars, logVars
<1>5. Quiet
  BY DEF Inv, TypeOK, WorkStates, Quiet, InFlight, Finish, Release, dbVars, workVars, logVars
<1> QED
  BY <1>1, <1>2, <1>3, <1>4, <1>5, QuietKeeps DEF Inv

LEMMA NoMatchInv ==
  ASSUME NEW w \in Workers, NEW s \in Strategies, Inv, NoMatch(w, s)
  PROVE  Inv'
<1> USE Constants
<1>1. TypeOK'
  BY DEF Inv, TypeOK, WorkStates, NoMatch, Evaluating, dbVars, workVars, logVars
<1>2. Hits'
  BY DEF Inv, TypeOK, WorkStates, Hits, Justified, Raising, NoMatch, Evaluating, dbVars, workVars, logVars
<1>3. Owned'
  BY DEF Inv, TypeOK, WorkStates, Owned, NoMatch, Evaluating, dbVars, workVars, logVars
<1>4. Fresh'
  BY DEF Inv, TypeOK, WorkStates, Owned, Fresh, Ahead, Raising, HasRow, NoMatch, Evaluating, dbVars, workVars, logVars
<1>5. Quiet
  BY DEF Inv, TypeOK, WorkStates, Quiet, InFlight, NoMatch, Evaluating, dbVars, workVars, logVars
<1> QED
  BY <1>1, <1>2, <1>3, <1>4, <1>5, QuietKeeps DEF Inv

LEMMA EvaluateFailsInv ==
  ASSUME NEW w \in Workers, NEW s \in Strategies, Inv, EvaluateFails(w, s)
  PROVE  Inv'
<1> USE Constants
<1>1. TypeOK'
  BY DEF Inv, TypeOK, WorkStates, EvaluateFails, Evaluating, dbVars, workVars, logVars
<1>2. Hits'
  BY DEF Inv, TypeOK, WorkStates, Hits, Justified, Raising, EvaluateFails, Evaluating, dbVars, workVars, logVars
<1>3. Owned'
  BY DEF Inv, TypeOK, WorkStates, Owned, EvaluateFails, Evaluating, dbVars, workVars, logVars
<1>4. Fresh'
  BY DEF Inv, TypeOK, WorkStates, Owned, Fresh, Ahead, Raising, HasRow, EvaluateFails, Evaluating, dbVars, workVars, logVars
<1>5. Quiet
  BY DEF Inv, TypeOK, WorkStates, Quiet, InFlight, EvaluateFails, Evaluating, dbVars, workVars, logVars
<1> QED
  BY <1>1, <1>2, <1>3, <1>4, <1>5, QuietKeeps DEF Inv

LEMMA MatchInv ==
  ASSUME NEW w \in Workers, NEW s \in Strategies, Inv, Match(w, s)
  PROVE  Inv'
<1> USE Constants
<1>1. TypeOK'
  BY DEF Inv, TypeOK, WorkStates, Match, Evaluating, dbVars, workVars, logVars
<1>2. Hits'
  <2> DEFINE e == EventOf[cur[w]]
  <2>1. Justified(cur[w], s)
    <3>1. /\ <<cur[w], s>> \in Matches
          /\ e \in Events /\ points[e] # None
          /\ Searched(Payload(Article[points[e]]), buildQdrantFilter(Wants[s]))
          /\ Score[points[e]][s] >= Threshold[s]
      BY DEF Match, FindEventMatch, Results
    <3>2. points[e] \in written /\ points[e] \in Copies /\ EventOf[points[e]] = e
      BY <3>1 DEF Inv, TypeOK
    <3>3. <<points[e], s>> \in Matches
      BY <3>1, <3>2, SearchAgrees
    <3> QED
      BY <3>1, <3>2, <3>3 DEF Justified
  <2>2. /\ written' = written /\ cur' = cur
        /\ at' = [at EXCEPT ![w] = s]
        /\ wpc' = [wpc EXCEPT ![w] = "store"]
    BY DEF Match, dbVars
  <2>3. ASSUME NEW v \in Workers, Raising(v)'
        PROVE  Justified(cur[v], at'[v])
    <3>1. CASE v = w
      BY <2>1, <2>2, <3>1 DEF Inv, TypeOK
    <3>2. CASE v # w
      BY <2>2, <2>3, <3>2 DEF Inv, TypeOK, Hits, Raising
    <3> QED
      BY <3>1, <3>2
  <2> QED
    BY <2>2, <2>3 DEF Hits, Justified
<1>3. Owned'
  BY DEF Inv, TypeOK, WorkStates, Owned, Match, Evaluating, dbVars, workVars, logVars
<1>4. Fresh'
  BY DEF Inv, TypeOK, WorkStates, Owned, Fresh, Ahead, Raising, HasRow, Match, Evaluating, dbVars, workVars, logVars
<1>5. Quiet
  BY DEF Inv, TypeOK, WorkStates, Quiet, InFlight, Match, Evaluating, dbVars, workVars, logVars
<1> QED
  BY <1>1, <1>2, <1>3, <1>4, <1>5, QuietKeeps DEF Inv

LEMMA UserStepInv ==
  ASSUME Inv, UserStep
  PROVE  Inv'
<1> USE Constants
<1>1. TypeOK'
  BY DEF Inv, TypeOK, WorkStates, UserStep, Users!Create, Users!Toggle, Users!Delete, Users!Exists, dbVars, workVars, logVars
<1>2. Hits'
  BY DEF Inv, TypeOK, WorkStates, Hits, Justified, Raising, UserStep, Users!Create, Users!Toggle, Users!Delete, Users!Exists, dbVars, workVars, logVars
<1>3. Owned'
  BY DEF Inv, TypeOK, WorkStates, Owned, UserStep, Users!Create, Users!Toggle, Users!Delete, Users!Exists, dbVars, workVars, logVars
<1>4. Fresh'
  BY DEF Inv, TypeOK, WorkStates, Owned, Fresh, Ahead, Raising, HasRow, UserStep, Users!Create, Users!Toggle, Users!Delete, Users!Exists, dbVars, workVars, logVars
<1>5. Quiet
  BY DEF Inv, TypeOK, WorkStates, Quiet, InFlight, UserStep, Users!Create, Users!Toggle, Users!Delete, Users!Exists, dbVars, workVars, logVars
<1> QED
  BY <1>1, <1>2, <1>3, <1>4, <1>5, QuietKeeps DEF Inv

-----------------------------------------------------------------------------
(* The steps of the notifiers.                                             *)

\* Two workers are never about to raise the same alert.
LEMMA OneRaises ==
  ASSUME Inv, NEW v \in Workers, NEW w \in Workers, wpc[w] # "idle",
         <<cur[v], at[v]>> = <<cur[w], at[w]>>
  PROVE  v = w
BY DEF Inv, Owned

LEMMA RaisingTypes ==
  ASSUME Inv, NEW w \in Workers, Raising(w)
  PROVE  /\ cur[w] \in Deliveries
         /\ at[w] \in Strategies
         /\ <<cur[w], at[w]>> \in Deliveries \X Strategies
BY Constants DEF Inv, TypeOK, Raising

LEMMA StoreInv ==
  ASSUME NEW w \in Workers, Inv, Store(w)
  PROVE  Inv'
<1> DEFINE x == <<cur[w], at[w]>>
<1>1. /\ wpc[w] = "store"
      /\ rows' = [rows EXCEPT ![x] = @ + 1]
      /\ wpc' = [wpc EXCEPT ![w] = "broadcast"]
      /\ strat' = strat /\ points' = points /\ written' = written
      /\ shown' = shown /\ unshown' = unshown /\ outcome' = outcome
      /\ taken' = taken /\ cur' = cur /\ live' = live /\ snap' = snap
      /\ todo' = todo /\ at' = at /\ crashes' = crashes
  BY DEF Store, logVars
<1>2. x \in Deliveries \X Strategies /\ cur[w] \in Deliveries /\ at[w] \in Strategies
  BY <1>1, RaisingTypes DEF Raising
<1>3. ~HasRow(x) /\ rows[x] = 0
  BY <1>1, <1>2 DEF Inv, TypeOK, Fresh, Ahead, HasRow
<1>4. /\ rows'[x] = 1
      /\ \A y \in Deliveries \X Strategies : y # x => rows'[y] = rows[y]
  BY <1>1, <1>2, <1>3 DEF Inv, TypeOK
<1>5. TypeOK'
  <2>1. rows' \in [Deliveries \X Strategies -> Nat]
    BY <1>1, <1>2 DEF Inv, TypeOK
  <2> QED
    BY <1>1, <2>1 DEF Inv, TypeOK, WorkStates
<1>6. Hits'
  BY <1>1 DEF Inv, TypeOK, Hits, Justified, Raising
<1>7. Owned'
  BY <1>1 DEF Inv, TypeOK, Owned
<1>8. Fresh'
  <2>1. cur[w] \in taken
    BY <1>1 DEF Inv, Owned
  <2>2. \A d \in Deliveries \ taken' : \A s \in Strategies : ~HasRow(<<d, s>>)'
    BY <1>1, <1>4, <2>1 DEF Inv, Fresh, HasRow
  <2>3. ASSUME NEW v \in Workers, NEW s \in Ahead(v)'
        PROVE  ~HasRow(<<cur[v], s>>)'
    <3>1. s \in Ahead(v)
      BY <1>1, <2>3 DEF Inv, TypeOK, Ahead
    <3>2. cur[v] \in Deliveries /\ s \in Strategies
      BY <1>1, <1>2, <3>1, Constants DEF Inv, TypeOK, WorkStates, Ahead
    <3>3. <<cur[v], s>> # x
      <4>1. CASE v = w
        BY <1>1, <2>3, <4>1 DEF Inv, TypeOK, Fresh, Ahead, Raising
      <4>2. CASE v # w
        BY <1>1, <4>2 DEF Inv, Owned
      <4> QED BY <4>1, <4>2
    <3> QED
      BY <1>1, <1>4, <3>1, <3>2, <3>3 DEF Inv, Fresh, HasRow
  <2>4. \A v \in Workers : Raising(v)' => at'[v] \notin todo'[v]
    BY <1>1 DEF Inv, TypeOK, Fresh, Raising
  <2> QED
    BY <2>2, <2>3, <2>4 DEF Fresh
<1>9. AlertsJustified'
  <2> SUFFICES ASSUME NEW d \in Deliveries, NEW s \in Strategies, HasRow(<<d, s>>)'
               PROVE  Justified(d, s)
    BY <1>1 DEF AlertsJustified, Justified
  <2>1. CASE <<d, s>> = x
    BY <1>1, <2>1 DEF Inv, Hits, Raising
  <2>2. CASE <<d, s>> # x
    BY <1>4, <2>2 DEF Inv, AlertsJustified, HasRow, Justified
  <2> QED BY <2>1, <2>2
<1>10. StoredThenShown'
  <2>1. InFlight' = InFlight \cup {x}
    BY <1>1 DEF Inv, TypeOK, InFlight
  <2>2. x \notin shown /\ x \notin unshown
    BY <1>3 DEF Inv, StoredThenShown
  <2>3. {y \in Deliveries \X Strategies : HasRow(y)}' =
        {y \in Deliveries \X Strategies : HasRow(y)} \cup {x}
    BY <1>2, <1>4 DEF HasRow
  <2>4. \A y \in Deliveries \X Strategies : rows'[y] <= 1
    BY <1>4 DEF Inv, StoredThenShown
  <2> HIDE DEF x
  <2>5. {y \in Deliveries \X Strategies : HasRow(y)} = shown \cup unshown \cup InFlight
        /\ shown \cap (unshown \cup InFlight) = {}
        /\ unshown \cap InFlight = {}
    BY DEF Inv, StoredThenShown
  <2> QED
    BY <1>1, <2>1, <2>2, <2>3, <2>4, <2>5 DEF StoredThenShown
<1> QED
  BY <1>5, <1>6, <1>7, <1>8, <1>9, <1>10 DEF Inv

LEMMA BroadcastInv ==
  ASSUME NEW w \in Workers, Inv, Broadcast(w)
  PROVE  Inv'
<1> DEFINE x == <<cur[w], at[w]>>
<1>1. /\ wpc[w] = "broadcast"
      /\ shown' = shown \cup {x}
      /\ outcome' = [outcome EXCEPT ![x] = "alerted"]
      /\ at' = [at EXCEPT ![w] = None]
      /\ wpc' = [wpc EXCEPT ![w] = "evaluate"]
      /\ strat' = strat /\ points' = points /\ written' = written /\ rows' = rows /\ unshown' = unshown
      /\ taken' = taken /\ cur' = cur /\ live' = live /\ snap' = snap
      /\ todo' = todo /\ crashes' = crashes
  BY DEF Broadcast, dbVars
<1>2. x \in Deliveries \X Strategies /\ cur[w] \in Deliveries /\ at[w] \in Strategies
  BY <1>1, RaisingTypes DEF Raising
<1>3. TypeOK'
  <2>1. outcome' \in [Deliveries \X Strategies -> {"none", "nomatch", "error", "alerted"}]
    BY <1>1, <1>2 DEF Inv, TypeOK
  <2>2. shown' \subseteq Deliveries \X Strategies
    BY <1>1, <1>2 DEF Inv, TypeOK
  <2> QED
    BY <1>1, <2>1, <2>2, Constants DEF Inv, TypeOK, WorkStates
<1>4. Hits'
  BY <1>1 DEF Inv, TypeOK, Hits, Justified, Raising
<1>5. Owned'
  BY <1>1 DEF Inv, TypeOK, Owned
<1>6. Fresh'
  BY <1>1 DEF Inv, TypeOK, Fresh, Ahead, Raising, HasRow
<1>7. AlertsJustified'
  BY <1>1 DEF Inv, AlertsJustified, HasRow
<1>8. StoredThenShown'
  <2>1. InFlight = InFlight' \cup {x}
    BY <1>1 DEF Inv, TypeOK, InFlight
  <2>2. x \notin InFlight'
    <3> SUFFICES ASSUME NEW v \in Workers, wpc'[v] = "broadcast", <<cur'[v], at'[v]>> = x
                 PROVE  FALSE
      BY DEF InFlight
    <3>1. v # w
      BY <1>1 DEF Inv, TypeOK
    <3> QED
      BY <1>1, <3>1 DEF Inv, TypeOK, Owned
  <2>3. x \notin unshown
    <3>1. <<cur[w], at[w]>> \in Deliveries \X Strategies
      BY <1>2
    <3> QED
      BY <1>1, <3>1 DEF Inv, StoredThenShown, InFlight
  <2> HIDE DEF x
  <2>4. {y \in Deliveries \X Strategies : HasRow(y)}' =
        {y \in Deliveries \X Strategies : HasRow(y)}
    BY <1>1 DEF HasRow
  <2>5. /\ {y \in Deliveries \X Strategies : HasRow(y)} = shown \cup unshown \cup InFlight
        /\ shown \cap (unshown \cup InFlight) = {}
        /\ unshown \cap InFlight = {}
        /\ \A y \in Deliveries \X Strategies : rows[y] <= 1
    BY DEF Inv, StoredThenShown
  <2> QED
    BY <1>1, <2>1, <2>2, <2>3, <2>4, <2>5 DEF StoredThenShown
<1> QED
  BY <1>3, <1>4, <1>5, <1>6, <1>7, <1>8 DEF Inv

\* The alert may have been stored all the same.
LEMMA StoreFailsInv ==
  ASSUME NEW w \in Workers, Inv, StoreFails(w)
  PROVE  Inv'
<1> DEFINE x == <<cur[w], at[w]>>
<1>1. /\ wpc[w] = "store"
      /\ outcome' = [outcome EXCEPT ![x] = "error"]
      /\ at' = [at EXCEPT ![w] = None]
      /\ wpc' = [wpc EXCEPT ![w] = "evaluate"]
      /\ strat' = strat /\ points' = points /\ written' = written /\ shown' = shown
      /\ taken' = taken /\ cur' = cur /\ live' = live /\ snap' = snap
      /\ todo' = todo /\ crashes' = crashes
  BY DEF StoreFails
<1>2. \/ rows' = rows /\ unshown' = unshown
      \/ rows' = [rows EXCEPT ![x] = @ + 1] /\ unshown' = unshown \cup {x}
  BY DEF StoreFails
<1>3. x \in Deliveries \X Strategies /\ cur[w] \in Deliveries /\ at[w] \in Strategies
  BY <1>1, RaisingTypes DEF Raising
<1>4. ~HasRow(x) /\ rows[x] = 0
  BY <1>1, <1>3 DEF Inv, TypeOK, Fresh, Ahead, HasRow
<1>5. /\ unshown' = {y \in Deliveries \X Strategies : y \in unshown \/ (y = x /\ rows'[x] > 0)}
      /\ rows'[x] <= 1
      /\ rows' \in [Deliveries \X Strategies -> Nat]
      /\ \A y \in Deliveries \X Strategies : y # x => rows'[y] = rows[y]
  <2>1. unshown \subseteq Deliveries \X Strategies /\ rows \in [Deliveries \X Strategies -> Nat]
    BY DEF Inv, TypeOK
  <2> HIDE DEF x
  <2>2. CASE rows' = rows /\ unshown' = unshown
    BY <1>3, <1>4, <2>1, <2>2 DEF HasRow
  <2>3. CASE rows' = [rows EXCEPT ![x] = @ + 1] /\ unshown' = unshown \cup {x}
    <3>1. rows'[x] = 1
      BY <1>3, <1>4, <2>1, <2>3
    <3>2. /\ rows' \in [Deliveries \X Strategies -> Nat]
          /\ \A y \in Deliveries \X Strategies : y # x => rows'[y] = rows[y]
      BY <1>3, <1>4, <2>1, <2>3
    <3>3. rows'[x] > 0
      BY <3>1 DEF HasRow
    <3> QED
      BY <1>3, <2>1, <2>3, <3>1, <3>2, <3>3
  <2> QED
    BY <1>2, <2>2, <2>3
<1>6. TypeOK'
  <2>1. outcome' \in [Deliveries \X Strategies -> {"none", "nomatch", "error", "alerted"}]
    BY <1>1, <1>3 DEF Inv, TypeOK
  <2>2. unshown' \subseteq Deliveries \X Strategies
    BY <1>5
  <2> QED
    BY <1>1, <1>5, <2>1, <2>2, Constants DEF Inv, TypeOK, WorkStates
<1>7. Hits'
  BY <1>1 DEF Inv, TypeOK, Hits, Justified, Raising
<1>8. Owned'
  BY <1>1 DEF Inv, TypeOK, Owned
<1>9. Fresh'
  <2>1. cur[w] \in taken
    BY <1>1 DEF Inv, Owned
  <2>2. \A d \in Deliveries \ taken' : \A s \in Strategies : ~HasRow(<<d, s>>)'
    BY <1>1, <1>5, <2>1 DEF Inv, Fresh, HasRow
  <2>3. ASSUME NEW v \in Workers, NEW s \in Ahead(v)'
        PROVE  ~HasRow(<<cur[v], s>>)'
    <3>1. s \in Ahead(v)
      BY <1>1, <2>3 DEF Inv, TypeOK, Ahead
    <3>2. cur[v] \in Deliveries /\ s \in Strategies
      BY <1>1, <1>3, <3>1, Constants DEF Inv, TypeOK, WorkStates, Ahead
    <3>3. <<cur[v], s>> # x
      <4>1. CASE v = w
        BY <1>1, <2>3, <4>1 DEF Inv, TypeOK, Fresh, Ahead, Raising
      <4>2. CASE v # w
        BY <1>1, <4>2 DEF Inv, Owned
      <4> QED BY <4>1, <4>2
    <3> QED
      BY <1>1, <1>5, <3>1, <3>2, <3>3 DEF Inv, Fresh, HasRow
  <2>4. \A v \in Workers : Raising(v)' => at'[v] \notin todo'[v]
    BY <1>1 DEF Inv, TypeOK, Fresh, Raising
  <2> QED
    BY <1>1, <2>2, <2>3, <2>4 DEF Fresh
<1>10. AlertsJustified'
  <2> SUFFICES ASSUME NEW d \in Deliveries, NEW s \in Strategies, HasRow(<<d, s>>)'
               PROVE  Justified(d, s)
    BY <1>1 DEF AlertsJustified, Justified
  <2>1. CASE <<d, s>> = x
    BY <1>1, <2>1 DEF Inv, Hits, Raising
  <2>2. CASE <<d, s>> # x
    BY <1>5, <2>2 DEF Inv, AlertsJustified, HasRow, Justified
  <2> QED BY <2>1, <2>2
<1>11. StoredThenShown'
  <2>1. InFlight' = InFlight
    BY <1>1 DEF Inv, TypeOK, InFlight
  <2>2. x \notin shown /\ x \notin InFlight
    BY <1>3, <1>4 DEF Inv, StoredThenShown
  <2>3. /\ {y \in Deliveries \X Strategies : HasRow(y)} = shown \cup unshown \cup InFlight
        /\ shown \cap (unshown \cup InFlight) = {}
        /\ unshown \cap InFlight = {}
        /\ \A y \in Deliveries \X Strategies : rows[y] <= 1
    BY DEF Inv, StoredThenShown
  <2> HIDE DEF x
  <2>4. \A y \in Deliveries \X Strategies : HasRow(y)' <=> HasRow(y) \/ (y = x /\ rows'[x] > 0)
    BY <1>4, <1>5 DEF HasRow
  <2>5. \A y \in Deliveries \X Strategies : rows'[y] <= 1
    BY <1>5, <2>3
  <2>6. {y \in Deliveries \X Strategies : HasRow(y)}' = shown \cup unshown' \cup InFlight
    BY <1>5, <2>3, <2>4
  <2>7. shown \cap (unshown' \cup InFlight) = {} /\ unshown' \cap InFlight = {}
    BY <1>5, <2>2, <2>3
  <2> QED
    BY <1>1, <2>1, <2>5, <2>6, <2>7 DEF StoredThenShown
<1> QED
  BY <1>6, <1>7, <1>8, <1>9, <1>10, <1>11 DEF Inv

\* What was about to be broadcast never is.
LEMMA CrashInv ==
  ASSUME Inv, Crash
  PROVE  Inv'
<1>1. /\ unshown' = unshown \cup InFlight
      /\ wpc' = [w \in Workers |-> "idle"]
      /\ cur' = [w \in Workers |-> None]
      /\ live' = [w \in Workers |-> FALSE]
      /\ snap' = [w \in Workers |-> {}]
      /\ todo' = [w \in Workers |-> {}]
      /\ at' = [w \in Workers |-> None]
      /\ crashes < MaxCrashes /\ crashes' = crashes + 1
      /\ strat' = strat /\ points' = points /\ written' = written /\ rows' = rows
      /\ shown' = shown /\ outcome' = outcome /\ taken' = taken
  BY DEF Crash, InFlight, dbVars
<1>2. InFlight \subseteq Deliveries \X Strategies
  BY DEF Inv, StoredThenShown
<1>3. TypeOK'
  <2>1. crashes' \in 0..MaxCrashes
    BY <1>1, Constants DEF Inv, TypeOK
  <2> QED
    BY <1>1, <1>2, <2>1 DEF Inv, TypeOK, WorkStates
<1>4. Hits' /\ Owned'
  BY <1>1 DEF Hits, Owned, Raising
<1>5. Fresh'
  BY <1>1 DEF Inv, Fresh, Ahead, Raising, HasRow
<1>6. AlertsJustified'
  BY <1>1 DEF Inv, AlertsJustified, HasRow
<1>7. InFlight' = {}
  BY <1>1 DEF InFlight
<1>8. StoredThenShown'
  BY <1>1, <1>7 DEF Inv, StoredThenShown, HasRow
<1> QED
  BY <1>3, <1>4, <1>5, <1>6, <1>8 DEF Inv

LEMMA StutterInv ==
  ASSUME Inv, UNCHANGED vars
  PROVE  Inv'
<1> USE DEF vars
<1>1. TypeOK' /\ Hits' /\ Owned'
  BY DEF Inv, TypeOK, Hits, Justified, Owned, Raising
<1>2. Fresh'
  BY DEF Inv, Fresh, Ahead, Raising, HasRow
<1>3. Quiet
  BY DEF Quiet, InFlight
<1> QED
  BY <1>1, <1>2, <1>3, QuietKeeps DEF Inv

-----------------------------------------------------------------------------
(* The theorems.                                                           *)

\* Every reachable state satisfies the inductive invariant.
THEOREM Invariance == Spec => []Inv
<1>1. Inv /\ [Next]_vars => Inv'
  BY TakeInv, ExpireInv, EnrichOKInv, EnrichSkipInv, EnrichFailsInv, LoadInv, LoadFailsInv,
     NoMatchInv, EvaluateFailsInv, MatchInv, FinishInv, StoreInv, StoreFailsInv,
     BroadcastInv, CrashInv, UserStepInv, StutterInv
  DEF Next, WorkerStep
<1> QED
  BY InitInv, <1>1, PTL DEF Spec

\* The state stays well typed: workers without a delivery are idle, and only a
\* worker that notifies holds a strategy.
THEOREM TypeCorrect == Spec => []TypeOK
BY Invariance, PTL DEF Inv

\* CheckEventAgainstStrategies stores an alert only for an event that is in
\* Qdrant, passes the filters and reaches the threshold.
THEOREM AlertsJustifiedHolds == Spec => []AlertsJustified
BY Invariance, PTL DEF Inv

\* DBNotifier.Send stores an alert before it broadcasts it, and a delivery
\* raises at most one alert for a strategy.
THEOREM StoredThenShownHolds == Spec => []StoredThenShown
BY Invariance, PTL DEF Inv

\* UnmatchedForCause, the hard case: the point is searched and scores high enough,
\* so the results are full of others that are as near.
LEMMA CrowdedOut ==
  ASSUME Inv, NEW e \in Events, NEW s \in Strategies, NEW R \in Results(s),
         points[e] # None, <<points[e], s>> \in Matches, e \notin R
  PROVE  Cardinality(Nearer(e, s)) >= Limit
<1> DEFINE found == {f \in Events :
                       /\ points[f] # None
                       /\ Searched(Payload(Article[points[f]]), buildQdrantFilter(Wants[s]))}
<1>1. /\ R \subseteq found
      /\ R # found => Cardinality(R) = Limit
      /\ \A g \in R, f \in found \ R : Score[points[g]][s] >= Score[points[f]][s]
  BY DEF Results
<1>2. \A f \in Events : points[f] # None => points[f] \in Copies
  BY DEF Inv, TypeOK
<1>3. e \in found
  BY <1>2, SearchAgrees
<1>4. Cardinality(R) = Limit
  BY <1>1, <1>3
<1>5. ASSUME NEW f \in R PROVE f \in Nearer(e, s)
  <2>1. f \in found
    BY <1>1
  <2>2. f \in Events /\ points[f] # None
    BY <2>1
  <2>3. Searched(Payload(Article[points[f]]), buildQdrantFilter(Wants[s]))
    BY <2>1
  <2>4. <<points[f], s>> \in Matches
    BY <1>2, <2>2, <2>3, SearchAgrees
  <2>5. Score[points[f]][s] >= Score[points[e]][s]
    BY <1>1, <1>3
  <2>6. f # e
    OBVIOUS
  <2> QED
    BY <2>2, <2>4, <2>5, <2>6 DEF Nearer
<1>6. R \subseteq Nearer(e, s) /\ Nearer(e, s) \subseteq Events
  BY <1>5 DEF Nearer
<1>7. IsFiniteSet(Nearer(e, s))
  BY <1>6, AlerterAssumption, FS_Subset
<1>8. /\ IsFiniteSet(R)
      /\ Cardinality(R) <= Cardinality(Nearer(e, s))
      /\ Cardinality(R) \in Nat
      /\ Cardinality(Nearer(e, s)) \in Nat
  BY <1>6, <1>7, FS_Subset, FS_CardinalityType
<1> QED
  BY <1>4, <1>8

\* UnmatchedForCause: evaluateStrategy gives up on an event only for want of a
\* point, of the filters, of the threshold or of room among the results; its two
\* filters never disagree on what the point of an event holds.
THEOREM UnmatchedForCauseHolds == Spec => UnmatchedForCause
<1> DEFINE Cause(d, s) ==
             LET e == EventOf[d] IN
             \/ <<d, s>> \notin Matches
             \/ points[e] = None
             \/ <<points[e], s>> \notin Matches
             \/ Score[points[e]][s] < Threshold[s]
             \/ Cardinality(Nearer(e, s)) >= Limit
           ForCause == \A d \in Deliveries, s \in Strategies :
             outcome[<<d, s>>] = "none" /\ outcome'[<<d, s>>] = "nomatch" => Cause(d, s)
<1>1. Inv /\ [Next]_vars => ForCause
  <2> SUFFICES ASSUME Inv, [Next]_vars, NEW d \in Deliveries, NEW s \in Strategies,
                      outcome[<<d, s>>] = "none", outcome'[<<d, s>>] = "nomatch"
               PROVE  Cause(d, s)
    OBVIOUS
  <2>1. PICK w \in Workers, t \in Strategies : NoMatch(w, t) /\ <<d, s>> = <<cur[w], t>>
    <3>1. <<d, s>> \in Deliveries \X Strategies /\ outcome' # outcome
      OBVIOUS
    <3>2. ASSUME NEW w \in Workers, NEW t \in Strategies, NoMatch(w, t)
          PROVE  <<d, s>> = <<cur[w], t>>
      BY <3>1, <3>2 DEF NoMatch, Inv, TypeOK
    <3>3. ASSUME NEW w \in Workers, NEW t \in Strategies, EvaluateFails(w, t)
          PROVE  FALSE
      BY <3>1, <3>3 DEF EvaluateFails, Inv, TypeOK
    <3>4. ASSUME NEW w \in Workers, StoreFails(w) \/ Broadcast(w)
          PROVE  FALSE
      BY <3>1, <3>4 DEF StoreFails, Broadcast, Inv, TypeOK
    <3> QED
      BY <3>1, <3>2, <3>3, <3>4 DEF Next, WorkerStep, UserStep, Take, Expire, EnrichOK,
         EnrichSkip, EnrichFails, Load, LoadFails, Match, Finish, Store, Crash, logVars, vars
  <2> DEFINE e == EventOf[d]
  <2>2. d = cur[w] /\ s = t /\ e \in Events
    BY <2>1, Constants
  <2>3. CASE <<d, s>> \notin Matches
    BY <2>3
  <2>4. ASSUME NEW R \in Results(s), ~ FindEventMatch(e, R, s),
               points[e] # None, <<points[e], s>> \in Matches,
               ~ (Score[points[e]][s] < Threshold[s])
        PROVE  Cardinality(Nearer(e, s)) >= Limit
    <3>1. Score[points[e]][s] \in Nat /\ Threshold[s] \in Nat
      BY <2>2, <2>4, AlerterAssumption DEF Inv, TypeOK
    <3>2. e \notin R
      BY <2>4, <3>1 DEF FindEventMatch
    <3> QED
      BY <2>2, <2>4, <3>2, CrowdedOut
  <2>5. <<d, s>> \notin Matches \/ \E R \in Results(s) : ~ FindEventMatch(e, R, s)
    BY <2>1, <2>2 DEF NoMatch
  <2> QED
    BY <2>4, <2>5
<1>2. Inv /\ [Next]_vars => [ForCause]_vars
  BY <1>1
<1> QED
  BY Invariance, <1>2, PTL DEF Spec, UnmatchedForCause

-----------------------------------------------------------------------------
(* No strategy is passed over.                                             *)

\* Of the strategies a worker loaded, those it has dealt with have an outcome,
\* except for the one it is notifying about.
Settled ==
  \A w \in Workers : wpc[w] \in {"evaluate", "store", "broadcast"} =>
    \A s \in snap[w] \ todo[w] : outcome[<<cur[w], s>>] # "none" \/ s = at[w]

\* What was logged stays logged.
LEMMA OutcomeKept ==
  ASSUME TypeOK, [Next]_vars, NEW x \in Deliveries \X Strategies, outcome[x] # "none"
  PROVE  outcome'[x] # "none"
<1>1. CASE outcome' = outcome
  BY <1>1
<1>2. ASSUME NEW w \in Workers, NEW s \in Strategies, NoMatch(w, s) \/ EvaluateFails(w, s)
      PROVE  outcome'[x] # "none"
  BY <1>2 DEF NoMatch, EvaluateFails, TypeOK
<1>3. ASSUME NEW w \in Workers, StoreFails(w) \/ Broadcast(w)
      PROVE  outcome'[x] # "none"
  BY <1>3 DEF StoreFails, Broadcast, TypeOK
<1> QED
  BY <1>1, <1>2, <1>3 DEF Next, WorkerStep, UserStep, Take, Expire, EnrichOK, EnrichSkip,
     EnrichFails, Release, Load, LoadFails, Match, Finish, Store, Crash, logVars, vars

\* A step that leaves a worker alone leaves what it has settled.
LEMMA SettledElsewhere ==
  ASSUME TypeOK, Settled, [Next]_vars, NEW w \in Workers,
         wpc'[w] = wpc[w], cur'[w] = cur[w], snap'[w] = snap[w], todo'[w] = todo[w],
         at'[w] = at[w], wpc[w] \in {"evaluate", "store", "broadcast"},
         NEW s \in snap[w] \ todo[w]
  PROVE  outcome'[<<cur[w], s>>] # "none" \/ s = at[w]
<1>1. <<cur[w], s>> \in Deliveries \X Strategies
  BY DEF TypeOK
<1> QED
  BY <1>1, OutcomeKept DEF Settled

LEMMA SettledStep ==
  ASSUME Inv, Settled, [Next]_vars
  PROVE  Settled'
<1>1. TypeOK
  BY DEF Inv
<1> SUFFICES ASSUME NEW w \in Workers, wpc'[w] \in {"evaluate", "store", "broadcast"},
                    NEW s \in snap'[w] \ todo'[w]
             PROVE  outcome'[<<cur'[w], s>>] # "none" \/ s = at'[w]
  BY DEF Settled
<1>2. CASE UNCHANGED <<wpc[w], cur[w], snap[w], todo[w], at[w]>>
  BY <1>1, <1>2, SettledElsewhere
<1>3. CASE Load(w)
  BY <1>1, <1>3 DEF Load, TypeOK
<1>4. ASSUME NEW t \in Strategies, NoMatch(w, t) \/ EvaluateFails(w, t)
      PROVE  outcome'[<<cur'[w], s>>] # "none"
  <2>1. /\ cur' = cur /\ snap' = snap /\ wpc[w] = "evaluate"
        /\ todo'[w] = todo[w] \ {t} /\ cur[w] \in Deliveries
        /\ s \in Strategies
    BY <1>1, <1>4 DEF NoMatch, EvaluateFails, Evaluating, TypeOK
  <2>2. CASE s = t
    BY <1>1, <1>4, <2>1, <2>2 DEF NoMatch, EvaluateFails, TypeOK
  <2>3. CASE s # t
    <3>1. outcome[<<cur[w], s>>] # "none"
      BY <1>1, <2>1, <2>3, Constants DEF Settled, TypeOK
    <3> QED
      BY <1>1, <2>1, <3>1, OutcomeKept
  <2> QED
    BY <2>2, <2>3
<1>5. ASSUME NEW t \in Strategies, Match(w, t)
      PROVE  outcome'[<<cur'[w], s>>] # "none" \/ s = at'[w]
  <2>1. /\ cur' = cur /\ snap' = snap /\ wpc[w] = "evaluate" /\ outcome' = outcome
        /\ todo'[w] = todo[w] \ {t} /\ at'[w] = t /\ at[w] \notin Strategies
        /\ s \in Strategies
    BY <1>1, <1>5, Constants DEF Match, Evaluating, logVars, TypeOK
  <2> QED
    BY <2>1 DEF Settled
<1>6. CASE Store(w)
  <2>1. /\ UNCHANGED <<cur, snap, todo, at, outcome>> /\ wpc[w] = "store"
    BY <1>6 DEF Store, logVars
  <2> QED
    BY <2>1 DEF Settled
<1>7. CASE StoreFails(w) \/ Broadcast(w)
  <2>1. /\ UNCHANGED <<cur, snap, todo>> /\ wpc[w] \in {"store", "broadcast"}
        /\ cur[w] \in Deliveries /\ s \in Strategies
        /\ \E v \in {"error", "alerted"} : outcome' = [outcome EXCEPT ![<<cur[w], at[w]>>] = v]
    BY <1>1, <1>7 DEF StoreFails, Broadcast, TypeOK
  <2>2. outcome[<<cur[w], s>>] # "none" \/ s = at[w]
    BY <2>1 DEF Settled
  <2>3. outcome'[<<cur[w], s>>] # "none"
    BY <1>1, <2>1, <2>2 DEF TypeOK
  <2> QED
    BY <2>1, <2>3
<1>8. CASE EnrichFails(w) \/ LoadFails(w) \/ Finish(w)
  BY <1>1, <1>8 DEF EnrichFails, LoadFails, Finish, Release, TypeOK
<1>9. CASE Take(w) \/ EnrichOK(w) \/ EnrichSkip(w)
  BY <1>1, <1>9 DEF Take, EnrichOK, EnrichSkip, TypeOK
<1>10. CASE Expire(w) \/ UserStep \/ UNCHANGED vars
  BY <1>2, <1>10 DEF Expire, UserStep, workVars, vars
<1>11. CASE Crash
  BY <1>1, <1>11 DEF Crash
<1>12. ASSUME NEW v \in Workers \ {w}, Take(v) \/ Expire(v) \/ WorkerStep(v)
       PROVE  UNCHANGED <<wpc[w], cur[w], snap[w], todo[w], at[w]>>
  <2>1. CASE Take(v) \/ Expire(v) \/ EnrichOK(v) \/ EnrichSkip(v) \/ Load(v)
    BY <1>1, <2>1 DEF Take, Expire, EnrichOK, EnrichSkip, Load, TypeOK
  <2>2. CASE EnrichFails(v) \/ LoadFails(v) \/ Finish(v)
    BY <1>1, <2>2 DEF EnrichFails, LoadFails, Finish, Release, TypeOK
  <2>3. ASSUME NEW t \in Strategies, NoMatch(v, t) \/ EvaluateFails(v, t) \/ Match(v, t)
        PROVE  UNCHANGED <<wpc[w], cur[w], snap[w], todo[w], at[w]>>
    BY <1>1, <2>3 DEF NoMatch, EvaluateFails, Match, Evaluating, TypeOK
  <2>4. CASE Store(v) \/ StoreFails(v) \/ Broadcast(v)
    BY <1>1, <2>4 DEF Store, StoreFails, Broadcast, TypeOK
  <2> QED
    BY <1>12, <2>1, <2>2, <2>3, <2>4 DEF WorkerStep
<1> QED
  BY <1>2, <1>3, <1>4, <1>5, <1>6, <1>7, <1>8, <1>9, <1>10, <1>11, <1>12 DEF Next, WorkerStep

\* EverySettled: the loop of CheckEventAgainstStrategies ends with an outcome for
\* each strategy it loaded.
THEOREM EverySettledHolds == Spec => EverySettled
<1> DEFINE Through ==
      \A w \in Workers :
        wpc[w] = "evaluate" /\ wpc'[w] = "idle" /\ crashes' = crashes =>
          \A s \in snap[w] : outcome[<<cur[w], s>>] # "none"
<1>1. Init => Settled
  BY DEF Init, Settled
<1>2. Inv /\ Settled /\ [Next]_vars => [Through]_vars
  <2> SUFFICES ASSUME Inv, Settled, Next, NEW w \in Workers,
                      wpc[w] = "evaluate", wpc'[w] = "idle", crashes' = crashes,
                      NEW s \in snap[w]
               PROVE  outcome[<<cur[w], s>>] # "none"
    OBVIOUS
  <2>1. TypeOK
    BY DEF Inv
  <2>2. ~Crash /\ ~UserStep
    BY <2>1, Constants DEF Crash, UserStep, workVars, TypeOK
  <2>3. PICK v \in Workers : Take(v) \/ Expire(v) \/ WorkerStep(v)
    BY <2>2 DEF Next
  <2>4. Finish(w)
    BY <2>1, <2>3
       DEF WorkerStep, Take, Expire, EnrichOK, EnrichSkip, EnrichFails, Release, Load, LoadFails,
           NoMatch, EvaluateFails, Match, Finish, Store, StoreFails, Broadcast, TypeOK
  <2>5. todo[w] = {} /\ at[w] = None
    BY <2>1, <2>4 DEF Finish, TypeOK
  <2> QED
    BY <2>1, <2>5, Constants DEF Settled, TypeOK
<1> QED
  BY <1>1, <1>2, SettledStep, Invariance, PTL DEF Spec, EverySettled

=============================================================================
