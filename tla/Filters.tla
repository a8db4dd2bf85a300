------------------------------ MODULE Filters ------------------------------
(***************************************************************************)
(* The two filters of the alerter.  MatchesSimpleFilters decides, before   *)
(* anything is paid for, whether an event can concern a strategy;          *)
(* buildQdrantFilter restricts the search for the same strategy to points  *)
(* that can.  An event that passes the first must not be hidden from the   *)
(* search by the second: FindEventMatch would report that it does not      *)
(* match.                                                                  *)
(*                                                                         *)
(* An event has a source and a list of tickers, a strategy two lists, with *)
(* repetitions as the feeds and the database deliver them.                 *)
(***************************************************************************)
EXTENDS Naturals, Sequences

Holds(list, x) == \E i \in 1..Len(list) : list[i] = x

-----------------------------------------------------------------------------
(* Before the search *)

SourceMatches(event, strategy) ==
  strategy.source # <<>> => Holds(strategy.source, event.source)

TickerMatches(event, strategy) ==
  strategy.tickers # <<>> =>
    /\ event.tickers # <<>>
    /\ \E i \in 1..Len(event.tickers) : Holds(strategy.tickers, event.tickers[i])

MatchesSimpleFilters(event, strategy) ==
  SourceMatches(event, strategy) /\ TickerMatches(event, strategy)

-----------------------------------------------------------------------------
(* The search *)

\* The payload a point is stored with; without tickers the key is missing.
Payload(event) ==
  [key \in {"source"} \cup (IF Len(event.tickers) > 0 THEN {"tickers"} ELSE {}) |->
     IF key = "source" THEN <<event.source>> ELSE event.tickers]

\* Variant: every value of the list has to match.
ConditionAll(key, values) == [key |-> key, values |-> values, all |-> TRUE]

\* One condition for the values of a list: a keyword match when there is one
\* value, otherwise a nested filter that should match any of them.
Condition(key, values) == [key |-> key, values |-> values, all |-> Len(values) = 1]

\* Conditions that all must hold; an empty list makes none.
buildQdrantFilter(strategy) ==
  (IF strategy.source # <<>> THEN {Condition("source", strategy.source)} ELSE {})
  \cup
  (IF strategy.tickers # <<>> THEN {Condition("tickers", strategy.tickers)} ELSE {})

\* Qdrant: a keyword matches a payload that has the key and, if it holds a
\* list, an element equal to the keyword.
Keyword(payload, key, x) == key \in DOMAIN payload /\ Holds(payload[key], x)

\* Qdrant: whether a point with this payload is searched.
Searched(payload, filter) ==
  \A c \in filter :
    IF c.all THEN \A i \in 1..Len(c.values) : Keyword(payload, c.key, c.values[i])
             ELSE \E i \in 1..Len(c.values) : Keyword(payload, c.key, c.values[i])

=============================================================================
