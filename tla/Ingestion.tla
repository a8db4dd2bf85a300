----------------------------- MODULE Ingestion -----------------------------
(***************************************************************************)
(* A feed and the goroutines that poll it, as in internal/ingestion: for   *)
(* SEC EDGAR the loop, polling every 90 s, and the goroutine of the first  *)
(* check, which the loop neither waits for nor locks out; for Polygon the  *)
(* loop alone.  They share the cursor, the ID last seen, without a lock:   *)
(* each item compared is a read of it of its own.                          *)
(*                                                                         *)
(* The cursor is a Go string, two words.  IDs of a feed have one length,   *)
(* so a torn read differs from an atomic one only while the cursor is "":  *)
(* then it can end in a fault that kills the process, which is a Crash.    *)
(*                                                                         *)
(* A filing's tickers come from internal/sec: GetCIKMap downloads a table  *)
(* under sync.Once, whose second caller waits for the first.  A table that *)
(* could not be downloaded stays empty for the life of the process.        *)
(*                                                                         *)
(* No request here has a timeout.  One that is never answered stops its    *)
(* poller: a feed request until the context ends, that is until shutdown,  *)
(* and the table's download, which has no context, until the process ends. *)
(*                                                                         *)
(* Items are numbered in the order of publication.  What happens to an     *)
(* item after its send, and stopping, is in Pipeline and in System.        *)
(***************************************************************************)
EXTENDS Naturals, Sequences, FiniteSets

CONSTANTS
  Loop,       \* the loops, of which there is one
  First,      \* goroutines that poll once
  Window,     \* how many items a poll is shown: SEC's page has 40; Polygon's
              \* iterator follows the next pages, so it is shown all of them
  UsesCIK,    \* a poll looks tickers up (SEC); Polygon sends them along
  MaxItems,   \* bound: how many items are published
  MaxFailures, \* bound: how many polls fail
  MaxCrashes  \* bound: how often the process dies and is started again

Pollers == Loop \cup First

ASSUME IngestionAssumption ==
  /\ Loop \cap First = {}
  /\ Window \in Nat \ {0}
  /\ UsesCIK \in BOOLEAN
  /\ MaxItems \in Nat
  /\ MaxFailures \in Nat
  /\ MaxCrashes \in Nat

\* A feed has one loop, and SEC's one goroutine for the first check.
ASSUME OneOfEach ==
  /\ \A p, q \in Loop : p = q
  /\ \A p, q \in First : p = q

VARIABLES
  published,  \* items published so far
  cursor,     \* lastSeenGUID or lastSeenID; 0 is ""
  cikMap,     \* "none", "loading", or what every lookup then finds: "full", "empty"
  views,      \* the tables with which items of this run were looked up
  pc,         \* where a poller is in its poll
  oldest,     \* the last item of the page a poller fetched
  newest,     \* the first one
  next,       \* the item it compares, or sends, next
  sent,       \* what was sent into the channel, in order
  overlap,    \* two polls were under way at once
  failures,
  crashes

pollVars == <<pc, oldest, newest, next>>
cikVars == <<cikMap, views>>
vars == <<published, cursor, cikVars, pollVars, sent, overlap, failures, crashes>>

PollStates == {"idle", "lookup", "download", "compare", "advance", "send", "ended",
               "stalled", "hung"}

TypeOK ==
  /\ published \in 0..MaxItems
  /\ cursor \in 0..published
  /\ cikMap \in {"none", "loading", "full", "empty"}
  /\ views \subseteq {"full", "empty"}
  /\ pc \in [Pollers -> PollStates]
  /\ oldest \in [Pollers -> 1..(published + 1)]
  /\ newest \in [Pollers -> 0..published]
  /\ next \in [Pollers -> 0..(published + 1)]
  /\ sent \in Seq(1..published)
  /\ overlap \in BOOLEAN
  /\ failures \in 0..MaxFailures
  /\ crashes \in 0..MaxCrashes
  /\ \A p \in Pollers : newest[p] < oldest[p] + Window

Fresh ==
  /\ cursor' = 0
  /\ cikMap' = "none"
  /\ views' = {}
  /\ pc' = [p \in Pollers |-> "idle"]
  /\ oldest' = [p \in Pollers |-> 1]
  /\ newest' = [p \in Pollers |-> 0]
  /\ next' = [p \in Pollers |-> 0]

Init ==
  /\ published \in 0..MaxItems
  /\ cursor = 0
  /\ cikMap = "none"
  /\ views = {}
  /\ pc = [p \in Pollers |-> "idle"]
  /\ oldest = [p \in Pollers |-> 1]
  /\ newest = [p \in Pollers |-> 0]
  /\ next = [p \in Pollers |-> 0]
  /\ sent = <<>>
  /\ overlap = FALSE
  /\ failures = 0
  /\ crashes = 0

\* An item appears at the head of the feed.
Publish ==
  /\ published < MaxItems
  /\ published' = published + 1
  /\ UNCHANGED <<cursor, cikVars, pollVars, sent, overlap, failures, crashes>>

\* A poll is under way that may still send something.
Busy(p) == pc[p] \notin {"idle", "ended", "stalled", "hung"}

\* The ticker fires, or the limiter lets the poller go on, or it is the first
\* check: the feed is fetched.
Fetch(p) ==
  /\ pc[p] = "idle"
  /\ pc' = [pc EXCEPT ![p] = IF UsesCIK THEN "lookup" ELSE "compare"]
  /\ newest' = [newest EXCEPT ![p] = published]
  /\ oldest' = [oldest EXCEPT ![p] = IF published > Window THEN published - Window + 1 ELSE 1]
  /\ next' = [next EXCEPT ![p] = published]
  /\ overlap' = (overlap \/ \E q \in Pollers \ {p} : Busy(q))
  /\ UNCHANGED <<published, cursor, cikVars, sent, failures, crashes>>

\* A poll is over.
Ended(p) == pc' = [pc EXCEPT ![p] = IF p \in First THEN "ended" ELSE "idle"]

\* A poller asks the feed for a page: its first, or Polygon's for a later one.
Requests(p) == pc[p] \in {"idle"} \cup (IF UsesCIK THEN {} ELSE {"compare"})

\* The feed cannot be fetched, or the iterator fails on a later page: what was
\* collected is dropped and the cursor is not moved.
FetchFails(p) ==
  /\ Requests(p)
  /\ failures < MaxFailures
  /\ failures' = failures + 1
  /\ Ended(p)
  /\ UNCHANGED <<published, cursor, cikVars, oldest, newest, next, sent, overlap, crashes>>

\* The request is never answered; only the end of the context would end it.
Stalls(p) ==
  /\ Requests(p)
  /\ pc' = [pc EXCEPT ![p] = "stalled"]
  /\ UNCHANGED <<published, cursor, cikVars, oldest, newest, next, sent, overlap,
                 failures, crashes>>

\* Variant: without sync.Once, the map is there before it is filled.
LookUpEarly(p) ==
  /\ pc[p] = "lookup"
  /\ IF cikMap = "none"
     THEN pc' = [pc EXCEPT ![p] = "download"] /\ cikMap' = "empty"
     ELSE pc' = [pc EXCEPT ![p] = "compare"] /\ UNCHANGED cikMap
  /\ UNCHANGED <<published, cursor, views, oldest, newest, next, sent, overlap,
                 failures, crashes>>

\* GetCIKMap: the first caller downloads, others wait until that is over.
LookUp(p) ==
  /\ pc[p] = "lookup"
  /\ cikMap # "loading"
  /\ IF cikMap = "none"
     THEN pc' = [pc EXCEPT ![p] = "download"] /\ cikMap' = "loading"
     ELSE pc' = [pc EXCEPT ![p] = "compare"] /\ UNCHANGED cikMap
  /\ UNCHANGED <<published, cursor, views, oldest, newest, next, sent, overlap,
                 failures, crashes>>

\* The table is decoded, or the map stays empty.
Download(p) ==
  /\ pc[p] = "download"
  /\ cikMap' \in {"full", "empty"}
  /\ pc' = [pc EXCEPT ![p] = "compare"]
  /\ UNCHANGED <<published, cursor, views, oldest, newest, next, sent, overlap,
                 failures, crashes>>

\* The download is never answered: whoever asks for the table later waits too.
Hangs(p) ==
  /\ pc[p] = "download"
  /\ pc' = [pc EXCEPT ![p] = "hung"]
  /\ UNCHANGED <<published, cursor, cikVars, oldest, newest, next, sent, overlap,
                 failures, crashes>>

\* The loop over the page, newest item first, stops at the cursor: items
\* next + 1 to newest are new.
Compare(p) ==
  /\ pc[p] = "compare"
  /\ IF next[p] < oldest[p] \/ next[p] = cursor
     THEN IF next[p] = newest[p]
          THEN Ended(p) /\ UNCHANGED <<next, views>>
          ELSE /\ pc' = [pc EXCEPT ![p] = "advance"]
               /\ next' = [next EXCEPT ![p] = @ + 1]
               /\ UNCHANGED views
     ELSE /\ next' = [next EXCEPT ![p] = @ - 1]
          /\ views' = views \cup ({cikMap} \cap {"full", "empty"})
          /\ UNCHANGED pc
  /\ UNCHANGED <<published, cursor, cikMap, oldest, newest, sent, overlap, failures, crashes>>

\* Variant: the cursor is set to the oldest new item.
AdvanceOldest(p) ==
  /\ pc[p] = "advance"
  /\ cursor' = next[p]
  /\ pc' = [pc EXCEPT ![p] = "send"]
  /\ UNCHANGED <<published, cikVars, oldest, newest, next, sent, overlap, failures, crashes>>

\* Variant: the cursor is left alone.
AdvanceNot(p) ==
  /\ pc[p] = "advance"
  /\ pc' = [pc EXCEPT ![p] = "send"]
  /\ UNCHANGED <<published, cursor, cikVars, oldest, newest, next, sent, overlap, failures, crashes>>

\* Variant: the cursor is set past the newest item.
AdvancePast(p) ==
  /\ pc[p] = "advance"
  /\ cursor' = newest[p] + 1
  /\ pc' = [pc EXCEPT ![p] = "send"]
  /\ UNCHANGED <<published, cikVars, oldest, newest, next, sent, overlap, failures, crashes>>

\* The cursor is set to the newest item, before anything is sent.
Advance(p) ==
  /\ pc[p] = "advance"
  /\ cursor' = newest[p]
  /\ pc' = [pc EXCEPT ![p] = "send"]
  /\ UNCHANGED <<published, cikVars, oldest, newest, next, sent, overlap, failures, crashes>>

\* Variant: the sends begin with the second new item.
SendSkips(p) ==
  /\ pc[p] = "send"
  /\ IF next[p] < newest[p]
     THEN /\ sent' = Append(sent, next[p] + 1)
          /\ next' = [next EXCEPT ![p] = @ + 1]
          /\ UNCHANGED pc
     ELSE Ended(p) /\ UNCHANGED <<sent, next>>
  /\ UNCHANGED <<published, cursor, cikVars, oldest, newest, overlap, failures, crashes>>

\* The new items are sent, the oldest first; each send may block.
Send(p) ==
  /\ pc[p] = "send"
  /\ IF next[p] <= newest[p]
     THEN /\ sent' = Append(sent, next[p])
          /\ next' = [next EXCEPT ![p] = @ + 1]
          /\ UNCHANGED pc
     ELSE Ended(p) /\ UNCHANGED <<sent, next>>
  /\ UNCHANGED <<published, cursor, cikVars, oldest, newest, overlap, failures, crashes>>

\* The process dies and is started again; the cursor was in memory only.
Crash ==
  /\ crashes < MaxCrashes
  /\ crashes' = crashes + 1
  /\ Fresh
  /\ UNCHANGED <<published, sent, overlap, failures>>

Poll(p) == Fetch(p) \/ LookUp(p) \/ Download(p) \/ Compare(p) \/ Advance(p) \/ Send(p)

Next ==
  \/ Publish
  \/ \E p \in Pollers : Poll(p) \/ FetchFails(p) \/ Stalls(p) \/ Hangs(p)
  \/ Crash

Spec == Init /\ [][Next]_vars

(***************************************************************************)
(* Fairness: a poller goes on and the ticker fires again and again, unless *)
(* a request stalls or hangs; the channel is drained, which Pipeline       *)
(* shows.  That polls do not fail for ever is an assumption about SEC and  *)
(* Polygon: MaxFailures states it.                                         *)
(***************************************************************************)
FairSpec == Spec /\ \A p \in Pollers : WF_vars(Poll(p))

-----------------------------------------------------------------------------
(* Properties *)

\* Unless the process was restarted or two polls overlapped, no item is sent
\* twice and items are sent in the order of publication, although pages
\* overlap, the cursor may have left the page and polls may fail midway.
InOrder ==
  crashes = 0 /\ ~overlap =>
    \A i, j \in DOMAIN sent : i < j => sent[i] < sent[j]

\* A loop's poll that overlaps the first check may repeat items, but the two
\* do not move the cursor back and forth without end: in one run of the process
\* an item is sent three times at most.
AtMostThree ==
  \A i \in 1..MaxItems :
    Cardinality({k \in DOMAIN sent : sent[k] = i}) <= 3 * (crashes + 1)

\* In one run of the process all items are looked up in the same table: a poll
\* that comes while the other one downloads it does not see it half filled, and
\* a download that failed is not followed by lookups that succeed.
OneView == Cardinality(views) <= 1

\* The loop is stopped by a request that is not answered: its own, or the
\* download of the first check.  A feed request of the first check stops nobody.
HeldUp ==
  \E p \in Loop :
    \/ pc[p] \in {"stalled", "hung"}
    \/ pc[p] = "lookup" /\ cikMap = "loading" /\ \E q \in First : pc[q] = "hung"

\* Unless an unanswered request stops the loop for good, every published item is
\* sent in the end, or has left the feed: a cursor that was moved before the
\* sends, or moved back, or lost, never hides an item, whatever becomes of the
\* first check.
EventuallySent ==
  []<>~HeldUp =>
    \A i \in 1..MaxItems :
      i <= published ~> \/ \E k \in DOMAIN sent : sent[k] = i
                        \/ i + Window <= published

=============================================================================
