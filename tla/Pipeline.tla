------------------------------ MODULE Pipeline ------------------------------
(***************************************************************************)
(* cmd/signalstream/main.go with the sending half of internal/ingestion:   *)
(* the pollers, the buffered events channel, the worker pool and the       *)
(* shutdown sequence (cancel, close, wait).  A delivery <<p, k>> is the    *)
(* k-th event that poller goroutine p sends; what the event says, and      *)
(* which feed entries a poll selects, is left to other modules.  A metrics *)
(* counter is kept as the set of deliveries for which its Add(1) ran.      *)
(***************************************************************************)
EXTENDS Naturals, Sequences

CONSTANTS
  Tracked,    \* poller goroutines registered with the WaitGroup (news, SEC)
  Untracked,  \* the SEC poller's immediate first check, which is not
  Filers,     \* those of the SEC feed, which look its tickers up
  Workers,    \* the worker pool (numWorkers)
  Cap,        \* capacity of the events channel (100 in the program)
  MaxBatch,   \* bound: most new entries that one poll finds
  MaxEvents,  \* bound: most deliveries of one poller
  None        \* "no delivery in hand"

Producers == Tracked \cup Untracked
Deliveries == Producers \X (1..MaxEvents)

ASSUME PipelineAssumption ==
  /\ Tracked \cap Untracked = {}
  /\ Filers \subseteq Producers
  /\ Workers # {}
  /\ Cap \in Nat \ {0}
  /\ MaxBatch \in Nat
  /\ MaxEvents \in Nat
  /\ None \notin Deliveries

VARIABLES
  cancelled,  \* ctx.Done() of the application context
  closed,     \* close(eventsChan) has run
  status,     \* of the process: "up", "exited", "panicked" or "aborted"
  queue,      \* contents of eventsChan
  pc,         \* control point of each poller goroutine
  batch,      \* entries of its current poll still to be sent
  sent,       \* deliveries it has sent so far
  wpc,        \* control point of each worker
  cur,        \* the delivery a worker has in hand
  live,       \* its processCtx was not already done when it was created
  ingested, enriched, processed,   \* metrics.Global counters
  failed      \* deliveries abandoned because ProcessEvent returned an error

chanVars == <<closed, queue>>
pollVars == <<pc, batch, sent>>
workVars == <<wpc, cur, live>>
counters == <<ingested, enriched, processed, failed>>
vars == <<cancelled, closed, status, queue, pc, batch, sent, wpc, cur, live,
          ingested, enriched, processed, failed>>

PollStates == {"wait", "fetch", "lookup", "hung", "send", "count", "done"}
WorkStates == {"receive", "enrich", "check", "done"}

TypeOK ==
  /\ cancelled \in BOOLEAN
  /\ closed \in BOOLEAN
  /\ status \in {"up", "exited", "panicked", "aborted"}
  /\ queue \in Seq(Deliveries)
  /\ pc \in [Producers -> PollStates]
  /\ batch \in [Producers -> Nat]
  /\ sent \in [Producers -> 0..MaxEvents]
  /\ wpc \in [Workers -> WorkStates]
  /\ cur \in [Workers -> Deliveries \cup {None}]
  /\ live \in [Workers -> BOOLEAN]
  /\ ingested \subseteq Deliveries
  /\ enriched \subseteq Deliveries
  /\ processed \subseteq Deliveries
  /\ failed \subseteq Deliveries

Init ==
  /\ cancelled = FALSE
  /\ closed = FALSE
  /\ status = "up"
  /\ queue = <<>>
  /\ pc = [p \in Producers |-> IF p \in Tracked THEN "wait" ELSE "fetch"]
  /\ batch = [p \in Producers |-> 0]
  /\ sent = [p \in Producers |-> 0]
  /\ wpc = [w \in Workers |-> "receive"]
  /\ cur = [w \in Workers |-> None]
  /\ live = [w \in Workers |-> FALSE]
  /\ ingested = {}
  /\ enriched = {}
  /\ processed = {}
  /\ failed = {}

-----------------------------------------------------------------------------
(* Pollers *)

\* After a poll a poller loop waits again; the first check returns.
AfterPoll(p) == IF p \in Tracked THEN "wait" ELSE "done"

\* limiter.Wait grants a request, or the ticker fires.  The select of the
\* loop may take this case even when ctx is done as well.
Tick(p) ==
  /\ status = "up"
  /\ p \in Tracked
  /\ pc[p] = "wait"
  /\ pc' = [pc EXCEPT ![p] = "fetch"]
  /\ UNCHANGED <<cancelled, status, batch, sent, chanVars, workVars, counters>>

\* Variant: the loop continues when ctx is done.
StopIgnored(p) ==
  /\ status = "up"
  /\ p \in Tracked
  /\ pc[p] = "wait"
  /\ cancelled
  /\ UNCHANGED vars

\* limiter.Wait returns an error, or the select takes ctx.Done(): wg.Done.
Stop(p) ==
  /\ status = "up"
  /\ p \in Tracked
  /\ pc[p] = "wait"
  /\ cancelled
  /\ pc' = [pc EXCEPT ![p] = "done"]
  /\ UNCHANGED <<cancelled, status, batch, sent, chanVars, workVars, counters>>

\* The feed request fails; the poll returns without sending anything.  It is
\* bound to ctx and to nothing else: until ctx is done it need not end.
FetchFails(p) ==
  /\ status = "up"
  /\ pc[p] = "fetch"
  /\ pc' = [pc EXCEPT ![p] = AfterPoll(p)]
  /\ UNCHANGED <<cancelled, status, batch, sent, chanVars, workVars, counters>>

\* The page is compared with the cursor: n entries are new.
Select(p) ==
  \E n \in 0..MaxBatch :
    /\ sent[p] + n <= MaxEvents
    /\ batch' = [batch EXCEPT ![p] = n]
    /\ pc' = [pc EXCEPT ![p] = IF n > 0 THEN "send" ELSE AfterPoll(p)]

\* The feed request returns a page.
FetchOK(p) ==
  /\ status = "up"
  /\ pc[p] = "fetch"
  /\ ~cancelled
  /\ IF p \in Filers
     THEN pc' = [pc EXCEPT ![p] = "lookup"] /\ UNCHANGED batch
     ELSE Select(p)
  /\ UNCHANGED <<cancelled, status, sent, chanVars, workVars, counters>>

\* GetCIKMap returns; it knows nothing of ctx.
LookUp(p) ==
  /\ status = "up"
  /\ pc[p] = "lookup"
  /\ Select(p)
  /\ UNCHANGED <<cancelled, status, sent, chanVars, workVars, counters>>

\* The table's download gets no answer, and it has neither a timeout nor a
\* context; or the poller waits in sync.Once for one that gets none.
LookUpHangs(p) ==
  /\ status = "up"
  /\ pc[p] = "lookup"
  /\ pc' = [pc EXCEPT ![p] = "hung"]
  /\ UNCHANGED <<cancelled, status, batch, sent, chanVars, workVars, counters>>

\* Variant: EventsIngested is updated after the loop, for its last delivery.
SendCountedLast(p) ==
  /\ status = "up"
  /\ pc[p] = "send"
  /\ ~closed
  /\ Len(queue) < Cap
  /\ queue' = Append(queue, <<p, sent[p] + 1>>)
  /\ sent' = [sent EXCEPT ![p] = @ + 1]
  /\ batch' = [batch EXCEPT ![p] = @ - 1]
  /\ pc' = [pc EXCEPT ![p] = IF batch[p] > 1 THEN "send" ELSE "count"]
  /\ UNCHANGED <<cancelled, status, closed, workVars, counters>>

\* events <- newArticles[i]: blocks while the buffer is full.
Send(p) ==
  /\ status = "up"
  /\ pc[p] = "send"
  /\ ~closed
  /\ Len(queue) < Cap
  /\ queue' = Append(queue, <<p, sent[p] + 1>>)
  /\ sent' = [sent EXCEPT ![p] = @ + 1]
  /\ batch' = [batch EXCEPT ![p] = @ - 1]
  /\ pc' = [pc EXCEPT ![p] = "count"]
  /\ UNCHANGED <<cancelled, status, closed, workVars, counters>>

\* The same send on a closed channel panics, blocked or not, and nothing
\* recovers in a poller goroutine: the process dies.
SendPanics(p) ==
  /\ status = "up"
  /\ pc[p] = "send"
  /\ closed
  /\ status' = "panicked"
  /\ UNCHANGED <<cancelled, chanVars, pollVars, workVars, counters>>

\* metrics.Global.EventsIngested.Add(1), after the send.
Count(p) ==
  /\ status = "up"
  /\ pc[p] = "count"
  /\ ingested' = ingested \cup {<<p, sent[p]>>}
  /\ pc' = [pc EXCEPT ![p] = IF batch[p] > 0 THEN "send" ELSE AfterPoll(p)]
  /\ UNCHANGED <<cancelled, status, batch, sent, chanVars, workVars,
                 enriched, processed, failed>>

-----------------------------------------------------------------------------
(* Workers *)

\* Variant: processCtx is derived from context.Background().
ReceiveDetached(w) ==
  /\ status = "up"
  /\ wpc[w] = "receive"
  /\ queue # <<>>
  /\ cur' = [cur EXCEPT ![w] = Head(queue)]
  /\ queue' = Tail(queue)
  /\ live' = [live EXCEPT ![w] = TRUE]
  /\ wpc' = [wpc EXCEPT ![w] = "enrich"]
  /\ UNCHANGED <<cancelled, status, closed, pollVars, counters>>

\* range events takes the next delivery, also from a closed channel that
\* still holds some; processCtx is derived from ctx.
Receive(w) ==
  /\ status = "up"
  /\ wpc[w] = "receive"
  /\ queue # <<>>
  /\ cur' = [cur EXCEPT ![w] = Head(queue)]
  /\ queue' = Tail(queue)
  /\ live' = [live EXCEPT ![w] = ~cancelled]
  /\ wpc' = [wpc EXCEPT ![w] = "enrich"]
  /\ UNCHANGED <<cancelled, status, closed, pollVars, counters>>

\* Variant: the worker returns as soon as ctx is done.
WorkerDoneEarly(w) ==
  /\ status = "up"
  /\ wpc[w] = "receive"
  /\ cancelled
  /\ wpc' = [wpc EXCEPT ![w] = "done"]
  /\ UNCHANGED <<cancelled, status, cur, live, chanVars, pollVars, counters>>

\* The channel is closed and drained: the loop ends, wg.Done.
WorkerDone(w) ==
  /\ status = "up"
  /\ wpc[w] = "receive"
  /\ queue = <<>>
  /\ closed
  /\ wpc' = [wpc EXCEPT ![w] = "done"]
  /\ UNCHANGED <<cancelled, status, cur, live, chanVars, pollVars, counters>>

\* ProcessEvent embeds and upserts the article.  Each of these calls gives
\* up under a context that is already done; under one that ends meanwhile,
\* by the signal or after two minutes, it may still succeed.
EnrichOK(w) ==
  /\ status = "up"
  /\ wpc[w] = "enrich"
  /\ live[w]
  /\ enriched' = enriched \cup {cur[w]}
  /\ wpc' = [wpc EXCEPT ![w] = "check"]
  /\ UNCHANGED <<cancelled, status, cur, live, chanVars, pollVars,
                 ingested, processed, failed>>

\* The article cannot be fetched or is too short: ProcessEvent returns nil.
\* The fetch has a timeout of its own and does not look at processCtx.
EnrichSkip(w) ==
  /\ status = "up"
  /\ wpc[w] = "enrich"
  /\ wpc' = [wpc EXCEPT ![w] = "check"]
  /\ UNCHANGED <<cancelled, status, cur, live, chanVars, pollVars, counters>>

\* Variant: the error is logged, but the continue is missing.
EnrichFailsOn(w) ==
  /\ status = "up"
  /\ wpc[w] = "enrich"
  /\ failed' = failed \cup {cur[w]}
  /\ wpc' = [wpc EXCEPT ![w] = "check"]
  /\ UNCHANGED <<cancelled, status, cur, live, chanVars, pollVars,
                 ingested, enriched, processed>>

\* Variant: the worker returns where it should continue.
EnrichFailsReturns(w) ==
  /\ status = "up"
  /\ wpc[w] = "enrich"
  /\ failed' = failed \cup {cur[w]}
  /\ wpc' = [wpc EXCEPT ![w] = "done"]
  /\ cur' = [cur EXCEPT ![w] = None]
  /\ live' = [live EXCEPT ![w] = FALSE]
  /\ UNCHANGED <<cancelled, status, chanVars, pollVars,
                 ingested, enriched, processed>>

\* Embedding or upsert fails: the worker continues with the next delivery.
EnrichFails(w) ==
  /\ status = "up"
  /\ wpc[w] = "enrich"
  /\ failed' = failed \cup {cur[w]}
  /\ wpc' = [wpc EXCEPT ![w] = "receive"]
  /\ cur' = [cur EXCEPT ![w] = None]
  /\ live' = [live EXCEPT ![w] = FALSE]
  /\ UNCHANGED <<cancelled, status, chanVars, pollVars,
                 ingested, enriched, processed>>

\* CheckEventAgainstStrategies returns, whatever became of the strategies,
\* and EventsProcessed.Add(1) runs.
Check(w) ==
  /\ status = "up"
  /\ wpc[w] = "check"
  /\ processed' = processed \cup {cur[w]}
  /\ wpc' = [wpc EXCEPT ![w] = "receive"]
  /\ cur' = [cur EXCEPT ![w] = None]
  /\ live' = [live EXCEPT ![w] = FALSE]
  /\ UNCHANGED <<cancelled, status, chanVars, pollVars,
                 ingested, enriched, failed>>

-----------------------------------------------------------------------------
(* The main goroutine *)

\* A signal arrives: cancel() ends ctx.
Signal ==
  /\ status = "up"
  /\ ~cancelled
  /\ cancelled' = TRUE
  /\ UNCHANGED <<status, chanVars, pollVars, workVars, counters>>

CloseChannel ==
  /\ status = "up"
  /\ cancelled
  /\ ~closed
  /\ closed' = TRUE
  /\ UNCHANGED <<cancelled, status, queue, pollVars, workVars, counters>>

\* Variant: the workers are not added to the WaitGroup.
ExitUnwaited ==
  /\ status = "up"
  /\ closed
  /\ \A p \in Tracked : pc[p] = "done"
  /\ status' = "exited"
  /\ UNCHANGED <<cancelled, chanVars, pollVars, workVars, counters>>

\* wg.Wait returns, the final metrics are logged and main returns, which
\* ends the untracked goroutine wherever it is.
Exit ==
  /\ status = "up"
  /\ closed
  /\ \A p \in Tracked : pc[p] = "done"
  /\ \A w \in Workers : wpc[w] = "done"
  /\ status' = "exited"
  /\ UNCHANGED <<cancelled, chanVars, pollVars, workVars, counters>>

\* ListenAndServe returns an error and its goroutine calls os.Exit(1).
ServerFails ==
  /\ status = "up"
  /\ status' = "aborted"
  /\ UNCHANGED <<cancelled, chanVars, pollVars, workVars, counters>>

\* The process is gone.
Ended ==
  /\ status # "up"
  /\ UNCHANGED vars

-----------------------------------------------------------------------------
ProducerStep(p) ==
  \/ Tick(p)
  \/ Stop(p)
  \/ FetchFails(p)
  \/ FetchOK(p)
  \/ LookUp(p)
  \/ LookUpHangs(p)
  \/ Send(p)
  \/ SendPanics(p)
  \/ Count(p)

WorkerStep(w) ==
  \/ Receive(w)
  \/ WorkerDone(w)
  \/ EnrichOK(w)
  \/ EnrichSkip(w)
  \/ EnrichFails(w)
  \/ Check(w)

MainStep == Signal \/ CloseChannel \/ Exit \/ ServerFails

Next ==
  \/ \E p \in Producers : ProducerStep(p)
  \/ \E w \in Workers : WorkerStep(w)
  \/ MainStep
  \/ Ended

Spec == Init /\ [][Next]_vars

(***************************************************************************)
(* Fairness.  A goroutine that can run is scheduled, and ProcessEvent and  *)
(* CheckEventAgainstStrategies return.  A feed request must end only when  *)
(* ctx is done; a lookup ends unless it hangs.  Stop is strongly fair      *)
(* because Go's select picks at random among ready cases, so a poller      *)
(* cannot prefer its ticker to ctx.Done() for ever.  Nothing obliges a     *)
(* signal, a tick, an answer of a feed or a server failure to come.        *)
(***************************************************************************)
PollerFairness(p) ==
  /\ WF_vars(cancelled /\ FetchFails(p))
  /\ WF_vars(LookUp(p))
  /\ WF_vars(Send(p) \/ SendPanics(p))
  /\ WF_vars(Count(p))
  /\ SF_vars(Stop(p))

WorkerFairness(w) ==
  /\ WF_vars(Receive(w) \/ WorkerDone(w))
  /\ WF_vars(EnrichOK(w) \/ EnrichSkip(w) \/ EnrichFails(w))
  /\ WF_vars(Check(w))

FairSpec ==
  /\ Spec
  /\ \A p \in Producers : PollerFairness(p)
  /\ \A w \in Workers : WorkerFairness(w)
  /\ WF_vars(CloseChannel)
  /\ WF_vars(Exit)

-----------------------------------------------------------------------------
(* Properties *)

Accepted == {d \in Deliveries : d[2] <= sent[d[1]]}
Queued == {queue[i] : i \in 1..Len(queue)}
InHand == {cur[w] : w \in Workers} \ {None}
Resolved == processed \cup failed

\* Every delivery accepted by the channel is in exactly one place: waiting in
\* it (once), in the hands of one worker, processed, or failed.  Nothing is
\* lost or handed out twice by the send, the range loop, the continue on
\* error or the shutdown.
ExactlyOnce ==
  /\ Accepted = Queued \cup InHand \cup Resolved
  /\ Queued \cap (InHand \cup Resolved) = {}
  /\ InHand \cap Resolved = {}
  /\ processed \cap failed = {}
  /\ \A i, j \in 1..Len(queue) : queue[i] = queue[j] => i = j
  /\ \A v, w \in Workers : cur[v] = cur[w] /\ cur[v] # None => v = w

\* EventsIngested lags behind the channel by the deliveries whose poller is
\* between the send and the Add, so a delivery may be counted as processed
\* before it is counted as ingested; no other delivery is ever uncounted.
IngestedLag ==
  /\ ingested \subseteq Accepted
  /\ Accepted \ ingested
       = {d \in Deliveries : pc[d[1]] = "count" /\ d[2] = sent[d[1]]}

\* When main returns, everything the channel accepted has been processed or
\* has failed, and the final metrics count every delivery of the two tracked
\* pollers.  The first check is not waited for: its last one may be missing.
FinalMetrics ==
  status = "exited" =>
    /\ Accepted = Resolved
    /\ enriched \subseteq processed
    /\ \A d \in Accepted \ ingested : d[1] \in Untracked

\* A delivery still buffered when shutdown begins is drained but never
\* enriched: the contexts its worker derives are already done.
DrainedUnenriched ==
  \A d \in Deliveries :
    [](cancelled /\ d \in Queued => [](d \notin enriched))

\* Whatever the channel accepted is processed or fails, unless the process
\* dies first: neither a full buffer nor shutdown strands it.
EventuallyResolved ==
  \A d \in Deliveries : d \in Accepted ~> d \in Resolved \/ status # "up"

\* After the signal the process ends, unless a poller that wg.Wait waits for is
\* caught in the download of the CIK table.  Nothing else holds it up: no full
\* buffer, worker, feed request or ticker, and no first check that is caught.
ShutdownCompletes ==
  cancelled ~> status # "up" \/ \E p \in Tracked : pc[p] = "hung"

\* README: "graceful shutdown via OS signals".  No goroutine dies of a panic.
GracefulShutdown == status # "panicked"

\* The pipeline implements the delivery contract.
phase ==
  CASE status = "exited" -> "complete"
    [] status \in {"panicked", "aborted"} -> "crashed"
    [] closed /\ status = "up" -> "sealed"
    [] OTHER -> "open"

Contract == INSTANCE Delivery WITH Items <- Deliveries, accepted <- Accepted

\* Each step is a step of the contract or invisible to it: in particular
\* nothing is accepted after close, and main returns only when all that was
\* accepted is resolved.
ContractSpec == Contract!Spec
=============================================================================
