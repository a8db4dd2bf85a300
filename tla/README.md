# SignalStream in TLA+

Specifications of SignalStream: what the backend's goroutines, its channel, its
maps and its databases (`cmd/`, `internal/`) do to each other, and the browser's
session and alert feed (`frontend/`) to the API. Checked with TLC on small
instances and, for their safety, proved with TLAPS for all values of the
constants. Every action names in its comment the code it stands for, and
`PROJECT.json` maps each definition to its lines.

## 1. The system

One Go process. Two pollers push events into a buffered channel, four workers
take them, enrich them and evaluate them against users' strategies; matches are
stored in PostgreSQL and pushed to browsers over SSE; a REST API lets users
manage strategies and alerts.

| component | state | operations | meets the others through |
|---|---|---|---|
| main (`cmd/signalstream/main.go`) | application context, `eventsChan`, WaitGroup | start the goroutines; on a signal `cancel`, `close`, `wg.Wait`, final metrics | channel, context, WaitGroup |
| ingestion (`news_api.go`, `sec_filings.go`) | the last seen ID of each feed; the SEC one is shared by two goroutines | poll, look tickers up, compare with the cursor, advance it, send | channel, counters, CIK map |
| CIK map (`sec/cik_map.go`) | a table of tickers, downloaded once | download under `sync.Once`, look up | the SEC goroutines |
| worker (`eventWorker`) | the event in hand, `processCtx` | receive, `ProcessEvent`, `CheckEventAgainstStrategies` | channel, enrichment, alerter |
| enrichment | points in Qdrant | fetch the article, embed, upsert; create the collection | retry, Qdrant |
| alerter | none of its own; a copy of the active strategies per event | load, pre-filter, embed, search the 10 nearest, compare with the threshold | database, Qdrant, notifiers |
| notification | none | log, insert the alert, then broadcast it | database, broker |
| SSE broker | `clients`: user to a set of channels; a buffer of 64 per channel | Subscribe, Unsubscribe, Broadcast, stream | HTTP handlers and workers |
| retry | attempt, last error | call, back off, give up | context of the caller |
| database, migrations | users, api_keys, strategies, alerts | statements of the handlers and workers; two migrations on every start | SQL constraints |
| REST API | none | register, login, keys, strategies, alerts, stream | database, broker |
| config, startup | environment | validate, connect, migrate, serve, create the collection | everything below |
| frontend (`frontend/src`) | token in `localStorage`, query cache | log in and out, poll and show alerts, mark them read | REST API |
| auth, metrics, qdrant-inspector | see section 7 | | |

**What is hard.** Three kinds of goroutine share a channel that one of them
closes. The broker walks a map after it has released the lock that guards it,
and sends on channels that others close. A cursor is shared without a lock and
moved before the items are sent. Errors in the middle of a loop must not end it,
contexts expire between any two calls, and databases may have committed what the
caller is told has failed. Workers evaluate copies of rows that users change.
Restarts find whatever the last run left, and the migrations run on every start.
Points in Qdrant keep what an earlier run knew of an event. Requests to the feeds have
no timeout, and the download of the CIK table has no context either.
In the browser an answer, a login's included, may come back to a session other than
the one that asked.

**What makes it correct**, per component:

- pipeline: nothing accepted is lost or handled twice; the final metrics are
  complete; shutdown ends, unless a poller is caught in the CIK download;
- ingestion: every item that stays in the feed long enough is sent, in order, and
  repeated only after a restart or an overlap, and then a bounded number of times,
  as long as no request is left without an answer;
- alerter and notification: every alert is justified, and so is every delivery that
  raises none; alerts are stored before they are broadcast, at most one per delivery
  and strategy; one strategy's trouble is not another's;
- broker: the registry is exact; an alert reaches all its user's streaming
  connections once, and nobody else's; slow connections delay nobody;
- retry: the result is honest, the context is respected, the backoff is bounded;
- API and database: a user changes only their own rows, one registration per
  e-mail, a strategy's row follows one life cycle, an alert stays with its user and
  never points at a strategy that is gone or someone else's;
- startup: nothing is used before it is set up, and no failure is permanent;
- the whole: an item that stays in the feed is handled in some life of the
  process, and raises no more alerts than it was sent;
- frontend: a session ends for a reason, an alert known to be read is not shown
  unread again, a feed that is watched catches up.

`PROJECT.json` lists the hazards one by one, at the line where each bites, with
the properties that cover it.

## 2. Modules

```
Delivery  <-refines-  Pipeline   <- PipelineProofs        MCPipeline
                      Broker     <- BrokerProofs          MCBroker
                      Retry      <- RetryProofs           MCRetry
Filters   <-EXTENDS-  Alerter    <- AlerterProofs         MCAlerter
                         | INSTANCE
              StrategyLifecycle  <-refines-  Api          MCApi
Database  <-----------------------EXTENDS----  ^- ApiProofs
                      Ingestion                           MCIngestion
                         ^-EXTENDS-  System               MCSystem
                                       ^- SystemProofs
                      Startup    <- StartupProofs         MCStartup
                      Dashboard  <- DashboardProofs       MCDashboard
```

**Pipeline** - `main.go` with the sending half of the pollers. A delivery is a
pair of a poller and a number; a counter of `metrics.Global` is the set of
deliveries for which its `Add(1)` ran, so counting twice or too early shows.
`Tracked` pollers are in the WaitGroup, the SEC poller's first check is
`Untracked`. A worker's `live` says whether its `processCtx` was not done when it
was derived: a call under a context that is done already fails, one whose context
ends meanwhile may still succeed. The actions are the steps between which
goroutines can be interleaved: `Send` and `Count` are two, as in the code. `Filers`
are the pollers of the SEC feed. Between the fetch and the sends they ask for the CIK
table (`LookUp`), a call that knows nothing of the context and may never return
(`LookUpHangs`), whether the poller downloads or waits for the one who does.

**Delivery** - the contract of the pipeline without goroutines: accept, resolve
once, seal, complete only when all is resolved, or crash. `Pipeline!ContractSpec`
says that Pipeline implements it, with `accepted` computed from what pollers have
sent and `phase` from `closed` and `status`.

**Broker** - `broker.go`. An inner map has an identity, that of the connection
whose `Subscribe` made it, because `Broadcast` keeps a reference to one and walks
it while others change it. Go's `range` over a map that changes is modelled by
`NextEntry` and `End`: what was there all along is produced, what comes or goes
may be. `RacyWrite` is the other outcome of the data race: the runtime notices a
map that is written while it is walked and ends the process.

**Filters** - `MatchesSimpleFilters`, the payload of a point and
`buildQdrantFilter`, as pure operators over lists, with Qdrant's matching rule
beside them (external). **Alerter** - one delivery from `processCtx` to the
broadcast: enrichment with its three ends, loading, the loop over strategies, the
search with its limit, insert and broadcast, while `StrategyLifecycle` steps
change strategies and `Crash` restarts the process. An event stands for its
Qdrant point, because the point's UUID is computed from the event's ID. A *copy* is
an event as it was received once: deliveries of one event may differ in their
tickers, which come from the CIK table of that life, and in the text that was
fetched. `points` says which copy's payload and vector a point holds (`Upsert`), so
the pre-filter sees the delivery in hand and the search what was stored, which is not
the same when enrichment was skipped. An embedding is reduced to the score of a copy
for a strategy.

**StrategyLifecycle** - the steps a strategy's row may take. The alerter is
modelled against these; `Api!LifecycleSpec` shows that the handlers, however they
interleave, take no others. That is how the two modules compose.

**Retry** - one call of `retry.Do`: check, call, back off, with `ContextDone`
anywhere and the choice of the `select` between timer and context.

**Ingestion** - the cursor and the CIK table. Each comparison of an item with the
cursor is a step, since the other goroutine may write it in between. Items are
numbered in order of publication; the feed shows the latest `Window` of them. A
poll of the SEC feed first comes to `GetCIKMap`: the first caller downloads
(`LookUp`, `Download`), others wait, and a failed download leaves the table empty
until the process ends. `views` remembers which tables items were looked up in.
Requests need not be answered: a poller may stall in one to the feed (`Stalls`), which
only the end of the context would end, or hang in the download (`Hangs`), which
nothing ends and which keeps everyone in `sync.Once`. `HeldUp` says when that has
stopped the loop. Polygon's iterator follows the pages of its feed and may fail or
stall at each; it is an instance with a `Window` no smaller than the feed.

**System** - Ingestion with the channel, the workers and the alerts table, over
several lives of the process. What dies with a process (cursor, channel, items in
hand) is apart from what outlives it (alerts, the feed). A life ends by a fault,
by a send on the closed channel or by a shutdown; one strategy stands for all. A
poll that is stalled when the signal comes returns with the context; one that hangs
keeps its life from ending by `Exit`.
It says what neither Pipeline nor Ingestion can: what becomes of an item that a
dying process had in its channel, and how repeated sends show up as alerts.

**Database** - the tables of migration 001 and the statements run on them, each an
operator with the constraints it meets (unique keys, `WHERE user_id`, the check of
a reference, `ON DELETE SET NULL`). **Api** - the twelve kinds of request as
handlers over these statements. A handler is one step but for the toggle, which
reads and writes in two. `Executed` lets every statement be committed although the
client is told 500. `Raise` is the workers' insert, so that handlers meet
rows that appear while they run.

**Startup** - the steps of `main` before the pollers, over any number of starts on
the same databases; `Stopped` is a signal or a kill, also between two of them.

**Dashboard** - one tab: `authStore.ts`, the interceptors of `client.ts`, the
protected routes and the alert feed. A request carries the token the store had
when it left; the server answers it in a step of its own (`Serve`, `Fail`,
`ServePart`), and it comes back in another (`Deliver`), whatever session there is by
then. A login is such a request: the form awaits it but can be sent again, and left by
a link or the history, so `LoggedIn` and the 401 of a mistyped password find the user
wherever they are. The query
cache is external: it is modelled from the options the feed passes, and keeps its
data under a key that names no user.

Definitions marked *Variant* in a module are not part of its specification. Each
is an action as a plausible bug would have it, and breaks one property when put
in the place of the action below it; `PROJECT.json` ("mutants") says which.

## 3. Runs

Run one with `tlc -workers 2 -config <cfg> <module>`.

| run | what it shows | bounds |
|---|---|---|
| `pipeline` | `ExactlyOnce`, `IngestedLag`, `FinalMetrics`, `DrainedUnenriched`, `EventuallyResolved`, `ShutdownCompletes`, and that the contract is implemented (`ContractSpec`) | a tracked and an untracked poller, one worker, capacity 1, two deliveries each |
| `broker` | `Registry`, `OwnAlertsOnce`, `NoneMissed`, `BroadcastEnds`, `HungUpLeaves` | two tabs of one user, one of another; two alerts for the first; one worker; buffers of 1 |
| `alerter` | `AlertsJustified`, `UnmatchedForCause`, `StoredThenShown`, `EverySettled`, `CheckEnds` | two workers, two deliveries of two events, each stored by an earlier run with other tickers, two strategies, limit 1, one crash |
| `retry` | `HonestResult`, `AtMostOneLate`, `BackoffGrows`, `Returns` | the program's 3 retries and factor 2; base 4, cap 12, so that the third delay is capped |
| `api` | `TypeOK`, `OneRegistration`, `OwnerOnly`, `AlertsAttached`, `LifecycleSpec` | any three requests of twelve kinds, two users, two passwords, one strategy, two alerts |
| `ingestion` | `InOrder`, `AtMostThree`, `OneView`, `EventuallySent` | the SEC loop and its first check, a page of 2, three items, one failed poll, one restart |
| `startup` | `SetUpBeforeUse`, `RunsAgain` | key of 29 or 32 bytes, two outages, any number of starts |
| `system` | `SystemTypeOK`, `AlertsBounded`, `EventuallyHandled` | the loop and the first check, one worker, capacity 1, a page of 2, two items, two lives |
| `dashboard` | `TypeOK`, `AckedThenRead`, `EndsForCause`, `FeedCatchesUp` | two users, two requests in flight, two logins that succeed, two alerts on pages of 1, one failure (an answer 500, a short list or a mistyped password) |

The types of Pipeline, Broker, Retry, Alerter, Ingestion and Startup are proved
(section 5), and no run repeats them; those of Api, System and Dashboard, which say
more than types, are checked and proved.

Why the bounds are enough to be interesting:

- `pipeline`: with a capacity of one each poller blocks, on the other's delivery or
  on its own, and the worker can finish an event before it is counted. More
  workers and a longer channel are covered by the proofs, which remove all bounds
  for the safety part.
- `broker`: a buffer of one overflows with the second alert; two tabs let one
  leave while the other must still be served; the third connection belongs to
  someone else. Two workers walking one map are covered by the proofs, which hold
  for any number of workers; the run has one so that its liveness properties can
  be checked too.
- `alerter`: a filing that an earlier run stored without tickers, since its CIK table
  had failed to load, and an article it stored with another ticker and text
  (`Stored`); a strategy with a source and one with two sources and two tickers, so
  that both kinds of condition occur; one result, for which the older copy of the
  article competes with the filing; a crash that may come between insert and
  broadcast. Even scores stand for the
  values a float32 can hold, and the threshold of 3 for one that it cannot: a
  threshold that was narrowed to the scores' type would accept another score.
- `api`: two requests race and a third observes them, while two alerts are raised.
  More requests of the same kinds only repeat a race; every property is about two
  requests at most. Requests, users, passwords and alerts are interchangeable, and
  only safety is checked, so they are a symmetry set.
- `ingestion`: three items on a page of two make the cursor leave the page; the
  first check can overlap two polls of the loop, which is the worst case of
  `AtMostThree`.
- `startup`: two outages let a start fail twice at different steps.
- `system`: two lives are a life that loses items and one that finds them; each
  can end in every way but the second, which has to go on for the property to be
  about anything. The first check and the loop share the table, so that either may
  keep the other waiting.
- `dashboard`: two requests let an old answer meet a new session, or a list meet
  the mark it should show; a login can be sent twice before its first answer comes;
  pages of one let an alert push another off its page.

Deadlock is checked where the system has no reason to stop: in `pipeline` (a
process that has ended stutters explicitly, by `Ended`) and in `startup`. The
others stop when their bounded inputs are used up, or when the process has died
(`broker`).

## 4. Fairness

Only what the code and its runtime oblige to happen is fair. The proofs
are about the specifications without it (`SystemSpec` of System, `Spec` elsewhere),
which are what safety depends on; a run with a liveness property checks the one with
it.

- A goroutine that can take a step is scheduled: `WF` on the steps of pollers,
  workers, main, and of a broadcasting worker.
- Leaving a `select` is strongly fair (`Stop`, `Unregister`): Go chooses at random
  among ready cases, so a ready `ctx.Done()` cannot be passed over for ever.
- The workers' calls return. For OpenAI and Qdrant calls that follows from the
  two-minute context, for article fetches from their 30 s timeout. For `CreateAlert`,
  which runs under `context.Background()`, and for the two Qdrant calls of the start it
  is an assumption about the databases, listed as a hazard.
- The pollers' calls need not. The feed clients have no timeout, so a request returns
  for certain only when the application's context ends; the CIK download
  (`cik_map.go:37`) has no context, so it need never return, nor the `sync.Once` that
  others wait in. In `Pipeline` a fetch is fair only once `cancelled` holds and a
  lookup may hang; `ShutdownCompletes` names that as the one thing that may keep the
  process up. In `Ingestion` and `System` requests may stall or hang at any time;
  `EventuallySent` and `EventuallyHandled` have the premise `[]<>~HeldUp`, that no such
  request stops the loop for good. A first check whose own feed request
  stalls is no excuse.
- Nothing obliges a signal, a tick of one particular feed item, a connection, a
  request, an outage or a crash to happen. In `Ingestion` the loop polls again and
  again and only `MaxFailures` polls fail; in `Startup` the operator restarts the
  program, corrects a key it rejected, services come back, and the process is not
  killed for ever in the middle of a start (`MaxOutages`).
- In `System` also what `main` does after a signal: closing the channel, and ending
  by `Exit` or, if a poller is left with something to send, by `Panics`. The
  operator starts the program again at once; that takes no step of its own.
- In `Dashboard` the interval fires while the tab has the focus (`Poll`), the
  server answers, and answers arrive. The user owes nothing, so `FeedCatchesUp` has
  a premise, `Watched`: the user stays on the feed and only watches. One who clicks
  on and on puts off the fetch under way each time.

## 5. Proofs

`tlapm <module>` checks each proof module. They hold for all values of the
constants that satisfy the module's named assumptions, which TLC evaluates on the
instances. Every invariant and every action property that a passing run checks is
proved; so are the three refinements (`Implements`, `ImplementsLifecycle`,
`SystemPolls`).

**PipelineProofs.** `Inv` strengthens `TypeOK`, `ExactlyOnce` and `IngestedLag`
by what control points say: a worker has a delivery exactly between receive and
resolve (`HandInv`), a poller at "send" has something to send, and one at "count"
has sent (`BatchInv`), a worker leaves only a channel that is closed and empty
(`DrainInv`), `main` returns only after those it waits for (`WaitInv`), and what is
enriched is processed or in the hands of a worker about to check it (`EnrichInv`).
`ExactlyOnce` alone is not inductive: without `HandInv` a worker at "receive"
could hold a delivery that the next receive would drop; `FinalMetrics` needs
`DrainInv` and `WaitInv`. `DrainedUnenriched` follows a buffered delivery with
`Doomed`, which holds from the cancellation on: it is not enriched, and whoever has
it in hand derived its context too late. `Implements` shows initial state and every step against
`Delivery`: a send accepts, `Check` and `EnrichFails` resolve, `CloseChannel`
seals, `Exit` completes, a panic crashes, all else stutters.

**BrokerProofs.** The registry alone does not tell what a worker on its walk will
meet. `Inv` adds that an inner map holds one user's connections (`OwnerInv`), that
a worker walks the map of its alert's user (`WalkInv`), that no two workers have
one alert (`DistinctInv`), that whoever was in the map at the fetch is still in it
or has left (`BaseInv`), and that exactly the entries already produced have been
given the alert (`GivenInv`). `NoneMissed` and `OwnAlertsOnce` follow.

**RetryProofs.** `Inv` ties the outcomes so far to the control point, and says
that a late call leaves the context done, so that no check lets another begin.
`BackoffGrows` rests on `Waited`: the latest backoff was no longer than the delay of
the attempt before. It is proved for a factor of 2, the one of `DefaultConfig`, which
every caller of `Do` uses; with a factor of 1 it is false. The provers know no laws
of powers; that 2^(n+1) is twice 2^n comes from the library's theorem on the number
of subsets (`Doubling`).

**AlerterProofs.** First the filters. `SameCriterion`: for lists of any length the
two accept the same articles. The case of one value (a plain condition) and of several
(a nested "should") are shown to mean the same. Then the alerter. `Inv` adds to
`AlertsJustified` and `StoredThenShown` that a point holds a copy of its own event that
was written (`PointsOK`), that a worker at the notifiers has such a copy to show for
its alert (`Justified`; the point itself may have been overwritten since, which is why
`written` is kept), that no two workers have one delivery (`Owned`),
and that whatever a worker may still store has no row yet (`Fresh`), without which a
second insert could not be excluded.
`UnmatchedForCause` is shown of the step `NoMatch`: by `SameCriterion`, applied to the
copies that the points hold, a search sees exactly the points that pass
`MatchesSimpleFilters` (`SearchAgrees`); if the event's own is among them and not
among the results, these are full of points as near (`CrowdedOut`, by cardinality).
`EverySettled` needs `Settled`: in the loop, whatever of the loaded strategies is
neither still to do nor at hand has an outcome.

**SystemProofs**, on Ingestion. `Inv` says that a poll stays in its page (`InPage`)
and that one poller at most downloads the table, before anything is looked up
(`OneDownload`); `OneView` follows. For `InOrder`, `Serial` describes a run in which
polls follow one another: the cursor divides what was sent from what the poll under
way will send (`Divided`). `InOrder` alone is not inductive, for nothing in it says
that a poll begins where the last one ended. `AtMostThree` is a matter of budget.
`Spare(i)` is what may still be sent of item i in this life: the loop may be about to
send it (`SendsAt`); if the cursor has not passed it, or comes to be moved back, it may
send it in another poll (`MaySend`); the first check may send it, and may move the
cursor back (`MayRewind`), once each. `Quota` says that sends and `Spare` together stay
within three for each life, and no step raises their sum: when the first check moves
the cursor back the loop gains what the first check loses. This is the one argument
that needs the assumption `OneOfEach`: a feed has one loop (`main.go:118`) and at most
one first check (`sec_filings.go:40`).

**SystemProofs**, on System. A step of System is one of Ingestion or leaves
Ingestion's variables alone (`SystemPolls`), so all of the above holds of the system.
`SystemInv` adds `Accounted`: for each item the rows, the copies in the channel and the
copies in hand that are not yet stored are no more than the sends. `AlertsBounded`
alone is not inductive, since it does not say where a row comes from. It follows with
`InOrder`; so does, with `AtMostThree`, `AtMostThreeRows`, which no run checks
separately. `CountAppend` and `CountTail` say how an append and a receive change the
number of times an item is in a sequence.

**StartupProofs.** `Inv` adds to `SetUpBeforeUse` what a start has behind it when it
comes to the server (`Migrated`); that tables are never taken away carries it from
one start to the next.

**ApiProofs.** Every step runs one of Database's statements or none
(`StepIsStatement`); types, both halves of `AlertsAttached` and the life cycle are then
shown once per statement and not per handler (`Statement`, `Book`). `OneRegistration` needs `Winners`: a
request that was told 201 put a password in the account, so later ones are refused. `OwnerOnly` and `ImplementsLifecycle`
(with `StrategyLifecycle`, on which Alerter rests) are step by step.

**DashboardProofs.** What a request in flight carries was right when the server
answered, and has to be still when it arrives. `Honest` says which part of it lasts: a token
refused with a 401 stays expired, and an alert whose mark was answered with a 200
stays marked. `AckedThenRead` is inductive only with this and with the
part of `TypeOK` that says that what the page knows to be read is read. `EndsForCause`
follows from `Honest` step by step; neither the 401 that answers another session's
request nor that of a mistyped login can be left out of its causes, for in the code
both may end a valid session from any page.

**Only model-checked.** All liveness (`EventuallyResolved`, `ShutdownCompletes`,
`BroadcastEnds`, `HungUpLeaves`, `CheckEnds`, `Returns`, `EventuallySent`,
`RunsAgain`, `EventuallyHandled`, `FeedCatchesUp`): TLAPS does not reason about
fairness here.

## 6. Where code and documents disagree

Three runs expect a violation; `PROJECT.json` ("findings") quotes the documents.

- `pipeline_panic`: closing the channel at shutdown while a poller still has an
  event to send panics; the README promises a graceful shutdown.
- `broker_panic`: a broadcast sends on a channel that `Unsubscribe` has closed; a
  test says that a broadcast to a user without connections should not panic.
- `startup_schema`: migration 002 does nothing after 001, so the alerts table
  lacks `url` and `similarity_score`, and no alert can be stored or listed.
  (Alerter and Api are about a table that has both columns, as 002 intends.)

Five more can be reproduced with configurations kept beside the others:

| configuration (module) | property | document | code |
|---|---|---|---|
| `MCBrokerTabs.cfg` (MCBroker) | `BroadcastSurvivesTabs` | README: "supporting multiple tabs per user" | a tab that comes or goes writes the map a worker walks (`broker.go:66`), which the Go runtime may treat as fatal |
| `MCAlerterLimit.cfg` (MCAlerter) | `SemanticMatchAlerts` | README, line 5: alerts "when content semantically matches their strategies above a configurable similarity threshold" | the search returns 10 results of all events ever stored (`alerter/service.go:140`), and nearer old ones hide the current one |
| `MCAlerterPartial.cfg` (MCAlerter) | `AllActiveEvaluated` | `alerter/service.go:104`: "against all active strategies" | `rows.Err` is not checked (`database/strategies.go:82`), so the list may be cut short |
| `MCRetryAttempts.cfg` (MCRetry) | `ThreeAttempts` | README: "3 attempts" | three retries are four attempts (`retry.go:34`) |
| `MCApiToggle.cfg` (MCApi) | `TogglesFlip` | README: "Toggle strategy active/paused" | read, negate, write in two statements (`api/strategies.go:120`): of two toggles that overlap one has no effect |

## 7. Not modelled, and why

- `internal/auth` (JWT, bcrypt, AES-GCM): pure functions without state; Api uses
  their outcomes, Dashboard that a token expires.
- The contents of the CIK table: the tickers of an event are an input of Alerter.
- `internal/metrics`: `ErrorsTotal`, `RetryAttempts` and the JSON handler, which
  nothing decides on.
- CORS; `getUserAPIKey`, a stub nobody calls, and `GetAPIKey`, which nothing calls;
  the limits of the connection pool, which only delay.
- Article extraction, embeddings and similarity: reduced to outcomes and to natural
  numbers, whose only structure is that scores lie on a coarser grid.
- The frontend's rendering and its pages for strategies and keys, which use the same
  cache and the same kind of mutation under other keys; several tabs, whose stores
  share `localStorage` but not their memory.
- `tools/qdrant-inspector`: a diagnostic that only reads.

Four hazards have no property, each with its reason in `PROJECT.json`: the search
limit and the lists cut short (refuted beside the listed runs, section 6), and two
calls under `context.Background()`, whose return the fairness of section 4 assumes.

## 8. Plan

Done, the most important behaviour first: Pipeline with its contract; Broker; Retry;
Filters and Alerter; StrategyLifecycle, Database and Api; Ingestion with the CIK
table; Startup; System; Dashboard; and the proofs of the safety of all of them.

Left:

1. *Compositions.* System with Broker, so that a panic in a broadcast is seen to
   cost the alerts of other events; System over more than one strategy.
2. *Proofs.* What such a composition adds: that the alerter's steps are those that
   System allows a worker.
3. *Frontend.* Several tabs: each keeps its own copy of a shared session.
4. *Instances.* Two broadcasting workers for the safety part of `broker`, and the
   Polygon poller (no first check, no lookup) as an instance of `ingestion`.
