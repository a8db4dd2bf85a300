------------------------------- MODULE System -------------------------------
(***************************************************************************)
(* From the feed to the alerts table, over several lives of the process:   *)
(* the pollers of Ingestion send into the channel of cmd/signalstream, the *)
(* workers take items from it, and alerts are rows that outlive the        *)
(* process.  The cursor, the channel and what workers have in hand do not. *)
(*                                                                         *)
(* There is one strategy, which every item matches; Alerter has the rest   *)
(* of the evaluation.  A life ends by a crash, by a send on the closed     *)
(* channel, or by wg.Wait returning after a signal; the operator starts    *)
(* the program again.                                                      *)
(***************************************************************************)
EXTENDS Ingestion

CONSTANTS
  Workers,    \* the worker pool
  Cap         \* capacity of the events channel

ASSUME SystemAssumption == Cap \in Nat \ {0} /\ IsFiniteSet(Workers)

VARIABLES
  phase,      \* of main: "up", "cancelled" (cancel() ran) or "closed"
  queue,      \* contents of eventsChan
  hand,       \* the item a worker has in hand, or 0
  live,       \* its processCtx was not already done when it was derived
  stored,     \* CreateAlert has been called for it
  alerts,     \* rows of an item in the alerts table
  handled     \* items some worker was done with, not merely told to stop

workVars == <<hand, live, stored>>
lifeVars == <<phase, queue, workVars>>
systemVars == <<vars, lifeVars, alerts, handled>>

SystemTypeOK ==
  /\ TypeOK
  /\ phase \in {"up", "cancelled", "closed"}
  /\ queue \in Seq(1..published) /\ Len(queue) <= Cap
  /\ hand \in [Workers -> 0..published]
  /\ live \in [Workers -> BOOLEAN]
  /\ stored \in [Workers -> BOOLEAN]
  /\ alerts \in [1..MaxItems -> 0..Len(sent)]
  /\ handled \subseteq 1..published

SystemInit ==
  /\ Init
  /\ phase = "up"
  /\ queue = <<>>
  /\ hand = [w \in Workers |-> 0]
  /\ live = [w \in Workers |-> FALSE]
  /\ stored = [w \in Workers |-> FALSE]
  /\ alerts = [i \in 1..MaxItems |-> 0]
  /\ handled = {}

-----------------------------------------------------------------------------
(* The feed and its pollers *)

\* Steps of a poller that touch nothing but what it shares with the other.
\* Once ctx is done no feed can be fetched, but the table still can.
Polls(p) ==
  /\ \/ Fetch(p) /\ phase = "up"
     \/ FetchFails(p) \/ LookUp(p) \/ Download(p) \/ Compare(p) \/ Advance(p)
  /\ UNCHANGED <<lifeVars, alerts, handled>>

\* A request that is not answered; one under a context that is done fails.
Unanswered(p) ==
  /\ \/ Stalls(p) /\ phase = "up"
     \/ Hangs(p)
  /\ UNCHANGED <<lifeVars, alerts, handled>>

Appears == Publish /\ UNCHANGED <<lifeVars, alerts, handled>>

\* events <- item blocks while the buffer is full; the poll's end sends nothing.
Sends(p) ==
  /\ Send(p)
  /\ \/ sent' = sent /\ UNCHANGED queue
     \/ /\ sent' # sent
        /\ phase # "closed"
        /\ Len(queue) < Cap
        /\ queue' = Append(queue, next[p])
  /\ UNCHANGED <<phase, workVars, alerts, handled>>

-----------------------------------------------------------------------------
(* Workers *)

Receive(w) ==
  /\ hand[w] = 0
  /\ queue # <<>>
  /\ hand' = [hand EXCEPT ![w] = Head(queue)]
  /\ queue' = Tail(queue)
  /\ live' = [live EXCEPT ![w] = phase = "up"]
  /\ UNCHANGED <<vars, phase, stored, alerts, handled>>

\* The item has a point, is above the threshold, and its row is inserted; this
\* does not look at ctx, but embedding and search before it did.
Store(w) ==
  /\ hand[w] # 0
  /\ live[w]
  /\ ~stored[w]
  /\ alerts' = [alerts EXCEPT ![hand[w]] = @ + 1]
  /\ stored' = [stored EXCEPT ![w] = TRUE]
  /\ UNCHANGED <<vars, phase, queue, hand, live, handled>>

Free(w) ==
  /\ hand' = [hand EXCEPT ![w] = 0]
  /\ live' = [live EXCEPT ![w] = FALSE]
  /\ stored' = [stored EXCEPT ![w] = FALSE]

\* Variant: an item for which an alert was stored is evaluated again.
FinishAgain(w) ==
  /\ hand[w] # 0
  /\ live[w]
  /\ handled' = handled \cup {hand[w]}
  /\ IF stored[w]
     THEN stored' = [stored EXCEPT ![w] = FALSE] /\ UNCHANGED <<hand, live>>
     ELSE Free(w)
  /\ UNCHANGED <<vars, phase, queue, alerts>>

\* The worker is done with an item: alerted, or with no match or a failure of
\* its own (an article, an API or a statement).
Finish(w) ==
  /\ hand[w] # 0
  /\ live[w]
  /\ handled' = handled \cup {hand[w]}
  /\ Free(w)
  /\ UNCHANGED <<vars, phase, queue, alerts>>

\* Calls under a context that is done give up: the item is drained, or was
\* interrupted before its row was inserted.
Interrupted(w) ==
  /\ hand[w] # 0
  /\ phase # "up"
  /\ ~stored[w]
  /\ Free(w)
  /\ UNCHANGED <<vars, phase, queue, alerts, handled>>

-----------------------------------------------------------------------------
(* The life of the process *)

Signal ==
  /\ phase = "up"
  /\ crashes < MaxCrashes
  /\ phase' = "cancelled"
  /\ UNCHANGED <<vars, queue, workVars, alerts, handled>>

CloseChannel ==
  /\ phase = "cancelled"
  /\ phase' = "closed"
  /\ UNCHANGED <<vars, queue, workVars, alerts, handled>>

\* The new process has an empty channel and its workers wait.
Restarted ==
  /\ Crash
  /\ phase' = "up"
  /\ queue' = <<>>
  /\ hand' = [w \in Workers |-> 0]
  /\ live' = [w \in Workers |-> FALSE]
  /\ stored' = [w \in Workers |-> FALSE]
  /\ UNCHANGED <<alerts, handled>>

\* Variant: the cursor is kept in a file, and read at the start.
DiesKeepingCursor ==
  /\ crashes < MaxCrashes
  /\ crashes' = crashes + 1
  /\ cikMap' = "none"
  /\ views' = {}
  /\ pc' = [p \in Pollers |-> "idle"]
  /\ oldest' = [p \in Pollers |-> 1]
  /\ newest' = [p \in Pollers |-> 0]
  /\ next' = [p \in Pollers |-> 0]
  /\ phase' = "up"
  /\ queue' = <<>>
  /\ hand' = [w \in Workers |-> 0]
  /\ live' = [w \in Workers |-> FALSE]
  /\ stored' = [w \in Workers |-> FALSE]
  /\ UNCHANGED <<published, cursor, sent, overlap, failures, alerts, handled>>

\* A fault anywhere.
Dies == Restarted

\* A poller has something left to send, and the channel is closed.
Panics ==
  /\ phase = "closed"
  /\ \E p \in Pollers : pc[p] = "send" /\ next[p] <= newest[p]
  /\ Restarted

\* wg.Wait returns: the loops are idle, or the end of the context has ended
\* their feed request, and the channel is drained.  The first check is not
\* waited for; a loop that waits for the table is.
Exit ==
  /\ phase = "closed"
  /\ \A p \in Loop : pc[p] \in {"idle", "stalled"}
  /\ queue = <<>>
  /\ \A w \in Workers : hand[w] = 0
  /\ Restarted

-----------------------------------------------------------------------------
WorkerStep(w) == Receive(w) \/ Store(w) \/ Finish(w) \/ Interrupted(w)

SystemNext ==
  \/ Appears
  \/ \E p \in Pollers : Polls(p) \/ Unanswered(p) \/ Sends(p)
  \/ \E w \in Workers : WorkerStep(w)
  \/ Signal \/ CloseChannel \/ Exit \/ Panics \/ Dies

SystemSpec == SystemInit /\ [][SystemNext]_systemVars

(***************************************************************************)
(* Fairness: the goroutines go on, the workers' calls return, and after    *)
(* the signal main does what it has to.  Nothing obliges a signal or a     *)
(* fault to come, nor a request of a poller to be left without an answer.  *)
(***************************************************************************)
FairSystemSpec ==
  /\ SystemSpec
  /\ \A p \in Pollers : WF_systemVars(Polls(p) \/ Sends(p))
  /\ \A w \in Workers : WF_systemVars(WorkerStep(w))
  /\ WF_systemVars(CloseChannel)
  /\ WF_systemVars(Exit \/ Panics)

-----------------------------------------------------------------------------
(* Properties *)

\* Every row answers to a send of its item, so to the repetitions that Ingestion
\* bounds; and while the process lives and no two polls overlap, an item is
\* alerted once at most, whatever the buffer, the workers and failed polls do.
AlertsBounded ==
  \A i \in 1..MaxItems :
    /\ alerts[i] <= Cardinality({k \in DOMAIN sent : sent[k] = i})
    /\ crashes = 0 /\ ~overlap => alerts[i] <= 1

\* Unless an unanswered request stops the loop for good, a published item is
\* handled by a worker in the end, or it has left the feed: what a crash or a
\* shutdown takes out of the channel, or out of a worker's hands, is found again
\* by the next life, because the cursor dies as well.
EventuallyHandled ==
  []<>~HeldUp =>
    \A i \in 1..MaxItems :
      i <= published ~> i \in handled \/ i + Window <= published

=============================================================================
