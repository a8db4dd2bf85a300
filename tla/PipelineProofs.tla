--------------------------- MODULE PipelineProofs ---------------------------
(***************************************************************************)
(* Proofs about Pipeline for any pollers, workers, capacity and bounds.    *)
(***************************************************************************)
EXTENDS Pipeline, TLAPS

-----------------------------------------------------------------------------
(* The inductive invariant *)

\* A worker has a delivery in hand exactly while it works on it.
HandInv ==
  \A w \in Workers : cur[w] # None <=> wpc[w] \in {"enrich", "check"}

\* What a poll still has to send fits the bound; a poller that is about to
\* send has something to send, one that is about to count has sent.
BatchInv ==
  \A p \in Producers :
    /\ batch[p] + sent[p] <= MaxEvents
    /\ pc[p] = "send" => batch[p] > 0
    /\ pc[p] = "count" => sent[p] > 0

\* A worker has only left a channel that is closed and drained.
DrainInv ==
  \A w \in Workers : wpc[w] = "done" => closed /\ queue = <<>>

\* main has only returned when the goroutines it waits for have.
WaitInv ==
  status = "exited" =>
    /\ closed
    /\ \A p \in Tracked : pc[p] = "done"
    /\ \A w \in Workers : wpc[w] = "done"

\* What is enriched has been checked as well, or is about to be.
EnrichInv ==
  \A d \in enriched :
    d \in processed \/ \E w \in Workers : wpc[w] = "check" /\ cur[w] = d

Inv ==
  /\ TypeOK
  /\ ExactlyOnce
  /\ HandInv
  /\ BatchInv
  /\ DrainInv
  /\ WaitInv
  /\ EnrichInv
  /\ IngestedLag

-----------------------------------------------------------------------------
(* Sequences as the channel uses them *)

\* Appending adds one element and keeps the elements distinct.
LEMMA AppendElements ==
  ASSUME NEW S, NEW q \in Seq(S), NEW e \in S
  PROVE  LET r == Append(q, e) IN
         /\ r \in Seq(S)
         /\ {r[i] : i \in 1..Len(r)} = {q[i] : i \in 1..Len(q)} \cup {e}
         /\ (/\ \A i, j \in 1..Len(q) : q[i] = q[j] => i = j
             /\ e \notin {q[i] : i \in 1..Len(q)})
            => \A i, j \in 1..Len(r) : r[i] = r[j] => i = j
<1> DEFINE r == Append(q, e)
<1>1. /\ r \in Seq(S)
      /\ Len(r) = Len(q) + 1
      /\ Len(q) \in Nat
      /\ \A i \in 1..Len(q) : r[i] = q[i]
      /\ r[Len(q) + 1] = e
  OBVIOUS
<1> HIDE DEF r
<1>2. {r[i] : i \in 1..Len(r)} = {q[i] : i \in 1..Len(q)} \cup {e}
  <2>1. \A i \in 1..Len(r) : i \in 1..Len(q) \/ i = Len(q) + 1
    BY <1>1
  <2>2. \A i \in 1..Len(q) : i \in 1..Len(r)
    BY <1>1
  <2>3. Len(q) + 1 \in 1..Len(r)
    BY <1>1
  <2> QED BY <1>1, <2>1, <2>2, <2>3
<1>3. ASSUME \A i, j \in 1..Len(q) : q[i] = q[j] => i = j,
             e \notin {q[i] : i \in 1..Len(q)},
             NEW i \in 1..Len(r), NEW j \in 1..Len(r), r[i] = r[j]
      PROVE  i = j
  BY <1>1, <1>3
<1> QED BY <1>1, <1>2, <1>3 DEF r

\* Taking the head removes one element, and no other if they are distinct.
LEMMA TailElements ==
  ASSUME NEW S, NEW q \in Seq(S), q # <<>>
  PROVE  LET t == Tail(q) IN
         /\ t \in Seq(S)
         /\ Head(q) \in S
         /\ {q[i] : i \in 1..Len(q)} = {t[i] : i \in 1..Len(t)} \cup {Head(q)}
         /\ (\A i, j \in 1..Len(q) : q[i] = q[j] => i = j)
            => /\ Head(q) \notin {t[i] : i \in 1..Len(t)}
               /\ \A i, j \in 1..Len(t) : t[i] = t[j] => i = j
<1> DEFINE t == Tail(q)
<1>1. /\ t \in Seq(S)
      /\ Len(q) \in Nat /\ Len(q) > 0
      /\ Len(t) = Len(q) - 1
      /\ \A i \in 1..Len(t) : t[i] = q[i + 1]
      /\ Head(q) = q[1]
      /\ q[1] \in S
  OBVIOUS
<1> HIDE DEF t
<1>2. {q[i] : i \in 1..Len(q)} = {t[i] : i \in 1..Len(t)} \cup {Head(q)}
  <2>1. \A i \in 1..Len(q) : i = 1 \/ (i - 1 \in 1..Len(t) /\ t[i - 1] = q[i])
    BY <1>1
  <2>2. \A i \in 1..Len(t) : i + 1 \in 1..Len(q) /\ t[i] = q[i + 1]
    BY <1>1
  <2>3. 1 \in 1..Len(q)
    BY <1>1
  <2> QED BY <1>1, <2>1, <2>2, <2>3
<1>3. ASSUME \A i, j \in 1..Len(q) : q[i] = q[j] => i = j
      PROVE  /\ Head(q) \notin {t[i] : i \in 1..Len(t)}
             /\ \A i, j \in 1..Len(t) : t[i] = t[j] => i = j
  BY <1>1, <1>3
<1> QED BY <1>1, <1>2, <1>3 DEF t

-----------------------------------------------------------------------------
(* Each step preserves the invariant *)

LEMMA Constants == /\ Cap \in Nat \ {0} /\ MaxBatch \in Nat /\ MaxEvents \in Nat
                   /\ None \notin Deliveries
                   /\ Tracked \subseteq Producers /\ Untracked \subseteq Producers
                   /\ Tracked \cap Untracked = {} /\ Workers # {}
BY PipelineAssumption DEF Producers

LEMMA InitInv == Init => Inv
<1> SUFFICES ASSUME Init PROVE Inv
  OBVIOUS
<1>1. TypeOK
  <2>1. pc \in [Producers -> PollStates]
    BY DEF Init, PollStates
  <2>2. wpc \in [Workers -> WorkStates]
    BY DEF Init, WorkStates
  <2>3. batch \in [Producers -> Nat] /\ sent \in [Producers -> 0..MaxEvents]
    BY Constants DEF Init
  <2>4. queue \in Seq(Deliveries)
    BY DEF Init
  <2>5. cur \in [Workers -> Deliveries \cup {None}] /\ live \in [Workers -> BOOLEAN]
    BY DEF Init
  <2>6. cancelled \in BOOLEAN /\ closed \in BOOLEAN
    BY DEF Init
  <2> QED BY <2>1, <2>2, <2>3, <2>4, <2>5, <2>6 DEF Init, TypeOK
<1>2. \A d \in Deliveries : d[1] \in Producers /\ d[2] \in Nat /\ d[2] > 0
  BY Constants DEF Deliveries
<1>3. Accepted = {} /\ Queued = {} /\ InHand = {} /\ Resolved = {}
  <2>1. \A p \in Producers : sent[p] = 0
    BY DEF Init
  <2>2. Accepted = {}
    BY <1>2, <2>1 DEF Accepted
  <2>3. Queued = {} /\ InHand = {} /\ Resolved = {}
    BY DEF Init, Queued, InHand, Resolved
  <2> QED BY <2>2, <2>3
<1>4. ExactlyOnce
  BY <1>3 DEF Init, ExactlyOnce
<1>5. HandInv /\ BatchInv /\ DrainInv /\ WaitInv /\ EnrichInv
  BY Constants DEF Init, HandInv, BatchInv, DrainInv, WaitInv, EnrichInv
<1>6. IngestedLag
  <2>1. \A p \in Producers : pc[p] # "count"
    BY DEF Init
  <2>2. ingested = {}
    BY DEF Init
  <2> QED BY <1>2, <1>3, <2>1, <2>2 DEF IngestedLag
<1> QED BY <1>1, <1>4, <1>5, <1>6 DEF Inv

\* Steps of a poller that touch neither the channel nor a delivery.
QuietPoll(p) ==
  Tick(p) \/ Stop(p) \/ FetchFails(p) \/ LookUpHangs(p) \/ SendPanics(p)

\* They and those of main preserve the invariant.
LEMMA QuietStep ==
  ASSUME Inv,
         \/ \E p \in Producers : QuietPoll(p)
         \/ Signal \/ CloseChannel \/ Exit \/ ServerFails \/ Ended
         \/ UNCHANGED vars
  PROVE  Inv'
<1> USE DEF Inv, chanVars, pollVars, workVars, counters, vars
<1>1. UNCHANGED <<queue, batch, sent, wpc, cur, live, counters>>
  BY DEF QuietPoll, Tick, Stop, FetchFails,
         LookUpHangs, SendPanics, Signal, CloseChannel, Exit,
         ServerFails, Ended
<1>2. TypeOK'
  BY Constants, <1>1 DEF TypeOK, QuietPoll, Tick, Stop, FetchFails,
         LookUpHangs, SendPanics, Signal,
         CloseChannel, Exit, ServerFails, Ended, AfterPoll, PollStates
<1>3. ExactlyOnce'
  <2>1. UNCHANGED <<Accepted, Queued, InHand, Resolved>>
    BY <1>1 DEF Accepted, Queued, InHand, Resolved
  <2>2. ExactlyOnce
    OBVIOUS
  <2> QED BY <1>1, <2>1, <2>2 DEF ExactlyOnce
<1>4. (HandInv /\ EnrichInv)'
  BY <1>1 DEF HandInv, EnrichInv
<1>5. BatchInv'
  BY <1>1 DEF BatchInv, TypeOK, QuietPoll, Tick, Stop, FetchFails,
         LookUpHangs, SendPanics, Signal,
         CloseChannel, Exit, ServerFails, Ended, AfterPoll
<1>6. (DrainInv /\ WaitInv)'
  BY <1>1 DEF DrainInv, WaitInv, QuietPoll, Tick, Stop, FetchFails,
         LookUpHangs, SendPanics, Signal,
         CloseChannel, Exit, ServerFails, Ended
<1>7. IngestedLag'
  <2>1. \A p \in Producers : pc'[p] = "count" <=> pc[p] = "count"
    BY DEF TypeOK, QuietPoll, Tick, Stop, FetchFails,
         LookUpHangs, SendPanics, Signal, CloseChannel,
           Exit, ServerFails, Ended, AfterPoll
  <2>2. \A d \in Deliveries : d[1] \in Producers
    BY DEF Deliveries
  <2> QED BY <1>1, <2>1, <2>2 DEF IngestedLag, Accepted
<1> QED BY <1>2, <1>3, <1>4, <1>5, <1>6, <1>7

\* The page is fetched; what is new in it is known after the lookup.
LEMMA SelectStep ==
  ASSUME Inv, NEW p \in Producers, FetchOK(p) \/ LookUp(p) PROVE Inv'
<1> USE DEF Inv, chanVars, pollVars, workVars, counters
<1>1. /\ UNCHANGED <<cancelled, closed, status, queue, sent, workVars, counters>>
      /\ pc[p] \in {"fetch", "lookup"} /\ status = "up"
  BY DEF FetchOK, LookUp
<1>2. PICK n \in Nat, s \in {"lookup", "send", AfterPoll(p)} :
        /\ sent[p] + n <= MaxEvents
        /\ batch' = [batch EXCEPT ![p] = n]
        /\ pc' = [pc EXCEPT ![p] = s]
        /\ s = "send" => n > 0
  <2>1. CASE Select(p)
    <3>1. PICK n \in 0..MaxBatch :
            /\ sent[p] + n <= MaxEvents
            /\ batch' = [batch EXCEPT ![p] = n]
            /\ pc' = [pc EXCEPT ![p] = IF n > 0 THEN "send" ELSE AfterPoll(p)]
      BY <2>1 DEF Select
    <3>2. (IF n > 0 THEN "send" ELSE AfterPoll(p)) \in {"lookup", "send", AfterPoll(p)}
      OBVIOUS
    <3>3. (IF n > 0 THEN "send" ELSE AfterPoll(p)) = "send" => n > 0
      BY Constants DEF AfterPoll
    <3>4. n \in Nat
      BY Constants
    <3> QED BY <3>1, <3>2, <3>3, <3>4
  <2>2. CASE pc' = [pc EXCEPT ![p] = "lookup"] /\ UNCHANGED batch
    <3>1. batch[p] \in Nat /\ sent[p] \in Nat /\ sent[p] + batch[p] <= MaxEvents
      BY Constants DEF TypeOK, BatchInv
    <3>2. batch' = [batch EXCEPT ![p] = batch[p]]
      BY <2>2 DEF TypeOK
    <3> QED BY <2>2, <3>1, <3>2
  <2> QED BY <2>1, <2>2 DEF FetchOK, LookUp
<1>3. TypeOK'
  BY Constants, <1>1, <1>2 DEF TypeOK, AfterPoll, PollStates
<1>4. ExactlyOnce'
  BY <1>1 DEF ExactlyOnce, Accepted, Queued, InHand, Resolved
<1>5. (HandInv /\ EnrichInv /\ DrainInv)'
  BY <1>1 DEF HandInv, EnrichInv, DrainInv
<1>6. BatchInv'
  BY Constants, <1>1, <1>2 DEF BatchInv, TypeOK, AfterPoll
<1>7. WaitInv'
  BY <1>1 DEF WaitInv
<1>8. IngestedLag'
  <2>1. \A q \in Producers : pc'[q] = "count" <=> pc[q] = "count"
    BY <1>1, <1>2 DEF TypeOK, AfterPoll
  <2>2. \A d \in Deliveries : d[1] \in Producers
    BY DEF Deliveries
  <2> QED BY <1>1, <2>1, <2>2 DEF IngestedLag, Accepted
<1> QED BY <1>3, <1>4, <1>5, <1>6, <1>7, <1>8

\* A send accepts one delivery that was accepted nowhere before.
LEMMA SendAccepts ==
  ASSUME Inv, NEW p \in Producers, Send(p)
  PROVE  /\ <<p, sent[p] + 1>> \in Deliveries \ Accepted
         /\ Accepted' = Accepted \cup {<<p, sent[p] + 1>>}
<1> DEFINE e == <<p, sent[p] + 1>>
<1>1. batch[p] > 0 /\ batch[p] \in Nat /\ sent[p] \in Nat
  BY DEF Inv, TypeOK, BatchInv, Send
<1>2. sent[p] + 1 \in 1..MaxEvents
  BY Constants, <1>1 DEF Inv, BatchInv
<1>3. e \in Deliveries
  BY <1>2 DEF Deliveries
<1>4. e \notin Accepted
  BY <1>1 DEF Accepted
<1>5. \A d \in Deliveries : d = e <=> d[1] = p /\ d[2] = sent[p] + 1
  BY DEF Deliveries
<1>6. \A d \in Deliveries : d[1] \in Producers /\ d[2] \in Nat
  BY DEF Deliveries
<1>7. \A q \in Producers : sent[q] \in Nat
                         /\ sent'[q] = IF q = p THEN sent[p] + 1 ELSE sent[q]
  BY DEF Inv, TypeOK, Send
<1>8. \A d \in Deliveries : d[2] <= sent'[d[1]] <=> d[2] <= sent[d[1]] \/ d = e
  BY <1>1, <1>5, <1>6, <1>7
<1> QED BY <1>3, <1>4, <1>8 DEF Accepted

LEMMA SendStep ==
  ASSUME Inv, NEW p \in Producers, Send(p) PROVE Inv'
<1> USE DEF Inv, chanVars, pollVars, workVars, counters
<1> DEFINE e == <<p, sent[p] + 1>>
<1>1. /\ UNCHANGED <<cancelled, closed, status, wpc, cur, live, counters>>
      /\ pc[p] = "send" /\ status = "up" /\ ~closed
      /\ queue' = Append(queue, e)
      /\ sent' = [sent EXCEPT ![p] = @ + 1]
      /\ batch' = [batch EXCEPT ![p] = @ - 1]
      /\ pc' = [pc EXCEPT ![p] = "count"]
  BY DEF Send
<1>2. batch[p] > 0 /\ batch[p] \in Nat /\ sent[p] \in Nat
      /\ batch[p] + sent[p] <= MaxEvents
  BY <1>1 DEF TypeOK, BatchInv
<1>3. e \in Deliveries /\ e \notin Accepted /\ Accepted' = Accepted \cup {e}
  BY SendAccepts
<1>4. /\ queue' \in Seq(Deliveries)
      /\ Queued' = Queued \cup {e}
      /\ \A i, j \in 1..Len(queue') : queue'[i] = queue'[j] => i = j
  <2>1. queue \in Seq(Deliveries) /\ e \notin Queued
        /\ \A i, j \in 1..Len(queue) : queue[i] = queue[j] => i = j
    BY <1>3 DEF TypeOK, ExactlyOnce
  <2> HIDE DEF e
  <2> QED BY <1>1, <1>3, <2>1, AppendElements DEF Queued
<1>5. TypeOK'
  BY Constants, <1>1, <1>2, <1>4 DEF TypeOK, PollStates
<1>6. ExactlyOnce'
  <2>1. UNCHANGED <<InHand, Resolved, processed, failed, cur>>
    BY <1>1 DEF InHand, Resolved
  <2> HIDE DEF e
  <2> QED BY <1>3, <1>4, <2>1 DEF ExactlyOnce
<1>7. (HandInv /\ EnrichInv /\ WaitInv)'
  BY <1>1 DEF HandInv, EnrichInv, WaitInv
<1>8. DrainInv'
  BY <1>1 DEF DrainInv
<1>9. BatchInv'
  BY Constants, <1>1, <1>2 DEF BatchInv, TypeOK
<1>10. IngestedLag'
  <2>1. \A d \in Deliveries : d = e <=> d[1] = p /\ d[2] = sent[p] + 1
    BY DEF Deliveries
  <2>2. \A d \in Deliveries : d[1] \in Producers
    BY DEF Deliveries
  <2>3. \A d \in Deliveries :
          pc'[d[1]] = "count" /\ d[2] = sent'[d[1]]
          <=> (pc[d[1]] = "count" /\ d[2] = sent[d[1]]) \/ d = e
    BY <1>1, <1>2, <2>1, <2>2 DEF TypeOK
  <2> HIDE DEF e
  <2> QED BY <1>1, <1>3, <2>3 DEF IngestedLag
<1> QED BY <1>5, <1>6, <1>7, <1>8, <1>9, <1>10

LEMMA CountStep ==
  ASSUME Inv, NEW p \in Producers, Count(p) PROVE Inv'
<1> USE DEF Inv, chanVars, pollVars, workVars
<1> DEFINE e == <<p, sent[p]>>
<1>1. /\ UNCHANGED <<cancelled, closed, status, queue, batch, sent, wpc, cur, live,
                     enriched, processed, failed>>
      /\ pc[p] = "count" /\ status = "up"
      /\ ingested' = ingested \cup {e}
      /\ pc' = [pc EXCEPT ![p] = IF batch[p] > 0 THEN "send" ELSE AfterPoll(p)]
  BY DEF Count
<1>2. e \in Accepted /\ e \in Deliveries
  <2>1. sent[p] \in 1..MaxEvents
    BY <1>1, Constants DEF BatchInv, TypeOK
  <2> QED BY <2>1 DEF Accepted, Deliveries
<1>3. TypeOK'
  BY <1>1, <1>2 DEF TypeOK, AfterPoll, PollStates
<1>4. ExactlyOnce'
  BY <1>1 DEF ExactlyOnce, Accepted, Queued, InHand, Resolved
<1>5. (HandInv /\ EnrichInv /\ DrainInv /\ WaitInv)'
  BY <1>1 DEF HandInv, EnrichInv, DrainInv, WaitInv
<1>6. BatchInv'
  BY <1>1 DEF BatchInv, TypeOK, AfterPoll
<1>7. IngestedLag'
  <2>1. \A d \in Deliveries : d = e <=> d[1] = p /\ d[2] = sent[p]
    BY DEF Deliveries
  <2>2. \A d \in Deliveries : d[1] \in Producers
    BY DEF Deliveries
  <2>3. \A q \in Producers : pc'[q] = "count" <=> pc[q] = "count" /\ q # p
    BY <1>1 DEF TypeOK, AfterPoll
  <2>4. \A d \in Deliveries :
          pc'[d[1]] = "count" /\ d[2] = sent'[d[1]]
          <=> (pc[d[1]] = "count" /\ d[2] = sent[d[1]]) /\ d # e
    BY <1>1, <2>1, <2>2, <2>3
  <2>5. Accepted' = Accepted
    BY <1>1 DEF Accepted
  <2> HIDE DEF e
  <2> QED BY <1>1, <1>2, <2>4, <2>5 DEF IngestedLag
<1> QED BY <1>3, <1>4, <1>5, <1>6, <1>7

\* The steps of a worker leave the pollers and what they sent alone.
LEMMA WorkerFrame ==
  ASSUME Inv, UNCHANGED <<cancelled, status, closed, pollVars, ingested>>
  PROVE  Accepted' = Accepted /\ BatchInv' /\ IngestedLag'
<1>1. Accepted' = Accepted
  BY DEF Accepted, pollVars
<1>2. BatchInv'
  BY DEF Inv, BatchInv, pollVars
<1>3. IngestedLag'
  BY <1>1 DEF Inv, IngestedLag, pollVars
<1> QED BY <1>1, <1>2, <1>3

LEMMA ReceiveStep ==
  ASSUME Inv, NEW w \in Workers, Receive(w) PROVE Inv'
<1> USE DEF Inv, chanVars, pollVars, workVars, counters
<1> DEFINE e == Head(queue)
<1>1. /\ UNCHANGED <<cancelled, closed, status, pc, batch, sent, counters>>
      /\ wpc[w] = "receive" /\ status = "up" /\ queue # <<>>
      /\ cur' = [cur EXCEPT ![w] = e]
      /\ queue' = Tail(queue)
      /\ live' = [live EXCEPT ![w] = ~cancelled]
      /\ wpc' = [wpc EXCEPT ![w] = "enrich"]
  BY DEF Receive
<1>2. /\ queue' \in Seq(Deliveries)
      /\ e \in Deliveries
      /\ Queued = Queued' \cup {e}
      /\ e \notin Queued'
      /\ \A i, j \in 1..Len(queue') : queue'[i] = queue'[j] => i = j
  <2>1. queue \in Seq(Deliveries)
        /\ \A i, j \in 1..Len(queue) : queue[i] = queue[j] => i = j
    BY DEF TypeOK, ExactlyOnce
  <2>2. queue' = Tail(queue)
    BY <1>1
  <2> QED BY <1>1, <2>1, <2>2, TailElements DEF Queued
<1> HIDE DEF e
<1>3. cur[w] = None /\ e # None
  BY <1>1, <1>2, Constants DEF HandInv
<1>4. InHand' = InHand \cup {e}
  BY <1>1, <1>3 DEF InHand, TypeOK
<1>5. TypeOK'
  BY <1>1, <1>2 DEF TypeOK, WorkStates
<1>6. ExactlyOnce'
  <2>1. \A u, v \in Workers : cur'[u] = cur'[v] /\ cur'[u] # None => u = v
    <3>1. \A v \in Workers : cur[v] # e
      BY <1>2, <1>3 DEF ExactlyOnce, InHand
    <3> QED BY <1>1, <3>1 DEF ExactlyOnce, TypeOK
  <2>2. Resolved' = Resolved
    BY <1>1 DEF Resolved
  <2>3. Accepted' = Accepted
    BY <1>1, WorkerFrame
  <2> QED BY <1>1, <1>2, <1>4, <2>1, <2>2, <2>3 DEF ExactlyOnce
<1>7. HandInv'
  BY <1>1, <1>3 DEF HandInv, TypeOK
<1>8. DrainInv'
  BY <1>1 DEF DrainInv, TypeOK
<1>9. EnrichInv'
  BY <1>1 DEF EnrichInv, TypeOK
<1>10. WaitInv'
  BY <1>1 DEF WaitInv
<1> QED BY <1>1, <1>5, <1>6, <1>7, <1>8, <1>9, <1>10, WorkerFrame

LEMMA WorkerDoneStep ==
  ASSUME Inv, NEW w \in Workers, WorkerDone(w) PROVE Inv'
<1> USE DEF Inv, chanVars, pollVars, counters
<1>1. /\ UNCHANGED <<cancelled, closed, status, queue, cur, live, pollVars, counters>>
      /\ wpc[w] = "receive" /\ status = "up" /\ queue = <<>> /\ closed
      /\ wpc' = [wpc EXCEPT ![w] = "done"]
  BY DEF WorkerDone
<1>2. TypeOK'
  BY <1>1 DEF TypeOK, WorkStates
<1>3. ExactlyOnce'
  BY <1>1 DEF ExactlyOnce, Accepted, Queued, InHand, Resolved
<1>4. (HandInv /\ DrainInv /\ WaitInv /\ EnrichInv)'
  BY <1>1 DEF HandInv, DrainInv, WaitInv, EnrichInv, TypeOK
<1> QED BY <1>1, <1>2, <1>3, <1>4, WorkerFrame

LEMMA EnrichedStep ==
  ASSUME Inv, NEW w \in Workers, EnrichOK(w) \/ EnrichSkip(w) PROVE Inv'
<1> USE DEF Inv, chanVars, pollVars, counters
<1>1. /\ UNCHANGED <<cancelled, closed, status, queue, cur, live, pollVars,
                     ingested, processed, failed>>
      /\ wpc[w] = "enrich" /\ status = "up"
      /\ enriched' \in {enriched, enriched \cup {cur[w]}}
      /\ wpc' = [wpc EXCEPT ![w] = "check"]
  BY DEF EnrichOK, EnrichSkip
<1>2. cur[w] \in Deliveries
  BY <1>1 DEF HandInv, TypeOK
<1>3. TypeOK'
  BY <1>1, <1>2 DEF TypeOK, WorkStates
<1>4. ExactlyOnce'
  BY <1>1 DEF ExactlyOnce, Accepted, Queued, InHand, Resolved
<1>5. (HandInv /\ DrainInv /\ WaitInv /\ EnrichInv)'
  BY <1>1 DEF HandInv, DrainInv, WaitInv, EnrichInv, TypeOK
<1> QED BY <1>1, <1>3, <1>4, <1>5, WorkerFrame

\* A worker that has failed or checked its delivery turns to the next one.
LEMMA ReleaseStep ==
  ASSUME Inv, NEW w \in Workers, EnrichFails(w) \/ Check(w)
  PROVE  /\ Inv'
         /\ cur[w] \in Accepted \ Resolved
         /\ Accepted' = Accepted
<1> USE DEF Inv, chanVars, pollVars, counters
<1> DEFINE e == cur[w]
<1>1. /\ UNCHANGED <<cancelled, closed, status, queue, pollVars, ingested, enriched>>
      /\ wpc[w] \in {"enrich", "check"} /\ status = "up"
      /\ cur' = [cur EXCEPT ![w] = None]
      /\ live' = [live EXCEPT ![w] = FALSE]
      /\ wpc' = [wpc EXCEPT ![w] = "receive"]
      /\ \/ wpc[w] = "enrich" /\ failed' = failed \cup {e} /\ processed' = processed
         \/ wpc[w] = "check" /\ processed' = processed \cup {e} /\ failed' = failed
  BY DEF EnrichFails, Check
<1>2. e \in Deliveries /\ e # None
  BY <1>1 DEF HandInv, TypeOK
<1>3. e \in InHand /\ InHand' = InHand \ {e}
  BY <1>1, <1>2 DEF InHand, TypeOK, ExactlyOnce
<1>4. e \in Accepted \ Resolved
  BY <1>3 DEF ExactlyOnce
<1>5. Accepted' = Accepted
  BY <1>1, WorkerFrame
<1>6. TypeOK'
  BY <1>1, <1>2 DEF TypeOK, WorkStates
<1>7. ExactlyOnce'
  <2>1. Queued' = Queued
    BY <1>1 DEF Queued
  <2>2. Resolved' = Resolved \cup {e}
    BY <1>1 DEF Resolved
  <2>3. processed' \cap failed' = {}
    BY <1>1, <1>4 DEF ExactlyOnce, Resolved
  <2>4. \A u, v \in Workers : cur'[u] = cur'[v] /\ cur'[u] # None => u = v
    BY <1>1 DEF ExactlyOnce, TypeOK
  <2>5. e \notin Queued
    BY <1>3 DEF ExactlyOnce
  <2>6. \A i, j \in 1..Len(queue') : queue'[i] = queue'[j] => i = j
    BY <1>1 DEF ExactlyOnce
  <2> HIDE DEF e
  <2> QED BY <1>3, <1>5, <2>1, <2>2, <2>3, <2>4, <2>5, <2>6 DEF ExactlyOnce
<1>8. (HandInv /\ DrainInv /\ WaitInv)'
  BY <1>1 DEF HandInv, DrainInv, WaitInv, TypeOK
<1>9. EnrichInv'
  <2> SUFFICES ASSUME NEW d \in enriched'
               PROVE  d \in processed' \/ \E v \in Workers : wpc'[v] = "check" /\ cur'[v] = d
    BY DEF EnrichInv
  <2>1. d \in processed \/ \E v \in Workers : wpc[v] = "check" /\ cur[v] = d
    BY <1>1 DEF EnrichInv
  <2>2. CASE d \in processed
    BY <1>1, <2>2
  <2>3. ASSUME NEW v \in Workers, wpc[v] = "check", cur[v] = d
        PROVE  d \in processed' \/ v # w
    BY <1>1, <2>3
  <2> QED BY <1>1, <2>1, <2>2, <2>3 DEF TypeOK
<1> QED BY <1>1, <1>4, <1>5, <1>6, <1>7, <1>8, <1>9, WorkerFrame

LEMMA StepInv == Inv /\ [Next]_vars => Inv'
<1> SUFFICES ASSUME Inv, [Next]_vars PROVE Inv'
  OBVIOUS
<1>1. ASSUME NEW p \in Producers, ProducerStep(p) PROVE Inv'
  BY <1>1, QuietStep, SelectStep, SendStep, CountStep DEF ProducerStep, QuietPoll
<1>2. ASSUME NEW w \in Workers, WorkerStep(w) PROVE Inv'
  BY <1>2, ReceiveStep, WorkerDoneStep, EnrichedStep, ReleaseStep DEF WorkerStep
<1>3. CASE MainStep
  BY <1>3, QuietStep DEF MainStep
<1>4. CASE Ended \/ UNCHANGED vars
  BY <1>4, QuietStep
<1> QED BY <1>1, <1>2, <1>3, <1>4 DEF Next

-----------------------------------------------------------------------------
(* The theorems *)

\* The invariant holds in every reachable state, for any instance.
THEOREM Invariance == Spec => []Inv
BY InitInv, StepInv, PTL DEF Spec

\* Every variable keeps its type.
THEOREM TypeCorrect == Spec => []TypeOK
<1>1. Inv => TypeOK
  BY DEF Inv
<1> QED BY <1>1, Invariance, PTL

\* The channel, the workers and the outcomes hold each accepted delivery
\* exactly once, whatever the number of pollers and workers and the capacity.
THEOREM ExactlyOnceHolds == Spec => []ExactlyOnce
<1>1. Inv => ExactlyOnce
  BY DEF Inv
<1> QED BY <1>1, Invariance, PTL

\* EventsIngested only misses deliveries between their send and their count.
THEOREM IngestedLagHolds == Spec => []IngestedLag
<1>1. Inv => IngestedLag
  BY DEF Inv
<1> QED BY <1>1, Invariance, PTL

\* Once main may return, the channel and the workers' hands are empty.
LEMMA Drained ==
  ASSUME Inv, closed, \A w \in Workers : wpc[w] = "done"
  PROVE  Accepted = Resolved /\ InHand = {}
<1>1. queue = <<>>
  BY Constants DEF Inv, DrainInv
<1>2. Queued = {}
  BY <1>1 DEF Queued
<1>3. InHand = {}
  BY DEF Inv, HandInv, InHand
<1> QED BY <1>2, <1>3 DEF Inv, ExactlyOnce

\* At exit nothing accepted is unresolved, and the final metrics can only
\* miss the last delivery of a goroutine that main does not wait for.
THEOREM FinalMetricsHolds == Spec => []FinalMetrics
<1>1. ASSUME Inv, status = "exited"
      PROVE  /\ Accepted = Resolved
             /\ enriched \subseteq processed
             /\ \A d \in Accepted \ ingested : d[1] \in Untracked
  <2>1. /\ closed
        /\ \A p \in Tracked : pc[p] = "done"
        /\ \A w \in Workers : wpc[w] = "done"
    BY <1>1 DEF Inv, WaitInv
  <2>2. enriched \subseteq processed
    BY <1>1, <2>1 DEF Inv, EnrichInv
  <2>3. \A d \in Accepted \ ingested : d[1] \in Untracked
    <3>1. \A d \in Accepted \ ingested : d[1] \in Producers /\ pc[d[1]] = "count"
      BY <1>1 DEF Inv, IngestedLag, Deliveries
    <3> QED BY <2>1, <3>1 DEF Producers
  <2> QED BY <1>1, <2>1, <2>2, <2>3, Drained
<1>2. Inv => FinalMetrics
  BY <1>1 DEF FinalMetrics
<1> QED BY <1>2, Invariance, PTL

-----------------------------------------------------------------------------
(* Pipeline implements the delivery contract *)

LEMMA ContractInit == Init => Contract!Init
<1> SUFFICES ASSUME Init PROVE Contract!Init
  OBVIOUS
<1>1. Accepted = {}
  <2>1. \A p \in Producers : sent[p] = 0
    BY DEF Init
  <2>2. \A d \in Deliveries : d[1] \in Producers /\ d[2] \in Nat /\ d[2] > 0
    BY Constants DEF Deliveries
  <2> QED BY <2>1, <2>2 DEF Accepted
<1> QED BY <1>1 DEF Init, Contract!Init, phase

\* A poller's step is an Accept, a Crash or invisible.
LEMMA ContractPoller ==
  ASSUME Inv, NEW p \in Producers, ProducerStep(p)
  PROVE  [Contract!Next]_(Contract!vars)
<1> USE DEF chanVars, pollVars, workVars, counters
<1>1. CASE Send(p)
  <2> DEFINE e == <<p, sent[p] + 1>>
  <2>1. e \in Deliveries /\ e \notin Accepted /\ Accepted' = Accepted \cup {e}
    BY <1>1, SendAccepts
  <2>2. /\ phase = "open" /\ phase' = "open"
        /\ UNCHANGED <<processed, failed>>
    BY <1>1 DEF Send, phase
  <2> HIDE DEF e
  <2>3. Contract!Accept(e)
    BY <2>1, <2>2 DEF Contract!Accept
  <2> QED BY <2>1, <2>3 DEF Contract!Next
<1>2. CASE SendPanics(p)
  <2>1. phase = "sealed" /\ phase' = "crashed"
    BY <1>2 DEF SendPanics, phase
  <2>2. UNCHANGED <<Accepted, processed, failed>>
    BY <1>2 DEF SendPanics, Accepted
  <2> QED BY <2>1, <2>2 DEF Contract!Next, Contract!Crash, Contract!Running
<1>3. CASE \/ QuietPoll(p) /\ ~SendPanics(p)
           \/ FetchOK(p) \/ LookUp(p) \/ Count(p)
  <2>1. UNCHANGED <<sent, processed, failed, closed, status>>
    BY <1>3 DEF QuietPoll, Tick, Stop, FetchFails, FetchOK, LookUp, LookUpHangs, Count
  <2> QED BY <2>1 DEF Contract!vars, Accepted, phase
<1> QED BY <1>1, <1>2, <1>3 DEF ProducerStep, QuietPoll

\* A worker's step resolves the delivery in its hands or is invisible.
LEMMA ContractWorker ==
  ASSUME Inv, NEW w \in Workers, WorkerStep(w)
  PROVE  [Contract!Next]_(Contract!vars)
<1> USE DEF chanVars, pollVars, workVars, counters
<1>1. CASE EnrichFails(w) \/ Check(w)
  <2> DEFINE e == cur[w]
  <2>1. e \in Accepted \ Resolved /\ Accepted' = Accepted
    BY <1>1, ReleaseStep
  <2>2. /\ phase \in {"open", "sealed"} /\ phase' = phase
        /\ \/ processed' = processed \cup {e} /\ UNCHANGED failed
           \/ failed' = failed \cup {e} /\ UNCHANGED processed
    BY <1>1 DEF EnrichFails, Check, phase
  <2>3. e \in Deliveries
    BY <2>1 DEF Accepted
  <2> HIDE DEF e
  <2>4. Contract!Resolve(e)
    BY <2>1, <2>2 DEF Contract!Resolve, Contract!Running, Contract!Resolved, Resolved
  <2> QED BY <2>3, <2>4 DEF Contract!Next
<1>2. CASE Receive(w) \/ WorkerDone(w) \/ EnrichOK(w) \/ EnrichSkip(w)
  <2>1. UNCHANGED <<sent, processed, failed, closed, status>>
    BY <1>2 DEF Receive, WorkerDone, EnrichOK, EnrichSkip
  <2> QED BY <2>1 DEF Contract!vars, Accepted, phase
<1> QED BY <1>1, <1>2 DEF WorkerStep

\* main seals, completes or crashes; the signal itself is invisible.
LEMMA ContractMain ==
  ASSUME Inv, MainStep \/ Ended
  PROVE  [Contract!Next]_(Contract!vars)
<1> USE DEF chanVars, pollVars, workVars, counters
<1>1. UNCHANGED <<Accepted, processed, failed>>
  BY DEF MainStep, Signal, CloseChannel, Exit, ServerFails, Ended, vars, Accepted
<1>2. CASE CloseChannel
  <2>1. phase = "open" /\ phase' = "sealed"
    BY <1>2 DEF CloseChannel, phase
  <2> QED BY <1>1, <2>1 DEF Contract!Next, Contract!Seal
<1>3. CASE Exit
  <2>1. phase = "sealed" /\ phase' = "complete"
    BY <1>3 DEF Exit, phase
  <2>2. Accepted = Contract!Resolved
    BY <1>3, Drained DEF Exit, Contract!Resolved, Resolved
  <2> QED BY <1>1, <2>1, <2>2 DEF Contract!Next, Contract!Complete
<1>4. CASE ServerFails
  <2>1. phase \in {"open", "sealed"} /\ phase' = "crashed"
    BY <1>4 DEF ServerFails, phase
  <2> QED BY <1>1, <2>1 DEF Contract!Next, Contract!Crash, Contract!Running
<1>5. CASE Signal \/ Ended
  BY <1>1, <1>5 DEF Signal, Ended, vars, phase, Contract!vars
<1> QED BY <1>2, <1>3, <1>4, <1>5 DEF MainStep

\* Every behaviour of the pipeline is one that the delivery contract allows.
THEOREM Implements == Spec => ContractSpec
<1>1. ASSUME Inv, [Next]_vars PROVE [Contract!Next]_(Contract!vars)
  <2>1. CASE Next
    BY <1>1, <2>1, ContractPoller, ContractWorker, ContractMain DEF Next
  <2>2. CASE UNCHANGED vars
    BY <2>2 DEF vars, Accepted, phase, Contract!vars
  <2> QED BY <1>1, <2>1, <2>2
<1> QED BY <1>1, ContractInit, Invariance, PTL DEF Spec, ContractSpec, Contract!Spec

-----------------------------------------------------------------------------
(* What is buffered when shutdown begins is never enriched.                *)

\* From then on no context that could enrich d is derived.
Doomed(d) ==
  /\ cancelled
  /\ d \notin enriched
  /\ \A w \in Workers : cur[w] = d => ~live[w]

LEMMA BufferedDoomed ==
  ASSUME NEW d \in Deliveries, Inv, cancelled, d \in Queued
  PROVE  Doomed(d)
<1>1. d \notin Resolved /\ d \notin InHand
  BY DEF Inv, ExactlyOnce
<1>2. \A w \in Workers : cur[w] # d
  BY <1>1, Constants DEF InHand
<1>3. d \notin enriched
  BY <1>1, <1>2 DEF Inv, EnrichInv, Resolved
<1> QED
  BY <1>2, <1>3 DEF Doomed

LEMMA DoomedStays ==
  ASSUME NEW d \in Deliveries, Inv, Doomed(d), [Next]_vars
  PROVE  Doomed(d)'
<1> USE DEF Doomed, chanVars, pollVars, workVars, counters
<1>1. ASSUME NEW w \in Workers, Receive(w) PROVE Doomed(d)'
  BY <1>1 DEF Receive, Inv, TypeOK
<1>2. ASSUME NEW w \in Workers, EnrichOK(w) PROVE Doomed(d)'
  BY <1>2 DEF EnrichOK
<1>3. ASSUME NEW w \in Workers, EnrichFails(w) \/ Check(w) PROVE Doomed(d)'
  BY <1>3, Constants DEF EnrichFails, Check, Inv, TypeOK
<1>4. ASSUME NEW w \in Workers, WorkerDone(w) \/ EnrichSkip(w) PROVE Doomed(d)'
  BY <1>4 DEF WorkerDone, EnrichSkip
<1>5. ASSUME NEW p \in Producers, ProducerStep(p) PROVE Doomed(d)'
  BY <1>5 DEF ProducerStep, Tick, Stop, FetchFails, FetchOK, LookUp, LookUpHangs,
              Send, SendPanics, Count
<1>6. CASE MainStep \/ Ended \/ UNCHANGED vars
  BY <1>6 DEF MainStep, Signal, CloseChannel, Exit, ServerFails, Ended, vars
<1> QED
  BY <1>1, <1>2, <1>3, <1>4, <1>5, <1>6 DEF Next, WorkerStep

\* DrainedUnenriched: workers take what is left in the channel at shutdown
\* under contexts that are done already.
THEOREM DrainedUnenrichedHolds == Spec => DrainedUnenriched
<1>1. ASSUME NEW d \in Deliveries
      PROVE  Spec => [](cancelled /\ d \in Queued => [](d \notin enriched))
  <2>1. Inv /\ cancelled /\ d \in Queued => Doomed(d)
    BY BufferedDoomed
  <2>2. Inv /\ Doomed(d) /\ [Next]_vars => Doomed(d)'
    BY DoomedStays
  <2>3. Doomed(d) => d \notin enriched
    BY DEF Doomed
  <2> QED
    BY <2>1, <2>2, <2>3, Invariance, PTL DEF Spec
<1> QED
  BY <1>1 DEF DrainedUnenriched

=============================================================================
