---------------------------- MODULE SystemProofs ----------------------------
(***************************************************************************)
(* Proofs for Ingestion and for System, which extends it.  Polls stay in   *)
(* their page and look items up in one table; the sends are in order, or   *)
(* repeated a bounded number of times; and every alert answers to a send.  *)
(* For any window, buffer, number of workers, items, failures and lives.   *)
(***************************************************************************)
EXTENDS System, FiniteSetTheorems, FunctionTheorems, TLAPS

-----------------------------------------------------------------------------
(* The invariant: where a poll has come to in its page, and who may be      *)
(* downloading the table.                                                   *)

\* A poll is within its page, and what it is going to send is an item.
InPage ==
  \A p \in Pollers :
    /\ next[p] <= newest[p] + 1
    /\ pc[p] \in {"lookup", "download", "compare"} => next[p] <= newest[p]
    /\ pc[p] \in {"advance", "send"} => next[p] >= 1

\* The one poller that downloads does so before any item is looked up.
OneDownload ==
  /\ \A p \in Pollers : pc[p] = "download" => cikMap = "loading"
  /\ \A p, q \in Pollers : pc[p] = "download" /\ pc[q] = "download" => p = q
  /\ views \subseteq {cikMap} \cap {"full", "empty"}

Inv == TypeOK /\ InPage /\ OneDownload

LEMMA InitInv == Init => Inv
<1> SUFFICES ASSUME Init PROVE Inv
  OBVIOUS
<1> USE IngestionAssumption
<1>1. /\ published \in Nat /\ published \in 0..MaxItems
      /\ 0 \in 0..MaxFailures /\ 0 \in 0..MaxCrashes
      /\ sent \in Seq(1..published)
  BY DEF Init
<1>2. TypeOK
  <2>1. /\ oldest \in [Pollers -> 1..(published + 1)]
        /\ newest \in [Pollers -> 0..published]
        /\ next \in [Pollers -> 0..(published + 1)]
        /\ \A p \in Pollers : newest[p] < oldest[p] + Window
    BY <1>1 DEF Init
  <2>2. pc \in [Pollers -> PollStates] /\ cursor \in 0..published
    BY <1>1 DEF Init, PollStates
  <2> QED
    BY <1>1, <2>1, <2>2, Zenon DEF Init, TypeOK
<1>3. InPage /\ OneDownload
  BY DEF Init, InPage, OneDownload
<1> QED
  BY <1>2, <1>3 DEF Inv

LEMMA PublishInv == Inv /\ Publish => Inv'
<1> SUFFICES ASSUME Inv, Publish PROVE Inv'
  OBVIOUS
<1>1. /\ published \in Nat /\ published' = published + 1 /\ published' \in 0..MaxItems
      /\ UNCHANGED <<cursor, cikMap, views, pc, oldest, newest, next, sent,
                     overlap, failures, crashes>>
  BY IngestionAssumption DEF Inv, TypeOK, Publish, cikVars, pollVars
<1>2. sent' \in Seq(1..published')
  <2>1. 1..published \subseteq 1..published'
    BY <1>1
  <2>2. sent \in Seq(1..published)
    BY DEF Inv, TypeOK
  <2> QED
    BY <1>1, <2>1, <2>2
<1>3. TypeOK'
  BY <1>1, <1>2 DEF Inv, TypeOK
<1>4. InPage' /\ OneDownload'
  BY <1>1 DEF Inv, InPage, OneDownload
<1> QED
  BY <1>3, <1>4 DEF Inv

\* A page holds Window items at most.
LEMMA FetchInv == ASSUME NEW p \in Pollers PROVE Inv /\ Fetch(p) => Inv'
<1> SUFFICES ASSUME Inv, Fetch(p) PROVE Inv'
  OBVIOUS
<1> USE IngestionAssumption
<1>1. /\ UNCHANGED <<published, cursor, cikMap, views, sent, failures, crashes>>
      /\ pc' \in [Pollers -> PollStates]
      /\ pc'[p] \in {"lookup", "compare"}
      /\ \A q \in Pollers \ {p} : pc'[q] = pc[q]
  BY DEF Inv, TypeOK, Fetch, cikVars, PollStates
<1>2. /\ newest' \in [Pollers -> 0..published] /\ next' \in [Pollers -> 0..(published + 1)]
      /\ newest'[p] = published /\ next'[p] = published
      /\ \A q \in Pollers \ {p} : newest'[q] = newest[q] /\ next'[q] = next[q]
  BY DEF Inv, TypeOK, Fetch
<1>3. /\ oldest' \in [Pollers -> 1..(published + 1)]
      /\ published < oldest'[p] + Window
      /\ \A q \in Pollers \ {p} : oldest'[q] = oldest[q]
  <2> DEFINE first == IF published > Window THEN published - Window + 1 ELSE 1
  <2>1. first \in 1..(published + 1) /\ published < first + Window
    BY DEF Inv, TypeOK
  <2>2. oldest' = [oldest EXCEPT ![p] = first] /\ oldest \in [Pollers -> 1..(published + 1)]
    BY DEF Inv, TypeOK, Fetch
  <2> HIDE DEF first
  <2> QED
    BY <2>1, <2>2
<1>4. overlap' \in BOOLEAN
  BY DEF Fetch, Inv, TypeOK
<1>5. TypeOK'
  BY <1>1, <1>2, <1>3, <1>4 DEF Inv, TypeOK
<1>6. InPage'
  <2>1. published \in Nat /\ published <= published + 1
    BY DEF Inv, TypeOK
  <2> QED
    BY <1>1, <1>2, <2>1 DEF Inv, InPage
<1>7. OneDownload'
  BY <1>1 DEF Inv, OneDownload
<1> QED
  BY <1>5, <1>6, <1>7 DEF Inv

\* A poll fails, or is stopped by a request that is not answered.
CutShort(p) == FetchFails(p) \/ Stalls(p) \/ Hangs(p)

\* The steps that end a poll early or look for the table move no item.
Aside(p) ==
  /\ UNCHANGED <<published, cursor, views, oldest, newest, next, sent, overlap, crashes>>
  /\ failures' \in 0..MaxFailures
  /\ pc' \in [Pollers -> PollStates]
  /\ \A q \in Pollers \ {p} : pc'[q] = pc[q]

LEMMA CutShortInv == ASSUME NEW p \in Pollers PROVE Inv /\ CutShort(p) => Inv'
<1> SUFFICES ASSUME Inv, CutShort(p) PROVE Inv'
  OBVIOUS
<1>1. failures' \in 0..MaxFailures
  BY IngestionAssumption DEF CutShort, FetchFails, Stalls, Hangs, Inv, TypeOK
<1>2. /\ Aside(p)
      /\ pc'[p] \in {"idle", "ended", "stalled", "hung"} /\ cikMap' = cikMap
  BY <1>1 DEF Aside, CutShort, FetchFails, Stalls, Hangs, Ended, Inv, TypeOK, cikVars,
              PollStates
<1>3. TypeOK'
  BY <1>2 DEF Aside, Inv, TypeOK
<1>4. InPage' /\ OneDownload'
  BY <1>2 DEF Aside, Inv, InPage, OneDownload
<1> QED
  BY <1>3, <1>4 DEF Inv

LEMMA LookUpInv == ASSUME NEW p \in Pollers PROVE Inv /\ LookUp(p) => Inv'
<1> SUFFICES ASSUME Inv, LookUp(p) PROVE Inv'
  OBVIOUS
<1>1. Aside(p) /\ pc[p] = "lookup" /\ cikMap # "loading"
  BY DEF Aside, LookUp, Inv, TypeOK, PollStates
<1>2. \/ cikMap = "none" /\ pc'[p] = "download" /\ cikMap' = "loading"
      \/ pc'[p] = "compare" /\ cikMap' = cikMap
  BY DEF LookUp, Inv, TypeOK
<1>3. TypeOK'
  BY <1>1, <1>2 DEF Aside, Inv, TypeOK
<1>4. InPage'
  BY <1>1, <1>2 DEF Aside, Inv, InPage
<1>5. OneDownload'
  BY <1>1, <1>2 DEF Aside, Inv, OneDownload
<1> QED
  BY <1>3, <1>4, <1>5 DEF Inv

LEMMA DownloadInv == ASSUME NEW p \in Pollers PROVE Inv /\ Download(p) => Inv'
<1> SUFFICES ASSUME Inv, Download(p) PROVE Inv'
  OBVIOUS
<1>1. /\ Aside(p)
      /\ pc[p] = "download" /\ pc'[p] = "compare" /\ cikMap' \in {"full", "empty"}
  BY DEF Aside, Download, Inv, TypeOK, PollStates
<1>2. TypeOK'
  BY <1>1 DEF Aside, Inv, TypeOK
<1>3. InPage'
  BY <1>1 DEF Aside, Inv, InPage
<1>4. OneDownload'
  BY <1>1 DEF Aside, Inv, OneDownload
<1> QED
  BY <1>2, <1>3, <1>4 DEF Inv

\* An item that is compared is on the page; the one that ends the loop comes
\* before the first that is sent.
LEMMA CompareInv == ASSUME NEW p \in Pollers PROVE Inv /\ Compare(p) => Inv'
<1> SUFFICES ASSUME Inv, Compare(p) PROVE Inv'
  OBVIOUS
<1>1. /\ pc[p] = "compare"
      /\ UNCHANGED <<published, cursor, cikMap, oldest, newest, sent, overlap,
                     failures, crashes>>
  BY DEF Compare
<1>2. /\ published \in Nat /\ cursor \in 0..published
      /\ next[p] \in 0..(published + 1) /\ newest[p] \in 0..published
      /\ oldest[p] \in 1..(published + 1) /\ next[p] <= newest[p]
      /\ next \in [Pollers -> 0..(published + 1)] /\ pc \in [Pollers -> PollStates]
  BY <1>1, IngestionAssumption DEF Inv, TypeOK, InPage
<1>3. CASE next[p] < oldest[p] \/ next[p] = cursor
  <2>1. views' = views
    BY <1>3 DEF Compare
  <2>2. CASE next[p] = newest[p]
    <3>1. /\ next' = next
          /\ pc' \in [Pollers -> PollStates] /\ pc'[p] \in {"idle", "ended"}
          /\ \A q \in Pollers \ {p} : pc'[q] = pc[q]
      BY <1>2, <1>3, <2>2 DEF Compare, Ended, PollStates
    <3>2. TypeOK'
      BY <1>1, <2>1, <3>1 DEF Inv, TypeOK
    <3>3. InPage' /\ OneDownload'
      BY <1>1, <2>1, <3>1 DEF Inv, InPage, OneDownload
    <3> QED
      BY <3>2, <3>3 DEF Inv
  <2>3. CASE next[p] # newest[p]
    <3>1. /\ pc' \in [Pollers -> PollStates] /\ pc'[p] = "advance"
          /\ next' \in [Pollers -> 0..(published + 1)] /\ next'[p] = next[p] + 1
          /\ \A q \in Pollers \ {p} : pc'[q] = pc[q] /\ next'[q] = next[q]
      BY <1>2, <1>3, <2>3 DEF Compare, PollStates
    <3>2. TypeOK'
      BY <1>1, <2>1, <3>1 DEF Inv, TypeOK
    <3>3. InPage'
      BY <1>1, <1>2, <3>1 DEF Inv, InPage
    <3>4. OneDownload'
      BY <1>1, <2>1, <3>1 DEF Inv, OneDownload
    <3> QED
      BY <3>2, <3>3, <3>4 DEF Inv
  <2> QED
    BY <2>2, <2>3
<1>4. CASE ~(next[p] < oldest[p] \/ next[p] = cursor)
  <2>1. /\ pc' = pc
        /\ next' \in [Pollers -> 0..(published + 1)] /\ next'[p] = next[p] - 1
        /\ \A q \in Pollers \ {p} : next'[q] = next[q]
    BY <1>2, <1>4 DEF Compare
  <2>2. views' = views \cup ({cikMap} \cap {"full", "empty"})
    BY <1>4 DEF Compare
  <2>3. TypeOK'
    BY <1>1, <2>1, <2>2 DEF Inv, TypeOK
  <2>4. InPage'
    BY <1>1, <1>2, <2>1 DEF Inv, InPage
  <2>5. OneDownload'
    BY <1>1, <2>1, <2>2 DEF Inv, OneDownload
  <2> QED
    BY <2>3, <2>4, <2>5 DEF Inv
<1> QED
  BY <1>3, <1>4

LEMMA AdvanceInv == ASSUME NEW p \in Pollers PROVE Inv /\ Advance(p) => Inv'
<1> SUFFICES ASSUME Inv, Advance(p) PROVE Inv'
  OBVIOUS
<1>1. /\ UNCHANGED <<published, cikMap, views, oldest, newest, next, sent, overlap,
                     failures, crashes>>
      /\ cursor' \in 0..published
      /\ pc[p] = "advance"
      /\ pc' \in [Pollers -> PollStates] /\ pc'[p] = "send"
      /\ \A q \in Pollers \ {p} : pc'[q] = pc[q]
  BY DEF Advance, Inv, TypeOK, cikVars, PollStates
<1>2. TypeOK'
  BY <1>1 DEF Inv, TypeOK
<1>3. InPage' /\ OneDownload'
  BY <1>1 DEF Inv, InPage, OneDownload
<1> QED
  BY <1>2, <1>3 DEF Inv

LEMMA SendInv == ASSUME NEW p \in Pollers PROVE Inv /\ Send(p) => Inv'
<1> SUFFICES ASSUME Inv, Send(p) PROVE Inv'
  OBVIOUS
<1>1. /\ UNCHANGED <<published, cursor, cikMap, views, oldest, newest, overlap,
                     failures, crashes>>
      /\ pc[p] = "send"
  BY DEF Send, cikVars
<1>2. /\ published \in Nat /\ newest[p] \in 0..published
      /\ next[p] \in 1..(published + 1) /\ sent \in Seq(1..published)
      /\ next \in [Pollers -> 0..(published + 1)] /\ pc \in [Pollers -> PollStates]
  BY <1>1 DEF Inv, TypeOK, InPage
<1>3. CASE next[p] <= newest[p]
  <2> DEFINE item == next[p]
  <2>5. item \in 1..published /\ item + 1 \in 1..(published + 1) /\ item \in Nat
    BY <1>2, <1>3
  <2>6. /\ pc' = pc
        /\ sent' = Append(sent, item)
        /\ next' = [next EXCEPT ![p] = item + 1]
    BY <1>3 DEF Send
  <2>7. item + 1 <= newest[p] + 1
    BY <1>2, <1>3
  <2> HIDE DEF item
  <2>1. /\ sent' \in Seq(1..published)
        /\ next' \in [Pollers -> 0..(published + 1)] /\ next'[p] = item + 1
        /\ \A q \in Pollers \ {p} : next'[q] = next[q]
    BY <1>2, <2>5, <2>6
  <2>2. TypeOK'
    BY <1>1, <2>1, <2>6 DEF Inv, TypeOK
  <2>3. InPage'
    BY <1>1, <2>1, <2>5, <2>6, <2>7 DEF Inv, InPage
  <2>4. OneDownload'
    BY <1>1, <2>6 DEF Inv, OneDownload
  <2> QED
    BY <2>2, <2>3, <2>4 DEF Inv
<1>4. CASE ~(next[p] <= newest[p])
  <2>1. /\ sent' = sent /\ next' = next
        /\ pc' \in [Pollers -> PollStates] /\ pc'[p] \in {"idle", "ended"}
        /\ \A q \in Pollers \ {p} : pc'[q] = pc[q]
    BY <1>2, <1>4 DEF Send, Ended, PollStates
  <2>2. TypeOK'
    BY <1>1, <2>1 DEF Inv, TypeOK
  <2>3. InPage' /\ OneDownload'
    BY <1>1, <2>1 DEF Inv, InPage, OneDownload
  <2> QED
    BY <2>2, <2>3 DEF Inv
<1> QED
  BY <1>3, <1>4

LEMMA CrashInv == Inv /\ Crash => Inv'
<1> SUFFICES ASSUME Inv, Crash PROVE Inv'
  OBVIOUS
<1> USE IngestionAssumption
<1>1. /\ UNCHANGED <<published, sent, overlap, failures>>
      /\ crashes' \in 0..MaxCrashes
      /\ cursor' = 0 /\ cikMap' = "none" /\ views' = {}
      /\ published \in Nat
  BY DEF Crash, Fresh, Inv, TypeOK
<1>2. /\ pc' \in [Pollers -> PollStates] /\ oldest' \in [Pollers -> 1..(published + 1)]
      /\ newest' \in [Pollers -> 0..published] /\ next' \in [Pollers -> 0..(published + 1)]
      /\ \A p \in Pollers :
           pc'[p] = "idle" /\ oldest'[p] = 1 /\ newest'[p] = 0 /\ next'[p] = 0
  BY <1>1 DEF Crash, Fresh, PollStates
<1>3. TypeOK'
  BY <1>1, <1>2 DEF Inv, TypeOK
<1>4. InPage' /\ OneDownload'
  BY <1>1, <1>2 DEF InPage, OneDownload
<1> QED
  BY <1>3, <1>4 DEF Inv

LEMMA StutterInv == Inv /\ UNCHANGED vars => Inv'
BY DEF vars, cikVars, pollVars, Inv, TypeOK, InPage, OneDownload

\* The inductive invariant: types, the place of a poll in its page, and that
\* what was looked up so far was looked up in the table there is.
THEOREM Invariance == Spec => []Inv
<1>1. Inv /\ [Next]_vars => Inv'
  BY PublishInv, FetchInv, CutShortInv, LookUpInv, DownloadInv, CompareInv,
     AdvanceInv, SendInv, CrashInv, StutterInv DEF Next, Poll, CutShort
<1> QED
  BY InitInv, <1>1, PTL DEF Spec

-----------------------------------------------------------------------------
\* TypeOK: no page outgrows the window, and only published items are sent.
THEOREM TypeCorrect == Spec => []TypeOK
<1>1. Inv => TypeOK
  BY DEF Inv
<1> QED
  BY Invariance, <1>1, PTL

\* OneView: one table for all lookups of a run, with any number of pollers.
THEOREM OneViewHolds == Spec => []OneView
<1>1. Inv => OneView
  <2> SUFFICES ASSUME Inv PROVE OneView
    OBVIOUS
  <2>1. views = {} \/ views = {cikMap}
    BY DEF Inv, OneDownload
  <2>2. Cardinality(views) = 0 \/ Cardinality(views) = 1
    BY <2>1, FS_EmptySet, FS_Singleton, Zenon
  <2> QED
    BY <2>2 DEF OneView
<1> QED
  BY Invariance, <1>1, PTL

-----------------------------------------------------------------------------
(* What holds as long as polls follow one another in one run of the         *)
(* process: the cursor separates what was sent from what will be.           *)

Undisturbed == crashes = 0 /\ ~overlap

Alone == \A p, q \in Pollers : Busy(p) /\ Busy(q) => p = q

Ascending == \A i, j \in DOMAIN sent : i < j => sent[i] < sent[j]

\* A poll stops at the cursor, sends what lies beyond it, and moves it before.
Divided ==
  /\ \A p \in Pollers :
       /\ pc[p] \in {"lookup", "download", "compare"} => cursor <= next[p]
       /\ pc[p] = "advance" => cursor < next[p]
       /\ pc[p] = "send" => /\ cursor = newest[p]
                            /\ \A k \in DOMAIN sent : sent[k] < next[p]
  /\ (\A p \in Pollers : pc[p] # "send") => \A k \in DOMAIN sent : sent[k] <= cursor

Serial == Undisturbed => Alone /\ Ascending /\ Divided

LEMMA SentItems ==
  ASSUME Inv
  PROVE  /\ published \in Nat /\ cursor \in Nat /\ cursor <= published
         /\ sent \in Seq(Nat)
         /\ \A k \in DOMAIN sent : sent[k] \in Nat
         /\ \A p \in Pollers : next[p] \in Nat /\ newest[p] \in Nat /\ oldest[p] \in Nat
<1>1. published \in Nat /\ sent \in Seq(1..published)
  BY IngestionAssumption DEF Inv, TypeOK
<1>2. \A k \in DOMAIN sent : sent[k] \in 1..published
  BY <1>1
<1>3. sent \in Seq(Nat)
  <2>1. 1..published \subseteq Nat
    BY <1>1
  <2> QED
    BY <1>1, <2>1
<1> QED
  BY <1>1, <1>2, <1>3 DEF Inv, TypeOK

\* Steps that neither send nor move the cursor nor begin a poll.
LEMMA SerialKept ==
  ASSUME Inv, Serial, Undisturbed,
         UNCHANGED <<cursor, sent>>,
         \A p \in Pollers : /\ Busy(p)' => Busy(p)
                            /\ pc'[p] = "send" <=> pc[p] = "send"
                            /\ pc'[p] = "send" => next'[p] = next[p] /\ newest'[p] = newest[p]
                            /\ pc'[p] \in {"lookup", "download", "compare"} => cursor <= next'[p]
                            /\ pc'[p] = "advance" => cursor < next'[p]
  PROVE  Serial'
<1>1. Alone'
  BY DEF Serial, Alone
<1>2. Ascending'
  BY DEF Serial, Ascending
<1>3. Divided'
  BY DEF Serial, Divided
<1> QED
  BY <1>1, <1>2, <1>3 DEF Serial

LEMMA FetchSerial ==
  ASSUME NEW p \in Pollers, Inv, Serial, Fetch(p), Undisturbed'
  PROVE  Serial'
<1>1. Undisturbed /\ \A q \in Pollers : Busy(q) => FALSE
  BY DEF Fetch, Undisturbed, Busy
<1>2. /\ UNCHANGED <<cursor, sent>>
      /\ \A q \in Pollers : Busy(q)' => q = p
      /\ \A q \in Pollers : pc'[q] \notin {"advance", "send"}
      /\ next'[p] = published
  BY <1>1 DEF Fetch, Busy, Inv, TypeOK
<1>3. Alone'
  BY <1>2 DEF Alone
<1>4. Ascending'
  BY <1>1, <1>2 DEF Serial, Ascending
<1>5. Divided'
  BY <1>1, <1>2, SentItems DEF Serial, Divided, Busy
<1> QED
  BY <1>3, <1>4, <1>5 DEF Serial

LEMMA CompareSerial ==
  ASSUME NEW p \in Pollers, Inv, Serial, Compare(p), Undisturbed'
  PROVE  Serial'
<1>1. Undisturbed /\ UNCHANGED <<cursor, sent, newest>> /\ pc[p] = "compare"
  BY DEF Compare, Undisturbed
<1>2. cursor <= next[p] /\ next[p] \in Nat /\ cursor \in Nat
  BY <1>1, SentItems DEF Serial, Divided
<1>3. \A q \in Pollers \ {p} : ~Busy(q) /\ ~Busy(q)' /\ pc'[q] # "send"
  BY <1>1 DEF Compare, Ended, Serial, Alone, Busy, Inv, TypeOK
<1>4. \/ pc'[p] \in {"idle", "ended"}
      \/ pc'[p] = "advance" /\ next'[p] = next[p] + 1
      \/ pc'[p] = "compare" /\ next'[p] = next[p] - 1 /\ next[p] # cursor
  BY <1>1 DEF Compare, Ended, Inv, TypeOK
<1>5. \A q \in Pollers :
         /\ Busy(q)' => Busy(q)
         /\ pc'[q] = "send" <=> pc[q] = "send"
         /\ pc'[q] = "send" => next'[q] = next[q] /\ newest'[q] = newest[q]
         /\ pc'[q] \in {"lookup", "download", "compare"} => cursor <= next'[q]
         /\ pc'[q] = "advance" => cursor < next'[q]
  BY <1>1, <1>2, <1>3, <1>4 DEF Busy
<1> QED
  BY <1>1, <1>5, SerialKept

LEMMA AdvanceSerial ==
  ASSUME NEW p \in Pollers, Inv, Serial, Advance(p), Undisturbed'
  PROVE  Serial'
<1>1. /\ Undisturbed /\ UNCHANGED <<sent, next, newest>> /\ pc[p] = "advance"
      /\ cursor' = newest[p] /\ pc'[p] = "send"
      /\ \A q \in Pollers \ {p} : pc'[q] = pc[q]
  BY DEF Advance, Undisturbed, Inv, TypeOK
<1>2. \A q \in Pollers \ {p} : ~Busy(q)
  BY <1>1 DEF Serial, Alone, Busy
<1>3. Alone'
  BY <1>1, <1>2 DEF Alone, Busy
<1>4. Ascending'
  BY <1>1 DEF Serial, Ascending
<1>5. \A k \in DOMAIN sent : sent[k] < next[p]
  <2>1. \A q \in Pollers : pc[q] # "send"
    BY <1>1, <1>2 DEF Busy
  <2> QED
    BY <1>1, <2>1, SentItems DEF Serial, Divided
<1>6. Divided'
  BY <1>1, <1>2, <1>5 DEF Divided, Busy
<1> QED
  BY <1>3, <1>4, <1>6 DEF Serial

LEMMA SendSerial ==
  ASSUME NEW p \in Pollers, Inv, Serial, Send(p), Undisturbed'
  PROVE  Serial'
<1>1. /\ Undisturbed /\ UNCHANGED <<cursor, newest>> /\ pc[p] = "send"
      /\ cursor = newest[p]
  BY DEF Send, Undisturbed, Serial, Divided
<1>2. \A k \in DOMAIN sent : sent[k] < next[p]
  BY <1>1 DEF Serial, Divided
<1>3. \A q \in Pollers \ {p} : ~Busy(q) /\ pc'[q] = pc[q]
  BY <1>1 DEF Send, Ended, Serial, Alone, Busy, Inv, TypeOK
<1>4. Alone'
  BY <1>3 DEF Alone, Busy
<1>5. CASE next[p] <= newest[p]
  <2>1. /\ sent' = Append(sent, next[p]) /\ next'[p] = next[p] + 1 /\ pc' = pc
    BY <1>5 DEF Send, Inv, TypeOK
  <2>2. /\ DOMAIN sent' = 1..(Len(sent) + 1) /\ DOMAIN sent = 1..Len(sent) /\ Len(sent) \in Nat
        /\ \A k \in DOMAIN sent : sent'[k] = sent[k]
        /\ sent'[Len(sent) + 1] = next[p]
    BY <2>1, SentItems
  <2>3. \A k \in DOMAIN sent' : k \in DOMAIN sent \/ k = Len(sent) + 1
    BY <2>2
  <2>4. Ascending'
    BY <1>1, <1>2, <2>2, <2>3 DEF Serial, Ascending
  <2>5. \A k \in DOMAIN sent' : sent'[k] < next'[p]
    BY <1>2, <2>1, <2>2, <2>3, SentItems
  <2>6. Divided'
    BY <1>1, <1>3, <2>1, <2>5 DEF Divided, Busy
  <2> QED
    BY <1>4, <2>4, <2>6 DEF Serial
<1>6. CASE ~(next[p] <= newest[p])
  <2>1. sent' = sent /\ pc'[p] \in {"idle", "ended"}
    BY <1>6 DEF Send, Ended, Inv, TypeOK
  <2>2. \A k \in DOMAIN sent : sent[k] <= cursor
    BY <1>1, <1>2, SentItems DEF Inv, InPage
  <2>3. Ascending'
    BY <1>1, <2>1 DEF Serial, Ascending
  <2>4. Divided'
    BY <1>1, <1>3, <2>1, <2>2 DEF Divided, Busy
  <2> QED
    BY <1>4, <2>3, <2>4 DEF Serial
<1> QED
  BY <1>5, <1>6

LEMMA AsideSerial ==
  ASSUME NEW p \in Pollers, Inv, Serial,
         CutShort(p) \/ LookUp(p) \/ Download(p), Undisturbed'
  PROVE  Serial'
<1>1. /\ Undisturbed /\ UNCHANGED <<cursor, sent, newest, next>>
      /\ \A q \in Pollers \ {p} : pc'[q] = pc[q]
  BY DEF CutShort, FetchFails, Stalls, Hangs, Ended, LookUp, Download, Undisturbed, Inv,
         TypeOK
<1>2. /\ pc[p] # "send"
      /\ \/ pc'[p] \in {"idle", "ended", "stalled", "hung"}
         \/ pc[p] \in {"lookup", "download"} /\ pc'[p] \in {"download", "compare"}
  BY DEF CutShort, FetchFails, Stalls, Hangs, Requests, Ended, LookUp, Download, Inv, TypeOK
<1>3. \A q \in Pollers :
         /\ Busy(q)' => Busy(q)
         /\ pc'[q] = "send" <=> pc[q] = "send"
         /\ pc'[q] = "send" => next'[q] = next[q] /\ newest'[q] = newest[q]
         /\ pc'[q] \in {"lookup", "download", "compare"} => cursor <= next'[q]
         /\ pc'[q] = "advance" => cursor < next'[q]
  BY <1>1, <1>2 DEF Busy, Serial, Divided
<1> QED
  BY <1>1, <1>3, SerialKept

\* InOrder: with polls one after the other, each continues where the last ended.
THEOREM InOrderHolds == Spec => []InOrder
<1>1. Init => Serial
  BY DEF Init, Serial, Alone, Busy, Ascending, Divided
<1>2. Inv /\ Serial /\ [Next]_vars => Serial'
  <2> SUFFICES ASSUME Inv, Serial, [Next]_vars, Undisturbed' PROVE Serial'
    BY DEF Serial
  <2>1. CASE Publish \/ UNCHANGED vars
    <3>1. Undisturbed /\ UNCHANGED <<cursor, pc, newest, next, sent>>
      BY <2>1 DEF Publish, vars, pollVars, Undisturbed
    <3> QED
      BY <3>1, SerialKept DEF Busy, Serial, Divided
  <2>2. ASSUME NEW p \in Pollers, Poll(p) \/ CutShort(p) PROVE Serial'
    BY <2>2, FetchSerial, CompareSerial, AdvanceSerial, SendSerial, AsideSerial DEF Poll
  <2>3. ~Crash
    BY IngestionAssumption DEF Crash, Undisturbed, Inv, TypeOK
  <2> QED
    BY <2>1, <2>2, <2>3 DEF Next, CutShort
<1>3. Serial => InOrder
  BY DEF Serial, Undisturbed, Ascending, InOrder
<1> QED
  BY Invariance, <1>1, <1>2, <1>3, PTL DEF Spec

-----------------------------------------------------------------------------
(* How often an item is in a sequence. *)

\* How often i is in the sequence s.
Count(s, i) == Cardinality({k \in DOMAIN s : s[k] = i})

\* A count is a number, and no more than the length.
LEMMA CountType ==
  ASSUME NEW S, NEW s \in Seq(S), NEW i
  PROVE  /\ IsFiniteSet({k \in DOMAIN s : s[k] = i})
         /\ Count(s, i) \in Nat
         /\ Count(s, i) <= Len(s)
<1>1. Len(s) \in Nat /\ DOMAIN s = 1..Len(s)
  OBVIOUS
<1>2. IsFiniteSet(1..Len(s)) /\ Cardinality(1..Len(s)) = Len(s)
  BY <1>1, FS_Interval
<1>3. {k \in DOMAIN s : s[k] = i} \in SUBSET (1..Len(s))
  BY <1>1
<1> HIDE DEF Count
<1>4. /\ IsFiniteSet({k \in DOMAIN s : s[k] = i})
      /\ Cardinality({k \in DOMAIN s : s[k] = i}) <= Cardinality(1..Len(s))
  BY <1>2, <1>3, FS_Subset
<1> QED
  BY <1>2, <1>4, FS_CardinalityType DEF Count

\* What an append adds to the count.
LEMMA CountAppend ==
  ASSUME NEW S, NEW s \in Seq(S), NEW x \in S, NEW i
  PROVE  Count(Append(s, x), i) = IF x = i THEN Count(s, i) + 1 ELSE Count(s, i)
<1> DEFINE at == {k \in DOMAIN s : s[k] = i}
           n == Len(s) + 1
<1>1. /\ Len(s) \in Nat /\ DOMAIN s = 1..Len(s) /\ DOMAIN Append(s, x) = 1..n
      /\ \A k \in 1..Len(s) : Append(s, x)[k] = s[k]
      /\ Append(s, x)[n] = x
  OBVIOUS
<1>2. {k \in DOMAIN Append(s, x) : Append(s, x)[k] = i} = IF x = i THEN at \cup {n} ELSE at
  <2>1. \A k : k \in 1..n <=> k \in 1..Len(s) \/ k = n
    BY <1>1
  <2> QED
    BY <1>1, <2>1
<1>3. n \notin at /\ IsFiniteSet(at)
  <2>1. IsFiniteSet(at)
    BY CountType
  <2> QED
    BY <1>1, <2>1
<1> HIDE DEF at, n
<1>4. Cardinality(at \cup {n}) = Cardinality(at) + 1
  BY <1>3, FS_AddElement
<1>5. Count(s, i) = Cardinality(at)
  BY DEF Count, at
<1> QED
  BY <1>2, <1>4, <1>5 DEF Count

\* The positions of Tail(s) are those of s but the first, moved by one.
LEMMA CountTail ==
  ASSUME NEW S, NEW s \in Seq(S), s # <<>>, NEW i
  PROVE  Count(s, i) = IF Head(s) = i THEN Count(Tail(s), i) + 1 ELSE Count(Tail(s), i)
<1> DEFINE at == {k \in DOMAIN s : s[k] = i}
           behind == {k \in DOMAIN Tail(s) : Tail(s)[k] = i}
           back == [k \in at \ {1} |-> k - 1]
<1>1. /\ Len(s) \in Nat \ {0} /\ DOMAIN s = 1..Len(s)
      /\ DOMAIN Tail(s) = 1..(Len(s) - 1)
      /\ \A k \in 1..(Len(s) - 1) : Tail(s)[k] = s[k + 1]
      /\ Head(s) = s[1]
  OBVIOUS
<1>2. Tail(s) \in Seq(S)
  OBVIOUS
<1>3. IsFiniteSet(at) /\ IsFiniteSet(behind)
  BY <1>2, CountType
<1>4. IsFiniteSet(at \ {1})
      /\ Cardinality(at \ {1}) = IF 1 \in at THEN Cardinality(at) - 1 ELSE Cardinality(at)
  BY <1>3, FS_RemoveElement
<1>5. back \in Bijection(at \ {1}, behind)
  <2>1. back \in [at \ {1} -> behind]
    BY <1>1
  <2>2. \A k, l \in at \ {1} : back[k] = back[l] => k = l
    BY <1>1
  <2>3. \A m \in behind : \E k \in at \ {1} : back[k] = m
    <3> SUFFICES ASSUME NEW m \in behind PROVE \E k \in at \ {1} : back[k] = m
      OBVIOUS
    <3>1. m + 1 \in at \ {1} /\ back[m + 1] = m
      BY <1>1
    <3> QED
      BY <3>1
  <2> HIDE DEF back, at, behind
  <2> QED
    BY <2>1, <2>2, <2>3, Fun_IsBij
<1>6. Cardinality(behind) = Cardinality(at \ {1})
  <2> HIDE DEF back, at, behind
  <2>1. ExistsBijection(at \ {1}, behind)
    BY <1>5 DEF ExistsBijection
  <2> QED
    BY <1>4, <2>1, FS_Bijection
<1>7. 1 \in at <=> Head(s) = i
  BY <1>1
<1>8. Cardinality(at) \in Nat
  <2> HIDE DEF at
  <2> QED
    BY <1>3, FS_CardinalityType
<1>9. Count(s, i) = Cardinality(at) /\ Count(Tail(s), i) = Cardinality(behind)
  BY DEF Count
<1> HIDE DEF at, behind, back
<1> QED
  BY <1>4, <1>6, <1>7, <1>8, <1>9

-----------------------------------------------------------------------------
(* What may still be sent of an item in this run of the process. *)

Num(b) == IF b THEN 1 ELSE 0

\* A poll under way will send item i.
SendsAt(p, i) == pc[p] = "send" /\ next[p] <= i /\ i <= newest[p]

\* A loop that no other poller disturbs may send item i once more, in the poll
\* it is about to send from or in a later one.
MaySend(p, i) ==
  \/ pc[p] \in {"idle", "send"} /\ cursor < i
  \/ pc[p] \in {"lookup", "download", "compare"} /\ ~(i <= cursor /\ cursor <= next[p])
  \/ pc[p] = "advance" /\ next[p] <= i

\* The first check has yet to move the cursor, perhaps back.
MayRewind(p) == pc[p] \in {"idle", "lookup", "download", "compare", "advance"}

Spare(i) ==
  Num(\E p \in Loop : SendsAt(p, i)) + Num(\E p \in Loop : MaySend(p, i))
    + Num(\E p \in First : MayRewind(p))
    + Num(\E p \in First : MayRewind(p) \/ SendsAt(p, i))

\* What was sent of an item and what may yet be sent stay within the bound.
Quota == \A i \in 1..MaxItems : Count(sent, i) + Spare(i) <= 3 * (crashes + 1)

LEMMA SpareType == ASSUME NEW i PROVE Spare(i) \in 0..4
BY DEF Spare, Num

LEMMA ItemType ==
  ASSUME Inv, NEW i \in 1..MaxItems
  PROVE  i \in Nat /\ crashes \in Nat /\ Count(sent, i) \in Nat
<1>1. sent \in Seq(Nat)
  BY SentItems
<1>2. Count(sent, i) \in Nat
  BY <1>1, CountType
<1> QED
  BY <1>2, IngestionAssumption DEF Inv, TypeOK

\* A step that sends nothing.
LEMMA SilentQuota ==
  ASSUME Inv, Quota, crashes' = crashes, sent' = sent,
         \A i \in 1..MaxItems : Spare(i)' <= Spare(i)
  PROVE  Quota'
<1> SUFFICES ASSUME NEW i \in 1..MaxItems
             PROVE  Count(sent', i) + Spare(i)' <= 3 * (crashes' + 1)
  BY DEF Quota, Count
<1>1. Spare(i) \in Nat /\ Spare(i)' \in Nat
  BY DEF Spare, Num
<1>2. Count(sent, i) + Spare(i) <= 3 * (crashes + 1)
  BY DEF Quota
<1> QED
  BY <1>1, <1>2, ItemType

\* A step of the loop uses up no more than it may still send.
LEMMA LoopSpare ==
  ASSUME Inv, NEW p \in Loop, NEW i \in 1..MaxItems, Poll(p) \/ CutShort(p)
  PROVE  IF pc[p] = "send" /\ next[p] <= newest[p] /\ next[p] = i
         THEN Spare(i)' <= Spare(i) - 1
         ELSE Spare(i)' <= Spare(i)
<1>1. p \in Pollers /\ i \in Nat
  BY IngestionAssumption DEF Pollers
<1>2. /\ cursor \in Nat /\ published \in Nat /\ cursor <= published
      /\ next[p] \in Nat /\ newest[p] \in Nat /\ oldest[p] \in Nat
  BY <1>1, SentItems
<1>3. \A q \in First : pc'[q] = pc[q] /\ next'[q] = next[q] /\ newest'[q] = newest[q]
  BY IngestionAssumption
     DEF Poll, CutShort, Fetch, FetchFails, Stalls, Hangs, LookUp, Download, Compare,
         Advance, Send, Ended, Pollers, Inv, TypeOK
<1>4. /\ (\E q \in First : MayRewind(q))' <=> \E q \in First : MayRewind(q)
      /\ (\E q \in First : MayRewind(q) \/ SendsAt(q, i))'
           <=> \E q \in First : MayRewind(q) \/ SendsAt(q, i)
  BY <1>3 DEF MayRewind, SendsAt
<1>5. /\ (\E q \in Loop : SendsAt(q, i)) <=> SendsAt(p, i)
      /\ (\E q \in Loop : MaySend(q, i)) <=> MaySend(p, i)
      /\ (\E q \in Loop : SendsAt(q, i))' <=> SendsAt(p, i)'
      /\ (\E q \in Loop : MaySend(q, i))' <=> MaySend(p, i)'
  BY OneOfEach DEF SendsAt, MaySend
<1>6. IF pc[p] = "send" /\ next[p] <= newest[p] /\ next[p] = i
      THEN Num(SendsAt(p, i)') + Num(MaySend(p, i)') <= Num(SendsAt(p, i)) + Num(MaySend(p, i)) - 1
      ELSE Num(SendsAt(p, i)') + Num(MaySend(p, i)') <= Num(SendsAt(p, i)) + Num(MaySend(p, i))
  <2> USE <1>1, <1>2, IngestionAssumption DEF SendsAt, MaySend, Num, Inv, TypeOK
  <2>1. CASE Fetch(p)
    BY <2>1 DEF Fetch
  <2>2. CASE CutShort(p)
    BY <2>2 DEF CutShort, FetchFails, Stalls, Hangs, Requests, Ended
  <2>3. CASE LookUp(p)
    BY <2>3 DEF LookUp
  <2>4. CASE Download(p)
    BY <2>4 DEF Download
  <2>5. CASE Compare(p)
    BY <2>5 DEF Compare, Ended
  <2>6. CASE Advance(p)
    BY <2>6 DEF Advance, InPage
  <2>7. CASE Send(p)
    BY <2>7 DEF Send, Ended
  <2> QED
    BY <2>1, <2>2, <2>3, <2>4, <2>5, <2>6, <2>7 DEF Poll
<1> QED
  BY <1>4, <1>5, <1>6 DEF Spare, Num

\* So does one of the first check; when it moves the cursor back the loop gains
\* what the first check loses.
LEMMA FirstSpare ==
  ASSUME Inv, NEW p \in First, NEW i \in 1..MaxItems, Poll(p) \/ CutShort(p)
  PROVE  IF pc[p] = "send" /\ next[p] <= newest[p] /\ next[p] = i
         THEN Spare(i)' <= Spare(i) - 1
         ELSE Spare(i)' <= Spare(i)
<1>1. p \in Pollers /\ p \notin Loop /\ i \in Nat
  BY IngestionAssumption DEF Pollers
<1>2. /\ cursor \in Nat /\ published \in Nat /\ cursor <= published
      /\ next[p] \in Nat /\ newest[p] \in Nat /\ oldest[p] \in Nat
  BY <1>1, SentItems
<1>3. \A q \in Loop : pc'[q] = pc[q] /\ next'[q] = next[q] /\ newest'[q] = newest[q]
  BY <1>1
     DEF Poll, CutShort, Fetch, FetchFails, Stalls, Hangs, LookUp, Download, Compare,
         Advance, Send, Ended, Pollers, Inv, TypeOK
<1>4. (\E q \in Loop : SendsAt(q, i))' <=> \E q \in Loop : SendsAt(q, i)
  BY <1>3 DEF SendsAt
<1>5. \/ (\E q \in Loop : MaySend(q, i))' <=> \E q \in Loop : MaySend(q, i)
      \/ Advance(p)
  <2>1. CASE Advance(p)
    BY <2>1
  <2>2. CASE cursor' = cursor
    BY <1>3, <2>2 DEF MaySend
  <2> QED
    BY <2>1, <2>2
       DEF Poll, CutShort, Fetch, FetchFails, Stalls, Hangs, LookUp, Download, Compare, Send
<1>6. /\ (\E q \in First : MayRewind(q)) <=> MayRewind(p)
      /\ (\E q \in First : MayRewind(q) \/ SendsAt(q, i)) <=> MayRewind(p) \/ SendsAt(p, i)
      /\ (\E q \in First : MayRewind(q))' <=> MayRewind(p)'
      /\ (\E q \in First : MayRewind(q) \/ SendsAt(q, i))' <=> (MayRewind(p) \/ SendsAt(p, i))'
  BY OneOfEach DEF SendsAt, MayRewind
<1>7. /\ pc[p] = "send" /\ next[p] <= newest[p] /\ next[p] = i
         => SendsAt(p, i) /\ ~MayRewind(p) /\ ~MayRewind(p)' /\ ~SendsAt(p, i)'
      /\ MayRewind(p)' => MayRewind(p)
      /\ (MayRewind(p) \/ SendsAt(p, i))' => MayRewind(p) \/ SendsAt(p, i)
      /\ Advance(p) => MayRewind(p) /\ ~MayRewind(p)'
  <2> USE <1>1, <1>2, IngestionAssumption DEF SendsAt, MayRewind, Inv, TypeOK, Ended
  <2>1. CASE Fetch(p)
    BY <2>1 DEF Fetch, Advance
  <2>2. CASE CutShort(p)
    BY <2>2 DEF CutShort, FetchFails, Stalls, Hangs, Requests, Advance
  <2>3. CASE LookUp(p)
    BY <2>3 DEF LookUp, Advance
  <2>4. CASE Download(p)
    BY <2>4 DEF Download, Advance
  <2>5. CASE Compare(p)
    BY <2>5 DEF Compare, Advance
  <2>6. CASE Advance(p)
    BY <2>6 DEF Advance
  <2>7. CASE Send(p)
    BY <2>7 DEF Send, Advance
  <2> QED
    BY <2>1, <2>2, <2>3, <2>4, <2>5, <2>6, <2>7 DEF Poll
<1> QED
  BY <1>4, <1>5, <1>6, <1>7 DEF Spare, Num

LEMMA PollQuota ==
  ASSUME Inv, Quota, NEW p \in Pollers, Poll(p) \/ CutShort(p)
  PROVE  Quota'
<1> SUFFICES ASSUME NEW i \in 1..MaxItems
             PROVE  Count(sent', i) + Spare(i)' <= 3 * (crashes' + 1)
  BY DEF Quota, Count
<1>1. IF pc[p] = "send" /\ next[p] <= newest[p] /\ next[p] = i
      THEN Spare(i)' <= Spare(i) - 1
      ELSE Spare(i)' <= Spare(i)
  BY LoopSpare, FirstSpare DEF Pollers
<1>2. IF pc[p] = "send" /\ next[p] <= newest[p] /\ next[p] = i
      THEN Count(sent', i) = Count(sent, i) + 1
      ELSE Count(sent', i) = Count(sent, i)
  <2>1. CASE Send(p) /\ next[p] <= newest[p]
    <3>1. pc[p] = "send" /\ sent' = Append(sent, next[p])
      BY <2>1 DEF Send
    <3>2. sent \in Seq(Nat) /\ next[p] \in Nat
      BY SentItems
    <3> QED
      BY <2>1, <3>1, <3>2, CountAppend
  <2>2. CASE sent' = sent /\ ~(pc[p] = "send" /\ next[p] <= newest[p])
    BY <2>2
  <2> QED
    BY <2>1, <2>2
       DEF Poll, CutShort, Fetch, FetchFails, Stalls, Hangs, Requests, LookUp, Download,
           Compare, Advance, Send
<1>3. Spare(i) \in Nat /\ Spare(i)' \in Nat
  BY DEF Spare, Num
<1>4. Count(sent, i) + Spare(i) <= 3 * (crashes + 1)
  BY DEF Quota
<1>5. crashes' = crashes
  BY DEF Poll, CutShort, Fetch, FetchFails, Stalls, Hangs, LookUp, Download, Compare,
         Advance, Send
<1> QED
  BY <1>1, <1>2, <1>3, <1>4, <1>5, ItemType

\* A new process may send everything thrice.
LEMMA FreshSpare ==
  ASSUME \A p \in Pollers : pc[p] = "idle", NEW i
  PROVE  Spare(i) <= 3
BY DEF Spare, SendsAt, Num, Pollers

LEMMA InitQuota == Init => Quota
<1> SUFFICES ASSUME Init, NEW i \in 1..MaxItems
             PROVE  Count(sent, i) + Spare(i) <= 3 * (crashes + 1)
  BY DEF Quota
<1>1. Spare(i) <= 3 /\ Spare(i) \in Nat
  <2>1. \A p \in Pollers : pc[p] = "idle"
    BY DEF Init
  <2> QED
    BY <2>1, FreshSpare DEF Spare, Num
<1>2. Count(sent, i) = 0
  <2>1. sent \in Seq(Nat) /\ Len(sent) = 0
    BY DEF Init
  <2>2. Count(sent, i) \in Nat /\ Count(sent, i) <= Len(sent)
    BY <2>1, CountType
  <2> QED
    BY <2>1, <2>2
<1> QED
  BY <1>1, <1>2 DEF Init

LEMMA CrashQuota ==
  ASSUME Inv, Inv', Quota, Crash
  PROVE  Quota'
<1> SUFFICES ASSUME NEW i \in 1..MaxItems
             PROVE  Count(sent', i) + Spare(i)' <= 3 * (crashes' + 1)
  BY DEF Quota, Count
<1>1. sent' = sent /\ crashes' = crashes + 1
  BY DEF Crash
<1>2. Spare(i)' <= 3
  BY DEF Crash, Fresh, Spare, SendsAt, Num, Pollers
<1>3. Spare(i) \in Nat /\ Spare(i)' \in Nat
  BY DEF Spare, Num
<1>4. Count(sent, i) + Spare(i) <= 3 * (crashes + 1)
  BY DEF Quota
<1> QED
  BY <1>1, <1>2, <1>3, <1>4, ItemType

\* AtMostThree: one loop and one first check send an item three times at most
\* in one run of the process, however their polls interleave.
THEOREM AtMostThreeHolds == Spec => []AtMostThree
<1>1. Inv /\ Inv' /\ Quota /\ [Next]_vars => Quota'
  <2> SUFFICES ASSUME Inv, Inv', Quota, [Next]_vars PROVE Quota'
    OBVIOUS
  <2>1. CASE Publish \/ UNCHANGED vars
    <3>1. UNCHANGED <<cursor, pc, newest, next, sent, crashes>>
      BY <2>1 DEF Publish, vars, pollVars
    <3>2. \A i \in 1..MaxItems : Spare(i)' <= Spare(i)
      BY <3>1 DEF Spare, SendsAt, MaySend, MayRewind, Num
    <3> QED
      BY <3>1, <3>2, SilentQuota
  <2>2. ASSUME NEW p \in Pollers, Poll(p) \/ CutShort(p) PROVE Quota'
    BY <2>2, PollQuota
  <2>3. CASE Crash
    BY <2>3, CrashQuota
  <2> QED
    BY <2>1, <2>2, <2>3 DEF Next, CutShort
<1>2. Inv /\ Quota => AtMostThree
  <2> SUFFICES ASSUME Inv, Quota, NEW i \in 1..MaxItems
               PROVE  Count(sent, i) <= 3 * (crashes + 1)
    BY DEF AtMostThree, Count
  <2>1. Count(sent, i) + Spare(i) <= 3 * (crashes + 1)
    BY DEF Quota
  <2> QED
    BY <2>1, ItemType, SpareType
<1> QED
  BY InitQuota, <1>1, <1>2, Invariance, PTL DEF Spec

-----------------------------------------------------------------------------
(* System: every row of an item answers to a send of it.                    *)

\* What an item still may become: a row for each copy in the channel and for
\* each worker that has not stored the one it has in hand.
Pending(i) == {w \in Workers : hand[w] = i /\ ~stored[w]}

Accounted ==
  \A i \in 1..MaxItems : alerts[i] + Count(queue, i) + Cardinality(Pending(i)) <= Count(sent, i)

Lives ==
  /\ phase \in {"up", "cancelled", "closed"}
  /\ queue \in Seq(1..published) /\ Len(queue) <= Cap
  /\ hand \in [Workers -> 0..published]
  /\ live \in [Workers -> BOOLEAN]
  /\ stored \in [Workers -> BOOLEAN]
  /\ alerts \in [1..MaxItems -> Nat]
  /\ handled \subseteq 1..published

SystemInv == Inv /\ Lives /\ Accounted

\* A step of the system is a step of the feed and its pollers, or none of theirs.
LEMMA SystemStep == [SystemNext]_systemVars => [Next]_vars
BY DEF SystemNext, systemVars, Appears, Polls, Unanswered, Sends, WorkerStep, Receive, Store, Finish,
       Interrupted, Signal, CloseChannel, Exit, Panics, Dies, Restarted, Next, Poll

\* Behind a bounded channel, workers and a shutdown, the pollers do what
\* Ingestion says they do on their own: its theorems hold of the system.
THEOREM SystemPolls == SystemSpec => Spec
<1>1. SystemInit => Init
  BY DEF SystemInit
<1> QED
  BY <1>1, SystemStep, PTL DEF SystemSpec, Spec

LEMMA PendingFinite ==
  ASSUME NEW i
  PROVE  IsFiniteSet(Pending(i)) /\ Cardinality(Pending(i)) \in Nat
<1>1. Pending(i) \subseteq Workers
  BY DEF Pending
<1> QED
  BY <1>1, SystemAssumption, FS_Subset, FS_CardinalityType

LEMMA PendingShrinks ==
  ASSUME NEW i, Pending(i)' \subseteq Pending(i)
  PROVE  Cardinality(Pending(i)') <= Cardinality(Pending(i)) /\ Cardinality(Pending(i)') \in Nat
<1>1. IsFiniteSet(Pending(i)) /\ IsFiniteSet(Pending(i)')
  BY PendingFinite, FS_Subset
<1> QED
  BY <1>1, FS_Subset, FS_CardinalityType

\* The numbers of an item.
LEMMA Numbers ==
  ASSUME SystemInv, NEW i \in 1..MaxItems
  PROVE  /\ i \in Nat /\ i # 0
         /\ alerts[i] \in Nat /\ Count(queue, i) \in Nat /\ Count(sent, i) \in Nat
         /\ IsFiniteSet(Pending(i)) /\ Cardinality(Pending(i)) \in Nat
         /\ alerts[i] + Count(queue, i) + Cardinality(Pending(i)) <= Count(sent, i)
<1>1. queue \in Seq(1..published) /\ alerts[i] \in Nat
  BY DEF SystemInv, Lives
<1>2. Count(queue, i) \in Nat
  BY <1>1, CountType
<1>3. i \in Nat /\ i # 0
  BY IngestionAssumption
<1>4. alerts[i] + Count(queue, i) + Cardinality(Pending(i)) <= Count(sent, i)
  BY DEF SystemInv, Accounted
<1>5. Count(sent, i) \in Nat
  BY ItemType DEF SystemInv
<1>6. IsFiniteSet(Pending(i)) /\ Cardinality(Pending(i)) \in Nat
  BY PendingFinite
<1> QED
  BY <1>1, <1>2, <1>3, <1>4, <1>5, <1>6

\* A step that sends nothing and stores nothing, and that takes items out of
\* the channel or out of workers' hands, if anything.
LEMMA DropsAccounted ==
  ASSUME SystemInv,
         UNCHANGED <<sent, alerts>>,
         \A i \in 1..MaxItems : /\ Count(queue', i) \in Nat
                                /\ Count(queue', i) <= Count(queue, i)
                                /\ Pending(i)' \subseteq Pending(i)
  PROVE  Accounted'
<1> SUFFICES ASSUME NEW i \in 1..MaxItems
             PROVE  alerts[i] + Count(queue', i) + Cardinality(Pending(i)') <= Count(sent, i)
  BY DEF Accounted, Count
<1>1. Cardinality(Pending(i)') <= Cardinality(Pending(i)) /\ Cardinality(Pending(i)') \in Nat
  BY PendingShrinks
<1>2. Count(queue', i) \in Nat /\ Count(queue', i) <= Count(queue, i)
  OBVIOUS
<1> QED
  BY <1>1, <1>2, Numbers

\* What keeps the channel and the hands as they are.
LEMMA AsideAccounted ==
  ASSUME SystemInv, UNCHANGED <<sent, queue, hand, stored, alerts>>
  PROVE  Accounted'
<1>1. ASSUME NEW i \in 1..MaxItems
      PROVE  /\ Count(queue', i) \in Nat /\ Count(queue', i) <= Count(queue, i)
             /\ Pending(i)' \subseteq Pending(i)
  <2>1. Count(queue', i) = Count(queue, i)
    OBVIOUS
  <2>2. Pending(i)' = Pending(i)
    BY DEF Pending
  <2> QED
    BY <2>1, <2>2, Numbers
<1> QED
  BY <1>1, DropsAccounted

LEMMA PublishLives == SystemInv /\ Appears => (Lives /\ Accounted)'
<1> SUFFICES ASSUME SystemInv, Appears PROVE Lives' /\ Accounted'
  OBVIOUS
<1>1. /\ published \in Nat /\ published' = published + 1
      /\ UNCHANGED <<sent, phase, queue, hand, live, stored, alerts, handled>>
  BY SentItems DEF SystemInv, Appears, Publish, lifeVars, workVars
<1>2. /\ 1..published \subseteq 1..published' /\ 0..published \subseteq 0..published'
  BY <1>1
<1>3. queue \in Seq(1..published')
  <2>1. queue \in Seq(1..published)
    BY DEF SystemInv, Lives
  <2> QED
    BY <1>1, <1>2, <2>1
<1>4. hand \in [Workers -> 0..published'] /\ handled \subseteq 1..published'
  BY <1>2 DEF SystemInv, Lives
<1>5. Lives'
  BY <1>1, <1>3, <1>4 DEF SystemInv, Lives
<1> QED
  BY <1>1, <1>5, AsideAccounted

LEMMA PollsLives ==
  ASSUME NEW p \in Pollers, SystemInv, Polls(p) \/ Unanswered(p)
  PROVE  (Lives /\ Accounted)'
<1>1. UNCHANGED <<published, sent, phase, queue, hand, live, stored, alerts, handled>>
  BY DEF Polls, Unanswered, lifeVars, workVars, Fetch, FetchFails, Stalls, Hangs, LookUp,
         Download, Compare, Advance
<1>2. Lives'
  BY <1>1 DEF SystemInv, Lives
<1> QED
  BY <1>1, <1>2, AsideAccounted

\* A send puts one more copy into the channel.
LEMMA SendsLives ==
  ASSUME NEW p \in Pollers, SystemInv, Sends(p)
  PROVE  (Lives /\ Accounted)'
<1>1. UNCHANGED <<published, phase, hand, live, stored, alerts, handled>>
  BY DEF Sends, Send, workVars
<1>2. CASE sent' = sent /\ queue' = queue
  <2>1. Lives'
    BY <1>1, <1>2 DEF SystemInv, Lives
  <2> QED
    BY <1>1, <1>2, <2>1, AsideAccounted
<1>3. CASE sent' # sent /\ Len(queue) < Cap /\ queue' = Append(queue, next[p])
  <2> DEFINE item == next[p]
  <2>1. pc[p] = "send" /\ item <= newest[p] /\ sent' = Append(sent, item)
    BY <1>3 DEF Sends, Send
  <2>2. item \in 1..published /\ item \in Nat /\ sent \in Seq(Nat)
    BY <2>1, SentItems DEF SystemInv, Inv, InPage, TypeOK
  <2>3. queue \in Seq(1..published) /\ queue' = Append(queue, item)
    BY <1>3 DEF SystemInv, Lives
  <2> HIDE DEF item
  <2>4. queue' \in Seq(1..published) /\ Len(queue') <= Cap
    BY <1>3, <2>2, <2>3, SystemAssumption
  <2>5. Lives'
    BY <1>1, <2>4 DEF SystemInv, Lives
  <2>6. ASSUME NEW i \in 1..MaxItems
        PROVE  alerts[i] + Count(queue', i) + Cardinality(Pending(i)) <= Count(sent', i)
    <3>1. Count(queue', i) = IF item = i THEN Count(queue, i) + 1 ELSE Count(queue, i)
      <4>1. queue \in Seq(Nat)
        <5>1. published \in Nat /\ queue \in Seq(1..published)
          BY <2>3, SentItems DEF SystemInv
        <5> QED
          BY <5>1
      <4>2. Count(Append(queue, item), i)
              = IF item = i THEN Count(queue, i) + 1 ELSE Count(queue, i)
        BY <2>2, <4>1, CountAppend
      <4> QED
        BY <2>3, <4>2
    <3>2. Count(sent', i) = IF item = i THEN Count(sent, i) + 1 ELSE Count(sent, i)
      BY <2>1, <2>2, CountAppend
    <3> QED
      BY <3>1, <3>2, Numbers
  <2>7. Accounted'
    BY <1>1, <2>6 DEF Accounted, Pending, Count
  <2> QED
    BY <2>5, <2>7
<1> QED
  BY <1>2, <1>3 DEF Sends

\* A worker takes a copy from the channel into its hand.
LEMMA ReceiveLives ==
  ASSUME NEW w \in Workers, SystemInv, Receive(w)
  PROVE  (Lives /\ Accounted)'
<1>1. UNCHANGED <<published, sent, phase, stored, alerts, handled>>
  BY DEF Receive, vars
<1> DEFINE item == Head(queue)
<1>2. /\ queue \in Seq(1..published) /\ queue # <<>> /\ queue' = Tail(queue)
      /\ hand \in [Workers -> 0..published] /\ hand[w] = 0
  BY DEF Receive, SystemInv, Lives
<1>3. item \in 1..published /\ item \in 0..published /\ hand' = [hand EXCEPT ![w] = item]
  BY <1>2, SentItems DEF Receive, SystemInv
<1>4. queue' \in Seq(1..published) /\ Len(queue') <= Cap
  BY <1>2, SystemAssumption DEF SystemInv, Lives
<1> HIDE DEF item
<1>5. hand' \in [Workers -> 0..published] /\ live' \in [Workers -> BOOLEAN]
  BY <1>2, <1>3 DEF Receive, SystemInv, Lives
<1>6. Lives'
  BY <1>1, <1>4, <1>5 DEF SystemInv, Lives
<1>7. ASSUME NEW i \in 1..MaxItems
      PROVE  alerts[i] + Count(queue', i) + Cardinality(Pending(i)') <= Count(sent, i)
  <2>1. Count(queue, i) = IF item = i THEN Count(queue', i) + 1 ELSE Count(queue', i)
    BY <1>2, CountTail DEF item
  <2>2. Count(queue', i) \in Nat
    BY <1>4, CountType
  <2>3. CASE item = i
    <3>1. Pending(i)' \subseteq Pending(i) \cup {w}
      BY <1>1, <1>2, <1>3 DEF Pending
    <3>2. w \notin Pending(i)
      BY <1>2, Numbers DEF Pending
    <3>3. /\ IsFiniteSet(Pending(i) \cup {w})
          /\ Cardinality(Pending(i) \cup {w}) = Cardinality(Pending(i)) + 1
      BY <3>2, PendingFinite, FS_AddElement
    <3>4. /\ Cardinality(Pending(i)') <= Cardinality(Pending(i)) + 1
          /\ Cardinality(Pending(i)') \in Nat
      BY <3>1, <3>3, FS_Subset, FS_CardinalityType
    <3> QED
      BY <2>1, <2>2, <2>3, <3>4, Numbers
  <2>4. CASE item # i
    <3>1. Pending(i)' \subseteq Pending(i)
      BY <1>1, <1>2, <1>3, <2>4 DEF Pending
    <3> QED
      BY <2>1, <2>2, <2>4, <3>1, PendingShrinks, Numbers
  <2> QED
    BY <2>3, <2>4
<1>8. Accounted'
  BY <1>1, <1>7 DEF Accounted, Count
<1> QED
  BY <1>6, <1>8

\* The copy in hand becomes a row.
LEMMA StoreLives ==
  ASSUME NEW w \in Workers, SystemInv, Store(w)
  PROVE  (Lives /\ Accounted)'
<1>1. UNCHANGED <<published, sent, phase, queue, hand, live, handled>>
  BY DEF Store, vars
<1> DEFINE item == hand[w]
<1>2. /\ ~stored[w] /\ stored \in [Workers -> BOOLEAN]
      /\ stored' = [stored EXCEPT ![w] = TRUE]
      /\ alerts \in [1..MaxItems -> Nat]
      /\ alerts' = [alerts EXCEPT ![item] = alerts[item] + 1]
  BY DEF Store, SystemInv, Lives
<1> HIDE DEF item
<1>3. /\ alerts' \in [1..MaxItems -> Nat]
      /\ \A i \in 1..MaxItems : alerts'[i] = IF i = item THEN alerts[i] + 1 ELSE alerts[i]
  <2>1. \A i \in 1..MaxItems : alerts[i] \in Nat /\ alerts[i] + 1 \in Nat
    BY <1>2
  <2> QED
    BY <1>2, <2>1
<1>4. /\ stored' \in [Workers -> BOOLEAN]
      /\ stored'[w] = TRUE /\ \A v \in Workers : v # w => stored'[v] = stored[v]
  BY <1>2
<1>5. Lives'
  BY <1>1, <1>3, <1>4 DEF SystemInv, Lives
<1>6. ASSUME NEW i \in 1..MaxItems
      PROVE  alerts'[i] + Count(queue, i) + Cardinality(Pending(i)') <= Count(sent, i)
  <2>1. CASE i = item
    <3>1. w \in Pending(i) /\ Pending(i)' = Pending(i) \ {w}
      BY <1>1, <1>2, <1>4, <2>1 DEF Pending, item
    <3>2. Cardinality(Pending(i)') = Cardinality(Pending(i)) - 1
      BY <3>1, PendingFinite, FS_RemoveElement
    <3> QED
      BY <1>3, <2>1, <3>2, Numbers
  <2>2. CASE i # item
    <3>1. Pending(i)' \subseteq Pending(i)
      BY <1>1, <1>4, <2>2 DEF Pending, item
    <3> QED
      BY <1>3, <2>2, <3>1, PendingShrinks, Numbers
  <2> QED
    BY <2>1, <2>2
<1>7. Accounted'
  BY <1>1, <1>6 DEF Accounted, Count
<1> QED
  BY <1>5, <1>7

\* A worker that is done with an item, or gives it up, has no more part in it.
LEMMA FreeLives ==
  ASSUME NEW w \in Workers, SystemInv, Finish(w) \/ Interrupted(w)
  PROVE  (Lives /\ Accounted)'
<1>1. UNCHANGED <<published, sent, phase, queue, alerts>> /\ Free(w)
  BY DEF Finish, Interrupted, vars
<1>2. /\ hand \in [Workers -> 0..published] /\ stored \in [Workers -> BOOLEAN]
      /\ live \in [Workers -> BOOLEAN] /\ published \in Nat
  BY SentItems DEF SystemInv, Lives
<1>3. /\ hand' \in [Workers -> 0..published] /\ stored' \in [Workers -> BOOLEAN]
      /\ live' \in [Workers -> BOOLEAN]
      /\ hand'[w] = 0
      /\ \A v \in Workers : v # w => hand'[v] = hand[v] /\ stored'[v] = stored[v]
  BY <1>1, <1>2 DEF Free
<1>4. handled' \subseteq 1..published
  <2>1. hand[w] \in 1..published
    BY <1>2 DEF Finish, Interrupted
  <2>2. handled \subseteq 1..published /\ handled' \subseteq handled \cup {hand[w]}
    BY DEF Finish, Interrupted, SystemInv, Lives
  <2> QED
    BY <2>1, <2>2
<1>5. Lives'
  BY <1>1, <1>3, <1>4 DEF SystemInv, Lives
<1>6. ASSUME NEW i \in 1..MaxItems
      PROVE  /\ Count(queue', i) \in Nat /\ Count(queue', i) <= Count(queue, i)
             /\ Pending(i)' \subseteq Pending(i)
  <2>1. Count(queue', i) = Count(queue, i)
    BY <1>1
  <2>2. i # 0
    BY Numbers
  <2>3. Pending(i)' \subseteq Pending(i)
    BY <1>3, <2>2 DEF Pending
  <2> QED
    BY <2>1, <2>3, Numbers
<1> QED
  BY <1>1, <1>5, <1>6, DropsAccounted

\* A new process has nothing in its channel or in its workers' hands.
LEMMA RestartedLives == SystemInv /\ Restarted => (Lives /\ Accounted)'
<1> SUFFICES ASSUME SystemInv, Restarted PROVE Lives' /\ Accounted'
  OBVIOUS
<1>1. /\ UNCHANGED <<published, sent, alerts, handled>>
      /\ published \in Nat /\ phase' = "up" /\ queue' = <<>>
      /\ hand' = [v \in Workers |-> 0]
      /\ live' = [v \in Workers |-> FALSE] /\ stored' = [v \in Workers |-> FALSE]
  BY SentItems DEF Restarted, Crash, SystemInv
<1>2. Lives'
  BY <1>1, SystemAssumption DEF SystemInv, Lives
<1>3. ASSUME NEW i \in 1..MaxItems
      PROVE  Count(queue', i) \in Nat /\ Count(queue', i) <= Count(queue, i)
  <2>1. queue' \in Seq(Nat) /\ Len(queue') = 0
    BY <1>1
  <2>2. Count(queue', i) \in Nat /\ Count(queue', i) <= Len(queue')
    BY <2>1, CountType
  <2> QED
    BY <2>1, <2>2, Numbers
<1>4. \A i \in 1..MaxItems : Pending(i)' \subseteq Pending(i)
  BY <1>1, Numbers DEF Pending
<1> QED
  BY <1>1, <1>2, <1>3, <1>4, DropsAccounted

LEMMA InitLives == SystemInit => Lives /\ Accounted
<1> SUFFICES ASSUME SystemInit PROVE Lives /\ Accounted
  OBVIOUS
<1>1. published \in Nat
  BY IngestionAssumption DEF SystemInit, Init
<1>2. Lives
  BY <1>1, SystemAssumption DEF SystemInit, Lives
<1>3. ASSUME NEW i \in 1..MaxItems
      PROVE  alerts[i] + Count(queue, i) + Cardinality(Pending(i)) <= Count(sent, i)
  <2>1. queue = sent /\ sent \in Seq(Nat) /\ Len(sent) = 0 /\ alerts[i] = 0
    BY DEF SystemInit, Init
  <2>2. Count(sent, i) \in Nat
    BY <2>1, CountType
  <2>3. Pending(i) = {}
    BY IngestionAssumption DEF SystemInit, Pending
  <2> QED
    BY <2>1, <2>2, <2>3, FS_EmptySet
<1> QED
  BY <1>2, <1>3 DEF Accounted

\* The channel, the workers and the table of alerts keep to their types, and
\* rows, copies in the channel and copies in hand never outnumber the sends.
THEOREM SystemInvariance == SystemSpec => []SystemInv
<1>1. SystemInit => Lives /\ Accounted
  BY InitLives
<1>2. SystemInv /\ [SystemNext]_systemVars => Lives' /\ Accounted'
  <2> SUFFICES ASSUME SystemInv, [SystemNext]_systemVars PROVE Lives' /\ Accounted'
    OBVIOUS
  <2>1. CASE Appears
    BY <2>1, PublishLives
  <2>2. ASSUME NEW p \in Pollers, Polls(p) \/ Unanswered(p) \/ Sends(p)
        PROVE  Lives' /\ Accounted'
    BY <2>2, PollsLives, SendsLives
  <2>3. ASSUME NEW w \in Workers, WorkerStep(w) PROVE Lives' /\ Accounted'
    BY <2>3, ReceiveLives, StoreLives, FreeLives DEF WorkerStep
  <2>4. CASE Signal \/ CloseChannel \/ UNCHANGED systemVars
    <3>1. /\ UNCHANGED <<published, sent, queue, hand, live, stored, alerts, handled>>
          /\ phase' \in {"up", "cancelled", "closed"}
      BY <2>4 DEF Signal, CloseChannel, systemVars, lifeVars, workVars, vars, SystemInv, Lives
    <3>2. Lives'
      BY <3>1 DEF SystemInv, Lives
    <3> QED
      BY <3>1, <3>2, AsideAccounted
  <2>5. CASE Exit \/ Panics \/ Dies
    BY <2>5, RestartedLives DEF Exit, Panics, Dies
  <2> QED
    BY <2>1, <2>2, <2>3, <2>4, <2>5 DEF SystemNext
<1>3. Inv /\ Lives /\ Accounted <=> SystemInv
  BY DEF SystemInv
<1> QED
  BY <1>1, <1>2, <1>3, SystemPolls, Invariance, PTL DEF SystemSpec

\* SystemTypeOK: the channel keeps to its capacity, and no item has more rows
\* than there were sends.
THEOREM SystemTypeCorrect == SystemSpec => []SystemTypeOK
<1>1. SystemInv => SystemTypeOK
  <2> SUFFICES ASSUME SystemInv PROVE SystemTypeOK
    OBVIOUS
  <2>1. ASSUME NEW i \in 1..MaxItems PROVE alerts[i] \in 0..Len(sent)
    <3>1. sent \in Seq(Nat)
      BY SentItems DEF SystemInv
    <3>2. Count(sent, i) <= Len(sent)
      BY <3>1, CountType
    <3> QED
      BY <3>1, <3>2, Numbers
  <2>2. alerts \in [1..MaxItems -> 0..Len(sent)]
    BY <2>1 DEF SystemInv, Lives
  <2> QED
    BY <2>2 DEF SystemInv, Inv, Lives, SystemTypeOK
<1> QED
  BY SystemInvariance, <1>1, PTL

\* Sends in ascending order send no item twice.
LEMMA AscendingOnce ==
  ASSUME Ascending, Inv, NEW i
  PROVE  Count(sent, i) <= 1
<1> DEFINE at == {k \in DOMAIN sent : sent[k] = i}
<1>1. sent \in Seq(Nat) /\ DOMAIN sent \subseteq Nat
  BY SentItems
<1>2. \A k, l \in at : k = l
  <2> SUFFICES ASSUME NEW k \in at, NEW l \in at, k < l PROVE FALSE
    BY <1>1
  <2> QED
    BY SentItems DEF Ascending
<1>3. at = {} \/ \E k \in at : at = {k}
  BY <1>2
<1> HIDE DEF at
<1>4. Cardinality(at) = 0 \/ Cardinality(at) = 1
  BY <1>3, FS_EmptySet, FS_Singleton
<1> QED
  BY <1>4 DEF Count, at

\* AlertsBounded: every row of an item answers to a send of its own, and in a
\* run in which no two polls overlap there is at most one row.
THEOREM AlertsBoundedHolds == SystemSpec => []AlertsBounded
<1>1. SystemInv /\ InOrder => AlertsBounded
  <2> SUFFICES ASSUME SystemInv, InOrder, NEW i \in 1..MaxItems
               PROVE  /\ alerts[i] <= Count(sent, i)
                      /\ crashes = 0 /\ ~overlap => alerts[i] <= 1
    BY DEF AlertsBounded, Count
  <2>1. alerts[i] <= Count(sent, i)
    BY Numbers
  <2>2. crashes = 0 /\ ~overlap => Count(sent, i) <= 1
    BY AscendingOnce DEF SystemInv, InOrder, Ascending
  <2> QED
    BY <2>1, <2>2, Numbers
<1> QED
  BY SystemInvariance, SystemPolls, InOrderHolds, <1>1, PTL

\* Over several lives of the process the two polls of the feed cannot fill the
\* alerts table: three rows of an item for each life at most.
AtMostThreeRows == \A i \in 1..MaxItems : alerts[i] <= 3 * (crashes + 1)

\* AtMostThreeRows: AtMostThree carries over from sends to rows.
THEOREM AtMostThreeRowsHolds == SystemSpec => []AtMostThreeRows
<1>1. SystemInv /\ AtMostThree => AtMostThreeRows
  <2> SUFFICES ASSUME SystemInv, AtMostThree, NEW i \in 1..MaxItems
               PROVE  alerts[i] <= 3 * (crashes + 1)
    BY DEF AtMostThreeRows
  <2>1. Count(sent, i) <= 3 * (crashes + 1)
    BY DEF AtMostThree, Count
  <2>2. crashes \in Nat
    BY ItemType DEF SystemInv
  <2> QED
    BY <2>1, <2>2, Numbers
<1> QED
  BY SystemInvariance, SystemPolls, AtMostThreeHolds, <1>1, PTL

=============================================================================
