------------------------------- MODULE Broker -------------------------------
(***************************************************************************)
(* internal/sse/broker.go: SSE connections subscribe, stream and leave     *)
(* while pipeline workers broadcast alerts.  The outer map of the broker   *)
(* is guarded by a lock, but Broadcast keeps a reference to the inner map  *)
(* of a user and walks it after it has released the lock, so inner maps    *)
(* have an identity here: that of the connection whose Subscribe made it.  *)
(* An alert always marshals, and every response writer is a Flusher: the   *)
(* early returns for the contrary change nothing.                          *)
(***************************************************************************)
EXTENDS Naturals, Sequences, SequencesExt

CONSTANTS
  Users,
  Clients,    \* SSE connections; each has one channel and comes once
  Owner,      \* the user a connection authenticated as
  Workers,    \* goroutines that broadcast (the pipeline's workers)
  Messages,   \* alerts, each broadcast once
  To,         \* the user an alert is for
  Buffer,     \* capacity of a client channel (64 in the program)
  None        \* nil, or "no message in hand"

ASSUME BrokerAssumption ==
  /\ Owner \in [Clients -> Users]
  /\ To \in [Messages -> Users]
  /\ Buffer \in Nat \ {0}
  /\ None \notin Clients \cup Messages

VARIABLES
  status,     \* of the process: "up", "panicked" or "fatal"
  clients,    \* Broker.clients: the inner map of a user, or None
  members,    \* contents of each inner map, by its identity
  pc,         \* of a connection: "idle", "streaming", "leaving" or "gone"
  hungUp,     \* r.Context() of the connection is done
  buf,        \* contents of its channel
  got,        \* what has been written to the browser
  dropped,    \* alerts it lost to a full buffer
  begun,      \* alerts whose broadcast has begun
  wmsg,       \* alert a worker is broadcasting
  walk,       \* inner map it walks, or None for a nil map
  base,       \* contents of that map when the worker fetched it
  seen,       \* entries its range loop has produced
  at          \* entry it is about to send to

regVars == <<clients, members>>
connVars == <<pc, hungUp, buf, got, dropped>>
castVars == <<begun, wmsg, walk, base, seen, at>>
vars == <<status, clients, members, pc, hungUp, buf, got, dropped,
          begun, wmsg, walk, base, seen, at>>

TypeOK ==
  /\ status \in {"up", "panicked", "fatal"}
  /\ clients \in [Users -> Clients \cup {None}]
  /\ members \in [Clients -> SUBSET Clients]
  /\ pc \in [Clients -> {"idle", "streaming", "leaving", "gone"}]
  /\ hungUp \in [Clients -> BOOLEAN]
  /\ buf \in [Clients -> Seq(Messages)]
  /\ \A c \in Clients : Len(buf[c]) <= Buffer
  /\ got \in [Clients -> Seq(Messages)]
  /\ dropped \in [Clients -> SUBSET Messages]
  /\ begun \subseteq Messages
  /\ wmsg \in [Workers -> Messages \cup {None}]
  /\ walk \in [Workers -> Clients \cup {None}]
  /\ base \in [Workers -> SUBSET Clients]
  /\ seen \in [Workers -> SUBSET Clients]
  /\ at \in [Workers -> Clients \cup {None}]

Init ==
  /\ status = "up"
  /\ clients = [u \in Users |-> None]
  /\ members = [c \in Clients |-> {}]
  /\ pc = [c \in Clients |-> "idle"]
  /\ hungUp = [c \in Clients |-> FALSE]
  /\ buf = [c \in Clients |-> <<>>]
  /\ got = [c \in Clients |-> <<>>]
  /\ dropped = [c \in Clients |-> {}]
  /\ begun = {}
  /\ wmsg = [w \in Workers |-> None]
  /\ walk = [w \in Workers |-> None]
  /\ base = [w \in Workers |-> {}]
  /\ seen = [w \in Workers |-> {}]
  /\ at = [w \in Workers |-> None]

\* What an inner map holds; ranging over a nil map produces nothing.
Entries(m) == IF m = None THEN {} ELSE members[m]

-----------------------------------------------------------------------------
(* Connections *)

\* Variant: any inner map will do, not only the user's own.
SubscribeAnywhere(c) ==
  LET u == Owner[c]
      m == IF \A v \in Users : clients[v] = None
           THEN c ELSE CHOOSE x \in Clients : \E v \in Users : clients[v] = x
  IN /\ status = "up"
     /\ pc[c] = "idle"
     /\ clients' = [clients EXCEPT ![u] = m]
     /\ members' = [members EXCEPT ![m] = @ \cup {c}]
     /\ pc' = [pc EXCEPT ![c] = "streaming"]
     /\ UNCHANGED <<status, hungUp, buf, got, dropped, castVars>>

\* Under the lock: make the user's inner map if there is none, add the channel.
Subscribe(c) ==
  LET u == Owner[c]
      m == IF clients[u] = None THEN c ELSE clients[u]
  IN /\ status = "up"
     /\ pc[c] = "idle"
     /\ clients' = [clients EXCEPT ![u] = m]
     /\ members' = [members EXCEPT ![m] = @ \cup {c}]
     /\ pc' = [pc EXCEPT ![c] = "streaming"]
     /\ UNCHANGED <<status, hungUp, buf, got, dropped, castVars>>

\* The handler takes an alert from its channel and writes it out.
Receive(c) ==
  /\ status = "up"
  /\ pc[c] = "streaming"
  /\ buf[c] # <<>>
  /\ got' = [got EXCEPT ![c] = Append(@, Head(buf[c]))]
  /\ buf' = [buf EXCEPT ![c] = Tail(@)]
  /\ UNCHANGED <<status, pc, hungUp, dropped, regVars, castVars>>

\* The browser goes away.
HangUp(c) ==
  /\ status = "up"
  /\ pc[c] = "streaming"
  /\ ~hungUp[c]
  /\ hungUp' = [hungUp EXCEPT ![c] = TRUE]
  /\ UNCHANGED <<status, pc, buf, got, dropped, regVars, castVars>>

\* Variant: the user's inner map goes with any of its channels.
UnregisterAll(c) ==
  /\ status = "up"
  /\ pc[c] = "streaming"
  /\ hungUp[c]
  /\ clients' = [clients EXCEPT ![Owner[c]] = None]
  /\ pc' = [pc EXCEPT ![c] = "leaving"]
  /\ UNCHANGED <<status, members, hungUp, buf, got, dropped, castVars>>

\* Variant: the handler looks at its context only when its channel is empty.
UnregisterDrained(c) ==
  /\ buf[c] = <<>>
  /\ status = "up"
  /\ pc[c] = "streaming"
  /\ hungUp[c]
  /\ members' = [members EXCEPT ![clients[Owner[c]]] = @ \ {c}]
  /\ clients' = [clients EXCEPT ![Owner[c]] = IF members[@] = {c} THEN None ELSE @]
  /\ pc' = [pc EXCEPT ![c] = "leaving"]
  /\ UNCHANGED <<status, hungUp, buf, got, dropped, castVars>>

\* Unsubscribe under the lock: delete the channel, and the user's inner map
\* with its last channel.
Unregister(c) ==
  LET u == Owner[c]
      m == clients[u]
  IN /\ status = "up"
     /\ pc[c] = "streaming"
     /\ hungUp[c]
     /\ IF m = None
        THEN UNCHANGED regVars
        ELSE /\ members' = [members EXCEPT ![m] = @ \ {c}]
             /\ clients' = [clients EXCEPT ![u] = IF members[m] \subseteq {c}
                                                  THEN None ELSE @]
     /\ pc' = [pc EXCEPT ![c] = "leaving"]
     /\ UNCHANGED <<status, hungUp, buf, got, dropped, castVars>>

\* After the lock is released: close(ch).
Close(c) ==
  /\ status = "up"
  /\ pc[c] = "leaving"
  /\ pc' = [pc EXCEPT ![c] = "gone"]
  /\ UNCHANGED <<status, hungUp, buf, got, dropped, regVars, castVars>>

\* Subscribe or Unsubscribe writes an inner map that a worker is walking.  The
\* runtime may notice this data race, and then it ends the process.
RacyWrite(c) ==
  /\ status = "up"
  /\ pc[c] = "idle" \/ (pc[c] = "streaming" /\ hungUp[c])
  /\ clients[Owner[c]] # None
  /\ \E w \in Workers : wmsg[w] # None /\ walk[w] = clients[Owner[c]]
  /\ status' = "fatal"
  /\ UNCHANGED <<regVars, connVars, castVars>>

-----------------------------------------------------------------------------
(* Broadcast *)

\* Under the read lock: fetch the user's inner map, by reference.
Fetch(w) ==
  /\ status = "up"
  /\ wmsg[w] = None
  /\ \E m \in Messages \ begun :
       /\ begun' = begun \cup {m}
       /\ wmsg' = [wmsg EXCEPT ![w] = m]
       /\ walk' = [walk EXCEPT ![w] = clients[To[m]]]
       /\ base' = [base EXCEPT ![w] = Entries(clients[To[m]])]
  /\ seen' = [seen EXCEPT ![w] = {}]
  /\ at' = [at EXCEPT ![w] = None]
  /\ UNCHANGED <<status, regVars, connVars>>

\* The range loop produces an entry the map holds now and it has not produced.
NextEntry(w) ==
  /\ status = "up"
  /\ wmsg[w] # None
  /\ at[w] = None
  /\ \E c \in Entries(walk[w]) \ seen[w] :
       /\ at' = [at EXCEPT ![w] = c]
       /\ seen' = [seen EXCEPT ![w] = @ \cup {c}]
  /\ UNCHANGED <<status, begun, wmsg, walk, base, regVars, connVars>>

\* Variant: the channel is a list without a bound.
SendUnbounded(w) ==
  /\ status = "up"
  /\ at[w] # None
  /\ pc[at[w]] # "gone"
  /\ buf' = [buf EXCEPT ![at[w]] = Append(@, wmsg[w])]
  /\ at' = [at EXCEPT ![w] = None]
  /\ UNCHANGED <<status, pc, hungUp, got, dropped, begun, wmsg, walk, base, seen,
                 regVars>>

\* case ch <- payload
Send(w) ==
  /\ status = "up"
  /\ at[w] # None
  /\ pc[at[w]] # "gone"
  /\ Len(buf[at[w]]) < Buffer
  /\ buf' = [buf EXCEPT ![at[w]] = Append(@, wmsg[w])]
  /\ at' = [at EXCEPT ![w] = None]
  /\ UNCHANGED <<status, pc, hungUp, got, dropped, begun, wmsg, walk, base, seen,
                 regVars>>

\* Variant: the default case returns from the loop.
DropReturns(w) ==
  /\ status = "up"
  /\ at[w] # None
  /\ pc[at[w]] # "gone"
  /\ Len(buf[at[w]]) >= Buffer
  /\ dropped' = [dropped EXCEPT ![at[w]] = @ \cup {wmsg[w]}]
  /\ at' = [at EXCEPT ![w] = None]
  /\ wmsg' = [wmsg EXCEPT ![w] = None]
  /\ UNCHANGED <<status, pc, hungUp, buf, got, begun, walk, base, seen, regVars>>

\* Variant: there is no default case, so a full buffer blocks the worker.
DropBlocks(w) ==
  /\ status = "up"
  /\ at[w] # None
  /\ pc[at[w]] # "gone"
  /\ Len(buf[at[w]]) >= Buffer
  /\ UNCHANGED vars

\* default: the buffer is full, the alert is dropped for this client.
Drop(w) ==
  /\ status = "up"
  /\ at[w] # None
  /\ pc[at[w]] # "gone"
  /\ Len(buf[at[w]]) >= Buffer
  /\ dropped' = [dropped EXCEPT ![at[w]] = @ \cup {wmsg[w]}]
  /\ at' = [at EXCEPT ![w] = None]
  /\ UNCHANGED <<status, pc, hungUp, buf, got, begun, wmsg, walk, base, seen,
                 regVars>>

\* The channel has been closed: the send panics in a worker, unrecovered.
SendPanics(w) ==
  /\ status = "up"
  /\ at[w] # None
  /\ pc[at[w]] = "gone"
  /\ status' = "panicked"
  /\ UNCHANGED <<regVars, connVars, castVars>>

\* The range loop ends: whatever was in the map all along has been produced;
\* what was added since the fetch may or may not have been.
End(w) ==
  /\ status = "up"
  /\ wmsg[w] # None
  /\ at[w] = None
  /\ base[w] \cap Entries(walk[w]) \subseteq seen[w]
  /\ wmsg' = [wmsg EXCEPT ![w] = None]
  /\ UNCHANGED <<status, begun, walk, base, seen, at, regVars, connVars>>

-----------------------------------------------------------------------------
ClientStep(c) ==
  \/ Subscribe(c)
  \/ Receive(c)
  \/ HangUp(c)
  \/ Unregister(c)
  \/ Close(c)
  \/ RacyWrite(c)

WorkerStep(w) ==
  \/ Fetch(w)
  \/ NextEntry(w)
  \/ Send(w)
  \/ Drop(w)
  \/ SendPanics(w)
  \/ End(w)

Next ==
  \/ \E c \in Clients : ClientStep(c)
  \/ \E w \in Workers : WorkerStep(w)

Spec == Init /\ [][Next]_vars

(***************************************************************************)
(* Fairness.  A broadcasting worker is scheduled.  A handler whose request *)
(* context is done leaves in the end: select picks at random among ready   *)
(* cases, so alerts cannot keep it streaming for ever.  Nothing obliges a  *)
(* connection to come, to go, or to be fast enough to read its channel.    *)
(***************************************************************************)
FairSpec ==
  /\ Spec
  /\ \A w \in Workers :
       WF_vars(NextEntry(w) \/ Send(w) \/ Drop(w) \/ SendPanics(w) \/ End(w))
  /\ \A c \in Clients : SF_vars(Unregister(c)) /\ WF_vars(Close(c))

-----------------------------------------------------------------------------
(* Properties *)

Streaming(u) == {c \in Clients : Owner[c] = u /\ pc[c] = "streaming"}

\* The broker knows exactly the connections that are streaming, each under its
\* own user, and keeps no empty inner map.  An inner map that was dropped
\* while a worker still walks it is empty and stays out of use.
Registry ==
  /\ \A u \in Users :
       /\ Entries(clients[u]) = Streaming(u)
       /\ clients[u] # None => Streaming(u) # {}
  /\ \A m \in Clients : members[m] # {} => clients[Owner[m]] = m

Delivered(c) == ToSet(buf[c]) \cup ToSet(got[c])

\* An alert reaches only connections of the user it is for, and each of them
\* at most once, however connections come and go while workers walk the maps.
OwnAlertsOnce ==
  \A c \in Clients :
    /\ \A m \in Delivered(c) \cup dropped[c] : To[m] = Owner[c]
    /\ dropped[c] \cap Delivered(c) = {}
    /\ IsInjective(got[c] \o buf[c])

\* When a broadcast ends, every connection that was streaming when it began
\* and still is has the alert in its channel or its browser, or lost it to a
\* full buffer.  Neighbours that come and go never make the loop miss one.
NoneMissed ==
  [][\A w \in Workers :
       wmsg[w] # None /\ wmsg'[w] = None =>
         \A c \in base[w] :
           pc[c] = "streaming" => wmsg[w] \in Delivered(c) \cup dropped[c]]_vars

\* A broadcast ends although nobody reads any channel: a slow or stuck
\* connection never holds up a pipeline worker.
BroadcastEnds ==
  \A w \in Workers : wmsg[w] # None ~> wmsg[w] = None \/ status # "up"

\* A connection that has gone away is unsubscribed and its channel closed.
HungUpLeaves ==
  \A c \in Clients : hungUp[c] ~> pc[c] = "gone" \/ status # "up"

\* broker_test.go, of a broadcast to a user who has no connection: "Should not
\* panic."  That holds as well when the last connection left a moment ago.
BroadcastSurvivesDisconnect ==
  \A w \in Workers :
    wmsg[w] # None /\ Streaming(To[wmsg[w]]) = {} => status # "panicked"

\* README: "supporting multiple tabs per user".  A tab that comes or goes
\* during a broadcast to the same user does not end the process.
BroadcastSurvivesTabs == status # "fatal"

=============================================================================
