---------------------------- MODULE BrokerProofs ----------------------------
(***************************************************************************)
(* Proofs about Broker for any users, connections, workers and alerts.     *)
(***************************************************************************)
EXTENDS Broker, TLAPS

-----------------------------------------------------------------------------
(* Sequences as the channels use them *)

\* Appending adds one element, and keeps a sequence free of repetitions if it
\* is new.
LEMMA AppendSet ==
  ASSUME NEW S, NEW q \in Seq(S), NEW e \in S
  PROVE  /\ Append(q, e) \in Seq(S)
         /\ ToSet(Append(q, e)) = ToSet(q) \cup {e}
         /\ IsInjective(q) /\ e \notin ToSet(q) => IsInjective(Append(q, e))
<1> DEFINE r == Append(q, e)
<1>1. /\ r \in Seq(S)
      /\ DOMAIN r = 1..(Len(q) + 1)
      /\ DOMAIN q = 1..Len(q)
      /\ Len(q) \in Nat
      /\ \A i \in 1..Len(q) : r[i] = q[i]
      /\ r[Len(q) + 1] = e
  OBVIOUS
<1> HIDE DEF r
<1>2. ToSet(r) = ToSet(q) \cup {e}
  <2>1. \A i \in DOMAIN r : i \in DOMAIN q \/ i = Len(q) + 1
    BY <1>1
  <2>2. \A i \in DOMAIN q : i \in DOMAIN r
    BY <1>1
  <2>3. Len(q) + 1 \in DOMAIN r
    BY <1>1
  <2> QED BY <1>1, <2>1, <2>2, <2>3 DEF ToSet
<1>3. ASSUME IsInjective(q), e \notin ToSet(q) PROVE IsInjective(r)
  <2>1. \A i \in DOMAIN q : q[i] # e
    BY <1>3 DEF ToSet
  <2>2. \A i \in DOMAIN r : i \in DOMAIN q \/ i = Len(q) + 1
    BY <1>1
  <2> QED BY <1>1, <1>3, <2>1, <2>2 DEF IsInjective
<1> QED BY <1>1, <1>2, <1>3 DEF r

\* A sequence is its head and its tail.
LEMMA HeadTailSet ==
  ASSUME NEW S, NEW q \in Seq(S), q # <<>>
  PROVE  /\ Head(q) \in S
         /\ Tail(q) \in Seq(S)
         /\ Len(Tail(q)) = Len(q) - 1
         /\ ToSet(q) = ToSet(Tail(q)) \cup {Head(q)}
<1> DEFINE t == Tail(q)
<1>1. /\ t \in Seq(S)
      /\ Len(q) \in Nat /\ Len(q) > 0
      /\ DOMAIN q = 1..Len(q)
      /\ Len(t) = Len(q) - 1
      /\ DOMAIN t = 1..(Len(q) - 1)
      /\ \A i \in 1..(Len(q) - 1) : t[i] = q[i + 1]
      /\ Head(q) = q[1]
      /\ q[1] \in S
  OBVIOUS
<1> HIDE DEF t
<1>2. ToSet(q) = ToSet(t) \cup {Head(q)}
  <2>1. \A i \in DOMAIN q : i = 1 \/ (i - 1 \in DOMAIN t /\ t[i - 1] = q[i])
    BY <1>1
  <2>2. \A i \in DOMAIN t : i + 1 \in DOMAIN q /\ t[i] = q[i + 1]
    BY <1>1
  <2>3. 1 \in DOMAIN q
    BY <1>1
  <2> QED BY <1>1, <2>1, <2>2, <2>3 DEF ToSet
<1> QED BY <1>1, <1>2 DEF t

\* Moving the head of one sequence to the end of another leaves their
\* concatenation as it is.
LEMMA Concatenations ==
  ASSUME NEW S, NEW g \in Seq(S), NEW b \in Seq(S)
  PROVE  /\ g \o b \in Seq(S)
         /\ ToSet(g \o b) = ToSet(b) \cup ToSet(g)
         /\ b # <<>> => Append(g, Head(b)) \o Tail(b) = g \o b
<1>1. g \o b \in Seq(S)
  OBVIOUS
<1>2. ToSet(g \o b) = ToSet(b) \cup ToSet(g)
  <2>1. /\ DOMAIN (g \o b) = 1..(Len(g) + Len(b))
        /\ Len(g) \in Nat /\ Len(b) \in Nat
        /\ DOMAIN g = 1..Len(g) /\ DOMAIN b = 1..Len(b)
        /\ \A i \in 1..Len(g) : (g \o b)[i] = g[i]
        /\ \A i \in 1..Len(b) : (g \o b)[Len(g) + i] = b[i]
    OBVIOUS
  <2> DEFINE r == g \o b
  <2> HIDE DEF r
  <2>2. \A i \in DOMAIN r : i \in DOMAIN g \/ (i - Len(g) \in DOMAIN b /\ r[i] = b[i - Len(g)])
    <3>1. \A i \in DOMAIN r : ~(i \in DOMAIN g) => i - Len(g) \in 1..Len(b)
      BY <2>1 DEF r
    <3>2. \A j \in 1..Len(b) : r[Len(g) + j] = b[j]
      BY <2>1 DEF r
    <3>3. \A i \in DOMAIN r : i = Len(g) + (i - Len(g))
      BY <2>1 DEF r
    <3> QED BY <2>1, <3>1, <3>2, <3>3
  <2>3. \A i \in DOMAIN g : i \in DOMAIN r /\ r[i] = g[i]
    BY <2>1 DEF r
  <2>4. \A i \in DOMAIN b : Len(g) + i \in DOMAIN r /\ r[Len(g) + i] = b[i]
    BY <2>1 DEF r
  <2>5. ToSet(r) = ToSet(b) \cup ToSet(g)
    BY <2>2, <2>3, <2>4 DEF ToSet
  <2> QED BY <2>5 DEF r
<1>3. b # <<>> => Append(g, Head(b)) \o Tail(b) = g \o b
  OBVIOUS
<1> QED BY <1>1, <1>2, <1>3

\* A new element at the end of the second leaves both free of repetitions.
LEMMA AppendFresh ==
  ASSUME NEW S, NEW g \in Seq(S), NEW b \in Seq(S), NEW e \in S,
         IsInjective(g \o b), e \notin ToSet(b) \cup ToSet(g)
  PROVE  IsInjective(g \o Append(b, e))
<1> DEFINE x == g \o b
<1>1. g \o Append(b, e) = Append(x, e)
  OBVIOUS
<1>2. x \in Seq(S) /\ ToSet(x) = ToSet(b) \cup ToSet(g)
  BY Concatenations
<1>3. IsInjective(x)
  OBVIOUS
<1> HIDE DEF x
<1>4. IsInjective(Append(x, e))
  BY <1>2, <1>3, AppendSet
<1> QED BY <1>1, <1>4

-----------------------------------------------------------------------------
(* The inductive invariant *)

\* An inner map belongs to one user: its maker's.
OwnerInv ==
  /\ \A u \in Users : clients[u] # None => Owner[clients[u]] = u
  /\ \A m \in Clients : \A c \in members[m] : Owner[c] = Owner[m]

\* A worker walks the map of the user its alert is for, and sends only to
\* entries of that user that the loop has produced.
WalkInv ==
  \A w \in Workers :
    /\ wmsg[w] # None =>
         /\ wmsg[w] \in begun
         /\ walk[w] # None => Owner[walk[w]] = To[wmsg[w]]
         /\ \A c \in seen[w] : Owner[c] = To[wmsg[w]]
    /\ at[w] # None => wmsg[w] # None /\ at[w] \in seen[w]

\* No two workers broadcast the same alert.
DistinctInv ==
  \A v, w \in Workers : wmsg[v] = wmsg[w] /\ wmsg[v] # None => v = w

\* A connection that was in the map when a worker fetched it is still there,
\* unless it has left.
BaseInv ==
  \A w \in Workers : wmsg[w] # None =>
    \A c \in base[w] : c \in Entries(walk[w]) \/ pc[c] \in {"leaving", "gone"}

\* What a connection has been given, or lost.
Has(c) == Delivered(c) \cup dropped[c]

\* Nothing is given before its broadcast begins; entries already produced have
\* the alert, the one about to be sent to and the others do not.
GivenInv ==
  /\ \A c \in Clients : Has(c) \subseteq begun
  /\ \A w \in Workers : wmsg[w] # None =>
       \A c \in Clients : wmsg[w] \in Has(c) <=> c \in seen[w] /\ c # at[w]

Inv ==
  /\ TypeOK
  /\ Registry
  /\ OwnerInv
  /\ WalkInv
  /\ DistinctInv
  /\ BaseInv
  /\ GivenInv
  /\ OwnAlertsOnce

LEMMA Constants ==
  /\ Owner \in [Clients -> Users] /\ To \in [Messages -> Users]
  /\ Buffer \in Nat /\ Buffer > 0
  /\ None \notin Clients /\ None \notin Messages
BY BrokerAssumption

LEMMA InitInv == Init => Inv
<1> SUFFICES ASSUME Init PROVE Inv
  OBVIOUS
<1>1. TypeOK
  <2>1. \A c \in Clients : Len(buf[c]) <= Buffer
    BY Constants DEF Init
  <2> QED BY <2>1 DEF Init, TypeOK
<1>2. Registry
  BY Constants DEF Init, Registry, Entries, Streaming
<1>3. \A c \in Clients : Has(c) = {} /\ IsInjective(got[c] \o buf[c])
  BY DEF Init, Has, Delivered, ToSet, IsInjective
<1>4. OwnAlertsOnce
  BY <1>3 DEF OwnAlertsOnce, Has
<1>5. OwnerInv /\ WalkInv /\ DistinctInv /\ BaseInv
  BY DEF Init, OwnerInv, WalkInv, DistinctInv, BaseInv
<1>6. GivenInv
  BY <1>3 DEF Init, GivenInv
<1> QED BY <1>1, <1>2, <1>4, <1>5, <1>6 DEF Inv

-----------------------------------------------------------------------------
(* Each step preserves the invariant *)

\* A step that leaves the channels alone leaves what they have been given.
LEMMA ChannelFrame ==
  ASSUME OwnAlertsOnce, UNCHANGED <<buf, got, dropped>>
  PROVE  /\ \A c \in Clients : Has(c)' = Has(c)
         /\ OwnAlertsOnce'
<1>1. \A c \in Clients : Has(c)' = Has(c) /\ Delivered(c)' = Delivered(c)
  BY DEF Has, Delivered
<1> QED BY <1>1 DEF OwnAlertsOnce

LEMMA SubscribeStep ==
  ASSUME Inv, NEW c \in Clients, Subscribe(c) PROVE Inv'
<1> USE DEF Inv, castVars
<1> DEFINE u == Owner[c]
           m == IF clients[u] = None THEN c ELSE clients[u]
<1>1. /\ UNCHANGED <<status, hungUp, buf, got, dropped, begun, wmsg, walk, base, seen, at>>
      /\ pc[c] = "idle"
      /\ clients' = [clients EXCEPT ![u] = m]
      /\ members' = [members EXCEPT ![m] = @ \cup {c}]
      /\ pc' = [pc EXCEPT ![c] = "streaming"]
  BY DEF Subscribe
<1>2. u \in Users /\ m \in Clients /\ m # None /\ Owner[m] = u
  BY Constants DEF TypeOK, OwnerInv
<1>3. clients[u] = None => members[m] = {}
  BY <1>2 DEF Registry
<1>4. members[m] = Streaming(u)
  BY <1>2, <1>3, Constants DEF Registry, Entries
<1> HIDE DEF u, m
<1>5. /\ \A v \in Users : clients'[v] = IF v = u THEN m ELSE clients[v]
      /\ \A x \in Clients : members'[x] = IF x = m THEN members[m] \cup {c} ELSE members[x]
  BY <1>1, <1>2 DEF TypeOK
<1>6. TypeOK'
  BY <1>1, <1>2 DEF TypeOK
<1>7. Registry'
  <2>1. \A v \in Users : Streaming(v)' = IF v = u THEN Streaming(u) \cup {c} ELSE Streaming(v)
    BY <1>1, <1>2 DEF Streaming, TypeOK, u
  <2>2. \A v \in Users : v # u => clients[v] # m
    BY <1>2 DEF OwnerInv
  <2>3. ASSUME NEW v \in Users
        PROVE  Entries(clients[v])' = Streaming(v)' /\ (clients'[v] # None => Streaming(v)' # {})
    <3>1. CASE v = u
      BY <1>2, <1>4, <1>5, <2>1, <3>1 DEF Entries
    <3>2. CASE v # u
      BY <1>5, <2>1, <2>2, <3>2 DEF Entries, Registry, TypeOK
    <3> QED BY <3>1, <3>2
  <2>4. ASSUME NEW x \in Clients, members'[x] # {} PROVE clients'[Owner[x]] = x
    <3>1. Owner[x] \in Users
      BY Constants
    <3>2. CASE x = m
      BY <1>2, <1>5, <3>2
    <3>3. CASE x # m
      <4>1. clients[Owner[x]] = x
        BY <1>5, <2>4, <3>3 DEF Registry
      <4>2. Owner[x] # u
        BY <3>3, <4>1, Constants DEF m
      <4> QED BY <1>5, <3>1, <4>1, <4>2
    <3> QED BY <3>2, <3>3
  <2> QED BY <2>3, <2>4 DEF Registry
<1>8. OwnerInv'
  BY <1>2, <1>5 DEF OwnerInv, u
<1>9. (WalkInv /\ DistinctInv)'
  BY <1>1 DEF WalkInv, DistinctInv
<1>10. BaseInv'
  <2>1. \A x \in Clients \cup {None} : Entries(x) \subseteq Entries(x)'
    BY <1>5 DEF Entries
  <2>2. \A d \in Clients : pc[d] \in {"leaving", "gone"} => pc'[d] = pc[d]
    BY <1>1 DEF TypeOK
  <2> QED BY <1>1, <2>1, <2>2 DEF BaseInv, TypeOK
<1>11. OwnAlertsOnce' /\ GivenInv'
  BY <1>1, ChannelFrame DEF GivenInv
<1> QED BY <1>6, <1>7, <1>8, <1>9, <1>10, <1>11

LEMMA UnregisterStep ==
  ASSUME Inv, NEW c \in Clients, Unregister(c) PROVE Inv'
<1> USE DEF Inv, castVars, regVars
<1> DEFINE u == Owner[c]
           m == clients[u]
<1>1. u \in Users /\ c \in Streaming(u)
  BY Constants DEF Unregister, Streaming
<1>2. m \in Clients /\ m # None /\ members[m] = Streaming(u) /\ Owner[m] = u
  BY <1>1, Constants DEF Registry, Entries, TypeOK, OwnerInv
<1>3. /\ UNCHANGED <<status, hungUp, buf, got, dropped, begun, wmsg, walk, base, seen, at>>
      /\ pc[c] = "streaming"
      /\ clients' = [clients EXCEPT ![u] = IF members[m] \subseteq {c} THEN None ELSE @]
      /\ members' = [members EXCEPT ![m] = @ \ {c}]
      /\ pc' = [pc EXCEPT ![c] = "leaving"]
  BY <1>2 DEF Unregister
<1> HIDE DEF u, m
<1>4. /\ \A v \in Users : clients'[v] = IF v = u /\ members[m] \subseteq {c} THEN None ELSE clients[v]
      /\ \A x \in Clients : members'[x] = IF x = m THEN members[m] \ {c} ELSE members[x]
  BY <1>1, <1>2, <1>3 DEF TypeOK
<1>5. TypeOK'
  BY <1>1, <1>2, <1>3 DEF TypeOK
<1>6. Registry'
  <2>1. \A v \in Users : Streaming(v)' = IF v = u THEN Streaming(u) \ {c} ELSE Streaming(v)
    BY <1>3 DEF Streaming, TypeOK, u
  <2>2. \A v \in Users : v # u => clients[v] # m
    BY <1>2 DEF OwnerInv
  <2>3. ASSUME NEW v \in Users
        PROVE  Entries(clients[v])' = Streaming(v)' /\ (clients'[v] # None => Streaming(v)' # {})
    <3>1. CASE v = u /\ members[m] \subseteq {c}
      BY <1>2, <1>4, <2>1, <3>1 DEF Entries
    <3>2. CASE v = u /\ ~(members[m] \subseteq {c})
      BY <1>2, <1>4, <2>1, <3>2 DEF Entries, m
    <3>3. CASE v # u
      BY <1>4, <2>1, <2>2, <3>3 DEF Entries, Registry, TypeOK
    <3> QED BY <3>1, <3>2, <3>3
  <2>4. ASSUME NEW x \in Clients, members'[x] # {} PROVE clients'[Owner[x]] = x
    <3>1. Owner[x] \in Users
      BY Constants
    <3>2. CASE x = m
      BY <1>2, <1>4, <2>4, <3>1, <3>2 DEF m
    <3>3. CASE x # m
      BY <1>2, <1>4, <2>4, <3>1, <3>3 DEF Registry, m
    <3> QED BY <3>2, <3>3
  <2> QED BY <2>3, <2>4 DEF Registry
<1>7. OwnerInv'
  BY <1>2, <1>4 DEF OwnerInv
<1>8. (WalkInv /\ DistinctInv)'
  BY <1>3 DEF WalkInv, DistinctInv
<1>9. BaseInv'
  <2>1. \A x \in Clients \cup {None} : Entries(x) \subseteq Entries(x)' \cup {c}
    BY <1>4 DEF Entries
  <2>2. \A d \in Clients : pc[d] \in {"leaving", "gone"} \/ d = c
                         => pc'[d] \in {"leaving", "gone"}
    BY <1>3 DEF TypeOK
  <2> QED BY <1>3, <2>1, <2>2 DEF BaseInv, TypeOK
<1>10. OwnAlertsOnce' /\ GivenInv'
  BY <1>3, ChannelFrame DEF GivenInv
<1> QED BY <1>5, <1>6, <1>7, <1>8, <1>9, <1>10

\* The steps that touch neither the registry nor a channel nor a broadcast.
LEMMA QuietStep ==
  ASSUME Inv,
         \/ \E c \in Clients : HangUp(c) \/ Close(c) \/ RacyWrite(c)
         \/ \E w \in Workers : SendPanics(w)
         \/ UNCHANGED vars
  PROVE  Inv'
<1> USE DEF Inv, castVars, regVars, connVars, vars
<1>1. /\ UNCHANGED <<clients, members, buf, got, dropped, begun, wmsg, walk, base, seen, at>>
      /\ \A c \in Clients : pc'[c] = pc[c] \/ (pc[c] = "leaving" /\ pc'[c] = "gone")
      /\ status' \in {"up", "panicked", "fatal"}
      /\ pc' \in [Clients -> {"idle", "streaming", "leaving", "gone"}]
      /\ hungUp' \in [Clients -> BOOLEAN]
  <2>1. CASE \E c \in Clients : HangUp(c) \/ RacyWrite(c)
    BY <2>1 DEF HangUp, RacyWrite, TypeOK
  <2>2. CASE \E c \in Clients : Close(c)
    BY <2>2 DEF Close, TypeOK
  <2>3. CASE (\E w \in Workers : SendPanics(w)) \/ UNCHANGED vars
    BY <2>3 DEF SendPanics, TypeOK
  <2> QED BY <2>1, <2>2, <2>3
<1>2. TypeOK'
  BY <1>1 DEF TypeOK
<1>3. Registry'
  <2>1. \A u \in Users : Streaming(u)' = Streaming(u) /\ Entries(clients[u])' = Entries(clients[u])
    BY <1>1 DEF Streaming, Entries
  <2> QED BY <1>1, <2>1 DEF Registry
<1>4. (OwnerInv /\ WalkInv /\ DistinctInv)'
  BY <1>1 DEF OwnerInv, WalkInv, DistinctInv
<1>5. BaseInv'
  BY <1>1 DEF BaseInv, Entries, TypeOK
<1>6. OwnAlertsOnce' /\ GivenInv'
  BY <1>1, ChannelFrame DEF GivenInv
<1> QED BY <1>2, <1>3, <1>4, <1>5, <1>6

\* The steps on channels and broadcasts leave the registry alone.
LEMMA RegistryFrame ==
  ASSUME Inv, UNCHANGED <<clients, members, pc>>
  PROVE  Registry' /\ OwnerInv' /\ (UNCHANGED <<wmsg, walk, base>> => BaseInv')
<1>1. \A u \in Users : Streaming(u)' = Streaming(u) /\ Entries(clients[u])' = Entries(clients[u])
  BY DEF Streaming, Entries
<1>2. Registry' /\ OwnerInv'
  BY <1>1 DEF Inv, Registry, OwnerInv
<1>3. UNCHANGED <<wmsg, walk, base>> => BaseInv'
  BY DEF Inv, BaseInv, Entries
<1> QED BY <1>2, <1>3

LEMMA ReceiveStep ==
  ASSUME Inv, NEW c \in Clients, Receive(c) PROVE Inv'
<1> USE DEF Inv, castVars, regVars
<1> DEFINE g == got[c]
           b == buf[c]
<1>1. /\ UNCHANGED <<status, clients, members, pc, hungUp, dropped,
                     begun, wmsg, walk, base, seen, at>>
      /\ b # <<>>
      /\ got' = [got EXCEPT ![c] = Append(g, Head(b))]
      /\ buf' = [buf EXCEPT ![c] = Tail(b)]
  BY DEF Receive
<1>2. g \in Seq(Messages) /\ b \in Seq(Messages) /\ Len(b) <= Buffer /\ Len(b) \in Nat
  BY DEF TypeOK
<1>3. /\ got'[c] = Append(g, Head(b)) /\ buf'[c] = Tail(b)
      /\ \A d \in Clients : d # c => got'[d] = got[d] /\ buf'[d] = buf[d]
  BY <1>1 DEF TypeOK
<1> HIDE DEF g, b
<1>4. /\ Head(b) \in Messages /\ Tail(b) \in Seq(Messages) /\ Len(Tail(b)) <= Buffer
      /\ Append(g, Head(b)) \in Seq(Messages)
      /\ ToSet(Append(g, Head(b))) = ToSet(g) \cup {Head(b)}
      /\ ToSet(b) = ToSet(Tail(b)) \cup {Head(b)}
  <2>1. Buffer \in Nat
    BY Constants
  <2> QED BY <1>1, <1>2, <2>1, HeadTailSet, AppendSet
<1>5. TypeOK'
  BY <1>1, <1>3, <1>4 DEF TypeOK
<1>6. \A d \in Clients : Delivered(d)' = Delivered(d)
  <2>1. Delivered(c)' = Delivered(c)
    BY <1>3, <1>4 DEF Delivered, g, b
  <2> QED BY <1>3, <2>1 DEF Delivered
<1>7. \A d \in Clients : Has(d)' = Has(d)
  BY <1>1, <1>6 DEF Has
<1>8. \A d \in Clients : (got[d] \o buf[d])' = got[d] \o buf[d]
  <2>1. Append(g, Head(b)) \o Tail(b) = g \o b
    BY <1>1, <1>2, Concatenations
  <2> QED BY <1>3, <2>1 DEF g, b
<1>9. OwnAlertsOnce'
  BY <1>1, <1>6, <1>8 DEF OwnAlertsOnce
<1>10. GivenInv'
  BY <1>1, <1>7 DEF GivenInv
<1>11. (WalkInv /\ DistinctInv)'
  BY <1>1 DEF WalkInv, DistinctInv
<1> QED BY <1>1, <1>5, <1>9, <1>10, <1>11, RegistryFrame

LEMMA FetchStep ==
  ASSUME Inv, NEW w \in Workers, Fetch(w) PROVE Inv'
<1> USE DEF Inv, regVars, connVars
<1>1. PICK m \in Messages \ begun :
        /\ begun' = begun \cup {m}
        /\ wmsg' = [wmsg EXCEPT ![w] = m]
        /\ walk' = [walk EXCEPT ![w] = clients[To[m]]]
        /\ base' = [base EXCEPT ![w] = Entries(clients[To[m]])]
  BY DEF Fetch
<1>2. /\ UNCHANGED <<status, clients, members, pc, hungUp, buf, got, dropped>>
      /\ wmsg[w] = None
      /\ seen' = [seen EXCEPT ![w] = {}]
      /\ at' = [at EXCEPT ![w] = None]
  BY DEF Fetch
<1>3. /\ To[m] \in Users /\ m # None
      /\ clients[To[m]] \in Clients \cup {None}
      /\ Entries(clients[To[m]]) \subseteq Clients
  BY Constants DEF TypeOK, Entries
<1>4. TypeOK'
  BY <1>1, <1>2, <1>3 DEF TypeOK
<1>5. WalkInv'
  BY <1>1, <1>2, <1>3, Constants DEF WalkInv, OwnerInv, TypeOK
<1>6. DistinctInv'
  BY <1>1, <1>2, <1>3 DEF DistinctInv, WalkInv, TypeOK
<1>7. BaseInv'
  BY <1>1, <1>2 DEF BaseInv, Entries, TypeOK
<1>8. GivenInv' /\ OwnAlertsOnce'
  <2>1. \A c \in Clients : Has(c)' = Has(c)
    BY <1>2, ChannelFrame
  <2>2. \A c \in Clients : m \notin Has(c)
    BY DEF GivenInv
  <2>3. GivenInv'
    BY <1>1, <1>2, <2>1, <2>2 DEF GivenInv, TypeOK
  <2> QED BY <1>2, <2>3, ChannelFrame
<1> QED BY <1>2, <1>4, <1>5, <1>6, <1>7, <1>8, RegistryFrame

LEMMA NextEntryStep ==
  ASSUME Inv, NEW w \in Workers, NextEntry(w) PROVE Inv'
<1> USE DEF Inv, regVars, connVars
<1>1. PICK c \in Entries(walk[w]) \ seen[w] :
        /\ at' = [at EXCEPT ![w] = c]
        /\ seen' = [seen EXCEPT ![w] = @ \cup {c}]
  BY DEF NextEntry
<1>2. /\ UNCHANGED <<status, clients, members, pc, hungUp, buf, got, dropped,
                     begun, wmsg, walk, base>>
      /\ wmsg[w] # None /\ at[w] = None
  BY DEF NextEntry
<1>3. c \in Clients /\ c # None /\ Owner[c] = To[wmsg[w]]
  BY <1>2, Constants DEF Entries, TypeOK, WalkInv, OwnerInv
<1>4. TypeOK'
  BY <1>1, <1>2, <1>3 DEF TypeOK
<1>5. WalkInv' /\ DistinctInv'
  BY <1>1, <1>2, <1>3 DEF WalkInv, DistinctInv, TypeOK
<1>6. GivenInv' /\ OwnAlertsOnce'
  <2>1. \A d \in Clients : Has(d)' = Has(d)
    BY <1>2, ChannelFrame
  <2>2. \A d \in Clients : d \in seen'[w] /\ d # at'[w] <=> d \in seen[w] /\ d # at[w]
    BY <1>1, <1>2, Constants DEF TypeOK
  <2>3. GivenInv'
    BY <1>1, <1>2, <2>1, <2>2 DEF GivenInv, TypeOK
  <2> QED BY <1>2, <2>3, ChannelFrame
<1> QED BY <1>2, <1>4, <1>5, <1>6, RegistryFrame

\* An alert that goes to one connection, into its channel or to the dropped
\* ones, completes that entry of the loop.
LEMMA GiveStep ==
  ASSUME Inv, NEW w \in Workers, at[w] # None,
         UNCHANGED <<begun, wmsg, seen>>,
         at' = [at EXCEPT ![w] = None],
         \A d \in Clients : Has(d)' = IF d = at[w] THEN Has(d) \cup {wmsg[w]} ELSE Has(d)
  PROVE  GivenInv'
<1> DEFINE c == at[w]
<1>1. c \in Clients /\ c \in seen[w] /\ wmsg[w] # None /\ wmsg[w] \in begun
  BY DEF Inv, TypeOK, WalkInv
<1> HIDE DEF c
<1>2. \A d \in Clients : Has(d)' \subseteq begun'
  BY <1>1 DEF Inv, GivenInv
<1>3. ASSUME NEW v \in Workers, wmsg'[v] # None, NEW d \in Clients
      PROVE  wmsg'[v] \in Has(d)' <=> d \in seen'[v] /\ d # at'[v]
  <2>1. CASE v = w
    BY <1>1, <1>3, <2>1, Constants DEF Inv, GivenInv, TypeOK, c
  <2>2. CASE v # w
    <3>1. wmsg[v] # wmsg[w]
      BY <1>1, <2>2, <1>3 DEF Inv, DistinctInv
    <3>2. at'[v] = at[v]
      BY <2>2 DEF Inv, TypeOK
    <3> QED BY <1>3, <3>1, <3>2 DEF Inv, GivenInv
  <2> QED BY <2>1, <2>2
<1> QED BY <1>2, <1>3 DEF GivenInv

LEMMA SendStep ==
  ASSUME Inv, NEW w \in Workers, Send(w) PROVE Inv'
<1> USE DEF Inv, regVars
<1> DEFINE c == at[w]
           m == wmsg[w]
           b == buf[c]
<1>1. /\ UNCHANGED <<status, clients, members, pc, hungUp, got, dropped,
                     begun, wmsg, walk, base, seen>>
      /\ c # None /\ Len(b) < Buffer
      /\ buf' = [buf EXCEPT ![c] = Append(b, m)]
      /\ at' = [at EXCEPT ![w] = None]
  BY DEF Send
<1>2. /\ c \in Clients /\ c \in seen[w]
      /\ m \in Messages /\ m # None
      /\ Owner[c] = To[m]
      /\ m \notin Has(c)
  BY <1>1 DEF TypeOK, WalkInv, GivenInv
<1>3. b \in Seq(Messages) /\ got[c] \in Seq(Messages)
  BY <1>2 DEF TypeOK
<1>4. /\ buf'[c] = Append(b, m)
      /\ \A d \in Clients : d # c => buf'[d] = buf[d]
  BY <1>1, <1>2 DEF TypeOK
<1>5. TypeOK'
  <2>1. Append(b, m) \in Seq(Messages) /\ Len(Append(b, m)) <= Buffer
    BY <1>1, <1>2, <1>3, Constants
  <2> HIDE DEF b, c, m
  <2> QED BY <1>1, <1>2, <1>4, <2>1 DEF TypeOK
<1>6. \A d \in Clients :
        Delivered(d)' = IF d = c THEN Delivered(d) \cup {m} ELSE Delivered(d)
  <2>1. ToSet(Append(b, m)) = ToSet(b) \cup {m}
    BY <1>2, <1>3, AppendSet
  <2> QED BY <1>1, <1>4, <2>1 DEF Delivered
<1>7. \A d \in Clients : Has(d)' = IF d = c THEN Has(d) \cup {m} ELSE Has(d)
  BY <1>1, <1>6 DEF Has
<1>8. OwnAlertsOnce'
  <2>1. IsInjective(got[c] \o Append(b, m))
    <3> DEFINE g == got[c]
               x == g \o b
    <3>1. m \in Messages /\ m \notin Has(c) /\ Delivered(c) = ToSet(b) \cup ToSet(g)
      BY <1>2 DEF Delivered
    <3>2. IsInjective(x)
      <4>1. \A d \in Clients : IsInjective(got[d] \o buf[d])
        BY DEF OwnAlertsOnce
      <4> QED BY <1>2, <4>1
    <3>3. b \in Seq(Messages) /\ g \in Seq(Messages)
      BY <1>3
    <3> HIDE DEF b, g, m
    <3>4. m \notin ToSet(b) \cup ToSet(g)
      BY <3>1 DEF Has
    <3>5. IsInjective(g \o b)
      BY <3>2
    <3>6. IsInjective(g \o Append(b, m))
      BY <3>1, <3>3, <3>4, <3>5, AppendFresh
    <3> QED BY <3>6 DEF g
  <2>2. \A d \in Clients : IsInjective((got[d] \o buf[d])')
    BY <1>1, <1>4, <2>1 DEF OwnAlertsOnce
  <2>3. \A d \in Clients : \A x \in Delivered(d)' \cup dropped'[d] : To[x] = Owner[d]
    BY <1>1, <1>2, <1>6 DEF OwnAlertsOnce
  <2>4. \A d \in Clients : dropped'[d] \cap Delivered(d)' = {}
    BY <1>1, <1>2, <1>6 DEF OwnAlertsOnce, Has
  <2> QED BY <2>2, <2>3, <2>4 DEF OwnAlertsOnce
<1>9. WalkInv' /\ DistinctInv'
  BY <1>1 DEF WalkInv, DistinctInv, TypeOK
<1>10. GivenInv'
  BY <1>1, <1>7, GiveStep
<1> QED BY <1>1, <1>5, <1>8, <1>9, <1>10, RegistryFrame

LEMMA DropStep ==
  ASSUME Inv, NEW w \in Workers, Drop(w) PROVE Inv'
<1> USE DEF Inv, regVars
<1> DEFINE c == at[w]
           m == wmsg[w]
<1>1. /\ UNCHANGED <<status, clients, members, pc, hungUp, buf, got,
                     begun, wmsg, walk, base, seen>>
      /\ c # None
      /\ dropped' = [dropped EXCEPT ![c] = @ \cup {m}]
      /\ at' = [at EXCEPT ![w] = None]
  BY DEF Drop
<1>2. /\ c \in Clients /\ m \in Messages /\ Owner[c] = To[m]
      /\ m \notin Has(c)
  BY <1>1 DEF TypeOK, WalkInv, GivenInv
<1>3. \A d \in Clients :
        /\ Delivered(d)' = Delivered(d)
        /\ dropped'[d] = IF d = c THEN dropped[d] \cup {m} ELSE dropped[d]
  BY <1>1 DEF Delivered, TypeOK
<1>4. TypeOK'
  BY <1>1, <1>2 DEF TypeOK
<1>5. OwnAlertsOnce'
  <2>1. \A d \in Clients : IsInjective((got[d] \o buf[d])')
    BY <1>1 DEF OwnAlertsOnce
  <2> HIDE DEF c, m
  <2>2. ASSUME NEW d \in Clients
        PROVE  /\ \A x \in Delivered(d)' \cup dropped'[d] : To[x] = Owner[d]
               /\ dropped'[d] \cap Delivered(d)' = {}
    <3>1. /\ \A x \in Delivered(d) \cup dropped[d] : To[x] = Owner[d]
          /\ dropped[d] \cap Delivered(d) = {}
      BY DEF OwnAlertsOnce
    <3>2. Delivered(d)' = Delivered(d)
      BY <1>3
    <3>3. CASE d = c
      <4>1. dropped'[d] = dropped[d] \cup {m}
        BY <1>3, <3>3
      <4>2. m \notin Delivered(d) /\ To[m] = Owner[d]
        BY <1>2, <3>3 DEF Has
      <4> QED BY <3>1, <3>2, <4>1, <4>2
    <3>4. CASE d # c
      <4>1. dropped'[d] = dropped[d]
        BY <1>3, <3>4
      <4> QED BY <3>1, <3>2, <4>1
    <3> QED BY <3>3, <3>4
  <2> QED BY <2>1, <2>2 DEF OwnAlertsOnce
<1>6. WalkInv' /\ DistinctInv'
  BY <1>1 DEF WalkInv, DistinctInv, TypeOK
<1>7. GivenInv'
  <2>1. \A d \in Clients : Has(d)' = IF d = c THEN Has(d) \cup {m} ELSE Has(d)
    BY <1>3 DEF Has
  <2> QED BY <1>1, <2>1, GiveStep
<1> QED BY <1>1, <1>4, <1>5, <1>6, <1>7, RegistryFrame

LEMMA EndStep ==
  ASSUME Inv, NEW w \in Workers, End(w)
  PROVE  /\ Inv'
         /\ \A c \in base[w] : pc[c] = "streaming" => wmsg[w] \in Has(c)
<1> USE DEF Inv, regVars, connVars
<1>1. /\ UNCHANGED <<status, clients, members, pc, hungUp, buf, got, dropped,
                     begun, walk, base, seen, at>>
      /\ wmsg[w] # None /\ at[w] = None
      /\ wmsg' = [wmsg EXCEPT ![w] = None]
      /\ base[w] \cap Entries(walk[w]) \subseteq seen[w]
  BY DEF End
<1>2. TypeOK' /\ WalkInv' /\ DistinctInv' /\ BaseInv'
  BY <1>1 DEF TypeOK, WalkInv, DistinctInv, BaseInv, Entries
<1>3. OwnAlertsOnce' /\ GivenInv'
  <2>1. \A d \in Clients : Has(d)' = Has(d)
    BY <1>1, ChannelFrame
  <2> QED BY <1>1, <2>1, ChannelFrame DEF GivenInv, TypeOK
<1>4. \A c \in base[w] : pc[c] = "streaming" => wmsg[w] \in Has(c)
  <2> SUFFICES ASSUME NEW c \in base[w], pc[c] = "streaming" PROVE wmsg[w] \in Has(c)
    OBVIOUS
  <2>1. c \in Clients /\ c # at[w]
    BY <1>1, Constants DEF TypeOK
  <2>2. c \in Entries(walk[w])
    BY <1>1 DEF BaseInv
  <2> QED BY <1>1, <2>1, <2>2 DEF GivenInv
<1> QED BY <1>1, <1>2, <1>3, <1>4, RegistryFrame

LEMMA StepInv == Inv /\ [Next]_vars => Inv'
<1> SUFFICES ASSUME Inv, [Next]_vars PROVE Inv'
  OBVIOUS
<1>1. ASSUME NEW c \in Clients, ClientStep(c) PROVE Inv'
  BY <1>1, SubscribeStep, ReceiveStep, UnregisterStep, QuietStep DEF ClientStep
<1>2. ASSUME NEW w \in Workers, WorkerStep(w) PROVE Inv'
  BY <1>2, FetchStep, NextEntryStep, SendStep, DropStep, EndStep, QuietStep DEF WorkerStep
<1>3. CASE UNCHANGED vars
  BY <1>3, QuietStep
<1> QED BY <1>1, <1>2, <1>3 DEF Next

-----------------------------------------------------------------------------
(* The theorems *)

\* The invariant holds in every reachable state, for any instance.
THEOREM Invariance == Spec => []Inv
BY InitInv, StepInv, PTL DEF Spec

\* Every variable keeps its type, and no channel exceeds its capacity.
THEOREM TypeCorrect == Spec => []TypeOK
<1>1. Inv => TypeOK
  BY DEF Inv
<1> QED BY <1>1, Invariance, PTL

\* The broker's maps hold exactly the streaming connections, under their user.
THEOREM RegistryHolds == Spec => []Registry
<1>1. Inv => Registry
  BY DEF Inv
<1> QED BY <1>1, Invariance, PTL

\* No connection is given another user's alert, or the same alert twice.
THEOREM OwnAlertsOnceHolds == Spec => []OwnAlertsOnce
<1>1. Inv => OwnAlertsOnce
  BY DEF Inv
<1> QED BY <1>1, Invariance, PTL

\* A broadcast that ends has reached, or has dropped the alert for, every
\* connection that streamed throughout it.
THEOREM NoneMissedHolds == Spec => NoneMissed
<1>1. ASSUME Inv, [Next]_vars,
             NEW w \in Workers, wmsg[w] # None, wmsg'[w] = None,
             NEW c \in base[w], pc[c] = "streaming"
      PROVE  wmsg[w] \in Has(c)
  <2>1. End(w)
    <3>1. ASSUME NEW d \in Clients, ClientStep(d) PROVE wmsg' = wmsg
      BY <3>1 DEF ClientStep, Subscribe, Receive, HangUp, Unregister, Close,
                  RacyWrite, castVars
    <3>2. ASSUME NEW v \in Workers, WorkerStep(v), ~(v = w /\ End(w))
          PROVE  wmsg'[w] = wmsg[w] \/ wmsg'[w] # None
      BY <1>1, <3>2, Constants DEF WorkerStep, Fetch, NextEntry, Send, Drop, SendPanics,
                  End, castVars, Inv, TypeOK
    <3> QED BY <1>1, <3>1, <3>2 DEF Next, vars
  <2> QED BY <1>1, <2>1, EndStep
<1>2. Inv /\ [Next]_vars =>
        [\A w \in Workers :
           wmsg[w] # None /\ wmsg'[w] = None =>
             \A c \in base[w] :
               pc[c] = "streaming" => wmsg[w] \in Delivered(c) \cup dropped[c]]_vars
  BY <1>1 DEF Has
<1> QED BY <1>2, Invariance, PTL DEF Spec, NoneMissed

=============================================================================
