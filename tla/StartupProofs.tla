---------------------------- MODULE StartupProofs ----------------------------
(* Nothing is used before it is set up, for any number of starts, outages *)
(* and keys.                                                              *)
EXTENDS Startup, TLAPS

\* What a start has done when it comes to the API server.
Migrated == pc \in {"migrate2", "serve"} => base /\ alerts # "absent"

Inv == TypeOK /\ Migrated /\ SetUpBeforeUse

LEMMA InitInv == Init => Inv
<1>1. 0 \in 0..MaxOutages
  BY StartupAssumption
<1> QED
  BY <1>1, Zenon DEF Init, Inv, TypeOK, Migrated, SetUpBeforeUse, Steps

\* Steps of the environment and of the operator.
LEMMA WorldInv == Inv /\ (Outage \/ Recovery \/ SetKey \/ Start) => Inv'
<1> SUFFICES ASSUME Inv, Outage \/ Recovery \/ SetKey \/ Start PROVE Inv'
  OBVIOUS
<1> USE StartupAssumption
        DEF Inv, TypeOK, Migrated, SetUpBeforeUse, Steps, tables, world
<1>1. CASE Outage
  <2>1. outages' \in 0..MaxOutages
    BY <1>1 DEF Outage, DbLost, QdrantLost, PortLost, Lost
  <2>2. dbUp' \in BOOLEAN /\ qdrantUp' \in BOOLEAN /\ portFree' \in BOOLEAN
    BY <1>1, Zenon DEF Outage, DbLost, QdrantLost, PortLost
  <2>3. UNCHANGED <<pc, serving, base, alerts, collection, keyLength, lastFailed>>
    BY <1>1, Zenon DEF Outage, DbLost, QdrantLost, PortLost, Lost
  <2> QED
    BY <2>1, <2>2, <2>3
<1>2. CASE Recovery
  BY <1>2 DEF Recovery
<1>3. CASE SetKey
  BY <1>3 DEF SetKey
<1>4. CASE Start
  BY <1>4 DEF Start
<1> QED
  BY <1>1, <1>2, <1>3, <1>4

\* Steps of main: only a migration changes tables, and it never takes one away.
LEMMA MainInv == Inv /\ MainStep => Inv'
<1> SUFFICES ASSUME Inv, MainStep PROVE Inv'
  OBVIOUS
<1> USE StartupAssumption
        DEF Inv, TypeOK, Migrated, SetUpBeforeUse, Steps, tables, world, Exit, Reach
<1>1. CASE Config
  BY <1>1 DEF Config
<1>2. CASE Connect
  BY <1>2 DEF Connect
<1>3. CASE Migrate1
  <2>1. outages' \in 0..MaxOutages
    BY <1>3 DEF Migrate1, DbLost, Lost
  <2>2. alerts' \in {"absent", "narrow", "wide"} /\ (alerts # "absent" => alerts' # "absent")
    BY <1>3 DEF Migrate1
  <2>3. pc' \in {"migrate2", "down"} /\ serving' = FALSE /\ dbUp' \in BOOLEAN
    BY <1>3, Zenon DEF Migrate1, DbLost
  <2>4. base' \in BOOLEAN /\ (pc' = "migrate2" => base' /\ alerts' # "absent")
    BY <1>3 DEF Migrate1
  <2>5. /\ UNCHANGED <<keyLength, collection, qdrantUp, portFree>>
        /\ lastFailed' \in Steps \cup {"none"}
    BY <1>3, Zenon DEF Migrate1, DbLost, Lost
  <2> QED
    BY <2>1, <2>2, <2>3, <2>4, <2>5
<1>4. CASE Migrate2
  <2>1. alerts' \in {"absent", "narrow", "wide"} /\ (dbUp => alerts' # "absent")
    BY <1>4 DEF Migrate2
  <2>2. /\ UNCHANGED <<base, collection, keyLength, dbUp, qdrantUp, portFree, outages>>
        /\ lastFailed' \in Steps \cup {"none"}
    BY <1>4, Zenon DEF Migrate2
  <2>3. /\ pc' \in {"serve", "down"} /\ serving' = FALSE
        /\ pc' = "serve" => base /\ alerts' # "absent"
    BY <1>4, <2>1 DEF Migrate2
  <2> QED
    BY <2>1, <2>2, <2>3
<1>5. CASE Serve
  BY <1>5 DEF Serve
<1>6. CASE CollectionExists
  BY <1>6 DEF CollectionExists
<1>7. CASE CreateCollection
  <2>1. outages' \in 0..MaxOutages
    <3>1. outages' = outages \/ (outages < MaxOutages /\ outages' = outages + 1)
      BY <1>7, Zenon DEF CreateCollection, QdrantLost, Lost
    <3> QED
      BY <3>1
  <2>2. /\ pc = "create" /\ serving
        /\ pc' \in {"running", "down"}
        /\ pc' = "running" => serving' = TRUE /\ collection' = TRUE
        /\ pc' = "down" => serving' = FALSE
    BY <1>7, Zenon DEF CreateCollection
  <2>3. /\ UNCHANGED <<base, alerts, keyLength, dbUp, portFree>>
        /\ collection' \in BOOLEAN /\ qdrantUp' \in BOOLEAN
        /\ lastFailed' \in Steps \cup {"none"}
    BY <1>7, Zenon DEF CreateCollection, QdrantLost, Lost
  <2> QED
    BY <2>1, <2>2, <2>3
<1> QED
  BY <1>1, <1>2, <1>3, <1>4, <1>5, <1>6, <1>7 DEF MainStep

\* The process goes down, or nothing happens.
LEMMA DownInv == Inv /\ (ServeFails \/ Stopped \/ UNCHANGED vars) => Inv'
<1> SUFFICES ASSUME Inv, ServeFails \/ Stopped \/ UNCHANGED vars PROVE Inv'
  OBVIOUS
<1> USE StartupAssumption
        DEF Inv, TypeOK, Migrated, SetUpBeforeUse, Steps, tables, world
<1>1. CASE ServeFails
  BY <1>1 DEF ServeFails, Exit
<1>2. CASE Stopped
  <2>1. outages' \in 0..MaxOutages
    <3>1. outages' = outages \/ (outages < MaxOutages /\ outages' = outages + 1)
      BY <1>2, Zenon DEF Stopped
    <3> QED
      BY <3>1
  <2>2. /\ pc' = "down" /\ serving' = FALSE
        /\ UNCHANGED <<base, alerts, collection, keyLength, dbUp, qdrantUp, portFree, lastFailed>>
    BY <1>2, Zenon DEF Stopped
  <2> QED
    BY <2>1, <2>2
<1>3. CASE UNCHANGED vars
  BY <1>3 DEF vars
<1> QED
  BY <1>1, <1>2, <1>3

\* The inductive invariant: a start that has come past a migration finds its
\* tables, which no failure takes away.
THEOREM Invariance == Spec => []Inv
<1>1. Inv /\ [Next]_vars => Inv'
  BY WorldInv, MainInv, DownInv DEF Next
<1> QED
  BY InitInv, <1>1, PTL DEF Spec

\* TypeOK: in particular the API is served exactly from its step on.
THEOREM TypeCorrect == Spec => []TypeOK
<1>1. Inv => TypeOK
  BY DEF Inv
<1> QED
  BY Invariance, <1>1, PTL

\* SetUpBeforeUse: handlers find tables, pollers and workers the collection.
THEOREM SetUpBeforeUseHolds == Spec => []SetUpBeforeUse
<1>1. Inv => SetUpBeforeUse
  BY DEF Inv
<1> QED
  BY Invariance, <1>1, PTL

=============================================================================
