------------------------------ MODULE Startup ------------------------------
(***************************************************************************)
(* The program from its start to the point where pollers and workers run:  *)
(* configuration, connection, the two migrations, the API server, the      *)
(* Qdrant collection.  It exits at the first step that fails, and whatever *)
(* the databases hold by then is what the next start finds.                *)
(*                                                                         *)
(* Migrate has no record of the files it ran: it runs both on every start. *)
(***************************************************************************)
EXTENDS Naturals

CONSTANTS
  KeyLengths, \* lengths of ENCRYPTION_KEY the environment may give
  MaxOutages  \* bound: how often PostgreSQL or Qdrant go away or main is killed
              \* before it runs

ASSUME StartupAssumption == KeyLengths \subseteq Nat /\ MaxOutages \in Nat

VARIABLES
  pc,         \* the step main has come to, or "down"
  serving,    \* the API server's goroutine was started
  keyLength,  \* of ENCRYPTION_KEY
  base,       \* users, strategies and api_keys exist
  alerts,     \* "absent", "narrow" as in 001, or "wide" as in 002
  collection, \* the Qdrant collection exists
  dbUp, qdrantUp, portFree,
  outages,
  lastFailed  \* the step at which the process exited last, or "none"

tables == <<base, alerts, collection>>
world == <<keyLength, dbUp, qdrantUp, portFree, outages>>
vars == <<pc, serving, tables, world, lastFailed>>

Steps == {"config", "connect", "migrate1", "migrate2", "serve", "exists",
          "create", "running"}

TypeOK ==
  /\ pc \in Steps \cup {"down"}
  /\ serving \in BOOLEAN
  /\ keyLength \in KeyLengths
  /\ base \in BOOLEAN
  /\ alerts \in {"absent", "narrow", "wide"}
  /\ collection \in BOOLEAN
  /\ dbUp \in BOOLEAN
  /\ qdrantUp \in BOOLEAN
  /\ portFree \in BOOLEAN
  /\ outages \in 0..MaxOutages
  /\ lastFailed \in Steps \cup {"none"}
  /\ serving <=> pc \in {"exists", "create", "running"}

\* Databases nobody has used.
Init ==
  /\ pc = "down"
  /\ serving = FALSE
  /\ keyLength \in KeyLengths
  /\ base = FALSE
  /\ alerts = "absent"
  /\ collection = FALSE
  /\ dbUp \in BOOLEAN
  /\ qdrantUp \in BOOLEAN
  /\ portFree \in BOOLEAN
  /\ outages = 0
  /\ lastFailed = "none"

-----------------------------------------------------------------------------
(* The environment *)

\* PostgreSQL, Qdrant or the port become unavailable, or available again.
Lost == outages < MaxOutages /\ outages' = outages + 1 /\ UNCHANGED keyLength

DbLost == dbUp /\ dbUp' = FALSE /\ UNCHANGED <<qdrantUp, portFree>> /\ Lost
QdrantLost == qdrantUp /\ qdrantUp' = FALSE /\ UNCHANGED <<dbUp, portFree>> /\ Lost
PortLost == portFree /\ portFree' = FALSE /\ UNCHANGED <<dbUp, qdrantUp>> /\ Lost

Outage ==
  /\ DbLost \/ QdrantLost \/ PortLost
  /\ UNCHANGED <<pc, serving, tables, lastFailed>>

Recovery ==
  /\ ~(dbUp /\ qdrantUp /\ portFree)
  /\ dbUp' = TRUE
  /\ qdrantUp' = TRUE
  /\ portFree' = TRUE
  /\ UNCHANGED <<pc, serving, tables, keyLength, outages, lastFailed>>

\* The operator corrects the environment.
SetKey ==
  /\ pc = "down"
  /\ lastFailed = "config"
  /\ keyLength # 32
  /\ keyLength' \in KeyLengths \ {keyLength}
  /\ UNCHANGED <<pc, serving, tables, dbUp, qdrantUp, portFree, outages, lastFailed>>

Start ==
  /\ pc = "down"
  /\ pc' = "config"
  /\ UNCHANGED <<serving, tables, world, lastFailed>>

-----------------------------------------------------------------------------
(* main *)

Exit ==
  /\ pc' = "down"
  /\ serving' = FALSE
  /\ lastFailed' = pc

Reach(step) ==
  /\ pc' = step
  /\ UNCHANGED lastFailed

\* config.Get: Validate wants a key of exactly 32 bytes, or log.Fatalf.
Config ==
  /\ pc = "config"
  /\ IF keyLength = 32 THEN Reach("connect") /\ UNCHANGED serving ELSE Exit
  /\ UNCHANGED <<tables, world>>

\* Variant: the API is served before the tables are there.
ConnectServes ==
  /\ pc = "connect"
  /\ IF dbUp THEN Reach("migrate1") /\ serving' = TRUE ELSE Exit
  /\ UNCHANGED <<tables, world>>

\* database.Connect pings.
Connect ==
  /\ pc = "connect"
  /\ IF dbUp THEN Reach("migrate1") /\ UNCHANGED serving ELSE Exit
  /\ UNCHANGED <<tables, world>>

\* Variant: without IF NOT EXISTS, so that a second run fails.
Migrate1Once ==
  /\ pc = "migrate1"
  /\ IF ~dbUp \/ base
     THEN Exit /\ UNCHANGED <<base, alerts>>
     ELSE /\ base' = TRUE
          /\ alerts' = "narrow"
          /\ Reach("migrate2")
          /\ UNCHANGED serving
  /\ UNCHANGED <<collection, world>>

\* 001: CREATE TABLE IF NOT EXISTS for all tables, alerts without url and
\* similarity_score.  The statements of a file are one implicit transaction,
\* which may be committed although the connection breaks before the answer.
Migrate1 ==
  /\ pc = "migrate1"
  /\ \/ /\ dbUp
        /\ base' = TRUE
        /\ alerts' = IF alerts = "absent" THEN "narrow" ELSE alerts
        /\ \/ Reach("migrate2") /\ UNCHANGED <<serving, world>>
           \/ Exit /\ DbLost
     \/ /\ ~dbUp
        /\ Exit
        /\ UNCHANGED <<base, alerts, world>>
  /\ UNCHANGED collection

\* 002: CREATE TABLE IF NOT EXISTS alerts, with both columns.
Migrate2 ==
  /\ pc = "migrate2"
  /\ \/ /\ dbUp
        /\ alerts' = IF alerts = "absent" THEN "wide" ELSE alerts
        /\ Reach("serve")
        /\ UNCHANGED serving
     \/ ~dbUp /\ Exit /\ UNCHANGED alerts
  /\ UNCHANGED <<base, collection, world>>

\* go ListenAndServe.
Serve ==
  /\ pc = "serve"
  /\ serving' = TRUE
  /\ Reach("exists")
  /\ UNCHANGED <<tables, world>>

\* ListenAndServe returns an error: os.Exit, wherever main has come to.
ServeFails ==
  /\ serving
  /\ ~portFree
  /\ Exit
  /\ UNCHANGED <<tables, world>>

\* EnsureCollectionExists, first call.
CollectionExists ==
  /\ pc = "exists"
  /\ IF qdrantUp
     THEN Reach(IF collection THEN "running" ELSE "create") /\ UNCHANGED serving
     ELSE Exit
  /\ UNCHANGED <<tables, world>>

\* Variant: main goes on when the collection was not created.
CreateCollectionOn ==
  /\ pc = "create"
  /\ collection' = (collection \/ qdrantUp)
  /\ Reach("running")
  /\ UNCHANGED <<serving, base, alerts, world>>

\* Second call.  The collection may be created although the connection breaks
\* before the answer.
CreateCollection ==
  /\ pc = "create"
  /\ IF qdrantUp
     THEN /\ collection' = TRUE
          /\ \/ Reach("running") /\ UNCHANGED <<serving, world>>
             \/ Exit /\ QdrantLost
     ELSE Exit /\ UNCHANGED <<collection, world>>
  /\ UNCHANGED <<base, alerts>>

\* SIGINT or SIGTERM, or the process is killed; until main has come to run, which
\* is where it handles signals, at any step.
Stopped ==
  /\ pc # "down"
  /\ IF pc = "running"
     THEN UNCHANGED outages
     ELSE outages < MaxOutages /\ outages' = outages + 1
  /\ pc' = "down"
  /\ serving' = FALSE
  /\ UNCHANGED <<tables, keyLength, dbUp, qdrantUp, portFree, lastFailed>>

MainStep ==
  \/ Config \/ Connect \/ Migrate1 \/ Migrate2 \/ Serve
  \/ CollectionExists \/ CreateCollection

Next ==
  \/ Outage \/ Recovery \/ SetKey \/ Start
  \/ MainStep \/ ServeFails \/ Stopped

Spec == Init /\ [][Next]_vars

\* Fairness: an operator starts the program again whenever it is down, corrects
\* the key it complained about, and what became unavailable comes back; main
\* does not stop between two steps.
FairSpec ==
  /\ Spec
  /\ WF_vars(Start) /\ SF_vars(SetKey) /\ WF_vars(Recovery)
  /\ WF_vars(MainStep)

-----------------------------------------------------------------------------
(* Properties *)

\* Handlers find their tables, and pollers and workers the alerts table and the
\* collection, whatever earlier starts had got done before they failed.
SetUpBeforeUse ==
  /\ serving => base /\ alerts # "absent"
  /\ pc = "running" => collection

\* No failure leaves the databases in a state from which the program cannot
\* start any more: once everything is available again it comes to run.
RunsAgain == []<>(pc = "running")

\* README: "PostgreSQL persistence" of alerts.  When workers run, the alerts
\* table has the columns that CreateAlert inserts.
AlertsStorable == pc = "running" => alerts = "wide"

=============================================================================
