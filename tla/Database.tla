------------------------------ MODULE Database ------------------------------
(***************************************************************************)
(* internal/database: the tables of migration 001 and the statements run   *)
(* on them by the API and the workers.  A statement is atomic.  A user is  *)
(* the e-mail of an account; columns nobody decides on are left out, and   *)
(* with them the order of lists.                                           *)
(***************************************************************************)
EXTENDS FiniteSets, Naturals

CONSTANTS
  Users,
  Passwords,
  Providers,  \* of third-party API keys
  Secrets,    \* those keys
  Strategies, \* ids the database may generate
  Alerts,     \* likewise
  None

ASSUME DatabaseAssumption ==
  None \notin Users \cup Passwords \cup Secrets \cup Strategies

VARIABLES
  account,    \* users: the password of a user, or None
  key,        \* api_keys: a user's key for a provider, or None
  owner,      \* strategies: user_id, or None
  strat,      \* strategies: "absent", "active", "paused" or "deleted"
  about,      \* alerts: strategy_id, or None
  holder,     \* alerts: user_id, or None: not raised yet
  isRead      \* alerts: is_read

userVars == <<account, key>>
stratVars == <<owner, strat>>
alertVars == <<about, holder, isRead>>
dbVars == <<userVars, stratVars, alertVars>>

TablesOK ==
  /\ account \in [Users -> Passwords \cup {None}]
  /\ key \in [Users -> [Providers -> Secrets \cup {None}]]
  /\ owner \in [Strategies -> Users \cup {None}]
  /\ strat \in [Strategies -> {"absent", "active", "paused", "deleted"}]
  /\ about \in [Alerts -> Strategies \cup {None}]
  /\ holder \in [Alerts -> Users \cup {None}]
  /\ isRead \in [Alerts -> BOOLEAN]
  /\ \A s \in Strategies : owner[s] = None <=> strat[s] = "absent"

\* Some users have registered before, and created strategies.
Tables ==
  /\ account \in [Users -> Passwords \cup {None}]
  /\ key = [u \in Users |-> [p \in Providers |-> None]]
  /\ owner \in [Strategies -> {u \in Users : account[u] # None} \cup {None}]
  /\ strat \in [Strategies -> {"absent", "active", "paused"}]
  /\ \A s \in Strategies : owner[s] = None <=> strat[s] = "absent"
  /\ about = [a \in Alerts |-> None]
  /\ holder = [a \in Alerts |-> None]
  /\ isRead = [a \in Alerts |-> FALSE]

-----------------------------------------------------------------------------
(* users and api_keys *)

Registered(u) == account[u] # None

\* Variant: an e-mail that is taken gets the new password.
CreateUserOver(u, p) ==
  /\ account' = [account EXCEPT ![u] = p]
  /\ UNCHANGED <<key, stratVars, alertVars>>

\* The UNIQUE constraint on the e-mail refuses a second row.
CreateUser(u, p) ==
  /\ ~Registered(u)
  /\ account' = [account EXCEPT ![u] = p]
  /\ UNCHANGED <<key, stratVars, alertVars>>

\* The hash of the row an e-mail or id finds; None when there is no row.
GetUserByEmail(u) == account[u]
GetUserByID(u) == account[u]

\* INSERT ... ON CONFLICT (user_id, provider) DO UPDATE.
AddAPIKey(u, p, k) ==
  /\ key' = [key EXCEPT ![u][p] = k]
  /\ UNCHANGED <<account, stratVars, alertVars>>

GetAPIKeys(u) == {p \in Providers : key[u][p] # None}

\* Deleting a key that is not there is no error.
DeleteAPIKey(u, p) ==
  /\ key' = [key EXCEPT ![u][p] = None]
  /\ UNCHANGED <<account, stratVars, alertVars>>

-----------------------------------------------------------------------------
(* strategies *)

Exists(s) == strat[s] \in {"active", "paused"}

Own(u) == {s \in Strategies : Exists(s) /\ owner[s] = u}

\* Variant: the row gets no user.
CreateStrategyUnowned(u, s, v) ==
  /\ strat[s] = "absent"
  /\ strat' = [strat EXCEPT ![s] = v]
  /\ UNCHANGED <<owner, userVars, alertVars>>

\* A row with a new id.
CreateStrategy(u, s, v) ==
  /\ strat[s] = "absent"
  /\ strat' = [strat EXCEPT ![s] = v]
  /\ owner' = [owner EXCEPT ![s] = u]
  /\ UNCHANGED <<userVars, alertVars>>

\* Whether a strategy is active, as the row found by id and user_id says.
GetStrategy(u, s) == {strat[x] : x \in {s} \cap Own(u)}

\* rows.Err is not looked at: a list may be cut short.
GetUserStrategies(u) == SUBSET Own(u)

\* Variant: the row is written, whether it is still there or not.
UpdateStrategyUpsert(u, s, v) ==
  /\ strat' = [strat EXCEPT ![s] = v]
  /\ UNCHANGED <<owner, userVars, alertVars>>

\* The whole row is written, by id and user_id, if it is still there.
UpdateStrategy(u, s, v) ==
  /\ s \in Own(u)
  /\ strat' = [strat EXCEPT ![s] = v]
  /\ UNCHANGED <<owner, userVars, alertVars>>

\* Variant: the strategy's alerts go with it.
DeleteStrategyCascade(u, s) ==
  /\ s \in Own(u)
  /\ strat' = [strat EXCEPT ![s] = "deleted"]
  /\ about' = [a \in Alerts |-> IF about[a] = s THEN None ELSE about[a]]
  /\ holder' = [a \in Alerts |-> IF about[a] = s THEN None ELSE holder[a]]
  /\ isRead' = [a \in Alerts |-> about[a] # s /\ isRead[a]]
  /\ UNCHANGED <<owner, userVars>>

\* Variant: the row is found by its id alone.
DeleteStrategyAny(u, s) ==
  /\ Exists(s)
  /\ strat' = [strat EXCEPT ![s] = "deleted"]
  /\ about' = [a \in Alerts |-> IF about[a] = s THEN None ELSE about[a]]
  /\ UNCHANGED <<owner, userVars, holder, isRead>>

\* DELETE by id and user_id; its alerts stay, ON DELETE SET NULL.
DeleteStrategy(u, s) ==
  /\ s \in Own(u)
  /\ strat' = [strat EXCEPT ![s] = "deleted"]
  /\ about' = [a \in Alerts |-> IF about[a] = s THEN None ELSE about[a]]
  /\ UNCHANGED <<owner, userVars, holder, isRead>>

-----------------------------------------------------------------------------
(* alerts *)

\* The foreign key refuses a strategy that is gone.
CreateAlert(a, s) ==
  /\ holder[a] = None
  /\ Exists(s)
  /\ about' = [about EXCEPT ![a] = s]
  /\ holder' = [holder EXCEPT ![a] = owner[s]]
  /\ UNCHANGED <<isRead, userVars, stratVars>>

HeldBy(u) == {a \in Alerts : holder[a] = u}

\* LIMIT and OFFSET leave at most so many rows; a list may be cut short here too.
GetUserAlerts(u, limit, offset) ==
  {part \in SUBSET HeldBy(u) :
     /\ Cardinality(part) <= limit
     /\ part # {} => Cardinality(part) + offset <= Cardinality(HeldBy(u))}

\* UPDATE by id and user_id.
MarkAlertRead(u, a) ==
  /\ holder[a] = u
  /\ isRead' = [isRead EXCEPT ![a] = TRUE]
  /\ UNCHANGED <<about, holder, userVars, stratVars>>

=============================================================================
