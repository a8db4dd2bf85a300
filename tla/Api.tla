-------------------------------- MODULE Api --------------------------------
(***************************************************************************)
(* The REST API: concurrent requests of several users, or of several tabs  *)
(* of one, handled over the tables of Database.  Only the toggle runs two  *)
(* statements, between which others can come.  A statement may fail, and   *)
(* when the browser hangs up r.Context() is cancelled: it may then have    *)
(* been committed although the handler sees an error.                      *)
(***************************************************************************)
EXTENDS Database

CONSTANTS
  Requests,   \* bound: the requests of a behaviour
  Offered     \* the kinds of request considered

AllKinds == {"register", "login", "me", "create", "delete", "toggle", "list",
             "read", "alerts", "putKey", "deleteKey", "keys"}

ASSUME ApiAssumption == Offered \subseteq AllKinds

VARIABLES
  req,        \* what a request asks for, or None: not sent yet
  read,       \* what its handler read: a list, or a strategy's state
  resp        \* the status it was answered with

vars == <<dbVars, req, read, resp>>

Asks == [op : Offered, user : Users,
         arg : Passwords \cup Providers \cup Strategies \cup Alerts
               \cup {"active", "paused", None}]

Rows == Strategies \cup Alerts \cup Providers \cup {"active", "paused"}

TypeOK ==
  /\ TablesOK
  /\ req \in [Requests -> Asks \cup {None}]
  /\ read \in [Requests -> SUBSET Rows]
  /\ resp \in [Requests -> {"none", "200", "201", "400", "401", "404", "409", "500"}]
  /\ \A r \in Requests : resp[r] = "none" /\ req[r] # None =>
       req[r].op = "toggle" /\ read[r] # {}

Init ==
  /\ Tables
  /\ req = [r \in Requests |-> None]
  /\ read = [r \in Requests |-> {}]
  /\ resp = [r \in Requests |-> "none"]

-----------------------------------------------------------------------------
(* Requests.  The first step of a handler is taken when the request comes.  *)

Comes(r, op, u, arg) ==
  /\ req[r] = None /\ resp[r] = "none"
  /\ op \in Offered
  /\ req' = [req EXCEPT ![r] = [op |-> op, user |-> u, arg |-> arg]]

Answer(r, status) == resp' = [resp EXCEPT ![r] = status]

\* A statement that changed the tables: the handler answers, or sees an error
\* although it was committed.
Executed(r, status) == (Answer(r, status) \/ Answer(r, "500")) /\ UNCHANGED read

\* A statement that found nothing to change.
NoRow(r, status) == Answer(r, status) /\ UNCHANGED <<dbVars, read>>

\* A handler that only reads.
Found(r, rows) ==
  /\ read' = [read EXCEPT ![r] = rows]
  /\ Answer(r, "200")
  /\ UNCHANGED dbVars

\* requireAuth: the claims of a valid token name a user that has an account.
Authorized(r, op, u, arg) == Comes(r, op, u, arg) /\ Registered(u)

\* Answered before any table changed, and of no interest from then on: a
\* malformed body or parameter; a missing, invalid or expired token; a first
\* statement that failed.
Refuse(r) ==
  /\ req[r] = None
  /\ resp[r] = "none"
  /\ \E status \in {"400", "401", "500"} : NoRow(r, status)
  /\ UNCHANGED req

-----------------------------------------------------------------------------
(* Accounts and keys *)

Register(r) ==
  \E u \in Users, p \in Passwords :
    /\ Comes(r, "register", u, p)
    /\ \/ CreateUser(u, p) /\ Executed(r, "201")
       \/ Registered(u) /\ NoRow(r, "409")

\* A token, or 401 for an unknown e-mail and a wrong password alike.
Login(r) ==
  \E u \in Users, p \in Passwords :
    /\ Comes(r, "login", u, p)
    /\ NoRow(r, IF GetUserByEmail(u) = p THEN "200" ELSE "401")

Me(r) ==
  \E u \in Users :
    /\ Authorized(r, "me", u, None)
    /\ NoRow(r, IF GetUserByID(u) = None THEN "404" ELSE "200")

UpdateKey(r) ==
  \E u \in Users, p \in Providers, k \in Secrets :
    /\ Authorized(r, "putKey", u, p)
    /\ AddAPIKey(u, p, k)
    /\ Executed(r, "200")

DeleteKey(r) ==
  \E u \in Users, p \in Providers :
    /\ Authorized(r, "deleteKey", u, p)
    /\ DeleteAPIKey(u, p)
    /\ Executed(r, "200")

\* The providers answered with has_key; here too the list may be cut short.
ListKeys(r) ==
  \E u \in Users :
    /\ Authorized(r, "keys", u, None)
    /\ \E part \in SUBSET GetAPIKeys(u) : Found(r, part)

-----------------------------------------------------------------------------
(* Strategies *)

Create(r) ==
  \E u \in Users, s \in Strategies, v \in {"active", "paused"} :
    /\ Authorized(r, "create", u, v)
    /\ CreateStrategy(u, s, v)
    /\ Executed(r, "201")

List(r) ==
  \E u \in Users :
    /\ Authorized(r, "list", u, None)
    /\ \E part \in GetUserStrategies(u) : Found(r, part)

\* No row affected is an error.
Delete(r) ==
  \E u \in Users, s \in Strategies :
    /\ Authorized(r, "delete", u, s)
    /\ \/ DeleteStrategy(u, s) /\ Executed(r, "200")
       \/ s \notin Own(u) /\ NoRow(r, "500")

\* Toggle, first statement.
ToggleRead(r) ==
  \E u \in Users, s \in Strategies :
    /\ Authorized(r, "toggle", u, s)
    /\ \/ /\ s \in Own(u)
          /\ read' = [read EXCEPT ![r] = GetStrategy(u, s)]
          /\ UNCHANGED <<dbVars, resp>>
       \/ s \notin Own(u) /\ NoRow(r, "404")

Toggling(r) == read[r] # {} /\ resp[r] = "none"

\* Toggle, second statement: the row is written with the opposite of what was
\* read, or the statement fails, or the row is gone by now.
ToggleUpdate(r) ==
  /\ Toggling(r)
  /\ \/ /\ \E v \in {"active", "paused"} \ read[r] :
             UpdateStrategy(req[r].user, req[r].arg, v)
        /\ Executed(r, "200")
     \/ NoRow(r, "500")
  /\ UNCHANGED req

-----------------------------------------------------------------------------
(* Alerts *)

\* A worker stores an alert.
Raise(a) == (\E s \in Strategies : CreateAlert(a, s)) /\ UNCHANGED <<req, read, resp>>

ListAlerts(r) ==
  \E u \in Users, limit, offset \in 0..1 :
    /\ Authorized(r, "alerts", u, None)
    /\ \E part \in GetUserAlerts(u, limit, offset) : Found(r, part)

MarkRead(r) ==
  \E u \in Users, a \in Alerts :
    /\ Authorized(r, "read", u, a)
    /\ \/ MarkAlertRead(u, a) /\ Executed(r, "200")
       \/ holder[a] # u /\ NoRow(r, "500")

-----------------------------------------------------------------------------
Handle(r) ==
  \/ Refuse(r)
  \/ Register(r) \/ Login(r) \/ Me(r)
  \/ UpdateKey(r) \/ DeleteKey(r) \/ ListKeys(r)
  \/ Create(r) \/ List(r) \/ Delete(r) \/ ToggleRead(r) \/ ToggleUpdate(r)
  \/ ListAlerts(r) \/ MarkRead(r)

Next == (\E r \in Requests : Handle(r)) \/ (\E a \in Alerts : Raise(a))

Spec == Init /\ [][Next]_vars

-----------------------------------------------------------------------------
(* Properties *)

Asked(r, op) == req[r] # None /\ req[r].op = op

\* However registrations for one e-mail race, one of them at most is told that
\* it created the account, and its password is the one that counts: no later
\* registration takes the account over.
OneRegistration ==
  \A r, q \in Requests :
    Asked(r, "register") /\ resp[r] = "201" =>
      /\ account[req[r].user] = req[r].arg
      /\ Asked(q, "register") /\ req[q].user = req[r].user /\ resp[q] = "201" => q = r

\* What a user stored is changed by the user's own requests only: a step that
\* changes a strategy, an API key or an alert's read mark is the answer to a
\* request of the one who owns it.  And a request is answered with rows of the
\* user who sent it.
OwnerOnly ==
  [][/\ \A u \in Users :
          \/ key'[u] # key[u]
          \/ \E s \in Strategies : owner[s] = u /\ strat'[s] # strat[s]
          \/ \E a \in Alerts : holder[a] = u /\ isRead'[a] # isRead[a]
          => \E r \in Requests : resp[r] = "none" /\ resp'[r] # "none" /\ req'[r].user = u
     /\ \A r \in Requests :
          read'[r] # read[r] =>
            read'[r] \subseteq LET u == req'[r].user
                               IN Own(u) \cup HeldBy(u) \cup GetAPIKeys(u)
                                  \cup {strat[s] : s \in Own(u)}]_vars

\* Whatever the handlers of one strategy race with, its row goes through no
\* step but those the alerter is modelled against: in particular a toggle that
\* read the row before it was deleted does not bring it back.
Lifecycle == INSTANCE StrategyLifecycle
LifecycleSpec == Lifecycle!Spec

\* An alert refers to no strategy, or to one that exists and has the same user.
\* Once raised it stays with that user: of what its strategy's row goes through
\* it sees the deletion only, which takes the reference and nothing else.
Attached ==
  \A a \in Alerts :
    about[a] # None => Exists(about[a]) /\ holder[a] = owner[about[a]]
Stays(a) ==
  /\ holder'[a] = holder[a]
  /\ isRead[a] => isRead'[a]
  /\ about'[a] # about[a] => about'[a] = None /\ strat'[about[a]] = "deleted"
AlertsAttached ==
  /\ []Attached
  /\ [][\A a \in Alerts : holder[a] # None => Stays(a)]_vars

\* README: "PATCH /strategies/toggle?id= ... Toggle strategy active/paused".
\* A toggle that is answered with success has turned the strategy round.
TogglesFlip ==
  [][\A r \in Requests :
       Asked(r, "toggle") /\ resp[r] = "none" /\ resp'[r] = "200" =>
         strat'[req[r].arg] # strat[req[r].arg]]_vars

=============================================================================
