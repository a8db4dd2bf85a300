------------------------------ MODULE ApiProofs ------------------------------
(* Type correctness, references between tables, the race of registrations, *)
(* the life cycle of a strategy and who changes what: for any users, rows  *)
(* and number of concurrent requests.                                      *)
EXTENDS Api, TLAPS

-----------------------------------------------------------------------------
(* What a step does to the tables: one statement, or nothing.  *)

Statement ==
  \/ \E u \in Users, p \in Passwords : CreateUser(u, p)
  \/ \E u \in Users, p \in Providers, k \in Secrets : AddAPIKey(u, p, k)
  \/ \E u \in Users, p \in Providers : DeleteAPIKey(u, p)
  \/ \E u \in Users, s \in Strategies, v \in {"active", "paused"} :
       CreateStrategy(u, s, v) \/ UpdateStrategy(u, s, v)
  \/ \E u \in Users, s \in Strategies : DeleteStrategy(u, s)
  \/ \E a \in Alerts, s \in Strategies : CreateAlert(a, s)
  \/ \E u \in Users, a \in Alerts : MarkAlertRead(u, a)
  \/ UNCHANGED dbVars

\* The tables keep their types, and alerts what they refer to, whatever the
\* statement.
LEMMA StatementInv ==
  TablesOK /\ Attached /\ Statement => TablesOK' /\ Attached'
<1> SUFFICES ASSUME TablesOK, Attached, Statement
             PROVE  TablesOK' /\ Attached'
  OBVIOUS
<1> USE DatabaseAssumption
        DEF TablesOK, Attached, Exists, Own, userVars, stratVars, alertVars
<1>1. CASE \E u \in Users, p \in Passwords : CreateUser(u, p)
  BY <1>1 DEF CreateUser
<1>2. CASE \E u \in Users, p \in Providers, k \in Secrets : AddAPIKey(u, p, k)
  <2> PICK u \in Users, p \in Providers, k \in Secrets : AddAPIKey(u, p, k)
    BY <1>2
  <2>1. [key[u] EXCEPT ![p] = k] \in [Providers -> Secrets \cup {None}]
    OBVIOUS
  <2>2. key' = [key EXCEPT ![u] = [key[u] EXCEPT ![p] = k]]
    BY DEF AddAPIKey
  <2>3. key' \in [Users -> [Providers -> Secrets \cup {None}]]
    BY <2>1, <2>2
  <2> QED
    BY <2>3 DEF AddAPIKey
<1>3. CASE \E u \in Users, p \in Providers : DeleteAPIKey(u, p)
  <2> PICK u \in Users, p \in Providers : DeleteAPIKey(u, p)
    BY <1>3
  <2>1. [key[u] EXCEPT ![p] = None] \in [Providers -> Secrets \cup {None}]
    OBVIOUS
  <2>2. key' = [key EXCEPT ![u] = [key[u] EXCEPT ![p] = None]]
    BY DEF DeleteAPIKey
  <2>3. key' \in [Users -> [Providers -> Secrets \cup {None}]]
    BY <2>1, <2>2
  <2> QED
    BY <2>3 DEF DeleteAPIKey
<1>4. CASE \E u \in Users, s \in Strategies, v \in {"active", "paused"} :
             CreateStrategy(u, s, v) \/ UpdateStrategy(u, s, v)
  <2> PICK u \in Users, s \in Strategies, v \in {"active", "paused"} :
        CreateStrategy(u, s, v) \/ UpdateStrategy(u, s, v)
    BY <1>4
  <2>1. /\ strat' = [strat EXCEPT ![s] = v]
        /\ UNCHANGED <<account, key, about, holder, isRead>>
    BY DEF CreateStrategy, UpdateStrategy
  <2>2. CASE CreateStrategy(u, s, v)
    <3>1. strat[s] = "absent" /\ owner' = [owner EXCEPT ![s] = u]
      BY <2>2 DEF CreateStrategy
    <3>2. TablesOK'
      BY <2>1, <3>1
    <3>3. \A a \in Alerts : about[a] # None => about[a] # s
      BY <3>1
    <3>4. Attached'
      BY <2>1, <3>1, <3>3
    <3> QED
      BY <3>2, <3>4
  <2>3. CASE UpdateStrategy(u, s, v)
    <3>1. strat[s] # "absent" /\ owner' = owner
      BY <2>3 DEF UpdateStrategy
    <3>2. TablesOK'
      BY <2>1, <3>1
    <3>3. Attached'
      BY <2>1, <3>1
    <3> QED
      BY <3>2, <3>3
  <2> QED
    BY <2>2, <2>3
<1>5. CASE \E u \in Users, s \in Strategies : DeleteStrategy(u, s)
  BY <1>5 DEF DeleteStrategy
<1>6. CASE \E a \in Alerts, s \in Strategies : CreateAlert(a, s)
  BY <1>6 DEF CreateAlert
<1>7. CASE \E u \in Users, a \in Alerts : MarkAlertRead(u, a)
  BY <1>7 DEF MarkAlertRead
<1>8. CASE UNCHANGED dbVars
  BY <1>8 DEF dbVars
<1> QED
  BY <1>1, <1>2, <1>3, <1>4, <1>5, <1>6, <1>7, <1>8 DEF Statement

-----------------------------------------------------------------------------
(* What a step does to the requests.  *)

Args == Passwords \cup Providers \cup Strategies \cup Alerts \cup {"active", "paused", None}
Statuses == {"200", "201", "400", "401", "404", "409", "500"}

Book ==
  /\ req \in [Requests -> Asks \cup {None}]
  /\ read \in [Requests -> SUBSET Rows]
  /\ resp \in [Requests -> Statuses \cup {"none"}]
  /\ \A r \in Requests : resp[r] = "none" /\ req[r] # None =>
       req[r].op = "toggle" /\ read[r] # {}

\* A handler that answers when the request comes.
LEMMA Answered ==
  ASSUME Book,
         NEW r \in Requests, NEW op, NEW u \in Users, NEW arg \in Args,
         Comes(r, op, u, arg),
         \E status \in Statuses : Answer(r, status),
         \/ read' = read
         \/ \E rows \in SUBSET Rows : read' = [read EXCEPT ![r] = rows]
  PROVE  Book'
<1>1. [op |-> op, user |-> u, arg |-> arg] \in Asks
  BY DEF Comes, Asks, Args
<1>2. req' \in [Requests -> Asks \cup {None}] /\ \A q \in Requests \ {r} : req'[q] = req[q]
  BY <1>1 DEF Comes, Book
<1>3. read' \in [Requests -> SUBSET Rows] /\ \A q \in Requests \ {r} : read'[q] = read[q]
  BY DEF Book
<1>4. /\ resp' \in [Requests -> Statuses \cup {"none"}] /\ resp'[r] # "none"
      /\ \A q \in Requests \ {r} : resp'[q] = resp[q]
  BY DEF Answer, Book, Statuses
<1> QED
  BY <1>2, <1>3, <1>4 DEF Book

LEMMA RefuseStep == ASSUME NEW r \in Requests, Book, Refuse(r) PROVE Book' /\ Statement
<1>1. PICK status \in {"400", "401", "500"} : NoRow(r, status)
  BY DEF Refuse
<1>2. /\ req' = req /\ read' = read
      /\ resp' \in [Requests -> Statuses \cup {"none"}] /\ resp'[r] # "none"
      /\ \A q \in Requests \ {r} : resp'[q] = resp[q]
  BY <1>1 DEF Refuse, NoRow, Answer, Book, Statuses
<1>3. Book'
  BY <1>2 DEF Book
<1> QED
  BY <1>1, <1>3 DEF NoRow, Statement

LEMMA AccountStep ==
  ASSUME NEW r \in Requests, Book,
         Register(r) \/ Login(r) \/ Me(r) \/ UpdateKey(r) \/ DeleteKey(r) \/ ListKeys(r)
  PROVE  Book' /\ Statement
<1> USE DEF Args, Statuses
<1>1. CASE Register(r)
  <2> PICK u \in Users, p \in Passwords :
        /\ Comes(r, "register", u, p)
        /\ \/ CreateUser(u, p) /\ Executed(r, "201")
           \/ Registered(u) /\ NoRow(r, "409")
    BY <1>1 DEF Register
  <2>1. (\E status \in Statuses : Answer(r, status)) /\ read' = read
    BY DEF Executed, NoRow
  <2>2. Statement
    BY DEF NoRow, Statement
  <2> QED
    BY <2>1, <2>2, Answered
<1>2. CASE Login(r)
  <2> PICK u \in Users, p \in Passwords :
        /\ Comes(r, "login", u, p)
        /\ NoRow(r, IF GetUserByEmail(u) = p THEN "200" ELSE "401")
    BY <1>2 DEF Login
  <2>1. (\E status \in Statuses : Answer(r, status)) /\ read' = read
    BY DEF NoRow
  <2> QED
    BY <2>1, Answered DEF NoRow, Statement
<1>3. CASE Me(r)
  <2> PICK u \in Users :
        /\ Authorized(r, "me", u, None)
        /\ NoRow(r, IF GetUserByID(u) = None THEN "404" ELSE "200")
    BY <1>3 DEF Me
  <2>1. (\E status \in Statuses : Answer(r, status)) /\ read' = read
    BY DEF NoRow
  <2> QED
    BY <2>1, Answered DEF NoRow, Statement, Authorized
<1>4. CASE UpdateKey(r)
  <2> PICK u \in Users, p \in Providers, k \in Secrets :
        /\ Authorized(r, "putKey", u, p)
        /\ AddAPIKey(u, p, k)
        /\ Executed(r, "200")
    BY <1>4 DEF UpdateKey
  <2>1. (\E status \in Statuses : Answer(r, status)) /\ read' = read
    BY DEF Executed
  <2> QED
    BY <2>1, Answered DEF Statement, Authorized
<1>5. CASE DeleteKey(r)
  <2> PICK u \in Users, p \in Providers :
        /\ Authorized(r, "deleteKey", u, p)
        /\ DeleteAPIKey(u, p)
        /\ Executed(r, "200")
    BY <1>5 DEF DeleteKey
  <2>1. (\E status \in Statuses : Answer(r, status)) /\ read' = read
    BY DEF Executed
  <2> QED
    BY <2>1, Answered DEF Statement, Authorized
<1>6. CASE ListKeys(r)
  <2> PICK u \in Users : /\ Authorized(r, "keys", u, None)
                         /\ \E part \in SUBSET GetAPIKeys(u) : Found(r, part)
    BY <1>6 DEF ListKeys
  <2> PICK part \in SUBSET GetAPIKeys(u) : Found(r, part)
    OBVIOUS
  <2>1. part \in SUBSET Rows
    BY DEF GetAPIKeys, Rows
  <2> QED
    BY <2>1, Answered DEF Found, Statement, Authorized
<1> QED
  BY <1>1, <1>2, <1>3, <1>4, <1>5, <1>6

LEMMA StrategyStep ==
  ASSUME NEW r \in Requests, TablesOK, Book,
         Create(r) \/ List(r) \/ Delete(r) \/ ToggleRead(r) \/ ToggleUpdate(r)
  PROVE  Book' /\ Statement
<1> USE DEF Args, Statuses
<1>1. CASE Create(r)
  <2> PICK u \in Users, s \in Strategies, v \in {"active", "paused"} :
        /\ Authorized(r, "create", u, v)
        /\ CreateStrategy(u, s, v)
        /\ Executed(r, "201")
    BY <1>1 DEF Create
  <2>1. (\E status \in Statuses : Answer(r, status)) /\ read' = read
    BY DEF Executed
  <2>2. Statement
    BY DEF Statement
  <2> QED
    BY <2>1, <2>2, Answered DEF Authorized
<1>2. CASE List(r)
  <2> PICK u \in Users : /\ Authorized(r, "list", u, None)
                         /\ \E part \in GetUserStrategies(u) : Found(r, part)
    BY <1>2 DEF List
  <2> PICK part \in GetUserStrategies(u) : Found(r, part)
    OBVIOUS
  <2>1. part \in SUBSET Rows
    BY DEF GetUserStrategies, Own, Rows
  <2> QED
    BY <2>1, Answered DEF Found, Statement, Authorized
<1>3. CASE Delete(r)
  <2> PICK u \in Users, s \in Strategies :
        /\ Authorized(r, "delete", u, s)
        /\ \/ DeleteStrategy(u, s) /\ Executed(r, "200")
           \/ s \notin Own(u) /\ NoRow(r, "500")
    BY <1>3 DEF Delete
  <2>1. (\E status \in Statuses : Answer(r, status)) /\ read' = read
    BY DEF Executed, NoRow
  <2>2. Statement
    BY DEF NoRow, Statement
  <2> QED
    BY <2>1, <2>2, Answered DEF Authorized
<1>4. CASE ToggleRead(r)
  <2> PICK u \in Users, s \in Strategies :
        /\ Authorized(r, "toggle", u, s)
        /\ \/ /\ s \in Own(u)
              /\ read' = [read EXCEPT ![r] = GetStrategy(u, s)]
              /\ UNCHANGED <<dbVars, resp>>
           \/ s \notin Own(u) /\ NoRow(r, "404")
    BY <1>4 DEF ToggleRead
  <2>1. CASE s \in Own(u) /\ read' = [read EXCEPT ![r] = GetStrategy(u, s)]
             /\ UNCHANGED <<dbVars, resp>>
    <3>1. GetStrategy(u, s) = {strat[s]} /\ strat[s] \in {"active", "paused"}
      BY <2>1 DEF GetStrategy, Own, Exists
    <3>2. GetStrategy(u, s) \in SUBSET Rows /\ GetStrategy(u, s) # {}
      BY <3>1 DEF Rows
    <3>3. read' \in [Requests -> SUBSET Rows] /\ read'[r] # {}
          /\ \A q \in Requests \ {r} : read'[q] = read[q]
      BY <2>1, <3>2 DEF Book
    <3>4. [op |-> "toggle", user |-> u, arg |-> s] \in Asks
      BY DEF Authorized, Comes, Asks
    <3>5. /\ req' \in [Requests -> Asks \cup {None}] /\ req'[r].op = "toggle"
          /\ \A q \in Requests \ {r} : req'[q] = req[q]
      BY <3>4 DEF Authorized, Comes, Book
    <3>6. Book'
      BY <2>1, <3>3, <3>5 DEF Book
    <3> QED
      BY <2>1, <3>6 DEF Statement
  <2>2. CASE s \notin Own(u) /\ NoRow(r, "404")
    <3>1. (\E status \in Statuses : Answer(r, status)) /\ read' = read
      BY <2>2 DEF NoRow
    <3> QED
      BY <2>2, <3>1, Answered DEF Authorized, NoRow, Statement
  <2> QED
    BY <2>1, <2>2
<1>5. CASE ToggleUpdate(r)
  <2>1. /\ req' = req /\ read' = read
        /\ \E status \in Statuses : Answer(r, status)
    BY <1>5 DEF ToggleUpdate, Executed, NoRow
  <2>2. /\ resp' \in [Requests -> Statuses \cup {"none"}] /\ resp'[r] # "none"
        /\ \A q \in Requests \ {r} : resp'[q] = resp[q]
    BY <2>1 DEF Answer, Book
  <2>3. Book'
    BY <2>1, <2>2 DEF Book
  <2>4. Statement
    <3>1. CASE UNCHANGED dbVars
      BY <3>1 DEF Statement
    <3>2. CASE \E v \in {"active", "paused"} : UpdateStrategy(req[r].user, req[r].arg, v)
      <4> DEFINE u == req[r].user
                 s == req[r].arg
      <4>1. PICK v \in {"active", "paused"} : UpdateStrategy(u, s, v)
        BY <3>2
      <4>2. s \in Own(u)
        BY <4>1 DEF UpdateStrategy
      <4>3. s \in Strategies /\ u \in Users
        BY <4>2 DEF Own, Exists, TablesOK
      <4> HIDE DEF u, s
      <4> QED
        BY <4>1, <4>3 DEF Statement
    <3> QED
      BY <1>5, <3>1, <3>2 DEF ToggleUpdate, NoRow
  <2> QED
    BY <2>3, <2>4
<1> QED
  BY <1>1, <1>2, <1>3, <1>4, <1>5

LEMMA AlertStep ==
  ASSUME NEW r \in Requests, Book, ListAlerts(r) \/ MarkRead(r)
  PROVE  Book' /\ Statement
<1> USE DEF Args, Statuses
<1>1. CASE ListAlerts(r)
  <2> PICK u \in Users, limit \in 0..1, offset \in 0..1 :
        /\ Authorized(r, "alerts", u, None)
        /\ \E part \in GetUserAlerts(u, limit, offset) : Found(r, part)
    BY <1>1 DEF ListAlerts
  <2> PICK part \in GetUserAlerts(u, limit, offset) : Found(r, part)
    OBVIOUS
  <2>1. part \in SUBSET Rows
    BY DEF GetUserAlerts, HeldBy, Rows
  <2> QED
    BY <2>1, Answered DEF Found, Statement, Authorized
<1>2. CASE MarkRead(r)
  <2> PICK u \in Users, a \in Alerts :
        /\ Authorized(r, "read", u, a)
        /\ \/ MarkAlertRead(u, a) /\ Executed(r, "200")
           \/ holder[a] # u /\ NoRow(r, "500")
    BY <1>2 DEF MarkRead
  <2>1. (\E status \in Statuses : Answer(r, status)) /\ read' = read
    BY DEF Executed, NoRow
  <2>2. Statement
    BY DEF NoRow, Statement
  <2> QED
    BY <2>1, <2>2, Answered DEF Authorized
<1> QED
  BY <1>1, <1>2

\* Every step is a statement, and keeps the book.
LEMMA StepIsStatement == TablesOK /\ Book /\ [Next]_vars => Book' /\ Statement
<1> SUFFICES ASSUME TablesOK, Book, [Next]_vars PROVE Book' /\ Statement
  OBVIOUS
<1>1. CASE \E r \in Requests : Handle(r)
  BY <1>1, RefuseStep, AccountStep, StrategyStep, AlertStep DEF Handle
<1>2. CASE \E a \in Alerts : Raise(a)
  <2>1. UNCHANGED <<req, read, resp>>
    BY <1>2 DEF Raise
  <2>2. Book'
    BY <2>1 DEF Book
  <2> QED
    BY <1>2, <2>2 DEF Raise, Statement
<1>3. CASE UNCHANGED vars
  BY <1>3 DEF vars, Book, Statement
<1> QED
  BY <1>1, <1>2, <1>3 DEF Next

-----------------------------------------------------------------------------
\* The inductive invariant: tables and requests have their types, and alerts
\* refer to what is there.
Inv == TablesOK /\ Book /\ Attached

LEMMA InitInv == Init => Inv
<1> SUFFICES ASSUME Init PROVE Inv
  OBVIOUS
<1> USE DatabaseAssumption DEF Init, Tables
<1>1. TablesOK
  BY DEF TablesOK
<1>2. Book
  BY DEF Book
<1>3. Attached
  BY DEF Attached
<1> QED
  BY <1>1, <1>2, <1>3 DEF Inv

THEOREM Invariance == Spec => []Inv
<1>1. Inv /\ [Next]_vars => Inv'
  BY StepIsStatement, StatementInv DEF Inv
<1> QED
  BY InitInv, <1>1, PTL DEF Spec

\* TypeOK: a request that is under way is a toggle between its two statements.
THEOREM TypeCorrect == Spec => []TypeOK
<1>1. Inv => TypeOK
  BY Zenon DEF Inv, Book, TypeOK, Statuses
<1> QED
  BY Invariance, <1>1, PTL

\* AlertsAttached: an alert's strategy exists and has the alert's user, and no
\* statement takes a raised alert from its user.
LEMMA StatementStays ==
  ASSUME TablesOK, Statement, NEW a \in Alerts, holder[a] # None
  PROVE  Stays(a)
<1> USE DatabaseAssumption DEF TablesOK, Stays, userVars, stratVars, alertVars
<1>1. CASE \E u \in Users, s \in Strategies : DeleteStrategy(u, s)
  BY <1>1 DEF DeleteStrategy, Own, Exists
<1>2. CASE \E b \in Alerts, s \in Strategies : CreateAlert(b, s)
  BY <1>2 DEF CreateAlert
<1>3. CASE \E u \in Users, b \in Alerts : MarkAlertRead(u, b)
  BY <1>3 DEF MarkAlertRead
<1>4. CASE UNCHANGED alertVars
  BY <1>4
<1> QED
  BY <1>1, <1>2, <1>3, <1>4
     DEF Statement, CreateUser, AddAPIKey, DeleteAPIKey, CreateStrategy, UpdateStrategy, dbVars

THEOREM AlertsAttachedHolds == Spec => AlertsAttached
<1>1. Inv => Attached
  BY DEF Inv
<1>2. Inv /\ [Next]_vars => [\A a \in Alerts : holder[a] # None => Stays(a)]_vars
  BY StepIsStatement, StatementStays DEF Inv
<1> QED
  BY Invariance, <1>1, <1>2, PTL DEF Spec, AlertsAttached

-----------------------------------------------------------------------------
(* The race of registrations: an account, once there, keeps its password.   *)

Won(r) == Asked(r, "register") /\ resp[r] = "201"

\* The winner's password is one, so the account is taken from then on.
Winners == \A r \in Requests : Won(r) => req[r].user \in Users /\ req[r].arg \in Passwords

LEMMA RegisterWins ==
  ASSUME Inv, Winners, OneRegistration, NEW r \in Requests, Register(r)
  PROVE  Winners' /\ OneRegistration'
<1> PICK u \in Users, p \in Passwords :
      /\ Comes(r, "register", u, p)
      /\ \/ CreateUser(u, p) /\ Executed(r, "201")
         \/ Registered(u) /\ NoRow(r, "409")
  BY DEF Register
<1>1. /\ req \in [Requests -> Asks \cup {None}] /\ resp \in [Requests -> Statuses \cup {"none"}]
      /\ account \in [Users -> Passwords \cup {None}] /\ None \notin Passwords
  BY DatabaseAssumption DEF Inv, Book, TablesOK
<1>2. /\ resp[r] = "none"
      /\ req'[r] = [op |-> "register", user |-> u, arg |-> p]
      /\ \A q \in Requests \ {r} : req'[q] = req[q]
  BY <1>1 DEF Comes
<1>3. \A q \in Requests \ {r} : resp'[q] = resp[q]
  BY <1>1 DEF Executed, NoRow, Answer
<1>4. \A q \in Requests \ {r} : Won(q)' <=> Won(q)
  BY <1>2, <1>3 DEF Won, Asked
<1>5. Winners'
  BY <1>2, <1>4 DEF Winners
<1>6. CASE CreateUser(u, p)
  <2>1. account[u] = None /\ account'[u] = p /\ \A v \in Users \ {u} : account'[v] = account[v]
    BY <1>1, <1>6 DEF CreateUser, Registered
  <2>2. \A q \in Requests : Won(q) => req[q].user \in Users \ {u}
    BY <1>1, <2>1 DEF Winners, OneRegistration, Won
  <2>3. \A q \in Requests : Won(q)' => account'[req'[q].user] = req'[q].arg
    BY <1>2, <1>4, <2>1, <2>2 DEF OneRegistration, Won
  <2>4. \A q, t \in Requests :
          Won(q)' /\ Won(t)' /\ req'[t].user = req'[q].user => t = q
    BY <1>2, <1>4, <2>2 DEF OneRegistration, Won
  <2> QED
    BY <1>5, <2>3, <2>4 DEF OneRegistration, Won, Asked
<1>7. CASE Registered(u) /\ NoRow(r, "409")
  <2>1. account' = account /\ resp'[r] = "409"
    BY <1>1, <1>7 DEF NoRow, Answer, dbVars, userVars
  <2>2. ~Won(r)'
    BY <2>1 DEF Won
  <2> QED
    BY <1>2, <1>4, <1>5, <2>1, <2>2 DEF OneRegistration, Won, Asked
<1> QED
  BY <1>6, <1>7

\* No other handler touches a password or answers a registration.
LEMMA OthersLeaveAccounts ==
  ASSUME Inv, NEW r \in Requests, Handle(r), ~Register(r)
  PROVE  /\ account' = account
         /\ ~Won(r)' \/ (req'[r] = req[r] /\ resp'[r] = resp[r])
         /\ \A q \in Requests \ {r} : req'[q] = req[q] /\ resp'[q] = resp[q]
<1>1. /\ req \in [Requests -> Asks \cup {None}] /\ resp \in [Requests -> Statuses \cup {"none"}]
  BY DEF Inv, Book
<1> USE DEF Comes, Authorized, Answer, Executed, NoRow, Found, Won, Asked,
            dbVars, userVars, stratVars, alertVars
<1>2. CASE Refuse(r)
  BY <1>1, <1>2 DEF Refuse
<1>3. CASE Login(r) \/ Me(r)
  BY <1>1, <1>3 DEF Login, Me
<1>4. CASE UpdateKey(r) \/ DeleteKey(r)
  BY <1>1, <1>4 DEF UpdateKey, DeleteKey, AddAPIKey, DeleteAPIKey
<1>5. CASE ListKeys(r) \/ List(r) \/ ListAlerts(r)
  BY <1>1, <1>5 DEF ListKeys, List, ListAlerts
<1>6. CASE Create(r) \/ Delete(r)
  BY <1>1, <1>6 DEF Create, Delete, CreateStrategy, DeleteStrategy
<1>7. CASE ToggleRead(r)
  BY <1>1, <1>7 DEF ToggleRead
<1>8. CASE ToggleUpdate(r)
  BY <1>1, <1>8 DEF ToggleUpdate, UpdateStrategy
<1>9. CASE MarkRead(r)
  BY <1>1, <1>9 DEF MarkRead, MarkAlertRead
<1> QED
  BY <1>2, <1>3, <1>4, <1>5, <1>6, <1>7, <1>8, <1>9 DEF Handle

\* OneRegistration: of the registrations that race for an e-mail one wins, and
\* its password stays.
THEOREM OneRegistrationHolds == Spec => []OneRegistration
<1>1. Init => Winners /\ OneRegistration
  BY DEF Init, Winners, OneRegistration, Won, Asked
<1>2. Inv /\ Winners /\ OneRegistration /\ [Next]_vars => Winners' /\ OneRegistration'
  <2> SUFFICES ASSUME Inv, Winners, OneRegistration, [Next]_vars
               PROVE  Winners' /\ OneRegistration'
    OBVIOUS
  <2>1. ASSUME NEW r \in Requests, Handle(r), ~Register(r)
        PROVE  Winners' /\ OneRegistration'
    <3>1. account' = account /\ \A q \in Requests :
            Won(q)' => Won(q) /\ req'[q] = req[q]
      BY <2>1, OthersLeaveAccounts DEF Won, Asked
    <3> QED
      BY <3>1 DEF Winners, OneRegistration, Won
  <2>2. CASE UNCHANGED <<account, req, resp>>
    BY <2>2 DEF Winners, OneRegistration, Won, Asked
  <2>3. CASE \E a \in Alerts : Raise(a)
    BY <2>2, <2>3 DEF Raise, CreateAlert, userVars
  <2>4. CASE UNCHANGED vars
    BY <2>2, <2>4 DEF vars, dbVars, userVars
  <2> QED
    BY <2>1, <2>3, <2>4, RegisterWins DEF Next
<1> QED
  BY <1>1, <1>2, Invariance, PTL DEF Spec

-----------------------------------------------------------------------------
(* The life cycle of a strategy, refined.  *)

\* A statement creates, turns round or deletes one strategy, or leaves all.
LEMMA StatementLifecycle ==
  ASSUME TablesOK, Statement
  PROVE  Lifecycle!Next \/ strat' = strat
<1> USE DEF Lifecycle!Next, Exists, Own, stratVars, dbVars
<1>1. CASE \E u \in Users, s \in Strategies, v \in {"active", "paused"} : CreateStrategy(u, s, v)
  <2> PICK u \in Users, s \in Strategies, v \in {"active", "paused"} : CreateStrategy(u, s, v)
    BY <1>1
  <2>1. Lifecycle!Create(s)
    BY DEF CreateStrategy, Lifecycle!Create
  <2> QED
    BY <2>1
<1>2. CASE \E u \in Users, s \in Strategies, v \in {"active", "paused"} : UpdateStrategy(u, s, v)
  <2> PICK u \in Users, s \in Strategies, v \in {"active", "paused"} : UpdateStrategy(u, s, v)
    BY <1>2
  <2>1. strat[s] \in {"active", "paused"} /\ strat' = [strat EXCEPT ![s] = v]
    BY DEF UpdateStrategy
  <2>2. CASE v = strat[s]
    BY <2>1, <2>2 DEF TablesOK
  <2>3. CASE v # strat[s]
    <3>1. Lifecycle!Toggle(s)
      BY <2>1, <2>3 DEF Lifecycle!Toggle, Lifecycle!Exists, TablesOK
    <3> QED
      BY <3>1
  <2> QED
    BY <2>2, <2>3
<1>3. CASE \E u \in Users, s \in Strategies : DeleteStrategy(u, s)
  <2> PICK u \in Users, s \in Strategies : DeleteStrategy(u, s)
    BY <1>3
  <2>1. Lifecycle!Delete(s)
    BY DEF DeleteStrategy, Lifecycle!Delete, Lifecycle!Exists
  <2> QED
    BY <2>1
<1>4. CASE strat' = strat
  BY <1>4
<1> QED
  BY <1>1, <1>2, <1>3, <1>4
     DEF Statement, CreateUser, AddAPIKey, DeleteAPIKey, CreateAlert, MarkAlertRead

\* LifecycleSpec: however handlers interleave, a strategy's row takes only the
\* steps the alerter is modelled against.
THEOREM ImplementsLifecycle == Spec => LifecycleSpec
<1>1. Init => Lifecycle!Init
  BY DEF Init, Tables, Lifecycle!Init
<1>2. Inv /\ [Next]_vars => [Lifecycle!Next]_strat
  BY StatementLifecycle, StepIsStatement DEF Inv
<1> QED
  BY <1>1, <1>2, Invariance, PTL DEF Spec, LifecycleSpec, Lifecycle!Spec

-----------------------------------------------------------------------------
(* Whose rows a handler changes and returns.  *)

\* What changed belongs to u.
OnlyOf(u) ==
  /\ \A v \in Users : key'[v] # key[v] => v = u
  /\ \A s \in Strategies : strat'[s] # strat[s] => owner[s] \in {u, None}
  /\ \A a \in Alerts : isRead'[a] # isRead[a] => holder[a] = u

Readable(u) == Own(u) \cup HeldBy(u) \cup GetAPIKeys(u) \cup {strat[s] : s \in Own(u)}

Untouched == UNCHANGED <<key, strat, isRead>>

LEMMA HandlerOfOwner ==
  ASSUME Inv, NEW r \in Requests, Handle(r)
  PROVE  /\ Untouched \/ (OnlyOf(req'[r].user) /\ resp[r] = "none" /\ resp'[r] # "none")
         /\ read'[r] # read[r] => read'[r] \subseteq Readable(req'[r].user)
         /\ \A q \in Requests \ {r} : read'[q] = read[q]
<1>1. /\ req \in [Requests -> Asks \cup {None}] /\ resp \in [Requests -> Statuses \cup {"none"}]
      /\ read \in [Requests -> SUBSET Rows] /\ TablesOK
  BY DEF Inv, Book
<1> USE DEF Comes, Authorized, Answer, Executed, NoRow, Found, Untouched,
            dbVars, userVars, stratVars, alertVars
<1>2. CASE Refuse(r)
  BY <1>1, <1>2 DEF Refuse
<1>3. CASE Register(r) \/ Login(r) \/ Me(r)
  BY <1>1, <1>3 DEF Register, CreateUser, Login, Me
<1>4. CASE UpdateKey(r)
  BY <1>1, <1>4 DEF UpdateKey, AddAPIKey, OnlyOf, TablesOK
<1>5. CASE DeleteKey(r)
  BY <1>1, <1>5 DEF DeleteKey, DeleteAPIKey, OnlyOf, TablesOK
<1>6. CASE ListKeys(r)
  BY <1>1, <1>6 DEF ListKeys, Readable
<1>7. CASE List(r)
  BY <1>1, <1>7 DEF List, GetUserStrategies, Readable
<1>8. CASE ListAlerts(r)
  BY <1>1, <1>8 DEF ListAlerts, GetUserAlerts, Readable
<1>9. CASE Create(r)
  BY <1>1, <1>9 DEF Create, CreateStrategy, OnlyOf, TablesOK
<1>10. CASE Delete(r)
  BY <1>1, <1>10 DEF Delete, DeleteStrategy, Own, OnlyOf, TablesOK
<1>11. CASE ToggleRead(r)
  BY <1>1, <1>11 DEF ToggleRead, GetStrategy, Readable
<1>12. CASE ToggleUpdate(r)
  BY <1>1, <1>12 DEF ToggleUpdate, Toggling, UpdateStrategy, Own, OnlyOf, TablesOK
<1>13. CASE MarkRead(r)
  BY <1>1, <1>13 DEF MarkRead, MarkAlertRead, OnlyOf, TablesOK
<1> QED
  BY <1>2, <1>3, <1>4, <1>5, <1>6, <1>7, <1>8, <1>9, <1>10, <1>11, <1>12, <1>13 DEF Handle

\* OwnerOnly: rows change by their owner's requests only, and requests are
\* answered with their user's rows.
THEOREM OwnerOnlyHolds == Spec => OwnerOnly
<1> DEFINE Step ==
      /\ \A u \in Users :
           \/ key'[u] # key[u]
           \/ \E s \in Strategies : owner[s] = u /\ strat'[s] # strat[s]
           \/ \E a \in Alerts : holder[a] = u /\ isRead'[a] # isRead[a]
           => \E r \in Requests : resp[r] = "none" /\ resp'[r] # "none" /\ req'[r].user = u
      /\ \A r \in Requests :
           read'[r] # read[r] =>
             read'[r] \subseteq LET u == req'[r].user
                                IN Own(u) \cup HeldBy(u) \cup GetAPIKeys(u)
                                   \cup {strat[s] : s \in Own(u)}
<1>1. Inv /\ [Next]_vars => [Step]_vars
  <2> SUFFICES ASSUME Inv, Next PROVE Step
    OBVIOUS
  <2>1. CASE \E r \in Requests : Handle(r)
    <3> PICK r \in Requests : Handle(r)
      BY <2>1
    <3>1. None \notin Users
      BY DatabaseAssumption
    <3>2. /\ Untouched \/ (OnlyOf(req'[r].user) /\ resp[r] = "none" /\ resp'[r] # "none")
          /\ read'[r] # read[r] => read'[r] \subseteq Readable(req'[r].user)
          /\ \A q \in Requests \ {r} : read'[q] = read[q]
      BY HandlerOfOwner
    <3> QED
      BY <3>1, <3>2 DEF Untouched, OnlyOf, Readable
  <2>2. CASE \E a \in Alerts : Raise(a)
    BY <2>2 DEF Raise, CreateAlert, userVars, stratVars
  <2> QED
    BY <2>1, <2>2 DEF Next
<1> QED
  BY <1>1, Invariance, PTL DEF Spec, OwnerOnly

=============================================================================
