--------------------------- MODULE DashboardProofs ---------------------------
(***************************************************************************)
(* What the browser promises its user about sessions and read marks, for   *)
(* any users, requests in flight, page size, logins, alerts and failures.  *)
(***************************************************************************)
EXTENDS Dashboard, TLAPS

LEMMA Constants ==
  /\ MaxSessions \in Nat /\ MaxAlerts \in Nat /\ MaxFailures \in Nat
  /\ None \notin Calls /\ None \notin Messages /\ None \notin Rows /\ None \notin Users
BY DashboardAssumption

-----------------------------------------------------------------------------
(* The inductive invariant.  What a request in flight carries fits the      *)
(* server that answered it, although the server has gone on since.          *)

\* An answer is one the server had a reason to give.
Honest(m) ==
  /\ m.status = "sent" => m.rows = NoRows
  /\ m.status = "401" => IF m.op = "login" THEN m.user = None ELSE m.token <= expired
  /\ m.status = "200" /\ m.op = "login" => m.token \in 1..Len(issued)
  /\ m.status = "500" /\ m.op = "list" => failures > 0
  /\ m.status = "200" /\ m.op = "read" => m.alert \in isRead

Answers == \A c \in Calls : call[c] # None => Honest(call[c])

Inv == TypeOK /\ Answers /\ AckedThenRead

LEMMA NoRowsType == NoRows \in Rows /\ DOMAIN NoRows = {}
<1>1. NoRows \in [{} -> BOOLEAN]
  BY DEF NoRows
<1> QED
  BY <1>1 DEF NoRows, Rows

\* Rows of a user are a list that tells which of them are read.
LEMMA PartType ==
  ASSUME TypeOK, NEW u, NEW part \in SUBSET NewestOf(u)
  PROVE  /\ [a \in part |-> a \in isRead] \in Rows
         /\ \A a \in DOMAIN [b \in part |-> b \in isRead] :
              [b \in part |-> b \in isRead][a] <=> a \in isRead
<1>1. part \subseteq 1..MaxAlerts
  <2>1. NewestOf(u) \subseteq 1..Len(raised)
    BY DEF NewestOf, Held
  <2>2. Len(raised) \in Nat /\ Len(raised) <= MaxAlerts
    BY DEF TypeOK
  <2> QED
    BY <2>1, <2>2, Constants
<1>2. [a \in part |-> a \in isRead] \in [part -> BOOLEAN]
  OBVIOUS
<1> QED
  BY <1>1, <1>2 DEF Rows

\* In particular the newest page.
LEMMA PageType ==
  ASSUME TypeOK, NEW u
  PROVE  /\ Page(u) \in Rows
         /\ \A a \in DOMAIN Page(u) : Page(u)[a] <=> a \in isRead
BY PartType DEF Page

LEMMA InitInv == Init => Inv
<1> SUFFICES ASSUME Init PROVE Inv
  OBVIOUS
<1>1. TypeOK
  BY Constants DEF Init, TypeOK
<1>2. Answers /\ AckedThenRead
  BY DEF Init, Answers, AckedThenRead
<1> QED
  BY <1>1, <1>2 DEF Inv

-----------------------------------------------------------------------------
(* How the requests in flight change *)

\* A request is sent: it has no answer yet.
LEMMA NewMessage ==
  ASSUME TypeOK, NEW op \in {"list", "read"}, NEW a \in 0..MaxAlerts
  PROVE  /\ Message(op, a) \in Messages
         /\ Message(op, a) # None
         /\ Message(op, a).op = op
         /\ Message(op, a).rows = NoRows
         /\ Honest(Message(op, a))
<1>1. Message(op, a) \in Messages
  BY NoRowsType, Constants DEF Message, Messages, TypeOK
<1> QED
  BY <1>1, Constants DEF Message, Honest

\* One call changes at most, and the query awaits what it awaited, or a new
\* request for the list.
Sends(c, op) ==
  \E a \in 0..MaxAlerts : call' = [call EXCEPT ![c] = Message(op, a)]

LEMMA SendInv ==
  ASSUME Inv, NEW c \in Calls, NEW op \in {"list", "read"}, Sends(c, op),
         op = "list" => waits' = c,
         op = "read" => waits # c /\ waits' = waits,
         UNCHANGED <<token, feed, serverVars>>,
         page' = page \/ (page = "other" /\ page' = "alerts" /\ op = "list"),
         acked \subseteq acked', acked' \subseteq isRead,
         acked' = acked \/ op = "list"
  PROVE  Inv'
<1> PICK a \in 0..MaxAlerts : call' = [call EXCEPT ![c] = Message(op, a)]
  BY DEF Sends
<1>1. /\ call' \in [Calls -> Messages \cup {None}]
      /\ call'[c] = Message(op, a) /\ call'[c] # None /\ call'[c].op = op
      /\ call'[c].rows = NoRows /\ Honest(call'[c])
      /\ \A d \in Calls \ {c} : call'[d] = call[d]
  BY NewMessage DEF Inv, TypeOK
<1>2. TypeOK'
  BY <1>1, Constants DEF Inv, TypeOK, serverVars
<1>3. Answers'
  BY <1>1 DEF Inv, Answers, Honest, serverVars
<1>4. AckedThenRead'
  BY <1>1, NoRowsType, Constants DEF Inv, TypeOK, AckedThenRead
<1> QED
  BY <1>2, <1>3, <1>4 DEF Inv

\* A login is sent: of what the session is made of nothing changes.
LEMMA LogInInv ==
  ASSUME Inv, NEW u \in Users \cup {None}, LogIn(u)
  PROVE  Inv'
<1> PICK c \in Free : call' = [call EXCEPT ![c] = Login(u)]
  BY DEF LogIn
<1>1. c \in Calls /\ call[c] = None
  BY DEF Free
<1>2. /\ Login(u) \in Messages
      /\ Login(u) = [op |-> "login", token |-> 0, alert |-> 0, user |-> u,
                     status |-> "sent", rows |-> NoRows]
  <2>1. Login(u) = [op |-> "login", token |-> 0, alert |-> 0, user |-> u,
                    status |-> "sent", rows |-> NoRows]
    <3>1. Message("login", 0) = [op |-> "login", token |-> token, alert |-> 0, user |-> None,
                                 status |-> "sent", rows |-> NoRows]
      BY DEF Message
    <3>2. Login(u) = [[op |-> "login", token |-> token, alert |-> 0, user |-> None,
                       status |-> "sent", rows |-> NoRows] EXCEPT !.user = u, !.token = 0]
      BY <3>1, Zenon DEF Login
    <3> QED
      BY <3>2
  <2> QED
    BY <2>1, NoRowsType, Constants DEF Messages
<1>3. Login(u) # None /\ Honest(Login(u)) /\ Login(u).rows = NoRows
  BY <1>2, Constants DEF Honest
<1>4. /\ call' \in [Calls -> Messages \cup {None}]
      /\ call'[c] = Login(u)
      /\ \A d \in Calls \ {c} : call'[d] = call[d]
  BY <1>1, <1>2 DEF Inv, TypeOK
<1>5. /\ UNCHANGED <<page, token, feed, waits, acked, issued, expired, raised, isRead>>
      /\ waits # c
      /\ failures' \in 0..MaxFailures /\ (failures > 0 => failures' > 0)
  <2>1. UNCHANGED <<page, token, feed, waits, acked, issued, expired, raised, isRead>>
    BY DEF LogIn
  <2>2. failures \in 0..MaxFailures /\ MaxFailures \in Nat
    BY Constants DEF Inv, TypeOK
  <2>3. failures' = failures \/ (failures < MaxFailures /\ failures' = failures + 1)
    BY DEF LogIn
  <2>4. failures' \in 0..MaxFailures /\ (failures > 0 => failures' > 0)
    BY <2>2, <2>3
  <2> QED
    BY <1>1, <2>1, <2>4, Constants DEF Inv, TypeOK
<1>6. TypeOK'
  BY <1>4, <1>5, Constants DEF Inv, TypeOK
<1>7. Answers'
  BY <1>3, <1>4, <1>5 DEF Inv, Answers, Honest
<1>8. AckedThenRead'
  BY <1>4, <1>5 DEF Inv, TypeOK, AckedThenRead
<1> QED
  BY <1>6, <1>7, <1>8 DEF Inv

\* A call that has come back is dropped.  The session may end or another begin,
\* and the list that was awaited leaves rows behind, unless it failed.
LEMMA DropInv ==
  ASSUME Inv, NEW c \in Calls, Drop(c), UNCHANGED <<acked, serverVars>>,
         \/ UNCHANGED <<page, token>>
         \/ EndSession
         \/ page' = "other" /\ token' \in 1..Len(issued),
         feed' \in Rows \cup {None}, feed # None => feed' # None,
         waits = c => feed' # None \/ failures > 0 \/ page' # "alerts"
  PROVE  Inv'
<1>1. /\ call' \in [Calls -> Messages \cup {None}]
      /\ \A d \in Calls \ {c} : call'[d] = call[d]
      /\ call'[c] = None
  BY DEF Drop, Inv, TypeOK
<1>2. waits' = IF waits = c THEN None ELSE waits
  BY DEF Drop
<1>3. TypeOK'
  BY <1>1, <1>2, Constants DEF Inv, TypeOK, EndSession, serverVars
<1>4. Answers'
  BY <1>1 DEF Inv, Answers, Honest, serverVars
<1>5. AckedThenRead'
  BY <1>1, <1>2 DEF Inv, TypeOK, AckedThenRead
<1> QED
  BY <1>3, <1>4, <1>5 DEF Inv

\* The server answers a call.
LEMMA AnswerInv ==
  ASSUME Inv, NEW c \in Calls, Arrived(c),
         NEW status \in {"200", "401", "500"}, NEW rows \in Rows, Answer(c, status, rows),
         UNCHANGED <<page, token, feed, waits, acked, issued, expired, raised>>,
         isRead \subseteq isRead', isRead' \subseteq 1..Len(raised),
         failures' \in failures..MaxFailures,
         status # "200" \/ call[c].op # "login",
         status = "401" => IF call[c].op = "login" THEN call[c].user = None
                                                   ELSE call[c].token <= expired,
         status = "500" /\ call[c].op = "list" => failures' > 0,
         status = "200" /\ call[c].op = "read" => call[c].alert \in isRead',
         \A a \in acked \cap DOMAIN rows : rows[a]
  PROVE  Inv'
<1>1. call[c] \in Messages
  BY DEF Arrived, Inv, TypeOK
<1> PICK m \in Messages : m = [call[c] EXCEPT !.status = status, !.rows = rows]
  BY <1>1 DEF Messages
<1>2. /\ m.op = call[c].op /\ m.token = call[c].token /\ m.alert = call[c].alert
      /\ m.user = call[c].user
      /\ m.status = status /\ m.rows = rows
  BY <1>1 DEF Messages
<1>3. call' = [call EXCEPT ![c] = m]
  BY <1>1 DEF Answer, Inv, TypeOK, Messages
<1>4. /\ call' \in [Calls -> Messages \cup {None}]
      /\ \A d \in Calls \ {c} : call'[d] = call[d]
      /\ call'[c] = m /\ m # None
  BY <1>2, <1>3, Constants DEF Inv, TypeOK
<1>5. TypeOK'
  <2>1. waits' # None => call'[waits'] # None /\ call'[waits'].op = "list"
    BY <1>2, <1>4 DEF Inv, TypeOK
  <2>2. /\ page' = "alerts" => feed' # None \/ waits' # None \/ failures' > 0
        /\ failures' \in 0..MaxFailures
    BY Constants DEF Inv, TypeOK
  <2> QED
    BY <1>4, <2>1, <2>2 DEF Inv, TypeOK
<1>6. Answers'
  <2> SUFFICES ASSUME NEW d \in Calls, call'[d] # None PROVE Honest(call[d])'
    BY DEF Answers, Honest
  <2>1. CASE d = c
    BY <1>2, <1>4, <2>1 DEF Honest
  <2>2. CASE d # c
    <3>1. call'[d] \in Messages /\ Honest(call[d]) /\ call'[d] = call[d]
      BY <1>4, <2>2 DEF Inv, TypeOK, Answers
    <3>2. UNCHANGED <<expired, issued>> /\ failures <= failures' /\ failures \in Nat /\ failures' \in Nat
      BY Constants DEF Inv, TypeOK
    <3> QED
      BY <3>1, <3>2 DEF Honest
  <2> QED
    BY <2>1, <2>2
<1>7. AckedThenRead'
  BY <1>2, <1>4 DEF Inv, TypeOK, AckedThenRead
<1> QED
  BY <1>5, <1>6, <1>7 DEF Inv

-----------------------------------------------------------------------------
(* The steps *)

\* The user, but for what starts a request.
LEMMA UserInv ==
  Inv /\ (LogOut \/ Leave \/ Reload) => Inv'
<1> SUFFICES ASSUME Inv, LogOut \/ Leave \/ Reload PROVE Inv'
  OBVIOUS
<1> USE Constants DEF Inv, TypeOK, Answers, Honest, AckedThenRead, serverVars
<1>1. CASE LogOut
  BY <1>1 DEF LogOut, EndSession
<1>2. CASE Leave
  BY <1>2 DEF Leave
<1>3. CASE Reload
  BY <1>3 DEF Reload
<1> QED
  BY <1>1, <1>2, <1>3

\* The server on its own, and the cache.
LEMMA ServerInv ==
  Inv /\ ((\E u \in Users : Raise(u)) \/ Expire \/ Collect \/ UNCHANGED vars) => Inv'
<1> SUFFICES ASSUME Inv, (\E u \in Users : Raise(u)) \/ Expire \/ Collect \/ UNCHANGED vars
             PROVE  Inv'
  OBVIOUS
<1> USE Constants DEF Inv, TypeOK, Answers, Honest, AckedThenRead, browserVars, serverVars
<1>1. ASSUME NEW u \in Users, Raise(u) PROVE Inv'
  BY <1>1 DEF Raise
<1>2. CASE Expire
  BY <1>2 DEF Expire, Messages
<1>3. CASE Collect
  BY <1>3 DEF Collect
<1>4. CASE UNCHANGED vars
  BY <1>4 DEF vars
<1> QED
  BY <1>1, <1>2, <1>3, <1>4

\* A request starts: the feed is shown, polled, or a row is marked.
LEMMA RequestInv ==
  Inv /\ (Show \/ Poll \/ \E a \in 1..MaxAlerts : MarkRead(a)) => Inv'
<1> SUFFICES ASSUME Inv, Show \/ Poll \/ \E a \in 1..MaxAlerts : MarkRead(a) PROVE Inv'
  OBVIOUS
<1>1. ASSUME Fetch PROVE \E c \in Calls : Sends(c, "list") /\ waits' = c
  <2>1. 0 \in 0..MaxAlerts
    BY Constants
  <2> QED
    BY <1>1, <2>1 DEF Fetch, Free, Sends
<1>2. CASE Show
  <2>1. CASE waits = None
    <3> PICK c \in Calls : Sends(c, "list") /\ waits' = c
      BY <1>1, <1>2, <2>1 DEF Show
    <3> QED
      BY <1>2, SendInv DEF Show, Inv, TypeOK
  <2>2. CASE waits # None
    BY <1>2, <2>2 DEF Show, Inv, TypeOK, Answers, Honest, AckedThenRead, serverVars
  <2> QED
    BY <2>1, <2>2
<1>3. CASE Poll
  <2> PICK c \in Calls : Sends(c, "list") /\ waits' = c
    BY <1>1, <1>3 DEF Poll
  <2> QED
    BY <1>3, SendInv DEF Poll, Inv, TypeOK
<1>4. ASSUME NEW a \in 1..MaxAlerts, MarkRead(a) PROVE Inv'
  <2> PICK c \in Free : call' = [call EXCEPT ![c] = Message("read", a)]
    BY <1>4 DEF MarkRead
  <2>1. c \in Calls /\ waits # c /\ Sends(c, "read")
    <3>1. c \in Calls /\ waits # c
      BY Constants DEF Free, Inv, TypeOK
    <3>2. a \in 0..MaxAlerts
      BY Constants
    <3> QED
      BY <3>1, <3>2 DEF Sends
  <2> QED
    <3>1. /\ page' = page /\ waits' = waits /\ acked' = acked
          /\ UNCHANGED <<token, feed, serverVars>>
          /\ acked \subseteq acked' /\ acked' \subseteq isRead
      BY <1>4 DEF MarkRead, Inv, TypeOK
    <3> QED
      BY <2>1, <3>1, SendInv
<1> QED
  BY <1>2, <1>3, <1>4

\* A login is answered with the token that is issued.
LEMMA ServeLoginInv ==
  ASSUME Inv, NEW c \in Calls, ServeLogin(c)
  PROVE  Inv'
<1>1. /\ call[c] \in Messages /\ call[c].op = "login" /\ call[c].user \in Users
      /\ call[c].rows = NoRows
  <2>1. call[c] \in Messages /\ Honest(call[c]) /\ call[c].status = "sent"
    BY DEF ServeLogin, Arrived, Inv, TypeOK, Answers
  <2> QED
    BY <2>1 DEF ServeLogin, Messages, Honest
<1>2. /\ issued' \in Seq(Users) /\ Len(issued') = Len(issued) + 1
      /\ Len(issued') \in 1..MaxSessions
  <2>1. issued \in Seq(Users) /\ issued' = Append(issued, call[c].user) /\ Len(issued) < MaxSessions
    BY DEF ServeLogin, Inv, TypeOK
  <2> QED
    BY <1>1, <2>1, Constants
<1>3. UNCHANGED <<page, token, feed, waits, acked, expired, raised, isRead, failures>>
  BY DEF ServeLogin
<1> DEFINE m == [call[c] EXCEPT !.status = "200", !.token = Len(issued')]
<1>0. m \in Messages
  <2> DEFINE n == Len(issued')
  <2>1. n \in 0..MaxSessions
    BY <1>2, Constants
  <2> HIDE DEF n
  <2>2. [call[c] EXCEPT !.status = "200", !.token = n] \in Messages
    BY <1>1, <2>1 DEF Messages
  <2> QED
    BY <2>2 DEF n
<1>4. /\ m.op = "login" /\ m.status = "200" /\ m.token = Len(issued')
      /\ m.rows = NoRows /\ m # None
  BY <1>0, <1>1, Constants DEF Messages
<1>5. call' = [call EXCEPT ![c] = m]
  BY DEF ServeLogin, Inv, TypeOK
<1> HIDE DEF m
<1>6. /\ call' \in [Calls -> Messages \cup {None}]
      /\ \A d \in Calls \ {c} : call'[d] = call[d]
      /\ call'[c] = m
  BY <1>0, <1>5 DEF Inv, TypeOK
<1>7. waits # c
  BY <1>1, Constants DEF Inv, TypeOK
<1>8. TypeOK'
  BY <1>2, <1>3, <1>6, <1>7, Constants DEF Inv, TypeOK
<1>9. Answers'
  BY <1>2, <1>3, <1>4, <1>6 DEF Inv, TypeOK, Answers, Honest
<1>10. AckedThenRead'
  BY <1>3, <1>6, <1>7 DEF Inv, TypeOK, AckedThenRead
<1> QED
  BY <1>8, <1>9, <1>10 DEF Inv

LEMMA ServeInv ==
  ASSUME NEW c \in Calls
  PROVE  Inv /\ (Serve(c) \/ Fail(c) \/ ServePart(c)) => Inv'
<1> SUFFICES ASSUME Inv, Serve(c) \/ Fail(c) \/ ServePart(c) PROVE Inv'
  OBVIOUS
<1> USE DEF serverVars
<1>1. failures \in Nat /\ failures \in failures..MaxFailures /\ isRead \subseteq 1..Len(raised)
  BY Constants DEF Inv, TypeOK
<1>2. CASE Refuse(c)
  BY <1>1, <1>2, AnswerInv, NoRowsType DEF Refuse
<1>3. CASE ServeList(c)
  <2> DEFINE rows == Page(issued[call[c].token])
  <2>1. rows \in Rows /\ \A a \in DOMAIN rows : rows[a] <=> a \in isRead
    BY PageType DEF Inv
  <2>2. acked \subseteq isRead
    BY DEF Inv, TypeOK
  <2>3. Answer(c, "200", rows)
    BY <1>3 DEF ServeList
  <2> HIDE DEF rows
  <2> QED
    BY <1>1, <1>3, <2>1, <2>2, <2>3, AnswerInv DEF ServeList
<1>4. CASE ServeRead(c)
  <2>1. isRead' \subseteq 1..Len(raised) /\ isRead \subseteq isRead'
    BY <1>1, <1>4 DEF ServeRead, Held
  <2>2. CASE call[c].alert \in Held(issued[call[c].token])
    BY <1>1, <1>4, <2>1, <2>2, AnswerInv, NoRowsType DEF ServeRead
  <2>3. CASE call[c].alert \notin Held(issued[call[c].token])
    BY <1>1, <1>4, <2>1, <2>3, AnswerInv, NoRowsType DEF ServeRead
  <2> QED
    BY <2>2, <2>3
<1>5. CASE Fail(c)
  <2>1. isRead' \subseteq 1..Len(raised) /\ isRead \subseteq isRead'
    BY <1>1, <1>5 DEF Fail, Held
  <2>2. failures' \in failures..MaxFailures /\ failures' > 0
    BY <1>1, <1>5, Constants DEF Fail
  <2> QED
    BY <1>1, <1>5, <2>1, <2>2, AnswerInv, NoRowsType DEF Fail
<1>6. CASE ServePart(c)
  <2>1. PICK part \in SUBSET NewestOf(issued[call[c].token]) :
          Answer(c, "200", [a \in part |-> a \in isRead])
    BY <1>6 DEF ServePart
  <2> DEFINE rows == [a \in part |-> a \in isRead]
  <2>2. rows \in Rows /\ \A a \in DOMAIN rows : rows[a] <=> a \in isRead
    BY PartType DEF Inv
  <2>3. acked \subseteq isRead /\ failures' \in failures..MaxFailures
    BY <1>1, <1>6, Constants DEF ServePart, Inv, TypeOK
  <2>4. Answer(c, "200", rows)
    BY <2>1
  <2> HIDE DEF rows
  <2> QED
    BY <1>1, <1>6, <2>2, <2>3, <2>4, AnswerInv DEF ServePart
<1>7. CASE ServeLogin(c)
  BY <1>7, ServeLoginInv
<1> QED
  BY <1>2, <1>3, <1>4, <1>5, <1>6, <1>7 DEF Serve

LEMMA DeliverInv ==
  ASSUME NEW c \in Calls
  PROVE  Inv /\ Deliver(c) => Inv'
<1> SUFFICES ASSUME Inv, Deliver(c) PROVE Inv'
  OBVIOUS
<1>1. /\ feed \in Rows \cup {None}
      /\ waits = c => call[c] # None /\ call[c].op = "list"
      /\ call[c] # None => call[c] \in Messages /\ Honest(call[c])
  BY Constants DEF Inv, TypeOK, Answers
<1>2. CASE Unauthorized(c)
  BY <1>1, <1>2, DropInv DEF Unauthorized, EndSession
<1>3. CASE Failed(c)
  BY <1>1, <1>3, DropInv DEF Failed, Back, Honest
<1>4. CASE Listed(c)
  <2>1. call[c].rows \in Rows
    BY <1>1, <1>4 DEF Listed, Back, Messages
  <2> QED
    BY <1>1, <1>4, <2>1, DropInv, Constants DEF Listed
<1>5. CASE Marked(c)
  <2>1. CASE page = "alerts"
    <3>1. call[c].alert \in isRead
      BY <1>1, <1>5 DEF Marked, Back, Honest
    <3>2. Sends(c, "list")
      BY <1>5, <2>1, Constants DEF Marked, Sends
    <3>3. acked \subseteq acked' /\ acked' \subseteq isRead
      BY <1>5, <2>1, <3>1 DEF Marked, Inv, TypeOK
    <3> QED
      BY <1>5, <2>1, <3>2, <3>3, SendInv DEF Marked
  <2>2. CASE page # "alerts"
    BY <1>1, <1>5, <2>2, DropInv DEF Marked, Back
  <2> QED
    BY <2>1, <2>2
<1>6. CASE LoggedIn(c)
  <2>1. token' \in 1..Len(issued) /\ page' = "other"
    BY <1>1, <1>6 DEF LoggedIn, Back, Honest
  <2> QED
    BY <1>1, <1>6, <2>1, DropInv DEF LoggedIn
<1> QED
  BY <1>2, <1>3, <1>4, <1>5, <1>6 DEF Deliver

-----------------------------------------------------------------------------
\* The inductive invariant: what is in flight agrees with the server that
\* answered, and so does what the page awaits.
THEOREM Invariance == Spec => []Inv
<1>1. Inv /\ [Next]_vars => Inv'
  BY LogInInv, UserInv, ServerInv, RequestInv, ServeInv, DeliverInv DEF Next
<1> QED
  BY InitInv, <1>1, PTL DEF Spec

\* TypeOK: no protected page without a session; the feed is never mounted with
\* neither data nor a fetch under way, unless a fetch failed; what the page
\* knows to be read is read.
THEOREM TypeCorrect == Spec => []TypeOK
<1>1. Inv => TypeOK
  BY DEF Inv
<1> QED
  BY Invariance, <1>1, PTL

\* AckedThenRead: the list awaited after an acknowledgement shows the mark.
THEOREM AckedThenReadHolds == Spec => []AckedThenRead
<1>1. Inv => AckedThenRead
  BY DEF Inv
<1> QED
  BY Invariance, <1>1, PTL

\* EndsForCause: only a 401 ends a session the user did not end; one that answers
\* a request of this very session says that its token has expired, and one that
\* answers a login that its password was wrong.
THEOREM EndsForCauseHolds == Spec => EndsForCause
<1> DEFINE Cause == token # 0 /\ token' = 0 =>
                      \/ token <= expired
                      \/ LogOut
                      \/ \E c \in Calls :
                           /\ Back(c, "401") /\ call'[c] = None
                           /\ IF call[c].op = "login" THEN call[c].user = None
                                                      ELSE call[c].token # token
<1>1. Inv /\ [Next]_vars => Cause
  <2> SUFFICES ASSUME Inv, [Next]_vars, token # 0, token' = 0 PROVE Cause
    OBVIOUS
  <2>1. LogOut \/ \E c \in Calls : Unauthorized(c)
    <3>1. ~(\E u \in Users \cup {None} : LogIn(u))
      BY DEF LogIn
    <3>2. ~(Show \/ Leave \/ Reload \/ Poll \/ Collect \/ Expire)
      BY DEF Show, Leave, Reload, Poll, Collect, Expire, browserVars
    <3>3. ~(\E u \in Users : Raise(u)) /\ ~(\E a \in 1..MaxAlerts : MarkRead(a)) /\ ~UNCHANGED vars
      BY DEF Raise, MarkRead, vars, browserVars
    <3>4. \A c \in Calls : ~(Serve(c) \/ Fail(c) \/ ServePart(c) \/ Failed(c) \/ Listed(c) \/ Marked(c))
      BY DEF Serve, Refuse, ServeLogin, ServeList, ServeRead, Fail, ServePart, Failed, Listed, Marked
    <3>5. \A c \in Calls : ~LoggedIn(c)
      BY Constants DEF LoggedIn, Back, Inv, TypeOK, Answers, Honest
    <3> QED
      BY <3>1, <3>2, <3>3, <3>4, <3>5 DEF Next, Deliver
  <2>2. ASSUME NEW c \in Calls, Unauthorized(c) PROVE Cause
    <3>1. call[c] # None /\ call[c].status = "401" /\ call'[c] = None
      BY <2>2 DEF Unauthorized, Back, Drop, Inv, TypeOK
    <3>2. IF call[c].op = "login" THEN call[c].user = None ELSE call[c].token <= expired
      BY <3>1 DEF Inv, Answers, Honest
    <3> QED
      BY <3>1, <3>2 DEF Back
  <2> QED
    BY <2>1, <2>2
<1> QED
  BY <1>1, Invariance, PTL DEF Spec, EndsForCause

=============================================================================
