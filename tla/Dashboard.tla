------------------------------ MODULE Dashboard ------------------------------
(***************************************************************************)
(* The browser's side: the session in authStore.ts, the interceptors of    *)
(* client.ts, the protected routes of App.tsx and the alert feed.  The     *)
(* query cache of @tanstack/react-query is external, modelled from the     *)
(* options the feed passes it: one fetch at a time is awaited; mounting    *)
(* the feed, the interval and a successful mutation start one; data stays  *)
(* in the cache, under a key that names no user, when the feed unmounts.   *)
(*                                                                         *)
(* Requests and answers travel independently.  A fetch that is no longer   *)
(* awaited still comes back, and the interceptor sees its status.  So does *)
(* the answer to a login: the form can be sent again meanwhile, and left.  *)
(***************************************************************************)
EXTENDS FiniteSets, Naturals, Sequences

CONSTANTS
  Users,
  Calls,        \* bound: requests in flight
  Limit,        \* rows of a page
  MaxSessions,  \* bound: logins that succeed
  MaxAlerts,    \* bound: alerts raised
  MaxFailures,  \* bound: answers 500, lists cut short, mistyped passwords
  None

Rows == UNION {[part -> BOOLEAN] : part \in SUBSET (1..MaxAlerts)}

\* A login names the user whose password it has, or None if it has nobody's; the
\* token of a request is the session's, that of the answer to a login the new one.
Messages == [op : {"list", "read", "login"}, token : 0..MaxSessions,
             alert : 0..MaxAlerts, user : Users \cup {None},
             status : {"sent", "200", "401", "500"}, rows : Rows]

NoRows == [a \in {} |-> TRUE]

ASSUME DashboardAssumption ==
  /\ Limit \in Nat \ {0}
  /\ MaxSessions \in Nat /\ MaxAlerts \in Nat /\ MaxFailures \in Nat
  /\ None \notin Calls /\ None \notin Messages /\ None \notin Rows /\ None \notin Users

VARIABLES
  page,         \* the route: "login", "alerts" or "other"
  token,        \* authStore, in localStorage: the number of a login, or 0
  feed,         \* cached data: whether each row is read; or None
  waits,        \* the call whose answer the query awaits, or None
  call,         \* requests in flight and their answers
  acked,        \* history: alerts acknowledged as read while the feed was shown
  issued,       \* server: the user of each token
  expired,      \* server: tokens up to this one have expired
  raised,       \* server: the user of each alert, oldest first
  isRead,       \* server: alerts marked read
  failures

browserVars == <<page, token, feed, waits, call, acked>>
serverVars == <<issued, expired, raised, isRead, failures>>
vars == <<browserVars, serverVars>>

\* ProtectedRoute: without a session only the login page is shown.
TypeOK ==
  /\ page \in {"login", "alerts", "other"}
  /\ token \in 0..Len(issued)
  /\ page # "login" => token # 0
  /\ feed \in Rows \cup {None}
  /\ call \in [Calls -> Messages \cup {None}]
  /\ waits \in Calls \cup {None}
  /\ waits # None => call[waits] # None /\ call[waits].op = "list"
  /\ page = "alerts" => feed # None \/ waits # None \/ failures > 0
  /\ acked \subseteq isRead
  /\ issued \in Seq(Users) /\ Len(issued) <= MaxSessions
  /\ expired \in 0..Len(issued)
  /\ raised \in Seq(Users) /\ Len(raised) <= MaxAlerts
  /\ isRead \subseteq 1..Len(raised)
  /\ failures \in 0..MaxFailures

Init ==
  /\ page = "login"
  /\ token = 0
  /\ feed = None
  /\ waits = None
  /\ call = [c \in Calls |-> None]
  /\ acked = {}
  /\ issued = <<>>
  /\ expired = 0
  /\ raised = <<>>
  /\ isRead = {}
  /\ failures = 0

-----------------------------------------------------------------------------
(* Requests *)

Free == {c \in Calls : call[c] = None}

\* The request interceptor adds the token the store has now.
Message(op, a) ==
  [op |-> op, token |-> token, alert |-> a, user |-> None,
   status |-> "sent", rows |-> NoRows]

\* The server does not look at the token of a login.
Login(u) == [Message("login", 0) EXCEPT !.user = u, !.token = 0]

\* A fetch of the first page, awaited by the query.
Fetch ==
  \E c \in Free :
    /\ call' = [call EXCEPT ![c] = Message("list", 0)]
    /\ waits' = c

Drop(c) ==
  /\ call' = [call EXCEPT ![c] = None]
  /\ waits' = IF waits = c THEN None ELSE waits

-----------------------------------------------------------------------------
(* The user *)

\* Logins that will succeed.
Granted == {c \in Calls : /\ call[c] # None /\ call[c].op = "login"
                          /\ call[c].status = "sent" /\ call[c].user # None}

\* The form is sent, also by a user who has a session, and again before the first
\* answer is there.  u is None when the password is wrong.
LogIn(u) ==
  /\ page = "login"
  /\ IF u = None THEN failures < MaxFailures /\ failures' = failures + 1
                 ELSE Len(issued) + Cardinality(Granted) < MaxSessions /\ UNCHANGED failures
  /\ \E c \in Free : call' = [call EXCEPT ![c] = Login(u)]
  /\ UNCHANGED <<page, token, feed, waits, acked, issued, expired, raised, isRead>>

\* logout() clears the session, not the cache, and the protected page unmounts.
EndSession == token' = 0 /\ page' = "login"

LogOut ==
  /\ page # "login"
  /\ EndSession
  /\ UNCHANGED <<feed, waits, call, acked, serverVars>>

\* Mounting the feed starts a fetch, or joins the one under way.
Show ==
  /\ page = "other"
  /\ page' = "alerts"
  /\ IF waits = None THEN Fetch ELSE UNCHANGED <<waits, call>>
  /\ UNCHANGED <<token, feed, acked, serverVars>>

\* By a link or the history; the login page can be seen with a session, the others
\* not without.
Leave ==
  /\ page' \in {"login", "other"} \ {page}
  /\ page' = "other" => token # 0
  /\ UNCHANGED <<token, feed, waits, call, acked, serverVars>>

\* Loading the page at some URL leaves nothing but localStorage.
Reload ==
  /\ page' \in IF token = 0 THEN {"login"} ELSE {"login", "other"}
  /\ page' # page \/ page = "login"
  /\ feed' = None
  /\ waits' = None
  /\ call' = [c \in Calls |-> None]
  /\ UNCHANGED <<token, acked, serverVars>>

\* The Read button of a row that is shown unread.  The bound leaves a call for
\* the query.
MarkRead(a) ==
  /\ page = "alerts"
  /\ feed # None /\ a \in DOMAIN feed /\ ~feed[a]
  /\ waits # None \/ Cardinality(Free) > 1
  /\ \E c \in Free : call' = [call EXCEPT ![c] = Message("read", a)]
  /\ UNCHANGED <<page, token, feed, waits, acked, serverVars>>

-----------------------------------------------------------------------------
(* The query cache *)

\* Variant: no refetchInterval; only a feed without data is fetched.
PollOnce ==
  /\ page = "alerts"
  /\ waits = None
  /\ feed = None
  /\ Fetch
  /\ UNCHANGED <<page, token, feed, acked, serverVars>>

\* The interval, or the retry of a fetch that failed, while the feed is mounted.
Poll ==
  /\ page = "alerts"
  /\ waits = None
  /\ Fetch
  /\ UNCHANGED <<page, token, feed, acked, serverVars>>

\* Data not shown for gcTime are dropped.  Assumed: no mutation takes that long.
Collect ==
  /\ page # "alerts"
  /\ feed # None /\ waits = None
  /\ \A c \in Calls : call[c] # None => call[c].op # "read"
  /\ feed' = None
  /\ UNCHANGED <<page, token, waits, call, acked, serverVars>>

-----------------------------------------------------------------------------
(* The server *)

Held(u) == {a \in 1..Len(raised) : raised[a] = u}

NewestOf(u) == {a \in Held(u) : Cardinality({b \in Held(u) : b > a}) < Limit}

Page(u) == [a \in NewestOf(u) |-> a \in isRead]

Raise(u) ==
  /\ Len(raised) < MaxAlerts
  /\ raised' = Append(raised, u)
  /\ UNCHANGED <<browserVars, issued, expired, isRead, failures>>

\* Tokens expire in the order they were issued.
Expire ==
  /\ expired < Len(issued)
  /\ expired' = expired + 1
  /\ UNCHANGED <<browserVars, issued, raised, isRead, failures>>

Arrived(c) == call[c] # None /\ call[c].status = "sent"

Answer(c, status, rows) ==
  call' = [call EXCEPT ![c].status = status, ![c].rows = rows]

\* The middleware: requests but logins need a token that is valid.
Admitted(c) == call[c].op # "login" /\ call[c].token > expired

Refuse(c) ==
  /\ Arrived(c)
  /\ IF call[c].op = "login" THEN call[c].user = None ELSE call[c].token <= expired
  /\ Answer(c, "401", NoRows)
  /\ UNCHANGED <<page, token, feed, waits, acked, serverVars>>

\* A statement fails, or is committed and the answer says otherwise.  (A login that
\* fails, or whose address is taken, leaves the tab as if it had not been sent.)
Fail(c) ==
  /\ Arrived(c)
  /\ Admitted(c)
  /\ failures < MaxFailures
  /\ failures' = failures + 1
  /\ isRead' \in {isRead, isRead \cup ({call[c].alert} \cap Held(issued[call[c].token]))}
  /\ Answer(c, "500", NoRows)
  /\ UNCHANGED <<page, token, feed, waits, acked, issued, expired, raised>>

\* A new token, or that of a new account.
ServeLogin(c) ==
  /\ Arrived(c)
  /\ call[c].op = "login" /\ call[c].user # None
  /\ Len(issued) < MaxSessions
  /\ issued' = Append(issued, call[c].user)
  /\ call' = [call EXCEPT ![c] = [@ EXCEPT !.status = "200", !.token = Len(issued')]]
  /\ UNCHANGED <<page, token, feed, waits, acked, expired, raised, isRead, failures>>

ServeList(c) ==
  /\ Arrived(c)
  /\ call[c].op = "list" /\ Admitted(c)
  /\ Answer(c, "200", Page(issued[call[c].token]))
  /\ UNCHANGED <<page, token, feed, waits, acked, serverVars>>

\* The connection to the database breaks while rows are read: rows.Err is not
\* looked at, and those that were read are the list.
ServePart(c) ==
  /\ Arrived(c)
  /\ call[c].op = "list" /\ Admitted(c)
  /\ failures < MaxFailures
  /\ failures' = failures + 1
  /\ \E part \in SUBSET NewestOf(issued[call[c].token]) :
       /\ part # NewestOf(issued[call[c].token])
       /\ Answer(c, "200", [a \in part |-> a \in isRead])
  /\ UNCHANGED <<page, token, feed, waits, acked, issued, expired, raised, isRead>>

\* The row is found by id and user.
ServeRead(c) ==
  /\ Arrived(c)
  /\ call[c].op = "read" /\ Admitted(c)
  /\ IF call[c].alert \in Held(issued[call[c].token])
     THEN isRead' = isRead \cup {call[c].alert} /\ Answer(c, "200", NoRows)
     ELSE isRead' = isRead /\ Answer(c, "500", NoRows)
  /\ UNCHANGED <<page, token, feed, waits, acked, issued, expired, raised, failures>>

-----------------------------------------------------------------------------
(* Answers *)

Back(c, status) == call[c] # None /\ call[c].status = status

\* Variant: the session is cleared, and the page stays.
UnauthorizedStays(c) ==
  /\ Back(c, "401")
  /\ token' = 0
  /\ Drop(c)
  /\ UNCHANGED <<page, feed, acked, serverVars>>

\* The response interceptor, whoever sent the request.
Unauthorized(c) ==
  /\ Back(c, "401")
  /\ EndSession
  /\ Drop(c)
  /\ UNCHANGED <<feed, acked, serverVars>>

\* Variant: every error ends the session.
FailedEnds(c) ==
  /\ Back(c, "500")
  /\ EndSession
  /\ Drop(c)
  /\ UNCHANGED <<feed, acked, serverVars>>

Failed(c) ==
  /\ Back(c, "500")
  /\ Drop(c)
  /\ UNCHANGED <<page, token, feed, acked, serverVars>>

\* login() and navigate('/'), wherever the user is by now.
LoggedIn(c) ==
  /\ Back(c, "200")
  /\ call[c].op = "login"
  /\ token' = call[c].token
  /\ page' = "other"
  /\ Drop(c)
  /\ UNCHANGED <<feed, acked, serverVars>>

\* Rows reach the cache when the query still awaits them, mounted or not.
Listed(c) ==
  /\ Back(c, "200")
  /\ call[c].op = "list"
  /\ feed' = IF waits = c THEN call[c].rows ELSE feed
  /\ Drop(c)
  /\ UNCHANGED <<page, token, acked, serverVars>>

\* Variant: the fetch under way is good enough.
MarkedJoins(c) ==
  /\ Back(c, "200")
  /\ call[c].op = "read"
  /\ IF page = "alerts"
     THEN /\ acked' = acked \cup {call[c].alert}
          /\ IF waits = None
             THEN /\ call' = [call EXCEPT ![c] = Message("list", 0)]
                  /\ waits' = c
             ELSE Drop(c)
     ELSE Drop(c) /\ UNCHANGED acked
  /\ UNCHANGED <<page, token, feed, serverVars>>

\* onSuccess invalidates the query: a mounted feed is fetched anew, and the
\* fetch under way is no longer awaited; an unmounted one is left alone.
Marked(c) ==
  /\ Back(c, "200")
  /\ call[c].op = "read"
  /\ IF page = "alerts"
     THEN /\ acked' = acked \cup {call[c].alert}
          /\ call' = [call EXCEPT ![c] = Message("list", 0)]
          /\ waits' = c
     ELSE Drop(c) /\ UNCHANGED acked
  /\ UNCHANGED <<page, token, feed, serverVars>>

-----------------------------------------------------------------------------
Serve(c) == Refuse(c) \/ ServeLogin(c) \/ ServeList(c) \/ ServeRead(c)
Deliver(c) == Unauthorized(c) \/ Failed(c) \/ LoggedIn(c) \/ Listed(c) \/ Marked(c)

Next ==
  \/ \E u \in Users \cup {None} : LogIn(u)
  \/ \E u \in Users : Raise(u)
  \/ LogOut \/ Show \/ Leave \/ Reload
  \/ \E a \in 1..MaxAlerts : MarkRead(a)
  \/ Poll \/ Collect \/ Expire
  \/ \E c \in Calls : Serve(c) \/ Fail(c) \/ ServePart(c) \/ Deliver(c)

Spec == Init /\ [][Next]_vars

(***************************************************************************)
(* Fairness: the interval fires while the tab has the focus, the server    *)
(* answers, and answers arrive.  The user owes nothing.                    *)
(***************************************************************************)
FairSpec ==
  /\ Spec
  /\ WF_vars(Poll)
  /\ \A c \in Calls : WF_vars(Serve(c)) /\ WF_vars(Deliver(c))

-----------------------------------------------------------------------------
(* Properties *)

\* Once the page has been told that an alert is read, no list that it still
\* awaits shows the alert unread, although one that the server made before the
\* mark may be on its way, under this session or an earlier one of the user.
AckedThenRead ==
  waits # None =>
    \A a \in acked \cap DOMAIN call[waits].rows : call[waits].rows[a]

\* A session ends for a reason: its token expired, or the user left; or a 401
\* came back that answers a login with a wrong password, or a request of another
\* session.  The last two may end a session they know nothing of: the login was
\* sent before the one that made the session, or the answer outlived a logout and
\* a login.  No other answer, and no step of the user's, ends a valid session.
EndsForCause ==
  [][token # 0 /\ token' = 0 =>
       \/ token <= expired
       \/ LogOut
       \/ \E c \in Calls :
            /\ Back(c, "401") /\ call'[c] = None
            /\ IF call[c].op = "login" THEN call[c].user = None
                                       ELSE call[c].token # token]_vars

Watched == page = "alerts" /\ \A c \in Calls : call[c] # None => call[c].op = "list"

\* A feed that is only watched ends up showing the newest page of the session's
\* user, whatever it showed before: another user's rows left in the cache, or a
\* list whose fetch was joined across a logout.  (Each Read puts off the fetch
\* under way, so a user who never stops clicking may never see its result.)
FeedCatchesUp ==
  <>[]Watched => <>[](token # 0 /\ feed # None /\ feed = Page(issued[token]))

=============================================================================
