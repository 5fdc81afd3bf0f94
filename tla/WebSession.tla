----------------------------- MODULE WebSession -----------------------------
(***************************************************************************)
(* The browser's side of a session: auth-store.ts, api.ts and providers.tsx *)
(* in the tabs of one browser, which share the httpOnly refresh cookie,     *)
(* and the routes of routes/auth.ts that read, set and clear it.            *)
(*                                                                         *)
(* A tab may have several refreshes on their way: its timer and every API  *)
(* call that was answered 401 start one, and nothing joins them.            *)
(***************************************************************************)
EXTENDS Sessions

CONSTANTS Tabs

VARIABLES
    cookie,  \* the refresh token in the browser's cookie, None without one
    tab,     \* each tab's auth store: its status and whose session it shows
    call     \* for the request a tab sent: which tab, and what it was for

webVars == <<cookie, tab, call>>

vars == <<sessionVars, webVars>>

Status == {"idle", "loading", "authenticated", "unauthenticated"}

NoCall == [tab |-> None, kind |-> "none"]

SignedOut == [status |-> "unauthenticated", user |-> None]

Send(r, b, kind) == call' = [call EXCEPT ![r] = [tab |-> b, kind |-> kind]]

\* A call to /auth/refresh: without a cookie it is refused by the route.
AskSession(b, r) ==
    \/ cookie = None /\ NoCredential(r) /\ Send(r, b, "empty")
    \/ cookie # None /\ RefreshRead(r, cookie) /\ Send(r, b, "refresh")

\* bootstrap: a page that opens asks for a session, unless one is being asked for.
Bootstrap(b, r) ==
    /\ tab[b].status = "idle"
    /\ AskSession(b, r)
    /\ tab' = [tab EXCEPT ![b].status = "loading"]
    /\ UNCHANGED cookie

\* The refresh of the timer, or of an API call that was answered 401.
TabRefresh(b, r) ==
    /\ tab[b].status = "authenticated"
    /\ AskSession(b, r)
    /\ UNCHANGED <<cookie, tab>>

\* The sign-in form.
TabLogin(b, r, u) ==
    /\ tab[b].status = "unauthenticated"
    /\ Login(r, u)
    /\ Send(r, b, "login")
    /\ tab' = [tab EXCEPT ![b].status = "loading"]
    /\ UNCHANGED cookie

\* /auth/logout: the account is the bearer's while the access token is good, else the cookie's.
\* A cookie of another account is answered 403: nothing changes, and the tab stays as it was.
TabLogout(b, r, bearer) ==
    /\ tab[b].status = "authenticated"
    /\ LET owner == IF cookie = None \/ cookie \in expired THEN None ELSE token[cookie].user
           u == IF bearer THEN tab[b].user ELSE owner
       IN  IF u = None THEN NoCredential(r)
           ELSE owner \in {u, None} /\ Logout(r, u, cookie)
    /\ Send(r, b, "logout")
    /\ UNCHANGED <<cookie, tab>>

\* The answer: the browser stores the cookie it sets, or drops the one it clears, and the tab's
\* store applies the session or, signed out or after any error, forgets the one it had.
Receive(r) ==
    /\ call[r].tab # None
    /\ Answered(r)
    /\ LET b == call[r].tab
           t == req[r].token
       IN  /\ cookie' = IF t = None /\ call[r].kind # "logout" THEN cookie ELSE t
           /\ tab' = [tab EXCEPT ![b] =
                        IF t = None THEN SignedOut
                        ELSE [status |-> "authenticated", user |-> req[r].user]]
    /\ call' = [call EXCEPT ![r] = NoCall]

\* Mutant: only an answer settles what the page shows.
Lost_KeepsLoading(r) ==
    /\ call[r].tab # None
    /\ call' = [call EXCEPT ![r] = NoCall]
    /\ UNCHANGED <<sessionVars, cookie, tab>>

\* The answer is lost on the way: the store treats it like any other error; a logout, which
\* asks the user to try again, leaves the tab signed in.
Lost(r) ==
    /\ call[r].tab # None
    /\ tab' = IF call[r].kind = "logout" THEN tab
              ELSE [tab EXCEPT ![call[r].tab] = SignedOut]
    /\ call' = [call EXCEPT ![r] = NoCall]
    /\ UNCHANGED <<sessionVars, cookie>>

\* The page is closed, or left for another one: a reload starts from the cookie alone.
Reload(b) ==
    /\ tab[b].status # "idle"
    /\ tab' = [tab EXCEPT ![b] = [status |-> "idle", user |-> None]]
    /\ call' = [r \in Requests |-> IF call[r].tab = b THEN NoCall ELSE call[r]]
    /\ UNCHANGED <<sessionVars, cookie>>

-----------------------------------------------------------------------------
Init ==
    /\ SessionsInit
    /\ cookie = None
    /\ tab = [b \in Tabs |-> [status |-> "idle", user |-> None]]
    /\ call = [r \in Requests |-> NoCall]

Sent(r) == \E b \in Tabs :
    \/ Bootstrap(b, r) \/ TabRefresh(b, r)
    \/ \E u \in Accounts : TabLogin(b, r, u)
    \/ \E bearer \in BOOLEAN : TabLogout(b, r, bearer)

\* The steps inside the API leave the browser alone.
Server == (\E r \in Requests : Serve(r)) /\ UNCHANGED webVars

\* Requests of other clients, and the answers a tab that was left never sees.
Elsewhere ==
    /\ \/ \E r \in Requests : Arrive(r) \/ (call[r].tab = None /\ Answered(r))
       \/ \E k \in Expiring : Expire(k)
    /\ UNCHANGED webVars

Next ==
    \/ \E r \in Requests : Sent(r) \/ Receive(r) \/ Lost(r)
    \/ \E b \in Tabs : Reload(b)
    \/ Server
    \/ Elsewhere

\* The API works on every request it took, and the browser gets every answer.
Fairness == \A r \in Requests : WF_vars((Serve(r) /\ UNCHANGED webVars) \/ Receive(r))

Spec == Init /\ [][Next]_vars /\ Fairness

\* A user who signs in and then only opens pages, in any tab, and lets them refresh, each tab one
\* request at a time: nobody signs out, changes a password or disables the account, nothing
\* expires, no answer is lost, no other client is there.
Awaits(b) == \E r \in Requests : call[r].tab = b

Navigation ==
    \/ \E r \in Requests, b \in Tabs :
          /\ ~Awaits(b)
          /\ \/ Bootstrap(b, r) \/ TabRefresh(b, r)
             \/ \E u \in Accounts : TabLogin(b, r, u)
    \/ \E r \in Requests : Receive(r)
    \/ \E b \in Tabs : Reload(b)
    \/ Server

NavigationSpec == Init /\ [][Navigation]_vars /\ Fairness

-----------------------------------------------------------------------------
\* Each tab is in a state of the web client's auth store, and the API's token table
\* is well typed.
WebTypeOK ==
    /\ cookie \in TokenIds \cup {None}
    /\ tab \in [Tabs -> [status : Status, user : Accounts \cup {None}]]
    /\ call \in [Requests -> [tab : Tabs \cup {None},
                               kind : {"none", "empty", "refresh", "login", "logout"}]]

\* A page that asks for a session, or signs in, is answered one way or the other.
NoTabWaitsForever ==
    \A b \in Tabs : []<>(tab[b].status # "loading")

\* Sessions survive navigation: a page that shows a session keeps it, and one that was opened
\* with the cookie of a session gets to show it.
HasSession(b) ==
    \/ tab[b].status = "authenticated"
    \/ \E r \in Requests : call[r] = [tab |-> b, kind |-> "refresh"]

SessionSurvives ==
    [][\A b \in Tabs : HasSession(b) => tab'[b].status # "unauthenticated"]_vars
=============================================================================
