------------------------------- MODULE SignIn -------------------------------
(***************************************************************************)
(* Signing in to the dashboard: the tabs of one browser, which share its   *)
(* cookies, the login routes, Nextcloud, and the table of sessions.        *)
(* A tab whose API call is refused goes                                    *)
(*   page -> login -> nextcloud -> callback -> exchange -> page            *)
(* and from callback back to nextcloud, once, when Nextcloud returned no   *)
(* state: it does so after a detour through its own login.  Requests carry *)
(* the cookies as they were sent, answers change them on arrival.          *)
(***************************************************************************)
EXTENDS Naturals, FiniteSets

CONSTANTS
  Tabs, Paths,
  Root,         \* the path "/"
  Nonces,       \* enough of them for every login in progress
  Sessions,     \* ids of session rows, enough likewise
  None,         \* no cookie, no state; in an answer, a cookie left alone
  Gone,         \* in an answer, a cookie removed
  DevLogins,    \* DEV_LOGIN_USER is set, so that /dev-login is mounted
  MaxLogins     \* bound: how often somebody starts a login

VARIABLES
  tab,       \* per tab: what it shows, or the request or answer on its way
  jar,       \* the cookies oauth_pending and session
  nc,        \* the browser has a Nextcloud session
  rows,      \* table sessions
  expired,   \* the rows past their expires_at
  logins,    \* logins started so far
  asked,     \* per tab: where its sign-in, or its logout, was to lead
  trouble    \* per tab: its sign-in "crossed" another's, was "upset" from outside

table == <<rows, expired>>
vars  == <<tab, jar, nc, table, logins, asked, trouble>>

Pending == [nonce: Nonces, dest: Paths, retried: BOOLEAN]

ASSUME RootAssumption == Root \in Paths /\ MaxLogins \in Nat /\ DevLogins \in BOOLEAN
ASSUME NoncesAssumption ==
  IsFiniteSet(Tabs) /\ (IsFiniteSet(Nonces) => Cardinality(Nonces) > 2 * Cardinality(Tabs) + 1)
ASSUME NoneAssumption == /\ None \notin Pending \cup Nonces \cup Sessions
                         /\ Gone \notin Pending \cup Nonces \cup Sessions \cup {None}

-----------------------------------------------------------------------------
Page(path)      == [at |-> "page", path |-> path]
Problem         == [at |-> "problem"]
Authorize(n)    == [at |-> "nextcloud", state |-> n]
Answer(pending, session, next) ==
  [at |-> "answer", pending |-> pending, session |-> session, next |-> next]

Resting(t) == tab[t].at \in {"page", "problem"}

\* The cookie after an answer.
Applied(old, new) == IF new = None THEN old ELSE IF new = Gone THEN None ELSE new

\* Nonces that somebody still has.
NonceOf(pending) == IF pending \in {None, Gone} THEN {} ELSE {pending.nonce}
NoncesAt(t) ==
  CASE tab[t].at = "nextcloud" -> {tab[t].state}
    [] tab[t].at = "callback"  -> {tab[t].state} \cup NonceOf(tab[t].cookie)
    [] tab[t].at = "exchange"  -> NonceOf(tab[t].cookie)
    [] tab[t].at = "answer"    -> NonceOf(tab[t].pending)
    [] OTHER -> {}

\* Fresh random bytes: a nonce, and a session id, that nobody has.
FreshNonce == CHOOSE n \in Nonces : n \notin NonceOf(jar.pending) \cup UNION {NoncesAt(t) : t \in Tabs}
FreshSession ==
  CHOOSE s \in Sessions :
    s \notin rows \cup {jar.session} \cup
             {tab[t].session : t \in {u \in Tabs : tab[u].at \in {"answer", "logout"}}}

\* issue: a login in progress.
Issue(dest) == [nonce |-> FreshNonce, dest |-> dest, retried |-> FALSE]

\* Mutant: the second attempt earns a third.
RetryAgain(pending) == [nonce |-> FreshNonce, dest |-> pending.dest, retried |-> FALSE]

\* Mutant: the second attempt forgets where the first was going.
RetryToRoot(pending) == [nonce |-> FreshNonce, dest |-> Root, retried |-> TRUE]

\* retry: a new nonce, the same destination.
Retry(pending) == [nonce |-> FreshNonce, dest |-> pending.dest, retried |-> TRUE]

\* Mutant: an empty state is refused.
DecideStrict(cookie, state) ==
  CASE cookie = None -> "refuse"
    [] cookie # None /\ state # None ->
         IF cookie.nonce = state THEN "accept" ELSE "refuse"
    [] cookie # None /\ state = None -> "refuse"

\* accept: what a callback may do.
Decide(cookie, state) ==
  CASE cookie = None -> "refuse"
    [] cookie # None /\ state # None ->
         IF cookie.nonce = state THEN "accept" ELSE "refuse"
    [] cookie # None /\ state = None ->
         IF cookie.retried THEN "refuse" ELSE "retry"

\* get_session finds a row, and one that has not expired.
Valid(session) == session \in rows \ expired

\* Something befalls the sign-ins under way, or that of one tab.
Upset == trouble' = [t \in Tabs |-> IF Resting(t) THEN trouble[t] ELSE trouble[t] \cup {"upset"}]
UpsetOne(t) == trouble' = [trouble EXCEPT ![t] = @ \cup {"upset"}]

-----------------------------------------------------------------------------
Init ==
  /\ tab \in [Tabs -> {Page(p) : p \in Paths}]
  /\ jar = [pending |-> None, session |-> None]
  /\ nc \in BOOLEAN
  /\ rows = {} /\ expired = {}
  /\ logins = 0
  /\ asked = [t \in Tabs |-> tab[t].path]
  /\ trouble = [t \in Tabs |-> {}]

\* A tab leaves for /login.  Its sign-in crosses those of the other tabs.
Leave(t, dest) ==
  /\ logins < MaxLogins
  /\ logins' = logins + 1
  /\ tab' = [tab EXCEPT ![t] = [at |-> "login", dest |-> dest]]
  /\ asked' = [asked EXCEPT ![t] = dest]
  /\ LET others == {u \in Tabs \ {t} : ~Resting(u)}
     IN trouble' = [u \in Tabs |-> IF u \in others THEN trouble[u] \cup {"crossed"}
                                   ELSE IF u = t /\ others # {} THEN {"crossed"}
                                   ELSE IF u = t THEN {}
                                   ELSE trouble[u]]

\* An API call is refused with 401, and the interceptor goes to /login with the
\* page's own path.  An expired row is deleted on the way.
Bounce(t) ==
  /\ tab[t].at = "page" /\ ~Valid(jar.session)
  /\ rows' = rows \ {jar.session} /\ expired' = expired \ {jar.session}
  /\ Leave(t, tab[t].path)
  /\ UNCHANGED <<jar, nc>>

\* "Try again" on the page of a sign-in that did not finish, or /login typed
\* after any other error.
TryAgain(t) ==
  /\ tab[t].at = "problem"
  /\ Leave(t, Root)
  /\ UNCHANGED <<jar, nc, table>>

\* GET /login.
Login(t) ==
  /\ tab[t].at = "login"
  /\ tab' = [tab EXCEPT ![t] = Answer(Issue(tab[t].dest), None, Authorize(FreshNonce))]
  /\ UNCHANGED <<jar, nc, table, logins, asked, trouble>>

\* An answer arrives: its cookies are stored, its redirect is followed.
Receive(t) ==
  /\ tab[t].at = "answer"
  /\ jar' = [pending |-> Applied(jar.pending, tab[t].pending),
             session |-> Applied(jar.session, tab[t].session)]
  /\ tab' = [tab EXCEPT ![t] = tab[t].next]
  /\ UNCHANGED <<nc, table, logins, asked, trouble>>

\* An answer does not arrive, and the browser says so.
Lose(t) ==
  /\ tab[t].at = "answer"
  /\ tab' = [tab EXCEPT ![t] = Problem]
  /\ UpsetOne(t)
  /\ UNCHANGED <<jar, nc, table, logins, asked>>

\* Nextcloud sends the browser to the callback: with the state it was given, or
\* after a detour through its own login with none.
Grant(t) ==
  /\ tab[t].at = "nextcloud"
  /\ tab' = [tab EXCEPT ![t] = [at |-> "callback", cookie |-> jar.pending,
                                state |-> IF nc THEN tab[t].state ELSE None]]
  /\ nc' = TRUE
  /\ UNCHANGED <<jar, table, logins, asked, trouble>>

\* GET /auth/callback, up to the first request to Nextcloud.
Callback(t) ==
  /\ tab[t].at = "callback"
  /\ LET cookie == tab[t].cookie
         next == Decide(cookie, tab[t].state)
     IN tab' = [tab EXCEPT ![t] =
          CASE next = "refuse" -> Answer(None, None, Problem)
            [] next = "retry"  -> Answer(Retry(cookie), None, Authorize(FreshNonce))
            [] next = "accept" -> [at |-> "exchange", cookie |-> cookie]]
  /\ UNCHANGED <<jar, nc, table, logins, asked, trouble>>

\* The code is exchanged, the user looked up, the session stored.
Exchange(t) ==
  /\ tab[t].at = "exchange"
  /\ rows' = rows \cup {FreshSession}
  /\ tab' = [tab EXCEPT ![t] = Answer(Gone, FreshSession, Page(tab[t].cookie.dest))]
  /\ UNCHANGED <<jar, nc, expired, logins, asked, trouble>>

\* No code was granted, or one of the three calls fails: the pending login
\* stays in the jar.
ExchangeFails(t) ==
  /\ tab[t].at = "exchange"
  /\ tab' = [tab EXCEPT ![t] = Answer(None, None, Problem)]
  /\ UpsetOne(t)
  /\ UNCHANGED <<jar, nc, table, logins, asked>>

\* Somebody opens /dev-login, which makes a session with no Nextcloud.
DevLogin(t) ==
  /\ DevLogins /\ Resting(t) /\ logins < MaxLogins
  /\ logins' = logins + 1
  /\ rows' = rows \cup {FreshSession}
  /\ tab' = [tab EXCEPT ![t] = Answer(None, FreshSession, Page(Root))]
  /\ asked' = [asked EXCEPT ![t] = Root]
  /\ trouble' = [trouble EXCEPT ![t] = {}]
  /\ UNCHANGED <<jar, nc, expired>>

\* Somebody sends POST /logout from this tab (no page of the dashboard does it).
LeaveForLogout(t) ==
  /\ tab[t].at = "page" /\ jar.session # None
  /\ tab' = [tab EXCEPT ![t] = [at |-> "logout", session |-> jar.session]]
  /\ asked' = [asked EXCEPT ![t] = Root]
  /\ trouble' = [trouble EXCEPT ![t] = {}]
  /\ UNCHANGED <<jar, nc, table, logins>>

\* POST /logout: the row and the cookie go.
Logout(t) ==
  /\ tab[t].at = "logout"
  /\ rows' = rows \ {tab[t].session} /\ expired' = expired \ {tab[t].session}
  /\ tab' = [tab EXCEPT ![t] = Answer(None, Gone, Page(Root))]
  /\ UNCHANGED <<jar, nc, logins, asked, trouble>>

LogoutFails(t) ==
  /\ tab[t].at = "logout"
  /\ tab' = [tab EXCEPT ![t] = Answer(None, None, Problem)]
  /\ UpsetOne(t)
  /\ UNCHANGED <<jar, nc, table, logins, asked>>

\* Ten minutes pass: the pending login lapses, in the jar and under way.
LapsePending ==
  /\ jar.pending # None
  /\ jar' = [jar EXCEPT !.pending = None]
  /\ tab' = [t \in Tabs |-> IF tab[t].at = "callback" /\ tab[t].cookie = jar.pending
                            THEN [tab[t] EXCEPT !.cookie = None] ELSE tab[t]]
  /\ Upset
  /\ UNCHANGED <<nc, table, logins, asked>>

\* Nextcloud ends its own session with the browser.
NcForgets ==
  /\ nc /\ nc' = FALSE
  /\ Upset
  /\ UNCHANGED <<tab, jar, table, logins, asked>>

\* Seven days pass for a session.
Expire(s) ==
  /\ s \in rows \ expired
  /\ expired' = expired \cup {s}
  /\ UNCHANGED <<tab, jar, nc, rows, logins, asked, trouble>>

\* Mutant: expired rows go only when their cookie is presented.
SweepPresented ==
  /\ rows' = rows \ (expired \cap {jar.session})
  /\ expired' = expired \ {jar.session}
  /\ UNCHANGED <<tab, jar, nc, logins, asked, trouble>>

\* sweep_expired.
Sweep ==
  /\ rows' = rows \ expired /\ expired' = {}
  /\ UNCHANGED <<tab, jar, nc, logins, asked, trouble>>

\* What a tab's requests and answers lead to without anybody's doing.
Onward(t) ==
  \/ Login(t) \/ Receive(t) \/ Grant(t) \/ Callback(t)
  \/ Exchange(t) \/ ExchangeFails(t) \/ Logout(t) \/ LogoutFails(t)

Next ==
  \/ \E t \in Tabs : \/ Bounce(t) \/ TryAgain(t) \/ DevLogin(t) \/ LeaveForLogout(t)
                     \/ Onward(t) \/ Lose(t)
  \/ LapsePending \/ NcForgets
  \/ \E s \in Sessions : Expire(s)
  \/ Sweep

Spec == Init /\ [][Next]_vars

\* The server, Nextcloud and the network answer, time passes, and the hourly
\* sweep runs.  Nobody need start a login or log out.
Fairness ==
  /\ \A t \in Tabs : WF_vars(Onward(t))
  /\ \A s \in Sessions : WF_vars(Expire(s))
  /\ WF_vars(Sweep)

FairSpec == Spec /\ Fairness

-----------------------------------------------------------------------------
(* Properties.                                                             *)

Shown == {Problem} \cup {Page(p) : p \in Paths}

\* A sign-in fails only for a reason: one that crosses no other, and which
\* nothing befalls, does not end on the page of a failed sign-in, the detour
\* through Nextcloud's login included (pending_login.rs:2-5).
SoloSignInFinishes ==
  \A t \in Tabs : tab[t].at = "problem" => trouble[t] # {}

\* A sign-in returns to the page it was started from ("kicks off the NC OAuth
\* flow and returns here", auth-redirect.interceptor.ts; "the same destination",
\* pending_login.rs:97), unless it crossed another tab's, whose cookie it then
\* shares.
ReturnsHere ==
  \A t \in Tabs : tab[t].at = "page" =>
    tab[t].path = asked[t] \/ "crossed" \in trouble[t]

\* No redirect goes round for ever: when nobody starts logins any more, every
\* tab comes to rest, whatever Nextcloud returns and however the cookies of the
\* tabs overwrite each other ("a second miss is refused", pending_login.rs:26).
EveryTabRests == \A t \in Tabs : <>[]Resting(t)

\* No session stays in the table for ever, presented again or not ("abandoned
\* sessions would accumulate", main.rs:79-80).
SessionsEnd == \A s \in Sessions : s \in rows ~> s \notin rows
=============================================================================
