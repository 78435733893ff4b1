---------------------------- MODULE ClientSession ----------------------------
(***************************************************************************)
(* The session of one browser tab with the tooling API: the tokens in the  *)
(* local storage, the user that the pages show, the API calls in flight    *)
(* and the one refresh that they share (web lib/api.ts, lib/auth.tsx,      *)
(* lib/tokens.ts), against the API that issues and checks the tokens       *)
(* (api security.py, deps.py, routers/auth.py).                            *)
(*                                                                         *)
(* A pair of tokens is [user, age]: at age 0 both are good, at age 1 the   *)
(* access token has expired, at age 2 the refresh token has too.           *)
(***************************************************************************)
EXTENDS Naturals

CONSTANTS
  User, Slot,      (* users; calls that a page can have in flight          *)
  NoUser, NoPair,  (* nobody; no tokens                                    *)
  Boot, Me,        (* the calls of /auth/me of a bootstrap and of a login  *)
  MaxLogins,       (* bound on logins                                      *)
  MaxLosses,       (* bound on calls without an answer                     *)
  MaxErrors        (* bound on refreshes answered with a server error      *)

Call == Slot \cup {Boot, Me}
Pair == [user : User, age : 0..2]

ASSUME ClientSessionAssumption ==
  /\ NoUser \notin User /\ {Boot, Me} \cap Slot = {} /\ Boot # Me
  /\ NoPair \notin Pair /\ "me" \notin User \cup {NoUser}
  /\ MaxLogins \in Nat /\ MaxLosses \in Nat /\ MaxErrors \in Nat

VARIABLES
  account,   (* shared.user: none, active, disabled                        *)
  stored,    (* tokens: the pair in the local storage                      *)
  shown,     (* AuthProvider: user                                         *)
  loading,   (* AuthProvider: the bootstrap is in flight                   *)
  login,     (* login: of nobody, of a user in flight, or "me"             *)
  refresh,   (* refreshInFlight: the pair it was sent with                 *)
  pc,        (* of each call: idle, sent, waits (for the refresh), resent  *)
  carried,   (* of each call in flight, the pair it was sent with          *)
  logins, losses, errors,  (* of these, so far                             *)
  overtaken, (* history: the tokens were cleared while a refresh or a call *)
             (* of /auth/me was out, or a login began during the bootstrap *)
             (* or got no answer from /auth/me                             *)
  strays     (* history: calls in flight since the tokens were cleared     *)

pageVars == <<shown, loading, login>>
callVars == <<pc, carried>>
boundVars == <<logins, losses, errors>>
histVars == <<overtaken, strays>>
vars == <<account, stored, pageVars, refresh, callVars, boundVars, histVars>>

Idle == [c \in Call |-> "idle"]
Empty == [c \in Call |-> NoPair]

Init ==
  /\ account = [u \in User |-> "none"]
  /\ stored = NoPair
  /\ shown = NoUser /\ loading = FALSE /\ login = NoUser
  /\ refresh = NoPair
  /\ pc = Idle /\ carried = Empty
  /\ logins = 0 /\ losses = 0 /\ errors = 0
  /\ overtaken = FALSE /\ strays = {}

-----------------------------------------------------------------------------
(* The API.  The account is looked up in every request.                    *)

\* create_access_token, create_refresh_token
Issued(u) == [user |-> u, age |-> 0]

\* get_current_user
Authorized(pair) ==
  pair # NoPair /\ pair.age = 0 /\ account[pair.user] = "active"

\* refresh
Refreshable(pair) == pair.age < 2 /\ account[pair.user] = "active"

\* manage_users create; no code disables a user, the column is set by hand.
CreateUser(u) ==
  /\ account[u] = "none"
  /\ account' = [account EXCEPT ![u] = "active"]
  /\ UNCHANGED <<stored, pageVars, refresh, callVars, boundVars, histVars>>

Disable(u) ==
  /\ account[u] = "active"
  /\ account' = [account EXCEPT ![u] = "disabled"]
  /\ UNCHANGED <<stored, pageVars, refresh, callVars, boundVars, histVars>>

\* Tokens expire wherever they are.  A call is in flight for seconds and an
\* access token lives for minutes: one that was just issued does not expire on
\* its way.
Aged(pair) ==
  IF pair = NoPair \/ pair.age = 2 THEN pair ELSE [pair EXCEPT !.age = @ + 1]

TimePasses ==
  /\ \A c \in Call : pc[c] = "resent" => carried[c].age # 0
  /\ stored' = Aged(stored) /\ refresh' = Aged(refresh)
  /\ carried' = [c \in Call |-> Aged(carried[c])]
  /\ UNCHANGED <<account, pageVars, pc, boundVars, histVars>>

-----------------------------------------------------------------------------
(* Calls.                                                                  *)

\* A call is over, and with that of /auth/me the bootstrap or the login.
Over(c) ==
  /\ pc' = [pc EXCEPT ![c] = "idle"]
  /\ carried' = [carried EXCEPT ![c] = NoPair]
  /\ login' = IF c = Me THEN NoUser ELSE login
  /\ loading' = (loading /\ c # Boot)

\* A call of /auth/me is in flight.
AskedWho == \E c \in {Boot, Me} : pc[c] # "idle"

\* tokens.clear, and authFailureHandler: the user is sent to the login page.
DropSession ==
  /\ stored' = NoPair /\ shown' = NoUser
  /\ overtaken' = (overtaken \/ refresh' # NoPair \/ AskedWho')
  /\ strays' = {c \in Call : pc'[c] # "idle"}

\* A page calls the API.
Send(c) ==
  /\ shown # NoUser /\ ~loading /\ pc[c] = "idle"
  /\ pc' = [pc EXCEPT ![c] = "sent"]
  /\ carried' = [carried EXCEPT ![c] = stored]
  /\ UNCHANGED <<account, stored, pageVars, refresh, boundVars, histVars>>

\* apiFetch: an answer other than 401; /auth/me names the user of the token.
Served(c) ==
  /\ pc[c] \in {"sent", "resent"} /\ Authorized(carried[c])
  /\ shown' = IF c \in {Boot, Me} THEN carried[c].user ELSE shown
  /\ Over(c) /\ strays' = strays \ {c}
  /\ UNCHANGED <<account, stored, refresh, boundVars, overtaken>>

\* apiFetch: the first 401 starts the refresh, or joins the one in flight; with
\* no refresh token it fails at once.
FirstUnauthorized(c) ==
  /\ pc[c] = "sent" /\ ~Authorized(carried[c])
  /\ IF refresh = NoPair /\ stored = NoPair
     THEN UNCHANGED refresh /\ Over(c) /\ DropSession
     ELSE /\ refresh' = IF refresh = NoPair THEN stored ELSE refresh
          /\ pc' = [pc EXCEPT ![c] = "waits"]
          /\ carried' = [carried EXCEPT ![c] = NoPair]
          /\ UNCHANGED <<stored, pageVars, histVars>>
  /\ UNCHANGED <<account, boundVars>>

\* apiFetch: a second 401 is final.
SecondUnauthorized(c) ==
  /\ pc[c] = "resent" /\ ~Authorized(carried[c])
  /\ UNCHANGED refresh
  /\ Over(c) /\ DropSession
  /\ UNCHANGED <<account, boundVars>>

\* No answer, or an error other than 401, reaches the page.  The bootstrap then
\* clears the tokens, a login leaves those it has just stored.
CallLost(c) ==
  /\ pc[c] \in {"sent", "resent"} /\ losses < MaxLosses
  /\ losses' = losses + 1
  /\ UNCHANGED refresh
  /\ Over(c)
  /\ IF c = Boot THEN DropSession
     ELSE /\ UNCHANGED <<stored, shown>>
          /\ overtaken' = (overtaken \/ c = Me)
          /\ strays' = strays \ {c}
  /\ UNCHANGED <<account, logins, errors>>

-----------------------------------------------------------------------------
(* The refresh that all calls share.                                       *)

\* (Variant: only one of the calls that wait is told.)
WaitingOne == IF \E c \in Call : pc[c] = "waits"
              THEN {CHOOSE c \in Call : pc[c] = "waits"} ELSE {}
Waiting == {c \in Call : pc[c] = "waits"}

\* The calls that wait fail; that of /auth/me ends its login or bootstrap.
\* (Variant: only an answer ends the bootstrap, the page stays at Loading.)
FailLoading ==
  /\ refresh' = NoPair
  /\ pc' = [c \in Call |-> IF c \in Waiting THEN "idle" ELSE pc[c]]
  /\ login' = IF Me \in Waiting THEN NoUser ELSE login
  /\ UNCHANGED <<carried, loading>>

Fail ==
  /\ refresh' = NoPair
  /\ pc' = [c \in Call |-> IF c \in Waiting THEN "idle" ELSE pc[c]]
  /\ UNCHANGED carried
  /\ login' = IF Me \in Waiting THEN NoUser ELSE login
  /\ loading' = (loading /\ Boot \notin Waiting)

\* A new pair is stored, whatever has been stored or cleared meanwhile, and the
\* calls that wait are sent again.
RefreshServed ==
  /\ refresh # NoPair /\ Refreshable(refresh)
  /\ stored' = Issued(refresh.user)
  /\ refresh' = NoPair
  /\ pc' = [c \in Call |-> IF c \in Waiting THEN "resent" ELSE pc[c]]
  /\ carried' = [c \in Call |-> IF c \in Waiting THEN stored' ELSE carried[c]]
  /\ UNCHANGED <<account, pageVars, boundVars, histVars>>

\* Any other answer clears the tokens, that of a broken server too.
RefreshRefused ==
  /\ refresh # NoPair
  /\ IF Refreshable(refresh) THEN errors < MaxErrors /\ errors' = errors + 1
     ELSE UNCHANGED errors
  /\ Fail
  /\ stored' = NoPair
  /\ shown' = IF Waiting = {} THEN shown ELSE NoUser
  /\ overtaken' = (overtaken \/ AskedWho')
  /\ strays' = {c \in Call : pc'[c] # "idle"}
  /\ UNCHANGED <<account, logins, losses>>

\* No answer: the calls that wait fail, but the session goes on.
\* (Variants: it is tried again, for ever; it ends the session.)
RefreshLostRetried ==
  /\ refresh # NoPair /\ losses' = (losses + 1) % (MaxLosses + 1)
  /\ UNCHANGED <<account, stored, pageVars, refresh, callVars, logins, errors,
                 histVars>>

RefreshLostClears ==
  /\ refresh # NoPair /\ losses < MaxLosses /\ losses' = losses + 1
  /\ Fail
  /\ stored' = NoPair /\ shown' = NoUser
  /\ strays' = {}
  /\ UNCHANGED <<account, logins, errors, overtaken>>

RefreshLost ==
  /\ refresh # NoPair /\ losses < MaxLosses /\ losses' = losses + 1
  /\ Fail
  /\ IF Boot \in Waiting THEN DropSession
     ELSE /\ UNCHANGED <<stored, shown>>
          /\ overtaken' = (overtaken \/ Me \in Waiting)
          /\ strays' = strays \ Waiting
  /\ UNCHANGED <<account, logins, errors>>

-----------------------------------------------------------------------------
(* The pages.                                                              *)

\* The tab is loaded anew: whatever was in flight is forgotten, and the tokens
\* are asked whose they are.
Reload ==
  /\ shown' = NoUser /\ login' = NoUser /\ refresh' = NoPair
  /\ loading' = (stored # NoPair)
  /\ pc' = [Idle EXCEPT ![Boot] = IF stored = NoPair THEN "idle" ELSE "sent"]
  /\ carried' = [Empty EXCEPT ![Boot] = stored]
  /\ overtaken' = FALSE /\ strays' = {}
  /\ UNCHANGED <<account, stored, boundVars>>

\* The form of LoginPage, which only one who is not logged in can see; while the
\* bootstrap is in flight that is anyone.
\* (Variant: one who is can.)
LoginAnyTime(u) ==
  /\ login = NoUser /\ logins < MaxLogins
  /\ logins' = logins + 1 /\ login' = u
  /\ UNCHANGED <<account, stored, shown, loading, refresh, callVars, losses,
                 errors, histVars>>

Login(u) ==
  /\ shown = NoUser /\ login = NoUser /\ logins < MaxLogins
  /\ logins' = logins + 1 /\ login' = u
  /\ overtaken' = (overtaken \/ loading)
  /\ UNCHANGED <<account, stored, shown, loading, refresh, callVars, losses,
                 errors, strays>>

\* The pair is stored, and asked whose it is.
LoginAnswered ==
  /\ login \in User /\ account[login] = "active"
  /\ stored' = Issued(login) /\ login' = "me"
  /\ pc' = [pc EXCEPT ![Me] = "sent"]
  /\ carried' = [carried EXCEPT ![Me] = Issued(login)]
  /\ overtaken' = (overtaken /\ (refresh # NoPair \/ loading \/ shown # NoUser))
  /\ UNCHANGED <<account, shown, loading, refresh, boundVars, strays>>

\* Wrong password, unknown or disabled user, or no answer.
LoginRefused ==
  /\ login \in User /\ login' = NoUser
  /\ UNCHANGED <<account, stored, shown, loading, refresh, callVars, boundVars,
                 histVars>>

\* logout asks the API nothing.  (Variant: the tokens stay.)
LogoutKeeps ==
  /\ shown # NoUser /\ shown' = NoUser
  /\ UNCHANGED <<account, stored, loading, login, refresh, callVars, boundVars,
                 histVars>>

Logout ==
  /\ shown # NoUser
  /\ UNCHANGED <<account, loading, login, refresh, callVars, boundVars>>
  /\ DropSession

-----------------------------------------------------------------------------
Answer(c) ==
  Served(c) \/ FirstUnauthorized(c) \/ SecondUnauthorized(c) \/ CallLost(c)

RefreshAnswer == RefreshServed \/ RefreshRefused \/ RefreshLost

Next ==
  \/ \E u \in User : CreateUser(u) \/ Disable(u) \/ Login(u)
  \/ \E c \in Slot : Send(c)
  \/ \E c \in Call : Answer(c)
  \/ RefreshAnswer \/ LoginAnswered \/ LoginRefused
  \/ Reload \/ Logout \/ TimePasses

\* A fetch ends, with an answer or without.
Fairness ==
  /\ \A c \in Call : WF_vars(Answer(c))
  /\ WF_vars(RefreshAnswer)
  /\ WF_vars(LoginAnswered \/ LoginRefused)

Spec == Init /\ [][Next]_vars /\ Fairness

-----------------------------------------------------------------------------
\* What the session is made of; a bootstrap and a login are over when their call
\* of /auth/me is, so the page neither stays at Loading nor the form disabled;
\* and whoever waits for the shared refresh waits for one that is in flight.
TypeOK ==
  /\ account \in [User -> {"none", "active", "disabled"}]
  /\ stored \in Pair \cup {NoPair} /\ refresh \in Pair \cup {NoPair}
  /\ shown \in User \cup {NoUser} /\ loading \in BOOLEAN
  /\ login \in User \cup {NoUser, "me"}
  /\ pc \in [Call -> {"idle", "sent", "waits", "resent"}]
  /\ carried \in [Call -> Pair \cup {NoPair}]
  /\ logins \in 0..MaxLogins /\ losses \in 0..MaxLosses /\ errors \in 0..MaxErrors
  /\ overtaken \in BOOLEAN /\ strays \subseteq {c \in Call : pc[c] # "idle"}
  /\ loading = (pc[Boot] # "idle") /\ (login = "me") = (pc[Me] # "idle")
  /\ (\E c \in Call : pc[c] = "waits") => refresh # NoPair

\* The user the pages show is the one whose tokens the next call will carry,
\* unless a refresh was overtaken: its late answer stores the tokens of the
\* user it was sent for.
ShownIsStored ==
  (shown # NoUser /\ ~overtaken) => stored # NoPair /\ stored.user = shown

\* When nobody is shown and nothing is under way, no tokens are left behind,
\* with the same exception.
LoggedOutIsClean ==
  (shown = NoUser /\ ~loading /\ login # "me" /\ ~overtaken) => stored = NoPair

\* The tokens in the storage and the user on the page are those of one session,
\* through refreshes, lost answers, logouts and logins of somebody else.
TokensFitPage == ShownIsStored /\ LoggedOutIsClean

\* A session ends only because the user ends it or reloads the tab, because the
\* account or the refresh token is no longer good, because the API answered a
\* refresh with an error, or because a call of the session before it was
\* refused: never because an answer was lost or two calls met an expired access
\* token together.
SessionSurvives ==
  [][(shown # NoUser /\ shown' = NoUser /\ ~overtaken) =>
       \/ Logout \/ Reload
       \/ \E c \in strays : SecondUnauthorized(c)
       \/ account[shown] # "active" \/ stored.age = 2
       \/ errors' # errors]_vars

\* Every call comes to an end, but for one who loads the tab anew for ever.
CallsSettle ==
  \/ []<><<Reload>>_vars
  \/ \A c \in Call : (pc[c] # "idle") ~> (pc[c] = "idle")
=============================================================================
