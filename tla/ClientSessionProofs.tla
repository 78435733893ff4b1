------------------------- MODULE ClientSessionProofs -------------------------
(* Theorems about ClientSession for any users, any number of calls of the   *)
(* pages in flight and any number of logins, losses and errors: the types,  *)
(* that the tokens in the storage are those of the user on the page, and    *)
(* that a session does not end by itself.                                   *)
EXTENDS ClientSession, TLAPS

(* The refresh in flight has calls that wait for it, and a call that was    *)
(* sent again carries an access token that is still good.                   *)
RefreshIsShared ==
  /\ refresh # NoPair => \E c \in Call : pc[c] = "waits"
  /\ \A c \in Call : pc[c] = "resent" => carried[c] # NoPair /\ carried[c].age = 0

(* As long as nothing was overtaken, all that is under way is of the one    *)
(* session whose tokens are stored: the refresh, the bootstrap or the login,*)
(* of which there is one, and the user who is shown after it.               *)
OneSession ==
  ~overtaken =>
    /\ refresh # NoPair => refresh = stored
    /\ \A c \in {Boot, Me} : pc[c] \in {"sent", "resent"} =>
         carried[c] # NoPair /\ stored # NoPair /\ carried[c].user = stored.user
    /\ loading \/ login # NoUser => shown = NoUser
    /\ loading => login = NoUser
    /\ shown = NoUser /\ ~loading /\ login # "me" => stored = NoPair
    /\ shown # NoUser => stored # NoPair /\ stored.user = shown

(* The calls of a page that is gone are strays, the others carry tokens of  *)
(* the session.                                                             *)
StraysAreKnown ==
  /\ shown = NoUser => \A c \in Slot : pc[c] # "idle" => c \in strays
  /\ ~overtaken =>
       \A c \in Slot \ strays : pc[c] \in {"sent", "resent"} =>
         carried[c] # NoPair /\ stored # NoPair /\ carried[c].user = stored.user

IInv == TypeOK /\ RefreshIsShared /\ OneSession /\ StraysAreKnown

-----------------------------------------------------------------------------
(* Types.                                                                   *)

\* A pair that has aged is a pair of the same user.
LEMMA AgedTypes ==
  ASSUME ClientSessionAssumption, NEW pair \in Pair \cup {NoPair}
  PROVE  /\ Aged(pair) \in Pair \cup {NoPair}
         /\ Aged(pair) = NoPair <=> pair = NoPair
         /\ pair # NoPair => /\ pair \in Pair /\ Aged(pair) \in Pair
                             /\ Aged(pair).user = pair.user
                             /\ pair.age = 2 => Aged(pair) = pair
  <1>1. CASE pair = NoPair \/ pair.age = 2
    BY <1>1 DEF Aged
  <1>2. CASE pair # NoPair /\ pair.age # 2
    <2>1. pair \in Pair /\ Aged(pair) = [pair EXCEPT !.age = pair.age + 1]
      BY <1>2 DEF Aged
    <2>2. pair.age + 1 \in 0..2
      BY <1>2, <2>1 DEF Pair
    <2>3. Aged(pair) \in Pair /\ Aged(pair).user = pair.user
      BY <2>1, <2>2 DEF Pair
    <2>4. QED
      BY <1>2, <2>1, <2>3 DEF ClientSessionAssumption
  <1>3. QED
    BY <1>1, <1>2

\* A pair just issued is a pair.
LEMMA IssuedTypes ==
  ASSUME ClientSessionAssumption, NEW u \in User
  PROVE  /\ Issued(u) \in Pair /\ Issued(u) # NoPair
         /\ Issued(u).user = u /\ Issued(u).age = 0
  BY DEF Issued, Pair, ClientSessionAssumption

\* Who may call has an active account and a fresh token.
LEMMA AuthorizedTypes ==
  ASSUME TypeOK, NEW c \in Call, Authorized(carried[c])
  PROVE  carried[c] \in Pair /\ carried[c].user \in User
  BY DEF Authorized, TypeOK, Pair

\* Steps of the calls.
LEMMA CallTypes ==
  ASSUME ClientSessionAssumption, TypeOK, NEW c \in Call, Answer(c)
  PROVE  TypeOK'
  <1> USE DEF TypeOK, ClientSessionAssumption, Call, pageVars, callVars, boundVars, histVars
  <1>1. CASE Served(c)
    BY <1>1, AuthorizedTypes DEF Served, Over
  <1>2. CASE FirstUnauthorized(c)
    <2>1. CASE refresh = NoPair /\ stored = NoPair
      <3>1. /\ Over(c) /\ DropSession /\ pc[c] = "sent"
            /\ UNCHANGED <<account, refresh, logins, losses, errors>>
        BY <1>2, <2>1 DEF FirstUnauthorized
      <3>2. QED
        BY <3>1 DEF Over, DropSession
    <2>2. CASE ~(refresh = NoPair /\ stored = NoPair)
      <3>1. /\ refresh' = (IF refresh = NoPair THEN stored ELSE refresh)
            /\ pc' = [pc EXCEPT ![c] = "waits"] /\ pc[c] = "sent"
            /\ carried' = [carried EXCEPT ![c] = NoPair]
            /\ UNCHANGED <<account, stored, shown, loading, login, logins, losses,
                           errors, overtaken, strays>>
        BY <1>2, <2>2 DEF FirstUnauthorized
      <3>2. refresh' \in Pair \cup {NoPair} /\ refresh' # NoPair
        BY <2>2, <3>1
      <3>3. /\ pc' \in [Call -> {"idle", "sent", "waits", "resent"}]
            /\ carried' \in [Call -> Pair \cup {NoPair}]
        BY <3>1
      <3>4. \A d \in Call : pc'[d] # "idle" <=> pc[d] # "idle"
        BY <3>1
      <3>5. QED
        BY <3>1, <3>2, <3>3, <3>4
    <2>3. QED
      BY <2>1, <2>2
  <1>3. CASE SecondUnauthorized(c)
    BY <1>3 DEF SecondUnauthorized, Over, DropSession
  <1>4. CASE CallLost(c)
    <2>1. CASE c = Boot
      BY <1>4, <2>1 DEF CallLost, Over, DropSession
    <2>2. CASE c # Boot
      <3>1. /\ Over(c) /\ pc[c] # "idle" /\ strays' = strays \ {c}
            /\ UNCHANGED <<account, stored, shown, refresh, logins, errors>>
            /\ losses' \in 0..MaxLosses /\ overtaken' \in BOOLEAN
        BY <1>4, <2>2 DEF CallLost
      <3>2. CASE c = Me
        BY <3>1, <3>2 DEF Over
      <3>3. CASE c # Me
        BY <2>2, <3>1, <3>3 DEF Over
      <3>4. QED
        BY <3>2, <3>3
    <2>3. QED
      BY <2>1, <2>2
  <1>5. QED
    BY <1>1, <1>2, <1>3, <1>4 DEF Answer

\* Steps of the refresh, which all calls that wait share.
LEMMA RefreshTypes ==
  ASSUME ClientSessionAssumption, TypeOK, RefreshAnswer
  PROVE  TypeOK'
  <1> USE DEF TypeOK, ClientSessionAssumption, Call, pageVars, callVars, boundVars, histVars
  <1>1. CASE RefreshServed
    <2>1. refresh \in Pair /\ Issued(refresh.user) \in Pair
      BY <1>1, IssuedTypes DEF RefreshServed, Pair
    <2>2. /\ UNCHANGED <<account, shown, loading, login, logins, losses, errors,
                         overtaken, strays>>
          /\ stored' = Issued(refresh.user) /\ refresh' = NoPair
          /\ pc' = [c \in Call |-> IF c \in Waiting THEN "resent" ELSE pc[c]]
          /\ carried' = [c \in Call |-> IF c \in Waiting THEN stored' ELSE carried[c]]
      BY <1>1 DEF RefreshServed
    <2>3. /\ pc' \in [Call -> {"idle", "sent", "waits", "resent"}]
          /\ carried' \in [Call -> Pair \cup {NoPair}]
      BY <2>1, <2>2
    <2>4. \A c \in Call : /\ (pc'[c] # "idle") = (pc[c] # "idle")
                          /\ pc'[c] # "waits"
      BY <2>2 DEF Waiting
    <2>5. QED
      BY <2>1, <2>2, <2>3, <2>4
  <1>2. ASSUME Fail
        PROVE  /\ refresh' = NoPair /\ carried' = carried
               /\ pc' \in [Call -> {"idle", "sent", "waits", "resent"}]
               /\ login' \in User \cup {NoUser, "me"} /\ loading' \in BOOLEAN
               /\ loading' = (pc'[Boot] # "idle") /\ (login' = "me") = (pc'[Me] # "idle")
               /\ \A c \in Call : pc'[c] # "waits"
               /\ \A c \in Call : pc'[c] # "idle" <=> pc[c] # "idle" /\ c \notin Waiting
    <2>1. /\ refresh' = NoPair /\ carried' = carried
          /\ pc' = [c \in Call |-> IF c \in Waiting THEN "idle" ELSE pc[c]]
          /\ login' = IF Me \in Waiting THEN NoUser ELSE login
          /\ loading' = (loading /\ Boot \notin Waiting)
      BY <1>2 DEF Fail
    <2>2. /\ pc' \in [Call -> {"idle", "sent", "waits", "resent"}]
          /\ \A c \in Call : /\ pc'[c] # "waits"
                             /\ pc'[c] # "idle" <=> pc[c] # "idle" /\ c \notin Waiting
      BY <2>1 DEF Waiting
    <2>3. loading' = (pc'[Boot] # "idle")
      BY <2>1, <2>2
    <2>4. (login' = "me") = (pc'[Me] # "idle")
      BY <2>1, <2>2 DEF Waiting
    <2>5. QED
      BY <2>1, <2>2, <2>3, <2>4
  <1>3. CASE RefreshRefused
    <2>1. /\ Fail /\ stored' = NoPair /\ UNCHANGED <<account, logins, losses>>
          /\ shown' \in User \cup {NoUser} /\ errors' \in 0..MaxErrors
          /\ overtaken' \in BOOLEAN /\ strays' = {c \in Call : pc'[c] # "idle"}
      BY <1>3 DEF RefreshRefused, AskedWho
    <2>2. QED
      BY <1>2, <2>1
  <1>4. CASE RefreshLost
    <2>1. /\ Fail /\ UNCHANGED <<account, logins, errors>> /\ losses' \in 0..MaxLosses
      BY <1>4 DEF RefreshLost
    <2>2. /\ stored' \in Pair \cup {NoPair} /\ shown' \in User \cup {NoUser}
          /\ overtaken' \in BOOLEAN
      BY <1>4 DEF RefreshLost, DropSession, AskedWho
    <2>3. strays' \subseteq {c \in Call : pc'[c] # "idle"}
      <3>1. strays' = {c \in Call : pc'[c] # "idle"} \/ strays' = strays \ Waiting
        BY <1>4 DEF RefreshLost, DropSession
      <3>2. QED
        BY <1>2, <2>1, <3>1
    <2>4. QED
      BY <1>2, <2>1, <2>2, <2>3
  <1>5. QED
    BY <1>1, <1>3, <1>4 DEF RefreshAnswer

\* Steps of the pages, the accounts and the clock.
LEMMA PageTypes ==
  ASSUME ClientSessionAssumption, TypeOK,
         \/ \E u \in User : CreateUser(u) \/ Disable(u) \/ Login(u)
         \/ \E c \in Slot : Send(c)
         \/ LoginAnswered \/ LoginRefused \/ Reload \/ Logout \/ TimePasses
  PROVE  TypeOK'
  <1> USE DEF TypeOK, ClientSessionAssumption, Call, pageVars, callVars, boundVars, histVars
  <1>1. ASSUME NEW u \in User, CreateUser(u) \/ Disable(u) PROVE TypeOK'
    BY <1>1 DEF CreateUser, Disable
  <1>2. ASSUME NEW u \in User, Login(u) PROVE TypeOK'
    BY <1>2 DEF Login
  <1>3. ASSUME NEW c \in Slot, Send(c) PROVE TypeOK'
    BY <1>3 DEF Send
  <1>4. CASE LoginAnswered
    BY <1>4, IssuedTypes DEF LoginAnswered
  <1>5. CASE LoginRefused
    BY <1>5 DEF LoginRefused
  <1>6. CASE Reload
    BY <1>6 DEF Reload, Idle, Empty
  <1>7. CASE Logout
    BY <1>7 DEF Logout, DropSession, AskedWho
  <1>8. CASE TimePasses
    BY <1>8, AgedTypes DEF TimePasses
  <1>9. QED
    BY <1>1, <1>2, <1>3, <1>4, <1>5, <1>6, <1>7, <1>8

\* Every step keeps the types.
LEMMA NextTypeOK == ASSUME ClientSessionAssumption, TypeOK, [Next]_vars PROVE TypeOK'
  <1>1. CASE UNCHANGED vars
    BY <1>1 DEF TypeOK, vars, pageVars, callVars, boundVars, histVars
  <1>2. QED
    BY <1>1, CallTypes, RefreshTypes, PageTypes DEF Next

\* And the tab starts well typed.
LEMMA InitTypeOK == ASSUME ClientSessionAssumption, Init PROVE TypeOK
  <1>1. /\ pc \in [Call -> {"idle", "sent", "waits", "resent"}]
        /\ carried \in [Call -> Pair \cup {NoPair}]
        /\ \A c \in Call : pc[c] = "idle"
    BY DEF Init, Idle, Empty
  <1>2. Boot \in Call /\ Me \in Call
    BY DEF Call
  <1>3. /\ account \in [User -> {"none", "active", "disabled"}]
        /\ logins \in 0..MaxLogins /\ losses \in 0..MaxLosses /\ errors \in 0..MaxErrors
    BY DEF Init, ClientSessionAssumption
  <1>4. QED
    BY <1>1, <1>2, <1>3 DEF Init, TypeOK, ClientSessionAssumption

-----------------------------------------------------------------------------
(* One session.                                                             *)

\* When the session is dropped nothing of it is left, or it was overtaken.
LEMMA DropEnds ==
  ASSUME TypeOK', DropSession
  PROVE  OneSession' /\ StraysAreKnown'
  <1>1. /\ stored' = NoPair /\ shown' = NoUser /\ strays' = {c \in Call : pc'[c] # "idle"}
        /\ ~overtaken' => /\ refresh' = NoPair
                          /\ pc'[Boot] = "idle" /\ pc'[Me] = "idle"
    BY DEF DropSession, AskedWho
  <1>2. ~overtaken' => ~loading' /\ login' # "me"
    BY <1>1 DEF TypeOK
  <1>3. OneSession'
    BY <1>1, <1>2 DEF OneSession
  <1>4. StraysAreKnown'
    BY <1>1 DEF StraysAreKnown, Call
  <1>5. QED
    BY <1>3, <1>4

\* What the end of a call leaves.
LEMMA OverLeaves ==
  ASSUME TypeOK, NEW c \in Call, pc[c] \in {"sent", "resent"}, Over(c), UNCHANGED refresh,
         RefreshIsShared
  PROVE  /\ RefreshIsShared'
         /\ pc'[c] = "idle"
         /\ \A d \in Call \ {c} : pc'[d] = pc[d] /\ carried'[d] = carried[d]
  BY DEF TypeOK, Over, RefreshIsShared

\* Steps of the calls keep to one session.
LEMMA CallSession ==
  ASSUME ClientSessionAssumption, IInv, TypeOK', NEW c \in Call, Answer(c)
  PROVE  RefreshIsShared' /\ OneSession' /\ StraysAreKnown'
  <1> USE DEF IInv
  <1>1. CASE Served(c)
    <2>1. /\ Over(c) /\ pc[c] \in {"sent", "resent"} /\ strays' = strays \ {c}
          /\ shown' = IF c \in {Boot, Me} THEN carried[c].user ELSE shown
          /\ UNCHANGED <<account, stored, refresh, overtaken>>
      BY <1>1 DEF Served
    <2>2. /\ RefreshIsShared' /\ pc'[c] = "idle"
          /\ \A d \in Call \ {c} : pc'[d] = pc[d] /\ carried'[d] = carried[d]
      BY <2>1, OverLeaves
    <2>3. carried[c].user \in User
      BY <1>1, AuthorizedTypes DEF Served
    <2>4. CASE c \in Slot
      <3>1. /\ c \notin {Boot, Me} /\ shown' = shown /\ login' = login /\ loading' = loading
            /\ Boot \in Call /\ Me \in Call
        <4>1. c # Boot /\ c # Me /\ loading \in BOOLEAN
          BY <2>4 DEF ClientSessionAssumption, TypeOK
        <4>2. QED
          BY <2>1, <4>1 DEF Over, Call
      <3>2. OneSession'
        BY <2>1, <2>2, <3>1 DEF OneSession
      <3>3. StraysAreKnown'
        BY <2>1, <2>2, <3>1 DEF StraysAreKnown, Call
      <3>4. QED
        BY <2>2, <3>2, <3>3
    <2>5. CASE c \in {Boot, Me}
      <3>1. /\ shown' = carried[c].user /\ shown' # NoUser
            /\ \A d \in Slot : d # c /\ d \in Call
            /\ Boot \in Call /\ Me \in Call
        BY <2>1, <2>3, <2>5 DEF ClientSessionAssumption, Call
      <3>2. StraysAreKnown'
        BY <2>1, <2>2, <3>1 DEF StraysAreKnown
      <3>3. OneSession'
        <4> SUFFICES ASSUME ~overtaken PROVE OneSession'
          BY <2>1 DEF OneSession
        <4>1. stored # NoPair /\ carried[c].user = stored.user
          BY <2>1, <2>5 DEF OneSession
        <4>2. ~loading' /\ login' = NoUser
          <5>1. CASE c = Boot
            BY <2>1, <5>1 DEF OneSession, Over, TypeOK, ClientSessionAssumption
          <5>2. CASE c = Me
            <6>1. login = "me"
              BY <2>1, <5>2 DEF TypeOK
            <6>2. ~loading
              BY <6>1 DEF OneSession, ClientSessionAssumption
            <6>3. QED
              BY <2>1, <5>2, <6>2 DEF Over
          <5>3. QED
            BY <2>5, <5>1, <5>2
        <4>3. \A d \in {Boot, Me} : pc'[d] = "idle"
          BY <4>2 DEF TypeOK, ClientSessionAssumption
        <4>4. refresh' # NoPair => refresh' = stored'
          BY <2>1 DEF OneSession
        <4>5. QED
          BY <2>1, <3>1, <4>1, <4>2, <4>3, <4>4 DEF OneSession
      <3>4. QED
        BY <2>2, <3>2, <3>3
    <2>6. QED
      BY <2>4, <2>5 DEF Call
  <1>2. CASE FirstUnauthorized(c) /\ refresh = NoPair /\ stored = NoPair
    <2>1. Over(c) /\ DropSession /\ UNCHANGED refresh /\ pc[c] = "sent"
      BY <1>2 DEF FirstUnauthorized
    <2>2. QED
      BY <2>1, OverLeaves, DropEnds
  <1>3. CASE FirstUnauthorized(c) /\ ~(refresh = NoPair /\ stored = NoPair)
    <2>1. /\ pc[c] = "sent" /\ refresh' = IF refresh = NoPair THEN stored ELSE refresh
          /\ pc' = [pc EXCEPT ![c] = "waits"] /\ carried' = [carried EXCEPT ![c] = NoPair]
          /\ UNCHANGED <<stored, shown, loading, login, overtaken, strays>>
      BY <1>3 DEF FirstUnauthorized, pageVars, histVars
    <2>2. /\ pc'[c] = "waits"
          /\ \A d \in Call \ {c} : pc'[d] = pc[d] /\ carried'[d] = carried[d]
      BY <2>1 DEF TypeOK
    <2>3. RefreshIsShared'
      BY <2>2 DEF RefreshIsShared
    <2>4. OneSession'
      BY <2>1, <2>2 DEF OneSession, Call
    <2>5. StraysAreKnown'
      BY <2>1, <2>2 DEF StraysAreKnown, Call
    <2>6. QED
      BY <2>3, <2>4, <2>5
  <1>4. CASE SecondUnauthorized(c)
    BY <1>4, OverLeaves, DropEnds DEF SecondUnauthorized
  <1>5. CASE CallLost(c) /\ c = Boot
    BY <1>5, OverLeaves, DropEnds DEF CallLost
  <1>6. CASE CallLost(c) /\ c # Boot
    <2>1. /\ Over(c) /\ pc[c] \in {"sent", "resent"} /\ strays' = strays \ {c}
          /\ overtaken' = (overtaken \/ c = Me)
          /\ UNCHANGED <<account, stored, refresh, shown>>
      BY <1>6 DEF CallLost
    <2>2. /\ RefreshIsShared' /\ pc'[c] = "idle"
          /\ \A d \in Call \ {c} : pc'[d] = pc[d] /\ carried'[d] = carried[d]
      BY <2>1, OverLeaves
    <2>3. StraysAreKnown'
      BY <2>1, <2>2 DEF StraysAreKnown, Call
    <2>4. OneSession'
      <3> SUFFICES ASSUME ~overtaken' PROVE OneSession'
        BY DEF OneSession
      <3>1. ~overtaken /\ c # Me /\ login' = login /\ loading' = loading
        BY <1>6, <2>1 DEF Over, TypeOK
      <3>2. \A d \in {Boot, Me} : pc'[d] = pc[d] /\ carried'[d] = carried[d]
        BY <1>6, <2>2, <3>1 DEF Call
      <3>3. QED
        BY <2>1, <3>1, <3>2 DEF OneSession
    <2>5. QED
      BY <2>2, <2>3, <2>4
  <1>7. QED
    BY <1>1, <1>2, <1>3, <1>4, <1>5, <1>6 DEF Answer

\* What a failed refresh leaves.
LEMMA FailLeaves ==
  ASSUME TypeOK, RefreshIsShared, Fail
  PROVE  /\ RefreshIsShared' /\ refresh' = NoPair
         /\ \A c \in Call : /\ carried'[c] = carried[c]
                            /\ c \notin Waiting => pc'[c] = pc[c]
                            /\ pc'[c] # "idle" => c \notin Waiting
  <1>1. /\ refresh' = NoPair /\ carried' = carried
        /\ \A c \in Call : pc'[c] = IF c \in Waiting THEN "idle" ELSE pc[c]
    BY DEF Fail
  <1>2. QED
    BY <1>1 DEF RefreshIsShared

\* Steps of the refresh keep to one session.
LEMMA RefreshSession ==
  ASSUME ClientSessionAssumption, IInv, TypeOK', RefreshAnswer
  PROVE  RefreshIsShared' /\ OneSession' /\ StraysAreKnown'
  <1> USE DEF IInv
  <1>1. CASE RefreshServed
    <2>1. /\ stored' = Issued(refresh.user) /\ refresh' = NoPair /\ refresh # NoPair
          /\ \A c \in Call :
               /\ pc'[c] = IF c \in Waiting THEN "resent" ELSE pc[c]
               /\ carried'[c] = IF c \in Waiting THEN stored' ELSE carried[c]
          /\ UNCHANGED <<shown, loading, login, overtaken, strays>>
      BY <1>1 DEF RefreshServed, pageVars, histVars
    <2>2. /\ stored' # NoPair /\ stored'.user = refresh.user /\ stored'.age = 0
      <3>1. refresh.user \in User
        BY <2>1 DEF TypeOK, Pair
      <3>2. QED
        BY <2>1, <3>1, IssuedTypes
    <2>3. RefreshIsShared'
      BY <2>1, <2>2 DEF RefreshIsShared
    <2>4. ~overtaken => stored # NoPair /\ stored'.user = stored.user
      BY <2>1, <2>2 DEF OneSession
    <2>5. OneSession'
      <3>1. \A c \in {Boot, Me} : c \in Call
        BY DEF Call
      <3>2. ~overtaken => ~(shown = NoUser /\ ~loading /\ login # "me")
        BY <2>1 DEF OneSession
      <3>3. QED
        BY <2>1, <2>2, <2>4, <3>1, <3>2 DEF OneSession, Waiting
    <2>6. StraysAreKnown'
      <3>1. \A c \in Slot : c \in Call
        BY DEF Call
      <3>2. QED
        BY <2>1, <2>2, <2>4, <3>1 DEF StraysAreKnown, Waiting
    <2>7. QED
      BY <2>3, <2>5, <2>6
  <1>2. CASE RefreshRefused
    <2>1. /\ Fail /\ stored' = NoPair /\ shown' = NoUser
          /\ overtaken' = (overtaken \/ AskedWho')
          /\ strays' = {c \in Call : pc'[c] # "idle"}
      <3>1. Waiting # {}
        BY <1>2 DEF RefreshRefused, RefreshIsShared, Waiting
      <3>2. QED
        BY <1>2, <3>1 DEF RefreshRefused
    <2>2. DropSession
      BY <2>1, FailLeaves DEF DropSession
    <2>3. QED
      BY <2>1, <2>2, FailLeaves, DropEnds
  <1>3. CASE RefreshLost /\ Boot \in Waiting
    BY <1>3, FailLeaves, DropEnds DEF RefreshLost
  <1>4. CASE RefreshLost /\ Boot \notin Waiting
    <2>1. /\ Fail /\ UNCHANGED <<stored, shown>> /\ strays' = strays \ Waiting
          /\ overtaken' = (overtaken \/ Me \in Waiting)
      BY <1>4 DEF RefreshLost
    <2>2. /\ RefreshIsShared' /\ refresh' = NoPair
          /\ \A c \in Call : /\ carried'[c] = carried[c]
                             /\ c \notin Waiting => pc'[c] = pc[c]
                             /\ pc'[c] # "idle" => c \notin Waiting
      BY <2>1, FailLeaves
    <2>3. StraysAreKnown'
      BY <2>1, <2>2 DEF StraysAreKnown, Call
    <2>4. OneSession'
      <3> SUFFICES ASSUME ~overtaken' PROVE OneSession'
        BY DEF OneSession
      <3>1. ~overtaken /\ Me \notin Waiting /\ login' = login /\ loading' = loading
        BY <1>4, <2>1 DEF Fail, TypeOK
      <3>2. \A d \in {Boot, Me} : pc'[d] = pc[d] /\ carried'[d] = carried[d]
        BY <1>4, <2>2, <3>1 DEF Call
      <3>3. QED
        BY <2>1, <2>2, <3>1, <3>2 DEF OneSession
    <2>5. QED
      BY <2>2, <2>3, <2>4
  <1>5. QED
    BY <1>1, <1>2, <1>3, <1>4 DEF RefreshAnswer

\* Steps of the pages, the accounts and the clock keep to one session.
LEMMA PageSession ==
  ASSUME ClientSessionAssumption, IInv, TypeOK',
         \/ \E u \in User : CreateUser(u) \/ Disable(u) \/ Login(u)
         \/ \E c \in Slot : Send(c)
         \/ LoginAnswered \/ LoginRefused \/ Reload \/ Logout \/ TimePasses
  PROVE  RefreshIsShared' /\ OneSession' /\ StraysAreKnown'
  <1> USE DEF IInv
  <1>1. ASSUME NEW u \in User, CreateUser(u) \/ Disable(u)
        PROVE  RefreshIsShared' /\ OneSession' /\ StraysAreKnown'
    BY <1>1 DEF CreateUser, Disable, pageVars, callVars, histVars, RefreshIsShared, OneSession,
                StraysAreKnown
  <1>2. ASSUME NEW u \in User, Login(u)
        PROVE  RefreshIsShared' /\ OneSession' /\ StraysAreKnown'
    BY <1>2 DEF Login, callVars, RefreshIsShared, OneSession, StraysAreKnown,
                ClientSessionAssumption
  <1>3. ASSUME NEW c \in Slot, Send(c)
        PROVE  RefreshIsShared' /\ OneSession' /\ StraysAreKnown'
    <2>1. /\ shown # NoUser /\ pc[c] = "idle" /\ c \in Call
          /\ pc' = [pc EXCEPT ![c] = "sent"] /\ carried' = [carried EXCEPT ![c] = stored]
          /\ UNCHANGED <<stored, shown, loading, login, refresh, overtaken, strays>>
      BY <1>3 DEF Send, Call, pageVars, histVars
    <2>2. /\ pc'[c] = "sent" /\ carried'[c] = stored
          /\ \A d \in Call \ {c} : pc'[d] = pc[d] /\ carried'[d] = carried[d]
      BY <2>1 DEF TypeOK
    <2>3. RefreshIsShared'
      BY <2>1, <2>2 DEF RefreshIsShared
    <2>4. OneSession'
      <3>1. \A d \in {Boot, Me} : pc'[d] = pc[d] /\ carried'[d] = carried[d]
        BY <2>2 DEF Call, ClientSessionAssumption
      <3>2. QED
        BY <2>1, <3>1 DEF OneSession
    <2>5. StraysAreKnown'
      BY <2>1, <2>2 DEF StraysAreKnown, OneSession, Call
    <2>6. QED
      BY <2>3, <2>4, <2>5
  <1>4. CASE LoginAnswered
    <2>1. /\ login \in User /\ stored' = Issued(login) /\ login' = "me"
          /\ pc' = [pc EXCEPT ![Me] = "sent"]
          /\ carried' = [carried EXCEPT ![Me] = Issued(login)]
          /\ overtaken' = (overtaken /\ (refresh # NoPair \/ loading \/ shown # NoUser))
          /\ UNCHANGED <<shown, loading, refresh, strays>>
      BY <1>4 DEF LoginAnswered
    <2>2. /\ Me \in Call /\ pc'[Me] = "sent" /\ carried'[Me] = stored'
          /\ \A d \in Call \ {Me} : pc'[d] = pc[d] /\ carried'[d] = carried[d]
      BY <2>1 DEF TypeOK, Call
    <2>3. /\ login # "me" /\ login # NoUser /\ pc[Me] = "idle"
          /\ stored' # NoPair
      BY <2>1, IssuedTypes DEF TypeOK, ClientSessionAssumption
    <2>4. RefreshIsShared'
      BY <2>1, <2>2, <2>3 DEF RefreshIsShared
    <2>5. ~overtaken' => refresh = NoPair /\ ~loading /\ shown = NoUser
      BY <2>1, <2>3 DEF OneSession
    <2>6. OneSession'
      <3>1. ~overtaken' => pc'[Boot] = "idle"
        BY <2>1, <2>5 DEF TypeOK
      <3>2. QED
        BY <2>1, <2>2, <2>3, <2>5, <3>1 DEF OneSession
    <2>7. StraysAreKnown'
      <3>1. \A d \in Slot : pc'[d] = pc[d]
        BY <2>2 DEF Call, ClientSessionAssumption
      <3>2. QED
        BY <2>1, <2>5, <3>1 DEF StraysAreKnown
    <2>8. QED
      BY <2>4, <2>6, <2>7
  <1>5. CASE LoginRefused
    BY <1>5 DEF LoginRefused, callVars, histVars, RefreshIsShared, OneSession,
                StraysAreKnown, TypeOK, ClientSessionAssumption
  <1>6. CASE Reload
    <2>1. /\ shown' = NoUser /\ login' = NoUser /\ refresh' = NoPair
          /\ loading' = (stored # NoPair) /\ stored' = stored
          /\ \A c \in Call :
               /\ pc'[c] = IF c = Boot /\ stored # NoPair THEN "sent" ELSE "idle"
               /\ carried'[c] = IF c = Boot THEN stored ELSE NoPair
      BY <1>6 DEF Reload, Idle, Empty
    <2>2. RefreshIsShared'
      BY <2>1 DEF RefreshIsShared
    <2>3. OneSession'
      BY <2>1 DEF OneSession, Call
    <2>4. StraysAreKnown'
      BY <2>1 DEF StraysAreKnown, Call, ClientSessionAssumption
    <2>5. QED
      BY <2>2, <2>3, <2>4
  <1>7. CASE Logout
    <2>1. UNCHANGED <<refresh, pc, carried>> /\ DropSession
      BY <1>7 DEF Logout, callVars
    <2>2. RefreshIsShared'
      BY <2>1 DEF RefreshIsShared
    <2>3. QED
      BY <2>1, <2>2, DropEnds
  <1>8. CASE TimePasses
    <2>1. /\ stored' = Aged(stored) /\ refresh' = Aged(refresh)
          /\ \A c \in Call : /\ carried'[c] = Aged(carried[c])
                             /\ carried[c] \in Pair \cup {NoPair}
                             /\ pc[c] = "resent" => carried[c].age # 0
          /\ stored \in Pair \cup {NoPair} /\ refresh \in Pair \cup {NoPair}
          /\ UNCHANGED <<shown, loading, login, pc, overtaken, strays>>
      BY <1>8 DEF TimePasses, TypeOK, pageVars, histVars
    <2>2. \A c \in Call : pc[c] # "resent"
      BY <2>1 DEF RefreshIsShared
    <2>3. /\ stored' = NoPair <=> stored = NoPair
          /\ refresh' = NoPair <=> refresh = NoPair
          /\ stored # NoPair => stored'.user = stored.user
          /\ \A c \in Call : /\ carried'[c] = NoPair <=> carried[c] = NoPair
                             /\ carried[c] # NoPair => carried'[c].user = carried[c].user
      BY <2>1, AgedTypes
    <2>4. RefreshIsShared'
      BY <2>1, <2>2, <2>3 DEF RefreshIsShared
    <2>5. OneSession'
      <3>1. \A c \in {Boot, Me} : c \in Call
        BY DEF Call
      <3>2. ~overtaken /\ refresh' # NoPair => refresh' = stored'
        BY <2>1, <2>3 DEF OneSession
      <3>3. QED
        BY <2>1, <2>3, <3>1, <3>2 DEF OneSession
    <2>6. StraysAreKnown'
      <3>1. \A c \in Slot : c \in Call
        BY DEF Call
      <3>2. QED
        BY <2>1, <2>3, <3>1 DEF StraysAreKnown
    <2>7. QED
      BY <2>4, <2>5, <2>6
  <1>9. QED
    BY <1>1, <1>2, <1>3, <1>4, <1>5, <1>6, <1>7, <1>8

-----------------------------------------------------------------------------
\* The tab starts with nothing under way.
LEMMA InitIInv == ClientSessionAssumption /\ Init => IInv
  <1> SUFFICES ASSUME ClientSessionAssumption, Init PROVE IInv
    OBVIOUS
  <1>1. /\ stored = NoPair /\ shown = NoUser /\ loading = FALSE /\ login = NoUser
        /\ refresh = NoPair /\ Boot \in Call /\ Me \in Call
        /\ \A c \in Call : pc[c] = "idle"
    BY DEF Init, Idle, Call
  <1>2. RefreshIsShared /\ StraysAreKnown
    BY <1>1 DEF RefreshIsShared, StraysAreKnown, Call
  <1>3. OneSession
    BY <1>1 DEF OneSession, Call, ClientSessionAssumption
  <1>4. QED
    BY <1>2, <1>3, InitTypeOK DEF IInv

\* Every step keeps the invariant.
LEMMA NextIInv == ASSUME ClientSessionAssumption, IInv, [Next]_vars PROVE IInv'
  <1>1. TypeOK'
    BY NextTypeOK DEF IInv
  <1>2. CASE UNCHANGED vars
    BY <1>1, <1>2 DEF IInv, RefreshIsShared, OneSession, StraysAreKnown, vars, pageVars,
                      callVars, histVars
  <1>3. QED
    BY <1>1, <1>2, CallSession, RefreshSession, PageSession DEF Next, IInv

(* The invariant behind the theorems below.                                 *)
THEOREM Invariant == Spec => []IInv
  <1>1. Init => IInv
    BY ClientSessionAssumption, InitIInv
  <1>2. IInv /\ [Next]_vars => IInv'
    BY ClientSessionAssumption, NextIInv
  <1>3. QED
    BY <1>1, <1>2, PTL DEF Spec

(* Tokens, calls, pages and history stay within their types, a bootstrap    *)
(* and a login are over when their call of /auth/me is, and whoever waits   *)
(* for the shared refresh waits for one that is in flight (lib/api.ts).     *)
THEOREM TypeCorrect == Spec => []TypeOK
  <1>1. IInv => TypeOK
    BY DEF IInv
  <1>2. QED
    BY <1>1, Invariant, PTL

(* The tokens in the storage and the user on the page are those of one      *)
(* session, for any number of calls that share a refresh, and nothing is    *)
(* left in the storage when nobody is shown (lib/auth.tsx, lib/tokens.ts).  *)
THEOREM TokensAlwaysFitPage == Spec => []TokensFitPage
  <1>1. IInv => TokensFitPage
    BY DEF IInv, OneSession, TokensFitPage, ShownIsStored, LoggedOutIsClean
  <1>2. QED
    BY <1>1, Invariant, PTL

\* A call of the session itself is refused twice only if its account is not
\* active: its token is fresh.
LEMMA RefusedTwice ==
  ASSUME ClientSessionAssumption, IInv, NEW c \in Call, SecondUnauthorized(c),
         shown # NoUser, ~overtaken, c \notin strays
  PROVE  account[shown] # "active"
  <1>1. pc[c] = "resent" /\ ~Authorized(carried[c])
    BY DEF SecondUnauthorized
  <1>2. carried[c] # NoPair /\ carried[c].age = 0
    BY <1>1 DEF IInv, RefreshIsShared
  <1>3. carried[c].user = stored.user
    BY <1>1 DEF IInv, OneSession, StraysAreKnown, Call
  <1>4. stored.user = shown
    BY DEF IInv, OneSession
  <1>5. QED
    BY <1>1, <1>2, <1>3, <1>4 DEF Authorized

\* What hides the user from the page.
LEMMA WhoHides ==
  ASSUME ClientSessionAssumption, IInv, Next, shown # NoUser, shown' = NoUser, ~overtaken
  PROVE  \/ Logout \/ Reload
         \/ \E c \in strays : SecondUnauthorized(c)
         \/ account[shown] # "active" \/ stored.age = 2
         \/ errors' # errors
  <1>1. /\ ~loading /\ login # "me" /\ stored # NoPair /\ stored.user = shown
        /\ refresh # NoPair => refresh = stored
        /\ pc[Boot] = "idle" /\ pc[Me] = "idle" /\ Boot \in Call /\ Me \in Call
    BY DEF IInv, OneSession, TypeOK, ClientSessionAssumption, Call
  <1>2. ASSUME NEW c \in Call, Answer(c)
        PROVE  (\E d \in strays : SecondUnauthorized(d)) \/ account[shown] # "active"
    <2>1. CASE Served(c)
      BY <1>1, <2>1 DEF Served
    <2>2. CASE FirstUnauthorized(c)
      BY <1>1, <2>2 DEF FirstUnauthorized, pageVars
    <2>3. CASE SecondUnauthorized(c)
      BY <2>3, RefusedTwice
    <2>4. CASE CallLost(c)
      BY <1>1, <2>4 DEF CallLost
    <2>5. QED
      BY <1>2, <2>1, <2>2, <2>3, <2>4 DEF Answer
  <1>3. CASE RefreshServed \/ RefreshLost
    BY <1>1, <1>3 DEF RefreshServed, RefreshLost, Waiting, pageVars
  <1>4. CASE RefreshRefused
    <2>1. CASE Refreshable(refresh)
      <3>1. errors' = errors + 1 /\ errors \in Nat
        BY <1>4, <2>1 DEF RefreshRefused, IInv, TypeOK, ClientSessionAssumption
      <3>2. QED
        BY <3>1
    <2>2. CASE ~Refreshable(refresh)
      <3>1. refresh = stored /\ stored \in Pair
        BY <1>1, <1>4 DEF RefreshRefused, IInv, TypeOK
      <3>2. ~(stored.age < 2) => stored.age = 2
        BY <3>1 DEF Pair
      <3>3. QED
        BY <1>1, <2>2, <3>1, <3>2 DEF Refreshable
    <2>3. QED
      BY <2>1, <2>2
  <1>5. ASSUME NEW u \in User, CreateUser(u) \/ Disable(u) \/ Login(u) PROVE FALSE
    BY <1>5 DEF CreateUser, Disable, Login, pageVars
  <1>6. ASSUME NEW c \in Slot, Send(c) PROVE FALSE
    BY <1>6 DEF Send, pageVars
  <1>7. CASE LoginAnswered \/ LoginRefused \/ TimePasses
    BY <1>7 DEF LoginAnswered, LoginRefused, TimePasses, pageVars
  <1>8. QED
    BY <1>2, <1>3, <1>4, <1>5, <1>6, <1>7 DEF Next, RefreshAnswer

(* A session ends only because the user ends it or reloads the tab, because *)
(* the account or the refresh token is no longer good, because the API      *)
(* answered a refresh with an error, or because a call of the session       *)
(* before it was refused: never because an answer was lost, or any number   *)
(* of calls met an expired access token together (apiFetch, refreshOnce).   *)
THEOREM SessionAlwaysSurvives == Spec => SessionSurvives
  <1> DEFINE A == (shown # NoUser /\ shown' = NoUser /\ ~overtaken) =>
                    \/ Logout \/ Reload
                    \/ \E c \in strays : SecondUnauthorized(c)
                    \/ account[shown] # "active" \/ stored.age = 2
                    \/ errors' # errors
  <1>1. IInv /\ [Next]_vars => A
    <2>1. IInv /\ Next => A
      BY ClientSessionAssumption, WhoHides
    <2>2. UNCHANGED vars => A
      BY DEF vars, pageVars
    <2>3. QED
      BY <2>1, <2>2
  <1> HIDE DEF A
  <1>2. Spec => [][A]_vars
    BY <1>1, Invariant, PTL DEF Spec
  <1>3. QED
    BY <1>2 DEF A, SessionSurvives
=============================================================================
