--------------------------- MODULE SessionsProofs ---------------------------
(***************************************************************************)
(* Theorems about Sessions, for any number of users, browsers, providers   *)
(* and requests, overlapping or not, and for any lifetimes.                *)
(***************************************************************************)
EXTENDS Sessions, TLAPS

(* What a token says of its user, given the logins and when they were       *)
(* removed: the user exists, has a login by e-mail if the token says so, and*)
(* any other login that is gone went after the token was signed.            *)
Speaks(t, now, gone) ==
    /\ now[t.sub] # {}
    /\ EmailAndPassword \in t.accounts <=> EmailAndPassword \in now[t.sub]
    /\ \A p \in Providers :
          /\ p \in t.accounts
          /\ p \notin now[t.sub]
          => gone[t.sub][p] + t.ttl <= AccessLifetime
Paired(a, b) == b.sub = a.sub /\ b.ttl >= a.ttl

CookieTokens ==
    \A c \in Clients :
        /\ access[c] # None => Speaks(access[c], logins, removed)
        /\ refresh[c] # None => logins[refresh[c].sub] # {}
TokensOnTheirWay ==
    \A r \in Requests : InFlight(r) =>
        /\ Speaks(reqs[r].tokens.access, logins, removed)
        /\ Paired(reqs[r].tokens.access, reqs[r].tokens.refresh)

TokenInv == TypeOK /\ TokensTogether /\ CookieTokens /\ TokensOnTheirWay

(* Logins are added, and none by e-mail to a user that exists.              *)
Grows(before, after) ==
    \A u \in Users : before[u] # {} =>
        /\ before[u] \subseteq after[u]
        /\ EmailAndPassword \in after[u] <=> EmailAndPassword \in before[u]

-----------------------------------------------------------------------------
LEMMA FreshTokens ==
    ASSUME NEW u \in Users, NEW accounts \in SUBSET LoginProvider
    PROVE  /\ Tokens(u, accounts) \in TokenPair
           /\ Paired(Tokens(u, accounts).access, Tokens(u, accounts).refresh)
           /\ Tokens(u, accounts).access =
                [sub |-> u, accounts |-> accounts, ttl |-> AccessLifetime]
BY SessionsAssumption DEF Tokens, TokenPair, AccessToken, RefreshToken, Paired

LEMMA AnswerType ==
    ASSUME NEW c \in Clients, NEW tokens \in TokenPair \cup {Clear, None},
           NEW p \in Providers \cup {None}, NEW password \in BOOLEAN
    PROVE  [phase |-> "answer", client |-> c, tokens |-> tokens, state |-> p,
            password |-> password] \in Answer
BY DEF Answer

LEMMA RequestTypes ==
    ASSUME TypeOK, NEW r \in Requests
    PROVE  /\ reqs[r] \in Answer \cup Connecting \cup {Idle}
           /\ reqs[r].phase = "connect" => reqs[r] \in Connecting
           /\ reqs[r].phase = "answer" => reqs[r] \in Answer
           /\ InFlight(r) => reqs[r] \in Answer /\ reqs[r].tokens \in TokenPair
<1>1. reqs[r] \in Answer \cup Connecting \cup {Idle}
  BY DEF TypeOK
<1>2. \A q \in Answer : q.phase = "answer"
  BY DEF Answer
<1>3. \A q \in Connecting : q.phase = "connect"
  BY DEF Connecting
<1>4. Idle.phase = "idle"
  BY DEF Idle
<1>5. \A q \in Answer : q.tokens \in TokenPair \cup {Clear, None}
  BY DEF Answer
<1> QED
  BY <1>1, <1>2, <1>3, <1>4, <1>5 DEF InFlight

(* A token goes on speaking of its user when logins are added.              *)
LEMMA SpeaksOn ==
    ASSUME NEW t \in AccessToken, NEW before, NEW after, NEW gone,
           Grows(before, after), Speaks(t, before, gone)
    PROVE  Speaks(t, after, gone)
<1>1. t.sub \in Users
  BY DEF AccessToken
<1> QED
  BY <1>1 DEF Speaks, Grows

(* A new token speaks of its user.                                          *)
LEMMA SpeaksNew ==
    ASSUME NEW u \in Users, NEW now, NEW gone, now[u] # {}
    PROVE  Speaks(Tokens(u, now[u]).access, now, gone)
BY DEF Speaks, Tokens

(* A step in which browsers keep their tokens, and in which answers on their*)
(* way stay or carry new tokens.                                            *)
LEMMA BrowsersKeepTokens ==
    ASSUME TokenInv, TypeOK', Grows(logins, logins'),
           UNCHANGED <<removed, access, refresh>>,
           \A r \in Requests : InFlight(r)' =>
              \/ reqs'[r] = reqs[r]
              \/ /\ Speaks(reqs'[r].tokens.access, logins', removed)
                 /\ Paired(reqs'[r].tokens.access, reqs'[r].tokens.refresh)
    PROVE  TokenInv'
<1>1. TokensTogether'
  BY DEF TokenInv, TokensTogether
<1>2. CookieTokens'
  <2> SUFFICES ASSUME NEW c \in Clients
               PROVE  /\ access[c] # None => Speaks(access[c], logins', removed)
                      /\ refresh[c] # None => logins'[refresh[c].sub] # {}
    BY DEF CookieTokens
  <2>1. access[c] # None => Speaks(access[c], logins', removed)
    BY SpeaksOn DEF TokenInv, TypeOK, CookieTokens
  <2>2. refresh[c] # None => refresh[c].sub \in Users /\ logins[refresh[c].sub] # {}
    BY DEF TokenInv, TypeOK, CookieTokens, RefreshToken
  <2> QED
    BY <2>1, <2>2 DEF Grows
<1>3. TokensOnTheirWay'
  <2> SUFFICES ASSUME NEW r \in Requests, InFlight(r)'
               PROVE  /\ Speaks(reqs'[r].tokens.access, logins', removed)
                      /\ Paired(reqs'[r].tokens.access, reqs'[r].tokens.refresh)
    BY DEF TokensOnTheirWay
  <2>1. CASE reqs'[r] = reqs[r]
    <3>1. InFlight(r)
      BY <2>1 DEF InFlight
    <3>2. reqs[r].tokens.access \in AccessToken
      BY <3>1, RequestTypes DEF TokenInv, TokenPair
    <3> QED
      BY <2>1, <3>1, <3>2, SpeaksOn DEF TokenInv, TokensOnTheirWay
  <2> QED
    BY <2>1
<1> QED
  BY <1>1, <1>2, <1>3 DEF TokenInv

(* The same for an answer with new tokens, of a user with the logins that   *)
(* it has then...                                                           *)
LEMMA ReplyTokens ==
    ASSUME TokenInv, NEW r \in Requests, NEW c \in Clients, NEW u \in Users,
           NEW p \in Providers \cup {None}, NEW password \in BOOLEAN,
           logins' \in [Users -> SUBSET LoginProvider], Grows(logins, logins'),
           logins'[u] # {},
           Reply(r, c, Tokens(u, logins'[u]), p, password),
           UNCHANGED <<removed, access, refresh, state, overlapping>>
    PROVE  TokenInv'
<1> DEFINE T == Tokens(u, logins'[u])
           A == [phase |-> "answer", client |-> c, tokens |-> T, state |-> p,
                 password |-> password]
<1>1. T \in TokenPair /\ Paired(T.access, T.refresh)
  BY FreshTokens
<1>2. A \in Answer
  BY <1>1, AnswerType
<1>3. reqs' = [reqs EXCEPT ![r] = A]
  BY DEF Reply
<1>4. reqs \in [Requests -> Answer \cup Connecting \cup {Idle}]
  BY DEF TokenInv, TypeOK
<1>5. TypeOK'
  BY <1>2, <1>3, <1>4 DEF TokenInv, TypeOK
<1>6. Speaks(T.access, logins', removed)
  BY SpeaksNew
<1>7. A.tokens = T
  OBVIOUS
<1>8. \A x \in Requests : x # r => reqs'[x] = reqs[x]
  BY <1>3, <1>4
<1>9. reqs'[r] = A
  BY <1>3, <1>4
<1> HIDE DEF T, A
<1> QED
  BY <1>1, <1>5, <1>6, <1>7, <1>8, <1>9, BrowsersKeepTokens

(* ... and for a request that becomes something without tokens.             *)
LEMMA RequestWithoutTokens ==
    ASSUME TokenInv, NEW r \in Requests, NEW q \in Answer \cup Connecting \cup {Idle},
           q.phase # "answer" \/ q.tokens \in {None, Clear},
           reqs' = [reqs EXCEPT ![r] = q],
           logins' \in [Users -> SUBSET LoginProvider], Grows(logins, logins'),
           UNCHANGED <<removed, access, refresh, state, overlapping>>
    PROVE  TokenInv'
<1>1. reqs \in [Requests -> Answer \cup Connecting \cup {Idle}]
  BY DEF TokenInv, TypeOK
<1>2. TypeOK'
  BY <1>1 DEF TokenInv, TypeOK
<1>3. \A x \in Requests : InFlight(x)' => reqs'[x] = reqs[x]
  BY <1>1 DEF InFlight
<1> QED
  BY <1>2, <1>3, BrowsersKeepTokens

-----------------------------------------------------------------------------
LEMMA TokenInit == Init => TokenInv
<1> SUFFICES ASSUME Init PROVE TokenInv
  OBVIOUS
<1>1. TypeOK
  BY SessionsAssumption DEF Init, TypeOK
<1> QED
  BY <1>1 DEF Init, TokenInv, TokensTogether, CookieTokens, TokensOnTheirWay,
              InFlight, Idle

LEMMA GrowsSame == Grows(logins, logins)
BY DEF Grows

(* Unlink: tokens signed before may speak of the login for as long as an    *)
(* access token lives.                                                      *)
LEMMA UnlinkTokens ==
    ASSUME TokenInv, NEW c \in Clients, NEW p \in Providers, Unlink(c, p)
    PROVE  TokenInv'
<1> DEFINE u == access[c].sub
<1>1. /\ u \in Users
      /\ p \in logins[u]
      /\ logins[u] # {p}
      /\ logins' = [logins EXCEPT ![u] = @ \ {p}]
      /\ removed' = [removed EXCEPT ![u][p] = 0]
      /\ UNCHANGED <<access, refresh, state, reqs, overlapping>>
  BY DEF Unlink, Permitted, Sub, TokenInv, TypeOK, AccessToken
<1> HIDE DEF u
<1>2. TypeOK'
  <2>1. logins' \in [Users -> SUBSET LoginProvider]
    BY <1>1 DEF TokenInv, TypeOK
  <2>2. removed[u] \in [Providers -> 0..AccessLifetime]
    BY <1>1 DEF TokenInv, TypeOK
  <2>3. [removed[u] EXCEPT ![p] = 0] \in [Providers -> 0..AccessLifetime]
    BY <2>2, SessionsAssumption
  <2>4. removed' \in [Users -> [Providers -> 0..AccessLifetime]]
    BY <1>1, <2>3 DEF TokenInv, TypeOK
  <2> QED
    BY <1>1, <2>1, <2>4 DEF TokenInv, TypeOK
<1>3. \A v \in Users : logins[v] # {} =>
         logins'[v] # {} /\ (EmailAndPassword \in logins'[v] <=> EmailAndPassword \in logins[v])
  BY <1>1, SessionsAssumption DEF TokenInv, TypeOK
<1>4. ASSUME NEW t \in AccessToken, Speaks(t, logins, removed)
      PROVE  Speaks(t, logins', removed')
  <2>1. t.sub \in Users /\ t.ttl \in 1..AccessLifetime
    BY DEF AccessToken
  <2>2. ASSUME NEW x \in Providers, x \in t.accounts, x \notin logins'[t.sub]
        PROVE  removed'[t.sub][x] + t.ttl <= AccessLifetime
    <3>1. CASE t.sub = u /\ x = p
      <4>1. removed'[t.sub][x] = 0
        BY <1>1, <3>1 DEF TokenInv, TypeOK
      <4> QED
        BY <4>1, <2>1, SessionsAssumption
    <3>2. CASE ~(t.sub = u /\ x = p)
      <4>1. x \notin logins[t.sub] /\ removed'[t.sub][x] = removed[t.sub][x]
        BY <1>1, <2>1, <2>2, <3>2 DEF TokenInv, TypeOK
      <4> QED
        BY <4>1, <1>4, <2>2 DEF Speaks
    <3> QED
      BY <3>1, <3>2
  <2> QED
    BY <1>3, <1>4, <2>1, <2>2 DEF Speaks
<1>5. TokensTogether'
  BY <1>1 DEF TokenInv, TokensTogether
<1>6. CookieTokens'
  <2>1. \A d \in Clients : access[d] # None => Speaks(access[d], logins', removed')
    BY <1>4 DEF TokenInv, TypeOK, CookieTokens
  <2>2. \A d \in Clients : refresh[d] # None => logins'[refresh[d].sub] # {}
    BY <1>3 DEF TokenInv, TypeOK, CookieTokens, RefreshToken
  <2> QED
    BY <1>1, <2>1, <2>2 DEF CookieTokens
<1>7. TokensOnTheirWay'
  <2>1. \A r \in Requests : InFlight(r) => reqs[r].tokens.access \in AccessToken
    BY RequestTypes DEF TokenInv, TokenPair
  <2> QED
    BY <1>1, <1>4, <2>1 DEF TokenInv, TokensOnTheirWay, InFlight
<1> QED
  BY <1>2, <1>5, <1>6, <1>7 DEF TokenInv

(* A browser that gets an answer has both of its tokens, or neither.        *)
LEMMA ReceiveTokens ==
    ASSUME TokenInv, NEW r \in Requests, Receive(r)
    PROVE  TokenInv'
<1> DEFINE q == reqs[r]
           c == q.client
<1>1. q \in Answer /\ c \in Clients /\ q.state \in Providers \cup {None}
  BY RequestTypes DEF Receive, TokenInv, Answer
<1>2. UNCHANGED <<logins, removed, overlapping>> /\ reqs' = [reqs EXCEPT ![r] = Idle]
  BY DEF Receive
<1>3. state' \in [Clients -> [Providers -> 0..StateLifetime]]
  <2>1. CASE q.state = None
    BY <2>1 DEF Receive, TokenInv, TypeOK
  <2>2. CASE q.state \in Providers /\ q.state # None
    <3>1. state[c] \in [Providers -> 0..StateLifetime]
      BY <1>1 DEF TokenInv, TypeOK
    <3>2. [state[c] EXCEPT ![q.state] = 0] \in [Providers -> 0..StateLifetime]
      BY <2>2, <3>1, SessionsAssumption
    <3> QED
      BY <1>1, <2>2, <3>2 DEF Receive, TokenInv, TypeOK
  <2> QED
    BY <1>1, <2>1, <2>2
<1>4. TokensOnTheirWay'
  BY <1>2 DEF TokenInv, TypeOK, TokensOnTheirWay, InFlight, Idle
<1>5. CASE q.tokens = None
  <2>1. UNCHANGED <<access, refresh>>
    BY <1>5 DEF Receive
  <2>2. TypeOK'
    BY <1>2, <1>3, <2>1 DEF TokenInv, TypeOK
  <2> QED
    BY <1>2, <1>4, <2>1, <2>2 DEF TokenInv, TokensTogether, CookieTokens
<1>6. CASE q.tokens # None
  <2>1. /\ access' = [access EXCEPT ![c] = q.tokens.access]
        /\ refresh' = [refresh EXCEPT ![c] = q.tokens.refresh]
    BY <1>6 DEF Receive
  <2>2. CASE q.tokens = Clear
    <3>1. q.tokens.access = None /\ q.tokens.refresh = None
      BY <2>2 DEF Clear
    <3>2. TypeOK'
      BY <1>1, <1>2, <1>3, <2>1, <3>1 DEF TokenInv, TypeOK
    <3>3. TokensTogether'
      BY <1>1, <2>1, <3>1 DEF TokenInv, TypeOK, TokensTogether
    <3>4. CookieTokens'
      BY <1>1, <1>2, <2>1, <3>1 DEF TokenInv, TypeOK, CookieTokens
    <3> QED
      BY <1>4, <3>2, <3>3, <3>4 DEF TokenInv
  <2>3. CASE q.tokens # Clear
    <3>1. InFlight(r)
      BY <1>6, <2>3 DEF InFlight, Receive
    <3>2. /\ q.tokens.access \in AccessToken
          /\ q.tokens.refresh \in RefreshToken
          /\ Speaks(q.tokens.access, logins, removed)
          /\ Paired(q.tokens.access, q.tokens.refresh)
      BY <3>1, RequestTypes DEF TokenInv, TokensOnTheirWay, TokenPair
    <3>3. TypeOK'
      BY <1>1, <1>2, <1>3, <2>1, <3>2 DEF TokenInv, TypeOK
    <3>4. TokensTogether'
      <4>1. q.tokens.refresh # None
        BY <3>2, NoneAssumption
      <4> QED
        BY <1>1, <2>1, <3>2, <4>1 DEF TokenInv, TypeOK, TokensTogether, Paired
    <3>5. CookieTokens'
      <4>1. logins[q.tokens.refresh.sub] # {}
        BY <3>2 DEF Speaks, Paired
      <4> QED
        BY <1>1, <1>2, <2>1, <3>2, <4>1 DEF TokenInv, TypeOK, CookieTokens
    <3> QED
      BY <1>4, <3>3, <3>4, <3>5 DEF TokenInv
  <2> QED
    BY <2>2, <2>3
<1> QED
  BY <1>5, <1>6

-----------------------------------------------------------------------------
(* Time: what a token says ages with it.                                    *)
LEMMA AgedAccess ==
    ASSUME NEW t \in AccessToken \cup {None}
    PROVE  /\ Aged(t) \in AccessToken \cup {None}
           /\ t # None /\ t.ttl > 1 =>
                Aged(t) \in AccessToken /\ Aged(t) = [t EXCEPT !.ttl = @ - 1]
           /\ Aged(t) # None => t # None /\ t.ttl > 1
<1>1. CASE t = None
  BY <1>1 DEF Aged
<1>2. CASE t # None /\ t.ttl = 1
  BY <1>2 DEF Aged
<1>3. CASE t # None /\ t.ttl # 1
  <2>1. t.ttl \in 1..AccessLifetime /\ t.ttl # 1
    BY <1>3 DEF AccessToken
  <2>2. t.ttl - 1 \in 1..AccessLifetime /\ t.ttl > 1
    BY <2>1, SessionsAssumption
  <2>3. [t EXCEPT !.ttl = @ - 1] \in AccessToken
    BY <1>3, <2>2 DEF AccessToken
  <2> QED
    BY <1>3, <2>2, <2>3 DEF Aged
<1> QED
  BY <1>1, <1>2, <1>3

LEMMA AgedRefresh ==
    ASSUME NEW t \in RefreshToken \cup {None}
    PROVE  /\ Aged(t) \in RefreshToken \cup {None}
           /\ t # None /\ t.ttl > 1 =>
                Aged(t) \in RefreshToken /\ Aged(t) = [t EXCEPT !.ttl = @ - 1]
           /\ Aged(t) # None => t # None /\ t.ttl > 1
<1>1. CASE t = None
  BY <1>1 DEF Aged
<1>2. CASE t # None /\ t.ttl = 1
  BY <1>2 DEF Aged
<1>3. CASE t # None /\ t.ttl # 1
  <2>1. t.ttl \in 1..RefreshLifetime /\ t.ttl # 1
    BY <1>3 DEF RefreshToken
  <2>2. t.ttl - 1 \in 1..RefreshLifetime /\ t.ttl > 1
    BY <2>1, SessionsAssumption
  <2>3. [t EXCEPT !.ttl = @ - 1] \in RefreshToken
    BY <1>3, <2>2 DEF RefreshToken
  <2> QED
    BY <1>3, <2>2, <2>3 DEF Aged
<1> QED
  BY <1>1, <1>2, <1>3

LEMMA SpeaksLater ==
    ASSUME NEW t \in AccessToken, t.ttl > 1, TypeOK, Tick, Speaks(t, logins, removed)
    PROVE  Speaks([t EXCEPT !.ttl = @ - 1], logins', removed')
<1>1. /\ logins' = logins
      /\ removed' = [u \in Users |-> [p \in Providers |->
                       IF removed[u][p] < AccessLifetime THEN removed[u][p] + 1
                       ELSE AccessLifetime]]
  BY DEF Tick
<1>2. /\ t.sub \in Users
      /\ t.ttl \in Nat
      /\ [t EXCEPT !.ttl = @ - 1].sub = t.sub
      /\ [t EXCEPT !.ttl = @ - 1].accounts = t.accounts
      /\ [t EXCEPT !.ttl = @ - 1].ttl = t.ttl - 1
  BY DEF AccessToken
<1>3. \A p \in Providers : removed[t.sub][p] \in 0..AccessLifetime
  BY <1>2 DEF TypeOK
<1>4. \A p \in Providers :
         removed[t.sub][p] + t.ttl <= AccessLifetime
           => removed'[t.sub][p] + (t.ttl - 1) <= AccessLifetime
  BY <1>1, <1>2, <1>3, SessionsAssumption
<1> QED
  BY <1>1, <1>2, <1>4 DEF Speaks

LEMMA TickTokens ==
    ASSUME TokenInv, Tick
    PROVE  TokenInv'
<1>1. /\ logins' = logins
      /\ overlapping' = overlapping
      /\ access' = [c \in Clients |-> Aged(access[c])]
      /\ refresh' = [c \in Clients |-> Aged(refresh[c])]
  BY DEF Tick
<1>2. ASSUME NEW c \in Clients
      PROVE  /\ access[c] \in AccessToken \cup {None}
             /\ refresh[c] \in RefreshToken \cup {None}
  BY DEF TokenInv, TypeOK
<1>3. ASSUME NEW r \in Requests, InFlight(r)
      PROVE  /\ reqs[r] \in Answer
             /\ reqs[r].tokens.access \in AccessToken
             /\ reqs[r].tokens.access # None
             /\ reqs[r].tokens.access.ttl > 1
             /\ reqs[r].tokens.refresh \in RefreshToken
             /\ reqs[r].tokens.refresh # None
             /\ reqs[r].tokens.refresh.ttl > 1
             /\ reqs[r].tokens.refresh.sub = reqs[r].tokens.access.sub
             /\ reqs[r].tokens.refresh.ttl >= reqs[r].tokens.access.ttl
             /\ Speaks(reqs[r].tokens.access, logins, removed)
  <2>1. reqs[r] \in Answer /\ reqs[r].tokens \in TokenPair
    BY <1>3, RequestTypes DEF TokenInv
  <2>2. reqs[r].tokens.access.ttl > 1
    BY <1>3 DEF Tick
  <2>3. reqs[r].tokens.access \in AccessToken /\ reqs[r].tokens.refresh \in RefreshToken
    BY <2>1 DEF TokenPair
  <2>4. /\ Speaks(reqs[r].tokens.access, logins, removed)
        /\ Paired(reqs[r].tokens.access, reqs[r].tokens.refresh)
    BY <1>3 DEF TokenInv, TokensOnTheirWay
  <2>5. reqs[r].tokens.access.ttl \in Int /\ reqs[r].tokens.refresh.ttl \in Int
    BY <2>3 DEF AccessToken, RefreshToken
  <2>6. reqs[r].tokens.refresh.ttl > 1
    BY <2>2, <2>4, <2>5 DEF Paired
  <2> QED
    BY <2>1, <2>2, <2>3, <2>4, <2>6, NoneAssumption DEF Paired
<1>4. ASSUME NEW r \in Requests, InFlight(r)
      PROVE  /\ reqs'[r] = [reqs[r] EXCEPT !.tokens =
                              [access |-> Aged(reqs[r].tokens.access),
                               refresh |-> Aged(reqs[r].tokens.refresh)]]
             /\ Aged(reqs[r].tokens.access) \in AccessToken
             /\ Aged(reqs[r].tokens.access) =
                  [reqs[r].tokens.access EXCEPT !.ttl = @ - 1]
             /\ Aged(reqs[r].tokens.refresh) \in RefreshToken
             /\ Aged(reqs[r].tokens.refresh) =
                  [reqs[r].tokens.refresh EXCEPT !.ttl = @ - 1]
  <2>1. reqs'[r] = [reqs[r] EXCEPT !.tokens =
                              [access |-> Aged(reqs[r].tokens.access),
                               refresh |-> Aged(reqs[r].tokens.refresh)]]
    BY <1>4 DEF Tick
  <2> QED
    BY <1>3, <1>4, <2>1, AgedAccess, AgedRefresh
<1>5. ASSUME NEW r \in Requests, ~InFlight(r)
      PROVE  reqs'[r] = reqs[r]
  BY <1>5 DEF Tick
<1>6. TypeOK'
  <2>1. removed' \in [Users -> [Providers -> 0..AccessLifetime]]
    <3>1. \A u \in Users, p \in Providers : removed[u][p] \in 0..AccessLifetime
      BY DEF TokenInv, TypeOK
    <3>2. \A u \in Users, p \in Providers :
             (IF removed[u][p] < AccessLifetime THEN removed[u][p] + 1
              ELSE AccessLifetime) \in 0..AccessLifetime
      BY <3>1, SessionsAssumption
    <3> QED
      BY <3>2 DEF Tick
  <2>2. state' \in [Clients -> [Providers -> 0..StateLifetime]]
    <3>1. \A c \in Clients, p \in Providers : state[c][p] \in 0..StateLifetime
      BY DEF TokenInv, TypeOK
    <3>2. \A c \in Clients, p \in Providers :
             (IF state[c][p] > 0 THEN state[c][p] - 1 ELSE 0) \in 0..StateLifetime
      BY <3>1, SessionsAssumption
    <3> QED
      BY <3>2 DEF Tick
  <2>3. \A r \in Requests : reqs'[r] \in Answer \cup Connecting \cup {Idle}
    <3>1. ASSUME NEW r \in Requests, InFlight(r) PROVE reqs'[r] \in Answer
      <4>1. [access |-> Aged(reqs[r].tokens.access),
             refresh |-> Aged(reqs[r].tokens.refresh)] \in TokenPair
        BY <1>4, <3>1 DEF TokenPair
      <4> HIDE DEF TokenPair
      <4> QED
        BY <1>3, <1>4, <3>1, <4>1 DEF Answer
    <3> QED
      BY <1>5, <3>1 DEF TokenInv, TypeOK
  <2>4. reqs' = [r \in Requests |-> reqs'[r]]
    BY DEF Tick
  <2>5. reqs' \in [Requests -> Answer \cup Connecting \cup {Idle}]
    BY <2>3, <2>4
  <2>6. /\ access' \in [Clients -> AccessToken \cup {None}]
        /\ refresh' \in [Clients -> RefreshToken \cup {None}]
    BY <1>1, <1>2, AgedAccess, AgedRefresh
  <2> QED
    BY <1>1, <2>1, <2>2, <2>5, <2>6 DEF TokenInv, TypeOK
<1>7. ASSUME NEW c \in Clients, access'[c] # None
      PROVE  /\ access[c] \in AccessToken
             /\ access[c] # None
             /\ access[c].ttl > 1
             /\ access'[c] = [access[c] EXCEPT !.ttl = @ - 1]
             /\ refresh[c] \in RefreshToken
             /\ refresh[c].sub = access[c].sub
             /\ refresh[c].ttl >= access[c].ttl
             /\ refresh'[c] = [refresh[c] EXCEPT !.ttl = @ - 1]
             /\ refresh'[c] \in RefreshToken
  <2>1. /\ access[c] # None
        /\ access[c].ttl > 1
        /\ access'[c] = [access[c] EXCEPT !.ttl = @ - 1]
    BY <1>1, <1>2, <1>7, AgedAccess
  <2>2. /\ refresh[c] # None
        /\ refresh[c].sub = access[c].sub
        /\ refresh[c].ttl >= access[c].ttl
    BY <2>1 DEF TokenInv, TokensTogether
  <2>3. access[c] \in AccessToken /\ refresh[c] \in RefreshToken
    BY <1>2, <2>1, <2>2
  <2>4. access[c].ttl \in Int /\ refresh[c].ttl \in Int
    BY <2>3 DEF AccessToken, RefreshToken
  <2>5. refresh[c].ttl > 1
    BY <2>1, <2>2, <2>4
  <2>6. /\ Aged(refresh[c]) \in RefreshToken
        /\ Aged(refresh[c]) = [refresh[c] EXCEPT !.ttl = @ - 1]
    BY <2>2, <2>3, <2>5, AgedRefresh
  <2> QED
    BY <1>1, <2>1, <2>2, <2>3, <2>6
<1>8. TokensTogether'
  <2> SUFFICES ASSUME NEW c \in Clients, access'[c] # None
               PROVE  /\ refresh'[c] # None
                      /\ refresh'[c].sub = access'[c].sub
                      /\ refresh'[c].ttl >= access'[c].ttl
    BY DEF TokensTogether
  <2>0. access[c] \in AccessToken /\ refresh[c] \in RefreshToken
    BY <1>7
  <2>1. access[c].ttl \in Int /\ refresh[c].ttl \in Int
    BY <2>0 DEF AccessToken, RefreshToken
  <2>2. /\ access'[c].sub = access[c].sub
        /\ access'[c].ttl = access[c].ttl - 1
    BY <1>7 DEF AccessToken
  <2>3. /\ refresh'[c].sub = refresh[c].sub
        /\ refresh'[c].ttl = refresh[c].ttl - 1
        /\ refresh'[c] \in RefreshToken
    BY <1>7 DEF RefreshToken
  <2>4. refresh[c].sub = access[c].sub /\ refresh[c].ttl >= access[c].ttl
    BY <1>7
  <2>5. refresh'[c].ttl >= access'[c].ttl
    BY <2>1, <2>2, <2>3, <2>4
  <2>6. refresh'[c].sub = access'[c].sub
    BY <2>2, <2>3, <2>4
  <2> QED
    BY <2>3, <2>5, <2>6, NoneAssumption
<1>9. CookieTokens'
  <2>1. ASSUME NEW c \in Clients, access'[c] # None
        PROVE  Speaks(access'[c], logins', removed')
    <3>1. Speaks(access[c], logins, removed)
      BY <1>7, <2>1 DEF TokenInv, CookieTokens
    <3> QED
      BY <1>7, <2>1, <3>1, SpeaksLater DEF TokenInv
  <2>2. ASSUME NEW c \in Clients, refresh'[c] # None
        PROVE  logins'[refresh'[c].sub] # {}
    <3>1. /\ refresh[c] # None
          /\ refresh[c].ttl > 1
          /\ refresh'[c] = [refresh[c] EXCEPT !.ttl = @ - 1]
      BY <1>1, <1>2, <2>2, AgedRefresh
    <3>2. refresh[c] \in RefreshToken
      BY <1>2, <3>1
    <3>3. refresh'[c].sub = refresh[c].sub
      BY <3>1, <3>2 DEF RefreshToken
    <3> QED
      BY <1>1, <3>1, <3>3 DEF TokenInv, CookieTokens
  <2> QED
    BY <2>1, <2>2 DEF CookieTokens
<1>10. TokensOnTheirWay'
  <2> SUFFICES ASSUME NEW r \in Requests, InFlight(r)'
               PROVE  /\ Speaks(reqs'[r].tokens.access, logins', removed')
                      /\ Paired(reqs'[r].tokens.access, reqs'[r].tokens.refresh)
    BY DEF TokensOnTheirWay
  <2>1. InFlight(r)
    BY <1>5 DEF InFlight
  <2> DEFINE a == reqs[r].tokens.access
             b == reqs[r].tokens.refresh
  <2>2. /\ reqs'[r].tokens.access = [a EXCEPT !.ttl = @ - 1]
        /\ reqs'[r].tokens.refresh = [b EXCEPT !.ttl = @ - 1]
    <3>1. reqs'[r].tokens = [access |-> Aged(a), refresh |-> Aged(b)]
      BY <1>3, <1>4, <2>1 DEF Answer
    <3>2. Aged(a) = [a EXCEPT !.ttl = @ - 1] /\ Aged(b) = [b EXCEPT !.ttl = @ - 1]
      BY <1>4, <2>1
    <3> QED
      BY <3>1, <3>2
  <2>3. Speaks([a EXCEPT !.ttl = @ - 1], logins', removed')
    BY <1>3, <2>1, SpeaksLater DEF TokenInv
  <2>4. a.ttl \in Int /\ b.ttl \in Int /\ b.sub = a.sub /\ b.ttl >= a.ttl
    BY <1>3, <2>1 DEF AccessToken, RefreshToken
  <2>5. [a EXCEPT !.ttl = @ - 1].sub = a.sub /\ [a EXCEPT !.ttl = @ - 1].ttl = a.ttl - 1
    BY <1>3, <2>1 DEF AccessToken
  <2>6. [b EXCEPT !.ttl = @ - 1].sub = b.sub /\ [b EXCEPT !.ttl = @ - 1].ttl = b.ttl - 1
    BY <1>3, <2>1 DEF RefreshToken
  <2> HIDE DEF a, b
  <2> QED
    BY <2>2, <2>3, <2>4, <2>5, <2>6 DEF Paired
<1> QED
  BY <1>6, <1>8, <1>9, <1>10 DEF TokenInv

-----------------------------------------------------------------------------
LEMMA TokenNext == TokenInv /\ [Next]_vars => TokenInv'
<1> SUFFICES ASSUME TokenInv, [Next]_vars PROVE TokenInv'
  OBVIOUS
<1>0. /\ logins \in [Users -> SUBSET LoginProvider]
      /\ reqs \in [Requests -> Answer \cup Connecting \cup {Idle}]
  BY DEF TokenInv, TypeOK
<1>1. ASSUME NEW r \in Requests, NEW c \in Clients, NEW u \in Users, Register(r, c, u)
      PROVE  TokenInv'
  <2>1. /\ logins' \in [Users -> SUBSET LoginProvider]
        /\ logins'[u] = {EmailAndPassword}
    BY <1>0, <1>1 DEF Register, LoginProvider
  <2>2. Grows(logins, logins')
    BY <1>0, <1>1 DEF Register, Created, Grows
  <2> QED
    BY <1>1, <2>1, <2>2, ReplyTokens DEF Register
<1>2. ASSUME NEW r \in Requests, NEW c \in Clients, NEW u \in Users, Login(r, c, u)
      PROVE  TokenInv'
  <2>1. logins'[u] = logins[u] /\ logins[u] # {}
    BY <1>2 DEF Login, OwnersOf
  <2> QED
    BY <1>0, <1>2, <2>1, GrowsSame, ReplyTokens DEF Login
<1>3. ASSUME NEW r \in Requests, NEW c \in Clients, Refresh(r, c)
      PROVE  TokenInv'
  <2> DEFINE u == refresh[c].sub
  <2>1. u \in Users /\ logins[u] # {}
    BY <1>3 DEF Refresh, TokenInv, TypeOK, CookieTokens, RefreshToken
  <2>2. Reply(r, c, Tokens(u, logins'[u]), None, FALSE)
    BY <1>3 DEF Refresh
  <2>3. logins' = logins /\ UNCHANGED <<removed, access, refresh, state, overlapping>>
    BY <1>3 DEF Refresh
  <2> HIDE DEF u
  <2> QED
    BY <1>0, <2>1, <2>2, <2>3, GrowsSame, ReplyTokens
<1>4. ASSUME NEW r \in Requests, NEW c \in Clients, EndSession(r, c)
      PROVE  TokenInv'
  <2> DEFINE A == [phase |-> "answer", client |-> c, tokens |-> Clear,
                   state |-> None, password |-> FALSE]
  <2>1. A \in Answer
    BY AnswerType
  <2>2. /\ reqs' = [reqs EXCEPT ![r] = A]
        /\ logins' = logins
        /\ UNCHANGED <<removed, access, refresh, state, overlapping>>
    BY <1>4 DEF EndSession, Reply
  <2>3. A.tokens = Clear
    OBVIOUS
  <2> HIDE DEF A
  <2> QED
    BY <1>0, <2>1, <2>2, <2>3, GrowsSame, RequestWithoutTokens
<1>5. ASSUME NEW r \in Requests, NEW c \in Clients, NEW p \in Providers,
             ConnectOAuthCallback(r, c, p)
      PROVE  TokenInv'
  <2> DEFINE A(s) == [phase |-> "connect", client |-> c, provider |-> p,
                      state |-> s, sub |-> Sub(c)]
  <2>1. Sub(c) \in Users \cup {None}
    BY DEF Sub, TokenInv, TypeOK, AccessToken
  <2>2. PICK s \in Providers : reqs' = [reqs EXCEPT ![r] = A(s)]
    BY <1>5 DEF ConnectOAuthCallback
  <2>3. A(s) \in Connecting /\ A(s).phase # "answer"
    BY <2>1 DEF Connecting
  <2>4. logins' = logins /\ UNCHANGED <<removed, access, refresh, state, overlapping>>
    BY <1>5 DEF ConnectOAuthCallback
  <2> HIDE DEF A
  <2> QED
    BY <1>0, <2>2, <2>3, <2>4, GrowsSame, RequestWithoutTokens
<1>6. ASSUME NEW c \in Clients, NEW p \in Providers, LoginWithOAuth(c, p)
      PROVE  TokenInv'
  <2>1. state[c] \in [Providers -> 0..StateLifetime]
    BY DEF TokenInv, TypeOK
  <2>2. [state[c] EXCEPT ![p] = StateLifetime] \in [Providers -> 0..StateLifetime]
    BY <2>1, SessionsAssumption
  <2>3. TypeOK'
    BY <1>6, <2>2 DEF LoginWithOAuth, SetOAuthState, TokenInv, TypeOK
  <2> QED
    BY <1>6, <2>3, GrowsSame, BrowsersKeepTokens DEF LoginWithOAuth
<1>7. ASSUME NEW r \in Requests, reqs[r].phase = "connect"
      PROVE  /\ reqs[r] \in Connecting
             /\ reqs[r].client \in Clients
             /\ reqs[r].provider \in Providers /\ reqs[r].state \in Providers
             /\ reqs[r].sub \in Users \cup {None}
  <2>1. reqs[r] \in Connecting
    BY <1>7, RequestTypes DEF TokenInv
  <2> QED
    BY <2>1 DEF Connecting
<1>8. ASSUME NEW r \in Requests, LinkOAuth(r) PROVE TokenInv'
  <2> DEFINE q == reqs[r]
             u == q.sub
  <2>1. q.client \in Clients /\ {q.provider, q.state} \subseteq Providers /\ u \in Users
    BY <1>7, <1>8 DEF LinkOAuth
  <2>2. /\ logins' = [logins EXCEPT ![u] = @ \cup {q.provider}]
        /\ Reply(r, q.client, Tokens(u, logins[u] \cup {q.provider}), q.state, FALSE)
        /\ UNCHANGED <<removed, access, refresh, state, overlapping>>
    BY <1>8 DEF LinkOAuth
  <2>3. /\ logins' \in [Users -> SUBSET LoginProvider]
        /\ logins'[u] = logins[u] \cup {q.provider}
    BY <1>0, <2>1, <2>2 DEF LoginProvider
  <2>4. q.provider # EmailAndPassword
    BY <2>1, SessionsAssumption
  <2>5. Grows(logins, logins')
    BY <1>0, <2>2, <2>4 DEF Grows
  <2> HIDE DEF q, u
  <2> QED
    BY <2>1, <2>2, <2>3, <2>5, ReplyTokens
<1>9. ASSUME NEW r \in Requests, LoginOAuth(r) PROVE TokenInv'
  <2> DEFINE q == reqs[r]
  <2>1. q.client \in Clients /\ {q.provider, q.state} \subseteq Providers
    BY <1>7, <1>9 DEF LoginOAuth
  <2>2. PICK u \in OwnersOf(q.provider) :
           Reply(r, q.client, Tokens(u, logins[u]), q.state, FALSE)
    BY <1>9 DEF LoginOAuth
  <2>3. logins' = logins /\ UNCHANGED <<removed, access, refresh, state, overlapping>>
    BY <1>9 DEF LoginOAuth
  <2>4. u \in Users /\ logins[u] # {}
    BY <2>2 DEF OwnersOf
  <2> HIDE DEF q
  <2> QED
    BY <1>0, <2>1, <2>2, <2>3, <2>4, GrowsSame, ReplyTokens
<1>10. ASSUME NEW r \in Requests, NEW u \in Users, CreateOAuthUser(r, u)
       PROVE  TokenInv'
  <2> DEFINE q == reqs[r]
  <2>1. q.client \in Clients /\ {q.provider, q.state} \subseteq Providers
    BY <1>7, <1>10 DEF CreateOAuthUser
  <2>2. /\ ~Created(u)
        /\ logins' = [logins EXCEPT ![u] = {q.provider}]
        /\ UNCHANGED <<removed, access, refresh, state, overlapping>>
    BY <1>10 DEF CreateOAuthUser
  <2>3. /\ logins' \in [Users -> SUBSET LoginProvider]
        /\ logins'[u] = {q.provider}
    BY <1>0, <2>1, <2>2 DEF LoginProvider
  <2>4. Grows(logins, logins')
    BY <1>0, <2>2 DEF Created, Grows
  <2>5. \/ Reply(r, q.client, Tokens(u, {q.provider}), q.state, FALSE)
        \/ reqs' = [reqs EXCEPT ![r] = Idle]
    BY <1>10 DEF CreateOAuthUser
  <2> HIDE DEF q
  <2>6. CASE Reply(r, q.client, Tokens(u, {q.provider}), q.state, FALSE)
    BY <2>1, <2>2, <2>3, <2>4, <2>6, ReplyTokens
  <2>7. CASE reqs' = [reqs EXCEPT ![r] = Idle]
    <3>1. Idle.phase # "answer"
      BY DEF Idle
    <3> QED
      BY <2>2, <2>3, <2>4, <2>7, <3>1, RequestWithoutTokens
  <2> QED
    BY <2>5, <2>6, <2>7
<1>11. ASSUME NEW r \in Requests, ConnectRefused(r) PROVE TokenInv'
  <2> DEFINE q == reqs[r]
             A == [phase |-> "answer", client |-> q.client, tokens |-> None,
                   state |-> q.state, password |-> FALSE]
  <2>1. q.client \in Clients /\ {q.provider, q.state} \subseteq Providers
    BY <1>7, <1>11 DEF ConnectRefused
  <2>2. A \in Answer
    BY <2>1, AnswerType
  <2>3. /\ reqs' = [reqs EXCEPT ![r] = A]
        /\ logins' = logins
        /\ UNCHANGED <<removed, access, refresh, state, overlapping>>
    BY <1>11 DEF ConnectRefused, Reply
  <2>4. A.tokens = None
    OBVIOUS
  <2> HIDE DEF q, A
  <2> QED
    BY <1>0, <2>2, <2>3, <2>4, GrowsSame, RequestWithoutTokens
<1>12. ASSUME NEW r \in Requests, Lose(r) PROVE TokenInv'
  <2>1. Idle.phase # "answer"
    BY DEF Idle
  <2> QED
    BY <1>0, <1>12, <2>1, GrowsSame, RequestWithoutTokens DEF Lose
<1>13. CASE UNCHANGED vars
  BY <1>13 DEF vars, TokenInv, TypeOK, TokensTogether, CookieTokens,
               TokensOnTheirWay, InFlight
<1> QED
  BY <1>1, <1>2, <1>3, <1>4, <1>5, <1>6, <1>8, <1>9, <1>10, <1>11, <1>12, <1>13,
     UnlinkTokens, ReceiveTokens, TickTokens DEF Next

(* The tokens that browsers hold, and those on their way to them, are pairs *)
(* of one user and speak of its logins as they were when they were signed.  *)
THEOREM TokensStay == Spec => []TokenInv
<1>1. TokenInv /\ [Next]_vars => TokenInv'
  BY TokenNext
<1> QED
  BY <1>1, TokenInit, PTL DEF Spec

(* Variables keep their types.                                              *)
THEOREM SessionTypes == Spec => []TypeOK
<1>1. TokenInv => TypeOK
  BY DEF TokenInv
<1> QED
  BY <1>1, TokensStay, PTL

(* Browsers hold pairs of tokens, of one user, in whatever order answers    *)
(* come, and if some are lost.                                              *)
THEOREM PairsStayTogether == Spec => []TokensTogether
<1>1. TokenInv => TokensTogether
  BY DEF TokenInv
<1> QED
  BY <1>1, TokensStay, PTL

(* The guard's verdict on e-mail users is that of the database.             *)
THEOREM GuardAlwaysAgrees == Spec => []GuardAgrees
<1>1. TokenInv => GuardAgrees
  BY DEF TokenInv, CookieTokens, Speaks, GuardAgrees, Permitted
<1> QED
  BY <1>1, TokensStay, PTL

(* No token speaks of a removed login for longer than an access token lives.*)
THEOREM RemovedLoginsFade == Spec => []RemovedLoginFades
<1>1. TokenInv => RemovedLoginFades
  BY DEF TokenInv, CookieTokens, Speaks, RemovedLoginFades
<1> QED
  BY <1>1, TokensStay, PTL

-----------------------------------------------------------------------------
(* One request after the other: while it is under way nobody else gives its *)
(* browser tokens, so that what a callback found is still so, or the access *)
(* token has expired.                                                       *)
OneAtATime ==
    \A r, x \in Requests :
        /\ r # x
        /\ reqs[r] # Idle
        /\ reqs[x] # Idle
        /\ reqs[r].client = reqs[x].client
        => reqs[r].client \in overlapping
KeepsUser(q, held) ==
    /\ q.phase = "connect" => q.sub = held.sub
    /\ /\ q.phase = "answer"
       /\ q.tokens \notin {None, Clear}
       /\ ~q.password
       => q.tokens.access.sub = held.sub
SignedInAsAsked ==
    \A r \in Requests :
        /\ reqs[r] # Idle
        /\ reqs[r].client \notin overlapping
        /\ access[reqs[r].client] # None
        => KeepsUser(reqs[r], access[reqs[r].client])

KeepInv == TokenInv /\ OneAtATime /\ SignedInAsAsked

(* A request begins...                                                      *)
LEMMA KeepBegin ==
    ASSUME KeepInv, NEW r \in Requests, NEW c \in Clients, MayRequest(r, c),
           NEW q, q # Idle, q.client = c, reqs' = [reqs EXCEPT ![r] = q],
           access[c] # None => KeepsUser(q, access[c]),
           UNCHANGED <<access, overlapping>>
    PROVE  OneAtATime' /\ SignedInAsAsked'
<1>1. /\ \A x \in Requests : x # r => reqs'[x] = reqs[x]
      /\ reqs'[r] = q
  BY DEF KeepInv, TokenInv, TypeOK
<1>2. OneAtATime'
  BY <1>1 DEF KeepInv, OneAtATime, MayRequest
<1>3. SignedInAsAsked'
  BY <1>1 DEF KeepInv, SignedInAsAsked
<1> QED
  BY <1>2, <1>3

(* ... goes on...                                                           *)
LEMMA KeepReply ==
    ASSUME KeepInv, NEW r \in Requests, NEW q, reqs[r] # Idle,
           q.client = reqs[r].client, reqs' = [reqs EXCEPT ![r] = q],
           access[reqs[r].client] # None /\ KeepsUser(reqs[r], access[reqs[r].client])
              => KeepsUser(q, access[reqs[r].client]),
           UNCHANGED <<access, overlapping>>
    PROVE  OneAtATime' /\ SignedInAsAsked'
<1>1. /\ \A x \in Requests : x # r => reqs'[x] = reqs[x]
      /\ reqs'[r] = q
  BY DEF KeepInv, TokenInv, TypeOK
<1>2. OneAtATime'
  BY <1>1 DEF KeepInv, OneAtATime
<1>3. SignedInAsAsked'
  BY <1>1 DEF KeepInv, SignedInAsAsked
<1> QED
  BY <1>2, <1>3

(* ... and ends.                                                            *)
LEMMA KeepEnd ==
    ASSUME KeepInv, NEW r \in Requests, reqs' = [reqs EXCEPT ![r] = Idle],
           UNCHANGED overlapping,
           reqs[r] # Idle,
           \A c \in Clients : c # reqs[r].client => access'[c] = access[c],
           reqs[r].client \in Clients
    PROVE  OneAtATime' /\ SignedInAsAsked'
<1>1. /\ \A x \in Requests : x # r => reqs'[x] = reqs[x]
      /\ reqs'[r] = Idle
  BY DEF KeepInv, TokenInv, TypeOK
<1>2. OneAtATime'
  BY <1>1 DEF KeepInv, OneAtATime
<1>3. SignedInAsAsked'
  <2> SUFFICES ASSUME NEW x \in Requests, reqs'[x] # Idle,
                      reqs'[x].client \notin overlapping,
                      access'[reqs'[x].client] # None
               PROVE  KeepsUser(reqs'[x], access'[reqs'[x].client])
    BY DEF SignedInAsAsked
  <2>1. x # r /\ reqs'[x] = reqs[x]
    BY <1>1
  <2>2. reqs[x].client \in Clients
    BY <2>1, RequestTypes DEF KeepInv, TokenInv, Answer, Connecting
  <2>3. reqs[x].client # reqs[r].client
    BY <2>1 DEF KeepInv, OneAtATime
  <2> QED
    BY <2>1, <2>2, <2>3 DEF KeepInv, SignedInAsAsked
<1> QED
  BY <1>2, <1>3

LEMMA KeepInit == Init => KeepInv
BY TokenInit DEF Init, KeepInv, OneAtATime, SignedInAsAsked

LEMMA KeepNext == KeepInv /\ [Next]_vars => KeepInv'
<1> SUFFICES ASSUME KeepInv, [Next]_vars PROVE OneAtATime' /\ SignedInAsAsked'
  BY TokenNext DEF KeepInv
<1>0. TypeOK /\ TokensTogether
  BY DEF KeepInv, TokenInv
<1>1. ASSUME NEW r \in Requests, NEW c \in Clients, NEW u \in Users,
             Register(r, c, u) \/ Login(r, c, u)
      PROVE  OneAtATime' /\ SignedInAsAsked'
  <2> DEFINE A(accounts) == [phase |-> "answer", client |-> c,
                             tokens |-> Tokens(u, accounts), state |-> None,
                             password |-> TRUE]
  <2>1. PICK accounts : reqs' = [reqs EXCEPT ![r] = A(accounts)]
    BY <1>1 DEF Register, Login, Reply
  <2>2. A(accounts) # Idle /\ A(accounts).client = c
    BY DEF Idle
  <2>3. KeepsUser(A(accounts), access[c])
    BY DEF KeepsUser
  <2>4. MayRequest(r, c) /\ UNCHANGED <<access, overlapping>>
    BY <1>1 DEF Register, Login
  <2> HIDE DEF A
  <2> QED
    BY <2>1, <2>2, <2>3, <2>4, KeepBegin
<1>2. ASSUME NEW r \in Requests, NEW c \in Clients, Refresh(r, c)
      PROVE  OneAtATime' /\ SignedInAsAsked'
  <2> DEFINE u == refresh[c].sub
             A == [phase |-> "answer", client |-> c, tokens |-> Tokens(u, logins[u]),
                   state |-> None, password |-> FALSE]
  <2>1. MayRequest(r, c) /\ UNCHANGED <<access, overlapping>>
    BY <1>2 DEF Refresh
  <2>2. reqs' = [reqs EXCEPT ![r] = A]
    BY <1>2 DEF Refresh, Reply
  <2>3. A # Idle /\ A.client = c
    BY DEF Idle
  <2>4. ASSUME access[c] # None PROVE KeepsUser(A, access[c])
    <3>1. u = access[c].sub
      BY <1>0, <2>4 DEF TokensTogether
    <3> QED
      BY <3>1 DEF KeepsUser, Tokens
  <2> HIDE DEF A
  <2> QED
    BY <2>1, <2>2, <2>3, <2>4, KeepBegin
<1>3. ASSUME NEW r \in Requests, NEW c \in Clients, EndSession(r, c)
      PROVE  OneAtATime' /\ SignedInAsAsked'
  <2> DEFINE A == [phase |-> "answer", client |-> c, tokens |-> Clear,
                   state |-> None, password |-> FALSE]
  <2>1. MayRequest(r, c) /\ UNCHANGED <<access, overlapping>>
    BY <1>3 DEF EndSession
  <2>2. reqs' = [reqs EXCEPT ![r] = A]
    BY <1>3 DEF EndSession, Reply
  <2>3. A # Idle /\ A.client = c
    BY DEF Idle
  <2>4. KeepsUser(A, access[c])
    BY DEF KeepsUser
  <2> HIDE DEF A
  <2> QED
    BY <2>1, <2>2, <2>3, <2>4, KeepBegin
<1>4. ASSUME NEW r \in Requests, NEW c \in Clients, NEW p \in Providers,
             ConnectOAuthCallback(r, c, p)
      PROVE  OneAtATime' /\ SignedInAsAsked'
  <2> DEFINE A(s) == [phase |-> "connect", client |-> c, provider |-> p,
                      state |-> s, sub |-> Sub(c)]
  <2>1. MayRequest(r, c) /\ UNCHANGED <<access, overlapping>>
    BY <1>4 DEF ConnectOAuthCallback
  <2>2. PICK s \in Providers : reqs' = [reqs EXCEPT ![r] = A(s)]
    BY <1>4 DEF ConnectOAuthCallback
  <2>3. A(s) # Idle /\ A(s).client = c
    BY DEF Idle
  <2>4. access[c] # None => KeepsUser(A(s), access[c])
    BY DEF KeepsUser, Sub
  <2> HIDE DEF A
  <2> QED
    BY <2>1, <2>2, <2>3, <2>4, KeepBegin
<1>5. ASSUME NEW c \in Clients, NEW p \in Providers,
             Unlink(c, p) \/ LoginWithOAuth(c, p)
      PROVE  OneAtATime' /\ SignedInAsAsked'
  BY <1>5 DEF Unlink, LoginWithOAuth, KeepInv, OneAtATime, SignedInAsAsked
<1>6. ASSUME NEW r \in Requests, LinkOAuth(r) PROVE OneAtATime' /\ SignedInAsAsked'
  <2> DEFINE q == reqs[r]
             A == [phase |-> "answer", client |-> q.client,
                   tokens |-> Tokens(q.sub, logins[q.sub] \cup {q.provider}),
                   state |-> q.state, password |-> FALSE]
  <2>1. reqs' = [reqs EXCEPT ![r] = A] /\ UNCHANGED <<access, overlapping>>
    BY <1>6 DEF LinkOAuth, Reply
  <2>2. q # Idle /\ A.client = q.client
    BY <1>6 DEF LinkOAuth, Idle
  <2>3. KeepsUser(q, access[q.client]) => KeepsUser(A, access[q.client])
    BY <1>6 DEF KeepsUser, LinkOAuth, Tokens
  <2> HIDE DEF A
  <2> QED
    BY <2>1, <2>2, <2>3, KeepReply
<1>7. ASSUME NEW r \in Requests, LoginOAuth(r) PROVE OneAtATime' /\ SignedInAsAsked'
  <2> DEFINE q == reqs[r]
             A(u) == [phase |-> "answer", client |-> q.client,
                      tokens |-> Tokens(u, logins[u]), state |-> q.state,
                      password |-> FALSE]
  <2>1. PICK u \in Users : reqs' = [reqs EXCEPT ![r] = A(u)]
    BY <1>7 DEF LoginOAuth, Reply, OwnersOf
  <2>2. UNCHANGED <<access, overlapping>>
    BY <1>7 DEF LoginOAuth
  <2>3. q # Idle /\ A(u).client = q.client
    BY <1>7 DEF LoginOAuth, Idle
  <2>4. q \in Connecting
    BY <1>0, <1>7, RequestTypes DEF LoginOAuth
  <2>5. ~(access[q.client] # None /\ KeepsUser(q, access[q.client]))
    <3>1. access[q.client] # None => access[q.client].sub \in Users
      BY <1>0, <2>4 DEF TypeOK, Connecting, AccessToken
    <3> QED
      BY <1>7, <3>1, SessionsAssumption DEF LoginOAuth, KeepsUser
  <2> HIDE DEF A
  <2> QED
    BY <2>1, <2>2, <2>3, <2>5, KeepReply
<1>8. ASSUME NEW r \in Requests, NEW u \in Users, CreateOAuthUser(r, u)
      PROVE  OneAtATime' /\ SignedInAsAsked'
  <2> DEFINE q == reqs[r]
             A == [phase |-> "answer", client |-> q.client,
                   tokens |-> Tokens(u, {q.provider}), state |-> q.state,
                   password |-> FALSE]
  <2>1. UNCHANGED <<access, overlapping>>
    BY <1>8 DEF CreateOAuthUser
  <2>2. q \in Connecting /\ q # Idle
    BY <1>0, <1>8, RequestTypes DEF CreateOAuthUser, Idle
  <2>3. ~(access[q.client] # None /\ KeepsUser(q, access[q.client]))
    <3>1. access[q.client] # None => access[q.client].sub \in Users
      BY <1>0, <2>2 DEF TypeOK, Connecting, AccessToken
    <3> QED
      BY <1>8, <3>1, SessionsAssumption DEF CreateOAuthUser, KeepsUser
  <2>4. CASE reqs' = [reqs EXCEPT ![r] = A]
    <3>1. A.client = q.client
      OBVIOUS
    <3> HIDE DEF A
    <3> QED
      BY <2>1, <2>2, <2>3, <2>4, <3>1, KeepReply
  <2>5. CASE reqs' = [reqs EXCEPT ![r] = Idle]
    <3>1. q.client \in Clients
      BY <2>2 DEF Connecting
    <3> QED
      BY <2>1, <2>2, <2>5, <3>1, KeepEnd
  <2> QED
    BY <1>8, <2>4, <2>5 DEF CreateOAuthUser, Reply
<1>9. ASSUME NEW r \in Requests, ConnectRefused(r) PROVE OneAtATime' /\ SignedInAsAsked'
  <2> DEFINE q == reqs[r]
             A == [phase |-> "answer", client |-> q.client, tokens |-> None,
                   state |-> q.state, password |-> FALSE]
  <2>1. reqs' = [reqs EXCEPT ![r] = A] /\ UNCHANGED <<access, overlapping>>
    BY <1>9 DEF ConnectRefused, Reply
  <2>2. q # Idle /\ A.client = q.client
    BY <1>9 DEF ConnectRefused, Idle
  <2>3. KeepsUser(A, access[q.client])
    BY DEF KeepsUser
  <2> HIDE DEF A
  <2> QED
    BY <2>1, <2>2, <2>3, KeepReply
<1>10. ASSUME NEW r \in Requests, reqs[r] # Idle PROVE reqs[r].client \in Clients
  BY <1>0, <1>10, RequestTypes DEF Answer, Connecting
<1>11. ASSUME NEW r \in Requests, Receive(r) PROVE OneAtATime' /\ SignedInAsAsked'
  <2>1. reqs[r] # Idle
    BY <1>11 DEF Receive, Idle
  <2>2. \A c \in Clients : c # reqs[r].client => access'[c] = access[c]
    BY <1>0, <1>10, <1>11, <2>1 DEF Receive, TypeOK
  <2> QED
    BY <1>10, <1>11, <2>1, <2>2, KeepEnd DEF Receive
<1>12. ASSUME NEW r \in Requests, Lose(r) PROVE OneAtATime' /\ SignedInAsAsked'
  BY <1>10, <1>12, KeepEnd DEF Lose
<1>13. CASE Tick
  <2>1. ASSUME NEW r \in Requests
        PROVE  /\ reqs'[r] # Idle => reqs[r] # Idle
               /\ reqs[r] # Idle => reqs'[r].client = reqs[r].client
               /\ reqs[r] # Idle =>
                    \A held : KeepsUser(reqs[r], held) => KeepsUser(reqs'[r], held)
    <3>1. CASE ~InFlight(r)
      BY <1>13, <3>1 DEF Tick
    <3>2. CASE InFlight(r)
      <4>1. reqs[r] \in Answer /\ reqs[r].tokens \in TokenPair
        BY <1>0, <3>2, RequestTypes
      <4> DEFINE a == Aged(reqs[r].tokens.access)
                 b == Aged(reqs[r].tokens.refresh)
      <4>2. reqs'[r] = [reqs[r] EXCEPT !.tokens = [access |-> a, refresh |-> b]]
        BY <1>13, <3>2 DEF Tick
      <4>3. reqs[r].tokens.access \in AccessToken /\ reqs[r].tokens.access.ttl > 1
        BY <1>13, <3>2, <4>1 DEF Tick, TokenPair
      <4>4. a = [reqs[r].tokens.access EXCEPT !.ttl = @ - 1]
        BY <4>3, AgedAccess, NoneAssumption
      <4>5. a.sub = reqs[r].tokens.access.sub
        BY <4>3, <4>4 DEF AccessToken
      <4> HIDE DEF a, b
      <4>6. /\ reqs'[r].client = reqs[r].client
            /\ reqs'[r].phase = reqs[r].phase
            /\ reqs'[r].password = reqs[r].password
            /\ reqs'[r].tokens.access = a
        BY <4>1, <4>2 DEF Answer
      <4>7. reqs[r].phase = "answer" /\ reqs[r].tokens \notin {None, Clear}
        BY <3>2 DEF InFlight
      <4> QED
        BY <4>5, <4>6, <4>7 DEF KeepsUser, Idle
    <3> QED
      BY <3>1, <3>2
  <2>2. overlapping' = overlapping
    BY <1>13 DEF Tick
  <2>3. OneAtATime'
    BY <2>1, <2>2 DEF KeepInv, OneAtATime
  <2>4. ASSUME NEW c \in Clients, access'[c] # None
        PROVE  access[c] # None /\ access'[c].sub = access[c].sub
    <3>1. access[c] \in AccessToken \cup {None} /\ access'[c] = Aged(access[c])
      BY <1>0, <1>13 DEF Tick, TypeOK
    <3>2. access[c] # None /\ access[c].ttl > 1
      BY <2>4, <3>1, AgedAccess
    <3>3. access[c] \in AccessToken /\ access'[c] = [access[c] EXCEPT !.ttl = @ - 1]
      BY <3>1, <3>2, AgedAccess
    <3> QED
      BY <3>2, <3>3 DEF AccessToken
  <2>5. SignedInAsAsked'
    <3> SUFFICES ASSUME NEW r \in Requests, reqs'[r] # Idle,
                        reqs'[r].client \notin overlapping,
                        access'[reqs'[r].client] # None
                 PROVE  KeepsUser(reqs'[r], access'[reqs'[r].client])
      BY <2>2 DEF SignedInAsAsked
    <3> DEFINE c == reqs[r].client
    <3>1. reqs[r] # Idle /\ reqs'[r].client = c /\ c \in Clients
      BY <1>10, <2>1
    <3>2. access[c] # None /\ access'[c].sub = access[c].sub
      BY <2>4, <3>1
    <3>3. KeepsUser(reqs[r], access[c])
      BY <3>1, <3>2 DEF KeepInv, SignedInAsAsked
    <3>4. KeepsUser(reqs'[r], access[c])
      BY <2>1, <3>1, <3>3
    <3> QED
      BY <3>1, <3>2, <3>4 DEF KeepsUser
  <2> QED
    BY <2>3, <2>5
<1>14. CASE UNCHANGED vars
  BY <1>14 DEF vars, KeepInv, OneAtATime, SignedInAsAsked
<1> QED
  BY <1>1, <1>2, <1>3, <1>4, <1>5, <1>6, <1>7, <1>8, <1>9, <1>11, <1>12, <1>13,
     <1>14 DEF Next

(* A browser with one request at a time goes on being the same user until a *)
(* password makes it another.                                               *)
THEOREM SessionsKeepTheirUser == Spec => SessionKeepsUser
<1> DEFINE Keeps ==
      \A c \in Clients \ overlapping :
          /\ access[c] # None
          /\ access'[c] # None
          /\ access'[c].sub # access[c].sub
          => \E r \in Requests : InFlight(r) /\ reqs[r].client = c /\ reqs[r].password
<1>1. KeepInv /\ [Next]_vars => [Keeps]_vars
  <2> SUFFICES ASSUME KeepInv, Next, NEW c \in Clients \ overlapping,
                      access[c] # None, access'[c] # None,
                      access'[c].sub # access[c].sub
               PROVE  \E r \in Requests :
                         InFlight(r) /\ reqs[r].client = c /\ reqs[r].password
    OBVIOUS
  <2>0. TypeOK
    BY DEF KeepInv, TokenInv
  <2>1. CASE Tick
    <3>1. access[c] \in AccessToken \cup {None} /\ access'[c] = Aged(access[c])
      BY <2>0, <2>1 DEF Tick, TypeOK
    <3>2. access[c].ttl > 1
      BY <3>1, AgedAccess
    <3>3. access[c] \in AccessToken /\ access'[c] = [access[c] EXCEPT !.ttl = @ - 1]
      BY <3>1, <3>2, AgedAccess
    <3> QED
      BY <3>3 DEF AccessToken
  <2>2. ASSUME NEW r \in Requests, Receive(r)
        PROVE  InFlight(r) /\ reqs[r].client = c /\ reqs[r].password
    <3>1. reqs[r] \in Answer /\ reqs[r] # Idle
      BY <2>0, <2>2, RequestTypes DEF Receive, Idle
    <3>2. /\ reqs[r].client = c
          /\ reqs[r].tokens \notin {None}
          /\ access'[c] = reqs[r].tokens.access
      BY <2>0, <2>2, <3>1 DEF Receive, TypeOK, Answer
    <3>3. reqs[r].tokens # Clear
      BY <3>2 DEF Clear
    <3>4. InFlight(r)
      BY <2>2, <3>2, <3>3 DEF InFlight, Receive
    <3>5. KeepsUser(reqs[r], access[c])
      BY <3>1, <3>2 DEF KeepInv, SignedInAsAsked
    <3> QED
      BY <3>2, <3>4, <3>5 DEF KeepsUser, InFlight
  <2>3. CASE ~Tick /\ \A r \in Requests : ~Receive(r)
    <3>1. access' = access
      BY <2>3 DEF Next, Register, Login, Refresh, EndSession, ConnectOAuthCallback,
                  Unlink, LoginWithOAuth, LinkOAuth, LoginOAuth, CreateOAuthUser,
                  ConnectRefused, Lose
    <3> QED
      BY <3>1
  <2> QED
    BY <2>1, <2>2, <2>3
<1>2. Spec => []KeepInv
  <2>1. KeepInv /\ [Next]_vars => KeepInv'
    BY KeepNext
  <2> QED
    BY <2>1, KeepInit, PTL DEF Spec
<1>3. Spec => [][Keeps]_vars
  <2>1. Spec => [][Next]_vars
    BY PTL DEF Spec
  <2> HIDE DEF Keeps
  <2> QED
    BY <1>1, <1>2, <2>1, PTL
<1> QED
  BY <1>3 DEF SessionKeepsUser
-----------------------------------------------------------------------------
(* The logins that change, as LoginMethods has them: a callback links to a  *)
(* user that was created, for the token that it came with said so.          *)
ConnectingCreated ==
    \A r \in Requests :
        reqs[r].phase = "connect" /\ reqs[r].sub # None => logins[reqs[r].sub] # {}

LoginsInv == TokenInv /\ ConnectingCreated

(* Every step is one of LoginMethods, or leaves the logins alone.           *)
LEMMA LoginsStep == LoginsInv /\ [Next]_vars => [LM!Next]_logins
<1> SUFFICES ASSUME LoginsInv, [Next]_vars, logins' # logins PROVE LM!Next
  OBVIOUS
<1>0. TypeOK /\ TokenInv /\ ConnectingCreated
  BY DEF LoginsInv, TokenInv
<1>a. \A p : OwnersOf(p) = {} => LM!Free(p)
  BY DEF OwnersOf, LM!Free
<1>b. \A p \in LoginProvider : [x \in LoginProvider |-> x][p] = p
  OBVIOUS
<1>c. \A p \in Providers : p \in LoginProvider /\ p # EmailAndPassword
  BY SessionsAssumption DEF LoginProvider
<1>1. ASSUME NEW r \in Requests, NEW c \in Clients, NEW u \in Users, Register(r, c, u)
      PROVE  LM!Next
  <2>1. LM!Create(u, EmailAndPassword)
    BY <1>a, <1>1 DEF Register, Created, LM!Create
  <2> QED
    BY <2>1 DEF LM!Next, LoginProvider
<1>2. ASSUME NEW c \in Clients, NEW p \in Providers, Unlink(c, p) PROVE LM!Next
  <2>1. Sub(c) \in Users
    BY <1>0, <1>2 DEF Unlink, Permitted, Sub, TypeOK, AccessToken
  <2>2. LM!Unlink(Sub(c), p)
    BY <1>b, <1>c, <1>2 DEF Unlink, LM!Unlink
  <2> QED
    BY <1>c, <2>1, <2>2 DEF LM!Next
<1>3. ASSUME NEW r \in Requests, LinkOAuth(r) PROVE LM!Next
  <2> DEFINE u == reqs[r].sub
             p == reqs[r].provider
  <2>1. u \in Users /\ p \in Providers
    BY <1>0, <1>3, RequestTypes DEF LinkOAuth, Connecting
  <2>2. logins[u] # {} /\ LM!Free(p) /\ logins' = [logins EXCEPT ![u] = @ \cup {p}]
    BY <1>0, <1>a, <1>3 DEF LinkOAuth, ConnectingCreated
  <2>3. \A x \in logins[u] : x \in LoginProvider /\ x # p
    BY <1>0, <2>1, <2>2 DEF TypeOK, LM!Free
  <2> HIDE DEF u, p
  <2>4. LM!Link(u, p)
    BY <1>b, <1>c, <2>1, <2>2, <2>3 DEF LM!Link
  <2> QED
    BY <1>c, <2>1, <2>4 DEF LM!Next
<1>4. ASSUME NEW r \in Requests, NEW u \in Users, CreateOAuthUser(r, u) PROVE LM!Next
  <2>1. reqs[r].provider \in Providers
    BY <1>0, <1>4, RequestTypes DEF CreateOAuthUser, Connecting
  <2>2. LM!Create(u, reqs[r].provider)
    BY <1>a, <1>4 DEF CreateOAuthUser, Created, LM!Create
  <2> QED
    BY <1>c, <2>1, <2>2 DEF LM!Next
<1>5. CASE /\ \A r \in Requests, c \in Clients, u \in Users : ~Register(r, c, u)
           /\ \A c \in Clients, p \in Providers : ~Unlink(c, p)
           /\ \A r \in Requests : ~LinkOAuth(r)
           /\ \A r \in Requests, u \in Users : ~CreateOAuthUser(r, u)
  BY <1>5 DEF Next, vars, Login, Refresh, EndSession, ConnectOAuthCallback,
              LoginWithOAuth, LoginOAuth, ConnectRefused, Receive, Lose, Tick
<1> QED
  BY <1>1, <1>2, <1>3, <1>4, <1>5

(* A user that was created keeps a login.                                   *)
LEMMA CreatedStays ==
    ASSUME LoginsInv, [Next]_vars, NEW u \in Users, logins[u] # {}
    PROVE  logins'[u] # {}
<1>0. logins \in [Users -> SUBSET LoginProvider]
  BY DEF LoginsInv, TokenInv, TypeOK
<1>1. CASE logins' = logins
  BY <1>1
<1>2. CASE logins' # logins
  <2>1. PICK v \in Users, l \in LoginProvider :
           LM!Create(v, l) \/ LM!Link(v, l) \/ LM!Unlink(v, l)
    BY <1>2, LoginsStep DEF LM!Next
  <2>2. CASE LM!Create(v, l)
    BY <1>0, <2>2 DEF LM!Create
  <2>3. CASE LM!Link(v, l)
    BY <1>0, <2>3 DEF LM!Link
  <2>4. CASE LM!Unlink(v, l)
    BY <1>0, <2>4 DEF LM!Unlink
  <2> QED
    BY <2>1, <2>2, <2>3, <2>4
<1> QED
  BY <1>1, <1>2

LEMMA LoginsNext == LoginsInv /\ [Next]_vars => LoginsInv'
<1> SUFFICES ASSUME LoginsInv, [Next]_vars, NEW r \in Requests,
                    reqs'[r].phase = "connect", reqs'[r].sub # None
             PROVE  logins'[reqs'[r].sub] # {}
  BY TokenNext DEF LoginsInv, ConnectingCreated
<1>0. TypeOK /\ TokenInv /\ ConnectingCreated
  BY DEF LoginsInv, TokenInv
<1>a. ASSUME NEW x \in Requests, NEW c, NEW t, NEW p, NEW w, Reply(x, c, t, p, w)
      PROVE  reqs'[r] = reqs[r]
  BY <1>0, <1>a DEF Reply, TypeOK
<1>b. ASSUME NEW x \in Requests, reqs' = [reqs EXCEPT ![x] = Idle]
      PROVE  reqs'[r] = reqs[r]
  BY <1>0, <1>b DEF Idle, TypeOK
<1>1. CASE reqs'[r] = reqs[r]
  <2>1. reqs[r].sub \in Users
    BY <1>0, <1>1, RequestTypes DEF Connecting
  <2> QED
    BY <1>0, <1>1, <2>1, CreatedStays DEF ConnectingCreated
<1>2. ASSUME NEW c \in Clients, NEW p \in Providers, ConnectOAuthCallback(r, c, p)
      PROVE  logins'[reqs'[r].sub] # {}
  <2>1. reqs'[r].sub = Sub(c) /\ logins' = logins
    BY <1>0, <1>2 DEF ConnectOAuthCallback, TypeOK
  <2>2. access[c] # None /\ Sub(c) = access[c].sub
    BY <2>1 DEF Sub
  <2>3. Speaks(access[c], logins, removed)
    BY <1>0, <2>2 DEF TokenInv, CookieTokens
  <2> QED
    BY <2>1, <2>2, <2>3 DEF Speaks
<1>3. CASE /\ reqs'[r] # reqs[r]
           /\ \A c \in Clients, p \in Providers : ~ConnectOAuthCallback(r, c, p)
  <2>1. CASE Tick
    BY <1>0, <1>3, <2>1 DEF Tick, TypeOK, InFlight
  <2>2. ASSUME NEW x \in Requests, NEW c \in Clients,
               \/ \E u \in Users : Register(x, c, u) \/ Login(x, c, u)
               \/ Refresh(x, c)
               \/ EndSession(x, c)
        PROVE  FALSE
    BY <1>3, <1>a, <2>2 DEF Register, Login, Refresh, EndSession
  <2>3. ASSUME NEW x \in Requests,
               \/ LinkOAuth(x)
               \/ LoginOAuth(x)
               \/ \E u \in Users : CreateOAuthUser(x, u)
               \/ ConnectRefused(x)
        PROVE  FALSE
    BY <1>3, <1>a, <1>b, <2>3 DEF LinkOAuth, LoginOAuth, CreateOAuthUser, ConnectRefused
  <2>4. ASSUME NEW x \in Requests, Receive(x) \/ Lose(x) PROVE FALSE
    BY <1>3, <1>b, <2>4 DEF Receive, Lose
  <2>5. ASSUME NEW x \in Requests, NEW c \in Clients, NEW p \in Providers,
               ConnectOAuthCallback(x, c, p)
        PROVE  FALSE
    <3>1. x # r
      BY <1>3, <2>5
    <3> QED
      BY <1>0, <1>3, <2>5, <3>1 DEF ConnectOAuthCallback, TypeOK
  <2>6. ASSUME NEW c \in Clients, NEW p \in Providers, Unlink(c, p) \/ LoginWithOAuth(c, p)
        PROVE  FALSE
    BY <1>3, <2>6 DEF Unlink, LoginWithOAuth
  <2>7. CASE UNCHANGED vars
    BY <1>3, <2>7 DEF vars
  <2> QED
    BY <2>1, <2>2, <2>3, <2>4, <2>5, <2>6, <2>7 DEF Next
<1> QED
  BY <1>1, <1>2, <1>3

(* The handlers, with callbacks that waited and tokens of an earlier state, *)
(* change logins as LoginMethods says: by one that is free, of a user that  *)
(* exists, and never the last.                                              *)
THEOREM SessionsImplementLoginMethods == Spec => ImplementsLoginMethods
<1>1. Init => LM!Init
  BY DEF Init, LM!Init
<1>2. Init => LoginsInv
  BY TokenInit DEF LoginsInv, ConnectingCreated, Init, Idle
<1> QED
  BY <1>1, <1>2, LoginsStep, LoginsNext, PTL DEF Spec, ImplementsLoginMethods, LM!Spec
=============================================================================
