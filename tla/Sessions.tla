------------------------------ MODULE Sessions ------------------------------
(***************************************************************************)
(* The tokens that the browsers of one person hold, and the OAuth flow that*)
(* signs in, creates a user or links a login.  The person has one e-mail   *)
(* address and one account at every provider; two people share nothing.    *)
(*                                                                         *)
(* Tokens are signed, not stored: nothing revokes them, and what they say  *)
(* of their user is what was true when they were signed.  A browser learns *)
(* of a change by an answer that sets or clears cookies, which may come    *)
(* late or never.  A callback from a provider decides on arrival whether it*)
(* is somebody's who is signed in, waits for the provider twice, and acts  *)
(* on that.                                                                *)
(*                                                                         *)
(* What a handler reads and writes in the database is one step here; its   *)
(* races are the subject of UserAccounts.  The second factor, without which*)
(* some logins get no tokens, is that of TwoFactorLogin.                   *)
(***************************************************************************)
EXTENDS Integers

CONSTANTS
    Users,            \* user ids
    Clients,          \* the person's browsers
    Providers,        \* OAuthProvider
    Requests,         \* slots for requests in flight
    AccessLifetime,   \* TokenExpirationInSeconds.Access, in ticks
    RefreshLifetime,  \* TokenExpirationInSeconds.Refresh, in ticks
    StateLifetime,    \* maxAge of the state cookie, in ticks
    None              \* undefined or null

EmailAndPassword == "EmailAndPassword"

ASSUME SessionsAssumption ==
    /\ AccessLifetime \in Nat \ {0}
    /\ RefreshLifetime \in Nat
    /\ RefreshLifetime >= AccessLifetime
    /\ StateLifetime \in Nat \ {0}
    /\ EmailAndPassword \notin Providers
    /\ None \notin Users \cup Providers

VARIABLES
    logins,    \* the ways to log in to each user; none: not created
    removed,   \* ticks since a login was last removed from a user, counted
               \* to AccessLifetime; nothing in the program reads it
    access,    \* each browser's access token, while it is valid, or None
    refresh,   \* each browser's refresh token, while it is valid, or None
    state,     \* ticks left of a browser's state cookies
    reqs,      \* requests in flight
    overlapping  \* browsers that have several requests in flight at a time

vars == <<logins, removed, access, refresh, state, reqs, overlapping>>

-----------------------------------------------------------------------------
LoginProvider == Providers \cup {EmailAndPassword}

(* The claims, and the payload of a refresh token.  refresh_count and the   *)
(* claim `2fa` are read by nobody.                                          *)
AccessToken == [sub : Users, accounts : SUBSET LoginProvider, ttl : 1..AccessLifetime]
RefreshToken == [sub : Users, ttl : 1..RefreshLifetime]

ASSUME NoneAssumption == None \notin AccessToken \cup RefreshToken

(* createAuthenticationTokens, of a user with these logins                  *)
Tokens(u, accounts) ==
    [access  |-> [sub |-> u, accounts |-> accounts, ttl |-> AccessLifetime],
     refresh |-> [sub |-> u, ttl |-> RefreshLifetime]]

(* Cookies of an answer: it sets both tokens, clears both or leaves them    *)
(* alone, and may clear a state cookie.                                     *)
Clear == [access |-> None, refresh |-> None]
TokenPair == [access : AccessToken, refresh : RefreshToken]
Answer == [phase : {"answer"}, client : Clients,
           tokens : TokenPair \cup {Clear, None}, state : Providers \cup {None},
           password : BOOLEAN]
Connecting == [phase : {"connect"}, client : Clients, provider : Providers,
               state : Providers, sub : Users \cup {None}]
Idle == [phase |-> "idle"]

Init ==
    /\ logins = [u \in Users |-> {}]
    /\ removed = [u \in Users |-> [p \in Providers |-> AccessLifetime]]
    /\ access = [c \in Clients |-> None]
    /\ refresh = [c \in Clients |-> None]
    /\ state = [c \in Clients |-> [p \in Providers |-> 0]]
    /\ reqs = [r \in Requests |-> Idle]
    /\ overlapping \in SUBSET Clients

(* getAuthenticatedUser: the claims of a valid access token                 *)
Sub(c) == IF access[c] = None THEN None ELSE access[c].sub

(* AuthGuard *)
Permitted(c, required) ==
    /\ access[c] # None
    /\ required # {} => access[c].accounts \cap required # {}

MayRequest(r, c) ==
    /\ reqs[r] = Idle
    /\ c \in overlapping \/ \A x \in Requests : reqs[x] # Idle => reqs[x].client # c

Reply(r, c, tokens, p, password) ==
    reqs' = [reqs EXCEPT ![r] =
               [phase |-> "answer", client |-> c, tokens |-> tokens, state |-> p,
                password |-> password]]

Created(u) == logins[u] # {}
OwnersOf(provider) == {u \in Users : provider \in logins[u]}

-----------------------------------------------------------------------------
(* Requests with a body or a token                                          *)

(* RegisterCommandHandler: nobody may have the e-mail address.              *)
Register(r, c, u) ==
    /\ MayRequest(r, c)
    /\ OwnersOf(EmailAndPassword) = {}
    /\ ~Created(u)
    /\ logins' = [logins EXCEPT ![u] = {EmailAndPassword}]
    /\ Reply(r, c, Tokens(u, {EmailAndPassword}), None, TRUE)
    /\ UNCHANGED <<removed, access, refresh, state, overlapping>>

(* LoginCommandHandler, or the confirmation of its second factor            *)
Login(r, c, u) ==
    /\ MayRequest(r, c)
    /\ u \in OwnersOf(EmailAndPassword)
    /\ Reply(r, c, Tokens(u, logins[u]), None, TRUE)
    /\ UNCHANGED <<logins, removed, access, refresh, state, overlapping>>

(* Fault: a valid access token is signed again.                             *)
RefreshOldClaims(r, c) ==
    /\ MayRequest(r, c)
    /\ refresh[c] # None
    /\ LET u == refresh[c].sub
       IN  Reply(r, c, Tokens(u, IF access[c] # None THEN access[c].accounts
                                 ELSE logins[u]), None, FALSE)
    /\ UNCHANGED <<logins, removed, access, refresh, state, overlapping>>

(* RefreshAccessTokenCommandHandler *)
Refresh(r, c) ==
    /\ MayRequest(r, c)
    /\ refresh[c] # None
    /\ LET u == refresh[c].sub IN Reply(r, c, Tokens(u, logins[u]), None, FALSE)
    /\ UNCHANGED <<logins, removed, access, refresh, state, overlapping>>

(* Logout; or a refresh without a valid token, or whose save is refused:    *)
(* the controller clears the cookies and throws on.                         *)
EndSession(r, c) ==
    /\ MayRequest(r, c)
    /\ Reply(r, c, Clear, None, FALSE)
    /\ UNCHANGED <<logins, removed, access, refresh, state, overlapping>>

(* UnlinkOAuthCommandHandler; its answer sets no cookie.                    *)
Unlink(c, p) ==
    LET u == Sub(c)
    IN  /\ Permitted(c, {})
        /\ p \in logins[u]
        /\ logins[u] # {p}
        /\ logins' = [logins EXCEPT ![u] = @ \ {p}]
        /\ removed' = [removed EXCEPT ![u][p] = 0]
        /\ UNCHANGED <<access, refresh, state, reqs, overlapping>>

-----------------------------------------------------------------------------
(* OAuth                                                                    *)

(* setOAuthStateToResponseCookie: a service has one state for everybody, so *)
(* a browser has at most one state cookie of it.                            *)
SetOAuthState(c, p) == [state EXCEPT ![c][p] = StateLifetime]

(* loginWithOAuth sets the state cookie and redirects to the provider.      *)
LoginWithOAuth(c, p) ==
    /\ state' = SetOAuthState(c, p)
    /\ UNCHANGED <<logins, removed, access, refresh, reqs, overlapping>>

(* connectOAuthCallback up to getToken.  The state in the URL is one a login*)
(* URL was given, and there must be a cookie of that name; nobody asks      *)
(* whether it is this provider's.  Without one it ends in an exception that *)
(* changes nothing.                                                         *)
ConnectOAuthCallback(r, c, p) ==
    /\ MayRequest(r, c)
    /\ \E s \in Providers :
          /\ state[c][s] > 0
          /\ reqs' = [reqs EXCEPT ![r] =
                        [phase |-> "connect", client |-> c, provider |-> p,
                         state |-> s, sub |-> Sub(c)]]
    /\ UNCHANGED <<logins, removed, access, refresh, state, overlapping>>

(* Fault: the tokens are those of whoever owns the provider's account.      *)
LinkOAuthToOwner(r) ==
    LET q == reqs[r]
        owned == OwnersOf(q.provider) # {}
        u == IF owned THEN CHOOSE x \in OwnersOf(q.provider) : TRUE ELSE q.sub
    IN  /\ q.phase = "connect"
        /\ q.sub # None
        /\ q.provider \notin logins[q.sub]
        /\ logins' = IF owned THEN logins
                     ELSE [logins EXCEPT ![u] = @ \cup {q.provider}]
        /\ Reply(r, q.client, Tokens(u, logins[u] \cup {q.provider}), q.state, FALSE)
        /\ UNCHANGED <<removed, access, refresh, state, overlapping>>

(* Fault: nobody asks whose the provider's account is.                      *)
LinkOAuthUnasked(r) ==
    LET q == reqs[r]
    IN  /\ q.phase = "connect"
        /\ q.sub # None
        /\ logins' = [logins EXCEPT ![q.sub] = @ \cup {q.provider}]
        /\ Reply(r, q.client, Tokens(q.sub, logins[q.sub] \cup {q.provider}),
                 q.state, FALSE)
        /\ UNCHANGED <<removed, access, refresh, state, overlapping>>

(* linkOAuth, for a callback that came with a valid access token            *)
LinkOAuth(r) ==
    LET q == reqs[r]
    IN  /\ q.phase = "connect"
        /\ q.sub # None
        /\ OwnersOf(q.provider) = {}
        /\ logins' = [logins EXCEPT ![q.sub] = @ \cup {q.provider}]
        /\ Reply(r, q.client, Tokens(q.sub, logins[q.sub] \cup {q.provider}),
                 q.state, FALSE)
        /\ UNCHANGED <<removed, access, refresh, state, overlapping>>

(* Fault: the tokens speak of the login that was used.                      *)
LoginOAuthPartialLoad(r) ==
    LET q == reqs[r]
    IN  /\ q.phase = "connect"
        /\ q.sub = None
        /\ \E u \in OwnersOf(q.provider) :
              Reply(r, q.client, Tokens(u, {q.provider}), q.state, FALSE)
        /\ UNCHANGED <<logins, removed, access, refresh, state, overlapping>>

(* Fault: a known account is not looked for, and createUser refuses it.     *)
LoginOAuthUnknown(r) ==
    LET q == reqs[r]
    IN  /\ q.phase = "connect"
        /\ q.sub = None
        /\ OwnersOf(q.provider) # {}
        /\ Reply(r, q.client, None, q.state, FALSE)
        /\ UNCHANGED <<logins, removed, access, refresh, state, overlapping>>

(* loginOAuth, for one without: the user of the provider's account...       *)
LoginOAuth(r) ==
    LET q == reqs[r]
    IN  /\ q.phase = "connect"
        /\ q.sub = None
        /\ \E u \in OwnersOf(q.provider) :
              Reply(r, q.client, Tokens(u, logins[u]), q.state, FALSE)
        /\ UNCHANGED <<logins, removed, access, refresh, state, overlapping>>

(* ... or a new one.  createUser saves it, the handler saves it again; when *)
(* that fails there is a user and the answer is an error 500, with which    *)
(* the exception filter has nothing to do.                                  *)
CreateOAuthUser(r, u) ==
    LET q == reqs[r]
    IN  /\ q.phase = "connect"
        /\ q.sub = None
        /\ OwnersOf(q.provider) = {}
        /\ ~Created(u)
        /\ logins' = [logins EXCEPT ![u] = {q.provider}]
        /\ \/ Reply(r, q.client, Tokens(u, {q.provider}), q.state, FALSE)
           \/ reqs' = [reqs EXCEPT ![r] = Idle]
        /\ UNCHANGED <<removed, access, refresh, state, overlapping>>

(* The provider refuses the code or the token, the user has a login of the  *)
(* provider, or another user has this one: OAuthExceptionFilter clears the  *)
(* state cookie.                                                            *)
ConnectRefused(r) ==
    LET q == reqs[r]
    IN  /\ q.phase = "connect"
        /\ Reply(r, q.client, None, q.state, FALSE)
        /\ UNCHANGED <<logins, removed, access, refresh, state, overlapping>>

-----------------------------------------------------------------------------
(* Answers and time                                                         *)

(* Fault: the refresh token stays the old one while there is one.           *)
ReceiveKeepsRefresh(r) ==
    LET q == reqs[r]
        c == q.client
    IN  /\ q.phase = "answer"
        /\ IF q.tokens = None THEN UNCHANGED <<access, refresh>>
           ELSE /\ access' = [access EXCEPT ![c] = q.tokens.access]
                /\ refresh' = IF q.tokens = Clear \/ refresh[c] = None
                              THEN [refresh EXCEPT ![c] = q.tokens.refresh]
                              ELSE refresh
        /\ state' = IF q.state = None THEN state
                    ELSE [state EXCEPT ![c][q.state] = 0]
        /\ reqs' = [reqs EXCEPT ![r] = Idle]
        /\ UNCHANGED <<logins, removed, overlapping>>

(* The browser obeys what SetCookieTokensInterceptor, a controller or the   *)
(* filter put into the answer.                                              *)
Receive(r) ==
    LET q == reqs[r]
        c == q.client
    IN  /\ q.phase = "answer"
        /\ IF q.tokens = None THEN UNCHANGED <<access, refresh>>
           ELSE /\ access' = [access EXCEPT ![c] = q.tokens.access]
                /\ refresh' = [refresh EXCEPT ![c] = q.tokens.refresh]
        /\ state' = IF q.state = None THEN state
                    ELSE [state EXCEPT ![c][q.state] = 0]
        /\ reqs' = [reqs EXCEPT ![r] = Idle]
        /\ UNCHANGED <<logins, removed, overlapping>>

(* A save fails, the server is restarted, or the answer is lost.            *)
Lose(r) ==
    /\ reqs[r] # Idle
    /\ reqs' = [reqs EXCEPT ![r] = Idle]
    /\ UNCHANGED <<logins, removed, access, refresh, state, overlapping>>

(* Fault: a token is accepted when its time is over.                        *)
AgedLate(token) ==
    IF token = None \/ token.ttl = 0 THEN None ELSE [token EXCEPT !.ttl = @ - 1]

(* verifyToken refuses a token whose time is over.                          *)
Aged(token) ==
    IF token = None \/ token.ttl = 1 THEN None ELSE [token EXCEPT !.ttl = @ - 1]
InFlight(r) == reqs[r].phase = "answer" /\ reqs[r].tokens \notin {None, Clear}

(* Bound: an answer arrives, or is lost, while its access token is valid.   *)
Tick ==
    /\ \A r \in Requests : InFlight(r) => reqs[r].tokens.access.ttl > 1
    /\ removed' = [u \in Users |-> [p \in Providers |->
                     IF removed[u][p] < AccessLifetime THEN removed[u][p] + 1
                     ELSE AccessLifetime]]
    /\ access' = [c \in Clients |-> Aged(access[c])]
    /\ refresh' = [c \in Clients |-> Aged(refresh[c])]
    /\ state' = [c \in Clients |-> [p \in Providers |->
                   IF state[c][p] > 0 THEN state[c][p] - 1 ELSE 0]]
    /\ reqs' = [r \in Requests |->
                  IF InFlight(r)
                  THEN [reqs[r] EXCEPT !.tokens = [access  |-> Aged(@.access),
                                                   refresh |-> Aged(@.refresh)]]
                  ELSE reqs[r]]
    /\ UNCHANGED <<logins, overlapping>>

Next ==
    \/ \E r \in Requests, c \in Clients :
        \/ \E u \in Users : Register(r, c, u) \/ Login(r, c, u)
        \/ Refresh(r, c)
        \/ EndSession(r, c)
        \/ \E p \in Providers : ConnectOAuthCallback(r, c, p)
    \/ \E c \in Clients, p \in Providers : Unlink(c, p) \/ LoginWithOAuth(c, p)
    \/ \E r \in Requests :
        \/ LinkOAuth(r)
        \/ LoginOAuth(r)
        \/ \E u \in Users : CreateOAuthUser(r, u)
        \/ ConnectRefused(r)
        \/ Receive(r)
        \/ Lose(r)
    \/ Tick

Spec == Init /\ [][Next]_vars
-----------------------------------------------------------------------------
(* Properties                                                               *)

TypeOK ==
    /\ logins \in [Users -> SUBSET LoginProvider]
    /\ removed \in [Users -> [Providers -> 0..AccessLifetime]]
    /\ access \in [Clients -> AccessToken \cup {None}]
    /\ refresh \in [Clients -> RefreshToken \cup {None}]
    /\ state \in [Clients -> [Providers -> 0..StateLifetime]]
    /\ reqs \in [Requests -> Answer \cup Connecting \cup {Idle}]
    /\ overlapping \subseteq Clients

(* A browser with an access token can refresh it, to one of the same user,  *)
(* until after it has expired: answers that overtake each other, are lost or*)
(* clear the cookies never leave it with half of a pair, or of two.         *)
TokensTogether ==
    \A c \in Clients : access[c] # None =>
        /\ refresh[c] # None
        /\ refresh[c].sub = access[c].sub
        /\ refresh[c].ttl >= access[c].ttl

(* The guard of the routes for e-mail users decides by the token's claims,  *)
(* their handlers by the database.  They agree: however a browser came by   *)
(* its token, it speaks of that login when its user has it, and no login by *)
(* e-mail is ever added or removed.                                         *)
GuardAgrees ==
    \A c \in Clients : access[c] # None =>
        (Permitted(c, {EmailAndPassword}) <=> EmailAndPassword \in logins[access[c].sub])

(* A login that was removed from a user is spoken of by tokens for no longer*)
(* than an access token lives, although they can be refreshed for a week.   *)
RemovedLoginFades ==
    \A c \in Clients : access[c] # None =>
        \A p \in Providers :
            /\ p \in access[c].accounts
            /\ p \notin logins[access[c].sub]
            => removed[access[c].sub][p] + access[c].ttl <= AccessLifetime

(* A browser that is signed in, and makes one request after the other, does *)
(* not become another user by coming back from a provider; only a password  *)
(* does that.  Whether it was signed in is read before the provider is asked*)
(* and used after; it may have been signed out meanwhile, never signed in.  *)
SessionKeepsUser ==
    [][\A c \in Clients \ overlapping :
          /\ access[c] # None
          /\ access'[c] # None
          /\ access'[c].sub # access[c].sub
          => \E r \in Requests : InFlight(r) /\ reqs[r].client = c /\ reqs[r].password]_vars

-----------------------------------------------------------------------------
(* The users of this module as LoginMethods has them: each provider has one *)
(* account of the person's.                                                 *)
LM == INSTANCE LoginMethods WITH
    Logins    <- LoginProvider,
    Provider  <- [p \in LoginProvider |-> p],
    Permanent <- EmailAndPassword

(* Callbacks that waited for the provider, and tokens that say what was true*)
(* when they were signed, change the logins of users in no other way than   *)
(* the handlers of UserAccounts do: nobody is linked to a user that was     *)
(* never created, or loses the last login.                                  *)
ImplementsLoginMethods == LM!Spec

-----------------------------------------------------------------------------
(* Liveness                                                                 *)

(* The person goes to a provider and comes back, again and again.  Saves do *)
(* not fail, providers do not refuse and answers do not get lost for ever,  *)
(* and every request ends.                                                  *)
ReturningSpec ==
    /\ Spec
    /\ \A r \in Requests : WF_vars(Receive(r) \/ Lose(r))
    /\ \A c \in Clients :
          /\ SF_vars(/\ access[c] = None
                     /\ \E r \in Requests : MayRequest(r, c)
                     /\ \E p \in Providers : LoginWithOAuth(c, p))
          /\ SF_vars(\E r \in Requests, p \in Providers : ConnectOAuthCallback(r, c, p))
          /\ SF_vars(\E r \in Requests :
                        /\ reqs[r] # Idle
                        /\ reqs[r].client = c
                        /\ \/ LinkOAuth(r)
                           \/ LoginOAuth(r)
                           \/ \E u \in Users : CreateOAuthUser(r, u) /\ reqs'[r] # Idle)
          /\ SF_vars(\E r \in Requests :
                        InFlight(r) /\ reqs[r].client = c /\ Receive(r))

(* Somebody with accounts at the providers can always sign in, also after a *)
(* user was created whose second save failed: the next attempt finds it.    *)
ReturningPersonSignsIn == \A c \in Clients : []<>(access[c] # None)
=============================================================================
